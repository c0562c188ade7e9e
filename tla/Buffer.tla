------------------------------- MODULE Buffer -------------------------------
(***************************************************************************)
(* muduo::net::Buffer: a vector of bytes and two indexes, against the      *)
(* plain sequence of bytes it stands for.  A byte is a digit of base       *)
(* Radix, so that integers go in and out in network order.  The indexes    *)
(* count from 0 as the code's do.                                          *)
(***************************************************************************)
EXTENDS Integers, Sequences, FiniteSets, SequencesExt

CONSTANTS
  CheapPrepend, \* kCheapPrepend
  InitialSize,  \* kInitialSize
  ExtraSize,    \* sizeof extrabuf in readFd()
  Radix,        \* values of a byte
  IntSize,      \* bytes of the integers that are read and written
  MaxSize       \* bound: bytes in the vector

ASSUME BufferAssumption ==
  /\ CheapPrepend \in Nat /\ InitialSize \in Nat /\ ExtraSize \in Nat
  /\ IntSize \in Nat /\ MaxSize \in Nat
  /\ Radix \in Nat /\ Radix >= 2

VARIABLES
  store,       \* buffer_
  readerIndex, \* readerIndex_
  writerIndex, \* writerIndex_
  content      \* history: the bytes put in and not yet taken out

bufferedVars == <<store, readerIndex, writerIndex, content>>

Byte == 0..Radix-1

BufferTypeOK ==
  /\ store \in Seq(Byte)
  /\ 0 <= readerIndex /\ readerIndex <= writerIndex
  /\ writerIndex <= Len(store)

BufferInit ==
  /\ store = [i \in 1..CheapPrepend + InitialSize |-> 0]
  /\ readerIndex = CheapPrepend /\ writerIndex = CheapPrepend
  /\ content = <<>>

Readable == SubSeq(store, readerIndex + 1, writerIndex)
ReadableBytes == writerIndex - readerIndex
WritableBytes == Len(store) - writerIndex

\* bytes copied into vector s from index i on.
Copied(s, i, bytes) ==
  [k \in 1..Len(s) |-> IF k \in i+1..i+Len(bytes) THEN bytes[k - i] ELSE s[k]]

\* A vector resized to n.
Resized(s, n) == [k \in 1..n |-> IF k <= Len(s) THEN s[k] ELSE 0]

\* In makeSpace(n): moving what is readable does not make room enough.
MustGrow(s, r, w, n) == Len(s) - w + r < n + CheapPrepend

\* append() of bytes to vector s with indexes r and w.
AppendTo(s, r, w, bytes) ==
  LET n == Len(bytes)
      moves == Len(s) - w < n /\ ~MustGrow(s, r, w, n)
      grown == IF Len(s) - w >= n THEN s
               ELSE IF moves THEN Copied(s, CheapPrepend, SubSeq(s, r + 1, w))
               ELSE Resized(s, w + n)
      r2 == IF moves THEN CheapPrepend ELSE r
      w2 == IF moves THEN CheapPrepend + (w - r) ELSE w
  IN /\ store' = Copied(grown, w2, bytes)
     /\ readerIndex' = r2
     /\ writerIndex' = w2 + n

\* The values of k bytes.
Power[k \in 0..IntSize] == IF k = 0 THEN 1 ELSE Radix * Power[k - 1]

\* Integers of IntSize bytes, two's complement, in network order.
NetworkBytes(x) ==
  [k \in 1..IntSize |-> ((x + Power[IntSize]) \div Power[IntSize - k]) % Radix]

\* What the first k bytes stand for, without a sign.
Unsigned(bytes) ==
  LET value[k \in 0..IntSize] ==
        IF k = 0 THEN 0 ELSE Radix * value[k - 1] + bytes[k]
  IN value
HostInt(bytes) ==
  LET u == Unsigned(bytes)[IntSize]
  IN IF 2 * u >= Power[IntSize] THEN u - Power[IntSize] ELSE u
IntRange == -(Power[IntSize] \div 2) .. (Power[IntSize] \div 2) - 1

-----------------------------------------------------------------------------
(* Operations.                                                             *)

AppendInt(x) ==
  /\ writerIndex + IntSize <= MaxSize
  /\ AppendTo(store, readerIndex, writerIndex, NetworkBytes(x))
  /\ content' = content \o NetworkBytes(x)

\* retrieve().
Retrieve(n) ==
  /\ n \in 0..ReadableBytes
  /\ IF n < ReadableBytes
       THEN readerIndex' = readerIndex + n /\ UNCHANGED writerIndex
       ELSE readerIndex' = CheapPrepend /\ writerIndex' = CheapPrepend
  /\ content' = SubSeq(content, n + 1, Len(content))
  /\ UNCHANGED store

Unwrite(n) ==
  /\ n \in 1..ReadableBytes
  /\ writerIndex' = writerIndex - n
  /\ content' = SubSeq(content, 1, Len(content) - n)
  /\ UNCHANGED <<store, readerIndex>>

PrependInt(x) ==
  /\ IntSize <= readerIndex
  /\ readerIndex' = readerIndex - IntSize
  /\ store' = Copied(store, readerIndex', NetworkBytes(x))
  /\ content' = NetworkBytes(x) \o content
  /\ UNCHANGED writerIndex

\* shrink(): a new buffer takes the place of the old one.
Shrink(reserve) ==
  LET n == CheapPrepend + ReadableBytes + reserve
      size == IF n < CheapPrepend + InitialSize THEN CheapPrepend + InitialSize
              ELSE n
  IN /\ n <= MaxSize
     /\ store' = Copied(Resized(<<>>, size), CheapPrepend, Readable)
     /\ readerIndex' = CheapPrepend
     /\ writerIndex' = CheapPrepend + ReadableBytes
     /\ UNCHANGED content

\* Mutant of FilledIndex: writerIndex_ stays where it was.
FilledIndexOld == writerIndex

\* writerIndex_ when readv() has filled what is writable.
FilledIndex == Len(store)

\* readFd(): readv() fills what is writable, then extrabuf, which is appended.
ReadFd(bytes) ==
  LET direct == IF Len(bytes) < WritableBytes THEN Len(bytes) ELSE WritableBytes
      head == SubSeq(bytes, 1, direct)
      filled == Copied(store, writerIndex, head)
  IN /\ Len(bytes) <= WritableBytes + ExtraSize
     /\ writerIndex + Len(bytes) <= MaxSize
     /\ IF Len(bytes) <= WritableBytes
          THEN /\ store' = filled
               /\ writerIndex' = writerIndex + Len(bytes)
               /\ UNCHANGED readerIndex
          ELSE AppendTo(filled, readerIndex, FilledIndex,
                        SubSeq(bytes, direct + 1, Len(bytes)))
     /\ content' = content \o bytes

BufferNext ==
  \/ \E x \in IntRange : AppendInt(x) \/ PrependInt(x)
  \/ \E n \in 0..MaxSize : Retrieve(n) \/ Unwrite(n)
  \/ \E n \in {0, 1} : Shrink(n)
  \/ \E n \in 1..ExtraSize : ReadFd([k \in 1..n |-> k % Radix])

BufferSpec == BufferInit /\ [][BufferNext]_bufferedVars

-----------------------------------------------------------------------------
(* Properties                                                              *)

\* Whatever has been moved, grown or prepended (Buffer.h:380, Buffer.cc:43),
\* the readable bytes are those put in and not taken out, and once everything
\* is retrieved there is room again for a header in front.
ContentKept ==
  /\ Readable = content
  /\ content = <<>> => readerIndex + WritableBytes >= CheapPrepend

\* The buffer keeps its content, and an integer is read back as it was written
\* (Buffer.h:290).
BufferRight ==
  /\ ContentKept
  /\ ReadableBytes >= IntSize =>
       NetworkBytes(HostInt(SubSeq(Readable, 1, IntSize)))
         = SubSeq(content, 1, IntSize)
=============================================================================
