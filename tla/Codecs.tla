------------------------------- MODULE Codecs -------------------------------
(***************************************************************************)
(* Messages cut out of a stream that arrives in pieces, by the three       *)
(* codecs with a length in front: ProtobufCodecLite, the protobuf          *)
(* example's Codec and asio's Codec.  A unit of the stream is a byte of    *)
(* the frame it belongs to; what is in it matters only for the length and  *)
(* for what parse() says of it.                                            *)
(***************************************************************************)
EXTENDS Integers, Sequences, FiniteSets, SequencesExt

CONSTANTS
  LenBytes,   \* kHeaderLen, HEADER_LEN
  MaxLen,     \* kMaxMessageLen, UINT16_MAX
  MaxFrames   \* bound: frames of the peer

ASSUME CodecAssumption ==
  LenBytes \in Nat \ {0} /\ MaxLen \in Nat /\ MaxFrames \in Nat

VARIABLES
  codec,     \* which of the three
  frames,    \* what the peer sends, oldest first
  units,     \* of it, what has not arrived
  inBuffer,  \* the connection's input buffer
  parsing,   \* onMessage() runs
  codecConn, \* what the connection is: "up", "shutdown", "closing", "threw"
  messages   \* history: frames given to messageCallback_, oldest first

codecVars ==
  <<codec, frames, units, inBuffer, parsing, codecConn, messages>>

\* kMinMessageLen: a tag of one byte and the checksum; namelen, checksum and
\* the shortest name; nothing.
MinLen == CASE codec = "lite"    -> LenBytes + 1
            [] codec = "example" -> 2 * LenBytes + 2
            [] codec = "asio"    -> 0

\* fillEmptyBuffer() makes "good" ones and so does asio's send(); raw tells
\* what rawCb_ returns for the frame.
FramesOf(c) ==
  LET kinds == IF c = "asio" THEN {"good"}
               ELSE {"good", "checksum", "type", "unparsable"}
      least == CASE c = "lite" -> LenBytes + 1 [] c = "asio" -> 0
                 [] OTHER -> 2 * LenBytes + 2
      raws == IF c = "lite" THEN BOOLEAN ELSE {TRUE}
  IN [len : least..MaxLen, kind : kinds, raw : raws]
       \cup [len : ({least - 1} \cap Nat) \cup {MaxLen + 1},
             kind : {"length"}, raw : {TRUE}]

UnitsOf(i, frame) == [k \in 1..LenBytes + frame.len |-> [frame |-> i, at |-> k]]

CodecInit ==
  /\ codec \in {"lite", "example", "asio"}
  /\ frames = <<>> /\ units = <<>>
  /\ inBuffer = <<>> /\ parsing = FALSE
  /\ codecConn = "up" /\ messages = <<>>

CodecTypeOK ==
  /\ codecConn \in {"up", "shutdown", "closing", "threw"}
  /\ parsing \in BOOLEAN
  /\ messages \in Seq(1..MaxFrames)
  /\ Len(inBuffer) + Len(units) <= MaxFrames * (LenBytes + MaxLen + 1)

\* send() of the peer, or what a faulty one sends.
PeerSends(frame) ==
  /\ Len(frames) < MaxFrames
  /\ frames' = Append(frames, frame)
  /\ units' = units \o UnitsOf(Len(frames'), frame)
  /\ UNCHANGED <<codec, inBuffer, parsing, codecConn, messages>>

\* Some bytes arrive and onMessage() is called.
OnMessage(n) ==
  /\ ~parsing /\ codecConn \in {"up", "shutdown"}
  /\ n \in 1..Len(units)
  /\ inBuffer' = inBuffer \o SubSeq(units, 1, n)
  /\ units' = SubSeq(units, n + 1, Len(units))
  /\ parsing' = TRUE
  /\ UNCHANGED <<codec, frames, codecConn, messages>>

\* The condition of the loop.
EnoughBytes == Len(inBuffer) >= MinLen + LenBytes

\* peekInt32() at the start of the buffer, the frame it begins, and whether
\* all of that has arrived.
First == inBuffer[1].frame
ValidLen == frames[First].len \in MinLen..MaxLen
Complete == Len(inBuffer) >= LenBytes + frames[First].len

\* parse(): the checksum, the name of the type and the message itself.
Parses == frames[First].kind = "good"

\* retrieve() of a whole frame.
RetrieveFrame ==
  inBuffer' = SubSeq(inBuffer, LenBytes + frames[First].len + 1, Len(inBuffer))

\* The loop ends because too little has arrived.
WaitForMore ==
  /\ parsing
  /\ EnoughBytes => ValidLen /\ ~Complete
  /\ parsing' = FALSE
  /\ UNCHANGED <<codec, frames, units, inBuffer, codecConn, messages>>

\* rawCb_ has dealt with the frame.
SkipRaw ==
  /\ parsing /\ EnoughBytes /\ ValidLen /\ Complete
  /\ ~frames[First].raw
  /\ RetrieveFrame
  /\ UNCHANGED <<codec, frames, units, parsing, codecConn, messages>>

Deliver ==
  /\ parsing /\ EnoughBytes /\ ValidLen /\ Complete
  /\ frames[First].raw /\ Parses
  /\ messages' = Append(messages, First)
  /\ RetrieveFrame
  /\ UNCHANGED <<codec, frames, units, parsing, codecConn>>

\* Mutant of AfterError: the frame is left out and the next one is tried.
AfterErrorSkip == RetrieveFrame /\ UNCHANGED <<parsing, codecConn>>

\* The frame stays in the buffer.  The default callback of ProtobufCodecLite
\* shuts the connection down, asio's codec closes it.  The example's
\* constructor does not store its second argument: errorCallback_ is empty
\* and calling it throws.
AfterError ==
  /\ parsing' = FALSE
  /\ codecConn' = CASE codec = "lite"    -> "shutdown"
                    [] codec = "asio"    -> "closing"
                    [] codec = "example" -> "threw"
  /\ UNCHANGED inBuffer

ReportError ==
  /\ parsing /\ EnoughBytes
  /\ \/ ~ValidLen
     \/ Complete /\ frames[First].raw /\ ~Parses
  /\ AfterError
  /\ UNCHANGED <<codec, frames, units, messages>>

CodecNext ==
  \/ \E frame \in FramesOf(codec) : PeerSends(frame)
  \/ \E n \in 1..Len(units) : OnMessage(n)
  \/ WaitForMore \/ SkipRaw \/ Deliver \/ ReportError

CodecSpec == CodecInit /\ [][CodecNext]_codecVars

-----------------------------------------------------------------------------
(* Properties                                                              *)

\* The frame has arrived as a whole and is faultless.
Whole(i) == \A k \in DOMAIN units : units[k].frame # i
Faultless(frame) == frame.kind # "length" /\ (frame.raw => frame.kind = "good")

\* Frames that are to be delivered: whole ones before the first faulty one.
Expected ==
  {i \in DOMAIN frames :
     frames[i].raw /\ \A j \in 1..i : Whole(j) /\ Faultless(frames[j])}

\* However the stream is cut into pieces, the callback gets each message once,
\* in order, as soon as its last byte has arrived, and none from behind a
\* faulty one; what is left begins with a length (ProtobufCodecLite.cc:70,
\* protobuf/Codec.cpp:58, asio/Codec.cpp:27).
MessagesCut ==
  /\ \A k, l \in DOMAIN messages : k < l => messages[k] < messages[l]
  /\ Range(messages) \subseteq Expected
  /\ \A i \in Expected : i \in Range(messages) \/ parsing
  /\ \A i \in Expected, j \in Range(messages) : i < j => i \in Range(messages)
  /\ inBuffer # <<>> => inBuffer[1].at = 1
=============================================================================
