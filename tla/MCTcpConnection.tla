--------------------------- MODULE MCTcpConnection --------------------------
(* Small instances of TcpConnection for TLC. *)
EXTENDS TcpConnection, TLC

\* Two bytes a message: enough for a write that takes a part of it.
TwoBytes == [m \in Messages |-> 2]

Symmetry == Permutations(Messages) \cup Permutations(Threads)
=============================================================================
