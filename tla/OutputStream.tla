---------------------------- MODULE OutputStream ----------------------------
(***************************************************************************)
(* What a connection promises about the bytes handed to it: whole messages *)
(* are accepted one after the other, the bytes leave in that order with    *)
(* none missing or repeated, and the write side is closed only when all of *)
(* them have left; after that, or with the connection gone, none leave.    *)
(***************************************************************************)
EXTENDS Sequences, SequencesExt

CONSTANTS
  Messages,
  Size        \* the length of each message

VARIABLES
  accepted,   \* bytes accepted so far
  delivered,  \* bytes handed to the kernel so far
  writeSide   \* open, closed (shut down), or lost with the connection

vars == <<accepted, delivered, writeSide>>

\* A byte is told apart by the message it belongs to.
Bytes(m) == [i \in 1 .. Size[m] |-> m]

Init == accepted = <<>> /\ delivered = <<>> /\ writeSide = "open"

\* A message may be accepted, then some bytes may leave.
Transfer ==
  /\ writeSide = "open" /\ writeSide' = "open"
  /\ \/ UNCHANGED accepted
     \/ \E m \in Messages :
          /\ m \notin Range(accepted)
          /\ accepted' = accepted \o Bytes(m)
  /\ IsPrefix(delivered, delivered')
  /\ IsPrefix(delivered', accepted')

Close ==
  /\ writeSide = "open" /\ writeSide' = "closed"
  /\ UNCHANGED accepted
  /\ delivered' = accepted

Lose ==
  /\ writeSide # "lost" /\ writeSide' = "lost"
  /\ UNCHANGED <<accepted, delivered>>

Next == Transfer \/ Close \/ Lose

Safe == Init /\ [][Next]_vars
=============================================================================
