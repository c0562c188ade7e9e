---------------------------- MODULE MCTimerQueue ----------------------------
(* Small instances of TimerQueue for TLC. *)
EXTENDS TimerQueue, TLC

\* Only equality of addresses matters, expired timers of one time run in any
\* order.
Symmetry == Permutations(Addrs)
=============================================================================
