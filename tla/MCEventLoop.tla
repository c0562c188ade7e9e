----------------------------- MODULE MCEventLoop ----------------------------
(* Small instances of EventLoop for TLC; no symmetry, for the sake of the  *)
(* liveness properties.                                                    *)
EXTENDS EventLoop
=============================================================================
