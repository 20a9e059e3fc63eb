---------------------------- MODULE MCEventLoop ----------------------------
(* Two clients on three descriptor numbers. *)
EXTENDS EventLoop

\* Nothing is claimed of the loop once it is not calm, so nothing is explored.
Calm == calm
=============================================================================
