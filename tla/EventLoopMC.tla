---------------------------- MODULE EventLoopMC ----------------------------
(* The model values of EventLoop.cfg: the loop thread and other posters. *)
EXTENDS EventLoop

CONSTANTS loop, w1
=============================================================================
