---------------------------- MODULE ThreadPoolMC ----------------------------
(* The model values of the ThreadPool configurations: the posters.  They    *)
(* are not declared symmetric, since the runs check liveness.               *)
EXTENDS ThreadPool

CONSTANTS p1, p2
=============================================================================
