-------------------------- MODULE TcpConnectionMC --------------------------
(* The model values of the TcpConnection configurations: the workers. *)
EXTENDS TcpConnection

CONSTANTS w1, w2
=============================================================================
