---------------------------- MODULE Connection ----------------------------
(***************************************************************************)
(* What a TcpConnection promises the application that sends on it: the     *)
(* units it was given are written to the socket in the order they were     *)
(* given, none twice and none left out; closeCallback_ runs once at most,  *)
(* and then either all that was given has been written or the application  *)
(* has asked for the end; the object is destroyed only after the           *)
(* connection has ended.                                                   *)
(*                                                                         *)
(* How the bytes leave, in how many writes, from which handler and with    *)
(* which events armed, is TcpConnection's own.                             *)
(***************************************************************************)
EXTENDS Naturals, Sequences

CONSTANT MsgSize     \* units in one message

VARIABLES given,     \* units passed to sendString
          written,   \* the units the socket took, in order
          phase,     \* "open"; "ended", its cleanup is queued; "gone", destroyed
          closed,    \* calls of closeCallback_
          asked      \* shutDown was called

cxVars == <<given, written, phase, closed, asked>>

Init == /\ given = 0
        /\ written = <<>>
        /\ phase = "open"
        /\ closed = 0
        /\ asked = FALSE

Give == /\ phase # "gone"
        /\ given' = given + MsgSize
        /\ UNCHANGED <<written, phase, closed, asked>>

\* The next units follow those the socket has, as many of them as it takes.
Write == /\ phase # "gone"
         /\ \E n \in Len(written) + 1 .. given :
              written' = [i \in 1 .. n |-> i]
         /\ UNCHANGED <<given, phase, closed, asked>>

AskEnd == /\ phase # "gone"
          /\ asked' = TRUE
          /\ UNCHANGED <<given, written, phase, closed>>

Close == /\ phase # "gone"
         /\ closed = 0
         /\ asked \/ Len(written) = given
         /\ closed' = 1
         /\ phase' = "ended"
         /\ UNCHANGED <<given, written, asked>>

\* The socket has failed: what was not written is lost.
Fail == /\ phase = "open"
        /\ phase' = "ended"
        /\ UNCHANGED <<given, written, closed, asked>>

Destroy == /\ phase = "ended"
           /\ phase' = "gone"
           /\ UNCHANGED <<given, written, closed, asked>>

Next == Give \/ Write \/ AskEnd \/ Close \/ Fail \/ Destroy

SafeSpec == Init /\ [][Next]_cxVars

=============================================================================
