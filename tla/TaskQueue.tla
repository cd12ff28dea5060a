----------------------------- MODULE TaskQueue -----------------------------
(***************************************************************************)
(* What the two task queues of the library promise to the threads that     *)
(* hand them work: tasks are taken in the order they were handed in, each  *)
(* exactly once, as long as the consumer is open; after the consumer has   *)
(* closed the tasks still queued stay queued.                              *)
(*                                                                         *)
(* EventLoop implements this queue with a swapped vector and an eventfd,   *)
(* ThreadPool with a list, a mutex and a condition variable.               *)
(***************************************************************************)
EXTENDS Sequences

CONSTANT Task        \* the tasks that may be handed in

VARIABLES queue,     \* handed in and not yet taken, oldest first
          done,      \* taken, in the order they were taken
          open       \* the consumer has not closed

tqVars == <<queue, done, open>>

Init == /\ queue = <<>>
        /\ done = <<>>
        /\ open = TRUE

Submit(x) == /\ queue' = Append(queue, x)
             /\ UNCHANGED <<done, open>>

Perform == /\ open
           /\ queue # <<>>
           /\ done' = Append(done, Head(queue))
           /\ queue' = Tail(queue)
           /\ UNCHANGED open

Close == /\ open
         /\ open' = FALSE
         /\ UNCHANGED <<queue, done>>

Next == Close \/ Perform \/ \E x \in Task : Submit(x)

SafeSpec == Init /\ [][Next]_tqVars

\* A task that waits is taken unless the consumer closes.
Live == WF_tqVars(Perform)

Spec == SafeSpec /\ Live

=============================================================================
