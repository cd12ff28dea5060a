----------------------------- MODULE EventLoop -----------------------------
(***************************************************************************)
(* One EventLoop: the thread that runs EventLoop::loop(), and the threads  *)
(* that hand it tasks with addTask() and wake it through an eventfd that   *)
(* epoll watches edge-triggered.                                           *)
(*                                                                         *)
(* loop() is `while (!quit_) { pollWait; handleEvent on each active        *)
(* channel; clear; executeTask }'.  addTask() pushes under mutex_ and      *)
(* writes the eventfd after it released the mutex, so a push and its       *)
(* wake-up are two steps.  The two critical sections of mutex_ (the push   *)
(* and the swap of executeTask) are one step each.                         *)
(*                                                                         *)
(* The sockets and timers of the loop are the member "io" of active: any   *)
(* of them may be ready at any poll.  A handler or a task is a callback,   *)
(* during which the loop's own thread may call addTask.                    *)
(***************************************************************************)
EXTENDS Naturals, Sequences

CONSTANTS
  Posters,      \* the threads that call addTask
  LoopThread,   \* the thread that runs loop(): it posts from its callbacks
  MaxTasks,     \* bound: calls of addTask by one thread
  EventfdMax    \* the largest value of the eventfd counter (2^64 - 2)

ASSUME LoopAssumption == /\ LoopThread \in Posters
                         /\ MaxTasks \in Nat
                         /\ EventfdMax \in Nat \ {0}

VARIABLES
  functorList,  \* tasks pushed by addTask, guarded by mutex_
  functionList, \* the batch executeTask swapped out and is running
  counter,      \* value of the eventfd
  ready,        \* epoll holds an unreported edge of the eventfd
  active,       \* channels of activeChannelList_ not handled yet
  pc,           \* where the loop thread is in loop()
  callback,     \* the loop thread is inside a handler or a task
  quit,         \* quit_
  posting,      \* per thread: "pushed" between push_back and wakeUp
  posted,       \* per thread: number of tasks pushed
  executed      \* history: the tasks run, in order

postVars == <<posting, posted>>
vars == <<functorList, functionList, counter, ready, active, pc, callback,
          quit, posting, posted, executed>>

Task == Posters \X (1 .. MaxTasks)

Init == /\ functorList = <<>>
        /\ functionList = <<>>
        /\ counter = 0
        /\ ready = FALSE
        /\ active = {}
        /\ pc = "idle"
        /\ callback = FALSE
        /\ quit = TRUE              \* the constructor sets quit_(true)
        /\ posting = [t \in Posters |-> "idle"]
        /\ posted = [t \in Posters |-> 0]
        /\ executed = <<>>

-----------------------------------------------------------------------------
(* addTask: the push under the mutex, then the write to the eventfd. *)

PushTask(t) ==
  /\ posting[t] = "idle"
  /\ t = LoopThread => callback
  /\ posted[t] < MaxTasks
  /\ posted' = [posted EXCEPT ![t] = @ + 1]
  /\ functorList' = Append(functorList, <<t, posted[t] + 1>>)
  /\ posting' = [posting EXCEPT ![t] = "pushed"]
  /\ UNCHANGED <<functionList, counter, ready, active, pc, callback, quit,
                 executed>>

\* A write that would overflow the counter fails with EAGAIN, which the code
\* ignores; every successful write gives epoll a new edge.
EventfdWrite ==
  IF counter < EventfdMax THEN counter' = counter + 1 /\ ready' = TRUE
                          ELSE UNCHANGED <<counter, ready>>

\* (mutant) wakes the loop only from the other threads
WakeUpFromOthers(t) ==
  /\ posting[t] = "pushed"
  /\ IF t # LoopThread THEN EventfdWrite ELSE UNCHANGED <<counter, ready>>
  /\ posting' = [posting EXCEPT ![t] = "idle"]
  /\ UNCHANGED <<functorList, functionList, active, pc, callback, quit, posted,
                 executed>>

WakeUp(t) ==
  /\ posting[t] = "pushed"
  /\ EventfdWrite
  /\ posting' = [posting EXCEPT ![t] = "idle"]
  /\ UNCHANGED <<functorList, functionList, active, pc, callback, quit, posted,
                 executed>>

\* quitLoop may be called by any thread and does not wake the loop up.
QuitLoop ==
  /\ ~quit
  /\ quit' = TRUE
  /\ UNCHANGED <<functorList, functionList, counter, ready, active, pc,
                 callback, postVars, executed>>

-----------------------------------------------------------------------------
(* loop *)

\* The loop thread is in its own code: it is neither inside a callback nor
\* between the push and the wake-up of an addTask it called there.
AtLoop(where) == pc = where /\ ~callback

LoopStart ==
  /\ AtLoop("idle")
  /\ quit' = FALSE
  /\ pc' = "test"
  /\ UNCHANGED <<functorList, functionList, counter, ready, active, callback,
                 postVars, executed>>

TestQuit ==
  /\ AtLoop("test")
  /\ pc' = IF quit THEN "stopped" ELSE "poll"
  /\ UNCHANGED <<functorList, functionList, counter, ready, active, callback,
                 quit, postVars, executed>>

\* epoll_wait polls the files on its ready list again: an edge whose counter
\* has been read meanwhile is dropped.
WakeupReported == ready /\ counter > 0

PollReturns(channels) ==
  /\ active' = channels
  /\ ready' = FALSE
  /\ pc' = "dispatch"
  /\ UNCHANGED <<functorList, functionList, counter, callback, quit, postVars,
                 executed>>

PollWakeup == /\ AtLoop("poll")
              /\ WakeupReported
              /\ \E io \in SUBSET {"io"} : PollReturns({"wakeup"} \union io)

PollIo == /\ AtLoop("poll")
          /\ ~WakeupReported
          /\ PollReturns({"io"})

\* (mutant) epoll_wait called with an infinite timeout
PollForever == FALSE

PollTimeout == /\ AtLoop("poll")
               /\ ~WakeupReported
               /\ PollReturns({})

\* (mutant) a wake-up handler that does not read the eventfd
HandleReadNothing == UNCHANGED counter

\* handleEvent of the wake-up channel runs handleRead: the read of a
\* non-semaphore eventfd resets its counter.
HandleRead == counter' = 0

HandleWakeup ==
  /\ AtLoop("dispatch")
  /\ "wakeup" \in active
  /\ active' = active \ {"wakeup"}
  /\ HandleRead
  /\ UNCHANGED <<functorList, functionList, ready, pc, callback, quit,
                 postVars, executed>>

HandleIo ==
  /\ AtLoop("dispatch")
  /\ "io" \in active
  /\ active' = active \ {"io"}
  /\ callback' = TRUE
  /\ UNCHANGED <<functorList, functionList, counter, ready, pc, quit, postVars,
                 executed>>

ReturnFromCallback ==
  /\ callback
  /\ posting[LoopThread] = "idle"
  /\ callback' = FALSE
  /\ UNCHANGED <<functorList, functionList, counter, ready, active, pc, quit,
                 postVars, executed>>

EndDispatch ==
  /\ AtLoop("dispatch")
  /\ active = {}
  /\ pc' = "swap"
  /\ UNCHANGED <<functorList, functionList, counter, ready, active, callback,
                 quit, postVars, executed>>

\* (mutant) the batch is copied and the list not emptied
CopyLists == /\ functionList' = functorList
             /\ UNCHANGED functorList

SwapLists == /\ functionList' = functorList
             /\ functorList' = <<>>

Swap ==
  /\ AtLoop("swap")
  /\ SwapLists
  /\ pc' = "run"
  /\ UNCHANGED <<counter, ready, active, callback, quit, postVars, executed>>

RunTask ==
  /\ AtLoop("run")
  /\ functionList # <<>>
  /\ executed' = Append(executed, Head(functionList))
  /\ functionList' = Tail(functionList)
  /\ callback' = TRUE
  /\ UNCHANGED <<functorList, counter, ready, active, pc, quit, postVars>>

EndRun ==
  /\ AtLoop("run")
  /\ functionList = <<>>
  /\ pc' = "test"
  /\ UNCHANGED <<functorList, functionList, counter, ready, active, callback,
                 quit, postVars, executed>>

\* The loop has stopped and no thread is inside addTask.
Terminated == /\ pc = "stopped"
              /\ \A t \in Posters : posting[t] = "idle"
              /\ UNCHANGED vars

-----------------------------------------------------------------------------

\* The steps of the loop thread that need nothing from outside.
LoopStep == \/ LoopStart \/ TestQuit \/ PollWakeup
            \/ HandleWakeup \/ HandleIo \/ ReturnFromCallback \/ EndDispatch
            \/ Swap \/ RunTask \/ EndRun

Next == \/ LoopStep \/ PollIo \/ PollTimeout \/ QuitLoop \/ Terminated
        \/ \E t \in Posters : PushTask(t) \/ WakeUp(t)

Spec == Init /\ [][Next]_vars

\* A thread that runs keeps running, and one that pushed a task goes on to
\* wake the loop.  The 1000 ms timeout of epoll_wait is NOT part of it.
Running == /\ WF_vars(LoopStep)
           /\ \A t \in Posters : WF_vars(WakeUp(t))

PromptSpec == Spec /\ Running

-----------------------------------------------------------------------------
(* Properties *)

TypeOK == /\ functorList \in Seq(Task)
          /\ functionList \in Seq(Task)
          /\ counter \in 0 .. EventfdMax
          /\ ready \in BOOLEAN
          /\ active \in SUBSET {"wakeup", "io"}
          /\ pc \in {"idle", "test", "poll", "dispatch", "swap", "run",
                     "stopped"}
          /\ callback \in BOOLEAN
          /\ quit \in BOOLEAN
          /\ posting \in [Posters -> {"idle", "pushed"}]
          /\ posted \in [Posters -> 0 .. MaxTasks]
          /\ executed \in Seq(Task)

NobodyPosting == \A t \in Posters : posting[t] = "idle"

\* The loop never sleeps in epoll_wait over a task: whenever it is in pollWait
\* while functorList_ holds a task, the eventfd will wake it, or the thread
\* that pushed the task has yet to write the eventfd (addTask, EventLoop.h:55).
NoLostWakeup ==
  (pc = "poll" /\ functorList # <<>> /\ NobodyPosting) => WakeupReported

\* An unread count on the eventfd is either an edge epoll still holds or an
\* event the loop has yet to handle: handleRead (EventLoop.cpp:61) never
\* leaves behind a count that no edge announces.
CountAnnounced ==
  counter > 0 => ready \/ (pc = "dispatch" /\ "wakeup" \in active)

\* A task whose poster has returned from addTask is announced by the eventfd,
\* or the loop is between its poll and the swap of executeTask that takes it.
TaskAnnounced ==
  (functorList # <<>> /\ NobodyPosting)
     => counter > 0 \/ pc \in {"dispatch", "swap"}

\* loop() starts a batch only when the previous one has been run to its end,
\* and runs no callback outside dispatch and executeTask.
PhaseOK == /\ functionList # <<>> => pc = "run"
           /\ active # {} => pc = "dispatch"
           /\ callback => pc \in {"dispatch", "run"}
           /\ posting[LoopThread] = "pushed" => callback

\* The inductive invariant behind NoLostWakeup.
WakeupInv == CountAnnounced /\ TaskAnnounced /\ PhaseOK

\* The loop implements the task queue: tasks run once each, in the order
\* addTask pushed them; those still queued when loop() returns never run.
TQ == INSTANCE TaskQueue WITH queue <- functionList \o functorList,
                              done <- executed,
                              open <- pc # "stopped"

QueueSafe == TQ!SafeSpec

\* Every queued task is eventually run unless loop() returns first, although
\* epoll_wait may never time out: the eventfd alone wakes the loop.
QueueLive == TQ!Spec

\* quitLoop takes effect once loop() has begun, provided that epoll_wait times
\* out: loop() returns (EventLoop.h:39 writes quit_ and wakes nobody).
QuitReturns == WF_vars(PollTimeout) => ((quit /\ pc # "idle") ~> pc = "stopped")

=============================================================================
