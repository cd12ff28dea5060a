----------------------------- MODULE ThreadPool -----------------------------
(***************************************************************************)
(* ThreadPool: worker threads take tasks from a queue under a mutex and    *)
(* wait on a condition variable while it is empty; the owner starts the    *)
(* pool, stops it and joins the workers in the destructor; any thread may  *)
(* add a task.                                                             *)
(*                                                                         *)
(* addTask pushes under mutex_ and notifies after it released it: two      *)
(* steps.  start() and stop() touch started_ WITHOUT the mutex, so a       *)
(* worker's critical section is cut where it reads started_: the test of   *)
(* the wait loop, the entry into the wait, and the check before the pop    *)
(* are steps of their own.  A worker in one of them holds the mutex.       *)
(***************************************************************************)
EXTENDS Naturals, Sequences, FiniteSets

CONSTANTS
  ThreadNum,    \* threadnum_, the workers one start() creates
  Posters,      \* threads that call addTask
  MaxTasks,     \* bound: calls of addTask by one thread
  MaxStarts,    \* bound: calls of start()
  MaxStops,     \* bound: calls of stop()
  MaxSpurious,  \* bound: spurious wake-ups of condition_.wait
  MaxHung       \* bound: workers lost to `while (1);' after a bad_alloc

ASSUME PoolAssumption == /\ ThreadNum \in Nat
                         /\ MaxTasks \in Nat
                         /\ MaxStarts \in Nat
                         /\ MaxStops \in Nat
                         /\ MaxSpurious \in Nat
                         /\ MaxHung \in Nat

Workers == 1 .. ThreadNum * MaxStarts
Task == Posters \X (1 .. MaxTasks)

VARIABLES
  started,      \* started_
  taskQueue,    \* taskQueue_, guarded by mutex_
  pc,           \* where each worker is in threadFunc
  posting,      \* per poster: "pushed" between push and notify_one
  posted,       \* per poster: number of tasks pushed
  owner,        \* what the owner of the pool is doing
  toSpawn,      \* threads the running start() has yet to create
  starts, stops, spurious,  \* how often these happened
  taken         \* history: the tasks popped, in order

countVars == <<starts, stops, spurious>>
ownerVars == <<started, owner, toSpawn, starts, stops>>
postVars == <<posting, posted>>
vars == <<started, taskQueue, pc, posting, posted, owner, toSpawn, countVars,
          taken>>

Init == /\ started = FALSE
        /\ taskQueue = <<>>
        /\ pc = [w \in Workers |-> "new"]
        /\ posting = [p \in Posters |-> "idle"]
        /\ posted = [p \in Posters |-> 0]
        /\ owner = "idle"
        /\ toSpawn = 0
        /\ starts = 0 /\ stops = 0 /\ spurious = 0
        /\ taken = <<>>

At(where) == {w \in Workers : pc[w] = where}

\* mutex_ is held: by a worker inside the block of threadFunc.
Held == \E w \in Workers : pc[w] \in {"test", "wait", "check", "take"}

Goto(w, where) == pc' = [pc EXCEPT ![w] = where]

-----------------------------------------------------------------------------
(* The owner: start, stop, ~ThreadPool *)

SpawnCount == ThreadNum

Start == /\ owner = "idle"
         /\ starts < MaxStarts
         /\ ThreadNum > 0
         /\ started' = TRUE
         /\ toSpawn' = SpawnCount
         /\ owner' = "spawning"
         /\ starts' = starts + 1
         /\ UNCHANGED <<taskQueue, pc, postVars, stops, spurious, taken>>

Spawn(w) == /\ owner = "spawning"
            /\ pc[w] = "new"
            /\ Goto(w, "loop")
            /\ toSpawn' = toSpawn - 1
            /\ owner' = IF toSpawn = 1 THEN "idle" ELSE "spawning"
            /\ UNCHANGED <<started, taskQueue, postVars, countVars, taken>>

StopFlag == /\ owner = "idle"
            /\ stops < MaxStops
            /\ started' = FALSE
            /\ owner' = "notifying"
            /\ stops' = stops + 1
            /\ UNCHANGED <<taskQueue, pc, postVars, toSpawn, starts, spurious,
                           taken>>

\* condition_.notify_all()
StopNotify == /\ owner = "notifying"
              /\ pc' = [w \in Workers |-> IF pc[w] = "sleeping" THEN "woken"
                                                                ELSE pc[w]]
              /\ owner' = "idle"
              /\ UNCHANGED <<started, taskQueue, postVars, toSpawn, countVars,
                             taken>>

\* The destructor joins every thread that was created; it does not call stop.
Destroy == /\ owner = "idle"
           /\ owner' = "joining"
           /\ UNCHANGED <<started, taskQueue, pc, postVars, toSpawn, countVars,
                          taken>>

Joined == /\ owner = "joining"
          /\ \A w \in Workers : pc[w] \in {"new", "exited"}
          /\ owner' = "destroyed"
          /\ UNCHANGED <<started, taskQueue, pc, postVars, toSpawn, countVars,
                         taken>>

-----------------------------------------------------------------------------
(* addTask *)

PushTask(p) ==
  /\ posting[p] = "idle"
  /\ posted[p] < MaxTasks
  /\ owner # "destroyed"
  /\ ~Held
  /\ taskQueue' = Append(taskQueue, <<p, posted[p] + 1>>)
  /\ posted' = [posted EXCEPT ![p] = @ + 1]
  /\ posting' = [posting EXCEPT ![p] = "pushed"]
  /\ UNCHANGED <<ownerVars, pc, spurious, taken>>

\* (mutant) notifies only when the queue holds a single task
NotifyOneIfFirst ==
  IF At("sleeping") = {} \/ Len(taskQueue) > 1
    THEN UNCHANGED pc
    ELSE \E w \in At("sleeping") : Goto(w, "woken")

NotifyOne ==
  IF At("sleeping") = {}
    THEN UNCHANGED pc
    ELSE \E w \in At("sleeping") : Goto(w, "woken")

Notify(p) ==
  /\ posting[p] = "pushed"
  /\ NotifyOne
  /\ posting' = [posting EXCEPT ![p] = "idle"]
  /\ UNCHANGED <<ownerVars, taskQueue, posted, spurious, taken>>

-----------------------------------------------------------------------------
(* threadFunc *)

\* A step of worker w that only moves it on.
Move(w, from, to) ==
  /\ pc[w] = from
  /\ Goto(w, to)
  /\ UNCHANGED <<ownerVars, taskQueue, postVars, spurious, taken>>

\* while (started_)
LoopTest(w) == Move(w, "loop", IF started THEN "lock" ELSE "exited")

Lock(w) == ~Held /\ Move(w, "lock", "test")

\* (mutant) the wait is guarded by an if instead of a while
ReacquireNoTest(w) == ~Held /\ Move(w, "woken", "check")

\* condition_.wait returns holding the mutex and the condition is tested again
Reacquire(w) == ~Held /\ Move(w, "woken", "test")

\* while (taskQueue_.empty() && started_)
WaitTest(w) ==
  Move(w, "test", IF taskQueue = <<>> /\ started THEN "wait" ELSE "check")

\* condition_.wait releases the mutex and joins the waiters in one step
Wait(w) == Move(w, "wait", "sleeping")

SpuriousWakeUp(w) ==
  /\ spurious < MaxSpurious
  /\ pc[w] = "sleeping"
  /\ Goto(w, "woken")
  /\ spurious' = spurious + 1
  /\ UNCHANGED <<ownerVars, taskQueue, postVars, taken>>

\* if (!started_) break
StopCheck(w) == Move(w, "check", IF started THEN "take" ELSE "exited")

\* (mutant) the task is executed without being removed
FrontNoPop == /\ taken' = Append(taken, Head(taskQueue))
              /\ UNCHANGED taskQueue

FrontPop == /\ taken' = Append(taken, Head(taskQueue))
            /\ taskQueue' = Tail(taskQueue)

\* front() and pop() of an empty std::queue are undefined.
Take(w) ==
  /\ pc[w] = "take"
  /\ IF taskQueue = <<>> THEN Goto(w, "undefined") /\ UNCHANGED <<taskQueue, taken>>
                         ELSE Goto(w, "run") /\ FrontPop
  /\ UNCHANGED <<ownerVars, postVars, spurious>>

RunTask(w) == Move(w, "run", "loop")

\* the task throws std::bad_alloc: while (1);
Hang(w) == /\ Cardinality(At("hung")) < MaxHung
           /\ Move(w, "run", "hung")

-----------------------------------------------------------------------------

WorkerStep(w) == \/ LoopTest(w) \/ Lock(w) \/ Reacquire(w) \/ WaitTest(w)
                 \/ Wait(w) \/ StopCheck(w) \/ Take(w) \/ RunTask(w)

\* Nothing more can happen: everything stopped, or the workers wait for tasks.
Quiescent == /\ \A w \in Workers : pc[w] \in {"new", "sleeping", "exited",
                                              "hung", "undefined"}
             /\ \A p \in Posters : posting[p] = "idle"
             /\ owner \in {"idle", "joining", "destroyed"}
             /\ UNCHANGED vars

Next == \/ Start \/ StopFlag \/ StopNotify \/ Destroy \/ Joined \/ Quiescent
        \/ \E w \in Workers : Spawn(w)
        \/ \E w \in Workers : WorkerStep(w)
        \/ \E w \in Workers : SpuriousWakeUp(w) \/ Hang(w)
        \/ \E p \in Posters : PushTask(p) \/ Notify(p)

Spec == Init /\ [][Next]_vars

\* Threads that can run do run, tasks return, the owner starts the pool and
\* finishes the calls it is in.  Nobody need add tasks, stop or destroy.
Fairness == /\ \A w \in Workers : WF_vars(WorkerStep(w))
            /\ \A p \in Posters : WF_vars(Notify(p))
            /\ WF_vars(Start)
            /\ WF_vars(\E w \in Workers : Spawn(w))
            /\ WF_vars(StopNotify)
            /\ WF_vars(Joined)

FairSpec == Spec /\ Fairness

-----------------------------------------------------------------------------
(* Properties *)

TypeOK ==
  /\ started \in BOOLEAN
  /\ taskQueue \in Seq(Task)
  /\ pc \in [Workers -> {"new", "loop", "lock", "test", "wait", "sleeping",
                         "woken", "check", "take", "run", "exited", "hung",
                         "undefined"}]
  /\ posting \in [Posters -> {"idle", "pushed"}]
  /\ posted \in [Posters -> 0 .. MaxTasks]
  /\ owner \in {"idle", "spawning", "notifying", "joining", "destroyed"}
  /\ toSpawn \in 0 .. ThreadNum
  /\ starts \in 0 .. MaxStarts
  /\ stops \in 0 .. MaxStops
  /\ spurious \in 0 .. MaxSpurious
  /\ taken \in Seq(Task)

\* front() and pop() are never called on an empty queue (ThreadPool.cpp:76):
\* the wait loop sends a worker on to them only with a task to take.
NeverPopsEmpty ==
  \A w \in Workers : pc[w] # "undefined" /\ (pc[w] = "take" => taskQueue # <<>>)

\* No task waits while a worker that could take it sleeps: as long as some
\* worker sleeps, every queued task has a worker of its own on the way to the
\* queue, or a thread that pushed it is about to notify (ThreadPool.cpp:53).
Heading == {w \in Workers : pc[w] \in {"loop", "lock", "test", "woken",
                                       "check", "take"}}
EachTaskHasAWorker ==
  (started /\ At("sleeping") # {})
     => Len(taskQueue) <= Cardinality(Heading)
                          + Cardinality({p \in Posters : posting[p] = "pushed"})

\* The pool implements the task queue until it is destroyed or its last worker
\* has left: tasks are taken once each, in the order they were pushed.
TQ == INSTANCE TaskQueue WITH
        queue <- taskQueue, done <- taken,
        open <- /\ owner # "destroyed"
                /\ \E w \in Workers : pc[w] \notin {"exited", "undefined"}

QueueSafe == TQ!SafeSpec

\* Unless the pool is stopped or destroyed every task is eventually taken, even
\* if all workers but one are stuck in `while (1)'.
RunningTQ == INSTANCE TaskQueue WITH
               queue <- taskQueue, done <- taken,
               open <- stops = 0 /\ owner # "destroyed"

QueueLive == RunningTQ!Live

\* "wake up all threads" (comment of notify_all, ThreadPool.cpp:43): when
\* stop() has returned and the pool is not restarted, every worker leaves
\* threadFunc.
StopReleasesAll ==
  (stops > 0 /\ ~started /\ owner # "notifying")
     ~> (started \/ \A w \in Workers : pc[w] \in {"new", "exited", "hung"})

=============================================================================
