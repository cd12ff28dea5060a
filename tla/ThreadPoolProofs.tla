--------------------------- MODULE ThreadPoolProofs ---------------------------
(***************************************************************************)
(* Proofs about ThreadPool, for any number of workers, posters, tasks and  *)
(* calls:                                                                  *)
(*   TypeCorrect    the variables keep their types;                        *)
(*   MutexExclusive one worker at a time is in the block of threadFunc;    *)
(*   PopsSafe, TasksServed   until the pool is started a second time, no   *)
(*                  empty queue is popped and every task has a worker;     *)
(*   ImplementsTaskQueue     the pool is a task queue.                     *)
(***************************************************************************)
EXTENDS ThreadPool, TLAPS, SequenceTheorems, FiniteSetTheorems

-----------------------------------------------------------------------------
(* Types *)

\* A running start() has threads left to create.
SpawnOK == owner = "spawning" => toSpawn > 0

LEMMA InitType == Init => TypeOK /\ SpawnOK
<1> SUFFICES ASSUME Init PROVE TypeOK /\ SpawnOK
  OBVIOUS
<1>1. taskQueue \in Seq(Task) /\ taken \in Seq(Task)
  BY EmptySeq DEF Init
<1>2. /\ posted \in [Posters -> 0 .. MaxTasks] /\ toSpawn \in 0 .. ThreadNum
      /\ starts \in 0 .. MaxStarts /\ stops \in 0 .. MaxStops
      /\ spurious \in 0 .. MaxSpurious
  BY PoolAssumption DEF Init
<1> QED
  BY <1>1, <1>2 DEF Init, TypeOK, SpawnOK

LEMMA NextTask ==
  ASSUME TypeOK, NEW p \in Posters, posted[p] < MaxTasks
  PROVE  <<p, posted[p] + 1>> \in Task
  BY PoolAssumption DEF TypeOK, Task

LEMMA PushType ==
  ASSUME TypeOK, SpawnOK, NEW p \in Posters, PushTask(p)
  PROVE  TypeOK' /\ SpawnOK'
<1>1. taskQueue' \in Seq(Task)
  BY NextTask DEF PushTask, TypeOK
<1>2. posted' \in [Posters -> 0 .. MaxTasks]
  BY PoolAssumption DEF PushTask, TypeOK
<1> QED
  BY <1>1, <1>2 DEF PushTask, TypeOK, SpawnOK, ownerVars

LEMMA MoveType ==
  ASSUME TypeOK, SpawnOK, NEW w \in Workers, NEW from, NEW to,
         Move(w, from, to),
         to \in {"lock", "test", "wait", "sleeping", "woken", "check", "take",
                 "loop", "exited", "hung"}
  PROVE  TypeOK' /\ SpawnOK'
  BY DEF Move, Goto, TypeOK, SpawnOK, ownerVars, postVars

LEMMA StepType == TypeOK /\ SpawnOK /\ [Next]_vars => TypeOK' /\ SpawnOK'
<1> SUFFICES ASSUME TypeOK, SpawnOK, [Next]_vars
             PROVE  TypeOK' /\ SpawnOK'
  OBVIOUS
<1>1. CASE Start
  BY <1>1, PoolAssumption DEF Start, SpawnCount, TypeOK, SpawnOK, postVars
<1>2. CASE StopFlag
  <2>1. stops' \in 0 .. MaxStops
    BY <1>2, PoolAssumption DEF StopFlag, TypeOK
  <2> QED
    BY <1>2, <2>1 DEF StopFlag, TypeOK, SpawnOK, postVars
<1>3. CASE StopNotify
  BY <1>3 DEF StopNotify, TypeOK, SpawnOK, postVars, countVars
<1>4. CASE Destroy \/ Joined
  BY <1>4 DEF Destroy, Joined, TypeOK, SpawnOK, postVars, countVars
<1>5. CASE Quiescent \/ UNCHANGED vars
  BY <1>5 DEF Quiescent, vars, TypeOK, SpawnOK, countVars
<1>6. ASSUME NEW w \in Workers, Spawn(w)
      PROVE  TypeOK' /\ SpawnOK'
  <2>1. toSpawn \in 1 .. ThreadNum
    BY <1>6, PoolAssumption DEF Spawn, TypeOK, SpawnOK
  <2> QED
    BY <1>6, <2>1, PoolAssumption
    DEF Spawn, Goto, TypeOK, SpawnOK, postVars, countVars
<1>7. ASSUME NEW w \in Workers, WorkerStep(w)
      PROVE  TypeOK' /\ SpawnOK'
  <2>1. CASE Take(w)
    <3>1. CASE taskQueue = <<>>
      BY <2>1, <3>1 DEF Take, Goto, TypeOK, SpawnOK, ownerVars, postVars
    <3>2. CASE taskQueue # <<>>
      <4>1. Head(taskQueue) \in Task /\ Tail(taskQueue) \in Seq(Task)
        BY <3>2 DEF TypeOK
      <4>2. taken' = Append(taken, Head(taskQueue)) /\ taskQueue' = Tail(taskQueue)
        BY <2>1, <3>2 DEF Take, FrontPop
      <4>3. taken' \in Seq(Task) /\ taskQueue' \in Seq(Task)
        BY <4>1, <4>2 DEF TypeOK
      <4> QED
        BY <2>1, <3>2, <4>3 DEF Take, Goto, TypeOK, SpawnOK, ownerVars, postVars
    <3> QED
      BY <3>1, <3>2
  <2> QED
    BY <1>7, <2>1, MoveType
    DEF WorkerStep, LoopTest, Lock, Reacquire, WaitTest, Wait, StopCheck, RunTask
<1>8. ASSUME NEW w \in Workers, SpuriousWakeUp(w)
      PROVE  TypeOK' /\ SpawnOK'
  BY <1>8, PoolAssumption
  DEF SpuriousWakeUp, Goto, TypeOK, SpawnOK, ownerVars, postVars
<1>9. ASSUME NEW w \in Workers, Hang(w)
      PROVE  TypeOK' /\ SpawnOK'
  BY <1>9, MoveType DEF Hang
<1>10. ASSUME NEW p \in Posters, PushTask(p)
       PROVE  TypeOK' /\ SpawnOK'
  BY <1>10, PushType
<1>11. ASSUME NEW p \in Posters, Notify(p)
       PROVE  TypeOK' /\ SpawnOK'
  <2>1. pc' \in [Workers -> {"new", "loop", "lock", "test", "wait", "sleeping",
                             "woken", "check", "take", "run", "exited", "hung",
                             "undefined"}]
    BY <1>11 DEF Notify, NotifyOne, Goto, TypeOK
  <2> QED
    BY <1>11, <2>1 DEF Notify, TypeOK, SpawnOK, ownerVars
<1> QED
  BY <1>1, <1>2, <1>3, <1>4, <1>5, <1>6, <1>7, <1>8, <1>9, <1>10, <1>11
  DEF Next

\* The variables keep their types; start() never creates more threads than it
\* was asked for (ThreadPool.cpp:30-38).
THEOREM TypeCorrect == Spec => []TypeOK
  BY InitType, StepType, PTL DEF Spec

-----------------------------------------------------------------------------
(* The mutex and the wait loop *)

\* Where a worker is while it holds mutex_.
Holding == {"test", "wait", "check", "take"}

\* At most one worker is in the block of threadFunc.
Exclusive ==
  \A v \in Workers, w \in Workers :
    pc[v] \in Holding /\ pc[w] \in Holding => v = w

\* Before the first start() there is nothing to run, and the destructor only
\* returns when every worker has left.
OwnerOK ==
  /\ starts = 0 => /\ ~started
                   /\ owner # "spawning"
                   /\ \A w \in Workers : pc[w] = "new"
  /\ owner = "destroyed" => \A w \in Workers : pc[w] \in {"new", "exited"}

\* What the tests of the wait loop still say when the worker acts on them.  A
\* second start() sets started_ behind a worker at the check and breaks it.
LoopKnows ==
  \A w \in Workers :
    /\ pc[w] = "wait" => taskQueue = <<>>
    /\ pc[w] = "check" => taskQueue # <<>> \/ ~started
    /\ pc[w] = "take" => taskQueue # <<>>
    /\ pc[w] # "undefined"

PoolInv == Exclusive /\ OwnerOK /\ (starts <= 1 => LoopKnows)

LEMMA InitPool == Init => PoolInv
  BY DEF Init, PoolInv, Exclusive, Holding, OwnerOK, LoopKnows

LEMMA StartPool ==
  ASSUME TypeOK, PoolInv, Start
  PROVE  PoolInv'
<1>1. starts = 0 \/ ~(starts' <= 1)
  BY PoolAssumption DEF Start, TypeOK
<1>2. CASE starts = 0
  BY <1>2, PoolAssumption
  DEF Start, TypeOK, PoolInv, Exclusive, Holding, OwnerOK, LoopKnows
<1>3. CASE ~(starts' <= 1)
  BY <1>3, PoolAssumption
  DEF Start, TypeOK, PoolInv, Exclusive, Holding, OwnerOK
<1> QED
  BY <1>1, <1>2, <1>3

\* A worker enters the block when nobody is in it, and leaves it by itself.
LEMMA GotoExclusive ==
  ASSUME TypeOK, Exclusive, NEW w \in Workers, NEW to, Goto(w, to),
         to \in Holding => pc[w] \in Holding \/ ~Held
  PROVE  Exclusive'
  BY DEF TypeOK, Exclusive, Goto, Held, Holding

LEMMA WorkerPool ==
  ASSUME TypeOK, PoolInv, NEW w \in Workers, WorkerStep(w)
  PROVE  PoolInv'
<1>1. UNCHANGED ownerVars
  BY DEF WorkerStep, LoopTest, Lock, Reacquire, WaitTest, Wait, StopCheck,
         RunTask, Move, Take
<1>2. pc[w] \notin {"new", "exited"}
  BY DEF WorkerStep, LoopTest, Lock, Reacquire, WaitTest, Wait, StopCheck,
         RunTask, Move, Take
<1>3. OwnerOK'
  BY <1>1, <1>2 DEF PoolInv, OwnerOK, ownerVars
<1>4. CASE LoopTest(w) \/ RunTask(w)
  BY <1>1, <1>3, <1>4, GotoExclusive
  DEF LoopTest, RunTask, Move, Goto, TypeOK, PoolInv, LoopKnows, Holding,
      ownerVars
<1>5. CASE Lock(w) \/ Reacquire(w)
  BY <1>1, <1>3, <1>5, GotoExclusive
  DEF Lock, Reacquire, Move, Goto, TypeOK, PoolInv, LoopKnows, Holding,
      ownerVars
<1>6. CASE WaitTest(w)
  <2>1. Exclusive'
    BY <1>6, GotoExclusive DEF WaitTest, Move, PoolInv, Holding
  <2>2. starts' <= 1 => LoopKnows'
    BY <1>1, <1>6
    DEF WaitTest, Move, Goto, TypeOK, PoolInv, LoopKnows, ownerVars
  <2> QED
    BY <1>3, <2>1, <2>2 DEF PoolInv
<1>7. CASE Wait(w) \/ StopCheck(w)
  <2>1. Exclusive'
    BY <1>7, GotoExclusive DEF Wait, StopCheck, Move, PoolInv, Holding
  <2>2. starts' <= 1 => LoopKnows'
    BY <1>1, <1>7
    DEF Wait, StopCheck, Move, Goto, TypeOK, PoolInv, LoopKnows, ownerVars
  <2> QED
    BY <1>3, <2>1, <2>2 DEF PoolInv
<1>8. CASE Take(w)
  <2>1. Exclusive'
    BY <1>8, GotoExclusive DEF Take, PoolInv, Holding
  <2>2. \A v \in Workers : pc'[v] \notin Holding
    BY <1>8 DEF Take, Goto, TypeOK, PoolInv, Exclusive, Holding
  <2>3. ASSUME starts' <= 1 PROVE LoopKnows'
    <3>1. pc'[w] = "run" /\ \A v \in Workers : v # w => pc'[v] = pc[v]
      BY <1>1, <1>8, <2>3
      DEF Take, Goto, TypeOK, PoolInv, LoopKnows, ownerVars
    <3> QED
      BY <1>1, <2>2, <2>3, <3>1 DEF PoolInv, LoopKnows, Holding, ownerVars
  <2> QED
    BY <1>3, <2>1, <2>3 DEF PoolInv
<1> QED
  BY <1>4, <1>5, <1>6, <1>7, <1>8 DEF WorkerStep

LEMMA NotifyPool ==
  ASSUME TypeOK, PoolInv, NEW p \in Posters, Notify(p)
  PROVE  PoolInv'
<1>1. \A w \in Workers :
        \/ pc'[w] = pc[w]
        \/ pc[w] = "sleeping" /\ pc'[w] = "woken"
  <2>1. CASE At("sleeping") = {}
    BY <2>1 DEF Notify, NotifyOne
  <2>2. CASE At("sleeping") # {}
    <3>1. PICK v \in At("sleeping") : Goto(v, "woken")
      BY <2>2 DEF Notify, NotifyOne
    <3> QED
      BY <3>1 DEF At, Goto, TypeOK
  <2> QED
    BY <2>1, <2>2
<1> QED
  BY <1>1 DEF Notify, ownerVars, PoolInv, Exclusive, Holding, OwnerOK, LoopKnows

LEMMA StepPool == TypeOK /\ PoolInv /\ [Next]_vars => PoolInv'
<1> SUFFICES ASSUME TypeOK, PoolInv, [Next]_vars
             PROVE  PoolInv'
  OBVIOUS
<1> USE DEF PoolInv, Exclusive, Holding, OwnerOK, LoopKnows
<1>1. CASE Start
  BY <1>1, StartPool
<1>2. CASE StopFlag \/ Destroy \/ Joined
  BY <1>2 DEF StopFlag, Destroy, Joined, countVars
<1>3. CASE StopNotify
  BY <1>3 DEF StopNotify, TypeOK, countVars
<1>4. CASE Quiescent \/ UNCHANGED vars
  BY <1>4 DEF Quiescent, vars, countVars
<1>5. ASSUME NEW w \in Workers, Spawn(w)
      PROVE  PoolInv'
  <2>1. starts > 0 /\ starts' = starts
    BY <1>5, PoolAssumption DEF Spawn, TypeOK, countVars
  <2> QED
    BY <1>5, <2>1 DEF Spawn, Goto, TypeOK, countVars
<1>6. ASSUME NEW w \in Workers, WorkerStep(w)
      PROVE  PoolInv'
  BY <1>6, WorkerPool
<1>7. ASSUME NEW w \in Workers, SpuriousWakeUp(w) \/ Hang(w)
      PROVE  PoolInv'
  <2>1. CASE SpuriousWakeUp(w)
    BY <2>1 DEF SpuriousWakeUp, Goto, TypeOK, ownerVars
  <2>2. CASE Hang(w)
    BY <2>2 DEF Hang, Move, Goto, TypeOK, ownerVars
  <2> QED
    BY <1>7, <2>1, <2>2
<1>8. ASSUME NEW p \in Posters, PushTask(p)
      PROVE  PoolInv'
  BY <1>8 DEF PushTask, Held, ownerVars
<1>9. ASSUME NEW p \in Posters, Notify(p)
      PROVE  PoolInv'
  BY <1>9, NotifyPool
<1> QED
  BY <1>1, <1>2, <1>3, <1>4, <1>5, <1>6, <1>7, <1>8, <1>9 DEF Next

\* mutex_ excludes: one worker at a time is between the lock and the pop of
\* threadFunc (ThreadPool.cpp:60-82).
THEOREM MutexExclusive == Spec => []Exclusive
<1>1. PoolInv => Exclusive
  BY DEF PoolInv
<1> QED
  BY <1>1, InitType, StepType, InitPool, StepPool, PTL DEF Spec

\* As long as start() was called once, front() and pop() are never called on
\* an empty queue, whatever stop(), spurious wake-ups and the posters do
\* (ThreadPool.cpp:66-79).
THEOREM PopsSafe == Spec => [](starts <= 1 => NeverPopsEmpty)
<1>1. PoolInv => (starts <= 1 => NeverPopsEmpty)
  BY DEF PoolInv, LoopKnows, NeverPopsEmpty
<1> QED
  BY <1>1, InitType, StepType, InitPool, StepPool, PTL DEF Spec

-----------------------------------------------------------------------------
(* Every task has a worker *)

\* The posters that pushed a task and have yet to notify.
Pushers == {p \in Posters : posting[p] = "pushed"}

\* Posters need not be finite: those between push and notify are.
Served == IsFiniteSet(Pushers) /\ (starts <= 1 => EachTaskHasAWorker)

LEMMA WorkersFinite == IsFiniteSet(Workers)
<1>1. ThreadNum * MaxStarts \in Int
  BY PoolAssumption
<1> QED
  BY <1>1, FS_Interval DEF Workers

LEMMA HeadingFinite == IsFiniteSet(Heading) /\ Cardinality(Heading) \in Nat
  BY WorkersFinite, FS_Subset, FS_CardinalityType DEF Heading

LEMMA InitServed == Init => Served
  BY FS_EmptySet DEF Init, Served, Pushers, EachTaskHasAWorker

\* What the worker w that moves to `to' does to the count of those heading.
LEMMA Leaves ==
  ASSUME TypeOK, NEW w \in Workers, Goto(w, "run"),
         w \in Heading
  PROVE  Cardinality(Heading') = Cardinality(Heading) - 1
<1>1. Heading' = Heading \ {w}
  BY DEF TypeOK, Goto, Heading
<1> QED
  BY <1>1, HeadingFinite, FS_RemoveElement

LEMMA Joins ==
  ASSUME TypeOK, NEW w \in Workers, NEW to, Goto(w, to),
         w \notin Heading,
         to \in {"loop", "lock", "test", "woken", "check", "take"}
  PROVE  Cardinality(Heading') = Cardinality(Heading) + 1
<1>1. Heading' = Heading \cup {w}
  BY DEF TypeOK, Goto, Heading
<1> QED
  BY <1>1, HeadingFinite, FS_AddElement

\* A step that adds no sleeper, and no more tasks than hands, keeps it.
LEMMA KeepServed ==
  ASSUME TypeOK, TypeOK', Served, IsFiniteSet(Pushers'),
         UNCHANGED <<started, starts>>,
         At("sleeping")' = {} \/ At("sleeping") # {},
         Len(taskQueue') + Cardinality(Heading) + Cardinality(Pushers)
           <= Len(taskQueue) + Cardinality(Heading') + Cardinality(Pushers')
  PROVE  Served'
<1>1. /\ Cardinality(Heading) \in Nat /\ Cardinality(Heading') \in Nat
      /\ Cardinality(Pushers) \in Nat /\ Cardinality(Pushers') \in Nat
  <2>1. Heading' \in SUBSET Workers
    BY DEF Heading
  <2> QED
    BY <2>1, HeadingFinite, WorkersFinite, FS_Subset, FS_CardinalityType
    DEF Served
<1>2. Len(taskQueue) \in Nat /\ Len(taskQueue') \in Nat
  <2>1. taskQueue \in Seq(Task) /\ taskQueue' \in Seq(Task)
    BY DEF TypeOK
  <2> QED
    BY <2>1
<1>3. SUFFICES ASSUME starts <= 1, started, At("sleeping")' # {}
               PROVE  Len(taskQueue') <= Cardinality(Heading')
                                         + Cardinality(Pushers')
  BY DEF Served, EachTaskHasAWorker, Pushers
<1>4. Len(taskQueue) <= Cardinality(Heading) + Cardinality(Pushers)
  BY <1>3 DEF Served, EachTaskHasAWorker, Pushers
<1> QED
  BY <1>1, <1>2, <1>4

LEMMA PushServed ==
  ASSUME TypeOK, TypeOK', Served, NEW p \in Posters, PushTask(p)
  PROVE  Served'
<1>1. Pushers' = Pushers \cup {p} /\ p \notin Pushers
  BY DEF PushTask, Pushers, TypeOK
<1>2. /\ IsFiniteSet(Pushers')
      /\ Cardinality(Pushers') = Cardinality(Pushers) + 1
  BY <1>1, FS_AddElement DEF Served
<1>3. Len(taskQueue') = Len(taskQueue) + 1
  BY DEF PushTask, TypeOK
<1>4. Heading' = Heading /\ At("sleeping")' = At("sleeping")
  BY DEF PushTask, Heading, At
<1>5. /\ Cardinality(Heading) \in Nat /\ Cardinality(Pushers) \in Nat
      /\ Len(taskQueue) \in Nat
  BY HeadingFinite, FS_CardinalityType DEF Served, TypeOK
<1>6. UNCHANGED <<started, starts>>
  BY DEF PushTask, ownerVars
<1> QED
  BY <1>2, <1>3, <1>4, <1>5, <1>6, KeepServed

\* notify_one with a sleeper adds a worker to those heading for the queue.
LEMMA NotifyServed ==
  ASSUME TypeOK, TypeOK', Served, NEW p \in Posters, Notify(p)
  PROVE  Served'
<1>1. Pushers' = Pushers \ {p} /\ p \in Pushers
  BY DEF Notify, Pushers, TypeOK
<1>2. /\ IsFiniteSet(Pushers')
      /\ Cardinality(Pushers') = Cardinality(Pushers) - 1
  BY <1>1, FS_RemoveElement DEF Served
<1>3. UNCHANGED <<started, starts, taskQueue>>
  BY DEF Notify, ownerVars
<1>4. CASE At("sleeping") = {}
  BY <1>2, <1>3, <1>4 DEF Notify, NotifyOne, At, Served, EachTaskHasAWorker
<1>5. CASE At("sleeping") # {}
  <2>1. PICK w \in At("sleeping") : Goto(w, "woken")
    BY <1>5 DEF Notify, NotifyOne
  <2>2. w \in Workers /\ w \notin Heading
    BY <2>1 DEF At, Heading
  <2>3. Cardinality(Heading') = Cardinality(Heading) + 1
    BY <2>1, <2>2, Joins
  <2>4. /\ Cardinality(Heading) \in Nat /\ Cardinality(Pushers) \in Nat
        /\ Len(taskQueue) \in Nat
    BY HeadingFinite, FS_CardinalityType DEF Served, TypeOK
  <2> QED
    BY <1>2, <1>3, <1>5, <2>3, <2>4, KeepServed
<1> QED
  BY <1>4, <1>5

\* A worker that stays on its way, or starts on it, leaves no task behind.
LEMMA GotoServed ==
  ASSUME TypeOK, TypeOK', Served, NEW w \in Workers, NEW to, Goto(w, to),
         UNCHANGED <<started, starts, taskQueue, posting>>,
         to # "sleeping",
         w \in Heading =>
           to \in {"loop", "lock", "test", "woken", "check", "take"}
  PROVE  Served'
<1>1. Pushers' = Pushers
  BY DEF Pushers
<1>2. At("sleeping")' \in SUBSET At("sleeping")
  BY DEF TypeOK, Goto, At
<1>3. Heading' = Heading \/ Heading' = Heading \cup {w}
  BY DEF TypeOK, Goto, Heading
<1>4. /\ Cardinality(Heading) \in Nat /\ Cardinality(Pushers) \in Nat
      /\ Len(taskQueue) \in Nat
  BY HeadingFinite, FS_CardinalityType DEF Served, TypeOK
<1>5. Cardinality(Heading) <= Cardinality(Heading')
  <2>1. Cardinality(Heading \cup {w}) \in {Cardinality(Heading),
                                           Cardinality(Heading) + 1}
    BY HeadingFinite, FS_AddElement
  <2>2. CASE Heading' = Heading
    BY <2>2, <1>4
  <2>3. CASE Heading' = Heading \cup {w}
    BY <2>1, <2>3, <1>4
  <2> QED
    BY <1>3, <2>2, <2>3
<1>6. Cardinality(Heading') \in Nat
  BY <1>3, HeadingFinite, FS_AddElement, FS_CardinalityType
<1> QED
  BY <1>1, <1>2, <1>4, <1>5, <1>6, KeepServed DEF Served

\* A worker goes to sleep on an empty queue, as long as start() was called once.
LEMMA WaitServed ==
  ASSUME TypeOK, TypeOK', PoolInv, Served, NEW w \in Workers,
         pc[w] = "wait" \/ pc'[w] = "wait",
         pc'[w] = "wait" => taskQueue = <<>>,
         UNCHANGED <<started, starts, taskQueue, posting>>
  PROVE  Served'
<1>1. IsFiniteSet(Pushers') /\ Cardinality(Pushers') \in Nat
  BY FS_CardinalityType DEF Served, Pushers
<1>2. Cardinality(Heading') \in Nat
  <2>1. Heading' \in SUBSET Workers
    BY DEF Heading
  <2> QED
    BY <2>1, WorkersFinite, FS_Subset, FS_CardinalityType
<1>3. starts <= 1 => Len(taskQueue') = 0
  BY DEF PoolInv, LoopKnows
<1> QED
  BY <1>1, <1>2, <1>3 DEF Served, EachTaskHasAWorker, Pushers

LEMMA TakeServed ==
  ASSUME TypeOK, TypeOK', PoolInv, Served, NEW w \in Workers, Take(w)
  PROVE  Served'
<1>1. UNCHANGED <<started, starts, posting>>
  BY DEF Take, ownerVars, postVars
<1>2. Pushers' = Pushers
  BY <1>1 DEF Pushers
<1>3. CASE taskQueue = <<>>
  <2>1. ~(starts' <= 1)
    BY <1>1, <1>3 DEF PoolInv, LoopKnows, Take
  <2> QED
    BY <1>2, <2>1 DEF Served
<1>4. CASE taskQueue # <<>>
  <2>1. Goto(w, "run") /\ taskQueue' = Tail(taskQueue)
    BY <1>4 DEF Take, FrontPop
  <2>2. w \in Heading
    BY DEF Take, Heading
  <2>3. Cardinality(Heading') = Cardinality(Heading) - 1
    BY <2>1, <2>2, Leaves
  <2>4. Len(taskQueue') = Len(taskQueue) - 1 /\ Len(taskQueue) \in Nat
    BY <1>4, <2>1 DEF TypeOK
  <2>5. At("sleeping")' \in SUBSET At("sleeping")
    BY <2>1 DEF TypeOK, Goto, At
  <2>6. Cardinality(Heading) \in Nat /\ Cardinality(Pushers) \in Nat
    BY HeadingFinite, FS_CardinalityType DEF Served
  <2> QED
    BY <1>1, <1>2, <2>3, <2>4, <2>5, <2>6, KeepServed DEF Served
<1> QED
  BY <1>3, <1>4

\* A worker that finds started_ cleared leaves; nobody is served any more.
LEMMA StoppedServed ==
  ASSUME Served, ~started', UNCHANGED posting
  PROVE  Served'
  BY DEF Served, Pushers, EachTaskHasAWorker

LEMMA WorkerServed ==
  ASSUME TypeOK, TypeOK', PoolInv, Served, NEW w \in Workers, WorkerStep(w)
  PROVE  Served'
<1>1. CASE ~started
  BY <1>1, StoppedServed
  DEF WorkerStep, LoopTest, Lock, Reacquire, WaitTest, Wait, StopCheck,
      RunTask, Move, Take, ownerVars, postVars
<1>2. CASE started /\ Take(w)
  BY <1>2, TakeServed
<1>3. CASE started /\ ~Take(w)
  <2>1. UNCHANGED <<started, starts, taskQueue, posting>>
    BY <1>3
    DEF WorkerStep, LoopTest, Lock, Reacquire, WaitTest, Wait, StopCheck,
        RunTask, Move, ownerVars, postVars
  <2>2. CASE Wait(w)
    BY <2>1, <2>2, WaitServed DEF Wait, Move, Goto, TypeOK
  <2>3. CASE WaitTest(w) /\ taskQueue = <<>>
    BY <1>3, <2>1, <2>3, WaitServed DEF WaitTest, Move, Goto, TypeOK
  <2>4. CASE WaitTest(w) /\ taskQueue # <<>>
    BY <2>1, <2>4, GotoServed DEF WaitTest, Move
  <2>5. CASE LoopTest(w) \/ StopCheck(w)
    BY <1>3, <2>1, <2>5, GotoServed DEF LoopTest, StopCheck, Move
  <2>6. CASE Lock(w) \/ Reacquire(w) \/ RunTask(w)
    BY <2>1, <2>6, GotoServed DEF Lock, Reacquire, RunTask, Move
  <2> QED
    BY <1>3, <2>2, <2>3, <2>4, <2>5, <2>6 DEF WorkerStep
<1> QED
  BY <1>1, <1>2, <1>3

LEMMA StepServed ==
  TypeOK /\ SpawnOK /\ PoolInv /\ Served /\ [Next]_vars => Served'
<1> SUFFICES ASSUME TypeOK, SpawnOK, PoolInv, Served, [Next]_vars
             PROVE  Served'
  OBVIOUS
<1>0. TypeOK'
  BY StepType
<1>1. CASE Start
  <2>1. starts' <= 1 => starts = 0
    BY <1>1, PoolAssumption DEF Start, TypeOK
  <2>2. starts' <= 1 => At("sleeping")' = {}
    BY <1>1, <2>1 DEF Start, PoolInv, OwnerOK, At
  <2> QED
    BY <1>1, <2>2
    DEF Start, postVars, Served, Pushers, EachTaskHasAWorker
<1>2. CASE StopFlag
  BY <1>2, StoppedServed DEF StopFlag, postVars
<1>3. CASE StopNotify
  <2>1. At("sleeping")' = {}
    BY <1>3 DEF StopNotify, At
  <2> QED
    BY <1>3, <2>1
    DEF StopNotify, postVars, Served, Pushers, EachTaskHasAWorker
<1>4. CASE Destroy \/ Joined \/ Quiescent \/ UNCHANGED vars
  <2>1. UNCHANGED <<started, starts, taskQueue, posting, pc>>
    BY <1>4
    DEF Destroy, Joined, Quiescent, vars, countVars, postVars
  <2> QED
    BY <2>1 DEF Served, Pushers, EachTaskHasAWorker, Heading, At
<1>5. ASSUME NEW w \in Workers, Spawn(w)
      PROVE  Served'
  BY <1>0, <1>5, GotoServed DEF Spawn, Heading, countVars, postVars
<1>6. ASSUME NEW w \in Workers, WorkerStep(w)
      PROVE  Served'
  BY <1>0, <1>6, WorkerServed
<1>7. ASSUME NEW w \in Workers, SpuriousWakeUp(w)
      PROVE  Served'
  BY <1>0, <1>7, GotoServed DEF SpuriousWakeUp, ownerVars, postVars
<1>8. ASSUME NEW w \in Workers, Hang(w)
      PROVE  Served'
  <2>1. w \notin Heading
    BY <1>8 DEF Hang, Move, Heading
  <2> QED
    BY <1>0, <1>8, <2>1, GotoServed DEF Hang, Move, ownerVars, postVars
<1>9. ASSUME NEW p \in Posters, PushTask(p)
      PROVE  Served'
  BY <1>0, <1>9, PushServed
<1>10. ASSUME NEW p \in Posters, Notify(p)
       PROVE  Served'
  BY <1>0, <1>10, NotifyServed
<1> QED
  BY <1>1, <1>2, <1>3, <1>4, <1>5, <1>6, <1>7, <1>8, <1>9, <1>10 DEF Next

\* As long as start() was called once, no task waits behind a worker that
\* could take it and sleeps: the unlocked notify_one of addTask loses no
\* wake-up, however the posters and the workers interleave
\* (ThreadPool.cpp:47-54, 66-68).
THEOREM TasksServed == Spec => [](starts <= 1 => EachTaskHasAWorker)
<1>1. Served => (starts <= 1 => EachTaskHasAWorker)
  BY DEF Served
<1> QED
  BY <1>1, InitType, StepType, InitPool, StepPool, InitServed, StepServed, PTL
  DEF Spec

-----------------------------------------------------------------------------
(* The task queue *)

Open == /\ owner # "destroyed"
        /\ \E w \in Workers : pc[w] \notin {"exited", "undefined"}

\* A pool that creates workers is open at first.
LEMMA InitQueue ==
  ASSUME ThreadNum > 0, MaxStarts > 0, Init
  PROVE  TQ!Init
<1>1. ThreadNum * MaxStarts >= 1
  BY PoolAssumption
<1>2. 1 \in Workers
  BY <1>1, PoolAssumption DEF Workers
<1> QED
  BY <1>2 DEF Init, TQ!Init

\* A step of one worker leaves the others where they are: the queue is open
\* after it or was closed by it, and never opens again.
LEMMA WorkerOpen ==
  ASSUME TypeOK, NEW w \in Workers, NEW to, Goto(w, to), owner' = owner,
         pc[w] \in {"exited", "undefined"} => to \in {"exited", "undefined"}
  PROVE  Open' => Open
  BY DEF Open, Goto, TypeOK

\* Whatever the step does to the workers, it takes a task, adds one, closes the
\* queue, or is not seen.
LEMMA SeenStep ==
  ASSUME Open' => Open, UNCHANGED taskQueue, UNCHANGED taken
  PROVE  [TQ!Next]_TQ!tqVars
<1>1. Open \in BOOLEAN /\ Open' \in BOOLEAN
  BY DEF Open
<1>2. CASE Open' = Open
  BY <1>2 DEF TQ!tqVars, Open
<1>3. CASE Open' # Open
  BY <1>1, <1>3 DEF TQ!Next, TQ!Close, Open
<1> QED
  BY <1>2, <1>3

LEMMA TakeQueue ==
  ASSUME TypeOK, PoolInv, NEW w \in Workers, Take(w)
  PROVE  [TQ!Next]_TQ!tqVars
<1>1. owner' = owner
  BY DEF Take, ownerVars
<1>2. CASE taskQueue = <<>>
  BY <1>1, <1>2, WorkerOpen, SeenStep DEF Take
<1>3. CASE taskQueue # <<>>
  <2>1. /\ Goto(w, "run")
        /\ taken' = Append(taken, Head(taskQueue))
        /\ taskQueue' = Tail(taskQueue)
    BY <1>3 DEF Take, FrontPop
  <2>2. owner # "destroyed"
    BY DEF Take, PoolInv, OwnerOK
  <2>3. Open
    BY <2>2 DEF Take, Open
  <2>4. Open'
    BY <1>1, <2>1, <2>2 DEF Open, Goto, TypeOK
  <2>5. TQ!Perform
    BY <1>3, <2>1, <2>3, <2>4 DEF TQ!Perform, Open
  <2> QED
    BY <2>5 DEF TQ!Next
<1> QED
  BY <1>2, <1>3

LEMMA StepQueue ==
  TypeOK /\ PoolInv /\ [Next]_vars => [TQ!Next]_TQ!tqVars
<1> SUFFICES ASSUME TypeOK, PoolInv, [Next]_vars
             PROVE  [TQ!Next]_TQ!tqVars
  OBVIOUS
<1>1. CASE Start \/ StopFlag \/ Destroy \/ Joined \/ Quiescent \/ UNCHANGED vars
  <2>1. /\ UNCHANGED <<taskQueue, taken, pc>>
        /\ owner = "destroyed" => owner' = owner
    BY <1>1 DEF Start, StopFlag, Destroy, Joined, Quiescent, vars
  <2> QED
    BY <2>1, SeenStep DEF Open
<1>2. CASE StopNotify
  <2>1. UNCHANGED <<taskQueue, taken>>
    BY <1>2 DEF StopNotify
  <2>2. Open' => Open
    BY <1>2 DEF StopNotify, Open, TypeOK
  <2> QED
    BY <2>1, <2>2, SeenStep
<1>3. ASSUME NEW w \in Workers, Spawn(w)
      PROVE  [TQ!Next]_TQ!tqVars
  <2>1. UNCHANGED <<taskQueue, taken>>
    BY <1>3 DEF Spawn
  <2>2. Open
    BY <1>3 DEF Spawn, Open
  <2> QED
    BY <2>1, <2>2, SeenStep
<1>4. ASSUME NEW w \in Workers, WorkerStep(w) \/ SpuriousWakeUp(w) \/ Hang(w)
      PROVE  [TQ!Next]_TQ!tqVars
  <2>1. CASE Take(w)
    BY <2>1, TakeQueue
  <2>2. CASE ~Take(w)
    <3>1. UNCHANGED <<taskQueue, taken, owner>>
      BY <1>4, <2>2
      DEF WorkerStep, LoopTest, Lock, Reacquire, WaitTest, Wait, StopCheck,
          RunTask, SpuriousWakeUp, Hang, Move, ownerVars
    <3>2. pc[w] \notin {"exited", "undefined"} /\ \E to : Goto(w, to)
      BY <1>4, <2>2
      DEF WorkerStep, LoopTest, Lock, Reacquire, WaitTest, Wait, StopCheck,
          RunTask, SpuriousWakeUp, Hang, Move
    <3> QED
      BY <3>1, <3>2, WorkerOpen, SeenStep
  <2> QED
    BY <2>1, <2>2
<1>5. ASSUME NEW p \in Posters, PushTask(p)
      PROVE  [TQ!Next]_TQ!tqVars
  <2>1. UNCHANGED <<taken, pc, owner>>
    BY <1>5 DEF PushTask, ownerVars
  <2>2. TQ!Submit(<<p, posted[p] + 1>>)
    BY <1>5, <2>1 DEF PushTask, TQ!Submit
  <2> QED
    BY <1>5, <2>2, NextTask DEF PushTask, TQ!Next
<1>6. ASSUME NEW p \in Posters, Notify(p)
      PROVE  [TQ!Next]_TQ!tqVars
  <2>1. UNCHANGED <<taskQueue, taken, owner>>
    BY <1>6 DEF Notify, ownerVars
  <2>2. CASE At("sleeping") = {}
    BY <1>6, <2>1, <2>2, SeenStep DEF Notify, NotifyOne, Open
  <2>3. CASE At("sleeping") # {}
    <3>1. PICK w \in At("sleeping") : Goto(w, "woken")
      BY <1>6, <2>3 DEF Notify, NotifyOne
    <3>2. w \in Workers /\ pc[w] = "sleeping"
      BY <3>1 DEF At
    <3> QED
      BY <2>1, <3>1, <3>2, WorkerOpen, SeenStep
  <2> QED
    BY <2>2, <2>3
<1> QED
  BY <1>1, <1>2, <1>3, <1>4, <1>5, <1>6 DEF Next

\* The pool is a task queue while a worker is left and the owner has not
\* destroyed it: tasks are popped once each, in the order addTask pushed them
\* (ThreadPool.cpp:47-79).
THEOREM ImplementsTaskQueue ==
  ASSUME ThreadNum > 0, MaxStarts > 0
  PROVE  Spec => QueueSafe
<1>1. Init => TQ!Init
  BY InitQueue
<1>2. TypeOK /\ PoolInv /\ [Next]_vars => [TQ!Next]_TQ!tqVars
  BY StepQueue
<1> QED
  BY <1>1, <1>2, InitType, StepType, InitPool, StepPool, PTL
  DEF Spec, QueueSafe, TQ!SafeSpec

=============================================================================
