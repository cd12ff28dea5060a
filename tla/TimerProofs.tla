----------------------------- MODULE TimerProofs -----------------------------
(***************************************************************************)
(* Proofs about Timer, for any threads, callbacks and number of starts:    *)
(*   TypeCorrect    the variables keep their types;                        *)
(*   Alternate      the tasks of start() and stop() alternate              *)
(*                  (TasksAlternate);                                      *)
(*   FiresPerStart  a SINGLE timer fires once for each start (FiresOnce);  *)
(*   Silent         handleRead runs only while the timer runs or is being  *)
(*                  stopped (SilentWhenStopped);                           *)
(*   OrderlyLives   an orderly use never ends the process (Survives).      *)
(***************************************************************************)
EXTENDS Timer, TLAPS, SequenceTheorems

-----------------------------------------------------------------------------
(* Types *)

Tasks == {"add", "remove"}
TimerSet == [mode : {"SINGLE", "CYCLE"}, running : BOOLEAN, counted : BOOLEAN,
             keys : SUBSET Keys, et : BOOLEAN,
             lock : Threads \union {NoThread},
             end : {"no", "closed", "destroyed"}]
FdSet == [armed : BOOLEAN, expired : BOOLEAN]
EpollSet == [registered : BOOLEAN, edge : BOOLEAN, onList : BOOLEAN]
LoopSet == [phase : {"poll", "dispatch", "run"}, active : BOOLEAN,
            tasks : Seq(Tasks), batch : Seq(Tasks),
            pc : {"idle", "read", "walk", "callback", "single"},
            at : Keys \union {0}]
Exits == {"no", "epoll_ctl", "use after free", "dangling iterator"}

Typed ==
  /\ timer \in TimerSet
  /\ fd \in FdSet
  /\ epoll \in EpollSet
  /\ loop \in LoopSet
  /\ starts \in Nat /\ starts <= MaxStarts
  /\ fires \in Nat
  /\ exited \in Exits

\* TypeOK, with a name for each set of records.
LEMMA TypedSame == Typed <=> TypeOK
BY DEF Typed, TypeOK, TimerSet, FdSet, EpollSet, LoopSet, Exits, Tasks

\* A task posted to the loop.
LEMMA PostType ==
  ASSUME NEW l \in LoopSet, NEW task \in Tasks
  PROVE  [l EXCEPT !.tasks = Append(@, task)] \in LoopSet
<1>1. l.tasks \in Seq(Tasks)
  BY DEF LoopSet
<1>2. Append(l.tasks, task) \in Seq(Tasks)
  BY <1>1
<1> QED
  BY <1>2 DEF LoopSet

\* stop() keeps the types.
LEMMA StopTypes ==
  ASSUME Typed, NEW l \in LoopSet, StopTimer(l)
  PROVE  timer' \in TimerSet /\ loop' \in LoopSet
<1>1. "remove" \in Tasks /\ timer \in TimerSet
  BY DEF Tasks, Typed
<1>2. CASE timer.running
  <2>1. loop' = [l EXCEPT !.tasks = Append(@, "remove")]
    BY <1>2 DEF StopTimer
  <2>2. loop' \in LoopSet
    BY <1>1, <2>1, PostType
  <2>3. timer' \in TimerSet
    BY <1>1, <1>2 DEF StopTimer, TimerSet
  <2> QED
    BY <2>2, <2>3
<1>3. CASE ~ timer.running
  BY <1>1, <1>3 DEF StopTimer
<1> QED
  BY <1>2, <1>3

LEMMA InitTypes == Init => Typed
<1> SUFFICES ASSUME Init PROVE Typed
  OBVIOUS
<1>1. timer \in TimerSet
  BY DEF Init, TimerSet
<1>2. <<>> \in Seq(Tasks)
  OBVIOUS
<1>3. loop \in LoopSet
  BY <1>2 DEF Init, LoopSet
<1>4. MaxStarts \in Nat
  BY TimerAssumption
<1> QED
  BY <1>1, <1>3, <1>4 DEF Init, Typed, FdSet, EpollSet, Exits

\* Every step keeps the types.
LEMMA StepTypes ==
  ASSUME Typed, [Next]_vars
  PROVE  Typed'
<1>a. /\ timer \in TimerSet /\ fd \in FdSet /\ epoll \in EpollSet
      /\ loop \in LoopSet /\ exited \in Exits
  BY DEF Typed
<1>b. starts \in Nat /\ starts <= MaxStarts /\ fires \in Nat
  BY DEF Typed
<1>c. MaxStarts \in Nat
  BY TimerAssumption
<1>d. "add" \in Tasks /\ "remove" \in Tasks
  BY DEF Tasks
<1>1. ASSUME NEW t \in Threads, StartPost(t)
      PROVE  Typed'
  <2>1. starts' \in Nat /\ starts' <= MaxStarts
    BY <1>1, <1>b, <1>c DEF StartPost
  <2>2. timer' \in TimerSet
    BY <1>1, <1>a DEF StartPost, TimerSet
  <2>3. loop' \in LoopSet
    BY <1>1, <1>a, <1>d, PostType DEF StartPost
  <2> QED
    BY <1>1, <2>1, <2>2, <2>3 DEF StartPost, Typed
<1>2. ASSUME NEW t \in Threads, StartArm(t)
      PROVE  Typed'
  <2>1. timer' \in TimerSet
    BY <1>2, <1>a DEF StartArm, TimerSet
  <2> QED
    BY <1>2, <2>1 DEF StartArm, SetTime, FdSet, Typed
<1>3. ASSUME NEW t \in Threads, Stop(t)
      PROVE  Typed'
  BY <1>3, <1>a, StopTypes DEF Stop, Typed
<1>4. ASSUME NEW t \in Threads, NEW k \in Keys, AddOrUpdateTimerCallback(t, k)
      PROVE  Typed'
  <2>1. timer' \in TimerSet
    BY <1>4, <1>a DEF AddOrUpdateTimerCallback, TimerSet
  <2> QED
    BY <1>4, <2>1 DEF AddOrUpdateTimerCallback, Typed
<1>5. ASSUME NEW t \in Threads, NEW K, RemoveTimerCallback(t, K)
      PROVE  Typed'
  <2>1. timer' \in TimerSet
    BY <1>5, <1>a DEF RemoveTimerCallback, TimerSet
  <2>2. loop' \in LoopSet
    BY <1>5, <1>a DEF RemoveTimerCallback, LoopSet
  <2> QED
    BY <1>5, <2>1, <2>2 DEF RemoveTimerCallback, Typed
<1>6. ASSUME NEW t \in Threads, CloseTimerfd(t)
      PROVE  Typed'
  <2>1. timer' \in TimerSet
    BY <1>6, <1>a DEF CloseTimerfd, TimerSet
  <2>2. loop' \in LoopSet
    BY <1>6, <1>a, <1>d, PostType DEF CloseTimerfd
  <2>3. fd' \in FdSet /\ epoll' \in EpollSet
    BY <1>6, <1>a DEF CloseTimerfd, FdSet, EpollSet
  <2> QED
    BY <1>6, <2>1, <2>2, <2>3 DEF CloseTimerfd, Typed
<1>7. ASSUME NEW t \in Threads, Destroy(t)
      PROVE  Typed'
  <2>1. timer' \in TimerSet
    BY <1>7, <1>a DEF Destroy, TimerSet
  <2>2. fd' \in FdSet /\ epoll' \in EpollSet
    BY <1>7, <1>a DEF Destroy, FdSet, EpollSet
  <2>3. exited' \in Exits
    BY <1>7 DEF Destroy, Exits
  <2> QED
    BY <1>7, <2>1, <2>2, <2>3 DEF Destroy, Typed
<1>8. CASE Expire
  <2>1. fd' \in FdSet /\ epoll' \in EpollSet
    BY <1>8, <1>a DEF Expire, FdSet, EpollSet
  <2> QED
    BY <1>8, <2>1 DEF Expire, Typed
<1>9. CASE Poll
  <2>1. loop' \in LoopSet
    BY <1>9, <1>a DEF Poll, LoopSet, FdSet, EpollSet
  <2>2. epoll' \in EpollSet
    BY <1>9, <1>a DEF Poll, EpollSet
  <2>3. timer' \in TimerSet
    BY <1>9, <1>a DEF Poll, TimerSet
  <2> QED
    BY <1>9, <2>1, <2>2, <2>3 DEF Poll, Typed
<1>10. CASE HandleEvent
  <2>1. loop' \in LoopSet
    BY <1>10, <1>a DEF HandleEvent, LoopSet
  <2> QED
    BY <1>10, <2>1 DEF HandleEvent, Typed
<1>11. CASE ReadTimerfd
  <2>1. fd' \in FdSet /\ timer' \in TimerSet
    BY <1>11, <1>a DEF ReadTimerfd, FdSet, TimerSet
  <2>2. loop' \in LoopSet
    BY <1>11, <1>a DEF ReadTimerfd, LoopSet
  <2>3. fires' \in Nat
    BY <1>11, <1>b DEF ReadTimerfd
  <2> QED
    BY <1>11, <2>1, <2>2, <2>3 DEF ReadTimerfd, Typed
<1>12. CASE NextCallback
  <2>1. KeysAfter \subseteq Keys
    BY <1>a DEF KeysAfter, TimerSet
  <2>2. loop' \in LoopSet
    BY <1>12, <1>a, <2>1 DEF NextCallback, LoopSet
  <2> QED
    BY <1>12, <2>2 DEF NextCallback, Typed
<1>13. CASE CallbackReturns
  <2>1. loop' \in LoopSet /\ exited' \in Exits
    BY <1>13, <1>a DEF CallbackReturns, LoopSet, Exits
  <2> QED
    BY <1>13, <2>1 DEF CallbackReturns, Typed
<1>14. CASE EndHandleRead
  <2>1. [loop EXCEPT !.pc = "idle"] \in LoopSet
    BY <1>a DEF LoopSet
  <2>2. timer' \in TimerSet /\ loop' \in LoopSet
    BY <1>14, <1>a, <2>1, StopTypes DEF EndHandleRead, StopSingle
  <2> QED
    BY <1>14, <2>2 DEF EndHandleRead, Typed
<1>15. CASE SwapTasks
  <2>1. <<>> \in Seq(Tasks)
    OBVIOUS
  <2>2. loop' \in LoopSet
    BY <1>15, <1>a, <2>1 DEF SwapTasks, LoopSet
  <2> QED
    BY <1>15, <2>2 DEF SwapTasks, Typed
<1>16. CASE RunTask
  <2>1. loop.batch \in Seq(Tasks) /\ loop.batch # <<>>
    BY <1>16, <1>a DEF RunTask, LoopSet
  <2>2. Tail(loop.batch) \in Seq(Tasks)
    BY <2>1
  <2>3. loop' \in LoopSet
    BY <1>16, <1>a, <2>2 DEF RunTask, LoopSet
  <2>4. epoll' \in EpollSet /\ exited' \in Exits
    <3>1. timer.et \in BOOLEAN /\ fd.expired \in BOOLEAN
      BY <1>a DEF TimerSet, FdSet
    <3>2. exited' \in Exits
      BY <1>16, <1>a DEF RunTask, EpollCtl, Exits
    <3>3. epoll' \in EpollSet
      <4>1. EpollCtl(Head(loop.batch))
        BY <1>16 DEF RunTask
      <4> DEFINE adds == Head(loop.batch) = "add"
                 lists == adds /\ fd.expired
      <4>2. adds \in BOOLEAN /\ lists \in BOOLEAN
        OBVIOUS
      <4>3. \/ epoll' = epoll
            \/ epoll' = [registered |-> adds, edge |-> timer.et, onList |-> lists]
        BY <4>1 DEF EpollCtl
      <4> HIDE DEF adds, lists
      <4> QED
        BY <1>a, <3>1, <4>2, <4>3 DEF EpollSet
    <3> QED
      BY <3>2, <3>3
  <2> QED
    BY <1>16, <2>3, <2>4 DEF RunTask, Typed
<1>17. CASE EndBatch
  <2>1. loop' \in LoopSet
    BY <1>17, <1>a DEF EndBatch, LoopSet
  <2> QED
    BY <1>17, <2>1 DEF EndBatch, Typed
<1>18. CASE UNCHANGED vars
  BY <1>18 DEF vars, Typed
<1> QED
  BY <1>1, <1>2, <1>3, <1>4, <1>5, <1>6, <1>7, <1>8, <1>9, <1>10, <1>11, <1>12,
     <1>13, <1>14, <1>15, <1>16, <1>17, <1>18
  DEF Next, LoopStep

\* The variables keep their types: the loop's lists hold tasks of start() and
\* stop(), and handleRead's iterator stands at a key or nowhere (Timer.cpp:60-126).
THEOREM TypeCorrect == Spec => []TypeOK
<1>1. Init => Typed
  BY InitTypes
<1>2. Typed /\ [Next]_vars => Typed'
  BY StepTypes
<1>3. Typed => TypeOK
  BY TypedSame
<1> QED
  BY <1>1, <1>2, <1>3, PTL DEF Spec

-----------------------------------------------------------------------------
(* Alternating tasks.  Of a list p of tasks, and with r for whether epoll    *)
(* has the channel: the tasks alternate, beginning with the one that changes *)
(* r, and b tells whether epoll has the channel when all of them are run.    *)

Alternates(r, p) == \A i \in DOMAIN p : p[i] = "add" <=> (i % 2 = 1 <=> ~ r)
LeadsTo(r, p, b) == b <=> (Len(p) % 2 = 0 <=> r)

LEMMA Parity ==
  \A n \in Nat : /\ n % 2 = 0 \/ n % 2 = 1
                 /\ (n + 1) % 2 = 0 <=> n % 2 = 1
                 /\ (n + 1) % 2 = 1 <=> n % 2 = 0
OBVIOUS

LEMMA TailParity ==
  ASSUME NEW p \in Seq(Tasks), p # <<>>
  PROVE  Len(Tail(p)) % 2 = 0 <=> ~ (Len(p) % 2 = 0)
<1>1. Len(p) - 1 \in Nat /\ Len(p) = (Len(p) - 1) + 1 /\ Len(Tail(p)) = Len(p) - 1
  OBVIOUS
<1>2. Len(p) % 2 = 0 <=> (Len(p) - 1) % 2 = 1
  BY <1>1, Parity
<1>3. (Len(p) - 1) % 2 = 0 <=> ~ ((Len(p) - 1) % 2 = 1)
  BY <1>1
<1> QED
  BY <1>1, <1>2, <1>3

\* Posting the task that changes b.
LEMMA PostAlternates ==
  ASSUME NEW r \in BOOLEAN, NEW b \in BOOLEAN, NEW p \in Seq(Tasks),
         Alternates(r, p), LeadsTo(r, p, b)
  PROVE  LET q == Append(p, IF b THEN "remove" ELSE "add")
         IN  Alternates(r, q) /\ LeadsTo(r, q, ~ b)
<1> DEFINE task == IF b THEN "remove" ELSE "add"
           q == Append(p, task)
<1>1. /\ Len(p) \in Nat /\ Len(q) = Len(p) + 1 /\ DOMAIN q = 1 .. Len(p) + 1
      /\ DOMAIN p = 1 .. Len(p)
      /\ \A i \in 1 .. Len(p) : q[i] = p[i]
      /\ q[Len(p) + 1] = task
  OBVIOUS
<1>2. task = "add" <=> ~ b
  OBVIOUS
<1> HIDE DEF task, q
<1>3. LeadsTo(r, q, ~ b)
  BY <1>1, Parity DEF LeadsTo
<1>4. task = "add" <=> ((Len(p) + 1) % 2 = 1 <=> ~ r)
  BY <1>1, <1>2, Parity DEF LeadsTo
<1>5. Alternates(r, q)
  <2> SUFFICES ASSUME NEW i \in 1 .. Len(p) + 1
               PROVE  q[i] = "add" <=> (i % 2 = 1 <=> ~ r)
    BY <1>1 DEF Alternates
  <2>1. CASE i = Len(p) + 1
    BY <1>1, <1>4, <2>1
  <2>2. CASE i \in 1 .. Len(p)
    BY <1>1, <2>2 DEF Alternates
  <2> QED
    BY <1>1, <2>1, <2>2
<1> QED
  BY <1>3, <1>5 DEF q, task

\* Running the first task.
LEMMA RunAlternates ==
  ASSUME NEW r \in BOOLEAN, NEW b \in BOOLEAN, NEW p \in Seq(Tasks), p # <<>>,
         Alternates(r, p), LeadsTo(r, p, b)
  PROVE  /\ Head(p) = "add" <=> ~ r
         /\ Alternates(~ r, Tail(p))
         /\ LeadsTo(~ r, Tail(p), b)
<1>1. /\ Len(p) \in Nat /\ Len(p) # 0 /\ DOMAIN p = 1 .. Len(p)
      /\ Head(p) = p[1]
      /\ Len(Tail(p)) = Len(p) - 1 /\ DOMAIN Tail(p) = 1 .. Len(p) - 1
      /\ \A i \in 1 .. Len(p) - 1 : Tail(p)[i] = p[i + 1]
  OBVIOUS
<1>2. Head(p) = "add" <=> ~ r
  <2>1. 1 \in DOMAIN p /\ 1 % 2 = 1
    BY <1>1
  <2> QED
    BY <1>1, <2>1 DEF Alternates
<1>3. Alternates(~ r, Tail(p))
  <2> SUFFICES ASSUME NEW i \in 1 .. Len(p) - 1
               PROVE  Tail(p)[i] = "add" <=> (i % 2 = 1 <=> ~ ~ r)
    BY <1>1 DEF Alternates
  <2>1. i + 1 \in DOMAIN p /\ i \in Nat
    BY <1>1
  <2>2. Tail(p)[i] = "add" <=> ((i + 1) % 2 = 1 <=> ~ r)
    BY <1>1, <2>1 DEF Alternates
  <2> QED
    BY <2>1, <2>2, Parity
<1>4. LeadsTo(~ r, Tail(p), b)
  <2>1. Len(p) - 1 \in Nat /\ Len(p) = (Len(p) - 1) + 1
    BY <1>1
  <2>2. Len(p) % 2 = 0 <=> (Len(p) - 1) % 2 = 1
    BY <2>1, Parity
  <2>3. (Len(p) - 1) % 2 = 0 \/ (Len(p) - 1) % 2 = 1
    BY <2>1, Parity
  <2> QED
    BY <1>1, <2>2, <2>3 DEF LeadsTo
<1> QED
  BY <1>2, <1>3, <1>4

\* A task is queued behind all that is pending.
LEMMA PendingGrows ==
  ASSUME NEW batch \in Seq(Tasks), NEW tasks \in Seq(Tasks), NEW task \in Tasks
  PROVE  batch \o Append(tasks, task) = Append(batch \o tasks, task)
OBVIOUS

\* The list of all tasks, when one is posted, run or moved.
LEMMA PendingChanges ==
  ASSUME NEW batch \in Seq(Tasks), NEW tasks \in Seq(Tasks)
  PROVE  /\ batch \o tasks \in Seq(Tasks)
         /\ \A task \in Tasks :
              batch \o Append(tasks, task) = Append(batch \o tasks, task)
         /\ tasks \o <<>> = tasks /\ <<>> \o tasks = tasks
         /\ batch # <<>> => /\ batch \o tasks # <<>>
                            /\ Head(batch \o tasks) = Head(batch)
                            /\ Tail(batch \o tasks) = Tail(batch) \o tasks
<1>1. batch \o tasks \in Seq(Tasks)
  OBVIOUS
<1>2. ASSUME NEW task \in Tasks
      PROVE  batch \o Append(tasks, task) = Append(batch \o tasks, task)
  OBVIOUS
<1>3. tasks \o <<>> = tasks /\ <<>> \o tasks = tasks
  BY ConcatEmptySeq
<1>4. ASSUME batch # <<>>
      PROVE  /\ batch \o tasks # <<>>
             /\ Head(batch \o tasks) = Head(batch)
             /\ Tail(batch \o tasks) = Tail(batch) \o tasks
  <2>1. /\ Len(batch) \in Nat /\ Len(batch) # 0 /\ Len(tasks) \in Nat
        /\ Len(batch \o tasks) = Len(batch) + Len(tasks)
        /\ \A i \in 1 .. Len(batch) : (batch \o tasks)[i] = batch[i]
    BY <1>4
  <2>2. batch \o tasks # <<>>
    BY <2>1
  <2>3. Head(batch \o tasks) = Head(batch)
    BY <1>4, <2>1, <2>2
  <2>4. Tail(batch \o tasks) = Tail(batch) \o tasks
    BY <1>4, <2>1, <2>2
  <2> QED
    BY <2>2, <2>3, <2>4
<1> QED
  BY <1>1, <1>2, <1>3, <1>4

-----------------------------------------------------------------------------
(* The inductive invariant *)

\* A run of the timer is on, or start() is about to set it up.
Run == timer.running \/ timer.lock # NoThread

\* The loop handles events before it runs tasks, and both before it polls; what
\* has ended does not expire.
LoopOrder ==
  /\ loop.phase # "run" => loop.batch = <<>>
  /\ loop.phase # "dispatch" => loop.pc = "idle" /\ ~ loop.active
  /\ loop.pc # "idle" => ~ loop.active
  /\ epoll.onList => epoll.registered
  /\ timer.end # "no" => ~ fd.armed /\ ~ fd.expired /\ timer.lock = NoThread

\* An event that is handled is one of a channel that epoll still has.
Watched ==
  (loop.active \/ loop.pc = "read") /\ timer.end = "no"
    => Alive /\ epoll.registered

\* TasksAlternate, for the list of all tasks.
InTurn ==
  Alive /\ timer.end = "no" => /\ Alternates(epoll.registered, Pending)
                               /\ LeadsTo(epoll.registered, Pending, Run)

\* A SINGLE timer can read another expiration without another start(): the event
\* is under way; or a run is on, and not the one that handleRead is about to stop;
\* or epoll will have the channel when the loop polls next.
MayFire ==
  \/ loop.active \/ loop.pc = "read"
  \/ Run /\ ~ (loop.pc # "idle" /\ timer.counted)
  \/ loop.phase = "poll" /\ epoll.registered
  \/ loop.phase = "run" /\ (epoll.registered <=> Len(loop.batch) % 2 = 0)

\* It has then been started more often than it fired.
Fuel ==
  /\ fires <= starts
  /\ timer.mode = "SINGLE" /\ timer.end = "no" /\ Alive /\ MayFire => fires < starts

\* What an orderly use keeps: the iterator's entry is there, and the loop has
\* nothing more to do with a timer that has ended.
Kept ==
  Orderly => /\ Alive
             /\ loop.pc = "callback" => loop.at \in timer.keys
             /\ timer.end # "no" => /\ LoopIdle /\ ~ epoll.onList
                                    /\ ~ epoll.registered

TimerInv == Typed /\ LoopOrder /\ Watched /\ InTurn /\ Fuel /\ Kept

LEMMA InitInv == Init => TimerInv
<1> SUFFICES ASSUME Init PROVE TimerInv
  OBVIOUS
<1>1. Typed
  BY InitTypes
<1>2. LoopOrder /\ Watched /\ Fuel /\ Kept
  BY DEF Init, LoopOrder, Watched, Fuel, MayFire, Run, Kept, Alive
<1>3. Pending = <<>>
  BY DEF Init, Pending
<1>4. InTurn
  BY <1>3 DEF Init, InTurn, Alternates, LeadsTo, Run
<1> QED
  BY <1>1, <1>2, <1>4 DEF TimerInv

\* The lists of the loop.
LEMMA Lists ==
  ASSUME Typed
  PROVE  /\ loop.batch \in Seq(Tasks) /\ loop.tasks \in Seq(Tasks)
         /\ Pending \in Seq(Tasks)
         /\ epoll.registered \in BOOLEAN
<1>1. loop.batch \in Seq(Tasks) /\ loop.tasks \in Seq(Tasks)
  BY DEF Typed, LoopSet
<1> QED
  BY <1>1, PendingChanges DEF Pending, Typed, EpollSet

\* A step that posts the task by which a run begins or ends keeps the turns.
LEMMA PostKeepsTurn ==
  ASSUME Typed, InTurn, Alive, timer.end = "no", epoll' = epoll,
         loop'.batch = loop.batch, Run' <=> ~ Run,
         loop'.tasks = Append(loop.tasks, IF Run THEN "remove" ELSE "add")
  PROVE  InTurn'
<1> DEFINE task == IF Run THEN "remove" ELSE "add"
<1>1. task \in Tasks /\ Run \in BOOLEAN
  BY DEF Tasks, Run
<1>2. Pending' = Append(Pending, task)
  <2> HIDE DEF task
  <2>1. loop.batch \o Append(loop.tasks, task) = Append(loop.batch \o loop.tasks, task)
    BY <1>1, Lists, PendingGrows, Zenon
  <2>2. loop'.batch = loop.batch /\ loop'.tasks = Append(loop.tasks, task)
    BY DEF task
  <2>3. Pending' = loop.batch \o Append(loop.tasks, task)
    BY <2>2, Zenon DEF Pending
  <2> QED
    BY <2>1, <2>3, Zenon DEF Pending
<1>3. /\ Alternates(epoll.registered, Append(Pending, task))
      /\ LeadsTo(epoll.registered, Append(Pending, task), ~ Run)
  BY <1>1, Lists, PostAlternates DEF InTurn
<1> HIDE DEF task
<1> QED
  BY <1>2, <1>3 DEF InTurn

\* A step that changes none of the tasks keeps the turns.
LEMMA OthersKeepTurn ==
  ASSUME InTurn, Alive, epoll'.registered = epoll.registered,
         timer'.end = timer.end, loop'.batch = loop.batch,
         loop'.tasks = loop.tasks, Run' = Run
  PROVE  InTurn'
BY DEF InTurn, Pending

\* What stop() changes; l is loop with the other change of the step.
LEMMA StopEffect ==
  ASSUME Typed, NEW l \in LoopSet, StopTimer(l)
  PROVE  /\ timer'.mode = timer.mode /\ timer'.keys = timer.keys
         /\ timer'.lock = timer.lock /\ timer'.end = timer.end
         /\ ~ timer'.running
         /\ timer'.counted => timer.counted
         /\ loop'.phase = l.phase /\ loop'.active = l.active
         /\ loop'.batch = l.batch /\ loop'.pc = l.pc /\ loop'.at = l.at
         /\ loop'.tasks = IF timer.running THEN Append(l.tasks, "remove")
                                           ELSE l.tasks
<1>1. timer \in TimerSet
  BY DEF Typed
<1>2. CASE timer.running
  <2>1. /\ timer' = [timer EXCEPT !.running = FALSE, !.counted = FALSE]
        /\ loop' = [l EXCEPT !.tasks = Append(@, "remove")]
    BY <1>2 DEF StopTimer
  <2> QED
    BY <1>1, <1>2, <2>1 DEF TimerSet, LoopSet
<1>3. CASE ~ timer.running
  BY <1>1, <1>3 DEF StopTimer
<1> QED
  BY <1>2, <1>3

\* Every step of a thread keeps the invariant.
LEMMA ThreadStep ==
  ASSUME TimerInv, Typed', NEW t \in Threads,
         \/ StartPost(t) \/ StartArm(t) \/ Stop(t) \/ CloseTimerfd(t) \/ Destroy(t)
         \/ \E k \in Keys : AddOrUpdateTimerCallback(t, k)
         \/ \E K \in SUBSET Keys : RemoveTimerCallback(t, K)
  PROVE  TimerInv'
<1>a. /\ Typed /\ LoopOrder /\ Watched /\ InTurn /\ Fuel /\ Kept
      /\ timer \in TimerSet /\ fd \in FdSet /\ epoll \in EpollSet
      /\ loop \in LoopSet /\ starts \in Nat /\ fires \in Nat
  BY DEF TimerInv, Typed
<1>b. t # NoThread
  BY TimerAssumption DEF Threads
<1>1. CASE StartPost(t)
  <2>1. /\ Alive /\ timer.end = "no" /\ timer.lock = NoThread /\ ~ timer.running
        /\ starts' = starts + 1 /\ UNCHANGED <<fd, epoll, fires, exited>>
        /\ timer' = [timer EXCEPT !.lock = t]
        /\ loop' = [loop EXCEPT !.tasks = Append(@, "add")]
    BY <1>1 DEF StartPost, MayCall
  <2>2. /\ timer'.mode = timer.mode /\ timer'.running = timer.running
        /\ timer'.counted = timer.counted /\ timer'.keys = timer.keys
        /\ timer'.lock = t /\ timer'.end = timer.end
    BY <1>a, <2>1 DEF TimerSet
  <2>3. /\ loop'.phase = loop.phase /\ loop'.active = loop.active
        /\ loop'.batch = loop.batch /\ loop'.pc = loop.pc /\ loop'.at = loop.at
        /\ loop'.tasks = Append(loop.tasks, "add")
    BY <1>a, <2>1 DEF LoopSet
  <2>4. ~ Run /\ Run'
    BY <1>b, <2>1, <2>2 DEF Run
  <2>5. LoopOrder'
    BY <1>a, <2>1, <2>2, <2>3 DEF LoopOrder
  <2>6. Watched'
    BY <1>a, <2>1, <2>2, <2>3 DEF Watched, Alive
  <2>7. InTurn'
    BY <1>a, <2>1, <2>2, <2>3, <2>4, PostKeepsTurn
  <2>8. Fuel'
    BY <1>a, <2>1 DEF Fuel
  <2>9. Kept'
    BY <1>a, <2>1, <2>2, <2>3 DEF Kept, Alive
  <2> QED
    BY <2>5, <2>6, <2>7, <2>8, <2>9 DEF TimerInv
<1>2. CASE StartArm(t)
  <2>1. /\ Alive /\ timer.lock = t /\ UNCHANGED <<epoll, loop, starts, fires, exited>>
        /\ timer' = [timer EXCEPT !.running = TRUE, !.lock = NoThread]
    BY <1>2 DEF StartArm
  <2>2. /\ timer'.mode = timer.mode /\ timer'.running
        /\ timer'.counted = timer.counted /\ timer'.keys = timer.keys
        /\ timer'.lock = NoThread /\ timer'.end = timer.end
    BY <1>a, <2>1 DEF TimerSet
  <2>3. Run /\ Run' /\ timer.end = "no"
    BY <1>a, <1>b, <2>1, <2>2 DEF Run, LoopOrder
  <2>5. LoopOrder'
    BY <1>a, <2>1, <2>2, <2>3 DEF LoopOrder
  <2>6. Watched'
    BY <1>a, <2>1, <2>2 DEF Watched, Alive
  <2>7. InTurn'
    BY <1>a, <2>1, <2>2, <2>3, OthersKeepTurn
  <2>8. Fuel'
    BY <1>a, <2>1, <2>2, <2>3 DEF Fuel, MayFire, Alive
  <2>9. Kept'
    BY <1>a, <2>1, <2>2, <2>3 DEF Kept, Alive
  <2> QED
    BY <2>5, <2>6, <2>7, <2>8, <2>9 DEF TimerInv
<1>3. CASE Stop(t)
  <2>1. /\ Alive /\ timer.end = "no" /\ timer.lock = NoThread
        /\ UNCHANGED <<fd, epoll, starts, fires, exited>>
        /\ StopTimer(loop)
    BY <1>3 DEF Stop, MayCall
  <2>2. /\ timer'.mode = timer.mode /\ timer'.keys = timer.keys
        /\ timer'.lock = timer.lock /\ timer'.end = timer.end
        /\ ~ timer'.running
        /\ loop'.phase = loop.phase /\ loop'.active = loop.active
        /\ loop'.batch = loop.batch /\ loop'.pc = loop.pc /\ loop'.at = loop.at
        /\ loop'.tasks = IF timer.running THEN Append(loop.tasks, "remove")
                                          ELSE loop.tasks
    BY <1>a, <2>1, StopEffect
  <2>3. ~ Run' /\ Run = timer.running
    BY <1>a, <2>1, <2>2 DEF Run, TimerSet
  <2>5. LoopOrder'
    BY <1>a, <2>1, <2>2 DEF LoopOrder
  <2>6. Watched'
    BY <1>a, <2>1, <2>2 DEF Watched, Alive
  <2>7. InTurn'
    <3>1. CASE timer.running
      <4>1. Run' <=> ~ Run
        BY <2>3, <3>1
      <4>2. loop'.tasks = Append(loop.tasks, IF Run THEN "remove" ELSE "add")
        BY <2>2, <2>3, <3>1
      <4> QED
        BY <1>a, <2>1, <2>2, <4>1, <4>2, PostKeepsTurn
    <3>2. CASE ~ timer.running
      <4>1. Run' = Run
        BY <2>3, <3>2 DEF Run
      <4>2. loop'.tasks = loop.tasks /\ epoll'.registered = epoll.registered
        BY <2>1, <2>2, <3>2
      <4> QED
        BY <1>a, <2>1, <2>2, <4>1, <4>2, OthersKeepTurn
    <3> QED
      BY <3>1, <3>2
  <2>8. Fuel'
    BY <1>a, <2>1, <2>2, <2>3 DEF Fuel, MayFire, Alive
  <2>9. Kept'
    BY <1>a, <2>1, <2>2 DEF Kept, Alive
  <2> QED
    BY <2>5, <2>6, <2>7, <2>8, <2>9 DEF TimerInv
<1>4. CASE CloseTimerfd(t)
  <2>1. /\ Alive /\ timer.end = "no" /\ timer.lock = NoThread
        /\ Orderly => LoopIdle /\ ~ timer.running
        /\ timer' = [timer EXCEPT !.running = FALSE, !.counted = FALSE,
                                  !.end = "closed"]
        /\ loop' = IF timer.running THEN [loop EXCEPT !.tasks = Append(@, "remove")]
                                    ELSE loop
        /\ fd' = [armed |-> FALSE, expired |-> FALSE]
        /\ epoll' = [epoll EXCEPT !.registered = FALSE, !.onList = FALSE]
        /\ UNCHANGED <<starts, fires, exited>>
    BY <1>4 DEF CloseTimerfd, MayCall
  <2>2. /\ timer'.lock = timer.lock /\ timer'.end = "closed"
        /\ timer'.keys = timer.keys
        /\ ~ epoll'.registered /\ ~ epoll'.onList
        /\ ~ fd'.armed /\ ~ fd'.expired
    BY <1>a, <2>1 DEF TimerSet, EpollSet
  <2>3. /\ loop'.phase = loop.phase /\ loop'.active = loop.active
        /\ loop'.batch = loop.batch /\ loop'.pc = loop.pc /\ loop'.at = loop.at
    BY <1>a, <2>1 DEF LoopSet
  <2>5. LoopOrder'
    BY <1>a, <2>1, <2>2, <2>3 DEF LoopOrder
  <2>6. Watched' /\ InTurn' /\ Fuel'
    BY <1>a, <2>1, <2>2 DEF Watched, InTurn, Fuel
  <2>7. Kept'
    BY <1>a, <2>1, <2>2, <2>3 DEF Kept, Alive, LoopIdle
  <2> QED
    BY <2>5, <2>6, <2>7 DEF TimerInv
<1>5. CASE Destroy(t)
  <2>1. /\ Alive /\ timer.lock = NoThread
        /\ Orderly => LoopIdle /\ epoll.registered
        /\ timer' = [timer EXCEPT !.end = "destroyed"]
        /\ epoll' = [epoll EXCEPT !.registered = FALSE, !.onList = FALSE]
        /\ fd' = [armed |-> FALSE, expired |-> FALSE]
        /\ epoll.registered /\ LoopIdle => exited' = "no"
        /\ UNCHANGED <<loop, starts, fires>>
    BY <1>5 DEF Destroy
  <2>2. /\ timer'.lock = timer.lock /\ timer'.end = "destroyed"
        /\ timer'.keys = timer.keys
        /\ ~ epoll'.registered /\ ~ epoll'.onList
        /\ ~ fd'.armed /\ ~ fd'.expired
    BY <1>a, <2>1 DEF TimerSet, EpollSet
  <2>5. LoopOrder'
    BY <1>a, <2>1, <2>2 DEF LoopOrder
  <2>6. Watched' /\ InTurn' /\ Fuel'
    BY <1>a, <2>1, <2>2 DEF Watched, InTurn, Fuel
  <2>7. Kept'
    BY <1>a, <2>1, <2>2 DEF Kept, Alive, LoopIdle
  <2> QED
    BY <2>5, <2>6, <2>7 DEF TimerInv
<1>6. CASE \E k \in Keys : AddOrUpdateTimerCallback(t, k)
  <2>1. PICK k \in Keys : AddOrUpdateTimerCallback(t, k)
    BY <1>6
  <2>2. /\ Alive /\ timer' = [timer EXCEPT !.keys = @ \union {k}]
        /\ UNCHANGED <<fd, epoll, loop, starts, fires, exited>>
    BY <2>1 DEF AddOrUpdateTimerCallback, MayCall
  <2>3. /\ timer'.mode = timer.mode /\ timer'.running = timer.running
        /\ timer'.counted = timer.counted /\ timer.keys \subseteq timer'.keys
        /\ timer'.lock = timer.lock /\ timer'.end = timer.end
    BY <1>a, <2>2 DEF TimerSet
  <2>4. Run' = Run
    BY <2>3 DEF Run
  <2>5. LoopOrder' /\ Watched' /\ Fuel'
    BY <1>a, <2>2, <2>3, <2>4 DEF LoopOrder, Watched, Fuel, MayFire, Alive
  <2>6. InTurn'
    BY <1>a, <2>2, <2>3, <2>4, OthersKeepTurn
  <2>7. Kept'
    BY <1>a, <2>2, <2>3 DEF Kept, Alive, LoopIdle
  <2> QED
    BY <2>5, <2>6, <2>7 DEF TimerInv
<1>7. CASE \E K \in SUBSET Keys : RemoveTimerCallback(t, K)
  <2>1. PICK K \in SUBSET Keys : RemoveTimerCallback(t, K)
    BY <1>7
  <2>2. /\ Alive /\ timer' = [timer EXCEPT !.keys = @ \ K] /\ timer.end = "no"
        /\ Orderly => loop.pc = "idle"
        /\ \/ loop' = [loop EXCEPT !.at = 0] \/ loop' = loop
        /\ UNCHANGED <<fd, epoll, starts, fires, exited>>
    BY <2>1 DEF RemoveTimerCallback, MayCall
  <2>3. /\ timer'.mode = timer.mode /\ timer'.running = timer.running
        /\ timer'.counted = timer.counted
        /\ timer'.lock = timer.lock /\ timer'.end = timer.end
    BY <1>a, <2>2 DEF TimerSet
  <2>4. /\ loop'.phase = loop.phase /\ loop'.active = loop.active
        /\ loop'.batch = loop.batch /\ loop'.pc = loop.pc
        /\ loop'.tasks = loop.tasks
    BY <1>a, <2>2 DEF LoopSet
  <2>5. Run' = Run
    BY <2>3 DEF Run
  <2>6. LoopOrder' /\ Watched' /\ Fuel'
    BY <1>a, <2>2, <2>3, <2>4, <2>5 DEF LoopOrder, Watched, Fuel, MayFire, Alive
  <2>7. InTurn'
    BY <1>a, <2>2, <2>3, <2>4, <2>5, OthersKeepTurn
  <2>8. Kept'
    BY <1>a, <2>2, <2>3, <2>4 DEF Kept, Alive
  <2> QED
    BY <2>6, <2>7, <2>8 DEF TimerInv
<1> QED
  BY <1>1, <1>2, <1>3, <1>4, <1>5, <1>6, <1>7

\* Every step of the loop, and of the timerfd, keeps the invariant.
LEMMA LoopKeeps ==
  ASSUME TimerInv, Typed', LoopStep \/ Expire
  PROVE  TimerInv'
<1>a. /\ Typed /\ LoopOrder /\ Watched /\ InTurn /\ Fuel /\ Kept
      /\ timer \in TimerSet /\ fd \in FdSet /\ epoll \in EpollSet
      /\ loop \in LoopSet /\ starts \in Nat /\ fires \in Nat
  BY DEF TimerInv, Typed
<1>1. CASE Expire
  <2>1. /\ Alive /\ fd.armed /\ UNCHANGED <<timer, loop, starts, fires, exited>>
        /\ fd' = [fd EXCEPT !.expired = TRUE]
        /\ epoll' = [epoll EXCEPT !.onList = @ \/ epoll.registered]
    BY <1>1 DEF Expire
  <2>2. /\ epoll'.registered = epoll.registered
        /\ epoll'.onList => epoll.onList \/ epoll.registered
    BY <1>a, <2>1 DEF EpollSet
  <2>3. timer.end = "no"
    BY <1>a, <2>1 DEF LoopOrder
  <2>4. LoopOrder'
    BY <1>a, <2>1, <2>2, <2>3 DEF LoopOrder
  <2>5. Watched' /\ Fuel' /\ Kept'
    BY <1>a, <2>1, <2>2, <2>3 DEF Watched, Fuel, MayFire, Run, Kept, Alive
  <2>6. InTurn'
    BY <1>a, <2>1, <2>2, OthersKeepTurn DEF Run
  <2> QED
    BY <2>4, <2>5, <2>6 DEF TimerInv
<1>2. CASE Poll
  <2>1. /\ Alive /\ loop.phase = "poll" /\ UNCHANGED <<fd, starts, fires, exited>>
        /\ loop' = [loop EXCEPT !.phase = "dispatch",
                                !.active = epoll.onList /\ fd.expired]
        /\ epoll' = [epoll EXCEPT
                       !.onList = (epoll.onList /\ fd.expired) /\ ~ epoll.edge]
        /\ timer' = [timer EXCEPT !.et = @ /\ ~ (epoll.onList /\ fd.expired)]
    BY <1>2 DEF Poll
  <2>2. /\ epoll'.registered = epoll.registered
        /\ epoll'.onList => epoll.onList
    BY <1>a, <2>1 DEF EpollSet
  <2>3. /\ timer'.mode = timer.mode /\ timer'.running = timer.running
        /\ timer'.counted = timer.counted /\ timer'.keys = timer.keys
        /\ timer'.lock = timer.lock /\ timer'.end = timer.end
    BY <1>a, <2>1 DEF TimerSet
  <2>4. /\ loop'.phase = "dispatch" /\ loop'.active => epoll.onList
        /\ loop'.batch = loop.batch /\ loop'.pc = loop.pc
        /\ loop'.tasks = loop.tasks /\ loop.pc = "idle" /\ ~ loop.active
    BY <1>a, <2>1 DEF LoopSet, LoopOrder
  <2>5. Run' = Run
    BY <2>3 DEF Run
  <2>6. LoopOrder'
    BY <1>a, <2>1, <2>2, <2>3, <2>4 DEF LoopOrder
  <2>7. Watched'
    BY <1>a, <2>1, <2>2, <2>3, <2>4 DEF Watched, LoopOrder, Alive
  <2>8. InTurn'
    BY <1>a, <2>1, <2>2, <2>3, <2>4, <2>5, OthersKeepTurn
  <2>9. Fuel'
    BY <1>a, <2>1, <2>2, <2>3, <2>4, <2>5 DEF Fuel, MayFire, LoopOrder, Alive
  <2>10. Kept'
    BY <1>a, <2>1, <2>2, <2>3, <2>4 DEF Kept, LoopIdle, Alive
  <2> QED
    BY <2>6, <2>7, <2>8, <2>9, <2>10 DEF TimerInv
<1>3. CASE HandleEvent
  <2>1. /\ Alive /\ loop.active
        /\ UNCHANGED <<timer, fd, epoll, starts, fires, exited>>
        /\ loop' = [loop EXCEPT !.active = FALSE, !.pc = "read"]
    BY <1>3 DEF HandleEvent
  <2>2. /\ loop'.phase = loop.phase /\ ~ loop'.active
        /\ loop'.batch = loop.batch /\ loop'.pc = "read"
        /\ loop'.tasks = loop.tasks
    BY <1>a, <2>1 DEF LoopSet
  <2>3. LoopOrder' /\ Watched'
    BY <1>a, <2>1, <2>2 DEF LoopOrder, Watched, Alive
  <2>4. InTurn'
    BY <1>a, <2>1, <2>2, OthersKeepTurn DEF Run
  <2>5. Fuel'
    BY <1>a, <2>1, <2>2 DEF Fuel, MayFire, Alive
  <2>6. Kept'
    BY <1>a, <2>1, <2>2 DEF Kept, LoopIdle, Alive
  <2> QED
    BY <2>3, <2>4, <2>5, <2>6 DEF TimerInv
<1>4. CASE ReadTimerfd
  <2>1. /\ Alive /\ loop.pc = "read" /\ fd.expired
        /\ UNCHANGED <<epoll, starts, exited>>
        /\ fd' = [fd EXCEPT !.expired = FALSE]
        /\ timer' = [timer EXCEPT !.counted = TRUE]
        /\ loop' = [loop EXCEPT !.pc = "walk"]
        /\ fires' = IF timer.mode = "SINGLE" THEN fires + 1 ELSE fires
    BY <1>4 DEF ReadTimerfd
  <2>2. /\ timer'.mode = timer.mode /\ timer'.running = timer.running
        /\ timer'.counted /\ timer'.keys = timer.keys
        /\ timer'.lock = timer.lock /\ timer'.end = timer.end
    BY <1>a, <2>1 DEF TimerSet
  <2>3. /\ loop'.phase = loop.phase /\ loop'.active = loop.active
        /\ loop'.batch = loop.batch /\ loop'.pc = "walk"
        /\ loop'.tasks = loop.tasks
    BY <1>a, <2>1 DEF LoopSet
  <2>4. /\ ~ loop.active /\ loop.phase = "dispatch" /\ timer.end = "no"
    BY <1>a, <2>1 DEF LoopOrder, LoopSet
  <2>5. fd'.armed = fd.armed /\ ~ fd'.expired
    BY <1>a, <2>1 DEF FdSet
  <2>6. LoopOrder' /\ Watched'
    BY <1>a, <2>1, <2>2, <2>3, <2>4, <2>5 DEF LoopOrder, Watched
  <2>7. InTurn'
    BY <1>a, <2>1, <2>2, <2>3, OthersKeepTurn DEF Run
  <2>8. Fuel'
    <3>1. ~ MayFire'
      BY <2>2, <2>3, <2>4 DEF MayFire
    <3>2. timer.mode = "SINGLE" => fires < starts
      BY <1>a, <2>1, <2>4 DEF Fuel, MayFire
    <3> QED
      BY <1>a, <2>1, <3>1, <3>2 DEF Fuel
  <2>9. Kept'
    BY <1>a, <2>1, <2>2, <2>3, <2>4 DEF Kept, Alive
  <2> QED
    BY <2>6, <2>7, <2>8, <2>9 DEF TimerInv
<1>5. CASE NextCallback
  <2>1. /\ Alive /\ loop.pc = "walk"
        /\ UNCHANGED <<timer, fd, epoll, starts, fires, exited>>
    BY <1>5 DEF NextCallback
  <2>2. /\ loop'.phase = loop.phase /\ loop'.active = loop.active
        /\ loop'.batch = loop.batch /\ loop'.tasks = loop.tasks
        /\ loop'.pc \in {"single", "callback"}
        /\ loop'.pc = "callback" => loop'.at \in timer.keys
    <3>1. CASE loop' = [loop EXCEPT !.pc = "single", !.at = 0]
      BY <1>a, <3>1 DEF LoopSet
    <3>2. CASE \E k \in KeysAfter : loop' = [loop EXCEPT !.pc = "callback", !.at = k]
      BY <1>a, <3>2 DEF LoopSet, KeysAfter
    <3> QED
      BY <1>5, <3>1, <3>2 DEF NextCallback
  <2>3. LoopOrder' /\ Watched'
    BY <1>a, <2>1, <2>2 DEF LoopOrder, Watched, Alive
  <2>4. InTurn'
    BY <1>a, <2>1, <2>2, OthersKeepTurn DEF Run
  <2>5. Fuel'
    BY <1>a, <2>1, <2>2 DEF Fuel, MayFire, Run, Alive
  <2>6. Kept'
    BY <1>a, <2>1, <2>2 DEF Kept, LoopIdle, Alive
  <2> QED
    BY <2>3, <2>4, <2>5, <2>6 DEF TimerInv
<1>6. CASE CallbackReturns
  <2>1. /\ Alive /\ loop.pc = "callback"
        /\ UNCHANGED <<timer, fd, epoll, starts, fires>>
        /\ \/ /\ loop' = [loop EXCEPT !.pc = "walk"] /\ exited' = exited
           \/ /\ loop' = loop /\ exited' = "dangling iterator"
              /\ loop.at \notin timer.keys
    BY <1>6 DEF CallbackReturns
  <2>2. /\ loop'.phase = loop.phase /\ loop'.active = loop.active
        /\ loop'.batch = loop.batch /\ loop'.tasks = loop.tasks
        /\ loop'.pc \in {"walk", "callback"}
    BY <1>a, <2>1 DEF LoopSet
  <2>3. ~ loop.active
    BY <1>a, <2>1 DEF LoopOrder
  <2>4. LoopOrder' /\ Watched'
    BY <1>a, <2>1, <2>2, <2>3 DEF LoopOrder, Watched
  <2>5. InTurn'
    BY <1>a, <2>1, <2>2, OthersKeepTurn DEF Run
  <2>6. Fuel'
    BY <1>a, <2>1, <2>2 DEF Fuel, MayFire, Run, Alive
  <2>7. Kept'
    <3>1. CASE exited' = exited /\ loop' = [loop EXCEPT !.pc = "walk"]
      <4>1. loop'.pc = "walk"
        BY <1>a, <3>1 DEF LoopSet
      <4> QED
        BY <1>a, <2>1, <2>2, <3>1, <4>1 DEF Kept, LoopIdle, Alive
    <3>2. CASE loop.at \notin timer.keys
      BY <1>a, <2>1, <3>2 DEF Kept
    <3> QED
      BY <2>1, <3>1, <3>2
  <2> QED
    BY <2>4, <2>5, <2>6, <2>7 DEF TimerInv
<1>7. CASE EndHandleRead
  <2> DEFINE l == [loop EXCEPT !.pc = "idle"]
  <2>1. /\ Alive /\ loop.pc = "single" /\ timer.lock = NoThread
        /\ UNCHANGED <<fd, epoll, starts, fires, exited>>
        /\ StopSingle(l)
    BY <1>7 DEF EndHandleRead
  <2>2. /\ l \in LoopSet
        /\ l.phase = loop.phase /\ l.active = loop.active /\ l.batch = loop.batch
        /\ l.tasks = loop.tasks /\ l.pc = "idle"
    BY <1>a DEF LoopSet
  <2>3. ~ loop.active /\ loop.phase = "dispatch"
    BY <1>a, <2>1 DEF LoopOrder, LoopSet
  <2> HIDE DEF l
  <2>4. Orderly => timer.end = "no"
    BY <1>a, <2>1 DEF Kept, LoopIdle
  <2>5. CASE timer.mode = "SINGLE" /\ timer.counted
    <3>1. StopTimer(l)
      BY <2>1, <2>5 DEF StopSingle
    <3>2. /\ timer'.mode = timer.mode /\ timer'.keys = timer.keys
          /\ timer'.lock = timer.lock /\ timer'.end = timer.end
          /\ ~ timer'.running
          /\ loop'.phase = loop.phase /\ loop'.active = loop.active
          /\ loop'.batch = loop.batch /\ loop'.pc = "idle"
          /\ loop'.tasks = IF timer.running THEN Append(loop.tasks, "remove")
                                            ELSE loop.tasks
      BY <1>a, <2>2, <3>1, StopEffect
    <3>3. ~ Run' /\ Run = timer.running
      BY <1>a, <2>1, <3>2 DEF Run, TimerSet
    <3>4. LoopOrder' /\ Watched'
      BY <1>a, <2>1, <2>3, <3>2 DEF LoopOrder, Watched
    <3>5. InTurn'
      <4>1. CASE timer.running
        <5>1. Run' <=> ~ Run
          BY <3>3, <4>1
        <5>2. loop'.tasks = Append(loop.tasks, IF Run THEN "remove" ELSE "add")
          BY <3>2, <3>3, <4>1
        <5>3. CASE timer.end = "no"
          BY <1>a, <2>1, <3>2, <5>1, <5>2, <5>3, PostKeepsTurn
        <5>4. CASE timer.end # "no"
          BY <3>2, <5>4 DEF InTurn
        <5> QED
          BY <5>3, <5>4
      <4>2. CASE ~ timer.running
        <5>1. Run' = Run
          BY <3>3, <4>2 DEF Run
        <5>2. loop'.tasks = loop.tasks /\ epoll'.registered = epoll.registered
          BY <2>1, <3>2, <4>2
        <5> QED
          BY <1>a, <2>1, <3>2, <5>1, <5>2, OthersKeepTurn
      <4> QED
        BY <4>1, <4>2
    <3>6. Fuel'
      BY <1>a, <2>1, <2>3, <3>2, <3>3 DEF Fuel, MayFire
    <3>7. Kept'
      BY <1>a, <2>1, <2>4, <3>2 DEF Kept, Alive
    <3> QED
      BY <3>4, <3>5, <3>6, <3>7 DEF TimerInv
  <2>6. CASE ~ (timer.mode = "SINGLE" /\ timer.counted)
    <3>1. loop' = l /\ timer' = timer
      BY <2>1, <2>6 DEF StopSingle
    <3>2. LoopOrder' /\ Watched'
      BY <1>a, <2>1, <2>2, <2>3, <3>1 DEF LoopOrder, Watched
    <3>3. InTurn'
      BY <1>a, <2>1, <2>2, <3>1, OthersKeepTurn DEF Run
    <3>4. Fuel'
      BY <1>a, <2>1, <2>2, <2>3, <2>6, <3>1 DEF Fuel, MayFire, Run, Alive
    <3>5. Kept'
      BY <1>a, <2>1, <2>2, <2>4, <3>1 DEF Kept, Alive
    <3> QED
      BY <3>2, <3>3, <3>4, <3>5 DEF TimerInv
  <2> QED
    BY <2>5, <2>6
<1>8. CASE SwapTasks
  <2>1. /\ Alive /\ loop.phase = "dispatch" /\ ~ loop.active /\ loop.pc = "idle"
        /\ UNCHANGED <<timer, fd, epoll, starts, fires, exited>>
        /\ loop' = [loop EXCEPT !.phase = "run", !.batch = loop.tasks,
                                !.tasks = <<>>]
    BY <1>8 DEF SwapTasks
  <2>2. /\ loop'.phase = "run" /\ loop'.active = loop.active
        /\ loop'.batch = loop.tasks /\ loop'.tasks = <<>>
        /\ loop'.pc = loop.pc
    BY <1>a, <2>1 DEF LoopSet
  <2>3. loop.batch = <<>> /\ loop.tasks \in Seq(Tasks)
    BY <1>a, <2>1, Lists DEF LoopOrder
  <2>4. Pending' = loop.tasks /\ Pending = loop.tasks
    BY <2>2, <2>3, PendingChanges DEF Pending
  <2>5. LoopOrder' /\ Watched'
    BY <1>a, <2>1, <2>2 DEF LoopOrder, Watched
  <2>6. InTurn'
    BY <1>a, <2>1, <2>4 DEF InTurn, Run, Alive
  <2>7. Fuel'
    <3>1. timer.end = "no" => (Run <=> (Len(loop.tasks) % 2 = 0 <=> epoll.registered))
      BY <1>a, <2>1, <2>4 DEF InTurn, LeadsTo
    <3> QED
      BY <1>a, <2>1, <2>2, <3>1 DEF Fuel, MayFire, Run, Alive
  <2>8. Kept'
    <3>1. loop.tasks \o loop.batch = <<>> => loop'.tasks \o loop'.batch = <<>>
      BY <2>2, <2>3, PendingChanges
    <3> QED
      BY <1>a, <2>1, <2>2, <3>1 DEF Kept, LoopIdle, Alive
  <2> QED
    BY <2>5, <2>6, <2>7, <2>8 DEF TimerInv
<1>9. CASE RunTask
  <2>1. /\ Alive /\ loop.phase = "run" /\ loop.batch # <<>>
        /\ EpollCtl(Head(loop.batch)) /\ UNCHANGED <<timer, fd, starts, fires>>
        /\ loop' = [loop EXCEPT !.batch = Tail(@)]
    BY <1>9 DEF RunTask
  <2>2. /\ loop'.phase = "run" /\ loop'.active = loop.active
        /\ loop'.batch = Tail(loop.batch) /\ loop'.tasks = loop.tasks
        /\ loop'.pc = loop.pc
    BY <1>a, <2>1 DEF LoopSet
  <2>3. ~ loop.active /\ loop.pc = "idle"
    BY <1>a, <2>1 DEF LoopOrder
  <2>4. /\ Pending # <<>> /\ Head(Pending) = Head(loop.batch)
        /\ Pending' = Tail(Pending)
    <3>1. /\ loop.batch \o loop.tasks # <<>>
          /\ Head(loop.batch \o loop.tasks) = Head(loop.batch)
          /\ Tail(loop.batch \o loop.tasks) = Tail(loop.batch) \o loop.tasks
      BY <1>a, <2>1, Lists, PendingChanges
    <3> QED
      BY <2>2, <3>1 DEF Pending
  <2>5. Orderly => timer.end = "no"
    <3>1. loop.tasks \o loop.batch # <<>>
      BY <1>a, <2>1, Lists
    <3> QED
      BY <1>a, <3>1 DEF Kept, LoopIdle
  <2>6. CASE timer.end = "no"
    <3>1. /\ Head(Pending) = "add" <=> ~ epoll.registered
          /\ Alternates(~ epoll.registered, Pending')
          /\ LeadsTo(~ epoll.registered, Pending', Run)
      BY <1>a, <2>1, <2>4, <2>6, Lists, RunAlternates DEF InTurn, Run
    <3>2. /\ exited' = exited
          /\ epoll'.registered = ~ epoll.registered
          /\ epoll'.onList => epoll'.registered
      BY <1>a, <2>1, <2>4, <2>6, <3>1 DEF EpollCtl, EpollSet
    <3>3. LoopOrder' /\ Watched'
      BY <1>a, <2>1, <2>2, <2>3, <3>2 DEF LoopOrder, Watched
    <3>4. InTurn'
      BY <2>1, <3>1, <3>2 DEF InTurn, Run
    <3>5. Fuel'
      <4>1. Len(loop'.batch) % 2 = 0 <=> ~ (Len(loop.batch) % 2 = 0)
        <5>1. loop.batch \in Seq(Tasks) /\ loop.batch # <<>>
          BY <1>a, <2>1, Lists
        <5>2. Len(Tail(loop.batch)) % 2 = 0 <=> ~ (Len(loop.batch) % 2 = 0)
          BY <5>1, TailParity
        <5> QED
          BY <2>2, <5>2
      <4> QED
        BY <1>a, <2>1, <2>2, <2>3, <3>2, <4>1 DEF Fuel, MayFire, Run, Alive
    <3>6. Kept'
      BY <1>a, <2>1, <2>2, <2>6, <3>2 DEF Kept, Alive
    <3> QED
      BY <3>3, <3>4, <3>5, <3>6 DEF TimerInv
  <2>7. CASE timer.end # "no"
    <3>1. epoll'.onList => epoll'.registered
      BY <1>a, <2>1 DEF EpollCtl, EpollSet, LoopOrder
    <3>2. LoopOrder'
      BY <1>a, <2>1, <2>2, <2>3, <3>1 DEF LoopOrder
    <3>3. Watched' /\ InTurn' /\ Fuel'
      BY <1>a, <2>1, <2>7 DEF Watched, InTurn, Fuel
    <3>4. Kept'
      BY <2>5, <2>7 DEF Kept
    <3> QED
      BY <3>2, <3>3, <3>4 DEF TimerInv
  <2> QED
    BY <2>6, <2>7
<1>10. CASE EndBatch
  <2>1. /\ Alive /\ loop.phase = "run" /\ loop.batch = <<>>
        /\ UNCHANGED <<timer, fd, epoll, starts, fires, exited>>
        /\ loop' = [loop EXCEPT !.phase = "poll"]
    BY <1>10 DEF EndBatch
  <2>2. /\ loop'.phase = "poll" /\ loop'.active = loop.active
        /\ loop'.batch = loop.batch /\ loop'.tasks = loop.tasks
        /\ loop'.pc = loop.pc
    BY <1>a, <2>1 DEF LoopSet
  <2>3. LoopOrder' /\ Watched'
    BY <1>a, <2>1, <2>2 DEF LoopOrder, Watched
  <2>4. InTurn'
    BY <1>a, <2>1, <2>2, OthersKeepTurn DEF Run
  <2>5. Fuel'
    <3>1. Len(loop.batch) % 2 = 0
      BY <2>1
    <3> QED
      BY <1>a, <2>1, <2>2, <3>1 DEF Fuel, MayFire, Run, Alive
  <2>6. Kept'
    BY <1>a, <2>1, <2>2 DEF Kept, LoopIdle, LoopOrder, Alive
  <2> QED
    BY <2>3, <2>4, <2>5, <2>6 DEF TimerInv
<1> QED
  BY <1>1, <1>2, <1>3, <1>4, <1>5, <1>6, <1>7, <1>8, <1>9, <1>10 DEF LoopStep

LEMMA TimerInvariant == Spec => []TimerInv
<1>1. TimerInv /\ [Next]_vars => TimerInv'
  <2> SUFFICES ASSUME TimerInv, [Next]_vars PROVE TimerInv'
    OBVIOUS
  <2>1. Typed'
    BY StepTypes DEF TimerInv
  <2>2. CASE LoopStep \/ Expire
    BY <2>1, <2>2, LoopKeeps
  <2>3. ASSUME NEW t \in Threads,
               \/ StartPost(t) \/ StartArm(t) \/ Stop(t) \/ CloseTimerfd(t)
               \/ Destroy(t) \/ RemoveTimerCallback(t, Keys)
               \/ \E k \in Keys : \/ AddOrUpdateTimerCallback(t, k)
                                  \/ RemoveTimerCallback(t, {k})
        PROVE  TimerInv'
    <3>1. Keys \in SUBSET Keys /\ \A k \in Keys : {k} \in SUBSET Keys
      OBVIOUS
    <3>2. \/ StartPost(t) \/ StartArm(t) \/ Stop(t) \/ CloseTimerfd(t) \/ Destroy(t)
          \/ \E k \in Keys : AddOrUpdateTimerCallback(t, k)
          \/ \E K \in SUBSET Keys : RemoveTimerCallback(t, K)
      BY <2>3, <3>1
    <3> QED
      BY <2>1, <3>2, ThreadStep
  <2>4. CASE UNCHANGED vars
    BY <2>1, <2>4
    DEF TimerInv, vars, LoopOrder, Watched, InTurn, Fuel, MayFire, Kept, Run,
        Pending, LoopIdle, Alive
  <2> QED
    BY <2>2, <2>3, <2>4 DEF Next
<1> QED
  BY <1>1, InitInv, PTL DEF Spec

-----------------------------------------------------------------------------
(* The theorems *)

\* Whichever threads start and stop the timer, the tasks by which start() and
\* stop() change epoll alternate, and the last of them is that of running_
\* (Timer.cpp:62, 84).
THEOREM Alternate == Spec => []TasksAlternate
<1>1. TimerInv => TasksAlternate
  BY DEF TimerInv, InTurn, TasksAlternate, Alternates, LeadsTo, Run
<1> QED
  BY <1>1, TimerInvariant, PTL

\* A SINGLE timer runs its callbacks at most once for each start()
\* (Timer.cpp:120-125).
THEOREM FiresPerStart == Spec => []FiresOnce
<1>1. TimerInv => FiresOnce
  BY DEF TimerInv, Fuel, FiresOnce
<1> QED
  BY <1>1, TimerInvariant, PTL

\* handleRead runs only while the timer runs, or while the task of its stop() is
\* still to be run (Timer.cpp:86).
THEOREM Silent == Spec => []SilentWhenStopped
<1>1. TimerInv => SilentWhenStopped
  <2> SUFFICES ASSUME TimerInv, loop.pc = "read", timer.end = "no", ~ Run
               PROVE  "remove" \in {Pending[i] : i \in DOMAIN Pending}
    BY DEF SilentWhenStopped, Run
  <2>1. Alive /\ epoll.registered
    BY DEF TimerInv, Watched
  <2>2. /\ Alternates(epoll.registered, Pending)
        /\ LeadsTo(epoll.registered, Pending, Run)
    BY <2>1 DEF TimerInv, InTurn
  <2>3. Pending \in Seq(Tasks)
    BY Lists DEF TimerInv
  <2>4. Len(Pending) \in Nat /\ Len(Pending) % 2 # 0
    BY <2>1, <2>2, <2>3 DEF LeadsTo
  <2>5. 1 \in DOMAIN Pending /\ 1 % 2 = 1
    BY <2>3, <2>4
  <2>6. Pending[1] # "add" /\ Pending[1] \in Tasks
    BY <2>1, <2>2, <2>3, <2>5 DEF Alternates
  <2> QED
    BY <2>5, <2>6 DEF Tasks
<1> QED
  BY <1>1, TimerInvariant, PTL

\* An application that edits the callbacks and ends the timer only when the loop
\* has nothing to do with it never dies of the timer (Poller.cpp:110, 130).
THEOREM OrderlyLives == Spec => []Survives
<1>1. TimerInv => Survives
  BY DEF TimerInv, Kept, Survives
<1> QED
  BY <1>1, TimerInvariant, PTL

=============================================================================
