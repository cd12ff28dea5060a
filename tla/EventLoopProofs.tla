--------------------------- MODULE EventLoopProofs ---------------------------
(***************************************************************************)
(* Proofs about EventLoop, for any set of posting threads, any number of   *)
(* tasks and any eventfd limit:                                            *)
(*   TypeCorrect   the variables keep their types;                         *)
(*   WakeupSafe    the loop never sleeps over a task (NoLostWakeup);       *)
(*   ImplementsTaskQueue   the loop is a task queue;                       *)
(* and about IoThreads, the threads that run such loops, for any number of *)
(* threads and of calls:                                                   *)
(*   PoolTypeCorrect   the variables keep their types;                     *)
(*   NoDeadLoop    an owner that waits for its threads meets no loop that  *)
(*                 does not exist (LoopsLive);                             *)
(*   DealtEvenly   the loops are dealt out in turn.                        *)
(* The two state machines share no variable.                               *)
(***************************************************************************)
EXTENDS EventLoop, IoThreads, Integers, TLAPS, SequenceTheorems,
        FiniteSetTheorems

-----------------------------------------------------------------------------
(* Types *)

LEMMA InitType == Init => TypeOK
<1> SUFFICES ASSUME Init PROVE TypeOK
  OBVIOUS
<1>1. functorList \in Seq(Task) /\ functionList \in Seq(Task) /\ executed \in Seq(Task)
  BY EmptySeq DEF Init
<1>2. counter \in 0 .. EventfdMax /\ posted \in [Posters -> 0 .. MaxTasks]
  BY LoopAssumption DEF Init
<1>3. posting \in [Posters -> {"idle", "pushed"}]
  BY DEF Init
<1> QED
  BY <1>1, <1>2, <1>3 DEF Init, TypeOK

\* A task pushed by a thread that has not used up its budget is a task.
LEMMA NextTask ==
  ASSUME TypeOK, NEW t \in Posters, posted[t] < MaxTasks
  PROVE  <<t, posted[t] + 1>> \in Task
  BY LoopAssumption DEF TypeOK, Task

LEMMA PushType ==
  ASSUME TypeOK, NEW t \in Posters, PushTask(t)
  PROVE  TypeOK'
<1>1. <<t, posted[t] + 1>> \in Task
  BY NextTask DEF PushTask
<1>2. functorList' \in Seq(Task)
  BY <1>1 DEF TypeOK, PushTask
<1>3. posted' \in [Posters -> 0 .. MaxTasks]
  BY LoopAssumption DEF TypeOK, PushTask
<1> QED
  BY <1>2, <1>3 DEF TypeOK, PushTask

LEMMA StepType == TypeOK /\ [Next]_vars => TypeOK'
<1> SUFFICES ASSUME TypeOK, [Next]_vars
             PROVE  TypeOK'
  OBVIOUS
<1>1. CASE LoopStart
  BY <1>1 DEF TypeOK, LoopStart, AtLoop, postVars
<1>2. CASE TestQuit
  BY <1>2 DEF TypeOK, TestQuit, AtLoop, postVars
<1>3. CASE PollWakeup
  BY <1>3 DEF TypeOK, PollWakeup, PollReturns, AtLoop, postVars
<1>4. CASE HandleWakeup
  BY <1>4, LoopAssumption DEF TypeOK, HandleWakeup, HandleRead, AtLoop, postVars
<1>5. CASE HandleIo
  BY <1>5 DEF TypeOK, HandleIo, AtLoop, postVars
<1>6. CASE ReturnFromCallback
  BY <1>6 DEF TypeOK, ReturnFromCallback, postVars
<1>7. CASE EndDispatch
  BY <1>7 DEF TypeOK, EndDispatch, AtLoop, postVars
<1>8. CASE Swap
  BY <1>8 DEF TypeOK, Swap, SwapLists, AtLoop, postVars
<1>9. CASE RunTask
  <2>1. Head(functionList) \in Task /\ Tail(functionList) \in Seq(Task)
    BY <1>9 DEF TypeOK, RunTask
  <2>2. executed' \in Seq(Task)
    BY <1>9, <2>1 DEF TypeOK, RunTask
  <2> QED
    BY <1>9, <2>1, <2>2 DEF TypeOK, RunTask, AtLoop, postVars
<1>10. CASE EndRun
  BY <1>10 DEF TypeOK, EndRun, AtLoop, postVars
<1>11. CASE PollIo
  BY <1>11 DEF TypeOK, PollIo, PollReturns, AtLoop, postVars
<1>12. CASE PollTimeout
  BY <1>12 DEF TypeOK, PollTimeout, PollReturns, AtLoop, postVars
<1>13. CASE QuitLoop
  BY <1>13 DEF TypeOK, QuitLoop, postVars
<1>14. ASSUME NEW t \in Posters, PushTask(t)
       PROVE  TypeOK'
  BY <1>14, PushType
<1>15. ASSUME NEW t \in Posters, WakeUp(t)
       PROVE  TypeOK'
  <2>1. counter' \in 0 .. EventfdMax /\ ready' \in BOOLEAN
    <3>1. CASE counter < EventfdMax
      <4>1. counter' = counter + 1 /\ ready' = TRUE
        BY <1>15, <3>1 DEF WakeUp, EventfdWrite
      <4>2. counter' \in 0 .. EventfdMax
        BY <4>1, <3>1, LoopAssumption DEF TypeOK
      <4> QED
        BY <4>1, <4>2
    <3>2. CASE ~(counter < EventfdMax)
      BY <1>15, <3>2 DEF TypeOK, WakeUp, EventfdWrite
    <3> QED
      BY <3>1, <3>2
  <2>2. posting' \in [Posters -> {"idle", "pushed"}]
    BY <1>15 DEF TypeOK, WakeUp
  <2> QED
    BY <1>15, <2>1, <2>2 DEF TypeOK, WakeUp
<1>16. CASE Terminated \/ UNCHANGED vars
  BY <1>16 DEF TypeOK, Terminated, vars
<1> QED
  BY <1>1, <1>2, <1>3, <1>4, <1>5, <1>6, <1>7, <1>8, <1>9, <1>10, <1>11,
     <1>12, <1>13, <1>14, <1>15, <1>16 DEF Next, LoopStep

\* The variables keep their types: the eventfd counter stays within its
\* limit, the lists hold tasks only (EventLoop.h:55-63, EventLoop.cpp:45-120).
THEOREM TypeCorrect == Spec => []TypeOK
  BY InitType, StepType, PTL DEF Spec

-----------------------------------------------------------------------------
(* The wake-up protocol *)

LEMMA InitWakeup == Init => WakeupInv
  BY LoopAssumption
  DEF Init, WakeupInv, CountAnnounced, TaskAnnounced, PhaseOK

\* A thread between the push and the write vouches for its task.
LEMMA PushWakeup ==
  ASSUME TypeOK, WakeupInv, NEW t \in Posters, PushTask(t)
  PROVE  WakeupInv'
<1>1. posting'[t] = "pushed"
  BY DEF TypeOK, PushTask
<1>2. ~NobodyPosting'
  BY <1>1 DEF NobodyPosting
<1>3. PhaseOK'
  <2>1. CASE t = LoopThread
    BY <2>1 DEF TypeOK, WakeupInv, PhaseOK, PushTask
  <2>2. CASE t # LoopThread
    BY <2>2, LoopAssumption DEF TypeOK, WakeupInv, PhaseOK, PushTask
  <2> QED
    BY <2>1, <2>2
<1> QED
  BY <1>2, <1>3 DEF WakeupInv, CountAnnounced, TaskAnnounced, PushTask

\* After the write the eventfd is not zero and epoll holds its edge.
LEMMA WriteWakeup ==
  ASSUME TypeOK, WakeupInv, NEW t \in Posters, WakeUp(t)
  PROVE  WakeupInv'
<1>1. CASE counter < EventfdMax
  <2>1. counter' = counter + 1 /\ ready' = TRUE
    BY <1>1 DEF WakeUp, EventfdWrite
  <2>2. counter' > 0
    BY <2>1, LoopAssumption DEF TypeOK
  <2> QED
    BY <2>1, <2>2, LoopAssumption
    DEF TypeOK, WakeupInv, CountAnnounced, TaskAnnounced, PhaseOK, WakeUp
<1>2. CASE ~(counter < EventfdMax)
  <2>1. counter' = counter /\ ready' = ready
    BY <1>2 DEF WakeUp, EventfdWrite
  <2>2. counter > 0
    BY <1>2, LoopAssumption DEF TypeOK
  <2> QED
    BY <2>1, <2>2, LoopAssumption
    DEF TypeOK, WakeupInv, CountAnnounced, TaskAnnounced, PhaseOK, WakeUp
<1> QED
  BY <1>1, <1>2

LEMMA StepWakeup == TypeOK /\ WakeupInv /\ [Next]_vars => WakeupInv'
<1> SUFFICES ASSUME TypeOK, WakeupInv, [Next]_vars
             PROVE  WakeupInv'
  OBVIOUS
<1> USE DEF WakeupInv, CountAnnounced, TaskAnnounced, PhaseOK, NobodyPosting,
            postVars
<1>1. CASE LoopStart
  BY <1>1 DEF LoopStart, AtLoop
<1>2. CASE TestQuit
  BY <1>2 DEF TestQuit, AtLoop
<1>3. CASE PollWakeup
  BY <1>3 DEF PollWakeup, PollReturns, AtLoop
<1>4. CASE HandleWakeup
  BY <1>4 DEF HandleWakeup, HandleRead, AtLoop
<1>5. CASE HandleIo
  BY <1>5 DEF HandleIo, AtLoop
<1>6. CASE ReturnFromCallback
  BY <1>6 DEF ReturnFromCallback
<1>7. CASE EndDispatch
  BY <1>7 DEF EndDispatch, AtLoop
<1>8. CASE Swap
  BY <1>8 DEF Swap, SwapLists, AtLoop
<1>9. CASE RunTask
  BY <1>9 DEF RunTask, AtLoop
<1>10. CASE EndRun
  BY <1>10 DEF EndRun, AtLoop
<1>11. CASE PollIo
  BY <1>11 DEF PollIo, WakeupReported, PollReturns, AtLoop
<1>12. CASE PollTimeout
  BY <1>12 DEF PollTimeout, WakeupReported, PollReturns, AtLoop
<1>13. CASE QuitLoop
  BY <1>13 DEF QuitLoop
<1>14. ASSUME NEW t \in Posters, PushTask(t)
       PROVE  WakeupInv'
  BY <1>14, PushWakeup
<1>15. ASSUME NEW t \in Posters, WakeUp(t)
       PROVE  WakeupInv'
  BY <1>15, WriteWakeup
<1>16. CASE Terminated \/ UNCHANGED vars
  BY <1>16 DEF Terminated, vars
<1> QED
  BY <1>1, <1>2, <1>3, <1>4, <1>5, <1>6, <1>7, <1>8, <1>9, <1>10, <1>11,
     <1>12, <1>13, <1>14, <1>15, <1>16 DEF Next, LoopStep

\* The strengthened invariant holds in every reachable state: what the pieces
\* of addTask, handleRead and executeTask guarantee each other.
THEOREM WakeupInvariant == Spec => []WakeupInv
<1>1. Init => TypeOK /\ WakeupInv
  BY InitType, InitWakeup
<1>2. TypeOK /\ WakeupInv /\ [Next]_vars => (TypeOK /\ WakeupInv)'
  BY StepType, StepWakeup
<1> QED
  BY <1>1, <1>2, PTL DEF Spec

LEMMA WakeupImplies == WakeupInv => NoLostWakeup
  BY DEF WakeupInv, CountAnnounced, TaskAnnounced, NoLostWakeup, WakeupReported

\* The loop never sleeps in epoll_wait over a task whose poster has returned
\* from addTask, whatever the number of posting threads (EventLoop.h:55-63).
THEOREM WakeupSafe == Spec => []NoLostWakeup
  BY WakeupInvariant, WakeupImplies, PTL

-----------------------------------------------------------------------------
(* The loop is a task queue *)

LEMMA HeadTailOfConcat ==
  ASSUME NEW S, NEW s \in Seq(S), NEW t \in Seq(S), s # <<>>
  PROVE  /\ s \o t # <<>>
         /\ Head(s \o t) = Head(s)
         /\ Tail(s \o t) = Tail(s) \o t
<1>1. s \o t \in Seq(S) /\ Len(s \o t) = Len(s) + Len(t)
  BY ConcatProperties
<1>2. Len(s) \in Nat \ {0} /\ Len(t) \in Nat
  BY EmptySeq, LenProperties
<1>3. s \o t # <<>>
  BY <1>1, <1>2, EmptySeq
<1>4. Head(s \o t) = Head(s)
  <2>1. (s \o t)[1] = s[1]
    BY <1>2, ConcatProperties
  <2> QED
    BY <2>1, <1>1, <1>3
<1>5. Tail(s \o t) = Tail(s) \o t
  <2>1. Tail(s) \in Seq(S) /\ Len(Tail(s)) = Len(s) - 1
    BY HeadTailProperties
  <2>2. Tail(s \o t) \in Seq(S) /\ Len(Tail(s \o t)) = Len(s) + Len(t) - 1
    BY <1>1, <1>3, HeadTailProperties
  <2>3. /\ Tail(s) \o t \in Seq(S)
        /\ Len(Tail(s) \o t) = Len(s) + Len(t) - 1
    BY <2>1, <1>2, ConcatProperties
  <2>4. ASSUME NEW i \in 1 .. Len(s) + Len(t) - 1
        PROVE  Tail(s \o t)[i] = (Tail(s) \o t)[i]
    <3>1. Tail(s \o t)[i] = (s \o t)[i + 1]
      BY <1>1, <1>3, <2>2, HeadTailProperties
    <3>2. i + 1 \in 1 .. Len(s) + Len(t)
      BY <1>2
    <3>3. (s \o t)[i + 1] = IF i + 1 <= Len(s) THEN s[i + 1]
                                               ELSE t[i + 1 - Len(s)]
      BY <3>2, ConcatProperties
    <3>4. i \in 1 .. Len(Tail(s)) + Len(t)
      BY <2>1, <1>2
    <3>5. (Tail(s) \o t)[i] = IF i <= Len(Tail(s)) THEN Tail(s)[i]
                                                  ELSE t[i - Len(Tail(s))]
      BY <3>4, <2>1, ConcatProperties
    <3>6. CASE i <= Len(s) - 1
      <4>1. i \in 1 .. Len(Tail(s))
        BY <3>6, <2>1, <1>2
      <4>2. Tail(s)[i] = s[i + 1]
        BY <4>1, HeadTailProperties
      <4> QED
        BY <3>1, <3>3, <3>5, <3>6, <4>2, <2>1, <1>2
    <3>7. CASE ~(i <= Len(s) - 1)
      <4>1. i + 1 - Len(s) = i - Len(Tail(s))
        BY <2>1, <1>2
      <4> QED
        BY <3>1, <3>3, <3>5, <3>7, <4>1, <2>1, <1>2
    <3> QED
      BY <3>6, <3>7
  <2> QED
    BY <2>2, <2>3, <2>4, SeqEqual
<1> QED
  BY <1>3, <1>4, <1>5

LEMMA ConcatAppend ==
  ASSUME NEW S, NEW s \in Seq(S), NEW t \in Seq(S), NEW e \in S
  PROVE  s \o Append(t, e) = Append(s \o t, e)
<1>1. Append(t, e) = t \o <<e>> /\ <<e>> \in Seq(S)
  BY AppendIsConcat
<1>2. s \o t \in Seq(S)
  BY ConcatProperties
<1>3. Append(s \o t, e) = (s \o t) \o <<e>>
  BY <1>2, AppendIsConcat
<1>4. (s \o t) \o <<e>> = s \o (t \o <<e>>)
  BY <1>1, ConcatAssociative
<1> QED
  BY <1>1, <1>3, <1>4

\* The queue the task-queue view of the loop sees.
AbsQueue == functionList \o functorList

LEMMA PushSubmits ==
  ASSUME TypeOK, NEW t \in Posters, PushTask(t)
  PROVE  TQ!Next
<1> DEFINE x == <<t, posted[t] + 1>>
<1>1. x \in Task
  BY NextTask DEF PushTask
<1>2. AbsQueue' = Append(AbsQueue, x)
  <2>1. functionList' = functionList /\ functorList' = Append(functorList, x)
    BY DEF PushTask
  <2>2. functionList \o Append(functorList, x)
          = Append(functionList \o functorList, x)
    BY <1>1, ConcatAppend, SMTT(30) DEF TypeOK
  <2>3. AbsQueue' = functionList \o Append(functorList, x)
    BY <2>1, Zenon DEF AbsQueue
  <2> QED
    BY <2>2, <2>3, Zenon DEF AbsQueue
<1>3. executed' = executed /\ pc' = pc
  BY DEF PushTask
<1>4. TQ!Submit(x)
  BY <1>2, <1>3 DEF TQ!Submit, AbsQueue
<1> QED
  BY <1>1, <1>4 DEF TQ!Next

LEMMA RunPerforms ==
  ASSUME TypeOK, RunTask
  PROVE  TQ!Next
<1>1. /\ AbsQueue # <<>>
      /\ Head(AbsQueue) = Head(functionList)
      /\ Tail(AbsQueue) = Tail(functionList) \o functorList
  BY HeadTailOfConcat DEF TypeOK, RunTask, AbsQueue
<1>2. /\ functionList' = Tail(functionList)
      /\ functorList' = functorList
      /\ executed' = Append(executed, Head(functionList))
      /\ pc = "run"
      /\ pc' = pc
  BY DEF RunTask, AtLoop
<1>3. AbsQueue' = Tail(AbsQueue)
  BY <1>1, <1>2 DEF AbsQueue
<1>4. TQ!Perform
  BY <1>1, <1>2, <1>3 DEF TQ!Perform, AbsQueue
<1> QED
  BY <1>4 DEF TQ!Next

\* The swap moves the list from one half of the queue to the other.
LEMMA SwapStutters ==
  ASSUME TypeOK, PhaseOK, Swap
  PROVE  UNCHANGED TQ!tqVars
<1>1. functionList = <<>>
  BY DEF Swap, AtLoop, PhaseOK
<1>2. functionList' = functorList /\ functorList' = <<>>
  BY DEF Swap, SwapLists
<1>3. functorList \o <<>> = <<>> \o functorList
  BY ConcatEmptySeq DEF TypeOK
<1>4. AbsQueue' = AbsQueue
  BY <1>1, <1>2, <1>3 DEF AbsQueue
<1>5. executed' = executed /\ (pc' # "stopped") = (pc # "stopped")
  BY DEF Swap, AtLoop
<1> QED
  BY <1>4, <1>5 DEF TQ!tqVars, AbsQueue

\* Every other step leaves the queue alone; loop() closes it when it returns.
LEMMA StepRefines ==
  TypeOK /\ WakeupInv /\ [Next]_vars => [TQ!Next]_(TQ!tqVars)
<1> SUFFICES ASSUME TypeOK, WakeupInv, [Next]_vars
             PROVE  TQ!Next \/ UNCHANGED TQ!tqVars
  OBVIOUS
<1> USE DEF TQ!tqVars
<1>1. CASE LoopStart
  BY <1>1 DEF LoopStart, AtLoop
<1>2. CASE TestQuit
  <2>1. CASE quit
    BY <1>2, <2>1 DEF TestQuit, AtLoop, TQ!Next, TQ!Close
  <2>2. CASE ~quit
    BY <1>2, <2>2 DEF TestQuit, AtLoop
  <2> QED
    BY <2>1, <2>2
<1>3. CASE PollWakeup
  BY <1>3 DEF PollWakeup, PollReturns, AtLoop
<1>4. CASE HandleWakeup
  BY <1>4 DEF HandleWakeup
<1>5. CASE HandleIo
  BY <1>5 DEF HandleIo
<1>6. CASE ReturnFromCallback
  BY <1>6 DEF ReturnFromCallback
<1>7. CASE EndDispatch
  BY <1>7 DEF EndDispatch, AtLoop
<1>8. CASE Swap
  BY <1>8, SwapStutters DEF WakeupInv
<1>9. CASE RunTask
  BY <1>9, RunPerforms
<1>10. CASE EndRun
  BY <1>10 DEF EndRun, AtLoop
<1>11. CASE PollIo
  BY <1>11 DEF PollIo, PollReturns, AtLoop
<1>12. CASE PollTimeout
  BY <1>12 DEF PollTimeout, PollReturns, AtLoop
<1>13. CASE QuitLoop
  BY <1>13 DEF QuitLoop
<1>14. ASSUME NEW t \in Posters, PushTask(t)
       PROVE  TQ!Next
  BY <1>14, PushSubmits
<1>15. ASSUME NEW t \in Posters, WakeUp(t)
       PROVE  UNCHANGED TQ!tqVars
  BY <1>15 DEF WakeUp
<1>16. CASE Terminated \/ UNCHANGED vars
  BY <1>16 DEF Terminated, vars
<1> QED
  BY <1>1, <1>2, <1>3, <1>4, <1>5, <1>6, <1>7, <1>8, <1>9, <1>10, <1>11,
     <1>12, <1>13, <1>14, <1>15, <1>16 DEF Next, LoopStep

\* addTask and executeTask implement a task queue: whatever the threads and
\* their number, tasks run once each in the order of their pushes, and only
\* while loop() has not returned (EventLoop.cpp:74-120).
THEOREM ImplementsTaskQueue == Spec => QueueSafe
<1>1. Init => TQ!Init
  <2>1. <<>> \o <<>> = <<>>
    BY ConcatEmptySeq, EmptySeq
  <2> QED
    BY <2>1 DEF Init, TQ!Init
<1>2. TypeOK /\ WakeupInv /\ [Next]_vars => [TQ!Next]_(TQ!tqVars)
  BY StepRefines
<1> QED
  BY <1>1, <1>2, TypeCorrect, WakeupInvariant, PTL
  DEF Spec, QueueSafe, TQ!SafeSpec

-----------------------------------------------------------------------------
(* The threads that run loops: types *)

LEMMA Bounds == /\ ThreadNum \in Int /\ ThreadNum > 0
                /\ MaxTakes \in Nat /\ MaxThrows \in Nat
  BY PoolAssumption

LEMMA ThreadsAre == \A t : t \in Threads <=> t \in Int /\ 0 <= t /\ t < ThreadNum
  BY Bounds DEF Threads

LEMMA AtNext ==
  ASSUME at \in Threads
  PROVE  (IF at = ThreadNum - 1 THEN 0 ELSE at + 1) \in Threads
  BY Bounds, ThreadsAre

LEMMA Ranges ==
  ASSUME PoolTypeOK
  PROVE  /\ at \in Threads /\ index \in Threads
         /\ at \in Int /\ index \in Int /\ throws \in Int
         /\ 0 <= throws /\ throws <= MaxThrows
         /\ \A t \in Threads :
              taken[t] \in Int /\ 0 <= taken[t] /\ taken[t] <= MaxTakes
<1>1. at \in Threads /\ index \in Threads /\ throws \in 0 .. MaxThrows
  BY DEF PoolTypeOK
<1>2. \A t \in Threads : taken[t] \in 0 .. MaxTakes
  BY DEF PoolTypeOK
<1> QED
  BY <1>1, <1>2, ThreadsAre, Bounds

\* index_ turns round behind the last thread.
LEMMA NextIndexIs ==
  ASSUME index \in Threads
  PROVE  NextIndex = IF index = ThreadNum - 1 THEN 0 ELSE index + 1
<1>1. CASE index = ThreadNum - 1
  BY <1>1, Bounds DEF NextIndex, Threads
<1>2. CASE index # ThreadNum - 1
  <2>1. index + 1 \in 0 .. ThreadNum - 1
    BY <1>2, Bounds DEF Threads
  <2> QED
    BY <1>2, <2>1, Bounds DEF NextIndex
<1> QED
  BY <1>1, <1>2

\* A thread whose loop was dealt out MaxTakes times uses up the bound.
LEMMA TakesLeft ==
  ASSUME PoolTypeOK, NEW t \in Threads, Total < MaxTakes
  PROVE  taken[t] + 1 \in 0 .. MaxTakes
<1> SUFFICES ASSUME taken[t] = MaxTakes
             PROVE  FALSE
  BY Bounds, Ranges
<1> DEFINE Mine == {t} \X (1 .. MaxTakes)
<1>1. /\ IsFiniteSet(Threads) /\ IsFiniteSet(1 .. MaxTakes)
      /\ Cardinality(1 .. MaxTakes) = MaxTakes
  BY FS_Interval, Bounds DEF Threads
<1>2. IsFiniteSet(Dealt)
  BY <1>1, FS_Product, FS_Subset DEF Dealt
<1>3. Cardinality(Mine) = MaxTakes
  <2>1. IsFiniteSet({t}) /\ Cardinality({t}) = 1
    BY FS_Singleton
  <2>2. Cardinality(Mine) = 1 * MaxTakes
    BY <1>1, <2>1, FS_Product
  <2> QED
    BY <2>2, Bounds
<1>4. Mine \in SUBSET Dealt
  BY DEF Dealt
<1>5. Cardinality(Mine) <= Cardinality(Dealt)
  BY <1>2, <1>4, FS_Subset
<1> QED
  BY <1>2, <1>3, <1>5, FS_CardinalityType, Bounds DEF Total

LEMMA PoolInitType == PoolInit => PoolTypeOK
  BY Bounds DEF PoolInit, PoolTypeOK, Threads

LEMMA PoolStepType == PoolTypeOK /\ [PoolNext]_poolVars => PoolTypeOK'
<1> SUFFICES ASSUME PoolTypeOK, [PoolNext]_poolVars
             PROVE  PoolTypeOK'
  OBVIOUS
<1>1. CASE StartThread
  <2>1. at' \in Threads
    BY <1>1, AtNext DEF StartThread, PoolTypeOK
  <2> QED
    BY <1>1, <2>1 DEF StartThread, PoolTypeOK
<1>2. CASE GetNextLoop
  <2>1. index' \in Threads
    <3>1. index' \in {index, NextIndex}
      BY <1>2 DEF GetNextLoop
    <3>2. NextIndex \in Threads
      BY Ranges, NextIndexIs, Bounds, ThreadsAre
    <3> QED
      BY <3>1, <3>2, Ranges
  <2>2. taken' \in [Threads -> 0 .. MaxTakes]
    BY <1>2, TakesLeft DEF GetNextLoop, PoolTypeOK
  <2>3. exited' \in {"no", "dead loop"}
    BY <1>2 DEF GetNextLoop, PoolTypeOK
  <2> QED
    BY <1>2, <2>1, <2>2, <2>3 DEF GetNextLoop, PoolTypeOK, threadVars
<1>3. CASE Destroy
  BY <1>3 DEF Destroy, PoolTypeOK, threadVars
<1>4. CASE QuitThread
  BY <1>4 DEF QuitThread, QuitItsLoop, PoolTypeOK
<1>5. CASE JoinThread
  <2>1. at' \in Threads
    BY <1>5, AtNext DEF JoinThread, PoolTypeOK
  <2> QED
    BY <1>5, <2>1 DEF JoinThread, PoolTypeOK, threadVars
<1>6. CASE Rest \/ UNCHANGED poolVars
  BY <1>6 DEF Rest, poolVars, threadVars, PoolTypeOK
<1>7. ASSUME NEW t \in Threads, ThreadStep(t)
      PROVE  PoolTypeOK'
  BY <1>7
  DEF ThreadStep, MakeLoop, EnterLoop, ClearQuit, LeaveLoop, Leave, PoolTypeOK
<1>8. ASSUME NEW t \in Threads, Throw(t)
      PROVE  PoolTypeOK'
  <2>1. throws' \in 0 .. MaxThrows
    BY <1>8, Bounds, Ranges DEF Throw
  <2> QED
    BY <1>8, <2>1 DEF Throw, Leave, PoolTypeOK
<1> QED
  BY <1>1, <1>2, <1>3, <1>4, <1>5, <1>6, <1>7, <1>8 DEF PoolNext

\* The variables keep their types: start(), getNextLoop and the destructor
\* stay within the list of threads (EventLoopThreadPool.cpp:17-47).
THEOREM PoolTypeCorrect == PoolSpec => []PoolTypeOK
  BY PoolInitType, PoolStepType, PTL DEF PoolSpec

-----------------------------------------------------------------------------
(* The threads that run loops: no dead loop *)

\* The destructor has told t to quit.
Told(t) == \/ owner = "destroyed"
           \/ owner \in {"quitting", "joining"} /\ t < at
           \/ owner = "joining" /\ t = at

\* A thread's loop exists while the thread builds and runs it.
LoopBuilt == \A t \in Threads : thread[t] \in {"made", "looping"} => loop[t] = "live"

\* The patient owner destroys the pool when every thread has entered its loop.
Entered ==
  owner \in {"quitting", "joining", "destroyed"} =>
    \A t \in Threads : thread[t] \in {"looping", "left"}

\* A loop that no exception ended quits because it was told to.
QuitsWhenTold ==
  throws = 0 =>
    \A t \in Threads :
      thread[t] = "left" \/ (thread[t] = "looping" /\ quits[t]) => Told(t)

LoopInv == LoopBuilt /\ Entered /\ QuitsWhenTold /\ LoopsLive

LEMMA InitLoop == PoolInit => LoopInv
  BY DEF PoolInit, LoopInv, LoopBuilt, Entered, QuitsWhenTold, LoopsLive

LEMMA StepLoop ==
  ASSUME Patient
  PROVE  PoolTypeOK /\ LoopInv /\ [PoolNext]_poolVars => LoopInv'
<1> SUFFICES ASSUME PoolTypeOK, LoopInv, [PoolNext]_poolVars
             PROVE  LoopInv'
  OBVIOUS
<1>1. CASE StartThread
  BY <1>1
  DEF StartThread, PoolTypeOK, LoopInv, LoopBuilt, Entered, QuitsWhenTold, Told,
      LoopsLive
<1>2. CASE GetNextLoop
  <2>1. throws = 0 => loop[index] = "live"
    BY <1>2
    DEF GetNextLoop, MayUse, PoolTypeOK, LoopInv, LoopBuilt, QuitsWhenTold, Told
  <2> QED
    BY <1>2, <2>1
    DEF GetNextLoop, threadVars, PoolTypeOK, LoopInv, LoopBuilt, Entered,
        QuitsWhenTold, Told, LoopsLive
<1>3. CASE Destroy
  BY <1>3
  DEF Destroy, MayUse, threadVars, PoolTypeOK, LoopInv, LoopBuilt, Entered,
      QuitsWhenTold, Told, LoopsLive
<1>4. CASE QuitThread
  <2>1. throws = 0 => ~Told(at)
    BY <1>4, Ranges DEF QuitThread, Told
  <2>2. throws = 0 => loop[at] = "live"
    BY <1>4, <2>1
    DEF QuitThread, PoolTypeOK, LoopInv, LoopBuilt, Entered, QuitsWhenTold
  <2>3. \A t \in Threads : Told(t) => Told(t)'
    BY <1>4 DEF QuitThread, Told
  <2>4. Told(at)'
    BY <1>4 DEF QuitThread, Told
  <2>5. QuitsWhenTold'
    BY <1>4, <2>3, <2>4
    DEF QuitThread, QuitItsLoop, PoolTypeOK, LoopInv, QuitsWhenTold
  <2> QED
    BY <1>4, <2>2, <2>5
    DEF QuitThread, QuitItsLoop, PoolTypeOK, LoopInv, LoopBuilt, Entered, LoopsLive
<1>5. CASE JoinThread
  <2>1. \A t \in Threads : Told(t) => Told(t)'
    BY <1>5, Bounds, Ranges, ThreadsAre DEF JoinThread, Told
  <2> QED
    BY <1>5, <2>1
    DEF JoinThread, threadVars, LoopInv, LoopBuilt, Entered, QuitsWhenTold,
        LoopsLive
<1>6. CASE Rest \/ UNCHANGED poolVars
  BY <1>6
  DEF Rest, poolVars, threadVars, LoopInv, LoopBuilt, Entered, QuitsWhenTold, Told,
      LoopsLive
<1>7. ASSUME NEW t \in Threads, ThreadStep(t)
      PROVE  LoopInv'
  <2> USE DEF PoolTypeOK, LoopInv, LoopBuilt, Entered, QuitsWhenTold, Told, LoopsLive
  <2>1. CASE MakeLoop(t)
    BY <2>1 DEF MakeLoop
  <2>2. CASE EnterLoop(t)
    BY <2>2 DEF EnterLoop, ClearQuit
  <2>3. CASE LeaveLoop(t)
    BY <2>3 DEF LeaveLoop, Leave
  <2> QED
    BY <1>7, <2>1, <2>2, <2>3 DEF ThreadStep
<1>8. ASSUME NEW t \in Threads, Throw(t)
      PROVE  LoopInv'
  <2>1. ~(throws' = 0)
    BY <1>8, Ranges DEF Throw
  <2> QED
    BY <1>8, <2>1
    DEF Throw, Leave, PoolTypeOK, LoopInv, LoopBuilt, Entered, QuitsWhenTold,
        LoopsLive
<1> QED
  BY <1>1, <1>2, <1>3, <1>4, <1>5, <1>6, <1>7, <1>8 DEF PoolNext

\* An owner that uses the pool only once its threads run neither posts to nor
\* quits a loop that does not exist, unless a bad_alloc ended one
\* (EventLoopThread.cpp:14, EventLoopThreadPool.cpp:35).
THEOREM NoDeadLoop ==
  ASSUME Patient
  PROVE  PoolSpec => []LoopsLive
<1>1. LoopInv => LoopsLive
  BY DEF LoopInv
<1>2. PoolTypeOK /\ LoopInv /\ [PoolNext]_poolVars => LoopInv'
  BY StepLoop
<1> QED
  BY <1>1, <1>2, PoolInitType, PoolStepType, InitLoop, PTL DEF PoolSpec

-----------------------------------------------------------------------------
(* The threads that run loops: round robin *)

\* The threads before index_ were dealt out once more often than the others.
InTurn ==
  \A s \in Threads, t \in Threads :
    taken[s] = taken[t] + (IF s < index /\ index <= t THEN 1
                           ELSE IF t < index /\ index <= s THEN -1 ELSE 0)

\* No loop gets two connections more than another.
Even == \A s \in Threads, t \in Threads : taken[s] <= taken[t] + 1

LEMMA StepTurn == PoolTypeOK /\ InTurn /\ [PoolNext]_poolVars => InTurn'
<1> SUFFICES ASSUME PoolTypeOK, InTurn, [PoolNext]_poolVars
             PROVE  InTurn'
  OBVIOUS
<1>1. CASE GetNextLoop /\ loop[index] = "live"
  <2>1. /\ taken' = [taken EXCEPT ![index] = @ + 1]
        /\ index' = IF index = ThreadNum - 1 THEN 0 ELSE index + 1
    BY <1>1, NextIndexIs, Ranges DEF GetNextLoop
  <2>2. \A t \in Threads : t \in Int /\ taken[t] \in Int /\ 0 <= t /\ t < ThreadNum
    BY Ranges, ThreadsAre
  <2>3. index \in Threads /\ ThreadNum \in Int
    BY Bounds, Ranges
  <2>4. \A t \in Threads : taken'[t] = IF t = index THEN taken[t] + 1 ELSE taken[t]
    BY <2>1 DEF PoolTypeOK
  <2> QED
    BY <2>1, <2>2, <2>3, <2>4 DEF InTurn
<1>2. CASE UNCHANGED <<taken, index>>
  BY <1>2 DEF InTurn
<1>3. CASE GetNextLoop
  BY <1>1, <1>2, <1>3 DEF GetNextLoop
<1>4. CASE StartThread \/ Destroy \/ QuitThread \/ JoinThread
  BY <1>2, <1>4 DEF StartThread, Destroy, QuitThread, JoinThread
<1>5. CASE Rest \/ UNCHANGED poolVars
  BY <1>2, <1>5 DEF Rest, poolVars
<1>6. ASSUME NEW t \in Threads, ThreadStep(t) \/ Throw(t)
      PROVE  InTurn'
  BY <1>2, <1>6 DEF ThreadStep, MakeLoop, EnterLoop, LeaveLoop, Throw, Leave
<1> QED
  BY <1>3, <1>4, <1>5, <1>6 DEF PoolNext

\* getNextLoop deals the loops out in turn: after any number of calls no thread
\* was given two more than another (EventLoopThreadPool.cpp:33-47).
THEOREM DealtEvenly == PoolSpec => []Even
<1>1. PoolInit => InTurn
  BY Bounds DEF PoolInit, InTurn, Threads
<1>2. PoolTypeOK /\ InTurn => Even
  BY Ranges, Bounds, ThreadsAre DEF InTurn, Even
<1> QED
  BY <1>1, <1>2, PoolInitType, PoolStepType, StepTurn, PTL DEF PoolSpec

=============================================================================
