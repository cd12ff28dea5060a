----------------------------- MODULE IoThreads -----------------------------
(***************************************************************************)
(* EventLoopThread and EventLoopThreadPool: the owner (a TcpServer or a    *)
(* TcpClient) starts the IO threads, deals their loops out in turn, and    *)
(* stops and joins one thread after the other in the destructor.           *)
(*                                                                         *)
(* Each IO thread builds its EventLoop on its own stack and publishes its  *)
(* address in loop_, which the owner reads without any synchronisation.    *)
(* The inside of a loop is module EventLoop; here it is its quit_ flag.    *)
(***************************************************************************)
EXTENDS Naturals, FiniteSets

CONSTANTS
  ThreadNum,  \* threadnum_
  MaxTakes,   \* bound: calls of getNextLoop
  MaxThrows,  \* bound: threads whose loop() ends with a bad_alloc
  Patient     \* the owner uses the pool once every thread runs its loop, as
              \* TcpClient tries to by sleeping after start() (TcpClient.cpp:24)

ASSUME PoolAssumption == /\ ThreadNum \in Nat \ {0}
                         /\ {MaxTakes, MaxThrows} \subseteq Nat
                         /\ Patient \in BOOLEAN

Threads == 0 .. ThreadNum - 1

VARIABLES
  thread,  \* where each thread is in thredFunc
  loop,    \* loop_ of each EventLoopThread: "null", "live" or "dangling"
  quits,   \* quit_ of each loop
  owner,   \* what the owner is doing
  at,      \* the thread start() or the destructor has come to
  index,   \* index_
  taken,   \* history: how often each thread's loop was dealt out
  throws,  \* number of loops ended by bad_alloc
  exited   \* why the process died, "no" while it runs

threadVars == <<thread, loop, quits, throws>>
poolVars == <<threadVars, owner, at, index, taken, exited>>

PoolInit == /\ thread = [t \in Threads |-> "none"]
            /\ loop = [t \in Threads |-> "null"]
            /\ quits = [t \in Threads |-> TRUE]
            /\ owner = "new"
            /\ at = 0
            /\ index = 0
            /\ taken = [t \in Threads |-> 0]
            /\ throws = 0
            /\ exited = "no"

Alive == exited = "no"

\* The calls of getNextLoop so far, numbered per thread.
Dealt == {d \in Threads \X (1 .. MaxTakes) : d[2] <= taken[d[1]]}
Total == Cardinality(Dealt)

-----------------------------------------------------------------------------
(* The owner *)

\* startThread of the next thread of the list; start() returns after the last.
StartThread ==
  /\ Alive
  /\ owner = "new"
  /\ thread' = [thread EXCEPT ![at] = "spawned"]
  /\ at' = IF at = ThreadNum - 1 THEN 0 ELSE at + 1
  /\ owner' = IF at = ThreadNum - 1 THEN "started" ELSE "new"
  /\ UNCHANGED <<loop, quits, throws, index, taken, exited>>

MayUse == /\ Alive
          /\ owner = "started"
          /\ Patient => \A t \in Threads : thread[t] \in {"looping", "left"}

\* (mutant) index_ runs past the end before it turns round
NextIndexLate == (index + 1) % (ThreadNum + 1)

NextIndex == (index + 1) % ThreadNum

\* The owner posts a task to the loop it gets.
GetNextLoop ==
  /\ MayUse
  /\ Total < MaxTakes
  /\ IF index \in Threads /\ loop[index] = "live"
       THEN /\ taken' = [taken EXCEPT ![index] = @ + 1]
            /\ index' = NextIndex
            /\ UNCHANGED exited
       ELSE /\ exited' = "dead loop"
            /\ UNCHANGED <<taken, index>>
  /\ UNCHANGED <<threadVars, owner, at>>

\* The destructor, also of a pool that was never started.
Destroy ==
  /\ MayUse \/ (Alive /\ ~Patient /\ owner = "new" /\ at = 0)
  /\ owner' = "quitting"
  /\ UNCHANGED <<threadVars, at, index, taken, exited>>

\* (mutant) ~EventLoopThread joins without quitLoop
QuitNothing == UNCHANGED <<quits, exited>>

\* loop_->quitLoop() of the thread the destructor has come to.
QuitItsLoop == IF loop[at] = "live"
                 THEN quits' = [quits EXCEPT ![at] = TRUE] /\ UNCHANGED exited
                 ELSE exited' = "dead loop" /\ UNCHANGED quits

QuitThread ==
  /\ Alive
  /\ owner = "quitting"
  /\ QuitItsLoop
  /\ owner' = "joining"
  /\ UNCHANGED <<thread, loop, throws, at, index, taken>>

JoinThread ==
  /\ Alive
  /\ owner = "joining"
  /\ thread[at] = "left"
  /\ at' = IF at = ThreadNum - 1 THEN at ELSE at + 1
  /\ owner' = IF at = ThreadNum - 1 THEN "destroyed" ELSE "quitting"
  /\ UNCHANGED <<threadVars, index, taken, exited>>

-----------------------------------------------------------------------------
(* The IO threads: thredFunc *)

MakeLoop(t) ==
  /\ Alive
  /\ thread[t] = "spawned"
  /\ thread' = [thread EXCEPT ![t] = "made"]
  /\ loop' = [loop EXCEPT ![t] = "live"]
  /\ UNCHANGED <<quits, throws, owner, at, index, taken, exited>>

ClearQuit(t) == quits' = [quits EXCEPT ![t] = FALSE]

EnterLoop(t) ==
  /\ Alive
  /\ thread[t] = "made"
  /\ ClearQuit(t)
  /\ thread' = [thread EXCEPT ![t] = "looping"]
  /\ UNCHANGED <<loop, throws, owner, at, index, taken, exited>>

\* The thread leaves thredFunc and its loop dies; loop_ still points to it.
Leave(t) ==
  /\ thread' = [thread EXCEPT ![t] = "left"]
  /\ loop' = [loop EXCEPT ![t] = "dangling"]
  /\ UNCHANGED <<quits, owner, at, index, taken, exited>>

LeaveLoop(t) == /\ Alive
                /\ thread[t] = "looping" /\ quits[t]
                /\ Leave(t)
                /\ UNCHANGED throws

\* A handler or a task throws std::bad_alloc, which thredFunc catches.
Throw(t) == /\ Alive
            /\ thread[t] = "looping"
            /\ throws < MaxThrows
            /\ throws' = throws + 1
            /\ Leave(t)

\* The pool is unused or gone, or the owner waits for a thread.
Rest == /\ Alive => owner \in {"started", "joining", "destroyed"}
        /\ UNCHANGED poolVars

-----------------------------------------------------------------------------

ThreadStep(t) == MakeLoop(t) \/ EnterLoop(t) \/ LeaveLoop(t)

PoolNext == \/ StartThread \/ GetNextLoop \/ Destroy \/ QuitThread \/ JoinThread
            \/ Rest
            \/ \E t \in Threads : ThreadStep(t) \/ Throw(t)

PoolSpec == PoolInit /\ [][PoolNext]_poolVars

\* Threads run; epoll_wait times out, so that a loop looks at quit_ again.
PoolFairSpec == /\ PoolSpec
                /\ WF_poolVars(StartThread) /\ WF_poolVars(QuitThread)
                /\ WF_poolVars(JoinThread)
                /\ \A t \in Threads : WF_poolVars(ThreadStep(t))

-----------------------------------------------------------------------------
(* Properties *)

PoolTypeOK == /\ thread \in [Threads -> {"none", "spawned", "made", "looping", "left"}]
              /\ loop \in [Threads -> {"null", "live", "dangling"}]
              /\ quits \in [Threads -> BOOLEAN]
              /\ owner \in {"new", "started", "quitting", "joining", "destroyed"}
              /\ at \in Threads
              /\ index \in Threads
              /\ taken \in [Threads -> 0 .. MaxTakes]
              /\ throws \in 0 .. MaxThrows
              /\ exited \in {"no", "dead loop"}

\* Used by an owner that waits for its threads, the pool neither hands out a
\* loop that does not exist nor writes to one in its destructor, unless a
\* loop was ended by a bad_alloc (EventLoopThreadPool.cpp:35,
\* EventLoopThread.cpp:14).
LoopsLive == throws = 0 => exited # "dead loop"

\* "get the next loop to be dispatched to" (EventLoopThreadPool.h:32): what
\* getNextLoop returns is a loop, also right after start().
HandsOutLoop == [][GetNextLoop => exited' = "no"]_poolVars

\* "wait for the IO thread to leave" (EventLoopThread.cpp:15): the destructor
\* of the pool returns, since each thread notices that it was told to quit.
DestructorReturns == (owner = "quitting") ~> (owner = "destroyed" \/ ~Alive)

=============================================================================
