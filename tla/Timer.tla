------------------------------- MODULE Timer -------------------------------
(***************************************************************************)
(* One Timer: its timerfd, its Channel in the loop's epoll, the loop       *)
(* thread that runs handleRead and the callbacks, and the threads that     *)
(* start, stop and end the timer and edit its callbacks.                   *)
(*                                                                         *)
(* start() and stop() hold mutex_ and let the loop change epoll by tasks;  *)
(* start() posts its task before it sets the timerfd, which is two steps   *)
(* to the loop.  stop() takes the channel out of epoll and leaves the      *)
(* timerfd running.  handleRead reads the blocking timerfd, and walks over *)
(* the map of callbacks without the mutex under which it is edited.        *)
(*                                                                         *)
(* The two maps of callbacks are walked alike: one stands for both.        *)
(***************************************************************************)
EXTENDS Naturals, Sequences

CONSTANTS
  Users,       \* threads other than the loop's that use the timer
  LoopThread,  \* the thread of the loop: its callbacks use the timer, too
  NoThread,    \* nobody
  KeyCount,    \* the keys of callbacks are 1 .. KeyCount
  MaxStarts,   \* bound: calls of start() that start the timer
  Orderly      \* callbacks are edited, and the timer is closed or destroyed,
               \* only at a moment when the loop has nothing to do with it

ASSUME TimerAssumption == /\ LoopThread \notin Users
                          /\ NoThread \notin Users \union {LoopThread}
                          /\ {KeyCount, MaxStarts} \subseteq Nat
                          /\ Orderly \in BOOLEAN

Threads == Users \union {LoopThread}
Keys == 1 .. KeyCount

VARIABLES
  timer,   \* mode; running, running_; counted, count_ > 0; keys, those of
           \* timerCallbackMap_; et, EPOLLET in the events_ of the Channel; lock,
           \* the holder of mutex_; end: "no", "closed" or "destroyed"
  fd,      \* the timerfd: armed; expired, it has an expiration to read
  epoll,   \* registered; edge, with EPOLLET; onList, on the ready list
  loop,    \* phase of loop(): poll, dispatch or run; active, the channel awaits
           \* handleEvent; tasks, functorList_; batch, functionList; pc, where
           \* handleRead is; at, the key at which its iterator stands
  starts,  \* number of times the timer was started
  fires,   \* history: expirations of a SINGLE timer read by handleRead
  exited   \* why the process died, "no" while it runs

vars == <<timer, fd, epoll, loop, starts, fires, exited>>

Init ==
  /\ \E mode \in {"SINGLE", "CYCLE"} :
       timer = [mode |-> mode, running |-> FALSE, counted |-> FALSE,
                keys |-> {}, et |-> TRUE, lock |-> NoThread, end |-> "no"]
  /\ fd = [armed |-> FALSE, expired |-> FALSE]
  /\ epoll = [registered |-> FALSE, edge |-> FALSE, onList |-> FALSE]
  /\ loop = [phase |-> "dispatch", active |-> FALSE, tasks |-> <<>>,
             batch |-> <<>>, pc |-> "idle", at |-> 0]
  /\ starts = 0
  /\ fires = 0
  /\ exited = "no"

Alive == exited = "no"

\* A call of the timer by thread t can take mutex_.  The loop thread calls from
\* a callback.
MayCall(t) == /\ Alive
              /\ timer.end = "no"
              /\ timer.lock = NoThread
              /\ t = LoopThread => loop.pc = "callback"

\* The loop has nothing to do with the timer.
LoopIdle == ~loop.active /\ loop.pc = "idle" /\ loop.tasks \o loop.batch = <<>>

-----------------------------------------------------------------------------
(* start, stop, the callbacks and the end of the timer *)

StartPost(t) ==
  /\ MayCall(t)
  /\ ~timer.running
  /\ starts < MaxStarts
  /\ starts' = starts + 1
  /\ timer' = [timer EXCEPT !.lock = t]
  /\ loop' = [loop EXCEPT !.tasks = Append(@, "add")]
  /\ UNCHANGED <<fd, epoll, fires, exited>>

\* (mutant) the timerfd is not set
SetNothing == UNCHANGED fd

\* timerfd_settime arms the timerfd and discards what it had to read.
SetTime == fd' = [armed |-> TRUE, expired |-> FALSE]

StartArm(t) ==
  /\ Alive
  /\ timer.lock = t
  /\ SetTime
  /\ timer' = [timer EXCEPT !.running = TRUE, !.lock = NoThread]
  /\ UNCHANGED <<epoll, loop, starts, fires, exited>>

\* (mutant) running_ is not tested
StopAlways(l) ==
  /\ timer' = [timer EXCEPT !.running = FALSE, !.counted = FALSE]
  /\ loop' = [l EXCEPT !.tasks = Append(@, "remove")]

\* (mutant) the channel stays in epoll
StopKeepsChannel(l) ==
  /\ timer' = [timer EXCEPT !.running = FALSE, !.counted = FALSE]
  /\ loop' = l

\* stop(); l is loop with the other change of the step.
StopTimer(l) ==
  IF timer.running
    THEN /\ timer' = [timer EXCEPT !.running = FALSE, !.counted = FALSE]
         /\ loop' = [l EXCEPT !.tasks = Append(@, "remove")]
    ELSE loop' = l /\ UNCHANGED timer

Stop(t) == /\ MayCall(t)
           /\ StopTimer(loop)
           /\ UNCHANGED <<fd, epoll, starts, fires, exited>>

AddOrUpdateTimerCallback(t, k) ==
  /\ MayCall(t)
  /\ Orderly => ~loop.active /\ loop.pc = "idle"
  /\ timer' = [timer EXCEPT !.keys = @ \union {k}]
  /\ UNCHANGED <<fd, epoll, loop, starts, fires, exited>>

RemoveTimerCallback(t, K) ==
  /\ MayCall(t)
  /\ Orderly => ~loop.active /\ loop.pc = "idle"
  /\ timer' = [timer EXCEPT !.keys = @ \ K]
  /\ loop' = IF loop.pc = "callback" /\ loop.at \in K
               THEN [loop EXCEPT !.at = 0]  \* the iterator's entry is gone
               ELSE loop
  /\ UNCHANGED <<fd, epoll, starts, fires, exited>>

\* closeTimerfd: stop(), then the timerfd is closed, which takes it out of epoll.
CloseTimerfd(t) ==
  /\ MayCall(t)
  /\ Orderly => LoopIdle /\ ~timer.running
  /\ timer' = [timer EXCEPT !.running = FALSE, !.counted = FALSE, !.end = "closed"]
  /\ loop' = IF timer.running THEN [loop EXCEPT !.tasks = Append(@, "remove")]
                              ELSE loop
  /\ fd' = [armed |-> FALSE, expired |-> FALSE]
  /\ epoll' = [epoll EXCEPT !.registered = FALSE, !.onList = FALSE]
  /\ UNCHANGED <<starts, fires, exited>>

\* ~Timer takes the channel out of epoll itself, where a failure is exit(1),
\* and leaves a loop that still has to do with the timer a dead Channel.
Destroy(t) ==
  /\ Alive
  /\ timer.end # "destroyed" /\ timer.lock = NoThread
  /\ t = LoopThread => loop.pc = "callback"
  /\ Orderly => LoopIdle /\ epoll.registered
  /\ timer' = [timer EXCEPT !.end = "destroyed"]
  /\ epoll' = [epoll EXCEPT !.registered = FALSE, !.onList = FALSE]
  /\ fd' = [armed |-> FALSE, expired |-> FALSE]
  /\ exited' = CASE ~epoll.registered             -> "epoll_ctl"
                 [] epoll.registered /\ LoopIdle  -> "no"
                 [] OTHER                         -> "use after free"
  /\ UNCHANGED <<loop, starts, fires>>

-----------------------------------------------------------------------------
(* The loop and the timerfd *)

\* The timerfd expires, again and again once it is armed.
Expire == /\ Alive
          /\ fd.armed /\ ~fd.expired
          /\ fd' = [fd EXCEPT !.expired = TRUE]
          /\ epoll' = [epoll EXCEPT !.onList = @ \/ epoll.registered]
          /\ UNCHANGED <<timer, loop, starts, fires, exited>>

\* pollWait overwrites events_ with what it reports, so that the next start()
\* registers the channel without EPOLLET.
Poll == /\ Alive
        /\ loop.phase = "poll"
        /\ LET reported == epoll.onList /\ fd.expired
           IN  /\ loop' = [loop EXCEPT !.phase = "dispatch", !.active = reported]
               /\ epoll' = [epoll EXCEPT !.onList = reported /\ ~epoll.edge]
               /\ timer' = [timer EXCEPT !.et = @ /\ ~reported]
        /\ UNCHANGED <<fd, starts, fires, exited>>

HandleEvent == /\ Alive
               /\ loop.active
               /\ loop' = [loop EXCEPT !.active = FALSE, !.pc = "read"]
               /\ UNCHANGED <<timer, fd, epoll, starts, fires, exited>>

\* The timerfd is not O_NONBLOCK: read waits for an expiration.
ReadTimerfd ==
  /\ Alive
  /\ loop.pc = "read"
  /\ fd.expired
  /\ fd' = [fd EXCEPT !.expired = FALSE]
  /\ timer' = [timer EXCEPT !.counted = TRUE]
  /\ loop' = [loop EXCEPT !.pc = "walk"]
  /\ fires' = IF timer.mode = "SINGLE" THEN fires + 1 ELSE fires
  /\ UNCHANGED <<epoll, starts, exited>>

\* The keys after `at' in the order of the map.
KeysAfter == {k \in timer.keys : k > loop.at}

NextCallback ==
  /\ Alive
  /\ loop.pc = "walk"
  /\ \/ /\ KeysAfter = {}
        /\ loop' = [loop EXCEPT !.pc = "single", !.at = 0]
     \/ \E k \in KeysAfter :
          /\ \A j \in KeysAfter : k <= j
          /\ loop' = [loop EXCEPT !.pc = "callback", !.at = k]
  /\ UNCHANGED <<timer, fd, epoll, starts, fires, exited>>

\* The callback returns and ++it runs: undefined if its entry was erased.
CallbackReturns ==
  /\ Alive
  /\ loop.pc = "callback"
  /\ timer.lock # LoopThread
  /\ IF loop.at \in timer.keys
       THEN loop' = [loop EXCEPT !.pc = "walk"] /\ UNCHANGED exited
       ELSE exited' = "dangling iterator" /\ UNCHANGED loop
  /\ UNCHANGED <<timer, fd, epoll, starts, fires>>

\* (mutant) a SINGLE timer goes on
SingleGoesOn(l) == loop' = l /\ UNCHANGED timer

\* A SINGLE timer that has counted an expiration stops itself.
StopSingle(l) ==
  IF timer.mode = "SINGLE" /\ timer.counted THEN StopTimer(l)
                                            ELSE loop' = l /\ UNCHANGED timer

EndHandleRead ==
  /\ Alive
  /\ loop.pc = "single"
  /\ timer.lock = NoThread
  /\ StopSingle([loop EXCEPT !.pc = "idle"])
  /\ UNCHANGED <<fd, epoll, starts, fires, exited>>

SwapTasks ==
  /\ Alive
  /\ loop.phase = "dispatch" /\ ~loop.active /\ loop.pc = "idle"
  /\ loop' = [loop EXCEPT !.phase = "run", !.batch = loop.tasks, !.tasks = <<>>]
  /\ UNCHANGED <<timer, fd, epoll, starts, fires, exited>>

\* epoll_ctl fails, and the process with it, when a channel is added that epoll
\* has, one is removed that it has not, or the timerfd was closed.
EpollCtl(task) ==
  IF timer.end = "closed" \/ epoll.registered = (task = "add")
    THEN exited' = "epoll_ctl" /\ UNCHANGED epoll
    ELSE /\ epoll' = [registered |-> task = "add", edge |-> timer.et,
                      onList |-> task = "add" /\ fd.expired]
         /\ UNCHANGED exited

RunTask ==
  /\ Alive
  /\ loop.phase = "run"
  /\ loop.batch # <<>>
  /\ EpollCtl(Head(loop.batch))
  /\ loop' = [loop EXCEPT !.batch = Tail(@)]
  /\ UNCHANGED <<timer, fd, starts, fires>>

EndBatch == /\ Alive
            /\ loop.phase = "run"
            /\ loop.batch = <<>>
            /\ loop' = [loop EXCEPT !.phase = "poll"]
            /\ UNCHANGED <<timer, fd, epoll, starts, fires, exited>>

-----------------------------------------------------------------------------

LoopStep == \/ Poll \/ HandleEvent \/ ReadTimerfd \/ NextCallback
            \/ CallbackReturns \/ EndHandleRead \/ SwapTasks \/ RunTask
            \/ EndBatch

Next == \/ LoopStep \/ Expire
        \/ \E t \in Threads :
             \/ StartPost(t) \/ StartArm(t) \/ Stop(t) \/ CloseTimerfd(t)
             \/ Destroy(t) \/ RemoveTimerCallback(t, Keys)
             \/ \E k \in Keys : \/ AddOrUpdateTimerCallback(t, k)
                                \/ RemoveTimerCallback(t, {k})

Spec == Init /\ [][Next]_vars

\* The loop runs, an armed timerfd expires, and start() returns.  Nobody need
\* start, stop or end the timer.
FairSpec == Spec /\ WF_vars(LoopStep) /\ WF_vars(Expire)
                 /\ \A t \in Threads : WF_vars(StartArm(t))

-----------------------------------------------------------------------------
(* Properties *)

TypeOK ==
  /\ timer \in [mode : {"SINGLE", "CYCLE"}, running : BOOLEAN,
                counted : BOOLEAN, keys : SUBSET Keys, et : BOOLEAN,
                lock : Threads \union {NoThread},
                end : {"no", "closed", "destroyed"}]
  /\ fd \in [armed : BOOLEAN, expired : BOOLEAN]
  /\ epoll \in [registered : BOOLEAN, edge : BOOLEAN, onList : BOOLEAN]
  /\ loop \in [phase : {"poll", "dispatch", "run"}, active : BOOLEAN,
               tasks : Seq({"add", "remove"}), batch : Seq({"add", "remove"}),
               pc : {"idle", "read", "walk", "callback", "single"},
               at : Keys \union {0}]
  /\ starts \in Nat /\ starts <= MaxStarts
  /\ fires \in Nat
  /\ exited \in {"no", "epoll_ctl", "use after free", "dangling iterator"}

\* The tasks by which start() and stop() change epoll alternate, whichever
\* threads call them and whenever a SINGLE timer stops itself, and end with the
\* one that running_ stands for (Timer.cpp:62, 84).
Pending == loop.batch \o loop.tasks
TasksAlternate ==
  (Alive /\ timer.end = "no") =>
     /\ \A i \in DOMAIN Pending :
          Pending[i] = "add" <=> (i % 2 = 1 <=> ~epoll.registered)
     /\ (timer.running \/ timer.lock # NoThread)
          <=> (Len(Pending) % 2 = 0 <=> epoll.registered)

\* A process whose application is orderly never dies of a timer: no epoll_ctl
\* of start(), stop() or ~Timer fails, which is exit(1) (Poller.cpp:110, 130),
\* and no Channel and no iterator is used after its end.
Survives == Orderly => Alive

\* A SINGLE timer runs its callbacks at most once for each start()
\* (Timer.cpp:120-125), although it is stopped by a task that runs later.
FiresOnce == fires <= starts

\* handleRead runs only while the timer runs or its stop() is under way: after
\* the loop has run the task of stop() the timer is silent until it is started
\* (Timer.cpp:86), although its timerfd goes on to expire.
SilentWhenStopped ==
  (loop.pc = "read" /\ timer.end = "no")
     => \/ timer.running \/ timer.lock # NoThread
        \/ "remove" \in {Pending[i] : i \in DOMAIN Pending}

\* A started timer fires unless it is stopped: handleRead reads an expiration
\* (Timer.cpp:72, 102).
StartedFires ==
  timer.running ~> (loop.pc = "walk" \/ ~timer.running \/ timer.end # "no"
                    \/ ~Alive)

\* A SINGLE timer that stops itself stops the run that fired, not one that
\* another thread has started since (Timer.cpp:121-123).
StopsOwnRun ==
  [][EndHandleRead /\ timer.running /\ ~timer'.running
       => \A i \in DOMAIN Pending : Pending[i] # "add"]_vars

\* The callbacks can be removed by any thread, as mutex_ suggests
\* (Timer.cpp:163), also while the loop walks over them.
IteratorValid == exited # "dangling iterator"

\* A timer can be destroyed whatever it is doing, stopped or running.
EndsCleanly == exited \notin {"epoll_ctl", "use after free"}

\* handleRead never waits: the loop reads an expiration it was told of, and
\* no other channel of the loop has to wait for this one.
ReadsAtOnce == loop.pc = "read" => fd.expired

=============================================================================
