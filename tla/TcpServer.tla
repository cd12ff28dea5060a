----------------------------- MODULE TcpServer -----------------------------
(***************************************************************************)
(* TcpServer: the main thread accepts connections, counts them, puts them  *)
(* in tcpConnList_ (a map from descriptors to shared_ptrs) and hands each  *)
(* to an IO loop; the loops close connections and take them out of the map *)
(* again; a connection is destroyed by the thread that drops its last      *)
(* shared_ptr.                                                             *)
(*                                                                         *)
(* The inside of a connection is module TcpConnection; here a connection   *)
(* stays open until a handler of its loop closes it or finds an error.     *)
(* The main thread increments connCount_ without the mutex under which the *)
(* loops decrement it: both are a read and a write.  An application        *)
(* handler may walk over tcpConnList_, without the mutex, and send to each *)
(* connection (TestAll::sendMessage): one step per connection.             *)
(***************************************************************************)
EXTENDS Integers, Sequences, FiniteSets, Functions

CONSTANTS
  Conns,          \* bound: the connections clients open, numbered as they come
  MaxShared,      \* bound: connections opened when there are IO threads
  NoConn,         \* no connection
  ThreadNums,     \* numbers of IO threads; with none the main thread serves all
  MaxConnection,  \* MAXCONNECTION
  MaxWalks,       \* bound: walks over tcpConnList_
  MayFill         \* a send may find the send buffer full

ASSUME ServerAssumption == /\ ThreadNums \subseteq Nat
                           /\ Conns \subseteq Nat /\ IsFiniteSet(Conns)
                           /\ MaxShared \in Nat
                           /\ MaxConnection \in Nat
                           /\ MaxWalks \in Nat
                           /\ MayFill \in BOOLEAN
                           /\ NoConn \notin Conns

MainLoop == 0
Fds == 1 .. Cardinality(Conns)

VARIABLES
  threadNum,  \* as given to the constructor
  conn,       \* per connection: state; fd; loop, its loop_; disc,
              \* disConnected_; erred, the call that returned its socket's error;
              \* registered with epoll
  main,       \* onNewConnection: pc; cur, the shared_ptr on its stack; seen,
              \* connCount_ as it read it
  connCount,  \* connCount_
  index,      \* index_ of the EventLoopThreadPool
  list,       \* tcpConnList_: per descriptor the connection or NoConn
  loops,      \* per loop: phase of loop(); tasks, functorList_; batch,
              \* functionList; held, connections the batch has a shared_ptr of;
              \* removing, the connection of the running removeConnection;
              \* seen, connCount_ as that read it; walk, the descriptor at which
              \* a handler's iterator over tcpConnList_ stands, or 0
  walks,      \* number of walks begun
  exited      \* why the process died, "no" while it runs

vars == <<threadNum, conn, main, connCount, index, list, loops, walks, exited>>

\* The IO loops, and the loops there are in any instance.
Loops == IF threadNum > 0 THEN 1 .. threadNum ELSE {MainLoop}
AllLoops == {MainLoop} \union UNION {1 .. n : n \in ThreadNums}

Idle == [pc |-> "idle", cur |-> NoConn, seen |-> 0]

Init ==
  /\ threadNum \in ThreadNums
  /\ conn = [c \in Conns |->
               [state |-> "none", fd |-> 0, loop |-> MainLoop, disc |-> FALSE,
                erred |-> "no", registered |-> FALSE]]
  /\ main = Idle
  /\ connCount = 0
  /\ index = 0
  /\ list = [f \in Fds |-> NoConn]
  /\ loops = [l \in AllLoops |->
                [phase |-> "dispatch", tasks |-> <<>>, batch |-> <<>>,
                 held |-> {}, removing |-> NoConn, seen |-> 0, walk |-> 0]]
  /\ walks = 0
  /\ exited = "no"

Alive == exited = "no"
Listed == Range(list) \ {NoConn}
Live == {c \in Conns : conn[c].state = "made"}

\* (mutant) handleClose closes the descriptor, not the destructor
FreeFdsEarly == Fds \ {conn[c].fd : c \in {d \in Conns : ~conn[d].disc}}

FreeFds == Fds \ {conn[c].fd : c \in Conns}

\* Loop l is in its own code, or, when it is the main thread, not in
\* onNewConnection.
Free(l) == /\ Alive
           /\ loops[l].removing = NoConn
           /\ loops[l].walk = 0
           /\ l = MainLoop => main.pc = "idle"

MainFree == /\ Alive
            /\ main.pc = "idle"
            /\ MainLoop \in Loops => Free(MainLoop)
                                     /\ loops[MainLoop].phase = "dispatch"

-----------------------------------------------------------------------------
(* shared_ptr<TcpConnection> *)

\* Every task of a connection but addChannelToPoller holds a shared_ptr.
Task(kind, c) == [kind |-> kind, conn |-> c]
HeldBy(seq) == {task.conn : task \in {t \in Range(seq) : t.kind # "add"}}

\* Who has a shared_ptr: the map, the tasks, the batches of the loops ls, and
\* the stack of onNewConnection.
Referenced(ls, stack) == Listed \union stack
  \union (UNION {HeldBy(loops[l].tasks) : l \in Loops})
  \union (UNION {loops[l].held : l \in ls})

\* ~TcpConnection removes the channel from epoll, where a failure is exit(1),
\* and closes the descriptor.
Destroy(S) ==
  IF \A c \in S : conn[c].registered
    THEN /\ conn' = [c \in Conns |->
                       IF c \in S THEN [conn[c] EXCEPT !.state = "destroyed",
                                                       !.fd = 0,
                                                       !.registered = FALSE]
                                  ELSE conn[c]]
         /\ UNCHANGED exited
    ELSE /\ exited' = "epoll_ctl"
         /\ UNCHANGED conn

-----------------------------------------------------------------------------
(* The main thread: onNewConnection *)

NextIndex == (index + 1) % threadNum

NextLoop == IF threadNum = 0 THEN MainLoop ELSE index + 1

\* accept takes the lowest descriptor; ++connCount_ begins.
Accept(c) ==
  /\ MainFree
  /\ conn[c].state = "none"
  /\ \A d \in Conns : d < c => conn[d].state # "none"
  /\ threadNum > 0 => Cardinality({d \in Conns : conn[d].state # "none"}) < MaxShared
  /\ \E f \in FreeFds :
       /\ \A g \in FreeFds : f <= g
       /\ conn' = [conn EXCEPT ![c].state = "accepted", ![c].fd = f]
  /\ main' = [pc |-> "count", cur |-> c, seen |-> connCount]
  /\ UNCHANGED <<connCount, index, list, loops, walks, exited>>

TooMany == main.seen + 1 >= MaxConnection

Reject ==
  /\ Alive
  /\ main.pc = "count" /\ TooMany
  /\ connCount' = main.seen + 1
  /\ conn' = [conn EXCEPT ![main.cur].state = "rejected", ![main.cur].fd = 0]
  /\ main' = Idle
  /\ UNCHANGED <<index, list, loops, walks, exited>>

MakeConnection ==
  /\ Alive
  /\ main.pc = "count" /\ ~TooMany
  /\ connCount' = main.seen + 1
  /\ conn' = [conn EXCEPT ![main.cur].state = "made",
                          ![main.cur].loop = NextLoop]
  /\ index' = IF threadNum = 0 THEN index ELSE NextIndex
  /\ main' = [main EXCEPT !.pc = "insert"]
  /\ UNCHANGED <<list, loops, walks, exited>>

\* mutex_ is held inside removeConnection.
Locked == \E l \in Loops : loops[l].removing # NoConn

\* (mutant) the connection is not put in the map
InsertNothing ==
  /\ Alive
  /\ main.pc = "insert"
  /\ ~Locked
  /\ main' = [main EXCEPT !.pc = "add"]
  /\ UNCHANGED <<conn, connCount, index, list, loops, walks, exited>>

Insert ==
  /\ Alive
  /\ main.pc = "insert"
  /\ ~Locked
  /\ list' = [list EXCEPT ![conn[main.cur].fd] = main.cur]
  /\ main' = [main EXCEPT !.pc = "add"]
  /\ UNCHANGED <<conn, connCount, index, loops, walks, exited>>

AddChannelToLoop ==
  /\ Alive
  /\ main.pc = "add"
  /\ loops' = [loops EXCEPT ![conn[main.cur].loop].tasks =
                 Append(@, Task("add", main.cur))]
  /\ main' = [main EXCEPT !.pc = "release"]
  /\ UNCHANGED <<conn, connCount, index, list, walks, exited>>

\* spTcpConn goes out of scope.
ReleaseLocal ==
  /\ Alive
  /\ main.pc = "release"
  /\ Destroy({main.cur} \ Referenced(Loops, {}))
  /\ main' = Idle
  /\ UNCHANGED <<connCount, index, list, loops, walks>>

-----------------------------------------------------------------------------
(* The loops: handlers *)

\* (mutant) the handler erases the connection from the map itself
CleanUpAtOnce(c, ls) == /\ loops' = ls
                        /\ list' = [list EXCEPT ![conn[c].fd] = NoConn]

\* (mutant) the cleanup task is queued only by an error
CleanUpErrors(c, ls) ==
  /\ loops' = IF conn[c].erred = "no" THEN ls
              ELSE [ls EXCEPT ![conn[c].loop].tasks = Append(@, Task("cleanup", c))]
  /\ UNCHANGED list

\* connectioncleanup_ is queued as a task of the connection's own loop; ls is
\* loops with the other change of the step.
CleanUp(c, ls) ==
  /\ loops' = [ls EXCEPT ![conn[c].loop].tasks = Append(@, Task("cleanup", c))]
  /\ UNCHANGED list

\* The peer closed or reset the connection.  The edge of a reset is reported
\* once: it finds the error, or, if a send has returned that, the end.
HandleClose(l, c) ==
  /\ Free(l)
  /\ loops[l].phase = "dispatch"
  /\ conn[c].registered /\ conn[c].loop = l
  /\ ~conn[c].disc /\ conn[c].erred # "read"
  /\ conn' = [conn EXCEPT ![c].disc = TRUE]
  /\ CleanUp(c, loops)
  /\ UNCHANGED <<main, connCount, index, walks, exited>>

HandleError(l, c) ==
  /\ Free(l)
  /\ loops[l].phase = "dispatch"
  /\ conn[c].registered /\ conn[c].loop = l
  /\ ~conn[c].disc /\ conn[c].erred = "no"
  /\ conn' = [conn EXCEPT ![c].erred = "read"]
  /\ CleanUp(c, loops)
  /\ UNCHANGED <<main, connCount, index, walks, exited>>

\* sendInLoop: all is sent; the buffer is full, and updateChannel exits when
\* the channel is not registered; or the socket returns an error, after which
\* a further write raises SIGPIPE.
SendInLoop(c, ls) ==
  \/ /\ conn[c].erred = "no"
     /\ loops' = ls
     /\ UNCHANGED <<conn, list, exited>>
  \/ /\ MayFill /\ conn[c].erred = "no" /\ ~conn[c].registered
     /\ exited' = "epoll_ctl"
     /\ loops' = ls
     /\ UNCHANGED <<conn, list>>
  \/ /\ conn[c].erred = "no"
     /\ conn' = [conn EXCEPT ![c].erred = "send"]
     /\ IF conn[c].disc THEN loops' = ls /\ UNCHANGED list ELSE CleanUp(c, ls)
     /\ UNCHANGED exited
  \/ /\ conn[c].erred # "no"
     /\ exited' = "SIGPIPE"
     /\ loops' = ls
     /\ UNCHANGED <<conn, list>>

\* Where an iterator goes from `at': to the next descriptor with an entry.
After(at) == {f \in Fds : f > at /\ list[f] # NoConn}
NextFd(at) == {f \in After(at) : \A g \in After(at) : f <= g}

\* sendString to the connection at f, where the iterator of loop l then stands.
SendTo(l, f) ==
  LET c == list[f]
      ls == [loops EXCEPT ![l].walk = f]
  IN  IF conn[c].loop = l
        THEN SendInLoop(c, ls)
        ELSE /\ loops' = [ls EXCEPT ![conn[c].loop].tasks =
                            Append(@, Task("send", c))]
             /\ UNCHANGED <<conn, list, exited>>

\* A message callback starts to send to all connections.
WalkStart(l) ==
  /\ Free(l)
  /\ loops[l].phase = "dispatch"
  /\ walks < MaxWalks
  /\ walks' = walks + 1
  /\ \E f \in NextFd(0) : SendTo(l, f)
  /\ UNCHANGED <<main, connCount, index>>

\* ++it, then the next send; undefined when the entry it stood at is erased.
WalkStep(l) ==
  /\ Alive
  /\ loops[l].walk # 0
  /\ \/ /\ list[loops[l].walk] = NoConn
        /\ exited' = "dangling iterator"
        /\ UNCHANGED <<conn, list, loops>>
     \/ /\ list[loops[l].walk] # NoConn
        /\ \E f \in NextFd(loops[l].walk) : SendTo(l, f)
     \/ /\ list[loops[l].walk] # NoConn
        /\ After(loops[l].walk) = {}
        /\ loops' = [loops EXCEPT ![l].walk = 0]
        /\ UNCHANGED <<conn, list, exited>>
  /\ UNCHANGED <<main, connCount, index, walks>>

-----------------------------------------------------------------------------
(* The loops: executeTask *)

Swap(l) ==
  /\ Free(l)
  /\ loops[l].phase = "dispatch"
  /\ loops[l].tasks # <<>>
  /\ loops' = [loops EXCEPT ![l].phase = "run",
                            ![l].batch = loops[l].tasks,
                            ![l].tasks = <<>>,
                            ![l].held = HeldBy(loops[l].tasks)]
  /\ UNCHANGED <<conn, main, connCount, index, list, walks, exited>>

NextTask(l, kind) == /\ Free(l)
                     /\ loops[l].phase = "run"
                     /\ loops[l].batch # <<>>
                     /\ Head(loops[l].batch).kind = kind

PopTask(l) == [loops EXCEPT ![l].batch = Tail(@)]

\* The task holds the bare Channel*, which dies with its connection.
RunAdd(l) ==
  /\ NextTask(l, "add")
  /\ LET c == Head(loops[l].batch).conn
     IN  IF conn[c].state = "made"
           THEN /\ conn' = [conn EXCEPT ![c].registered = TRUE]
                /\ UNCHANGED exited
           ELSE /\ exited' = "use after free"
                /\ UNCHANGED conn
  /\ loops' = PopTask(l)
  /\ UNCHANGED <<main, connCount, index, list, walks>>

RunSend(l) ==
  /\ NextTask(l, "send")
  /\ SendInLoop(Head(loops[l].batch).conn, PopTask(l))
  /\ UNCHANGED <<main, connCount, index, walks>>

\* removeConnection: lock, --connCount_ as a read and a write, erase.
RunCleanup(l) ==
  /\ NextTask(l, "cleanup")
  /\ ~Locked
  /\ loops' = [PopTask(l) EXCEPT ![l].removing = Head(loops[l].batch).conn,
                                 ![l].seen = connCount]
  /\ UNCHANGED <<conn, main, connCount, index, list, walks, exited>>

\* (mutant) connCount_ is not decremented
RemoveUncounted(l) ==
  /\ UNCHANGED connCount
  /\ list' = [list EXCEPT ![conn[loops[l].removing].fd] = NoConn]

Remove(l) ==
  /\ connCount' = loops[l].seen - 1
  /\ list' = [list EXCEPT ![conn[loops[l].removing].fd] = NoConn]

RemoveConnection(l) ==
  /\ Alive
  /\ loops[l].removing # NoConn
  /\ Remove(l)
  /\ loops' = [loops EXCEPT ![l].removing = NoConn, ![l].seen = 0]
  /\ UNCHANGED <<conn, main, index, walks, exited>>

\* functionList goes out of scope and with it the shared_ptrs of the batch.
EndBatch(l) ==
  /\ Free(l)
  /\ loops[l].phase = "run"
  /\ loops[l].batch = <<>>
  /\ loops' = [loops EXCEPT ![l].phase = "dispatch", ![l].held = {}]
  /\ Destroy(loops[l].held \ Referenced(Loops \ {l}, {main.cur}))
  /\ UNCHANGED <<main, connCount, index, list, walks>>

-----------------------------------------------------------------------------

\* Nothing is left to do, or the process is dead.
Rest == /\ Alive => /\ main.pc = "idle"
                    /\ \A l \in Loops : Free(l) /\ loops[l].tasks = <<>>
        /\ UNCHANGED vars

MainStep == Reject \/ MakeConnection \/ Insert \/ AddChannelToLoop
            \/ ReleaseLocal
LoopStep(l) == WalkStep(l) \/ Swap(l) \/ RunAdd(l) \/ RunSend(l)
               \/ RunCleanup(l) \/ RemoveConnection(l) \/ EndBatch(l)

Step == \/ \E c \in Conns : Accept(c)
        \/ MainStep \/ Rest
        \/ \E l \in Loops : LoopStep(l) \/ WalkStart(l)
        \/ \E l \in Loops, c \in Conns : HandleClose(l, c) \/ HandleError(l, c)

Next == Step /\ UNCHANGED threadNum

Spec == Init /\ [][Next]_vars

\* The threads run; clients need not connect, nor connections end.
FairSpec ==
  /\ Spec
  /\ WF_vars(MainStep /\ UNCHANGED threadNum)
  /\ \A l \in AllLoops : WF_vars(l \in Loops /\ LoopStep(l) /\ UNCHANGED threadNum)

-----------------------------------------------------------------------------
(* Properties *)

TypeOK ==
  /\ threadNum \in ThreadNums
  /\ conn \in [Conns -> [state : {"none", "accepted", "rejected", "made",
                                  "destroyed"},
                         fd : Fds \union {0}, loop : Loops \union {MainLoop},
                         disc : BOOLEAN, erred : {"no", "read", "send"},
                         registered : BOOLEAN]]
  /\ main \in [pc : {"idle", "count", "insert", "add", "release"},
               cur : Conns \union {NoConn}, seen : Int]
  /\ connCount \in Int
  /\ index \in Nat /\ (threadNum > 0 => index < threadNum)
  /\ list \in [Fds -> Conns \union {NoConn}]
  /\ LET Tasks == [kind : {"add", "send", "cleanup"}, conn : Conns]
     IN  loops \in [AllLoops -> [phase : {"dispatch", "run"},
                                 tasks : Seq(Tasks), batch : Seq(Tasks),
                                 held : SUBSET Conns,
                                 removing : Conns \union {NoConn},
                                 seen : Int, walk : Fds \union {0}]]
  /\ walks \in Nat /\ walks <= MaxWalks
  /\ exited \in {"no", "epoll_ctl", "use after free", "dangling iterator",
                 "SIGPIPE"}

\* tcpConnList_ is keyed by descriptors, which the kernel gives out again:
\* every entry is a living connection under the descriptor it owns, and every
\* living connection that has not ended has its entry, so that neither
\* removeConnection, which erases by descriptor (TcpServer.cpp:98), nor a new
\* connection with a reused one (TcpServer.cpp:85) hits the entry of another.
Ended(c) == conn[c].disc \/ conn[c].erred # "no"
MapExact ==
  /\ \A f \in Fds : list[f] # NoConn => list[f] \in Live /\ conn[list[f]].fd = f
  /\ \A c \in Live : \/ Ended(c)
                     \/ main.cur = c /\ main.pc = "insert"
                     \/ list[conn[c].fd] = c

\* While connections come and go the process neither uses the bare Channel* of
\* a dead connection, which addChannelToLoop queues (TcpConnection.cpp:128), nor
\* does epoll_ctl fail, which is exit(1) (Poller.cpp:110, 130, 142), unless a
\* handler walks over tcpConnList_ and sends.
Survives == walks = 0 => Alive

\* connCount_ counts the connections ("number of connections",
\* TcpServer.h:67): at rest it is the size of tcpConnList_.
AtRest == main.pc = "idle" /\ ~Locked
CountMatches == AtRest => connCount = Cardinality(Listed)

\* What connCount_ really counts on a single loop: the connections of the map
\* and every connection ever refused (TcpServer.cpp:66-70), as long as no
\* connection is cleaned up twice after a failed send (TcpConnection.cpp:239).
CountExact ==
  (threadNum = 0 /\ AtRest /\ \A c \in Conns : conn[c].erred # "send")
     => connCount = Cardinality(Listed)
                    + Cardinality({c \in Conns : conn[c].state = "rejected"})

\* "if the maximum number of connections is reached, no new connection is
\* accepted" (TcpServer.cpp:65): only then.
RejectsOnlyWhenFull ==
  [][Reject => Cardinality(Listed) + 1 >= MaxConnection]_vars

\* An iterator over tcpConnList_ is never at an entry another thread erased
\* ("the mutex that protects the connection table", TcpServer.h:69); a handler
\* does not invalidate its own, since it leaves the erasing to a task.
WalkValid ==
  \A l \in Loops : loops[l].walk # 0 => list[loops[l].walk] # NoConn
WalkSafe == threadNum = 0 => WalkValid

\* A connection that was closed or failed leaves the map and is destroyed
\* (TcpConnection.cpp:239, 261; TcpServer.cpp:95).
EndedIsDestroyed ==
  \A c \in Conns : Ended(c)
                      ~> (conn[c].state = "destroyed" \/ ~Alive)

=============================================================================
