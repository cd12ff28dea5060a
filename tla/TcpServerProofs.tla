--------------------------- MODULE TcpServerProofs ---------------------------
(***************************************************************************)
(* Proofs about TcpServer, for any clients, numbers of IO threads and      *)
(* limit on the connections:                                               *)
(*   TypeCorrect    the variables keep their types;                        *)
(*   MapIsExact     tcpConnList_ holds each living connection under the    *)
(*                  descriptor it owns;                                    *)
(*   WalksAreSafe   on a single loop no iterator over it dangles;          *)
(*   QuietSurvives  while nobody walks over it the process lives;          *)
(*   CountIsExact   on a single loop connCount_ counts its entries and the *)
(*                  refused connections, unless a send fails.              *)
(***************************************************************************)
EXTENDS TcpServer, TLAPS, FiniteSetTheorems

-----------------------------------------------------------------------------
(* Types *)

Kinds == {"add", "send", "cleanup"}
Tasks == [kind : Kinds, conn : Conns]
ConnSet == [state : {"none", "accepted", "rejected", "made", "destroyed"},
            fd : Fds \union {0}, loop : Loops \union {MainLoop},
            disc : BOOLEAN, erred : {"no", "read", "send"},
            registered : BOOLEAN]
MainSet == [pc : {"idle", "count", "insert", "add", "release"},
            cur : Conns \union {NoConn}, seen : Int]
LoopSet == [phase : {"dispatch", "run"}, tasks : Seq(Tasks), batch : Seq(Tasks),
            held : SUBSET Conns, removing : Conns \union {NoConn},
            seen : Int, walk : Fds \union {0}]
Exits == {"no", "epoll_ctl", "use after free", "dangling iterator", "SIGPIPE"}

Typed ==
  /\ threadNum \in ThreadNums
  /\ conn \in [Conns -> ConnSet]
  /\ main \in MainSet
  /\ connCount \in Int
  /\ index \in Nat /\ (threadNum > 0 => index < threadNum)
  /\ list \in [Fds -> Conns \union {NoConn}]
  /\ loops \in [AllLoops -> LoopSet]
  /\ walks \in Nat /\ walks <= MaxWalks
  /\ exited \in Exits

\* onNewConnection has a connection while it runs.
CurIn == main.pc # "idle" => main.cur \in Conns

\* TypeOK, with a name for each set of records.
LEMMA TypedSame == Typed <=> TypeOK
BY DEF Typed, TypeOK, ConnSet, MainSet, LoopSet, Exits, Tasks, Kinds

LEMMA Consts ==
  /\ Fds \subseteq Nat /\ 0 \notin Fds
  /\ \A n \in ThreadNums : n \in Nat
  /\ NoConn \notin Conns
  /\ MainLoop \in AllLoops
<1>1. Cardinality(Conns) \in Nat
  BY ServerAssumption, FS_CardinalityType
<1> QED
  BY <1>1, ServerAssumption DEF Fds, AllLoops

LEMMA LoopsIn ==
  ASSUME threadNum \in ThreadNums
  PROVE  Loops \subseteq AllLoops
<1>1. 1 .. threadNum \subseteq AllLoops
  BY DEF AllLoops
<1> QED
  BY <1>1 DEF Loops, AllLoops

\* What the steps change of a connection.
LEMMA ConnAccepted ==
  ASSUME NEW b \in ConnSet, NEW f \in Fds
  PROVE  [b EXCEPT !.state = "accepted", !.fd = f] \in ConnSet
BY DEF ConnSet

LEMMA ConnMade ==
  ASSUME NEW b \in ConnSet, NEW l \in Loops \union {MainLoop}
  PROVE  [b EXCEPT !.state = "made", !.loop = l] \in ConnSet
BY DEF ConnSet

LEMMA ConnChanges ==
  ASSUME NEW b \in ConnSet
  PROVE  /\ [b EXCEPT !.state = "rejected", !.fd = 0] \in ConnSet
         /\ [b EXCEPT !.state = "destroyed", !.fd = 0, !.registered = FALSE]
              \in ConnSet
         /\ [b EXCEPT !.registered = TRUE] \in ConnSet
         /\ [b EXCEPT !.disc = TRUE] \in ConnSet
         /\ [b EXCEPT !.erred = "read"] \in ConnSet
         /\ [b EXCEPT !.erred = "send"] \in ConnSet
BY DEF ConnSet

\* Queueing a task for the loop of a connection, in ls.
Push(ls, kind, c) == [ls EXCEPT ![conn[c].loop].tasks = Append(@, Task(kind, c))]

LEMMA PushTypes ==
  ASSUME NEW ls \in [AllLoops -> LoopSet], NEW kind \in Kinds, NEW c \in Conns
  PROVE  Push(ls, kind, c) \in [AllLoops -> LoopSet]
<1> DEFINE l == conn[c].loop
<1>1. Task(kind, c) \in Tasks
  BY DEF Task, Tasks
<1>2. SUFFICES ASSUME l \in AllLoops
      PROVE  Push(ls, kind, c) \in [AllLoops -> LoopSet]
  BY DEF Push
<1>3. ls[l] \in LoopSet
  BY <1>2
<1>4. ls[l].tasks \in Seq(Tasks)
  BY <1>3 DEF LoopSet
<1>5. Append(ls[l].tasks, Task(kind, c)) \in Seq(Tasks)
  BY <1>1, <1>4
<1>6. [ls[l] EXCEPT !.tasks = Append(@, Task(kind, c))] \in LoopSet
  BY <1>3, <1>5 DEF LoopSet
<1> HIDE DEF l
<1>7. [ls EXCEPT ![l] = [ls[l] EXCEPT !.tasks = Append(@, Task(kind, c))]]
        \in [AllLoops -> LoopSet]
  BY <1>6
<1> QED
  BY <1>7 DEF Push, l

\* What sendInLoop may change: it finds an error and then queues the cleanup
\* of a connection that is not disconnected, in ls.
SendEffect(c, ls) ==
  /\ list' = list
  /\ \/ conn' = conn /\ loops' = ls
     \/ /\ conn[c].erred = "no"
        /\ conn' = [conn EXCEPT ![c].erred = "send"]
        /\ loops' = ls \/ loops' = Push(ls, "cleanup", c)

LEMMA SendsSo ==
  ASSUME NEW c, NEW ls, SendInLoop(c, ls)
  PROVE  SendEffect(c, ls)
BY DEF SendInLoop, SendEffect, CleanUp, Push

\* What sending to the connection at f may change.
WalkTo(l, f) == [loops EXCEPT ![l].walk = f]
WalkEffect(l, f) ==
  \/ conn[list[f]].loop = l /\ SendEffect(list[f], WalkTo(l, f))
  \/ /\ conn[list[f]].loop # l
     /\ list' = list /\ conn' = conn
     /\ loops' = Push(WalkTo(l, f), "send", list[f])

LEMMA WalksSo ==
  ASSUME NEW l, NEW f, SendTo(l, f)
  PROVE  WalkEffect(l, f)
<1>1. CASE conn[list[f]].loop = l
  BY <1>1, SendsSo DEF SendTo, WalkEffect, WalkTo
<1>2. CASE conn[list[f]].loop # l
  BY <1>2 DEF SendTo, WalkEffect, WalkTo, Push
<1> QED
  BY <1>1, <1>2

\* A step of a walk ends it, or goes to an entry of the map.
LEMMA WalkStepSo ==
  ASSUME NEW l, WalkStart(l) \/ WalkStep(l)
  PROVE  /\ Alive
         /\ UNCHANGED <<main, connCount, index>>
         /\ \/ \E f \in Fds : list[f] # NoConn /\ WalkEffect(l, f)
            \/ /\ UNCHANGED <<conn, list>>
               /\ loops' = loops \/ loops' = [loops EXCEPT ![l].walk = 0]
<1>1. CASE WalkStart(l)
  <2>1. PICK f \in NextFd(0) : SendTo(l, f)
    BY <1>1 DEF WalkStart
  <2>2. f \in Fds /\ list[f] # NoConn
    BY DEF NextFd, After
  <2> QED
    BY <1>1, <2>1, <2>2, WalksSo DEF WalkStart, Free
<1>2. CASE WalkStep(l)
  <2>1. CASE \E f \in NextFd(loops[l].walk) : SendTo(l, f)
    <3>1. PICK f \in NextFd(loops[l].walk) : SendTo(l, f)
      BY <2>1
    <3>2. f \in Fds /\ list[f] # NoConn
      BY DEF NextFd, After
    <3> QED
      BY <1>2, <3>1, <3>2, WalksSo DEF WalkStep
  <2>2. CASE ~ \E f \in NextFd(loops[l].walk) : SendTo(l, f)
    BY <1>2, <2>2 DEF WalkStep
  <2> QED
    BY <2>1, <2>2
<1> QED
  BY <1>1, <1>2
LEMMA HeldTypes ==
  ASSUME NEW seq \in Seq(Tasks)
  PROVE  Range(seq) \subseteq Tasks /\ HeldBy(seq) \subseteq Conns
<1>1. Range(seq) \subseteq Tasks
  BY DEF Range
<1> QED
  BY <1>1 DEF HeldBy, Tasks

\* Taking the first task of the batch of loop l.
LEMMA PopTypes ==
  ASSUME NEW l \in AllLoops, loops \in [AllLoops -> LoopSet],
         loops[l].batch # <<>>
  PROVE  /\ PopTask(l) \in [AllLoops -> LoopSet]
         /\ Head(loops[l].batch) \in Tasks
         /\ Head(loops[l].batch).conn \in Conns
<1>1. loops[l] \in LoopSet
  OBVIOUS
<1>2. loops[l].batch \in Seq(Tasks)
  BY <1>1 DEF LoopSet
<1>3. Tail(loops[l].batch) \in Seq(Tasks) /\ Head(loops[l].batch) \in Tasks
  BY <1>2
<1>4. [loops[l] EXCEPT !.batch = Tail(@)] \in LoopSet
  BY <1>1, <1>3 DEF LoopSet
<1> QED
  BY <1>3, <1>4 DEF PopTask, Tasks

\* Sending keeps the types.
LEMMA SendTypes ==
  ASSUME conn \in [Conns -> ConnSet], list \in [Fds -> Conns \union {NoConn}],
         NEW c \in Conns, NEW ls \in [AllLoops -> LoopSet], SendEffect(c, ls),
         UNCHANGED threadNum
  PROVE  /\ conn' \in [Conns -> ConnSet]'
         /\ list' \in [Fds -> Conns \union {NoConn}]
         /\ loops' \in [AllLoops -> LoopSet]
<1>1. "cleanup" \in Kinds
  BY DEF Kinds
<1>2. ConnSet' = ConnSet
  BY DEF ConnSet, Loops
<1>3. conn' \in [Conns -> ConnSet]
  <2>1. [conn[c] EXCEPT !.erred = "send"] \in ConnSet
    BY ConnChanges
  <2> QED
    BY <2>1 DEF SendEffect
<1>4. loops' \in [AllLoops -> LoopSet]
  BY <1>1, PushTypes DEF SendEffect
<1> QED
  BY <1>2, <1>3, <1>4 DEF SendEffect

\* Destroying connections keeps the types.
LEMMA DestroyTypes ==
  ASSUME conn \in [Conns -> ConnSet], exited \in Exits, NEW S, Destroy(S)
  PROVE  conn' \in [Conns -> ConnSet] /\ exited' \in Exits
<1>1. \A c \in Conns : [conn[c] EXCEPT !.state = "destroyed", !.fd = 0,
                                      !.registered = FALSE] \in ConnSet
  BY ConnChanges
<1>2. conn' \in [Conns -> ConnSet]
  BY <1>1 DEF Destroy
<1>3. exited' \in Exits
  BY DEF Destroy, Exits
<1> QED
  BY <1>2, <1>3

LEMMA InitTypes == Init => Typed /\ CurIn
<1> SUFFICES ASSUME Init PROVE Typed /\ CurIn
  OBVIOUS
<1>1. conn \in [Conns -> ConnSet]
  BY DEF Init, ConnSet
<1>2. main \in MainSet
  BY DEF Init, Idle, MainSet
<1>3. <<>> \in Seq(Tasks)
  OBVIOUS
<1>4. loops \in [AllLoops -> LoopSet]
  BY <1>3 DEF Init, LoopSet
<1>5. MaxWalks \in Nat
  BY ServerAssumption
<1>6. /\ threadNum \in ThreadNums /\ connCount \in Int /\ index \in Nat
      /\ threadNum > 0 => index < threadNum
      /\ walks \in Nat /\ walks <= MaxWalks
  BY <1>5 DEF Init
<1>7. list \in [Fds -> Conns \union {NoConn}] /\ exited \in Exits
  BY DEF Init, Exits
<1>8. CurIn
  BY DEF Init, Idle, CurIn
<1> QED
  BY <1>1, <1>2, <1>4, <1>6, <1>7, <1>8 DEF Typed

\* Every step keeps the types.
LEMMA StepTypes ==
  ASSUME Typed, CurIn, [Next]_vars
  PROVE  Typed' /\ CurIn'
<1>a. /\ threadNum \in ThreadNums /\ conn \in [Conns -> ConnSet]
      /\ main \in MainSet /\ list \in [Fds -> Conns \union {NoConn}]
      /\ loops \in [AllLoops -> LoopSet] /\ exited \in Exits
  BY DEF Typed
<1>b. /\ connCount \in Int /\ walks \in Nat /\ walks <= MaxWalks
      /\ index \in Nat /\ (threadNum > 0 => index < threadNum)
      /\ threadNum \in Nat
  BY Consts DEF Typed
<1>c. MaxWalks \in Nat
  BY ServerAssumption
<1>d. Loops \subseteq AllLoops
  BY <1>a, LoopsIn
<1>e. UNCHANGED threadNum
  BY DEF Next, vars
<1>f. ConnSet' = ConnSet
  BY <1>e DEF ConnSet, Loops
<1>g. main.seen \in Int /\ \A l \in AllLoops : loops[l] \in LoopSet /\ loops[l].seen \in Int
  BY <1>a DEF MainSet, LoopSet
<1>h. "add" \in Kinds /\ "cleanup" \in Kinds /\ "send" \in Kinds
  BY DEF Kinds
<1>1. ASSUME NEW c \in Conns, Accept(c)
      PROVE  Typed' /\ CurIn'
  <2>1. PICK f \in FreeFds : conn' = [conn EXCEPT ![c].state = "accepted", ![c].fd = f]
    BY <1>1 DEF Accept
  <2>2. f \in Fds
    BY DEF FreeFds
  <2>3. conn' \in [Conns -> ConnSet]
    <3>1. [conn[c] EXCEPT !.state = "accepted", !.fd = f] \in ConnSet
      BY <1>a, <2>2, ConnAccepted
    <3>2. conn' = [conn EXCEPT ![c] = [conn[c] EXCEPT !.state = "accepted", !.fd = f]]
      BY <1>a, <2>1
    <3> QED
      BY <1>a, <3>1, <3>2
  <2>4. main' \in MainSet /\ CurIn'
    BY <1>1, <1>b DEF Accept, MainSet, CurIn
  <2> QED
    BY <1>1, <1>a, <1>b, <1>e, <1>f, <2>3, <2>4 DEF Accept, Typed
<1>2. CASE Reject
  <2>1. conn' \in [Conns -> ConnSet]
    <3>1. main.cur \in Conns /\ conn[main.cur] \in ConnSet
      BY <1>2, <1>a DEF Reject, CurIn
    <3>2. [conn[main.cur] EXCEPT !.state = "rejected", !.fd = 0] \in ConnSet
      BY <3>1, ConnChanges
    <3>3. conn' = [conn EXCEPT ![main.cur] = [conn[main.cur] EXCEPT
                                                !.state = "rejected", !.fd = 0]]
      BY <1>2, <1>a, <3>1 DEF Reject
    <3> QED
      BY <1>a, <3>2, <3>3
  <2>2. main' \in MainSet /\ CurIn'
    BY <1>2 DEF Reject, Idle, MainSet, CurIn
  <2>3. connCount' \in Int
    BY <1>2, <1>g DEF Reject
  <2> QED
    BY <1>2, <1>a, <1>b, <1>e, <1>f, <2>1, <2>2, <2>3 DEF Reject, Typed
<1>3. CASE MakeConnection
  <2>1. NextLoop \in Loops \union {MainLoop}
    BY <1>b DEF NextLoop, Loops
  <2>2. conn' \in [Conns -> ConnSet]
    <3>1. main.cur \in Conns /\ conn[main.cur] \in ConnSet
      BY <1>3, <1>a DEF MakeConnection, CurIn
    <3>2. [conn[main.cur] EXCEPT !.state = "made", !.loop = NextLoop] \in ConnSet
      BY <2>1, <3>1, ConnMade
    <3>3. conn' = [conn EXCEPT ![main.cur] = [conn[main.cur] EXCEPT
                                                !.state = "made", !.loop = NextLoop]]
      BY <1>3, <1>a, <3>1 DEF MakeConnection
    <3> QED
      BY <1>a, <3>2, <3>3
  <2>3. main' \in MainSet /\ CurIn'
    BY <1>3, <1>a DEF MakeConnection, MainSet, CurIn
  <2>4. connCount' \in Int
    BY <1>3, <1>g DEF MakeConnection
  <2>5. index' \in Nat /\ (threadNum > 0 => index' < threadNum)
    BY <1>3, <1>b DEF MakeConnection, NextIndex
  <2> QED
    BY <1>3, <1>a, <1>b, <1>e, <1>f, <2>2, <2>3, <2>4, <2>5
    DEF MakeConnection, Typed
<1>4. CASE Insert
  <2>1. main.cur \in Conns
    BY <1>4 DEF Insert, CurIn
  <2>2. main' \in MainSet /\ CurIn'
    BY <1>4, <1>a, <2>1 DEF Insert, MainSet, CurIn
  <2>3. list' \in [Fds -> Conns \union {NoConn}]
    BY <1>4, <1>a, <2>1 DEF Insert
  <2> QED
    BY <1>4, <1>a, <1>b, <1>e, <1>f, <2>2, <2>3 DEF Insert, Typed
<1>5. CASE AddChannelToLoop
  <2>1. main.cur \in Conns
    BY <1>5 DEF AddChannelToLoop, CurIn
  <2>2. main' \in MainSet /\ CurIn'
    BY <1>5, <1>a, <2>1 DEF AddChannelToLoop, MainSet, CurIn
  <2>3. loops' \in [AllLoops -> LoopSet]
    BY <1>5, <1>a, <1>h, <2>1, PushTypes DEF AddChannelToLoop, Push
  <2> QED
    BY <1>5, <1>a, <1>b, <1>e, <1>f, <2>2, <2>3 DEF AddChannelToLoop, Typed
<1>6. CASE ReleaseLocal
  <2>1. conn' \in [Conns -> ConnSet] /\ exited' \in Exits
    BY <1>6, <1>a, DestroyTypes DEF ReleaseLocal
  <2>2. main' \in MainSet /\ CurIn'
    BY <1>6 DEF ReleaseLocal, Idle, MainSet, CurIn
  <2> QED
    BY <1>6, <1>a, <1>b, <1>e, <1>f, <2>1, <2>2 DEF ReleaseLocal, Typed
<1>7. ASSUME NEW l \in Loops, WalkStart(l) \/ WalkStep(l)
      PROVE  Typed' /\ CurIn'
  <2>1. walks' \in Nat /\ walks' <= MaxWalks
    <3>1. CASE WalkStart(l)
      BY <3>1, <1>b, <1>c DEF WalkStart
    <3>2. CASE WalkStep(l)
      <4>1. walks' = walks
        BY <3>2 DEF WalkStep
      <4> QED
        BY <4>1, <1>b
    <3> QED
      BY <1>7, <3>1, <3>2
  <2>2. exited' \in Exits
    BY <1>7, <1>a DEF WalkStart, WalkStep, SendTo, SendInLoop, CleanUp, Exits
  <2>3. /\ conn' \in [Conns -> ConnSet]
        /\ list' \in [Fds -> Conns \union {NoConn}]
        /\ loops' \in [AllLoops -> LoopSet]
    <3>1. CASE \E f \in Fds : list[f] # NoConn /\ WalkEffect(l, f)
      <4>1. PICK f \in Fds : list[f] # NoConn /\ WalkEffect(l, f)
        BY <3>1
      <4>2. list[f] \in Conns
        BY <1>a, <4>1
      <4>3. WalkTo(l, f) \in [AllLoops -> LoopSet]
        <5>1. l \in AllLoops /\ loops[l] \in LoopSet
          BY <1>a, <1>d
        <5>2. [loops[l] EXCEPT !.walk = f] \in LoopSet
          BY <5>1 DEF LoopSet
        <5>3. WalkTo(l, f) = [loops EXCEPT ![l] = [loops[l] EXCEPT !.walk = f]]
          BY <1>a, <5>1 DEF WalkTo
        <5> QED
          BY <1>a, <5>2, <5>3
      <4> QED
        BY <1>a, <1>e, <1>f, <1>h, <4>1, <4>2, <4>3, SendTypes, PushTypes DEF WalkEffect
    <3>2. CASE /\ UNCHANGED <<conn, list>>
               /\ loops' = loops \/ loops' = [loops EXCEPT ![l].walk = 0]
      <4>1. [loops[l] EXCEPT !.walk = 0] \in LoopSet
        BY <1>a, <1>d DEF LoopSet
      <4> QED
        BY <1>a, <3>2, <4>1
    <3> QED
      BY <1>7, <3>1, <3>2, WalkStepSo
  <2>4. UNCHANGED <<main, connCount, index>>
    BY <1>7, WalkStepSo
  <2> QED
    BY <1>a, <1>b, <1>e, <1>f, <2>1, <2>2, <2>3, <2>4 DEF Typed, CurIn
<1>8. ASSUME NEW l \in Loops, Swap(l)
      PROVE  Typed' /\ CurIn'
  <2>1. loops[l] \in LoopSet /\ loops[l].tasks \in Seq(Tasks) /\ <<>> \in Seq(Tasks)
    BY <1>a, <1>d DEF LoopSet
  <2>2. HeldBy(loops[l].tasks) \subseteq Conns
    BY <2>1, HeldTypes
  <2> DEFINE r == [loops[l] EXCEPT !.phase = "run", !.batch = loops[l].tasks,
                                   !.tasks = <<>>, !.held = HeldBy(loops[l].tasks)]
  <2>3. r \in LoopSet
    BY <2>1, <2>2 DEF LoopSet
  <2>4. loops' = [loops EXCEPT ![l] = r]
    BY <1>8, <1>a, <1>d DEF Swap
  <2>5. loops' \in [AllLoops -> LoopSet]
    BY <1>a, <2>3, <2>4
  <2> QED
    BY <1>8, <1>a, <1>b, <1>e, <1>f, <2>5 DEF Swap, Typed, CurIn
<1>9. ASSUME NEW l \in Loops, RunAdd(l)
      PROVE  Typed' /\ CurIn'
  <2>1. loops' \in [AllLoops -> LoopSet]
    BY <1>9, <1>a, <1>d, PopTypes DEF RunAdd, NextTask
  <2>2. conn' \in [Conns -> ConnSet]
    <3>1. \A c \in Conns : [conn[c] EXCEPT !.registered = TRUE] \in ConnSet
      BY <1>a, ConnChanges
    <3> QED
      BY <1>9, <1>a, <3>1 DEF RunAdd
  <2>3. exited' \in Exits
    BY <1>9, <1>a DEF RunAdd, Exits
  <2> QED
    BY <1>9, <1>a, <1>b, <1>e, <1>f, <2>1, <2>2, <2>3 DEF RunAdd, Typed, CurIn
<1>10. ASSUME NEW l \in Loops, RunSend(l)
       PROVE  Typed' /\ CurIn'
  <2> DEFINE c == Head(loops[l].batch).conn
  <2>1. c \in Conns /\ PopTask(l) \in [AllLoops -> LoopSet]
    BY <1>10, <1>a, <1>d, PopTypes DEF RunSend, NextTask
  <2>2. SendInLoop(c, PopTask(l))
    BY <1>10 DEF RunSend
  <2> HIDE DEF c
  <2>3. exited' \in Exits
    BY <2>2, <1>a DEF SendInLoop, CleanUp, Exits
  <2>4. /\ conn' \in [Conns -> ConnSet]
        /\ list' \in [Fds -> Conns \union {NoConn}]
        /\ loops' \in [AllLoops -> LoopSet]
    BY <1>a, <1>e, <1>f, <2>1, <2>2, SendsSo, SendTypes
  <2> QED
    BY <1>10, <1>a, <1>b, <1>e, <1>f, <2>3, <2>4 DEF RunSend, Typed, CurIn
<1>11. ASSUME NEW l \in Loops, RunCleanup(l)
       PROVE  Typed' /\ CurIn'
  <2> DEFINE c == Head(loops[l].batch).conn
  <2>1. c \in Conns /\ PopTask(l) \in [AllLoops -> LoopSet]
    BY <1>11, <1>a, <1>d, PopTypes DEF RunCleanup, NextTask
  <2>2. loops' = [PopTask(l) EXCEPT ![l].removing = c, ![l].seen = connCount]
    BY <1>11 DEF RunCleanup
  <2> HIDE DEF c
  <2>3. [PopTask(l)[l] EXCEPT !.removing = c, !.seen = connCount] \in LoopSet
    BY <1>b, <1>d, <2>1 DEF LoopSet
  <2>4. loops' \in [AllLoops -> LoopSet]
    BY <1>d, <2>1, <2>2, <2>3
  <2> QED
    BY <1>11, <1>a, <1>b, <1>e, <1>f, <2>4 DEF RunCleanup, Typed, CurIn
<1>12. ASSUME NEW l \in Loops, RemoveConnection(l)
       PROVE  Typed' /\ CurIn'
  <2>1. loops' \in [AllLoops -> LoopSet]
    <3>1. [loops[l] EXCEPT !.removing = NoConn, !.seen = 0] \in LoopSet
      <4>1. loops[l] \in LoopSet
        BY <1>a, <1>d
      <4>2. loops[l].seen \in Int /\ 0 \in Int
        BY <4>1 DEF LoopSet
      <4>3. [loops[l] EXCEPT !.removing = NoConn] \in LoopSet
        BY <4>1 DEF LoopSet
      <4> QED
        BY <4>2, <4>3 DEF LoopSet
    <3> QED
      BY <1>12, <1>a, <1>d, <3>1 DEF RemoveConnection
  <2>2. connCount' \in Int
    BY <1>12, <1>d, <1>g DEF RemoveConnection, Remove
  <2>3. list' \in [Fds -> Conns \union {NoConn}]
    BY <1>12, <1>a DEF RemoveConnection, Remove
  <2> QED
    BY <1>12, <1>a, <1>b, <1>e, <1>f, <2>1, <2>2, <2>3
    DEF RemoveConnection, Typed, CurIn
<1>13. ASSUME NEW l \in Loops, EndBatch(l)
       PROVE  Typed' /\ CurIn'
  <2>1. loops' \in [AllLoops -> LoopSet]
    <3>1. [loops[l] EXCEPT !.phase = "dispatch", !.held = {}] \in LoopSet
      BY <1>a, <1>d DEF LoopSet
    <3> QED
      BY <1>13, <1>a, <1>d, <3>1 DEF EndBatch
  <2>2. conn' \in [Conns -> ConnSet] /\ exited' \in Exits
    BY <1>13, <1>a, DestroyTypes DEF EndBatch
  <2> QED
    BY <1>13, <1>a, <1>b, <1>e, <1>f, <2>1, <2>2 DEF EndBatch, Typed, CurIn
<1>14. ASSUME NEW l \in Loops, NEW c \in Conns, HandleClose(l, c) \/ HandleError(l, c)
       PROVE  Typed' /\ CurIn'
  <2>1. loops' = Push(loops, "cleanup", c) /\ list' = list
    BY <1>14 DEF HandleClose, HandleError, CleanUp, Push
  <2>2. loops' \in [AllLoops -> LoopSet]
    BY <1>a, <1>h, <2>1, PushTypes
  <2>3. conn' \in [Conns -> ConnSet]
    <3>1. /\ [conn[c] EXCEPT !.disc = TRUE] \in ConnSet
          /\ [conn[c] EXCEPT !.erred = "read"] \in ConnSet
      BY <1>a, ConnChanges
    <3> QED
      BY <1>14, <1>a, <3>1 DEF HandleClose, HandleError
  <2> QED
    BY <1>14, <1>a, <1>b, <1>e, <1>f, <2>1, <2>2, <2>3
    DEF HandleClose, HandleError, Typed, CurIn
<1>15. CASE UNCHANGED vars
  BY <1>15, <1>a, <1>b, <1>f DEF vars, Typed, CurIn
<1> QED
  BY <1>1, <1>2, <1>3, <1>4, <1>5, <1>6, <1>7, <1>8, <1>9, <1>10, <1>11, <1>12,
     <1>13, <1>14, <1>15
  DEF Next, Step, MainStep, LoopStep, Rest

\* The variables keep their types: a connection's loop is one of the pool's,
\* and what the loops queue, hold and remove are connections
\* (TcpServer.cpp:58-99, EventLoop.cpp:105-121).
THEOREM TypeCorrect == Spec => []TypeOK
<1>1. Init => Typed /\ CurIn
  BY InitTypes
<1>2. Typed /\ CurIn /\ [Next]_vars => Typed' /\ CurIn'
  BY StepTypes
<1>3. Typed => TypeOK
  BY TypedSame
<1> QED
  BY <1>1, <1>2, <1>3, PTL DEF Spec

-----------------------------------------------------------------------------
(* The map                                                                   *)

\* What onNewConnection holds.
MainKnows ==
  /\ main.pc = "idle" => main.cur = NoConn
  /\ main.pc = "count" => conn[main.cur].state = "accepted"
  /\ main.pc \in {"insert", "add", "release"} => conn[main.cur].state = "made"

\* A connection has a descriptor from accept to close, no other has it, and
\* epoll knows it only between those.
OwnFd ==
  /\ \A c \in Conns : conn[c].fd # 0 <=> conn[c].state \in {"accepted", "made"}
  /\ \A c, d \in Conns : conn[c].fd # 0 /\ conn[c].fd = conn[d].fd => c = d
  /\ \A c \in Conns : conn[c].registered => conn[c].state = "made"

\* A task with a shared_ptr is of a living connection, and a cleanup of one
\* that ended.
TaskLive(t) == /\ t.kind # "add" => t.conn \in Live
               /\ t.kind = "cleanup" => Ended(t.conn)

\* The loops' batches hold their connections until they are dropped.
TasksLive(ls) ==
  \A l \in Loops :
    /\ \A t \in Range(ls[l].tasks) \union Range(ls[l].batch) : TaskLive(t)
    /\ \A t \in Range(ls[l].batch) : t.kind # "add" => t.conn \in ls[l].held
    /\ ls[l].held \subseteq Live
    /\ ls[l].removing # NoConn =>
         ls[l].removing \in ls[l].held /\ Ended(ls[l].removing)

\* The map is exact because a connection owns its descriptor as long as it
\* lives, and lives as long as something that will use the descriptor holds it.
MapInv == MainKnows /\ OwnFd /\ TasksLive(loops) /\ MapExact

LEMMA RangeAppend ==
  ASSUME NEW S, NEW s \in Seq(S), NEW e
  PROVE  Range(Append(s, e)) = Range(s) \union {e}
<1>1. /\ DOMAIN s = 1 .. Len(s) /\ Len(s) \in Nat
      /\ DOMAIN Append(s, e) = 1 .. Len(s) + 1
      /\ \A i \in 1 .. Len(s) : Append(s, e)[i] = s[i]
      /\ Append(s, e)[Len(s) + 1] = e
  OBVIOUS
<1>2. ASSUME NEW x \in Range(Append(s, e))
      PROVE  x \in Range(s) \union {e}
  <2>1. PICK i \in 1 .. Len(s) + 1 : Append(s, e)[i] = x
    BY <1>1, <1>2 DEF Range
  <2>2. CASE i = Len(s) + 1
    BY <1>1, <2>1, <2>2
  <2>3. CASE i \in 1 .. Len(s)
    BY <1>1, <2>1, <2>3 DEF Range
  <2> QED
    BY <1>1, <2>2, <2>3
<1>3. ASSUME NEW x \in Range(s) \union {e}
      PROVE  x \in Range(Append(s, e))
  <2>1. CASE x = e
    <3>1. Len(s) + 1 \in 1 .. Len(s) + 1
      BY <1>1
    <3> QED
      BY <1>1, <2>1, <3>1 DEF Range
  <2>2. CASE x \in Range(s)
    <3>1. PICK i \in 1 .. Len(s) : s[i] = x
      BY <1>1, <2>2 DEF Range
    <3>2. i \in 1 .. Len(s) + 1
      BY <1>1
    <3> QED
      BY <1>1, <3>1, <3>2 DEF Range
  <2> QED
    BY <1>3, <2>1, <2>2
<1> QED
  BY <1>2, <1>3

LEMMA RangeTail ==
  ASSUME NEW S, NEW s \in Seq(S), s # <<>>
  PROVE  Range(Tail(s)) \subseteq Range(s) /\ Head(s) \in Range(s)
<1>1. /\ Len(s) \in Nat /\ Len(s) # 0 /\ DOMAIN s = 1 .. Len(s)
      /\ DOMAIN Tail(s) = 1 .. Len(s) - 1 /\ Head(s) = s[1]
      /\ \A i \in 1 .. Len(s) - 1 : Tail(s)[i] = s[i + 1]
  OBVIOUS
<1>2. \A i \in 1 .. Len(s) - 1 : i + 1 \in 1 .. Len(s)
  BY <1>1
<1>3. 1 \in 1 .. Len(s)
  BY <1>1
<1>4. Head(s) \in Range(s)
  BY <1>1, <1>3 DEF Range
<1>5. ASSUME NEW x \in Range(Tail(s))
      PROVE  x \in Range(s)
  <2>1. PICK i \in 1 .. Len(s) - 1 : x = Tail(s)[i]
    BY <1>1, <1>5 DEF Range
  <2>2. x = s[i + 1] /\ i + 1 \in DOMAIN s
    BY <1>1, <1>2, <2>1
  <2> QED
    BY <2>2 DEF Range
<1> QED
  BY <1>4, <1>5

\* What queueing a task changes.
LEMMA PushSo ==
  ASSUME NEW ls \in [AllLoops -> LoopSet], NEW kind \in Kinds, NEW c \in Conns,
         NEW k \in AllLoops
  PROVE  LET new == Push(ls, kind, c)
         IN  /\ Range(new[k].tasks) =
                  Range(ls[k].tasks) \union
                    (IF k = conn[c].loop THEN {Task(kind, c)} ELSE {})
             /\ new[k].batch = ls[k].batch
             /\ new[k].held = ls[k].held
             /\ new[k].removing = ls[k].removing
             /\ new[k].seen = ls[k].seen
             /\ new[k].walk = ls[k].walk
             /\ new[k].phase = ls[k].phase
<1>1. ls[k] \in LoopSet /\ ls[k].tasks \in Seq(Tasks)
  BY DEF LoopSet
<1>2. Range(Append(ls[k].tasks, Task(kind, c)))
        = Range(ls[k].tasks) \union {Task(kind, c)}
  BY <1>1, RangeAppend
<1>3. CASE k = conn[c].loop
  <2>1. Push(ls, kind, c)[k] = [ls[k] EXCEPT !.tasks = Append(@, Task(kind, c))]
    BY <1>3 DEF Push
  <2>2. Push(ls, kind, c)[k].tasks = Append(ls[k].tasks, Task(kind, c))
    BY <1>1, <2>1 DEF LoopSet
  <2> QED
    BY <1>1, <1>2, <1>3, <2>1, <2>2 DEF LoopSet
<1>4. CASE k # conn[c].loop
  <2>1. Push(ls, kind, c)[k] = ls[k]
    BY <1>4 DEF Push
  <2> QED
    BY <1>4, <2>1
<1> QED
  BY <1>3, <1>4

\* A step that keeps states, descriptors and ends keeps what they are known for.
SameIds == \A d \in Conns : /\ conn'[d].state = conn[d].state
                            /\ conn'[d].fd = conn[d].fd
                            /\ conn'[d].loop = conn[d].loop
                            /\ Ended(d) => Ended(d)'
                            /\ conn'[d].registered =>
                                 conn[d].registered \/ conn[d].state = "made"

LEMMA SameLive ==
  ASSUME SameIds
  PROVE  Live' = Live /\ \A d \in Conns : Ended(d) => Ended(d)'
BY DEF SameIds, Live

LEMMA QuietConns ==
  ASSUME CurIn, MainKnows, OwnFd, SameIds, main' = main
  PROVE  MainKnows' /\ OwnFd'
<1>1. MainKnows'
  BY DEF MainKnows, CurIn, SameIds
<1>2. OwnFd'
  BY DEF OwnFd, SameIds
<1> QED
  BY <1>1, <1>2

LEMMA QuietMap ==
  ASSUME MapExact, SameIds, list' = list,
         main.pc = "insert" => main' = main
  PROVE  MapExact'
<1>1. Live' = Live
  BY SameLive
<1>2. ASSUME NEW f \in Fds, list'[f] # NoConn
      PROVE  list'[f] \in Live' /\ conn'[list'[f]].fd = f
  BY <1>1, <1>2 DEF MapExact, SameIds, Live
<1>3. ASSUME NEW c \in Live'
      PROVE  \/ Ended(c)'
             \/ main'.cur = c /\ main'.pc = "insert"
             \/ list'[conn'[c].fd] = c
  BY <1>1, <1>3 DEF MapExact, SameIds, Live
<1> QED
  BY <1>2, <1>3 DEF MapExact

\* A step that adds only live tasks to those of ls.
LEMMA AddLive ==
  ASSUME NEW ls, TasksLive(ls), UNCHANGED threadNum,
         Live \subseteq Live', \A d \in Conns : Ended(d) => Ended(d)',
         \A k \in Loops :
           /\ \A t \in Range(loops'[k].tasks) : t \in Range(ls[k].tasks) \/ TaskLive(t)'
           /\ Range(loops'[k].batch) \subseteq Range(ls[k].batch)
           /\ loops'[k].held = ls[k].held
           /\ loops'[k].removing = ls[k].removing
  PROVE  TasksLive(loops)'
<1>1. Loops' = Loops
  BY DEF Loops
<1>2. Live \subseteq Conns
  BY DEF Live
<1>3. ASSUME NEW t, TaskLive(t)
      PROVE  TaskLive(t)'
  BY <1>2, <1>3 DEF TaskLive
<1>4. ASSUME NEW k \in Loops
      PROVE  /\ \A t \in Range(loops'[k].tasks) \union Range(loops'[k].batch) : TaskLive(t)'
             /\ \A t \in Range(loops'[k].batch) : t.kind # "add" => t.conn \in loops'[k].held
             /\ loops'[k].held \subseteq Live'
             /\ loops'[k].removing # NoConn =>
                  (loops[k].removing \in loops[k].held /\ Ended(loops[k].removing))'
  <2>1. /\ \A t \in Range(ls[k].tasks) \union Range(ls[k].batch) : TaskLive(t)
        /\ \A t \in Range(ls[k].batch) : t.kind # "add" => t.conn \in ls[k].held
        /\ ls[k].held \subseteq Live
        /\ ls[k].removing # NoConn =>
             ls[k].removing \in ls[k].held /\ Ended(ls[k].removing)
    BY DEF TasksLive
  <2>2. ASSUME NEW t \in Range(loops'[k].tasks) \union Range(loops'[k].batch)
        PROVE  TaskLive(t)'
    BY <1>3, <2>1, <2>2
  <2>3. ASSUME loops'[k].removing # NoConn
        PROVE  (loops[k].removing \in loops[k].held /\ Ended(loops[k].removing))'
    <3>1. ls[k].removing \in Conns /\ Ended(ls[k].removing)
      BY <1>2, <2>1, <2>3
    <3>2. Ended(ls[k].removing)'
      BY <3>1
    <3> QED
      BY <2>1, <2>3, <3>2
  <2> QED
    BY <1>2, <2>1, <2>2, <2>3
<1> QED
  BY <1>1, <1>4 DEF TasksLive

\* Queueing a live task.
LEMMA PushLive ==
  ASSUME NEW ls \in [AllLoops -> LoopSet], NEW kind \in Kinds, NEW c \in Conns,
         threadNum \in ThreadNums, TasksLive(ls), UNCHANGED threadNum,
         Live \subseteq Live', \A d \in Conns : Ended(d) => Ended(d)',
         loops' = Push(ls, kind, c), TaskLive(Task(kind, c))'
  PROVE  TasksLive(loops)'
<1>1. Loops \subseteq AllLoops
  BY LoopsIn
<1>2. ASSUME NEW k \in Loops
      PROVE  /\ \A t \in Range(loops'[k].tasks) : t \in Range(ls[k].tasks) \/ TaskLive(t)'
             /\ Range(loops'[k].batch) \subseteq Range(ls[k].batch)
             /\ loops'[k].held = ls[k].held
             /\ loops'[k].removing = ls[k].removing
  <2>1. k \in AllLoops
    BY <1>1
  <2>2. /\ Range(loops'[k].tasks) \subseteq Range(ls[k].tasks) \union {Task(kind, c)}
        /\ loops'[k].batch = ls[k].batch
        /\ loops'[k].held = ls[k].held
        /\ loops'[k].removing = ls[k].removing
    <3> DEFINE new == Push(ls, kind, c)
    <3>1. /\ Range(new[k].tasks) = Range(ls[k].tasks) \union
               (IF k = conn[c].loop THEN {Task(kind, c)} ELSE {})
          /\ new[k].batch = ls[k].batch
          /\ new[k].held = ls[k].held
          /\ new[k].removing = ls[k].removing
      BY <2>1, PushSo, SMTT(30)
    <3>2. loops' = new
      OBVIOUS
    <3> HIDE DEF new
    <3>3. Range(new[k].tasks) \subseteq Range(ls[k].tasks) \union {Task(kind, c)}
      BY <3>1
    <3>4. loops'[k] = new[k]
      BY <3>2
    <3> QED
      BY <3>1, <3>3, <3>4, Zenon
  <2> QED
    BY <2>2
<1> QED
  BY <1>2, AddLive

LEMMA SendLive ==
  ASSUME conn \in [Conns -> ConnSet], NEW c \in Live,
         NEW ls \in [AllLoops -> LoopSet],
         threadNum \in ThreadNums, TasksLive(ls), UNCHANGED threadNum,
         SendEffect(c, ls)
  PROVE  SameIds /\ TasksLive(loops)'
<1>1. c \in Conns /\ conn[c].state = "made"
  BY DEF Live
<1>2. SameIds
  <2>1. CASE conn' = conn
    BY <2>1 DEF SameIds, Ended
  <2>2. CASE conn' = [conn EXCEPT ![c].erred = "send"]
    <3>1. \A d \in Conns : /\ conn'[d].state = conn[d].state
                           /\ conn'[d].fd = conn[d].fd
                           /\ conn'[d].loop = conn[d].loop
                           /\ conn'[d].disc = conn[d].disc
                           /\ conn'[d].registered = conn[d].registered
                           /\ conn'[d].erred = conn[d].erred \/ conn'[d].erred = "send"
      BY <2>2 DEF ConnSet
    <3> QED
      BY <3>1 DEF SameIds, Ended
  <2> QED
    BY <2>1, <2>2 DEF SendEffect
<1>3. Live \subseteq Live' /\ \A d \in Conns : Ended(d) => Ended(d)'
  BY <1>2, SameLive
<1>4. CASE loops' = ls
  <2>1. \A k \in Loops :
           /\ \A t \in Range(loops'[k].tasks) : t \in Range(ls[k].tasks) \/ TaskLive(t)'
           /\ Range(loops'[k].batch) \subseteq Range(ls[k].batch)
           /\ loops'[k].held = ls[k].held
           /\ loops'[k].removing = ls[k].removing
    BY <1>4
  <2> QED
    BY <1>2, <1>3, <2>1, AddLive
<1>5. CASE loops' # ls
  <2>1. loops' = Push(ls, "cleanup", c) /\ conn' = [conn EXCEPT ![c].erred = "send"]
    BY <1>5 DEF SendEffect
  <2>2. conn'[c].erred = "send"
    BY <1>1, <2>1 DEF ConnSet
  <2>3. TaskLive(Task("cleanup", c))'
    BY <1>1, <1>3, <2>2 DEF TaskLive, Task, Ended
  <2>4. "cleanup" \in Kinds
    BY DEF Kinds
  <2> QED
    BY <1>1, <1>2, <1>3, <2>1, <2>3, <2>4, PushLive
<1> QED
  BY <1>4, <1>5

LEMMA PopLive ==
  ASSUME NEW l \in Loops, threadNum \in ThreadNums,
         loops \in [AllLoops -> LoopSet], TasksLive(loops), loops[l].batch # <<>>
  PROVE  /\ TasksLive(PopTask(l))
         /\ TaskLive(Head(loops[l].batch))
         /\ Head(loops[l].batch).kind # "add"
              => Head(loops[l].batch).conn \in loops[l].held
<1>1. l \in AllLoops /\ loops[l] \in LoopSet
  BY LoopsIn
<1>2. loops[l].batch \in Seq(Tasks)
  BY <1>1 DEF LoopSet
<1>3. /\ Range(Tail(loops[l].batch)) \subseteq Range(loops[l].batch)
      /\ Head(loops[l].batch) \in Range(loops[l].batch)
  BY <1>2, RangeTail
<1>4. ASSUME NEW k \in Loops
      PROVE  /\ PopTask(l)[k].tasks = loops[k].tasks
             /\ Range(PopTask(l)[k].batch) \subseteq Range(loops[k].batch)
             /\ PopTask(l)[k].held = loops[k].held
             /\ PopTask(l)[k].removing = loops[k].removing
  <2>1. k \in AllLoops /\ loops[k] \in LoopSet
    BY LoopsIn
  <2>2. CASE k = l
    <3>1. PopTask(l)[k] = [loops[l] EXCEPT !.batch = Tail(loops[l].batch)]
      BY <1>1, <2>2 DEF PopTask
    <3> QED
      BY <1>1, <1>3, <2>2, <3>1 DEF LoopSet
  <2>3. CASE k # l
    BY <2>1, <2>3 DEF PopTask
  <2> QED
    BY <2>2, <2>3
<1>5. TasksLive(PopTask(l))
  BY <1>4 DEF TasksLive
<1> QED
  BY <1>3, <1>5 DEF TasksLive

LEMMA ReferencedSo ==
  ASSUME NEW ls \in SUBSET Loops, NEW stack
  PROVE  /\ Listed \subseteq Referenced(ls, stack)
         /\ stack \subseteq Referenced(ls, stack)
         /\ \A k \in Loops : \A t \in Range(loops[k].tasks) :
              t.kind # "add" => t.conn \in Referenced(ls, stack)
         /\ \A k \in ls : loops[k].held \subseteq Referenced(ls, stack)
<1>1. /\ Listed \subseteq Referenced(ls, stack)
      /\ stack \subseteq Referenced(ls, stack)
      /\ \A k \in Loops : HeldBy(loops[k].tasks) \subseteq Referenced(ls, stack)
      /\ \A k \in ls : loops[k].held \subseteq Referenced(ls, stack)
  <2> DEFINE tasks == UNION {HeldBy(loops[l].tasks) : l \in Loops}
             helds == UNION {loops[l].held : l \in ls}
  <2>1. Referenced(ls, stack) = Listed \union stack \union tasks \union helds
    BY DEF Referenced
  <2>2. \A k \in Loops : HeldBy(loops[k].tasks) \subseteq tasks
    OBVIOUS
  <2>3. \A k \in ls : loops[k].held \subseteq helds
    OBVIOUS
  <2> HIDE DEF tasks, helds
  <2> QED
    BY <2>1, <2>2, <2>3
<1>2. \A k \in Loops : \A t \in Range(loops[k].tasks) :
        t.kind # "add" => t.conn \in HeldBy(loops[k].tasks)
  BY DEF HeldBy
<1> QED
  BY <1>1, <1>2

\* Destroying connections that nothing refers to.
LEMMA DestroySo ==
  ASSUME conn \in [Conns -> ConnSet], list \in [Fds -> Conns \union {NoConn}],
         OwnFd, MapExact, NEW S, Destroy(S), S \cap Listed = {}, list' = list,
         main.pc = "insert" => main' = main
  PROVE  /\ OwnFd' /\ MapExact'
         /\ \A d \in Conns : /\ Ended(d) => Ended(d)'
                             /\ d \notin S => conn'[d] = conn[d]
         /\ Live \ S \subseteq Live'
<1>1. ASSUME NEW d \in Conns
      PROVE  /\ d \notin S => conn'[d] = conn[d]
             /\ conn'[d].disc = conn[d].disc /\ conn'[d].erred = conn[d].erred
             /\ \/ conn'[d] = conn[d]
                \/ /\ conn'[d].state = "destroyed" /\ conn'[d].fd = 0
                   /\ ~ conn'[d].registered
  <2>1. CASE conn' = conn
    BY <2>1
  <2>2. CASE conn' # conn
    <3>1. conn'[d] = IF d \in S THEN [conn[d] EXCEPT !.state = "destroyed",
                                                   !.fd = 0,
                                                   !.registered = FALSE]
                                ELSE conn[d]
      BY <2>2 DEF Destroy
    <3> QED
      BY <3>1 DEF ConnSet
  <2> QED
    BY <2>1, <2>2
<1>2. OwnFd'
  BY <1>1 DEF OwnFd
<1>3. Live \ S \subseteq Live' /\ Live' \subseteq Live
  BY <1>1 DEF Live
<1>4. \A d \in Conns : Ended(d) <=> Ended(d)'
  BY <1>1 DEF Ended
<1>5. MapExact'
  <2>1. ASSUME NEW f \in Fds, list'[f] # NoConn
        PROVE  list'[f] \in Live' /\ conn'[list'[f]].fd = f
    <3>1. list[f] \in Listed
      BY <2>1 DEF Listed, Range
    <3>2. list[f] \in Live \ S /\ conn[list[f]].fd = f
      BY <2>1, <3>1 DEF MapExact
    <3>3. list[f] \in Conns
      BY <3>2 DEF Live
    <3> QED
      BY <1>1, <1>3, <3>2, <3>3
  <2>2. ASSUME NEW c \in Live'
        PROVE  \/ Ended(c)'
               \/ main'.cur = c /\ main'.pc = "insert"
               \/ list'[conn'[c].fd] = c
    <3>1. c \in Live /\ c \in Conns /\ conn'[c].state = "made"
      BY <1>3 DEF Live
    <3>2. conn'[c] = conn[c]
      BY <1>1, <3>1
    <3> QED
      BY <1>4, <3>1, <3>2 DEF MapExact
  <2> QED
    BY <2>1, <2>2 DEF MapExact
<1> QED
  BY <1>1, <1>2, <1>3, <1>4, <1>5

LEMMA InitMap == Init => MapInv
<1> SUFFICES ASSUME Init PROVE MapInv
  OBVIOUS
<1>1. MainKnows
  BY DEF Init, Idle, MainKnows
<1>2. OwnFd
  BY DEF Init, OwnFd
<1>3. Live = {}
  BY DEF Init, Live
<1>4. MapExact
  BY <1>3 DEF Init, MapExact
<1>5. Loops \subseteq AllLoops
  BY LoopsIn DEF Init
<1>6. ASSUME NEW l \in Loops
      PROVE  /\ Range(loops[l].tasks) = {} /\ Range(loops[l].batch) = {}
             /\ loops[l].held = {} /\ loops[l].removing = NoConn
  <2>1. loops[l] = [phase |-> "dispatch", tasks |-> <<>>, batch |-> <<>>,
                    held |-> {}, removing |-> NoConn, seen |-> 0, walk |-> 0]
    BY <1>5 DEF Init
  <2>2. Range(<<>>) = {}
    BY DEF Range
  <2> QED
    BY <2>1, <2>2
<1>7. TasksLive(loops)
  BY <1>6 DEF TasksLive
<1> QED
  BY <1>1, <1>2, <1>4, <1>7 DEF MapInv

\* Destroying connections that neither a task nor a batch refers to.
LEMMA DropLive ==
  ASSUME NEW ls, TasksLive(ls), NEW S, Loops' = Loops,
         Live \ S \subseteq Live', \A d \in Conns : Ended(d) => Ended(d)',
         \A k \in Loops :
           /\ loops'[k].tasks = ls[k].tasks
           /\ loops'[k].batch = ls[k].batch
           /\ loops'[k].held = ls[k].held
           /\ loops'[k].removing = ls[k].removing
           /\ ls[k].held \cap S = {}
           /\ \A t \in Range(ls[k].tasks) : t.kind # "add" => t.conn \notin S
  PROVE  TasksLive(loops)'
<1>1. Live \subseteq Conns
  BY DEF Live
<1>2. ASSUME NEW k \in Loops
      PROVE  /\ \A t \in Range(loops'[k].tasks) \union Range(loops'[k].batch) : TaskLive(t)'
             /\ \A t \in Range(loops'[k].batch) : t.kind # "add" => t.conn \in loops'[k].held
             /\ loops'[k].held \subseteq Live'
             /\ loops'[k].removing # NoConn =>
                  (loops[k].removing \in loops[k].held /\ Ended(loops[k].removing))'
  <2>1. /\ \A t \in Range(ls[k].tasks) \union Range(ls[k].batch) : TaskLive(t)
        /\ \A t \in Range(ls[k].batch) : t.kind # "add" => t.conn \in ls[k].held
        /\ ls[k].held \subseteq Live
        /\ ls[k].removing # NoConn =>
             ls[k].removing \in ls[k].held /\ Ended(ls[k].removing)
    BY DEF TasksLive
  <2>2. ASSUME NEW t \in Range(ls[k].tasks) \union Range(ls[k].batch)
        PROVE  TaskLive(t)'
    <3>1. t.kind # "add" => t.conn \in Live \ S
      BY <2>1, <2>2 DEF TaskLive
    <3>2. TaskLive(t)
      BY <2>1, <2>2
    <3> QED
      BY <1>1, <3>1, <3>2 DEF TaskLive
  <2>3. ASSUME loops'[k].removing # NoConn
        PROVE  (loops[k].removing \in loops[k].held /\ Ended(loops[k].removing))'
    <3>1. ls[k].removing \in Conns /\ Ended(ls[k].removing)
      BY <1>1, <2>1, <2>3
    <3>2. Ended(ls[k].removing)'
      BY <3>1
    <3> QED
      BY <2>1, <2>3, <3>2
  <2>4. ls[k].held \subseteq Live'
    BY <2>1
  <2> QED
    BY <2>1, <2>2, <2>3, <2>4
<1> QED
  BY <1>2 DEF TasksLive

\* Steps of the main thread keep the map exact.
LEMMA MainMap ==
  ASSUME Typed, CurIn, MapInv, UNCHANGED threadNum,
         (\E c \in Conns : Accept(c)) \/ MainStep
  PROVE  MapInv'
<1>a. /\ threadNum \in ThreadNums /\ conn \in [Conns -> ConnSet]
      /\ main \in MainSet /\ list \in [Fds -> Conns \union {NoConn}]
      /\ loops \in [AllLoops -> LoopSet]
  BY DEF Typed
<1>b. MainKnows /\ OwnFd /\ TasksLive(loops) /\ MapExact
  BY DEF MapInv
<1>c. Loops' = Loops /\ Loops \subseteq AllLoops
  BY <1>a, LoopsIn DEF Loops
<1>d. NoConn \notin Conns /\ 0 \notin Fds
  BY Consts
<1>1. ASSUME NEW c \in Conns, Accept(c)
      PROVE  MapInv'
  <2>1. PICK f \in FreeFds : conn' = [conn EXCEPT ![c].state = "accepted", ![c].fd = f]
    BY <1>1 DEF Accept
  <2>2. f \in Fds /\ f # 0 /\ \A d \in Conns : conn[d].fd # f
    BY <1>d DEF FreeFds
  <2>3. /\ conn[c].state = "none" /\ main.pc = "idle"
        /\ main' = [pc |-> "count", cur |-> c, seen |-> connCount]
        /\ list' = list /\ loops' = loops
    BY <1>1 DEF Accept, MainFree
  <2>4. /\ conn'[c].state = "accepted" /\ conn'[c].fd = f
        /\ conn'[c].disc = conn[c].disc /\ conn'[c].erred = conn[c].erred
        /\ conn'[c].registered = conn[c].registered
        /\ \A d \in Conns \ {c} : conn'[d] = conn[d]
    BY <1>a, <2>1 DEF ConnSet
  <2>5. Live' = Live /\ c \notin Live /\ \A d \in Conns : Ended(d) => Ended(d)'
    BY <2>3, <2>4 DEF Live, Ended
  <2>6. MainKnows'
    BY <2>3, <2>4 DEF MainKnows
  <2>7. OwnFd'
    BY <1>b, <2>2, <2>3, <2>4 DEF OwnFd
  <2>8. TasksLive(loops)'
    BY <1>b, <2>3, <2>5, AddLive
  <2>9. MapExact'
    <3>1. ASSUME NEW g \in Fds, list'[g] # NoConn
          PROVE  list'[g] \in Live' /\ conn'[list'[g]].fd = g
      <4>1. list[g] \in Live /\ conn[list[g]].fd = g
        BY <1>b, <2>3, <3>1 DEF MapExact
      <4>2. list[g] \in Conns \ {c}
        BY <2>5, <4>1 DEF Live
      <4> QED
        BY <2>3, <2>4, <2>5, <4>1, <4>2
    <3>2. ASSUME NEW d \in Live'
          PROVE  \/ Ended(d)'
                 \/ main'.cur = d /\ main'.pc = "insert"
                 \/ list'[conn'[d].fd] = d
      <4>1. d \in Live /\ d \in Conns \ {c}
        BY <2>5, <3>2 DEF Live
      <4>2. Ended(d) \/ list[conn[d].fd] = d
        BY <1>b, <2>3, <4>1 DEF MapExact
      <4> QED
        BY <2>3, <2>4, <2>5, <4>1, <4>2
    <3> QED
      BY <3>1, <3>2 DEF MapExact
  <2> QED
    BY <2>6, <2>7, <2>8, <2>9 DEF MapInv
<1>2. CASE Reject
  <2> DEFINE c == main.cur
  <2>1. c \in Conns /\ conn[c].state = "accepted" /\ main.pc = "count"
    BY <1>2, <1>b DEF Reject, CurIn, MainKnows
  <2>2. /\ conn' = [conn EXCEPT ![c].state = "rejected", ![c].fd = 0]
        /\ main' = Idle /\ list' = list /\ loops' = loops
    BY <1>2 DEF Reject
  <2> HIDE DEF c
  <2>4. /\ conn'[c].state = "rejected" /\ conn'[c].fd = 0
        /\ conn'[c].disc = conn[c].disc /\ conn'[c].erred = conn[c].erred
        /\ conn'[c].registered = conn[c].registered
        /\ \A d \in Conns \ {c} : conn'[d] = conn[d]
    BY <1>a, <2>1, <2>2 DEF ConnSet
  <2>5. Live' = Live /\ c \notin Live /\ \A d \in Conns : Ended(d) => Ended(d)'
    BY <2>1, <2>4 DEF Live, Ended
  <2>6. MainKnows'
    BY <2>2 DEF MainKnows, Idle
  <2>7. OwnFd'
    BY <1>b, <2>1, <2>4 DEF OwnFd
  <2>8. TasksLive(loops)'
    BY <1>b, <2>2, <2>5, AddLive
  <2>9. MapExact'
    <3>1. ASSUME NEW g \in Fds, list'[g] # NoConn
          PROVE  list'[g] \in Live' /\ conn'[list'[g]].fd = g
      <4>1. list[g] \in Live /\ conn[list[g]].fd = g
        BY <1>b, <2>2, <3>1 DEF MapExact
      <4>2. list[g] \in Conns \ {c}
        BY <2>5, <4>1 DEF Live
      <4> QED
        BY <2>2, <2>4, <2>5, <4>1, <4>2
    <3>2. ASSUME NEW d \in Live'
          PROVE  \/ Ended(d)'
                 \/ main'.cur = d /\ main'.pc = "insert"
                 \/ list'[conn'[d].fd] = d
      <4>1. d \in Live /\ d \in Conns \ {c}
        BY <2>5, <3>2 DEF Live
      <4>2. Ended(d) \/ list[conn[d].fd] = d
        BY <1>b, <2>1, <4>1 DEF MapExact
      <4> QED
        BY <2>2, <2>4, <2>5, <4>1, <4>2
    <3> QED
      BY <3>1, <3>2 DEF MapExact
  <2> QED
    BY <2>6, <2>7, <2>8, <2>9 DEF MapInv
<1>3. CASE MakeConnection
  <2> DEFINE c == main.cur
  <2>1. c \in Conns /\ conn[c].state = "accepted" /\ main.pc = "count"
    BY <1>3, <1>b DEF MakeConnection, CurIn, MainKnows
  <2>2. /\ conn' = [conn EXCEPT ![c].state = "made", ![c].loop = NextLoop]
        /\ list' = list /\ loops' = loops
    BY <1>3 DEF MakeConnection
  <2>3. main'.pc = "insert" /\ main'.cur = c
    BY <1>3, <1>a DEF MakeConnection, MainSet
  <2> HIDE DEF c
  <2>4. /\ conn'[c].state = "made" /\ conn'[c].fd = conn[c].fd
        /\ conn'[c].disc = conn[c].disc /\ conn'[c].erred = conn[c].erred
        /\ conn'[c].registered = conn[c].registered
        /\ \A d \in Conns \ {c} : conn'[d] = conn[d]
    BY <1>a, <2>1, <2>2 DEF ConnSet
  <2>5. /\ Live' = Live \union {c} /\ c \notin Live
        /\ \A d \in Conns : Ended(d) => Ended(d)'
    BY <2>1, <2>4 DEF Live, Ended
  <2>6. MainKnows'
    BY <2>3, <2>4 DEF MainKnows
  <2>7. OwnFd'
    BY <1>b, <2>1, <2>4 DEF OwnFd
  <2>8. TasksLive(loops)'
    BY <1>b, <2>2, <2>5, AddLive
  <2>9. MapExact'
    <3>1. ASSUME NEW g \in Fds, list'[g] # NoConn
          PROVE  list'[g] \in Live' /\ conn'[list'[g]].fd = g
      <4>1. list[g] \in Live /\ conn[list[g]].fd = g
        BY <1>b, <2>2, <3>1 DEF MapExact
      <4>2. list[g] \in Conns \ {c}
        BY <2>5, <4>1 DEF Live
      <4> QED
        BY <2>2, <2>4, <2>5, <4>1, <4>2
    <3>2. ASSUME NEW d \in Live'
          PROVE  \/ Ended(d)'
                 \/ main'.cur = d /\ main'.pc = "insert"
                 \/ list'[conn'[d].fd] = d
      <4>1. CASE d = c
        BY <2>3, <4>1
      <4>2. CASE d # c
        <5>1. d \in Live /\ d \in Conns \ {c}
          BY <2>5, <3>2, <4>2 DEF Live
        <5>2. Ended(d) \/ list[conn[d].fd] = d
          BY <1>b, <2>1, <5>1 DEF MapExact
        <5> QED
          BY <2>2, <2>4, <2>5, <5>1, <5>2
      <4> QED
        BY <4>1, <4>2
    <3> QED
      BY <3>1, <3>2 DEF MapExact
  <2> QED
    BY <2>6, <2>7, <2>8, <2>9 DEF MapInv
<1>4. CASE Insert
  <2> DEFINE c == main.cur
  <2>1. c \in Conns /\ conn[c].state = "made" /\ main.pc = "insert"
    BY <1>4, <1>b DEF Insert, CurIn, MainKnows
  <2>2. /\ list' = [list EXCEPT ![conn[c].fd] = c]
        /\ conn' = conn /\ loops' = loops
    BY <1>4 DEF Insert
  <2>3. main'.pc = "add" /\ main'.cur = c
    BY <1>4, <1>a DEF Insert, MainSet
  <2> HIDE DEF c
  <2>4. conn[c].fd \in Fds
    BY <1>a, <1>b, <2>1 DEF OwnFd, ConnSet
  <2>5. Live' = Live /\ \A d \in Conns : Ended(d) <=> Ended(d)'
    BY <2>2 DEF Live, Ended
  <2>6. MainKnows'
    BY <2>1, <2>2, <2>3 DEF MainKnows
  <2>7. OwnFd'
    BY <1>b, <2>2 DEF OwnFd
  <2>8. TasksLive(loops)'
    BY <1>b, <2>2, <2>5, AddLive
  <2>9. MapExact'
    <3>1. ASSUME NEW g \in Fds, list'[g] # NoConn
          PROVE  list'[g] \in Live' /\ conn'[list'[g]].fd = g
      <4>1. CASE g = conn[c].fd
        BY <1>a, <2>1, <2>2, <2>4, <4>1 DEF Live
      <4>2. CASE g # conn[c].fd
        BY <1>a, <1>b, <2>2, <2>4, <2>5, <3>1, <4>2 DEF MapExact
      <4> QED
        BY <4>1, <4>2
    <3>2. ASSUME NEW d \in Live'
          PROVE  \/ Ended(d)'
                 \/ main'.cur = d /\ main'.pc = "insert"
                 \/ list'[conn'[d].fd] = d
      <4>1. CASE d = c
        BY <1>a, <2>2, <2>4, <4>1
      <4>2. CASE d # c
        <5>1. d \in Live /\ d \in Conns /\ conn[d].state = "made"
          BY <2>5, <3>2 DEF Live
        <5>2. Ended(d) \/ list[conn[d].fd] = d
          BY <1>b, <4>2, <5>1 DEF MapExact, c
        <5>3. conn[d].fd # conn[c].fd /\ conn[d].fd \in Fds
          BY <1>a, <1>b, <2>1, <4>2, <5>1 DEF OwnFd, ConnSet
        <5> QED
          BY <1>a, <2>2, <2>4, <2>5, <5>1, <5>2, <5>3
      <4> QED
        BY <4>1, <4>2
    <3> QED
      BY <3>1, <3>2 DEF MapExact
  <2> QED
    BY <2>6, <2>7, <2>8, <2>9 DEF MapInv
<1>5. CASE AddChannelToLoop
  <2>0. PICK c \in Conns : c = main.cur
    BY <1>5 DEF AddChannelToLoop, CurIn
  <2>1. c \in Conns /\ conn[c].state = "made" /\ main.pc = "add"
    BY <1>5, <1>b, <2>0 DEF AddChannelToLoop, MainKnows
  <2>2. loops' = Push(loops, "add", c) /\ conn' = conn /\ list' = list
    BY <1>5, <2>0 DEF AddChannelToLoop, Push
  <2>3. main'.pc = "release" /\ main'.cur = c
    BY <1>5, <1>a, <2>0 DEF AddChannelToLoop, MainSet
  <2>4. SameIds /\ Live' = Live /\ \A d \in Conns : Ended(d) => Ended(d)'
    BY <2>2 DEF SameIds, Live, Ended
  <2>5. MainKnows'
    BY <2>1, <2>2, <2>3 DEF MainKnows
  <2>6. OwnFd'
    BY <1>b, <2>2 DEF OwnFd
  <2>7. MapExact'
    BY <1>b, <2>1, <2>2, <2>4, QuietMap
  <2>8. TasksLive(loops)'
    <3>1. "add" \in Kinds
      BY DEF Kinds
    <3>2. TaskLive(Task("add", c))'
      BY DEF TaskLive, Task
    <3>3. Live \subseteq Live'
      BY <2>4
    <3> QED
      BY <1>a, <1>b, <3>3, <2>1, <2>2, <2>4, <3>1, <3>2, PushLive
  <2> QED
    BY <2>5, <2>6, <2>7, <2>8 DEF MapInv
<1>6. CASE ReleaseLocal
  <2> DEFINE S == {main.cur} \ Referenced(Loops, {})
  <2>1. /\ Destroy(S) /\ main.pc = "release" /\ main' = Idle
        /\ list' = list /\ loops' = loops
    BY <1>6 DEF ReleaseLocal
  <2>2. /\ S \cap Listed = {}
        /\ \A k \in Loops : \A t \in Range(loops[k].tasks) : t.kind # "add" => t.conn \notin S
        /\ \A k \in Loops : loops[k].held \cap S = {}
    BY ReferencedSo
  <2> HIDE DEF S
  <2>3. /\ OwnFd' /\ MapExact'
        /\ \A d \in Conns : Ended(d) => Ended(d)'
        /\ Live \ S \subseteq Live'
    BY <1>a, <1>b, <2>1, <2>2, DestroySo
  <2>4. MainKnows'
    BY <2>1 DEF MainKnows, Idle
  <2>5. TasksLive(loops)'
    BY <1>b, <1>c, <2>1, <2>2, <2>3, DropLive
  <2> QED
    BY <2>3, <2>4, <2>5 DEF MapInv
<1> QED
  BY <1>1, <1>2, <1>3, <1>4, <1>5, <1>6 DEF MainStep

\* Steps of the loops keep the map exact.
LEMMA LoopMap ==
  ASSUME Typed, CurIn, MapInv, UNCHANGED threadNum, NEW l \in Loops,
         \/ LoopStep(l) \/ WalkStart(l)
         \/ \E c \in Conns : HandleClose(l, c) \/ HandleError(l, c)
  PROVE  MapInv'
<1>a. /\ threadNum \in ThreadNums /\ conn \in [Conns -> ConnSet]
      /\ main \in MainSet /\ list \in [Fds -> Conns \union {NoConn}]
      /\ loops \in [AllLoops -> LoopSet]
  BY DEF Typed
<1>b. MainKnows /\ OwnFd /\ TasksLive(loops) /\ MapExact
  BY DEF MapInv
<1>c. Loops' = Loops /\ Loops \subseteq AllLoops
  BY <1>a, LoopsIn DEF Loops
<1>d. NoConn \notin Conns /\ 0 \notin Fds
  BY Consts
<1>e. l \in AllLoops /\ loops[l] \in LoopSet
  BY <1>a, <1>c
<1>f. "cleanup" \in Kinds /\ "send" \in Kinds
  BY DEF Kinds
\* A step that changes nothing of the connections but ends one.
<1>0. ASSUME SameIds, list' = list, main' = main, TasksLive(loops)'
      PROVE  MapInv'
  BY <1>0, <1>b, QuietConns, QuietMap DEF MapInv
<1>1. CASE WalkStart(l) \/ WalkStep(l)
  <2>1. UNCHANGED <<main, connCount, index>>
    BY <1>1, WalkStepSo
  <2>2. CASE \E f \in Fds : list[f] # NoConn /\ WalkEffect(l, f)
    <3>1. PICK f \in Fds : list[f] # NoConn /\ WalkEffect(l, f)
      BY <2>2
    <3>2. PICK c \in Live : c = list[f]
      BY <1>b, <3>1 DEF MapExact
    <3>3. WalkTo(l, f) \in [AllLoops -> LoopSet]
      BY <1>a, <1>e DEF WalkTo, LoopSet
    <3>4. \A k \in Loops : /\ WalkTo(l, f)[k].tasks = loops[k].tasks
                           /\ WalkTo(l, f)[k].batch = loops[k].batch
                           /\ WalkTo(l, f)[k].held = loops[k].held
                           /\ WalkTo(l, f)[k].removing = loops[k].removing
      BY <1>a, <1>c DEF WalkTo, LoopSet
    <3>5. TasksLive(WalkTo(l, f))
      BY <1>b, <3>4 DEF TasksLive
    <3>6. CASE SendEffect(c, WalkTo(l, f))
      <4>1. SameIds /\ TasksLive(loops)'
        BY <1>a, <3>3, <3>5, <3>6, SendLive
      <4> QED
        BY <1>0, <2>1, <3>6, <4>1 DEF SendEffect
    <3>7. CASE /\ list' = list /\ conn' = conn
               /\ loops' = Push(WalkTo(l, f), "send", c)
      <4>1. SameIds
        BY <3>7 DEF SameIds, Ended
      <4>2. Live \subseteq Live' /\ \A d \in Conns : Ended(d) => Ended(d)'
        BY <4>1, SameLive
      <4>3. TaskLive(Task("send", c))' /\ c \in Conns
        BY <4>2 DEF TaskLive, Task, Live
      <4>4. TasksLive(loops)'
        BY <1>a, <1>f, <3>3, <3>5, <3>7, <4>2, <4>3, PushLive
      <4> QED
        BY <1>0, <2>1, <3>7, <4>1, <4>4
    <3> QED
      BY <3>1, <3>2, <3>6, <3>7 DEF WalkEffect
  <2>3. CASE /\ UNCHANGED <<conn, list>>
             /\ loops' = loops \/ loops' = [loops EXCEPT ![l].walk = 0]
    <3>1. SameIds
      BY <2>3 DEF SameIds, Ended
    <3>2. Live \subseteq Live' /\ \A d \in Conns : Ended(d) => Ended(d)'
      BY <3>1, SameLive
    <3>3. \A k \in Loops : /\ loops'[k].tasks = loops[k].tasks
                           /\ loops'[k].batch = loops[k].batch
                           /\ loops'[k].held = loops[k].held
                           /\ loops'[k].removing = loops[k].removing
      <4>1. CASE loops' = loops
        BY <4>1
      <4>2. CASE loops' = [loops EXCEPT ![l].walk = 0]
        BY <1>a, <1>c, <1>e, <4>2 DEF LoopSet
      <4> QED
        BY <2>3, <4>1, <4>2
    <3>4. TasksLive(loops)'
      BY <1>b, <3>2, <3>3, AddLive
    <3> QED
      BY <1>0, <2>1, <2>3, <3>1, <3>4
  <2> QED
    BY <1>1, <2>2, <2>3, WalkStepSo
<1>2. CASE Swap(l)
  <2>1. /\ conn' = conn /\ list' = list /\ main' = main
        /\ loops[l].removing = NoConn
        /\ loops' = [loops EXCEPT ![l].phase = "run", ![l].batch = loops[l].tasks,
                                  ![l].tasks = <<>>,
                                  ![l].held = HeldBy(loops[l].tasks)]
    BY <1>2 DEF Swap, Free
  <2>2. /\ loops'[l].tasks = <<>> /\ loops'[l].batch = loops[l].tasks
        /\ loops'[l].held = HeldBy(loops[l].tasks)
        /\ loops'[l].removing = NoConn
        /\ \A k \in Loops \ {l} : loops'[k] = loops[k]
    BY <1>a, <1>c, <1>e, <2>1 DEF LoopSet
  <2>3. SameIds
    BY <2>1 DEF SameIds, Ended
  <2>4. /\ Live' = Live /\ \A t : TaskLive(t) <=> TaskLive(t)'
        /\ \A d : Ended(d) <=> Ended(d)'
    BY <2>1 DEF Live, TaskLive, Ended
  <2>5. Range(<<>>) = {}
    BY DEF Range
  <2>6. /\ \A t \in Range(loops[l].tasks) : TaskLive(t)
        /\ \A t \in Range(loops[l].tasks) :
             t.kind # "add" => t.conn \in HeldBy(loops[l].tasks)
    BY <1>b DEF TasksLive, HeldBy
  <2>7. HeldBy(loops[l].tasks) \subseteq Live
    BY <2>6 DEF HeldBy, TaskLive
  <2>8. TasksLive(loops)'
    <3>1. ASSUME NEW k \in Loops
          PROVE  /\ \A t \in Range(loops'[k].tasks) \union Range(loops'[k].batch) : TaskLive(t)'
                 /\ \A t \in Range(loops'[k].batch) :
                      t.kind # "add" => t.conn \in loops'[k].held
                 /\ loops'[k].held \subseteq Live'
                 /\ loops'[k].removing # NoConn =>
                      (loops[k].removing \in loops[k].held /\ Ended(loops[k].removing))'
      <4>1. CASE k = l
        BY <2>2, <2>4, <2>5, <2>6, <2>7, <4>1
      <4>2. CASE k # l
        <5>1. loops'[k] = loops[k]
          BY <2>2, <4>2
        <5>2. Ended(loops[k].removing)' <=> Ended(loops[k].removing)
          BY <2>1, <5>1 DEF Ended
        <5> QED
          BY <1>b, <2>4, <5>1, <5>2 DEF TasksLive
      <4> QED
        BY <4>1, <4>2
    <3> QED
      BY <1>c, <3>1 DEF TasksLive
  <2> QED
    BY <1>0, <2>1, <2>3, <2>8
<1>3. CASE RunAdd(l)
  <2>1. /\ list' = list /\ main' = main /\ loops' = PopTask(l)
        /\ loops[l].batch # <<>>
    BY <1>3 DEF RunAdd, NextTask
  <2>2. SameIds
    <3>1. PICK c \in Conns :
            \/ conn' = conn
            \/ conn[c].state = "made" /\ conn' = [conn EXCEPT ![c].registered = TRUE]
      BY <1>3, <1>a, <1>e, <2>1, PopTypes DEF RunAdd
    <3>2. \A d \in Conns : /\ conn'[d].state = conn[d].state
                           /\ conn'[d].fd = conn[d].fd
                           /\ conn'[d].loop = conn[d].loop
                           /\ conn'[d].disc = conn[d].disc
                           /\ conn'[d].erred = conn[d].erred
                           /\ conn'[d].registered =>
                                conn[d].registered \/ conn[d].state = "made"
      BY <1>a, <3>1 DEF ConnSet
    <3> QED
      BY <3>2 DEF SameIds, Ended
  <2>3. Live \subseteq Live' /\ \A d \in Conns : Ended(d) => Ended(d)'
    BY <2>2, SameLive
  <2>4. TasksLive(PopTask(l))
    BY <1>a, <1>b, <2>1, PopLive
  <2>5. TasksLive(loops)'
    BY <2>1, <2>3, <2>4, AddLive
  <2> QED
    BY <1>0, <2>1, <2>2, <2>5
<1>4. CASE RunSend(l)
  <2> DEFINE t == Head(loops[l].batch)
  <2>1. loops[l].batch # <<>> /\ t.kind = "send"
    BY <1>4 DEF RunSend, NextTask
  <2>2. TasksLive(PopTask(l)) /\ TaskLive(t)
    BY <1>a, <1>b, <2>1, PopLive
  <2>3. PICK c \in Live : c = t.conn
    BY <2>1, <2>2 DEF TaskLive
  <2>4. SendEffect(c, PopTask(l)) /\ main' = main
    BY <1>4, <2>3, SendsSo DEF RunSend
  <2>5. PopTask(l) \in [AllLoops -> LoopSet]
    BY <1>a, <1>e, <2>1, PopTypes
  <2>6. SameIds /\ TasksLive(loops)'
    BY <1>a, <2>2, <2>4, <2>5, SendLive
  <2> QED
    BY <1>0, <2>4, <2>6 DEF SendEffect
<1>5. CASE RunCleanup(l)
  <2> DEFINE t == Head(loops[l].batch)
  <2>1. loops[l].batch # <<>> /\ t.kind = "cleanup"
    BY <1>5 DEF RunCleanup, NextTask
  <2>2. TasksLive(PopTask(l)) /\ TaskLive(t) /\ t.conn \in loops[l].held
    BY <1>a, <1>b, <2>1, PopLive
  <2>3. PICK c \in Conns : c = t.conn
    BY <1>a, <1>e, <2>1, PopTypes
  <2>4. /\ loops' = [PopTask(l) EXCEPT ![l].removing = c, ![l].seen = connCount]
        /\ conn' = conn /\ list' = list /\ main' = main
    BY <1>5, <2>3 DEF RunCleanup
  <2>5. PopTask(l) \in [AllLoops -> LoopSet]
    BY <1>a, <1>e, <2>1, PopTypes
  <2>6. /\ loops'[l].tasks = PopTask(l)[l].tasks
        /\ loops'[l].batch = PopTask(l)[l].batch
        /\ loops'[l].held = PopTask(l)[l].held
        /\ loops'[l].removing = c
        /\ \A k \in Loops \ {l} : loops'[k] = PopTask(l)[k]
    BY <1>c, <1>e, <2>4, <2>5 DEF LoopSet
  <2>7. PopTask(l)[l].held = loops[l].held
    BY <1>a, <1>e DEF PopTask, LoopSet
  <2>8. Ended(c) /\ c \in loops[l].held
    BY <2>1, <2>2, <2>3 DEF TaskLive
  <2>9. SameIds
    BY <2>4 DEF SameIds, Ended
  <2>10. /\ Live' = Live /\ \A u : TaskLive(u) <=> TaskLive(u)'
         /\ \A d : Ended(d) <=> Ended(d)'
    BY <2>4 DEF Live, TaskLive, Ended
  <2> HIDE DEF t
  <2>11. TasksLive(loops)'
    <3>1. ASSUME NEW k \in Loops
          PROVE  /\ \A u \in Range(loops'[k].tasks) \union Range(loops'[k].batch) : TaskLive(u)'
                 /\ \A u \in Range(loops'[k].batch) :
                      u.kind # "add" => u.conn \in loops'[k].held
                 /\ loops'[k].held \subseteq Live'
                 /\ loops'[k].removing # NoConn =>
                      (loops[k].removing \in loops[k].held /\ Ended(loops[k].removing))'
      <4>1. /\ \A u \in Range(PopTask(l)[k].tasks) \union Range(PopTask(l)[k].batch) : TaskLive(u)
            /\ \A u \in Range(PopTask(l)[k].batch) :
                 u.kind # "add" => u.conn \in PopTask(l)[k].held
            /\ PopTask(l)[k].held \subseteq Live
            /\ PopTask(l)[k].removing # NoConn =>
                 PopTask(l)[k].removing \in PopTask(l)[k].held
                   /\ Ended(PopTask(l)[k].removing)
        BY <2>2 DEF TasksLive
      <4>2. CASE k = l
        <5>1. Ended(loops[k].removing)'
          BY <2>4, <2>6, <2>8, <4>2 DEF Ended
        <5> QED
          BY <2>6, <2>7, <2>8, <2>10, <4>1, <4>2, <5>1
      <4>3. CASE k # l
        <5>1. loops'[k] = PopTask(l)[k]
          BY <2>6, <4>3
        <5>2. Ended(loops[k].removing)' <=> Ended(PopTask(l)[k].removing)
          BY <2>4, <5>1 DEF Ended
        <5> QED
          BY <2>10, <4>1, <5>1, <5>2
      <4> QED
        BY <4>2, <4>3
    <3> QED
      BY <1>c, <3>1 DEF TasksLive
  <2> QED
    BY <1>0, <2>4, <2>9, <2>11
<1>6. CASE RemoveConnection(l)
  <2>1. PICK c : c = loops[l].removing
    OBVIOUS
  <2>2. c # NoConn /\ c \in Live /\ c \in Conns /\ Ended(c)
    BY <1>6, <1>b, <2>1 DEF RemoveConnection, TasksLive, Live
  <2>3. /\ list' = [list EXCEPT ![conn[c].fd] = NoConn]
        /\ conn' = conn /\ main' = main
        /\ loops' = [loops EXCEPT ![l].removing = NoConn, ![l].seen = 0]
    BY <1>6, <2>1 DEF RemoveConnection, Remove
  <2>4. Live' = Live /\ \A d : Ended(d) <=> Ended(d)'
    BY <2>3 DEF Live, Ended
  <2>5. conn[c].fd \in Fds
    BY <1>a, <1>b, <2>2 DEF OwnFd, ConnSet, Live
  <2>6. MainKnows' /\ OwnFd'
    BY <1>b, <2>3 DEF MainKnows, OwnFd
  <2>7. MapExact'
    <3>1. ASSUME NEW g \in Fds, list'[g] # NoConn
          PROVE  list'[g] \in Live' /\ conn'[list'[g]].fd = g
      <4>1. g # conn[c].fd /\ list'[g] = list[g]
        BY <1>a, <2>3, <2>5, <3>1
      <4> QED
        BY <1>b, <2>3, <2>4, <3>1, <4>1 DEF MapExact
    <3>2. ASSUME NEW d \in Live'
          PROVE  \/ Ended(d)'
                 \/ main'.cur = d /\ main'.pc = "insert"
                 \/ list'[conn'[d].fd] = d
      <4>1. CASE d = c
        BY <2>2, <2>4, <4>1
      <4>2. CASE d # c
        <5>1. d \in Live /\ d \in Conns /\ conn[d].state = "made"
          BY <2>4, <3>2 DEF Live
        <5>2. conn[d].fd # conn[c].fd /\ conn[d].fd \in Fds
          BY <1>a, <1>b, <2>2, <4>2, <5>1 DEF OwnFd, ConnSet
        <5> QED
          BY <1>a, <1>b, <2>3, <2>4, <2>5, <5>1, <5>2 DEF MapExact
      <4> QED
        BY <4>1, <4>2
    <3> QED
      BY <3>1, <3>2 DEF MapExact
  <2>8. TasksLive(loops)'
    <3>1. /\ loops'[l].tasks = loops[l].tasks /\ loops'[l].batch = loops[l].batch
          /\ loops'[l].held = loops[l].held /\ loops'[l].removing = NoConn
          /\ \A k \in Loops \ {l} : loops'[k] = loops[k]
      BY <1>a, <1>c, <1>e, <2>3 DEF LoopSet
    <3>2. \A u : TaskLive(u) <=> TaskLive(u)'
      BY <2>3 DEF Live, TaskLive, Ended
    <3>3. ASSUME NEW k \in Loops
          PROVE  /\ \A u \in Range(loops'[k].tasks) \union Range(loops'[k].batch) : TaskLive(u)'
                 /\ \A u \in Range(loops'[k].batch) :
                      u.kind # "add" => u.conn \in loops'[k].held
                 /\ loops'[k].held \subseteq Live'
                 /\ loops'[k].removing # NoConn =>
                      (loops[k].removing \in loops[k].held /\ Ended(loops[k].removing))'
      <4>1. CASE k = l
        BY <1>b, <2>4, <3>1, <3>2, <4>1 DEF TasksLive
      <4>2. CASE k # l
        <5>1. loops'[k] = loops[k]
          BY <3>1, <4>2
        <5>2. Ended(loops[k].removing)' <=> Ended(loops[k].removing)
          BY <2>3, <5>1 DEF Ended
        <5> QED
          BY <1>b, <2>4, <3>2, <5>1, <5>2 DEF TasksLive
      <4> QED
        BY <4>1, <4>2
    <3> QED
      BY <1>c, <3>3 DEF TasksLive
  <2> QED
    BY <2>6, <2>7, <2>8 DEF MapInv
<1>7. CASE EndBatch(l)
  <2> DEFINE S == loops[l].held \ Referenced(Loops \ {l}, {main.cur})
             ls == [loops EXCEPT ![l].phase = "dispatch", ![l].held = {}]
  <2>1. /\ Destroy(S) /\ loops[l].batch = <<>> /\ loops[l].removing = NoConn
        /\ list' = list /\ main' = main /\ loops' = ls
    BY <1>7 DEF EndBatch, Free
  <2>2. Loops \ {l} \in SUBSET Loops
    OBVIOUS
  <2>3. /\ S \cap Listed = {} /\ main.cur \notin S
        /\ \A k \in Loops : \A t \in Range(loops[k].tasks) : t.kind # "add" => t.conn \notin S
        /\ \A k \in Loops \ {l} : loops[k].held \cap S = {}
    BY <2>2, ReferencedSo
  <2> HIDE DEF S
  <2>4. /\ OwnFd' /\ MapExact'
        /\ \A d \in Conns : /\ Ended(d) => Ended(d)'
                            /\ d \notin S => conn'[d] = conn[d]
        /\ Live \ S \subseteq Live'
    BY <1>a, <1>b, <2>1, <2>3, DestroySo
  <2>5. MainKnows'
    BY <1>b, <2>1, <2>3, <2>4 DEF MainKnows, CurIn
  <2>6. /\ ls[l].tasks = loops[l].tasks /\ ls[l].batch = loops[l].batch
        /\ ls[l].held = {} /\ ls[l].removing = NoConn
        /\ \A k \in Loops \ {l} : ls[k] = loops[k]
    BY <1>a, <1>c, <1>e, <2>1 DEF LoopSet
  <2> HIDE DEF ls
  <2>7. Range(<<>>) = {}
    BY DEF Range
  <2>8. TasksLive(ls)
    BY <1>b, <2>1, <2>6, <2>7 DEF TasksLive
  <2>9. TasksLive(loops)'
    BY <1>c, <2>1, <2>3, <2>4, <2>6, <2>8, DropLive
  <2> QED
    BY <2>4, <2>5, <2>9 DEF MapInv
<1>8. ASSUME NEW c \in Conns, HandleClose(l, c) \/ HandleError(l, c)
      PROVE  MapInv'
  <2>1. loops' = Push(loops, "cleanup", c) /\ list' = list /\ main' = main
    BY <1>8 DEF HandleClose, HandleError, CleanUp, Push
  <2>2. /\ \A d \in Conns : /\ conn'[d].state = conn[d].state
                            /\ conn'[d].fd = conn[d].fd
                            /\ conn'[d].loop = conn[d].loop
                            /\ conn'[d].registered = conn[d].registered
                            /\ Ended(d) => Ended(d)'
        /\ Ended(c)'
    BY <1>8, <1>a DEF HandleClose, HandleError, ConnSet, Ended
  <2>3. SameIds
    BY <2>2 DEF SameIds
  <2>4. Live \subseteq Live' /\ \A d \in Conns : Ended(d) => Ended(d)'
    BY <2>3, SameLive
  <2>5. c \in Live
    BY <1>8, <1>b DEF HandleClose, HandleError, OwnFd, Live
  <2>6. TaskLive(Task("cleanup", c))'
    BY <2>2, <2>4, <2>5 DEF TaskLive, Task
  <2>7. TasksLive(loops)'
    BY <1>a, <1>b, <1>f, <2>1, <2>4, <2>6, PushLive
  <2> QED
    BY <1>0, <2>1, <2>3, <2>7
<1> QED
  BY <1>1, <1>2, <1>3, <1>4, <1>5, <1>6, <1>7, <1>8 DEF LoopStep

LEMMA StepMap ==
  ASSUME Typed, CurIn, MapInv, [Next]_vars
  PROVE  MapInv'
<1>1. CASE UNCHANGED vars
  <2>1. MainKnows' /\ OwnFd' /\ MapExact'
    BY <1>1 DEF vars, MapInv, MainKnows, OwnFd, MapExact, Live, Ended
  <2>2. TasksLive(loops)'
    BY <1>1 DEF vars, MapInv, TasksLive, TaskLive, Live, Ended, Loops
  <2> QED
    BY <2>1, <2>2 DEF MapInv
<1>2. CASE Next /\ ((\E c \in Conns : Accept(c)) \/ MainStep)
  BY <1>2, MainMap DEF Next
<1>3. CASE Next /\ \E l \in Loops : \/ LoopStep(l) \/ WalkStart(l)
                                    \/ \E c \in Conns : HandleClose(l, c) \/ HandleError(l, c)
  <2>1. PICK l \in Loops : \/ LoopStep(l) \/ WalkStart(l)
                           \/ \E c \in Conns : HandleClose(l, c) \/ HandleError(l, c)
    BY <1>3
  <2> QED
    BY <1>3, <2>1, LoopMap DEF Next
<1> QED
  BY <1>1, <1>2, <1>3 DEF Next, Step, Rest

\* tcpConnList_ is keyed by descriptors that the kernel gives out again.  Every
\* entry is a living connection under the descriptor it owns, and every living
\* connection that has not ended has its entry (TcpServer.cpp:82-86, 95-99).
THEOREM MapIsExact == Spec => []MapExact
<1>1. Init => Typed /\ CurIn /\ MapInv
  BY InitTypes, InitMap
<1>2. Typed /\ CurIn /\ MapInv /\ [Next]_vars => Typed' /\ CurIn' /\ MapInv'
  BY StepTypes, StepMap
<1>3. MapInv => MapExact
  BY DEF MapInv
<1> QED
  BY <1>1, <1>2, <1>3, PTL DEF Spec

-----------------------------------------------------------------------------
(* Walks on a single loop                                                    *)

\* While a handler of the main loop walks, nothing else runs.
WalkInv ==
  threadNum = 0 =>
    (loops[MainLoop].walk # 0 =>
       /\ list[loops[MainLoop].walk] # NoConn
       /\ loops[MainLoop].removing = NoConn
       /\ main.pc = "idle")

LEMMA StepWalk ==
  ASSUME Typed, WalkInv, [Next]_vars
  PROVE  WalkInv'
<1> SUFFICES ASSUME threadNum' = 0, loops'[MainLoop].walk # 0
             PROVE  /\ list'[loops'[MainLoop].walk] # NoConn
                    /\ loops'[MainLoop].removing = NoConn
                    /\ main'.pc = "idle"
  BY DEF WalkInv
<1>a. /\ threadNum \in ThreadNums /\ main \in MainSet
      /\ list \in [Fds -> Conns \union {NoConn}]
      /\ loops \in [AllLoops -> LoopSet]
  BY DEF Typed
<1>b. threadNum = 0 /\ Loops = {MainLoop} /\ UNCHANGED threadNum
  BY DEF Next, vars, Loops
<1>c. MainLoop \in AllLoops /\ loops[MainLoop] \in LoopSet /\ Loops \subseteq AllLoops
  BY <1>a, LoopsIn, Consts
<1>d. loops[MainLoop].walk # 0 =>
         /\ list[loops[MainLoop].walk] # NoConn
         /\ loops[MainLoop].removing = NoConn
         /\ main.pc = "idle"
  BY <1>b DEF WalkInv
\* Steps that need the main loop to be free leave it without a walk.
<1>1. ASSUME NEW c \in Conns, Accept(c)
      PROVE  FALSE
  BY <1>1, <1>b DEF Accept, MainFree, Free
<1>2. CASE Reject \/ MakeConnection \/ Insert \/ ReleaseLocal
  <2>1. loops' = loops /\ main.pc # "idle"
    BY <1>2 DEF Reject, MakeConnection, Insert, ReleaseLocal
  <2> QED
    BY <1>d, <2>1
<1>3. CASE AddChannelToLoop
  <2>1. main.pc = "add" /\ loops[MainLoop].walk = 0
    BY <1>3, <1>d DEF AddChannelToLoop
  <2>2. loops'[MainLoop].walk = loops[MainLoop].walk
    BY <1>3, <1>a, <1>c DEF AddChannelToLoop, LoopSet
  <2> QED
    BY <2>1, <2>2
<1>4. CASE WalkStart(MainLoop) \/ WalkStep(MainLoop)
  <2>1. main' = main
    BY <1>4, WalkStepSo
  <2>2. main.pc = "idle" /\ loops[MainLoop].removing = NoConn
    <3>1. CASE WalkStart(MainLoop)
      BY <3>1 DEF WalkStart, Free
    <3>2. CASE WalkStep(MainLoop)
      <4>1. loops[MainLoop].walk # 0
        BY <3>2 DEF WalkStep
      <4> QED
        BY <1>d, <4>1
    <3> QED
      BY <1>4, <3>1, <3>2
  <2>3. list' = list
    BY <1>4, WalkStepSo DEF WalkEffect, SendEffect
  <2>4. CASE \E f \in Fds : list[f] # NoConn /\ WalkEffect(MainLoop, f)
    <3>1. PICK f \in Fds : list[f] # NoConn /\ WalkEffect(MainLoop, f)
      BY <2>4
    <3>2. PICK c \in Conns : c = list[f]
      BY <1>a, <3>1
    <3>3. WalkTo(MainLoop, f) \in [AllLoops -> LoopSet]
      BY <1>a, <1>c DEF WalkTo, LoopSet
    <3>4. /\ WalkTo(MainLoop, f)[MainLoop].walk = f
          /\ WalkTo(MainLoop, f)[MainLoop].removing = NoConn
      BY <1>a, <1>c, <2>2 DEF WalkTo, LoopSet
    <3>5. PICK kind \in Kinds : \/ loops' = WalkTo(MainLoop, f)
                                \/ loops' = Push(WalkTo(MainLoop, f), kind, c)
      BY <3>1, <3>2 DEF WalkEffect, SendEffect, Kinds
    <3>6. loops'[MainLoop].walk = f /\ loops'[MainLoop].removing = NoConn
      BY <1>c, <3>3, <3>4, <3>5, PushSo
    <3> QED
      BY <2>1, <2>2, <2>3, <3>1, <3>6
  <2>5. CASE loops' = loops \/ loops' = [loops EXCEPT ![MainLoop].walk = 0]
    <3>1. loops' = loops
      BY <1>a, <1>c, <2>5 DEF LoopSet
    <3> QED
      BY <1>d, <2>1, <2>3, <3>1
  <2> QED
    BY <1>4, <2>4, <2>5, WalkStepSo
<1>5. CASE Swap(MainLoop) \/ RunAdd(MainLoop) \/ RunCleanup(MainLoop) \/ EndBatch(MainLoop)
  <2>1. loops[MainLoop].walk = 0
    BY <1>5 DEF Swap, RunAdd, RunCleanup, EndBatch, NextTask, Free
  <2>2. loops'[MainLoop].walk = loops[MainLoop].walk
    <3>1. CASE Swap(MainLoop)
      BY <3>1, <1>a, <1>c DEF Swap, LoopSet
    <3>2. CASE RunAdd(MainLoop)
      BY <3>2, <1>a, <1>c DEF RunAdd, PopTask, LoopSet
    <3>3. CASE RunCleanup(MainLoop)
      BY <3>3, <1>a, <1>c DEF RunCleanup, PopTask, LoopSet
    <3>4. CASE EndBatch(MainLoop)
      BY <3>4, <1>a, <1>c DEF EndBatch, LoopSet
    <3> QED
      BY <1>5, <3>1, <3>2, <3>3, <3>4
  <2> QED
    BY <2>1, <2>2
<1>6. CASE RunSend(MainLoop)
  <2>1. loops[MainLoop].walk = 0 /\ loops[MainLoop].batch # <<>>
    BY <1>6 DEF RunSend, NextTask, Free
  <2>2. PICK c \in Conns : c = Head(loops[MainLoop].batch).conn
    BY <1>a, <1>c, <2>1, PopTypes
  <2>3. SendEffect(c, PopTask(MainLoop))
    BY <1>6, <2>2, SendsSo DEF RunSend
  <2>4. /\ PopTask(MainLoop) \in [AllLoops -> LoopSet]
        /\ PopTask(MainLoop)[MainLoop].walk = loops[MainLoop].walk
    BY <1>a, <1>c, <2>1, PopTypes DEF PopTask, LoopSet
  <2>5. "cleanup" \in Kinds
    BY DEF Kinds
  <2>6. loops'[MainLoop].walk = loops[MainLoop].walk
    BY <1>c, <2>3, <2>4, <2>5, PushSo DEF SendEffect
  <2> QED
    BY <2>1, <2>6
<1>7. CASE RemoveConnection(MainLoop)
  <2>1. loops[MainLoop].walk = 0
    BY <1>7, <1>d DEF RemoveConnection
  <2>2. loops'[MainLoop].walk = loops[MainLoop].walk
    BY <1>7, <1>a, <1>c DEF RemoveConnection, LoopSet
  <2> QED
    BY <2>1, <2>2
<1>8. ASSUME NEW c \in Conns, HandleClose(MainLoop, c) \/ HandleError(MainLoop, c)
      PROVE  FALSE
  <2>1. loops[MainLoop].walk = 0 /\ loops' = Push(loops, "cleanup", c)
    BY <1>8 DEF HandleClose, HandleError, Free, CleanUp, Push
  <2>2. "cleanup" \in Kinds
    BY DEF Kinds
  <2>3. loops'[MainLoop].walk = 0
    BY <1>a, <1>c, <2>1, <2>2, PushSo
  <2> QED
    BY <2>3
<1>9. CASE UNCHANGED vars
  BY <1>9, <1>d DEF vars
<1> QED
  BY <1>1, <1>2, <1>3, <1>4, <1>5, <1>6, <1>7, <1>8, <1>9, <1>b
  DEF Next, Step, MainStep, LoopStep, Rest

\* On a single loop a handler's iterator over tcpConnList_ always stands at an
\* entry: removeConnection runs only after the handler has returned
\* (TestAll.cpp:35-43, TcpServer.cpp:95-99).
THEOREM WalksAreSafe == Spec => []WalkSafe
<1>1. Init => Typed /\ CurIn /\ WalkInv
  BY InitTypes, Consts DEF Init, WalkInv
<1>2. Typed /\ CurIn /\ WalkInv /\ [Next]_vars => Typed' /\ CurIn' /\ WalkInv'
  BY StepTypes, StepWalk
<1>3. WalkInv => WalkSafe
  BY DEF WalkInv, WalkSafe, WalkValid, Loops
<1> QED
  BY <1>1, <1>2, <1>3, PTL DEF Spec

-----------------------------------------------------------------------------
(* The tasks a loop has still to run, and tasks it has only once             *)

Queue(q) == Range(q.tasks) \union Range(q.batch)

Once(s, t) == \A i, j \in DOMAIN s : s[i] = t /\ s[j] = t => i = j

Single(q, t) == /\ Once(q.tasks, t) /\ Once(q.batch, t)
                /\ t \in Range(q.tasks) => t \notin Range(q.batch)

LEMMA OnceAppend ==
  ASSUME NEW S, NEW s \in Seq(S), NEW t, NEW u, Once(s, t),
         t = u => t \notin Range(s)
  PROVE  Once(Append(s, u), t)
<1>1. /\ DOMAIN s = 1 .. Len(s) /\ Len(s) \in Nat
      /\ DOMAIN Append(s, u) = 1 .. Len(s) + 1
      /\ \A i \in 1 .. Len(s) : Append(s, u)[i] = s[i]
      /\ Append(s, u)[Len(s) + 1] = u
  OBVIOUS
<1> SUFFICES ASSUME NEW i \in 1 .. Len(s) + 1, NEW j \in 1 .. Len(s) + 1,
                    Append(s, u)[i] = t, Append(s, u)[j] = t
             PROVE  i = j
  BY <1>1 DEF Once
<1>2. ASSUME NEW k \in 1 .. Len(s) + 1, Append(s, u)[k] = t, t = u
      PROVE  k = Len(s) + 1
  <2> SUFFICES ASSUME k # Len(s) + 1 PROVE FALSE
    OBVIOUS
  <2>1. k \in 1 .. Len(s)
    BY <1>1
  <2>2. s[k] = t
    BY <1>1, <1>2, <2>1
  <2> QED
    BY <1>1, <1>2, <2>1, <2>2 DEF Range
<1>3. CASE t = u
  BY <1>2, <1>3
<1>4. CASE t # u
  <2>1. i \in 1 .. Len(s) /\ j \in 1 .. Len(s)
    BY <1>1, <1>4
  <2> QED
    BY <1>1, <2>1 DEF Once
<1> QED
  BY <1>3, <1>4

LEMMA OnceTail ==
  ASSUME NEW S, NEW s \in Seq(S), NEW t, s # <<>>, Once(s, t)
  PROVE  Once(Tail(s), t) /\ (Head(s) = t => t \notin Range(Tail(s)))
<1>1. /\ Len(s) \in Nat /\ Len(s) # 0 /\ DOMAIN s = 1 .. Len(s)
      /\ DOMAIN Tail(s) = 1 .. Len(s) - 1 /\ Head(s) = s[1]
      /\ \A i \in 1 .. Len(s) - 1 : Tail(s)[i] = s[i + 1]
  OBVIOUS
<1>2. \A i \in 1 .. Len(s) - 1 : i + 1 \in 1 .. Len(s) /\ i + 1 # 1
  BY <1>1
<1>3. 1 \in 1 .. Len(s)
  BY <1>1
<1>4. ASSUME NEW i \in 1 .. Len(s) - 1, NEW j \in 1 .. Len(s) - 1,
             Tail(s)[i] = t, Tail(s)[j] = t
      PROVE  i = j
  <2>1. i + 1 = j + 1
    BY <1>1, <1>2, <1>4 DEF Once
  <2> QED
    BY <2>1
<1>5. ASSUME Head(s) = t, t \in Range(Tail(s))
      PROVE  FALSE
  <2>1. PICK i \in 1 .. Len(s) - 1 : Tail(s)[i] = t
    BY <1>1, <1>5 DEF Range
  <2> QED
    BY <1>1, <1>2, <1>3, <1>5, <2>1 DEF Once
<1> QED
  BY <1>1, <1>4, <1>5 DEF Once

LEMMA RangeHead ==
  ASSUME NEW S, NEW s \in Seq(S), s # <<>>
  PROVE  Range(s) = {Head(s)} \union Range(Tail(s))
<1>1. /\ Len(s) \in Nat /\ Len(s) # 0 /\ DOMAIN s = 1 .. Len(s)
      /\ DOMAIN Tail(s) = 1 .. Len(s) - 1 /\ Head(s) = s[1]
      /\ \A i \in 1 .. Len(s) - 1 : Tail(s)[i] = s[i + 1]
  OBVIOUS
<1>2. ASSUME NEW x \in Range(s)
      PROVE  x = Head(s) \/ x \in Range(Tail(s))
  <2>1. PICK i \in 1 .. Len(s) : s[i] = x
    BY <1>1, <1>2 DEF Range
  <2>2. CASE i = 1
    BY <1>1, <2>1, <2>2
  <2>3. CASE i # 1
    <3>1. i - 1 \in 1 .. Len(s) - 1 /\ (i - 1) + 1 = i
      BY <1>1, <2>3
    <3>2. Tail(s)[i - 1] = x
      BY <1>1, <2>1, <3>1
    <3> QED
      BY <1>1, <3>1, <3>2 DEF Range
  <2> QED
    BY <2>2, <2>3
<1> QED
  BY <1>2, RangeTail

\* Queueing task u.
LEMMA QueuePush ==
  ASSUME NEW q \in LoopSet, NEW r, NEW u,
         r.tasks = Append(q.tasks, u), r.batch = q.batch
  PROVE  /\ Queue(r) = Queue(q) \union {u}
         /\ \A t : Single(q, t) /\ (t = u => t \notin Queue(q)) => Single(r, t)
<1>1. q.tasks \in Seq(Tasks)
  BY DEF LoopSet
<1>2. Range(r.tasks) = Range(q.tasks) \union {u}
  BY <1>1, RangeAppend
<1>3. ASSUME NEW t, Single(q, t), t = u => t \notin Queue(q)
      PROVE  Single(r, t)
  <2>1. Once(r.tasks, t)
    BY <1>1, <1>3, OnceAppend DEF Single, Queue
  <2> QED
    BY <1>2, <1>3, <2>1 DEF Single, Queue
<1> QED
  BY <1>2, <1>3 DEF Queue

\* Taking the first task of the batch.
LEMMA QueuePop ==
  ASSUME NEW q \in LoopSet, NEW r, q.batch # <<>>,
         r.tasks = q.tasks, r.batch = Tail(q.batch)
  PROVE  /\ Queue(q) = Queue(r) \union {Head(q.batch)}
         /\ \A t : Single(q, t) => /\ Single(r, t)
                                   /\ Head(q.batch) = t => t \notin Queue(r)
<1>1. q.batch \in Seq(Tasks)
  BY DEF LoopSet
<1>2. Range(q.batch) = {Head(q.batch)} \union Range(r.batch)
  BY <1>1, RangeHead
<1>3. ASSUME NEW t, Single(q, t)
      PROVE  Single(r, t) /\ (Head(q.batch) = t => t \notin Queue(r))
  <2>1. Once(r.batch, t) /\ (Head(q.batch) = t => t \notin Range(r.batch))
    BY <1>1, <1>3, OnceTail DEF Single
  <2> QED
    BY <1>2, <1>3, <2>1 DEF Single, Queue
<1> QED
  BY <1>2, <1>3 DEF Queue

\* Beginning a batch.
LEMMA QueueSwap ==
  ASSUME NEW q, NEW r, q.batch = <<>>, r.tasks = <<>>, r.batch = q.tasks
  PROVE  /\ Queue(r) = Queue(q)
         /\ \A t : Single(q, t) => Single(r, t)
<1>1. Range(<<>>) = {} /\ \A t : Once(<<>>, t)
  BY DEF Range, Once
<1> QED
  BY <1>1 DEF Queue, Single

\* Loop queue r is q with task u.
Pushed(q, r, u) ==
  /\ Queue(r) = Queue(q) \union {u}
  /\ \A t : Single(q, t) /\ (t = u => t \notin Queue(q)) => Single(r, t)

LEMMA PushQueue ==
  ASSUME NEW ls \in [AllLoops -> LoopSet], NEW kind \in Kinds, NEW c \in Conns,
         NEW k \in AllLoops
  PROVE  /\ k = conn[c].loop => Pushed(ls[k], Push(ls, kind, c)[k], Task(kind, c))
         /\ k # conn[c].loop => Push(ls, kind, c)[k] = ls[k]
<1> DEFINE new == Push(ls, kind, c)
<1>1. ls[k] \in LoopSet
  OBVIOUS
<1>2. new[k].batch = ls[k].batch
  BY PushSo
<1>3. CASE k = conn[c].loop
  <2>1. new[k] = [ls[k] EXCEPT !.tasks = Append(@, Task(kind, c))]
    BY <1>3 DEF Push
  <2>2. new[k].tasks = Append(ls[k].tasks, Task(kind, c))
    BY <1>1, <2>1 DEF LoopSet
  <2>3. Pushed(ls[k], new[k], Task(kind, c))
    BY <1>1, <1>2, <2>2, QueuePush DEF Pushed
  <2> QED
    BY <1>3, <2>3
<1>4. CASE k # conn[c].loop
  BY <1>4 DEF Push
<1> QED
  BY <1>3, <1>4

\* Loop queue r is q without its first task, u.
Popped(q, r, u) ==
  /\ Queue(q) = Queue(r) \union {u}
  /\ \A t : Single(q, t) => Single(r, t) /\ (u = t => t \notin Queue(r))

LEMMA PopQueue ==
  ASSUME loops \in [AllLoops -> LoopSet], NEW l \in AllLoops,
         loops[l].batch # <<>>
  PROVE  /\ Popped(loops[l], PopTask(l)[l], Head(loops[l].batch))
         /\ \A k \in AllLoops \ {l} : PopTask(l)[k] = loops[k]
         /\ PopTask(l)[l].phase = loops[l].phase
         /\ PopTask(l)[l].walk = loops[l].walk
         /\ PopTask(l)[l].removing = loops[l].removing
         /\ PopTask(l)[l].seen = loops[l].seen
<1> DEFINE r == PopTask(l)[l]
<1>1. loops[l] \in LoopSet
  OBVIOUS
<1>2. r = [loops[l] EXCEPT !.batch = Tail(@)]
  BY DEF PopTask
<1>3. /\ r.tasks = loops[l].tasks /\ r.batch = Tail(loops[l].batch)
      /\ r.phase = loops[l].phase /\ r.walk = loops[l].walk
      /\ r.removing = loops[l].removing /\ r.seen = loops[l].seen
  BY <1>1, <1>2 DEF LoopSet
<1> HIDE DEF r
<1>4. Popped(loops[l], r, Head(loops[l].batch))
  BY <1>1, <1>3, QueuePop DEF Popped
<1>5. \A k \in AllLoops \ {l} : PopTask(l)[k] = loops[k]
  BY DEF PopTask
<1> QED
  BY <1>3, <1>4, <1>5 DEF r

-----------------------------------------------------------------------------
(* Registering                                                               *)

\* onNewConnection has still to queue the task that registers c.
Adding(c) == main.cur = c /\ main.pc \in {"insert", "add"}

\* That task is queued once, for the connection's own loop.
AddsOf(ls) ==
  \A l \in Loops :
    /\ ls[l].phase = "dispatch" => ls[l].batch = <<>>
    /\ \A c \in Conns :
         /\ Single(ls[l], Task("add", c))
         /\ Task("add", c) \in Queue(ls[l]) =>
              /\ conn[c].loop = l /\ ~ Adding(c)
              /\ conn[c].state \in {"made", "destroyed"}

\* A connection that was made has a loop, and only such a one ends.
Placed == \A c \in Conns :
            /\ conn[c].state \in {"made", "destroyed"} => conn[c].loop \in Loops
            /\ Ended(c) => conn[c].state \in {"made", "destroyed"}

AddInv == Placed /\ AddsOf(loops)

\* A step that queues no such task and moves none but by Swap.
LEMMA KeepAdds ==
  ASSUME NEW ls, AddsOf(ls), Loops' = Loops,
         \A d \in Conns : conn[d].state \in {"made", "destroyed"} =>
           /\ conn'[d].loop = conn[d].loop
           /\ conn'[d].state \in {"made", "destroyed"}
           /\ Adding(d)' => Adding(d),
         \A k \in Loops :
           /\ loops'[k].phase = "dispatch" => loops'[k].batch = <<>>
           /\ \A c \in Conns :
                /\ Task("add", c) \in Queue(loops'[k]) => Task("add", c) \in Queue(ls[k])
                /\ Single(ls[k], Task("add", c)) => Single(loops'[k], Task("add", c))
  PROVE  AddsOf(loops)'
BY DEF AddsOf

LEMMA TaskSo ==
  \A k1, k2, c, d : Task(k1, c) = Task(k2, d) <=> k1 = k2 /\ c = d
BY DEF Task

LEMMA PushAdds ==
  ASSUME NEW ls \in [AllLoops -> LoopSet], NEW kind \in Kinds, NEW c \in Conns,
         threadNum \in ThreadNums, UNCHANGED threadNum, kind # "add",
         AddsOf(ls), SameIds, main' = main, loops' = Push(ls, kind, c)
  PROVE  AddsOf(loops)'
<1>1. Loops' = Loops /\ Loops \subseteq AllLoops
  BY LoopsIn DEF Loops
<1>2. ASSUME NEW k \in Loops
      PROVE  /\ loops'[k].phase = "dispatch" => loops'[k].batch = <<>>
             /\ \A d \in Conns :
                  /\ Task("add", d) \in Queue(loops'[k]) => Task("add", d) \in Queue(ls[k])
                  /\ Single(ls[k], Task("add", d)) => Single(loops'[k], Task("add", d))
  <2>1. k \in AllLoops
    BY <1>1
  <2>2. \A d : Task("add", d) # Task(kind, c)
    BY TaskSo
  <2>3. ls[k].phase = "dispatch" => ls[k].batch = <<>>
    BY DEF AddsOf
  <2>4. /\ Queue(loops'[k]) \subseteq Queue(ls[k]) \union {Task(kind, c)}
        /\ \A t : Single(ls[k], t) /\ t # Task(kind, c) => Single(loops'[k], t)
        /\ loops'[k].phase = ls[k].phase /\ loops'[k].batch = ls[k].batch
    <3>1. loops'[k].phase = ls[k].phase /\ loops'[k].batch = ls[k].batch
      BY <2>1, PushSo
    <3>2. CASE k = conn[c].loop
      <4>1. Pushed(ls[k], loops'[k], Task(kind, c))
        BY <2>1, <3>2, PushQueue
      <4> QED
        BY <3>1, <4>1 DEF Pushed
    <3>3. CASE k # conn[c].loop
      BY <2>1, <3>3, PushQueue
    <3> QED
      BY <3>2, <3>3
  <2> QED
    BY <2>2, <2>3, <2>4
<1>3. \A d \in Conns : conn[d].state \in {"made", "destroyed"} =>
           /\ conn'[d].loop = conn[d].loop
           /\ conn'[d].state \in {"made", "destroyed"}
           /\ Adding(d)' => Adding(d)
  BY DEF SameIds, Adding
<1> QED
  BY <1>1, <1>2, <1>3, KeepAdds

LEMMA DestroyStates ==
  ASSUME conn \in [Conns -> ConnSet], NEW S, Destroy(S),
         \A d \in S : conn[d].state = "made"
  PROVE  \A d \in Conns : /\ conn'[d].loop = conn[d].loop
                          /\ conn'[d].disc = conn[d].disc
                          /\ conn'[d].erred = conn[d].erred
                          /\ conn[d].state \in {"made", "destroyed"}
                               <=> conn'[d].state \in {"made", "destroyed"}
<1>1. CASE conn' = conn
  BY <1>1
<1>2. CASE conn' # conn
  <2>1. conn' = [d \in Conns |-> IF d \in S THEN [conn[d] EXCEPT !.state = "destroyed",
                                                               !.fd = 0,
                                                               !.registered = FALSE]
                                          ELSE conn[d]]
    BY <1>2 DEF Destroy
  <2> QED
    BY <2>1 DEF ConnSet
<1> QED
  BY <1>1, <1>2

\* A step that leaves the queues alone.
LEMMA SameAdds ==
  ASSUME AddsOf(loops), UNCHANGED threadNum,
         \A d \in Conns : conn[d].state \in {"made", "destroyed"} =>
           /\ conn'[d].loop = conn[d].loop
           /\ conn'[d].state \in {"made", "destroyed"}
           /\ Adding(d)' => Adding(d),
         \A k \in Loops : /\ loops'[k].phase = loops[k].phase
                          /\ loops'[k].tasks = loops[k].tasks
                          /\ loops'[k].batch = loops[k].batch
  PROVE  AddsOf(loops)'
<1>1. Loops' = Loops
  BY DEF Loops
<1>2. \A k \in Loops : /\ Queue(loops'[k]) = Queue(loops[k])
                       /\ \A t : Single(loops'[k], t) <=> Single(loops[k], t)
  BY DEF Queue, Single
<1>3. \A k \in Loops : loops'[k].phase = "dispatch" => loops'[k].batch = <<>>
  BY DEF AddsOf
<1> QED
  BY <1>1, <1>2, <1>3, KeepAdds

LEMMA MainAdds ==
  ASSUME Typed, CurIn, MapInv, AddInv, UNCHANGED threadNum,
         (\E c \in Conns : Accept(c)) \/ MainStep
  PROVE  AddInv'
<1>a. /\ threadNum \in ThreadNums /\ conn \in [Conns -> ConnSet]
      /\ main \in MainSet /\ loops \in [AllLoops -> LoopSet]
      /\ index \in Nat /\ (threadNum > 0 => index < threadNum) /\ threadNum \in Nat
  BY Consts DEF Typed
<1>b. MainKnows /\ OwnFd /\ Placed /\ AddsOf(loops)
  BY DEF MapInv, AddInv
<1>c. Loops' = Loops /\ Loops \subseteq AllLoops
  BY <1>a, LoopsIn DEF Loops
<1>1. ASSUME NEW c \in Conns, Accept(c)
      PROVE  AddInv'
  <2>1. PICK f \in FreeFds : conn' = [conn EXCEPT ![c].state = "accepted", ![c].fd = f]
    BY <1>1 DEF Accept
  <2>2. /\ conn[c].state = "none" /\ loops' = loops
        /\ main' = [pc |-> "count", cur |-> c, seen |-> connCount]
    BY <1>1 DEF Accept
  <2>3. /\ conn'[c].disc = conn[c].disc /\ conn'[c].erred = conn[c].erred
        /\ conn'[c].state = "accepted"
        /\ \A d \in Conns \ {c} : conn'[d] = conn[d]
    BY <1>a, <2>1 DEF ConnSet
  <2>4. Placed'
    BY <1>b, <1>c, <2>2, <2>3 DEF Placed, Ended
  <2>5. AddsOf(loops)'
    BY <1>b, <2>2, <2>3, SameAdds DEF Adding
  <2> QED
    BY <2>4, <2>5 DEF AddInv
<1>2. CASE Reject
  <2>0. PICK c \in Conns : c = main.cur
    BY <1>2 DEF Reject, CurIn
  <2>1. /\ conn' = [conn EXCEPT ![c].state = "rejected", ![c].fd = 0]
        /\ conn[c].state = "accepted" /\ loops' = loops /\ main' = Idle
    BY <1>2, <1>b, <2>0 DEF Reject, MainKnows
  <2>3. /\ conn'[c].disc = conn[c].disc /\ conn'[c].erred = conn[c].erred
        /\ conn'[c].state = "rejected"
        /\ \A d \in Conns \ {c} : conn'[d] = conn[d]
    BY <1>a, <2>1 DEF ConnSet
  <2>4. Placed'
    <3>1. \A d \in Conns : Ended(d)' <=> Ended(d)
      BY <2>3 DEF Ended
    <3>2. ASSUME NEW d \in Conns
          PROVE  /\ conn'[d].state \in {"made", "destroyed"} => conn'[d].loop \in Loops
                 /\ Ended(d)' => conn'[d].state \in {"made", "destroyed"}
      <4>1. CASE d = c
        BY <1>b, <2>1, <2>3, <3>1, <4>1 DEF Placed
      <4>2. CASE d # c
        BY <1>b, <2>3, <3>1, <4>2 DEF Placed
      <4> QED
        BY <4>1, <4>2
    <3> QED
      BY <1>c, <3>2 DEF Placed
  <2>5. AddsOf(loops)'
    BY <1>b, <2>1, <2>3, SameAdds DEF Adding, Idle
  <2> QED
    BY <2>4, <2>5 DEF AddInv
<1>3. CASE MakeConnection
  <2>0. PICK c \in Conns : c = main.cur
    BY <1>3 DEF MakeConnection, CurIn
  <2>1. /\ conn' = [conn EXCEPT ![c].state = "made", ![c].loop = NextLoop]
        /\ conn[c].state = "accepted" /\ loops' = loops
    BY <1>3, <1>b, <2>0 DEF MakeConnection, MainKnows
  <2>2. main'.cur = c
    BY <1>3, <1>a, <2>0 DEF MakeConnection, MainSet
  <2>3. /\ conn'[c].disc = conn[c].disc /\ conn'[c].erred = conn[c].erred
        /\ conn'[c].state = "made" /\ conn'[c].loop = NextLoop
        /\ \A d \in Conns \ {c} : conn'[d] = conn[d]
    BY <1>a, <2>1 DEF ConnSet
  <2>4. NextLoop \in Loops
    BY <1>a DEF NextLoop, Loops
  <2>5. Placed'
    <3>1. \A d \in Conns : Ended(d)' <=> Ended(d)
      BY <2>3 DEF Ended
    <3>2. ASSUME NEW d \in Conns
          PROVE  /\ conn'[d].state \in {"made", "destroyed"} => conn'[d].loop \in Loops
                 /\ Ended(d)' => conn'[d].state \in {"made", "destroyed"}
      <4>1. CASE d = c
        BY <1>b, <2>1, <2>3, <2>4, <3>1, <4>1 DEF Placed
      <4>2. CASE d # c
        BY <1>b, <2>3, <2>4, <3>1, <4>2 DEF Placed
      <4> QED
        BY <4>1, <4>2
    <3> QED
      BY <1>c, <3>2 DEF Placed
  <2>6. AddsOf(loops)'
    BY <1>b, <2>1, <2>2, <2>3, SameAdds DEF Adding
  <2> QED
    BY <2>5, <2>6 DEF AddInv
<1>4. CASE Insert
  <2>1. /\ conn' = conn /\ loops' = loops /\ main.pc = "insert"
        /\ main'.cur = main.cur
    BY <1>4, <1>a DEF Insert, MainSet
  <2>2. Placed'
    BY <1>b, <1>c, <2>1 DEF Placed, Ended
  <2>3. AddsOf(loops)'
    BY <1>b, <2>1, SameAdds DEF Adding
  <2> QED
    BY <2>2, <2>3 DEF AddInv
<1>5. CASE AddChannelToLoop
  <2>0. PICK c \in Conns : c = main.cur
    BY <1>5 DEF AddChannelToLoop, CurIn
  <2>1. /\ conn' = conn /\ loops' = Push(loops, "add", c)
        /\ main.pc = "add" /\ conn[c].state = "made"
    BY <1>5, <1>b, <2>0 DEF AddChannelToLoop, Push, MainKnows
  <2>2. main'.cur = c /\ main'.pc = "release"
    BY <1>5, <1>a, <2>0 DEF AddChannelToLoop, MainSet
  <2>3. Placed'
    BY <1>b, <1>c, <2>1 DEF Placed, Ended
  <2>4. Adding(c) /\ \A d : ~ Adding(d)'
    BY <2>0, <2>1, <2>2 DEF Adding
  <2>5. "add" \in Kinds
    BY DEF Kinds
  <2>6. ASSUME NEW k \in Loops
        PROVE  /\ loops'[k].phase = "dispatch" => loops'[k].batch = <<>>
               /\ \A d \in Conns :
                    /\ Single(loops'[k], Task("add", d))
                    /\ Task("add", d) \in Queue(loops'[k]) =>
                         /\ conn'[d].loop = k
                         /\ conn'[d].state \in {"made", "destroyed"}
    <3>1. k \in AllLoops
      BY <1>c
    <3>2. /\ loops[k].phase = "dispatch" => loops[k].batch = <<>>
          /\ \A d \in Conns :
               /\ Single(loops[k], Task("add", d))
               /\ Task("add", d) \in Queue(loops[k]) =>
                    /\ conn[d].loop = k /\ ~ Adding(d)
                    /\ conn[d].state \in {"made", "destroyed"}
      BY <1>b DEF AddsOf
    <3>3. Task("add", c) \notin Queue(loops[k])
      BY <2>4, <3>2
    <3>4. /\ loops'[k].phase = loops[k].phase /\ loops'[k].batch = loops[k].batch
          /\ k = conn[c].loop => Pushed(loops[k], loops'[k], Task("add", c))
          /\ k # conn[c].loop => loops'[k] = loops[k]
      BY <1>a, <2>1, <2>5, <3>1, PushSo, PushQueue
    <3>5. \A d \in Conns : Single(loops'[k], Task("add", d))
      BY <3>2, <3>3, <3>4 DEF Pushed
    <3>6. ASSUME NEW d \in Conns, Task("add", d) \in Queue(loops'[k])
          PROVE  conn'[d].loop = k /\ conn'[d].state \in {"made", "destroyed"}
      <4>1. CASE Task("add", d) \in Queue(loops[k])
        BY <2>1, <3>2, <4>1
      <4>2. CASE Task("add", d) \notin Queue(loops[k])
        <5>1. k = conn[c].loop /\ Task("add", d) = Task("add", c)
          BY <3>4, <3>6, <4>2 DEF Pushed
        <5>2. d = c
          BY <5>1, TaskSo
        <5> QED
          BY <2>1, <5>1, <5>2
      <4> QED
        BY <4>1, <4>2
    <3> QED
      BY <3>2, <3>4, <3>5, <3>6
  <2>7. AddsOf(loops)'
    BY <1>c, <2>4, <2>6 DEF AddsOf
  <2> QED
    BY <2>3, <2>7 DEF AddInv
<1>6. CASE ReleaseLocal
  <2> DEFINE S == {main.cur} \ Referenced(Loops, {})
  <2>1. /\ Destroy(S) /\ main' = Idle /\ loops' = loops
        /\ conn[main.cur].state = "made"
    BY <1>6, <1>b DEF ReleaseLocal, MainKnows
  <2>2. S \subseteq {main.cur}
    OBVIOUS
  <2> HIDE DEF S
  <2>3. \A d \in S : conn[d].state = "made"
    BY <2>1, <2>2
  <2>4. \A d \in Conns : /\ conn'[d].loop = conn[d].loop
                         /\ conn'[d].disc = conn[d].disc
                         /\ conn'[d].erred = conn[d].erred
                         /\ conn[d].state \in {"made", "destroyed"}
                              <=> conn'[d].state \in {"made", "destroyed"}
    BY <1>a, <2>1, <2>3, DestroyStates
  <2>5. Placed'
    BY <1>b, <1>c, <2>4 DEF Placed, Ended
  <2>6. AddsOf(loops)'
    BY <1>b, <2>1, <2>4, SameAdds DEF Adding, Idle
  <2> QED
    BY <2>5, <2>6 DEF AddInv
<1> QED
  BY <1>1, <1>2, <1>3, <1>4, <1>5, <1>6 DEF MainStep

\* Sending to a living connection, after a change of ls that keeps the queues.
LEMMA SendAdds ==
  ASSUME threadNum \in ThreadNums, conn \in [Conns -> ConnSet], UNCHANGED threadNum,
         NEW ls \in [AllLoops -> LoopSet], AddsOf(ls), main' = main,
         NEW c \in Conns, SendEffect(c, ls)
  PROVE  SameIds /\ AddsOf(loops)'
<1>1. SameIds
  <2>1. CASE conn' = conn
    BY <2>1 DEF SameIds, Ended
  <2>2. CASE conn' = [conn EXCEPT ![c].erred = "send"]
    <3>1. \A d \in Conns : /\ conn'[d].state = conn[d].state
                           /\ conn'[d].fd = conn[d].fd
                           /\ conn'[d].loop = conn[d].loop
                           /\ conn'[d].disc = conn[d].disc
                           /\ conn'[d].registered = conn[d].registered
                           /\ conn'[d].erred = conn[d].erred \/ conn'[d].erred = "send"
      BY <2>2 DEF ConnSet
    <3> QED
      BY <3>1 DEF SameIds, Ended
  <2> QED
    BY <2>1, <2>2 DEF SendEffect
<1>2. CASE loops' = ls
  <2>1. Loops' = Loops
    BY DEF Loops
  <2>2. \A d \in Conns : conn[d].state \in {"made", "destroyed"} =>
           /\ conn'[d].loop = conn[d].loop
           /\ conn'[d].state \in {"made", "destroyed"}
           /\ Adding(d)' => Adding(d)
    BY <1>1 DEF SameIds, Adding
  <2>3. \A k \in Loops :
           /\ loops'[k].phase = "dispatch" => loops'[k].batch = <<>>
           /\ \A d \in Conns :
                /\ Task("add", d) \in Queue(loops'[k]) => Task("add", d) \in Queue(ls[k])
                /\ Single(ls[k], Task("add", d)) => Single(loops'[k], Task("add", d))
    BY <1>2 DEF AddsOf
  <2> QED
    BY <1>1, <2>1, <2>2, <2>3, KeepAdds
<1>3. CASE loops' # ls
  <2>1. loops' = Push(ls, "cleanup", c)
    BY <1>3 DEF SendEffect
  <2>2. "cleanup" \in Kinds /\ "cleanup" # "add"
    BY DEF Kinds
  <2> QED
    BY <1>1, <2>1, <2>2, PushAdds
<1> QED
  BY <1>2, <1>3

LEMMA PopAdds ==
  ASSUME threadNum \in ThreadNums, loops \in [AllLoops -> LoopSet], AddsOf(loops),
         NEW l \in Loops, loops[l].batch # <<>>
  PROVE  AddsOf(PopTask(l))
<1>1. Loops \subseteq AllLoops
  BY LoopsIn
<1>2. /\ Popped(loops[l], PopTask(l)[l], Head(loops[l].batch))
      /\ \A k \in AllLoops \ {l} : PopTask(l)[k] = loops[k]
      /\ PopTask(l)[l].phase = loops[l].phase
  BY <1>1, PopQueue
<1>3. loops[l].phase # "dispatch"
  BY DEF AddsOf
<1>4. ASSUME NEW k \in Loops
      PROVE  /\ PopTask(l)[k].phase = "dispatch" => PopTask(l)[k].batch = <<>>
             /\ \A c \in Conns :
                  /\ Single(PopTask(l)[k], Task("add", c))
                  /\ Task("add", c) \in Queue(PopTask(l)[k]) =>
                       /\ conn[c].loop = k /\ ~ Adding(c)
                       /\ conn[c].state \in {"made", "destroyed"}
  <2>1. CASE k = l
    BY <1>2, <1>3, <2>1 DEF AddsOf, Popped
  <2>2. CASE k # l
    <3>1. PopTask(l)[k] = loops[k]
      BY <1>1, <1>2, <2>2
    <3> QED
      BY <3>1 DEF AddsOf
  <2> QED
    BY <2>1, <2>2
<1> QED
  BY <1>4 DEF AddsOf

LEMMA LoopAdds ==
  ASSUME Typed, CurIn, MapInv, AddInv, UNCHANGED threadNum, NEW l \in Loops,
         \/ LoopStep(l) \/ WalkStart(l)
         \/ \E c \in Conns : HandleClose(l, c) \/ HandleError(l, c)
  PROVE  AddInv'
<1>a. /\ threadNum \in ThreadNums /\ conn \in [Conns -> ConnSet]
      /\ main \in MainSet /\ loops \in [AllLoops -> LoopSet]
      /\ list \in [Fds -> Conns \union {NoConn}]
  BY DEF Typed
<1>b. MainKnows /\ OwnFd /\ TasksLive(loops) /\ MapExact /\ Placed /\ AddsOf(loops)
  BY DEF MapInv, AddInv
<1>c. Loops' = Loops /\ Loops \subseteq AllLoops
  BY <1>a, LoopsIn DEF Loops
<1>d. l \in AllLoops /\ loops[l] \in LoopSet
  BY <1>a, <1>c
<1>e. "cleanup" \in Kinds /\ "send" \in Kinds /\ "cleanup" # "add" /\ "send" # "add"
  BY DEF Kinds
\* Only a living connection ends.
<1>0. ASSUME SameIds, \A d \in Conns : Ended(d)' => Ended(d) \/ d \in Live
      PROVE  Placed'
  BY <1>0, <1>b, <1>c DEF Placed, SameIds, Live
<1>1. CASE WalkStart(l) \/ WalkStep(l)
  <2>1. main' = main
    BY <1>1, WalkStepSo
  <2>2. CASE \E f \in Fds : list[f] # NoConn /\ WalkEffect(l, f)
    <3>1. PICK f \in Fds : list[f] # NoConn /\ WalkEffect(l, f)
      BY <2>2
    <3>2. PICK c \in Live : c = list[f]
      BY <1>b, <3>1 DEF MapExact
    <3>3. WalkTo(l, f) \in [AllLoops -> LoopSet] /\ c \in Conns
      BY <1>a, <1>d DEF WalkTo, LoopSet, Live
    <3>4. \A k \in Loops : /\ WalkTo(l, f)[k].tasks = loops[k].tasks
                           /\ WalkTo(l, f)[k].batch = loops[k].batch
                           /\ WalkTo(l, f)[k].phase = loops[k].phase
      BY <1>a, <1>c DEF WalkTo, LoopSet
    <3>5. AddsOf(WalkTo(l, f))
      BY <1>b, <3>4 DEF AddsOf, Single, Queue
    <3>6. CASE SendEffect(c, WalkTo(l, f))
      <4>1. SameIds /\ AddsOf(loops)'
        BY <1>a, <2>1, <3>3, <3>5, <3>6, SendAdds
      <4>2. \A d \in Conns : Ended(d)' => Ended(d) \/ d \in Live
        BY <1>a, <3>6 DEF SendEffect, Ended, ConnSet
      <4> QED
        BY <1>0, <4>1, <4>2 DEF AddInv
    <3>7. CASE /\ list' = list /\ conn' = conn
               /\ loops' = Push(WalkTo(l, f), "send", c)
      <4>1. SameIds /\ \A d \in Conns : Ended(d)' <=> Ended(d)
        BY <3>7 DEF SameIds, Ended
      <4>2. AddsOf(loops)'
        BY <1>a, <1>e, <2>1, <3>3, <3>5, <3>7, <4>1, PushAdds
      <4> QED
        BY <1>0, <4>1, <4>2 DEF AddInv
    <3> QED
      BY <3>1, <3>2, <3>6, <3>7 DEF WalkEffect
  <2>3. CASE /\ UNCHANGED <<conn, list>>
             /\ loops' = loops \/ loops' = [loops EXCEPT ![l].walk = 0]
    <3>1. SameIds /\ \A d \in Conns : Ended(d)' <=> Ended(d)
      BY <2>3 DEF SameIds, Ended
    <3>2. \A k \in Loops : /\ loops'[k].tasks = loops[k].tasks
                           /\ loops'[k].batch = loops[k].batch
                           /\ loops'[k].phase = loops[k].phase
      <4>1. CASE loops' = loops
        BY <4>1
      <4>2. CASE loops' = [loops EXCEPT ![l].walk = 0]
        BY <1>a, <1>c, <1>d, <4>2 DEF LoopSet
      <4> QED
        BY <2>3, <4>1, <4>2
    <3>3. AddsOf(loops)'
      BY <1>b, <2>1, <2>3, <3>2, SameAdds DEF Adding
    <3> QED
      BY <1>0, <3>1, <3>3 DEF AddInv
  <2> QED
    BY <1>1, <2>2, <2>3, WalkStepSo
<1>2. CASE Swap(l)
  <2>1. /\ conn' = conn /\ main' = main /\ loops[l].phase = "dispatch"
        /\ loops' = [loops EXCEPT ![l].phase = "run", ![l].batch = loops[l].tasks,
                                  ![l].tasks = <<>>,
                                  ![l].held = HeldBy(loops[l].tasks)]
    BY <1>2 DEF Swap
  <2>2. /\ loops'[l].tasks = <<>> /\ loops'[l].batch = loops[l].tasks
        /\ loops'[l].phase = "run" /\ loops[l].batch = <<>>
        /\ \A k \in Loops \ {l} : loops'[k] = loops[k]
    BY <1>a, <1>b, <1>c, <1>d, <2>1 DEF LoopSet, AddsOf
  <2>3. SameIds /\ \A d \in Conns : Ended(d)' <=> Ended(d)
    BY <2>1 DEF SameIds, Ended
  <2>4. /\ Queue(loops'[l]) = Queue(loops[l])
        /\ \A t : Single(loops[l], t) => Single(loops'[l], t)
    BY <2>2, QueueSwap
  <2>5. \A k \in Loops :
           /\ loops'[k].phase = "dispatch" => loops'[k].batch = <<>>
           /\ \A c \in Conns :
                /\ Task("add", c) \in Queue(loops'[k]) => Task("add", c) \in Queue(loops[k])
                /\ Single(loops[k], Task("add", c)) => Single(loops'[k], Task("add", c))
    <3> TAKE k \in Loops
    <3>1. CASE k = l
      BY <2>2, <2>4, <3>1
    <3>2. CASE k # l
      <4>1. loops'[k] = loops[k]
        BY <2>2, <3>2
      <4> QED
        BY <1>b, <4>1 DEF AddsOf
    <3> QED
      BY <3>1, <3>2
  <2>6. AddsOf(loops)'
    BY <1>b, <1>c, <2>1, <2>5, KeepAdds DEF Adding
  <2> QED
    BY <1>0, <2>3, <2>6 DEF AddInv
<1>3. CASE RunAdd(l)
  <2>1. main' = main /\ loops' = PopTask(l) /\ loops[l].batch # <<>>
    BY <1>3 DEF RunAdd, NextTask
  <2>2. /\ SameIds
        /\ \A d \in Conns : Ended(d)' <=> Ended(d)
    <3>1. PICK c \in Conns :
            \/ conn' = conn
            \/ conn[c].state = "made" /\ conn' = [conn EXCEPT ![c].registered = TRUE]
      BY <1>3, <1>a, <1>d, <2>1, PopTypes DEF RunAdd
    <3>2. \A d \in Conns : /\ conn'[d].state = conn[d].state
                           /\ conn'[d].fd = conn[d].fd
                           /\ conn'[d].loop = conn[d].loop
                           /\ conn'[d].disc = conn[d].disc
                           /\ conn'[d].erred = conn[d].erred
                           /\ conn'[d].registered =>
                                conn[d].registered \/ conn[d].state = "made"
      BY <1>a, <3>1 DEF ConnSet
    <3> QED
      BY <3>2 DEF SameIds, Ended
  <2>3. AddsOf(PopTask(l))
    BY <1>a, <1>b, <2>1, PopAdds
  <2>4. AddsOf(loops)'
    <3>1. \A d \in Conns : conn[d].state \in {"made", "destroyed"} =>
             /\ conn'[d].loop = conn[d].loop
             /\ conn'[d].state \in {"made", "destroyed"}
             /\ Adding(d)' => Adding(d)
      BY <2>1, <2>2 DEF SameIds, Adding
    <3>2. \A k \in Loops :
           /\ loops'[k].phase = "dispatch" => loops'[k].batch = <<>>
           /\ \A d \in Conns :
                /\ Task("add", d) \in Queue(loops'[k]) => Task("add", d) \in Queue(PopTask(l)[k])
                /\ Single(PopTask(l)[k], Task("add", d)) => Single(loops'[k], Task("add", d))
      BY <2>1, <2>3 DEF AddsOf
    <3> QED
      BY <1>c, <2>3, <3>1, <3>2, KeepAdds
  <2> QED
    BY <1>0, <2>2, <2>4 DEF AddInv
<1>4. CASE RunSend(l)
  <2> DEFINE t == Head(loops[l].batch)
  <2>1. loops[l].batch # <<>> /\ t.kind = "send" /\ main' = main
    BY <1>4 DEF RunSend, NextTask
  <2>2. TaskLive(t)
    BY <1>a, <1>b, <2>1, PopLive
  <2>3. PICK c \in Live : c = t.conn
    BY <2>1, <2>2 DEF TaskLive
  <2>4. SendEffect(c, PopTask(l)) /\ c \in Conns
    BY <1>4, <2>3, SendsSo DEF RunSend, Live
  <2>5. PopTask(l) \in [AllLoops -> LoopSet] /\ AddsOf(PopTask(l))
    BY <1>a, <1>b, <1>d, <2>1, PopTypes, PopAdds
  <2>6. SameIds /\ AddsOf(loops)'
    BY <1>a, <2>1, <2>4, <2>5, SendAdds
  <2>7. \A d \in Conns : Ended(d)' => Ended(d) \/ d \in Live
    BY <1>a, <2>4 DEF SendEffect, Ended, ConnSet
  <2> QED
    BY <1>0, <2>6, <2>7 DEF AddInv
<1>5. CASE RunCleanup(l)
  <2>1. /\ loops[l].batch # <<>> /\ conn' = conn /\ main' = main
        /\ loops' = [PopTask(l) EXCEPT ![l].removing = Head(loops[l].batch).conn,
                                       ![l].seen = connCount]
    BY <1>5 DEF RunCleanup, NextTask
  <2>2. PopTask(l) \in [AllLoops -> LoopSet] /\ AddsOf(PopTask(l))
    BY <1>a, <1>b, <1>d, <2>1, PopTypes, PopAdds
  <2>3. \A k \in Loops : /\ loops'[k].tasks = PopTask(l)[k].tasks
                         /\ loops'[k].batch = PopTask(l)[k].batch
                         /\ loops'[k].phase = PopTask(l)[k].phase
    BY <1>c, <2>1, <2>2 DEF LoopSet
  <2>4. SameIds /\ \A d \in Conns : Ended(d)' <=> Ended(d)
    BY <2>1 DEF SameIds, Ended
  <2>5. AddsOf(loops)'
    <3>1. \A d \in Conns : conn[d].state \in {"made", "destroyed"} =>
             /\ conn'[d].loop = conn[d].loop
             /\ conn'[d].state \in {"made", "destroyed"}
             /\ Adding(d)' => Adding(d)
      BY <2>1 DEF Adding
    <3>2. \A k \in Loops :
           /\ loops'[k].phase = "dispatch" => loops'[k].batch = <<>>
           /\ \A d \in Conns :
                /\ Task("add", d) \in Queue(loops'[k]) => Task("add", d) \in Queue(PopTask(l)[k])
                /\ Single(PopTask(l)[k], Task("add", d)) => Single(loops'[k], Task("add", d))
      BY <2>2, <2>3 DEF AddsOf, Queue, Single
    <3> QED
      BY <1>c, <2>2, <3>1, <3>2, KeepAdds
  <2> QED
    BY <1>0, <2>4, <2>5 DEF AddInv
<1>6. CASE RemoveConnection(l)
  <2>1. /\ conn' = conn /\ main' = main
        /\ loops' = [loops EXCEPT ![l].removing = NoConn, ![l].seen = 0]
    BY <1>6 DEF RemoveConnection
  <2>2. \A k \in Loops : /\ loops'[k].phase = loops[k].phase
                         /\ loops'[k].tasks = loops[k].tasks
                         /\ loops'[k].batch = loops[k].batch
    BY <1>a, <1>c, <2>1 DEF LoopSet
  <2>3. SameIds /\ \A d \in Conns : Ended(d)' <=> Ended(d)
    BY <2>1 DEF SameIds, Ended
  <2>4. AddsOf(loops)'
    BY <1>b, <2>1, <2>2, SameAdds DEF Adding
  <2> QED
    BY <1>0, <2>3, <2>4 DEF AddInv
<1>7. CASE EndBatch(l)
  <2> DEFINE S == loops[l].held \ Referenced(Loops \ {l}, {main.cur})
  <2>1. /\ Destroy(S) /\ main' = main /\ loops[l].batch = <<>>
        /\ loops' = [loops EXCEPT ![l].phase = "dispatch", ![l].held = {}]
    BY <1>7 DEF EndBatch
  <2>2. S \subseteq Live
    BY <1>b DEF TasksLive
  <2> HIDE DEF S
  <2>3. \A d \in Conns : /\ conn'[d].loop = conn[d].loop
                         /\ conn'[d].disc = conn[d].disc
                         /\ conn'[d].erred = conn[d].erred
                         /\ conn[d].state \in {"made", "destroyed"}
                              <=> conn'[d].state \in {"made", "destroyed"}
    BY <1>a, <2>1, <2>2, DestroyStates DEF Live
  <2>4. Placed'
    BY <1>b, <1>c, <2>3 DEF Placed, Ended
  <2>5. \A k \in Loops : /\ loops'[k].tasks = loops[k].tasks
                         /\ loops'[k].batch = loops[k].batch
                         /\ loops'[k].phase = "dispatch" => loops'[k].batch = <<>>
    BY <1>a, <1>b, <1>c, <1>d, <2>1 DEF LoopSet, AddsOf
  <2>6. \A k \in Loops : /\ Queue(loops'[k]) = Queue(loops[k])
                         /\ \A t : Single(loops[k], t) <=> Single(loops'[k], t)
    BY <2>5 DEF Queue, Single
  <2>7. \A d \in Conns : conn[d].state \in {"made", "destroyed"} =>
             /\ conn'[d].loop = conn[d].loop
             /\ conn'[d].state \in {"made", "destroyed"}
             /\ Adding(d)' => Adding(d)
    BY <2>1, <2>3 DEF Adding
  <2>8. AddsOf(loops)'
    BY <1>b, <1>c, <2>5, <2>6, <2>7, KeepAdds
  <2> QED
    BY <2>4, <2>8 DEF AddInv
<1>8. ASSUME NEW c \in Conns, HandleClose(l, c) \/ HandleError(l, c)
      PROVE  AddInv'
  <2>1. loops' = Push(loops, "cleanup", c) /\ main' = main /\ conn[c].registered
    BY <1>8 DEF HandleClose, HandleError, CleanUp, Push
  <2>2. /\ \A d \in Conns : /\ conn'[d].state = conn[d].state
                            /\ conn'[d].fd = conn[d].fd
                            /\ conn'[d].loop = conn[d].loop
                            /\ conn'[d].registered = conn[d].registered
                            /\ Ended(d) => Ended(d)'
                            /\ d # c /\ Ended(d)' => Ended(d)
    BY <1>8, <1>a DEF HandleClose, HandleError, ConnSet, Ended
  <2>3. c \in Live
    BY <1>b, <2>1 DEF OwnFd, Live
  <2>4. SameIds /\ \A d \in Conns : Ended(d)' => Ended(d) \/ d \in Live
    BY <2>2, <2>3 DEF SameIds
  <2>5. AddsOf(loops)'
    BY <1>a, <1>b, <1>e, <2>1, <2>4, PushAdds
  <2> QED
    BY <1>0, <2>4, <2>5 DEF AddInv
<1> QED
  BY <1>1, <1>2, <1>3, <1>4, <1>5, <1>6, <1>7, <1>8 DEF LoopStep

LEMMA InitAdds == Init => AddInv
<1> SUFFICES ASSUME Init PROVE AddInv
  OBVIOUS
<1>1. Loops \subseteq AllLoops
  BY LoopsIn DEF Init
<1>2. Placed
  BY DEF Init, Placed, Ended
<1>3. Range(<<>>) = {} /\ \A t : Once(<<>>, t)
  BY DEF Range, Once
<1>4. ASSUME NEW l \in Loops
      PROVE  /\ loops[l].batch = <<>> /\ Queue(loops[l]) = {}
             /\ \A t : Single(loops[l], t)
  <2>1. loops[l].batch = <<>> /\ loops[l].tasks = <<>>
    BY <1>1 DEF Init
  <2> QED
    BY <1>3, <2>1 DEF Queue, Single
<1>5. AddsOf(loops)
  BY <1>4 DEF AddsOf
<1> QED
  BY <1>2, <1>5 DEF AddInv

LEMMA StepAdds ==
  ASSUME Typed, CurIn, MapInv, AddInv, [Next]_vars
  PROVE  AddInv'
<1>1. CASE UNCHANGED vars
  <2>1. Placed'
    BY <1>1 DEF vars, AddInv, Placed, Ended, Loops
  <2>2. AddsOf(loops)'
    BY <1>1 DEF vars, AddInv, AddsOf, Adding, Loops
  <2> QED
    BY <2>1, <2>2 DEF AddInv
<1>2. CASE Next /\ ((\E c \in Conns : Accept(c)) \/ MainStep)
  BY <1>2, MainAdds DEF Next
<1>3. CASE Next /\ \E l \in Loops : \/ LoopStep(l) \/ WalkStart(l)
                                    \/ \E c \in Conns : HandleClose(l, c) \/ HandleError(l, c)
  <2>1. PICK l \in Loops : \/ LoopStep(l) \/ WalkStart(l)
                           \/ \E c \in Conns : HandleClose(l, c) \/ HandleError(l, c)
    BY <1>3
  <2> QED
    BY <1>3, <2>1, LoopAdds DEF Next
<1> QED
  BY <1>1, <1>2, <1>3 DEF Next, Step, Rest

-----------------------------------------------------------------------------
(* While nobody walks over tcpConnList_                                      *)

\* Connection c is made and its channel not yet given to epoll.
Waiting(c) == Adding(c) \/ \E l \in Loops : Task("add", c) \in Queue(loops[l])

\* A connection waits exactly as long as it lives unregistered, and it does
\* not end before it is registered.
Right(c) ==
  /\ Waiting(c) => c \in Live /\ ~ conn[c].registered /\ ~ Ended(c)
  /\ c \in Live => conn[c].registered \/ Waiting(c)

\* No handler sends to a connection of another loop.
NoSends(ls) ==
  \A l \in Loops : ls[l].walk = 0 /\ \A t \in Queue(ls[l]) : t.kind # "send"

QuietInv == Alive /\ NoSends(loops) /\ \A c \in Conns : Right(c)

SurvInv == walks = 0 => QuietInv

LEMMA SameWait ==
  ASSUME NEW c, UNCHANGED threadNum, Adding(c)' <=> Adding(c),
         \A k \in Loops :
           Task("add", c) \in Queue(loops'[k]) <=> Task("add", c) \in Queue(loops[k])
  PROVE  Waiting(c)' <=> Waiting(c)
<1>1. Loops' = Loops
  BY DEF Loops
<1> QED
  BY <1>1 DEF Waiting

LEMMA SameRight ==
  ASSUME NEW c \in Conns, Right(c), Waiting(c)' <=> Waiting(c),
         c \in Live' <=> c \in Live,
         conn'[c].registered = conn[c].registered,
         Ended(c)' => Ended(c) \/ ~ Waiting(c)
  PROVE  Right(c)'
BY DEF Right

\* Destroying connections that ended.
LEMMA DestroyRight ==
  ASSUME conn \in [Conns -> ConnSet], \A c \in Conns : Right(c), NEW S, Destroy(S),
         \A c \in S : c \in Live /\ Ended(c),
         \A c \in Conns : Waiting(c)' <=> Waiting(c)
  PROVE  exited' = exited /\ \A c \in Conns : Right(c)'
<1>1. \A c \in S : c \in Conns /\ conn[c].registered /\ ~ Waiting(c)
  BY DEF Right, Live
<1>2. /\ exited' = exited
      /\ conn' = [c \in Conns |-> IF c \in S THEN [conn[c] EXCEPT !.state = "destroyed",
                                                                !.fd = 0,
                                                                !.registered = FALSE]
                                           ELSE conn[c]]
  BY <1>1 DEF Destroy
<1>3. ASSUME NEW c \in Conns
      PROVE  Right(c)'
  <2>1. CASE c \in S
    <3>1. conn'[c].state = "destroyed"
      BY <1>2, <2>1 DEF ConnSet
    <3>2. c \notin Live' /\ ~ Waiting(c)'
      BY <1>1, <2>1, <3>1 DEF Live
    <3> QED
      BY <3>2 DEF Right
  <2>2. CASE c \notin S
    <3>1. conn'[c] = conn[c]
      BY <1>2, <2>2
    <3>2. (c \in Live' <=> c \in Live) /\ (Ended(c)' <=> Ended(c))
      BY <3>1 DEF Live, Ended
    <3> QED
      BY <3>1, <3>2, SameRight
  <2> QED
    BY <2>1, <2>2
<1> QED
  BY <1>2, <1>3

LEMMA SameSends ==
  ASSUME NoSends(loops), UNCHANGED threadNum,
         \A k \in Loops : /\ loops'[k].walk = loops[k].walk
                          /\ \A t \in Queue(loops'[k]) :
                               t \in Queue(loops[k]) \/ t.kind # "send"
  PROVE  NoSends(loops)'
<1>1. Loops' = Loops
  BY DEF Loops
<1> QED
  BY <1>1 DEF NoSends

LEMMA MainQuiet ==
  ASSUME Typed, CurIn, MapInv, AddInv, QuietInv, UNCHANGED threadNum,
         (\E c \in Conns : Accept(c)) \/ MainStep
  PROVE  QuietInv'
<1>a. /\ threadNum \in ThreadNums /\ conn \in [Conns -> ConnSet]
      /\ main \in MainSet /\ loops \in [AllLoops -> LoopSet]
  BY DEF Typed
<1>b. /\ MainKnows /\ OwnFd /\ MapExact /\ Placed /\ AddsOf(loops)
      /\ Alive /\ NoSends(loops) /\ \A c \in Conns : Right(c)
  BY DEF MapInv, AddInv, QuietInv
<1>c. Loops' = Loops /\ Loops \subseteq AllLoops
  BY <1>a, LoopsIn DEF Loops
\* Only AddChannelToLoop changes a queue.
<1>d. ASSUME loops' = loops
      PROVE  /\ NoSends(loops)'
             /\ \A d \in Conns : (Adding(d)' <=> Adding(d)) => (Waiting(d)' <=> Waiting(d))
  BY <1>b, <1>c, <1>d DEF NoSends, Waiting
<1>1. ASSUME NEW c \in Conns, Accept(c)
      PROVE  QuietInv'
  <2>1. PICK f \in FreeFds : conn' = [conn EXCEPT ![c].state = "accepted", ![c].fd = f]
    BY <1>1 DEF Accept
  <2>2. /\ conn[c].state = "none" /\ main.pc = "idle" /\ loops' = loops
        /\ main'.pc = "count" /\ exited' = exited
    BY <1>1 DEF Accept, MainFree
  <2>3. /\ conn'[c].state = "accepted" /\ conn'[c].disc = conn[c].disc
        /\ conn'[c].erred = conn[c].erred /\ conn'[c].registered = conn[c].registered
        /\ \A d \in Conns \ {c} : conn'[d] = conn[d]
    BY <1>a, <2>1 DEF ConnSet
  <2>4. \A d \in Conns : /\ d \in Live' <=> d \in Live
                         /\ conn'[d].registered = conn[d].registered
                         /\ Ended(d)' <=> Ended(d)
    BY <2>2, <2>3 DEF Live, Ended
  <2>5. \A d \in Conns : Waiting(d)' <=> Waiting(d)
    BY <1>d, <2>2 DEF Adding
  <2>6. \A d \in Conns : Right(d)'
    BY <1>b, <2>4, <2>5, SameRight
  <2> QED
    BY <1>b, <1>d, <2>2, <2>6 DEF QuietInv, Alive
<1>2. CASE Reject
  <2>0. PICK c \in Conns : c = main.cur
    BY <1>2 DEF Reject, CurIn
  <2>1. /\ conn' = [conn EXCEPT ![c].state = "rejected", ![c].fd = 0]
        /\ conn[c].state = "accepted" /\ loops' = loops /\ main.pc = "count"
        /\ main' = Idle /\ exited' = exited
    BY <1>2, <1>b, <2>0 DEF Reject, MainKnows
  <2>3. /\ conn'[c].state = "rejected" /\ conn'[c].disc = conn[c].disc
        /\ conn'[c].erred = conn[c].erred /\ conn'[c].registered = conn[c].registered
        /\ \A d \in Conns \ {c} : conn'[d] = conn[d]
    BY <1>a, <2>1 DEF ConnSet
  <2>4. \A d \in Conns : /\ d \in Live' <=> d \in Live
                         /\ conn'[d].registered = conn[d].registered
                         /\ Ended(d)' <=> Ended(d)
    BY <2>1, <2>3 DEF Live, Ended
  <2>5. \A d \in Conns : Waiting(d)' <=> Waiting(d)
    BY <1>d, <2>1 DEF Adding, Idle
  <2>6. \A d \in Conns : Right(d)'
    BY <1>b, <2>4, <2>5, SameRight
  <2> QED
    BY <1>b, <1>d, <2>1, <2>6 DEF QuietInv, Alive
<1>3. CASE MakeConnection
  <2>0. PICK c \in Conns : c = main.cur
    BY <1>3 DEF MakeConnection, CurIn
  <2>1. /\ conn' = [conn EXCEPT ![c].state = "made", ![c].loop = NextLoop]
        /\ conn[c].state = "accepted" /\ loops' = loops /\ main.pc = "count"
        /\ main' = [main EXCEPT !.pc = "insert"] /\ exited' = exited
    BY <1>3, <1>b, <2>0 DEF MakeConnection, MainKnows
  <2>2. main'.pc = "insert" /\ main'.cur = c
    BY <1>a, <2>0, <2>1 DEF MainSet
  <2>3. /\ conn'[c].state = "made" /\ conn'[c].disc = conn[c].disc
        /\ conn'[c].erred = conn[c].erred /\ conn'[c].registered = conn[c].registered
        /\ \A d \in Conns \ {c} : conn'[d] = conn[d]
    BY <1>a, <2>1 DEF ConnSet
  <2>4. ASSUME NEW d \in Conns
        PROVE  Right(d)'
    <3>1. CASE d = c
      <4>1. ~ conn[c].registered /\ ~ Ended(c)
        BY <1>b, <2>1 DEF OwnFd, Placed
      <4>2. ~ conn'[d].registered /\ ~ Ended(d)' /\ d \in Live'
        BY <2>3, <3>1, <4>1 DEF Ended, Live
      <4>3. Waiting(d)'
        BY <2>2, <3>1 DEF Waiting, Adding
      <4> QED
        BY <4>2, <4>3 DEF Right
    <3>2. CASE d # c
      <4>1. Waiting(d)' <=> Waiting(d)
        BY <1>d, <2>1, <2>2, <3>2 DEF Adding
      <4>2. /\ d \in Live' <=> d \in Live
            /\ conn'[d].registered = conn[d].registered
            /\ Ended(d)' <=> Ended(d)
        BY <2>3, <3>2 DEF Live, Ended
      <4> QED
        BY <1>b, <4>1, <4>2, SameRight
    <3> QED
      BY <3>1, <3>2
  <2> QED
    BY <1>b, <1>d, <2>1, <2>4 DEF QuietInv, Alive
<1>4. CASE Insert
  <2>1. /\ conn' = conn /\ loops' = loops /\ main.pc = "insert" /\ exited' = exited
        /\ main' = [main EXCEPT !.pc = "add"]
    BY <1>4 DEF Insert
  <2>2. main'.pc = "add" /\ main'.cur = main.cur
    BY <1>a, <2>1 DEF MainSet
  <2>3. \A d \in Conns : Waiting(d)' <=> Waiting(d)
    BY <1>d, <2>1, <2>2 DEF Adding
  <2>4. \A d \in Conns : /\ d \in Live' <=> d \in Live
                         /\ conn'[d].registered = conn[d].registered
                         /\ Ended(d)' <=> Ended(d)
    BY <2>1 DEF Live, Ended
  <2>5. \A d \in Conns : Right(d)'
    BY <1>b, <2>3, <2>4, SameRight
  <2> QED
    BY <1>b, <1>d, <2>1, <2>5 DEF QuietInv, Alive
<1>5. CASE AddChannelToLoop
  <2>0. PICK c \in Conns : c = main.cur
    BY <1>5 DEF AddChannelToLoop, CurIn
  <2>1. /\ loops' = Push(loops, "add", c) /\ conn' = conn /\ exited' = exited
        /\ main.pc = "add" /\ conn[c].state = "made"
    BY <1>5, <1>b, <2>0 DEF AddChannelToLoop, Push, MainKnows
  <2>2. main'.pc = "release"
    BY <1>5, <1>a DEF AddChannelToLoop, MainSet
  <2>3. "add" \in Kinds /\ conn[c].loop \in Loops
    BY <1>b, <2>1 DEF Kinds, Placed
  <2>4. ASSUME NEW k \in Loops
        PROVE  /\ loops'[k].walk = loops[k].walk
               /\ Queue(loops'[k]) = Queue(loops[k]) \union
                    (IF k = conn[c].loop THEN {Task("add", c)} ELSE {})
    <3>1. k \in AllLoops
      BY <1>c
    <3>2. loops'[k].walk = loops[k].walk
      BY <1>a, <2>1, <2>3, <3>1, PushSo
    <3>3. CASE k = conn[c].loop
      <4>1. Pushed(loops[k], loops'[k], Task("add", c))
        BY <1>a, <2>1, <2>3, <3>1, <3>3, PushQueue
      <4> QED
        BY <3>2, <3>3, <4>1 DEF Pushed
    <3>4. CASE k # conn[c].loop
      BY <1>a, <2>1, <2>3, <3>1, <3>4, PushQueue
    <3> QED
      BY <3>2, <3>3, <3>4
  <2>5. NoSends(loops)'
    <3>1. Task("add", c).kind # "send"
      BY DEF Task
    <3> QED
      BY <1>b, <2>4, <3>1, SameSends
  <2>6. ASSUME NEW d \in Conns
        PROVE  Waiting(d)' <=> Waiting(d)
    <3>1. CASE d = c
      <4>1. Waiting(d)
        BY <2>0, <2>1, <3>1 DEF Waiting, Adding
      <4>2. Waiting(d)'
        BY <1>c, <2>3, <2>4, <3>1 DEF Waiting
      <4> QED
        BY <4>1, <4>2
    <3>2. CASE d # c
      <4>1. Adding(d)' <=> Adding(d)
        BY <2>0, <2>2, <3>2 DEF Adding
      <4>2. Task("add", d) # Task("add", c)
        BY <3>2, TaskSo
      <4> QED
        BY <2>4, <4>1, <4>2, SameWait
    <3> QED
      BY <3>1, <3>2
  <2>7. \A d \in Conns : /\ d \in Live' <=> d \in Live
                         /\ conn'[d].registered = conn[d].registered
                         /\ Ended(d)' <=> Ended(d)
    BY <2>1 DEF Live, Ended
  <2>8. \A d \in Conns : Right(d)'
    BY <1>b, <2>6, <2>7, SameRight
  <2> QED
    BY <1>b, <2>1, <2>5, <2>8 DEF QuietInv, Alive
<1>6. CASE ReleaseLocal
  <2> DEFINE S == {main.cur} \ Referenced(Loops, {})
  <2>0. PICK c \in Conns : c = main.cur
    BY <1>6 DEF ReleaseLocal, CurIn
  <2>1. /\ Destroy(S) /\ main.pc = "release" /\ main' = Idle /\ loops' = loops
        /\ conn[c].state = "made"
    BY <1>6, <1>b, <2>0 DEF ReleaseLocal, MainKnows
  <2>2. S \subseteq {c} /\ S \cap Listed = {}
    BY <2>0, ReferencedSo
  <2> HIDE DEF S
  <2>3. \A d \in S : d \in Live /\ Ended(d)
    <3> SUFFICES ASSUME c \in S PROVE c \in Live /\ Ended(c)
      BY <2>2
    <3>1. c \in Live
      BY <2>1 DEF Live
    <3>2. conn[c].fd \in Fds
      BY <1>a, <1>b, <2>1 DEF OwnFd, ConnSet
    <3>3. list[conn[c].fd] # c
      BY <2>2, <3>2, Consts DEF Listed, Range, Typed
    <3> QED
      BY <1>b, <2>1, <3>1, <3>3 DEF MapExact
  <2>4. \A d \in Conns : Waiting(d)' <=> Waiting(d)
    BY <1>d, <2>1 DEF Adding, Idle
  <2>5. exited' = exited /\ \A d \in Conns : Right(d)'
    BY <1>a, <1>b, <2>1, <2>3, <2>4, DestroyRight
  <2> QED
    BY <1>b, <1>d, <2>1, <2>5 DEF QuietInv, Alive
<1> QED
  BY <1>1, <1>2, <1>3, <1>4, <1>5, <1>6 DEF MainStep

LEMMA LoopQuiet ==
  ASSUME Typed, CurIn, MapInv, AddInv, QuietInv, UNCHANGED threadNum, NEW l \in Loops,
         \/ LoopStep(l) \/ WalkStart(l)
         \/ \E c \in Conns : HandleClose(l, c) \/ HandleError(l, c)
  PROVE  walks' = 0 => QuietInv'
<1>a. /\ threadNum \in ThreadNums /\ conn \in [Conns -> ConnSet]
      /\ main \in MainSet /\ loops \in [AllLoops -> LoopSet] /\ walks \in Nat
      /\ list \in [Fds -> Conns \union {NoConn}]
  BY DEF Typed
<1>b. /\ MainKnows /\ OwnFd /\ MapExact /\ TasksLive(loops) /\ Placed /\ AddsOf(loops)
      /\ Alive /\ NoSends(loops) /\ \A c \in Conns : Right(c)
  BY DEF MapInv, AddInv, QuietInv
<1>c. Loops' = Loops /\ Loops \subseteq AllLoops
  BY <1>a, LoopsIn DEF Loops
<1>d. l \in AllLoops /\ loops[l] \in LoopSet
  BY <1>a, <1>c
\* A step that keeps the connections and the tasks that register them.
<1>0. ASSUME conn' = conn, main' = main, exited' = exited,
             \A k \in Loops :
               /\ loops'[k].walk = loops[k].walk
               /\ Queue(loops'[k]) \subseteq Queue(loops[k])
               /\ \A d \in Conns : Task("add", d) \in Queue(loops[k])
                                     => Task("add", d) \in Queue(loops'[k])
      PROVE  QuietInv'
  <2>1. \A d \in Conns : Waiting(d)' <=> Waiting(d)
    BY <1>0, SameWait DEF Adding
  <2>2. \A d \in Conns : /\ d \in Live' <=> d \in Live
                         /\ conn'[d].registered = conn[d].registered
                         /\ Ended(d)' <=> Ended(d)
    BY <1>0 DEF Live, Ended
  <2>3. \A d \in Conns : Right(d)'
    BY <1>b, <2>1, <2>2, SameRight
  <2>4. NoSends(loops)'
    BY <1>0, <1>b, SameSends
  <2> QED
    BY <1>0, <1>b, <2>3, <2>4 DEF QuietInv, Alive
<1>1. CASE WalkStart(l) \/ WalkStep(l)
  <2>1. ~ WalkStep(l)
    BY <1>b DEF NoSends, WalkStep
  <2>2. walks' # 0
    BY <1>1, <1>a, <2>1 DEF WalkStart
  <2> QED
    BY <2>2
<1>2. CASE Swap(l)
  <2>1. /\ conn' = conn /\ main' = main /\ exited' = exited
        /\ loops[l].phase = "dispatch"
        /\ loops' = [loops EXCEPT ![l].phase = "run", ![l].batch = loops[l].tasks,
                                  ![l].tasks = <<>>,
                                  ![l].held = HeldBy(loops[l].tasks)]
    BY <1>2 DEF Swap
  <2>2. /\ loops'[l].tasks = <<>> /\ loops'[l].batch = loops[l].tasks
        /\ loops[l].batch = <<>> /\ loops'[l].walk = loops[l].walk
        /\ \A k \in Loops \ {l} : loops'[k] = loops[k]
    BY <1>a, <1>b, <1>c, <1>d, <2>1 DEF LoopSet, AddsOf
  <2>3. Queue(loops'[l]) = Queue(loops[l])
    BY <2>2, QueueSwap
  <2> QED
    BY <1>0, <2>1, <2>2, <2>3
<1>3. CASE RunAdd(l)
  <2> DEFINE t == Head(loops[l].batch)
  <2>1. /\ main' = main /\ loops' = PopTask(l) /\ loops[l].batch # <<>>
        /\ t.kind = "add"
    BY <1>3 DEF RunAdd, NextTask
  <2>2. t \in Tasks
    BY <1>a, <1>d, <2>1, PopTypes
  <2>3. PICK c \in Conns : c = t.conn
    BY <2>2 DEF Tasks
  <2>4. t = Task("add", c)
    BY <2>1, <2>2, <2>3 DEF Tasks, Task
  <2>5. /\ Popped(loops[l], loops'[l], Task("add", c))
        /\ \A k \in Loops \ {l} : loops'[k] = loops[k]
        /\ loops'[l].walk = loops[l].walk
    BY <1>a, <1>c, <1>d, <2>1, <2>4, PopQueue
  <2>6. Task("add", c) \in Queue(loops[l])
    BY <2>5 DEF Popped
  <2>7. c \in Live /\ ~ Ended(c)
    BY <1>b, <2>6 DEF Waiting, Right
  <2>8. conn[c].loop = l /\ ~ Adding(c) /\ Single(loops[l], Task("add", c))
    BY <1>b, <2>6 DEF AddsOf
  <2>9. conn' = [conn EXCEPT ![c].registered = TRUE] /\ exited' = exited
    BY <1>3, <2>3, <2>7 DEF RunAdd, Live
  <2>a. ASSUME NEW d \in Conns
        PROVE  Right(d)'
    <3>1. CASE d = c
      <4>1. \A k \in Loops : Task("add", c) \notin Queue(loops'[k])
        <5> TAKE k \in Loops
        <5>1. CASE k = l
          BY <2>5, <2>8, <5>1 DEF Popped
        <5>2. CASE k # l
          BY <1>b, <2>5, <2>8, <5>2 DEF AddsOf
        <5> QED
          BY <5>1, <5>2
      <4>2. ~ Waiting(d)'
        BY <1>c, <2>1, <2>8, <3>1, <4>1 DEF Waiting, Adding
      <4>3. conn'[d].registered
        BY <1>a, <2>9, <3>1 DEF ConnSet
      <4> QED
        BY <4>2, <4>3 DEF Right
    <3>2. CASE d # c
      <4>1. conn'[d] = conn[d]
        BY <1>a, <2>9, <3>2
      <4>2. Task("add", d) # Task("add", c)
        BY <3>2, TaskSo
      <4>3. \A k \in Loops :
              Task("add", d) \in Queue(loops'[k]) <=> Task("add", d) \in Queue(loops[k])
        <5> TAKE k \in Loops
        <5>1. CASE k = l
          BY <2>5, <4>2, <5>1 DEF Popped
        <5>2. CASE k # l
          BY <2>5, <5>2
        <5> QED
          BY <5>1, <5>2
      <4>4. Waiting(d)' <=> Waiting(d)
        BY <2>1, <4>3, SameWait DEF Adding
      <4>5. (d \in Live' <=> d \in Live) /\ (Ended(d)' <=> Ended(d))
        BY <4>1 DEF Live, Ended
      <4> QED
        BY <1>b, <4>1, <4>4, <4>5, SameRight
    <3> QED
      BY <3>1, <3>2
  <2>b. NoSends(loops)'
    <3>1. \A k \in Loops : /\ loops'[k].walk = loops[k].walk
                           /\ Queue(loops'[k]) \subseteq Queue(loops[k])
      BY <2>5 DEF Popped
    <3> QED
      BY <1>b, <3>1, SameSends
  <2> QED
    BY <1>b, <2>9, <2>a, <2>b DEF QuietInv, Alive
<1>4. CASE RunSend(l)
  <2> DEFINE t == Head(loops[l].batch)
  <2>1. loops[l].batch # <<>> /\ t.kind = "send"
    BY <1>4 DEF RunSend, NextTask
  <2>2. t \in Queue(loops[l])
    BY <1>a, <1>d, <2>1, PopQueue DEF Popped
  <2> QED
    BY <1>b, <2>1, <2>2 DEF NoSends
<1>5. CASE RunCleanup(l)
  <2> DEFINE t == Head(loops[l].batch)
  <2>1. /\ loops[l].batch # <<>> /\ t.kind = "cleanup"
        /\ conn' = conn /\ main' = main /\ exited' = exited
        /\ loops' = [PopTask(l) EXCEPT ![l].removing = Head(loops[l].batch).conn,
                                       ![l].seen = connCount]
    BY <1>5 DEF RunCleanup, NextTask
  <2>2. PopTask(l) \in [AllLoops -> LoopSet]
    BY <1>a, <1>d, <2>1, PopTypes
  <2>3. \A k \in Loops : /\ loops'[k].tasks = PopTask(l)[k].tasks
                         /\ loops'[k].batch = PopTask(l)[k].batch
                         /\ loops'[k].walk = PopTask(l)[k].walk
    BY <1>c, <2>1, <2>2 DEF LoopSet
  <2>4. /\ Popped(loops[l], PopTask(l)[l], t)
        /\ \A k \in Loops \ {l} : PopTask(l)[k] = loops[k]
        /\ PopTask(l)[l].walk = loops[l].walk
    BY <1>a, <1>c, <1>d, <2>1, PopQueue
  <2>5. \A d : Task("add", d) # t
    BY <2>1 DEF Task
  <2> HIDE DEF t
  <2>6. \A k \in Loops : Queue(loops'[k]) = Queue(PopTask(l)[k])
    BY <2>3 DEF Queue
  <2>7. ASSUME NEW k \in Loops
        PROVE  /\ loops'[k].walk = loops[k].walk
               /\ Queue(loops'[k]) \subseteq Queue(loops[k])
               /\ \A d \in Conns : Task("add", d) \in Queue(loops[k])
                                     => Task("add", d) \in Queue(loops'[k])
    <3>1. CASE k = l
      BY <2>3, <2>4, <2>5, <2>6, <3>1 DEF Popped
    <3>2. CASE k # l
      BY <2>3, <2>4, <2>6, <3>2
    <3> QED
      BY <3>1, <3>2
  <2> QED
    BY <1>0, <2>1, <2>7
<1>6. CASE RemoveConnection(l)
  <2>1. /\ conn' = conn /\ main' = main /\ exited' = exited
        /\ loops' = [loops EXCEPT ![l].removing = NoConn, ![l].seen = 0]
    BY <1>6 DEF RemoveConnection
  <2>2. \A k \in Loops : /\ loops'[k].walk = loops[k].walk
                         /\ loops'[k].tasks = loops[k].tasks
                         /\ loops'[k].batch = loops[k].batch
    BY <1>a, <1>c, <2>1 DEF LoopSet
  <2>3. \A k \in Loops : Queue(loops'[k]) = Queue(loops[k])
    BY <2>2 DEF Queue
  <2> QED
    BY <1>0, <2>1, <2>2, <2>3
<1>7. CASE EndBatch(l)
  <2> DEFINE S == loops[l].held \ Referenced(Loops \ {l}, {main.cur})
  <2>1. /\ Destroy(S) /\ main' = main
        /\ loops' = [loops EXCEPT ![l].phase = "dispatch", ![l].held = {}]
    BY <1>7 DEF EndBatch
  <2>2. Loops \ {l} \in SUBSET Loops
    OBVIOUS
  <2>3. S \subseteq Live /\ S \cap Listed = {} /\ main.cur \notin S
    BY <1>b, <2>2, ReferencedSo DEF TasksLive
  <2> HIDE DEF S
  <2>4. \A d \in S : d \in Live /\ Ended(d)
    <3> SUFFICES ASSUME NEW d \in S PROVE Ended(d)
      BY <2>3
    <3>1. d \in Live /\ d \in Conns /\ conn[d].state = "made"
      BY <2>3 DEF Live
    <3>2. conn[d].fd \in Fds
      BY <1>a, <1>b, <3>1 DEF OwnFd, ConnSet
    <3>3. list[conn[d].fd] # d
      BY <2>3, <1>a, <3>1, <3>2, Consts DEF Listed, Range
    <3> QED
      BY <1>b, <2>3, <3>1, <3>3 DEF MapExact
  <2>5. \A k \in Loops : /\ loops'[k].walk = loops[k].walk
                         /\ loops'[k].tasks = loops[k].tasks
                         /\ loops'[k].batch = loops[k].batch
    BY <1>a, <1>c, <2>1 DEF LoopSet
  <2>6. \A k \in Loops : Queue(loops'[k]) = Queue(loops[k])
    BY <2>5 DEF Queue
  <2>7. \A d \in Conns : Waiting(d)' <=> Waiting(d)
    BY <2>1, <2>6, SameWait DEF Adding
  <2>8. exited' = exited /\ \A d \in Conns : Right(d)'
    BY <1>a, <1>b, <2>1, <2>4, <2>7, DestroyRight
  <2>9. NoSends(loops)'
    BY <1>b, <2>5, <2>6, SameSends
  <2> QED
    BY <1>b, <2>8, <2>9 DEF QuietInv, Alive
<1>8. ASSUME NEW c \in Conns, HandleClose(l, c) \/ HandleError(l, c)
      PROVE  QuietInv'
  <2>1. /\ loops' = Push(loops, "cleanup", c) /\ main' = main /\ conn[c].registered
        /\ exited' = exited
    BY <1>8 DEF HandleClose, HandleError, CleanUp, Push
  <2>2. \A d \in Conns : /\ conn'[d].state = conn[d].state
                         /\ conn'[d].registered = conn[d].registered
                         /\ d # c /\ Ended(d)' => Ended(d)
    BY <1>8, <1>a DEF HandleClose, HandleError, ConnSet, Ended
  <2>3. "cleanup" \in Kinds
    BY DEF Kinds
  <2>4. ASSUME NEW k \in Loops
        PROVE  /\ loops'[k].walk = loops[k].walk
               /\ Queue(loops'[k]) = Queue(loops[k]) \union
                    (IF k = conn[c].loop THEN {Task("cleanup", c)} ELSE {})
    <3>1. k \in AllLoops
      BY <1>c
    <3>2. loops'[k].walk = loops[k].walk
      BY <1>a, <2>1, <2>3, <3>1, PushSo
    <3>3. CASE k = conn[c].loop
      <4>1. Pushed(loops[k], loops'[k], Task("cleanup", c))
        BY <1>a, <2>1, <2>3, <3>1, <3>3, PushQueue
      <4> QED
        BY <3>2, <3>3, <4>1 DEF Pushed
    <3>4. CASE k # conn[c].loop
      BY <1>a, <2>1, <2>3, <3>1, <3>4, PushQueue
    <3> QED
      BY <3>2, <3>3, <3>4
  <2>5. NoSends(loops)'
    <3>1. Task("cleanup", c).kind # "send"
      BY DEF Task
    <3> QED
      BY <1>b, <2>4, <3>1, SameSends
  <2>6. ASSUME NEW d \in Conns
        PROVE  Waiting(d)' <=> Waiting(d)
    <3>1. Task("add", d) # Task("cleanup", c)
      BY TaskSo
    <3> QED
      BY <2>1, <2>4, <3>1, SameWait DEF Adding
  <2>7. ~ Waiting(c)
    BY <1>b, <2>1 DEF Right
  <2>8. \A d \in Conns : d \in Live' <=> d \in Live
    BY <2>2 DEF Live
  <2>9. \A d \in Conns : Right(d)'
    BY <1>b, <2>2, <2>6, <2>7, <2>8, SameRight
  <2> QED
    BY <1>b, <2>1, <2>5, <2>9 DEF QuietInv, Alive
<1> QED
  BY <1>1, <1>2, <1>3, <1>4, <1>5, <1>6, <1>7, <1>8 DEF LoopStep

\* walks only grows.
LEMMA WalksGrow ==
  ASSUME Typed, [Next]_vars
  PROVE  walks' = 0 => walks = 0
<1>1. walks \in Nat
  BY DEF Typed
<1>2. walks' = walks \/ walks' = walks + 1
  BY DEF Next, Step, Accept, MainStep, Rest, LoopStep, Reject, MakeConnection,
         Insert, AddChannelToLoop, ReleaseLocal, WalkStep, Swap, RunAdd, RunSend,
         RunCleanup, RemoveConnection, EndBatch, WalkStart, HandleClose,
         HandleError, vars
<1> QED
  BY <1>1, <1>2

LEMMA InitSurv == Init => SurvInv
<1> SUFFICES ASSUME Init PROVE QuietInv
  BY DEF SurvInv
<1>1. Loops \subseteq AllLoops
  BY LoopsIn DEF Init
<1>2. Range(<<>>) = {}
  BY DEF Range
<1>3. \A l \in Loops : Queue(loops[l]) = {} /\ loops[l].walk = 0
  BY <1>1, <1>2 DEF Init, Queue
<1>4. \A c \in Conns : ~ Waiting(c) /\ c \notin Live
  BY <1>3 DEF Init, Idle, Waiting, Adding, Live
<1> QED
  BY <1>3, <1>4 DEF Init, QuietInv, Alive, NoSends, Right

\* Unless a handler walks over tcpConnList_ and sends, the process lives: every
\* Channel* that addChannelToLoop queued is of a living connection when its
\* task runs, and every epoll_ctl is of a channel that is registered, or, to
\* add it, is not (TcpConnection.cpp:128; Poller.cpp:110, 130, 142).
THEOREM QuietSurvives == Spec => []Survives
<1>1. Init => Typed /\ CurIn /\ MapInv /\ AddInv /\ SurvInv
  BY InitTypes, InitMap, InitAdds, InitSurv
<1>2. ASSUME Typed, CurIn, MapInv, [Next]_vars
      PROVE  Typed' /\ CurIn' /\ MapInv'
  BY <1>2, StepTypes, StepMap
<1>3. ASSUME Typed, CurIn, MapInv, AddInv, SurvInv, [Next]_vars
      PROVE  SurvInv'
  <2> SUFFICES ASSUME walks' = 0 PROVE QuietInv'
    BY DEF SurvInv
  <2>1. QuietInv
    BY <1>3, WalksGrow DEF SurvInv
  <2>2. CASE UNCHANGED vars
    BY <2>1, <2>2 DEF vars, QuietInv, Alive, NoSends, Right, Waiting, Adding, Live,
                      Ended, Loops
  <2>3. CASE Next /\ ((\E c \in Conns : Accept(c)) \/ MainStep)
    BY <1>3, <2>1, <2>3, MainQuiet DEF Next
  <2>4. CASE Next /\ \E l \in Loops : \/ LoopStep(l) \/ WalkStart(l)
                                      \/ \E c \in Conns : HandleClose(l, c) \/ HandleError(l, c)
    <3>1. PICK l \in Loops : \/ LoopStep(l) \/ WalkStart(l)
                             \/ \E c \in Conns : HandleClose(l, c) \/ HandleError(l, c)
      BY <2>4
    <3> QED
      BY <1>3, <2>1, <2>4, <3>1, LoopQuiet DEF Next
  <2> QED
    BY <1>3, <2>2, <2>3, <2>4 DEF Next, Step, Rest
<1>4. Typed /\ CurIn /\ MapInv /\ AddInv /\ SurvInv /\ [Next]_vars
        => Typed' /\ CurIn' /\ MapInv' /\ AddInv' /\ SurvInv'
  BY <1>2, <1>3, StepAdds
<1>5. SurvInv => Survives
  BY DEF SurvInv, QuietInv, Survives
<1> QED
  BY <1>1, <1>4, <1>5, PTL DEF Spec

-----------------------------------------------------------------------------
(* connCount_ on a single loop                                               *)

Rejected == {c \in Conns : conn[c].state = "rejected"}

\* No failed send was ever seen, which may clean a connection up twice.
NoFailedSend == \A c \in Conns : conn[c].erred # "send"

\* A connection of the map has at most one cleanup task, and none when it is
\* being removed.
CleanOnce(q) ==
  \A c \in Conns : /\ Single(q, Task("cleanup", c))
                   /\ Task("cleanup", c) \in Queue(q) =>
                        c \in Listed /\ c # q.removing

\* The counter is the size of the map and of what was refused, one ahead of it
\* while a new connection is not yet in the map; and what a thread read of it
\* still is its value when that thread writes it.
Counts(q) ==
  /\ main.pc # "idle" => q.removing = NoConn
  /\ connCount = Cardinality(Listed) + Cardinality(Rejected)
                 + (IF main.pc = "insert" THEN 1 ELSE 0)
  /\ main.pc = "count" => main.seen = connCount
  /\ main.pc = "insert" => main.cur \notin Listed
  /\ q.removing # NoConn => q.seen = connCount /\ q.removing \in Listed
  /\ CleanOnce(q)

CountInv == threadNum = 0 /\ NoFailedSend => Counts(loops[MainLoop])

\* A failed send is remembered.
LEMMA FailedStays ==
  ASSUME Typed, [Next]_vars, NoFailedSend'
  PROVE  NoFailedSend
<1>a. conn \in [Conns -> ConnSet]
  BY DEF Typed
<1>b. ASSUME NEW S, Destroy(S)
      PROVE  \A d \in Conns : conn'[d].erred = conn[d].erred
  <2>1. CASE conn' = conn
    BY <2>1
  <2>2. CASE conn' # conn
    <3>1. conn' = [d \in Conns |-> IF d \in S THEN [conn[d] EXCEPT !.state = "destroyed",
                                                                 !.fd = 0,
                                                                 !.registered = FALSE]
                                            ELSE conn[d]]
      BY <1>b, <2>2 DEF Destroy
    <3> QED
      BY <1>a, <3>1 DEF ConnSet
  <2> QED
    BY <2>1, <2>2
<1>c. ASSUME NEW c, NEW ls, SendInLoop(c, ls)
      PROVE  \A d \in Conns : conn[d].erred = "send" => conn'[d].erred = "send"
  <2>1. CASE conn' = conn
    BY <2>1
  <2>2. CASE conn' = [conn EXCEPT ![c].erred = "send"]
    BY <1>a, <2>2 DEF ConnSet
  <2> QED
    BY <1>c, <2>1, <2>2 DEF SendInLoop
<1>d. ASSUME NEW l, NEW f, SendTo(l, f)
      PROVE  \A d \in Conns : conn[d].erred = "send" => conn'[d].erred = "send"
  BY <1>c, <1>d DEF SendTo
<1> SUFFICES \A d \in Conns : conn[d].erred = "send" => conn'[d].erred = "send"
  BY DEF NoFailedSend
<1>1. CASE UNCHANGED conn
  BY <1>1
<1>2. CASE \E c \in Conns : Accept(c)
  BY <1>a, <1>2 DEF Accept, ConnSet
<1>3. CASE Reject \/ MakeConnection
  BY <1>a, <1>3 DEF Reject, MakeConnection, ConnSet
<1>4. CASE Insert \/ AddChannelToLoop
  BY <1>1, <1>4 DEF Insert, AddChannelToLoop
<1>5. CASE ReleaseLocal
  BY <1>b, <1>5 DEF ReleaseLocal
<1>6. ASSUME NEW l \in Loops, WalkStart(l)
      PROVE  \A d \in Conns : conn[d].erred = "send" => conn'[d].erred = "send"
  BY <1>d, <1>6 DEF WalkStart
<1>7. ASSUME NEW l \in Loops, WalkStep(l)
      PROVE  \A d \in Conns : conn[d].erred = "send" => conn'[d].erred = "send"
  BY <1>d, <1>1, <1>7 DEF WalkStep
<1>8. ASSUME NEW l \in Loops, Swap(l) \/ RunCleanup(l) \/ RemoveConnection(l)
      PROVE  \A d \in Conns : conn[d].erred = "send" => conn'[d].erred = "send"
  BY <1>1, <1>8 DEF Swap, RunCleanup, RemoveConnection
<1>9. ASSUME NEW l \in Loops, RunAdd(l)
      PROVE  \A d \in Conns : conn[d].erred = "send" => conn'[d].erred = "send"
  <2>1. CASE conn' = [conn EXCEPT ![Head(loops[l].batch).conn].registered = TRUE]
    BY <1>a, <2>1 DEF ConnSet
  <2> QED
    BY <1>1, <1>9, <2>1 DEF RunAdd
<1>10. ASSUME NEW l \in Loops, RunSend(l)
       PROVE  \A d \in Conns : conn[d].erred = "send" => conn'[d].erred = "send"
  BY <1>c, <1>10 DEF RunSend
<1>11. ASSUME NEW l \in Loops, EndBatch(l)
       PROVE  \A d \in Conns : conn[d].erred = "send" => conn'[d].erred = "send"
  BY <1>b, <1>11 DEF EndBatch
<1>12. ASSUME NEW l \in Loops, NEW c \in Conns, HandleClose(l, c) \/ HandleError(l, c)
       PROVE  \A d \in Conns : conn[d].erred = "send" => conn'[d].erred = "send"
  BY <1>a, <1>12 DEF HandleClose, HandleError, ConnSet
<1> QED
  BY <1>1, <1>2, <1>3, <1>4, <1>5, <1>6, <1>7, <1>8, <1>9, <1>10, <1>11, <1>12
  DEF Next, Step, MainStep, LoopStep, Rest, vars

LEMMA Finite ==
  ASSUME Typed
  PROVE  /\ IsFiniteSet(Listed) /\ Cardinality(Listed) \in Nat
         /\ IsFiniteSet(Rejected) /\ Cardinality(Rejected) \in Nat
         /\ Listed \subseteq Conns
<1>1. Listed \subseteq Conns /\ Rejected \subseteq Conns
  BY DEF Typed, Listed, Range, Rejected
<1> QED
  BY <1>1, ServerAssumption, FS_Subset, FS_CardinalityType

\* A step that neither counts, lists nor refuses, and queues no cleanup.
LEMMA SameCount ==
  ASSUME NEW q, Counts(q), connCount' = connCount, list' = list,
         Rejected' = Rejected,
         main' = main \/ (main.pc # "idle" /\ main'.pc # "count" /\ main'.pc # "insert"
                            /\ main.pc # "insert"),
         loops'[MainLoop].removing = q.removing, loops'[MainLoop].seen = q.seen,
         \A c \in Conns :
           /\ Single(q, Task("cleanup", c)) => Single(loops'[MainLoop], Task("cleanup", c))
           /\ Task("cleanup", c) \in Queue(loops'[MainLoop])
                => Task("cleanup", c) \in Queue(q)
  PROVE  Counts(loops[MainLoop])'
<1>1. Listed' = Listed
  BY DEF Listed
<1> QED
  BY <1>1 DEF Counts, CleanOnce

LEMMA DestroyRejected ==
  ASSUME conn \in [Conns -> ConnSet], NEW S, Destroy(S),
         \A d \in S : conn[d].state = "made"
  PROVE  Rejected' = Rejected
<1>1. CASE conn' = conn
  BY <1>1 DEF Rejected
<1>2. CASE conn' # conn
  <2>1. conn' = [d \in Conns |-> IF d \in S THEN [conn[d] EXCEPT !.state = "destroyed",
                                                               !.fd = 0,
                                                               !.registered = FALSE]
                                          ELSE conn[d]]
    BY <1>2 DEF Destroy
  <2>2. \A d \in Conns : conn'[d].state = "rejected" <=> conn[d].state = "rejected"
    BY <2>1 DEF ConnSet
  <2> QED
    BY <2>2 DEF Rejected
<1> QED
  BY <1>1, <1>2

LEMMA MainCount ==
  ASSUME Typed, CurIn, MapInv, Placed, threadNum = 0, UNCHANGED threadNum,
         Counts(loops[MainLoop]), (\E c \in Conns : Accept(c)) \/ MainStep
  PROVE  Counts(loops[MainLoop])'
<1>a. /\ threadNum \in ThreadNums /\ conn \in [Conns -> ConnSet]
      /\ main \in MainSet /\ loops \in [AllLoops -> LoopSet]
      /\ list \in [Fds -> Conns \union {NoConn}] /\ connCount \in Int
  BY DEF Typed
<1>b. MainKnows /\ OwnFd /\ MapExact /\ Loops = {MainLoop} /\ MainLoop \in AllLoops
  BY Consts DEF MapInv, Loops
<1>c. /\ IsFiniteSet(Listed) /\ Cardinality(Listed) \in Nat
      /\ IsFiniteSet(Rejected) /\ Cardinality(Rejected) \in Nat
  BY Finite
<1>d. /\ main.pc # "idle" => loops[MainLoop].removing = NoConn
      /\ connCount = Cardinality(Listed) + Cardinality(Rejected)
                     + (IF main.pc = "insert" THEN 1 ELSE 0)
      /\ main.pc = "count" => main.seen = connCount
      /\ main.pc = "insert" => main.cur \notin Listed
      /\ CleanOnce(loops[MainLoop])
  BY DEF Counts
<1>1. ASSUME NEW c \in Conns, Accept(c)
      PROVE  Counts(loops[MainLoop])'
  <2>1. PICK f \in FreeFds : conn' = [conn EXCEPT ![c].state = "accepted", ![c].fd = f]
    BY <1>1 DEF Accept
  <2>2. /\ conn[c].state = "none" /\ main.pc = "idle" /\ loops' = loops /\ list' = list
        /\ main' = [pc |-> "count", cur |-> c, seen |-> connCount]
        /\ connCount' = connCount /\ loops[MainLoop].removing = NoConn
    BY <1>1, <1>b DEF Accept, MainFree, Free
  <2>3. /\ conn'[c].state = "accepted"
        /\ \A d \in Conns \ {c} : conn'[d] = conn[d]
    BY <1>a, <2>1 DEF ConnSet
  <2>4. Rejected' = Rejected /\ Listed' = Listed
    BY <2>2, <2>3 DEF Rejected, Listed
  <2> QED
    BY <1>d, <2>2, <2>4 DEF Counts, CleanOnce
<1>2. CASE Reject
  <2>0. PICK c \in Conns : c = main.cur
    BY <1>2 DEF Reject, CurIn
  <2>1. /\ conn' = [conn EXCEPT ![c].state = "rejected", ![c].fd = 0]
        /\ conn[c].state = "accepted" /\ loops' = loops /\ main.pc = "count"
        /\ main' = Idle /\ list' = list /\ connCount' = main.seen + 1
    BY <1>2, <1>b, <2>0 DEF Reject, MainKnows
  <2>2. /\ conn'[c].state = "rejected"
        /\ \A d \in Conns \ {c} : conn'[d] = conn[d]
    BY <1>a, <2>1 DEF ConnSet
  <2>3. Rejected' = Rejected \union {c} /\ c \notin Rejected /\ Listed' = Listed
    BY <2>1, <2>2 DEF Rejected, Listed
  <2>4. Cardinality(Rejected') = Cardinality(Rejected) + 1
    BY <1>c, <2>3, FS_AddElement
  <2>5. connCount' = Cardinality(Listed') + Cardinality(Rejected')
    BY <1>c, <1>d, <2>1, <2>3, <2>4
  <2>6. main'.pc = "idle" /\ CleanOnce(loops[MainLoop])'
    BY <1>d, <2>1, <2>3 DEF CleanOnce, Idle
  <2>7. loops'[MainLoop].removing = NoConn
    BY <1>d, <2>1
  <2> QED
    BY <2>5, <2>6, <2>7 DEF Counts
<1>3. CASE MakeConnection
  <2>0. PICK c \in Conns : c = main.cur
    BY <1>3 DEF MakeConnection, CurIn
  <2>1. /\ conn' = [conn EXCEPT ![c].state = "made", ![c].loop = NextLoop]
        /\ conn[c].state = "accepted" /\ loops' = loops /\ main.pc = "count"
        /\ main' = [main EXCEPT !.pc = "insert"] /\ list' = list
        /\ connCount' = main.seen + 1
    BY <1>3, <1>b, <2>0 DEF MakeConnection, MainKnows
  <2>2. main'.pc = "insert" /\ main'.cur = c
    BY <1>a, <2>0, <2>1 DEF MainSet
  <2>3. /\ conn'[c].state = "made"
        /\ \A d \in Conns \ {c} : conn'[d] = conn[d]
    BY <1>a, <2>1 DEF ConnSet
  <2>4. Rejected' = Rejected /\ Listed' = Listed
    BY <2>1, <2>3 DEF Rejected, Listed
  <2>5. c \notin Listed
    <3>1. c \notin Live
      BY <2>1 DEF Live
    <3> QED
      BY <1>a, <1>b, <3>1 DEF MapExact, Listed, Range
  <2>6. connCount' = Cardinality(Listed') + Cardinality(Rejected') + 1
    BY <1>c, <1>d, <2>1, <2>4
  <2> QED
    BY <1>d, <2>1, <2>2, <2>4, <2>5, <2>6 DEF Counts, CleanOnce
<1>4. CASE Insert
  <2>0. PICK c \in Conns : c = main.cur
    BY <1>4 DEF Insert, CurIn
  <2>1. /\ conn' = conn /\ loops' = loops /\ main.pc = "insert"
        /\ main' = [main EXCEPT !.pc = "add"] /\ connCount' = connCount
        /\ list' = [list EXCEPT ![conn[c].fd] = c] /\ conn[c].state = "made"
    BY <1>4, <1>b, <2>0 DEF Insert, MainKnows
  <2>2. main'.pc = "add"
    BY <1>a, <2>1 DEF MainSet
  <2>3. PICK f \in Fds : f = conn[c].fd
    BY <1>a, <1>b, <2>1 DEF OwnFd, ConnSet
  <2>4. c \notin Listed
    BY <1>d, <2>0, <2>1
  <2>5. list[f] = NoConn
    <3> SUFFICES ASSUME list[f] # NoConn PROVE FALSE
      OBVIOUS
    <3>1. list[f] \in Conns /\ conn[list[f]].fd = f /\ list[f] \in Listed
      BY <1>a, <1>b DEF MapExact, Listed, Range
    <3>2. f # 0
      BY Consts
    <3>3. list[f] = c
      BY <1>b, <2>3, <3>1, <3>2 DEF OwnFd
    <3> QED
      BY <2>4, <3>1, <3>3
  <2>6. /\ list' = [list EXCEPT ![f] = c]
        /\ list'[f] = c /\ \A g \in Fds \ {f} : list'[g] = list[g]
        /\ list' \in [Fds -> Conns \union {NoConn}]
    BY <1>a, <2>1, <2>3
  <2>7. Listed' = Listed \union {c}
    <3>1. Range(list) = {list[g] : g \in Fds} /\ Range(list') = {list'[g] : g \in Fds}
      BY <1>a, <2>6 DEF Range
    <3>2. c # NoConn
      BY Consts
    <3>3. Listed = {list[g] : g \in Fds} \ {NoConn}
      BY <3>1 DEF Listed
    <3>4. Listed' = {list'[g] : g \in Fds} \ {NoConn}
      BY <3>1 DEF Listed
    <3> QED
      BY <2>5, <2>6, <3>2, <3>3, <3>4
  <2>8. Cardinality(Listed') = Cardinality(Listed) + 1
    BY <1>c, <2>4, <2>7, FS_AddElement
  <2>9. Rejected' = Rejected
    BY <2>1 DEF Rejected
  <2>10. connCount' = Cardinality(Listed') + Cardinality(Rejected')
    BY <1>c, <1>d, <2>1, <2>8, <2>9
  <2>11. CleanOnce(loops[MainLoop])'
    BY <1>d, <2>1, <2>7 DEF CleanOnce
  <2>12. loops'[MainLoop].removing = NoConn
    BY <1>d, <2>1
  <2> QED
    BY <2>2, <2>10, <2>11, <2>12 DEF Counts
<1>5. CASE AddChannelToLoop
  <2>0. PICK c \in Conns : c = main.cur
    BY <1>5 DEF AddChannelToLoop, CurIn
  <2>1. /\ loops' = Push(loops, "add", c) /\ conn' = conn /\ list' = list
        /\ main.pc = "add" /\ conn[c].state = "made" /\ connCount' = connCount
        /\ main' = [main EXCEPT !.pc = "release"]
    BY <1>5, <1>b, <2>0 DEF AddChannelToLoop, Push, MainKnows
  <2>2. main'.pc = "release"
    BY <1>a, <2>1 DEF MainSet
  <2>3. "add" \in Kinds /\ conn[c].loop = MainLoop
    BY <1>b, <2>1 DEF Kinds, Placed
  <2>4. /\ loops'[MainLoop].removing = loops[MainLoop].removing
        /\ loops'[MainLoop].seen = loops[MainLoop].seen
    BY <1>a, <1>b, <2>1, <2>3, PushSo
  <2>5. Pushed(loops[MainLoop], loops'[MainLoop], Task("add", c))
    BY <1>a, <1>b, <2>1, <2>3, PushQueue
  <2>6. \A d : Task("cleanup", d) # Task("add", c)
    BY TaskSo
  <2>7. \A d \in Conns :
           /\ Single(loops[MainLoop], Task("cleanup", d))
                => Single(loops'[MainLoop], Task("cleanup", d))
           /\ Task("cleanup", d) \in Queue(loops'[MainLoop])
                => Task("cleanup", d) \in Queue(loops[MainLoop])
    BY <2>5, <2>6 DEF Pushed
  <2>8. Rejected' = Rejected
    BY <2>1 DEF Rejected
  <2> QED
    BY <2>1, <2>2, <2>4, <2>7, <2>8, SameCount
<1>6. CASE ReleaseLocal
  <2> DEFINE S == {main.cur} \ Referenced(Loops, {})
  <2>0. PICK c \in Conns : c = main.cur
    BY <1>6 DEF ReleaseLocal, CurIn
  <2>1. /\ Destroy(S) /\ main.pc = "release" /\ main' = Idle /\ loops' = loops
        /\ conn[c].state = "made" /\ list' = list /\ connCount' = connCount
    BY <1>6, <1>b, <2>0 DEF ReleaseLocal, MainKnows
  <2>2. \A d \in S : conn[d].state = "made"
    BY <2>0, <2>1
  <2> HIDE DEF S
  <2>3. Rejected' = Rejected
    BY <1>a, <2>1, <2>2, DestroyRejected
  <2> QED
    BY <2>1, <2>3, SameCount DEF Idle
<1> QED
  BY <1>1, <1>2, <1>3, <1>4, <1>5, <1>6 DEF MainStep

LEMMA LoopCount ==
  ASSUME Typed, CurIn, MapInv, AddInv, threadNum = 0, UNCHANGED threadNum,
         Counts(loops[MainLoop]), NoFailedSend, NoFailedSend', NEW l \in Loops,
         \/ LoopStep(l) \/ WalkStart(l)
         \/ \E c \in Conns : HandleClose(l, c) \/ HandleError(l, c)
  PROVE  Counts(loops[MainLoop])'
<1> DEFINE q == loops[MainLoop]
<1>a. /\ threadNum \in ThreadNums /\ conn \in [Conns -> ConnSet]
      /\ main \in MainSet /\ loops \in [AllLoops -> LoopSet]
      /\ list \in [Fds -> Conns \union {NoConn}] /\ connCount \in Int
  BY DEF Typed
<1>b. /\ MainKnows /\ OwnFd /\ MapExact /\ TasksLive(loops) /\ Placed /\ AddsOf(loops)
      /\ Loops = {MainLoop} /\ MainLoop \in AllLoops /\ l = MainLoop
  BY Consts DEF MapInv, AddInv, Loops
<1>c. /\ IsFiniteSet(Listed) /\ Cardinality(Listed) \in Nat
      /\ IsFiniteSet(Rejected) /\ Cardinality(Rejected) \in Nat
      /\ Listed \subseteq Conns /\ NoConn \notin Conns
  BY Finite, Consts
<1>d. /\ main.pc # "idle" => q.removing = NoConn
      /\ connCount = Cardinality(Listed) + Cardinality(Rejected)
                     + (IF main.pc = "insert" THEN 1 ELSE 0)
      /\ main.pc = "count" => main.seen = connCount
      /\ main.pc = "insert" => main.cur \notin Listed
      /\ q.removing # NoConn => q.seen = connCount /\ q.removing \in Listed
      /\ CleanOnce(q)
  BY DEF Counts
<1>e. q \in LoopSet /\ "cleanup" \in Kinds /\ "send" \in Kinds
  BY <1>a, <1>b DEF Kinds
\* Sends that do not fail leave connections and tasks alone.
<1>f. ASSUME NEW c \in Conns, NEW ls, SendEffect(c, ls)
      PROVE  conn' = conn /\ loops' = ls /\ list' = list
  <2>1. conn' # [conn EXCEPT ![c].erred = "send"]
    <3> SUFFICES ASSUME conn' = [conn EXCEPT ![c].erred = "send"] PROVE FALSE
      OBVIOUS
    <3>1. conn'[c].erred = "send"
      BY <1>a DEF ConnSet
    <3> QED
      BY <3>1 DEF NoFailedSend
  <2> QED
    BY <1>f, <2>1 DEF SendEffect
\* A step that only moves or takes tasks.
<1>0. ASSUME NEW r, r = loops'[MainLoop], conn' = conn, list' = list, main' = main,
             connCount' = connCount, r.removing = q.removing, r.seen = q.seen,
             \A c \in Conns :
               /\ Single(q, Task("cleanup", c)) => Single(r, Task("cleanup", c))
               /\ Task("cleanup", c) \in Queue(r) => Task("cleanup", c) \in Queue(q)
      PROVE  Counts(loops[MainLoop])'
  <2>1. Rejected' = Rejected
    BY <1>0 DEF Rejected
  <2> QED
    BY <1>0, <2>1, SameCount
<1>1. CASE WalkStart(l) \/ WalkStep(l)
  <2>1. main' = main /\ connCount' = connCount
    BY <1>1, WalkStepSo
  <2>2. CASE \E f \in Fds : list[f] # NoConn /\ WalkEffect(l, f)
    <3>1. PICK f \in Fds : list[f] # NoConn /\ WalkEffect(l, f)
      BY <2>2
    <3>2. PICK c \in Conns : c = list[f]
      BY <1>a, <3>1
    <3>3. PICK w \in [AllLoops -> LoopSet] : w = WalkTo(l, f)
      BY <1>a, <1>b, <1>e DEF WalkTo, LoopSet
    <3>4. /\ w[MainLoop].tasks = q.tasks /\ w[MainLoop].batch = q.batch
          /\ w[MainLoop].removing = q.removing /\ w[MainLoop].seen = q.seen
      BY <1>a, <1>b, <1>e, <3>3 DEF WalkTo, LoopSet
    <3>5. Queue(w[MainLoop]) = Queue(q) /\ \A t : Single(q, t) => Single(w[MainLoop], t)
      BY <3>4 DEF Queue, Single
    <3>6. CASE SendEffect(c, w)
      <4>1. conn' = conn /\ loops' = w /\ list' = list
        BY <1>f, <3>6
      <4> QED
        BY <1>0, <2>1, <3>4, <3>5, <4>1
    <3>7. CASE list' = list /\ conn' = conn /\ loops' = Push(w, "send", c)
      <4>1. /\ loops'[MainLoop].removing = w[MainLoop].removing
            /\ loops'[MainLoop].seen = w[MainLoop].seen
        BY <1>b, <1>e, <3>7, PushSo
      <4>2. \A d : Task("cleanup", d) # Task("send", c)
        BY TaskSo
      <4>3. \A d \in Conns :
              /\ Single(w[MainLoop], Task("cleanup", d))
                   => Single(loops'[MainLoop], Task("cleanup", d))
              /\ Task("cleanup", d) \in Queue(loops'[MainLoop])
                   => Task("cleanup", d) \in Queue(w[MainLoop])
        <5>1. CASE conn[c].loop = MainLoop
          <6>1. Pushed(w[MainLoop], loops'[MainLoop], Task("send", c))
            BY <1>b, <1>e, <3>7, <5>1, PushQueue
          <6> QED
            BY <4>2, <6>1 DEF Pushed
        <5>2. CASE conn[c].loop # MainLoop
          BY <1>b, <1>e, <3>7, <5>2, PushQueue
        <5> QED
          BY <5>1, <5>2
      <4> QED
        BY <1>0, <2>1, <3>4, <3>5, <3>7, <4>1, <4>3
    <3> QED
      BY <3>1, <3>2, <3>3, <3>6, <3>7 DEF WalkEffect
  <2>3. CASE /\ UNCHANGED <<conn, list>>
             /\ loops' = loops \/ loops' = [loops EXCEPT ![l].walk = 0]
    <3>1. /\ loops'[MainLoop].tasks = q.tasks /\ loops'[MainLoop].batch = q.batch
          /\ loops'[MainLoop].removing = q.removing /\ loops'[MainLoop].seen = q.seen
      <4>1. CASE loops' = loops
        BY <4>1
      <4>2. CASE loops' = [loops EXCEPT ![l].walk = 0]
        BY <1>a, <1>b, <1>e, <4>2 DEF LoopSet
      <4> QED
        BY <2>3, <4>1, <4>2
    <3>2. /\ Queue(loops'[MainLoop]) = Queue(q)
          /\ \A t : Single(q, t) => Single(loops'[MainLoop], t)
      BY <3>1 DEF Queue, Single
    <3> QED
      BY <1>0, <2>1, <2>3, <3>1, <3>2
  <2> QED
    BY <1>1, <2>2, <2>3, WalkStepSo
<1>2. CASE Swap(l)
  <2>1. /\ conn' = conn /\ main' = main /\ list' = list /\ connCount' = connCount
        /\ q.phase = "dispatch"
        /\ loops' = [loops EXCEPT ![l].phase = "run", ![l].batch = loops[l].tasks,
                                  ![l].tasks = <<>>,
                                  ![l].held = HeldBy(loops[l].tasks)]
    BY <1>2, <1>b DEF Swap
  <2>2. /\ loops'[MainLoop].tasks = <<>> /\ loops'[MainLoop].batch = q.tasks
        /\ loops'[MainLoop].removing = q.removing /\ loops'[MainLoop].seen = q.seen
        /\ q.batch = <<>>
    BY <1>a, <1>b, <1>e, <2>1 DEF LoopSet, AddsOf
  <2>3. /\ Queue(loops'[MainLoop]) = Queue(q)
        /\ \A t : Single(q, t) => Single(loops'[MainLoop], t)
    BY <2>2, QueueSwap
  <2> QED
    BY <1>0, <2>1, <2>2, <2>3
<1>3. ASSUME q.batch # <<>>
      PROVE  /\ Popped(q, PopTask(l)[MainLoop], Head(q.batch))
             /\ PopTask(l)[MainLoop].removing = q.removing
             /\ PopTask(l)[MainLoop].seen = q.seen
             /\ PopTask(l) \in [AllLoops -> LoopSet]
             /\ Head(q.batch) \in Tasks
  BY <1>a, <1>b, <1>3, PopQueue, PopTypes
<1>4. CASE RunAdd(l)
  <2>1. /\ main' = main /\ list' = list /\ connCount' = connCount /\ q.batch # <<>>
        /\ loops' = PopTask(l)
    BY <1>4, <1>b DEF RunAdd, NextTask
  <2>2. Rejected' = Rejected
    <3>1. CASE conn' = conn
      BY <3>1 DEF Rejected
    <3>2. CASE conn' # conn
      <4>1. conn' = [conn EXCEPT ![Head(q.batch).conn].registered = TRUE]
        BY <1>4, <1>b, <3>2 DEF RunAdd
      <4>2. \A d \in Conns : conn'[d].state = conn[d].state
        BY <1>a, <4>1 DEF ConnSet
      <4> QED
        BY <4>2 DEF Rejected
    <3> QED
      BY <3>1, <3>2
  <2> QED
    BY <1>3, <2>1, <2>2, SameCount DEF Popped
<1>5. CASE RunSend(l)
  <2> DEFINE t == Head(q.batch)
  <2>1. /\ main' = main /\ connCount' = connCount /\ q.batch # <<>>
        /\ SendInLoop(t.conn, PopTask(l))
    BY <1>5, <1>b DEF RunSend, NextTask
  <2>2. t.conn \in Conns
    BY <1>3, <2>1 DEF Tasks
  <2>3. conn' = conn /\ loops' = PopTask(l) /\ list' = list
    BY <1>f, <2>1, <2>2, SendsSo
  <2> QED
    BY <1>0, <1>3, <2>1, <2>3 DEF Popped
<1>6. CASE RunCleanup(l)
  <2> DEFINE t == Head(q.batch)
  <2>1. /\ q.batch # <<>> /\ t.kind = "cleanup" /\ main.pc = "idle"
        /\ conn' = conn /\ main' = main /\ list' = list /\ connCount' = connCount
        /\ loops' = [PopTask(l) EXCEPT ![l].removing = t.conn, ![l].seen = connCount]
    BY <1>6, <1>b DEF RunCleanup, NextTask, Free
  <2>2. t \in Tasks
    BY <1>3, <2>1
  <2>3. PICK c \in Conns : c = t.conn
    BY <2>2 DEF Tasks
  <2>4. t = Task("cleanup", c)
    BY <2>1, <2>2, <2>3 DEF Tasks, Task
  <2>5. Popped(q, PopTask(l)[MainLoop], Task("cleanup", c))
    BY <1>3, <2>1, <2>4
  <2>6. /\ loops'[MainLoop].tasks = PopTask(l)[MainLoop].tasks
        /\ loops'[MainLoop].batch = PopTask(l)[MainLoop].batch
        /\ loops'[MainLoop].removing = c /\ loops'[MainLoop].seen = connCount
    BY <1>3, <1>b, <2>1, <2>3 DEF LoopSet
  <2>7. Popped(q, loops'[MainLoop], Task("cleanup", c))
    BY <2>5, <2>6 DEF Popped, Queue, Single
  <2>8. c \in Listed /\ Task("cleanup", c) \notin Queue(loops'[MainLoop])
    BY <1>d, <2>7 DEF Popped, CleanOnce
  <2>9. Listed' = Listed /\ Rejected' = Rejected
    BY <2>1 DEF Listed, Rejected
  <2>10. CleanOnce(loops[MainLoop])'
    <3> SUFFICES ASSUME NEW d \in Conns
                 PROVE  /\ Single(loops'[MainLoop], Task("cleanup", d))
                        /\ Task("cleanup", d) \in Queue(loops'[MainLoop])
                             => d \in Listed' /\ d # loops'[MainLoop].removing
      BY DEF CleanOnce
    <3>1. Single(loops'[MainLoop], Task("cleanup", d))
      BY <1>d, <2>7 DEF Popped, CleanOnce
    <3>2. ASSUME Task("cleanup", d) \in Queue(loops'[MainLoop])
          PROVE  d \in Listed' /\ d # loops'[MainLoop].removing
      BY <1>d, <2>6, <2>7, <2>8, <2>9, <3>2 DEF Popped, CleanOnce
    <3> QED
      BY <3>1, <3>2
  <2> QED
    BY <1>d, <2>1, <2>6, <2>8, <2>9, <2>10 DEF Counts
<1>7. CASE RemoveConnection(l)
  <2>1. /\ q.removing # NoConn /\ conn' = conn /\ main' = main
        /\ connCount' = q.seen - 1
        /\ list' = [list EXCEPT ![conn[q.removing].fd] = NoConn]
        /\ loops' = [loops EXCEPT ![l].removing = NoConn, ![l].seen = 0]
    BY <1>7, <1>b DEF RemoveConnection, Remove
  <2>2. PICK c \in Conns : c = q.removing
    BY <1>c, <1>d, <2>1
  <2>3. c \in Listed /\ main.pc = "idle" /\ q.seen = connCount
    BY <1>d, <2>1, <2>2
  <2>4. PICK f \in Fds : list[f] = c
    BY <1>a, <2>3 DEF Listed, Range
  <2>5. conn[c].fd = f /\ \A g \in Fds : list[g] = c => g = f
    <3>1. \A g \in Fds : list[g] = c => conn[c].fd = g
      BY <1>b, <1>c DEF MapExact
    <3> QED
      BY <2>4, <3>1
  <2>6. /\ list'[f] = NoConn /\ \A g \in Fds \ {f} : list'[g] = list[g]
        /\ list' \in [Fds -> Conns \union {NoConn}]
    BY <1>a, <2>1, <2>2, <2>5
  <2>7. Listed' = Listed \ {c}
    <3>1. Range(list) = {list[g] : g \in Fds} /\ Range(list') = {list'[g] : g \in Fds}
      BY <1>a, <2>6 DEF Range
    <3>2. Listed = {list[g] : g \in Fds} \ {NoConn}
      BY <3>1 DEF Listed
    <3>3. Listed' = {list'[g] : g \in Fds} \ {NoConn}
      BY <3>1 DEF Listed
    <3> QED
      BY <2>4, <2>5, <2>6, <3>2, <3>3
  <2>8. Cardinality(Listed') = Cardinality(Listed) - 1
    BY <1>c, <2>3, <2>7, FS_RemoveElement
  <2>9. Rejected' = Rejected
    BY <2>1 DEF Rejected
  <2>10. connCount' = Cardinality(Listed') + Cardinality(Rejected')
    BY <1>c, <1>d, <2>1, <2>3, <2>8, <2>9
  <2>11. /\ loops'[MainLoop].removing = NoConn
         /\ loops'[MainLoop].tasks = q.tasks /\ loops'[MainLoop].batch = q.batch
    BY <1>a, <1>b, <1>e, <2>1 DEF LoopSet
  <2>12. /\ Queue(loops'[MainLoop]) = Queue(q)
         /\ \A t : Single(q, t) => Single(loops'[MainLoop], t)
    BY <2>11 DEF Queue, Single
  <2>13. CleanOnce(loops[MainLoop])'
    <3> SUFFICES ASSUME NEW d \in Conns
                 PROVE  /\ Single(loops'[MainLoop], Task("cleanup", d))
                        /\ Task("cleanup", d) \in Queue(loops'[MainLoop])
                             => d \in Listed' /\ d # loops'[MainLoop].removing
      BY DEF CleanOnce
    <3>1. /\ Single(q, Task("cleanup", d))
          /\ Task("cleanup", d) \in Queue(q) => d \in Listed /\ d # c
      BY <1>d, <2>2 DEF CleanOnce
    <3> QED
      BY <1>c, <2>7, <2>11, <2>12, <3>1
  <2>14. main'.pc = "idle"
    BY <2>1, <2>3
  <2>15. connCount' = Cardinality(Listed') + Cardinality(Rejected')
                        + (IF main'.pc = "insert" THEN 1 ELSE 0)
    <3>1. Cardinality(Listed') + Cardinality(Rejected') \in Int
      BY <1>c, <2>8, <2>9
    <3> QED
      BY <2>10, <2>14, <3>1
  <2> HIDE DEF q
  <2> QED
    BY <2>11, <2>13, <2>14, <2>15, Zenon DEF Counts
<1>8. CASE EndBatch(l)
  <2> DEFINE S == loops[l].held \ Referenced(Loops \ {l}, {main.cur})
  <2>1. /\ Destroy(S) /\ main' = main /\ list' = list /\ connCount' = connCount
        /\ loops' = [loops EXCEPT ![l].phase = "dispatch", ![l].held = {}]
    BY <1>8 DEF EndBatch
  <2>2. \A d \in S : conn[d].state = "made"
    BY <1>b DEF TasksLive, Live
  <2> HIDE DEF S
  <2>3. Rejected' = Rejected
    BY <1>a, <2>1, <2>2, DestroyRejected
  <2>4. /\ loops'[MainLoop].removing = q.removing /\ loops'[MainLoop].seen = q.seen
        /\ loops'[MainLoop].tasks = q.tasks /\ loops'[MainLoop].batch = q.batch
    BY <1>a, <1>b, <1>e, <2>1 DEF LoopSet
  <2>5. /\ Queue(loops'[MainLoop]) = Queue(q)
        /\ \A t : Single(q, t) => Single(loops'[MainLoop], t)
    BY <2>4 DEF Queue, Single
  <2> QED
    BY <2>1, <2>3, <2>4, <2>5, SameCount
<1>9. ASSUME NEW c \in Conns, HandleClose(l, c) \/ HandleError(l, c)
      PROVE  Counts(loops[MainLoop])'
  <2>1. /\ loops' = Push(loops, "cleanup", c) /\ main' = main /\ list' = list
        /\ connCount' = connCount /\ conn[c].registered /\ conn[c].loop = MainLoop
        /\ q.removing = NoConn /\ main.pc = "idle"
    BY <1>9, <1>b DEF HandleClose, HandleError, CleanUp, Push, Free
  <2>2. ~ Ended(c)
    BY <1>9, <1>a DEF HandleClose, HandleError, Ended, NoFailedSend, ConnSet
  <2>3. conn[c].state = "made"
    BY <1>b, <2>1 DEF OwnFd
  <2>4. c \in Listed
    <3>1. c \in Live /\ conn[c].fd \in Fds
      BY <1>a, <1>b, <2>3 DEF Live, OwnFd, ConnSet
    <3>2. list[conn[c].fd] = c
      BY <1>b, <2>1, <2>2, <3>1 DEF MapExact
    <3> QED
      BY <1>a, <1>c, <3>1, <3>2 DEF Listed, Range
  <2>5. Task("cleanup", c) \notin Queue(q)
    <3> SUFFICES ASSUME Task("cleanup", c) \in Queue(q) PROVE FALSE
      OBVIOUS
    <3>1. TaskLive(Task("cleanup", c))
      BY <1>b DEF TasksLive, Queue
    <3> QED
      BY <2>2, <3>1 DEF TaskLive, Task
  <2>6. Pushed(q, loops'[MainLoop], Task("cleanup", c))
    BY <1>a, <1>b, <1>e, <2>1, PushQueue
  <2>7. loops'[MainLoop].removing = NoConn
    BY <1>a, <1>b, <1>e, <2>1, PushSo
  <2>8. Listed' = Listed
    BY <2>1 DEF Listed
  <2>9. Rejected' = Rejected
    <3>1. \A d \in Conns : conn'[d].state = conn[d].state
      BY <1>9, <1>a DEF HandleClose, HandleError, ConnSet
    <3> QED
      BY <3>1 DEF Rejected
  <2>10. CleanOnce(loops[MainLoop])'
    <3> SUFFICES ASSUME NEW d \in Conns
                 PROVE  /\ Single(loops'[MainLoop], Task("cleanup", d))
                        /\ Task("cleanup", d) \in Queue(loops'[MainLoop])
                             => d \in Listed' /\ d # loops'[MainLoop].removing
      BY DEF CleanOnce
    <3>1. /\ Single(q, Task("cleanup", d))
          /\ Task("cleanup", d) \in Queue(q) => d \in Listed
      BY <1>d DEF CleanOnce
    <3>2. Task("cleanup", d) = Task("cleanup", c) => d = c
      BY TaskSo
    <3> QED
      BY <1>c, <2>4, <2>5, <2>6, <2>7, <2>8, <3>1, <3>2 DEF Pushed
  <2> QED
    BY <1>d, <2>1, <2>7, <2>8, <2>9, <2>10 DEF Counts
<1> QED
  BY <1>1, <1>2, <1>4, <1>5, <1>6, <1>7, <1>8, <1>9 DEF LoopStep

LEMMA InitCount == Init => CountInv
<1> SUFFICES ASSUME Init, threadNum = 0 PROVE Counts(loops[MainLoop])
  BY DEF CountInv
<1>1. MainLoop \in AllLoops
  BY Consts
<1>2. Range(<<>>) = {} /\ \A t : Once(<<>>, t)
  BY DEF Range, Once
<1>3. /\ loops[MainLoop].tasks = <<>> /\ loops[MainLoop].batch = <<>>
      /\ loops[MainLoop].removing = NoConn
  BY <1>1 DEF Init
<1>4. CleanOnce(loops[MainLoop])
  BY <1>2, <1>3 DEF CleanOnce, Queue, Single
<1>5. Listed = {} /\ Rejected = {}
  BY DEF Init, Listed, Range, Rejected
<1>6. Cardinality(Listed) = 0 /\ Cardinality(Rejected) = 0
  BY <1>5, FS_EmptySet
<1> QED
  BY <1>3, <1>4, <1>6 DEF Init, Idle, Counts

\* On a single loop connCount_ counts the connections of tcpConnList_ and every
\* connection ever refused, as long as no send fails (TcpServer.cpp:65-74,
\* 95-99): nothing comes between its reads and its writes there, and every
\* connection is cleaned up once.
THEOREM CountIsExact == Spec => []CountExact
<1>1. Init => Typed /\ CurIn /\ MapInv /\ AddInv /\ CountInv
  BY InitTypes, InitMap, InitAdds, InitCount
<1>2. ASSUME Typed, CurIn, MapInv, AddInv, CountInv, [Next]_vars
      PROVE  CountInv'
  <2> SUFFICES ASSUME threadNum' = 0, NoFailedSend'
               PROVE  Counts(loops[MainLoop])'
    BY DEF CountInv
  <2>1. threadNum' = threadNum /\ NoFailedSend
    BY <1>2, FailedStays DEF Next, vars
  <2>2. Counts(loops[MainLoop]) /\ threadNum = 0
    BY <1>2, <2>1 DEF CountInv
  <2>3. CASE UNCHANGED vars
    BY <2>2, <2>3 DEF vars, Counts, CleanOnce, Listed, Rejected
  <2>4. CASE Next /\ ((\E c \in Conns : Accept(c)) \/ MainStep)
    BY <1>2, <2>1, <2>2, <2>4, MainCount DEF AddInv
  <2>5. CASE Next /\ \E l \in Loops : \/ LoopStep(l) \/ WalkStart(l)
                                      \/ \E c \in Conns : HandleClose(l, c) \/ HandleError(l, c)
    <3>1. PICK l \in Loops : \/ LoopStep(l) \/ WalkStart(l)
                             \/ \E c \in Conns : HandleClose(l, c) \/ HandleError(l, c)
      BY <2>5
    <3> QED
      BY <1>2, <2>1, <2>2, <2>5, <3>1, LoopCount
  <2> QED
    BY <1>2, <2>3, <2>4, <2>5 DEF Next, Step, Rest
<1>3. Typed /\ CurIn /\ MapInv /\ AddInv /\ CountInv /\ [Next]_vars
        => Typed' /\ CurIn' /\ MapInv' /\ AddInv' /\ CountInv'
  BY <1>2, StepTypes, StepMap, StepAdds
<1>4. Typed /\ CountInv => CountExact
  <2> SUFFICES ASSUME Typed, CountInv, threadNum = 0, AtRest,
                      \A c \in Conns : conn[c].erred # "send"
               PROVE  connCount = Cardinality(Listed) + Cardinality(Rejected)
    BY DEF CountExact, Rejected
  <2>1. Counts(loops[MainLoop]) /\ main.pc = "idle"
    BY DEF CountInv, NoFailedSend, AtRest
  <2> QED
    BY <2>1, Finite DEF Counts
<1> QED
  BY <1>1, <1>3, <1>4, PTL DEF Spec
==============================================================================
