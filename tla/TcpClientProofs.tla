--------------------------- MODULE TcpClientProofs ---------------------------
(***************************************************************************)
(* Proofs about TcpClient, for any number of rounds of select, messages    *)
(* and calls of close():                                                   *)
(*   TypeCorrect     the variables keep their types;                       *)
(*   ConnectSound    what connectSocket reports as connected is            *)
(*                   (ConnectedIsConnected), however the client is used;   *)
(*   StaysClosed     a client that was closed starts no connection and is *)
(*                   never again "connected" (ClosedForGood);             *)
(*   CarefulSurvives a careful application dies of nothing but the end of  *)
(*                   its connection (Survives).                            *)
(***************************************************************************)
EXTENDS TcpClient, TLAPS, SequenceTheorems

-----------------------------------------------------------------------------
(* The order in which ~TcpClient and its members go *)

StepSet == {"quitting", "joining", "dropping", "stopping", "waiting", "freeing",
            "gone"}

LEMMA StepsAre ==
  /\ DOMAIN Steps = 1 .. 7
  /\ Steps[1] = "quitting" /\ Steps[2] = "joining" /\ Steps[3] = "dropping"
  /\ Steps[4] = "stopping" /\ Steps[5] = "waiting" /\ Steps[6] = "freeing"
  /\ Steps[7] = "gone"
  BY DEF Steps

LEMMA StepRange == {Steps[i] : i \in DOMAIN Steps} = StepSet
  BY StepsAre DEF StepSet

LEMMA AtIs == \A s \in StepSet : At(s) <=> user = s
  BY StepRange DEF At

LEMMA NextStep == \A n \in 1 .. 6 : user = Steps[n] /\ GoOn => user' = Steps[n + 1]
<1> SUFFICES ASSUME NEW n \in 1 .. 6, user = Steps[n], GoOn
             PROVE  user' = Steps[n + 1]
  OBVIOUS
<1>1. n \in DOMAIN Steps /\ \A i \in DOMAIN Steps : Steps[i] = user => i = n
  BY StepsAre
<1>2. n = CHOOSE i \in DOMAIN Steps : Steps[i] = user
  BY <1>1
<1>3. user' = Steps[1 + n]
  BY <1>2 DEF GoOn
<1> QED
  BY <1>3

LEMMA GoesOn ==
  ASSUME GoOn
  PROVE  /\ user = "quitting" => user' = "joining"
         /\ user = "joining" => user' = "dropping"
         /\ user = "dropping" => user' = "stopping"
         /\ user = "stopping" => user' = "waiting"
         /\ user = "waiting" => user' = "freeing"
         /\ user = "freeing" => user' = "gone"
<1>1. /\ user = Steps[1] => user' = Steps[1 + 1]
      /\ user = Steps[2] => user' = Steps[2 + 1]
      /\ user = Steps[3] => user' = Steps[3 + 1]
      /\ user = Steps[4] => user' = Steps[4 + 1]
      /\ user = Steps[5] => user' = Steps[5 + 1]
      /\ user = Steps[6] => user' = Steps[6 + 1]
  BY NextStep
<1> QED
  BY <1>1, StepsAre

LEMMA FreedIs == Freed => user = "gone"
  BY StepsAre DEF Freed

-----------------------------------------------------------------------------
(* Types *)

Task == {"add", "send", "cleanup"}
IoRec == [tasks : Seq(Task), registered : BOOLEAN, disc : BOOLEAN,
          phase : {"run", "quit", "left"}]
ClientRec == [connected : BOOLEAN, conn : {"null", "alive", "destroyed"},
              ref : BOOLEAN]

\* What the threads share of the connection.
SharedOK == /\ tcp \in {"idle", "syn", "done", "refused", "est", "fin", "rst",
                        "dead", "closed"}
            /\ fd \in {"own", "free", "other"}
            /\ client \in ClientRec
            /\ io \in IoRec
            /\ hist \in [ended : BOOLEAN, stranger : BOOLEAN]
            /\ exited \in {"no", "self join", "null connection",
                           "dangling channel", "dangling client", "epoll_ctl"}

\* What belongs to the application's thread and to the main loop's.
CallsOK == /\ user \in {"new", "idle", "saw", "left"} \cup StepSet
           /\ main \in {"none", "queued", "blocked", "select", "return",
                        "publish", "idle", "left"}
           /\ quit \in BOOLEAN
           /\ call \in [nonblocking : BOOLEAN, times : 0 .. Rounds, ret : {0, 1}]
           /\ used \in [sends : 0 .. MaxSends, closes : 0 .. MaxCloses]

\* The bounds on calls hold because they are tested before the call.
BoundOK == /\ user = "new" => main = "none"
           /\ user = "saw" => used.sends < MaxSends
           /\ main = "select" => call.times < Rounds
           /\ main \in {"none", "queued", "blocked"} => call.times = 0

Typed == SharedOK /\ CallsOK /\ BoundOK

LEMMA TypedIs == SharedOK /\ CallsOK => TypeOK
  BY StepRange DEF SharedOK, CallsOK, TypeOK, Task, IoRec, ClientRec

LEMMA Constants ==
  /\ Rounds \in Int /\ Rounds > 0 /\ MaxSends \in Nat /\ MaxCloses \in Nat
  BY ClientAssumption

LEMMA InitTyped == Init => Typed
<1> SUFFICES ASSUME Init PROVE Typed
  OBVIOUS
<1>1. io \in IoRec
  BY EmptySeq DEF Init, IoRec
<1>2. call.times = 0 /\ call \in [nonblocking : BOOLEAN, times : 0 .. Rounds,
                                  ret : {0, 1}]
  BY ClientAssumption, Constants DEF Init
<1>3. used \in [sends : 0 .. MaxSends, closes : 0 .. MaxCloses]
  BY Constants DEF Init
<1> QED
  BY <1>1, <1>2, <1>3 DEF Init, Typed, SharedOK, CallsOK, BoundOK, ClientRec

LEMMA CloseFdType ==
  ASSUME SharedOK, NEW next \in IoRec, CloseFd(next)
  PROVE  /\ tcp' \in {tcp, "closed"} /\ fd' = "free"
         /\ io' \in IoRec
         /\ hist' \in [ended : BOOLEAN, stranger : BOOLEAN]
  BY DEF CloseFd, SharedOK, IoRec

\* Giving up a reference leaves the connection, or destroys it, or kills the
\* process.
LEMMA ReleaseIs ==
  ASSUME NEW ref, NEW next, Release(ref, next)
  PROVE  \/ /\ client' = [client EXCEPT !.ref = ref]
            /\ io' = next
            /\ UNCHANGED <<fd, tcp, hist, exited>>
         \/ /\ ~ref /\ client.conn = "alive"
            /\ client' = [client EXCEPT !.conn = "destroyed", !.ref = FALSE]
            /\ fd = "own" /\ io.registered
            /\ CloseFd(next) /\ UNCHANGED exited
         \/ /\ ~ref /\ client.conn = "alive"
            /\ client' = [client EXCEPT !.conn = "destroyed", !.ref = FALSE]
            /\ ~(fd = "own" /\ io.registered)
            /\ exited' = "epoll_ctl" /\ io' = next /\ UNCHANGED <<fd, tcp, hist>>
  BY DEF Release, IsLast, DestroyConnection

LEMMA ReleaseType ==
  ASSUME SharedOK, NEW ref \in BOOLEAN, NEW next \in IoRec, Release(ref, next)
  PROVE  SharedOK'
<1>1. client' \in ClientRec
  BY ReleaseIs DEF SharedOK, ClientRec
<1>2. /\ tcp' \in {tcp, "closed"} /\ fd' \in {fd, "free"}
      /\ io' \in IoRec
      /\ hist' \in [ended : BOOLEAN, stranger : BOOLEAN]
      /\ exited' \in {exited, "epoll_ctl"}
  <2>1. CASE CloseFd(next) /\ UNCHANGED exited
    BY <2>1, CloseFdType DEF SharedOK
  <2>2. CASE io' = next /\ exited' \in {exited, "epoll_ctl"}
             /\ UNCHANGED <<fd, tcp, hist>>
    BY <2>2 DEF SharedOK
  <2> QED
    BY <2>1, <2>2, ReleaseIs
<1> QED
  BY <1>1, <1>2 DEF SharedOK

\* The queue of the IO thread after a task is added, or run.
LEMMA TasksType ==
  ASSUME io \in IoRec
  PROVE  /\ \A x \in Task : [io EXCEPT !.tasks = Append(@, x)] \in IoRec
         /\ io.tasks # <<>> => Next1 \in IoRec
         /\ io.tasks # <<>> =>
              \A x \in Task : [Next1 EXCEPT !.tasks = Append(@, x)] \in IoRec
<1>1. io.tasks \in Seq(Task)
  BY DEF IoRec
<1>2. \A x \in Task : Append(io.tasks, x) \in Seq(Task)
  BY <1>1
<1>3. ASSUME io.tasks # <<>>
      PROVE  /\ Tail(io.tasks) \in Seq(Task)
             /\ \A x \in Task : Append(Tail(io.tasks), x) \in Seq(Task)
  BY <1>1, <1>3
<1>4. /\ Next1.tasks = Tail(io.tasks)
      /\ io.tasks # <<>> => Next1 \in IoRec
  BY <1>3 DEF Next1, IoRec
<1> QED
  BY <1>2, <1>3, <1>4 DEF IoRec

\* A step of the owner's destructor keeps its place among the steps.
LEMMA GoType ==
  ASSUME NEW s \in StepSet, s # "gone", At(s), GoOn
  PROVE  user' \in StepSet
  BY AtIs, GoesOn DEF StepSet

\* The calls are not touched.
LEMMA KeepCalls ==
  ASSUME CallsOK, BoundOK, user' \in StepSet \/ UNCHANGED user,
         UNCHANGED <<main, quit, call, used>>
  PROVE  CallsOK' /\ BoundOK'
  BY DEF CallsOK, BoundOK, StepSet

LEMMA KeepShared ==
  ASSUME SharedOK, UNCHANGED <<tcp, fd, client, io, hist, exited>>
  PROVE  SharedOK'
  BY DEF SharedOK

LEMMA ConnectTyped ==
  ASSUME Typed, Connecting
  PROVE  Typed'
<1> USE DEF Typed
<1>1. CASE StartOnLoop
  <2>1. SharedOK'
    BY <1>1 DEF StartOnLoop, SharedOK
  <2>2. call' \in [nonblocking : BOOLEAN, times : 0 .. Rounds, ret : {0, 1}]
        /\ call'.times = call.times
    BY <1>1 DEF StartOnLoop, CallsOK
  <2>3. call.times < Rounds
    BY <1>1, Constants DEF StartOnLoop, BoundOK
  <2> QED
    BY <1>1, <2>1, <2>2, <2>3 DEF StartOnLoop, CallsOK, BoundOK
<1>2. CASE ConnectReturns
  <2>1. SharedOK'
    BY <1>2 DEF ConnectReturns, SharedOK
  <2> QED
    BY <1>2, <2>1 DEF ConnectReturns, CallsOK, BoundOK
<1>3. CASE Round
  <2>1. call.times + 1 \in 0 .. Rounds
    <3>1. call.times \in 0 .. Rounds
      BY DEF CallsOK
    <3> QED
      BY <1>3, <3>1, Constants DEF Round, BoundOK
  <2>2. tcp' \in {"idle", "syn", "done", "refused", "est", "fin", "rst", "dead",
                  "closed"}
    BY <1>3 DEF Round, RoundTimeout, RoundReady, RoundError, SharedOK
  <2>3. SharedOK'
    BY <1>3, <2>2 DEF Round, SharedOK
  <2>4. /\ call' \in [nonblocking : BOOLEAN, times : 0 .. Rounds, ret : {0, 1}]
        /\ call'.times = call.times + 1
    BY <1>3, <2>1 DEF Round, RoundTimeout, RoundReady, RoundError, CallsOK
  <2>5. /\ main' \in {"return", "select"}
        /\ main' = "select" => call.times + 1 # Rounds
    BY <1>3 DEF Round, RoundTimeout, RoundReady, RoundError
  <2>6. main' = "select" => call'.times < Rounds
    BY <2>1, <2>4, <2>5, Constants
  <2> QED
    BY <1>3, <2>3, <2>4, <2>5, <2>6 DEF Round, CallsOK, BoundOK
<1>4. CASE NewConnection
  <2>1. SharedOK'
    <3>1. io' \in IoRec
      BY <1>4, TasksType DEF NewConnection, SharedOK, Task
    <3>2. client' \in ClientRec
      BY <1>4 DEF NewConnection, SharedOK, ClientRec
    <3>3. exited' \in {exited, "self join", "no"}
      BY <1>4 DEF NewConnection, EndTask
    <3> QED
      BY <1>4, <3>1, <3>2, <3>3 DEF NewConnection, SharedOK
  <2>2. main' \in {"publish", "idle"}
    BY <1>4 DEF NewConnection, EndTask
  <2> QED
    BY <1>4, <2>1, <2>2 DEF NewConnection, CallsOK, BoundOK
<1>5. CASE Publish
  <2>1. SharedOK'
    BY <1>5 DEF Publish, EndTask, SharedOK, ClientRec
  <2> QED
    BY <1>5, <2>1 DEF Publish, EndTask, CallsOK, BoundOK
<1> QED
  BY <1>1, <1>2, <1>3, <1>4, <1>5 DEF Connecting

LEMMA DestroyTyped ==
  ASSUME Typed, Destroying
  PROVE  Typed'
<1> USE DEF Typed
<1>1. user' \in StepSet
  BY GoType
  DEF Destroying, QuitMain, JoinMain, DropConnection, StopIo, JoinIo,
      FreeMembers, StepSet
<1>2. /\ UNCHANGED <<main, call, used>>
      /\ quit' \in BOOLEAN
  BY DEF Destroying, QuitMain, JoinMain, DropConnection, StopIo, JoinIo,
         FreeMembers, CallsOK
<1>3. CallsOK' /\ BoundOK'
  BY <1>1, <1>2 DEF CallsOK, BoundOK, StepSet
<1>4. CASE QuitMain \/ JoinMain \/ JoinIo
  BY <1>3, <1>4, KeepShared DEF QuitMain, JoinMain, JoinIo
<1>5. CASE DropConnection
  BY <1>3, <1>5, ReleaseType DEF DropConnection, SharedOK
<1>6. CASE StopIo
  BY <1>3, <1>6 DEF StopIo, SharedOK, IoRec
<1>7. CASE FreeMembers
  BY <1>3, <1>7, CloseFdType DEF FreeMembers, SharedOK
<1> QED
  BY <1>4, <1>5, <1>6, <1>7 DEF Destroying

LEMMA IoTyped ==
  ASSUME Typed, Io
  PROVE  Typed'
<1> USE DEF Typed
<1>0. UNCHANGED <<user, main, quit, call, used>>
  BY DEF Io, AddChannel, HandleEnd, SendInLoop, CloseConnection, LeaveIo
<1>1. CallsOK' /\ BoundOK'
  BY <1>0, KeepCalls
<1>2. io \in IoRec
  BY DEF SharedOK
<1>3. CASE AddChannel
  <2>1. io' \in IoRec
    BY <1>2, <1>3, TasksType DEF AddChannel, Runs, IoRec
  <2>2. exited' \in {"no", "dangling channel", "epoll_ctl"}
    BY <1>3 DEF AddChannel
  <2> QED
    BY <1>1, <1>3, <2>1, <2>2 DEF AddChannel, SharedOK
<1>4. CASE HandleEnd
  <2>1. io' \in IoRec
    <3>1. Append(io.tasks, "cleanup") \in Seq(Task)
      BY <1>2 DEF IoRec, Task
    <3> QED
      BY <1>2, <1>4, <3>1 DEF HandleEnd, IoRec
  <2> QED
    BY <1>1, <1>4, <2>1 DEF HandleEnd, SharedOK
<1>5. CASE SendInLoop
  <2>1. io.tasks # <<>> /\ client.ref \in BOOLEAN
    BY <1>5 DEF SendInLoop, Runs, SharedOK, ClientRec
  <2>2. Next1 \in IoRec /\ [Next1 EXCEPT !.tasks = Append(@, "cleanup")] \in IoRec
    BY <1>2, <2>1, TasksType DEF Task
  <2> QED
    BY <1>1, <1>5, <2>1, <2>2, ReleaseType DEF SendInLoop
<1>6. CASE CloseConnection
  <2>1. Next1 \in IoRec
    BY <1>2, <1>6, TasksType DEF CloseConnection, Runs
  <2>2. exited' \in {"no", "dangling client", "epoll_ctl"}
    BY <1>6 DEF CloseConnection
  <2>3. client' \in ClientRec
    BY <1>6 DEF CloseConnection, SharedOK, ClientRec
  <2> QED
    BY <1>1, <1>6, <2>1, <2>2, <2>3, CloseFdType DEF CloseConnection, SharedOK
<1>7. CASE LeaveIo
  <2>1. [io EXCEPT !.tasks = <<>>, !.phase = "left"] \in IoRec
    BY <1>2, EmptySeq DEF IoRec
  <2>2. client.ref \in BOOLEAN
    BY DEF SharedOK, ClientRec
  <2> QED
    BY <1>1, <1>7, <2>1, <2>2, ReleaseType DEF LeaveIo
<1> QED
  BY <1>3, <1>4, <1>5, <1>6, <1>7 DEF Io

LEMMA StepTyped == Typed /\ [Next]_vars => Typed'
<1> SUFFICES ASSUME Typed, [Next]_vars
             PROVE  Typed'
  OBVIOUS
<1> USE DEF Typed
<1>1. CASE Answer \/ PeerEnds \/ AppOpen
  <2>1. SharedOK'
    BY <1>1 DEF Answer, PeerEnds, AppOpen, SharedOK
  <2>2. UNCHANGED <<user, main, quit, call, used>>
    BY <1>1 DEF Answer, PeerEnds, AppOpen
  <2> QED
    BY <2>1, <2>2, KeepCalls
<1>2. CASE Connecting
  BY <1>2, ConnectTyped
<1>3. CASE LeaveLoop
  BY <1>3, KeepShared DEF LeaveLoop, CallsOK, BoundOK
<1>4. CASE Io
  BY <1>4, IoTyped
<1>5. CASE Start \/ SeeConnected \/ Leave
  <2>1. SharedOK'
    BY <1>5, KeepShared DEF Start, SeeConnected, Leave
  <2> QED
    <3>1. CASE Start
      BY <2>1, <3>1 DEF Start, CallsOK, BoundOK
    <3>2. CASE SeeConnected
      BY <2>1, <3>2 DEF SeeConnected, CallsOK, BoundOK
    <3>3. CASE Leave
      BY <2>1, <3>3 DEF Leave, Locked, CallsOK, BoundOK, StepSet
    <3> QED
      BY <1>5, <3>1, <3>2, <3>3
<1>6. CASE Send
  <2>1. used.sends \in 0 .. MaxSends
    BY DEF CallsOK
  <2>2. used.sends + 1 \in 0 .. MaxSends
    <3>1. used.sends < MaxSends
      BY <1>6 DEF Send, BoundOK
    <3> QED
      BY <2>1, <3>1, Constants
  <2>3. CallsOK' /\ BoundOK'
    BY <1>6, <2>2 DEF Send, CallsOK, BoundOK
  <2>4. io' \in IoRec
    BY <1>6, TasksType DEF Send, SharedOK, Task
  <2>5. exited' \in {exited, "null connection"}
    BY <1>6 DEF Send
  <2> QED
    BY <1>6, <2>3, <2>4, <2>5 DEF Send, SharedOK
<1>7. CASE Close
  <2>1. used.closes \in 0 .. MaxCloses
    BY DEF CallsOK
  <2>2. used.closes + 1 \in 0 .. MaxCloses
    BY <1>7, <2>1, Constants DEF Close
  <2>3. CallsOK' /\ BoundOK'
    BY <1>7, <2>2 DEF Close, CallsOK, BoundOK
  <2>4. client' \in ClientRec
    BY <1>7 DEF Close, SharedOK, ClientRec
  <2> QED
    BY <1>7, <2>3, <2>4, CloseFdType DEF Close, SharedOK
<1>8. CASE Destroying
  BY <1>8, DestroyTyped
<1>9. CASE Rest \/ UNCHANGED vars
  <2>1. UNCHANGED vars
    BY <1>9 DEF Rest
  <2> QED
    BY <2>1, KeepShared, KeepCalls DEF vars
<1> QED
  BY <1>1, <1>2, <1>3, <1>4, <1>5, <1>6, <1>7, <1>8, <1>9 DEF Next

\* The variables keep their types: connectSocket stays within its rounds, and
\* the queue of the IO thread holds the client's tasks only (Socket.cpp:109-185,
\* TcpClient.cpp:20-115).
THEOREM TypeCorrect == Spec => []TypeOK
<1>1. Typed => TypeOK
  BY TypedIs DEF Typed
<1> QED
  BY <1>1, InitTyped, StepTyped, PTL DEF Spec

-----------------------------------------------------------------------------
(* What connectSocket reports *)

\* startOnLoop has not come to newConnection.
Early == main \in {"none", "queued", "blocked", "select", "return"}

\* Until then nothing refers to the connection, so that only connectSocket, the
\* network and close() touch the socket; and ~TcpClient runs after it.
Order == /\ main = "none" => user = "new"
         /\ user \in StepSet => main \in {"idle", "left"}
         /\ Early => /\ client.conn = "null" /\ ~client.connected
                     /\ ~io.registered /\ io.tasks = <<>>
                     /\ user # "saw"

ConnInv == Order /\ ConnectedIsConnected

\* What closing the descriptor, and giving up a reference, leave behind.
LEMMA CloseFdIs ==
  ASSUME SharedOK, NEW next \in IoRec, CloseFd(next)
  PROVE  /\ fd' = "free" /\ hist'.ended /\ tcp' \in {tcp, "closed"}
         /\ io'.tasks = next.tasks /\ io'.phase = next.phase
         /\ io'.registered => next.registered
  BY DEF CloseFd, SharedOK, IoRec

LEMMA ReleaseLeaves ==
  ASSUME SharedOK, NEW ref \in BOOLEAN, NEW next \in IoRec, Release(ref, next)
  PROVE  /\ io'.tasks = next.tasks /\ io'.phase = next.phase
         /\ client'.connected = client.connected
         /\ \/ /\ client'.conn = client.conn /\ client'.ref = ref
               /\ io'.registered = next.registered
               /\ UNCHANGED <<tcp, fd, hist, exited>>
            \/ /\ ~ref /\ client.conn = "alive" /\ client'.conn = "destroyed"
               /\ \/ hist'.ended /\ UNCHANGED exited
                  \/ /\ ~(fd = "own" /\ io.registered)
                     /\ exited' = "epoll_ctl" /\ UNCHANGED <<fd, hist>>
<1>1. client \in ClientRec
  BY DEF SharedOK
<1>2. CASE io' = next
  BY <1>1, <1>2, ReleaseIs, CloseFdIs DEF ClientRec
<1>3. CASE CloseFd(next)
  BY <1>1, <1>3, ReleaseIs, CloseFdIs DEF ClientRec
<1> QED
  BY <1>2, <1>3, ReleaseIs

LEMMA InitConn == Init => ConnInv
  BY DEF Init, ConnInv, Order, Early, ConnectedIsConnected, StepSet

LEMMA ConnectConn ==
  ASSUME Typed, ConnInv, Connecting
  PROVE  ConnInv'
<1> USE DEF ConnInv, Order, Early, ConnectedIsConnected
<1>0. call \in [nonblocking : BOOLEAN, times : 0 .. Rounds, ret : {0, 1}]
  BY DEF Typed, CallsOK
<1>1. CASE StartOnLoop
  BY <1>0, <1>1 DEF StartOnLoop, StepSet
<1>2. CASE ConnectReturns
  BY <1>0, <1>2 DEF ConnectReturns, StepSet
<1>3. CASE Round
  <2>1. UNCHANGED <<user, client, io>>
    BY <1>3 DEF Round
  <2>2. main = "select" /\ main' \in {"select", "return"}
    BY <1>3 DEF Round, RoundTimeout, RoundReady, RoundError
  <2>3. call'.ret = 0 => tcp' \in {"est", "fin", "rst"}
    <3>1. CASE RoundTimeout(call.times + 1) \/ RoundError(call.times + 1)
      <4>1. call' = [call EXCEPT !.times = call.times + 1, !.ret = 1]
        BY <3>1 DEF RoundTimeout, RoundError
      <4>2. call'.ret = 1
        BY <1>0, <4>1
      <4> QED
        BY <4>2
    <3>2. CASE RoundReady(call.times + 1)
      <4>1. call'.ret = IF tcp \in {"est", "fin", "rst"} THEN 0 ELSE 1
        BY <1>0, <3>2 DEF RoundReady
      <4>2. tcp \in {"est", "fin", "rst"} => tcp' = tcp
        BY <3>2 DEF RoundReady
      <4> QED
        BY <4>1, <4>2
    <3> QED
      BY <1>3, <3>1, <3>2 DEF Round
  <2> QED
    BY <2>1, <2>2, <2>3
<1>4. CASE NewConnection \/ Publish
  <2>1. main \in {"return", "publish"} /\ main' \in {"publish", "idle"}
    BY <1>4 DEF NewConnection, Publish, EndTask
  <2>2. UNCHANGED user
    BY <1>4 DEF NewConnection, Publish
  <2> QED
    BY <2>1, <2>2
<1> QED
  BY <1>1, <1>2, <1>3, <1>4 DEF Connecting

\* Before newConnection the IO thread has nothing to do with this connection.
LEMMA IoConn ==
  ASSUME Typed, ConnInv, Io
  PROVE  ConnInv'
<1> USE DEF ConnInv, Order
<1>0. UNCHANGED <<user, main, call>>
  BY DEF Io, AddChannel, HandleEnd, SendInLoop, CloseConnection, LeaveIo
<1>1. CASE ~Early
  BY <1>0, <1>1 DEF Early, ConnectedIsConnected
<1>2. CASE Early
  <2>1. LeaveIo
    BY <1>2
    DEF Io, AddChannel, HandleEnd, SendInLoop, CloseConnection, Runs
  <2>3. client.ref \in BOOLEAN /\ SharedOK
    BY DEF Typed, SharedOK, ClientRec
  <2>4. /\ client'.conn = client.conn /\ client'.connected = client.connected
        /\ ~io'.registered /\ io'.tasks = <<>>
        /\ UNCHANGED tcp
    <3> DEFINE next == [io EXCEPT !.tasks = <<>>, !.phase = "left"]
    <3>1. next.tasks = <<>> /\ next.registered = io.registered
      BY DEF Typed, SharedOK, IoRec
    <3>2. Release(client.ref, next) /\ client.conn = "null"
      BY <1>2, <2>1 DEF LeaveIo
    <3>3. next \in IoRec
      BY EmptySeq DEF Typed, SharedOK, IoRec
    <3> HIDE DEF next
    <3> QED
      BY <1>2, <2>3, <3>3, <3>1, <3>2, ReleaseLeaves
  <2> QED
    BY <1>0, <1>2, <2>4 DEF Early, ConnectedIsConnected
<1> QED
  BY <1>1, <1>2

LEMMA DestroyConn ==
  ASSUME Typed, ConnInv, Destroying
  PROVE  ConnInv'
<1>1. user \in StepSet
  BY AtIs
  DEF Destroying, QuitMain, JoinMain, DropConnection, StopIo, JoinIo,
      FreeMembers, StepSet
<1>2. UNCHANGED <<main, call>>
  BY DEF Destroying, QuitMain, JoinMain, DropConnection, StopIo, JoinIo,
         FreeMembers
<1> QED
  BY <1>1, <1>2 DEF ConnInv, Order, Early, ConnectedIsConnected

LEMMA StepConn == Typed /\ ConnInv /\ [Next]_vars => ConnInv'
<1> SUFFICES ASSUME Typed, ConnInv, [Next]_vars
             PROVE  ConnInv'
  OBVIOUS
<1> USE DEF ConnInv, Order, Early, ConnectedIsConnected
<1>1. CASE Answer \/ PeerEnds \/ AppOpen
  BY <1>1 DEF Answer, PeerEnds, AppOpen
<1>2. CASE Connecting
  BY <1>2, ConnectConn
<1>3. CASE LeaveLoop
  BY <1>3 DEF LeaveLoop
<1>4. CASE Io
  BY <1>4, IoConn
<1>5. CASE Start \/ SeeConnected
  BY <1>5 DEF Start, SeeConnected, StepSet, Typed, BoundOK
<1>6. CASE Leave
  BY <1>6 DEF Leave, Locked, StepSet, Typed, CallsOK
<1>7. CASE Send
  BY <1>7 DEF Send, StepSet
<1>8. CASE Close
  <2>1. /\ io'.tasks = io.tasks
        /\ io'.registered => io.registered
        /\ tcp' \in {tcp, "closed"}
    BY <1>8, CloseFdIs DEF Close, Typed, SharedOK
  <2>2. client'.conn = client.conn /\ ~client'.connected
    BY <1>8 DEF Close, Typed, SharedOK, ClientRec
  <2> QED
    BY <1>8, <2>1, <2>2 DEF Close, Locked, StepSet
<1>9. CASE Destroying
  BY <1>9, DestroyConn
<1>10. CASE Rest \/ UNCHANGED vars
  BY <1>10 DEF Rest, vars
<1> QED
  BY <1>1, <1>2, <1>3, <1>4, <1>5, <1>6, <1>7, <1>8, <1>9, <1>10 DEF Next

\* connectSocket returns 0 only for a socket that is connected, whatever its
\* rounds of select saw and whoever closes or leaves meanwhile: startOnLoop
\* never makes a TcpConnection of a socket that is still connecting or was
\* refused (Socket.cpp:109-185, TcpClient.cpp:68-80).
THEOREM ConnectSound == Spec => []ConnectedIsConnected
<1>1. ConnInv => ConnectedIsConnected
  BY DEF ConnInv
<1> QED
  BY <1>1, InitTyped, StepTyped, InitConn, StepConn, PTL DEF Spec

-----------------------------------------------------------------------------
(* A careful application *)

\* With a careful application:
Late == {"stopping", "waiting", "freeing", "gone"}

CareInv ==
  /\ user # "left"
  /\ user \in StepSet => io.tasks \in Seq({"cleanup"})
  /\ ~Early /\ user \notin Late /\ client.conn # "null" =>
       client.conn = "alive" /\ client.ref
  /\ client.connected \/ user = "saw" \/ main = "publish" => client.conn # "null"
  /\ fd # "own" => hist.ended
  /\ client.conn = "alive" =>
       \/ io.registered \/ hist.ended
       \/ io.tasks # <<>> /\ Head(io.tasks) = "add"
  /\ io.phase # "run" => user \in Late
  /\ user \in {"freeing", "gone"} => io.phase = "left"
  /\ Survives

\* Tasks are added behind the first.
LEMMA FirstStays ==
  ASSUME NEW s \in Seq(Task), NEW x \in Task
  PROVE  /\ Append(s, x) # <<>>
         /\ s # <<>> => Head(Append(s, x)) = Head(s)
         /\ s = <<>> => Head(Append(s, x)) = x
  OBVIOUS

\* A queue of cleanups only.
LEMMA CleanupsOnly ==
  ASSUME NEW s \in Seq({"cleanup"})
  PROVE  /\ Append(s, "cleanup") \in Seq({"cleanup"})
         /\ s # <<>> => Head(s) = "cleanup" /\ Tail(s) \in Seq({"cleanup"})
  OBVIOUS

LEMMA InitCare == Init => CareInv
  BY DEF Init, CareInv, Early, Late, StepSet, Survives

LEMMA ConnectCare ==
  ASSUME Typed, ConnInv, CareInv, Connecting
  PROVE  CareInv'
<1> USE DEF CareInv, Survives
<1>1. main \in {"queued", "blocked", "select", "return", "publish"}
  BY DEF Connecting, StartOnLoop, ConnectReturns, Round, NewConnection, Publish
<1>2. user \notin StepSet
  BY <1>1 DEF ConnInv, Order
<1>3. UNCHANGED <<user, fd, hist>>
  BY DEF Connecting, StartOnLoop, ConnectReturns, Round, NewConnection, Publish
<1>4. CASE StartOnLoop \/ ConnectReturns \/ Round
  <2>1. UNCHANGED <<client, io, exited>> /\ Early /\ main' # "publish"
    BY <1>4 DEF StartOnLoop, ConnectReturns, Round, RoundTimeout, RoundReady,
                RoundError, Early
  <2>2. client.conn = "null"
    BY <2>1 DEF ConnInv, Order
  <2> QED
    BY <1>2, <1>3, <2>1, <2>2
<1>5. CASE NewConnection /\ call.ret = 0
  <2>1. client'.conn = "alive" /\ client'.ref
    BY <1>5 DEF NewConnection, Typed, SharedOK, ClientRec
  <2>2. io.tasks = <<>> /\ io'.tasks = Append(io.tasks, "add") /\ io'.phase = io.phase
    BY <1>5 DEF NewConnection, ConnInv, Order, Early, Typed, SharedOK, IoRec
  <2>3. io'.tasks # <<>> /\ Head(io'.tasks) = "add"
    BY <2>2
  <2>4. UNCHANGED exited
    BY <1>5 DEF NewConnection
  <2> QED
    BY <1>2, <1>3, <2>1, <2>2, <2>3, <2>4 DEF Late, StepSet
<1>6. CASE NewConnection /\ call.ret # 0
  <2>1. UNCHANGED <<client, io>> /\ main' = "idle" /\ exited' = "no"
    BY <1>6 DEF NewConnection, EndTask
  <2>2. client.conn = "null"
    BY <1>6 DEF NewConnection, ConnInv, Order, Early
  <2> QED
    BY <1>2, <1>3, <2>1, <2>2
<1>7. CASE Publish
  <2>1. UNCHANGED io /\ main' = "idle" /\ exited' = "no" /\ main = "publish"
    BY <1>7 DEF Publish, EndTask
  <2>2. client'.conn = client.conn /\ client'.ref = client.ref
    BY <1>7 DEF Publish, Typed, SharedOK, ClientRec
  <2> QED
    BY <1>2, <1>3, <2>1, <2>2 DEF Early
<1> QED
  BY <1>4, <1>5, <1>6, <1>7 DEF Connecting

LEMMA DestroyCare ==
  ASSUME Typed, ConnInv, CareInv, Destroying
  PROVE  CareInv'
<1> USE DEF CareInv, Survives, Late, StepSet
<1>0. Alive /\ UNCHANGED <<main, call, used>>
  BY DEF Destroying, QuitMain, JoinMain, DropConnection, StopIo, JoinIo,
         FreeMembers
<1>1. user \in StepSet /\ user' \in StepSet
  BY AtIs, GoType
  DEF Destroying, QuitMain, JoinMain, DropConnection, StopIo, JoinIo,
      FreeMembers
<1>2. io \in IoRec /\ client \in ClientRec /\ SharedOK
  BY DEF Typed, SharedOK
<1>3. ~Early /\ main # "publish"
  BY <1>1 DEF ConnInv, Order, Early
<1>4. CASE QuitMain \/ JoinMain \/ JoinIo
  <2>1. UNCHANGED <<tcp, fd, client, io, hist, exited>>
    BY <1>4 DEF QuitMain, JoinMain, JoinIo
  <2>2. \/ user = "quitting" /\ user' = "joining"
        \/ user = "joining" /\ user' = "dropping"
        \/ user = "waiting" /\ user' = "freeing" /\ io.phase = "left"
    BY <1>4, AtIs, GoesOn DEF QuitMain, JoinMain, JoinIo
  <2> QED
    BY <1>0, <1>1, <1>3, <2>1, <2>2 DEF Early
<1>5. CASE DropConnection
  <2>1. user = "dropping" /\ user' = "stopping"
    BY <1>5, AtIs, GoesOn DEF DropConnection
  <2>2. Release(FALSE, io)
    BY <1>5 DEF DropConnection
  <2>3. io.tasks = <<>> \/ Head(io.tasks) = "cleanup"
    BY <2>1, CleanupsOnly
  <2> QED
    BY <1>0, <1>2, <1>3, <2>1, <2>2, <2>3, ReleaseLeaves DEF Alive
<1>6. CASE StopIo
  <2>1. user = "stopping" /\ user' = "waiting"
    BY <1>6, AtIs, GoesOn DEF StopIo
  <2>2. io'.tasks = io.tasks /\ io'.registered = io.registered
    BY <1>2, <1>6 DEF StopIo, IoRec
  <2> QED
    BY <1>3, <1>6, <2>1, <2>2 DEF StopIo
<1>7. CASE FreeMembers
  <2>1. user = "freeing" /\ user' = "gone"
    BY <1>7, AtIs, GoesOn DEF FreeMembers
  <2>2. CloseFd(io) /\ UNCHANGED <<client, exited>>
    BY <1>7 DEF FreeMembers
  <2> QED
    BY <1>0, <1>2, <1>3, <2>1, <2>2, CloseFdIs DEF Alive
<1> QED
  BY <1>4, <1>5, <1>6, <1>7 DEF Destroying

\* What HandleEnd, and a task that ran, leave of the queue.
LEMMA TasksAfter ==
  ASSUME io \in IoRec, io.tasks # <<>>
  PROVE  /\ Next1.tasks = Tail(io.tasks) /\ Next1.phase = io.phase
         /\ Next1.registered = io.registered
         /\ Next1 \in IoRec
         /\ [Next1 EXCEPT !.tasks = Append(@, "cleanup")] \in IoRec
         /\ [Next1 EXCEPT !.tasks = Append(@, "cleanup")].phase = io.phase
         /\ [Next1 EXCEPT !.tasks = Append(@, "cleanup")].registered
              = io.registered
<1>1. Next1 \in IoRec /\ [Next1 EXCEPT !.tasks = Append(@, "cleanup")] \in IoRec
  BY TasksType DEF Task
<1> QED
  BY <1>1 DEF Next1, IoRec

LEMMA IoCare ==
  ASSUME Typed, ConnInv, CareInv, Io
  PROVE  CareInv'
<1> USE DEF CareInv, Survives
<1>0. UNCHANGED <<user, main>> /\ Alive
  BY DEF Io, AddChannel, HandleEnd, SendInLoop, CloseConnection, LeaveIo, Runs,
         Serving
<1>1. io \in IoRec /\ client \in ClientRec /\ SharedOK /\ client.ref \in BOOLEAN
  BY DEF Typed, SharedOK, ClientRec
<1>2. io.tasks \in Seq(Task)
  BY <1>1 DEF IoRec
<1>3. CASE AddChannel
  <2>1. io.tasks # <<>> /\ Head(io.tasks) = "add"
    BY <1>3 DEF AddChannel, Runs
  <2>2. user \notin StepSet /\ ~Early
    BY <2>1, CleanupsOnly DEF ConnInv, Order
  <2>3. client.conn # "destroyed"
    BY <2>2 DEF Late, StepSet
  <2>4. io'.phase = io.phase /\ io'.registered = (fd = "own")
    BY <1>1, <1>3, <2>1, TasksAfter DEF AddChannel, IoRec
  <2>5. exited' # "no" => exited' = "epoll_ctl" /\ hist.ended
    BY <1>3, <2>3 DEF AddChannel
  <2> QED
    BY <1>0, <1>3, <2>2, <2>3, <2>4, <2>5 DEF AddChannel, Late, StepSet, Early
<1>4. CASE HandleEnd
  <2>1. /\ io'.tasks = Append(io.tasks, "cleanup") /\ io'.phase = io.phase
        /\ io'.registered = io.registered
    BY <1>1, <1>4 DEF HandleEnd, IoRec
  <2>2. UNCHANGED <<client, fd, hist, exited>>
    BY <1>4 DEF HandleEnd
  <2>3. /\ user \in StepSet => io'.tasks \in Seq({"cleanup"})
        /\ io'.tasks # <<>>
        /\ io.tasks # <<>> => Head(io'.tasks) = Head(io.tasks)
    BY <1>2, <2>1, CleanupsOnly, FirstStays DEF Task
  <2> QED
    BY <1>0, <2>1, <2>2, <2>3 DEF Early
<1>5. CASE SendInLoop
  <2>1. io.tasks # <<>> /\ Head(io.tasks) = "send"
    BY <1>5 DEF SendInLoop, Runs
  <2>2. user \notin StepSet /\ ~Early
    BY <2>1, CleanupsOnly DEF ConnInv, Order
  <2>3. client.conn # "alive" \/ client.ref
    BY <2>2 DEF Late, StepSet
  <2>4. PICK next \in IoRec : /\ Release(client.ref, next)
                              /\ next.phase = io.phase
                              /\ next.registered = io.registered
    BY <1>1, <1>5, <2>1, TasksAfter DEF SendInLoop
  <2>5. /\ io'.phase = io.phase /\ io'.registered = io.registered
        /\ client'.connected = client.connected /\ client'.conn = client.conn
        /\ client'.ref = client.ref /\ UNCHANGED <<fd, hist, exited>>
    BY <1>1, <2>3, <2>4, ReleaseLeaves
  <2> QED
    BY <1>0, <2>1, <2>2, <2>5 DEF Early, Late, StepSet
<1>6. CASE CloseConnection
  <2>1. io.tasks # <<>> /\ Head(io.tasks) = "cleanup" /\ io.phase # "left"
    BY <1>6 DEF CloseConnection, Runs, Serving
  <2>2. Next1 \in IoRec /\ Next1.phase = io.phase /\ Next1.tasks = Tail(io.tasks)
    BY <1>1, <2>1, TasksAfter
  <2>3. /\ hist'.ended /\ io'.phase = io.phase /\ io'.tasks = Tail(io.tasks)
    BY <1>1, <1>6, <2>2, CloseFdIs DEF CloseConnection
  <2>4. /\ client'.conn = client.conn /\ client'.ref = client.ref
        /\ ~client'.connected
    BY <1>1, <1>6 DEF CloseConnection, ClientRec
  <2>5. user \in StepSet => io'.tasks \in Seq({"cleanup"})
    BY <2>1, <2>3, CleanupsOnly
  <2>6. exited' # "no" => exited' = "epoll_ctl"
    BY <1>6, <2>1, FreedIs DEF CloseConnection
  <2> QED
    BY <1>0, <2>3, <2>4, <2>5, <2>6 DEF Early
<1>7. CASE LeaveIo
  <2>1. user \in Late /\ user \in StepSet
    BY <1>7 DEF LeaveIo, Late, StepSet
  <2>2. /\ ~Early /\ main # "publish"
        /\ io.tasks = <<>> \/ Head(io.tasks) = "cleanup"
    BY <2>1, CleanupsOnly DEF ConnInv, Order, Early
  <2> DEFINE next == [io EXCEPT !.tasks = <<>>, !.phase = "left"]
  <2>3. /\ next \in IoRec /\ next.tasks = <<>> /\ next.phase = "left"
        /\ next.registered = io.registered /\ Release(client.ref, next)
    BY <1>1, <1>7, EmptySeq DEF LeaveIo, IoRec
  <2> HIDE DEF next
  <2>4. io'.tasks \in Seq({"cleanup"})
    BY <1>1, <2>3, ReleaseLeaves, EmptySeq
  <2>5. io'.phase = "left" /\ client'.connected = client.connected
    BY <1>1, <2>3, ReleaseLeaves
  <2> QED
    BY <1>0, <1>1, <2>1, <2>2, <2>3, <2>4, <2>5, ReleaseLeaves DEF Alive, Late
<1> QED
  BY <1>3, <1>4, <1>5, <1>6, <1>7 DEF Io

LEMMA UserCare ==
  ASSUME Careful, Typed, ConnInv, CareInv,
         Start \/ SeeConnected \/ Send \/ Close \/ Leave
  PROVE  CareInv'
<1> USE DEF CareInv, Survives
<1>1. io \in IoRec /\ client \in ClientRec /\ SharedOK
  BY DEF Typed, SharedOK
<1>2. CASE Start
  BY <1>2 DEF Start, ConnInv, Order, Typed, BoundOK, Early, Late, StepSet
<1>3. CASE SeeConnected
  BY <1>3 DEF SeeConnected, Early, Late, StepSet
<1>4. CASE Send
  <2>1. user = "saw" /\ user' = "idle" /\ UNCHANGED <<main, client, fd, hist>>
    BY <1>4 DEF Send
  <2>2. client.conn = "alive" /\ client.ref
    BY <2>1 DEF ConnInv, Order, Late
  <2>3. io' = [io EXCEPT !.tasks = Append(@, "send")] /\ UNCHANGED exited
    BY <1>4, <2>2 DEF Send
  <2>4. /\ io'.tasks = Append(io.tasks, "send") /\ io'.phase = io.phase
        /\ io'.registered = io.registered /\ io.tasks \in Seq(Task)
    BY <1>1, <2>3 DEF IoRec
  <2>5. io'.tasks # <<>> /\ (io.tasks # <<>> => Head(io'.tasks) = Head(io.tasks))
    BY <2>4, FirstStays DEF Task
  <2> QED
    BY <2>1, <2>2, <2>3, <2>4, <2>5 DEF Early, Late, StepSet
<1>5. CASE Close
  <2>1. /\ user = "idle" /\ UNCHANGED <<user, main, exited>> /\ CloseFd(io)
        /\ Alive
    BY <1>5 DEF Close, Started
  <2>2. /\ client'.conn = client.conn /\ client'.ref = client.ref
        /\ ~client'.connected
    BY <1>1, <1>5 DEF Close, ClientRec
  <2>3. hist'.ended /\ io'.phase = io.phase
    BY <1>1, <2>1, CloseFdIs
  <2> QED
    BY <2>1, <2>2, <2>3 DEF Early, Late, StepSet, Alive
<1>6. CASE Leave
  <2>1. /\ user = "idle" /\ io.tasks = <<>> /\ main \in {"none", "idle"}
        /\ UNCHANGED <<main, client, fd, io, hist, exited>>
    BY <1>6 DEF Leave, Quiet
  <2>2. user' = "quitting"
    BY <1>6, <2>1 DEF Leave, Locked
  <2>3. io'.tasks \in Seq({"cleanup"})
    BY <2>1, EmptySeq
  <2> QED
    BY <2>1, <2>2, <2>3 DEF Early, Late, StepSet
<1> QED
  BY <1>2, <1>3, <1>4, <1>5, <1>6

LEMMA StepCare ==
  ASSUME Careful
  PROVE  Typed /\ ConnInv /\ CareInv /\ [Next]_vars => CareInv'
<1> SUFFICES ASSUME Typed, ConnInv, CareInv, [Next]_vars
             PROVE  CareInv'
  OBVIOUS
<1>1. CASE Answer \/ PeerEnds \/ AppOpen
  <2>1. /\ UNCHANGED <<user, main, client, io, hist, exited>>
        /\ fd' = fd \/ fd = "free"
    BY <1>1 DEF Answer, PeerEnds, AppOpen
  <2> QED
    BY <2>1 DEF CareInv, Survives, Early
<1>2. CASE Connecting
  BY <1>2, ConnectCare
<1>3. CASE LeaveLoop
  BY <1>3 DEF LeaveLoop, CareInv, Survives, Early
<1>4. CASE Io
  BY <1>4, IoCare
<1>5. CASE Start \/ SeeConnected \/ Send \/ Close \/ Leave
  BY <1>5, UserCare
<1>6. CASE Destroying
  BY <1>6, DestroyCare
<1>7. CASE Rest \/ UNCHANGED vars
  BY <1>7 DEF Rest, vars, CareInv, Survives, Early
<1> QED
  BY <1>1, <1>2, <1>3, <1>4, <1>5, <1>6, <1>7 DEF Next

\* An application that closes and destroys the client only while its loops have
\* nothing to do never meets a null or dangling pointer, nor a thread that joins
\* itself; what it can die of is the exit(1) of ~TcpConnection for a connection
\* that had ended (TcpClient.cpp:35-113).
THEOREM CarefulSurvives ==
  ASSUME Careful
  PROVE  Spec => []Survives
<1>1. CareInv => Survives
  BY DEF CareInv
<1>2. Typed /\ ConnInv /\ CareInv /\ [Next]_vars => CareInv'
  BY StepCare
<1> QED
  BY <1>1, <1>2, InitTyped, StepTyped, InitConn, StepConn, InitCare, PTL DEF Spec

-----------------------------------------------------------------------------
(* A client that was closed *)

\* startOnLoop, inside mutex_, connects its socket or has connected it.
Joining == \/ main \in {"blocked", "select", "publish"}
           \/ main = "return" /\ call.ret = 0

\* A closed descriptor is never the socket again; startOnLoop goes on only with
\* a socket that was not closed, and with conn_, until isConnected is TRUE.
Sealed == /\ hist.ended => fd # "own" /\ ~Joining
          /\ main = "publish" => client.ref

\* What closed stays so: the step starts no connection.
Stays == hist.ended => /\ client'.connected => client.connected
                       /\ client'.conn = "alive" => client.conn = "alive"

LEMMA InitSealed == Init => Sealed
  BY DEF Init, Sealed, Joining

LEMMA ConnectSealed ==
  ASSUME Typed, Sealed, Connecting
  PROVE  Sealed' /\ Stays
<1> USE DEF Sealed, Joining, Stays
<1>0. /\ call \in [nonblocking : BOOLEAN, times : 0 .. Rounds, ret : {0, 1}]
      /\ client \in ClientRec
  BY DEF Typed, CallsOK, SharedOK
<1>1. CASE StartOnLoop
  <2>1. main = "queued" /\ UNCHANGED <<fd, client, hist>>
    BY <1>1 DEF StartOnLoop
  <2>2. CASE fd = "own"
    BY <1>1, <2>1, <2>2 DEF StartOnLoop
  <2>3. CASE fd # "own"
    <3>1. main' = "return" /\ call' = [call EXCEPT !.ret = 1]
      BY <1>1, <2>3 DEF StartOnLoop
    <3>2. call'.ret = 1
      BY <1>0, <3>1
    <3> QED
      BY <2>1, <2>3, <3>1, <3>2
  <2> QED
    BY <2>2, <2>3
<1>2. CASE ConnectReturns \/ Round
  <2>1. /\ main \in {"blocked", "select"} /\ main' \in {"select", "return"}
        /\ UNCHANGED <<fd, client, hist>>
    BY <1>2 DEF ConnectReturns, Round, RoundTimeout, RoundReady, RoundError
  <2> QED
    BY <2>1
<1>3. CASE NewConnection /\ call.ret = 0
  BY <1>0, <1>3 DEF NewConnection, ClientRec
<1>4. CASE NewConnection /\ call.ret # 0
  BY <1>4 DEF NewConnection, EndTask
<1>5. CASE Publish
  BY <1>5 DEF Publish, EndTask
<1> QED
  BY <1>1, <1>2, <1>3, <1>4, <1>5 DEF Connecting

\* A reference that goes leaves the descriptor or closes it.
LEMMA ReleaseCloses ==
  ASSUME SharedOK, NEW ref \in BOOLEAN, NEW next \in IoRec, Release(ref, next)
  PROVE  /\ client'.connected = client.connected
         /\ client'.conn \in {client.conn, "destroyed"}
         /\ \/ client'.ref = ref /\ UNCHANGED <<fd, hist>>
            \/ /\ ~ref /\ client.conn = "alive"
               /\ UNCHANGED <<fd, hist>> \/ fd' = "free"
<1>1. client \in ClientRec
  BY DEF SharedOK
<1> QED
  BY <1>1, ReleaseIs, CloseFdIs DEF ClientRec

\* mutex_ keeps closeConnection out of startOnLoop, and nothing destroys a
\* connection before startOnLoop has ended.
LEMMA IoSealed ==
  ASSUME Typed, Order, Sealed, Io
  PROVE  Sealed' /\ Stays
<1>0. /\ UNCHANGED <<main, call>>
      /\ SharedOK /\ io \in IoRec /\ client \in ClientRec /\ client.ref \in BOOLEAN
  BY DEF Io, AddChannel, HandleEnd, SendInLoop, CloseConnection, LeaveIo, Typed,
         SharedOK, ClientRec
<1>1. CASE AddChannel \/ HandleEnd
  BY <1>1 DEF AddChannel, HandleEnd, Sealed, Joining, Stays
<1>2. CASE CloseConnection
  <2>1. fd' = "free"
    BY <1>2 DEF CloseConnection, CloseFd
  <2>2. ~client'.connected /\ client'.conn = client.conn
    BY <1>0, <1>2 DEF CloseConnection, ClientRec
  <2>3. ~Locked
    BY <1>2 DEF CloseConnection, MayCleanUp
  <2> QED
    BY <1>0, <2>1, <2>2, <2>3 DEF Sealed, Joining, Stays, Locked
<1>3. ASSUME NEW next \in IoRec, Release(client.ref, next)
      PROVE  Sealed' /\ Stays
  <2>1. Joining => client.ref \/ client.conn = "null"
    BY DEF Sealed, Joining, Order, Early
  <2> QED
    BY <1>0, <1>3, <2>1, ReleaseCloses DEF Sealed, Joining, Stays
<1>4. CASE SendInLoop
  <2>1. Next1 \in IoRec /\ [Next1 EXCEPT !.tasks = Append(@, "cleanup")] \in IoRec
    BY <1>0, <1>4, TasksAfter DEF SendInLoop, Runs
  <2> QED
    BY <1>3, <1>4, <2>1 DEF SendInLoop
<1>5. CASE LeaveIo
  <2>1. [io EXCEPT !.tasks = <<>>, !.phase = "left"] \in IoRec
    BY <1>0, EmptySeq DEF IoRec
  <2> QED
    BY <1>3, <1>5, <2>1 DEF LeaveIo
<1> QED
  BY <1>1, <1>2, <1>4, <1>5 DEF Io

LEMMA DestroySealed ==
  ASSUME Typed, Order, Sealed, Destroying
  PROVE  Sealed' /\ Stays
<1>1. user \in StepSet
  BY AtIs
  DEF Destroying, QuitMain, JoinMain, DropConnection, StopIo, JoinIo,
      FreeMembers, StepSet
<1>2. main' \in {"idle", "left"} /\ main' = main
  BY <1>1
  DEF Order, Destroying, QuitMain, JoinMain, DropConnection, StopIo, JoinIo,
      FreeMembers
<1>3. CASE DropConnection
  <2>1. SharedOK /\ io \in IoRec /\ Release(FALSE, io)
    BY <1>3 DEF DropConnection, Typed, SharedOK
  <2> QED
    BY <1>2, <2>1, ReleaseCloses DEF Sealed, Joining, Stays
<1>4. CASE FreeMembers
  BY <1>2, <1>4 DEF FreeMembers, CloseFd, Sealed, Joining, Stays
<1>5. CASE QuitMain \/ JoinMain \/ StopIo \/ JoinIo
  BY <1>2, <1>5 DEF QuitMain, JoinMain, StopIo, JoinIo, Sealed, Joining, Stays
<1> QED
  BY <1>3, <1>4, <1>5 DEF Destroying

LEMMA StepSealed ==
  ASSUME Typed, Order, Sealed, [Next]_vars
  PROVE  Sealed' /\ Stays
<1> USE DEF Sealed, Joining, Stays
<1>1. CASE Answer \/ PeerEnds \/ AppOpen
  BY <1>1 DEF Answer, PeerEnds, AppOpen
<1>2. CASE Connecting
  BY <1>2, ConnectSealed
<1>3. CASE LeaveLoop
  BY <1>3 DEF LeaveLoop
<1>4. CASE Io
  BY <1>4, IoSealed
<1>5. CASE Start \/ SeeConnected \/ Send \/ Leave
  BY <1>5 DEF Start, SeeConnected, Send, Leave
<1>6. CASE Close
  <2>1. fd' = "free"
    BY <1>6 DEF Close, CloseFd
  <2>2. ~client'.connected /\ client'.conn = client.conn
    BY <1>6 DEF Close, Typed, SharedOK, ClientRec
  <2>3. ~Locked /\ UNCHANGED <<main, call>>
    BY <1>6 DEF Close
  <2> QED
    BY <2>1, <2>2, <2>3 DEF Locked
<1>7. CASE Destroying
  BY <1>7, DestroySealed
<1>8. CASE Rest \/ UNCHANGED vars
  BY <1>8 DEF Rest, vars
<1> QED
  BY <1>1, <1>2, <1>3, <1>4, <1>5, <1>6, <1>7, <1>8 DEF Next

\* Once the client's descriptor was closed, by the IO thread's closeConnection, by
\* the application's close() or with the connection, isConnected never becomes
\* TRUE and no TcpConnection starts, however close() races startOnLoop
\* (TcpClient.cpp:53-58, 68-80, 105-112).
THEOREM StaysClosed == Spec => ClosedForGood
<1>1. Typed /\ ConnInv /\ Sealed /\ [Next]_vars
        => Sealed' /\ [hist.ended => /\ client'.connected => client.connected
                                     /\ client'.conn = "alive" =>
                                          client.conn = "alive"]_vars
  BY StepSealed DEF ConnInv, Stays
<1> QED
  BY <1>1, InitTyped, StepTyped, InitConn, StepConn, InitSealed, PTL
  DEF Spec, ClosedForGood

=============================================================================
