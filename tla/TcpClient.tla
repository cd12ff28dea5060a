----------------------------- MODULE TcpClient -----------------------------
(***************************************************************************)
(* TcpClient with Socket::connectSocket: the application's thread, which   *)
(* starts, asks, sends, closes and destroys; the thread of the main loop,  *)
(* which connects; and the one IO thread, which serves the connection.     *)
(*                                                                         *)
(* Of the TcpConnection (module TcpConnection) there is what concerns the  *)
(* client: that it is in epoll, ends, sends, and is destroyed.             *)
(* clientSocket_, the Channel and the TcpConnection all hold the same      *)
(* descriptor number.                                                      *)
(***************************************************************************)
EXTENDS Naturals, Sequences

CONSTANTS
  Modes,      \* whether the socket is set non-blocking before it connects:
              \* TcpClient passes {FALSE}, Socket allows both
  Rounds,     \* rounds of select in connectSocket
  MaxSends,   \* bound: messages sent
  MaxCloses,  \* bound: calls of close()
  AppOpens,   \* the process opens other files meanwhile
  Careful     \* the application closes and destroys the client only when the
              \* loops have nothing to do, as the sleeps of start() intend

ASSUME ClientAssumption ==
  /\ Modes \subseteq BOOLEAN
  /\ Rounds \in Nat \ {0}
  /\ {MaxSends, MaxCloses} \subseteq Nat
  /\ {AppOpens, Careful} \subseteq BOOLEAN

VARIABLES
  user,    \* what the application's thread is doing
  main,    \* where the main loop's thread is in startOnLoop
  quit,    \* quit_ of the main loop
  call,    \* connectSocket: nonblocking, times, ret (0 or an error, 1)
  tcp,     \* the connection, in the kernel
  fd,      \* what the descriptor number names: "own", "free" or another file
  client,  \* connected (isConnected) and the state of conn_'s connection:
           \* "null", "alive" or "destroyed"; ref, conn_ refers to it
  io,      \* the IO thread: tasks, registered (in epoll), disc (disConnected_),
           \* phase "run", "quit" or "left"
  used,    \* calls made: sends and closes
  hist,    \* history: ended, the descriptor was closed; stranger, a close hit
           \* another file
  exited   \* why the process died, "no" while it runs

vars == <<user, main, quit, call, tcp, fd, client, io, used, hist, exited>>

Init ==
  /\ user = "new" /\ main = "none" /\ quit = FALSE
  /\ \E mode \in Modes : call = [nonblocking |-> mode, times |-> 0, ret |-> 0]
  /\ tcp = "idle" /\ fd = "own"
  /\ client = [connected |-> FALSE, conn |-> "null", ref |-> FALSE]
  /\ io = [tasks |-> <<>>, registered |-> FALSE, disc |-> FALSE, phase |-> "run"]
  /\ used = [sends |-> 0, closes |-> 0]
  /\ hist = [ended |-> FALSE, stranger |-> FALSE]
  /\ exited = "no"

Alive == exited = "no"

\* startOnLoop holds mutex_ while it connects.
Locked == main \in {"blocked", "select", "return", "publish"}

-----------------------------------------------------------------------------
(* The kernel and the peer.  "done" is an established connection that no   *)
(* call of connect has reported yet.                                       *)

Answer == /\ Alive /\ tcp = "syn"
          /\ tcp' \in {"done", "refused"}
          /\ UNCHANGED <<user, main, quit, call, fd, client, io, used, hist, exited>>

PeerEnds == /\ Alive /\ tcp = "est"
            /\ tcp' \in {"fin", "rst"}
            /\ UNCHANGED <<user, main, quit, call, fd, client, io, used, hist, exited>>

AppOpen == /\ Alive /\ AppOpens /\ fd = "free"
           /\ fd' = "other"
           /\ UNCHANGED <<user, main, quit, call, tcp, client, io, used, hist, exited>>

-----------------------------------------------------------------------------
(* connectSocket and startOnLoop, on the main loop's thread *)

\* startOnLoop is queued once and isConnected is FALSE when it runs.
StartOnLoop ==
  /\ Alive /\ main = "queued"
  /\ IF fd # "own"
       THEN /\ call' = [call EXCEPT !.ret = 1] /\ main' = "return"
            /\ UNCHANGED tcp
       ELSE /\ tcp' = "syn"
            /\ main' = IF call.nonblocking THEN "select" ELSE "blocked"
            /\ UNCHANGED call
  /\ UNCHANGED <<user, quit, fd, client, io, used, hist, exited>>

\* connect() of a blocking socket returns; so may that of a non-blocking one at
\* once, with an answer from the same host.
ConnectReturns ==
  /\ Alive
  /\ main = "blocked" \/ (main = "select" /\ call.times = 0)
  /\ tcp \in {"done", "refused"}
  /\ tcp' = IF tcp = "done" THEN "est" ELSE "idle"
  /\ call' = [call EXCEPT !.ret = IF tcp = "done" THEN 0 ELSE 1]
  /\ main' = "return"
  /\ UNCHANGED <<user, quit, fd, client, io, used, hist, exited>>

\* (mutant) select's timeout leaves ret at 0
RoundTimeoutZero(times) ==
  /\ tcp = "syn"
  /\ call' = [call EXCEPT !.times = times]
  /\ main' = IF times = Rounds THEN "return" ELSE "select"
  /\ UNCHANGED tcp

RoundTimeout(times) ==
  /\ tcp = "syn"
  /\ call' = [call EXCEPT !.times = times, !.ret = 1]
  /\ main' = IF times = Rounds THEN "return" ELSE "select"
  /\ UNCHANGED tcp

\* connect() again: EISCONN is success.  Where connect() itself returns 0, which
\* it does when it first reports the connection, errno is the earlier error.
RoundReady(times) ==
  /\ tcp # "syn"
  /\ tcp' = CASE tcp = "done" -> "est"
              [] tcp = "refused" -> "idle"
              [] tcp = "idle" -> "syn"
              [] OTHER -> tcp
  /\ call' = [call EXCEPT !.times = times,
                          !.ret = IF tcp \in {"est", "fin", "rst"} THEN 0 ELSE 1]
  /\ main' = IF call'.ret = 0 \/ times = Rounds THEN "return" ELSE "select"

RoundError(times) ==
  /\ call' = [call EXCEPT !.times = times, !.ret = 1]
  /\ main' = "return"
  /\ UNCHANGED tcp

Round ==
  /\ Alive /\ main = "select"
  /\ \/ RoundTimeout(call.times + 1)
     \/ RoundReady(call.times + 1)
     \/ RoundError(call.times + 1)
  /\ UNCHANGED <<user, quit, fd, client, io, used, hist, exited>>

\* The task ends.  When its shared_ptr of the client is the last one, ~TcpClient
\* runs here, on the thread it joins.
EndTask == /\ main' = "idle"
           /\ exited' = IF user = "left" THEN "self join" ELSE "no"

NewConnection ==
  /\ Alive /\ main = "return"
  /\ IF call.ret = 0
       THEN /\ client' = [client EXCEPT !.conn = "alive", !.ref = TRUE]
            /\ io' = [io EXCEPT !.tasks = Append(@, "add")]
            /\ main' = "publish"
            /\ UNCHANGED exited
       ELSE EndTask /\ UNCHANGED <<client, io>>
  /\ UNCHANGED <<user, quit, call, tcp, fd, used, hist>>

Publish ==
  /\ Alive /\ main = "publish"
  /\ client' = [client EXCEPT !.connected = TRUE]
  /\ EndTask
  /\ UNCHANGED <<user, quit, call, tcp, fd, io, used, hist>>

LeaveLoop == /\ Alive /\ main = "idle" /\ quit
             /\ main' = "left"
             /\ UNCHANGED <<user, quit, call, tcp, fd, client, io, used, hist, exited>>

-----------------------------------------------------------------------------
(* The descriptor and the connection's end.  next is the IO thread after   *)
(* the step that closes.                                                   *)

\* close(fd_), which also takes the socket out of epoll.
CloseFd(next) ==
  /\ fd' = "free"
  /\ tcp' = IF fd = "own" THEN "closed" ELSE tcp
  /\ io' = [next EXCEPT !.registered = @ /\ fd # "own"]
  /\ hist' = [ended |-> TRUE, stranger |-> hist.stranger \/ fd = "other"]

\* ~TcpConnection: out of epoll, which is exit(1) if it is not there; close.
DestroyConnection(next) ==
  /\ client' = [client EXCEPT !.conn = "destroyed", !.ref = FALSE]
  /\ IF fd = "own" /\ io.registered
       THEN CloseFd(next) /\ UNCHANGED exited
       ELSE exited' = "epoll_ctl" /\ io' = next /\ UNCHANGED <<fd, tcp, hist>>

\* The shared_ptrs of the connection: conn_ and the bound shared_from_this().
IsLast(ref, tasks) ==
  /\ client.conn = "alive"
  /\ ~ref
  /\ \A i \in DOMAIN tasks : tasks[i] = "add"

Release(ref, next) ==
  IF IsLast(ref, next.tasks)
    THEN DestroyConnection(next)
    ELSE /\ client' = [client EXCEPT !.ref = ref]
         /\ io' = next
         /\ UNCHANGED <<fd, tcp, hist, exited>>

-----------------------------------------------------------------------------
(* The application's thread *)

Started == Alive /\ user \in {"idle", "saw"}

Start == /\ Alive /\ user = "new"
         /\ user' = "idle" /\ main' = "queued"
         /\ UNCHANGED <<quit, call, tcp, fd, client, io, used, hist, exited>>

\* if (isConnect()) ...
SeeConnected ==
  /\ Alive /\ user = "idle" /\ client.connected /\ used.sends < MaxSends
  /\ user' = "saw"
  /\ UNCHANGED <<main, quit, call, tcp, fd, client, io, used, hist, exited>>

\* ... getTcpConnectPtr()->sendString(...)
Send ==
  /\ Alive /\ user = "saw"
  /\ user' = "idle"
  /\ used' = [used EXCEPT !.sends = @ + 1]
  /\ IF client.ref
       THEN io' = [io EXCEPT !.tasks = Append(@, "send")] /\ UNCHANGED exited
       ELSE exited' = "null connection" /\ UNCHANGED io
  /\ UNCHANGED <<main, quit, call, tcp, fd, client, hist>>

Quiet == main \in {"none", "idle"} /\ io.tasks = <<>>

Close ==
  /\ Alive /\ user = "idle" /\ used.closes < MaxCloses
  /\ Careful => Quiet
  /\ ~Locked
  /\ used' = [used EXCEPT !.closes = @ + 1]
  /\ client' = [client EXCEPT !.connected = FALSE]
  /\ CloseFd(io)
  /\ UNCHANGED <<user, main, quit, call, exited>>

\* (mutant) the pool declared before the members closeConnection uses
StepsPoolLast == <<"quitting", "joining", "dropping", "freeing", "stopping",
                   "waiting", "gone">>

\* ~TcpClient and the members, in the reverse of their order: conn_, the pool
\* (its loop, its thread), and the mutex, the flag and the socket.
Steps == <<"quitting", "joining", "dropping", "stopping", "waiting", "freeing",
           "gone">>

At(step) == \E i \in DOMAIN Steps : user = step /\ Steps[i] = step
GoOn == user' = Steps[1 + CHOOSE i \in DOMAIN Steps : Steps[i] = user]
Freed == \E i, j \in DOMAIN Steps :
            i < j /\ Steps[i] = "freeing" /\ Steps[j] = user

\* The application gives up the client: its destructor runs here, unless the
\* task that connects still holds it.
Leave ==
  /\ Alive /\ user = "idle"
  /\ Careful => Quiet
  /\ user' = IF main = "queued" \/ Locked THEN "left" ELSE "quitting"
  /\ UNCHANGED <<main, quit, call, tcp, fd, client, io, used, hist, exited>>

QuitMain == /\ Alive /\ At("quitting")
            /\ quit' = TRUE /\ GoOn
            /\ UNCHANGED <<main, call, tcp, fd, client, io, used, hist, exited>>

JoinMain == /\ Alive /\ At("joining") /\ main = "left" /\ GoOn
            /\ UNCHANGED <<main, quit, call, tcp, fd, client, io, used, hist, exited>>

DropConnection == /\ Alive /\ At("dropping") /\ GoOn
                  /\ Release(FALSE, io)
                  /\ UNCHANGED <<main, quit, call, used>>

StopIo == /\ Alive /\ At("stopping") /\ GoOn
          /\ io' = [io EXCEPT !.phase = "quit"]
          /\ UNCHANGED <<main, quit, call, tcp, fd, client, used, hist, exited>>

JoinIo == /\ Alive /\ At("waiting") /\ io.phase = "left" /\ GoOn
          /\ UNCHANGED <<main, quit, call, tcp, fd, client, io, used, hist, exited>>

\* ~Socket closes the descriptor, too.
FreeMembers == /\ Alive /\ At("freeing") /\ GoOn
               /\ CloseFd(io)
               /\ UNCHANGED <<main, quit, call, client, used, exited>>

-----------------------------------------------------------------------------
(* The IO thread *)

Serving == Alive /\ io.phase # "left"
Next1 == [io EXCEPT !.tasks = Tail(@)]

Runs(task) == Serving /\ io.tasks # <<>> /\ Head(io.tasks) = task

\* addChannelToPoller.  The task holds a plain pointer to the Channel.
AddChannel ==
  /\ Runs("add")
  /\ exited' = IF client.conn = "destroyed" THEN "dangling channel"
               ELSE IF fd = "free" THEN "epoll_ctl" ELSE "no"
  /\ io' = [Next1 EXCEPT !.registered = fd = "own"]
  /\ UNCHANGED <<user, main, quit, call, tcp, fd, client, used, hist>>

\* handleRead finds the end of the stream (handleClose) or an error (handleError).
HandleEnd ==
  /\ Serving /\ io.registered /\ tcp \in {"fin", "rst"}
  /\ io' = [io EXCEPT !.tasks = Append(@, "cleanup"), !.disc = tcp = "fin"]
  /\ tcp' = "dead"
  /\ UNCHANGED <<user, main, quit, call, fd, client, used, hist, exited>>

\* sendInLoop, whose handleError queues a cleanup; a write hits whatever the
\* descriptor names.
SendInLoop ==
  /\ Runs("send")
  /\ LET fails == fd = "free" \/ (fd = "own" /\ tcp \notin {"est", "fin"})
     IN  IF fails /\ ~io.disc
           THEN Release(client.ref, [Next1 EXCEPT !.tasks = Append(@, "cleanup")])
           ELSE Release(client.ref, Next1)
  /\ UNCHANGED <<user, main, quit, call, used>>

\* (mutant) closeConnection does not take mutex_
MayCleanUpAlways == TRUE

MayCleanUp == ~Locked

\* closeConnection; then the task's shared_ptr goes, and if it is the last,
\* ~TcpConnection finds the descriptor closed.
CloseConnection ==
  /\ Runs("cleanup")
  /\ MayCleanUp
  /\ CloseFd(Next1)
  /\ client' = [client EXCEPT !.connected = FALSE]
  /\ exited' = IF Freed THEN "dangling client"
               ELSE IF IsLast(client.ref, Tail(io.tasks)) THEN "epoll_ctl" ELSE "no"
  /\ UNCHANGED <<user, main, quit, call, used>>

\* The loop ends and takes the tasks it has not run with it.
LeaveIo ==
  /\ Serving /\ io.phase = "quit"
  /\ Release(client.ref, [io EXCEPT !.tasks = <<>>, !.phase = "left"])
  /\ UNCHANGED <<user, main, quit, call, used>>

\* The client is at rest: nobody has to call it, and it may be gone.
Rest == /\ Alive => user \in {"new", "left", "gone"} \/ (user = "idle" /\ Quiet)
        /\ UNCHANGED vars

-----------------------------------------------------------------------------

Connecting == StartOnLoop \/ ConnectReturns \/ Round \/ NewConnection \/ Publish
Destroying == \/ QuitMain \/ JoinMain \/ DropConnection \/ StopIo \/ JoinIo
              \/ FreeMembers
Io == AddChannel \/ HandleEnd \/ SendInLoop \/ CloseConnection \/ LeaveIo

Next == \/ Answer \/ PeerEnds \/ AppOpen
        \/ Connecting \/ LeaveLoop \/ Io
        \/ Start \/ SeeConnected \/ Send \/ Close \/ Leave \/ Destroying
        \/ Rest

Spec == Init /\ [][Next]_vars

\* Both loops run (epoll_wait times out), the peer's host answers or connect
\* times out, and a thread inside ~TcpClient goes on.
FairSpec == /\ Spec
            /\ WF_vars(Answer) /\ WF_vars(Connecting) /\ WF_vars(LeaveLoop)
            /\ WF_vars(AddChannel \/ SendInLoop \/ CloseConnection)
            /\ WF_vars(HandleEnd) /\ WF_vars(LeaveIo) /\ WF_vars(Destroying)

-----------------------------------------------------------------------------
(* Properties *)

\* The variables stay in their ranges.
TypeOK ==
  /\ user \in {"new", "idle", "saw", "left"} \union {Steps[i] : i \in DOMAIN Steps}
  /\ main \in {"none", "queued", "blocked", "select", "return", "publish", "idle",
               "left"}
  /\ call \in [nonblocking : BOOLEAN, times : 0 .. Rounds, ret : {0, 1}]
  /\ tcp \in {"idle", "syn", "done", "refused", "est", "fin", "rst", "dead",
              "closed"}
  /\ fd \in {"own", "free", "other"}
  /\ client \in [connected : BOOLEAN, conn : {"null", "alive", "destroyed"},
                 ref : BOOLEAN]
  /\ io \in [tasks : Seq({"add", "send", "cleanup"}), registered : BOOLEAN,
             disc : BOOLEAN, phase : {"run", "quit", "left"}]
  /\ quit \in BOOLEAN
  /\ used \in [sends : 0 .. MaxSends, closes : 0 .. MaxCloses]
  /\ hist \in [ended : BOOLEAN, stranger : BOOLEAN]
  /\ exited \in {"no", "self join", "null connection", "dangling channel",
                 "dangling client", "epoll_ctl"}

\* A process that uses the client with care and owns it until it is destroyed
\* dies only of the connection's destructor, when the connection had ended: no
\* null or dangling pointer in getTcpConnectPtr, in a task or in closeConnection,
\* which runs while the members are destroyed, and no thread that joins itself
\* (TcpClient.cpp:35, 45, 94, 105).
Survives == exited # "no" => exited = "epoll_ctl" /\ hist.ended

\* connectSocket reports a connection only of a socket that was connected:
\* conn_ never starts on a socket that is connecting or was refused.
ConnectedIsConnected ==
  main = "return" /\ call.ret = 0 => tcp \in {"est", "fin", "rst"}

\* A connection that ended comes to be, and stays, "not connected", also when
\* it ends before startOnLoop has said that it is connected: programs loop while
\* isConnect() (TestPetSerializeTransClient.cpp:41).
EndIsSeen ==
  (tcp \in {"fin", "rst"}) ~>
     [](~client.connected \/ user \notin {"new", "idle", "saw"})

\* A client whose descriptor was closed, by closeConnection or by close(), starts
\* no connection any more, and is never again "connected": startOnLoop does not
\* find the socket, or holds mutex_ until it has said that it is connected
\* (TcpClient.cpp:53-58, 68-80, 105-112).
ClosedForGood ==
  [][hist.ended => /\ client'.connected => client.connected
                   /\ client'.conn = "alive" => client.conn = "alive"]_vars

\* The library never closes a descriptor that is another file by then
\* (TcpClient.cpp:109 closes the number a second time).
NoStranger == ~hist.stranger

\* connectSocket does not give up a connection that is established
\* (Socket.cpp:134: a completion seen in the last round is read as the errno of
\* an earlier call).
ConnectReported == [][main = "select" /\ main' = "return" /\ tcp \in {"done", "est"}
                        => call'.ret = 0]_vars

\* A client whose connection has ended is destroyed without exit(1).
EndsCleanly == exited # "epoll_ctl"

=============================================================================
