--------------------------- MODULE TcpConnection ---------------------------
(***************************************************************************)
(* One TcpConnection from its registration to its destruction: its socket, *)
(* its Channel and epoll interest, the loop thread that runs its handlers  *)
(* and tasks, the application's callbacks, and the worker threads that     *)
(* call sendString.                                                        *)
(*                                                                         *)
(* The handlers of TcpConnection.cpp call each other and the application   *)
(* to any depth (handleRead - onMessage - sendString - sendInLoop -        *)
(* onSendComplete - handleClose - onMessage ...).  loop.stack is that call *)
(* stack: its head names the code the loop thread runs next, and a handler *)
(* is one step that replaces its own frame by the calls it makes.          *)
(*                                                                         *)
(* Bytes are counted in units: read and write move at most BufSize of      *)
(* them at a time (4096 bytes), and every message sent is MsgSize units.   *)
(***************************************************************************)
EXTENDS Naturals, Sequences, FiniteSets

CONSTANTS
  Workers,       \* threads of the application's pool
  BufSize,       \* BUFSIZE
  SndCap,        \* capacity of the socket's send buffer
  MsgSize,       \* units in one message sent
  MaxSends,      \* bound: messages passed to sendString
  MaxIn,         \* bound: units the peer sends
  MaxShutDowns,  \* bound: calls of shutDown
  Greets,        \* onConnection sends a message
  ConsumeFirst,  \* onMessage empties its buffer before it replies, not after
  UseAsync,      \* onMessage sets asyncProcess_ when it hands work to the pool
  PolitePeer     \* the peer closes once its data were read, and never resets

ASSUME ConnAssumption ==
  /\ {BufSize, SndCap, MsgSize} \subseteq Nat \ {0}
  /\ {MaxSends, MaxIn, MaxShutDowns} \subseteq Nat
  /\ {Greets, ConsumeFirst, UseAsync, PolitePeer} \subseteq BOOLEAN
  /\ IsFiniteSet(Workers)

VARIABLES
  sock,    \* the socket: in, units not read; eos, see below; out, units in the
           \* send buffer; noSpace, a write found it full; wire, history of the
           \* units written
  epoll,   \* registered; interest, the mask epoll holds; onList, on its ready list
  loop,    \* phase of loop(): poll, dispatch or run; active, the channel awaits
           \* handleEvent; tasks, functorList_; batch, functionList; holds, the
           \* batch holds a shared_ptr; stack
  conn,    \* the object: events (of its Channel), bufIn (a size), bufOut (units),
           \* half, disc, async (flags), inMap (tcpConnList_ holds it),
           \* destroyer (the thread that ran ~TcpConnection)
  worker,  \* what each worker is doing with the connection: it was "asked" for
           \* an answer by onMessage, or is "holding" it for another handler
  old,     \* bufferOut_ as a worker read it before it appends
  hist,    \* history: sends, received, delivered (units), shutDowns, closed,
           \* errors, cleanups (calls of these)
  exited   \* why the process died, "no" while it runs

vars == <<sock, epoll, loop, conn, worker, old, hist, exited>>

Units == 1 .. MsgSize * MaxSends

Init ==
  /\ sock = [in |-> 0, eos |-> "open", out |-> 0, noSpace |-> FALSE,
             wire |-> <<>>]
  /\ epoll = [registered |-> FALSE, interest |-> {}, onList |-> FALSE]
  /\ loop = [phase |-> "dispatch", active |-> FALSE, tasks |-> <<>>,
             batch |-> <<>>, holds |-> FALSE, stack |-> <<"accepted">>]
  /\ conn = [events |-> {"IN", "ET"}, bufIn |-> 0, bufOut |-> <<>>,
             half |-> FALSE, disc |-> FALSE, async |-> FALSE,
             inMap |-> TRUE, destroyer |-> "none"]
  /\ worker = [w \in Workers |-> "idle"]
  /\ old = [w \in Workers |-> <<>>]
  /\ hist = [sends |-> 0, received |-> 0, delivered |-> 0, shutDowns |-> 0,
             closed |-> 0, errors |-> 0, cleanups |-> 0]
  /\ exited = "no"

Alive == conn.destroyer = "none" /\ exited = "no"
workVars == <<worker, old>>

-----------------------------------------------------------------------------
(* The socket and epoll, as the kernel implements them.  eos is "open";    *)
(* "fin" after the peer's FIN; "rst" after a reset whose error no call has *)
(* returned yet, "dead" after that; "broken" after a FIN and a reset.      *)

Reset == {"rst", "dead", "broken"}

Ready(s, mask) ==
  (IF s.in > 0 \/ s.eos # "open" THEN {"IN"} \intersect mask ELSE {})
  \union (IF s.out < SndCap \/ s.eos \in Reset THEN {"OUT"} \intersect mask
                                               ELSE {})
  \union (IF s.eos \in Reset THEN {"HUP"} ELSE {})

\* An event of the socket puts it on the ready list if its mask asks for it.
Notice(kind) ==
  epoll' = [epoll EXCEPT
     !.onList = @ \/ (epoll.registered /\ kind \in epoll.interest \union {"HUP"})]

PeerSend == /\ Alive
            /\ sock.eos = "open"
            /\ hist.received < MaxIn
            /\ sock' = [sock EXCEPT !.in = @ + 1]
            /\ hist' = [hist EXCEPT !.received = @ + 1]
            /\ Notice("IN")
            /\ UNCHANGED <<loop, conn, workVars, exited>>

PeerFin == /\ Alive
           /\ sock.eos = "open"
           /\ PolitePeer => sock.in = 0 /\ loop.stack = <<>> /\ ~loop.active
           /\ sock' = [sock EXCEPT !.eos = "fin"]
           /\ Notice("IN")
           /\ UNCHANGED <<loop, conn, workVars, hist, exited>>

PeerRst == /\ Alive
           /\ ~PolitePeer
           /\ sock.eos \in {"open", "fin"}
           /\ sock' = [sock EXCEPT !.eos = IF @ = "open" THEN "rst" ELSE "broken",
                                   !.out = 0]
           /\ Notice("HUP")
           /\ UNCHANGED <<loop, conn, workVars, hist, exited>>

PeerDrain == /\ Alive
             /\ sock.out > 0
             /\ sock' = [sock EXCEPT !.out = @ - 1, !.noSpace = FALSE]
             /\ IF sock.noSpace THEN Notice("OUT") ELSE UNCHANGED epoll
             /\ UNCHANGED <<loop, conn, workVars, hist, exited>>

\* (mutant) events_ is changed but updateChannelToPoller is not called
EpollAddOnly(mustBeRegistered, mask, s) ==
  /\ epoll' = IF mustBeRegistered THEN epoll
              ELSE [registered |-> TRUE,
                    interest |-> mask \intersect {"IN", "OUT", "ET"},
                    onList |-> Ready(s, mask) # {}]
  /\ UNCHANGED exited

\* Poller::addChannel and updateChannel: epoll_ctl looks at the socket at once,
\* and the Poller calls exit(1) when it fails.
EpollCtl(mustBeRegistered, mask, s) ==
  IF epoll.registered = mustBeRegistered
    THEN /\ epoll' = [registered |-> TRUE,
                      interest |-> mask \intersect {"IN", "OUT", "ET"},
                      onList |-> epoll.onList \/ Ready(s, mask) # {}]
         /\ UNCHANGED exited
    ELSE /\ exited' = "epoll_ctl"
         /\ UNCHANGED epoll

-----------------------------------------------------------------------------
(* recvn and sendn *)

\* (mutant) EAGAIN returns 0 also after full blocks were read
RecvForgetsBlocks ==
  CASE sock.in % BufSize # 0                -> "data"
    [] sock.eos \in {"fin", "dead", "broken"} -> "zero"
    [] sock.eos = "rst"                     -> "error"
    [] OTHER                                -> "zero"

\* recvn reads blocks until one is short, and returns there without the read
\* that would see the end of the stream (recvn, line 30).
RecvResult ==
  CASE sock.in % BufSize # 0                -> "data"
    [] sock.eos \in {"fin", "dead", "broken"} -> "zero"
    [] sock.eos = "rst"                     -> "error"
    [] OTHER -> IF sock.in > 0 THEN "data" ELSE "zero"

\* recvn clears bufferIn_ first, whatever it returns.
Recv == /\ conn' = [conn EXCEPT !.bufIn = sock.in]
        /\ sock' = [sock EXCEPT !.in = 0,
                                !.eos = IF RecvResult = "error" THEN "dead" ELSE @]

SmallerOf(a, b) == IF a <= b THEN a ELSE b

\* What the socket accepts of bufferOut_.
Accepts == SmallerOf(Len(conn.bufOut), SndCap - sock.out)

\* write to a socket whose peer has reset it: the pending error the first
\* time, then EPIPE with the signal SIGPIPE, which the program does not handle.
SendResult == CASE sock.eos = "rst"                -> "error"
                [] sock.eos \in {"dead", "broken"} -> "SIGPIPE"
                [] OTHER -> IF Accepts = 0 THEN "zero" ELSE "sent"

\* The state of the socket and of bufferOut_ after sendn.
Written == [sock EXCEPT !.wire = @ \o SubSeq(conn.bufOut, 1, Accepts),
                        !.out = @ + Accepts,
                        !.noSpace = @ \/ Accepts < Len(conn.bufOut)]

\* (mutant) the erase takes one unit too many
UnsentShort == SubSeq(conn.bufOut, Accepts + 2, Len(conn.bufOut))

Unsent == SubSeq(conn.bufOut, Accepts + 1, Len(conn.bufOut))

-----------------------------------------------------------------------------
(* The loop thread *)

Running(frame) == Alive /\ loop.stack # <<>> /\ Head(loop.stack) = frame
Waiting == Alive /\ loop.stack = <<>>

\* The running handler makes these calls, posts these tasks and returns.
Return(calls, posts) ==
  loop' = [loop EXCEPT !.stack = calls \o Tail(@), !.tasks = @ \o posts]

\* sendString appends a message to bufferOut_.
Message(n) == [i \in 1 .. MsgSize |-> n * MsgSize + i]
NextMessage == Message(hist.sends)
MaySend == hist.sends + Cardinality({w \in Workers :
                            worker[w] \in {"asked", "holding", "appending"}}) < MaxSends

\* sendInLoop (lines 147-169) and handleWrite (lines 205-229) do the same.
SendOrWrite ==
  CASE SendResult = "sent" ->
         /\ sock' = Written
         /\ IF Unsent # <<>>
              THEN LET mask == conn.events \union {"OUT"}
                   IN  /\ conn' = [conn EXCEPT !.bufOut = Unsent, !.events = mask]
                       /\ EpollCtl(TRUE, mask, Written)
                       /\ Return(<<>>, <<>>)
              ELSE /\ conn' = [conn EXCEPT !.bufOut = <<>>, !.events = @ \ {"OUT"}]
                   /\ Return(<<"complete", "afterSend">>, <<>>)
                   /\ UNCHANGED <<epoll, exited>>
    [] SendResult = "zero" ->
         /\ sock' = [sock EXCEPT !.noSpace = @ \/ conn.bufOut # <<>>]
         /\ Return(<<"close">>, <<>>)
         /\ UNCHANGED <<epoll, conn, exited>>
    [] SendResult = "error" ->
         /\ sock' = [sock EXCEPT !.eos = "dead"]
         /\ Return(<<"error">>, <<>>)
         /\ UNCHANGED <<epoll, conn, exited>>
    [] OTHER ->
         /\ exited' = "SIGPIPE"
         /\ UNCHANGED <<sock, epoll, loop, conn>>

SendInLoop == Running("send") /\ SendOrWrite /\ UNCHANGED <<workVars, hist>>
HandleWrite == Running("write") /\ SendOrWrite /\ UNCHANGED <<workVars, hist>>

HandleRead ==
  /\ Running("read")
  /\ Recv
  /\ Return(CASE RecvResult = "data"  -> <<"message">>
              [] RecvResult = "zero"  -> <<"close">>
              [] RecvResult = "error" -> <<"error">>, <<>>)
  /\ UNCHANGED <<epoll, workVars, hist, exited>>

\* (mutant) disConnected_ is not set
DisconnectForgetsFlag ==
  /\ Return(<<>>, <<"cleanup">>)
  /\ hist' = [hist EXCEPT !.closed = @ + 1, !.cleanups = @ + 1]
  /\ UNCHANGED conn

\* (mutant) the cleanup task is not queued
DisconnectForgetsCleanup ==
  /\ Return(<<>>, <<>>)
  /\ hist' = [hist EXCEPT !.closed = @ + 1]
  /\ conn' = [conn EXCEPT !.disc = TRUE]

\* The last branch of handleClose, and shutDownInLoop: closeCallback_, the
\* cleanup task, disConnected_ = true.
Disconnect ==
  /\ Return(<<>>, <<"cleanup">>)
  /\ hist' = [hist EXCEPT !.closed = @ + 1, !.cleanups = @ + 1]
  /\ conn' = [conn EXCEPT !.disc = TRUE]

\* (mutant) bufferOut_ and asyncProcess_ are not looked at
OnlyInputPending == conn.bufIn > 0

Pending == conn.bufIn > 0 \/ conn.bufOut # <<>> \/ conn.async

HandleClose ==
  /\ Running("close")
  /\ CASE conn.disc -> Return(<<>>, <<>>) /\ UNCHANGED <<conn, hist>>
       [] ~conn.disc /\ Pending ->
            /\ conn' = [conn EXCEPT !.half = TRUE]
            /\ Return(IF conn.bufIn > 0 THEN <<"message">> ELSE <<>>, <<>>)
            /\ UNCHANGED hist
       [] OTHER -> Disconnect
  /\ UNCHANGED <<sock, epoll, workVars, exited>>

HandleError ==
  /\ Running("error")
  /\ IF conn.disc
       THEN Return(<<>>, <<>>) /\ UNCHANGED hist
       ELSE /\ Return(<<>>, <<"cleanup">>)
            /\ hist' = [hist EXCEPT !.errors = @ + 1, !.cleanups = @ + 1]
  /\ UNCHANGED <<sock, epoll, conn, workVars, exited>>

ShutDownInLoop ==
  /\ Running("shutDown")
  /\ IF conn.disc THEN Return(<<>>, <<>>) /\ UNCHANGED <<conn, hist>>
                  ELSE Disconnect
  /\ UNCHANGED <<sock, epoll, workVars, exited>>

\* if (halfClose_) handleClose(), after the callback of a completed send.
AfterSend == /\ Running("afterSend")
             /\ Return(IF conn.half THEN <<"close">> ELSE <<>>, <<>>)
             /\ UNCHANGED <<sock, epoll, conn, workVars, hist, exited>>

-----------------------------------------------------------------------------
(* The application on the loop thread *)

\* sendString called by the loop thread.
SendString(frames, c) ==
  /\ MaySend
  /\ conn' = [c EXCEPT !.bufOut = @ \o NextMessage]
  /\ hist' = [hist EXCEPT !.sends = @ + 1]
  /\ Return(<<"send">> \o frames, <<>>)

\* newConnectCallback_, then addChannelToLoop: the task holds only the Channel.
Accepted == /\ Running("accepted")
            /\ \/ /\ Greets
                  /\ SendString(<<"add">>, conn)
               \/ /\ Return(<<"add">>, <<>>)
                  /\ UNCHANGED <<conn, hist>>
            /\ UNCHANGED <<sock, epoll, workVars, exited>>

AddChannelToLoop == /\ Running("add")
                    /\ Return(<<>>, <<"addChannel">>)
                    /\ UNCHANGED <<sock, epoll, conn, workVars, hist, exited>>

\* (mutant) the callback is given a copy of bufferIn_
ConsumedCopy(c) == c

Consumed(c) == [c EXCEPT !.bufIn = 0]

\* messageCallback_: the application takes the input, and may reply at once
\* or hand the message to a worker of its pool.
OnMessage ==
  /\ Running("message")
  /\ LET h == [hist EXCEPT !.delivered = @ + conn.bufIn]
         c == IF ConsumeFirst THEN Consumed(conn) ELSE conn
         rest == IF ConsumeFirst THEN <<>> ELSE <<"consume">>
     IN  \/ /\ Return(rest, <<>>)
            /\ conn' = c
            /\ hist' = h
            /\ UNCHANGED workVars
         \/ /\ MaySend
            /\ conn' = [c EXCEPT !.bufOut = @ \o NextMessage]
            /\ hist' = [h EXCEPT !.sends = @ + 1]
            /\ Return(<<"send">> \o rest, <<>>)
            /\ UNCHANGED workVars
         \/ \E w \in Workers :
            /\ MaySend
            /\ worker[w] = "idle"
            /\ worker' = [worker EXCEPT ![w] = "asked"]
            /\ conn' = [c EXCEPT !.async = @ \/ UseAsync]
            /\ hist' = h
            /\ Return(rest, <<>>)
            /\ UNCHANGED old
  /\ UNCHANGED <<sock, epoll, exited>>

Consume == /\ Running("consume")
           /\ conn' = Consumed(conn)
           /\ Return(<<>>, <<>>)
           /\ UNCHANGED <<sock, epoll, workVars, hist, exited>>

\* sendCompleteCallback_: the application may send the next piece.
OnSendComplete == /\ Running("complete")
                  /\ \/ SendString(<<>>, conn)
                     \/ Return(<<>>, <<>>) /\ UNCHANGED <<conn, hist>>
                  /\ UNCHANGED <<sock, epoll, workVars, exited>>

\* A handler of another channel of this loop sends on the connection, hands a
\* worker a message for it, or shuts it down.
OtherHandler ==
  /\ Waiting
  /\ loop.phase = "dispatch"
  /\ conn.inMap
  /\ \/ /\ MaySend
        /\ conn' = [conn EXCEPT !.bufOut = @ \o NextMessage]
        /\ hist' = [hist EXCEPT !.sends = @ + 1]
        /\ loop' = [loop EXCEPT !.stack = <<"send">>]
        /\ UNCHANGED worker
     \/ \E w \in Workers :
        /\ MaySend
        /\ worker[w] = "idle"
        /\ worker' = [worker EXCEPT ![w] = "holding"]
        /\ UNCHANGED <<loop, conn, hist>>
     \/ /\ hist.shutDowns < MaxShutDowns
        /\ hist' = [hist EXCEPT !.shutDowns = @ + 1]
        /\ loop' = [loop EXCEPT !.stack = <<"shutDown">>]
        /\ UNCHANGED <<conn, worker>>
  /\ UNCHANGED <<sock, epoll, old, exited>>

-----------------------------------------------------------------------------
(* loop(): poll, dispatch, run the batch *)

\* pollWait reports the channel and overwrites its events_; an edge-triggered
\* file leaves the ready list when it is reported, any file when it is not.
PollReports ==
  /\ Waiting
  /\ loop.phase = "poll"
  /\ epoll.registered /\ epoll.onList
  /\ LET revents == Ready(sock, epoll.interest)
     IN  IF revents # {}
           THEN /\ conn' = [conn EXCEPT !.events = revents]
                /\ loop' = [loop EXCEPT !.phase = "dispatch", !.active = TRUE]
                /\ epoll' = [epoll EXCEPT !.onList = "ET" \notin epoll.interest]
           ELSE /\ epoll' = [epoll EXCEPT !.onList = FALSE]
                /\ UNCHANGED <<conn, loop>>
  /\ UNCHANGED <<sock, workVars, hist, exited>>

\* pollWait returns for the eventfd, for another channel or on its timeout.
PollOther == /\ Waiting
             /\ loop.phase = "poll"
             /\ ~(epoll.registered /\ epoll.onList)
             /\ loop' = [loop EXCEPT !.phase = "dispatch"]
             /\ UNCHANGED <<sock, epoll, conn, workVars, hist, exited>>

\* Channel::handleEvent looks at IN before OUT, and at one of them only.
HandleEvent ==
  /\ Waiting
  /\ loop.active
  /\ loop' = [loop EXCEPT !.active = FALSE,
                          !.stack = CASE "IN" \in conn.events  -> <<"read">>
                                      [] "IN" \notin conn.events
                                         /\ "OUT" \in conn.events -> <<"write">>
                                      [] OTHER -> <<>>]
  /\ UNCHANGED <<sock, epoll, conn, workVars, hist, exited>>

\* A task other than addChannel is bound to a shared_ptr of the connection.
Holds(list) == \E i \in DOMAIN list : list[i] # "addChannel"

SwapTasks == /\ Waiting
             /\ loop.phase = "dispatch"
             /\ ~loop.active
             /\ loop' = [loop EXCEPT !.phase = "run", !.batch = loop.tasks,
                                     !.tasks = <<>>, !.holds = Holds(loop.tasks)]
             /\ UNCHANGED <<sock, epoll, conn, workVars, hist, exited>>

\* TcpServer::removeConnection erases the connection from tcpConnList_.
RunTask ==
  /\ Waiting
  /\ loop.batch # <<>>
  /\ LET task == Head(loop.batch)
         frame == CASE task = "sendInLoop"     -> <<"send">>
                    [] task = "shutDownInLoop" -> <<"shutDown">>
                    [] OTHER                   -> <<>>
     IN  /\ loop' = [loop EXCEPT !.batch = Tail(@), !.stack = frame]
         /\ conn' = [conn EXCEPT !.inMap = @ /\ task # "cleanup"]
         /\ IF task = "addChannel" THEN EpollCtl(FALSE, conn.events, sock)
                                   ELSE UNCHANGED <<epoll, exited>>
  /\ UNCHANGED <<sock, workVars, hist>>

\* Nobody holds a shared_ptr of the connection any more: ~TcpConnection takes
\* the fd out of epoll, where a failure is exit(1), and closes it.
Destroy(thread) ==
  IF epoll.registered
    THEN /\ conn' = [conn EXCEPT !.destroyer = thread]
         /\ epoll' = [epoll EXCEPT !.registered = FALSE, !.onList = FALSE]
         /\ exited' = IF loop.active \/ loop.stack # <<>> THEN "use after free"
                                                          ELSE exited
    ELSE /\ exited' = "epoll_ctl"
         /\ UNCHANGED <<conn, epoll>>

EndBatch ==
  /\ Waiting
  /\ loop.phase = "run"
  /\ loop.batch = <<>>
  /\ loop' = [loop EXCEPT !.phase = "poll", !.holds = FALSE]
  /\ IF conn.inMap \/ Holds(loop.tasks) \/ \E w \in Workers : worker[w] # "idle"
       THEN UNCHANGED <<conn, epoll, exited>>
       ELSE Destroy("loop")
  /\ UNCHANGED <<sock, workVars, hist>>

-----------------------------------------------------------------------------
(* sendString on a worker thread, and shutDown on any other thread *)

\* bufferOut_ += str is not guarded: the worker reads the string and writes it
\* back in two steps.
AppendRead(w) == /\ Alive
                 /\ worker[w] \in {"asked", "holding"}
                 /\ worker' = [worker EXCEPT ![w] = "appending"]
                 /\ old' = [old EXCEPT ![w] = conn.bufOut]
                 /\ UNCHANGED <<sock, epoll, loop, conn, hist, exited>>

AppendWrite(w) == /\ Alive
                  /\ worker[w] = "appending"
                  /\ worker' = [worker EXCEPT ![w] = "appended"]
                  /\ conn' = [conn EXCEPT !.bufOut = old[w] \o NextMessage]
                  /\ hist' = [hist EXCEPT !.sends = @ + 1]
                  /\ old' = [old EXCEPT ![w] = <<>>]
                  /\ UNCHANGED <<sock, epoll, loop, exited>>

EndAsync(w) == /\ Alive
               /\ worker[w] = "appended"
               /\ worker' = [worker EXCEPT ![w] = "sending"]
               /\ conn' = [conn EXCEPT !.async = FALSE]
               /\ UNCHANGED <<sock, epoll, loop, old, hist, exited>>

PostSend(w) == /\ Alive
               /\ worker[w] = "sending"
               /\ worker' = [worker EXCEPT ![w] = "posted"]
               /\ loop' = [loop EXCEPT !.tasks = Append(@, "sendInLoop")]
               /\ UNCHANGED <<sock, epoll, conn, old, hist, exited>>

\* The worker's task, and with it a shared_ptr of the connection, is released.
Release(w) ==
  /\ Alive
  /\ worker[w] = "posted"
  /\ worker' = [worker EXCEPT ![w] = "idle"]
  /\ IF \/ conn.inMap \/ loop.holds \/ Holds(loop.tasks)
        \/ \E v \in Workers \ {w} : worker[v] # "idle"
       THEN UNCHANGED <<conn, epoll, exited>>
       ELSE Destroy("worker")
  /\ UNCHANGED <<sock, loop, old, hist>>

ShutDown == /\ Alive
            /\ conn.inMap
            /\ hist.shutDowns < MaxShutDowns
            /\ hist' = [hist EXCEPT !.shutDowns = @ + 1]
            /\ loop' = [loop EXCEPT !.tasks = Append(@, "shutDownInLoop")]
            /\ UNCHANGED <<sock, epoll, conn, workVars, exited>>

Gone == ~Alive /\ UNCHANGED vars

-----------------------------------------------------------------------------

Handler == \/ SendInLoop \/ HandleWrite \/ HandleRead \/ HandleClose
           \/ HandleError \/ ShutDownInLoop \/ AfterSend \/ Accepted
           \/ AddChannelToLoop \/ OnMessage \/ Consume \/ OnSendComplete
LoopStep == PollReports \/ HandleEvent \/ SwapTasks \/ RunTask \/ EndBatch
Peer == PeerSend \/ PeerFin \/ PeerRst \/ PeerDrain
WorkerStep(w) == AppendRead(w) \/ AppendWrite(w) \/ EndAsync(w)
                 \/ PostSend(w) \/ Release(w)

Next == \/ Handler \/ LoopStep \/ PollOther \/ OtherHandler \/ Peer \/ ShutDown
        \/ Gone
        \/ \E w \in Workers : WorkerStep(w)

Spec == Init /\ [][Next]_vars

\* The loop thread and the workers run, epoll_wait times out, and the peer
\* reads what it was sent.  Nobody need send, close, reset or shut down.
FairSpec == /\ Spec
            /\ WF_vars(Handler \/ LoopStep)
            /\ WF_vars(PollOther)
            /\ WF_vars(PeerDrain)
            /\ \A w \in Workers : WF_vars(WorkerStep(w))

-----------------------------------------------------------------------------
(* Properties *)

Phase == CASE conn.destroyer # "none" -> "gone"
           [] conn.destroyer = "none" /\ hist.cleanups > 0 -> "ended"
           [] OTHER -> "open"

Promised == INSTANCE Connection WITH
              given   <- hist.sends * MsgSize,
              written <- sock.wire,
              phase   <- Phase,
              closed  <- hist.closed,
              asked   <- hist.shutDowns > 0

\* A connection whose application sends on the loop's thread only is the
\* abstract connection: the handlers that share bufferOut_ and the three ends
\* (handleClose, handleError, shutDownInLoop) write all that was given in
\* order, close once, and not before it is written unless shutDown was called
\* ("data first, then close", TcpConnection.cpp:244).
ConnectionSafe == Promised!SafeSpec

Frames == {"accepted", "add", "read", "write", "send", "message", "consume",
           "complete", "afterSend", "close", "error", "shutDown"}
Tasks == {"addChannel", "sendInLoop", "cleanup", "shutDownInLoop"}
Mask == {"IN", "OUT", "ET", "HUP"}

TypeOK ==
  /\ sock \in [in : 0 .. MaxIn, eos : {"open", "fin"} \union Reset,
               out : 0 .. SndCap, noSpace : BOOLEAN, wire : Seq(Units)]
  /\ epoll \in [registered : BOOLEAN, interest : SUBSET {"IN", "OUT", "ET"},
                onList : BOOLEAN]
  /\ loop \in [phase : {"poll", "dispatch", "run"}, active : BOOLEAN,
               tasks : Seq(Tasks), batch : Seq(Tasks), holds : BOOLEAN,
               stack : Seq(Frames)]
  /\ conn \in [events : SUBSET Mask, bufIn : 0 .. MaxIn, bufOut : Seq(Units),
               half : BOOLEAN, disc : BOOLEAN, async : BOOLEAN,
               inMap : BOOLEAN, destroyer : {"none", "loop", "worker"}]
  /\ worker \in [Workers -> {"idle", "asked", "holding", "appending",
                             "appended", "sending", "posted"}]
  /\ old \in [Workers -> Seq(Units)]
  /\ hist \in [sends : 0 .. MaxSends, received : 0 .. MaxIn, delivered : Nat,
               shutDowns : 0 .. MaxShutDowns, closed : Nat, errors : Nat,
               cleanups : Nat]
  /\ exited \in {"no", "epoll_ctl", "SIGPIPE", "use after free"}

\* What sendString was given reaches the socket or waits in bufferOut_, each
\* unit once and in order, over partial writes and calls nested in callbacks
\* (sendn, TcpConnection.cpp:56-103; "message delivery across threads", 135).
StreamIntegrity ==
  sock.wire \o conn.bufOut = [i \in 1 .. hist.sends * MsgSize |-> i]

\* closeCallback_ runs at most once for a connection, however its end is
\* noticed: end of stream, failed send, shutDown from a handler or a thread
\* (handleClose, shutDownInLoop).
ClosedOnce == hist.closed <= 1

\* The connection closes itself only after the peer closed or reset it or the
\* application asked for it.
NoSpuriousClose == conn.disc => sock.eos # "open" \/ hist.shutDowns > 0

\* messageCallback_ is given every unit the peer sent at most once, although
\* handleClose calls it again for what bufferIn_ still holds
\* (TcpConnection.cpp:251-255).
DeliveredOnce == hist.delivered <= hist.received

\* "data first, then close" (TcpConnection.cpp:244): when handleClose runs
\* closeCallback_ no output waits, and no worker to which onMessage handed a
\* message under asyncProcess_ has yet to answer.
FinishedBeforeClose ==
  [][hist'.closed > hist.closed /\ Head(loop.stack) = "close"
       => /\ conn.bufOut = <<>>
          /\ UseAsync => \A w \in Workers : worker[w] # "asked"]_vars

\* The cleanup of a connection is queued once ("mark the connection as to be
\* cleaned up, add the cleanup to the tasks", TcpConnection.cpp:238).
CleanupOnce == hist.cleanups <= 1

\* "This should not return 0" (TcpConnection.cpp:98): sendn is never called
\* with nothing to send.
SendsSomething ==
  (Running("send") \/ Running("write")) => conn.bufOut # <<>>

\* Nothing is running and the loop has no send to do for the connection.
AtRest == /\ Waiting /\ loop.phase = "poll" /\ ~conn.disc
          /\ epoll.registered /\ sock.eos = "open"
          /\ \A i \in DOMAIN loop.tasks : loop.tasks[i] # "sendInLoop"

\* "when the buffer has been sent ... clear the EPOLLOUT event"
\* (TcpConnection.cpp:211).
OutClearedWhenSent == (AtRest /\ conn.bufOut = <<>>) => "OUT" \notin epoll.interest

\* "the buffer is full and data are left: set the EPOLLOUT event"
\* (TcpConnection.cpp:151).
OutArmedWhenFull == (AtRest /\ conn.bufOut # <<>>) => "OUT" \in epoll.interest

\* "the buffer is full and data are left: set the EPOLLOUT event"
\* (TcpConnection.cpp:151) does not end the process: epoll_ctl is only asked to
\* modify a channel that it knows, also when onConnection sends.
EpollSucceeds == exited # "epoll_ctl"

\* "the peer has closed and sent RST: a further write reports EPIPE"
\* (TcpConnection.cpp:87): the process outlives it.
WriteSurvivesReset == exited # "SIGPIPE"

\* "not needed, we are in the loop's thread" (TcpConnection.cpp:121): the
\* destructor runs in the loop's thread.
DestroyedInLoop == conn.destroyer # "worker"

\* "data first, then close" (TcpConnection.cpp:244): once the peer has closed
\* its side the connection is cleaned up.
FinCloses == (sock.eos = "fin") ~> (~conn.inMap \/ exited # "no"
                                    \/ sock.eos # "fin")

\* Output that waits in bufferOut_ is written as long as the peer only reads:
\* a partial send leaves EPOLLOUT armed (TcpConnection.cpp:152-154, 214-216).
PeerOnlyReads == sock.eos = "open" /\ hist.received = 0
OutputFlushed ==
  (conn.bufOut # <<>> /\ PeerOnlyReads)
     ~> (conn.bufOut = <<>> \/ ~PeerOnlyReads \/ conn.disc \/ exited # "no")

\* "the buffer is full and data are left: set the EPOLLOUT event"
\* (TcpConnection.cpp:151): that is enough also when the peer sends meanwhile.
OutputFlushedBothWays ==
  (conn.bufOut # <<>> /\ sock.eos = "open")
     ~> (conn.bufOut = <<>> \/ sock.eos # "open" \/ conn.disc \/ exited # "no")

\* "if there are data to send, send them first, set the half-close flag"
\* (TcpConnection.cpp:250): output that waits when the peer has closed its
\* side is written as long as the peer reads.
HalfCloseFlushes ==
  (conn.half /\ conn.bufOut # <<>>)
     ~> (conn.bufOut = <<>> \/ sock.eos # "fin" \/ exited # "no")

=============================================================================
