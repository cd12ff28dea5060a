------------------------ MODULE TcpConnectionProofs ------------------------
(***************************************************************************)
(* Proofs about TcpConnection, for any sizes of buffers and messages, any  *)
(* behaviour of the peer and the application within the bounds, and any    *)
(* depth of nested callbacks:                                              *)
(*   TypeCorrect     the variables keep their types;                       *)
(*   ClosesOnce      closeCallback_ runs at most once;                     *)
(*   DeliversOnce    onMessage is given no unit twice, if it takes its     *)
(*                   input before it calls anything;                       *)
(*   FinishesFirst   a close waits for output and for the answer of the    *)
(*                   one worker;                                           *)
(*   StreamIsWhole   what is sent leaves once and in order, if only the    *)
(*                   loop thread sends;                                    *)
(*   ClosesForCause  no close without a cause, if in addition the socket   *)
(*                   has room for all that is sent;                        *)
(*   KeepsPromise    the connection implements the abstract one            *)
(*                   (Connection), if only the loop thread sends.          *)
(* The conditions are needed: the configurations without them violate the  *)
(* properties.                                                             *)
(***************************************************************************)
EXTENDS TcpConnection, TLAPS, FiniteSetTheorems, SequenceTheorems

-----------------------------------------------------------------------------
(* Sequences of units                                                        *)

\* A sequence is what was taken of it and the rest.
LEMMA SplitStream ==
  ASSUME NEW s \in Seq(Units), NEW n \in Nat, n <= Len(s)
  PROVE  /\ SubSeq(s, 1, n) \in Seq(Units)
         /\ SubSeq(s, n + 1, Len(s)) \in Seq(Units)
         /\ s = SubSeq(s, 1, n) \o SubSeq(s, n + 1, Len(s))
<1>1. Len(s) \in Nat /\ \A i \in 1 .. Len(s) : s[i] \in Units
  OBVIOUS
<1>2. SubSeq(s, 1, n) \in Seq(Units)
  <2>1. 1 \in Int /\ n \in Int /\ \A i \in 1 .. n : s[i] \in Units
    BY <1>1
  <2> QED
    BY <2>1, SubSeqProperties
<1>3. SubSeq(s, n + 1, Len(s)) \in Seq(Units)
  <2>1. n + 1 \in Int /\ Len(s) \in Int /\ \A i \in n + 1 .. Len(s) : s[i] \in Units
    BY <1>1
  <2> QED
    BY <2>1, SubSeqProperties
<1>4. SubSeq(s, 1, n) \o SubSeq(s, n + 1, Len(s)) = SubSeq(s, 1, Len(s))
  <2>1. 1 \in 1 .. Len(s) + 1 /\ n \in 1 - 1 .. Len(s) /\ Len(s) \in n .. Len(s)
    BY <1>1
  <2> QED
    BY <2>1, ConcatAdjacentSubSeq
<1>5. SubSeq(s, 1, Len(s)) = s
  BY SubSeqFull
<1> QED
  BY <1>2, <1>3, <1>4, <1>5

\* The units of a message that may still be sent.
LEMMA MessageUnits ==
  ASSUME NEW n \in Nat, n < MaxSends
  PROVE  Message(n) \in Seq(Units) /\ Len(Message(n)) = MsgSize
<1>1. MsgSize \in Nat \ {0} /\ MaxSends \in Nat
  BY ConnAssumption
<1>2. \A i \in 1 .. MsgSize : n * MsgSize + i \in 1 .. MsgSize * MaxSends
  <2> TAKE i \in 1 .. MsgSize
  <2> DEFINE rest == MaxSends - n - 1
  <2>1. rest \in Nat /\ MaxSends = n + 1 + rest
    BY <1>1
  <2>2. MsgSize * MaxSends = n * MsgSize + MsgSize + MsgSize * rest
    BY <1>1, <2>1
  <2>3. MsgSize * rest \in Nat /\ n * MsgSize \in Nat /\ MsgSize * MaxSends \in Nat
    BY <1>1, <2>1
  <2> QED
    BY <1>1, <2>2, <2>3
<1> QED
  BY <1>1, <1>2 DEF Message, Units

-----------------------------------------------------------------------------
(* Types                                                                     *)

SockSet == [in : Nat, eos : {"open", "fin"} \union Reset, out : Nat,
            noSpace : BOOLEAN, wire : Seq(Units)]
EpollSet == [registered : BOOLEAN, interest : SUBSET {"IN", "OUT", "ET"},
             onList : BOOLEAN]
LoopSet == [phase : {"poll", "dispatch", "run"}, active : BOOLEAN,
            tasks : Seq(Tasks), batch : Seq(Tasks), holds : BOOLEAN,
            stack : Seq(Frames)]
ConnSet == [events : SUBSET Mask, bufIn : Nat, bufOut : Seq(Units),
            half : BOOLEAN, disc : BOOLEAN, async : BOOLEAN, inMap : BOOLEAN,
            destroyer : {"none", "loop", "worker"}]
WorkerStates == {"idle", "asked", "holding", "appending", "appended",
                 "sending", "posted"}
HistSet == [sends : Nat, received : Nat, delivered : Nat, shutDowns : Nat,
            closed : Nat, errors : Nat, cleanups : Nat]
Exits == {"no", "epoll_ctl", "SIGPIPE", "use after free"}

Typed ==
  /\ sock \in SockSet
  /\ epoll \in EpollSet
  /\ loop \in LoopSet
  /\ conn \in ConnSet
  /\ worker \in [Workers -> WorkerStates]
  /\ old \in [Workers -> Seq(Units)]
  /\ hist \in HistSet
  /\ exited \in Exits

\* The workers that will still send, and the bounds of what is counted: what
\* is in the socket and in bufferIn_ was received.
Senders == {w \in Workers : worker[w] \in {"asked", "holding", "appending"}}

Bounded ==
  /\ sock.out <= SndCap
  /\ sock.in <= hist.received
  /\ conn.bufIn <= hist.received
  /\ hist.received <= MaxIn
  /\ hist.shutDowns <= MaxShutDowns
  /\ hist.sends + Cardinality(Senders) <= MaxSends

LEMMA SendersIn == IsFiniteSet(Senders) /\ Cardinality(Senders) \in Nat
<1>1. Senders \subseteq Workers
  BY DEF Senders
<1> QED
  BY <1>1, ConnAssumption, FS_Subset, FS_CardinalityType

LEMMA Consts ==
  /\ BufSize \in Nat \ {0} /\ SndCap \in Nat \ {0} /\ MsgSize \in Nat \ {0}
  /\ MaxSends \in Nat /\ MaxIn \in Nat /\ MaxShutDowns \in Nat
BY ConnAssumption

\* Typed and Bounded are TypeOK, without its intervals.
LEMMA TypedSame ==
  ASSUME Typed, Bounded
  PROVE  TypeOK
<1>1. hist.sends <= MaxSends
  BY SendersIn, Consts DEF Typed, Bounded, HistSet
<1>2. sock \in [in : 0 .. MaxIn, eos : {"open", "fin"} \union Reset,
                out : 0 .. SndCap, noSpace : BOOLEAN, wire : Seq(Units)]
  <2>1. sock.in \in 0 .. MaxIn /\ sock.out \in 0 .. SndCap
    BY Consts DEF Typed, Bounded, SockSet, HistSet
  <2> QED
    BY <2>1 DEF Typed, SockSet
<1>3. conn \in [events : SUBSET Mask, bufIn : 0 .. MaxIn, bufOut : Seq(Units),
                half : BOOLEAN, disc : BOOLEAN, async : BOOLEAN,
                inMap : BOOLEAN, destroyer : {"none", "loop", "worker"}]
  <2>1. conn.bufIn \in 0 .. MaxIn
    BY Consts DEF Typed, Bounded, ConnSet, HistSet
  <2> QED
    BY <2>1 DEF Typed, ConnSet
<1>4. hist \in [sends : 0 .. MaxSends, received : 0 .. MaxIn, delivered : Nat,
                shutDowns : 0 .. MaxShutDowns, closed : Nat, errors : Nat,
                cleanups : Nat]
  <2>1. /\ hist.sends \in 0 .. MaxSends /\ hist.received \in 0 .. MaxIn
        /\ hist.shutDowns \in 0 .. MaxShutDowns
    BY <1>1, Consts DEF Typed, Bounded, HistSet
  <2> QED
    BY <2>1 DEF Typed, HistSet
<1> QED
  BY <1>2, <1>3, <1>4 DEF Typed, TypeOK, EpollSet, LoopSet, WorkerStates, Exits

\* What sendn does.
LEMMA SendFacts ==
  ASSUME Typed, Bounded
  PROVE  /\ Accepts \in Nat /\ Accepts <= Len(conn.bufOut)
         /\ sock.out + Accepts <= SndCap
         /\ Accepts = 0 => conn.bufOut = <<>> \/ sock.out = SndCap
         /\ Unsent \in Seq(Units)
         /\ SubSeq(conn.bufOut, 1, Accepts) \in Seq(Units)
         /\ conn.bufOut = SubSeq(conn.bufOut, 1, Accepts) \o Unsent
<1>1. /\ conn.bufOut \in Seq(Units) /\ Len(conn.bufOut) \in Nat
      /\ sock.out \in Nat /\ sock.out <= SndCap /\ SndCap \in Nat
  BY Consts DEF Typed, Bounded, ConnSet, SockSet
<1>2. /\ Accepts \in Nat /\ Accepts <= Len(conn.bufOut)
      /\ sock.out + Accepts <= SndCap
      /\ Accepts = 0 => Len(conn.bufOut) = 0 \/ sock.out = SndCap
  BY <1>1 DEF Accepts, SmallerOf
<1>3. Len(conn.bufOut) = 0 => conn.bufOut = <<>>
  BY <1>1
<1> QED
  BY <1>1, <1>2, <1>3, SplitStream DEF Unsent

LEMMA WrittenTypes ==
  ASSUME Typed, Bounded
  PROVE  /\ Written \in SockSet
         /\ Written.in = sock.in /\ Written.eos = sock.eos
         /\ Written.out = sock.out + Accepts
         /\ Written.wire = sock.wire \o SubSeq(conn.bufOut, 1, Accepts)
<1>1. sock \in SockSet /\ sock.wire \in Seq(Units) /\ sock.out \in Nat
      /\ conn.bufOut \in Seq(Units) /\ Len(conn.bufOut) \in Nat
  BY DEF Typed, SockSet, ConnSet
<1>2. Accepts \in Nat /\ SubSeq(conn.bufOut, 1, Accepts) \in Seq(Units)
  BY SendFacts
<1>3. sock.wire \o SubSeq(conn.bufOut, 1, Accepts) \in Seq(Units)
  BY <1>1, <1>2
<1>4. sock.out + Accepts \in Nat /\ (sock.noSpace \/ Accepts < Len(conn.bufOut)) \in BOOLEAN
  BY <1>1, <1>2 DEF SockSet
<1> QED
  BY <1>1, <1>3, <1>4 DEF Written, SockSet

\* The ways sendInLoop and handleWrite may go.
SendSome ==
  /\ SendResult = "sent" /\ Unsent # <<>>
  /\ sock' = Written
  /\ conn' = [conn EXCEPT !.bufOut = Unsent, !.events = conn.events \union {"OUT"}]
  /\ EpollCtl(TRUE, conn.events \union {"OUT"}, Written)
  /\ Return(<<>>, <<>>)
SendAll ==
  /\ SendResult = "sent" /\ Unsent = <<>>
  /\ sock' = Written
  /\ conn' = [conn EXCEPT !.bufOut = <<>>, !.events = @ \ {"OUT"}]
  /\ Return(<<"complete", "afterSend">>, <<>>)
  /\ UNCHANGED <<epoll, exited>>
SendNone ==
  /\ SendResult = "zero"
  /\ sock' = [sock EXCEPT !.noSpace = @ \/ conn.bufOut # <<>>]
  /\ Return(<<"close">>, <<>>)
  /\ UNCHANGED <<epoll, conn, exited>>
SendFails ==
  /\ SendResult = "error"
  /\ sock' = [sock EXCEPT !.eos = "dead"]
  /\ Return(<<"error">>, <<>>)
  /\ UNCHANGED <<epoll, conn, exited>>
SendKills ==
  /\ SendResult = "SIGPIPE"
  /\ exited' = "SIGPIPE"
  /\ UNCHANGED <<sock, epoll, loop, conn>>

LEMMA SendResults == SendResult \in {"sent", "zero", "error", "SIGPIPE"}
<1>1. CASE sock.eos = "rst"
  BY <1>1 DEF SendResult
<1>2. CASE sock.eos \in {"dead", "broken"}
  BY <1>2 DEF SendResult
<1>3. CASE sock.eos \notin {"rst", "dead", "broken"}
  BY <1>3 DEF SendResult
<1> QED
  BY <1>1, <1>2, <1>3

LEMMA SendCases ==
  ASSUME SendOrWrite
  PROVE  SendSome \/ SendAll \/ SendNone \/ SendFails \/ SendKills
<1>1. CASE SendResult = "sent"
  <2>1. CASE Unsent # <<>>
    BY <1>1, <2>1 DEF SendOrWrite, SendSome
  <2>2. CASE Unsent = <<>>
    BY <1>1, <2>2 DEF SendOrWrite, SendAll
  <2> QED
    BY <2>1, <2>2
<1>2. CASE SendResult = "zero"
  BY <1>2 DEF SendOrWrite, SendNone
<1>3. CASE SendResult = "error"
  BY <1>3 DEF SendOrWrite, SendFails
<1>4. CASE SendResult = "SIGPIPE"
  BY <1>4 DEF SendOrWrite, SendKills
<1> QED
  BY <1>1, <1>2, <1>3, <1>4, SendResults

\* What a handler leaves of the loop.
Returns(calls, posts) ==
  /\ loop'.stack = calls \o Tail(loop.stack)
  /\ loop'.tasks = loop.tasks \o posts
  /\ loop'.phase = loop.phase /\ loop'.active = loop.active
  /\ loop'.batch = loop.batch /\ loop'.holds = loop.holds

LEMMA ReturnTypes ==
  ASSUME loop \in LoopSet, loop.stack # <<>>, NEW calls \in Seq(Frames),
         NEW posts \in Seq(Tasks), Return(calls, posts)
  PROVE  loop' \in LoopSet /\ Returns(calls, posts)
<1>1. calls \o Tail(loop.stack) \in Seq(Frames) /\ loop.tasks \o posts \in Seq(Tasks)
  BY DEF LoopSet
<1>2. loop' = [loop EXCEPT !.stack = calls \o Tail(loop.stack),
                           !.tasks = loop.tasks \o posts]
  BY DEF Return
<1> QED
  BY <1>1, <1>2 DEF LoopSet, Returns

LEMMA EpollTypes ==
  ASSUME epoll \in EpollSet, exited \in Exits, NEW mustBe, NEW mask, NEW s,
         EpollCtl(mustBe, mask, s)
  PROVE  epoll' \in EpollSet /\ exited' \in Exits
<1> DEFINE listed == epoll.onList \/ Ready(s, mask) # {}
<1>1. listed \in BOOLEAN /\ TRUE \in BOOLEAN
  BY DEF EpollSet
<1> HIDE DEF listed
<1>2. [registered |-> TRUE, interest |-> mask \intersect {"IN", "OUT", "ET"},
       onList |-> listed] \in EpollSet
  BY <1>1 DEF EpollSet
<1>3. CASE epoll.registered = mustBe
  BY <1>2, <1>3 DEF EpollCtl, listed
<1>4. CASE epoll.registered # mustBe
  BY <1>4 DEF EpollCtl, Exits
<1> QED
  BY <1>3, <1>4

LEMMA NoticeTypes ==
  ASSUME epoll \in EpollSet, NEW kind, Notice(kind)
  PROVE  epoll' \in EpollSet
BY DEF Notice, EpollSet

LEMMA CallLists ==
  /\ <<>> \in Seq(Frames) /\ <<"close">> \in Seq(Frames) /\ <<"error">> \in Seq(Frames)
  /\ <<"complete", "afterSend">> \in Seq(Frames) /\ <<"message">> \in Seq(Frames)
  /\ <<"add">> \in Seq(Frames) /\ <<"consume">> \in Seq(Frames)
  /\ <<"send">> \in Seq(Frames) /\ <<"read">> \in Seq(Frames)
  /\ <<"write">> \in Seq(Frames) /\ <<"shutDown">> \in Seq(Frames)
  /\ <<"send">> \o <<>> \in Seq(Frames) /\ <<"send">> \o <<"add">> \in Seq(Frames)
  /\ <<"send">> \o <<"consume">> \in Seq(Frames)
  /\ <<>> \in Seq(Tasks) /\ <<"cleanup">> \in Seq(Tasks) /\ <<"addChannel">> \in Seq(Tasks)
BY DEF Frames, Tasks

\* A message may be sent.
LEMMA MaySendSo ==
  ASSUME Typed, Bounded, MaySend
  PROVE  /\ NextMessage \in Seq(Units) /\ Len(NextMessage) = MsgSize
         /\ conn.bufOut \o NextMessage \in Seq(Units)
         /\ hist.sends + 1 + Cardinality(Senders) <= MaxSends
<1>1. hist.sends \in Nat /\ Cardinality(Senders) \in Nat /\ MaxSends \in Nat
  BY SendersIn, Consts DEF Typed, HistSet
<1>2. hist.sends + Cardinality(Senders) < MaxSends
  BY DEF MaySend, Senders
<1>3. hist.sends < MaxSends /\ hist.sends + 1 + Cardinality(Senders) <= MaxSends
  BY <1>1, <1>2
<1>4. NextMessage \in Seq(Units) /\ Len(NextMessage) = MsgSize
  BY <1>1, <1>3, MessageUnits DEF NextMessage
<1>5. conn.bufOut \in Seq(Units)
  BY DEF Typed, ConnSet
<1> QED
  BY <1>3, <1>4, <1>5

\* What the steps change of the connection.
LEMMA ConnChanges ==
  ASSUME NEW c \in ConnSet, NEW buf \in Seq(Units), NEW n \in Nat,
         NEW mask \in SUBSET Mask
  PROVE  /\ [c EXCEPT !.bufOut = buf] \in ConnSet
         /\ [c EXCEPT !.bufOut = buf, !.events = mask] \in ConnSet
         /\ [c EXCEPT !.bufIn = n] \in ConnSet
         /\ [c EXCEPT !.events = mask] \in ConnSet
         /\ [c EXCEPT !.half = TRUE] \in ConnSet
         /\ [c EXCEPT !.disc = TRUE] \in ConnSet
         /\ [c EXCEPT !.async = FALSE] \in ConnSet
BY DEF ConnSet

\* Types are kept by a step of the loop, the peer or the application that
\* leaves the workers alone.
LEMMA Steady ==
  ASSUME Typed, Bounded, UNCHANGED workVars,
         sock' \in SockSet, epoll' \in EpollSet, loop' \in LoopSet,
         conn' \in ConnSet, hist' \in HistSet, exited' \in Exits,
         sock'.out <= SndCap, sock'.in <= hist'.received,
         conn'.bufIn <= hist'.received, hist'.received <= MaxIn,
         hist'.shutDowns <= MaxShutDowns,
         hist'.sends + Cardinality(Senders) <= MaxSends
  PROVE  Typed' /\ Bounded'
<1>1. worker' = worker /\ old' = old
  BY DEF workVars
<1>2. Senders' = Senders
  BY <1>1 DEF Senders
<1> QED
  BY <1>1, <1>2 DEF Typed, Bounded

LEMMA SendTypes ==
  ASSUME Typed, Bounded, loop.stack # <<>>, SendOrWrite, UNCHANGED <<workVars, hist>>
  PROVE  Typed' /\ Bounded'
<1>a. /\ sock \in SockSet /\ epoll \in EpollSet /\ loop \in LoopSet /\ conn \in ConnSet
      /\ hist \in HistSet /\ exited \in Exits
      /\ sock.out <= SndCap /\ sock.in <= hist.received
      /\ conn.bufIn <= hist.received /\ hist.received <= MaxIn
      /\ hist.shutDowns <= MaxShutDowns
      /\ hist.sends + Cardinality(Senders) <= MaxSends
      /\ UNCHANGED workVars /\ hist' = hist
  BY DEF Typed, Bounded
<1>1. CASE SendSome
  <2>1. conn.events \union {"OUT"} \in SUBSET Mask
    BY <1>a DEF ConnSet, Mask
  <2>2. conn' \in ConnSet /\ conn'.bufIn = conn.bufIn
    BY <1>1, <1>a, <2>1, SendFacts, ConnChanges DEF SendSome, ConnSet
  <2>3. sock' \in SockSet /\ sock'.out <= SndCap /\ sock'.in = sock.in
    BY <1>1, WrittenTypes, SendFacts DEF SendSome
  <2>4. epoll' \in EpollSet /\ exited' \in Exits
    <3>1. EpollCtl(TRUE, conn.events \union {"OUT"}, Written)
      BY <1>1 DEF SendSome
    <3> QED
      BY <1>a, <3>1, EpollTypes
  <2>5. loop' \in LoopSet
    BY <1>1, <1>a, CallLists, ReturnTypes DEF SendSome
  <2> QED
    BY <1>a, <2>2, <2>3, <2>4, <2>5, Steady
<1>2. CASE SendAll
  <2>1. conn.events \ {"OUT"} \in SUBSET Mask /\ <<>> \in Seq(Units)
    BY <1>a DEF ConnSet, Mask
  <2>2. conn' \in ConnSet /\ conn'.bufIn = conn.bufIn
    BY <1>2, <1>a, <2>1, ConnChanges DEF SendAll, ConnSet
  <2>3. sock' \in SockSet /\ sock'.out <= SndCap /\ sock'.in = sock.in
    BY <1>2, WrittenTypes, SendFacts DEF SendAll
  <2>4. epoll' = epoll /\ exited' = exited
    BY <1>2 DEF SendAll
  <2>5. loop' \in LoopSet
    BY <1>2, <1>a, CallLists, ReturnTypes DEF SendAll
  <2> QED
    BY <1>a, <2>2, <2>3, <2>4, <2>5, Steady
<1>3. CASE SendNone
  <2>1. sock' \in SockSet /\ sock'.out = sock.out /\ sock'.in = sock.in
    BY <1>3, <1>a DEF SendNone, SockSet
  <2>2. epoll' = epoll /\ exited' = exited /\ conn' = conn
    BY <1>3 DEF SendNone
  <2>3. loop' \in LoopSet
    BY <1>3, <1>a, CallLists, ReturnTypes DEF SendNone
  <2> QED
    BY <1>a, <2>1, <2>2, <2>3, Steady
<1>4. CASE SendFails
  <2>1. sock' \in SockSet /\ sock'.out = sock.out /\ sock'.in = sock.in
    BY <1>4, <1>a DEF SendFails, SockSet, Reset
  <2>2. epoll' = epoll /\ exited' = exited /\ conn' = conn
    BY <1>4 DEF SendFails
  <2>3. loop' \in LoopSet
    BY <1>4, <1>a, CallLists, ReturnTypes DEF SendFails
  <2> QED
    BY <1>a, <2>1, <2>2, <2>3, Steady
<1>5. CASE SendKills
  <2>1. sock' = sock /\ epoll' = epoll /\ loop' = loop /\ conn' = conn /\ exited' \in Exits
    BY <1>5 DEF SendKills, Exits
  <2> QED
    BY <1>a, <2>1, Steady
<1> QED
  BY <1>1, <1>2, <1>3, <1>4, <1>5, SendCases

LEMMA InitTypes == Init => Typed /\ Bounded
<1> SUFFICES ASSUME Init PROVE Typed /\ Bounded
  OBVIOUS
<1>1. <<>> \in Seq(Units) /\ <<>> \in Seq(Tasks) /\ <<"accepted">> \in Seq(Frames)
  BY DEF Frames
<1>2. sock \in SockSet /\ epoll \in EpollSet
  BY <1>1 DEF Init, SockSet, EpollSet
<1>3. loop \in LoopSet
  BY <1>1 DEF Init, LoopSet
<1>4. conn \in ConnSet
  BY <1>1 DEF Init, ConnSet, Mask
<1>5. worker \in [Workers -> WorkerStates] /\ old \in [Workers -> Seq(Units)]
  BY <1>1 DEF Init, WorkerStates
<1>6. hist \in HistSet /\ exited \in Exits
  BY DEF Init, HistSet, Exits
<1>7. Cardinality(Senders) = 0
  <2>1. Senders = {}
    BY DEF Init, Senders
  <2> QED
    BY <2>1, FS_EmptySet
<1>8. Bounded
  BY <1>7, Consts DEF Init, Bounded
<1> QED
  BY <1>2, <1>3, <1>4, <1>5, <1>6, <1>8 DEF Typed

\* Types, one by one, of a state.
LEMMA TypesOf ==
  ASSUME Typed, Bounded
  PROVE  /\ sock \in SockSet /\ epoll \in EpollSet /\ loop \in LoopSet
         /\ conn \in ConnSet /\ hist \in HistSet /\ exited \in Exits
         /\ sock.in \in Nat /\ conn.bufIn \in Nat
         /\ sock.out <= SndCap /\ sock.in <= hist.received
         /\ conn.bufIn <= hist.received /\ hist.received <= MaxIn
         /\ hist.shutDowns <= MaxShutDowns
         /\ hist.sends + Cardinality(Senders) <= MaxSends
BY DEF Typed, Bounded, SockSet, ConnSet

\* What the steps change of the counters.
LEMMA HistChanges ==
  ASSUME NEW h \in HistSet, NEW a \in Nat, NEW b \in Nat
  PROVE  /\ [h EXCEPT !.closed = a, !.cleanups = b] \in HistSet
         /\ [h EXCEPT !.errors = a, !.cleanups = b] \in HistSet
         /\ [h EXCEPT !.delivered = a] \in HistSet
         /\ [h EXCEPT !.sends = a] \in HistSet
         /\ [h EXCEPT !.received = a] \in HistSet
         /\ [h EXCEPT !.shutDowns = a] \in HistSet
BY DEF HistSet

LEMMA DisconnectTypes ==
  ASSUME Typed, Bounded, loop.stack # <<>>, Disconnect,
         UNCHANGED <<sock, epoll, workVars, exited>>
  PROVE  Typed' /\ Bounded'
<1>a. /\ sock \in SockSet /\ epoll \in EpollSet /\ loop \in LoopSet
      /\ conn \in ConnSet /\ hist \in HistSet /\ exited \in Exits
      /\ sock.out <= SndCap /\ sock.in <= hist.received
      /\ conn.bufIn <= hist.received /\ hist.received <= MaxIn
      /\ hist.shutDowns <= MaxShutDowns
      /\ hist.sends + Cardinality(Senders) <= MaxSends
  BY TypesOf
<1>1. loop' \in LoopSet
  BY <1>a, CallLists, ReturnTypes DEF Disconnect
<1>2. conn' \in ConnSet /\ conn'.bufIn = conn.bufIn
  BY <1>a DEF Disconnect, ConnSet
<1>3. hist' \in HistSet /\ hist'.received = hist.received
      /\ hist'.shutDowns = hist.shutDowns /\ hist'.sends = hist.sends
  <2>1. hist.closed + 1 \in Nat /\ hist.cleanups + 1 \in Nat
    BY <1>a DEF HistSet
  <2>2. hist' = [hist EXCEPT !.closed = hist.closed + 1, !.cleanups = hist.cleanups + 1]
    BY DEF Disconnect
  <2>3. hist' \in HistSet
    BY <1>a, <2>1, <2>2, HistChanges
  <2> QED
    BY <1>a, <2>2, <2>3 DEF HistSet
<1> QED
  BY <1>a, <1>1, <1>2, <1>3, Steady

LEMMA RecvResults ==
  /\ RecvResult \in {"data", "zero", "error"}
  /\ RecvResult = "error" => sock.eos = "rst"
<1>1. CASE sock.in % BufSize # 0
  BY <1>1 DEF RecvResult
<1>2. CASE sock.in % BufSize = 0 /\ sock.eos \in {"fin", "dead", "broken"}
  BY <1>2 DEF RecvResult
<1>3. CASE sock.in % BufSize = 0 /\ sock.eos = "rst"
  BY <1>3 DEF RecvResult
<1>4. CASE sock.in % BufSize = 0 /\ sock.eos \notin {"fin", "dead", "broken", "rst"}
  BY <1>4 DEF RecvResult
<1> QED
  BY <1>1, <1>2, <1>3, <1>4

LEMMA HandlerTypes ==
  ASSUME Typed, Bounded,
         \/ SendInLoop \/ HandleWrite \/ HandleRead \/ HandleClose
         \/ HandleError \/ ShutDownInLoop \/ AfterSend
  PROVE  Typed' /\ Bounded'
<1>a. /\ sock \in SockSet /\ epoll \in EpollSet /\ loop \in LoopSet
      /\ conn \in ConnSet /\ hist \in HistSet /\ exited \in Exits
      /\ sock.in \in Nat /\ conn.bufIn \in Nat
      /\ sock.out <= SndCap /\ sock.in <= hist.received
      /\ conn.bufIn <= hist.received /\ hist.received <= MaxIn
      /\ hist.shutDowns <= MaxShutDowns
      /\ hist.sends + Cardinality(Senders) <= MaxSends
  BY TypesOf
<1>1. CASE SendInLoop \/ HandleWrite
  BY <1>1, SendTypes DEF SendInLoop, HandleWrite, Running
<1>2. CASE HandleRead
  <2>1. loop.stack # <<>> /\ UNCHANGED <<epoll, workVars, hist, exited>> /\ Recv
    BY <1>2 DEF HandleRead, Running
  <2>2. sock' \in SockSet /\ sock'.in = 0 /\ sock'.out = sock.out
    <3>1. CASE RecvResult = "error"
      BY <1>a, <2>1, <3>1 DEF Recv, SockSet, Reset
    <3>2. CASE RecvResult # "error"
      BY <1>a, <2>1, <3>2 DEF Recv, SockSet
    <3> QED
      BY <3>1, <3>2
  <2>3. conn' \in ConnSet /\ conn'.bufIn = sock.in
    BY <1>a, <2>1 DEF Recv, ConnSet
  <2>4. PICK calls \in {<<"message">>, <<"close">>, <<"error">>} : Return(calls, <<>>)
    BY <1>2, RecvResults DEF HandleRead
  <2>5. loop' \in LoopSet
    BY <1>a, <2>1, <2>4, CallLists, ReturnTypes
  <2>6. hist.received \in Nat
    BY <1>a DEF HistSet
  <2> QED
    BY <1>a, <2>1, <2>2, <2>3, <2>5, <2>6, Steady
<1>3. CASE HandleClose
  <2>1. loop.stack # <<>> /\ UNCHANGED <<sock, epoll, workVars, exited>>
    BY <1>3 DEF HandleClose, Running
  <2>2. CASE Return(<<>>, <<>>) /\ UNCHANGED <<conn, hist>>
    <3>1. loop' \in LoopSet
      BY <1>a, <2>1, <2>2, CallLists, ReturnTypes
    <3> QED
      BY <1>a, <2>1, <2>2, <3>1, Steady
  <2>3. CASE /\ conn' = [conn EXCEPT !.half = TRUE] /\ UNCHANGED hist
             /\ Return(IF conn.bufIn > 0 THEN <<"message">> ELSE <<>>, <<>>)
    <3>1. loop' \in LoopSet
      BY <1>a, <2>1, <2>3, CallLists, ReturnTypes
    <3>2. conn' \in ConnSet /\ conn'.bufIn = conn.bufIn
      BY <1>a, <2>3 DEF ConnSet
    <3> QED
      BY <1>a, <2>1, <2>3, <3>1, <3>2, Steady
  <2>4. CASE Disconnect
    BY <1>a, <2>1, <2>4, DisconnectTypes
  <2> QED
    BY <1>3, <2>2, <2>3, <2>4 DEF HandleClose
<1>4. CASE HandleError
  <2>1. loop.stack # <<>> /\ UNCHANGED <<sock, epoll, conn, workVars, exited>>
    BY <1>4 DEF HandleError, Running
  <2>2. hist' \in HistSet /\ hist'.received = hist.received
        /\ hist'.shutDowns = hist.shutDowns /\ hist'.sends = hist.sends
    <3>1. CASE hist' = hist
      BY <1>a, <3>1
    <3>2. CASE hist' # hist
      <4>1. hist.errors + 1 \in Nat /\ hist.cleanups + 1 \in Nat
        BY <1>a DEF HistSet
      <4>2. hist' = [hist EXCEPT !.errors = hist.errors + 1, !.cleanups = hist.cleanups + 1]
        BY <1>4, <3>2 DEF HandleError
      <4>3. hist' \in HistSet
        BY <1>a, <4>1, <4>2, HistChanges
      <4> QED
        BY <1>a, <4>2, <4>3 DEF HistSet
    <3> QED
      BY <3>1, <3>2
  <2>3. Return(<<>>, <<>>) \/ Return(<<>>, <<"cleanup">>)
    BY <1>4 DEF HandleError
  <2>4. loop' \in LoopSet
    BY <1>a, <2>1, <2>3, CallLists, ReturnTypes
  <2> QED
    BY <1>a, <2>1, <2>2, <2>4, Steady
<1>5. CASE ShutDownInLoop
  <2>1. loop.stack # <<>> /\ UNCHANGED <<sock, epoll, workVars, exited>>
    BY <1>5 DEF ShutDownInLoop, Running
  <2>2. CASE Return(<<>>, <<>>) /\ UNCHANGED <<conn, hist>>
    <3>1. loop' \in LoopSet
      BY <1>a, <2>1, <2>2, CallLists, ReturnTypes
    <3> QED
      BY <1>a, <2>1, <2>2, <3>1, Steady
  <2>3. CASE Disconnect
    BY <1>a, <2>1, <2>3, DisconnectTypes
  <2> QED
    BY <1>5, <2>2, <2>3 DEF ShutDownInLoop
<1>6. CASE AfterSend
  <2>1. loop.stack # <<>> /\ UNCHANGED <<sock, epoll, conn, workVars, hist, exited>>
    BY <1>6 DEF AfterSend, Running
  <2>2. Return(<<"close">>, <<>>) \/ Return(<<>>, <<>>)
    BY <1>6 DEF AfterSend
  <2>3. loop' \in LoopSet
    BY <1>a, <2>1, <2>2, CallLists, ReturnTypes
  <2> QED
    BY <1>a, <2>1, <2>3, Steady
<1> QED
  BY <1>1, <1>2, <1>3, <1>4, <1>5, <1>6

LEMMA Anew ==
  ASSUME sock' \in SockSet, epoll' \in EpollSet, loop' \in LoopSet,
         conn' \in ConnSet, hist' \in HistSet, exited' \in Exits,
         worker' \in [Workers -> WorkerStates], old' \in [Workers -> Seq(Units)],
         sock'.out <= SndCap, sock'.in <= hist'.received,
         conn'.bufIn <= hist'.received, hist'.received <= MaxIn,
         hist'.shutDowns <= MaxShutDowns,
         hist'.sends + Cardinality(Senders') <= MaxSends
  PROVE  Typed' /\ Bounded'
BY DEF Typed, Bounded

\* A worker is given something to send.
LEMMA AskWorker ==
  ASSUME Typed, Bounded, MaySend, NEW w \in Workers, worker[w] = "idle",
         NEW state \in {"asked", "holding"}, worker' = [worker EXCEPT ![w] = state]
  PROVE  /\ worker' \in [Workers -> WorkerStates]
         /\ hist.sends + Cardinality(Senders') <= MaxSends
<1>1. worker \in [Workers -> WorkerStates] /\ state \in WorkerStates
  BY DEF Typed, WorkerStates
<1>2. worker' \in [Workers -> WorkerStates]
  BY <1>1
<1>3. Senders' = Senders \union {w} /\ w \notin Senders
  BY <1>1 DEF Senders
<1>4. Cardinality(Senders') = Cardinality(Senders) + 1
  BY <1>3, SendersIn, FS_AddElement
<1>5. hist.sends + 1 + Cardinality(Senders) <= MaxSends /\ hist.sends \in Nat
  BY MaySendSo DEF Typed, HistSet
<1> QED
  BY <1>2, <1>4, <1>5, SendersIn, Consts

\* sendString on the loop thread; c is the connection as the caller left it.
LEMMA SendStringTypes ==
  ASSUME Typed, Bounded, loop.stack # <<>>, NEW frames \in Seq(Frames),
         NEW c \in ConnSet, c.bufOut = conn.bufOut, c.bufIn <= hist.received,
         MaySend, conn' = [c EXCEPT !.bufOut = @ \o NextMessage],
         NEW h \in HistSet, h.sends = hist.sends, h.received = hist.received,
         h.shutDowns = hist.shutDowns, hist' = [h EXCEPT !.sends = @ + 1],
         Return(<<"send">> \o frames, <<>>), UNCHANGED <<sock, epoll, workVars, exited>>
  PROVE  Typed' /\ Bounded'
<1>a. /\ sock \in SockSet /\ epoll \in EpollSet /\ loop \in LoopSet
      /\ conn \in ConnSet /\ hist \in HistSet /\ exited \in Exits
      /\ sock.in \in Nat /\ conn.bufIn \in Nat
      /\ sock.out <= SndCap /\ sock.in <= hist.received
      /\ conn.bufIn <= hist.received /\ hist.received <= MaxIn
      /\ hist.shutDowns <= MaxShutDowns
      /\ hist.sends + Cardinality(Senders) <= MaxSends
  BY TypesOf
<1>1. <<"send">> \o frames \in Seq(Frames)
  BY CallLists
<1>2. loop' \in LoopSet
  BY <1>a, <1>1, CallLists, ReturnTypes
<1>3. conn.bufOut \o NextMessage \in Seq(Units)
  BY MaySendSo
<1>4. conn' \in ConnSet /\ conn'.bufIn = c.bufIn
  BY <1>3 DEF ConnSet
<1>5. hist.sends + 1 \in Nat
  BY <1>a, SMTT(30) DEF HistSet
<1>6. hist' = [h EXCEPT !.sends = hist.sends + 1]
  OBVIOUS
<1>7. hist' \in HistSet
  BY <1>5, <1>6, HistChanges
<1>8. hist'.sends = hist.sends + 1 /\ hist'.received = hist.received
      /\ hist'.shutDowns = hist.shutDowns
  BY <1>6 DEF HistSet
<1>9. hist'.sends + Cardinality(Senders) <= MaxSends
  BY <1>8, MaySendSo
<1> QED
  BY <1>a, <1>2, <1>4, <1>7, <1>8, <1>9, Steady

LEMMA AppTypes ==
  ASSUME Typed, Bounded,
         \/ Accepted \/ AddChannelToLoop \/ OnMessage \/ Consume \/ OnSendComplete
  PROVE  Typed' /\ Bounded'
<1>a. /\ sock \in SockSet /\ epoll \in EpollSet /\ loop \in LoopSet
      /\ conn \in ConnSet /\ hist \in HistSet /\ exited \in Exits
      /\ sock.in \in Nat /\ conn.bufIn \in Nat
      /\ sock.out <= SndCap /\ sock.in <= hist.received
      /\ conn.bufIn <= hist.received /\ hist.received <= MaxIn
      /\ hist.shutDowns <= MaxShutDowns
      /\ hist.sends + Cardinality(Senders) <= MaxSends
  BY TypesOf
<1>b. hist.received \in Nat /\ hist.delivered \in Nat
  BY <1>a DEF HistSet
<1>1. CASE Accepted
  <2>1. loop.stack # <<>> /\ UNCHANGED <<sock, epoll, workVars, exited>>
    BY <1>1 DEF Accepted, Running
  <2>2. CASE SendString(<<"add">>, conn)
    BY <1>a, <2>1, <2>2, CallLists, SendStringTypes DEF SendString
  <2>3. CASE Return(<<"add">>, <<>>) /\ UNCHANGED <<conn, hist>>
    <3>1. loop' \in LoopSet
      BY <1>a, <2>1, <2>3, CallLists, ReturnTypes
    <3> QED
      BY <1>a, <2>1, <2>3, <3>1, Steady
  <2> QED
    BY <1>1, <2>2, <2>3 DEF Accepted
<1>2. CASE AddChannelToLoop
  <2>1. loop.stack # <<>> /\ UNCHANGED <<sock, epoll, conn, workVars, hist, exited>>
    BY <1>2 DEF AddChannelToLoop, Running
  <2>2. loop' \in LoopSet
    BY <1>2, <1>a, <2>1, CallLists, ReturnTypes DEF AddChannelToLoop
  <2> QED
    BY <1>a, <2>1, <2>2, Steady
<1>3. CASE OnMessage
  <2> DEFINE h == [hist EXCEPT !.delivered = @ + conn.bufIn]
             c == IF ConsumeFirst THEN Consumed(conn) ELSE conn
             rest == IF ConsumeFirst THEN <<>> ELSE <<"consume">>
  <2>1. loop.stack # <<>> /\ UNCHANGED <<sock, epoll, exited>>
    BY <1>3 DEF OnMessage, Running
  <2>2. /\ h \in HistSet /\ h.received = hist.received
        /\ h.shutDowns = hist.shutDowns /\ h.sends = hist.sends
    <3>1. hist.delivered + conn.bufIn \in Nat
      BY <1>a, <1>b
    <3>2. h \in HistSet
      BY <1>a, <3>1, HistChanges
    <3> QED
      BY <1>a, <3>2 DEF HistSet
  <2>3. c \in ConnSet /\ c.bufOut = conn.bufOut /\ c.bufIn <= hist.received
    BY <1>a, <1>b DEF Consumed, ConnSet
  <2>4. rest \in Seq(Frames)
    BY CallLists
  <2>5. \/ Return(rest, <<>>) /\ conn' = c /\ hist' = h /\ UNCHANGED workVars
        \/ /\ MaySend /\ conn' = [c EXCEPT !.bufOut = @ \o NextMessage]
           /\ hist' = [h EXCEPT !.sends = @ + 1]
           /\ Return(<<"send">> \o rest, <<>>)
           /\ UNCHANGED workVars
        \/ \E w \in Workers :
             /\ MaySend /\ worker[w] = "idle"
             /\ worker' = [worker EXCEPT ![w] = "asked"]
             /\ conn' = [c EXCEPT !.async = @ \/ UseAsync]
             /\ hist' = h /\ Return(rest, <<>>) /\ UNCHANGED old
    BY <1>3 DEF OnMessage
  <2> HIDE DEF h, c, rest
  <2>6. CASE Return(rest, <<>>) /\ conn' = c /\ hist' = h /\ UNCHANGED workVars
    <3>1. loop' \in LoopSet
      BY <1>a, <2>1, <2>4, <2>6, CallLists, ReturnTypes
    <3> QED
      BY <1>a, <2>1, <2>2, <2>3, <2>6, <3>1, Steady
  <2>7. CASE /\ MaySend /\ conn' = [c EXCEPT !.bufOut = @ \o NextMessage]
             /\ hist' = [h EXCEPT !.sends = @ + 1]
             /\ Return(<<"send">> \o rest, <<>>)
             /\ UNCHANGED workVars
    BY <1>a, <2>1, <2>2, <2>3, <2>4, <2>7, SendStringTypes
  <2>8. ASSUME NEW w \in Workers, MaySend, worker[w] = "idle",
               worker' = [worker EXCEPT ![w] = "asked"],
               conn' = [c EXCEPT !.async = @ \/ UseAsync],
               hist' = h, Return(rest, <<>>), UNCHANGED old
        PROVE  Typed' /\ Bounded'
    <3>1. loop' \in LoopSet
      BY <1>a, <2>1, <2>4, <2>8, CallLists, ReturnTypes
    <3>2. /\ worker' \in [Workers -> WorkerStates]
          /\ hist.sends + Cardinality(Senders') <= MaxSends
      BY <2>8, AskWorker
    <3>3. (c.async \/ UseAsync) \in BOOLEAN
      BY <2>3, ConnAssumption DEF ConnSet
    <3>4. conn' \in ConnSet /\ conn'.bufIn = c.bufIn
      BY <2>3, <2>8, <3>3 DEF ConnSet
    <3>5. old' \in [Workers -> Seq(Units)]
      BY <2>8 DEF Typed
    <3> QED
      BY <1>a, <2>1, <2>2, <2>3, <2>8, <3>1, <3>2, <3>4, <3>5, Anew
  <2> QED
    BY <2>5, <2>6, <2>7, <2>8
<1>4. CASE Consume
  <2>1. loop.stack # <<>> /\ UNCHANGED <<sock, epoll, workVars, hist, exited>>
    BY <1>4 DEF Consume, Running
  <2>2. conn' \in ConnSet /\ conn'.bufIn = 0
    BY <1>4, <1>a DEF Consume, Consumed, ConnSet
  <2>3. loop' \in LoopSet
    BY <1>4, <1>a, <2>1, CallLists, ReturnTypes DEF Consume
  <2> QED
    BY <1>a, <1>b, <2>1, <2>2, <2>3, Steady
<1>5. CASE OnSendComplete
  <2>1. loop.stack # <<>> /\ UNCHANGED <<sock, epoll, workVars, exited>>
    BY <1>5 DEF OnSendComplete, Running
  <2>2. CASE SendString(<<>>, conn)
    BY <1>a, <2>1, <2>2, CallLists, SendStringTypes DEF SendString
  <2>3. CASE Return(<<>>, <<>>) /\ UNCHANGED <<conn, hist>>
    <3>1. loop' \in LoopSet
      BY <1>a, <2>1, <2>3, CallLists, ReturnTypes
    <3> QED
      BY <1>a, <2>1, <2>3, <3>1, Steady
  <2> QED
    BY <1>5, <2>2, <2>3 DEF OnSendComplete
<1> QED
  BY <1>1, <1>2, <1>3, <1>4, <1>5

\* What the steps of loop() change of it.
LEMMA LoopChanges ==
  ASSUME NEW l \in LoopSet, NEW list \in Seq(Tasks), NEW frames \in Seq(Frames),
         NEW b \in BOOLEAN, NEW p \in {"poll", "dispatch", "run"}
  PROVE  /\ [l EXCEPT !.stack = frames] \in LoopSet
         /\ [l EXCEPT !.tasks = list] \in LoopSet
         /\ [l EXCEPT !.phase = p] \in LoopSet
         /\ [l EXCEPT !.phase = p, !.active = b] \in LoopSet
         /\ [l EXCEPT !.phase = p, !.holds = b] \in LoopSet
         /\ [l EXCEPT !.active = b, !.stack = frames] \in LoopSet
         /\ [l EXCEPT !.batch = list, !.stack = frames] \in LoopSet
         /\ [l EXCEPT !.phase = p, !.batch = l.tasks, !.tasks = <<>>, !.holds = b]
              \in LoopSet
BY CallLists DEF LoopSet

LEMMA DestroyTypes ==
  ASSUME conn \in ConnSet, epoll \in EpollSet, exited \in Exits,
         NEW t \in {"loop", "worker"}, Destroy(t)
  PROVE  /\ conn' \in ConnSet /\ conn'.bufIn = conn.bufIn
         /\ epoll' \in EpollSet /\ exited' \in Exits
<1>1. CASE epoll.registered
  <2>1. conn' = [conn EXCEPT !.destroyer = t]
        /\ epoll' = [epoll EXCEPT !.registered = FALSE, !.onList = FALSE]
        /\ exited' \in {exited, "use after free"}
    BY <1>1 DEF Destroy
  <2>2. conn' \in ConnSet /\ conn'.bufIn = conn.bufIn
    BY <2>1 DEF ConnSet
  <2>3. epoll' \in EpollSet
    BY <2>1 DEF EpollSet
  <2> QED
    BY <2>1, <2>2, <2>3 DEF Exits
<1>2. CASE ~epoll.registered
  BY <1>2 DEF Destroy, Exits
<1> QED
  BY <1>1, <1>2

LEMMA LoopTypes ==
  ASSUME Typed, Bounded, LoopStep \/ PollOther
  PROVE  Typed' /\ Bounded'
<1>a. /\ sock \in SockSet /\ epoll \in EpollSet /\ loop \in LoopSet
      /\ conn \in ConnSet /\ hist \in HistSet /\ exited \in Exits
      /\ sock.in \in Nat /\ conn.bufIn \in Nat
      /\ sock.out <= SndCap /\ sock.in <= hist.received
      /\ conn.bufIn <= hist.received /\ hist.received <= MaxIn
      /\ hist.shutDowns <= MaxShutDowns
      /\ hist.sends + Cardinality(Senders) <= MaxSends
  BY TypesOf
<1>b. loop.tasks \in Seq(Tasks) /\ loop.batch \in Seq(Tasks)
  BY <1>a DEF LoopSet
<1>1. CASE PollReports
  <2> DEFINE revents == Ready(sock, epoll.interest)
             rearmed == "ET" \notin epoll.interest
  <2>1. UNCHANGED <<sock, workVars, hist, exited>>
    BY <1>1 DEF PollReports
  <2>2. revents \in SUBSET Mask
    BY <1>a DEF Ready, EpollSet, Mask
  <2>3. rearmed \in BOOLEAN /\ FALSE \in BOOLEAN /\ TRUE \in BOOLEAN
    OBVIOUS
  <2>4. \/ /\ conn' = [conn EXCEPT !.events = revents]
           /\ loop' = [loop EXCEPT !.phase = "dispatch", !.active = TRUE]
           /\ epoll' = [epoll EXCEPT !.onList = rearmed]
        \/ epoll' = [epoll EXCEPT !.onList = FALSE] /\ UNCHANGED <<conn, loop>>
    BY <1>1 DEF PollReports
  <2> HIDE DEF revents, rearmed
  <2>5. epoll' \in EpollSet
    BY <1>a, <2>3, <2>4 DEF EpollSet
  <2>6. loop' \in LoopSet
    BY <1>a, <1>b, <2>3, <2>4, CallLists, LoopChanges
  <2>7. conn' \in ConnSet /\ conn'.bufIn = conn.bufIn
    BY <1>a, <2>2, <2>4 DEF ConnSet
  <2> QED
    BY <1>a, <2>1, <2>5, <2>6, <2>7, Steady
<1>2. CASE HandleEvent
  <2>1. UNCHANGED <<sock, epoll, conn, workVars, hist, exited>>
    BY <1>2 DEF HandleEvent
  <2>2. PICK frames \in {<<"read">>, <<"write">>, <<>>} :
          loop' = [loop EXCEPT !.active = FALSE, !.stack = frames]
    BY <1>2 DEF HandleEvent
  <2>3. frames \in Seq(Frames)
    BY CallLists
  <2>4. loop' \in LoopSet
    BY <1>a, <1>b, <2>2, <2>3, CallLists, LoopChanges
  <2> QED
    BY <1>a, <2>1, <2>4, Steady
<1>3. CASE SwapTasks
  <2>1. UNCHANGED <<sock, epoll, conn, workVars, hist, exited>>
    BY <1>3 DEF SwapTasks
  <2>2. Holds(loop.tasks) \in BOOLEAN
    BY DEF Holds
  <2>3. loop' = [loop EXCEPT !.phase = "run", !.batch = loop.tasks,
                             !.tasks = <<>>, !.holds = Holds(loop.tasks)]
    BY <1>3 DEF SwapTasks
  <2>4. loop' \in LoopSet
    BY <1>a, <1>b, <2>2, <2>3, CallLists, LoopChanges
  <2> QED
    BY <1>a, <2>1, <2>4, Steady
<1>4. CASE RunTask
  <2>1. UNCHANGED <<sock, workVars, hist>>
    BY <1>4 DEF RunTask
  <2>2. PICK frames \in {<<"send">>, <<"shutDown">>, <<>>} :
          loop' = [loop EXCEPT !.batch = Tail(loop.batch), !.stack = frames]
    BY <1>4 DEF RunTask
  <2>3. Tail(loop.batch) \in Seq(Tasks)
    BY <1>4, <1>b DEF RunTask
  <2>a. frames \in Seq(Frames)
    BY CallLists
  <2>4. loop' \in LoopSet
    BY <1>a, <2>a, <2>2, <2>3, LoopChanges
  <2> DEFINE kept == conn.inMap /\ Head(loop.batch) # "cleanup"
  <2>5. conn' = [conn EXCEPT !.inMap = kept] /\ kept \in BOOLEAN
    BY <1>4 DEF RunTask
  <2> HIDE DEF kept
  <2>6. conn' \in ConnSet /\ conn'.bufIn = conn.bufIn
    BY <1>a, <2>5 DEF ConnSet
  <2>7. epoll' \in EpollSet /\ exited' \in Exits
    <3>1. EpollCtl(FALSE, conn.events, sock) \/ UNCHANGED <<epoll, exited>>
      BY <1>4 DEF RunTask
    <3>2. CASE EpollCtl(FALSE, conn.events, sock)
      BY <1>a, <3>2, EpollTypes
    <3> QED
      BY <1>a, <3>1, <3>2
  <2> QED
    BY <1>a, <2>1, <2>4, <2>6, <2>7, Steady
<1>5. CASE EndBatch
  <2>1. UNCHANGED <<sock, workVars, hist>>
    BY <1>5 DEF EndBatch
  <2>2. loop' = [loop EXCEPT !.phase = "poll", !.holds = FALSE]
    BY <1>5 DEF EndBatch
  <2>3. loop' \in LoopSet
    BY <1>a, <1>b, <2>2, CallLists, LoopChanges
  <2>4. UNCHANGED <<conn, epoll, exited>> \/ Destroy("loop")
    BY <1>5 DEF EndBatch
  <2>5. conn' \in ConnSet /\ conn'.bufIn = conn.bufIn
        /\ epoll' \in EpollSet /\ exited' \in Exits
    BY <1>a, <2>4, DestroyTypes
  <2> QED
    BY <1>a, <2>1, <2>3, <2>5, Steady
<1>6. CASE PollOther
  <2>1. UNCHANGED <<sock, epoll, conn, workVars, hist, exited>>
        /\ loop' = [loop EXCEPT !.phase = "dispatch"]
    BY <1>6 DEF PollOther
  <2>2. loop' \in LoopSet
    BY <1>a, <1>b, <2>1, CallLists, LoopChanges
  <2> QED
    BY <1>a, <2>1, <2>2, Steady
<1> QED
  BY <1>1, <1>2, <1>3, <1>4, <1>5, <1>6 DEF LoopStep

LEMMA PeerTypes ==
  ASSUME Typed, Bounded, Peer
  PROVE  Typed' /\ Bounded'
<1>a. /\ sock \in SockSet /\ epoll \in EpollSet /\ loop \in LoopSet
      /\ conn \in ConnSet /\ hist \in HistSet /\ exited \in Exits
      /\ sock.in \in Nat /\ conn.bufIn \in Nat
      /\ sock.out <= SndCap /\ sock.in <= hist.received
      /\ conn.bufIn <= hist.received /\ hist.received <= MaxIn
      /\ hist.shutDowns <= MaxShutDowns
      /\ hist.sends + Cardinality(Senders) <= MaxSends
  BY TypesOf
<1>b. hist.received \in Nat /\ sock.out \in Nat
  BY <1>a DEF HistSet, SockSet
<1>1. CASE PeerSend
  <2>1. UNCHANGED <<loop, conn, workVars, exited>> /\ Notice("IN")
        /\ hist.received < MaxIn
    BY <1>1 DEF PeerSend
  <2>2. sock' = [sock EXCEPT !.in = sock.in + 1] /\ sock.in + 1 \in Nat
    BY <1>1, <1>a DEF PeerSend
  <2>3. sock' \in SockSet /\ sock'.in = sock.in + 1 /\ sock'.out = sock.out
    BY <1>a, <2>2 DEF SockSet
  <2>4. hist' = [hist EXCEPT !.received = hist.received + 1] /\ hist.received + 1 \in Nat
    BY <1>1, <1>b DEF PeerSend
  <2>5. hist' \in HistSet
    BY <1>a, <2>4, HistChanges
  <2>6. hist'.received = hist.received + 1 /\ hist'.sends = hist.sends
        /\ hist'.shutDowns = hist.shutDowns
    BY <1>a, <2>4 DEF HistSet
  <2>7. epoll' \in EpollSet
    BY <1>a, <2>1, NoticeTypes
  <2>8. sock'.in <= hist'.received /\ conn.bufIn <= hist'.received /\ hist'.received <= MaxIn
    BY <1>a, <1>b, <2>1, <2>3, <2>6, Consts
  <2> QED
    BY <1>a, <2>1, <2>3, <2>5, <2>6, <2>7, <2>8, Steady
<1>2. CASE PeerFin
  <2>1. UNCHANGED <<loop, conn, workVars, hist, exited>> /\ Notice("IN")
        /\ sock' = [sock EXCEPT !.eos = "fin"]
    BY <1>2 DEF PeerFin
  <2>2. sock' \in SockSet /\ sock'.in = sock.in /\ sock'.out = sock.out
    BY <1>a, <2>1 DEF SockSet
  <2>3. epoll' \in EpollSet
    BY <1>a, <2>1, NoticeTypes
  <2> QED
    BY <1>a, <2>1, <2>2, <2>3, Steady
<1>3. CASE PeerRst
  <2>1. UNCHANGED <<loop, conn, workVars, hist, exited>> /\ Notice("HUP")
    BY <1>3 DEF PeerRst
  <2>2. sock' \in SockSet /\ sock'.in = sock.in /\ sock'.out = 0
    BY <1>3, <1>a DEF PeerRst, SockSet, Reset
  <2>3. epoll' \in EpollSet
    BY <1>a, <2>1, NoticeTypes
  <2> QED
    BY <1>a, <2>1, <2>2, <2>3, Consts, Steady
<1>4. CASE PeerDrain
  <2>1. UNCHANGED <<loop, conn, workVars, hist, exited>>
    BY <1>4 DEF PeerDrain
  <2>2. sock' = [sock EXCEPT !.out = sock.out - 1, !.noSpace = FALSE]
        /\ sock.out - 1 \in Nat
    BY <1>4, <1>b DEF PeerDrain
  <2>3. sock' \in SockSet /\ sock'.in = sock.in /\ sock'.out = sock.out - 1
    BY <1>a, <2>2 DEF SockSet
  <2>4. Notice("OUT") \/ UNCHANGED epoll
    BY <1>4 DEF PeerDrain
  <2>5. epoll' \in EpollSet
    BY <1>a, <2>4, NoticeTypes
  <2>6. sock'.out <= SndCap
    BY <1>a, <1>b, <2>3, Consts
  <2> QED
    BY <1>a, <2>1, <2>3, <2>5, <2>6, Steady
<1> QED
  BY <1>1, <1>2, <1>3, <1>4 DEF Peer

LEMMA OtherTypes ==
  ASSUME Typed, Bounded, OtherHandler \/ ShutDown
  PROVE  Typed' /\ Bounded'
<1>a. /\ sock \in SockSet /\ epoll \in EpollSet /\ loop \in LoopSet
      /\ conn \in ConnSet /\ hist \in HistSet /\ exited \in Exits
      /\ sock.in \in Nat /\ conn.bufIn \in Nat
      /\ sock.out <= SndCap /\ sock.in <= hist.received
      /\ conn.bufIn <= hist.received /\ hist.received <= MaxIn
      /\ hist.shutDowns <= MaxShutDowns
      /\ hist.sends + Cardinality(Senders) <= MaxSends
  BY TypesOf
<1>b. /\ loop.tasks \in Seq(Tasks) /\ hist.sends \in Nat /\ hist.shutDowns \in Nat
      /\ worker \in [Workers -> WorkerStates] /\ old \in [Workers -> Seq(Units)]
  BY <1>a DEF LoopSet, HistSet, Typed
<1>1. CASE /\ MaySend
           /\ conn' = [conn EXCEPT !.bufOut = @ \o NextMessage]
           /\ hist' = [hist EXCEPT !.sends = @ + 1]
           /\ loop' = [loop EXCEPT !.stack = <<"send">>]
           /\ UNCHANGED <<sock, epoll, workVars, exited>>
  <2>1. conn.bufOut \o NextMessage \in Seq(Units)
    BY <1>1, MaySendSo
  <2>2. conn' \in ConnSet /\ conn'.bufIn = conn.bufIn
    BY <1>1, <1>a, <2>1 DEF ConnSet
  <2>3. hist' = [hist EXCEPT !.sends = hist.sends + 1] /\ hist.sends + 1 \in Nat
    BY <1>1, <1>b
  <2>4. hist' \in HistSet
    BY <1>a, <2>3, HistChanges
  <2>5. hist'.sends = hist.sends + 1 /\ hist'.received = hist.received
        /\ hist'.shutDowns = hist.shutDowns
    BY <1>a, <2>3 DEF HistSet
  <2>6. hist'.sends + Cardinality(Senders) <= MaxSends
    BY <1>1, <2>5, MaySendSo
  <2>7. loop' \in LoopSet
    BY <1>1, <1>a, <1>b, CallLists, LoopChanges
  <2> QED
    BY <1>1, <1>a, <2>2, <2>4, <2>5, <2>6, <2>7, Steady
<1>2. ASSUME NEW w \in Workers, MaySend, worker[w] = "idle",
             worker' = [worker EXCEPT ![w] = "holding"],
             UNCHANGED <<sock, epoll, loop, conn, old, hist, exited>>
      PROVE  Typed' /\ Bounded'
  <2>1. /\ worker' \in [Workers -> WorkerStates]
        /\ hist.sends + Cardinality(Senders') <= MaxSends
    BY <1>2, AskWorker
  <2> QED
    BY <1>2, <1>a, <1>b, <2>1, Anew
<1>3. CASE /\ hist.shutDowns < MaxShutDowns
           /\ hist' = [hist EXCEPT !.shutDowns = @ + 1]
           /\ \/ loop' = [loop EXCEPT !.stack = <<"shutDown">>]
              \/ loop' = [loop EXCEPT !.tasks = Append(@, "shutDownInLoop")]
           /\ UNCHANGED <<sock, epoll, conn, workVars, exited>>
  <2>1. Append(loop.tasks, "shutDownInLoop") \in Seq(Tasks)
    BY <1>b DEF Tasks
  <2>2. loop' \in LoopSet
    <3>1. CASE loop' = [loop EXCEPT !.stack = <<"shutDown">>]
      BY <1>a, <1>b, <3>1, CallLists, LoopChanges
    <3>2. CASE loop' = [loop EXCEPT !.tasks = Append(loop.tasks, "shutDownInLoop")]
      BY <1>a, <1>b, <2>1, <3>2, CallLists, LoopChanges
    <3> QED
      BY <1>3, <3>1, <3>2
  <2>3. hist' = [hist EXCEPT !.shutDowns = hist.shutDowns + 1] /\ hist.shutDowns + 1 \in Nat
    BY <1>3, <1>b
  <2>4. hist' \in HistSet
    BY <1>a, <2>3, HistChanges
  <2>5. hist'.sends = hist.sends /\ hist'.received = hist.received
        /\ hist'.shutDowns = hist.shutDowns + 1
    BY <1>a, <2>3 DEF HistSet
  <2>6. hist'.shutDowns <= MaxShutDowns
    BY <1>3, <1>b, <2>5, Consts
  <2> QED
    BY <1>3, <1>a, <2>2, <2>4, <2>5, <2>6, Steady
<1>4. CASE ShutDown
  BY <1>3, <1>4 DEF ShutDown
<1>5. CASE OtherHandler
  BY <1>1, <1>2, <1>3, <1>5 DEF OtherHandler, workVars
<1> QED
  BY <1>4, <1>5

\* The steps of a worker that sends: it was counted among the senders until it
\* writes bufferOut_ back.
LEMMA AppendWriteTypes ==
  ASSUME Typed, Bounded, NEW w \in Workers, AppendWrite(w)
  PROVE  /\ hist.sends < MaxSends
         /\ NextMessage \in Seq(Units) /\ Len(NextMessage) = MsgSize
         /\ Typed' /\ Bounded'
<1>a. /\ sock \in SockSet /\ epoll \in EpollSet /\ loop \in LoopSet
      /\ conn \in ConnSet /\ hist \in HistSet /\ exited \in Exits
      /\ sock.in \in Nat /\ conn.bufIn \in Nat
      /\ sock.out <= SndCap /\ sock.in <= hist.received
      /\ conn.bufIn <= hist.received /\ hist.received <= MaxIn
      /\ hist.shutDowns <= MaxShutDowns
      /\ hist.sends + Cardinality(Senders) <= MaxSends
  BY TypesOf
<1>b. /\ hist.sends \in Nat
      /\ worker \in [Workers -> WorkerStates] /\ old \in [Workers -> Seq(Units)]
  BY <1>a DEF HistSet, Typed
<1>c. /\ worker[w] = "appending"
      /\ worker' = [worker EXCEPT ![w] = "appended"]
      /\ conn' = [conn EXCEPT !.bufOut = old[w] \o NextMessage]
      /\ hist' = [hist EXCEPT !.sends = hist.sends + 1]
      /\ old' = [old EXCEPT ![w] = <<>>]
      /\ UNCHANGED <<sock, epoll, loop, exited>>
  BY DEF AppendWrite
<1>1. w \in Senders /\ Senders' = Senders \ {w}
  BY <1>b, <1>c DEF Senders
<1>2. Cardinality(Senders') = Cardinality(Senders) - 1 /\ Cardinality(Senders') \in Nat
  <2>1. IsFiniteSet(Senders \ {w})
    BY SendersIn, FS_RemoveElement
  <2> QED
    BY <1>1, <2>1, SendersIn, FS_RemoveElement, FS_CardinalityType
<1>3. hist.sends < MaxSends /\ hist.sends + 1 + Cardinality(Senders') <= MaxSends
  BY <1>a, <1>b, <1>2, SendersIn, Consts
<1>4. NextMessage \in Seq(Units) /\ Len(NextMessage) = MsgSize
  BY <1>b, <1>3, MessageUnits DEF NextMessage
<1>5. old[w] \o NextMessage \in Seq(Units)
  BY <1>b, <1>4
<1>6. conn' \in ConnSet /\ conn'.bufIn = conn.bufIn
  BY <1>a, <1>c, <1>5 DEF ConnSet
<1>7. hist.sends + 1 \in Nat
  BY <1>b
<1>8. hist' \in HistSet
  BY <1>a, <1>c, <1>7, HistChanges
<1>9. hist'.sends = hist.sends + 1 /\ hist'.received = hist.received
      /\ hist'.shutDowns = hist.shutDowns
  BY <1>a, <1>c DEF HistSet
<1>10. worker' \in [Workers -> WorkerStates]
  BY <1>b, <1>c DEF WorkerStates
<1>11. old' \in [Workers -> Seq(Units)]
  BY <1>b, <1>c
<1>12. hist'.sends + Cardinality(Senders') <= MaxSends
  BY <1>3, <1>9
<1>13. Typed' /\ Bounded'
  BY <1>a, <1>c, <1>6, <1>8, <1>9, <1>10, <1>11, <1>12, Anew
<1> QED
  BY <1>3, <1>4, <1>13

LEMMA WorkerTypes ==
  ASSUME Typed, Bounded, NEW w \in Workers, WorkerStep(w)
  PROVE  Typed' /\ Bounded'
<1>a. /\ sock \in SockSet /\ epoll \in EpollSet /\ loop \in LoopSet
      /\ conn \in ConnSet /\ hist \in HistSet /\ exited \in Exits
      /\ sock.in \in Nat /\ conn.bufIn \in Nat
      /\ sock.out <= SndCap /\ sock.in <= hist.received
      /\ conn.bufIn <= hist.received /\ hist.received <= MaxIn
      /\ hist.shutDowns <= MaxShutDowns
      /\ hist.sends + Cardinality(Senders) <= MaxSends
  BY TypesOf
<1>b. /\ loop.tasks \in Seq(Tasks) /\ conn.bufOut \in Seq(Units)
      /\ worker \in [Workers -> WorkerStates] /\ old \in [Workers -> Seq(Units)]
  BY <1>a DEF LoopSet, ConnSet, Typed
<1>1. CASE AppendRead(w)
  <2>1. /\ worker[w] \in {"asked", "holding"}
        /\ worker' = [worker EXCEPT ![w] = "appending"]
        /\ old' = [old EXCEPT ![w] = conn.bufOut]
        /\ UNCHANGED <<sock, epoll, loop, conn, hist, exited>>
    BY <1>1 DEF AppendRead
  <2>2. worker' \in [Workers -> WorkerStates]
    BY <1>b, <2>1 DEF WorkerStates
  <2>3. old' \in [Workers -> Seq(Units)]
    BY <1>b, <2>1
  <2>4. Senders' = Senders
    BY <1>b, <2>1 DEF Senders
  <2> QED
    BY <1>a, <2>1, <2>2, <2>3, <2>4, Anew
<1>2. CASE AppendWrite(w)
  BY <1>2, AppendWriteTypes
<1>3. ASSUME NEW from \in {"appended", "sending", "posted"}, worker[w] = from,
             NEW to \in {"sending", "posted", "idle"},
             worker' = [worker EXCEPT ![w] = to], UNCHANGED old
      PROVE  /\ worker' \in [Workers -> WorkerStates]
             /\ old' \in [Workers -> Seq(Units)] /\ Senders' = Senders
  <2>1. worker' \in [Workers -> WorkerStates]
    BY <1>b, <1>3 DEF WorkerStates
  <2>2. Senders' = Senders
    BY <1>b, <1>3 DEF Senders
  <2> QED
    BY <1>b, <1>3, <2>1, <2>2
<1>4. CASE EndAsync(w)
  <2>1. /\ worker[w] = "appended" /\ worker' = [worker EXCEPT ![w] = "sending"]
        /\ conn' = [conn EXCEPT !.async = FALSE]
        /\ UNCHANGED <<sock, epoll, loop, old, hist, exited>>
    BY <1>4 DEF EndAsync
  <2>2. conn' \in ConnSet /\ conn'.bufIn = conn.bufIn
    BY <1>a, <2>1 DEF ConnSet
  <2>3. /\ worker' \in [Workers -> WorkerStates]
        /\ old' \in [Workers -> Seq(Units)] /\ Senders' = Senders
    BY <1>3, <2>1
  <2> QED
    BY <1>a, <2>1, <2>2, <2>3, Anew
<1>5. CASE PostSend(w)
  <2>1. /\ worker[w] = "sending" /\ worker' = [worker EXCEPT ![w] = "posted"]
        /\ loop' = [loop EXCEPT !.tasks = Append(loop.tasks, "sendInLoop")]
        /\ UNCHANGED <<sock, epoll, conn, old, hist, exited>>
    BY <1>5 DEF PostSend
  <2>2. Append(loop.tasks, "sendInLoop") \in Seq(Tasks)
    BY <1>b DEF Tasks
  <2>3. loop' \in LoopSet
    BY <1>a, <2>1, <2>2, CallLists, LoopChanges
  <2>4. /\ worker' \in [Workers -> WorkerStates]
        /\ old' \in [Workers -> Seq(Units)] /\ Senders' = Senders
    BY <1>3, <2>1
  <2> QED
    BY <1>a, <2>1, <2>3, <2>4, Anew
<1>6. CASE Release(w)
  <2>1. /\ worker[w] = "posted" /\ worker' = [worker EXCEPT ![w] = "idle"]
        /\ UNCHANGED <<sock, loop, old, hist>>
    BY <1>6 DEF Release
  <2>2. UNCHANGED <<conn, epoll, exited>> \/ Destroy("worker")
    BY <1>6 DEF Release
  <2>3. conn' \in ConnSet /\ conn'.bufIn = conn.bufIn
        /\ epoll' \in EpollSet /\ exited' \in Exits
    BY <1>a, <2>2, DestroyTypes
  <2>4. /\ worker' \in [Workers -> WorkerStates]
        /\ old' \in [Workers -> Seq(Units)] /\ Senders' = Senders
    BY <1>3, <2>1
  <2> QED
    BY <1>a, <2>1, <2>3, <2>4, Anew
<1> QED
  BY <1>1, <1>2, <1>4, <1>5, <1>6 DEF WorkerStep

LEMMA StepTypes ==
  ASSUME Typed, Bounded, [Next]_vars
  PROVE  Typed' /\ Bounded'
<1>1. CASE UNCHANGED vars
  <2>1. Senders' = Senders
    BY <1>1 DEF vars, Senders
  <2> QED
    BY <1>1, <2>1 DEF vars, Typed, Bounded
<1>2. CASE Handler
  BY <1>2, HandlerTypes, AppTypes DEF Handler
<1>3. CASE LoopStep \/ PollOther
  BY <1>3, LoopTypes
<1>4. CASE OtherHandler \/ ShutDown
  BY <1>4, OtherTypes
<1>5. CASE Peer
  BY <1>5, PeerTypes
<1>6. CASE \E w \in Workers : WorkerStep(w)
  BY <1>6, WorkerTypes
<1>7. CASE Gone
  BY <1>1, <1>7 DEF Gone
<1> QED
  BY <1>1, <1>2, <1>3, <1>4, <1>5, <1>6, <1>7 DEF Next

\* Spec => []TypeOK: the buffers of the kernel and of the object stay within
\* what was received and what may be sent, over every nesting of the handlers
\* (TcpConnection.cpp) and every interleaving with the workers.
THEOREM TypeCorrect == Spec => []TypeOK
<1>1. Init => Typed /\ Bounded
  BY InitTypes
<1>2. (Typed /\ Bounded) /\ [Next]_vars => (Typed /\ Bounded)'
  BY StepTypes
<1>3. Typed /\ Bounded => TypeOK
  BY TypedSame
<1> QED
  BY <1>1, <1>2, <1>3, PTL DEF Spec

-----------------------------------------------------------------------------
(* closeCallback_                                                            *)

\* disConnected_ remembers that it ran, and is never reset.
ClosedWhen == hist.closed = IF conn.disc THEN 1 ELSE 0

LEMMA CloseStep ==
  ASSUME Typed, [Next]_vars
  PROVE  \/ conn'.disc = conn.disc /\ hist'.closed = hist.closed
         \/ /\ Running("close") \/ Running("shutDown")
            /\ Running("close") => ~Pending
            /\ ~conn.disc /\ Disconnect /\ conn'.disc /\ hist'.closed = hist.closed + 1
<1>a. conn \in ConnSet /\ hist \in HistSet
  BY DEF Typed
<1> DEFINE Same == conn'.disc = conn.disc /\ hist'.closed = hist.closed
           Other == /\ Running("close") \/ Running("shutDown")
                    /\ Running("close") => ~Pending
                    /\ ~conn.disc /\ Disconnect
                    /\ conn'.disc /\ hist'.closed = hist.closed + 1
<1>1. CASE UNCHANGED vars \/ Gone
  BY <1>1 DEF Gone, vars
<1>2. ASSUME SendOrWrite, UNCHANGED hist
      PROVE  Same
  <2>1. SendSome \/ SendAll \/ SendNone \/ SendFails \/ SendKills
    BY <1>2, SendCases
  <2>2. conn'.disc = conn.disc
    BY <1>a, <2>1 DEF SendSome, SendAll, SendNone, SendFails, SendKills, ConnSet
  <2> QED
    BY <1>2, <2>2
<1>3. CASE SendInLoop \/ HandleWrite
  BY <1>2, <1>3 DEF SendInLoop, HandleWrite
<1>4. CASE HandleRead
  BY <1>a, <1>4 DEF HandleRead, Recv, ConnSet
<1>5. ASSUME Disconnect
      PROVE  conn'.disc /\ hist'.closed = hist.closed + 1
  BY <1>a, <1>5 DEF Disconnect, ConnSet, HistSet
<1>6. CASE HandleClose
  <2>1. CASE conn.disc \/ Pending
    BY <1>a, <1>6, <2>1 DEF HandleClose, ConnSet
  <2>2. CASE ~(conn.disc \/ Pending)
    <3>1. Disconnect /\ Running("close") /\ ~conn.disc /\ ~Pending
      BY <1>6, <2>2 DEF HandleClose
    <3> QED
      BY <1>5, <3>1
  <2> QED
    BY <2>1, <2>2
<1>7. CASE HandleError
  BY <1>a, <1>7 DEF HandleError, HistSet
<1>8. CASE ShutDownInLoop
  <2>1. CASE conn.disc
    BY <1>8, <2>1 DEF ShutDownInLoop
  <2>2. CASE ~conn.disc
    <3>1. Disconnect /\ Running("shutDown") /\ ~Running("close")
      BY <1>8, <2>2 DEF ShutDownInLoop, Running
    <3> QED
      BY <1>5, <2>2, <3>1
  <2> QED
    BY <2>1, <2>2
<1>9. CASE AfterSend \/ AddChannelToLoop \/ HandleEvent \/ SwapTasks \/ PollOther
  BY <1>9 DEF AfterSend, AddChannelToLoop, HandleEvent, SwapTasks, PollOther
<1>10. CASE Accepted \/ OnSendComplete
  BY <1>a, <1>10 DEF Accepted, OnSendComplete, SendString, ConnSet, HistSet
<1>11. CASE OnMessage
  <2> DEFINE c == IF ConsumeFirst THEN Consumed(conn) ELSE conn
             h == [hist EXCEPT !.delivered = @ + conn.bufIn]
  <2>1. c \in ConnSet /\ c.disc = conn.disc
    BY <1>a DEF Consumed, ConnSet
  <2>2. h \in [sends : Nat, received : Nat, delivered : {h.delivered}, shutDowns : Nat,
               closed : Nat, errors : Nat, cleanups : Nat] /\ h.closed = hist.closed
    BY <1>a DEF HistSet
  <2>3. \/ conn' = c /\ hist' = h
        \/ /\ conn' = [c EXCEPT !.bufOut = @ \o NextMessage]
           /\ hist' = [h EXCEPT !.sends = @ + 1]
        \/ conn' = [c EXCEPT !.async = @ \/ UseAsync] /\ hist' = h
    BY <1>11 DEF OnMessage
  <2> HIDE DEF c, h
  <2>4. conn'.disc = conn.disc
    BY <2>1, <2>3 DEF ConnSet
  <2>5. hist'.closed = hist.closed
    BY <2>2, <2>3
  <2> QED
    BY <2>4, <2>5
<1>12. CASE Consume
  BY <1>a, <1>12 DEF Consume, Consumed, ConnSet
<1>13. CASE OtherHandler \/ ShutDown
  BY <1>a, <1>13 DEF OtherHandler, ShutDown, ConnSet, HistSet
<1>14. CASE PollReports
  BY <1>a, <1>14 DEF PollReports, ConnSet
<1>15. CASE RunTask
  BY <1>a, <1>15 DEF RunTask, ConnSet
<1>16. CASE EndBatch
  BY <1>a, <1>16 DEF EndBatch, Destroy, ConnSet
<1>17. CASE Peer
  BY <1>a, <1>17 DEF Peer, PeerSend, PeerFin, PeerRst, PeerDrain, HistSet
<1>18. ASSUME NEW w \in Workers, WorkerStep(w)
       PROVE  Same
  <2>1. CASE AppendRead(w) \/ PostSend(w)
    BY <2>1 DEF AppendRead, PostSend
  <2>2. CASE AppendWrite(w) \/ EndAsync(w)
    BY <1>a, <2>2 DEF AppendWrite, EndAsync, ConnSet, HistSet
  <2>3. CASE Release(w)
    BY <1>a, <2>3 DEF Release, Destroy, ConnSet
  <2> QED
    BY <1>18, <2>1, <2>2, <2>3 DEF WorkerStep
<1> QED
  BY <1>1, <1>3, <1>4, <1>6, <1>7, <1>8, <1>9, <1>10, <1>11, <1>12, <1>13, <1>14,
     <1>15, <1>16, <1>17, <1>18 DEF Next, Handler, LoopStep

\* Spec => []ClosedOnce: closeCallback_ runs at most once, however the end of
\* the connection is noticed and however often (handleClose, shutDownInLoop;
\* TcpConnection.cpp:180-188, 245-268).
THEOREM ClosesOnce == Spec => []ClosedOnce
<1>1. Init => Typed /\ Bounded /\ ClosedWhen
  BY InitTypes DEF Init, ClosedWhen
<1>2. Typed /\ Bounded /\ ClosedWhen /\ [Next]_vars => (Typed /\ Bounded /\ ClosedWhen)'
  <2> SUFFICES ASSUME Typed, Bounded, ClosedWhen, [Next]_vars
               PROVE  (Typed /\ Bounded /\ ClosedWhen)'
    OBVIOUS
  <2>1. Typed' /\ Bounded'
    BY StepTypes
  <2>2. conn \in ConnSet /\ conn' \in ConnSet /\ hist \in HistSet
    BY <2>1 DEF Typed
  <2>3. ClosedWhen'
    BY <2>2, CloseStep DEF ClosedWhen, ConnSet, HistSet
  <2> QED
    BY <2>1, <2>3
<1>3. ClosedWhen => ClosedOnce
  BY DEF ClosedWhen, ClosedOnce
<1> QED
  BY <1>1, <1>2, <1>3, PTL DEF Spec

-----------------------------------------------------------------------------
(* Input                                                                     *)

\* What was delivered, waits in bufferIn_ or is unread was received, and no
\* unit of it is in two places.
CountedIn == hist.delivered + conn.bufIn + sock.in <= hist.received

LEMMA CountedStep ==
  ASSUME ConsumeFirst, Typed, CountedIn, [Next]_vars
  PROVE  CountedIn'
<1>a. /\ sock \in SockSet /\ conn \in ConnSet /\ hist \in HistSet
      /\ sock.in \in Nat /\ conn.bufIn \in Nat
      /\ hist.received \in Nat /\ hist.delivered \in Nat
  BY DEF Typed, SockSet, ConnSet, HistSet
<1> DEFINE Same == /\ hist'.delivered = hist.delivered /\ conn'.bufIn = conn.bufIn
                   /\ sock'.in = sock.in /\ hist'.received = hist.received
<1>b. Same => CountedIn'
  BY DEF CountedIn
<1>1. CASE UNCHANGED vars \/ Gone
  BY <1>1, <1>b DEF Gone, vars
<1>2. CASE SendInLoop \/ HandleWrite
  <2>1. SendSome \/ SendAll \/ SendNone \/ SendFails \/ SendKills
    BY <1>2, SendCases DEF SendInLoop, HandleWrite
  <2>2. conn'.bufIn = conn.bufIn
    BY <1>a, <2>1 DEF SendSome, SendAll, SendNone, SendFails, SendKills, ConnSet
  <2>3. sock'.in = sock.in
    BY <1>a, <2>1 DEF SendSome, SendAll, SendNone, SendFails, SendKills, Written, SockSet
  <2> QED
    BY <1>2, <1>b, <2>2, <2>3 DEF SendInLoop, HandleWrite
<1>3. CASE HandleRead
  <2>1. conn'.bufIn = sock.in
    BY <1>a, <1>3 DEF HandleRead, Recv, ConnSet
  <2>2. sock'.in = 0
    BY <1>a, <1>3 DEF HandleRead, Recv, SockSet
  <2>3. hist' = hist
    BY <1>3 DEF HandleRead
  <2> QED
    BY <1>a, <2>1, <2>2, <2>3 DEF CountedIn
<1>4. CASE HandleClose \/ HandleError \/ ShutDownInLoop
  <2>1. sock' = sock
    BY <1>4 DEF HandleClose, HandleError, ShutDownInLoop
  <2>2. conn'.bufIn = conn.bufIn
    BY <1>a, <1>4 DEF HandleClose, HandleError, ShutDownInLoop, Disconnect, ConnSet
  <2>3. hist'.delivered = hist.delivered /\ hist'.received = hist.received
    BY <1>a, <1>4 DEF HandleClose, HandleError, ShutDownInLoop, Disconnect, HistSet
  <2> QED
    BY <1>b, <2>1, <2>2, <2>3
<1>5. CASE AfterSend \/ AddChannelToLoop \/ HandleEvent \/ SwapTasks \/ PollOther
  BY <1>5, <1>b DEF AfterSend, AddChannelToLoop, HandleEvent, SwapTasks, PollOther
<1>6. CASE Accepted \/ OnSendComplete
  <2>1. conn'.bufIn = conn.bufIn
    BY <1>a, <1>6 DEF Accepted, OnSendComplete, SendString, ConnSet
  <2>2. hist'.delivered = hist.delivered /\ hist'.received = hist.received
    BY <1>a, <1>6 DEF Accepted, OnSendComplete, SendString, HistSet
  <2> QED
    BY <1>6, <1>b, <2>1, <2>2 DEF Accepted, OnSendComplete
<1>7. CASE OnMessage
  <2> DEFINE c == Consumed(conn)
             h == [hist EXCEPT !.delivered = @ + conn.bufIn]
  <2>1. c \in ConnSet /\ c.bufIn = 0
    BY <1>a DEF Consumed, ConnSet
  <2>2. hist.delivered + conn.bufIn \in Nat
    BY <1>a
  <2>3. h \in HistSet
    BY <1>a, <2>2, HistChanges
  <2>4. h.delivered = hist.delivered + conn.bufIn /\ h.received = hist.received
    BY <1>a DEF HistSet
  <2>5. \/ conn' = c /\ hist' = h
        \/ /\ conn' = [c EXCEPT !.bufOut = @ \o NextMessage]
           /\ hist' = [h EXCEPT !.sends = @ + 1]
        \/ conn' = [c EXCEPT !.async = @ \/ UseAsync] /\ hist' = h
    BY <1>7 DEF OnMessage
  <2> HIDE DEF c, h
  <2>6. conn'.bufIn = 0
    BY <2>1, <2>5 DEF ConnSet
  <2>7. hist'.delivered = hist.delivered + conn.bufIn /\ hist'.received = hist.received
    BY <2>3, <2>4, <2>5 DEF HistSet
  <2>8. sock' = sock
    BY <1>7 DEF OnMessage
  <2> QED
    BY <1>a, <2>6, <2>7, <2>8 DEF CountedIn
<1>8. CASE Consume
  <2>1. conn'.bufIn = 0 /\ sock' = sock /\ hist' = hist
    BY <1>a, <1>8 DEF Consume, Consumed, ConnSet
  <2> QED
    BY <1>a, <2>1 DEF CountedIn
<1>9. CASE OtherHandler \/ ShutDown
  <2>1. conn'.bufIn = conn.bufIn /\ sock' = sock
    BY <1>a, <1>9 DEF OtherHandler, ShutDown, ConnSet
  <2>2. hist'.delivered = hist.delivered /\ hist'.received = hist.received
    BY <1>a, <1>9 DEF OtherHandler, ShutDown, HistSet
  <2> QED
    BY <1>b, <2>1, <2>2
<1>10. CASE PollReports \/ RunTask
  <2>1. conn'.bufIn = conn.bufIn
    BY <1>a, <1>10 DEF PollReports, RunTask, ConnSet
  <2> QED
    BY <1>10, <1>b, <2>1 DEF PollReports, RunTask
<1>11. CASE EndBatch
  BY <1>a, <1>b, <1>11 DEF EndBatch, Destroy, ConnSet
<1>12. CASE PeerSend
  <2>1. sock'.in = sock.in + 1 /\ conn' = conn
    BY <1>a, <1>12 DEF PeerSend, SockSet
  <2>2. hist'.received = hist.received + 1 /\ hist'.delivered = hist.delivered
    BY <1>a, <1>12 DEF PeerSend, HistSet
  <2> QED
    BY <1>a, <2>1, <2>2 DEF CountedIn
<1>13. CASE PeerFin \/ PeerRst \/ PeerDrain
  <2>1. sock'.in = sock.in
    BY <1>a, <1>13 DEF PeerFin, PeerRst, PeerDrain, SockSet
  <2> QED
    BY <1>13, <1>b, <2>1 DEF PeerFin, PeerRst, PeerDrain
<1>14. ASSUME NEW w \in Workers, WorkerStep(w)
       PROVE  CountedIn'
  <2>1. sock' = sock
    BY <1>14 DEF WorkerStep, AppendRead, AppendWrite, EndAsync, PostSend, Release
  <2>2. conn'.bufIn = conn.bufIn
    <3>1. CASE AppendRead(w) \/ PostSend(w)
      BY <3>1 DEF AppendRead, PostSend
    <3>2. CASE AppendWrite(w) \/ EndAsync(w)
      BY <1>a, <3>2 DEF AppendWrite, EndAsync, ConnSet
    <3>3. CASE Release(w)
      BY <1>a, <3>3 DEF Release, Destroy, ConnSet
    <3> QED
      BY <1>14, <3>1, <3>2, <3>3 DEF WorkerStep
  <2>3. hist'.delivered = hist.delivered /\ hist'.received = hist.received
    <3>1. CASE AppendWrite(w)
      BY <1>a, <3>1 DEF AppendWrite, HistSet
    <3>2. CASE ~AppendWrite(w)
      BY <1>14, <3>2 DEF WorkerStep, AppendRead, EndAsync, PostSend, Release
    <3> QED
      BY <3>1, <3>2
  <2> QED
    BY <1>b, <2>1, <2>2, <2>3
<1> QED
  BY <1>1, <1>2, <1>3, <1>4, <1>5, <1>6, <1>7, <1>8, <1>9, <1>10, <1>11, <1>12,
     <1>13, <1>14 DEF Next, Handler, LoopStep, Peer

\* Spec => []DeliveredOnce, when onMessage takes its input before it calls
\* anything: then handleClose, called from a nested send, finds bufferIn_ empty
\* and gives no unit twice (TcpConnection.cpp:191-203, 251-255).
THEOREM DeliversOnce ==
  ASSUME ConsumeFirst
  PROVE  Spec => []DeliveredOnce
<1>1. Init => Typed /\ Bounded /\ CountedIn
  BY InitTypes DEF Init, CountedIn
<1>2. Typed /\ Bounded /\ CountedIn /\ [Next]_vars => (Typed /\ Bounded /\ CountedIn)'
  BY StepTypes, CountedStep
<1>3. Typed /\ CountedIn => DeliveredOnce
  BY DEF Typed, CountedIn, DeliveredOnce, SockSet, ConnSet, HistSet
<1> QED
  BY <1>1, <1>2, <1>3, PTL DEF Spec

-----------------------------------------------------------------------------
(* Data first, then close                                                    *)

\* A worker that has yet to answer keeps asyncProcess_ set.
Answering == UseAsync => \A w \in Workers : worker[w] = "asked" => conn.async

OneWorker == \A v, w \in Workers : v = w

LEMMA AnsweringStep ==
  ASSUME OneWorker, Typed, Answering, [Next]_vars
  PROVE  Answering'
<1>a. conn \in ConnSet /\ worker \in [Workers -> WorkerStates]
  BY DEF Typed
<1>b. ASSUME worker' = worker, conn'.async = conn.async
      PROVE  Answering'
  BY <1>b DEF Answering
<1>1. CASE UNCHANGED vars \/ Gone
  BY <1>1, <1>b DEF Gone, vars
<1>2. CASE SendInLoop \/ HandleWrite
  <2>1. SendSome \/ SendAll \/ SendNone \/ SendFails \/ SendKills
    BY <1>2, SendCases DEF SendInLoop, HandleWrite
  <2>2. conn'.async = conn.async
    BY <1>a, <2>1 DEF SendSome, SendAll, SendNone, SendFails, SendKills, ConnSet
  <2> QED
    BY <1>2, <1>b, <2>2 DEF SendInLoop, HandleWrite, workVars
<1>3. CASE HandleRead \/ HandleClose \/ HandleError \/ ShutDownInLoop \/ Consume
  <2>1. conn'.async = conn.async
    BY <1>a, <1>3 DEF HandleRead, Recv, HandleClose, HandleError, ShutDownInLoop,
                      Disconnect, Consume, Consumed, ConnSet
  <2> QED
    BY <1>3, <1>b, <2>1 DEF HandleRead, HandleClose, HandleError, ShutDownInLoop,
                            Consume, workVars
<1>4. CASE AfterSend \/ AddChannelToLoop \/ HandleEvent \/ SwapTasks \/ PollOther
  BY <1>4, <1>b DEF AfterSend, AddChannelToLoop, HandleEvent, SwapTasks, PollOther,
                    workVars
<1>5. CASE Accepted \/ OnSendComplete
  <2>1. conn'.async = conn.async
    BY <1>a, <1>5 DEF Accepted, OnSendComplete, SendString, ConnSet
  <2> QED
    BY <1>5, <1>b, <2>1 DEF Accepted, OnSendComplete, workVars
<1>6. CASE OnMessage
  <2> DEFINE c == IF ConsumeFirst THEN Consumed(conn) ELSE conn
  <2>1. c \in ConnSet /\ c.async = conn.async
    BY <1>a DEF Consumed, ConnSet
  <2>2. \/ conn' \in {c, [c EXCEPT !.bufOut = @ \o NextMessage]} /\ worker' = worker
        \/ \E w \in Workers : /\ conn' = [c EXCEPT !.async = @ \/ UseAsync]
                              /\ worker' = [worker EXCEPT ![w] = "asked"]
    BY <1>6 DEF OnMessage, workVars
  <2> HIDE DEF c
  <2>3. CASE conn' \in {c, [c EXCEPT !.bufOut = @ \o NextMessage]} /\ worker' = worker
    <3>1. conn'.async = conn.async
      BY <2>1, <2>3 DEF ConnSet
    <3> QED
      BY <1>b, <2>3, <3>1
  <2>4. CASE conn' = [c EXCEPT !.async = @ \/ UseAsync]
    <3>1. conn'.async = (conn.async \/ UseAsync)
      BY <2>1, <2>4 DEF ConnSet
    <3> QED
      BY <3>1 DEF Answering
  <2> QED
    BY <2>2, <2>3, <2>4
<1>7. CASE OtherHandler \/ ShutDown
  <2>1. conn'.async = conn.async
    BY <1>a, <1>7 DEF OtherHandler, ShutDown, ConnSet
  <2>2. \A v \in Workers : worker'[v] = "asked" => worker[v] = "asked"
    BY <1>a, <1>7 DEF OtherHandler, ShutDown, workVars
  <2> QED
    BY <2>1, <2>2 DEF Answering
<1>8. CASE PollReports \/ RunTask
  <2>1. conn'.async = conn.async
    BY <1>a, <1>8 DEF PollReports, RunTask, ConnSet
  <2> QED
    BY <1>8, <1>b, <2>1 DEF PollReports, RunTask, workVars
<1>9. CASE EndBatch
  <2>1. conn'.async = conn.async
    BY <1>a, <1>9 DEF EndBatch, Destroy, ConnSet
  <2> QED
    BY <1>9, <1>b, <2>1 DEF EndBatch, workVars
<1>10. CASE Peer
  BY <1>b, <1>10 DEF Peer, PeerSend, PeerFin, PeerRst, PeerDrain, workVars
<1>11. ASSUME NEW w \in Workers, WorkerStep(w)
       PROVE  Answering'
  <2>1. \A v \in Workers : v = w
    BY DEF OneWorker
  <2>2. worker'[w] # "asked"
    BY <1>a, <1>11 DEF WorkerStep, AppendRead, AppendWrite, EndAsync, PostSend, Release
  <2> QED
    BY <2>1, <2>2 DEF Answering
<1> QED
  BY <1>1, <1>2, <1>3, <1>4, <1>5, <1>6, <1>7, <1>8, <1>9, <1>10, <1>11
     DEF Next, Handler, LoopStep

\* Spec => FinishedBeforeClose: with at most one worker on the connection,
\* handleClose runs closeCallback_ only when nothing waits to be sent and the
\* message that was handed out is answered (TcpConnection.cpp:245-268).  A
\* second worker's answer clears asyncProcess_ for both.
THEOREM FinishesFirst ==
  ASSUME OneWorker
  PROVE  Spec => FinishedBeforeClose
<1> DEFINE CloseOk == hist'.closed > hist.closed /\ Head(loop.stack) = "close"
                        => /\ conn.bufOut = <<>>
                           /\ UseAsync => \A w \in Workers : worker[w] # "asked"
<1>1. Init => Typed /\ Bounded /\ Answering
  <2>1. Init => \A w \in Workers : worker[w] = "idle"
    BY DEF Init
  <2> QED
    BY <2>1, InitTypes DEF Answering
<1>2. Typed /\ Bounded /\ Answering /\ [Next]_vars => (Typed /\ Bounded /\ Answering)'
  BY StepTypes, AnsweringStep
<1>3. Typed /\ Answering /\ [Next]_vars => [CloseOk]_vars
  <2> SUFFICES ASSUME Typed, Answering, [Next]_vars, hist'.closed > hist.closed,
                      Head(loop.stack) = "close"
               PROVE  /\ conn.bufOut = <<>>
                      /\ UseAsync => \A w \in Workers : worker[w] # "asked"
    OBVIOUS
  <2>1. hist.closed \in Nat
    BY DEF Typed, HistSet
  <2>2. ~(hist'.closed = hist.closed)
    BY <2>1
  <2>3. Running("close") \/ Running("shutDown")
    BY <2>2, CloseStep
  <2>4. Running("close") /\ ~Pending
    BY <2>2, <2>3, CloseStep DEF Running
  <2> QED
    BY <2>4 DEF Pending, Answering
<1> QED
  BY <1>1, <1>2, <1>3, PTL DEF Spec, FinishedBeforeClose

-----------------------------------------------------------------------------
(* Output                                                                    *)

\* What a step does to the stream of units that were sent: nothing, it appends
\* a message to bufferOut_, or it moves units from there to the socket.
Kept == /\ sock'.wire = sock.wire /\ conn'.bufOut = conn.bufOut
        /\ hist'.sends = hist.sends
Appended == /\ sock'.wire = sock.wire /\ conn'.bufOut = conn.bufOut \o NextMessage
            /\ hist'.sends = hist.sends + 1
Moved == /\ sock'.wire = sock.wire \o SubSeq(conn.bufOut, 1, Accepts)
         /\ conn'.bufOut = Unsent
         /\ hist'.sends = hist.sends

LEMMA SendStream ==
  ASSUME Typed, Bounded, SendOrWrite, UNCHANGED hist
  PROVE  Kept \/ Moved
<1>a. sock \in SockSet /\ conn \in ConnSet
  BY DEF Typed
<1>1. SendSome \/ SendAll \/ SendNone \/ SendFails \/ SendKills
  BY SendCases
<1>2. CASE SendSome \/ SendAll
  <2>1. conn'.bufOut = Unsent
    BY <1>a, <1>2 DEF SendSome, SendAll, ConnSet
  <2>2. sock'.wire = sock.wire \o SubSeq(conn.bufOut, 1, Accepts)
    BY <1>2, WrittenTypes DEF SendSome, SendAll
  <2> QED
    BY <2>1, <2>2 DEF Moved
<1>3. CASE SendNone \/ SendFails \/ SendKills
  <2>1. conn' = conn
    BY <1>3 DEF SendNone, SendFails, SendKills
  <2>2. sock'.wire = sock.wire
    BY <1>a, <1>3 DEF SendNone, SendFails, SendKills, SockSet
  <2> QED
    BY <2>1, <2>2 DEF Kept
<1> QED
  BY <1>1, <1>2, <1>3

LEMMA StreamEffects ==
  ASSUME Workers = {}, Typed, Bounded, [Next]_vars
  PROVE  Kept \/ Appended \/ Moved
<1>a. sock \in SockSet /\ conn \in ConnSet /\ hist \in HistSet
  BY DEF Typed
<1>1. CASE UNCHANGED vars \/ Gone
  BY <1>1 DEF Gone, vars, Kept
<1>2. CASE SendInLoop \/ HandleWrite
  BY <1>2, SendStream DEF SendInLoop, HandleWrite
<1>3. CASE HandleRead
  <2>1. conn'.bufOut = conn.bufOut
    BY <1>a, <1>3 DEF HandleRead, Recv, ConnSet
  <2>2. sock'.wire = sock.wire
    BY <1>a, <1>3 DEF HandleRead, Recv, SockSet
  <2> QED
    BY <1>3, <2>1, <2>2 DEF HandleRead, Kept
<1>4. CASE HandleClose \/ HandleError \/ ShutDownInLoop
  <2>1. sock' = sock
    BY <1>4 DEF HandleClose, HandleError, ShutDownInLoop
  <2>2. conn'.bufOut = conn.bufOut
    BY <1>a, <1>4 DEF HandleClose, HandleError, ShutDownInLoop, Disconnect, ConnSet
  <2>3. hist'.sends = hist.sends
    BY <1>a, <1>4 DEF HandleClose, HandleError, ShutDownInLoop, Disconnect, HistSet
  <2> QED
    BY <2>1, <2>2, <2>3 DEF Kept
<1>5. CASE AfterSend \/ AddChannelToLoop \/ HandleEvent \/ SwapTasks \/ PollOther
  BY <1>5 DEF AfterSend, AddChannelToLoop, HandleEvent, SwapTasks, PollOther, Kept
<1>6. ASSUME conn' = [conn EXCEPT !.bufOut = @ \o NextMessage],
             hist' = [hist EXCEPT !.sends = @ + 1], sock' = sock
      PROVE  Appended
  <2>1. conn'.bufOut = conn.bufOut \o NextMessage
    BY <1>a, <1>6 DEF ConnSet
  <2>2. hist'.sends = hist.sends + 1
    BY <1>a, <1>6 DEF HistSet
  <2> QED
    BY <1>6, <2>1, <2>2 DEF Appended
<1>7. CASE Accepted \/ OnSendComplete
  <2>1. CASE conn' = conn /\ hist' = hist
    BY <1>7, <2>1 DEF Accepted, OnSendComplete, Kept
  <2>2. CASE ~(conn' = conn /\ hist' = hist)
    BY <1>6, <1>7, <2>2 DEF Accepted, OnSendComplete, SendString
  <2> QED
    BY <2>1, <2>2
<1>8. CASE OnMessage
  <2> DEFINE c == IF ConsumeFirst THEN Consumed(conn) ELSE conn
             h == [hist EXCEPT !.delivered = @ + conn.bufIn]
  <2>1. c \in ConnSet /\ c.bufOut = conn.bufOut
    BY <1>a DEF Consumed, ConnSet
  <2>2. h \in [sends : Nat, received : Nat, delivered : {h.delivered}, shutDowns : Nat,
               closed : Nat, errors : Nat, cleanups : Nat] /\ h.sends = hist.sends
    BY <1>a DEF HistSet
  <2>3. \/ conn' = c /\ hist' = h
        \/ /\ conn' = [c EXCEPT !.bufOut = @ \o NextMessage]
           /\ hist' = [h EXCEPT !.sends = @ + 1]
    BY <1>8 DEF OnMessage
  <2>4. sock' = sock
    BY <1>8 DEF OnMessage
  <2> HIDE DEF c, h
  <2>5. CASE conn' = c /\ hist' = h
    BY <2>1, <2>2, <2>4, <2>5 DEF Kept
  <2>6. CASE /\ conn' = [c EXCEPT !.bufOut = @ \o NextMessage]
             /\ hist' = [h EXCEPT !.sends = @ + 1]
    <3>1. conn'.bufOut = conn.bufOut \o NextMessage
      BY <2>1, <2>6 DEF ConnSet
    <3>2. hist'.sends = hist.sends + 1
      BY <2>2, <2>6
    <3> QED
      BY <2>4, <3>1, <3>2 DEF Appended
  <2> QED
    BY <2>3, <2>5, <2>6
<1>9. CASE Consume
  <2>1. conn'.bufOut = conn.bufOut
    BY <1>a, <1>9 DEF Consume, Consumed, ConnSet
  <2> QED
    BY <1>9, <2>1 DEF Consume, Kept
<1>10. CASE OtherHandler
  <2>1. \/ conn' = [conn EXCEPT !.bufOut = @ \o NextMessage]
           /\ hist' = [hist EXCEPT !.sends = @ + 1]
        \/ conn' = conn /\ hist' = [hist EXCEPT !.shutDowns = @ + 1]
    BY <1>10 DEF OtherHandler
  <2>2. CASE conn' = conn /\ hist' = [hist EXCEPT !.shutDowns = @ + 1]
    BY <1>a, <1>10, <2>2 DEF OtherHandler, Kept, HistSet
  <2> QED
    BY <1>6, <1>10, <2>1, <2>2 DEF OtherHandler
<1>11. CASE ShutDown
  BY <1>a, <1>11 DEF ShutDown, Kept, HistSet
<1>12. CASE PollReports \/ RunTask
  <2>1. conn'.bufOut = conn.bufOut
    BY <1>a, <1>12 DEF PollReports, RunTask, ConnSet
  <2> QED
    BY <1>12, <2>1 DEF PollReports, RunTask, Kept
<1>13. CASE EndBatch
  <2>1. conn'.bufOut = conn.bufOut
    BY <1>a, <1>13 DEF EndBatch, Destroy, ConnSet
  <2> QED
    BY <1>13, <2>1 DEF EndBatch, Kept
<1>14. CASE Peer
  <2>1. sock'.wire = sock.wire /\ conn' = conn
    BY <1>a, <1>14 DEF Peer, PeerSend, PeerFin, PeerRst, PeerDrain, SockSet
  <2>2. hist'.sends = hist.sends
    BY <1>a, <1>14 DEF Peer, PeerSend, PeerFin, PeerRst, PeerDrain, HistSet
  <2> QED
    BY <2>1, <2>2 DEF Kept
<1> QED
  BY <1>1, <1>2, <1>3, <1>4, <1>5, <1>7, <1>8, <1>9, <1>10, <1>11, <1>12, <1>13,
     <1>14 DEF Next, Handler, LoopStep

LEMMA ConcatAt ==
  ASSUME NEW s \in Seq(Nat), NEW t \in Seq(Nat), NEW i \in 1 .. Len(s) + Len(t)
  PROVE  (s \o t)[i] = IF i <= Len(s) THEN s[i] ELSE t[i - Len(s)]
OBVIOUS

LEMMA ConcatLen ==
  ASSUME NEW s \in Seq(Nat), NEW t \in Seq(Nat)
  PROVE  /\ s \o t \in Seq(Nat)
         /\ Len(s \o t) = Len(s) + Len(t)
OBVIOUS

\* The messages numbered from 0, one after the other, are the units from 1.
LEMMA MessagesFollow ==
  ASSUME NEW n \in Nat
  PROVE  [i \in 1 .. n * MsgSize |-> i] \o Message(n)
           = [i \in 1 .. (n + 1) * MsgSize |-> i]
<1> DEFINE k == n * MsgSize
           a == [i \in 1 .. k |-> i]
           b == [i \in 1 .. MsgSize |-> k + i]
           z == [i \in 1 .. k + MsgSize |-> i]
<1>1. MsgSize \in Nat /\ k \in Nat /\ (n + 1) * MsgSize = k + MsgSize
  BY Consts
<1>2. Message(n) = b
  BY DEF Message
<1> HIDE DEF k
<1>3. a \in Seq(Nat) /\ Len(a) = k /\ \A i \in 1 .. k : a[i] = i
  BY <1>1
<1>4. b \in Seq(Nat) /\ Len(b) = MsgSize /\ \A i \in 1 .. MsgSize : b[i] = k + i
  BY <1>1
<1>5. z \in Seq(Nat) /\ Len(z) = k + MsgSize /\ \A i \in 1 .. k + MsgSize : z[i] = i
  BY <1>1
<1> HIDE DEF a, b, z
<1>6. a \o b \in Seq(Nat) /\ Len(a \o b) = k + MsgSize
  <2>1. a \in Seq(Nat) /\ b \in Seq(Nat)
    BY <1>3, <1>4
  <2>2. Len(a) = k /\ Len(b) = MsgSize
    BY <1>3, <1>4
  <2> QED
    BY <2>1, <2>2, ConcatLen
<1>7. ASSUME NEW i \in 1 .. k + MsgSize
      PROVE  (a \o b)[i] = i
  <2>1. i \in 1 .. Len(a) + Len(b) /\ a \in Seq(Nat) /\ b \in Seq(Nat)
    BY <1>3, <1>4
  <2>2. CASE i <= k
    <3>1. (a \o b)[i] = a[i]
      BY <1>3, <2>1, <2>2, ConcatAt
    <3>2. i \in 1 .. k
      BY <1>1, <2>2
    <3> QED
      BY <1>3, <3>1, <3>2
  <2>3. CASE i > k
    <3>1. (a \o b)[i] = b[i - k]
      BY <1>1, <1>3, <2>1, <2>3, ConcatAt
    <3>2. i - k \in 1 .. MsgSize
      BY <1>1, <2>3
    <3>3. b[i - k] = k + (i - k)
      BY <1>4, <3>2
    <3>4. k + (i - k) = i
      BY <1>1
    <3> QED
      BY <3>1, <3>3, <3>4, Zenon
  <2>4. i <= k \/ i > k
    BY <1>1
  <2> QED
    BY <2>2, <2>3, <2>4, Zenon
<1>8. a \o b = z
  <2>1. Len(a \o b) = Len(z) /\ \A i \in 1 .. Len(a \o b) : (a \o b)[i] = z[i]
    BY <1>5, <1>6, <1>7
  <2> QED
    BY <1>5, <1>6, <2>1, SeqEqual
<1> QED
  BY <1>1, <1>2, <1>8 DEF a, z, k

LEMMA UnitsAreInts ==
  ASSUME NEW s \in Seq(Units)
  PROVE  s \in Seq(Int)
<1>1. Units \subseteq Int
  BY DEF Units
<1> QED
  BY <1>1, SeqMonotonic

LEMMA AddToStream ==
  ASSUME NEW w \in Seq(Int), NEW b \in Seq(Int), NEW m \in Seq(Int)
  PROVE  w \o (b \o m) = (w \o b) \o m
BY SMTT(30)

LEMMA MoveInStream ==
  ASSUME NEW w \in Seq(Units), NEW g \in Seq(Units), NEW u \in Seq(Units)
  PROVE  (w \o g) \o u = w \o (g \o u)
BY SMTT(30)

LEMMA StreamStep ==
  ASSUME Workers = {}, Typed, Bounded, StreamIntegrity, [Next]_vars
  PROVE  StreamIntegrity'
<1>a. /\ sock.wire \in Seq(Units) /\ conn.bufOut \in Seq(Units) /\ hist.sends \in Nat
      /\ NextMessage \in Seq(Int)
  BY Consts, SMTT(30) DEF Typed, SockSet, ConnSet, HistSet, NextMessage, Message
<1>1. CASE Kept
  BY <1>1 DEF Kept, StreamIntegrity
<1>2. CASE Appended
  <2>1. sock.wire \in Seq(Int) /\ conn.bufOut \in Seq(Int)
    BY <1>a, UnitsAreInts
  <2>2. sock.wire \o (conn.bufOut \o NextMessage)
          = (sock.wire \o conn.bufOut) \o NextMessage
    BY <1>a, <2>1, AddToStream, Zenon
  <2> QED
    BY <1>2, <1>a, <2>2, MessagesFollow DEF Appended, StreamIntegrity, NextMessage
<1>3. CASE Moved
  <2>1. PICK gone \in Seq(Units) : /\ gone = SubSeq(conn.bufOut, 1, Accepts)
                                  /\ Unsent \in Seq(Units)
                                  /\ conn.bufOut = gone \o Unsent
    BY SendFacts
  <2>2. (sock.wire \o gone) \o Unsent = sock.wire \o (gone \o Unsent)
    <3>1. sock.wire \in Seq(Units) /\ gone \in Seq(Units) /\ Unsent \in Seq(Units)
      BY <1>a, <2>1
    <3> QED
      BY <3>1, MoveInStream, Zenon
  <2>3. sock'.wire \o conn'.bufOut = sock.wire \o conn.bufOut /\ hist'.sends = hist.sends
    BY <1>3, <2>1, <2>2 DEF Moved
  <2> QED
    BY <2>3 DEF StreamIntegrity
<1> QED
  BY <1>1, <1>2, <1>3, StreamEffects

\* Spec => []StreamIntegrity: when only the loop thread sends, what sendString
\* was given reaches the socket or waits, each unit once and in order, through
\* partial writes and sends nested in callbacks to any depth
\* (TcpConnection.cpp:56-103, 134-169, 205-229).  A worker's append is two
\* steps and may undo the loop's.
THEOREM StreamIsWhole ==
  ASSUME Workers = {}
  PROVE  Spec => []StreamIntegrity
<1>1. Init => Typed /\ Bounded /\ StreamIntegrity
  <2> SUFFICES ASSUME Init PROVE StreamIntegrity
    BY InitTypes
  <2>1. sock.wire = <<>> /\ conn.bufOut = <<>> /\ hist.sends * MsgSize = 0
    BY Consts DEF Init
  <2>2. [i \in 1 .. 0 |-> i] = <<>>
    OBVIOUS
  <2> QED
    BY <2>1, <2>2 DEF StreamIntegrity
<1>2. Typed /\ Bounded /\ StreamIntegrity /\ [Next]_vars
        => (Typed /\ Bounded /\ StreamIntegrity)'
  BY StepTypes, StreamStep
<1> QED
  BY <1>1, <1>2, PTL DEF Spec

-----------------------------------------------------------------------------
(* A connection with room in the socket for all that is sent                 *)

Roomy == Workers = {} /\ MaxSends * MsgSize <= SndCap

\* Why a connection may close itself; that a read would return something.
Cause == sock.eos # "open" \/ hist.shutDowns > 0
Readable == sock.in > 0 \/ sock.eos # "open"

Called(frame) == \E i \in DOMAIN loop.stack : loop.stack[i] = frame

\* A send is the innermost call and has something to send; a read finds
\* something; closing has a cause.
CallsSound ==
  /\ \A i \in DOMAIN loop.stack : loop.stack[i] = "send" => i = 1 /\ conn.bufOut # <<>>
  /\ Called("read") => loop.stack = <<"read">> /\ ~loop.active /\ Readable
  /\ ~Called("write")
  /\ Called("close") => Cause
  /\ Called("shutDown") => hist.shutDowns > 0

TaskSound(task) ==
  task # "sendInLoop" /\ (task = "shutDownInLoop" => hist.shutDowns > 0)
TasksSound == /\ \A i \in DOMAIN loop.tasks : TaskSound(loop.tasks[i])
              /\ \A i \in DOMAIN loop.batch : TaskSound(loop.batch[i])
EventsSound == /\ "OUT" \notin conn.events /\ "OUT" \notin epoll.interest
               /\ loop.active /\ "IN" \in conn.events => Readable
EndSound == conn.disc \/ conn.half => Cause
Fits == sock.out <= Len(sock.wire)

RoomyInv == CallsSound /\ TasksSound /\ EventsSound /\ EndSound /\ Fits

\* The end of the stream stays, what is unread stays until handleRead, and
\* calls of shutDown are not forgotten.
LEMMA CausesStay ==
  ASSUME Typed, [Next]_vars
  PROVE  /\ sock.eos # "open" => sock'.eos # "open"
         /\ sock'.in >= sock.in \/ HandleRead
         /\ hist'.shutDowns >= hist.shutDowns
<1>a. sock \in SockSet /\ hist \in HistSet /\ sock.in \in Nat /\ hist.shutDowns \in Nat
  BY DEF Typed, SockSet, HistSet
<1>1. CASE UNCHANGED vars \/ Gone
  BY <1>1, <1>a DEF Gone, vars
<1>2. CASE SendInLoop \/ HandleWrite
  <2>1. SendSome \/ SendAll \/ SendNone \/ SendFails \/ SendKills
    BY <1>2, SendCases DEF SendInLoop, HandleWrite
  <2>2. sock'.in = sock.in /\ (sock'.eos = sock.eos \/ sock'.eos = "dead")
    BY <1>a, <2>1 DEF SendSome, SendAll, SendNone, SendFails, SendKills, Written, SockSet
  <2> QED
    BY <1>2, <1>a, <2>2 DEF SendInLoop, HandleWrite
<1>3. CASE HandleRead
  <2>1. sock'.eos = sock.eos \/ sock'.eos = "dead"
    BY <1>3, <1>a DEF HandleRead, Recv, SockSet
  <2>2. hist' = hist
    BY <1>3 DEF HandleRead
  <2> QED
    BY <1>3, <1>a, <2>1, <2>2
<1>4. CASE HandleClose \/ HandleError \/ ShutDownInLoop
  <2>1. sock' = sock
    BY <1>4 DEF HandleClose, HandleError, ShutDownInLoop
  <2>2. hist'.shutDowns = hist.shutDowns
    BY <1>a, <1>4 DEF HandleClose, HandleError, ShutDownInLoop, Disconnect, HistSet
  <2> QED
    BY <1>a, <2>1, <2>2
<1>5. CASE AfterSend \/ AddChannelToLoop \/ HandleEvent \/ SwapTasks \/ PollOther
           \/ Consume \/ PollReports \/ RunTask \/ EndBatch
  <2>1. sock' = sock /\ hist' = hist
    BY <1>5 DEF AfterSend, AddChannelToLoop, HandleEvent, SwapTasks, PollOther,
                Consume, PollReports, RunTask, EndBatch
  <2> QED
    BY <1>a, <2>1
<1>6. CASE Accepted \/ OnSendComplete
  <2>1. hist'.shutDowns = hist.shutDowns
    BY <1>a, <1>6 DEF Accepted, OnSendComplete, SendString, HistSet
  <2> QED
    BY <1>6, <1>a, <2>1 DEF Accepted, OnSendComplete
<1>7. CASE OnMessage
  <2> DEFINE h == [hist EXCEPT !.delivered = @ + conn.bufIn]
  <2>1. h \in [sends : Nat, received : Nat, delivered : {h.delivered}, shutDowns : Nat,
               closed : Nat, errors : Nat, cleanups : Nat]
        /\ h.shutDowns = hist.shutDowns
    BY <1>a DEF HistSet
  <2>2. hist' = h \/ hist' = [h EXCEPT !.sends = @ + 1]
    BY <1>7 DEF OnMessage
  <2> HIDE DEF h
  <2>3. hist'.shutDowns = hist.shutDowns
    BY <2>1, <2>2
  <2> QED
    BY <1>7, <1>a, <2>3 DEF OnMessage
<1>8. CASE OtherHandler \/ ShutDown
  <2>1. hist'.shutDowns \in {hist.shutDowns, hist.shutDowns + 1}
    BY <1>a, <1>8 DEF OtherHandler, ShutDown, HistSet
  <2> QED
    BY <1>8, <1>a, <2>1 DEF OtherHandler, ShutDown
<1>9. CASE Peer
  <2>1. sock'.in \in {sock.in, sock.in + 1}
    BY <1>a, <1>9 DEF Peer, PeerSend, PeerFin, PeerRst, PeerDrain, SockSet
  <2>2. sock.eos # "open" => sock'.eos # "open"
    BY <1>a, <1>9 DEF Peer, PeerSend, PeerFin, PeerRst, PeerDrain, SockSet
  <2>3. hist'.shutDowns = hist.shutDowns
    BY <1>a, <1>9 DEF Peer, PeerSend, PeerFin, PeerRst, PeerDrain, HistSet
  <2> QED
    BY <1>a, <2>1, <2>2, <2>3
<1>10. ASSUME NEW w \in Workers, WorkerStep(w)
       PROVE  /\ sock.eos # "open" => sock'.eos # "open"
              /\ sock'.in >= sock.in
              /\ hist'.shutDowns >= hist.shutDowns
  <2>1. sock' = sock
    BY <1>10 DEF WorkerStep, AppendRead, AppendWrite, EndAsync, PostSend, Release
  <2>2. hist' = hist \/ hist' = [hist EXCEPT !.sends = @ + 1]
    BY <1>10 DEF WorkerStep, AppendRead, AppendWrite, EndAsync, PostSend, Release
  <2>3. hist'.shutDowns = hist.shutDowns
    BY <1>a, <2>2 DEF HistSet
  <2> QED
    BY <1>a, <2>1, <2>3
<1> QED
  BY <1>1, <1>2, <1>3, <1>4, <1>5, <1>6, <1>7, <1>8, <1>9, <1>10
     DEF Next, Handler, LoopStep

LEMMA RoomLeft ==
  ASSUME NEW a \in Nat, NEW b \in Nat, NEW c \in Nat, NEW o \in Nat,
         a + b <= c, o <= a
  PROVE  b <= c - o
OBVIOUS

LEMMA Lengths ==
  ASSUME NEW s \in Seq(Units), NEW t \in Seq(Units)
  PROVE  Len(s \o t) = Len(s) + Len(t) /\ Len(s) \in Nat /\ Len(t) \in Nat
OBVIOUS

LEMMA TakenLength ==
  ASSUME NEW s \in Seq(Units), NEW n \in Nat, n <= Len(s)
  PROVE  Len(SubSeq(s, 1, n)) = n
<1>1. Len(s) \in Nat /\ \A i \in 1 .. n : s[i] \in Units
  OBVIOUS
<1> QED
  BY <1>1, SubSeqProperties

\* All that waits fits.
LEMMA RoomForAll ==
  ASSUME Roomy, Typed, Bounded, StreamIntegrity, Fits
  PROVE  Accepts = Len(conn.bufOut) /\ Unsent = <<>>
<1>a. /\ sock.wire \in Seq(Units) /\ conn.bufOut \in Seq(Units) /\ hist.sends \in Nat
      /\ sock.out \in Nat
  BY DEF Typed, SockSet, ConnSet, HistSet
<1>b. Len(sock.wire) \in Nat /\ Len(conn.bufOut) \in Nat
  BY <1>a
<1>1. hist.sends <= MaxSends
  BY <1>a, SendersIn, Consts DEF Bounded
<1>2. hist.sends * MsgSize <= SndCap /\ hist.sends * MsgSize \in Nat
  <2>1. PICK d \in Nat : MaxSends = hist.sends + d
    <3>1. MaxSends - hist.sends \in Nat /\ MaxSends = hist.sends + (MaxSends - hist.sends)
      BY <1>1, <1>a, Consts
    <3> QED
      BY <3>1
  <2>2. MaxSends * MsgSize = hist.sends * MsgSize + d * MsgSize
    BY <1>a, <2>1, Consts
  <2>3. hist.sends * MsgSize \in Nat /\ d * MsgSize \in Nat
    BY <1>a, Consts
  <2> QED
    BY <2>2, <2>3, Consts DEF Roomy
<1>3. Len(sock.wire) + Len(conn.bufOut) = hist.sends * MsgSize
  <2>1. Len(sock.wire \o conn.bufOut) = Len(sock.wire) + Len(conn.bufOut)
    BY <1>a
  <2>2. Len([i \in 1 .. hist.sends * MsgSize |-> i]) = hist.sends * MsgSize
    BY <1>2
  <2> QED
    BY <2>1, <2>2 DEF StreamIntegrity
<1>4. Len(conn.bufOut) <= SndCap - sock.out
  <2>1. Len(sock.wire) + Len(conn.bufOut) <= SndCap
    BY <1>2, <1>3
  <2>2. sock.out <= Len(sock.wire) /\ SndCap \in Nat
    BY Consts DEF Fits
  <2> QED
    BY <1>a, <1>b, <2>1, <2>2, RoomLeft
<1>5. Accepts = Len(conn.bufOut)
  BY <1>b, <1>4 DEF Accepts, SmallerOf
<1>6. Unsent = <<>>
  BY <1>a, <1>b, <1>5 DEF Unsent
<1> QED
  BY <1>5, <1>6

\* A send of such a connection moves all that waits, or meets a reset.
LEMMA RoomySend ==
  ASSUME Roomy, Typed, Bounded, StreamIntegrity, RoomyInv, SendInLoop \/ HandleWrite
  PROVE  /\ SendInLoop /\ ~HandleWrite
         /\ SendAll \/ SendFails \/ SendKills
<1>1. loop.stack # <<>> /\ loop.stack \in Seq(Frames)
  BY DEF SendInLoop, HandleWrite, Running, Typed, LoopSet
<1>2. 1 \in DOMAIN loop.stack /\ Head(loop.stack) = loop.stack[1]
  BY <1>1
<1>3. ~HandleWrite
  BY <1>2 DEF RoomyInv, CallsSound, Called, HandleWrite, Running
<1>4. conn.bufOut # <<>> /\ SendOrWrite
  BY <1>2, <1>3 DEF RoomyInv, CallsSound, SendInLoop, Running
<1>5. Accepts = Len(conn.bufOut) /\ Unsent = <<>> /\ conn.bufOut \in Seq(Units)
  BY RoomForAll DEF RoomyInv, Typed, ConnSet
<1>6. Accepts # 0
  BY <1>4, <1>5
<1>7. SendResult # "zero"
  BY <1>6 DEF SendResult
<1> QED
  BY <1>3, <1>4, <1>5, <1>7, SendCases DEF SendNone, SendSome

LEMMA FitsStep ==
  ASSUME Roomy, Typed, Bounded, StreamIntegrity, RoomyInv, [Next]_vars
  PROVE  Fits'
<1>a. sock \in SockSet /\ sock.out \in Nat /\ sock.wire \in Seq(Units)
      /\ Len(sock.wire) \in Nat /\ sock.out <= Len(sock.wire)
  BY DEF Typed, SockSet, RoomyInv, Fits
<1>b. ASSUME sock'.out <= sock.out, sock'.out \in Nat, sock'.wire = sock.wire
      PROVE  Fits'
  BY <1>a, <1>b DEF Fits
<1>1. CASE SendInLoop \/ HandleWrite
  <2>1. SendAll \/ SendFails \/ SendKills
    BY <1>1, RoomySend
  <2>2. CASE SendAll
    <3>1. sock'.out = sock.out + Accepts
          /\ sock'.wire = sock.wire \o SubSeq(conn.bufOut, 1, Accepts)
      BY <2>2, WrittenTypes DEF SendAll
    <3>2. PICK n \in Nat : n = Accepts
      BY SendFacts
    <3>3. PICK g \in Seq(Units) : g = SubSeq(conn.bufOut, 1, n) /\ Len(g) = n
      <4>1. SubSeq(conn.bufOut, 1, n) \in Seq(Units) /\ n <= Len(conn.bufOut)
            /\ conn.bufOut \in Seq(Units)
        BY <3>2, SendFacts DEF Typed, ConnSet
      <4> QED
        BY <4>1, TakenLength
    <3>4. sock'.out = sock.out + n /\ sock'.wire = sock.wire \o g
      BY <3>1, <3>2, <3>3
    <3>5. Len(sock'.wire) = Len(sock.wire) + n
      BY <1>a, <3>3, <3>4, Lengths
    <3> QED
      BY <1>a, <3>4, <3>5 DEF Fits
  <2>3. CASE SendFails \/ SendKills
    <3>1. sock'.out = sock.out /\ sock'.wire = sock.wire
      BY <1>a, <2>3 DEF SendFails, SendKills, SockSet
    <3> QED
      BY <1>a, <1>b, <3>1
  <2> QED
    BY <2>1, <2>2, <2>3
<1>2. CASE HandleRead
  <2>1. sock'.out = sock.out /\ sock'.wire = sock.wire
    BY <1>a, <1>2 DEF HandleRead, Recv, SockSet
  <2> QED
    BY <1>a, <1>b, <2>1
<1>3. CASE Peer
  <2>1. sock'.out \in {sock.out, 0} \/ (sock.out > 0 /\ sock'.out = sock.out - 1)
    BY <1>a, <1>3 DEF Peer, PeerSend, PeerFin, PeerRst, PeerDrain, SockSet
  <2>2. sock'.wire = sock.wire
    BY <1>a, <1>3 DEF Peer, PeerSend, PeerFin, PeerRst, PeerDrain, SockSet
  <2>3. sock'.out <= sock.out /\ sock'.out \in Nat
    BY <1>a, <2>1
  <2> QED
    BY <1>b, <2>2, <2>3
<1>4. CASE ~(SendInLoop \/ HandleWrite \/ HandleRead \/ Peer)
  <2>1. sock' = sock
    <3>1. CASE UNCHANGED vars \/ Gone
      BY <3>1 DEF Gone, vars
    <3>2. CASE Handler
      BY <1>4, <3>2 DEF Handler, HandleClose, HandleError, ShutDownInLoop, AfterSend,
         Accepted, AddChannelToLoop, OnMessage, Consume, OnSendComplete
    <3>3. CASE LoopStep \/ PollOther \/ OtherHandler \/ ShutDown
      BY <3>3 DEF LoopStep, PollReports, HandleEvent, SwapTasks, RunTask, EndBatch,
         PollOther, OtherHandler, ShutDown
    <3> QED
      BY <1>4, <3>1, <3>2, <3>3 DEF Next, Roomy
  <2> QED
    BY <1>a, <1>b, <2>1
<1> QED
  BY <1>1, <1>2, <1>3, <1>4

\* A handler only calls, and posts what is no send and no shutDown.
Posts == {<<>>, <<"cleanup">>, <<"addChannel">>}

LEMMA ReturnLoop ==
  ASSUME Typed, NEW calls, NEW posts \in Posts, Return(calls, posts)
  PROVE  /\ loop'.active = loop.active /\ loop'.batch = loop.batch
         /\ \E p \in Posts : loop'.tasks = loop.tasks \o p
BY DEF Typed, LoopSet, Return

LEMMA HandlerLoop ==
  ASSUME Typed, Handler
  PROVE  /\ loop'.active = loop.active /\ loop'.batch = loop.batch
         /\ \E p \in Posts : loop'.tasks = loop.tasks \o p
<1>a. loop.tasks \in Seq(Tasks) /\ loop.tasks = loop.tasks \o <<>>
  BY DEF Typed, LoopSet
<1>b. <<>> \in Posts /\ <<"cleanup">> \in Posts /\ <<"addChannel">> \in Posts
  BY DEF Posts
<1>1. CASE SendInLoop \/ HandleWrite
  <2>1. SendSome \/ SendAll \/ SendNone \/ SendFails \/ SendKills
    BY <1>1, SendCases DEF SendInLoop, HandleWrite
  <2>2. CASE SendKills
    BY <1>a, <1>b, <2>2 DEF SendKills
  <2>3. CASE ~SendKills
    <3>1. PICK calls : Return(calls, <<>>)
      BY <2>1, <2>3 DEF SendSome, SendAll, SendNone, SendFails
    <3> QED
      BY <1>b, <3>1, ReturnLoop
  <2> QED
    BY <2>2, <2>3
<1>2. CASE HandleRead \/ AfterSend \/ Consume
  <2>1. PICK calls : Return(calls, <<>>)
    BY <1>2 DEF HandleRead, AfterSend, Consume
  <2> QED
    BY <1>b, <2>1, ReturnLoop
<1>3. CASE HandleClose \/ HandleError \/ ShutDownInLoop
  <2>1. (\E c : Return(c, <<>>)) \/ (\E c : Return(c, <<"cleanup">>))
    <3>1. CASE HandleClose
      <4>1. CASE conn.disc
        BY <3>1, <4>1 DEF HandleClose
      <4>2. CASE ~conn.disc /\ Pending
        BY <3>1, <4>2 DEF HandleClose
      <4>3. CASE ~conn.disc /\ ~Pending
        BY <3>1, <4>3 DEF HandleClose, Disconnect
      <4> QED
        BY <4>1, <4>2, <4>3
    <3>2. CASE HandleError \/ ShutDownInLoop
      BY <3>2 DEF HandleError, ShutDownInLoop, Disconnect
    <3> QED
      BY <1>3, <3>1, <3>2
  <2>2. CASE \E c : Return(c, <<>>)
    BY <1>b, <2>2, ReturnLoop
  <2>3. CASE \E c : Return(c, <<"cleanup">>)
    BY <1>b, <2>3, ReturnLoop
  <2> QED
    BY <2>1, <2>2, <2>3
<1>4. CASE Accepted \/ OnSendComplete
  <2>1. PICK calls : Return(calls, <<>>)
    BY <1>4 DEF Accepted, OnSendComplete, SendString
  <2> QED
    BY <1>b, <2>1, ReturnLoop
<1>5. CASE AddChannelToLoop
  BY <1>b, <1>5, ReturnLoop DEF AddChannelToLoop
<1>6. CASE OnMessage
  <2>1. PICK calls : Return(calls, <<>>)
    BY <1>6 DEF OnMessage
  <2> QED
    BY <1>b, <2>1, ReturnLoop
<1> QED
  BY <1>1, <1>2, <1>3, <1>4, <1>5, <1>6 DEF Handler

LEMMA TasksStep ==
  ASSUME Roomy, Typed, Bounded, TasksSound, [Next]_vars
  PROVE  TasksSound'
<1>a. /\ loop \in LoopSet /\ loop.tasks \in Seq(Tasks) /\ loop.batch \in Seq(Tasks)
      /\ hist.shutDowns \in Nat /\ hist'.shutDowns \in Nat
  BY StepTypes DEF Typed, LoopSet, HistSet
<1>b. hist'.shutDowns >= hist.shutDowns
  BY CausesStay
<1>c. \A t : TaskSound(t) => TaskSound(t)'
  BY <1>a, <1>b DEF TaskSound
<1>1. ASSUME loop'.batch = loop.batch, loop'.tasks = loop.tasks
      PROVE  TasksSound'
  BY <1>1, <1>c DEF TasksSound
<1>2. ASSUME loop'.batch = loop.batch, NEW t \in Tasks, TaskSound(t)',
             loop'.tasks = Append(loop.tasks, t)
      PROVE  TasksSound'
  <2>1. \A i \in DOMAIN loop'.tasks :
          loop'.tasks[i] = t \/ (i \in DOMAIN loop.tasks /\ loop'.tasks[i] = loop.tasks[i])
    BY <1>a, <1>2
  <2> QED
    BY <1>2, <1>c, <2>1 DEF TasksSound
<1>3. CASE Handler
  <2>1. PICK p \in Posts : loop'.tasks = loop.tasks \o p
    BY <1>3, HandlerLoop
  <2>2. loop'.batch = loop.batch
    BY <1>3, HandlerLoop
  <2>3. TaskSound("cleanup")' /\ TaskSound("addChannel")'
        /\ "cleanup" \in Tasks /\ "addChannel" \in Tasks
    BY DEF TaskSound, Tasks
  <2>4. \/ loop'.tasks = loop.tasks \/ loop'.tasks = Append(loop.tasks, "cleanup")
        \/ loop'.tasks = Append(loop.tasks, "addChannel")
    BY <1>a, <2>1, SMTT(30) DEF Posts
  <2>5. CASE loop'.tasks = loop.tasks
    BY <1>1, <2>2, <2>5, Zenon
  <2>6. CASE loop'.tasks = Append(loop.tasks, "cleanup")
    BY <1>2, <2>2, <2>3, <2>6, Zenon
  <2>7. CASE loop'.tasks = Append(loop.tasks, "addChannel")
    BY <1>2, <2>2, <2>3, <2>7, Zenon
  <2> QED
    BY <2>4, <2>5, <2>6, <2>7, Zenon
<1>4. CASE SwapTasks
  <2>1. loop'.batch = loop.tasks /\ loop'.tasks = <<>>
    BY <1>a, <1>4 DEF SwapTasks, LoopSet
  <2> QED
    BY <1>c, <2>1 DEF TasksSound
<1>5. CASE RunTask
  <2>1. loop'.batch = Tail(loop.batch) /\ loop'.tasks = loop.tasks /\ loop.batch # <<>>
    BY <1>a, <1>5 DEF RunTask, LoopSet
  <2>2. \A i \in DOMAIN loop'.batch :
          i + 1 \in DOMAIN loop.batch /\ loop'.batch[i] = loop.batch[i + 1]
    BY <1>a, <2>1
  <2> QED
    BY <1>c, <2>1, <2>2 DEF TasksSound
<1>6. CASE ShutDown
  <2>1. loop'.tasks = Append(loop.tasks, "shutDownInLoop") /\ loop'.batch = loop.batch
    BY <1>a, <1>6 DEF ShutDown, LoopSet
  <2>2. hist'.shutDowns = hist.shutDowns + 1
    BY <1>6 DEF ShutDown, Typed, HistSet
  <2>3. TaskSound("shutDownInLoop")' /\ "shutDownInLoop" \in Tasks
    BY <1>a, <2>2 DEF TaskSound, Tasks
  <2> QED
    BY <1>2, <2>1, <2>3
<1>7. CASE PollReports \/ HandleEvent \/ EndBatch \/ PollOther \/ OtherHandler \/ Peer
           \/ Gone \/ UNCHANGED vars
  <2>1. loop'.tasks = loop.tasks /\ loop'.batch = loop.batch
    <3>1. CASE PollReports \/ HandleEvent \/ EndBatch \/ PollOther \/ OtherHandler
      BY <1>a, <3>1 DEF PollReports, HandleEvent, EndBatch, PollOther, OtherHandler, LoopSet
    <3>2. CASE Peer \/ Gone \/ UNCHANGED vars
      BY <3>2 DEF Peer, PeerSend, PeerFin, PeerRst, PeerDrain, Gone, vars
    <3> QED
      BY <1>7, <3>1, <3>2
  <2> QED
    BY <1>1, <2>1
<1> QED
  BY <1>3, <1>4, <1>5, <1>6, <1>7 DEF Next, LoopStep, Roomy

LEMMA EndStep ==
  ASSUME Typed, Bounded, CallsSound, EndSound, Workers = {}, [Next]_vars
  PROVE  EndSound'
<1>a. /\ conn \in ConnSet /\ loop.stack \in Seq(Frames)
      /\ hist.shutDowns \in Nat /\ hist'.shutDowns \in Nat
  BY StepTypes DEF Typed, HistSet, LoopSet
<1>b. Cause => Cause'
  BY <1>a, CausesStay DEF Cause
<1>c. Running("close") \/ Running("shutDown") => Cause
  <2>1. loop.stack # <<>> => 1 \in DOMAIN loop.stack /\ Head(loop.stack) = loop.stack[1]
    BY <1>a
  <2> QED
    BY <2>1 DEF Running, CallsSound, Called, Cause
<1>1. conn'.disc = conn.disc \/ Running("close") \/ Running("shutDown")
  BY CloseStep
<1>2. conn'.half = conn.half \/ Running("close")
  <2>1. CASE UNCHANGED vars \/ Gone
    BY <2>1 DEF Gone, vars
  <2>2. CASE SendInLoop \/ HandleWrite
    <3>1. SendSome \/ SendAll \/ SendNone \/ SendFails \/ SendKills
      BY <2>2, SendCases DEF SendInLoop, HandleWrite
    <3> QED
      BY <1>a, <3>1 DEF SendSome, SendAll, SendNone, SendFails, SendKills, ConnSet
  <2>3. CASE HandleClose
    BY <2>3 DEF HandleClose
  <2>4. CASE HandleRead \/ HandleError \/ ShutDownInLoop \/ AfterSend \/ Accepted
             \/ AddChannelToLoop \/ Consume \/ OnSendComplete
    BY <1>a, <2>4 DEF HandleRead, Recv, HandleError, ShutDownInLoop, Disconnect,
       AfterSend, Accepted, SendString, AddChannelToLoop, Consume, Consumed,
       OnSendComplete, ConnSet
  <2>5. CASE OnMessage
    <3> DEFINE c == IF ConsumeFirst THEN Consumed(conn) ELSE conn
    <3>1. c \in ConnSet /\ c.half = conn.half
      BY <1>a DEF Consumed, ConnSet
    <3>2. conn' \in {c, [c EXCEPT !.bufOut = @ \o NextMessage]}
      BY <2>5 DEF OnMessage
    <3> HIDE DEF c
    <3> QED
      BY <3>1, <3>2 DEF ConnSet
  <2>6. CASE LoopStep \/ PollOther \/ OtherHandler \/ ShutDown
    BY <1>a, <2>6 DEF LoopStep, PollReports, HandleEvent, SwapTasks, RunTask,
       EndBatch, Destroy, PollOther, OtherHandler, ShutDown, ConnSet
  <2>7. CASE Peer
    BY <2>7 DEF Peer, PeerSend, PeerFin, PeerRst, PeerDrain
  <2> QED
    BY <2>1, <2>2, <2>3, <2>4, <2>5, <2>6, <2>7 DEF Next, Handler
<1> QED
  BY <1>b, <1>c, <1>1, <1>2 DEF EndSound

LEMMA EventsStep ==
  ASSUME Roomy, Typed, Bounded, StreamIntegrity, RoomyInv, [Next]_vars
  PROVE  EventsSound'
<1>a. /\ conn \in ConnSet /\ epoll \in EpollSet /\ loop \in LoopSet
      /\ loop.stack \in Seq(Frames)
      /\ sock.in \in Nat /\ sock'.in \in Nat
  BY StepTypes DEF Typed, LoopSet, SockSet
<1>b. /\ "OUT" \notin conn.events /\ "OUT" \notin epoll.interest
      /\ loop.active /\ "IN" \in conn.events => Readable
  BY DEF RoomyInv, EventsSound
<1>c. ~HandleRead => (Readable => Readable')
  BY <1>a, CausesStay DEF Readable
<1>1. ASSUME ~HandleRead, loop'.active => loop.active,
             conn'.events \subseteq conn.events, epoll'.interest \subseteq epoll.interest
      PROVE  EventsSound'
  BY <1>1, <1>b, <1>c DEF EventsSound
<1>2. CASE UNCHANGED vars \/ Gone
  BY <1>2, <1>b DEF Gone, vars, EventsSound, Readable
<1>3. CASE HandleRead
  <2>1. loop.stack # <<>> /\ Head(loop.stack) = "read"
    BY <1>3 DEF HandleRead, Running
  <2>2. Called("read")
    BY <1>a, <2>1 DEF Called
  <2>3. ~loop'.active
    BY <1>3, <2>2, HandlerLoop DEF RoomyInv, CallsSound, Handler
  <2>4. conn'.events = conn.events
    BY <1>a, <1>3 DEF HandleRead, Recv, ConnSet
  <2>5. epoll' = epoll
    BY <1>3 DEF HandleRead
  <2> QED
    BY <1>b, <2>3, <2>4, <2>5 DEF EventsSound
<1>4. CASE Handler /\ ~HandleRead
  <2>1. loop'.active = loop.active
    BY <1>4, HandlerLoop
  <2>2. CASE SendInLoop \/ HandleWrite
    <3>1. SendAll \/ SendFails \/ SendKills
      BY <2>2, RoomySend
    <3>2. conn'.events \subseteq conn.events
      <4>1. CASE SendAll
        <5>1. conn'.events = conn.events \ {"OUT"}
          BY <1>a, <4>1 DEF SendAll, ConnSet
        <5> QED
          BY <5>1
      <4>2. CASE SendFails \/ SendKills
        BY <4>2 DEF SendFails, SendKills
      <4> QED
        BY <3>1, <4>1, <4>2
    <3>3. epoll' = epoll
      BY <3>1 DEF SendAll, SendFails, SendKills
    <3> QED
      BY <1>1, <1>4, <2>1, <3>2, <3>3
  <2>3. CASE HandleClose \/ HandleError \/ ShutDownInLoop \/ AfterSend \/ Accepted
             \/ AddChannelToLoop \/ Consume \/ OnSendComplete
    <3>1. conn'.events = conn.events
      BY <1>a, <2>3 DEF HandleClose, HandleError, ShutDownInLoop, Disconnect,
         AfterSend, Accepted, SendString, AddChannelToLoop, Consume, Consumed,
         OnSendComplete, ConnSet
    <3>2. epoll' = epoll
      BY <2>3 DEF HandleClose, HandleError, ShutDownInLoop, AfterSend, Accepted,
         AddChannelToLoop, Consume, OnSendComplete
    <3> QED
      BY <1>1, <1>4, <2>1, <3>1, <3>2
  <2>4. CASE OnMessage
    <3> DEFINE c == IF ConsumeFirst THEN Consumed(conn) ELSE conn
    <3>1. c \in ConnSet /\ c.events = conn.events
      BY <1>a DEF Consumed, ConnSet
    <3>2. conn' \in {c, [c EXCEPT !.bufOut = @ \o NextMessage]}
      BY <2>4 DEF OnMessage, Roomy
    <3>3. epoll' = epoll
      BY <2>4 DEF OnMessage
    <3> HIDE DEF c
    <3>4. conn'.events = conn.events
      BY <3>1, <3>2 DEF ConnSet
    <3> QED
      BY <1>1, <1>4, <2>1, <3>3, <3>4
  <2> QED
    BY <1>4, <2>2, <2>3, <2>4 DEF Handler
<1>5. CASE PollReports
  <2>1. CASE Ready(sock, epoll.interest) # {}
    <3>1. conn'.events = Ready(sock, epoll.interest)
      BY <1>a, <1>5, <2>1 DEF PollReports, ConnSet
    <3>2. sock' = sock /\ epoll'.interest = epoll.interest
      BY <1>a, <1>5, <2>1 DEF PollReports, EpollSet
    <3>3. "OUT" \notin Ready(sock, epoll.interest)
          /\ ("IN" \in Ready(sock, epoll.interest) => Readable)
      BY <1>b DEF Ready, Readable
    <3> QED
      BY <1>b, <3>1, <3>2, <3>3 DEF EventsSound, Readable
  <2>2. CASE Ready(sock, epoll.interest) = {}
    <3>1. epoll'.interest = epoll.interest
      BY <1>a, <1>5, <2>2 DEF PollReports, EpollSet
    <3>2. conn' = conn /\ loop' = loop /\ sock' = sock
      BY <1>5, <2>2 DEF PollReports
    <3> QED
      BY <1>b, <3>1, <3>2 DEF EventsSound, Readable
  <2> QED
    BY <2>1, <2>2
<1>6. CASE HandleEvent \/ SwapTasks \/ PollOther \/ OtherHandler \/ ShutDown
  <2>1. loop'.active => loop.active
    BY <1>a, <1>6 DEF HandleEvent, SwapTasks, PollOther, OtherHandler, ShutDown, LoopSet
  <2>2. conn'.events = conn.events
    BY <1>a, <1>6 DEF HandleEvent, SwapTasks, PollOther, OtherHandler, ShutDown, ConnSet
  <2>3. epoll' = epoll
    BY <1>6 DEF HandleEvent, SwapTasks, PollOther, OtherHandler, ShutDown
  <2>4. sock' = sock
    BY <1>6 DEF HandleEvent, SwapTasks, PollOther, OtherHandler, ShutDown
  <2> QED
    BY <1>b, <2>1, <2>2, <2>3, <2>4 DEF EventsSound, Readable
<1>7. CASE RunTask
  <2>1. loop'.active = loop.active
    BY <1>a, <1>7 DEF RunTask, LoopSet
  <2>2. conn'.events = conn.events /\ sock' = sock
    BY <1>a, <1>7 DEF RunTask, ConnSet
  <2>3. epoll' = epoll \/ epoll'.interest = conn.events \intersect {"IN", "OUT", "ET"}
    <3>1. EpollCtl(FALSE, conn.events, sock) \/ UNCHANGED <<epoll, exited>>
      BY <1>7 DEF RunTask
    <3> QED
      BY <3>1 DEF EpollCtl
  <2> QED
    BY <1>b, <2>1, <2>2, <2>3 DEF EventsSound, Readable
<1>8. CASE EndBatch
  <2>1. loop'.active = loop.active
    BY <1>a, <1>8 DEF EndBatch, LoopSet
  <2>2. conn'.events = conn.events /\ sock' = sock
    BY <1>a, <1>8 DEF EndBatch, Destroy, ConnSet
  <2>3. epoll'.interest = epoll.interest
    BY <1>a, <1>8 DEF EndBatch, Destroy, EpollSet
  <2> QED
    BY <1>b, <2>1, <2>2, <2>3 DEF EventsSound, Readable
<1>9. CASE Peer
  <2>1. loop' = loop /\ conn' = conn
    BY <1>9 DEF Peer, PeerSend, PeerFin, PeerRst, PeerDrain
  <2>2. epoll'.interest = epoll.interest
    BY <1>a, <1>9 DEF Peer, PeerSend, PeerFin, PeerRst, PeerDrain, Notice, EpollSet
  <2>3. sock'.in >= sock.in /\ (sock.eos # "open" => sock'.eos # "open")
    <3>1. sock \in SockSet
      BY DEF Typed
    <3>2. sock'.in \in {sock.in, sock.in + 1}
      BY <1>9, <3>1 DEF Peer, PeerSend, PeerFin, PeerRst, PeerDrain, SockSet
    <3> QED
      BY <1>a, <3>2, CausesStay
  <2>4. Readable => Readable'
    BY <1>a, <2>3 DEF Readable
  <2> QED
    BY <1>b, <2>1, <2>2, <2>4 DEF EventsSound
<1> QED
  BY <1>2, <1>3, <1>4, <1>5, <1>6, <1>7, <1>8, <1>9 DEF Next, LoopStep, Roomy

\* The calls that a handler may make, and what it owes for them.
LEMMA CallsReturn ==
  ASSUME Typed, CallsSound, loop.stack # <<>>, NEW calls,
         loop'.stack = calls \o Tail(loop.stack), Cause => Cause',
         hist'.shutDowns >= hist.shutDowns, hist.shutDowns \in Nat,
         hist'.shutDowns \in Nat,
         \/ calls \in {<<>>, <<"message">>, <<"error">>, <<"add">>, <<"consume">>,
                       <<"complete", "afterSend">>}
         \/ calls = <<"close">> /\ Cause'
         \/ calls \in {<<"send">>, <<"send", "add">>, <<"send", "consume">>}
            /\ conn'.bufOut # <<>>
  PROVE  CallsSound'
<1>a. loop.stack \in Seq(Frames)
  BY DEF Typed, LoopSet
<1>b. /\ calls \in Seq(Frames) /\ Len(calls) \in Nat
      /\ \A i \in 1 .. Len(calls) :
           /\ calls[i] = "send" => i = 1 /\ conn'.bufOut # <<>>
           /\ calls[i] = "close" => Cause'
           /\ calls[i] \notin {"read", "write", "shutDown"}
  <2>1. CASE calls = <<>>
    BY <2>1
  <2>2. CASE calls \in {<<"message">>, <<"error">>, <<"add">>, <<"consume">>}
    BY <2>2, SMTT(30) DEF Frames
  <2>3. CASE calls = <<"complete", "afterSend">>
    BY <2>3 DEF Frames
  <2>4. CASE calls = <<"close">> /\ Cause'
    BY <2>4 DEF Frames
  <2>5. CASE calls = <<"send">> /\ conn'.bufOut # <<>>
    BY <2>5 DEF Frames
  <2>6. CASE calls = <<"send", "add">> /\ conn'.bufOut # <<>>
    BY <2>6 DEF Frames
  <2>7. CASE calls = <<"send", "consume">> /\ conn'.bufOut # <<>>
    BY <2>7 DEF Frames
  <2> QED
    BY <2>1, <2>2, <2>3, <2>4, <2>5, <2>6, <2>7
<1>1. \A i \in DOMAIN loop'.stack :
         \/ i \in 1 .. Len(calls) /\ loop'.stack[i] = calls[i]
         \/ \E j \in 2 .. Len(loop.stack) : loop'.stack[i] = loop.stack[j]
  <2> TAKE i \in DOMAIN loop'.stack
  <2>1. Tail(loop.stack) \in Seq(Frames) /\ Len(Tail(loop.stack)) = Len(loop.stack) - 1
        /\ \A k \in 1 .. Len(loop.stack) - 1 : Tail(loop.stack)[k] = loop.stack[k + 1]
    BY <1>a
  <2>2. i \in 1 .. Len(calls) + Len(loop.stack) - 1 /\ Len(loop.stack) \in Nat
    BY <1>a, <1>b, <2>1
  <2>3. CASE i <= Len(calls)
    BY <1>a, <1>b, <2>1, <2>2, <2>3
  <2>4. CASE i > Len(calls)
    <3>1. i - Len(calls) \in 1 .. Len(loop.stack) - 1
      BY <1>b, <2>2, <2>4, SMTT(30)
    <3>2. loop'.stack[i] = Tail(loop.stack)[i - Len(calls)]
      BY <1>a, <1>b, <2>1, <2>2, <2>4, <3>1
    <3>3. i - Len(calls) + 1 \in 2 .. Len(loop.stack)
      BY <1>b, <2>2, <3>1, SMTT(30)
    <3> QED
      BY <2>1, <3>1, <3>2, <3>3
  <2> QED
    BY <1>b, <2>2, <2>3, <2>4, SMTT(30)
<1>2. \A j \in 2 .. Len(loop.stack) :
         /\ j \in DOMAIN loop.stack
         /\ loop.stack[j] \notin {"send", "read", "write"}
         /\ loop.stack[j] = "close" => Cause'
         /\ loop.stack[j] = "shutDown" => hist'.shutDowns > 0
  <2> TAKE j \in 2 .. Len(loop.stack)
  <2>1. j \in DOMAIN loop.stack /\ j # 1 /\ j \in Nat
    BY <1>a
  <2>2. loop.stack[j] \notin {"send", "write"}
    BY <2>1 DEF CallsSound, Called
  <2>3. loop.stack[j] # "read"
    <3>1. SUFFICES ASSUME loop.stack[j] = "read" PROVE FALSE
      OBVIOUS
    <3>2. loop.stack = <<"read">>
      BY <2>1, <3>1 DEF CallsSound, Called
    <3>3. Len(loop.stack) = 1
      BY <3>2
    <3> QED
      BY <3>3
  <2>4. loop.stack[j] = "close" => Cause'
    BY <2>1 DEF CallsSound, Called
  <2>5. loop.stack[j] = "shutDown" => hist'.shutDowns > 0
    BY <2>1 DEF CallsSound, Called
  <2>6. loop.stack[j] \notin {"send", "read", "write"}
    BY <2>2, <2>3, SMTT(30)
  <2> QED
    BY <2>1, <2>4, <2>5, <2>6, Zenon
<1>3. \A i \in DOMAIN loop'.stack :
         loop'.stack[i] = "send" => i = 1 /\ conn'.bufOut # <<>>
  BY <1>b, <1>1, <1>2
<1>4. ~ Called("read")' /\ ~ Called("write")'
  BY <1>b, <1>1, <1>2 DEF Called
<1>5. Called("close")' => Cause'
  BY <1>b, <1>1, <1>2 DEF Called
<1>6. Called("shutDown")' => hist'.shutDowns > 0
  BY <1>b, <1>1, <1>2 DEF Called
<1> QED
  BY <1>3, <1>4, <1>5, <1>6 DEF CallsSound

LEMMA SendFirst ==
  ASSUME NEW f \in Frames
  PROVE  <<"send">> \o <<f>> = <<"send", f>>
<1> DEFINE a == <<"send">>
           b == <<f>>
           t == <<"send", f>>
<1>1. a \in Seq(Frames) /\ Len(a) = 1 /\ a[1] = "send"
  BY DEF Frames
<1>2. b \in Seq(Frames) /\ Len(b) = 1 /\ b[1] = f
  OBVIOUS
<1>3. t \in Seq(Frames) /\ Len(t) = 2
  BY DEF Frames
<1>4. t[1] = "send" /\ t[2] = f
  OBVIOUS
<1> HIDE DEF a, b, t
<1>5. a \o b \in Seq(Frames) /\ Len(a \o b) = 2
  <2>1. a \o b \in Seq(Frames) /\ Len(a \o b) = Len(a) + Len(b)
    BY <1>1, <1>2, ConcatProperties
  <2> QED
    BY <1>1, <1>2, <2>1
<1>6. \A i \in 1 .. Len(a) + Len(b) : (a \o b)[i] = IF i <= Len(a) THEN a[i]
                                                                  ELSE b[i - Len(a)]
  BY <1>1, <1>2, ConcatProperties
<1>7. (a \o b)[1] = "send"
  BY <1>1, <1>2, <1>6
<1>8. (a \o b)[2] = f
  BY <1>1, <1>2, <1>6
<1>9. \A i \in 1 .. Len(a \o b) : (a \o b)[i] = t[i]
  <2>1. \A i \in 1 .. Len(a \o b) : i = 1 \/ i = 2
    BY <1>5
  <2> QED
    BY <1>4, <1>7, <1>8, <2>1
<1>10. a \o b = t
  BY <1>3, <1>5, <1>9, SeqEqual
<1> QED
  BY <1>10 DEF a, b, t

\* The calls of the loop itself.
LEMMA CallsAnew ==
  ASSUME \/ loop'.stack = <<>>
         \/ loop'.stack = <<"send">> /\ conn'.bufOut # <<>>
         \/ loop'.stack = <<"read">> /\ ~loop'.active /\ Readable'
         \/ loop'.stack = <<"shutDown">> /\ hist'.shutDowns > 0
  PROVE  CallsSound'
<1>1. CASE loop'.stack = <<>>
  BY <1>1 DEF CallsSound, Called
<1>2. CASE loop'.stack = <<"send">> /\ conn'.bufOut # <<>>
  BY <1>2 DEF CallsSound, Called
<1>3. CASE loop'.stack = <<"read">> /\ ~loop'.active /\ Readable'
  BY <1>3 DEF CallsSound, Called
<1>4. CASE loop'.stack = <<"shutDown">> /\ hist'.shutDowns > 0
  BY <1>4 DEF CallsSound, Called
<1> QED
  BY <1>1, <1>2, <1>3, <1>4

LEMMA CallsStay ==
  ASSUME CallsSound, loop'.stack = loop.stack, loop'.active => loop.active \/ loop.stack = <<>>,
         conn'.bufOut = conn.bufOut, Readable => Readable', Cause => Cause',
         hist.shutDowns > 0 => hist'.shutDowns > 0
  PROVE  CallsSound'
BY DEF CallsSound, Called

LEMMA CallsStep ==
  ASSUME Roomy, Typed, Bounded, StreamIntegrity, RoomyInv, [Next]_vars
  PROVE  CallsSound'
<1>a. /\ conn \in ConnSet /\ loop \in LoopSet /\ sock \in SockSet
      /\ loop.stack \in Seq(Frames) /\ conn.bufOut \in Seq(Units)
      /\ sock.in \in Nat /\ sock'.in \in Nat
      /\ hist.shutDowns \in Nat /\ hist'.shutDowns \in Nat
      /\ hist'.shutDowns >= hist.shutDowns
  BY StepTypes, CausesStay DEF Typed, LoopSet, SockSet, ConnSet, HistSet
<1>b. CallsSound /\ TasksSound /\ EventsSound /\ EndSound
  BY DEF RoomyInv
<1>c. Cause => Cause'
  BY <1>a, CausesStay DEF Cause
<1>d. ~HandleRead => (Readable => Readable')
  BY <1>a, CausesStay DEF Readable
<1>e. hist.shutDowns > 0 => hist'.shutDowns > 0
  BY <1>a
<1>h. ASSUME NEW calls, NEW posts, Return(calls, posts), loop.stack # <<>>,
             \/ calls \in {<<>>, <<"message">>, <<"error">>, <<"add">>, <<"consume">>,
                           <<"complete", "afterSend">>}
             \/ calls = <<"close">> /\ Cause'
             \/ calls \in {<<"send">>, <<"send", "add">>, <<"send", "consume">>}
                /\ conn'.bufOut # <<>>
      PROVE  CallsSound'
  <2>1. loop'.stack = calls \o Tail(loop.stack)
    BY <1>a, <1>h DEF Return, LoopSet
  <2> QED
    BY <1>a, <1>b, <1>c, <1>h, <2>1, CallsReturn
<1>s. ASSUME ~HandleRead, loop'.stack = loop.stack, loop'.active = loop.active,
             conn'.bufOut = conn.bufOut
      PROVE  CallsSound'
  BY <1>s, <1>b, <1>c, <1>d, <1>e, CallsStay
<1>m. ASSUME MaySend, NEW c \in ConnSet, c.bufOut = conn.bufOut,
             conn' = [c EXCEPT !.bufOut = @ \o NextMessage]
      PROVE  conn'.bufOut # <<>>
  <2>1. NextMessage \in Seq(Units) /\ Len(NextMessage) = MsgSize
    BY <1>m, MaySendSo
  <2>2. conn'.bufOut = conn.bufOut \o NextMessage
    BY <1>m DEF ConnSet
  <2>3. Len(conn'.bufOut) = Len(conn.bufOut) + MsgSize
    BY <1>a, <2>1, <2>2, Lengths
  <2>4. Len(conn'.bufOut) # 0
    BY <1>a, <2>3, Consts
  <2> QED
    BY <2>4
<1>1. CASE UNCHANGED vars \/ Gone
  BY <1>1, <1>b DEF Gone, vars, CallsSound, Called, Readable, Cause
<1>2. CASE SendInLoop \/ HandleWrite
  <2>1. loop.stack # <<>> /\ (SendAll \/ SendFails \/ SendKills)
    BY <1>2, RoomySend DEF SendInLoop, HandleWrite, Running
  <2>2. CASE SendAll
    BY <1>h, <2>1, <2>2 DEF SendAll
  <2>3. CASE SendFails
    BY <1>h, <2>1, <2>3 DEF SendFails
  <2>4. CASE SendKills
    <3>1. loop' = loop /\ conn' = conn /\ sock' = sock
      BY <2>4 DEF SendKills
    <3> QED
      BY <1>b, <1>c, <1>e, <3>1, CallsStay DEF Readable
  <2> QED
    BY <2>1, <2>2, <2>3, <2>4
<1>3. CASE HandleRead
  <2>1. loop.stack # <<>> /\ Head(loop.stack) = "read"
    BY <1>3 DEF HandleRead, Running
  <2>2. Readable
    BY <1>a, <1>b, <2>1 DEF CallsSound, Called
  <2>3. RecvResult = "zero" => sock.eos # "open"
    <3>1. SUFFICES ASSUME sock.eos = "open", RecvResult = "zero" PROVE FALSE
      OBVIOUS
    <3>2. sock.in > 0
      BY <2>2, <3>1 DEF Readable
    <3>3. RecvResult = "data"
      BY <3>1, <3>2 DEF RecvResult
    <3> QED
      BY <3>1, <3>3
  <2>4. RecvResult = "zero" => Cause'
    BY <1>c, <2>3 DEF Cause
  <2>5. \/ Return(<<"message">>, <<>>) \/ Return(<<"error">>, <<>>)
        \/ RecvResult = "zero" /\ Return(<<"close">>, <<>>)
    BY <1>3, RecvResults DEF HandleRead
  <2> QED
    BY <1>h, <2>1, <2>4, <2>5
<1>4. CASE HandleClose
  <2>1. loop.stack # <<>>
    BY <1>4 DEF HandleClose, Running
  <2>2. CASE conn.disc
    BY <1>4, <1>h, <2>1, <2>2 DEF HandleClose
  <2>3. CASE ~conn.disc /\ Pending
    <3>1. Return(<<"message">>, <<>>) \/ Return(<<>>, <<>>)
      BY <1>4, <2>3 DEF HandleClose
    <3> QED
      BY <1>h, <2>1, <3>1
  <2>4. CASE ~conn.disc /\ ~Pending
    <3>1. Return(<<>>, <<"cleanup">>)
      BY <1>4, <2>4 DEF HandleClose, Disconnect
    <3> QED
      BY <1>h, <2>1, <3>1
  <2> QED
    BY <2>2, <2>3, <2>4
<1>5. CASE HandleError \/ ShutDownInLoop
  <2>1. /\ loop.stack # <<>>
        /\ Return(<<>>, <<>>) \/ Return(<<>>, <<"cleanup">>)
    BY <1>5 DEF HandleError, ShutDownInLoop, Disconnect, Running
  <2> QED
    BY <1>h, <2>1
<1>6. CASE AfterSend
  <2>1. loop.stack # <<>> /\ (conn.half => Cause')
    BY <1>6, <1>b, <1>c DEF AfterSend, Running, EndSound
  <2>2. Return(<<>>, <<>>) \/ (conn.half /\ Return(<<"close">>, <<>>))
    BY <1>6 DEF AfterSend
  <2> QED
    BY <1>h, <2>1, <2>2
<1>7. CASE Accepted
  <2>1. loop.stack # <<>>
    BY <1>7 DEF Accepted, Running
  <2>2. CASE SendString(<<"add">>, conn)
    <3>1. conn'.bufOut # <<>>
      BY <1>a, <1>m, <2>2 DEF SendString
    <3>2. <<"send">> \o <<"add">> = <<"send", "add">>
      BY SendFirst DEF Frames
    <3>3. Return(<<"send", "add">>, <<>>)
      BY <2>2, <3>2 DEF SendString
    <3> QED
      BY <1>h, <2>1, <3>1, <3>3
  <2>3. CASE Return(<<"add">>, <<>>)
    BY <1>h, <2>1, <2>3
  <2> QED
    BY <1>7, <2>2, <2>3 DEF Accepted
<1>8. CASE AddChannelToLoop \/ Consume
  <2>1. loop.stack # <<>> /\ \E posts : Return(<<>>, posts)
    BY <1>8 DEF AddChannelToLoop, Consume, Running
  <2> QED
    BY <1>h, <2>1
<1>9. CASE OnMessage
  <2> DEFINE c == IF ConsumeFirst THEN Consumed(conn) ELSE conn
             rest == IF ConsumeFirst THEN <<>> ELSE <<"consume">>
  <2>1. c \in ConnSet /\ c.bufOut = conn.bufOut
    BY <1>a DEF Consumed, ConnSet
  <2>2. loop.stack # <<>>
    BY <1>9 DEF OnMessage, Running
  <2>3. \/ Return(rest, <<>>)
        \/ /\ MaySend /\ conn' = [c EXCEPT !.bufOut = @ \o NextMessage]
           /\ Return(<<"send">> \o rest, <<>>)
    BY <1>9 DEF OnMessage
  <2>4. rest \in {<<>>, <<"consume">>}
    OBVIOUS
  <2>5. <<"send">> \o rest \in {<<"send">>, <<"send", "consume">>}
    <3>1. <<"send">> \o <<"consume">> = <<"send", "consume">>
      BY SendFirst DEF Frames
    <3>2. <<"send">> \o <<>> = <<"send">>
      OBVIOUS
    <3> HIDE DEF rest
    <3> QED
      BY <2>4, <3>1, <3>2
  <2> HIDE DEF c, rest
  <2>6. CASE Return(rest, <<>>)
    BY <1>h, <2>2, <2>4, <2>6
  <2>7. CASE /\ MaySend /\ conn' = [c EXCEPT !.bufOut = @ \o NextMessage]
             /\ Return(<<"send">> \o rest, <<>>)
    <3>1. conn'.bufOut # <<>>
      BY <1>m, <2>1, <2>7
    <3>2. PICK calls \in {<<"send">>, <<"send", "consume">>} : Return(calls, <<>>)
      BY <2>5, <2>7
    <3> QED
      BY <1>h, <2>2, <3>1, <3>2
  <2> QED
    BY <2>3, <2>6, <2>7
<1>10. CASE OnSendComplete
  <2>1. loop.stack # <<>>
    BY <1>10 DEF OnSendComplete, Running
  <2>2. CASE SendString(<<>>, conn)
    <3>1. conn'.bufOut # <<>>
      BY <1>a, <1>m, <2>2 DEF SendString
    <3>2. <<"send">> \o <<>> = <<"send">>
      OBVIOUS
    <3>3. Return(<<"send">>, <<>>)
      BY <2>2, <3>2 DEF SendString
    <3> QED
      BY <1>h, <2>1, <3>1, <3>3
  <2>3. CASE Return(<<>>, <<>>)
    BY <1>h, <2>1, <2>3
  <2> QED
    BY <1>10, <2>2, <2>3 DEF OnSendComplete
<1>11. CASE OtherHandler
  <2>1. \/ /\ MaySend /\ conn' = [conn EXCEPT !.bufOut = @ \o NextMessage]
           /\ loop' = [loop EXCEPT !.stack = <<"send">>]
        \/ /\ hist' = [hist EXCEPT !.shutDowns = @ + 1]
           /\ loop' = [loop EXCEPT !.stack = <<"shutDown">>]
    BY <1>11 DEF OtherHandler, Roomy
  <2>2. CASE /\ MaySend /\ conn' = [conn EXCEPT !.bufOut = @ \o NextMessage]
             /\ loop' = [loop EXCEPT !.stack = <<"send">>]
    <3>1. conn'.bufOut # <<>>
      BY <1>a, <1>m, <2>2
    <3>2. loop'.stack = <<"send">>
      BY <1>a, <2>2 DEF LoopSet
    <3> QED
      BY <3>1, <3>2, CallsAnew
  <2>3. CASE /\ hist' = [hist EXCEPT !.shutDowns = @ + 1]
             /\ loop' = [loop EXCEPT !.stack = <<"shutDown">>]
    <3>1. hist'.shutDowns = hist.shutDowns + 1
      BY <2>3 DEF Typed, HistSet
    <3>2. loop'.stack = <<"shutDown">> /\ hist'.shutDowns > 0
      BY <1>a, <2>3, <3>1 DEF LoopSet
    <3> QED
      BY <3>2, CallsAnew
  <2> QED
    BY <2>1, <2>2, <2>3
<1>12. CASE HandleEvent
  <2>1. loop.active /\ "OUT" \notin conn.events /\ sock' = sock /\ hist' = hist
    BY <1>12, <1>b DEF HandleEvent, EventsSound
  <2>2. CASE "IN" \in conn.events
    <3>1. loop'.stack = <<"read">> /\ ~loop'.active
      BY <1>a, <1>12, <2>2 DEF HandleEvent, LoopSet
    <3>2. Readable'
      BY <1>b, <2>1, <2>2 DEF EventsSound, Readable
    <3> QED
      BY <3>1, <3>2, CallsAnew
  <2>3. CASE "IN" \notin conn.events
    <3>1. loop'.stack = <<>>
      BY <1>a, <1>12, <2>1, <2>3 DEF HandleEvent, LoopSet
    <3> QED
      BY <3>1, CallsAnew
  <2> QED
    BY <2>2, <2>3
<1>13. CASE RunTask
  <2>1. loop.batch # <<>> /\ loop.batch \in Seq(Tasks) /\ hist' = hist
    BY <1>a, <1>13 DEF RunTask, LoopSet
  <2>2. Head(loop.batch) = loop.batch[1] /\ 1 \in DOMAIN loop.batch
    BY <2>1
  <2>3. TaskSound(Head(loop.batch))
    BY <1>b, <2>2 DEF TasksSound
  <2>4. CASE Head(loop.batch) = "shutDownInLoop"
    <3>1. loop'.stack = <<"shutDown">> /\ hist'.shutDowns > 0
      BY <1>a, <1>13, <2>1, <2>3, <2>4 DEF RunTask, LoopSet, TaskSound
    <3> QED
      BY <3>1, CallsAnew
  <2>5. CASE Head(loop.batch) # "shutDownInLoop"
    <3>1. loop'.stack = <<>>
      BY <1>a, <1>13, <2>3, <2>5 DEF RunTask, LoopSet, TaskSound
    <3> QED
      BY <3>1, CallsAnew
  <2> QED
    BY <2>4, <2>5
<1>14. CASE PollReports \/ SwapTasks \/ EndBatch \/ PollOther
  <2>1. loop.stack = <<>> /\ loop'.stack = loop.stack
    BY <1>a, <1>14 DEF PollReports, SwapTasks, EndBatch, PollOther, Waiting, LoopSet
  <2> QED
    BY <2>1, CallsAnew
<1>15. CASE ShutDown \/ Peer
  <2>1. loop'.stack = loop.stack /\ loop'.active = loop.active /\ conn' = conn
    BY <1>a, <1>15 DEF ShutDown, Peer, PeerSend, PeerFin, PeerRst, PeerDrain, LoopSet
  <2>2. Readable => Readable'
    <3>1. sock'.in \in {sock.in, sock.in + 1}
      BY <1>a, <1>15 DEF ShutDown, Peer, PeerSend, PeerFin, PeerRst, PeerDrain, SockSet
    <3> QED
      BY <1>a, <3>1, CausesStay DEF Readable
  <2> QED
    BY <1>b, <1>c, <1>e, <2>1, <2>2, CallsStay
<1> QED
  BY <1>1, <1>2, <1>3, <1>4, <1>5, <1>6, <1>7, <1>8, <1>9, <1>10, <1>11, <1>12,
     <1>13, <1>14, <1>15 DEF Next, Handler, LoopStep, Roomy

\* Spec => []NoSpuriousClose: while the socket has room for whatever may be
\* sent, the connection closes itself only after the peer closed or reset it
\* or shutDown was called: no read finds the socket empty and no send has
\* nothing to send, which recvn and sendn report like an end of stream
\* (TcpConnection.cpp:18-103, 147-229).
THEOREM ClosesForCause ==
  ASSUME Roomy
  PROVE  Spec => []NoSpuriousClose
<1> DEFINE Inv == Typed /\ Bounded /\ StreamIntegrity /\ RoomyInv
<1>1. Init => Inv
  <2> SUFFICES ASSUME Init PROVE Inv
    OBVIOUS
  <2>1. Typed /\ Bounded
    BY InitTypes
  <2>2. StreamIntegrity
    <3>1. sock.wire = <<>> /\ conn.bufOut = <<>> /\ hist.sends * MsgSize = 0
      BY Consts DEF Init
    <3>2. [i \in 1 .. 0 |-> i] = <<>>
      OBVIOUS
    <3> QED
      BY <3>1, <3>2 DEF StreamIntegrity
  <2>3. CallsSound
    BY DEF Init, CallsSound, Called
  <2>4. TasksSound /\ EventsSound /\ EndSound /\ Fits
    BY DEF Init, TasksSound, EventsSound, EndSound, Fits
  <2> QED
    BY <2>1, <2>2, <2>3, <2>4 DEF RoomyInv
<1>2. Inv /\ [Next]_vars => Inv'
  <2> SUFFICES ASSUME Inv, [Next]_vars PROVE Inv'
    OBVIOUS
  <2>1. Typed' /\ Bounded'
    BY StepTypes
  <2>2. StreamIntegrity'
    BY StreamStep DEF Roomy
  <2>3. CallsSound' /\ EventsSound' /\ Fits'
    BY CallsStep, EventsStep, FitsStep
  <2>4. TasksSound' /\ EndSound'
    BY TasksStep, EndStep DEF RoomyInv, Roomy
  <2> QED
    BY <2>1, <2>2, <2>3, <2>4 DEF RoomyInv
<1>3. Inv => NoSpuriousClose
  BY DEF RoomyInv, EndSound, Cause, NoSpuriousClose
<1> HIDE DEF Inv
<1> QED
  BY <1>1, <1>2, <1>3, PTL DEF Spec

-----------------------------------------------------------------------------
(* The abstract connection                                                   *)

\* A task that cleans up or shuts down was queued by whoever is to blame for it.
EndTask(task) == /\ task = "cleanup" => hist.cleanups > 0
                 /\ task = "shutDownInLoop" => hist.shutDowns > 0
EndTasks == /\ \A i \in DOMAIN loop.tasks : EndTask(loop.tasks[i])
            /\ \A i \in DOMAIN loop.batch : EndTask(loop.batch[i])

\* shutDownInLoop is only ever called by the loop or by another handler, so no
\* handler of the connection waits beneath it.
CallFrames == Frames \ {"shutDown"}
StackKnown == \/ loop.stack \in Seq(CallFrames)
              \/ loop.stack = <<"shutDown">> /\ hist.shutDowns > 0

\* The connection leaves tcpConnList_ by a cleanup task only, and that task is
\* queued with the count of cleanups.
EndKnown == /\ EndTasks
            /\ StackKnown
            /\ ~conn.inMap => hist.cleanups > 0

\* What a step does to the connection's end: nothing; a handler queues the
\* cleanup; shutDown is called; the object is destroyed.
Quiet == /\ hist'.cleanups = hist.cleanups /\ hist'.shutDowns = hist.shutDowns
         /\ conn'.destroyer = conn.destroyer
Cleaned == /\ HandleClose \/ HandleError \/ ShutDownInLoop
           /\ sock' = sock /\ Return(<<>>, <<"cleanup">>)
           /\ conn'.bufOut = conn.bufOut /\ conn'.inMap = conn.inMap
           /\ conn'.destroyer = conn.destroyer
           /\ hist'.sends = hist.sends /\ hist'.shutDowns = hist.shutDowns
           /\ hist'.cleanups = hist.cleanups + 1
Asked == /\ sock' = sock /\ conn' = conn
         /\ hist'.sends = hist.sends /\ hist'.shutDowns = hist.shutDowns + 1
         /\ hist'.closed = hist.closed /\ hist'.cleanups = hist.cleanups
Destroyed == /\ EndBatch
             /\ sock' = sock /\ hist' = hist
             /\ conn'.bufOut = conn.bufOut /\ conn'.disc = conn.disc
             /\ ~conn.inMap
             /\ conn'.destroyer # "none"

LEMMA EndQueued ==
  ASSUME Typed, HandleClose \/ HandleError \/ ShutDownInLoop
  PROVE  \/ Quiet /\ conn'.inMap = conn.inMap /\ \E calls \in Seq(CallFrames) : Return(calls, <<>>)
         \/ Cleaned
<1>a. conn \in ConnSet /\ hist \in HistSet
  BY DEF Typed
<1>b. <<>> \in Seq(CallFrames) /\ <<"message">> \in Seq(CallFrames)
  BY DEF CallFrames, Frames
<1>1. ASSUME Disconnect, sock' = sock
      PROVE  Cleaned
  <2>1. /\ conn'.bufOut = conn.bufOut /\ conn'.destroyer = conn.destroyer
        /\ conn'.inMap = conn.inMap
    BY <1>a, <1>1 DEF Disconnect, ConnSet
  <2>2. /\ hist'.sends = hist.sends /\ hist'.shutDowns = hist.shutDowns
        /\ hist'.cleanups = hist.cleanups + 1
    BY <1>a, <1>1 DEF Disconnect, HistSet
  <2>3. Return(<<>>, <<"cleanup">>)
    BY <1>1 DEF Disconnect
  <2> QED
    BY <1>1, <2>1, <2>2, <2>3 DEF Cleaned
<1>2. CASE HandleClose
  <2>1. CASE conn.disc
    BY <1>2, <2>1, <1>b DEF HandleClose, Quiet
  <2>2. CASE ~conn.disc /\ Pending
    <3>1. conn'.destroyer = conn.destroyer /\ conn'.inMap = conn.inMap
      BY <1>a, <1>2, <2>2 DEF HandleClose, ConnSet
    <3>2. hist' = hist /\ (Return(<<"message">>, <<>>) \/ Return(<<>>, <<>>))
      BY <1>2, <2>2 DEF HandleClose
    <3> QED
      BY <1>b, <3>1, <3>2 DEF Quiet
  <2>3. CASE ~conn.disc /\ ~Pending
    <3>1. Disconnect /\ sock' = sock
      BY <1>2, <2>3 DEF HandleClose
    <3> QED
      BY <1>1, <3>1
  <2> QED
    BY <2>1, <2>2, <2>3
<1>3. CASE HandleError
  <2>1. CASE conn.disc
    BY <1>3, <2>1, <1>b DEF HandleError, Quiet
  <2>2. CASE ~conn.disc
    <3>1. /\ hist'.sends = hist.sends /\ hist'.shutDowns = hist.shutDowns
          /\ hist'.cleanups = hist.cleanups + 1
      BY <1>a, <1>3, <2>2 DEF HandleError, HistSet
    <3>2. sock' = sock /\ conn' = conn /\ Return(<<>>, <<"cleanup">>)
      BY <1>3, <2>2 DEF HandleError
    <3> QED
      BY <1>3, <3>1, <3>2 DEF Cleaned
  <2> QED
    BY <2>1, <2>2
<1>4. CASE ShutDownInLoop
  <2>1. CASE conn.disc
    BY <1>4, <2>1, <1>b DEF ShutDownInLoop, Quiet
  <2>2. CASE ~conn.disc
    <3>1. Disconnect /\ sock' = sock
      BY <1>4, <2>2 DEF ShutDownInLoop
    <3> QED
      BY <1>1, <3>1
  <2> QED
    BY <2>1, <2>2
<1> QED
  BY <1>2, <1>3, <1>4

\* The other handlers leave the end alone.
LEMMA HandlersQuiet ==
  ASSUME Typed, Handler, ~(HandleClose \/ HandleError \/ ShutDownInLoop)
  PROVE  /\ Quiet /\ conn'.inMap = conn.inMap
         /\ \/ UNCHANGED loop
            \/ \E calls \in Seq(CallFrames), posts \in {<<>>, <<"addChannel">>} :
                 Return(calls, posts)
<1>a. conn \in ConnSet /\ hist \in HistSet
  BY DEF Typed
<1>b. /\ <<>> \in Seq(CallFrames) /\ <<"message">> \in Seq(CallFrames)
      /\ <<"close">> \in Seq(CallFrames) /\ <<"error">> \in Seq(CallFrames)
      /\ <<"complete", "afterSend">> \in Seq(CallFrames)
      /\ <<"add">> \in Seq(CallFrames) /\ <<"consume">> \in Seq(CallFrames)
      /\ <<"send">> \o <<>> \in Seq(CallFrames)
      /\ <<"send">> \o <<"add">> \in Seq(CallFrames)
      /\ <<"send">> \o <<"consume">> \in Seq(CallFrames)
  BY DEF CallFrames, Frames
<1> DEFINE Calls == \E calls \in Seq(CallFrames), posts \in {<<>>, <<"addChannel">>} :
                      Return(calls, posts)
<1>c. ASSUME NEW calls \in Seq(CallFrames), Return(calls, <<>>) \/ Return(calls, <<"addChannel">>)
      PROVE  Calls
  BY <1>c
<1> HIDE DEF Calls
<1>1. CASE SendInLoop \/ HandleWrite
  <2>1. SendSome \/ SendAll \/ SendNone \/ SendFails \/ SendKills
    BY <1>1, SendCases DEF SendInLoop, HandleWrite
  <2>2. hist' = hist
    BY <1>1 DEF SendInLoop, HandleWrite
  <2>3. conn'.destroyer = conn.destroyer /\ conn'.inMap = conn.inMap
    BY <1>a, <2>1 DEF SendSome, SendAll, SendNone, SendFails, SendKills, ConnSet
  <2>4. Calls \/ UNCHANGED loop
    <3>1. CASE SendSome
      BY <1>b, <1>c, <3>1 DEF SendSome
    <3>2. CASE SendAll
      BY <1>b, <1>c, <3>2 DEF SendAll
    <3>3. CASE SendNone
      BY <1>b, <1>c, <3>3 DEF SendNone
    <3>4. CASE SendFails
      BY <1>b, <1>c, <3>4 DEF SendFails
    <3>5. CASE SendKills
      BY <3>5 DEF SendKills
    <3> QED
      BY <2>1, <3>1, <3>2, <3>3, <3>4, <3>5
  <2> QED
    BY <2>2, <2>3, <2>4 DEF Quiet, Calls
<1>2. CASE HandleRead
  <2>1. conn'.destroyer = conn.destroyer /\ conn'.inMap = conn.inMap /\ hist' = hist
    BY <1>a, <1>2 DEF HandleRead, Recv, ConnSet
  <2>2. Return(<<"message">>, <<>>) \/ Return(<<"close">>, <<>>) \/ Return(<<"error">>, <<>>)
    BY <1>2, RecvResults DEF HandleRead
  <2>3. Calls
    BY <1>b, <1>c, <2>2
  <2> QED
    BY <2>1, <2>3 DEF Quiet, Calls
<1>3. CASE AfterSend \/ AddChannelToLoop
  <2>1. conn' = conn /\ hist' = hist
    BY <1>3 DEF AfterSend, AddChannelToLoop
  <2>2. Return(<<"close">>, <<>>) \/ Return(<<>>, <<>>) \/ Return(<<>>, <<"addChannel">>)
    BY <1>3 DEF AfterSend, AddChannelToLoop
  <2>3. Calls
    BY <1>b, <1>c, <2>2
  <2> QED
    BY <2>1, <2>3 DEF Quiet, Calls
<1>4. CASE Accepted \/ OnSendComplete
  <2>1. conn'.destroyer = conn.destroyer /\ conn'.inMap = conn.inMap
    BY <1>a, <1>4 DEF Accepted, OnSendComplete, SendString, ConnSet
  <2>2. hist'.cleanups = hist.cleanups /\ hist'.shutDowns = hist.shutDowns
    BY <1>a, <1>4 DEF Accepted, OnSendComplete, SendString, HistSet
  <2>3. \/ Return(<<"send">> \o <<"add">>, <<>>) \/ Return(<<"add">>, <<>>)
        \/ Return(<<"send">> \o <<>>, <<>>) \/ Return(<<>>, <<>>)
    BY <1>4 DEF Accepted, OnSendComplete, SendString
  <2>4. Calls
    BY <1>b, <1>c, <2>3
  <2> QED
    BY <2>1, <2>2, <2>4 DEF Quiet, Calls
<1>5. CASE OnMessage
  <2> DEFINE c == IF ConsumeFirst THEN Consumed(conn) ELSE conn
             h == [hist EXCEPT !.delivered = @ + conn.bufIn]
             rest == IF ConsumeFirst THEN <<>> ELSE <<"consume">>
  <2>1. c \in ConnSet /\ c.destroyer = conn.destroyer /\ c.inMap = conn.inMap
    BY <1>a DEF Consumed, ConnSet
  <2>2. h \in [sends : Nat, received : Nat, delivered : {h.delivered}, shutDowns : Nat,
               closed : Nat, errors : Nat, cleanups : Nat]
        /\ h.shutDowns = hist.shutDowns /\ h.cleanups = hist.cleanups
    BY <1>a DEF HistSet
  <2>3. \/ conn' = c /\ hist' = h
        \/ /\ conn' = [c EXCEPT !.bufOut = @ \o NextMessage]
           /\ hist' = [h EXCEPT !.sends = @ + 1]
        \/ conn' = [c EXCEPT !.async = @ \/ UseAsync] /\ hist' = h
    BY <1>5 DEF OnMessage
  <2>4. Return(rest, <<>>) \/ Return(<<"send">> \o rest, <<>>)
    BY <1>5 DEF OnMessage
  <2>5. rest = <<>> \/ rest = <<"consume">>
    OBVIOUS
  <2> HIDE DEF c, h, rest
  <2>6. conn'.destroyer = conn.destroyer /\ conn'.inMap = conn.inMap
    BY <2>1, <2>3 DEF ConnSet
  <2>7. hist'.shutDowns = hist.shutDowns /\ hist'.cleanups = hist.cleanups
    BY <2>2, <2>3
  <2>8. rest \in Seq(CallFrames) /\ <<"send">> \o rest \in Seq(CallFrames)
    BY <1>b, <2>5
  <2>9. Calls
    BY <1>c, <2>4, <2>8
  <2> QED
    BY <2>6, <2>7, <2>9 DEF Quiet, Calls
<1>6. CASE Consume
  <2>1. conn'.destroyer = conn.destroyer /\ conn'.inMap = conn.inMap /\ hist' = hist
    BY <1>a, <1>6 DEF Consume, Consumed, ConnSet
  <2>2. Calls
    BY <1>b, <1>c, <1>6 DEF Consume
  <2> QED
    BY <2>1, <2>2 DEF Quiet, Calls
<1> QED
  BY <1>1, <1>2, <1>3, <1>4, <1>5, <1>6 DEF Handler

\* The step of the loop, of the peer or of another handler.
LEMMA OthersQuiet ==
  ASSUME Workers = {}, Typed, [Next]_vars, ~Handler
  PROVE  Quiet \/ Asked \/ Destroyed
<1>a. conn \in ConnSet /\ hist \in HistSet
  BY DEF Typed
<1>1. CASE UNCHANGED vars \/ Gone
  BY <1>1 DEF Gone, vars, Quiet
<1>2. CASE HandleEvent \/ SwapTasks \/ PollOther
  BY <1>2 DEF HandleEvent, SwapTasks, PollOther, Quiet
<1>3. CASE PollReports \/ RunTask
  <2>1. conn'.destroyer = conn.destroyer
    BY <1>a, <1>3 DEF PollReports, RunTask, ConnSet
  <2> QED
    BY <1>3, <2>1 DEF PollReports, RunTask, Quiet
<1>4. CASE EndBatch
  <2>1. hist' = hist /\ sock' = sock
    BY <1>4 DEF EndBatch
  <2>2. CASE conn' = conn
    BY <2>1, <2>2 DEF Quiet
  <2>3. CASE conn' # conn
    <3>1. ~conn.inMap /\ Destroy("loop")
      BY <1>4, <2>3 DEF EndBatch
    <3>2. conn' = [conn EXCEPT !.destroyer = "loop"]
      BY <2>3, <3>1 DEF Destroy
    <3>3. /\ conn'.bufOut = conn.bufOut /\ conn'.disc = conn.disc
          /\ conn'.destroyer # "none"
      BY <1>a, <3>2 DEF ConnSet
    <3> QED
      BY <1>4, <2>1, <3>1, <3>3 DEF Destroyed
  <2> QED
    BY <2>2, <2>3
<1>5. CASE Peer
  <2>1. conn' = conn
    BY <1>5 DEF Peer, PeerSend, PeerFin, PeerRst, PeerDrain
  <2>2. hist'.cleanups = hist.cleanups /\ hist'.shutDowns = hist.shutDowns
    BY <1>a, <1>5 DEF Peer, PeerSend, PeerFin, PeerRst, PeerDrain, HistSet
  <2> QED
    BY <2>1, <2>2 DEF Quiet
<1>6. ASSUME sock' = sock, conn' = conn, hist' = [hist EXCEPT !.shutDowns = @ + 1]
      PROVE  Asked
  BY <1>a, <1>6 DEF Asked, HistSet
<1>7. CASE OtherHandler
  <2>1. sock' = sock
    BY <1>7 DEF OtherHandler
  <2>2. CASE /\ conn' = [conn EXCEPT !.bufOut = @ \o NextMessage]
             /\ hist' = [hist EXCEPT !.sends = @ + 1]
    <3>1. conn'.destroyer = conn.destroyer
      BY <1>a, <2>2 DEF ConnSet
    <3>2. hist'.cleanups = hist.cleanups /\ hist'.shutDowns = hist.shutDowns
      BY <1>a, <2>2 DEF HistSet
    <3> QED
      BY <3>1, <3>2 DEF Quiet
  <2>3. CASE conn' = conn /\ hist' = [hist EXCEPT !.shutDowns = @ + 1]
    BY <1>6, <2>1, <2>3
  <2> QED
    BY <1>7, <2>2, <2>3 DEF OtherHandler
<1>8. CASE ShutDown
  BY <1>6, <1>8 DEF ShutDown
<1> QED
  BY <1>1, <1>2, <1>3, <1>4, <1>5, <1>7, <1>8 DEF Next, LoopStep

\* A step happens while the object lives, or changes nothing.
LEMMA StepAlive ==
  ASSUME Workers = {}, [Next]_vars
  PROVE  Alive \/ UNCHANGED vars
<1>1. CASE Handler
  BY <1>1 DEF Handler, SendInLoop, HandleWrite, HandleRead, HandleClose, HandleError,
     ShutDownInLoop, AfterSend, Accepted, AddChannelToLoop, OnMessage, Consume,
     OnSendComplete, Running
<1>2. CASE LoopStep \/ PollOther \/ OtherHandler
  BY <1>2 DEF LoopStep, PollReports, HandleEvent, SwapTasks, RunTask, EndBatch,
     PollOther, OtherHandler, Waiting
<1>3. CASE Peer \/ ShutDown
  BY <1>3 DEF Peer, PeerSend, PeerFin, PeerRst, PeerDrain, ShutDown
<1>4. CASE Gone \/ UNCHANGED vars
  BY <1>4 DEF Gone
<1> QED
  BY <1>1, <1>2, <1>3, <1>4 DEF Next

LEMMA EndCounts ==
  ASSUME Workers = {}, Typed, [Next]_vars
  PROVE  /\ Quiet \/ Cleaned \/ Asked \/ Destroyed
         /\ hist'.cleanups >= hist.cleanups /\ hist'.shutDowns >= hist.shutDowns
         /\ hist.cleanups \in Nat /\ hist.shutDowns \in Nat
<1>1. Quiet \/ Cleaned \/ Asked \/ Destroyed
  <2>1. CASE HandleClose \/ HandleError \/ ShutDownInLoop
    BY <2>1, EndQueued
  <2>2. CASE Handler /\ ~(HandleClose \/ HandleError \/ ShutDownInLoop)
    BY <2>2, HandlersQuiet
  <2>3. CASE ~Handler
    BY <2>3, OthersQuiet
  <2> QED
    BY <2>1, <2>2, <2>3
<1>2. hist.cleanups \in Nat /\ hist.shutDowns \in Nat
  BY DEF Typed, HistSet
<1>3. hist'.cleanups >= hist.cleanups /\ hist'.shutDowns >= hist.shutDowns
  BY <1>1, <1>2 DEF Quiet, Cleaned, Asked, Destroyed
<1> QED
  BY <1>1, <1>2, <1>3

\* The counts only grow, so a queued task stays to blame on them.
LEMMA EndTaskStays ==
  ASSUME Workers = {}, Typed, [Next]_vars, NEW t, EndTask(t)
  PROVE  EndTask(t)'
<1>1. /\ hist'.cleanups >= hist.cleanups /\ hist'.shutDowns >= hist.shutDowns
      /\ hist.cleanups \in Nat /\ hist.shutDowns \in Nat
  BY EndCounts
<1>2. hist'.cleanups \in Nat /\ hist'.shutDowns \in Nat
  <2>1. Quiet \/ Cleaned \/ Asked \/ Destroyed
    BY EndCounts
  <2> QED
    BY <1>1, <2>1 DEF Quiet, Cleaned, Asked, Destroyed
<1> QED
  BY <1>1, <1>2 DEF EndTask

LEMMA EndTasksKept ==
  ASSUME Workers = {}, Typed, [Next]_vars, EndTasks,
         loop'.tasks = loop.tasks, loop'.batch = loop.batch
  PROVE  EndTasks'
BY EndTaskStays DEF EndTasks

LEMMA EndTaskAdded ==
  ASSUME Workers = {}, Typed, [Next]_vars, EndTasks, NEW t \in Tasks, EndTask(t)',
         loop'.tasks = Append(loop.tasks, t), loop'.batch = loop.batch
  PROVE  EndTasks'
<1>1. loop.tasks \in Seq(Tasks)
  BY DEF Typed, LoopSet
<1>2. \A i \in DOMAIN loop'.tasks :
        loop'.tasks[i] = t \/ (i \in DOMAIN loop.tasks /\ loop'.tasks[i] = loop.tasks[i])
  BY <1>1
<1>3. \A k : EndTask(k) => EndTask(k)'
  BY EndTaskStays
<1> QED
  BY <1>2, <1>3 DEF EndTasks

\* The call stack after a handler of the connection has returned.
LEMMA StackReturns ==
  ASSUME Typed, StackKnown,
         NEW f \in Frames, Running(f),
         NEW calls \in Seq(CallFrames), NEW posts, Return(calls, posts),
         f = "shutDown" => calls = <<>>
  PROVE  StackKnown'
<1>1. loop'.stack = calls \o Tail(loop.stack)
  BY DEF Typed, LoopSet, Return
<1>2. loop.stack # <<>> /\ Head(loop.stack) = f
  BY DEF Running
<1>3. CASE loop.stack \in Seq(CallFrames)
  <2>1. Tail(loop.stack) \in Seq(CallFrames)
    BY <1>2, <1>3
  <2>2. loop'.stack \in Seq(CallFrames)
    BY <1>1, <2>1
  <2> QED
    BY <2>2 DEF StackKnown
<1>4. CASE loop.stack = <<"shutDown">>
  <2>1. f = "shutDown"
    BY <1>2, <1>4
  <2>2. Tail(loop.stack) = <<>>
    BY <1>4
  <2>3. loop'.stack = <<>>
    BY <1>1, <2>1, <2>2
  <2> QED
    BY <2>3 DEF StackKnown
<1> QED
  BY <1>3, <1>4 DEF StackKnown

\* The call stack after a step.
LEMMA StackStep ==
  ASSUME Workers = {}, Typed, Bounded, EndKnown, [Next]_vars
  PROVE  StackKnown'
<1>a. /\ loop \in LoopSet /\ loop.stack \in Seq(Frames) /\ hist \in HistSet
      /\ <<>> \in Seq(CallFrames) /\ <<"send">> \in Seq(CallFrames)
      /\ <<"read">> \in Seq(CallFrames) /\ <<"write">> \in Seq(CallFrames)
  BY DEF Typed, LoopSet, CallFrames, Frames
<1>b. StackKnown
  BY DEF EndKnown
<1>c. /\ hist'.shutDowns >= hist.shutDowns /\ hist.shutDowns \in Nat
      /\ hist'.shutDowns \in Nat
  BY EndCounts DEF Quiet, Cleaned, Asked, Destroyed
<1>s. ASSUME loop'.stack = loop.stack PROVE StackKnown'
  BY <1>b, <1>c, <1>s DEF StackKnown
<1>1. CASE Handler
  <2>1. CASE UNCHANGED loop
    BY <1>s, <2>1
  <2>2. CASE HandleClose \/ HandleError \/ ShutDownInLoop
    <3>1. PICK f \in {"close", "error", "shutDown"} :
            Running(f) /\ (f = "shutDown" => ShutDownInLoop)
      BY <2>2 DEF HandleClose, HandleError, ShutDownInLoop
    <3>a. f \in Frames /\ Running(f)
      BY <3>1 DEF Frames
    <3>2. CASE ShutDownInLoop
      <4>1. PICK posts \in {<<>>, <<"cleanup">>} : Return(<<>>, posts)
        BY <3>2 DEF ShutDownInLoop, Disconnect
      <4> QED
        BY <1>a, <1>b, <3>a, <4>1, StackReturns
    <3>3. CASE ~ShutDownInLoop
      <4>1. PICK calls \in Seq(CallFrames), posts \in {<<>>, <<"cleanup">>} :
              Return(calls, posts)
        BY <1>a, <2>2, EndQueued DEF Cleaned
      <4> QED
        <5>1. f = "shutDown" => calls = <<>>
          BY <3>1, <3>3
        <5> QED
          BY <1>b, <3>a, <4>1, <5>1, StackReturns
    <3> QED
      BY <3>2, <3>3
  <2>3. CASE ~(HandleClose \/ HandleError \/ ShutDownInLoop) /\ ~UNCHANGED loop
    <3>1. PICK calls \in Seq(CallFrames), posts \in {<<>>, <<"addChannel">>} :
            Return(calls, posts)
      BY <1>1, <2>3, HandlersQuiet
    <3>2. PICK f \in Frames \ {"shutDown"} : Running(f)
      BY <1>1, <2>3 DEF Handler, SendInLoop, HandleWrite, HandleRead, AfterSend, Accepted,
         AddChannelToLoop, OnMessage, Consume, OnSendComplete, Frames
    <3> QED
      BY <1>b, <3>1, <3>2, StackReturns
  <2> QED
    BY <2>1, <2>2, <2>3
<1>2. CASE OtherHandler
  <2>1. CASE loop' = [loop EXCEPT !.stack = <<"send">>]
    <3>1. loop'.stack = <<"send">>
      BY <1>a, <2>1 DEF LoopSet
    <3> QED
      BY <1>a, <3>1 DEF StackKnown
  <2>2. CASE /\ loop' = [loop EXCEPT !.stack = <<"shutDown">>]
             /\ hist' = [hist EXCEPT !.shutDowns = @ + 1]
    <3>1. loop'.stack = <<"shutDown">> /\ hist'.shutDowns = hist.shutDowns + 1
      BY <1>a, <2>2 DEF LoopSet, HistSet
    <3> QED
      BY <1>c, <3>1 DEF StackKnown
  <2> QED
    BY <1>2, <2>1, <2>2 DEF OtherHandler
<1>3. CASE HandleEvent
  <2>1. loop'.stack \in {<<"read">>, <<"write">>, <<>>}
    BY <1>a, <1>3 DEF HandleEvent, LoopSet
  <2> QED
    BY <1>a, <2>1 DEF StackKnown
<1>4. CASE RunTask
  <2>1. loop.batch # <<>> /\ loop.batch \in Seq(Tasks) /\ hist' = hist
    BY <1>a, <1>4 DEF RunTask, LoopSet
  <2>2. 1 \in DOMAIN loop.batch /\ Head(loop.batch) = loop.batch[1]
    BY <2>1
  <2>3. EndTask(Head(loop.batch))
    BY <2>2 DEF EndKnown, EndTasks
  <2>4. CASE Head(loop.batch) = "shutDownInLoop"
    <3>1. loop'.stack = <<"shutDown">>
      BY <1>a, <1>4, <2>4 DEF RunTask, LoopSet
    <3>2. hist'.shutDowns > 0
      BY <2>1, <2>3, <2>4 DEF EndTask
    <3> QED
      BY <3>1, <3>2 DEF StackKnown
  <2>5. CASE Head(loop.batch) # "shutDownInLoop"
    <3>1. loop'.stack = <<"send">> \/ loop'.stack = <<>>
      BY <1>a, <1>4, <2>5 DEF RunTask, LoopSet
    <3> QED
      BY <1>a, <3>1 DEF StackKnown
  <2> QED
    BY <2>4, <2>5
<1>5. CASE PollReports \/ SwapTasks \/ EndBatch \/ PollOther \/ ShutDown
  <2>1. loop'.stack = loop.stack
    BY <1>a, <1>5 DEF PollReports, SwapTasks, EndBatch, PollOther, ShutDown, LoopSet
  <2> QED
    BY <1>s, <2>1
<1>6. CASE Peer \/ Gone \/ UNCHANGED vars
  <2>1. loop' = loop
    BY <1>6 DEF Peer, PeerSend, PeerFin, PeerRst, PeerDrain, Gone, vars
  <2> QED
    BY <1>s, <2>1
<1> QED
  BY <1>1, <1>2, <1>3, <1>4, <1>5, <1>6 DEF Next, LoopStep

\* The queued tasks after a step.
LEMMA EndTasksStep ==
  ASSUME Workers = {}, Typed, Bounded, EndKnown, [Next]_vars
  PROVE  EndTasks'
<1>a. /\ loop \in LoopSet /\ loop.tasks \in Seq(Tasks) /\ loop.batch \in Seq(Tasks)
      /\ hist.shutDowns \in Nat /\ hist.cleanups \in Nat
  BY DEF Typed, LoopSet, HistSet
<1>b. EndTasks
  BY DEF EndKnown
<1>c. \A t : EndTask(t) => EndTask(t)'
  BY EndTaskStays
<1>p. ASSUME NEW calls, NEW t, Return(calls, <<t>>)
      PROVE  loop'.tasks = Append(loop.tasks, t) /\ loop'.batch = loop.batch
  <2>1. loop.tasks \o <<t>> = Append(loop.tasks, t)
    BY <1>a
  <2> QED
    BY <1>a, <1>p, <2>1 DEF Return, LoopSet
<1>q. ASSUME NEW calls, Return(calls, <<>>)
      PROVE  loop'.tasks = loop.tasks /\ loop'.batch = loop.batch
  <2>1. loop.tasks \o <<>> = loop.tasks
    BY <1>a
  <2> QED
    BY <1>a, <1>q, <2>1 DEF Return, LoopSet
<1>1. CASE HandleClose \/ HandleError \/ ShutDownInLoop
  <2>1. CASE Cleaned
    <3>1. hist'.cleanups = hist.cleanups + 1
      BY <2>1 DEF Cleaned
    <3>2. EndTask("cleanup")' /\ "cleanup" \in Tasks
      BY <1>a, <3>1 DEF EndTask, Tasks
    <3>3. loop'.tasks = Append(loop.tasks, "cleanup") /\ loop'.batch = loop.batch
      BY <1>p, <2>1 DEF Cleaned
    <3> QED
      BY <1>b, <3>2, <3>3, EndTaskAdded
  <2>2. CASE ~Cleaned
    <3>1. PICK calls \in Seq(CallFrames) : Return(calls, <<>>)
      BY <1>1, <2>2, EndQueued
    <3> QED
      BY <1>b, <1>q, <3>1, EndTasksKept
  <2> QED
    BY <2>1, <2>2
<1>2. CASE Handler /\ ~(HandleClose \/ HandleError \/ ShutDownInLoop)
  <2>1. CASE UNCHANGED loop
    BY <1>b, <2>1, EndTasksKept
  <2>2. CASE ~UNCHANGED loop
    <3>1. PICK calls \in Seq(CallFrames), posts \in {<<>>, <<"addChannel">>} :
            Return(calls, posts)
      BY <1>2, <2>2, HandlersQuiet
    <3>2. CASE posts = <<>>
      BY <1>b, <1>q, <3>1, <3>2, EndTasksKept
    <3>3. CASE posts = <<"addChannel">>
      <4>1. EndTask("addChannel")' /\ "addChannel" \in Tasks
        BY DEF EndTask, Tasks
      <4>2. loop'.tasks = Append(loop.tasks, "addChannel") /\ loop'.batch = loop.batch
        BY <1>p, <3>1, <3>3
      <4> QED
        BY <1>b, <4>1, <4>2, EndTaskAdded
    <3> QED
      BY <3>1, <3>2, <3>3
  <2> QED
    BY <2>1, <2>2
<1>3. CASE SwapTasks
  <2>1. loop'.batch = loop.tasks /\ loop'.tasks = <<>>
    BY <1>a, <1>3 DEF SwapTasks, LoopSet
  <2> QED
    BY <1>b, <1>c, <2>1 DEF EndTasks
<1>4. CASE RunTask
  <2>1. loop'.batch = Tail(loop.batch) /\ loop'.tasks = loop.tasks /\ loop.batch # <<>>
    BY <1>a, <1>4 DEF RunTask, LoopSet
  <2>2. \A i \in DOMAIN loop'.batch :
          i + 1 \in DOMAIN loop.batch /\ loop'.batch[i] = loop.batch[i + 1]
    BY <1>a, <2>1
  <2> QED
    BY <1>b, <1>c, <2>1, <2>2 DEF EndTasks
<1>5. CASE ShutDown
  <2>1. loop'.tasks = Append(loop.tasks, "shutDownInLoop") /\ loop'.batch = loop.batch
    BY <1>a, <1>5 DEF ShutDown, LoopSet
  <2>2. hist'.shutDowns = hist.shutDowns + 1
    BY <1>5 DEF ShutDown, Typed, HistSet
  <2>3. EndTask("shutDownInLoop")' /\ "shutDownInLoop" \in Tasks
    BY <1>a, <2>2 DEF EndTask, Tasks
  <2> QED
    BY <1>b, <2>1, <2>3, EndTaskAdded
<1>6. CASE PollReports \/ HandleEvent \/ EndBatch \/ PollOther \/ OtherHandler
  <2>1. loop'.tasks = loop.tasks /\ loop'.batch = loop.batch
    BY <1>a, <1>6 DEF PollReports, HandleEvent, EndBatch, PollOther, OtherHandler, LoopSet
  <2> QED
    BY <1>b, <2>1, EndTasksKept
<1>7. CASE Peer \/ Gone \/ UNCHANGED vars
  <2>1. loop' = loop
    BY <1>7 DEF Peer, PeerSend, PeerFin, PeerRst, PeerDrain, Gone, vars
  <2> QED
    BY <1>b, <2>1, EndTasksKept
<1> QED
  BY <1>1, <1>2, <1>3, <1>4, <1>5, <1>6, <1>7 DEF Next, LoopStep

LEMMA EndKnownStep ==
  ASSUME Workers = {}, Typed, Bounded, EndKnown, [Next]_vars
  PROVE  EndKnown'
<1>a. conn \in ConnSet /\ loop \in LoopSet
  BY DEF Typed
<1>b. /\ hist'.cleanups >= hist.cleanups /\ hist.cleanups \in Nat
      /\ hist'.cleanups \in Nat
  BY EndCounts DEF Quiet, Cleaned, Asked, Destroyed
<1>c. ~conn.inMap => hist.cleanups > 0
  BY DEF EndKnown
<1>s. ASSUME conn'.inMap = conn.inMap
      PROVE  ~conn'.inMap => hist'.cleanups > 0
  BY <1>b, <1>c, <1>s
<1>1. ~conn'.inMap => hist'.cleanups > 0
  <2>1. CASE HandleClose \/ HandleError \/ ShutDownInLoop
    BY <1>s, <2>1, EndQueued DEF Cleaned
  <2>2. CASE Handler /\ ~(HandleClose \/ HandleError \/ ShutDownInLoop)
    BY <1>s, <2>2, HandlersQuiet
  <2>3. CASE RunTask
    <3>1. loop.batch \in Seq(Tasks) /\ loop.batch # <<>>
      BY <1>a, <2>3 DEF RunTask, LoopSet
    <3>2. 1 \in DOMAIN loop.batch /\ Head(loop.batch) = loop.batch[1]
      BY <3>1
    <3>3. EndTask(Head(loop.batch))
      BY <3>2 DEF EndKnown, EndTasks
    <3>4. CASE Head(loop.batch) = "cleanup"
      BY <1>b, <3>3, <3>4 DEF EndTask
    <3>5. CASE Head(loop.batch) # "cleanup"
      <4>1. conn'.inMap = conn.inMap
        BY <1>a, <2>3, <3>5 DEF RunTask, ConnSet
      <4> QED
        BY <1>s, <4>1
    <3> QED
      BY <3>4, <3>5
  <2>4. CASE PollReports \/ HandleEvent \/ SwapTasks \/ EndBatch \/ PollOther
             \/ OtherHandler \/ ShutDown
    <3>1. conn'.inMap = conn.inMap
      BY <1>a, <2>4 DEF PollReports, HandleEvent, SwapTasks, EndBatch, Destroy, PollOther,
         OtherHandler, ShutDown, ConnSet
    <3> QED
      BY <1>s, <3>1
  <2>5. CASE Peer \/ Gone \/ UNCHANGED vars
    <3>1. conn' = conn
      BY <2>5 DEF Peer, PeerSend, PeerFin, PeerRst, PeerDrain, Gone, vars
    <3> QED
      BY <1>s, <3>1
  <2> QED
    BY <2>1, <2>2, <2>3, <2>4, <2>5 DEF Next, LoopStep
<1> QED
  BY <1>1, StackStep, EndTasksStep DEF EndKnown

LEMMA ConcatBegins ==
  ASSUME NEW v \in Seq(Units), NEW u \in Seq(Units)
  PROVE  /\ Len(v \o u) = Len(v) + Len(u)
         /\ \A i \in 1 .. Len(v) : (v \o u)[i] = v[i]
OBVIOUS

\* The units given with the first messages.
FirstUnits(n) == [i \in 1 .. n |-> i]

\* What the socket has is a beginning of what was given.
LEMMA WrittenSoFar ==
  ASSUME NEW w \in Seq(Units), NEW g \in Seq(Units), NEW u \in Seq(Units),
         NEW k \in Nat, w \o (g \o u) = FirstUnits(k)
  PROVE  /\ Len(w) \in Nat /\ Len(g) \in Nat /\ Len(w) + Len(g) <= k
         /\ w \o g = FirstUnits(Len(w) + Len(g))
<1> DEFINE v == w \o g
           z == [i \in 1 .. k |-> i]
           n == Len(w) + Len(g)
<1>1. v \in Seq(Units) /\ Len(v) = n /\ n \in Nat /\ Len(u) \in Nat
      /\ Len(w) \in Nat /\ Len(g) \in Nat
  OBVIOUS
<1>2. v \o u = z
  <2>1. v \o u = w \o (g \o u)
    BY MoveInStream
  <2>2. z = FirstUnits(k)
    BY DEF FirstUnits
  <2> HIDE DEF v, z
  <2> QED
    BY <2>1, <2>2, Zenon
<1>3. z \in Seq(Nat) /\ Len(z) = k /\ \A i \in 1 .. k : z[i] = i
  OBVIOUS
<1> HIDE DEF v, z, n
<1>4. Len(v \o u) = n + Len(u) /\ \A i \in 1 .. n : (v \o u)[i] = v[i]
  BY <1>1, ConcatBegins
<1>5. n <= k
  BY <1>1, <1>2, <1>3, <1>4
<1>6. \A i \in 1 .. n : v[i] = i
  BY <1>1, <1>2, <1>3, <1>4, <1>5
<1>7. v = [i \in 1 .. n |-> i]
  <2> DEFINE y == [i \in 1 .. n |-> i]
  <2>1. y \in Seq(Nat) /\ Len(y) = n /\ \A i \in 1 .. n : y[i] = i
    BY <1>1
  <2>2. v \in Seq(Nat)
    <3>1. Units \subseteq Nat
      BY DEF Units
    <3> QED
      BY <1>1, <3>1, SeqMonotonic
  <2> HIDE DEF y
  <2>3. Len(v) = Len(y) /\ \A i \in 1 .. Len(v) : v[i] = y[i]
    BY <1>1, <1>6, <2>1
  <2>4. v = y
    BY <2>1, <2>2, <2>3, SeqEqual
  <2> QED
    BY <2>4 DEF y
<1> QED
  BY <1>1, <1>5, <1>7 DEF v, n, FirstUnits

\* A step that leaves the end alone gives, writes, or changes nothing.
LEMMA QuietPromise ==
  ASSUME Workers = {}, Typed, Bounded, StreamIntegrity, [Next]_vars, Alive,
         Quiet, hist'.closed = hist.closed
  PROVE  [Promised!Next]_(Promised!cxVars)
<1>a. /\ sock.wire \in Seq(Units) /\ conn.bufOut \in Seq(Units) /\ hist.sends \in Nat
      /\ MsgSize \in Nat
  BY Consts DEF Typed, SockSet, ConnSet, HistSet
<1>b. Phase' = Phase /\ Phase # "gone" /\ (hist'.shutDowns > 0) = (hist.shutDowns > 0)
  BY DEF Quiet, Phase, Alive
<1>1. CASE Kept
  BY <1>1, <1>b DEF Kept, Promised!cxVars
<1>2. CASE Appended
  <2>1. sock'.wire = sock.wire /\ hist'.sends = hist.sends + 1
    BY <1>2 DEF Appended
  <2>2. hist'.sends * MsgSize = hist.sends * MsgSize + MsgSize
    BY <1>a, <2>1
  <2> QED
    BY <1>b, <2>1, <2>2 DEF Promised!Next, Promised!Give
<1>3. CASE Moved
  <2>1. PICK gone \in Seq(Units) : /\ gone = SubSeq(conn.bufOut, 1, Accepts)
                                   /\ Unsent \in Seq(Units)
                                   /\ conn.bufOut = gone \o Unsent
    BY SendFacts
  <2> DEFINE k == hist.sends * MsgSize
             n == Len(sock.wire) + Len(gone)
  <2>2. k \in Nat /\ k' = k
    BY <1>a, <1>3 DEF Moved
  <2>3. /\ Len(sock.wire) \in Nat /\ Len(gone) \in Nat /\ n <= k
        /\ sock.wire \o gone = FirstUnits(n)
    <3>1. sock.wire \o (gone \o Unsent) = FirstUnits(k)
      BY <2>1 DEF StreamIntegrity, FirstUnits
    <3>2. sock.wire \in Seq(Units) /\ gone \in Seq(Units) /\ Unsent \in Seq(Units)
      BY <1>a, <2>1
    <3> HIDE DEF k
    <3>3. /\ Len(sock.wire) \in Nat /\ Len(gone) \in Nat /\ Len(sock.wire) + Len(gone) <= k
          /\ sock.wire \o gone = FirstUnits(Len(sock.wire) + Len(gone))
      <4>1. k \in Nat
        BY <2>2
      <4> QED
        BY <3>1, <3>2, <4>1, WrittenSoFar
    <3> QED
      BY <3>3
  <2>4. sock'.wire = sock.wire \o gone /\ hist'.sends = hist.sends
    BY <1>3, <2>1 DEF Moved
  <2>5. CASE gone = <<>>
    <3>1. sock'.wire = sock.wire
      BY <1>a, <2>4, <2>5
    <3> QED
      BY <1>b, <2>4, <3>1 DEF Promised!cxVars
  <2>6. CASE gone # <<>>
    <3>1. n \in Len(sock.wire) + 1 .. k
      <4>1. Len(gone) > 0
        BY <2>1, <2>6
      <4> QED
        BY <2>2, <2>3, <4>1
    <3>2. sock'.wire = [i \in 1 .. n |-> i]
      BY <2>3, <2>4, Zenon DEF FirstUnits
    <3>3. \E m \in Len(sock.wire) + 1 .. hist.sends * MsgSize :
            sock'.wire = [i \in 1 .. m |-> i]
      BY <3>1, <3>2, Zenon
    <3>4. Promised!Write
      BY <1>b, <2>4, <3>3 DEF Promised!Write
    <3> QED
      BY <3>4 DEF Promised!Next
  <2> QED
    BY <2>5, <2>6
<1> QED
  BY <1>1, <1>2, <1>3, StreamEffects

\* A step that queues the cleanup closes, for a cause, or fails.
LEMMA CleanedPromise ==
  ASSUME Workers = {}, Typed, Bounded, StreamIntegrity, ClosedWhen, EndKnown,
         [Next]_vars, Alive, Cleaned
  PROVE  [Promised!Next]_(Promised!cxVars)
<1>a. /\ sock.wire \in Seq(Units) /\ hist.sends \in Nat /\ MsgSize \in Nat
      /\ hist.cleanups \in Nat /\ hist.closed \in Nat
  BY Consts DEF Typed, SockSet, HistSet
<1>b. /\ sock'.wire = sock.wire /\ hist'.sends = hist.sends
      /\ hist'.shutDowns = hist.shutDowns /\ hist'.cleanups > 0
      /\ conn'.destroyer = conn.destroyer /\ conn.destroyer = "none"
  BY <1>a DEF Cleaned, Alive
<1>c. /\ Phase' = "ended" /\ Phase \in {"open", "ended"}
      /\ hist'.sends * MsgSize = hist.sends * MsgSize
      /\ (hist'.shutDowns > 0) = (hist.shutDowns > 0)
  BY <1>b DEF Phase
<1>1. CASE hist'.closed = hist.closed
  <2>1. CASE Phase = "open"
    BY <1>1, <1>b, <1>c, <2>1 DEF Promised!Next, Promised!Fail
  <2>2. CASE Phase = "ended"
    BY <1>1, <1>b, <1>c, <2>2 DEF Promised!cxVars
  <2> QED
    BY <1>c, <2>1, <2>2
<1>2. CASE hist'.closed # hist.closed
  <2>1. /\ Running("close") \/ Running("shutDown")
        /\ Running("close") => ~Pending
        /\ ~conn.disc /\ hist'.closed = hist.closed + 1
    BY <1>2, CloseStep
  <2>2. hist.closed = 0 /\ hist'.closed = 1
    BY <2>1 DEF ClosedWhen
  <2>3. hist.shutDowns > 0 \/ Len(sock.wire) = hist.sends * MsgSize
    <3>1. CASE Running("close")
      <4>1. conn.bufOut = <<>>
        BY <2>1, <3>1 DEF Pending
      <4>2. sock.wire \o <<>> = sock.wire
        BY <1>a
      <4>3. sock.wire = [i \in 1 .. hist.sends * MsgSize |-> i]
        BY <4>1, <4>2 DEF StreamIntegrity
      <4> QED
        BY <1>a, <4>3
    <3>2. CASE Running("shutDown")
      <4>1. loop.stack \notin Seq(CallFrames)
        <5>1. loop.stack # <<>> /\ Head(loop.stack) = "shutDown"
          BY <3>2 DEF Running
        <5>2. \A s \in Seq(CallFrames) : s # <<>> => Head(s) \in CallFrames
          OBVIOUS
        <5> QED
          BY <5>1, <5>2 DEF CallFrames
      <4> QED
        BY <4>1 DEF EndKnown, StackKnown
    <3> QED
      BY <2>1, <3>1, <3>2
  <2>4. Promised!Close
    BY <1>b, <1>c, <2>2, <2>3 DEF Promised!Close
  <2> QED
    BY <2>4 DEF Promised!Next
<1> QED
  BY <1>1, <1>2

LEMMA PromiseStep ==
  ASSUME Workers = {}, Typed, Bounded, StreamIntegrity, ClosedWhen, EndKnown,
         [Next]_vars
  PROVE  [Promised!Next]_(Promised!cxVars)
<1>a. hist.cleanups \in Nat /\ hist.shutDowns \in Nat /\ hist.closed \in Nat
  BY DEF Typed, HistSet
<1>1. CASE UNCHANGED vars
  BY <1>1 DEF vars, Phase, Promised!cxVars
<1>2. CASE Alive /\ Quiet
  <2>1. CASE hist'.closed = hist.closed
    BY <1>2, <2>1, QuietPromise
  <2>2. CASE hist'.closed # hist.closed
    <3>1. Disconnect
      BY <2>2, CloseStep
    <3>2. hist'.cleanups = hist.cleanups + 1
      BY <3>1 DEF Disconnect, Typed, HistSet
    <3> QED
      BY <1>2, <1>a, <3>2 DEF Quiet
  <2> QED
    BY <2>1, <2>2
<1>3. CASE Alive /\ Cleaned
  BY <1>3, CleanedPromise
<1>4. CASE Alive /\ Asked
  <2>1. Phase' = Phase /\ Phase # "gone" /\ hist'.shutDowns > 0
    BY <1>4, <1>a DEF Asked, Phase, Alive
  <2> QED
    BY <1>4, <2>1 DEF Asked, Promised!Next, Promised!AskEnd
<1>5. CASE Alive /\ Destroyed
  <2>1. Phase = "ended" /\ Phase' = "gone"
    BY <1>5 DEF Destroyed, EndKnown, Phase, Alive
  <2> QED
    BY <1>5, <2>1 DEF Destroyed, Promised!Next, Promised!Destroy
<1> QED
  BY <1>1, <1>2, <1>3, <1>4, <1>5, StepAlive, EndCounts

\* Spec => ConnectionSafe: the connection whose application sends on the
\* loop's thread implements the abstract one, whatever the socket accepts and
\* however deep the callbacks nest: what is given is written in order, the
\* connection closes once, after all is written or shutDown was asked for, and
\* its object is destroyed only after its cleanup was queued
\* (TcpConnection.cpp:114-268).
THEOREM KeepsPromise ==
  ASSUME Workers = {}
  PROVE  Spec => ConnectionSafe
<1> DEFINE Inv == Typed /\ Bounded /\ StreamIntegrity /\ ClosedWhen /\ EndKnown
<1>1. Init => Inv
  <2> SUFFICES ASSUME Init PROVE Inv
    OBVIOUS
  <2>1. Typed /\ Bounded
    BY InitTypes
  <2>2. sock.wire = <<>> /\ conn.bufOut = <<>> /\ hist.sends * MsgSize = 0
    BY Consts DEF Init
  <2>3. [i \in 1 .. 0 |-> i] = <<>>
    OBVIOUS
  <2>4. StreamIntegrity
    BY <2>2, <2>3 DEF StreamIntegrity
  <2>5. ClosedWhen
    BY DEF Init, ClosedWhen
  <2>6. EndKnown
    <3>1. loop.stack \in Seq(CallFrames)
      BY DEF Init, CallFrames, Frames
    <3> QED
      BY <3>1 DEF Init, EndKnown, EndTasks, StackKnown
  <2> QED
    BY <2>1, <2>4, <2>5, <2>6
<1>2. Inv /\ [Next]_vars => Inv'
  <2> SUFFICES ASSUME Inv, [Next]_vars PROVE Inv'
    OBVIOUS
  <2>1. Typed' /\ Bounded'
    BY StepTypes
  <2>2. StreamIntegrity' /\ EndKnown'
    BY StreamStep, EndKnownStep
  <2>3. ClosedWhen'
    <3>1. hist.closed \in Nat /\ conn.disc \in BOOLEAN
      BY DEF Typed, ConnSet, HistSet
    <3> QED
      BY <3>1, CloseStep DEF ClosedWhen
  <2> QED
    BY <2>1, <2>2, <2>3
<1>3. Init => Promised!Init
  <2> SUFFICES ASSUME Init PROVE Promised!Init
    OBVIOUS
  <2>1. hist.sends * MsgSize = 0 /\ Phase = "open"
    BY Consts DEF Init, Phase
  <2> QED
    BY <2>1 DEF Init, Promised!Init
<1>4. Inv /\ [Next]_vars => [Promised!Next]_(Promised!cxVars)
  BY PromiseStep
<1> HIDE DEF Inv
<1> QED
  BY <1>1, <1>2, <1>3, <1>4, PTL DEF Spec, ConnectionSafe, Promised!SafeSpec

==============================================================================
