---------------------------- MODULE FileTransfer ----------------------------
(***************************************************************************)
(* FileOperator sending a file over a TcpConnection, as TestFile uses it:  *)
(* the application's thread reads and sends the first block, and every     *)
(* completed send makes the loop thread read and send the next.            *)
(*                                                                         *)
(* Units of the file are numbered from 1; a block is Block of them         *)
(* (MAX_BUFFER_LENGTH).  Of the connection there are bufferOut_, the send  *)
(* buffer and halfClose_ (module TcpConnection).                           *)
(***************************************************************************)
EXTENDS Integers, Sequences

CONSTANTS
  Block,       \* MAX_BUFFER_LENGTH
  Lengths,     \* the lengths the file may have
  SndCap,      \* capacity of the socket's send buffer
  Zero,        \* the unit of the file that is a zero byte; 0, none is
  MaxOver,     \* bound: bytes up to the zero byte that follows the array ptr
  MaxChats,    \* bound: other messages the application sends
  ChatsFirst,  \* it sends them also before the transfer starts
  MaxStarts,   \* bound: calls of startSendFile
  MaxWrites    \* bound: blocks received into the file

ASSUME TransferAssumption ==
  /\ {Block, SndCap} \subseteq Nat \ {0}
  /\ Lengths \subseteq Nat
  /\ {Zero, MaxOver, MaxChats, MaxStarts, MaxWrites} \subseteq Nat
  /\ ChatsFirst \in BOOLEAN

VARIABLES
  file,    \* state of pFile_ ("open", or "closed" and still pointed to), length,
           \* pos, the offset of its next read
  app,     \* the application's thread: pc, and str, the block it has read
  flags,   \* sended (isSended), complete (isSendFileComplete)
  out,     \* bufferOut_
  net,     \* conn ("open", "half", "closed"), used (units in the send buffer),
           \* armed (EPOLLOUT asked for)
  loop,    \* the loop thread: pc, tasks (sends posted to it), depth (of the calls
           \* of onWriteComplete inside each other)
  hist,    \* history: wire (units written), from (pos at startSendFile), and the
           \* calls made: starts, chats, writes
  exited   \* "no", or what the process did that is undefined

vars == <<file, app, flags, out, net, loop, hist, exited>>

Chat == 0
Junk == -1

Init ==
  /\ \E n \in Lengths : file = [state |-> "open", length |-> n, pos |-> 0]
  /\ app = [pc |-> "idle", str |-> <<>>]
  /\ flags = [sended |-> FALSE, complete |-> FALSE]
  /\ out = <<>>
  /\ net = [conn |-> "open", used |-> 0, armed |-> FALSE]
  /\ loop = [pc |-> "idle", tasks |-> 0, depth |-> 0]
  /\ hist = [wire |-> <<>>, from |-> 0, starts |-> 0, chats |-> 0, writes |-> 0]
  /\ exited = "no"

Alive == exited = "no"
SmallerOf(a, b) == IF a <= b THEN a ELSE b

-----------------------------------------------------------------------------
(* readFromFile *)

ReadBytes == SmallerOf(Block, file.length - file.pos)
UnitsRead == [i \in 1 .. ReadBytes |-> file.pos + i]
HasRead == [file EXCEPT !.pos = @ + ReadBytes]

\* (mutant) the last byte is given up for a terminator
BlockStringsShort ==
  {SubSeq(UnitsRead, 1, SmallerOf(ReadBytes, Block - 1))}

\* buffer = ptr: up to the first zero byte.  Behind a full block, the first zero
\* byte is wherever the memory after ptr has one.
BlockStrings ==
  IF Zero \in file.pos + 1 .. file.pos + ReadBytes
    THEN {[i \in 1 .. Zero - file.pos - 1 |-> file.pos + i]}
    ELSE {UnitsRead \o [i \in 1 .. over |-> Junk] :
             over \in IF ReadBytes = Block THEN 0 .. MaxOver ELSE {0}}

\* fread of a FILE that fclose has freed.
Reads == IF file.state = "open" THEN UNCHANGED exited
                                ELSE exited' = "read of a closed FILE"

-----------------------------------------------------------------------------
(* The application's thread *)

\* startSendFile: isSendFileComplete, selectFile (names only), isSended.
StartSendFile ==
  /\ Alive /\ app.pc = "idle" /\ hist.starts < MaxStarts
  /\ app' = [app EXCEPT !.pc = "read"]
  /\ flags' = [sended |-> FALSE, complete |-> FALSE]
  /\ hist' = [hist EXCEPT !.starts = @ + 1, !.from = file.pos]
  /\ UNCHANGED <<file, out, net, loop, exited>>

\* sendByTcp reads the first block, if the file has any left.
ReadFirst ==
  /\ Alive /\ app.pc = "read"
  /\ Reads
  /\ file' = HasRead
  /\ \E str \in BlockStrings :
        app' = IF ReadBytes = 0 THEN [app EXCEPT !.pc = "idle"]
                                ELSE [pc |-> "send", str |-> str]
  /\ UNCHANGED <<flags, out, net, loop, hist>>

\* sendString from another thread than the loop's.
SendString(str) ==
  /\ out' = out \o str
  /\ loop' = [loop EXCEPT !.tasks = @ + 1]

SendFirst ==
  /\ Alive /\ app.pc = "send"
  /\ SendString(app.str)
  /\ app' = [pc |-> "idle", str |-> <<>>]
  /\ UNCHANGED <<file, flags, net, hist, exited>>

\* Any other message on the same connection.
SendMessage ==
  /\ Alive /\ app.pc = "idle" /\ hist.chats < MaxChats
  /\ hist.starts > 0 \/ ChatsFirst
  /\ SendString(<<Chat>>)
  /\ hist' = [hist EXCEPT !.chats = @ + 1]
  /\ UNCHANGED <<file, app, flags, net, exited>>

\* receiveFromTcp appends what arrives; the offset follows (mode a+b).
ReceiveFromTcp ==
  /\ Alive /\ app.pc = "idle" /\ hist.starts = 0 /\ hist.writes < MaxWrites
  /\ file' = [file EXCEPT !.length = @ + Block, !.pos = file.length + Block]
  /\ hist' = [hist EXCEPT !.writes = @ + 1]
  /\ IF file.state = "open" THEN UNCHANGED exited
                            ELSE exited' = "write to a closed FILE"
  /\ UNCHANGED <<app, flags, out, net, loop>>

\* close(), and the deleter of pFile_ when the FileOperator is destroyed.
CloseFile ==
  /\ Alive /\ app.pc = "idle" /\ hist.starts = MaxStarts /\ flags.complete
  /\ file' = [file EXCEPT !.state = "closed"]
  /\ exited' = IF file.state = "open" THEN "no" ELSE "FILE closed twice"
  /\ UNCHANGED <<app, flags, out, net, loop, hist>>

-----------------------------------------------------------------------------
(* The loop thread *)

Room == SndCap - net.used
Writes == SmallerOf(Len(out), Room)

\* (mutant) the rest of a partial send does not ask for EPOLLOUT
AsksForOutNever(rest) == FALSE

AsksForOut(rest) == rest # <<>>

Serving == Alive /\ net.conn # "closed"

RunTask == /\ Serving /\ loop.pc = "idle" /\ loop.tasks > 0
           /\ loop' = [loop EXCEPT !.pc = "write", !.tasks = @ - 1]
           /\ UNCHANGED <<file, app, flags, out, net, hist, exited>>

HandleOut == /\ Serving /\ loop.pc = "idle" /\ net.armed /\ Room > 0
             /\ loop' = [loop EXCEPT !.pc = "write"]
             /\ UNCHANGED <<file, app, flags, out, net, hist, exited>>

\* sendInLoop and handleWrite.  A send that writes nothing is taken for a close
\* by the peer: handleClose ends the connection or, with output left, half-closes.
Write ==
  /\ Serving /\ loop.pc = "write"
  /\ LET rest == SubSeq(out, Writes + 1, Len(out))
     IN  /\ hist' = [hist EXCEPT !.wire = @ \o SubSeq(out, 1, Writes)]
         /\ out' = rest
         /\ net' = [conn |-> IF Writes > 0 THEN net.conn
                             ELSE IF out = <<>> THEN "closed" ELSE "half",
                    used |-> net.used + Writes,
                    armed |-> IF Writes > 0 THEN AsksForOut(rest) ELSE net.armed]
         /\ loop' = IF Writes > 0 /\ rest = <<>>
                      THEN [loop EXCEPT !.pc = "complete", !.depth = @ + 1]
                      ELSE [loop EXCEPT !.pc = "idle", !.depth = 0]
  /\ UNCHANGED <<file, app, flags, exited>>

\* (mutant) a short block is taken for the last
AtEndShort == ReadBytes < Block

AtEnd == ReadBytes = 0

\* onWriteComplete.  When it sends, sendString runs sendInLoop at once, inside
\* this call; when not, a half-closed connection is closed.
OnWriteComplete ==
  /\ Serving /\ loop.pc = "complete"
  /\ Reads
  /\ file' = HasRead
  /\ flags' = IF AtEnd THEN [sended |-> TRUE, complete |-> TRUE] ELSE flags
  /\ IF AtEnd \/ flags.sended
       THEN /\ loop' = [loop EXCEPT !.pc = "idle", !.depth = 0]
            /\ net' = [net EXCEPT !.conn = IF @ = "half" THEN "closed" ELSE @]
            /\ UNCHANGED out
       ELSE /\ loop' = [loop EXCEPT !.pc = "write"]
            /\ \E str \in BlockStrings : out' = out \o str
            /\ UNCHANGED net
  /\ UNCHANGED <<app, hist>>

PeerReads == /\ Alive /\ net.used > 0
             /\ net' = [net EXCEPT !.used = @ - 1]
             /\ UNCHANGED <<file, app, flags, out, loop, hist, exited>>

\* The transfer is over, was not started, or stands still.
Rest == /\ ~Alive \/ net.conn # "open" \/ (loop.pc = "idle" /\ loop.tasks = 0)
        /\ UNCHANGED vars

Loop == RunTask \/ HandleOut \/ Write \/ OnWriteComplete
Next == \/ StartSendFile \/ ReadFirst \/ SendFirst \/ SendMessage
        \/ ReceiveFromTcp \/ CloseFile \/ Loop \/ PeerReads \/ Rest

Spec == Init /\ [][Next]_vars

\* The loop runs, the application's thread goes on inside sendByTcp, and the
\* peer reads.
FairSpec == /\ Spec
            /\ WF_vars(Loop) /\ WF_vars(ReadFirst) /\ WF_vars(SendFirst)
            /\ WF_vars(PeerReads)

-----------------------------------------------------------------------------
(* Properties *)

\* The units of the file in a stream, and that they come in their order, once.
Units(s) == {s[i] : i \in {j \in DOMAIN s : s[j] # Chat}}
Ascending(s) ==
  \A i \in DOMAIN s, j \in DOMAIN s :
    i < j /\ s[i] # Chat /\ s[j] # Chat => s[i] < s[j]

\* The variables stay in their ranges.
TypeOK ==
  /\ file \in [state : {"open", "closed"}, length : Nat, pos : Nat]
  /\ file.pos <= file.length
  /\ app \in [pc : {"idle", "read", "send"}, str : Seq(Int)]
  /\ flags \in [sended : BOOLEAN, complete : BOOLEAN]
  /\ out \in Seq(Int)
  /\ net \in [conn : {"open", "half", "closed"}, used : Nat, armed : BOOLEAN]
  /\ net.used <= SndCap
  /\ loop \in [pc : {"idle", "write", "complete"}, tasks : Nat, depth : Nat]
  /\ hist \in [wire : Seq(Int), from : Nat, starts : Nat, chats : Nat, writes : Nat]
  /\ hist.starts <= MaxStarts /\ hist.chats <= MaxChats /\ hist.writes <= MaxWrites
  /\ exited \in {"no", "read of a closed FILE", "write to a closed FILE",
                 "FILE closed twice"}

\* What the peer gets of the file is a prefix of it, from the offset at which
\* the transfer started: no block is lost, repeated or overtaken, whichever
\* thread read it and whatever else is sent (FileOperator.cpp:87, 149).
PiecesInOrder ==
  /\ Ascending(hist.wire)
  /\ \A u \in Units(hist.wire) :
       hist.from < u /\ hist.from + 1 .. u \subseteq Units(hist.wire)

\* onSended_ is called only when the whole rest of the file was written.
CompleteMeansSent ==
  flags.complete => Units(hist.wire) = hist.from + 1 .. file.length

\* A transfer that sends its first block goes on to the end, unless the
\* connection took a full send buffer for a close.
TransferCompletes ==
  (app.pc = "send") ~> (flags.complete \/ net.conn # "open")

\* TestFile's main waits for isSendFileComplete, whatever the file
\* (TestFile.cpp:74): every transfer that starts completes.
StartedCompletes == (app.pc = "read") ~> (flags.complete \/ net.conn # "open")

\* startSendFile sends the file, not what is behind the last read or write.
WholeFile == hist.starts > 0 => hist.from = 0

\* The calls of sendInLoop and onWriteComplete inside each other end when the
\* send buffer is full.
StackBounded == (loop.depth - 1) * Block <= SndCap

\* The connection survives the transfer.
StaysOpen == net.conn = "open"

\* The file is closed once.
FileClosedOnce == exited # "FILE closed twice"

=============================================================================
