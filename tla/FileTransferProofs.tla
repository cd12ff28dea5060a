------------------------- MODULE FileTransferProofs -------------------------
(***************************************************************************)
(* Proofs about FileTransfer, for any block size, send buffer and lengths  *)
(* of the file:                                                            *)
(*   TypeCorrect   the variables keep their types;                         *)
(*   InOrder       the peer gets a prefix of the file (PiecesInOrder);     *)
(*   WholeSent     onSended_ follows the last unit (CompleteMeansSent).    *)
(* The last two are about one transfer of a file without zero bytes, as    *)
(* the runs check them.                                                    *)
(***************************************************************************)
EXTENDS FileTransfer, TLAPS, SequenceTheorems

-----------------------------------------------------------------------------
(* Streams of units *)

\* The units of one stream behind another.
LEMMA ConcatUnits ==
  ASSUME NEW s \in Seq(Int), NEW t \in Seq(Int)
  PROVE  Units(s \o t) = Units(s) \cup Units(t)
<1>1. /\ Len(s \o t) = Len(s) + Len(t)
      /\ \A i \in 1 .. Len(s) : (s \o t)[i] = s[i]
      /\ \A i \in 1 .. Len(t) : (s \o t)[Len(s) + i] = t[i]
  OBVIOUS
<1>2. /\ DOMAIN s = 1 .. Len(s) /\ DOMAIN t = 1 .. Len(t)
      /\ DOMAIN (s \o t) = 1 .. Len(s) + Len(t)
  BY <1>1
<1>3. Len(s) \in Nat /\ Len(t) \in Nat
  OBVIOUS
<1>4. ASSUME NEW u \in Units(s)
      PROVE  u \in Units(s \o t)
  <2>1. PICK i \in 1 .. Len(s) : s[i] # Chat /\ u = s[i]
    BY <1>2 DEF Units
  <2> QED
    BY <1>1, <1>2, <1>3, <2>1 DEF Units
<1>5. ASSUME NEW u \in Units(t)
      PROVE  u \in Units(s \o t)
  <2>1. PICK i \in 1 .. Len(t) : t[i] # Chat /\ u = t[i]
    BY <1>2 DEF Units
  <2>2. Len(s) + i \in 1 .. Len(s) + Len(t)
    BY <1>3
  <2> QED
    BY <1>1, <1>2, <2>1, <2>2 DEF Units
<1>6. ASSUME NEW u \in Units(s \o t)
      PROVE  u \in Units(s) \cup Units(t)
  <2>1. PICK i \in 1 .. Len(s) + Len(t) : (s \o t)[i] # Chat /\ u = (s \o t)[i]
    BY <1>2 DEF Units
  <2>2. CASE i \in 1 .. Len(s)
    BY <1>1, <1>2, <2>1, <2>2 DEF Units
  <2>3. CASE i \notin 1 .. Len(s)
    <3>1. i - Len(s) \in 1 .. Len(t) /\ i = Len(s) + (i - Len(s))
      BY <1>3, <2>3
    <3>2. u = t[i - Len(s)] /\ t[i - Len(s)] # Chat
      BY <1>1, <2>1, <3>1
    <3> QED
      BY <1>2, <3>1, <3>2 DEF Units
  <2> QED
    BY <2>2, <2>3
<1> QED
  BY <1>4, <1>5, <1>6

\* A stream that ascends, followed by one whose units are all greater.
LEMMA ConcatAscends ==
  ASSUME NEW s \in Seq(Int), NEW t \in Seq(Int), Ascending(s), Ascending(t),
         \A u \in Units(s), v \in Units(t) : u < v
  PROVE  Ascending(s \o t)
<1>1. /\ Len(s \o t) = Len(s) + Len(t)
      /\ \A i \in 1 .. Len(s) : (s \o t)[i] = s[i]
      /\ \A i \in 1 .. Len(t) : (s \o t)[Len(s) + i] = t[i]
  OBVIOUS
<1>2. /\ DOMAIN s = 1 .. Len(s) /\ DOMAIN t = 1 .. Len(t)
      /\ DOMAIN (s \o t) = 1 .. Len(s) + Len(t)
  BY <1>1
<1>3. Len(s) \in Nat /\ Len(t) \in Nat
  OBVIOUS
<1>4. SUFFICES ASSUME NEW i \in 1 .. Len(s) + Len(t),
                      NEW j \in 1 .. Len(s) + Len(t),
                      i < j, (s \o t)[i] # Chat, (s \o t)[j] # Chat
               PROVE  (s \o t)[i] < (s \o t)[j]
  BY <1>2 DEF Ascending
<1>5. CASE j \in 1 .. Len(s)
  <2>1. i \in 1 .. Len(s)
    BY <1>3, <1>4, <1>5
  <2> QED
    BY <1>1, <1>2, <1>4, <1>5, <2>1 DEF Ascending
<1>6. CASE i \in 1 .. Len(s) /\ j \notin 1 .. Len(s)
  <2>1. j - Len(s) \in 1 .. Len(t) /\ j = Len(s) + (j - Len(s))
    BY <1>3, <1>6
  <2>2. (s \o t)[i] \in Units(s) /\ (s \o t)[j] \in Units(t)
    BY <1>1, <1>2, <1>4, <1>6, <2>1 DEF Units
  <2> QED
    BY <2>2
<1>7. CASE i \notin 1 .. Len(s)
  <2>1. /\ i - Len(s) \in 1 .. Len(t) /\ i = Len(s) + (i - Len(s))
        /\ j - Len(s) \in 1 .. Len(t) /\ j = Len(s) + (j - Len(s))
        /\ i - Len(s) < j - Len(s)
    BY <1>3, <1>4, <1>7
  <2>2. (s \o t)[i] = t[i - Len(s)] /\ (s \o t)[j] = t[j - Len(s)]
    BY <1>1, <2>1
  <2>3. i - Len(s) \in DOMAIN t /\ j - Len(s) \in DOMAIN t
    BY <1>2, <2>1
  <2> QED
    BY <1>4, <2>1, <2>2, <2>3 DEF Ascending
<1> QED
  BY <1>5, <1>6, <1>7

\* The first part of a stream.
LEMMA PrefixAscends ==
  ASSUME NEW s \in Seq(Int), NEW t \in Seq(Int), Ascending(s \o t)
  PROVE  /\ Ascending(s)
         /\ \A u \in Units(s), v \in Units(t) : u < v
<1>1. /\ Len(s \o t) = Len(s) + Len(t)
      /\ \A i \in 1 .. Len(s) : (s \o t)[i] = s[i]
      /\ \A i \in 1 .. Len(t) : (s \o t)[Len(s) + i] = t[i]
  OBVIOUS
<1>2. /\ DOMAIN s = 1 .. Len(s) /\ DOMAIN t = 1 .. Len(t)
      /\ DOMAIN (s \o t) = 1 .. Len(s) + Len(t)
  BY <1>1
<1>3. Len(s) \in Nat /\ Len(t) \in Nat
  OBVIOUS
<1>4. Ascending(s)
  <2>1. SUFFICES ASSUME NEW i \in 1 .. Len(s), NEW j \in 1 .. Len(s),
                        i < j, s[i] # Chat, s[j] # Chat
                 PROVE  s[i] < s[j]
    BY <1>2 DEF Ascending
  <2>2. i \in DOMAIN (s \o t) /\ j \in DOMAIN (s \o t)
    BY <1>2, <1>3
  <2>3. (s \o t)[i] = s[i] /\ (s \o t)[j] = s[j]
    BY <1>1
  <2> QED
    BY <2>1, <2>2, <2>3 DEF Ascending
<1>5. ASSUME NEW u \in Units(s), NEW v \in Units(t)
      PROVE  u < v
  <2>1. PICK i \in 1 .. Len(s) : s[i] # Chat /\ u = s[i]
    BY <1>2 DEF Units
  <2>2. PICK j \in 1 .. Len(t) : t[j] # Chat /\ v = t[j]
    BY <1>2 DEF Units
  <2>3. i \in DOMAIN (s \o t) /\ Len(s) + j \in DOMAIN (s \o t) /\ i < Len(s) + j
    BY <1>2, <1>3
  <2> QED
    BY <1>1, <2>1, <2>2, <2>3 DEF Ascending
<1> QED
  BY <1>4, <1>5

\* What has been written and what is left of a stream are the stream.
LEMMA SplitStream ==
  ASSUME NEW s \in Seq(Int), NEW n \in Nat, n <= Len(s)
  PROVE  /\ SubSeq(s, 1, n) \in Seq(Int)
         /\ SubSeq(s, n + 1, Len(s)) \in Seq(Int)
         /\ s = SubSeq(s, 1, n) \o SubSeq(s, n + 1, Len(s))
<1>1. Len(s) \in Nat /\ s = [i \in 1 .. Len(s) |-> s[i]]
  OBVIOUS
<1>2. \A i \in 1 .. Len(s) : s[i] \in Int
  OBVIOUS
<1>3. SubSeq(s, 1, n) \in Seq(Int)
  <2>1. \A i \in 1 .. n : s[i] \in Int
    BY <1>1, <1>2
  <2> QED
    BY <1>1, <2>1, SubSeqProperties
<1>4. SubSeq(s, n + 1, Len(s)) \in Seq(Int)
  <2>1. \A i \in n + 1 .. Len(s) : s[i] \in Int
    BY <1>1, <1>2
  <2> QED
    BY <1>1, <2>1, SubSeqProperties
<1>5. SubSeq(s, 1, n) \o SubSeq(s, n + 1, Len(s)) = SubSeq(s, 1, Len(s))
  <2>1. 1 \in 1 .. Len(s) + 1 /\ n \in 1 - 1 .. Len(s) /\ Len(s) \in n .. Len(s)
    BY <1>1
  <2> QED
    BY <2>1, ConcatAdjacentSubSeq
<1>6. SubSeq(s, 1, Len(s)) = s
  BY SubSeqFull
<1> QED
  BY <1>3, <1>4, <1>5, <1>6

-----------------------------------------------------------------------------
(* Types *)

FileSet == [state : {"open", "closed"}, length : Nat, pos : Nat]
AppSet == [pc : {"idle", "read", "send"}, str : Seq(Int)]
FlagSet == [sended : BOOLEAN, complete : BOOLEAN]
NetSet == [conn : {"open", "half", "closed"}, used : Nat, armed : BOOLEAN]
LoopSet == [pc : {"idle", "write", "complete"}, tasks : Nat, depth : Nat]
HistSet == [wire : Seq(Int), from : Nat, starts : Nat, chats : Nat, writes : Nat]
Exits == {"no", "read of a closed FILE", "write to a closed FILE",
          "FILE closed twice"}

Typed ==
  /\ file \in FileSet /\ file.pos <= file.length
  /\ app \in AppSet
  /\ flags \in FlagSet
  /\ out \in Seq(Int)
  /\ net \in NetSet /\ net.used <= SndCap
  /\ loop \in LoopSet
  /\ hist \in HistSet
  /\ hist.starts <= MaxStarts /\ hist.chats <= MaxChats /\ hist.writes <= MaxWrites
  /\ exited \in Exits

\* TypeOK, with a name for each set of records.
LEMMA TypedSame == Typed <=> TypeOK
BY DEF Typed, TypeOK, FileSet, AppSet, FlagSet, NetSet, LoopSet, HistSet, Exits

LEMMA Bounds ==
  /\ Block \in Nat /\ Block > 0
  /\ SndCap \in Nat /\ SndCap > 0
  /\ Zero \in Nat /\ MaxOver \in Nat /\ MaxChats \in Nat
  /\ MaxStarts \in Nat /\ MaxWrites \in Nat
  /\ \A n \in Lengths : n \in Nat
BY TransferAssumption

\* What readFromFile reads, and what the string made of it can be.
LEMMA ReadFacts ==
  ASSUME Typed
  PROVE  /\ file.length \in Nat /\ file.pos \in Nat /\ file.pos <= file.length
         /\ ReadBytes \in Nat /\ file.pos + ReadBytes <= file.length
         /\ ReadBytes = 0 <=> file.pos = file.length
         /\ UnitsRead \in Seq(Int) /\ Len(UnitsRead) = ReadBytes
         /\ \A i \in 1 .. ReadBytes : UnitsRead[i] = file.pos + i
         /\ BlockStrings \subseteq Seq(Int)
         /\ HasRead.state = file.state /\ HasRead.length = file.length
         /\ HasRead.pos = file.pos + ReadBytes
         /\ HasRead \in FileSet
<1>1. /\ file.length \in Nat /\ file.pos \in Nat /\ file.pos <= file.length
      /\ file.state \in {"open", "closed"}
      /\ file = [state |-> file.state, length |-> file.length, pos |-> file.pos]
  BY DEF Typed, FileSet
<1>2. /\ ReadBytes \in Nat /\ file.pos + ReadBytes <= file.length
      /\ ReadBytes = 0 <=> file.pos = file.length
  BY <1>1, Bounds DEF ReadBytes, SmallerOf
<1>3. /\ UnitsRead \in Seq(Int) /\ Len(UnitsRead) = ReadBytes
      /\ \A i \in 1 .. ReadBytes : UnitsRead[i] = file.pos + i
  BY <1>1, <1>2 DEF UnitsRead
<1>4. ASSUME NEW str \in BlockStrings
      PROVE  str \in Seq(Int)
  <2>1. CASE Zero \in file.pos + 1 .. file.pos + ReadBytes
    <3>1. str = [i \in 1 .. Zero - file.pos - 1 |-> file.pos + i]
      BY <1>4, <2>1 DEF BlockStrings
    <3>2. Zero - file.pos - 1 \in Nat
      BY <1>1, <1>2, <2>1, Bounds
    <3> QED
      BY <1>1, <3>1, <3>2
  <2>2. CASE Zero \notin file.pos + 1 .. file.pos + ReadBytes
    <3>1. PICK over \in IF ReadBytes = Block THEN 0 .. MaxOver ELSE {0} :
            str = UnitsRead \o [i \in 1 .. over |-> Junk]
      BY <1>4, <2>2 DEF BlockStrings
    <3>3. over \in Nat
      BY <3>1, Bounds
    <3>2. [i \in 1 .. over |-> Junk] \in Seq(Int)
      BY <3>3 DEF Junk
    <3> QED
      BY <1>3, <3>1, <3>2
  <2> QED
    BY <2>1, <2>2
<1>5. /\ HasRead.state = file.state /\ HasRead.length = file.length
      /\ HasRead.pos = file.pos + ReadBytes
      /\ HasRead = [state |-> file.state, length |-> file.length,
                    pos |-> file.pos + ReadBytes]
  BY <1>1 DEF HasRead
<1>6. HasRead \in FileSet
  BY <1>1, <1>2, <1>5 DEF FileSet
<1> QED
  BY <1>1, <1>2, <1>3, <1>4, <1>5, <1>6

\* What a send writes of the output: no more than there is, and than fits.
LEMMA WriteFacts ==
  ASSUME Typed
  PROVE  /\ Writes \in Nat /\ Writes <= Len(out)
         /\ net.used + Writes \in Nat /\ net.used + Writes <= SndCap
<1>1. out \in Seq(Int)
  BY DEF Typed
<1>2. net.used \in Nat /\ net.used <= SndCap
  BY Bounds DEF Typed, NetSet
<1>3. Len(out) \in Nat
  BY <1>1
<1> QED
  BY <1>2, <1>3, Bounds DEF Writes, Room, SmallerOf

LEMMA InitTypes == Init => Typed
<1> SUFFICES ASSUME Init PROVE Typed
  OBVIOUS
<1>1. PICK n \in Lengths : file = [state |-> "open", length |-> n, pos |-> 0]
  BY DEF Init
<1>2. /\ file \in FileSet
      /\ file.pos <= file.length
  BY <1>1, Bounds DEF FileSet
<1>3. 0 <= SndCap /\ 0 <= MaxStarts /\ 0 <= MaxChats /\ 0 <= MaxWrites
  BY Bounds
<1>4. <<>> \in Seq(Int)
  OBVIOUS
<1> QED
  BY <1>2, <1>3, <1>4
  DEF Init, Typed, AppSet, FlagSet, NetSet, LoopSet, HistSet, Exits

\* Every step keeps the types.
LEMMA StepTypes ==
  ASSUME Typed, [Next]_vars
  PROVE  Typed'
<1> USE DEF Alive
<1>a. /\ file \in FileSet /\ app \in AppSet /\ flags \in FlagSet
      /\ out \in Seq(Int) /\ exited \in Exits
  BY DEF Typed
<1>b. loop \in LoopSet
  BY DEF Typed
<1>c. hist \in HistSet
  BY DEF Typed
<1>d. net \in NetSet /\ net.used <= SndCap
  BY DEF Typed
<1>e. hist.starts <= MaxStarts /\ hist.chats <= MaxChats /\ hist.writes <= MaxWrites
  BY DEF Typed
<1>0. Reads => exited' \in Exits
  BY <1>a DEF Reads, Exits
<1>1. CASE StartSendFile
  <2>1. /\ hist.starts + 1 <= MaxStarts /\ file.pos \in Nat
        /\ hist' = [hist EXCEPT !.starts = @ + 1, !.from = file.pos]
    BY <1>1, <1>c, Bounds, ReadFacts, SMTT(30) DEF StartSendFile, HistSet
  <2>2. /\ hist' \in HistSet /\ hist'.starts = hist.starts + 1
        /\ hist'.chats = hist.chats /\ hist'.writes = hist.writes
    <3>1. hist.starts + 1 \in Nat
      BY <1>c DEF HistSet
    <3> QED
      BY <1>c, <2>1, <3>1 DEF HistSet
  <2>3. app' \in AppSet /\ flags' \in FlagSet
    BY <1>1, <1>a DEF StartSendFile, AppSet, FlagSet
  <2> QED
    BY <1>1, <2>1, <2>2, <2>3 DEF StartSendFile, Typed
<1>2. CASE ReadFirst
  <2>1. PICK str \in BlockStrings :
          app' = IF ReadBytes = 0 THEN [app EXCEPT !.pc = "idle"]
                                  ELSE [pc |-> "send", str |-> str]
    BY <1>2 DEF ReadFirst
  <2>2. str \in Seq(Int)
    BY <2>1, ReadFacts
  <2>3. app' \in AppSet
    BY <1>a, <2>1, <2>2 DEF AppSet
  <2> QED
    BY <1>0, <1>2, <2>3, ReadFacts DEF ReadFirst, Typed
<1>3. CASE SendFirst
  <2>1. app.str \in Seq(Int)
    BY <1>a DEF AppSet
  <2>2. out' \in Seq(Int)
    BY <1>3, <1>a, <2>1 DEF SendFirst, SendString
  <2>3. app' \in AppSet
    BY <1>3 DEF SendFirst, AppSet
  <2>4. loop' \in LoopSet
    BY <1>3, <1>b DEF SendFirst, SendString, LoopSet
  <2> QED
    BY <1>3, <2>2, <2>3, <2>4 DEF SendFirst, Typed
<1>4. CASE SendMessage
  <2>1. out' \in Seq(Int)
    BY <1>4, <1>a DEF SendMessage, SendString, Chat
  <2>2. hist.chats + 1 <= MaxChats /\ hist' = [hist EXCEPT !.chats = @ + 1]
    BY <1>4, <1>c, Bounds DEF SendMessage, HistSet
  <2>3. /\ hist' \in HistSet /\ hist'.starts = hist.starts
        /\ hist'.chats = hist.chats + 1 /\ hist'.writes = hist.writes
    <3>1. hist.chats + 1 \in Nat
      BY <1>c DEF HistSet
    <3> QED
      BY <1>c, <2>2, <3>1 DEF HistSet
  <2>4. loop' \in LoopSet
    BY <1>4, <1>b DEF SendMessage, SendString, LoopSet
  <2> QED
    BY <1>4, <2>1, <2>2, <2>3, <2>4 DEF SendMessage, Typed
<1>5. CASE ReceiveFromTcp
  <2>1. hist.writes + 1 <= MaxWrites /\ hist' = [hist EXCEPT !.writes = @ + 1]
    <3>1. hist.writes \in Nat /\ hist.writes < MaxWrites
      BY <1>5, <1>c DEF ReceiveFromTcp, HistSet
    <3>2. hist.writes + 1 <= MaxWrites
      BY <3>1, Bounds
    <3> QED
      BY <1>5, <3>2 DEF ReceiveFromTcp
  <2>2. /\ hist' \in HistSet /\ hist'.starts = hist.starts
        /\ hist'.chats = hist.chats /\ hist'.writes = hist.writes + 1
    <3>1. hist.writes + 1 \in Nat
      BY <1>c DEF HistSet
    <3> QED
      BY <1>c, <2>1, <3>1 DEF HistSet
  <2>3. file' = [state |-> file.state, length |-> file.length + Block,
                 pos |-> file.length + Block]
    BY <1>5, <1>a DEF ReceiveFromTcp, FileSet
  <2>4. file' \in FileSet /\ file'.pos <= file'.length
    BY <1>a, <2>3, Bounds DEF FileSet
  <2>5. exited' \in Exits
    BY <1>5, <1>a DEF ReceiveFromTcp, Exits
  <2> QED
    BY <1>5, <2>1, <2>2, <2>4, <2>5 DEF ReceiveFromTcp, Typed
<1>6. CASE CloseFile
  <2>1. file' \in FileSet /\ file'.pos = file.pos /\ file'.length = file.length
    BY <1>6, <1>a DEF CloseFile, FileSet
  <2>2. exited' \in Exits
    BY <1>6 DEF CloseFile, Exits
  <2> QED
    BY <1>6, <2>1, <2>2 DEF CloseFile, Typed
<1>7. CASE RunTask
  <2>1. loop' \in LoopSet
    <3>1. loop.tasks - 1 \in Nat
      BY <1>7, <1>b DEF RunTask, LoopSet
    <3> QED
      BY <1>7, <1>b, <3>1 DEF RunTask, LoopSet
  <2> QED
    BY <1>7, <2>1 DEF RunTask, Typed
<1>8. CASE HandleOut
  <2>1. loop' \in LoopSet
    BY <1>8, <1>b DEF HandleOut, LoopSet
  <2> QED
    BY <1>8, <2>1 DEF HandleOut, Typed
<1>9. CASE Write
  <2>1. /\ out' = SubSeq(out, Writes + 1, Len(out))
        /\ hist' = [hist EXCEPT !.wire = @ \o SubSeq(out, 1, Writes)]
        /\ UNCHANGED <<file, app, flags, exited>>
    BY <1>9 DEF Write
  <2>2. SubSeq(out, 1, Writes) \in Seq(Int) /\ out' \in Seq(Int)
    BY <1>a, <2>1, WriteFacts, SplitStream
  <2>3. hist.wire \in Seq(Int)
    BY <1>c DEF HistSet
  <2>4. hist.wire \o SubSeq(out, 1, Writes) \in Seq(Int)
    BY <2>2, <2>3
  <2>5. /\ hist' \in HistSet /\ hist'.starts = hist.starts
        /\ hist'.chats = hist.chats /\ hist'.writes = hist.writes
    BY <1>c, <2>1, <2>4 DEF HistSet
  <2>6. loop' \in LoopSet
    <3>1. loop.depth + 1 \in Nat
      BY <1>b DEF LoopSet
    <3>2. \/ loop' = [loop EXCEPT !.pc = "complete", !.depth = loop.depth + 1]
          \/ loop' = [loop EXCEPT !.pc = "idle", !.depth = 0]
      BY <1>9 DEF Write
    <3>3. CASE loop' = [loop EXCEPT !.pc = "complete", !.depth = loop.depth + 1]
      BY <1>b, <3>1, <3>3 DEF LoopSet
    <3>4. CASE loop' = [loop EXCEPT !.pc = "idle", !.depth = 0]
      BY <1>b, <3>4 DEF LoopSet
    <3> QED
      BY <3>2, <3>3, <3>4
  <2>7. net' \in NetSet /\ net'.used <= SndCap
    BY <1>9, <1>d, WriteFacts DEF Write, NetSet, AsksForOut
  <2> QED
    BY <2>1, <2>2, <2>5, <2>6, <2>7 DEF Typed
<1>10. CASE OnWriteComplete
  <2>1. file' = HasRead /\ UNCHANGED <<app, hist>> /\ exited' \in Exits
    BY <1>0, <1>10 DEF OnWriteComplete
  <2>2. CASE AtEnd \/ flags.sended
    <3>1. out' = out
      BY <1>10, <2>2 DEF OnWriteComplete
    <3>2. /\ net' = [net EXCEPT !.conn = IF @ = "half" THEN "closed" ELSE @]
          /\ loop' = [loop EXCEPT !.pc = "idle", !.depth = 0]
          /\ flags' = IF AtEnd THEN [sended |-> TRUE, complete |-> TRUE] ELSE flags
      BY <1>10, <2>2 DEF OnWriteComplete
    <3>3. net' \in NetSet /\ net'.used = net.used
      BY <1>d, <3>2 DEF NetSet
    <3>4. loop' \in LoopSet /\ flags' \in FlagSet
      BY <1>a, <1>b, <3>2 DEF LoopSet, FlagSet
    <3> QED
      BY <2>1, <3>1, <3>3, <3>4, ReadFacts DEF Typed
  <2>3. CASE ~ (AtEnd \/ flags.sended)
    <3>1. PICK str \in BlockStrings : out' = out \o str
      BY <1>10, <2>3 DEF OnWriteComplete
    <3>2. str \in Seq(Int)
      BY <3>1, ReadFacts
    <3>3. out' \in Seq(Int)
      BY <1>a, <3>1, <3>2
    <3>4. /\ net' = net /\ flags' = flags
          /\ loop' = [loop EXCEPT !.pc = "write"]
      BY <1>10, <2>3 DEF OnWriteComplete
    <3>5. loop' \in LoopSet
      BY <1>b, <3>4 DEF LoopSet
    <3> QED
      BY <2>1, <3>3, <3>4, <3>5, ReadFacts DEF Typed
  <2> QED
    BY <2>2, <2>3
<1>11. CASE PeerReads
  <2>1. net' \in NetSet /\ net'.used <= SndCap
    BY <1>11, <1>d, Bounds DEF PeerReads, NetSet
  <2> QED
    BY <1>11, <2>1 DEF PeerReads, Typed
<1>12. CASE UNCHANGED vars
  BY <1>12 DEF vars, Typed
<1> QED
  BY <1>1, <1>2, <1>3, <1>4, <1>5, <1>6, <1>7, <1>8, <1>9, <1>10, <1>11, <1>12
  DEF Next, Loop, Rest

\* The variables keep their types: the offset stays within the file, and the send
\* buffer never holds more than its capacity (FileOperator.cpp:99-150).
THEOREM TypeCorrect == Spec => []TypeOK
<1>1. Init => Typed
  BY InitTypes
<1>2. Typed /\ [Next]_vars => Typed'
  BY StepTypes
<1>3. Typed => TypeOK
  BY TypedSame
<1> QED
  BY <1>1, <1>2, <1>3, PTL DEF Spec

-----------------------------------------------------------------------------
(* One transfer of a file without zero bytes, on a connection that was not *)
(* used before it, where the byte that follows a full array happens to be  *)
(* zero: the premises of the run, without which blocks are cut or lengthened. *)

Plain == Zero = 0 /\ MaxOver = 0 /\ ~ ChatsFirst /\ MaxStarts <= 1

\* What is written, and what the connection still has of it.
Stream == hist.wire \o out

Untouched ==
  /\ out = <<>> /\ hist.wire = <<>>
  /\ loop.pc = "idle" /\ loop.tasks = 0 /\ ~ net.armed
  /\ ~ flags.sended /\ ~ flags.complete

\* Until the first block is handed over, the loop has nothing to do.
QuietBefore ==
  /\ hist.starts = 0 \/ app.pc # "idle" => Untouched
  /\ app.pc # "idle" => hist.starts > 0

\* The stream holds a piece of the file.
Holds(s) == Ascending(s) /\ Units(s) = hist.from + 1 .. file.pos

\* All that was read since startSendFile is in the application's hands, or it is
\* in the stream, in order.
AllThatWasRead ==
  /\ hist.starts > 0 => hist.from <= file.pos
  /\ app.pc = "read" => file.pos = hist.from
  /\ app.pc = "send" => Holds(app.str)
  /\ app.pc = "idle" /\ hist.starts > 0 => Holds(Stream)

\* onWriteComplete runs when no unit is left to write, and ends the transfer at
\* the end of the file.
EndsAtEnd ==
  /\ loop.pc = "complete" \/ flags.complete => Units(out) = {}
  /\ flags.sended \/ flags.complete => file.pos = file.length

TransferInv == Typed /\ QuietBefore /\ AllThatWasRead /\ EndsAtEnd

\* Streams without units, and the units of a prefix.
LEMMA SmallStreams ==
  /\ Ascending(<<>>) /\ Units(<<>>) = {}
  /\ Ascending(<<Chat>>) /\ Units(<<Chat>>) = {} /\ <<Chat>> \in Seq(Int)
<1>1. Ascending(<<>>) /\ Units(<<>>) = {}
  BY DEF Ascending, Units
<1>2. DOMAIN <<Chat>> = 1 .. 1 /\ <<Chat>>[1] = Chat
  OBVIOUS
<1>3. \A i \in DOMAIN <<Chat>> : <<Chat>>[i] = Chat
  BY <1>2
<1>4. Ascending(<<Chat>>)
  BY <1>3 DEF Ascending
<1>5. Units(<<Chat>>) = {}
  BY <1>3 DEF Units
<1>6. <<Chat>> \in Seq(Int)
  BY DEF Chat
<1> QED
  BY <1>1, <1>4, <1>5, <1>6

\* A message among the units of the file changes nothing of them.
LEMMA ChatBetween ==
  ASSUME NEW s \in Seq(Int)
  PROVE  /\ Units(s \o <<Chat>>) = Units(s)
         /\ Ascending(s) => Ascending(s \o <<Chat>>)
<1>1. Units(s \o <<Chat>>) = Units(s) \cup Units(<<Chat>>)
  BY SmallStreams, ConcatUnits
<1>2. \A u \in Units(s), v \in Units(<<Chat>>) : u < v
  BY SmallStreams
<1>3. Ascending(s) => Ascending(s \o <<Chat>>)
  BY <1>2, SmallStreams, ConcatAscends
<1> QED
  BY <1>1, <1>3, SmallStreams

\* A block read from the file holds the units from the offset on.
LEMMA BlockUnits ==
  ASSUME Typed, Plain
  PROVE  /\ BlockStrings = {UnitsRead}
         /\ UnitsRead \in Seq(Int)
         /\ Ascending(UnitsRead)
         /\ Units(UnitsRead) = file.pos + 1 .. file.pos + ReadBytes
<1>1. /\ file.pos \in Nat /\ ReadBytes \in Nat
      /\ UnitsRead \in Seq(Int) /\ Len(UnitsRead) = ReadBytes
      /\ \A i \in 1 .. ReadBytes : UnitsRead[i] = file.pos + i
  BY ReadFacts
<1>2. DOMAIN UnitsRead = 1 .. ReadBytes
  BY DEF UnitsRead
<1>3. BlockStrings = {UnitsRead}
  <2>1. Zero \notin file.pos + 1 .. file.pos + ReadBytes
    BY <1>1 DEF Plain
  <2>2. BlockStrings = {UnitsRead \o [i \in 1 .. over |-> Junk] :
                          over \in IF ReadBytes = Block THEN 0 .. MaxOver ELSE {0}}
    BY <2>1 DEF BlockStrings
  <2>3. (IF ReadBytes = Block THEN 0 .. MaxOver ELSE {0}) = {0}
    BY DEF Plain
  <2>4. BlockStrings = {UnitsRead \o [i \in 1 .. 0 |-> Junk]}
    BY <2>2, <2>3
  <2>5. [i \in 1 .. 0 |-> Junk] = <<>>
    OBVIOUS
  <2>6. UnitsRead \o <<>> = UnitsRead
    BY <1>1, ConcatEmptySeq
  <2> QED
    BY <2>4, <2>5, <2>6
<1>4. \A i \in 1 .. ReadBytes : UnitsRead[i] # Chat
  BY <1>1 DEF Chat
<1>5. Ascending(UnitsRead)
  BY <1>1, <1>2 DEF Ascending
<1>6. Units(UnitsRead) = file.pos + 1 .. file.pos + ReadBytes
  <2>1. ASSUME NEW u \in Units(UnitsRead)
        PROVE  u \in file.pos + 1 .. file.pos + ReadBytes
    <3>1. PICK i \in 1 .. ReadBytes : u = UnitsRead[i]
      BY <1>2 DEF Units
    <3> QED
      BY <1>1, <3>1
  <2>2. ASSUME NEW u \in file.pos + 1 .. file.pos + ReadBytes
        PROVE  u \in Units(UnitsRead)
    <3>1. u - file.pos \in 1 .. ReadBytes /\ u = file.pos + (u - file.pos)
      BY <1>1
    <3>2. u = UnitsRead[u - file.pos]
      BY <1>1, <3>1
    <3> QED
      BY <1>2, <1>4, <3>1, <3>2 DEF Units
  <2> QED
    BY <2>1, <2>2
<1> QED
  BY <1>1, <1>3, <1>5, <1>6

LEMMA StreamsAssociate ==
  \A s, t, u \in Seq(Int) : (s \o t) \o u = s \o (t \o u)
BY SMTT(30)

LEMMA InitTransfer == Init => TransferInv
<1> SUFFICES ASSUME Init PROVE TransferInv
  OBVIOUS
<1>1. Typed
  BY InitTypes
<1>2. QuietBefore
  BY DEF Init, QuietBefore, Untouched
<1>3. AllThatWasRead
  BY DEF Init, AllThatWasRead
<1>4. EndsAtEnd
  BY SmallStreams DEF Init, EndsAtEnd
<1> QED
  BY <1>1, <1>2, <1>3, <1>4 DEF TransferInv

\* Every step keeps the invariant.
LEMMA StepTransfer ==
  ASSUME Plain, TransferInv, [Next]_vars
  PROVE  TransferInv'
<1>0. Typed /\ Typed' /\ QuietBefore /\ AllThatWasRead /\ EndsAtEnd
  BY StepTypes DEF TransferInv
<1>a. /\ out \in Seq(Int) /\ hist.wire \in Seq(Int)
      /\ Stream \in Seq(Int) /\ hist.starts \in Nat
  <2>1. out \in Seq(Int) /\ hist.wire \in Seq(Int) /\ hist.starts \in Nat
    BY <1>0 DEF Typed, HistSet
  <2>2. hist.wire \o out \in Seq(Int)
    BY <2>1
  <2> QED
    BY <2>1, <2>2 DEF Stream
<1>b. /\ file.pos \in Nat /\ file.length \in Nat /\ hist.from \in Nat
      /\ hist.starts > 0 => hist.from <= file.pos
  <2>1. hist.from \in Nat
    BY <1>0 DEF Typed, HistSet
  <2> QED
    BY <1>0, <2>1, ReadFacts DEF AllThatWasRead
<1>1. CASE StartSendFile
  <2>1. /\ app.pc = "idle" /\ app'.pc = "read" /\ hist.starts = 0
        /\ hist'.starts = 1 /\ hist'.wire = hist.wire /\ hist'.from = file.pos
        /\ flags' = [sended |-> FALSE, complete |-> FALSE]
        /\ UNCHANGED <<file, out, net, loop>>
    <3>1. hist.starts < MaxStarts /\ MaxStarts <= 1
      BY <1>1 DEF StartSendFile, Plain
    <3>2. hist.starts = 0
      BY <1>a, <3>1, Bounds
    <3> QED
      BY <1>0, <1>1, <3>2 DEF StartSendFile, Typed, AppSet, HistSet
  <2>2. Untouched
    BY <1>0, <2>1 DEF QuietBefore
  <2>3. QuietBefore'
    BY <2>1, <2>2 DEF QuietBefore, Untouched
  <2>4. AllThatWasRead'
    BY <1>b, <2>1 DEF AllThatWasRead
  <2>5. EndsAtEnd'
    BY <2>1, <2>2 DEF EndsAtEnd, Untouched
  <2> QED
    BY <1>0, <2>3, <2>4, <2>5 DEF TransferInv
<1>2. CASE ReadFirst
  <2>1. /\ app.pc = "read" /\ file' = HasRead /\ file.pos = hist.from
        /\ UNCHANGED <<flags, out, net, loop, hist>>
    BY <1>0, <1>2 DEF ReadFirst, AllThatWasRead
  <2>2. Untouched /\ hist.starts > 0
    BY <1>0, <2>1 DEF QuietBefore
  <2>3. app' = IF ReadBytes = 0 THEN [app EXCEPT !.pc = "idle"]
                                ELSE [pc |-> "send", str |-> UnitsRead]
    BY <1>0, <1>2, BlockUnits DEF ReadFirst
  <2>4. app'.pc = IF ReadBytes = 0 THEN "idle" ELSE "send"
    BY <1>0, <2>3 DEF Typed, AppSet
  <2>5. /\ file.pos \in Nat /\ ReadBytes \in Nat
        /\ file'.pos = file.pos + ReadBytes /\ hist'.from <= file'.pos
    BY <1>0, <2>1, ReadFacts
  <2>6. QuietBefore'
    BY <2>1, <2>2 DEF QuietBefore, Untouched
  <2>7. AllThatWasRead'
    <3>1. CASE ReadBytes = 0
      <4>1. app'.pc = "idle" /\ Stream' = <<>> \o <<>>
        BY <2>1, <2>2, <2>4, <3>1 DEF Stream, Untouched
      <4>2. Stream' = <<>>
        BY <4>1
      <4>3. hist'.from + 1 .. file'.pos = {}
        BY <2>1, <2>5, <3>1
      <4>4. Holds(Stream)'
        BY <4>2, <4>3, SmallStreams DEF Holds
      <4> QED
        BY <2>5, <4>1, <4>4 DEF AllThatWasRead
    <3>2. CASE ReadBytes # 0
      <4>1. app'.pc = "send" /\ app'.str = UnitsRead
        BY <2>3, <3>2
      <4>2. /\ Ascending(UnitsRead)
            /\ Units(UnitsRead) = file.pos + 1 .. file.pos + ReadBytes
        BY <1>0, BlockUnits
      <4>3. Holds(app.str)'
        BY <2>1, <2>5, <4>1, <4>2 DEF Holds
      <4> QED
        BY <2>5, <4>1, <4>3 DEF AllThatWasRead
    <3> QED
      BY <3>1, <3>2
  <2>8. EndsAtEnd'
    BY <2>1, <2>2 DEF EndsAtEnd, Untouched
  <2> QED
    BY <1>0, <2>6, <2>7, <2>8 DEF TransferInv
<1>3. CASE SendFirst
  <2>1. /\ app.pc = "send" /\ app'.pc = "idle" /\ out' = out \o app.str
        /\ UNCHANGED <<file, flags, net, hist>> /\ loop'.pc = loop.pc
    BY <1>0, <1>3 DEF SendFirst, SendString, Typed, LoopSet
  <2>2. Untouched /\ hist.starts > 0 /\ Holds(app.str)
    BY <1>0, <2>1 DEF QuietBefore, AllThatWasRead
  <2>3. app.str \in Seq(Int)
    BY <1>0 DEF Typed, AppSet
  <2>4. Stream' = app.str
    BY <2>1, <2>2, <2>3, ConcatEmptySeq DEF Untouched, Stream
  <2>5. QuietBefore'
    BY <1>a, <2>1, <2>2 DEF QuietBefore
  <2>6. AllThatWasRead'
    BY <1>b, <2>1, <2>2, <2>4 DEF AllThatWasRead, Holds
  <2>7. EndsAtEnd'
    BY <2>1, <2>2 DEF EndsAtEnd, Untouched
  <2> QED
    BY <1>0, <2>5, <2>6, <2>7 DEF TransferInv
<1>4. CASE SendMessage
  <2>1. /\ app.pc = "idle" /\ hist.starts > 0 /\ out' = out \o <<Chat>>
        /\ UNCHANGED <<file, app, flags, net>> /\ loop'.pc = loop.pc
        /\ hist'.starts = hist.starts /\ hist'.wire = hist.wire
        /\ hist'.from = hist.from
    <3>1. hist' = [hist EXCEPT !.chats = @ + 1] /\ hist \in HistSet
      BY <1>0, <1>4 DEF SendMessage, Typed
    <3>2. /\ hist'.starts = hist.starts /\ hist'.wire = hist.wire
          /\ hist'.from = hist.from
      BY <3>1 DEF HistSet
    <3>3. loop' = [loop EXCEPT !.tasks = @ + 1] /\ loop \in LoopSet
      BY <1>0, <1>4 DEF SendMessage, SendString, Typed
    <3>4. loop'.pc = loop.pc
      BY <3>3 DEF LoopSet
    <3> QED
      BY <1>4, <3>2, <3>4 DEF SendMessage, SendString, Plain
  <2>2. Stream' = Stream \o <<Chat>>
    <3>1. (hist.wire \o out) \o <<Chat>> = hist.wire \o (out \o <<Chat>>)
      BY <1>a, SmallStreams, StreamsAssociate
    <3> QED
      BY <2>1, <3>1 DEF Stream
  <2>3. QuietBefore'
    BY <1>a, <2>1 DEF QuietBefore
  <2>4. Holds(Stream)
    BY <1>0, <2>1 DEF AllThatWasRead
  <2>5. Holds(Stream)'
    BY <1>a, <2>1, <2>2, <2>4, ChatBetween DEF Holds
  <2>6. AllThatWasRead'
    BY <1>b, <2>1, <2>5 DEF AllThatWasRead
  <2>7. Units(out') = Units(out)
    BY <1>a, <2>1, ChatBetween
  <2>8. EndsAtEnd'
    BY <1>0, <2>1, <2>7 DEF EndsAtEnd
  <2> QED
    BY <1>0, <2>3, <2>6, <2>8 DEF TransferInv
<1>5. CASE ReceiveFromTcp
  <2>1. /\ app.pc = "idle" /\ hist.starts = 0 /\ hist'.starts = hist.starts
        /\ hist'.wire = hist.wire /\ UNCHANGED <<app, flags, out, net, loop>>
    BY <1>0, <1>5 DEF ReceiveFromTcp, Typed, HistSet
  <2>2. Untouched
    BY <1>0, <2>1 DEF QuietBefore
  <2>3. QuietBefore'
    BY <2>1, <2>2 DEF QuietBefore, Untouched
  <2>4. AllThatWasRead'
    BY <2>1 DEF AllThatWasRead
  <2>5. EndsAtEnd'
    BY <2>1, <2>2 DEF EndsAtEnd, Untouched
  <2> QED
    BY <1>0, <2>3, <2>4, <2>5 DEF TransferInv
<1>6. CASE CloseFile
  <2>1. /\ file'.pos = file.pos /\ file'.length = file.length
        /\ UNCHANGED <<app, flags, out, net, loop, hist>>
    BY <1>0, <1>6 DEF CloseFile, Typed, FileSet
  <2> QED
    BY <1>0, <2>1
    DEF TransferInv, QuietBefore, Untouched, AllThatWasRead, Holds, Stream, EndsAtEnd
<1>c. CASE RunTask \/ HandleOut
  <2>1. /\ UNCHANGED <<file, app, flags, out, net, hist>>
        /\ loop'.pc = "write" /\ ~ Untouched
    <3>1. UNCHANGED <<file, app, flags, out, net, hist>> /\ ~ Untouched
      BY <1>a, <1>c, <1>0 DEF RunTask, HandleOut, Untouched
    <3>2. loop'.pc = "write"
      <4>1. loop \in LoopSet
        BY <1>0 DEF Typed
      <4>2. CASE RunTask
        BY <4>1, <4>2 DEF RunTask, LoopSet
      <4>3. CASE HandleOut
        BY <4>1, <4>3 DEF HandleOut, LoopSet
      <4> QED
        BY <1>c, <4>2, <4>3
    <3> QED
      BY <3>1, <3>2
  <2>2. hist.starts # 0 /\ app.pc = "idle"
    BY <1>0, <2>1 DEF QuietBefore
  <2> QED
    BY <1>0, <2>1, <2>2
    DEF TransferInv, QuietBefore, AllThatWasRead, Holds, Stream, EndsAtEnd
<1>9. CASE Write
  <2>1. /\ loop.pc = "write" /\ UNCHANGED <<file, app, flags>>
        /\ out' = SubSeq(out, Writes + 1, Len(out))
        /\ hist'.wire = hist.wire \o SubSeq(out, 1, Writes)
        /\ hist'.starts = hist.starts /\ hist'.from = hist.from
    BY <1>0, <1>9 DEF Write, Typed, HistSet
  <2>2. hist.starts # 0 /\ app.pc = "idle"
    BY <1>0, <2>1 DEF QuietBefore, Untouched
  <2>3. /\ SubSeq(out, 1, Writes) \in Seq(Int) /\ out' \in Seq(Int)
        /\ out = SubSeq(out, 1, Writes) \o out'
    BY <1>0, <1>a, <2>1, WriteFacts, SplitStream
  <2>4. Stream' = Stream
    <3>1. (hist.wire \o SubSeq(out, 1, Writes)) \o out'
            = hist.wire \o (SubSeq(out, 1, Writes) \o out')
      BY <1>a, <2>3, StreamsAssociate
    <3> QED
      BY <2>1, <2>3, <3>1 DEF Stream
  <2>5. QuietBefore'
    BY <2>1, <2>2 DEF QuietBefore
  <2>6. AllThatWasRead'
    BY <1>0, <2>1, <2>2, <2>4 DEF AllThatWasRead, Holds
  <2>7. Units(out') \subseteq Units(out)
    BY <2>3, ConcatUnits
  <2>8. loop'.pc = "complete" => out' = <<>>
    BY <1>0, <1>9 DEF Write, Typed, LoopSet
  <2>9. EndsAtEnd'
    BY <1>0, <2>1, <2>7, <2>8, SmallStreams DEF EndsAtEnd
  <2> QED
    BY <1>0, <2>5, <2>6, <2>9 DEF TransferInv
<1>10. CASE OnWriteComplete
  <2>1. /\ loop.pc = "complete" /\ file' = HasRead /\ UNCHANGED <<app, hist>>
        /\ flags' = IF AtEnd THEN [sended |-> TRUE, complete |-> TRUE] ELSE flags
    BY <1>10 DEF OnWriteComplete
  <2>2. hist.starts # 0 /\ app.pc = "idle" /\ Units(out) = {} /\ Holds(Stream)
    BY <1>0, <1>a, <2>1 DEF QuietBefore, Untouched, EndsAtEnd, AllThatWasRead
  <2>3. /\ file.pos \in Nat /\ ReadBytes \in Nat
        /\ file'.pos = file.pos + ReadBytes /\ file'.length = file.length
    BY <1>0, <2>1, ReadFacts
  <2>7. /\ AtEnd <=> ReadBytes = 0
        /\ AtEnd <=> file.pos = file.length
    BY <1>0, ReadFacts DEF AtEnd
  <2>4. QuietBefore'
    BY <2>1, <2>2 DEF QuietBefore
  <2>5. CASE AtEnd \/ flags.sended
    <3>1. AtEnd
      BY <1>0, <2>5, <2>7 DEF EndsAtEnd
    <3>2. out' = out /\ loop'.pc = "idle" /\ file'.pos = file.pos
      <4>1. out' = out /\ loop' = [loop EXCEPT !.pc = "idle", !.depth = 0]
        BY <1>10, <3>1 DEF OnWriteComplete
      <4>2. loop'.pc = "idle"
        BY <1>0, <4>1 DEF Typed, LoopSet
      <4> QED
        BY <2>3, <2>7, <3>1, <4>1, <4>2
    <3>3. AllThatWasRead'
      BY <1>b, <2>1, <2>2, <3>2 DEF AllThatWasRead, Holds, Stream
    <3>4. EndsAtEnd'
      BY <2>2, <2>3, <2>7, <3>1, <3>2 DEF EndsAtEnd
    <3> QED
      BY <1>0, <2>4, <3>3, <3>4 DEF TransferInv
  <2>6. CASE ~ AtEnd /\ ~ flags.sended
    <3>1. out' = out \o UnitsRead /\ flags' = flags /\ loop'.pc = "write"
      <4>1. /\ \E str \in BlockStrings : out' = out \o str
            /\ loop' = [loop EXCEPT !.pc = "write"]
            /\ flags' = flags
        BY <1>10, <2>6 DEF OnWriteComplete
      <4>2. out' = out \o UnitsRead
        BY <1>0, <4>1, BlockUnits
      <4>3. loop'.pc = "write"
        BY <1>0, <4>1 DEF Typed, LoopSet
      <4> QED
        BY <4>1, <4>2, <4>3
    <3>2. Stream' = Stream \o UnitsRead
      BY <1>0, <1>a, <2>1, <3>1, BlockUnits, StreamsAssociate DEF Stream
    <3>3. /\ UnitsRead \in Seq(Int) /\ Ascending(UnitsRead)
          /\ Units(UnitsRead) = file.pos + 1 .. file.pos + ReadBytes
      BY <1>0, BlockUnits
    <3>4. hist.from \in Nat /\ hist.from <= file.pos
      BY <1>a, <1>b, <2>2
    <3>5. Ascending(Stream') /\ Units(Stream') = hist.from + 1 .. file'.pos
      <4>1. \A u \in Units(Stream), v \in Units(UnitsRead) : u < v
        BY <2>2, <2>3, <3>3, <3>4 DEF Holds
      <4>2. Units(Stream') = Units(Stream) \cup Units(UnitsRead)
        BY <1>a, <3>2, <3>3, ConcatUnits
      <4>3. Ascending(Stream')
        BY <1>a, <2>2, <3>2, <3>3, <4>1, ConcatAscends DEF Holds
      <4>4. (hist.from + 1 .. file.pos) \cup (file.pos + 1 .. file.pos + ReadBytes)
              = hist.from + 1 .. file.pos + ReadBytes
        BY <2>3, <3>4
      <4> QED
        BY <2>2, <2>3, <3>3, <4>2, <4>3, <4>4 DEF Holds
    <3>6. AllThatWasRead'
      BY <2>1, <2>2, <2>3, <3>4, <3>5 DEF AllThatWasRead, Holds
    <3>7. ~ flags.complete
      BY <1>0, <2>6, <2>7 DEF EndsAtEnd
    <3>8. EndsAtEnd'
      BY <2>6, <3>1, <3>7 DEF EndsAtEnd
    <3> QED
      BY <1>0, <2>4, <3>6, <3>8 DEF TransferInv
  <2> QED
    BY <2>5, <2>6
<1>11. CASE PeerReads
  <2>1. UNCHANGED <<file, app, flags, out, loop, hist>> /\ net'.armed = net.armed
    BY <1>0, <1>11 DEF PeerReads, Typed, NetSet
  <2> QED
    BY <1>0, <2>1
    DEF TransferInv, QuietBefore, Untouched, AllThatWasRead, Holds, Stream, EndsAtEnd
<1>12. CASE UNCHANGED vars
  BY <1>0, <1>12
  DEF TransferInv, vars, QuietBefore, Untouched, AllThatWasRead, Holds, Stream, EndsAtEnd
<1> QED
  BY <1>1, <1>2, <1>3, <1>4, <1>5, <1>6, <1>c, <1>9, <1>10, <1>11, <1>12
  DEF Next, Loop, Rest

LEMMA TransferInvariant == Plain => (Spec => []TransferInv)
<1> SUFFICES ASSUME Plain PROVE Spec => []TransferInv
  OBVIOUS
<1>1. Init => TransferInv
  BY InitTransfer
<1>2. TransferInv /\ [Next]_vars => TransferInv'
  BY StepTransfer
<1> QED
  BY <1>1, <1>2, PTL DEF Spec

\* What is on the wire is a prefix of the stream, which holds a piece of the file.
LEMMA PrefixOfFile ==
  ASSUME TransferInv
  PROVE  PiecesInOrder
<1>1. /\ out \in Seq(Int) /\ hist.wire \in Seq(Int)
      /\ hist.starts \in Nat /\ hist.from \in Nat
  BY DEF TransferInv, Typed, HistSet
<1>2. CASE hist.starts = 0 \/ app.pc # "idle"
  <2>1. hist.wire = <<>>
    BY <1>2 DEF TransferInv, QuietBefore, Untouched
  <2> QED
    BY <2>1, SmallStreams DEF PiecesInOrder
<1>3. CASE hist.starts # 0 /\ app.pc = "idle"
  <2>1. Ascending(Stream) /\ Units(Stream) = hist.from + 1 .. file.pos
    BY <1>1, <1>3 DEF TransferInv, AllThatWasRead, Holds
  <2>2. /\ Ascending(hist.wire)
        /\ \A u \in Units(hist.wire), v \in Units(out) : u < v
    BY <1>1, <2>1, PrefixAscends DEF Stream
  <2>3. Units(Stream) = Units(hist.wire) \cup Units(out)
    BY <1>1, ConcatUnits DEF Stream
  <2>4. file.pos \in Nat
    BY ReadFacts DEF TransferInv
  <2>5. ASSUME NEW u \in Units(hist.wire)
        PROVE  hist.from < u /\ hist.from + 1 .. u \subseteq Units(hist.wire)
    <3>1. u \in hist.from + 1 .. file.pos
      BY <2>1, <2>3, <2>5
    <3>2. ASSUME NEW v \in hist.from + 1 .. u
          PROVE  v \in Units(hist.wire)
      <4>1. v \in hist.from + 1 .. file.pos /\ ~ (u < v)
        BY <1>1, <2>4, <3>1, <3>2
      <4>2. v \in Units(hist.wire) \/ v \in Units(out)
        BY <2>1, <2>3, <4>1
      <4> QED
        BY <2>2, <4>1, <4>2
    <3> QED
      BY <1>1, <2>4, <3>1, <3>2
  <2> QED
    BY <2>2, <2>5 DEF PiecesInOrder
<1> QED
  BY <1>2, <1>3

\* The peer gets a prefix of the file, whatever messages are sent between its
\* blocks and however the send buffer cuts them (FileOperator.cpp:87, 149).
THEOREM InOrder == Plain => (Spec => []PiecesInOrder)
<1>1. TransferInv => PiecesInOrder
  BY PrefixOfFile
<1> QED
  BY <1>1, TransferInvariant, PTL

\* When onSended_ is called, the send buffer has taken the last unit of the file.
LEMMA AllSent ==
  ASSUME TransferInv
  PROVE  CompleteMeansSent
<1> SUFFICES ASSUME flags.complete
             PROVE  Units(hist.wire) = hist.from + 1 .. file.length
  BY DEF CompleteMeansSent
<1>1. /\ out \in Seq(Int) /\ hist.wire \in Seq(Int)
      /\ hist.starts \in Nat
  BY DEF TransferInv, Typed, HistSet
<1>2. hist.starts # 0 /\ app.pc = "idle"
  BY DEF TransferInv, QuietBefore, Untouched
<1>3. Units(Stream) = hist.from + 1 .. file.pos
  BY <1>1, <1>2 DEF TransferInv, AllThatWasRead, Holds
<1>4. Units(Stream) = Units(hist.wire) \cup Units(out)
  BY <1>1, ConcatUnits DEF Stream
<1>5. Units(out) = {} /\ file.pos = file.length
  BY DEF TransferInv, EndsAtEnd
<1> QED
  BY <1>3, <1>4, <1>5

\* The application is told of the end only when the whole rest of the file was
\* written (FileOperator.cpp:164-186).
THEOREM WholeSent == Plain => (Spec => []CompleteMeansSent)
<1>1. TransferInv => CompleteMeansSent
  BY AllSent
<1> QED
  BY <1>1, TransferInvariant, PTL

=============================================================================
