----------------------------- MODULE PetServer -----------------------------
(***************************************************************************)
(* The server of TestPetSerializeTransServer: PetProtocMessCodec over a    *)
(* TcpServer with two loops, which stores each pet it receives in the      *)
(* table (module PetTable).                                                *)
(*                                                                         *)
(* A frame is five units: two of the length, the length of the name, the   *)
(* name and the data; the contents of the data are module ProtoMessages.    *)
(***************************************************************************)
EXTENDS PetTable, FiniteSets

CONSTANTS
  Conns,     \* connections
  Loops,     \* IO loops
  OneLoop,   \* all connections are on one loop
  Gentle,    \* a frame arrives whole, and alone
  Types,     \* types of the messages sent: "pet", "other" (of the generated
             \* pool, but without a handler), "unknown"
  MaxPets,   \* bound: messages sent
  MaxCalls   \* bound: other calls of the PetMysqlOperator

\* How the connections can be dealt out to more than one loop.
Dealings == {f \in [Conns -> Loops] : Cardinality({f[c] : c \in Conns}) > 1}

ASSUME ServerAssumption == /\ {OneLoop, Gentle} \subseteq BOOLEAN
                           /\ {MaxPets, MaxCalls} \subseteq Nat
                           /\ Loops # {}
                           /\ OneLoop \/ Dealings # {}

VARIABLES
  sent,    \* history: the messages sent, [conn, type, row]
  stream,  \* units under way, by connection: <<part, number of the message>>
  loop,    \* each loop: pc, conn, units (bufferIn_), pet (the message parsed)
  row,     \* petRowContent_, one for all loops
  stored,  \* history: the fields passed to insertRow
  calls,   \* number of other calls
  exited   \* why the process died, "no" while it runs

vars == <<tableVars, sent, stream, loop, row, stored, calls, exited>>

Parts == 5

\* (mutant) the length of the name is not sent
FrameNoNameLength(n) == [part \in 1 .. Parts - 1 |-> <<part + part \div 3, n>>]

Frame(n) == [part \in 1 .. Parts |-> <<part, n>>]

LoopOf(conn) == IF OneLoop THEN CHOOSE l \in Loops : TRUE
                ELSE (CHOOSE f \in Dealings : TRUE)[conn]

Init == /\ TableInit
        /\ sent = <<>>
        /\ stream = [c \in Conns |-> <<>>]
        /\ loop = [l \in Loops |-> [pc |-> "poll", units |-> <<>>, pet |-> 0]]
        /\ row = <<>> /\ stored = <<>> /\ calls = 0 /\ exited = "no"

Alive == exited = "no"

-----------------------------------------------------------------------------
(* The clients *)

\* sendContactsByTcp: fillEmptyString builds one frame.
SendPet(c, type, name) ==
  /\ Alive /\ Len(sent) < MaxPets
  /\ Gentle => stream[c] = <<>>
  /\ sent' = Append(sent, [conn |-> c, type |-> type,
                           row |-> <<name, Len(sent) + 1>>])
  /\ stream' = [stream EXCEPT ![c] = @ \o Frame(Len(sent) + 1)]
  /\ UNCHANGED <<tableVars, loop, row, stored, calls, exited>>

-----------------------------------------------------------------------------
(* A loop: onMessage, from the read to the insertion *)

\* recvn takes what has arrived, wherever that ends.
HandleRead(c) ==
  LET l == LoopOf(c) IN
  /\ Alive /\ loop[l].pc = "poll"
  /\ \E n \in 1 .. Len(stream[c]) :
       /\ Gentle => n = Len(stream[c])
       /\ loop' = [loop EXCEPT ![l] = [pc |-> "parse", pet |-> 0,
                                       units |-> SubSeq(stream[c], 1, n)]]
       /\ stream' = [stream EXCEPT ![c] = SubSeq(@, n + 1, Len(@))]
  /\ UNCHANGED <<tableVars, sent, row, stored, calls, exited>>

\* parseDataPack looks at the first frame.  A message that begins elsewhere, or
\* ends before the name does, names a type the pool does not have.
HeadOf(units) == IF Len(units) >= Parts - 1 /\ \A i \in 1 .. Parts - 1 : units[i][1] = i
                   THEN units[1][2] ELSE 0
DataArrived(units) == Len(units) >= Parts

\* createProtobufMessage returns null for a type it does not know, and onMessage
\* uses the null; parseHandlerMap_ has no handler for another type.
ParseDataPack(l) ==
  LET n == HeadOf(loop[l].units) IN
  /\ Alive /\ loop[l].pc = "parse"
  /\ exited' = CASE n = 0 \/ sent[n].type = "unknown" -> "null message"
                 [] n # 0 /\ sent[n].type = "other"   -> "no handler"
                 [] OTHER -> "no"
  /\ loop' = [loop EXCEPT ![l].pc = IF exited' = "no" THEN "clear" ELSE @,
                          ![l].pet = n]
  /\ UNCHANGED <<tableVars, sent, stream, row, stored, calls>>

\* (mutant) parseTypePet does not clear petRowContent_
ClearedKeeps(l) == row

Cleared(l) == <<>>

ParseClear(l) ==
  /\ Alive /\ loop[l].pc = "clear"
  /\ row' = Cleared(l)
  /\ loop' = [loop EXCEPT ![l].pc = "push"]
  /\ UNCHANGED <<tableVars, sent, stream, stored, calls, exited>>

\* One push_back after the other.  Data that has not arrived is whatever the
\* memory behind the buffer holds, here number 0.
FieldsOf(l) == IF DataArrived(loop[l].units) THEN sent[loop[l].pet].row
               ELSE <<sent[loop[l].pet].row[1], 0>>

ParsePush(l) ==
  /\ Alive /\ loop[l].pc \in {"push", "push2"}
  /\ row' = Append(row, FieldsOf(l)[IF loop[l].pc = "push" THEN 1 ELSE 2])
  /\ loop' = [loop EXCEPT ![l].pc = IF @ = "push" THEN "push2" ELSE "store"]
  /\ UNCHANGED <<tableVars, sent, stream, stored, calls, exited>>

\* messageCallback_(petRowContent_), which is insertRow.
Store(l) ==
  /\ Alive /\ loop[l].pc = "store"
  /\ InsertRow(row)
  /\ stored' = Append(stored, IF Len(row) < Fields THEN row ELSE SubSeq(row, 1, Fields))
  /\ loop' = [loop EXCEPT ![l].pc = "poll"]
  /\ UNCHANGED <<cache, sent, stream, row, calls, exited>>

-----------------------------------------------------------------------------
(* Other users of the operator, which share its connection with the loops  *)
(* one call at a time.                                                     *)

Call ==
  /\ Alive /\ calls < MaxCalls
  /\ \/ SynchronizeDownload
     \/ SynchronizeUpload
     \/ \E name \in Names :
          \/ DeleteRow(name) \/ UpdateRow(name, 0) \/ AddDataToMap(name, 0)
          \/ RowsOf(name) # <<>> /\ QueryRowByKey(name)
  /\ calls' = calls + 1
  /\ UNCHANGED <<sent, stream, loop, row, stored, exited>>

Rest == /\ Alive => \A l \in Loops : loop[l].pc = "poll"
        /\ UNCHANGED vars

LoopStep(l) == ParseDataPack(l) \/ ParseClear(l) \/ ParsePush(l) \/ Store(l)

Next == \/ \E c \in Conns, type \in Types, name \in Names : SendPet(c, type, name)
        \/ \E c \in Conns : HandleRead(c)
        \/ \E l \in Loops : LoopStep(l)
        \/ Call \/ Rest

Spec == Init /\ [][Next]_vars

-----------------------------------------------------------------------------
(* Properties *)

Unit == (1 .. Parts) \X DOMAIN sent

TypeOK ==
  /\ TableTypeOK
  /\ sent \in Seq([conn : Conns, type : Types, row : Names \X Nat])
  /\ Len(sent) <= MaxPets
  /\ stream \in [Conns -> Seq(Unit)]
  /\ loop \in [Loops -> [pc : {"poll", "parse", "clear", "push", "push2", "store"},
                         units : Seq(Unit), pet : {0} \union DOMAIN sent]]
  /\ row \in Seq(Nat)
  /\ stored \in Seq(Seq(Nat))
  /\ calls \in 0 .. MaxCalls
  /\ exited \in {"no", "null message", "no handler"}

Pending == {n \in DOMAIN sent :
   \/ \E c \in Conns, i \in 1 .. MaxPets * Parts :
         i <= Len(stream[c]) /\ stream[c][i][2] = n
   \/ \E l \in Loops : loop[l].pc # "poll" /\ loop[l].units # <<>>
                          /\ loop[l].units[1][2] = n}

\* Every pet sent is stored once, with the fields of one pet, in the order of
\* its connection, or is under way (PetProtocMessCodec.cpp:20-42): no row is
\* dropped, repeated or mixed.
RowsAsSent ==
  /\ IsInjective(stored)
  /\ ToSet(stored) = {sent[n].row : n \in DOMAIN sent \ Pending}
  /\ \A i, j \in DOMAIN stored :
       i < j /\ sent[stored[i][2]].conn = sent[stored[j][2]].conn
         => stored[i][2] < stored[j][2]

\* The server survives any stream of pets.
Survives == exited = "no"

\* After a download, allDataMap_ is the table, when its names are unique.
CacheFaithful ==
  synced /\ Cardinality({r[1] : r \in ToSet(table)}) = Len(table)
    => cache = [name \in {r[1] : r \in ToSet(table)} |-> RowsOf(name)[1]]

\* synchronizeUploadTable makes the table what the map is.
UploadRestores == [][Call /\ SynchronizeUpload /\ result' = "ok"
                       => ToSet(table') \subseteq {cache[n] : n \in DOMAIN cache}]_vars

\* A row that is in the table is found (PetMysqlOperator.cpp:193).
QueryFinds == [][\A name \in Names :
                   RowsOf(name) # <<>> /\ Call /\ QueryRowByKey(name)
                     => result' = "ok"]_vars

=============================================================================
