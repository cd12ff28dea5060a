------------------------------ MODULE PetTable ------------------------------
(***************************************************************************)
(* PetMysqlOperator (and MysqlOperator, the same code without upload and   *)
(* query): a table of the MySQL server and the copy of it in allDataMap_.  *)
(*                                                                         *)
(* A row is <<name, rest>>: the key column and the five others, where rest *)
(* is the number of the pet.  A query that the server rejects returns an   *)
(* error and changes nothing.                                              *)
(***************************************************************************)
EXTENDS Naturals, Sequences, SequencesExt

CONSTANTS
  Names,       \* values of the key column, numbers in the order of the strings
  OtherTable   \* the database has a table called "tablename"

ASSUME TableAssumption ==
  Names \subseteq Nat /\ OtherTable \in BOOLEAN

VARIABLES
  table,    \* the rows of tableName_, in the order select returns them
  cache,    \* allDataMap_: the fields kept for a name
  synced,   \* history: nothing changed table or cache since a download
  result    \* what the last call came to: "ok", "failed" (-1) or "null row"

tableVars == <<table, cache, synced, result>>

Fields == 2
NoCache == [name \in {} |-> <<>>]

TableInit == /\ table = <<>> /\ cache = NoCache
             /\ synced = FALSE /\ result = "ok"

\* The rows at the positions of ids, in the order of the table.
RowsAt(ids) ==
  LET upTo[i \in 0 .. Len(table)] ==
        IF i = 0 THEN <<>>
        ELSE IF i \in ids THEN Append(upTo[i - 1], table[i]) ELSE upTo[i - 1]
  IN  upTo[Len(table)]

RowsOf(name) == RowsAt({i \in DOMAIN table : table[i][1] = name})

\* The server takes the row or rejects it, as it does a date like 02-30, which
\* RandomProductPet produces.
Inserted(row) == {table, Append(table, row)}

\* insertRow(RowVector&): only the first fields are used.
InsertRow(fields) ==
  IF Len(fields) < Fields
    THEN UNCHANGED <<table, synced>> /\ result' = "failed"
    ELSE /\ table' \in Inserted(SubSeq(fields, 1, Fields))
         /\ result' = IF table' = table THEN "failed" ELSE "ok"
         /\ synced' = (synced /\ table' = table)

\* (mutant) allDataMap_ is not cleared before the rows are read
DownloadedOnto == [name \in DOMAIN cache \union {row[1] : row \in ToSet(table)} |->
   (IF name \in DOMAIN cache THEN cache[name] ELSE <<>>) \o FlattenSeq(RowsOf(name))]

\* The fields of all rows of a name, one after the other.
Downloaded == [name \in {row[1] : row \in ToSet(table)} |-> FlattenSeq(RowsOf(name))]

SynchronizeDownload ==
  /\ cache' = Downloaded
  /\ synced' = TRUE /\ result' = "ok"
  /\ UNCHANGED table

\* "truncate table tablename": the literal, not tableName_.  Then insertRow of
\* each entry, in the order of the map, whatever comes of it: names are those of
\* the entries that the server takes.
Ascending(names) == \A i, j \in DOMAIN names : i < j => names[i] < names[j]

SynchronizeUpload ==
  /\ IF ~OtherTable
       THEN UNCHANGED table /\ result' = "failed"
       ELSE /\ \E n \in 0 .. Cardinality(DOMAIN cache) :
                 \E names \in [1 .. n -> DOMAIN cache] :
                   /\ Ascending(names)
                   /\ table' = table \o [i \in 1 .. n |->
                                            SubSeq(cache[names[i]], 1, Fields)]
            /\ result' = "ok"
  /\ synced' = FALSE
  /\ UNCHANGED cache

\* delete and update reach every row of the name.
DeleteRow(name) ==
  /\ table' = RowsAt({i \in DOMAIN table : table[i][1] # name})
  /\ synced' = FALSE /\ result' = "ok"
  /\ UNCHANGED cache

UpdateRow(name, rest) ==
  /\ table' = [i \in DOMAIN table |->
                 IF table[i][1] = name THEN <<name, rest>> ELSE table[i]]
  /\ synced' = FALSE /\ result' = "ok"
  /\ UNCHANGED cache

AddDataToMap(name, rest) ==
  /\ cache' = [key \in DOMAIN cache \union {name} |->
                 IF key = name THEN <<name, rest>> ELSE cache[key]]
  /\ synced' = FALSE /\ result' = "ok"
  /\ UNCHANGED table

\* queryRowByKey: -1 when there is a row; when there is none, row[0] of NULL.
QueryRowByKey(name) ==
  /\ result' = IF RowsOf(name) # <<>> THEN "failed" ELSE "null row"
  /\ UNCHANGED <<table, cache, synced>>

Row   == {fields \in Seq(Nat) : Len(fields) = Fields}
Entry == {fields \in Seq(Nat) : Len(fields) >= Fields}

TableTypeOK ==
  /\ table \in Seq(Row)
  /\ DOMAIN cache \subseteq Nat /\ IsFiniteSet(DOMAIN cache)
  /\ cache \in [DOMAIN cache -> Entry]
  /\ synced \in BOOLEAN
  /\ result \in {"ok", "failed", "null row"}
=============================================================================
