--------------------------- MODULE PetServerProofs ---------------------------
(***************************************************************************)
(* Proofs about PetServer and PetTable, for any number of connections,     *)
(* pets and calls:                                                         *)
(*   TypeCorrect   the variables keep their types;                         *)
(*   PetsSurvive   frames that arrive whole and alone do not end the       *)
(*                 server (Survives);                                      *)
(*   StoredAsSent  on one loop every such pet is stored once, as it was    *)
(*                 sent and in its order (RowsAsSent);                     *)
(*   Faithful      the map is the table after a download (CacheFaithful).  *)
(***************************************************************************)
EXTENDS PetServer, TLAPS, FiniteSetTheorems, SequenceTheorems

-----------------------------------------------------------------------------
(* Induction and recursion over an interval, with sets for predicates *)

LEMMA LeastNatural ==
  ASSUME NEW S \in SUBSET Nat, S # {}
  PROVE  \E m \in S : \A k \in S : m <= k
<1> DEFINE Below == {0 .. n : n \in S}
<1>1. Below \subseteq FiniteSubsetsOf(Nat) /\ Below # {}
  <2>1. ASSUME NEW n \in S
        PROVE  0 .. n \in FiniteSubsetsOf(Nat)
    <3>1. IsFiniteSet(0 .. n)
      BY FS_Interval
    <3> QED
      BY <3>1 DEF FiniteSubsetsOf
  <2> QED
    BY <2>1
<1>2. PICK b \in Below : \A c \in Below : <<c, b>> \notin StrictSubsetOrdering(Nat)
  <2> HIDE DEF Below
  <2> QED
    BY <1>1, WFMin, FS_StrictSubsetOrderingWellFounded
<1>3. PICK m \in S : b = 0 .. m
  OBVIOUS
<1>4. ASSUME NEW k \in S, k < m
      PROVE  FALSE
  <2>1. 0 .. k \subseteq 0 .. m /\ 0 .. k # 0 .. m
    BY <1>4
  <2>2. <<0 .. k, 0 .. m>> \in StrictSubsetOrdering(Nat)
    BY <2>1 DEF StrictSubsetOrdering
  <2> QED
    BY <1>2, <1>3, <2>2
<1> QED
  BY <1>4

LEMMA IntervalInduction ==
  ASSUME NEW n \in Nat, NEW A, 0 \in A,
         \A k \in 0 .. n - 1 : k \in A => k + 1 \in A
  PROVE  \A k \in 0 .. n : k \in A
<1> SUFFICES ASSUME (0 .. n) \ A # {}
             PROVE  FALSE
  OBVIOUS
<1>1. PICK m \in (0 .. n) \ A : \A k \in (0 .. n) \ A : m <= k
  <2>1. (0 .. n) \ A \in SUBSET Nat
    OBVIOUS
  <2> QED
    BY <2>1, LeastNatural
<1>2. m - 1 \in 0 .. n - 1
  BY <1>1
<1>3. m - 1 \in A
  <2>1. m - 1 \in 0 .. n /\ ~(m <= m - 1)
    BY <1>1
  <2> QED
    BY <1>1, <2>1
<1>4. (m - 1) + 1 = m
  BY <1>1
<1> QED
  BY <1>1, <1>2, <1>3, <1>4

\* f[0] is a, and each f[i] is what step makes of f[i - 1].
Solution(f, S, a, n, step) ==
  f \in [0 .. n -> S] /\ f[0] = a /\ \A i \in 1 .. n : f[i] = step[<<i, f[i - 1]>>]

\* A function that is defined by recursion exists.
LEMMA Recursion ==
  ASSUME NEW S, NEW a \in S, NEW n \in Nat, NEW step \in [(1 .. n) \X S -> S]
  PROVE  \E f : Solution(f, S, a, n, step)
<1> DEFINE Solves(f, k) == f[0] = a /\ \A i \in 1 .. k : f[i] = step[<<i, f[i - 1]>>]
           A == {k \in 0 .. n : \E f \in [0 .. k -> S] : Solves(f, k)}
<1>1. 0 \in A
  <2> DEFINE g == [i \in 0 .. 0 |-> a]
  <2>1. g \in [0 .. 0 -> S] /\ Solves(g, 0)
    OBVIOUS
  <2>2. 0 \in 0 .. n
    OBVIOUS
  <2> HIDE DEF g, Solves
  <2> QED
    BY <2>1, <2>2
<1>2. ASSUME NEW k \in 0 .. n - 1, k \in A
      PROVE  k + 1 \in A
  <2>1. PICK f \in [0 .. k -> S] : Solves(f, k)
    BY <1>2
  <2> DEFINE g == [i \in 0 .. k + 1 |-> IF i = k + 1 THEN step[<<k + 1, f[k]>>] ELSE f[i]]
  <2>2. g \in [0 .. k + 1 -> S]
    <3>1. <<k + 1, f[k]>> \in (1 .. n) \X S
      BY <2>1
    <3>2. step[<<k + 1, f[k]>>] \in S
      BY <3>1
    <3> QED
      BY <3>2
  <2>3. Solves(g, k + 1)
    <3>1. g[0] = a
      BY <2>1
    <3>2. ASSUME NEW i \in 1 .. k + 1
          PROVE  g[i] = step[<<i, g[i - 1]>>]
      <4>1. CASE i = k + 1
        <5>1. g[i] = step[<<k + 1, f[k]>>]
          BY <4>1
        <5>2. i - 1 = k /\ i - 1 \in 0 .. k + 1 /\ i - 1 # k + 1
          BY <4>1
        <5>3. g[i - 1] = f[k]
          BY <5>2
        <5> QED
          BY <4>1, <5>1, <5>3
      <4>2. CASE i # k + 1
        <5>1. i \in 1 .. k /\ i \in 0 .. k /\ i - 1 \in 0 .. k /\ i - 1 # k + 1
          BY <4>2
        <5>2. g[i] = f[i] /\ g[i - 1] = f[i - 1]
          BY <5>1
        <5> QED
          BY <2>1, <5>1, <5>2
      <4> QED
        BY <4>1, <4>2
    <3> QED
      BY <3>1, <3>2
  <2> HIDE DEF g, Solves
  <2> QED
    BY <2>2, <2>3
<1>3. n \in A
  <2> HIDE DEF A
  <2> QED
    BY <1>1, <1>2, IntervalInduction
<1> QED
  BY <1>3 DEF Solution

-----------------------------------------------------------------------------
(* The rows of the table *)

\* f holds the results of RowsAt, row by row.
Takes(f, ids) ==
  /\ RowsAt(ids) = f[Len(table)] /\ f[0] = <<>>
  /\ \A i \in 1 .. Len(table) :
       f[i] = IF i \in ids THEN Append(f[i - 1], table[i]) ELSE f[i - 1]

\* The recursion of RowsAt has a solution.
LEMMA RowsAtSteps ==
  ASSUME NEW R, table \in Seq(R), NEW ids
  PROVE  \E f \in [0 .. Len(table) -> Seq(R)] : Takes(f, ids)
<1> DEFINE N == Len(table)
           S == Seq(R)
           step == [p \in (1 .. N) \X S |->
                      IF p[1] \in ids THEN Append(p[2], table[p[1]]) ELSE p[2]]
           Solves(f) == f = [i \in 0 .. N |->
                               IF i = 0 THEN <<>>
                               ELSE IF i \in ids THEN Append(f[i - 1], table[i])
                                                 ELSE f[i - 1]]
<1>1. N \in Nat /\ <<>> \in S
  OBVIOUS
<1>2. step \in [(1 .. N) \X S -> S]
  <2>1. ASSUME NEW i \in 1 .. N, NEW s \in S
        PROVE  Append(s, table[i]) \in S
    <3>1. table[i] \in R
      OBVIOUS
    <3> HIDE DEF N
    <3> QED
      BY <3>1
  <2> QED
    BY <2>1
<1> HIDE DEF N, S
<1>3. PICK f \in [0 .. N -> S] :
        f[0] = <<>> /\ \A i \in 1 .. N : f[i] = step[<<i, f[i - 1]>>]
  <2> HIDE DEF step
  <2>1. \E f : Solution(f, S, <<>>, N, step)
    BY <1>1, <1>2, Recursion
  <2> QED
    BY <2>1 DEF Solution
<1>4. \A i \in 1 .. N :
        f[i] = IF i \in ids THEN Append(f[i - 1], table[i]) ELSE f[i - 1]
  <2> TAKE i \in 1 .. N
  <2>1. i - 1 \in 0 .. N
    BY <1>1
  <2>2. <<i, f[i - 1]>> \in (1 .. N) \X S
    BY <2>1
  <2>3. f[i] = step[<<i, f[i - 1]>>]
    BY <1>3
  <2> QED
    BY <2>2, <2>3
<1>5. Solves(f)
  <2>1. ASSUME NEW i \in 0 .. N
        PROVE  f[i] = IF i = 0 THEN <<>>
                      ELSE IF i \in ids THEN Append(f[i - 1], table[i]) ELSE f[i - 1]
    <3>1. i = 0 \/ i \in 1 .. N
      BY <1>1
    <3> QED
      BY <1>3, <1>4, <3>1
  <2> QED
    BY <2>1
<1> DEFINE g == CHOOSE h : Solves(h)
<1>6. Solves(g)
  <2> HIDE DEF Solves
  <2> QED
    BY <1>5
<1>7. RowsAt(ids) = g[N]
  BY DEF RowsAt, N
<1>8. ASSUME NEW i \in 0 .. N
      PROVE  g[i] = IF i = 0 THEN <<>>
                    ELSE IF i \in ids THEN Append(g[i - 1], table[i]) ELSE g[i - 1]
  <2> HIDE DEF g
  <2> QED
    BY <1>6
<1> HIDE DEF g
<1> DEFINE A == {i \in 0 .. N : g[i] = f[i]}
<1>9. 0 \in A
  <2>1. 0 \in 0 .. N
    BY <1>1
  <2>2. g[0] = <<>>
    BY <1>8, <2>1
  <2> QED
    BY <1>3, <2>1, <2>2
<1>10. ASSUME NEW k \in 0 .. N - 1, k \in A
       PROVE  k + 1 \in A
  <2>1. k + 1 \in 1 .. N /\ k + 1 \in 0 .. N /\ (k + 1) - 1 = k /\ k + 1 # 0
    BY <1>1
  <2>2. g[k] = f[k]
    BY <1>10
  <2>3. g[k + 1] = IF k + 1 \in ids THEN Append(g[k], table[k + 1]) ELSE g[k]
    BY <1>8, <2>1
  <2>4. f[k + 1] = IF k + 1 \in ids THEN Append(f[k], table[k + 1]) ELSE f[k]
    BY <1>4, <2>1
  <2> QED
    BY <2>1, <2>2, <2>3, <2>4
<1>11. \A i \in 0 .. N : i \in A
  <2> HIDE DEF A
  <2> QED
    BY <1>1, <1>9, <1>10, IntervalInduction
<1>12. RowsAt(ids) = f[N]
  BY <1>1, <1>7, <1>11
<1> QED
  BY <1>3, <1>4, <1>12 DEF N, S, Takes

LEMMA RowsAtType ==
  ASSUME NEW R, table \in Seq(R), NEW ids
  PROVE  RowsAt(ids) \in Seq(R)
<1>1. PICK f \in [0 .. Len(table) -> Seq(R)] : RowsAt(ids) = f[Len(table)]
  BY RowsAtSteps DEF Takes
<1>2. Len(table) \in 0 .. Len(table)
  OBVIOUS
<1> QED
  BY <1>1, <1>2

\* A name that one row has.
LEMMA RowsOfUnique ==
  ASSUME NEW R, table \in Seq(R), NEW k \in DOMAIN table, NEW name,
         \A i \in DOMAIN table : table[i][1] = name <=> i = k
  PROVE  RowsOf(name) = <<table[k]>>
<1> SUFFICES ASSUME NEW ids, ids = {i \in DOMAIN table : table[i][1] = name}
             PROVE  RowsAt(ids) = <<table[k]>>
  BY DEF RowsOf
<1> DEFINE N == Len(table)
<1>1. N \in Nat /\ DOMAIN table = 1 .. N /\ k \in 1 .. N /\ ids = {k}
  OBVIOUS
<1>2. PICK f \in [0 .. N -> Seq(R)] :
        /\ RowsAt(ids) = f[N] /\ f[0] = <<>>
        /\ \A i \in 1 .. N : f[i] = IF i = k THEN Append(f[i - 1], table[i]) ELSE f[i - 1]
  <2>1. PICK f \in [0 .. Len(table) -> Seq(R)] : Takes(f, ids)
    BY RowsAtSteps
  <2>2. \A i : i \in ids <=> i = k
    BY <1>1
  <2>3. \A i \in 1 .. N : f[i] = IF i = k THEN Append(f[i - 1], table[i]) ELSE f[i - 1]
    BY <2>1, <2>2 DEF Takes
  <2> QED
    BY <2>1, <2>3 DEF Takes
<1> DEFINE one == <<table[k]>>
           A == {i \in 0 .. N : f[i] = IF i < k THEN <<>> ELSE one}
<1>3. Append(<<>>, table[k]) = one
  OBVIOUS
<1> HIDE DEF N, one
<1>4. 0 \in A
  BY <1>1, <1>2
<1>5. ASSUME NEW i \in 0 .. N - 1, i \in A
      PROVE  i + 1 \in A
  <2>1. i + 1 \in 1 .. N /\ i + 1 \in 0 .. N /\ (i + 1) - 1 = i
    BY <1>1
  <2>2. f[i] = IF i < k THEN <<>> ELSE one
    BY <1>5
  <2>3. f[i + 1] = IF i + 1 = k THEN Append(f[i], table[i + 1]) ELSE f[i]
    BY <1>1, <1>2, <2>1
  <2>4. CASE i + 1 = k
    <3>1. f[i] = <<>> /\ ~(i + 1 < k)
      BY <1>1, <2>2, <2>4
    <3>2. f[i + 1] = one
      BY <1>3, <2>3, <2>4, <3>1
    <3> QED
      BY <2>1, <3>1, <3>2
  <2>5. CASE i + 1 # k
    <3>1. i < k <=> i + 1 < k
      BY <1>1, <2>5
    <3> QED
      BY <2>1, <2>2, <2>3, <2>5, <3>1
  <2> QED
    BY <2>4, <2>5
<1>6. \A i \in 0 .. N : i \in A
  <2> HIDE DEF A
  <2> QED
    BY <1>1, <1>4, <1>5, IntervalInduction
<1>7. f[N] = one
  <2>1. N \in 0 .. N /\ ~(N < k)
    BY <1>1
  <2> QED
    BY <1>6, <2>1
<1> QED
  BY <1>2, <1>7 DEF one

LEMMA RowsAtSome ==
  ASSUME NEW R, table \in Seq(R), NEW ids, NEW k \in DOMAIN table, k \in ids
  PROVE  RowsAt(ids) # <<>>
<1> DEFINE N == Len(table)
<1>1. PICK f \in [0 .. N -> Seq(R)] : Takes(f, ids)
  BY RowsAtSteps
<1>2. /\ RowsAt(ids) = f[N]
      /\ \A i \in 1 .. N :
           f[i] = IF i \in ids THEN Append(f[i - 1], table[i]) ELSE f[i - 1]
  BY <1>1 DEF Takes
<1>3. N \in Nat /\ k \in 1 .. N
  OBVIOUS
<1> HIDE DEF N
<1>4. ASSUME NEW i \in 0 .. N, NEW x
      PROVE  Append(f[i], x) # <<>>
  <2>1. f[i] \in Seq(R)
    BY <1>1
  <2>2. Len(Append(f[i], x)) = Len(f[i]) + 1 /\ Len(f[i]) \in Nat /\ Len(<<>>) = 0
    BY <2>1
  <2> QED
    BY <2>2
<1> DEFINE A == {i \in 0 .. N : i >= k => f[i] # <<>>}
<1>5. 0 \in A
  BY <1>3
<1>6. ASSUME NEW i \in 0 .. N - 1, i \in A
      PROVE  i + 1 \in A
  <2>1. i + 1 \in 1 .. N /\ i + 1 \in 0 .. N /\ i \in 0 .. N /\ (i + 1) - 1 = i
    BY <1>3
  <2>2. CASE i + 1 \in ids
    <3>1. f[i + 1] = Append(f[i], table[i + 1])
      BY <1>2, <2>1, <2>2
    <3> QED
      BY <1>4, <2>1, <3>1
  <2>3. CASE i + 1 \notin ids
    <3>1. f[i + 1] = f[i] /\ i + 1 # k
      BY <1>2, <2>1, <2>3
    <3> QED
      BY <1>3, <1>6, <2>1, <3>1
  <2> QED
    BY <2>2, <2>3
<1>7. \A i \in 0 .. N : i \in A
  <2> HIDE DEF A
  <2> QED
    BY <1>3, <1>5, <1>6, IntervalInduction
<1> QED
  BY <1>2, <1>3, <1>7

-----------------------------------------------------------------------------
(* The fields of several rows, one after the other *)

\* FlattenSeq of one or more rows has the fields of a row, and perhaps more.
LEMMA FlattenType ==
  ASSUME NEW s \in Seq(Row), s # <<>>
  PROVE  FlattenSeq(s) \in Entry
<1> DEFINE N == Len(s) - 1
           S == Entry
           step == [p \in (1 .. N) \X S |-> p[2] \o s[p[1] + 1]]
           Solves(f) == f = [i \in 1 .. Len(s) |->
                               IF i = 1 THEN s[i] ELSE f[i - 1] \o s[i]]
<1>1. N \in Nat /\ Len(s) = N + 1 /\ \A i \in 1 .. Len(s) : s[i] \in S
  <2>1. \A i \in 1 .. Len(s) : s[i] \in Row
    OBVIOUS
  <2> QED
    BY <2>1 DEF Row, Entry
<1>2. step \in [(1 .. N) \X S -> S]
  <2>1. ASSUME NEW i \in 1 .. N, NEW r \in S
        PROVE  r \o s[i + 1] \in S
    <3>1. s[i + 1] \in S
      BY <1>1
    <3> HIDE DEF N
    <3> QED
      BY <3>1 DEF Entry, Fields
  <2> QED
    BY <2>1
<1> HIDE DEF N, S
<1>3. PICK f \in [0 .. N -> S] :
        f[0] = s[1] /\ \A i \in 1 .. N : f[i] = step[<<i, f[i - 1]>>]
  <2> HIDE DEF step
  <2>1. s[1] \in S
    BY <1>1
  <2>2. \E f : Solution(f, S, s[1], N, step)
    BY <1>1, <1>2, <2>1, Recursion
  <2> QED
    BY <2>2 DEF Solution
<1> DEFINE h == [i \in 1 .. Len(s) |-> f[i - 1]]
<1>4. Solves(h)
  <2>1. ASSUME NEW i \in 1 .. Len(s)
        PROVE  h[i] = IF i = 1 THEN s[i] ELSE h[i - 1] \o s[i]
    <3>1. CASE i = 1
      BY <1>3, <3>1
    <3>2. CASE i # 1
      <4>1. /\ i - 1 \in 1 .. N /\ i - 1 \in 1 .. Len(s) /\ (i - 1) - 1 \in 0 .. N
            /\ (i - 1) + 1 = i
        BY <1>1, <3>2
      <4>2. f[i - 1] = step[<<i - 1, f[(i - 1) - 1]>>]
        BY <1>3, <4>1
      <4>3. <<i - 1, f[(i - 1) - 1]>> \in (1 .. N) \X S
        BY <1>3, <4>1
      <4>4. f[i - 1] = f[(i - 1) - 1] \o s[i]
        BY <4>1, <4>2, <4>3
      <4>5. h[i - 1] = f[(i - 1) - 1] /\ h[i] = f[i - 1]
        BY <4>1
      <4> QED
        BY <3>2, <4>4, <4>5
    <3> QED
      BY <3>1, <3>2
  <2> QED
    BY <2>1
<1> DEFINE g == CHOOSE q : Solves(q)
<1>5. Solves(g)
  <2> HIDE DEF Solves, h
  <2> QED
    BY <1>4
<1>6. FlattenSeq(s) = g[Len(s)]
  BY <1>1 DEF FlattenSeq
<1>7. ASSUME NEW i \in 1 .. Len(s)
      PROVE  g[i] = IF i = 1 THEN s[i] ELSE g[i - 1] \o s[i]
  <2> HIDE DEF g
  <2> QED
    BY <1>5
<1> HIDE DEF g
<1> DEFINE A == {i \in 0 .. N : g[i + 1] \in S}
<1>8. 0 \in A
  <2>1. g[1] = s[1] /\ s[1] \in S
    BY <1>1, <1>7
  <2> QED
    BY <1>1, <2>1
<1>9. ASSUME NEW i \in 0 .. N - 1, i \in A
      PROVE  i + 1 \in A
  <2>1. /\ (i + 1) + 1 \in 1 .. Len(s) /\ ((i + 1) + 1) - 1 = i + 1
        /\ (i + 1) + 1 # 1 /\ i + 1 \in 0 .. N
    BY <1>1
  <2>2. g[(i + 1) + 1] = g[i + 1] \o s[(i + 1) + 1]
    BY <1>7, <2>1
  <2>3. g[i + 1] \in S /\ s[(i + 1) + 1] \in S
    BY <1>1, <1>9, <2>1
  <2>4. g[i + 1] \o s[(i + 1) + 1] \in S
    <3>1. ASSUME NEW q \in S, NEW r \in S
          PROVE  q \o r \in S
      BY <3>1 DEF S, Entry, Fields
    <3> QED
      BY <2>3, <3>1
  <2> QED
    BY <2>1, <2>2, <2>4
<1>10. \A i \in 0 .. N : i \in A
  <2> HIDE DEF A
  <2> QED
    BY <1>1, <1>8, <1>9, IntervalInduction
<1> QED
  BY <1>1, <1>6, <1>10 DEF S

LEMMA FlattenOne ==
  ASSUME NEW r
  PROVE  FlattenSeq(<<r>>) = r
<1> DEFINE s == <<r>>
           Solves(f) == f = [i \in 1 .. Len(s) |->
                               IF i = 1 THEN s[i] ELSE f[i - 1] \o s[i]]
           h == [i \in 1 .. Len(s) |-> r]
           g == CHOOSE f : Solves(f)
<1>1. Len(s) = 1 /\ s[1] = r
  OBVIOUS
<1>2. FlattenSeq(s) = g[Len(s)]
  <2>1. Len(s) # 0
    BY <1>1
  <2> HIDE DEF s
  <2> QED
    BY <2>1 DEF FlattenSeq
<1> HIDE DEF s
<1>3. Solves(h)
  <2>1. \A i \in 1 .. Len(s) : i = 1
    BY <1>1
  <2> QED
    BY <1>1, <2>1
<1>4. Solves(g)
  <2> HIDE DEF Solves, h
  <2> QED
    BY <1>3
<1>5. g[1] = r
  <2> HIDE DEF g
  <2> QED
    BY <1>1, <1>4
<1> QED
  BY <1>1, <1>2, <1>5 DEF s

-----------------------------------------------------------------------------
(* Types of the table and its copy *)

\* The names in the table are finitely many numbers.
TableNames == {r[1] : r \in ToSet(table)}

\* The positions of a table are as many as its rows.
LEMMA PositionsOf ==
  ASSUME NEW R, table \in Seq(R)
  PROVE  IsFiniteSet(1 .. Len(table)) /\ Cardinality(1 .. Len(table)) = Len(table)
<1> SUFFICES ASSUME NEW n \in Nat
             PROVE  IsFiniteSet(1 .. n) /\ Cardinality(1 .. n) = n
  OBVIOUS
<1>1. 1 \in Int /\ n \in Int /\ (IF 1 > n THEN 0 ELSE n - 1 + 1) = n
  OBVIOUS
<1> QED
  BY <1>1, FS_Interval

LEMMA NamesType ==
  ASSUME table \in Seq(Row)
  PROVE  /\ TableNames \subseteq Nat /\ IsFiniteSet(TableNames)
         /\ TableNames = {table[i][1] : i \in 1 .. Len(table)}
         /\ Cardinality(TableNames) <= Len(table)
<1>1. TableNames = {table[i][1] : i \in 1 .. Len(table)}
  BY DEF TableNames, ToSet
<1>2. ASSUME NEW i \in 1 .. Len(table)
      PROVE  table[i][1] \in Nat
  <2>1. table[i] \in Row
    OBVIOUS
  <2> QED
    BY <2>1 DEF Row, Fields
<1> DEFINE f == [i \in 1 .. Len(table) |-> table[i][1]]
<1>3. f \in Surjection(1 .. Len(table), TableNames)
  BY <1>1 DEF Surjection
<1>4. IsFiniteSet(1 .. Len(table)) /\ Cardinality(1 .. Len(table)) = Len(table)
  BY PositionsOf
<1>5. IsFiniteSet(TableNames) /\ Cardinality(TableNames) <= Len(table)
  <2> HIDE DEF f
  <2> QED
    BY <1>3, <1>4, FS_Surjection
<1> QED
  BY <1>1, <1>2, <1>5

\* The first fields of an entry are a row.
LEMMA FirstFields ==
  ASSUME NEW s \in Entry
  PROVE  SubSeq(s, 1, Fields) \in Row
<1>1. s \in Seq(Nat) /\ Len(s) >= 2
  BY DEF Entry, Fields
<1>2. SubSeq(s, 1, 2) \in Seq(Nat) /\ Len(SubSeq(s, 1, 2)) = 2
  BY <1>1
<1> QED
  BY <1>2 DEF Row, Fields

LEMMA InsertType ==
  ASSUME TableTypeOK, NEW fields \in Seq(Nat), InsertRow(fields), UNCHANGED cache
  PROVE  TableTypeOK'
<1>1. CASE Len(fields) < Fields
  BY <1>1 DEF InsertRow, TableTypeOK
<1>2. CASE ~(Len(fields) < Fields)
  <2>1. SubSeq(fields, 1, Fields) \in Row
    BY <1>2, FirstFields DEF Entry, Fields
  <2>2. Append(table, SubSeq(fields, 1, Fields)) \in Seq(Row)
    <3>1. table \in Seq(Row)
      BY DEF TableTypeOK
    <3> QED
      BY <2>1, <3>1
  <2>3. table' \in Seq(Row)
    BY <1>2, <2>2 DEF InsertRow, Inserted, TableTypeOK
  <2> QED
    BY <1>2, <2>3 DEF InsertRow, TableTypeOK
<1> QED
  BY <1>1, <1>2

LEMMA DownloadType ==
  ASSUME TableTypeOK, SynchronizeDownload
  PROVE  TableTypeOK'
<1>1. table \in Seq(Row)
  BY DEF TableTypeOK
<1>2. cache' = [name \in TableNames |-> FlattenSeq(RowsOf(name))]
  BY DEF SynchronizeDownload, Downloaded, TableNames
<1>3. ASSUME NEW name \in TableNames
      PROVE  FlattenSeq(RowsOf(name)) \in Entry
  <2> DEFINE ids == {i \in DOMAIN table : table[i][1] = name}
  <2>1. PICK k \in DOMAIN table : k \in ids
    BY DEF TableNames, ToSet
  <2>2. RowsAt(ids) \in Seq(Row) /\ RowsAt(ids) # <<>>
    <3> HIDE DEF ids
    <3> QED
      BY <1>1, <2>1, RowsAtType, RowsAtSome
  <2> QED
    BY <2>2, FlattenType DEF RowsOf
<1>4. cache' \in [DOMAIN cache' -> Entry] /\ DOMAIN cache' = TableNames
  BY <1>2, <1>3
<1> QED
  BY <1>1, <1>4, NamesType DEF SynchronizeDownload, TableTypeOK

LEMMA UploadType ==
  ASSUME TableTypeOK, SynchronizeUpload
  PROVE  TableTypeOK'
<1>1. table' \in Seq(Row)
  <2>1. CASE ~OtherTable
    BY <2>1 DEF SynchronizeUpload, TableTypeOK
  <2>2. CASE OtherTable
    <3>0. PICK n \in 0 .. Cardinality(DOMAIN cache) :
            \E names \in [1 .. n -> DOMAIN cache] :
              table' = table \o [i \in 1 .. n |-> SubSeq(cache[names[i]], 1, Fields)]
      BY <2>2 DEF SynchronizeUpload
    <3>1. PICK names \in [1 .. n -> DOMAIN cache] :
            table' = table \o [i \in 1 .. n |-> SubSeq(cache[names[i]], 1, Fields)]
      BY <3>0
    <3>2. n \in Nat
      <4>1. IsFiniteSet(DOMAIN cache)
        BY DEF TableTypeOK
      <4>2. Cardinality(DOMAIN cache) \in Nat
        BY <4>1, FS_CardinalityType
      <4> QED
        BY <4>2
    <3>3. ASSUME NEW i \in 1 .. n
          PROVE  SubSeq(cache[names[i]], 1, Fields) \in Row
      BY FirstFields DEF TableTypeOK
    <3>4. [i \in 1 .. n |-> SubSeq(cache[names[i]], 1, Fields)] \in Seq(Row)
      BY <3>2, <3>3
    <3>5. table \in Seq(Row)
      BY DEF TableTypeOK
    <3> DEFINE more == [i \in 1 .. n |-> SubSeq(cache[names[i]], 1, Fields)]
    <3> HIDE DEF more
    <3>6. table \o more \in Seq(Row)
      BY <3>4, <3>5 DEF more
    <3> QED
      BY <3>1, <3>6 DEF more
  <2> QED
    BY <2>1, <2>2
<1>2. result' \in {"ok", "failed"} /\ synced' = FALSE /\ cache' = cache
  BY DEF SynchronizeUpload
<1> QED
  BY <1>1, <1>2 DEF TableTypeOK

LEMMA EditType ==
  ASSUME TableTypeOK, NEW name \in Nat,
         DeleteRow(name) \/ UpdateRow(name, 0) \/ AddDataToMap(name, 0)
  PROVE  TableTypeOK'
<1> DEFINE new == <<name, 0>>
<1>1. new \in Row /\ new \in Entry
  BY DEF Row, Entry, Fields
<1>t. table \in Seq(Row)
  BY DEF TableTypeOK
<1>2. CASE DeleteRow(name)
  <2>1. table' \in Seq(Row)
    BY <1>t, <1>2, RowsAtType DEF DeleteRow
  <2> QED
    BY <1>2, <2>1 DEF DeleteRow, TableTypeOK
<1>3. CASE UpdateRow(name, 0)
  <2>1. table' = [i \in 1 .. Len(table) |-> IF table[i][1] = name THEN new ELSE table[i]]
    BY <1>t, <1>3 DEF UpdateRow
  <2>2. \A i \in 1 .. Len(table) : table[i] \in Row
    BY <1>t
  <2>3. Len(table) \in Nat
    BY <1>t
  <2> HIDE DEF new
  <2>4. table' \in Seq(Row)
    BY <1>1, <2>1, <2>2, <2>3
  <2> QED
    BY <1>3, <2>4 DEF UpdateRow, TableTypeOK
<1>4. CASE AddDataToMap(name, 0)
  <2>1. cache' = [key \in DOMAIN cache \union {name} |->
                    IF key = name THEN new ELSE cache[key]]
    BY <1>4 DEF AddDataToMap
  <2>2. /\ DOMAIN cache' = DOMAIN cache \union {name}
        /\ cache' \in [DOMAIN cache' -> Entry]
    <3> HIDE DEF new
    <3> QED
      BY <1>1, <2>1 DEF TableTypeOK
  <2>3. IsFiniteSet(DOMAIN cache \union {name})
    BY FS_AddElement DEF TableTypeOK
  <2> QED
    BY <1>4, <2>2, <2>3 DEF AddDataToMap, TableTypeOK
<1> QED
  BY <1>2, <1>3, <1>4

LEMMA CallTypes ==
  ASSUME TableTypeOK, Call
  PROVE  TableTypeOK'
<1>1. CASE SynchronizeDownload
  BY <1>1, DownloadType
<1>2. CASE SynchronizeUpload
  BY <1>2, UploadType
<1>3. ASSUME NEW name \in Names,
             \/ DeleteRow(name) \/ UpdateRow(name, 0) \/ AddDataToMap(name, 0)
             \/ RowsOf(name) # <<>> /\ QueryRowByKey(name)
      PROVE  TableTypeOK'
  <2>1. name \in Nat
    BY TableAssumption
  <2>2. CASE QueryRowByKey(name)
    BY <2>2 DEF QueryRowByKey, TableTypeOK
  <2> QED
    BY <1>3, <2>1, <2>2, EditType
<1> QED
  BY <1>1, <1>2, <1>3 DEF Call

-----------------------------------------------------------------------------
(* Types of the server *)

LEMMA LoopOfType ==
  ASSUME NEW c \in Conns
  PROVE  LoopOf(c) \in Loops
<1>1. CASE OneLoop
  BY <1>1, ServerAssumption DEF LoopOf
<1>2. CASE ~OneLoop
  <2>1. (CHOOSE f \in Dealings : TRUE) \in Dealings
    BY <1>2, ServerAssumption
  <2>2. (CHOOSE f \in Dealings : TRUE) \in [Conns -> Loops]
    BY <2>1 DEF Dealings
  <2> QED
    BY <1>2, <2>2 DEF LoopOf
<1> QED
  BY <1>1, <1>2

\* A message that is handled was found in its frame.
PetKnown == \A l \in Loops : loop[l].pc \notin {"poll", "parse"} => loop[l].pet # 0

Message == [conn : Conns, type : Types, row : Names \X Nat]

LoopState == [pc : {"poll", "parse", "clear", "push", "push2", "store"},
              units : Seq(Unit), pet : {0} \union DOMAIN sent]

LEMMA FrameType ==
  ASSUME NEW n
  PROVE  Frame(n) \in Seq((1 .. Parts) \X {n}) /\ Len(Frame(n)) = 5
  BY DEF Frame, Parts

LEMMA FrameUnits ==
  ASSUME NEW n
  PROVE  \A i \in 1 .. 5 : Frame(n)[i] = <<i, n>>
  BY DEF Frame, Parts

LEMMA SendType ==
  ASSUME TypeOK, PetKnown, NEW c \in Conns, NEW type \in Types, NEW name \in Names,
         SendPet(c, type, name)
  PROVE  TypeOK' /\ PetKnown'
<1> DEFINE n == Len(sent) + 1
           new == [conn |-> c, type |-> type, row |-> <<name, n>>]
<1>1. sent \in Seq(Message) /\ sent' = Append(sent, new)
  BY DEF TypeOK, SendPet, Message
<1>2. new \in Message
  BY <1>1 DEF Message
<1>3. /\ sent' \in Seq(Message) /\ Len(sent') = n /\ n \in Nat
      /\ DOMAIN sent' = DOMAIN sent \union {n}
  <2> HIDE DEF new
  <2> QED
    BY <1>1, <1>2
<1>4. Unit \subseteq Unit' /\ (1 .. Parts) \X {n} \subseteq Unit'
  BY <1>3 DEF Unit
<1>5. Seq(Unit) \subseteq Seq(Unit') /\ Seq((1 .. Parts) \X {n}) \subseteq Seq(Unit')
  BY <1>4
<1>6. Len(sent') <= MaxPets
  BY <1>1, <1>3, ServerAssumption DEF SendPet
<1>7. stream' \in [Conns -> Seq(Unit')]
  <2>1. stream \in [Conns -> Seq(Unit')]
    BY <1>5 DEF TypeOK
  <2>2. Frame(n) \in Seq(Unit')
    BY <1>5, FrameType
  <2>3. stream' = [stream EXCEPT ![c] = @ \o Frame(n)]
    BY DEF SendPet
  <2>4. stream[c] \o Frame(n) \in Seq(Unit')
    BY <2>1, <2>2
  <2> HIDE DEF n
  <2> QED
    BY <2>1, <2>3, <2>4
<1>8. loop' \in [Loops -> LoopState'] /\ loop' = loop
  <2>1. loop \in [Loops -> LoopState] /\ loop' = loop
    BY DEF TypeOK, LoopState, SendPet
  <2>2. LoopState \subseteq LoopState'
    BY <1>3, <1>5 DEF LoopState
  <2> QED
    BY <2>1, <2>2
<1>9. /\ TableTypeOK'
      /\ row' \in Seq(Nat) /\ stored' \in Seq(Seq(Nat)) /\ calls' \in 0 .. MaxCalls
      /\ exited' \in {"no", "null message", "no handler"}
  BY DEF SendPet, TypeOK, TableTypeOK, tableVars
<1> QED
  BY <1>3, <1>6, <1>7, <1>8, <1>9 DEF TypeOK, LoopState, Message, PetKnown

LEMMA ReadType ==
  ASSUME TypeOK, PetKnown, NEW c \in Conns, HandleRead(c)
  PROVE  TypeOK' /\ PetKnown'
<1> DEFINE l == LoopOf(c)
<1>1. PICK n \in 1 .. Len(stream[c]) :
        /\ loop' = [loop EXCEPT ![l] = [pc |-> "parse", pet |-> 0,
                                        units |-> SubSeq(stream[c], 1, n)]]
        /\ stream' = [stream EXCEPT ![c] = SubSeq(@, n + 1, Len(@))]
  BY DEF HandleRead
<1>2. l \in Loops
  BY LoopOfType
<1>3. UNCHANGED <<tableVars, sent, row, stored, calls, exited>> /\ Unit' = Unit
  BY DEF HandleRead, Unit
<1>4. stream \in [Conns -> Seq(Unit)] /\ stream[c] \in Seq(Unit)
  BY DEF TypeOK
<1>5. /\ SubSeq(stream[c], 1, n) \in Seq(Unit)
      /\ SubSeq(stream[c], n + 1, Len(stream[c])) \in Seq(Unit)
  BY <1>4
<1>6. stream' \in [Conns -> Seq(Unit)]
  BY <1>1, <1>4, <1>5
<1>7. loop \in [Loops -> LoopState]
  BY DEF TypeOK, LoopState
<1> DEFINE ls == [pc |-> "parse", pet |-> 0, units |-> SubSeq(stream[c], 1, n)]
<1>8. ls \in LoopState
  BY <1>5 DEF LoopState
<1> HIDE DEF l, ls
<1>9. loop' \in [Loops -> LoopState] /\ LoopState' = LoopState
  BY <1>1, <1>2, <1>3, <1>7, <1>8 DEF ls, LoopState
<1>10. PetKnown'
  <2> SUFFICES ASSUME NEW k \in Loops, loop'[k].pc \notin {"poll", "parse"}
               PROVE  loop'[k].pet # 0
    BY DEF PetKnown
  <2>1. loop'[l].pc = "parse"
    BY <1>1, <1>2, <1>7
  <2>2. k # l /\ loop'[k] = loop[k]
    BY <1>1, <1>2, <1>7, <2>1
  <2> QED
    BY <2>2 DEF PetKnown
<1> QED
  BY <1>3, <1>6, <1>9, <1>10 DEF TypeOK, LoopState, TableTypeOK, tableVars

LEMMA HeadType ==
  ASSUME NEW units \in Seq(Unit)
  PROVE  HeadOf(units) \in {0} \union DOMAIN sent
<1>1. CASE Len(units) >= Parts - 1
  <2>1. units[1] \in Unit
    BY <1>1 DEF Parts
  <2>2. units[1][2] \in DOMAIN sent
    BY <2>1 DEF Unit
  <2> QED
    BY <2>2 DEF HeadOf
<1>2. CASE ~(Len(units) >= Parts - 1)
  BY <1>2 DEF HeadOf
<1> QED
  BY <1>1, <1>2

\* From "clear" on, a step of a loop changes its pc alone.
LEMMA PushTo ==
  ASSUME TypeOK, NEW l \in Loops, ParseClear(l) \/ ParsePush(l) \/ Store(l)
  PROVE  \E pc \in {"poll", "push", "push2", "store"} :
           loop' = [loop EXCEPT ![l].pc = pc]
<1>1. CASE ParseClear(l)
  BY <1>1 DEF ParseClear
<1>2. CASE ParsePush(l)
  <2>1. loop \in [Loops -> LoopState]
    BY DEF TypeOK, LoopState
  <2>2. loop' = [loop EXCEPT ![l].pc = IF loop[l].pc = "push" THEN "push2" ELSE "store"]
    BY <1>2, <2>1 DEF ParsePush
  <2> QED
    BY <2>2
<1>3. CASE Store(l)
  BY <1>3 DEF Store
<1> QED
  BY <1>1, <1>2, <1>3

LEMMA LoopStepType ==
  ASSUME TypeOK, PetKnown, NEW l \in Loops, LoopStep(l)
  PROVE  TypeOK' /\ PetKnown'
<1>1. /\ loop \in [Loops -> LoopState] /\ loop[l].units \in Seq(Unit)
      /\ loop[l].pet \in {0} \union DOMAIN sent
      /\ loop[l].pc \notin {"poll", "parse"} => loop[l].pet \in DOMAIN sent
  BY DEF TypeOK, LoopState, PetKnown
<1>2. /\ UNCHANGED <<sent, stream, calls>> /\ Unit' = Unit
  BY DEF LoopStep, ParseDataPack, ParseClear, ParsePush, Store, Unit
<1>3. CASE ParseDataPack(l)
  <2> DEFINE n == HeadOf(loop[l].units)
  <2>1. n \in {0} \union DOMAIN sent
    BY <1>1, HeadType
  <2> HIDE DEF n
  <2>2. /\ exited' \in {"no", "null message", "no handler"}
        /\ exited' = "no" => n # 0
    BY <1>3 DEF ParseDataPack, n
  <2> DEFINE pc == IF exited' = "no" THEN "clear" ELSE loop[l].pc
             ls == [loop[l] EXCEPT !.pc = pc, !.pet = n]
  <2>3. ls \in LoopState
    BY <1>1, <2>1 DEF LoopState
  <2>4. loop' = [loop EXCEPT ![l] = ls] /\ loop[l].pc = "parse"
    BY <1>1, <1>3 DEF ParseDataPack, n
  <2>5. loop'[l].pc \notin {"poll", "parse"} => loop'[l].pet # 0
    BY <1>1, <2>2, <2>4 DEF LoopState
  <2>6. \A k \in Loops : k # l => loop'[k] = loop[k]
    BY <1>1, <2>4
  <2>7. PetKnown'
    BY <2>5, <2>6 DEF PetKnown
  <2> HIDE DEF ls
  <2>8. loop' \in [Loops -> LoopState]
    BY <1>1, <2>3, <2>4
  <2>9. UNCHANGED <<tableVars, row, stored>>
    BY <1>3 DEF ParseDataPack
  <2> QED
    BY <1>2, <2>2, <2>7, <2>8, <2>9 DEF TypeOK, LoopState, TableTypeOK, tableVars
<1>4. CASE ParseClear(l) \/ ParsePush(l) \/ Store(l)
  <2>1. PICK pc \in {"poll", "push", "push2", "store"} :
          loop' = [loop EXCEPT ![l].pc = pc]
    BY <1>4, PushTo
  <2>2. loop[l].pet # 0 /\ loop[l].pet \in DOMAIN sent
    <3>1. loop[l].pc \notin {"poll", "parse"}
      BY <1>4 DEF ParseClear, ParsePush, Store
    <3> QED
      BY <1>1, <3>1 DEF PetKnown
  <2> DEFINE ls == [loop[l] EXCEPT !.pc = pc]
  <2>3. ls \in LoopState /\ ls.pet = loop[l].pet
    BY <1>1 DEF LoopState
  <2>4. loop' = [loop EXCEPT ![l] = ls]
    BY <1>1, <2>1
  <2> HIDE DEF ls
  <2>5. loop' \in [Loops -> LoopState] /\ PetKnown'
    BY <1>1, <2>2, <2>3, <2>4 DEF PetKnown
  <2>6. row' \in Seq(Nat)
    <3>1. CASE ParseClear(l)
      <4>1. row' = <<>> /\ <<>> \in Seq(Nat)
        BY <3>1 DEF ParseClear, Cleared
      <4> QED
        BY <4>1
    <3>2. CASE ParsePush(l)
      <4>1. sent[loop[l].pet].row \in Names \X Nat
        <5>1. sent \in Seq(Message)
          BY DEF TypeOK, Message
        <5>2. sent[loop[l].pet] \in Message
          BY <2>2, <5>1
        <5> QED
          BY <5>2 DEF Message
      <4>2. FieldsOf(l) \in Nat \X Nat
        BY <4>1, TableAssumption DEF FieldsOf
      <4>3. PICK x \in Nat : row' = Append(row, x)
        BY <3>2, <4>2 DEF ParsePush
      <4>4. row \in Seq(Nat)
        BY DEF TypeOK
      <4> QED
        BY <4>3, <4>4
    <3>3. CASE Store(l)
      BY <3>3 DEF Store, TypeOK
    <3> QED
      BY <1>4, <3>1, <3>2, <3>3
  <2>7. stored' \in Seq(Seq(Nat)) /\ TableTypeOK'
    <3>1. CASE ParseClear(l) \/ ParsePush(l)
      BY <3>1 DEF ParseClear, ParsePush, TypeOK, TableTypeOK, tableVars
    <3>2. CASE Store(l)
      <4>1. row \in Seq(Nat) /\ TableTypeOK /\ stored \in Seq(Seq(Nat))
        BY DEF TypeOK
      <4>2. TableTypeOK'
        BY <3>2, <4>1, InsertType DEF Store
      <4>3. PICK r \in Seq(Nat) : stored' = Append(stored, r)
        <5>1. SubSeq(row, 1, Fields) \in Seq(Nat) \/ Len(row) < Fields
          BY <4>1 DEF Fields
        <5> QED
          BY <3>2, <4>1, <5>1 DEF Store
      <4> QED
        BY <4>1, <4>2, <4>3
    <3> QED
      BY <1>4, <3>1, <3>2
  <2>8. exited' = exited
    BY <1>4 DEF ParseClear, ParsePush, Store
  <2> QED
    BY <1>2, <2>5, <2>6, <2>7, <2>8 DEF TypeOK, LoopState
<1> QED
  BY <1>3, <1>4 DEF LoopStep

LEMMA InitType ==
  ASSUME Init
  PROVE  TypeOK /\ PetKnown
<1>1. TableTypeOK
  <2>1. DOMAIN NoCache = {} /\ NoCache \in [{} -> Entry]
    BY DEF NoCache
  <2>2. IsFiniteSet({})
    BY FS_EmptySet
  <2>3. <<>> \in Seq(Row)
    OBVIOUS
  <2> QED
    BY <2>1, <2>2, <2>3 DEF Init, TableInit, TableTypeOK
<1>2. /\ sent = <<>> /\ sent \in Seq(Message) /\ Len(sent) = 0 /\ Len(sent) <= MaxPets
      /\ stream \in [Conns -> Seq(Unit)] /\ row \in Seq(Nat)
      /\ stored \in Seq(Seq(Nat)) /\ calls \in 0 .. MaxCalls
  BY ServerAssumption DEF Init
<1>3. loop \in [Loops -> LoopState] /\ \A l \in Loops : loop[l].pc = "poll"
  BY DEF Init, LoopState
<1> QED
  BY <1>1, <1>2, <1>3 DEF Init, TypeOK, LoopState, Message, PetKnown

LEMMA StepType ==
  ASSUME TypeOK, PetKnown, [Next]_vars
  PROVE  TypeOK' /\ PetKnown'
<1>1. ASSUME NEW c \in Conns, NEW type \in Types, NEW name \in Names,
             SendPet(c, type, name)
      PROVE  TypeOK' /\ PetKnown'
  BY <1>1, SendType
<1>2. ASSUME NEW c \in Conns, HandleRead(c)
      PROVE  TypeOK' /\ PetKnown'
  BY <1>2, ReadType
<1>3. ASSUME NEW l \in Loops, LoopStep(l)
      PROVE  TypeOK' /\ PetKnown'
  BY <1>3, LoopStepType
<1>4. CASE Call
  <2>1. TableTypeOK'
    BY <1>4, CallTypes DEF TypeOK
  <2>2. calls' \in 0 .. MaxCalls
    <3>1. calls' = calls + 1 /\ calls < MaxCalls
      BY <1>4 DEF Call
    <3>2. calls \in 0 .. MaxCalls /\ MaxCalls \in Nat
      BY ServerAssumption DEF TypeOK
    <3> QED
      BY <3>1, <3>2
  <2>3. UNCHANGED <<sent, stream, loop, row, stored, exited>> /\ Unit' = Unit
    BY <1>4 DEF Call, Unit
  <2> QED
    BY <2>1, <2>2, <2>3 DEF TypeOK, PetKnown
<1>5. CASE UNCHANGED vars
  BY <1>5 DEF vars, TypeOK, PetKnown, TableTypeOK, tableVars, Unit
<1> QED
  BY <1>1, <1>2, <1>3, <1>4, <1>5 DEF Next, Rest

\* The table and its copy hold rows of two fields and more, every unit under way
\* is of a message sent, and what the loops hold is of such a message too,
\* whatever the stream, the dealing of the connections and the calls
\* (PetMysqlOperator.cpp, PetProtocMessCodec.cpp:20-42).
THEOREM TypeCorrect == Spec => []TypeOK
<1>1. Init => TypeOK /\ PetKnown
  BY InitType
<1>2. TypeOK /\ PetKnown /\ [Next]_vars => (TypeOK /\ PetKnown)'
  BY StepType
<1> QED
  BY <1>1, <1>2, PTL DEF Spec

-----------------------------------------------------------------------------
(* The map after a download *)

\* Nothing but the calls that end synced changes the table or the map.
DownloadKept == synced => cache = Downloaded

LEMMA DownloadStep ==
  ASSUME DownloadKept, [Next]_vars
  PROVE  DownloadKept'
<1>1. ASSUME table' = table
      PROVE  Downloaded' = Downloaded
  BY <1>1 DEF Downloaded, RowsOf, RowsAt, ToSet
<1>2. ASSUME table' = table, cache' = cache, synced' => synced
      PROVE  DownloadKept'
  BY <1>1, <1>2 DEF DownloadKept
<1>3. CASE UNCHANGED tableVars
  BY <1>2, <1>3 DEF tableVars
<1>4. ASSUME NEW l \in Loops, Store(l)
      PROVE  DownloadKept'
  <2>1. cache' = cache
    BY <1>4 DEF Store
  <2>2. InsertRow(row)
    BY <1>4 DEF Store
  <2>3. synced' => synced /\ table' = table
    BY <2>2 DEF InsertRow
  <2> QED
    BY <1>2, <2>1, <2>3 DEF DownloadKept
<1>5. CASE Call
  <2>1. CASE SynchronizeDownload
    BY <1>1, <2>1 DEF SynchronizeDownload, DownloadKept
  <2>2. CASE SynchronizeUpload
    BY <2>2 DEF SynchronizeUpload, DownloadKept
  <2>3. ASSUME NEW name \in Names,
               DeleteRow(name) \/ UpdateRow(name, 0) \/ AddDataToMap(name, 0)
        PROVE  DownloadKept'
    BY <2>3 DEF DeleteRow, UpdateRow, AddDataToMap, DownloadKept
  <2>4. ASSUME NEW name \in Names, QueryRowByKey(name)
        PROVE  DownloadKept'
    BY <1>2, <2>4 DEF QueryRowByKey
  <2> QED
    BY <1>5, <2>1, <2>2, <2>3, <2>4 DEF Call
<1>6. ASSUME NEW l \in Loops, ParseDataPack(l) \/ ParseClear(l) \/ ParsePush(l)
      PROVE  UNCHANGED tableVars
  BY <1>6 DEF ParseDataPack, ParseClear, ParsePush
<1>7. ASSUME NEW c \in Conns, HandleRead(c)
      PROVE  UNCHANGED tableVars
  BY <1>7 DEF HandleRead
<1>8. ASSUME NEW c \in Conns, NEW type \in Types, NEW name \in Names,
             SendPet(c, type, name)
      PROVE  UNCHANGED tableVars
  BY <1>8 DEF SendPet
<1>9. CASE UNCHANGED vars
  BY <1>3, <1>9 DEF vars
<1> QED
  BY <1>3, <1>4, <1>5, <1>6, <1>7, <1>8, <1>9 DEF Next, Rest, LoopStep

\* When every name is in one row, the fields of a name are those of its row.
LEMMA UniqueNames ==
  ASSUME table \in Seq(Row), Cardinality(TableNames) = Len(table)
  PROVE  Downloaded = [name \in TableNames |-> RowsOf(name)[1]]
<1> DEFINE f == [i \in 1 .. Len(table) |-> table[i][1]]
<1>1. f \in Surjection(1 .. Len(table), TableNames)
  BY NamesType DEF Surjection
<1>2. IsFiniteSet(1 .. Len(table)) /\ Cardinality(1 .. Len(table)) = Len(table)
  BY PositionsOf
<1>3. f \in Injection(1 .. Len(table), TableNames)
  <2> HIDE DEF f
  <2> QED
    BY <1>1, <1>2, FS_Surjection
<1>4. ASSUME NEW name \in TableNames
      PROVE  FlattenSeq(RowsOf(name)) = RowsOf(name)[1]
  <2>1. PICK k \in 1 .. Len(table) : table[k][1] = name
    BY NamesType
  <2>2. ASSUME NEW i \in 1 .. Len(table), table[i][1] = name
        PROVE  i = k
    <3>1. f[i] = f[k]
      BY <2>1, <2>2
    <3> QED
      BY <1>3, <3>1 DEF Injection, IsInjective
  <2>3. k \in DOMAIN table /\ \A i \in DOMAIN table : table[i][1] = name <=> i = k
    BY <2>1, <2>2
  <2>4. RowsOf(name) = <<table[k]>>
    BY <2>3, RowsOfUnique
  <2>5. FlattenSeq(<<table[k]>>) = table[k] /\ <<table[k]>>[1] = table[k]
    BY FlattenOne
  <2> QED
    BY <2>4, <2>5
<1> QED
  BY <1>4 DEF Downloaded, TableNames

\* After a download the map holds, for each name, the row of the table, when the
\* names are unique: no call and no insertion of a loop leaves the two apart
\* without ending synced, and a download starts from an empty map
\* (PetMysqlOperator.cpp:32-60).
THEOREM Faithful == Spec => []CacheFaithful
<1>1. Init => TypeOK /\ PetKnown /\ DownloadKept
  BY InitType DEF Init, TableInit, DownloadKept
<1>2. /\ TypeOK /\ PetKnown /\ DownloadKept /\ [Next]_vars
      => (TypeOK /\ PetKnown /\ DownloadKept)'
  BY StepType, DownloadStep
<1>3. TypeOK /\ DownloadKept => CacheFaithful
  <2> SUFFICES ASSUME TypeOK, DownloadKept, synced, Cardinality(TableNames) = Len(table)
               PROVE  cache = [name \in TableNames |-> RowsOf(name)[1]]
    BY DEF CacheFaithful, TableNames
  <2>1. table \in Seq(Row)
    BY DEF TypeOK, TableTypeOK
  <2> QED
    BY <2>1, UniqueNames DEF DownloadKept
<1> QED
  BY <1>1, <1>2, <1>3, PTL DEF Spec

-----------------------------------------------------------------------------
(* Frames that arrive whole and alone *)

AllPets == Gentle /\ Types \subseteq {"pet"}

\* Each frame is whole: under way, and in the loop that handles it.
Whole ==
  /\ \A c \in Conns : stream[c] = <<>> \/ \E n \in DOMAIN sent : stream[c] = Frame(n)
  /\ \A l \in Loops : loop[l].pc # "poll" =>
       \E n \in DOMAIN sent :
         /\ loop[l].units = Frame(n)
         /\ loop[l].pc # "parse" => loop[l].pet = n
  /\ exited = "no"

LEMMA FrameEqual ==
  ASSUME NEW m, NEW n, Frame(m) = Frame(n)
  PROVE  m = n
<1>1. 1 \in 1 .. 5
  OBVIOUS
<1>2. Frame(m)[1] = <<1, m>> /\ Frame(n)[1] = <<1, n>>
  BY <1>1, FrameUnits
<1> QED
  BY <1>2

LEMMA FrameHead ==
  ASSUME NEW n
  PROVE  HeadOf(Frame(n)) = n
<1> DEFINE s == Frame(n)
<1>1. \A i \in 1 .. 5 : s[i] = <<i, n>>
  BY FrameUnits
<1>2. Len(s) = 5
  BY FrameType
<1> HIDE DEF s
<1>3. s[1][2] = n /\ \A i \in 1 .. 4 : s[i][1] = i
  BY <1>1
<1>4. HeadOf(s) = n
  BY <1>2, <1>3 DEF HeadOf, Parts
<1> QED
  BY <1>4 DEF s

LEMMA WholeInit ==
  ASSUME Init
  PROVE  Whole
BY DEF Init, Whole

\* The frame of a pet is the first on its connection, and is read as it is.
LEMMA WholeSend ==
  ASSUME TypeOK, Whole, AllPets, NEW c \in Conns, NEW type \in Types,
         NEW name \in Names, SendPet(c, type, name)
  PROVE  LET n == Len(sent) + 1
         IN  /\ stream[c] = <<>> /\ stream' = [stream EXCEPT ![c] = Frame(n)]
             /\ DOMAIN sent' = DOMAIN sent \union {n}
             /\ sent'[n] = [conn |-> c, type |-> type, row |-> <<name, n>>]
             /\ \A m \in DOMAIN sent : sent'[m] = sent[m] /\ m < n
             /\ n \in Nat /\ UNCHANGED <<loop, row, stored, exited>>
<1> DEFINE n == Len(sent) + 1
           new == [conn |-> c, type |-> type, row |-> <<name, n>>]
<1>1. sent \in Seq(Message) /\ sent' = Append(sent, new)
  BY DEF TypeOK, SendPet, Message
<1>2. /\ DOMAIN sent' = DOMAIN sent \union {n} /\ n \in Nat /\ sent'[n] = new
      /\ \A m \in DOMAIN sent : sent'[m] = sent[m] /\ m < n
  <2> HIDE DEF new
  <2> QED
    BY <1>1
<1>3. stream[c] = <<>>
  BY DEF SendPet, AllPets
<1>4. stream' = [stream EXCEPT ![c] = Frame(n)]
  <2>1. stream' = [stream EXCEPT ![c] = stream[c] \o Frame(n)]
    BY DEF SendPet
  <2>2. <<>> \o Frame(n) = Frame(n)
    BY FrameType
  <2> QED
    BY <1>3, <2>1, <2>2
<1> QED
  BY <1>2, <1>3, <1>4 DEF SendPet

LEMMA WholeRead ==
  ASSUME TypeOK, Whole, AllPets, NEW c \in Conns, HandleRead(c)
  PROVE  \E n \in DOMAIN sent :
           /\ stream[c] = Frame(n) /\ stream' = [stream EXCEPT ![c] = <<>>]
           /\ loop[LoopOf(c)].pc = "poll"
           /\ loop' = [loop EXCEPT ![LoopOf(c)] =
                          [pc |-> "parse", pet |-> 0, units |-> Frame(n)]]
           /\ UNCHANGED <<sent, row, stored, exited>>
<1>1. PICK k \in 1 .. Len(stream[c]) :
        /\ k = Len(stream[c])
        /\ loop' = [loop EXCEPT ![LoopOf(c)] = [pc |-> "parse", pet |-> 0,
                                        units |-> SubSeq(stream[c], 1, k)]]
        /\ stream' = [stream EXCEPT ![c] = SubSeq(stream[c], k + 1, Len(stream[c]))]
  BY DEF HandleRead, AllPets
<1>2. PICK n \in DOMAIN sent : stream[c] = Frame(n)
  <2>1. stream[c] # <<>>
    BY <1>1
  <2> QED
    BY <2>1 DEF Whole
<1>3. stream[c] \in Seq(Unit) /\ Len(stream[c]) \in Nat
  <2>1. stream[c] \in Seq(Unit)
    BY DEF TypeOK
  <2> QED
    BY <2>1
<1>4. SubSeq(stream[c], 1, k) = Frame(n)
  BY <1>1, <1>2, <1>3, SubSeqFull
<1>5. SubSeq(stream[c], k + 1, Len(stream[c])) = <<>>
  <2>1. k + 1 \in Int /\ Len(stream[c]) \in Int /\ Len(stream[c]) < k + 1
    BY <1>1, <1>3
  <2> QED
    BY <2>1, SubSeqEmpty
<1> QED
  BY <1>1, <1>2, <1>4, <1>5 DEF HandleRead

LEMMA WholeParse ==
  ASSUME TypeOK, Whole, AllPets, NEW l \in Loops, ParseDataPack(l)
  PROVE  \E n \in DOMAIN sent :
           /\ loop[l].units = Frame(n) /\ loop[l].pc = "parse"
           /\ loop' = [loop EXCEPT ![l].pc = "clear", ![l].pet = n]
           /\ UNCHANGED <<sent, stream, row, stored, exited>>
<1>1. loop[l].pc = "parse" /\ exited = "no"
  BY DEF ParseDataPack, Whole
<1>2. PICK n \in DOMAIN sent : loop[l].units = Frame(n)
  BY <1>1 DEF Whole
<1>3. HeadOf(loop[l].units) = n
  BY <1>2, FrameHead
<1>4. n # 0 /\ sent[n].type = "pet"
  <2>1. sent \in Seq(Message)
    BY DEF TypeOK, Message
  <2>2. sent[n] \in Message /\ n # 0
    BY <2>1
  <2> QED
    BY <2>2 DEF Message, AllPets
<1>5. exited' = "no"
  BY <1>3, <1>4 DEF ParseDataPack
<1> QED
  BY <1>1, <1>2, <1>3, <1>5 DEF ParseDataPack

LEMMA WholeStep ==
  ASSUME TypeOK, Whole, AllPets, [Next]_vars
  PROVE  Whole'
<1>t. loop \in [Loops -> LoopState] /\ stream \in [Conns -> Seq(Unit)]
  BY DEF TypeOK, LoopState
<1>1. ASSUME NEW c \in Conns, NEW type \in Types, NEW name \in Names,
             SendPet(c, type, name)
      PROVE  Whole'
  <2> DEFINE n == Len(sent) + 1
  <2>1. /\ stream' = [stream EXCEPT ![c] = Frame(n)]
        /\ DOMAIN sent' = DOMAIN sent \union {n}
        /\ UNCHANGED <<loop, exited>>
    BY <1>1, WholeSend
  <2> HIDE DEF n
  <2>2. \A d \in Conns : stream'[d] = <<>> \/ \E m \in DOMAIN sent' : stream'[d] = Frame(m)
    BY <1>t, <2>1 DEF Whole
  <2> QED
    BY <2>1, <2>2 DEF Whole
<1>2. ASSUME NEW c \in Conns, HandleRead(c)
      PROVE  Whole'
  <2> DEFINE l == LoopOf(c)
  <2>1. PICK n \in DOMAIN sent :
           /\ stream' = [stream EXCEPT ![c] = <<>>]
           /\ loop' = [loop EXCEPT ![l] = [pc |-> "parse", pet |-> 0, units |-> Frame(n)]]
           /\ UNCHANGED <<sent, exited>>
    BY <1>2, WholeRead
  <2>2. l \in Loops
    BY LoopOfType
  <2> HIDE DEF l
  <2>3. loop'[l].pc = "parse" /\ loop'[l].units = Frame(n)
    BY <1>t, <2>1, <2>2
  <2>4. \A k \in Loops : k # l => loop'[k] = loop[k]
    BY <1>t, <2>1, <2>2
  <2>5. \A d \in Conns : stream'[d] = <<>> \/ stream'[d] = stream[d]
    BY <1>t, <2>1
  <2> QED
    BY <2>1, <2>3, <2>4, <2>5 DEF Whole
<1>3. ASSUME NEW l \in Loops, ParseDataPack(l)
      PROVE  Whole'
  <2>1. PICK n \in DOMAIN sent :
           /\ loop[l].units = Frame(n)
           /\ loop' = [loop EXCEPT ![l].pc = "clear", ![l].pet = n]
           /\ UNCHANGED <<sent, stream, exited>>
    BY <1>3, WholeParse
  <2>2. loop'[l].units = Frame(n) /\ loop'[l].pet = n
    BY <1>t, <2>1 DEF LoopState
  <2>3. \A k \in Loops : k # l => loop'[k] = loop[k]
    BY <1>t, <2>1
  <2> QED
    BY <2>1, <2>2, <2>3 DEF Whole
<1>4. ASSUME NEW l \in Loops, ParseClear(l) \/ ParsePush(l) \/ Store(l)
      PROVE  Whole'
  <2>1. /\ loop[l].pc \notin {"poll", "parse"}
        /\ UNCHANGED <<sent, stream, exited>>
    BY <1>4 DEF ParseClear, ParsePush, Store
  <2>2. PICK pc \in {"poll", "push", "push2", "store"} :
          loop' = [loop EXCEPT ![l].pc = pc]
    BY <1>4, PushTo
  <2>3. loop'[l].units = loop[l].units /\ loop'[l].pet = loop[l].pet
    BY <1>t, <2>2 DEF LoopState
  <2>4. \A k \in Loops : k # l => loop'[k] = loop[k]
    BY <1>t, <2>2
  <2> QED
    BY <2>1, <2>3, <2>4 DEF Whole
<1>5. CASE Call \/ UNCHANGED vars
  BY <1>5 DEF Call, vars, Whole
<1> QED
  BY <1>1, <1>2, <1>3, <1>4, <1>5 DEF Next, Rest, LoopStep

\* Frames of pets that arrive whole and alone do not end the server, on however
\* many loops: parseDataPack finds a type it knows and onMessage its handler
\* (PetProtocMessCodec.cpp:20-42).
THEOREM PetsSurvive ==
  ASSUME AllPets
  PROVE  Spec => []Survives
<1>1. Init => TypeOK /\ PetKnown /\ Whole
  BY InitType, WholeInit
<1>2. TypeOK /\ PetKnown /\ Whole /\ [Next]_vars
      => (TypeOK /\ PetKnown /\ Whole)'
  BY StepType, WholeStep
<1>3. Whole => Survives
  BY DEF Whole, Survives
<1> QED
  BY <1>1, <1>2, <1>3, PTL DEF Spec

-----------------------------------------------------------------------------
(* One loop *)

TheLoop == CHOOSE l \in Loops : TRUE

\* The message that the loop handles is n.
InHand(n) == loop[TheLoop].pc # "poll" /\ loop[TheLoop].units = Frame(n)

\* The row so far holds the fields of the message in hand, and no others.
RowSoFar ==
  LET now == loop[TheLoop] IN
  /\ now.pc = "push" => row = <<>>
  /\ now.pc = "push2" => row = <<sent[now.pet].row[1]>>
  /\ now.pc = "store" => row = sent[now.pet].row

\* Of the connection of n, only earlier messages are stored.
Fresh(n) == \A i \in DOMAIN stored :
  /\ stored[i][2] # n
  /\ sent[stored[i][2]].conn = sent[n].conn => stored[i][2] < n

StoredRows ==
  /\ \A i \in DOMAIN stored :
       stored[i][2] \in DOMAIN sent /\ stored[i] = sent[stored[i][2]].row
  /\ \A i, j \in DOMAIN stored : i # j => stored[i][2] # stored[j][2]
  /\ \A i, j \in DOMAIN stored :
       i < j /\ sent[stored[i][2]].conn = sent[stored[j][2]].conn
         => stored[i][2] < stored[j][2]

\* A message is in one place: stored, in its stream, or in hand.
Places ==
  /\ \A c \in Conns, n \in DOMAIN sent : stream[c] = Frame(n) =>
       /\ sent[n].conn = c /\ Fresh(n)
       /\ \A m \in DOMAIN sent : InHand(m) /\ sent[m].conn = c => m < n
  /\ \A n \in DOMAIN sent : InHand(n) => Fresh(n)
  /\ \A n \in DOMAIN sent :
       \/ \E i \in DOMAIN stored : stored[i][2] = n
       \/ stream[sent[n].conn] = Frame(n)
       \/ InHand(n)

OneByOne ==
  /\ \A l \in Loops : loop[l].pc # "poll" => l = TheLoop
  /\ \A n \in DOMAIN sent : sent[n].row[2] = n
  /\ RowSoFar /\ StoredRows /\ Places

LEMMA TheLoopType ==
  TheLoop \in Loops /\ (OneLoop => \A c \in Conns : LoopOf(c) = TheLoop)
  BY ServerAssumption DEF TheLoop, LoopOf

\* What is under way or in hand was sent, and what is in hand is one message.
LEMMA InPlace ==
  ASSUME Whole
  PROVE  /\ \A c \in Conns : \A n : stream[c] = Frame(n) => n \in DOMAIN sent
         /\ \A n : InHand(n) => n \in DOMAIN sent
         /\ \A m, n : InHand(m) /\ InHand(n) => m = n
         /\ \A n : Frame(n) # <<>>
<1>1. ASSUME NEW n
      PROVE  Frame(n) # <<>>
  <2>1. Len(Frame(n)) = 5
    BY FrameType
  <2>2. Len(<<>>) = 0
    OBVIOUS
  <2> QED
    BY <2>1, <2>2
<1>2. ASSUME NEW c \in Conns, NEW n, stream[c] = Frame(n)
      PROVE  n \in DOMAIN sent
  <2>1. PICK m \in DOMAIN sent : stream[c] = Frame(m)
    BY <1>1, <1>2 DEF Whole
  <2> QED
    BY <1>2, <2>1, FrameEqual
<1>3. ASSUME NEW n, InHand(n)
      PROVE  n \in DOMAIN sent
  <2>1. PICK m \in DOMAIN sent : loop[TheLoop].units = Frame(m)
    BY <1>3, TheLoopType DEF Whole, InHand
  <2> QED
    BY <1>3, <2>1, FrameEqual DEF InHand
<1>4. ASSUME NEW m, NEW n, InHand(m), InHand(n)
      PROVE  m = n
  BY <1>4, FrameEqual DEF InHand
<1> QED
  BY <1>1, <1>2, <1>3, <1>4

LEMMA SendOne ==
  ASSUME TypeOK, PetKnown, Whole, OneByOne, AllPets, NEW c \in Conns,
         NEW type \in Types, NEW name \in Names, SendPet(c, type, name)
  PROVE  OneByOne'
<1>1. PICK n \in Nat :
        /\ stream[c] = <<>> /\ stream' = [stream EXCEPT ![c] = Frame(n)]
        /\ DOMAIN sent' = DOMAIN sent \union {n}
        /\ sent'[n].conn = c /\ sent'[n].row = <<name, n>>
        /\ \A m \in DOMAIN sent : sent'[m] = sent[m] /\ m < n
        /\ UNCHANGED <<loop, row, stored>>
  <2> DEFINE k == Len(sent) + 1
             new == [conn |-> c, type |-> type, row |-> <<name, k>>]
  <2>1. /\ stream[c] = <<>> /\ stream' = [stream EXCEPT ![c] = Frame(k)]
        /\ DOMAIN sent' = DOMAIN sent \union {k} /\ sent'[k] = new
        /\ \A m \in DOMAIN sent : sent'[m] = sent[m] /\ m < k
        /\ k \in Nat /\ UNCHANGED <<loop, row, stored>>
    BY WholeSend
  <2>2. new.conn = c /\ new.row = <<name, k>>
    OBVIOUS
  <2> HIDE DEF k, new
  <2> QED
    BY <2>1, <2>2
<1>2. /\ stream \in [Conns -> Seq(Unit)]
      /\ \A m \in DOMAIN sent : m \in Nat /\ sent[m].conn \in Conns
  <2>1. sent \in Seq(Message)
    BY DEF TypeOK, Message
  <2>2. \A m \in DOMAIN sent : m \in Nat /\ sent[m] \in Message
    BY <2>1
  <2> QED
    BY <2>2 DEF TypeOK, Message
<1>3. \A i \in DOMAIN stored : stored[i][2] \in DOMAIN sent
  BY DEF OneByOne, StoredRows
<1>4. ASSUME NEW m \in DOMAIN sent, Fresh(m)
      PROVE  Fresh(m)'
  BY <1>1, <1>3, <1>4 DEF Fresh
<1>5. Fresh(n)'
  BY <1>1, <1>3 DEF Fresh
<1>6. \A m : InHand(m)' <=> InHand(m)
  BY <1>1 DEF InHand
<1>7. ~InHand(n) /\ n \notin DOMAIN sent
  BY <1>1, InPlace
<1>8. RowSoFar'
  <2>1. loop[TheLoop].pc \in {"push", "push2", "store"} => loop[TheLoop].pet \in DOMAIN sent
    BY TheLoopType DEF TypeOK, PetKnown
  <2> QED
    BY <1>1, <2>1 DEF OneByOne, RowSoFar
<1>9. StoredRows'
  BY <1>1, <1>3 DEF OneByOne, StoredRows
<1>10. Places'
  <2>1. ASSUME NEW d \in Conns, NEW m \in DOMAIN sent', stream'[d] = Frame(m)
        PROVE  /\ sent'[m].conn = d /\ Fresh(m)'
               /\ \A k \in DOMAIN sent' : InHand(k)' /\ sent'[k].conn = d => k < m
    <3>1. CASE d = c
      <4>1. m = n
        BY <1>1, <1>2, <2>1, <3>1, FrameEqual
      <4> QED
        BY <1>1, <1>5, <1>6, <1>7, <3>1, <4>1
    <3>2. CASE d # c
      <4>1. stream[d] = Frame(m)
        BY <1>1, <1>2, <2>1, <3>2
      <4>2. m \in DOMAIN sent
        BY <4>1, InPlace
      <4>3. /\ sent[m].conn = d /\ Fresh(m)
            /\ \A k \in DOMAIN sent : InHand(k) /\ sent[k].conn = d => k < m
        BY <4>1, <4>2 DEF OneByOne, Places
      <4> QED
        BY <1>1, <1>4, <1>6, <1>7, <4>2, <4>3
    <3> QED
      BY <3>1, <3>2
  <2>2. ASSUME NEW m \in DOMAIN sent', InHand(m)'
        PROVE  Fresh(m)'
    <3>1. InHand(m) /\ m \in DOMAIN sent
      BY <1>6, <2>2, InPlace
    <3> QED
      BY <1>4, <3>1 DEF OneByOne, Places
  <2>3. ASSUME NEW m \in DOMAIN sent'
        PROVE  \/ \E i \in DOMAIN stored' : stored'[i][2] = m
               \/ stream'[sent'[m].conn] = Frame(m)
               \/ InHand(m)'
    <3>1. CASE m = n
      BY <1>1, <1>2, <3>1
    <3>2. CASE m \in DOMAIN sent
      <4>1. stream[sent[m].conn] = Frame(m) => sent[m].conn # c
        BY <1>1, InPlace
      <4>2. stream[sent[m].conn] = Frame(m) => stream'[sent[m].conn] = Frame(m)
        BY <1>1, <1>2, <3>2, <4>1
      <4> QED
        BY <1>1, <1>6, <3>2, <4>2 DEF OneByOne, Places
    <3> QED
      BY <1>1, <3>1, <3>2
  <2>4. \A m : Frame(m)' = Frame(m)
    BY DEF Frame
  <2> QED
    BY <2>1, <2>2, <2>3, <2>4 DEF Places
<1>11. \A m \in DOMAIN sent' : sent'[m].row[2] = m
  BY <1>1 DEF OneByOne
<1>12. \A l \in Loops : loop'[l].pc # "poll" => l = TheLoop
  BY <1>1 DEF OneByOne
<1> QED
  BY <1>8, <1>9, <1>10, <1>11, <1>12 DEF OneByOne

LEMMA ReadOne ==
  ASSUME TypeOK, Whole, OneByOne, AllPets, OneLoop, NEW c \in Conns, HandleRead(c)
  PROVE  OneByOne'
<1>1. PICK n \in DOMAIN sent :
        /\ stream[c] = Frame(n) /\ stream' = [stream EXCEPT ![c] = <<>>]
        /\ loop[TheLoop].pc = "poll"
        /\ loop' = [loop EXCEPT ![TheLoop] = [pc |-> "parse", pet |-> 0, units |-> Frame(n)]]
        /\ UNCHANGED <<sent, row, stored>>
  BY WholeRead, TheLoopType
<1>2. /\ stream \in [Conns -> Seq(Unit)] /\ loop \in [Loops -> LoopState]
      /\ \A m \in DOMAIN sent : sent[m].conn \in Conns
  <2>1. sent \in Seq(Message)
    BY DEF TypeOK, Message
  <2>2. \A m \in DOMAIN sent : sent[m] \in Message
    BY <2>1
  <2> QED
    BY <2>2 DEF TypeOK, LoopState, Message
<1>3. /\ loop'[TheLoop].pc = "parse" /\ loop'[TheLoop].units = Frame(n)
      /\ \A l \in Loops : l # TheLoop => loop'[l] = loop[l]
  BY <1>1, <1>2, TheLoopType
<1>4. \A m : InHand(m)' <=> m = n
  BY <1>3, FrameEqual DEF InHand
<1>5. \A m : Fresh(m)' <=> Fresh(m)
  BY <1>1 DEF Fresh
<1>6. sent[n].conn = c /\ Fresh(n)
  BY <1>1 DEF OneByOne, Places
<1>7. RowSoFar'
  BY <1>3 DEF RowSoFar
<1>8. Places'
  <2>1. ASSUME NEW d \in Conns, NEW m \in DOMAIN sent, stream'[d] = Frame(m)
        PROVE  /\ sent[m].conn = d /\ Fresh(m)'
               /\ \A k \in DOMAIN sent : InHand(k)' /\ sent[k].conn = d => k < m
    <3>1. stream'[c] = <<>> /\ Frame(m) # <<>>
      BY <1>1, <1>2, InPlace
    <3>2. d # c
      BY <2>1, <3>1
    <3>3. stream[d] = Frame(m)
      BY <1>1, <1>2, <2>1, <3>2
    <3>4. sent[m].conn = d /\ Fresh(m)
      BY <3>3 DEF OneByOne, Places
    <3> QED
      BY <1>4, <1>5, <1>6, <3>2, <3>4
  <2>2. ASSUME NEW m \in DOMAIN sent
        PROVE  \/ \E i \in DOMAIN stored : stored[i][2] = m
               \/ stream'[sent[m].conn] = Frame(m)
               \/ InHand(m)'
    <3>1. CASE sent[m].conn = c
      <4>1. stream[c] = Frame(m) => m = n
        BY <1>1, FrameEqual
      <4> QED
        BY <1>1, <1>4, <3>1, <4>1 DEF OneByOne, Places, InHand
    <3>2. CASE sent[m].conn # c
      <4>1. stream'[sent[m].conn] = stream[sent[m].conn]
        BY <1>1, <1>2, <3>2
      <4> QED
        BY <1>1, <4>1 DEF OneByOne, Places, InHand
    <3> QED
      BY <3>1, <3>2
  <2>3. \A m : Frame(m)' = Frame(m)
    BY DEF Frame
  <2> QED
    BY <1>1, <1>4, <1>5, <1>6, <2>1, <2>2, <2>3 DEF Places
<1> QED
  BY <1>1, <1>3, <1>7, <1>8 DEF OneByOne, StoredRows

\* A step of the loop that leaves the message in hand where it is.
LEMMA StaysInHand ==
  ASSUME OneByOne, UNCHANGED <<sent, stream, stored>>, RowSoFar',
         \A l \in Loops : l # TheLoop => loop'[l] = loop[l],
         loop'[TheLoop].units = loop[TheLoop].units,
         (loop'[TheLoop].pc = "poll") <=> (loop[TheLoop].pc = "poll")
  PROVE  OneByOne'
<1>1. \A m : InHand(m)' <=> InHand(m)
  BY DEF InHand, Frame
<1>2. \A m : Fresh(m)' <=> Fresh(m)
  BY DEF Fresh
<1>3. \A m : Frame(m)' = Frame(m)
  BY DEF Frame
<1>4. Places'
  BY <1>1, <1>2, <1>3 DEF OneByOne, Places
<1> QED
  BY <1>4 DEF OneByOne, StoredRows

LEMMA AppendSecond ==
  ASSUME NEW S, NEW q \in Seq(S), NEW b \in S, Len(q) = 1
  PROVE  Append(q, b) = <<q[1], b>>
<1> SUFFICES ASSUME NEW s, s = Append(q, b)
             PROVE  s = <<q[1], b>>
  OBVIOUS
<1>1. /\ s \in Seq(S) /\ Len(s) = Len(q) + 1 /\ s[Len(q) + 1] = b
      /\ \A i \in 1 .. Len(q) : s[i] = q[i]
  <2> SUFFICES ASSUME NEW r \in Seq(S)
               PROVE  /\ Append(r, b) \in Seq(S) /\ Len(Append(r, b)) = Len(r) + 1
                      /\ Append(r, b)[Len(r) + 1] = b
                      /\ \A i \in 1 .. Len(r) : Append(r, b)[i] = r[i]
    OBVIOUS
  <2> QED
    OBVIOUS
<1>2. 1 + 1 = 2 /\ 1 \in 1 .. 1
  OBVIOUS
<1>3. Len(s) = 2 /\ s[1] = q[1] /\ s[2] = b
  BY <1>1, <1>2
<1>4. q[1] \in S
  BY <1>2
<1> DEFINE t == <<q[1], b>>
<1>5. t \in Seq(S) /\ Len(t) = 2 /\ t[1] = q[1] /\ t[2] = b
  BY <1>4
<1> HIDE DEF t
<1>6. \A i \in 1 .. Len(s) : s[i] = t[i]
  BY <1>3, <1>5
<1> QED
  BY <1>1, <1>3, <1>5, <1>6, SeqEqual DEF t

LEMMA HandledOne ==
  ASSUME TypeOK, PetKnown, Whole, OneByOne, AllPets, NEW l \in Loops,
         ParseDataPack(l) \/ ParseClear(l) \/ ParsePush(l)
  PROVE  OneByOne'
<1>1. l = TheLoop
  BY DEF OneByOne, ParseDataPack, ParseClear, ParsePush
<1>2. loop \in [Loops -> LoopState]
  BY DEF TypeOK, LoopState
<1>3. CASE ParseDataPack(l)
  <2>1. PICK n \in DOMAIN sent :
          /\ loop[l].pc = "parse"
          /\ loop' = [loop EXCEPT ![l].pc = "clear", ![l].pet = n]
          /\ UNCHANGED <<sent, stream, row, stored>>
    BY <1>3, WholeParse
  <2>2. loop'[l].pc = "clear" /\ loop'[l].units = loop[l].units
    BY <1>2, <2>1 DEF LoopState
  <2>3. \A k \in Loops : k # l => loop'[k] = loop[k]
    BY <1>2, <2>1
  <2>4. RowSoFar'
    BY <1>1, <2>2 DEF RowSoFar
  <2> QED
    BY <1>1, <2>1, <2>2, <2>3, <2>4, StaysInHand
<1>4. CASE ParseClear(l) \/ ParsePush(l)
  <2> DEFINE pet == loop[l].pet
  <2>1. /\ loop[l].pc \in {"clear", "push", "push2"}
        /\ UNCHANGED <<sent, stream, stored>>
    BY <1>4 DEF ParseClear, ParsePush
  <2>2. loop' = [loop EXCEPT ![l].pc = CASE loop[l].pc = "clear" -> "push"
                                         [] loop[l].pc = "push"  -> "push2"
                                         [] loop[l].pc = "push2" -> "store"]
    <3>1. CASE ParseClear(l)
      BY <3>1 DEF ParseClear
    <3>2. CASE ParsePush(l)
      <4>1. loop' = [loop EXCEPT ![l].pc = IF loop[l].pc = "push" THEN "push2" ELSE "store"]
        BY <1>2, <3>2 DEF ParsePush
      <4>2. loop[l].pc \in {"push", "push2"}
        BY <3>2 DEF ParsePush
      <4>3. CASE loop[l].pc = "push"
        BY <4>1, <4>3
      <4>4. CASE loop[l].pc = "push2"
        BY <4>1, <4>4
      <4> QED
        BY <4>2, <4>3, <4>4
    <3> QED
      BY <1>4, <3>1, <3>2
  <2>3. /\ loop'[l].units = loop[l].units /\ loop'[l].pet = pet
        /\ loop[l].pc = "clear" => loop'[l].pc = "push"
        /\ loop[l].pc = "push"  => loop'[l].pc = "push2"
        /\ loop[l].pc = "push2" => loop'[l].pc = "store"
        /\ loop'[l].pc # "poll"
    BY <1>2, <2>1, <2>2 DEF LoopState
  <2>4. \A k \in Loops : k # l => loop'[k] = loop[k]
    BY <1>2, <2>2
  <2>5. pet \in DOMAIN sent /\ loop[l].units = Frame(pet)
    BY <2>1 DEF Whole
  <2>6. sent[pet].row \in Names \X Nat
    <3>1. sent \in Seq(Message)
      BY DEF TypeOK, Message
    <3>2. sent[pet] \in Message
      BY <2>5, <3>1
    <3> QED
      BY <3>2 DEF Message
  <2>7. FieldsOf(l) = sent[pet].row
    <3>1. Len(loop[l].units) = 5
      BY <2>5, FrameType
    <3> QED
      BY <3>1 DEF FieldsOf, DataArrived, Parts
  <2>8. RowSoFar'
    <3>1. CASE loop[l].pc = "clear"
      <4>1. row' = <<>>
        BY <1>4, <3>1 DEF ParseClear, ParsePush, Cleared
      <4> QED
        BY <1>1, <2>3, <3>1, <4>1 DEF RowSoFar
    <3>2. CASE loop[l].pc = "push"
      <4>1. row = <<>> /\ row' = Append(row, FieldsOf(l)[1])
        BY <1>1, <1>4, <3>2 DEF ParseClear, ParsePush, OneByOne, RowSoFar
      <4>2. row' = <<sent[pet].row[1]>>
        <5> SUFFICES ASSUME NEW a
                     PROVE  Append(<<>>, a) = <<a>>
          BY <2>7, <4>1
        <5> QED
          OBVIOUS
      <4> QED
        BY <1>1, <2>1, <2>3, <3>2, <4>2 DEF RowSoFar
    <3>3. CASE loop[l].pc = "push2"
      <4>1. row = <<sent[pet].row[1]>> /\ row' = Append(row, FieldsOf(l)[2])
        BY <1>1, <1>4, <3>3 DEF ParseClear, ParsePush, OneByOne, RowSoFar
      <4>2. row' = <<sent[pet].row[1], sent[pet].row[2]>>
        <5>1. row \in Seq(Nat) /\ Len(row) = 1 /\ row[1] = sent[pet].row[1]
          BY <4>1 DEF TypeOK
        <5>2. sent[pet].row[2] \in Nat /\ row' = Append(row, sent[pet].row[2])
          BY <2>6, <2>7, <4>1
        <5> QED
          BY <5>1, <5>2, AppendSecond
      <4>3. row' = sent[pet].row
        BY <2>6, <4>2
      <4> QED
        BY <1>1, <2>1, <2>3, <3>3, <4>3 DEF RowSoFar
    <3> QED
      BY <2>1, <3>1, <3>2, <3>3
  <2> QED
    BY <1>1, <2>1, <2>3, <2>4, <2>8, StaysInHand
<1> QED
  BY <1>3, <1>4

LEMMA StoreOne ==
  ASSUME TypeOK, PetKnown, Whole, OneByOne, NEW l \in Loops, Store(l)
  PROVE  OneByOne'
<1>1. l = TheLoop /\ loop[l].pc = "store" /\ UNCHANGED <<sent, stream, row>>
  BY DEF OneByOne, Store
<1> DEFINE n == loop[l].pet
<1>2. n \in DOMAIN sent /\ loop[l].units = Frame(n)
  BY <1>1 DEF Whole
<1>3. row = sent[n].row /\ row[2] = n
  BY <1>1, <1>2 DEF OneByOne, RowSoFar
<1>4. loop \in [Loops -> LoopState] /\ stored \in Seq(Seq(Nat))
  BY DEF TypeOK, LoopState
<1>5. stored' = Append(stored, row)
  <2>1. row \in Seq(Nat) /\ Len(row) = 2
    <3>1. sent \in Seq(Message)
      BY DEF TypeOK, Message
    <3>2. sent[n] \in Message
      BY <1>2, <3>1
    <3>3. row \in Names \X Nat
      BY <1>3, <3>2 DEF Message
    <3> QED
      BY <3>3 DEF TypeOK
  <2>2. SubSeq(row, 1, Fields) = row
    BY <2>1, SubSeqFull DEF Fields
  <2>3. ~(Len(row) < Fields)
    BY <2>1 DEF Fields
  <2> QED
    BY <2>2, <2>3 DEF Store
<1> DEFINE k == Len(stored) + 1
<1>6. /\ DOMAIN stored' = DOMAIN stored \union {k} /\ stored'[k] = row
      /\ \A i \in DOMAIN stored : stored'[i] = stored[i] /\ i < k /\ i \in Nat
      /\ k \in Nat
  <2>1. row \in Seq(Nat)
    BY DEF TypeOK
  <2> QED
    BY <1>4, <1>5, <2>1
<1>7. /\ loop'[l].pc = "poll"
      /\ \A h \in Loops : h # l => loop'[h] = loop[h]
  BY <1>4 DEF Store
<1>8. InHand(n) /\ \A m : InHand(m) => m = n
  BY <1>1, <1>2, FrameEqual DEF InHand
<1>9. \A m : ~InHand(m)'
  BY <1>1, <1>7 DEF InHand
<1>n. sent \in Seq(Message) /\ \A m \in DOMAIN sent : m \in Nat
  <2>1. sent \in Seq(Message)
    BY DEF TypeOK, Message
  <2> QED
    BY <2>1
<1> HIDE DEF n, k
<1>10. Fresh(n)
  BY <1>2, <1>8 DEF OneByOne, Places
<1>11. StoredRows'
  <2>1. \A i \in DOMAIN stored' :
          stored'[i][2] \in DOMAIN sent /\ stored'[i] = sent[stored'[i][2]].row
    BY <1>2, <1>3, <1>6 DEF OneByOne, StoredRows
  <2>2. ASSUME NEW i \in DOMAIN stored', NEW j \in DOMAIN stored', i < j
        PROVE  /\ stored'[i][2] # stored'[j][2]
               /\ sent[stored'[i][2]].conn = sent[stored'[j][2]].conn
                    => stored'[i][2] < stored'[j][2]
    <3>1. i \in DOMAIN stored /\ stored'[i] = stored[i]
      BY <1>6, <2>2
    <3>2. CASE j = k
      BY <1>3, <1>6, <1>10, <3>1, <3>2 DEF Fresh
    <3>3. CASE j \in DOMAIN stored
      <4>1. stored'[j] = stored[j] /\ i # j
        BY <1>6, <2>2, <3>1, <3>3
      <4> QED
        BY <2>2, <3>1, <3>3, <4>1 DEF OneByOne, StoredRows
    <3> QED
      BY <1>6, <3>2, <3>3
  <2>3. \A i, j \in DOMAIN stored' : i # j => i < j \/ j < i
    BY <1>6
  <2>4. \A i, j \in DOMAIN stored' : i # j => stored'[i][2] # stored'[j][2]
    BY <2>2, <2>3
  <2> QED
    BY <1>1, <2>1, <2>2, <2>4 DEF StoredRows
<1>12. Places'
  <2>1. ASSUME NEW d \in Conns, NEW m \in DOMAIN sent, stream[d] = Frame(m)
        PROVE  sent[m].conn = d /\ Fresh(m)'
    <3>1. sent[m].conn = d /\ Fresh(m) /\ (sent[n].conn = d => n < m)
      BY <1>2, <1>8, <2>1 DEF OneByOne, Places
    <3>2. m # n
      BY <1>2, <1>n, <3>1
    <3>3. ASSUME NEW i \in DOMAIN stored'
          PROVE  /\ stored'[i][2] # m
                 /\ sent[stored'[i][2]].conn = sent[m].conn => stored'[i][2] < m
      <4>1. CASE i = k
        BY <1>3, <1>6, <3>1, <3>2, <4>1
      <4>2. CASE i \in DOMAIN stored
        BY <1>6, <3>1, <4>2 DEF Fresh
      <4> QED
        BY <1>6, <4>1, <4>2
    <3> QED
      BY <1>1, <3>1, <3>3 DEF Fresh
  <2>2. ASSUME NEW m \in DOMAIN sent
        PROVE  (\E i \in DOMAIN stored' : stored'[i][2] = m) \/ stream[sent[m].conn] = Frame(m)
    <3>1. CASE InHand(m)
      BY <1>3, <1>6, <1>8, <3>1
    <3>2. CASE \E i \in DOMAIN stored : stored[i][2] = m
      BY <1>6, <3>2
    <3> QED
      BY <3>1, <3>2 DEF OneByOne, Places
  <2>3. \A m : Frame(m)' = Frame(m)
    BY DEF Frame
  <2> QED
    BY <1>1, <1>9, <2>1, <2>2, <2>3 DEF Places
<1>13. RowSoFar'
  BY <1>1, <1>7 DEF RowSoFar
<1> QED
  BY <1>1, <1>7, <1>11, <1>12, <1>13 DEF OneByOne

LEMMA OneInit ==
  ASSUME Init
  PROVE  OneByOne
<1>1. /\ DOMAIN sent = {} /\ DOMAIN stored = {}
      /\ \A l \in Loops : loop[l].pc = "poll"
  BY DEF Init
<1> QED
  BY <1>1, TheLoopType DEF OneByOne, RowSoFar, StoredRows, Places

LEMMA OneStep ==
  ASSUME TypeOK, PetKnown, Whole, OneByOne, AllPets, OneLoop, [Next]_vars
  PROVE  OneByOne'
<1>1. ASSUME NEW c \in Conns, NEW type \in Types, NEW name \in Names,
             SendPet(c, type, name)
      PROVE  OneByOne'
  BY <1>1, SendOne
<1>2. ASSUME NEW c \in Conns, HandleRead(c)
      PROVE  OneByOne'
  BY <1>2, ReadOne
<1>3. ASSUME NEW l \in Loops, LoopStep(l)
      PROVE  OneByOne'
  BY <1>3, HandledOne, StoreOne DEF LoopStep
<1>4. CASE Call \/ UNCHANGED vars
  <2>1. UNCHANGED <<sent, stream, loop, row, stored>>
    BY <1>4 DEF Call, vars
  <2>2. RowSoFar'
    BY <2>1 DEF OneByOne, RowSoFar
  <2> QED
    BY <2>1, <2>2, StaysInHand
<1> QED
  BY <1>1, <1>2, <1>3, <1>4 DEF Next, Rest

\* A message is pending while it is under way or in hand.
LEMMA PendingPlaces ==
  ASSUME TypeOK, Whole, OneByOne, NEW n \in DOMAIN sent
  PROVE  n \in Pending <=> InHand(n) \/ \E c \in Conns : stream[c] = Frame(n)
<1>1. \A m, i : i \in 1 .. 5 => Frame(m)[i][2] = m
  BY FrameUnits
<1>2. ASSUME NEW c \in Conns, stream[c] = Frame(n)
      PROVE  n \in Pending
  <2>1. 1 \in 1 .. MaxPets * Parts
    <3>1. sent \in Seq(Message) /\ Len(sent) <= MaxPets /\ MaxPets \in Nat
      BY ServerAssumption DEF TypeOK, Message
    <3>2. MaxPets >= 1
      BY <3>1
    <3>3. MaxPets * 5 >= 1 /\ MaxPets * 5 \in Nat
      BY <3>1, <3>2
    <3> QED
      BY <3>3 DEF Parts
  <2>2. 1 <= Len(stream[c]) /\ stream[c][1][2] = n
    <3>1. Len(stream[c]) = 5
      BY <1>2, FrameType
    <3>2. 1 \in 1 .. 5 /\ 1 <= 5
      OBVIOUS
    <3>3. stream[c][1][2] = n
      BY <1>1, <1>2, <3>2
    <3> QED
      BY <3>1, <3>2, <3>3
  <2> QED
    BY <2>1, <2>2 DEF Pending
<1>3. ASSUME InHand(n)
      PROVE  n \in Pending
  <2>1. Frame(n) # <<>> /\ Frame(n)[1][2] = n
    BY <1>1, InPlace
  <2> QED
    BY <1>3, <2>1, TheLoopType DEF Pending, InHand
<1>4. ASSUME n \in Pending
      PROVE  InHand(n) \/ \E c \in Conns : stream[c] = Frame(n)
  <2>1. ASSUME NEW c \in Conns, NEW i \in 1 .. MaxPets * Parts,
               i <= Len(stream[c]), stream[c][i][2] = n
        PROVE  stream[c] = Frame(n)
    <3>1. stream[c] # <<>>
      <4>1. Len(<<>>) = 0 /\ 1 <= i /\ i \in Int
        OBVIOUS
      <4> QED
        BY <2>1, <4>1
    <3>2. PICK m \in DOMAIN sent : stream[c] = Frame(m)
      BY <3>1 DEF Whole
    <3>3. i \in 1 .. 5
      <4>1. Len(stream[c]) = 5
        BY <3>2, FrameType
      <4> QED
        BY <2>1, <4>1
    <3> QED
      BY <1>1, <2>1, <3>2, <3>3
  <2>2. ASSUME NEW l \in Loops, loop[l].pc # "poll", loop[l].units[1][2] = n
        PROVE  InHand(n)
    <3>1. PICK m \in DOMAIN sent : loop[l].units = Frame(m)
      BY <2>2 DEF Whole
    <3>2. m = n
      BY <1>1, <2>2, <3>1
    <3> QED
      BY <2>2, <3>1, <3>2 DEF OneByOne, InHand
  <2> QED
    BY <1>4, <2>1, <2>2 DEF Pending
<1> QED
  BY <1>2, <1>3, <1>4

LEMMA OneByOneRows ==
  ASSUME TypeOK, Whole, OneByOne
  PROVE  RowsAsSent
<1>1. IsInjective(stored)
  <2>1. \A i, j \in DOMAIN stored : stored[i] = stored[j] => i = j
    BY DEF OneByOne, StoredRows
  <2> QED
    BY <2>1 DEF IsInjective
<1>2. ASSUME NEW i \in DOMAIN stored
      PROVE  /\ stored[i][2] \in DOMAIN sent \ Pending
             /\ stored[i] = sent[stored[i][2]].row
  <2> DEFINE n == stored[i][2]
  <2>1. n \in DOMAIN sent /\ stored[i] = sent[n].row
    BY DEF OneByOne, StoredRows
  <2>2. ~Fresh(n)
    BY DEF Fresh
  <2>3. n \notin Pending
    BY <2>1, <2>2, PendingPlaces DEF OneByOne, Places
  <2> QED
    BY <2>1, <2>3
<1>3. ASSUME NEW n \in DOMAIN sent \ Pending
      PROVE  \E i \in DOMAIN stored : stored[i] = sent[n].row
  <2>1. ~InHand(n) /\ stream[sent[n].conn] # Frame(n)
    <3>1. sent \in Seq(Message)
      BY DEF TypeOK, Message
    <3>2. sent[n] \in Message
      BY <3>1
    <3>3. sent[n].conn \in Conns
      BY <3>2 DEF Message
    <3> QED
      BY <3>3, PendingPlaces
  <2>2. PICK i \in DOMAIN stored : stored[i][2] = n
    BY <2>1 DEF OneByOne, Places
  <2> QED
    BY <2>2 DEF OneByOne, StoredRows
<1>4. ToSet(stored) = {sent[n].row : n \in DOMAIN sent \ Pending}
  BY <1>2, <1>3 DEF ToSet
<1> QED
  BY <1>1, <1>4 DEF RowsAsSent, OneByOne, StoredRows

\* On one loop, each pet whose frame arrives whole and alone is stored once, with
\* its own fields and in the order of its connection, or is still under way
\* (PetProtocMessCodec.cpp:20-42): petRowContent_ never mixes two of them.
THEOREM StoredAsSent ==
  ASSUME AllPets, OneLoop
  PROVE  Spec => []RowsAsSent
<1>1. Init => TypeOK /\ PetKnown /\ Whole /\ OneByOne
  BY InitType, WholeInit, OneInit
<1>2. TypeOK /\ PetKnown /\ Whole /\ OneByOne /\ [Next]_vars
      => (TypeOK /\ PetKnown /\ Whole /\ OneByOne)'
  BY StepType, WholeStep, OneStep
<1>3. TypeOK /\ Whole /\ OneByOne => RowsAsSent
  BY OneByOneRows
<1> QED
  BY <1>1, <1>2, <1>3, PTL DEF Spec

=============================================================================
