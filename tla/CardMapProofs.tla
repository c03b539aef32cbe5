---------------------------- MODULE CardMapProofs ----------------------------
(***************************************************************************)
(* Proofs about CardMap, for every finite set of names, every number of    *)
(* seeders and loads, and every value of the bounds.                       *)
(***************************************************************************)
EXTENDS CardMap, FiniteSetTheorems, SequenceTheorems, TLAPS

(***************************************************************************)
(* Lemmas about the data.                                                  *)
(***************************************************************************)
\* SetToSeq lists every element of a finite set exactly once.
LEMMA SetToSeqLists ==
    ASSUME NEW S, IsFiniteSet(S)
    PROVE  /\ Cardinality(S) \in Nat
           /\ SetToSeq(S) \in [1..Cardinality(S) -> S]
           /\ \A i, j \in 1..Cardinality(S) : SetToSeq(S)[i] = SetToSeq(S)[j] => i = j
           /\ \A x \in S : \E i \in 1..Cardinality(S) : SetToSeq(S)[i] = x
<1> DEFINE n == Cardinality(S)
           f == SetToSeq(S)
<1>1. n \in Nat /\ ExistsBijection(1..n, S)
  BY FS_CardinalityType
<1>2. \E g \in [1..n -> S] : IsInjective(g)
  BY <1>1 DEF ExistsBijection, Bijection, Injection
<1>3. f \in [1..n -> S] /\ IsInjective(f)
  BY <1>2 DEF SetToSeq
<1>4. f \in Injection(1..n, S)
  BY <1>3 DEF Injection
<1>5. IsFiniteSet(1..n) /\ Cardinality(1..n) = Cardinality(S)
  BY <1>1, FS_Interval
<1>6. f \in Surjection(1..n, S)
  BY <1>4, <1>5, FS_Injection
<1> QED BY <1>1, <1>3, <1>6 DEF Surjection, IsInjective

\* A sequence without its element i.
LEMMA RemoveAtDrops ==
    ASSUME NEW S, NEW s \in Seq(S), NEW i \in 1..Len(s)
    PROVE  /\ RemoveAt(s, i) \in Seq(S)
           /\ Len(RemoveAt(s, i)) = Len(s) - 1
           /\ \A j \in 1..(Len(s) - 1) :
                RemoveAt(s, i)[j] = IF j < i THEN s[j] ELSE s[j + 1]
<1> DEFINE a == SubSeq(s, 1, i - 1)
           b == SubSeq(s, i + 1, Len(s))
<1>1. a \in Seq(S) /\ Len(a) = i - 1 /\ \A j \in 1..(i - 1) : a[j] = s[j]
  OBVIOUS
<1>2. b \in Seq(S) /\ Len(b) = Len(s) - i /\ \A j \in 1..(Len(s) - i) : b[j] = s[i + j]
  OBVIOUS
<1>3. RemoveAt(s, i) = a \o b
  BY DEF RemoveAt
<1> HIDE DEF a, b
<1>4. /\ a \o b \in Seq(S)
      /\ Len(a \o b) = Len(a) + Len(b)
      /\ \A j \in 1..(Len(a) + Len(b)) :
           (a \o b)[j] = IF j <= Len(a) THEN a[j] ELSE b[j - Len(a)]
  BY <1>1, <1>2, ConcatProperties
<1>5. ASSUME NEW j \in 1..(Len(s) - 1)
      PROVE  (a \o b)[j] = IF j < i THEN s[j] ELSE s[j + 1]
  <2>1. CASE j < i
    BY <1>1, <1>2, <1>4, <2>1
  <2>2. CASE ~(j < i)
    <3>1. j - Len(a) \in 1..(Len(s) - i) /\ i + (j - Len(a)) = j + 1
      BY <1>1, <2>2
    <3>2. (a \o b)[j] = b[j - Len(a)]
      BY <1>1, <1>2, <1>4, <2>2
    <3>3. b[j - Len(a)] = s[i + (j - Len(a))]
      BY <1>2, <3>1
    <3> QED BY <2>2, <3>1, <3>2, <3>3
  <2> QED BY <2>1, <2>2
<1> QED BY <1>1, <1>2, <1>3, <1>4, <1>5

\* The rows an INSERT adds: one for each missing name, with ids of their own.
LEMMA NewRowsAre ==
    ASSUME CardMapAssumption, TypeOK, NEW s \in Seeders, seeding[s].phase # "idle",
           nextId + Cardinality(Missing(s)) <= MaxId + 1
    PROVE  /\ nextId + Cardinality(Missing(s)) \in 1..(MaxId + 1)
           /\ NewRows(s) \in SUBSET Row
           /\ NamesIn(NewRows(s)) = Missing(s)
           /\ \A c \in NewRows(s) : /\ c.legal = seeding[s].file[c.name]
                                     /\ c.id \in nextId..(nextId + Cardinality(Missing(s)) - 1)
           /\ \A c, d \in NewRows(s) : c.name = d.name \/ c.id = d.id => c = d
<1> DEFINE M == Missing(s)
           names == SetToSeq(M)
           NewRow(i) == [id |-> nextId + i - 1, name |-> names[i],
                         legal |-> seeding[s].file[names[i]]]
<1>1. M \in SUBSET Names /\ IsFiniteSet(M)
  BY FS_Subset DEF CardMapAssumption, Missing, Present
<1>2. /\ Cardinality(M) \in Nat
      /\ names \in [1..Cardinality(M) -> M]
      /\ \A i, j \in 1..Cardinality(M) : names[i] = names[j] => i = j
      /\ \A n \in M : \E i \in 1..Cardinality(M) : names[i] = n
  BY <1>1, SetToSeqLists
<1>3. NewRows(s) = {NewRow(i) : i \in 1..Cardinality(M)}
  BY <1>2 DEF NewRows
<1>4. \A n \in M : seeding[s].file[n] \in Legal
  BY DEF TypeOK, Missing, Present, Exports
<1>5. \A i \in 1..Cardinality(M) : NewRow(i) \in Row
  BY <1>1, <1>2, <1>4 DEF TypeOK, Row, Ids, CardMapAssumption
<1>6. \A i \in 1..Cardinality(M) :
        /\ NewRow(i).name = names[i] /\ NewRow(i).legal = seeding[s].file[names[i]]
        /\ NewRow(i).id \in nextId..(nextId + Cardinality(M) - 1)
  BY <1>2 DEF TypeOK, CardMapAssumption
<1>7. nextId + Cardinality(M) \in 1..(MaxId + 1)
  BY <1>2 DEF TypeOK, CardMapAssumption
<1> HIDE DEF NewRow, names
<1>8. NamesIn(NewRows(s)) = M
  BY <1>2, <1>3, <1>6 DEF NamesIn
<1>9. \A c \in NewRows(s) : /\ c.legal = seeding[s].file[c.name]
                             /\ c.id \in nextId..(nextId + Cardinality(M) - 1)
  BY <1>3, <1>6
<1>10. \A i, j \in 1..Cardinality(M) : NewRow(i).id = NewRow(j).id => i = j
  BY <1>2 DEF NewRow, TypeOK, CardMapAssumption
<1>11. \A c, d \in NewRows(s) : c.name = d.name \/ c.id = d.id => c = d
  BY <1>2, <1>3, <1>6, <1>10
<1> QED BY <1>3, <1>5, <1>7, <1>8, <1>9, <1>11

(***************************************************************************)
(* Types, and with them what the rows of a seeding are.                    *)
(***************************************************************************)
IdsOf(rows) == {c.id : c \in rows}

\* Ids are used once: those a seeding is about to insert are nobody else's.  The
\* rows it updates are in the table, and in its file.
RowsInv ==
    /\ \A c \in cards : c.id < nextId
    /\ \A c, d \in cards : c.id = d.id => c = d
    /\ \A s \in Seeders : \A c \in seeding[s].fresh :
         c.id < nextId /\ c.id \notin IdsOf(cards)
    /\ \A s, t \in Seeders : \A c \in seeding[s].fresh, d \in seeding[t].fresh :
         c.id = d.id => s = t /\ c = d
    /\ \A s \in Seeders : seeding[s].touched \subseteq IdsOf(cards)
    /\ \A s \in Seeders, c \in cards :
         c.id \in seeding[s].touched => c.name \in Present(seeding[s].file)

\* A commit keeps every card's id and name and adds the seeding's new rows.
LEMMA CommitKeeps ==
    ASSUME TypeOK, RowsInv, NEW s \in Seeders, Commit(s)
    PROVE  /\ cards' \in SUBSET Row
           /\ \A c \in cards' : c \in seeding[s].fresh
                                \/ \E d \in cards : d.id = c.id /\ d.name = c.name
           /\ \A d \in cards : \E c \in cards' : d.id = c.id /\ d.name = c.name
           /\ seeding[s].fresh \subseteq cards'
           /\ \A c, d \in cards' : c.id = d.id => c = d
<1> DEFINE new(c) == IF c.id \in seeding[s].touched
                     THEN [c EXCEPT !.legal = seeding[s].file[c.name]] ELSE c
<1>1. cards' = {new(c) : c \in cards} \cup seeding[s].fresh
  BY DEF Commit, UpdatedRows
<1>2. ASSUME NEW c \in cards
      PROVE  new(c) \in Row /\ new(c).id = c.id /\ new(c).name = c.name
  <2>1. c \in Row /\ seeding[s].phase # "idle"
    BY DEF TypeOK, Commit
  <2>2. c.id \in seeding[s].touched => seeding[s].file[c.name] \in Legal
    BY <2>1 DEF RowsInv, Present, TypeOK, Exports, Row
  <2> QED BY <2>1, <2>2 DEF Row
<1>3. seeding[s].fresh \in SUBSET Row
  BY DEF TypeOK
<1> HIDE DEF new
<1>4. \A c \in cards, d \in seeding[s].fresh : new(c).id # d.id
  BY <1>2 DEF RowsInv, IdsOf
<1>5. \A c, d \in cards' : c.id = d.id => c = d
  BY <1>1, <1>2, <1>4 DEF RowsInv
<1> QED BY <1>1, <1>2, <1>3, <1>5

\* The loads under way after one of them has finished.
LEMMA FinishLoadLeaves ==
    ASSUME TypeOK, NEW i, FinishLoad(i)
    PROVE  /\ i \in 1..Len(loads) /\ loads' \in Seq(Load) /\ Len(loads') = Len(loads) - 1
           /\ \A j \in 1..Len(loads') : \E k \in 1..Len(loads) :
                /\ k = (IF j < i THEN j ELSE j + 1)
                /\ loads'[j].rows = loads[k].rows /\ loads'[j].had = loads[k].had
                /\ ~loads'[j].late => k >= i /\ ~loads[k].late
<1> DEFINE marked == [j \in DOMAIN loads |->
                        IF j < i THEN [loads[j] EXCEPT !.late = TRUE] ELSE loads[j]]
<1>1. loads \in Seq(Load) /\ i \in 1..Len(loads) /\ loads' = RemoveAt(marked, i)
  BY DEF TypeOK, FinishLoad
<1>2. ASSUME NEW k \in 1..Len(loads)
      PROVE  /\ marked[k] \in Load
             /\ marked[k].rows = loads[k].rows /\ marked[k].had = loads[k].had
             /\ ~marked[k].late => k >= i /\ ~loads[k].late
  <2>1. loads[k] \in Load /\ k \in DOMAIN loads
    BY <1>1
  <2>2. CASE k < i
    <3>1. marked[k] = [loads[k] EXCEPT !.late = TRUE]
      BY <2>1, <2>2
    <3> QED BY <2>1, <3>1 DEF Load
  <2>3. CASE ~(k < i)
    <3>1. marked[k] = loads[k] /\ k >= i
      BY <1>1, <2>1, <2>3
    <3> QED BY <2>1, <3>1
  <2> QED BY <2>2, <2>3
<1>3. marked \in Seq(Load) /\ Len(marked) = Len(loads)
  <2>1. DOMAIN marked = 1..Len(loads) /\ Len(loads) \in Nat
    BY <1>1
  <2>2. marked \in [1..Len(loads) -> Load]
    BY <1>2, <2>1
  <2> HIDE DEF marked
  <2> QED BY <2>1, <2>2, SeqDef
<1> HIDE DEF marked
<1>4. /\ RemoveAt(marked, i) \in Seq(Load)
      /\ Len(RemoveAt(marked, i)) = Len(loads) - 1
      /\ \A j \in 1..(Len(loads) - 1) :
           RemoveAt(marked, i)[j] = IF j < i THEN marked[j] ELSE marked[j + 1]
  BY <1>1, <1>3, RemoveAtDrops
<1>5. ASSUME NEW j \in 1..Len(loads')
      PROVE  \E k \in 1..Len(loads) :
                /\ k = (IF j < i THEN j ELSE j + 1)
                /\ loads'[j].rows = loads[k].rows /\ loads'[j].had = loads[k].had
                /\ ~loads'[j].late => k >= i /\ ~loads[k].late
  <2> DEFINE k == IF j < i THEN j ELSE j + 1
  <2>1. k \in 1..Len(loads) /\ loads'[j] = marked[k]
    BY <1>1, <1>4
  <2> QED BY <1>2, <2>1
<1> QED BY <1>1, <1>4, <1>5

TypedRows == TypeOK /\ RowsInv

\* Every step keeps the types and the ids, one step per action.
LEMMA TypedRowsStep == TypedRows /\ [Next]_vars => TypedRows'
<1> SUFFICES ASSUME TypedRows, [Next]_vars PROVE TypedRows'
  OBVIOUS
<1> USE CardMapAssumption DEF TypedRows
<1>1. ASSUME NEW n \in Names, Release(n) \/ ChangeLegality(n) PROVE TypedRows'
  <2>1. scryfall' \in Exports
    BY <1>1 DEF Release, ChangeLegality, TypeOK, Exports, Legal
  <2>2. UNCHANGED <<cache, table, seeding, api, raced>>
    BY <1>1 DEF Release, ChangeLegality
  <2> QED BY <2>1, <2>2 DEF TypeOK, RowsInv, table, api
<1>2. ASSUME NEW s \in Seeders, NEW cached \in BOOLEAN, BeginSeeding(s, cached)
      PROVE  TypedRows'
  <2> DEFINE file == Fetched(cached)
             touched == {c.id : c \in {r \in cards : r.name \in Present(file)}}
  <2>1. file \in Exports
    BY DEF Fetched, TypeOK
  <2>2. touched \in SUBSET Ids /\ touched \subseteq IdsOf(cards)
    BY DEF TypeOK, Row, IdsOf
  <2>3. seeding' = [seeding EXCEPT ![s] =
          [phase |-> "updating", file |-> file, fresh |-> {}, touched |-> touched]]
    BY <1>2 DEF BeginSeeding, Updated
  <2>5. \A c \in cards : c.id \in touched => c.name \in Present(file)
    BY DEF RowsInv
  <2>6. UNCHANGED <<scryfall, table, api, raced>> /\ cache' \in Exports \cup {<<>>}
    BY <1>2, <2>1 DEF BeginSeeding, TypeOK
  <2> HIDE DEF file, touched
  <2>7. TypeOK'
    BY <2>1, <2>2, <2>3, <2>6 DEF TypeOK, table, api
  <2>8. RowsInv'
    <3>1. cards' = cards /\ nextId' = nextId
      BY <2>6 DEF table
    <3>2. \A t \in Seeders : t # s => seeding'[t] = seeding[t]
      BY <2>3 DEF TypeOK
    <3>3. /\ seeding'[s].fresh = {} /\ seeding'[s].touched = touched
          /\ seeding'[s].file = file
      BY <2>3 DEF TypeOK
    <3> QED BY <2>2, <2>5, <3>1, <3>2, <3>3 DEF RowsInv, IdsOf
  <2> QED BY <2>7, <2>8
<1>3. ASSUME NEW s \in Seeders, UpdateAndInsert(s) PROVE TypedRows'
  <2>1. /\ nextId + Cardinality(Missing(s)) \in 1..(MaxId + 1)
        /\ NewRows(s) \in SUBSET Row
        /\ \A c \in NewRows(s) :
             c.id \in nextId..(nextId + Cardinality(Missing(s)) - 1)
        /\ \A c, d \in NewRows(s) : c.id = d.id => c = d
    BY <1>3, NewRowsAre DEF UpdateAndInsert
  <2>2. nextId \in Nat /\ nextId' = nextId + Cardinality(Missing(s)) /\ nextId' \in Nat
    BY <1>3, <2>1 DEF UpdateAndInsert, TypeOK, CardMapAssumption
  <2>3. Cardinality(Missing(s)) \in Nat
    BY FS_Subset, FS_CardinalityType DEF Missing, Present, CardMapAssumption
  <2>9. \A c \in NewRows(s) : c.id \in Int /\ nextId <= c.id /\ c.id < nextId'
    BY <2>1, <2>2, <2>3
  <2>4. seeding' = [seeding EXCEPT ![s].phase = "inserted", ![s].fresh = NewRows(s)]
    BY <1>3 DEF UpdateAndInsert
  <2>5. UNCHANGED <<scryfall, cache, cards, units, api>>
    BY <1>3 DEF UpdateAndInsert
  <2>6. nextId <= nextId'
    BY <2>2, <2>3
  <2>7. TypeOK'
    <3>1. raced' \in BOOLEAN
      BY <1>3 DEF UpdateAndInsert
    <3>2. nextId' \in 1..(MaxId + 1)
      BY <2>1, <2>2
    <3>3. /\ seeding' \in [Seeders -> [phase : {"idle", "updating", "inserted"},
                                       file : Exports \cup {<<>>},
                                       touched : SUBSET Ids, fresh : SUBSET Row]]
          /\ \A t \in Seeders : seeding'[t].file = seeding[t].file
                                /\ (t # s => seeding'[t].phase = seeding[t].phase)
      <4> DEFINE Rec == [phase : {"idle", "updating", "inserted"}, file : Exports \cup {<<>>},
                         touched : SUBSET Ids, fresh : SUBSET Row]
                 r == [seeding[s] EXCEPT !.phase = "inserted", !.fresh = NewRows(s)]
      <4>1. seeding \in [Seeders -> Rec]
        BY DEF TypeOK
      <4>2. r \in Rec /\ r.file = seeding[s].file
        BY <2>1, <4>1
      <4>3. seeding' = [seeding EXCEPT ![s] = r]
        BY <2>4, <4>1
      <4> HIDE DEF Rec, r
      <4>4. seeding' \in [Seeders -> Rec]
        BY <4>1, <4>2, <4>3
      <4>5. \A t \in Seeders : seeding'[t] = IF t = s THEN r ELSE seeding[t]
        BY <4>1, <4>3
      <4> QED BY <4>2, <4>4, <4>5 DEF Rec
    <3>4. seeding[s].file \in Exports
      BY <1>3 DEF UpdateAndInsert, TypeOK
    <3>5. \A t \in Seeders : seeding'[t].phase # "idle" => seeding'[t].file \in Exports
      BY <3>3, <3>4 DEF TypeOK
    <3> QED BY <2>5, <3>1, <3>2, <3>3, <3>5 DEF TypeOK, api
  <2>8. RowsInv'
    <3>1. \A t \in Seeders :
            /\ seeding'[t].touched = seeding[t].touched
            /\ seeding'[t].file = seeding[t].file
            /\ seeding'[t].fresh = IF t = s THEN NewRows(s) ELSE seeding[t].fresh
      BY <2>4 DEF TypeOK
    <3>2. \A c \in cards : c.id \in Int /\ c.id < nextId
      BY DEF RowsInv, TypeOK, Row, Ids
    <3>3. \A t \in Seeders : \A c \in seeding[t].fresh : c.id \in Int /\ c.id < nextId
      BY DEF RowsInv, TypeOK, Row, Ids
    <3>4. \A c \in cards : c.id < nextId'
      BY <2>2, <2>6, <3>2
    <3>5. \A t \in Seeders : \A c \in seeding'[t].fresh :
            c.id < nextId' /\ c.id \notin IdsOf(cards)
      BY <2>2, <2>6, <2>9, <3>1, <3>2, <3>3 DEF RowsInv, IdsOf
    <3>6. \A t, u \in Seeders : \A c \in seeding'[t].fresh, d \in seeding'[u].fresh :
            c.id = d.id => t = u /\ c = d
      BY <2>1, <2>2, <2>9, <3>1, <3>3 DEF RowsInv
    <3> QED BY <2>5, <3>1, <3>4, <3>5, <3>6 DEF RowsInv, IdsOf
  <2> QED BY <2>7, <2>8
<1>4. ASSUME NEW s \in Seeders, Commit(s) PROVE TypedRows'
  <2>1. /\ cards' \in SUBSET Row
        /\ \A c \in cards' : c \in seeding[s].fresh
                             \/ \E d \in cards : d.id = c.id /\ d.name = c.name
        /\ \A d \in cards : \E c \in cards' : d.id = c.id /\ d.name = c.name
        /\ \A c, d \in cards' : c.id = d.id => c = d
    BY <1>4, CommitKeeps
  <2>2. units' \in SUBSET Unit
    BY <1>4 DEF Commit, TypeOK, UnitsOf
  <2>3. /\ seeding' = [seeding EXCEPT ![s] = NotSeeding]
        /\ UNCHANGED <<scryfall, cache, nextId, api, raced>>
    BY <1>4 DEF Commit
  <2>4. TypeOK'
    BY <2>1, <2>2, <2>3 DEF TypeOK, api, NotSeeding
  <2>5. RowsInv'
    <3>1. \A t \in Seeders : t # s => seeding'[t] = seeding[t]
      BY <2>3 DEF TypeOK
    <3>2. seeding'[s].fresh = {} /\ seeding'[s].touched = {}
      BY <2>3 DEF TypeOK, NotSeeding
    <3>3. \A c \in cards' : c.id < nextId'
      BY <2>1, <2>3 DEF RowsInv
    <3>4. \A t \in Seeders : \A c \in seeding'[t].fresh :
            c.id < nextId' /\ c.id \notin IdsOf(cards')
      BY <2>1, <2>3, <3>1, <3>2 DEF RowsInv, IdsOf
    <3>5. \A t, u \in Seeders : \A c \in seeding'[t].fresh, d \in seeding'[u].fresh :
            c.id = d.id => t = u /\ c = d
      BY <3>1, <3>2 DEF RowsInv
    <3>6. \A t \in Seeders : seeding'[t].touched \subseteq IdsOf(cards')
      BY <2>1, <3>1, <3>2 DEF RowsInv, IdsOf
    <3>7. ASSUME NEW t \in Seeders, NEW c \in cards', c.id \in seeding'[t].touched
          PROVE  c.name \in Present(seeding'[t].file)
      <4>1. t # s /\ c.id \in seeding[t].touched /\ seeding'[t].file = seeding[t].file
        BY <3>1, <3>2, <3>7
      <4>2. c.id \in IdsOf(cards)
        BY <4>1 DEF RowsInv
      <4>3. PICK d \in cards : d.id = c.id /\ d.name = c.name
        BY <2>1, <4>2 DEF RowsInv
      <4> QED BY <4>1, <4>3 DEF RowsInv
    <3> QED BY <2>1, <3>3, <3>4, <3>5, <3>6, <3>7 DEF RowsInv, IdsOf, Present
  <2> QED BY <2>4, <2>5
<1>5. ASSUME NEW s \in Seeders, SeedFails(s) PROVE TypedRows'
  <2>1. /\ seeding' = [seeding EXCEPT ![s] = NotSeeding]
        /\ UNCHANGED <<scryfall, cache, table, api, raced>>
    BY <1>5 DEF SeedFails
  <2>2. TypeOK'
    BY <2>1 DEF TypeOK, table, api, NotSeeding
  <2>3. \A t \in Seeders :
          \/ seeding'[t] = seeding[t]
          \/ seeding'[t].fresh = {} /\ seeding'[t].touched = {}
    BY <2>1 DEF TypeOK, NotSeeding
  <2>4. RowsInv'
    BY <2>1, <2>3 DEF RowsInv, table, IdsOf
  <2> QED BY <2>2, <2>4
<1>6. ASSUME BeginLoad PROVE TypedRows'
  <2>1. [rows |-> ToLoad, had |-> NamesIn(cards), late |-> FALSE] \in Load
    BY DEF Load, ToLoad, Pairs, NamesIn, TypeOK, Row
  <2>2. loads' \in Seq(Load)
    BY <1>6, <2>1 DEF BeginLoad, TypeOK
  <2> QED BY <1>6, <2>2 DEF BeginLoad, TypeOK, RowsInv, table
<1>7. ASSUME NEW i \in 1..MaxLoads, FinishLoad(i) PROVE TypedRows'
  <2>1. i \in 1..Len(loads) /\ loads' \in Seq(Load)
    BY <1>7, FinishLoadLeaves
  <2>2. loads[i] \in Load
    BY <2>1 DEF TypeOK
  <2>3. /\ nameToId' \in [Names -> Ids \cup {NoId}] /\ served' \in SUBSET Names
        /\ outrun' \in BOOLEAN
    BY <1>7, <2>2 DEF FinishLoad, Dictionaries, Load, TypeOK
  <2> QED BY <1>7, <2>1, <2>3 DEF FinishLoad, TypeOK, RowsInv, table
<1>8. ASSUME NEW reads \in {{}, cards}, RestartApi(reads) PROVE TypedRows'
  <2>1. /\ nameToId' \in [Names -> Ids \cup {NoId}] /\ served' \in SUBSET Names
        /\ outrun' = FALSE /\ loads' = <<>>
    BY <1>8 DEF RestartApi, Dictionaries, NamesIn, TypeOK, Row
  <2>2. UNCHANGED <<scryfall, cache, table, seeding, raced>> /\ <<>> \in Seq(Load)
    BY <1>8 DEF RestartApi
  <2>3. TypeOK'
    BY <2>1, <2>2 DEF TypeOK, table
  <2>4. RowsInv'
    BY <2>2 DEF RowsInv, table, IdsOf
  <2> QED BY <2>3, <2>4
<1>9. CASE UNCHANGED vars
  BY <1>9 DEF vars, table, api, TypeOK, RowsInv
<1> QED BY <1>1, <1>2, <1>3, <1>4, <1>5, <1>6, <1>7, <1>8, <1>9 DEF Next

\* Every reachable state has the types, and ids of cards are used once.
THEOREM TypedRowsCorrect == Spec => []TypedRows
<1>1. ASSUME Init PROVE TypedRows
  <2> USE <1>1, CardMapAssumption DEF Init, CardMapAssumption
  <2>1. scryfall \in Exports /\ cache = <<>>
    BY DEF Exports, Legal
  <2>2. seeding \in [Seeders -> [phase : {"idle", "updating", "inserted"},
                                file : Exports \cup {<<>>},
                                touched : SUBSET Ids, fresh : SUBSET Row]]
    BY DEF NotSeeding
  <2>3. \A s \in Seeders : /\ seeding[s].phase = "idle"
                           /\ seeding[s].fresh = {} /\ seeding[s].touched = {}
    BY DEF NotSeeding
  <2>4. nextId \in 1..(MaxId + 1) /\ nameToId \in [Names -> Ids \cup {NoId}]
    BY DEF NoId
  <2>5. loads = <<>> /\ <<>> \in Seq(Load) /\ served = {}
    OBVIOUS
  <2>9. outrun \in BOOLEAN /\ raced \in BOOLEAN
    BY Zenon
  <2>6. cards = {} /\ units = {}
    OBVIOUS
  <2>7. TypeOK
    BY <2>1, <2>2, <2>3, <2>4, <2>5, <2>6, <2>9 DEF TypeOK
  <2>8. RowsInv
    BY <2>3, <2>6 DEF RowsInv
  <2> QED BY <2>7, <2>8 DEF TypedRows
<1> QED BY <1>1, TypedRowsStep, PTL DEF Spec

\* CardMap's variables keep their types.
THEOREM TypeCorrect == Spec => []TypeOK
<1>1. TypedRows => TypeOK
  BY DEF TypedRows
<1> QED BY <1>1, TypedRowsCorrect, PTL

(***************************************************************************)
(* The map and the table.                                                  *)
(***************************************************************************)
\* No step takes a card, its id or its name away.
LEMMA CardsStay ==
    ASSUME TypedRows, [Next]_vars
    PROVE  Pairs(cards) \subseteq Pairs(cards)' /\ NamesIn(cards) \subseteq NamesIn(cards)'
<1>1. cards' = cards \/ \E s \in Seeders : Commit(s)
  BY DEF Next, vars, table, Release, ChangeLegality, BeginSeeding, UpdateAndInsert,
         SeedFails, BeginLoad, FinishLoad, RestartApi
<1>2. \A d \in cards : \E c \in cards' : d.id = c.id /\ d.name = c.name
  BY <1>1, CommitKeeps DEF TypedRows
<1> QED BY <1>2 DEF Pairs, NamesIn

\* What a load has read is still true of the table when it finishes.
MapInv ==
    /\ \A n \in Names : nameToId[n] # NoId => [id |-> nameToId[n], name |-> n] \in Pairs(cards)
    /\ \A i \in 1..Len(loads) : loads[i].rows \subseteq Pairs(cards)

\* A dictionary holds nothing but the pairs it was made from.
LEMMA DictionaryIsOfRows ==
    ASSUME NEW rows, NEW m \in Dictionaries(rows), NEW n \in Names, m[n] # NoId
    PROVE  \E r \in rows : r.name = n /\ m[n] = r.id
BY DEF Dictionaries

LEMMA MapInvStep == TypedRows /\ MapInv /\ [Next]_vars => MapInv'
<1> SUFFICES ASSUME TypedRows, MapInv, [Next]_vars PROVE MapInv'
  OBVIOUS
<1>1. Pairs(cards) \subseteq Pairs(cards)'
  BY CardsStay
<1>2. CASE UNCHANGED <<nameToId, loads>>
  BY <1>1, <1>2 DEF MapInv
<1>3. CASE BeginLoad
  <2>1. /\ loads \in Seq(Load) /\ nameToId' = nameToId
        /\ loads' = Append(loads, [rows |-> ToLoad, had |-> NamesIn(cards), late |-> FALSE])
    BY <1>3 DEF BeginLoad, TypedRows, TypeOK
  <2>2. ToLoad = Pairs(cards)
    BY DEF ToLoad
  <2>3. \A i \in 1..Len(loads') :
          \/ i \in 1..Len(loads) /\ loads'[i] = loads[i]
          \/ loads'[i].rows = Pairs(cards)
    BY <2>1, <2>2
  <2> QED BY <1>1, <2>1, <2>3 DEF MapInv
<1>4. ASSUME NEW i \in 1..MaxLoads, FinishLoad(i) PROVE MapInv'
  <2>1. /\ i \in 1..Len(loads)
        /\ \A j \in 1..Len(loads') : \E k \in 1..Len(loads) : loads'[j].rows = loads[k].rows
    BY <1>4, FinishLoadLeaves DEF TypedRows
  <2>2. nameToId' \in Dictionaries(loads[i].rows)
    BY <1>4 DEF FinishLoad
  <2>3. ASSUME NEW n \in Names, nameToId'[n] # NoId
        PROVE  [id |-> nameToId'[n], name |-> n] \in Pairs(cards)'
    <3>1. PICK r \in loads[i].rows : r.name = n /\ nameToId'[n] = r.id
      BY <2>2, <2>3, DictionaryIsOfRows
    <3>2. r \in Pairs(cards)
      BY <2>1, <3>1 DEF MapInv
    <3>3. r = [id |-> r.id, name |-> r.name]
      BY <3>2 DEF Pairs
    <3> QED BY <1>1, <3>1, <3>2, <3>3
  <2>4. \A j \in 1..Len(loads') : loads'[j].rows \subseteq Pairs(cards)'
    BY <1>1, <2>1 DEF MapInv
  <2> QED BY <2>3, <2>4 DEF MapInv
<1>5. ASSUME NEW reads \in {{}, cards}, RestartApi(reads) PROVE MapInv'
  <2>1. /\ loads' = <<>> /\ nameToId' \in Dictionaries(reads)
        /\ cards' = cards /\ reads \subseteq cards
    BY <1>5 DEF RestartApi, table
  <2>2. ASSUME NEW n \in Names, nameToId'[n] # NoId
        PROVE  [id |-> nameToId'[n], name |-> n] \in Pairs(cards)'
    <3>1. PICK c \in reads : c.name = n /\ nameToId'[n] = c.id
      BY <2>1, <2>2, DictionaryIsOfRows
    <3> QED BY <2>1, <3>1 DEF Pairs
  <2> QED BY <2>1, <2>2 DEF MapInv
<1> QED
  BY <1>2, <1>3, <1>4, <1>5
  DEF Next, vars, api, Release, ChangeLegality, BeginSeeding, UpdateAndInsert, Commit,
      SeedFails

\* An id that the map hands out for a name is the id of a card of that name,
\* whatever seedings fail, overlap or commit while a load is under way.
THEOREM MapIsOfTheTableCorrect == Spec => []MapIsOfTheTable
<1>1. Init => MapInv
  BY DEF Init, MapInv
<1>2. MapInv => MapIsOfTheTable
  BY DEF MapInv, MapIsOfTheTable, Pairs
<1> QED BY <1>1, <1>2, TypedRowsCorrect, MapInvStep, PTL DEF Spec

(***************************************************************************)
(* Reloads.                                                                *)
(***************************************************************************)
\* Loads that began later have read no less, and a load that no other has
\* overtaken has read all that was served.
LoadsInv ==
    /\ served \subseteq NamesIn(cards)
    /\ ReloadCatchesUp
    /\ \A i \in 1..Len(loads) :
         /\ loads[i].had \subseteq NamesIn(cards)
         /\ loads[i].had \subseteq NamesIn(loads[i].rows)
         /\ ~loads[i].late => served \subseteq loads[i].had
         /\ \A j \in 1..Len(loads) : i < j => loads[i].had \subseteq loads[j].had

\* A dictionary knows every name of the rows it was made from.
LEMMA DictionaryHasNames ==
    ASSUME NEW rows, \A r \in rows : r.id \in Ids,
           NEW m \in Dictionaries(rows), NEW n \in Names, n \in NamesIn(rows)
    PROVE  m[n] # NoId
<1>1. m[n] \in {r.id : r \in {r \in rows : r.name = n}}
  BY DEF Dictionaries
<1>2. m[n] \in Ids
  BY <1>1
<1> QED BY <1>2 DEF Ids, NoId

LEMMA LoadsInvStep == TypedRows /\ LoadsInv /\ [Next]_vars => LoadsInv'
<1> SUFFICES ASSUME TypedRows, LoadsInv, [Next]_vars PROVE LoadsInv'
  OBVIOUS
<1>1. NamesIn(cards) \subseteq NamesIn(cards)'
  BY CardsStay
<1>2. CASE UNCHANGED api
  BY <1>1, <1>2 DEF LoadsInv, api, ReloadCatchesUp, NamesIn
<1>3. CASE BeginLoad
  <2> DEFINE l == [rows |-> ToLoad, had |-> NamesIn(cards), late |-> FALSE]
  <2>1. /\ loads \in Seq(Load) /\ loads' = Append(loads, l)
        /\ UNCHANGED <<cards, nameToId, served, outrun>>
    BY <1>3 DEF BeginLoad, TypedRows, TypeOK, table
  <2>2. l.had = NamesIn(cards) /\ l.had \subseteq NamesIn(l.rows)
    <3>1. ASSUME NEW c \in cards PROVE \E r \in Pairs(cards) : r.name = c.name
      <4>1. [id |-> c.id, name |-> c.name] \in Pairs(cards)
        BY DEF Pairs
      <4> QED BY <4>1
    <3>2. NamesIn(cards) \subseteq NamesIn(Pairs(cards))
      BY <3>1 DEF NamesIn
    <3> QED BY <3>2 DEF ToLoad
  <2> HIDE DEF l
  <2>3. Len(loads') = Len(loads) + 1 /\ Len(loads) \in Nat
    BY <2>1
  <2>4. \A i \in 1..Len(loads') :
          \/ i \in 1..Len(loads) /\ loads'[i] = loads[i]
          \/ i = Len(loads') /\ loads'[i] = l
    BY <2>1
  <2>5. ASSUME NEW i \in 1..Len(loads')
        PROVE  /\ loads'[i].had \subseteq NamesIn(cards)
               /\ loads'[i].had \subseteq NamesIn(loads'[i].rows)
               /\ ~loads'[i].late => served \subseteq loads'[i].had
               /\ \A j \in 1..Len(loads') : i < j => loads'[i].had \subseteq loads'[j].had
    <3>1. loads'[i].had \subseteq NamesIn(cards)
      BY <2>2, <2>4 DEF LoadsInv
    <3>2. loads'[i].had \subseteq NamesIn(loads'[i].rows)
      BY <2>2, <2>4 DEF LoadsInv
    <3>3. ~loads'[i].late => served \subseteq loads'[i].had
      BY <2>2, <2>4 DEF LoadsInv
    <3>4. ASSUME NEW j \in 1..Len(loads'), i < j
          PROVE  loads'[i].had \subseteq loads'[j].had
      <4>1. CASE j = Len(loads') /\ loads'[j] = l
        BY <2>2, <3>1, <4>1
      <4>2. CASE j \in 1..Len(loads) /\ loads'[j] = loads[j]
        <5>1. i \in 1..Len(loads) /\ loads'[i] = loads[i]
          BY <2>3, <2>4, <3>4, <4>2
        <5> QED BY <3>4, <4>2, <5>1 DEF LoadsInv
      <4> QED BY <2>4, <4>1, <4>2
    <3> QED BY <3>1, <3>2, <3>3, <3>4
  <2>6. served' \subseteq NamesIn(cards)' /\ ReloadCatchesUp'
    BY <2>1 DEF LoadsInv, ReloadCatchesUp, NamesIn
  <2> QED BY <2>1, <2>5, <2>6 DEF LoadsInv, NamesIn
<1>4. ASSUME NEW i \in 1..MaxLoads, FinishLoad(i) PROVE LoadsInv'
  <2>1. /\ i \in 1..Len(loads) /\ Len(loads') = Len(loads) - 1
        /\ \A j \in 1..Len(loads') : \E k \in 1..Len(loads) :
              /\ k = (IF j < i THEN j ELSE j + 1)
              /\ loads'[j].rows = loads[k].rows /\ loads'[j].had = loads[k].had
              /\ ~loads'[j].late => k >= i /\ ~loads[k].late
    BY <1>4, FinishLoadLeaves DEF TypedRows
  <2>2. /\ served' = served \cup loads[i].had /\ outrun' = loads[i].late
        /\ nameToId' \in Dictionaries(loads[i].rows) /\ cards' = cards
    BY <1>4 DEF FinishLoad, table
  <2>3. served' \subseteq NamesIn(cards)'
    BY <2>1, <2>2 DEF LoadsInv, NamesIn
  <2>4. ReloadCatchesUp'
    <3>1. SUFFICES ASSUME ~loads[i].late, NEW n \in served' PROVE nameToId'[n] # NoId
      BY <2>2 DEF ReloadCatchesUp
    <3>2. n \in loads[i].had
      BY <2>1, <2>2, <3>1 DEF LoadsInv
    <3>3. n \in NamesIn(loads[i].rows)
      BY <2>1, <3>2 DEF LoadsInv
    <3>4. loads[i] \in Load
      BY <2>1 DEF TypedRows, TypeOK
    <3>5. n \in Names /\ \A r \in loads[i].rows : r.id \in Ids
      BY <3>2, <3>4 DEF Load
    <3> QED BY <2>2, <3>3, <3>5, DictionaryHasNames
  <2>5. ASSUME NEW j \in 1..Len(loads')
        PROVE  /\ loads'[j].had \subseteq NamesIn(cards)
               /\ loads'[j].had \subseteq NamesIn(loads'[j].rows)
               /\ ~loads'[j].late => served' \subseteq loads'[j].had
               /\ \A m \in 1..Len(loads') : j < m => loads'[j].had \subseteq loads'[m].had
    <3>1. PICK k \in 1..Len(loads) :
            /\ k = (IF j < i THEN j ELSE j + 1)
            /\ loads'[j].rows = loads[k].rows /\ loads'[j].had = loads[k].had
            /\ ~loads'[j].late => k >= i /\ ~loads[k].late
      BY <2>1
    <3>2. loads'[j].had \subseteq NamesIn(cards) /\ loads'[j].had \subseteq NamesIn(loads'[j].rows)
      BY <3>1 DEF LoadsInv
    <3>3. ASSUME ~loads'[j].late PROVE served' \subseteq loads'[j].had
      <4>1. i < k /\ ~loads[k].late
        BY <2>1, <3>1, <3>3
      <4> QED BY <2>1, <2>2, <3>1, <4>1 DEF LoadsInv
    <3>4. ASSUME NEW m \in 1..Len(loads'), j < m PROVE loads'[j].had \subseteq loads'[m].had
      <4>1. PICK q \in 1..Len(loads) :
              q = (IF m < i THEN m ELSE m + 1) /\ loads'[m].had = loads[q].had
        BY <2>1
      <4>2. k < q
        BY <2>1, <3>1, <3>4, <4>1
      <4> QED BY <3>1, <4>1, <4>2 DEF LoadsInv
    <3> QED BY <3>2, <3>3, <3>4
  <2> QED BY <2>2, <2>3, <2>4, <2>5 DEF LoadsInv, NamesIn
<1>5. ASSUME NEW reads \in {{}, cards}, RestartApi(reads) PROVE LoadsInv'
  <2>1. /\ loads' = <<>> /\ nameToId' \in Dictionaries(reads) /\ served' = NamesIn(reads)
        /\ cards' = cards /\ reads \subseteq cards
    BY <1>5 DEF RestartApi, table
  <2>2. /\ \A c \in reads : c.id \in Ids
        /\ NamesIn(reads) \subseteq Names /\ NamesIn(reads) \subseteq NamesIn(cards)
    BY <2>1 DEF TypedRows, TypeOK, Row, NamesIn
  <2>3. \A n \in served' : nameToId'[n] # NoId
    BY <2>1, <2>2, DictionaryHasNames
  <2> QED BY <2>1, <2>2, <2>3 DEF LoadsInv, ReloadCatchesUp, NamesIn
<1> QED
  BY <1>2, <1>3, <1>4, <1>5
  DEF Next, vars, Release, ChangeLegality, BeginSeeding, UpdateAndInsert, Commit, SeedFails

\* A finished load makes up for everything seeded before it began, unless an
\* older load that was still under way puts its own copy back afterwards.
THEOREM ReloadCatchesUpCorrect == Spec => []ReloadCatchesUp
<1>1. Init => LoadsInv
  BY DEF Init, LoadsInv, ReloadCatchesUp
<1>2. LoadsInv => ReloadCatchesUp
  BY DEF LoadsInv
<1> QED BY <1>1, <1>2, TypedRowsCorrect, LoadsInvStep, PTL DEF Spec

(***************************************************************************)
(* Units.                                                                  *)
(***************************************************************************)
\* An export shows a card as it was released, or the card has changed since.
Faithful(file) ==
    \A n \in Names : file[n] \in {"absent", Printed[n]} \/ n \in Changed

UnitsInv ==
    /\ Faithful(scryfall)
    /\ cache # <<>> => Faithful(cache)
    /\ \A s \in Seeders :
         /\ seeding[s].phase # "idle" => Faithful(seeding[s].file)
         /\ \A c \in seeding[s].fresh : c.legal = Printed[c.name] \/ c.name \in Changed
    /\ \A c \in cards :
         /\ [id |-> c.id, format |-> "open"] \in units
         /\ Printed[c.name] = "legal" /\ c.name \notin Changed
               => [id |-> c.id, format |-> "gated"] \in units

\* The trigger gives a row its units by the legality the row is inserted with.
LEMMA UnitsOfRow ==
    ASSUME NEW rows, NEW c \in rows, c.id \in Ids
    PROVE  /\ [id |-> c.id, format |-> "open"] \in UnitsOf(rows)
           /\ c.legal = "legal" => [id |-> c.id, format |-> "gated"] \in UnitsOf(rows)
<1> DEFINE open  == [id |-> c.id, format |-> "open"]
           gated == [id |-> c.id, format |-> "gated"]
<1>1. /\ open \in Unit /\ open.id = c.id /\ open.format = "open"
      /\ gated \in Unit /\ gated.id = c.id
  BY DEF Unit
<1> HIDE DEF open, gated
<1>2. open \in UnitsOf(rows) /\ (c.legal = "legal" => gated \in UnitsOf(rows))
  BY <1>1 DEF UnitsOf
<1> QED BY <1>2 DEF open, gated

LEMMA UnitsInvStep == TypedRows /\ UnitsInv /\ [Next]_vars => UnitsInv'
<1> SUFFICES ASSUME TypedRows, UnitsInv, [Next]_vars PROVE UnitsInv'
  OBVIOUS
<1> USE CardMapAssumption DEF TypedRows
<1>1. ASSUME NEW n \in Names, Release(n) \/ ChangeLegality(n) PROVE UnitsInv'
  <2>1. /\ \A m \in Names : m # n => scryfall'[m] = scryfall[m]
        /\ \/ scryfall[n] = "absent" /\ scryfall'[n] = Printed[n]
           \/ scryfall'[n] \notin {"absent", Printed[n]}
    BY <1>1 DEF Release, ChangeLegality, TypeOK, Exports, Legal, CardMapAssumption
  <2>2. Changed \subseteq Changed'
    BY <1>1, <2>1 DEF Changed, Release, ChangeLegality
  <2>3. Faithful(scryfall)'
    BY <2>1, <2>2 DEF Faithful, Changed, UnitsInv
  <2>4. UNCHANGED <<cache, table, seeding>>
    BY <1>1 DEF Release, ChangeLegality
  <2> QED BY <2>2, <2>3, <2>4 DEF UnitsInv, Faithful, table
<1>2. ASSUME NEW s \in Seeders, NEW cached \in BOOLEAN, BeginSeeding(s, cached)
      PROVE  UnitsInv'
  <2>1. Faithful(Fetched(cached))
    BY DEF Fetched, UnitsInv
  <2>2. UNCHANGED <<scryfall, table>> /\ Changed' = Changed
    BY <1>2 DEF BeginSeeding, Changed
  <2>3. cache' = cache \/ cache' = Fetched(cached)
    BY <1>2 DEF BeginSeeding
  <2>4. /\ \A t \in Seeders : t # s => seeding'[t] = seeding[t]
        /\ seeding'[s].file = Fetched(cached) /\ seeding'[s].fresh = {}
    BY <1>2 DEF BeginSeeding, TypeOK
  <2>5. \A file : Faithful(file) => \A m \in Names :
            file[m] \in {"absent", Printed[m]} \/ m \in Changed'
    BY <2>2 DEF Faithful
  <2>6. Faithful(scryfall)' /\ (cache' # <<>> => Faithful(cache)')
    BY <2>1, <2>2, <2>3 DEF UnitsInv, Faithful
  <2>7. ASSUME NEW t \in Seeders
        PROVE  /\ seeding'[t].phase # "idle" => Faithful(seeding[t].file)'
               /\ \A c \in seeding'[t].fresh :
                    c.legal = Printed[c.name] \/ c.name \in Changed'
    BY <2>1, <2>2, <2>4 DEF UnitsInv, Faithful
  <2> QED BY <2>2, <2>6, <2>7 DEF UnitsInv, table
<1>3. ASSUME NEW s \in Seeders, UpdateAndInsert(s) PROVE UnitsInv'
  <2>1. /\ seeding[s].phase # "idle" /\ NewRows(s) \in SUBSET Row
        /\ NamesIn(NewRows(s)) = Missing(s)
        /\ \A c \in NewRows(s) : c.legal = seeding[s].file[c.name]
    BY <1>3, NewRowsAre DEF UpdateAndInsert
  <2>2. \A c \in NewRows(s) : c.name \in Names /\ c.legal \in Legal
    BY <2>1 DEF Row
  <2>3. \A c \in NewRows(s) : c.legal = Printed[c.name] \/ c.name \in Changed
    BY <2>1, <2>2 DEF UnitsInv, Faithful, Legal
  <2>4. UNCHANGED <<scryfall, cache, cards, units>> /\ Changed' = Changed
    BY <1>3 DEF UpdateAndInsert, Changed
  <2>5. \A t \in Seeders :
          /\ seeding'[t].file = seeding[t].file
          /\ seeding'[t].fresh = IF t = s THEN NewRows(s) ELSE seeding[t].fresh
          /\ seeding'[t].phase # "idle" => seeding[t].phase # "idle"
    BY <1>3, <2>1 DEF UpdateAndInsert, TypeOK
  <2>6. ASSUME NEW t \in Seeders
        PROVE  /\ seeding'[t].phase # "idle" => Faithful(seeding[t].file)'
               /\ \A c \in seeding'[t].fresh :
                    c.legal = Printed[c.name] \/ c.name \in Changed'
    BY <2>3, <2>4, <2>5 DEF UnitsInv, Faithful
  <2> QED BY <2>4, <2>6 DEF UnitsInv, Faithful
<1>4. ASSUME NEW s \in Seeders, Commit(s) PROVE UnitsInv'
  <2>1. /\ \A c \in cards' : c \in seeding[s].fresh
                           \/ \E d \in cards : d.id = c.id /\ d.name = c.name
        /\ seeding[s].fresh \in SUBSET Row
    BY <1>4, CommitKeeps DEF TypeOK
  <2>2. UNCHANGED <<scryfall, cache>> /\ Changed' = Changed
    BY <1>4 DEF Commit, Changed
  <2>3. units' = units \cup UnitsOf(seeding[s].fresh)
    BY <1>4 DEF Commit
  <2>4. ASSUME NEW c \in cards'
        PROVE  /\ [id |-> c.id, format |-> "open"] \in units'
               /\ Printed[c.name] = "legal" /\ c.name \notin Changed
                     => [id |-> c.id, format |-> "gated"] \in units'
    <3>1. CASE c \in seeding[s].fresh
      <4>1. c.id \in Ids /\ (c.legal = Printed[c.name] \/ c.name \in Changed)
        BY <2>1, <3>1 DEF UnitsInv, Row
      <4> QED BY <2>3, <3>1, <4>1, UnitsOfRow
    <3>2. CASE \E d \in cards : d.id = c.id /\ d.name = c.name
      BY <2>3, <3>2 DEF UnitsInv
    <3> QED BY <2>1, <3>1, <3>2
  <2>5. \A t \in Seeders : seeding'[t] = seeding[t]
                           \/ (seeding'[t].phase = "idle" /\ seeding'[t].fresh = {})
    <3>1. \A t \in Seeders : t # s => seeding'[t] = seeding[t]
      BY <1>4 DEF Commit, TypeOK
    <3>2. seeding'[s].phase = "idle" /\ seeding'[s].fresh = {}
      BY <1>4 DEF Commit, NotSeeding, TypeOK
    <3> QED BY <3>1, <3>2
  <2>6. ASSUME NEW t \in Seeders
        PROVE  /\ seeding'[t].phase # "idle" => Faithful(seeding[t].file)'
               /\ \A c \in seeding'[t].fresh :
                    c.legal = Printed[c.name] \/ c.name \in Changed'
    BY <2>2, <2>5 DEF UnitsInv, Faithful
  <2> QED BY <2>2, <2>4, <2>6 DEF UnitsInv, Faithful
<1>5. ASSUME NEW s \in Seeders, SeedFails(s) PROVE UnitsInv'
  <2>1. UNCHANGED <<scryfall, cache, table>> /\ Changed' = Changed
    BY <1>5 DEF SeedFails, Changed
  <2>2. \A t \in Seeders : seeding'[t] = seeding[t]
                           \/ (seeding'[t].phase = "idle" /\ seeding'[t].fresh = {})
    <3>1. \A t \in Seeders : t # s => seeding'[t] = seeding[t]
      BY <1>5 DEF SeedFails, TypeOK
    <3>2. seeding'[s].phase = "idle" /\ seeding'[s].fresh = {}
      BY <1>5 DEF SeedFails, NotSeeding, TypeOK
    <3> QED BY <3>1, <3>2
  <2>3. ASSUME NEW t \in Seeders
        PROVE  /\ seeding'[t].phase # "idle" => Faithful(seeding[t].file)'
               /\ \A c \in seeding'[t].fresh :
                    c.legal = Printed[c.name] \/ c.name \in Changed'
    BY <2>1, <2>2 DEF UnitsInv, Faithful
  <2> QED BY <2>1, <2>3 DEF UnitsInv, Faithful, table
<1>6. CASE UNCHANGED <<scryfall, cache, table, seeding>>
  BY <1>6 DEF UnitsInv, Faithful, Changed, table
<1> QED
  BY <1>1, <1>2, <1>3, <1>4, <1>5, <1>6
  DEF Next, vars, BeginLoad, FinishLoad, RestartApi

\* Every card has its unit of the open format, and of the gated one if it was
\* released legal and still is.
THEOREM LegalCardsHaveUnitsCorrect == Spec => []LegalCardsHaveUnits
<1>1. Init => UnitsInv
  BY CardMapAssumption DEF Init, UnitsInv, Faithful, NotSeeding, CardMapAssumption
<1>2. TypedRows /\ UnitsInv => LegalCardsHaveUnits
  <2> SUFFICES ASSUME TypedRows, UnitsInv, NEW c \in cards, scryfall[c.name] = "legal",
                      c.name \notin Changed
               PROVE  Printed[c.name] = "legal"
    BY DEF UnitsInv, LegalCardsHaveUnits
  <2>1. c.name \in Names
    BY DEF TypedRows, TypeOK, Row
  <2> QED BY <2>1 DEF Changed
<1> QED BY <1>1, <1>2, TypedRowsCorrect, UnitsInvStep, PTL DEF Spec

(***************************************************************************)
(* One row per name.                                                       *)
(***************************************************************************)
\* Every export has the first card, and so has every table that is not empty:
\* seedings that update any card update this one, and wait for each other.
FirstCardInv ==
    /\ FirstCard \in Present(scryfall)
    /\ cache # <<>> => FirstCard \in Present(cache)
    /\ cards # {} => FirstCard \in NamesIn(cards)
    /\ \A s \in Seeders :
         /\ seeding[s].phase # "idle" => FirstCard \in Present(seeding[s].file)
         /\ seeding[s].phase # "inserted" => seeding[s].fresh = {}
         /\ seeding[s].phase = "inserted" =>
              FirstCard \in NamesIn(cards) \cup NamesIn(seeding[s].fresh)
         /\ seeding[s].touched # {} =>
              \E c \in cards : c.name = FirstCard /\ c.id \in seeding[s].touched

\* Unless seedings raced, one of them at a time inserts, and what it inserts has
\* names of its own.
NamesInv ==
    \/ raced
    \/ /\ \A c, d \in cards : c.name = d.name => c = d
       /\ \A s, t \in Uncommitted : s = t
       /\ \A s \in Seeders : \A c \in seeding[s].fresh :
            /\ c.name \notin NamesIn(cards)
            /\ \A d \in seeding[s].fresh : c.name = d.name => c = d

LEMMA FirstCardInvStep == TypedRows /\ FirstCardInv /\ [Next]_vars => FirstCardInv'
<1> SUFFICES ASSUME TypedRows, FirstCardInv, [Next]_vars PROVE FirstCardInv'
  OBVIOUS
<1> USE CardMapAssumption DEF TypedRows
<1>1. ASSUME NEW n \in Names, Release(n) \/ ChangeLegality(n) PROVE FirstCardInv'
  <2>1. FirstCard \in Present(scryfall)'
    BY <1>1 DEF Release, ChangeLegality, FirstCardInv, Present, TypeOK, Exports,
                CardMapAssumption
  <2>2. UNCHANGED <<cache, table, seeding>>
    BY <1>1 DEF Release, ChangeLegality
  <2> QED BY <2>1, <2>2 DEF FirstCardInv, Present, NamesIn, table
<1>2. ASSUME NEW s \in Seeders, NEW cached \in BOOLEAN, BeginSeeding(s, cached)
      PROVE  FirstCardInv'
  <2> DEFINE file == Fetched(cached)
             touched == {c.id : c \in {r \in cards : r.name \in Present(file)}}
  <2>1. FirstCard \in Present(file)
    BY DEF Fetched, FirstCardInv
  <2>2. touched # {} => \E c \in cards : c.name = FirstCard /\ c.id \in touched
    BY <2>1 DEF FirstCardInv, NamesIn
  <2>3. seeding' = [seeding EXCEPT ![s] =
          [phase |-> "updating", file |-> file, fresh |-> {}, touched |-> touched]]
    BY <1>2 DEF BeginSeeding, Updated
  <2>4. UNCHANGED <<scryfall, table>> /\ (cache' = cache \/ cache' = file)
    BY <1>2 DEF BeginSeeding
  <2> HIDE DEF file, touched
  <2>5. /\ \A t \in Seeders : t # s => seeding'[t] = seeding[t]
        /\ seeding'[s].phase = "updating" /\ seeding'[s].file = file
        /\ seeding'[s].fresh = {} /\ seeding'[s].touched = touched
    BY <2>3 DEF TypeOK
  <2>6. cards' = cards
    BY <2>4 DEF table
  <2>7. FirstCard \in Present(scryfall)' /\ (cache' # <<>> => FirstCard \in Present(cache)')
    BY <2>1, <2>4 DEF FirstCardInv, Present
  <2>8. ASSUME NEW t \in Seeders
        PROVE  /\ seeding'[t].phase # "idle" => FirstCard \in Present(seeding[t].file)'
               /\ seeding'[t].phase # "inserted" => seeding'[t].fresh = {}
               /\ seeding'[t].phase = "inserted" =>
                    FirstCard \in NamesIn(cards) \cup NamesIn(seeding'[t].fresh)
               /\ seeding'[t].touched # {} =>
                    \E c \in cards : c.name = FirstCard /\ c.id \in seeding'[t].touched
    <3>1. CASE t = s
      BY <2>1, <2>2, <2>5, <3>1 DEF Present
    <3>2. CASE t # s
      BY <2>5, <3>2 DEF FirstCardInv, Present
    <3> QED BY <3>1, <3>2
  <2> QED BY <2>6, <2>7, <2>8 DEF FirstCardInv, NamesIn
<1>3. ASSUME NEW s \in Seeders, UpdateAndInsert(s) PROVE FirstCardInv'
  <2>1. seeding[s].phase = "updating" /\ NamesIn(NewRows(s)) = Missing(s)
    BY <1>3, NewRowsAre DEF UpdateAndInsert
  <2>2. FirstCard \in NamesIn(cards) \cup NamesIn(NewRows(s))
    BY <2>1 DEF FirstCardInv, Missing
  <2>3. UNCHANGED <<scryfall, cache, cards>>
    BY <1>3 DEF UpdateAndInsert
  <2>4. /\ \A t \in Seeders : t # s => seeding'[t] = seeding[t]
        /\ seeding'[s].phase = "inserted" /\ seeding'[s].file = seeding[s].file
        /\ seeding'[s].fresh = NewRows(s) /\ seeding'[s].touched = seeding[s].touched
    BY <1>3 DEF UpdateAndInsert, TypeOK
  <2>5. ASSUME NEW t \in Seeders
        PROVE  /\ seeding'[t].phase # "idle" => FirstCard \in Present(seeding[t].file)'
               /\ seeding'[t].phase # "inserted" => seeding'[t].fresh = {}
               /\ seeding'[t].phase = "inserted" =>
                    FirstCard \in NamesIn(cards) \cup NamesIn(seeding'[t].fresh)
               /\ seeding'[t].touched # {} =>
                    \E c \in cards : c.name = FirstCard /\ c.id \in seeding'[t].touched
    <3>1. CASE t = s
      BY <2>1, <2>2, <2>4, <3>1 DEF FirstCardInv, Present
    <3>2. CASE t # s
      BY <2>4, <3>2 DEF FirstCardInv, Present
    <3> QED BY <3>1, <3>2
  <2> QED BY <2>3, <2>5 DEF FirstCardInv, NamesIn, Present
<1>4. ASSUME NEW s \in Seeders, Commit(s) PROVE FirstCardInv'
  <2>1. /\ \A d \in cards : \E c \in cards' : d.id = c.id /\ d.name = c.name
        /\ seeding[s].fresh \subseteq cards'
    BY <1>4, CommitKeeps
  <2>2. UNCHANGED <<scryfall, cache>> /\ seeding[s].phase = "inserted"
    BY <1>4 DEF Commit
  <2>3. NamesIn(cards) \cup NamesIn(seeding[s].fresh) \subseteq NamesIn(cards')
    BY <2>1 DEF NamesIn
  <2>4. FirstCard \in NamesIn(cards')
    BY <2>2, <2>3 DEF FirstCardInv
  <2>5. \A t \in Seeders : seeding'[t] = seeding[t]
                           \/ /\ seeding'[t].phase = "idle" /\ seeding'[t].fresh = {}
                              /\ seeding'[t].touched = {}
    BY <1>4 DEF Commit, NotSeeding, TypeOK
  <2>6. ASSUME NEW t \in Seeders
        PROVE  /\ seeding'[t].phase # "idle" => FirstCard \in Present(seeding[t].file)'
               /\ seeding'[t].phase # "inserted" => seeding'[t].fresh = {}
               /\ seeding'[t].touched # {} =>
                    \E c \in cards' : c.name = FirstCard /\ c.id \in seeding'[t].touched
    <3>1. CASE seeding'[t] = seeding[t]
      <4>1. seeding[t].touched # {} =>
              \E c \in cards' : c.name = FirstCard /\ c.id \in seeding[t].touched
        BY <2>1 DEF FirstCardInv
      <4> QED BY <3>1, <4>1 DEF FirstCardInv, Present
    <3>2. CASE /\ seeding'[t].phase = "idle" /\ seeding'[t].fresh = {}
               /\ seeding'[t].touched = {}
      BY <3>2
    <3> QED BY <2>5, <3>1, <3>2
  <2> QED BY <2>2, <2>4, <2>6 DEF FirstCardInv, NamesIn, Present
<1>5. ASSUME NEW s \in Seeders, SeedFails(s) PROVE FirstCardInv'
  <2>1. UNCHANGED <<scryfall, cache, cards>>
    BY <1>5 DEF SeedFails, table
  <2>2. \A t \in Seeders : seeding'[t] = seeding[t]
                           \/ /\ seeding'[t].phase = "idle" /\ seeding'[t].fresh = {}
                              /\ seeding'[t].touched = {}
    BY <1>5 DEF SeedFails, NotSeeding, TypeOK
  <2> QED BY <2>1, <2>2 DEF FirstCardInv, NamesIn, Present
<1>6. CASE UNCHANGED <<scryfall, cache, table, seeding>>
  BY <1>6 DEF FirstCardInv, NamesIn, Present, table
<1> QED
  BY <1>1, <1>2, <1>3, <1>4, <1>5, <1>6
  DEF Next, vars, BeginLoad, FinishLoad, RestartApi

LEMMA NamesInvStep ==
    TypedRows /\ FirstCardInv /\ NamesInv /\ [Next]_vars => NamesInv'
<1> SUFFICES ASSUME TypedRows, FirstCardInv, NamesInv, [Next]_vars, ~raced'
             PROVE  NamesInv'
  BY DEF NamesInv
<1> USE CardMapAssumption DEF TypedRows
<1>1. /\ ~raced
      /\ \A c, d \in cards : c.name = d.name => c = d
      /\ \A s, t \in Uncommitted : s = t
      /\ \A s \in Seeders : \A c \in seeding[s].fresh :
           /\ c.name \notin NamesIn(cards)
           /\ \A d \in seeding[s].fresh : c.name = d.name => c = d
  <2>1. raced' = raced \/ \E s \in Seeders : UpdateAndInsert(s)
    BY DEF Next, vars, api, Release, ChangeLegality, BeginSeeding, Commit, SeedFails,
           BeginLoad, FinishLoad, RestartApi
  <2>2. ~raced
    BY <2>1 DEF UpdateAndInsert
  <2> QED BY <2>2 DEF NamesInv
<1>2. ASSUME NEW s \in Seeders, UpdateAndInsert(s) PROVE NamesInv'
  <2>1. /\ seeding[s].phase = "updating" /\ NamesIn(NewRows(s)) = Missing(s)
        /\ \A c, d \in NewRows(s) : c.name = d.name => c = d
    BY <1>2, NewRowsAre DEF UpdateAndInsert
  <2>2. cards' = cards /\ Locks(s)
    BY <1>2 DEF UpdateAndInsert
  <2>3. /\ \A t \in Seeders : t # s => seeding'[t] = seeding[t]
        /\ seeding'[s].phase = "inserted" /\ seeding'[s].fresh = NewRows(s)
    BY <1>2 DEF UpdateAndInsert, TypeOK
  <2>4. Uncommitted = {}
    <3>1. SUFFICES ASSUME NEW t \in Uncommitted PROVE FALSE
      OBVIOUS
    <3>2. t \in Seeders /\ seeding[s].touched # {} /\ seeding[t].touched # {}
      BY <1>2 DEF UpdateAndInsert, Uncommitted
    <3>3. PICK c \in cards : c.name = FirstCard /\ c.id \in seeding[s].touched
      BY <3>2 DEF FirstCardInv
    <3>4. PICK d \in cards : d.name = FirstCard /\ d.id \in seeding[t].touched
      BY <3>2 DEF FirstCardInv
    <3>5. c = d
      BY <1>1, <3>3, <3>4
    <3> QED BY <2>2, <3>3, <3>4, <3>5 DEF Locks
  <2>5. \A t, u \in Uncommitted' : t = u
    BY <2>3, <2>4 DEF Uncommitted
  <2>6. \A c \in NewRows(s) : c.name \notin NamesIn(cards)
    BY <2>1 DEF Missing, NamesIn
  <2>7. \A t \in Seeders : \A c \in seeding'[t].fresh :
          /\ c.name \notin NamesIn(cards)
          /\ \A d \in seeding'[t].fresh : c.name = d.name => c = d
    BY <1>1, <2>1, <2>3, <2>6
  <2> QED BY <1>1, <2>2, <2>5, <2>7 DEF NamesInv, NamesIn
<1>3. ASSUME NEW s \in Seeders, Commit(s) PROVE NamesInv'
  <2> DEFINE new(c) == IF c.id \in seeding[s].touched
                       THEN [c EXCEPT !.legal = seeding[s].file[c.name]] ELSE c
  <2>1. /\ cards' = {new(c) : c \in cards} \cup seeding[s].fresh
        /\ seeding[s].phase = "inserted"
    BY <1>3 DEF Commit, UpdatedRows
  <2>2. \A c \in cards : new(c).name = c.name
    BY DEF TypeOK, Row
  <2> HIDE DEF new
  <2>3. \A c \in cards, d \in seeding[s].fresh : new(c).name # d.name
    BY <1>1, <2>2 DEF NamesIn
  <2>4. \A c, d \in cards' : c.name = d.name => c = d
    BY <1>1, <2>1, <2>2, <2>3
  <2>5. \A t \in Seeders : t # s => seeding'[t] = seeding[t] /\ seeding[t].fresh = {}
    BY <1>1, <1>3, <2>1 DEF Commit, Uncommitted, FirstCardInv, TypeOK
  <2>6. seeding'[s].phase = "idle" /\ seeding'[s].fresh = {}
    BY <1>3 DEF Commit, NotSeeding, TypeOK
  <2>7. \A t, u \in Uncommitted' : t = u
    BY <1>1, <2>5, <2>6 DEF Uncommitted
  <2>8. \A t \in Seeders : seeding'[t].fresh = {}
    BY <2>5, <2>6
  <2> QED BY <2>4, <2>7, <2>8 DEF NamesInv
<1>4. CASE /\ cards' = cards
           /\ \A t \in Seeders :
                seeding'[t] = seeding[t]
                \/ (seeding'[t].phase # "inserted" /\ seeding'[t].fresh = {})
  <2>1. \A t, u \in Uncommitted' : t = u
    BY <1>1, <1>4 DEF Uncommitted
  <2> QED BY <1>1, <1>4, <2>1 DEF NamesInv, NamesIn
<1>5. ASSUME NEW s \in Seeders, NEW cached \in BOOLEAN, BeginSeeding(s, cached)
      PROVE  NamesInv'
  <2>1. \A t \in Seeders :
          seeding'[t] = seeding[t]
          \/ (seeding'[t].phase # "inserted" /\ seeding'[t].fresh = {})
    <3>1. \A t \in Seeders : t # s => seeding'[t] = seeding[t]
      BY <1>5 DEF BeginSeeding, TypeOK
    <3>2. seeding'[s].phase # "inserted" /\ seeding'[s].fresh = {}
      BY <1>5 DEF BeginSeeding, TypeOK
    <3> QED BY <3>1, <3>2
  <2> QED BY <1>4, <1>5, <2>1 DEF BeginSeeding, table
<1>6. ASSUME NEW s \in Seeders, SeedFails(s) PROVE NamesInv'
  <2>1. \A t \in Seeders :
          seeding'[t] = seeding[t]
          \/ (seeding'[t].phase # "inserted" /\ seeding'[t].fresh = {})
    <3>1. \A t \in Seeders : t # s => seeding'[t] = seeding[t]
      BY <1>6 DEF SeedFails, TypeOK
    <3>2. seeding'[s].phase # "inserted" /\ seeding'[s].fresh = {}
      BY <1>6 DEF SeedFails, NotSeeding, TypeOK
    <3> QED BY <3>1, <3>2
  <2> QED BY <1>4, <1>6, <2>1 DEF SeedFails, table
<1>7. CASE UNCHANGED <<table, seeding>>
  BY <1>4, <1>7 DEF table
<1> QED
  BY <1>2, <1>3, <1>5, <1>6, <1>7
  DEF Next, vars, Release, ChangeLegality, BeginLoad, FinishLoad, RestartApi

\* No two rows have one name, however many seedings overlap or fail, unless one
\* that found no card to update overlapped with another.
THEOREM OneRowPerNameCorrect == Spec => []OneRowPerName
<1>1. Init => FirstCardInv /\ NamesInv
  <2> SUFFICES ASSUME Init PROVE FirstCardInv /\ NamesInv
    OBVIOUS
  <2>1. FirstCard \in Present(scryfall)
    BY CardMapAssumption DEF Init, Present, CardMapAssumption
  <2>2. \A s \in Seeders : /\ seeding[s].phase = "idle" /\ seeding[s].fresh = {}
                           /\ seeding[s].touched = {}
    BY DEF Init, NotSeeding
  <2> QED BY <2>1, <2>2 DEF Init, FirstCardInv, NamesInv, Uncommitted
<1>2. NamesInv => OneRowPerName
  BY DEF NamesInv, OneRowPerName
<1> QED BY <1>1, <1>2, TypedRowsCorrect, FirstCardInvStep, NamesInvStep, PTL DEF Spec
=============================================================================
