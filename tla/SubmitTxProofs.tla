--------------------------- MODULE SubmitTxProofs ---------------------------
(***************************************************************************)
(* Proofs about SubmitTx, for any sets of decks, cards and requests, any   *)
(* lists and stamps.                                                       *)
(***************************************************************************)
EXTENDS SubmitTx, TLAPS

Rows  == [status : {"untouched", "queued", "done", "error"}, stamp : Nat]
Lists == [Cards -> Submits \cup {NoTx, Keep}]

\* The functions the variables are.
Shapes ==
    /\ status \in [Decks -> {"queued", "done", "error"}]
    /\ stamp \in [Decks -> Nat]
    /\ list \in [Decks -> [Cards -> Writers \cup {NoTx}]]
    /\ job \in [Txs -> [Decks -> {"ok", "error", "stub", "none"}]]
    /\ pc \in [Txs -> {"next", "begin", "delete", "insert", "update", "mark", "end"}]
    /\ cur \in [Txs -> Decks]
    /\ snap \in [Txs -> SUBSET Cards] /\ todo \in [Txs -> SUBSET Cards]
    /\ gone \in [Txs -> [Decks -> SUBSET Cards]]
    /\ row \in [Txs -> [Decks -> Rows]]
    /\ wrote \in [Txs -> [Decks -> Lists]]
    /\ lastDone \in [Decks -> Writers]
    /\ overlap \subseteq Decks

(***************************************************************************)
(* What a transaction has done about a deck, by its own variables alone.   *)
(***************************************************************************)
At(t, d, where) == cur[t] = d /\ pc[t] \in where

\* t has not written anything of d's, and has no job left there.
Clear(t, d) == row[t][d] = Untouched /\ wrote[t][d] = NoWrites /\ gone[t][d] = {}

\* A submission: a deck it has not come to is clear, its statements are about
\* a deck without a written row, what it has written of a list belongs to a deck
\* whose row is done, or is at its INSERT or UPDATE; and then the list is whole,
\* but for the rows that are left to insert.
SubmitOwn(t, d) ==
    /\ job[t][d] # "stub"
    /\ job[t][d] # "none" => Clear(t, d)
    /\ At(t, d, {"begin", "delete", "mark"}) => job[t][d] = "none" /\ Clear(t, d)
    /\ At(t, d, {"insert", "update"}) => job[t][d] = "none" /\ row[t][d] = Untouched
    /\ At(t, d, {"begin", "delete", "insert"}) => d \notin Singletons
    /\ wrote[t][d] # NoWrites \/ gone[t][d] # {} =>
         row[t][d].status = "done" \/ (At(t, d, {"insert", "update"}) /\ d \notin Singletons)
    /\ row[t][d].status # "queued"
    /\ \A c \in Cards : /\ wrote[t][d][c] \in {t, NoTx, Keep}
                        /\ wrote[t][d][c] = t => c \in ListOf[t]
    /\ At(t, d, {"insert"}) => /\ todo[t] \subseteq ListOf[t]
                               /\ \A c \in ListOf[t] \ todo[t] : wrote[t][d][c] = t
    /\ row[t][d].status = "done" \/ (At(t, d, {"update"}) /\ d \notin Singletons) =>
         \A c \in ListOf[t] : wrote[t][d][c] = t
    /\ row[t][d].status = "done" /\ d \in Singletons => wrote[t][d] = Listed(t)

\* A post has no statement of its own and writes no list.
PostOwn(t, d) ==
    /\ job[t][d] \in {"stub", "none"}
    /\ pc[t] \in {"next", "end"}
    /\ wrote[t][d] = NoWrites /\ gone[t][d] = {}
    /\ job[t][d] # "none" => row[t][d] = Untouched

OwnInv == /\ \A t \in Submits, d \in Decks : SubmitOwn(t, d)
          /\ \A t \in Posts, d \in Decks : PostOwn(t, d)

(***************************************************************************)
(* Locks: no two transactions have written the same row, so the row a      *)
(* transaction has written still fits the one that is committed.           *)
(***************************************************************************)
Exclusive ==
    \A d \in Decks, t, u \in Txs : t # u =>
        /\ row[t][d] = Untouched \/ row[u][d] = Untouched
        /\ \A c \in Cards : wrote[t][d][c] = Keep \/ wrote[u][d][c] = Keep

RowFits(t, d) ==
    /\ t \in Submits /\ row[t][d] # Untouched =>
         /\ row[t][d].stamp = stamp[d]
         /\ row[t][d].status \in {"done", "error"}
         /\ row[t][d].status = "error" => status[d] # "done"
    /\ t \in Posts /\ row[t][d] # Untouched =>
         /\ row[t][d].stamp = StampOf[t]
         /\ row[t][d].status = IF StampOf[t] > stamp[d] THEN "queued" ELSE status[d]

RowInv == \A t \in Txs, d \in Decks : RowFits(t, d)

(***************************************************************************)
(* Submissions on one deck.  Unless two have worked on it at once, a       *)
(* submission sees the committed list until its own commit.                *)
(***************************************************************************)
WorkInv ==
    \A d \in Decks \ overlap, t, u \in Submits :
        WorkingOn(t, d) /\ WorkingOn(u, d) => t = u

Sees(t, d) ==
    /\ At(t, d, {"delete"}) => snap[t] = RowsSeen(d)
    /\ row[t][d].status = "done" \/ (At(t, d, {"insert", "update"}) /\ d \notin Singletons) =>
         \A c \in Cards : wrote[t][d][c] = Keep => list[d][c] = NoTx

SeesInv == \A d \in Decks \ overlap, t \in Submits : Sees(t, d)

TxInv == Shapes /\ OwnInv /\ Exclusive /\ RowInv /\ WorkInv /\ SeesInv /\ DoneListIsTheLast
-----------------------------------------------------------------------------
(***************************************************************************)
(* What the parts of the actions do to one transaction and one deck.       *)
(***************************************************************************)

\* The values that stand for what is not there are told from all others.
LEMMA ValuesDiffer ==
    /\ Untouched \in Rows /\ NoWrites \in Lists
    /\ \A t \in Submits : /\ t \in Txs /\ t \notin Posts /\ t \in Writers
                          /\ t # Old /\ t # NoTx /\ t # Keep
                          /\ Listed(t) \in Lists /\ ListOf[t] \subseteq Cards
    /\ \A t \in Posts : t \in Txs /\ t \notin Submits /\ StampOf[t] \in Nat
    /\ NoTx # Keep /\ Keep \notin Writers /\ NoTx \notin Writers
    /\ ListOf[Old] \subseteq Cards
BY SubmitTxAssumption DEF Untouched, Rows, NoWrites, Lists, Txs, Writers, Listed

\* One row of the deck table is written.
LEMMA WriteRowDoes ==
    ASSUME Shapes, NEW t \in Txs, NEW d \in Decks, NEW r \in Rows, WriteRow(t, d, r)
    PROVE  /\ row' \in [Txs -> [Decks -> Rows]]
           /\ row'[t][d] = r
           /\ \A e \in Decks \ {d} : row'[t][e] = row[t][e]
           /\ \A u \in Txs \ {t} : row'[u] = row[u]
<1> HIDE DEF Rows
<1> QED BY DEF WriteRow, Shapes

\* A request comes to one of its decks.
LEMMA TakeDoes ==
    ASSUME Shapes, NEW t \in Txs, NEW d \in Decks, NEW what, Take(t, d, what)
    PROVE  /\ pc[t] = "next" /\ job[t][d] = what
           /\ job' \in [Txs -> [Decks -> {"ok", "error", "stub", "none"}]]
           /\ job'[t][d] = "none" /\ \A e \in Decks \ {d} : job'[t][e] = job[t][e]
           /\ \A u \in Txs \ {t} : job'[u] = job[u]
           /\ cur' \in [Txs -> Decks] /\ cur'[t] = d
           /\ \A u \in Txs \ {t} : cur'[u] = cur[u]
BY DEF Take, Shapes

\* A request goes on to another statement.
LEMMA GoToDoes ==
    ASSUME Shapes, NEW t \in Txs,
           NEW where \in {"next", "begin", "delete", "insert", "update", "mark", "end"},
           GoTo(t, where)
    PROVE  /\ pc' \in [Txs -> {"next", "begin", "delete", "insert", "update", "mark", "end"}]
           /\ pc'[t] = where /\ \A u \in Txs \ {t} : pc'[u] = pc[u]
BY DEF GoTo, Shapes

\* What a request has written in some decks is taken back.
LEMMA UndoDoes ==
    ASSUME Shapes, NEW t \in Txs, NEW ds \in SUBSET Decks, Undo(t, ds)
    PROVE  /\ row' \in [Txs -> [Decks -> Rows]]
           /\ wrote' \in [Txs -> [Decks -> Lists]]
           /\ gone' \in [Txs -> [Decks -> SUBSET Cards]]
           /\ todo' \in [Txs -> SUBSET Cards]
           /\ \A d \in ds : /\ row'[t][d] = Untouched /\ wrote'[t][d] = NoWrites
                            /\ gone'[t][d] = {}
           /\ \A d \in Decks \ ds : /\ row'[t][d] = row[t][d] /\ wrote'[t][d] = wrote[t][d]
                                    /\ gone'[t][d] = gone[t][d]
           /\ \A u \in Txs \ {t} : /\ row'[u] = row[u] /\ wrote'[u] = wrote[u]
                                   /\ gone'[u] = gone[u] /\ todo'[u] = todo[u]
<1>1. Untouched \in Rows /\ NoWrites \in Lists
  BY ValuesDiffer
<1> HIDE DEF Rows, Lists, Untouched, NoWrites
<1>2. /\ row' \in [Txs -> [Decks -> Rows]]
      /\ \A d \in ds : row'[t][d] = Untouched
      /\ \A d \in Decks \ ds : row'[t][d] = row[t][d]
      /\ \A u \in Txs \ {t} : row'[u] = row[u]
  BY <1>1 DEF Undo, Shapes
<1>3. /\ wrote' \in [Txs -> [Decks -> Lists]]
      /\ \A d \in ds : wrote'[t][d] = NoWrites
      /\ \A d \in Decks \ ds : wrote'[t][d] = wrote[t][d]
      /\ \A u \in Txs \ {t} : wrote'[u] = wrote[u]
  BY <1>1 DEF Undo, Shapes
<1>4. /\ gone' \in [Txs -> [Decks -> SUBSET Cards]]
      /\ \A d \in ds : gone'[t][d] = {}
      /\ \A d \in Decks \ ds : gone'[t][d] = gone[t][d]
      /\ \A u \in Txs \ {t} : gone'[u] = gone[u]
  BY DEF Undo, Shapes
<1>5. todo' \in [Txs -> SUBSET Cards] /\ \A u \in Txs \ {t} : todo'[u] = todo[u]
  BY DEF Undo, Shapes
<1> QED BY <1>2, <1>3, <1>4, <1>5

\* The DELETE of a list.
LEMMA DeleteRowsDoes ==
    ASSUME Shapes, NEW t \in Submits, DeleteRows(t)
    PROVE  LET d == cur[t] IN
           /\ wrote' \in [Txs -> [Decks -> Lists]]
           /\ gone' \in [Txs -> [Decks -> SUBSET Cards]]
           /\ \A c \in Cards : wrote'[t][d][c] = IF c \in snap[t] THEN NoTx ELSE wrote[t][d][c]
           /\ gone'[t][d] = snap[t]
           /\ \A e \in Decks \ {d} : wrote'[t][e] = wrote[t][e] /\ gone'[t][e] = gone[t][e]
           /\ \A u \in Txs \ {t} : wrote'[u] = wrote[u] /\ gone'[u] = gone[u]
           /\ snap' \in [Txs -> SUBSET Cards] /\ \A u \in Txs \ {t} : snap'[u] = snap[u]
           /\ todo' \in [Txs -> SUBSET Cards] /\ \A u \in Txs \ {t} : todo'[u] = todo[u]
           /\ todo'[t] = ListOf[t]
<1> DEFINE d == cur[t]
           new == [c \in Cards |-> IF c \in snap[t] THEN NoTx ELSE wrote[t][d][c]]
<1>1. t \in Txs /\ d \in Decks /\ ListOf[t] \subseteq Cards
  BY ValuesDiffer DEF Shapes
<1>2. new \in Lists
  BY <1>1 DEF Shapes, Lists
<1>3. wrote' = [wrote EXCEPT ![t][d] = new]
  BY DEF DeleteRows
<1>4. \A c \in Cards : new[c] = IF c \in snap[t] THEN NoTx ELSE wrote[t][d][c]
  OBVIOUS
<1> HIDE DEF new, d
<1>5. /\ wrote' \in [Txs -> [Decks -> Lists]]
      /\ wrote'[t][d] = new
      /\ \A e \in Decks \ {d} : wrote'[t][e] = wrote[t][e]
      /\ \A u \in Txs \ {t} : wrote'[u] = wrote[u]
  <2> HIDE DEF Lists
  <2> QED BY <1>1, <1>2, <1>3 DEF Shapes
<1>6. /\ gone' \in [Txs -> [Decks -> SUBSET Cards]]
      /\ gone'[t][d] = snap[t]
      /\ \A e \in Decks \ {d} : gone'[t][e] = gone[t][e]
      /\ \A u \in Txs \ {t} : gone'[u] = gone[u]
  BY <1>1 DEF DeleteRows, Shapes, d
<1>7. /\ snap' \in [Txs -> SUBSET Cards] /\ \A u \in Txs \ {t} : snap'[u] = snap[u]
      /\ todo' \in [Txs -> SUBSET Cards] /\ \A u \in Txs \ {t} : todo'[u] = todo[u]
      /\ todo'[t] = ListOf[t]
  BY <1>1 DEF DeleteRows, Shapes
<1> QED BY <1>4, <1>5, <1>6, <1>7 DEF d

\* One row of a list is inserted.
LEMMA InsertRowDoes ==
    ASSUME Shapes, NEW t \in Submits, NEW c \in Cards, InsertRow(t, c)
    PROVE  LET d == cur[t] IN
           /\ wrote' \in [Txs -> [Decks -> Lists]]
           /\ wrote'[t][d][c] = t /\ \A b \in Cards \ {c} : wrote'[t][d][b] = wrote[t][d][b]
           /\ \A e \in Decks \ {d} : wrote'[t][e] = wrote[t][e]
           /\ \A u \in Txs \ {t} : wrote'[u] = wrote[u]
           /\ todo' \in [Txs -> SUBSET Cards] /\ \A u \in Txs \ {t} : todo'[u] = todo[u]
           /\ todo'[t] = todo[t] \ {c}
<1> DEFINE d == cur[t]
           new == [wrote[t][d] EXCEPT ![c] = t]
<1>1. t \in Txs /\ d \in Decks /\ wrote[t][d] \in Lists
  BY ValuesDiffer DEF Shapes
<1>2. new \in Lists /\ new[c] = t /\ \A b \in Cards \ {c} : new[b] = wrote[t][d][b]
  BY <1>1 DEF Lists
<1>3. wrote' = [wrote EXCEPT ![t][d] = new]
  BY DEF InsertRow
<1> HIDE DEF new, d
<1>4. /\ wrote' \in [Txs -> [Decks -> Lists]]
      /\ wrote'[t][d] = new
      /\ \A e \in Decks \ {d} : wrote'[t][e] = wrote[t][e]
      /\ \A u \in Txs \ {t} : wrote'[u] = wrote[u]
  <2> HIDE DEF Lists
  <2> QED BY <1>1, <1>2, <1>3 DEF Shapes
<1>5. /\ todo' \in [Txs -> SUBSET Cards] /\ \A u \in Txs \ {t} : todo'[u] = todo[u]
      /\ todo'[t] = todo[t] \ {c}
  BY <1>1 DEF InsertRow, Shapes
<1> QED BY <1>2, <1>4, <1>5 DEF d

\* The UPDATE of a deck row.
LEMMA UpdateDeckDoes ==
    ASSUME Shapes, NEW t \in Submits, UpdateDeck(t)
    PROVE  LET d == cur[t] IN
           /\ row' \in [Txs -> [Decks -> Rows]]
           /\ row'[t][d].status = "done" /\ row'[t][d].stamp = stamp[d]
           /\ \A e \in Decks \ {d} : row'[t][e] = row[t][e]
           /\ \A u \in Txs \ {t} : row'[u] = row[u]
           /\ wrote' \in [Txs -> [Decks -> Lists]]
           /\ d \in Singletons => wrote'[t][d] = Listed(t)
           /\ d \notin Singletons => wrote'[t][d] = wrote[t][d]
           /\ \A e \in Decks \ {d} : wrote'[t][e] = wrote[t][e]
           /\ \A u \in Txs \ {t} : wrote'[u] = wrote[u]
<1> DEFINE d == cur[t]
           r == [status |-> "done", stamp |-> stamp[d]]
<1>1. t \in Txs /\ d \in Decks /\ Listed(t) \in Lists
  BY ValuesDiffer DEF Shapes
<1>2. r \in Rows /\ r.status = "done" /\ r.stamp = stamp[d]
  BY <1>1 DEF Shapes, Rows
<1>3. /\ WriteRow(t, d, r)
      /\ wrote' = IF d \in Singletons THEN [wrote EXCEPT ![t][d] = Listed(t)] ELSE wrote
  BY DEF UpdateDeck
<1> HIDE DEF r, d
<1>4. /\ row' \in [Txs -> [Decks -> Rows]] /\ row'[t][d] = r
      /\ \A e \in Decks \ {d} : row'[t][e] = row[t][e]
      /\ \A u \in Txs \ {t} : row'[u] = row[u]
  BY <1>1, <1>2, <1>3, WriteRowDoes
<1>5. /\ wrote' \in [Txs -> [Decks -> Lists]]
      /\ d \in Singletons => wrote'[t][d] = Listed(t)
      /\ d \notin Singletons => wrote'[t][d] = wrote[t][d]
      /\ \A e \in Decks \ {d} : wrote'[t][e] = wrote[t][e]
      /\ \A u \in Txs \ {t} : wrote'[u] = wrote[u]
  <2> HIDE DEF Lists
  <2> QED BY <1>1, <1>3 DEF Shapes
<1> QED BY <1>2, <1>4, <1>5 DEF d

\* The guarded UPDATE of an error, when it finds the deck not done.
LEMMA MarkErrorDoes ==
    ASSUME Shapes, NEW t \in Submits, MarkError(t)
    PROVE  LET d == cur[t] IN
           /\ row' \in [Txs -> [Decks -> Rows]]
           /\ \/ /\ row'[t][d].status = "error" /\ row'[t][d].stamp = stamp[d]
                 /\ NotDone(d) /\ Blockers(t) = {}
              \/ row'[t][d] = row[t][d]
           /\ \A e \in Decks \ {d} : row'[t][e] = row[t][e]
           /\ \A u \in Txs \ {t} : row'[u] = row[u]
<1> DEFINE d == cur[t]
           r == [status |-> "error", stamp |-> stamp[d]]
<1>1. t \in Txs /\ d \in Decks
  BY ValuesDiffer DEF Shapes
<1>2. r \in Rows /\ r.status = "error" /\ r.stamp = stamp[d]
  BY <1>1 DEF Shapes, Rows
<1>3. \/ NotDone(d) /\ Blockers(t) = {} /\ WriteRow(t, d, r)
      \/ UNCHANGED row
  BY DEF MarkError
<1> HIDE DEF r, d
<1>4. CASE NotDone(d) /\ Blockers(t) = {} /\ WriteRow(t, d, r)
  <2>1. /\ row' \in [Txs -> [Decks -> Rows]] /\ row'[t][d] = r
        /\ \A e \in Decks \ {d} : row'[t][e] = row[t][e]
        /\ \A u \in Txs \ {t} : row'[u] = row[u]
    BY <1>1, <1>2, <1>4, WriteRowDoes
  <2> QED BY <1>2, <1>4, <2>1 DEF d
<1>5. CASE UNCHANGED row
  BY <1>5 DEF Shapes, d
<1> QED BY <1>3, <1>4, <1>5

(***************************************************************************)
(* The steps of one transaction.                                           *)
(***************************************************************************)
SubmitStep(t) ==
    \/ \E d \in Decks : SelectDeck(t, d) \/ SelectError(t, d)
    \/ BeginDelete(t) \/ DeleteRows(t)
    \/ \E c \in Cards : InsertRow(t, c)
    \/ EndInsert(t) \/ UpdateDeck(t) \/ MarkError(t) \/ FailStatement(t)

TxStep(t) ==
    \/ t \in Submits /\ SubmitStep(t)
    \/ t \in Posts /\ \E d \in Decks : UpsertDeck(t, d)
    \/ Commit(t) \/ Abort(t)

\* Every step of the system is the step of one transaction.
LEMMA StepsAreOfOne == Next => \E t \in Txs : TxStep(t)
BY DEF Next, Submission, Post, AbortPost, TxStep, SubmitStep, Txs

\* Nothing changes for transaction u but what its DELETE will find.
SameTx(u) ==
    /\ pc'[u] = pc[u] /\ cur'[u] = cur[u] /\ job'[u] = job[u]
    /\ row'[u] = row[u] /\ wrote'[u] = wrote[u]
    /\ gone'[u] = gone[u] /\ todo'[u] = todo[u]

\* A step of one transaction changes nothing for another.
LEMMA OthersSame ==
    ASSUME Shapes, NEW t \in Txs, TxStep(t), NEW u \in Txs \ {t}
    PROVE  SameTx(u)
<1>1. ASSUME NEW d \in Decks, SelectDeck(t, d) \/ SelectError(t, d) PROVE SameTx(u)
  BY <1>1 DEF SelectDeck, SelectError, Take, GoTo, SameTx, private, Shapes
<1>2. CASE BeginDelete(t) \/ EndInsert(t)
  BY <1>2 DEF BeginDelete, EndInsert, GoTo, SameTx, private, Shapes
<1>3. CASE t \in Submits /\ DeleteRows(t)
  <2>1. UNCHANGED <<job, cur, row>> /\ pc'[u] = pc[u]
    BY <1>3 DEF DeleteRows, GoTo, Shapes
  <2> QED BY <1>3, <2>1, DeleteRowsDoes DEF SameTx
<1>4. ASSUME NEW c \in Cards, t \in Submits, InsertRow(t, c) PROVE SameTx(u)
  <2>1. UNCHANGED <<job, pc, cur, gone, row>>
    BY <1>4 DEF InsertRow
  <2> QED BY <1>4, <2>1, InsertRowDoes DEF SameTx
<1>5. CASE t \in Submits /\ UpdateDeck(t)
  <2>1. UNCHANGED <<job, cur, gone, todo>> /\ pc'[u] = pc[u]
    BY <1>5 DEF UpdateDeck, GoTo, Shapes
  <2> QED BY <1>5, <2>1, UpdateDeckDoes DEF SameTx
<1>6. CASE t \in Submits /\ MarkError(t)
  <2>1. UNCHANGED <<job, cur, gone, todo, wrote>> /\ pc'[u] = pc[u]
    BY <1>6 DEF MarkError, GoTo, Shapes
  <2> QED BY <1>6, <2>1, MarkErrorDoes DEF SameTx
<1>7. CASE FailStatement(t)
  <2>1. UNCHANGED <<job, cur>> /\ pc'[u] = pc[u] /\ Undo(t, {cur[t]}) /\ cur[t] \in Decks
    BY <1>7 DEF FailStatement, RollBackDeck, GoTo, Shapes
  <2> QED BY <2>1, UndoDoes DEF SameTx
<1>8. CASE Commit(t)
  <2>1. UNCHANGED <<job, cur>> /\ pc'[u] = pc[u] /\ Undo(t, Decks)
    BY <1>8 DEF Commit, GoTo, Shapes
  <2> QED BY <2>1, UndoDoes DEF SameTx
<1>9. CASE Abort(t)
  <2>1. UNCHANGED cur /\ job'[u] = job[u] /\ pc'[u] = pc[u] /\ Undo(t, Decks)
    BY <1>9 DEF Abort, GoTo, Shapes
  <2> QED BY <2>1, UndoDoes DEF SameTx
<1>10. ASSUME NEW d \in Decks, UpsertDeck(t, d) PROVE SameTx(u)
  BY <1>10 DEF UpsertDeck, WriteRow, Take, SameTx, Shapes
<1> QED BY <1>1, <1>2, <1>3, <1>4, <1>5, <1>6, <1>7, <1>8, <1>9, <1>10 DEF TxStep, SubmitStep

\* A transaction that does nothing keeps what it has done.
LEMMA OwnKept ==
    ASSUME NEW t \in Txs, NEW d \in Decks, SameTx(t)
    PROVE  /\ SubmitOwn(t, d) => SubmitOwn(t, d)'
           /\ PostOwn(t, d) => PostOwn(t, d)'
BY DEF SameTx, SubmitOwn, PostOwn, At, Clear

\* So does a submission about a deck it is not at, neither before nor after.
LEMMA AwayKept ==
    ASSUME NEW t \in Submits, NEW e \in Decks, SubmitOwn(t, e),
           cur[t] # e \/ pc[t] = "next", cur'[t] # e \/ pc'[t] = "next",
           job'[t][e] = job[t][e], row'[t][e] = row[t][e], wrote'[t][e] = wrote[t][e],
           gone'[t][e] = gone[t][e]
    PROVE  SubmitOwn(t, e)'
BY DEF SubmitOwn, At, Clear

\* A deck a submission has written nothing of, and has no job left for.
LEMMA ClearOwn ==
    ASSUME NEW t \in Submits, NEW d \in Decks, job'[t][d] = "none", Clear(t, d)',
           At(t, d, {"begin", "delete"})' => d \notin Singletons,
           At(t, d, {"update"})' => d \in Singletons,
           ~At(t, d, {"insert"})'
    PROVE  SubmitOwn(t, d)'
<1>1. \A c \in Cards : wrote'[t][d][c] = Keep /\ Keep # t
  BY ValuesDiffer DEF Clear, NoWrites
<1>2. row'[t][d].status = "untouched"
  BY DEF Clear, Untouched
<1> QED BY <1>1, <1>2 DEF SubmitOwn, At, Clear

\* A statement fails only when there is one.
LEMMA FailsInStatement ==
    ASSUME NEW t \in Submits, FailStatement(t)
    PROVE  pc[t] \in {"delete", "insert", "update", "mark"}
<1>1. CASE Refused(t)
  BY <1>1 DEF Refused
<1>2. CASE Deadlocked(t)
  <2>1. Blockers(t) # {} /\ t \notin Posts
    BY <1>2, ValuesDiffer DEF Deadlocked
  <2> QED BY <2>1 DEF Blockers
<1> QED BY <1>1, <1>2 DEF FailStatement

\* The statements of a submission, one after the other.
LEMMA SubmitOwnStep ==
    ASSUME Shapes, OwnInv, NEW t \in Submits, TxStep(t), NEW e \in Decks
    PROVE  SubmitOwn(t, e)'
<1>0. /\ t \in Txs /\ t \notin Posts /\ cur[t] \in Decks /\ ListOf[t] \subseteq Cards
      /\ t # NoTx /\ t # Keep /\ NoTx # Keep
      /\ \A d \in Decks : SubmitOwn(t, d)
  BY ValuesDiffer DEF OwnInv, Shapes
<1>1. ASSUME NEW d \in Decks, SelectDeck(t, d) \/ SelectError(t, d) PROVE SubmitOwn(t, e)'
  <2>1. /\ pc[t] = "next" /\ job[t][d] # "none" /\ job'[t][d] = "none"
        /\ \A b \in Decks \ {d} : job'[t][b] = job[t][b]
        /\ cur'[t] = d /\ UNCHANGED <<row, wrote, gone>>
    BY <1>0, <1>1, TakeDoes DEF SelectDeck, SelectError, private
  <2>2. CASE e # d
    BY <1>0, <2>1, <2>2, AwayKept
  <2>3. CASE e = d
    <3>1. Clear(t, d)
      BY <1>0, <2>1 DEF SubmitOwn
    <3>2. /\ pc'[t] \in {"next", "mark", "update", "begin"}
          /\ pc'[t] = "update" => d \in Singletons
          /\ pc'[t] = "begin" => d \notin Singletons
      BY <1>0, <1>1, GoToDoes DEF SelectDeck, SelectError
    <3> QED BY <2>1, <2>3, <3>1, <3>2, ClearOwn DEF Clear, At
  <2> QED BY <2>2, <2>3
<1>2. CASE BeginDelete(t)
  <2>1. /\ pc[t] = "begin" /\ pc'[t] = "delete" /\ UNCHANGED <<job, cur, gone, row, wrote>>
    BY <1>0, <1>2, GoToDoes DEF BeginDelete
  <2> QED BY <1>0, <2>1 DEF SubmitOwn, At, Clear
<1>3. CASE DeleteRows(t)
  <2> DEFINE d == cur[t]
  <2>1. /\ pc[t] = "delete" /\ pc'[t] = "insert" /\ UNCHANGED <<job, cur, row>>
    BY <1>0, <1>3, GoToDoes DEF DeleteRows
  <2>2. /\ \A c \in Cards : wrote'[t][d][c] = IF c \in snap[t] THEN NoTx ELSE wrote[t][d][c]
        /\ todo'[t] = ListOf[t]
        /\ \A b \in Decks \ {d} : wrote'[t][b] = wrote[t][b] /\ gone'[t][b] = gone[t][b]
    BY <1>3, DeleteRowsDoes
  <2>3. CASE e # d
    <3>1. SubmitOwn(t, e)
      BY <1>0
    <3>2. wrote'[t][e] = wrote[t][e] /\ gone'[t][e] = gone[t][e]
      BY <2>2, <2>3
    <3> QED BY <2>1, <2>3, <3>1, <3>2, AwayKept
  <2>4. CASE e = d
    <3>1. /\ SubmitOwn(t, d) /\ At(t, d, {"delete"}) /\ At(t, d, {"begin", "delete", "mark"})
          /\ At(t, d, {"begin", "delete", "insert"})
      BY <1>0, <2>1 DEF At
    <3>2. Clear(t, d) /\ job[t][d] = "none" /\ d \notin Singletons
      BY <3>1 DEF SubmitOwn
    <3>3. \A c \in Cards : wrote'[t][d][c] \in {NoTx, Keep}
      BY <2>2, <3>2 DEF Clear, NoWrites
    <3>4. row[t][d].status = "untouched"
      BY <3>2 DEF Clear, Untouched
    <3>5. /\ At(t, d, {"insert", "update"})' /\ ~At(t, d, {"begin", "delete", "mark"})'
          /\ ~At(t, d, {"update"})'
      BY <2>1 DEF At
    <3> QED BY <1>0, <2>1, <2>2, <2>4, <3>2, <3>3, <3>4, <3>5 DEF SubmitOwn, Clear
  <2> QED BY <2>3, <2>4
<1>4. ASSUME NEW c \in Cards, InsertRow(t, c) PROVE SubmitOwn(t, e)'
  <2> DEFINE d == cur[t]
  <2>1. /\ pc[t] = "insert" /\ c \in todo[t] /\ UNCHANGED <<job, pc, cur, gone, row>>
    BY <1>4 DEF InsertRow
  <2>2. /\ wrote'[t][d][c] = t /\ \A b \in Cards \ {c} : wrote'[t][d][b] = wrote[t][d][b]
        /\ \A b \in Decks \ {d} : wrote'[t][b] = wrote[t][b]
        /\ todo'[t] = todo[t] \ {c}
    BY <1>4, InsertRowDoes
  <2>3. CASE e # d
    <3>1. SubmitOwn(t, e) /\ wrote'[t][e] = wrote[t][e]
      BY <1>0, <2>2, <2>3
    <3> QED BY <2>1, <2>3, <3>1, AwayKept
  <2>4. CASE e = d
    <3>1. SubmitOwn(t, d) /\ At(t, d, {"insert"}) /\ At(t, d, {"insert", "update"})
          /\ At(t, d, {"begin", "delete", "insert"})
      BY <1>0, <2>1 DEF At
    <3>2. /\ row[t][d] = Untouched /\ job[t][d] = "none" /\ d \notin Singletons
          /\ todo[t] \subseteq ListOf[t]
          /\ \A b \in ListOf[t] \ todo[t] : wrote[t][d][b] = t
          /\ \A b \in Cards : /\ wrote[t][d][b] \in {t, NoTx, Keep}
                              /\ wrote[t][d][b] = t => b \in ListOf[t]
      BY <3>1 DEF SubmitOwn
    <3>3. /\ \A b \in ListOf[t] \ todo'[t] : wrote'[t][d][b] = t
          /\ \A b \in Cards : /\ wrote'[t][d][b] \in {t, NoTx, Keep}
                              /\ wrote'[t][d][b] = t => b \in ListOf[t]
      BY <1>0, <2>1, <2>2, <3>2
    <3>4. row[t][d].status = "untouched"
      BY <3>2 DEF Untouched
    <3>5. /\ At(t, d, {"insert", "update"})' /\ ~At(t, d, {"begin", "delete", "mark"})'
          /\ ~At(t, d, {"update"})'
      BY <2>1 DEF At
    <3> QED BY <2>1, <2>2, <2>4, <3>2, <3>3, <3>4, <3>5 DEF SubmitOwn
  <2> QED BY <2>3, <2>4
<1>5. CASE EndInsert(t)
  <2>1. /\ pc[t] = "insert" /\ todo[t] = {} /\ pc'[t] = "update"
        /\ UNCHANGED <<job, cur, gone, row, wrote>>
    BY <1>0, <1>5, GoToDoes DEF EndInsert, private
  <2> QED BY <1>0, <2>1 DEF SubmitOwn, At, Clear
<1>6. CASE UpdateDeck(t)
  <2> DEFINE d == cur[t]
  <2>1. /\ pc[t] = "update" /\ pc'[t] = "next" /\ UNCHANGED <<job, cur, gone>>
    BY <1>0, <1>6, GoToDoes DEF UpdateDeck
  <2>2. /\ row'[t][d].status = "done"
        /\ \A b \in Decks \ {d} : row'[t][b] = row[t][b] /\ wrote'[t][b] = wrote[t][b]
        /\ d \in Singletons => wrote'[t][d] = Listed(t)
        /\ d \notin Singletons => wrote'[t][d] = wrote[t][d]
    BY <1>6, UpdateDeckDoes
  <2>3. CASE e # d
    <3>1. SubmitOwn(t, e) /\ wrote'[t][e] = wrote[t][e] /\ row'[t][e] = row[t][e]
      BY <1>0, <2>2, <2>3
    <3> QED BY <2>1, <2>3, <3>1, AwayKept
  <2>4. CASE e = d
    <3>1. SubmitOwn(t, d) /\ At(t, d, {"update"}) /\ At(t, d, {"insert", "update"})
      BY <1>0, <2>1 DEF At
    <3>2. /\ job[t][d] = "none"
          /\ d \notin Singletons => \A b \in ListOf[t] : wrote[t][d][b] = t
          /\ \A b \in Cards : /\ wrote[t][d][b] \in {t, NoTx, Keep}
                              /\ wrote[t][d][b] = t => b \in ListOf[t]
      BY <3>1 DEF SubmitOwn
    <3>3. /\ \A b \in ListOf[t] : wrote'[t][d][b] = t
          /\ \A b \in Cards : /\ wrote'[t][d][b] \in {t, NoTx, Keep}
                              /\ wrote'[t][d][b] = t => b \in ListOf[t]
      BY <1>0, <2>2, <3>2 DEF Listed
    <3>4. \A where : "next" \notin where => ~At(t, d, where)'
      BY <2>1 DEF At
    <3> QED BY <2>1, <2>2, <2>4, <3>2, <3>3, <3>4 DEF SubmitOwn
  <2> QED BY <2>3, <2>4
<1>7. CASE MarkError(t)
  <2> DEFINE d == cur[t]
  <2>1. /\ pc[t] = "mark" /\ pc'[t] = "next" /\ UNCHANGED <<job, cur, gone, wrote>>
    BY <1>0, <1>7, GoToDoes DEF MarkError
  <2>2. /\ row'[t][d].status = "error" \/ row'[t][d] = row[t][d]
        /\ \A b \in Decks \ {d} : row'[t][b] = row[t][b]
    BY <1>7, MarkErrorDoes
  <2>3. CASE e # d
    <3>1. SubmitOwn(t, e) /\ row'[t][e] = row[t][e]
      BY <1>0, <2>2, <2>3
    <3> QED BY <2>1, <2>3, <3>1, AwayKept
  <2>4. CASE e = d
    <3>1. SubmitOwn(t, d) /\ At(t, d, {"begin", "delete", "mark"})
      BY <1>0, <2>1 DEF At
    <3>2. job[t][d] = "none" /\ Clear(t, d)
      BY <3>1 DEF SubmitOwn
    <3>3. \A c \in Cards : wrote[t][d][c] = Keep
      BY <3>2 DEF Clear, NoWrites
    <3>4. row'[t][d].status \in {"error", "untouched"}
      BY <2>2, <3>2 DEF Clear, Untouched
    <3> QED BY <1>0, <2>1, <2>4, <3>2, <3>3, <3>4 DEF SubmitOwn, At, Clear
  <2> QED BY <2>3, <2>4
<1>8. CASE FailStatement(t)
  <2> DEFINE d == cur[t]
  <2>1. /\ pc[t] \in {"delete", "insert", "update", "mark"} /\ pc'[t] = "next"
        /\ UNCHANGED <<job, cur>> /\ Undo(t, {d})
    BY <1>0, <1>8, GoToDoes, FailsInStatement DEF FailStatement, RollBackDeck
  <2>2. /\ Clear(t, d)'
        /\ \A b \in Decks \ {d} : /\ row'[t][b] = row[t][b] /\ wrote'[t][b] = wrote[t][b]
                                  /\ gone'[t][b] = gone[t][b]
    BY <1>0, <2>1, UndoDoes DEF Clear
  <2>3. CASE e # d
    <3>1. SubmitOwn(t, e)
      BY <1>0
    <3>2. row'[t][e] = row[t][e] /\ wrote'[t][e] = wrote[t][e] /\ gone'[t][e] = gone[t][e]
      BY <2>2, <2>3
    <3> QED BY <2>1, <2>3, <3>1, <3>2, AwayKept
  <2>4. CASE e = d
    <3>1. job[t][d] = "none"
      BY <1>0, <2>1 DEF SubmitOwn, At
    <3>2. \A where : "next" \notin where => ~At(t, d, where)'
      BY <2>1 DEF At
    <3> QED BY <2>1, <2>2, <2>4, <3>1, <3>2, ClearOwn DEF Clear
  <2> QED BY <2>3, <2>4
<1>9. CASE Commit(t)
  <2>1. /\ \A d \in Decks : job[t][d] = "none" /\ job'[t][d] = "none"
        /\ pc'[t] = "end" /\ Undo(t, Decks)
    BY <1>0, <1>9, GoToDoes DEF Commit, Left
  <2>2. Clear(t, e)'
    BY <1>0, <2>1, UndoDoes DEF Clear
  <2>3. \A where : "end" \notin where => ~At(t, e, where)'
    BY <2>1 DEF At
  <2> QED BY <2>1, <2>2, <2>3, ClearOwn DEF Clear
<1>10. CASE Abort(t)
  <2>1. job'[t][e] = "none" /\ pc'[t] = "end" /\ Undo(t, Decks)
    BY <1>0, <1>10, GoToDoes DEF Abort, Shapes
  <2>2. Clear(t, e)'
    BY <1>0, <2>1, UndoDoes DEF Clear
  <2>3. \A where : "end" \notin where => ~At(t, e, where)'
    BY <2>1 DEF At
  <2> QED BY <2>1, <2>2, <2>3, ClearOwn DEF Clear
<1> QED BY <1>0, <1>1, <1>2, <1>3, <1>4, <1>5, <1>6, <1>7, <1>8, <1>9, <1>10
    DEF TxStep, SubmitStep

\* The upserts of a post.
LEMMA UpsertDeckDoes ==
    ASSUME Shapes, NEW t \in Posts, NEW d \in Decks, UpsertDeck(t, d)
    PROVE  /\ pc[t] = "next" /\ job[t][d] = "stub" /\ job'[t][d] = "none"
           /\ job' \in [Txs -> [Decks -> {"ok", "error", "stub", "none"}]]
           /\ \A e \in Decks \ {d} : job'[t][e] = job[t][e]
           /\ cur' \in [Txs -> Decks]
           /\ row' \in [Txs -> [Decks -> Rows]]
           /\ row'[t][d].stamp = StampOf[t]
           /\ row'[t][d].status = IF StampOf[t] > stamp[d] THEN "queued" ELSE status[d]
           /\ \A e \in Decks \ {d} : row'[t][e] = row[t][e]
           /\ \A u \in Txs \ {t} : row'[u] = row[u]
<1> DEFINE r == [status |-> IF StampOf[t] > stamp[d] THEN "queued" ELSE status[d],
                 stamp  |-> StampOf[t]]
<1>1. t \in Txs /\ StampOf[t] \in Nat
  BY ValuesDiffer
<1>2. /\ r \in Rows /\ r.stamp = StampOf[t]
      /\ r.status = IF StampOf[t] > stamp[d] THEN "queued" ELSE status[d]
  BY <1>1 DEF Shapes, Rows
<1>3. WriteRow(t, d, r) /\ Take(t, d, "stub")
  BY DEF UpsertDeck
<1> HIDE DEF r
<1>4. /\ row' \in [Txs -> [Decks -> Rows]] /\ row'[t][d] = r
      /\ \A e \in Decks \ {d} : row'[t][e] = row[t][e]
      /\ \A u \in Txs \ {t} : row'[u] = row[u]
  BY <1>1, <1>2, <1>3, WriteRowDoes
<1> QED BY <1>1, <1>2, <1>3, <1>4, TakeDoes

\* A post writes stubs of the decks on its page and nothing else.
LEMMA PostOwnStep ==
    ASSUME Shapes, OwnInv, NEW t \in Posts, TxStep(t), NEW e \in Decks
    PROVE  PostOwn(t, e)'
<1>0. t \in Txs /\ t \notin Submits /\ PostOwn(t, e)
  BY ValuesDiffer DEF OwnInv
<1>1. ASSUME NEW d \in Decks, UpsertDeck(t, d) PROVE PostOwn(t, e)'
  <2>1. UNCHANGED <<pc, wrote, gone>>
    BY <1>1 DEF UpsertDeck
  <2>2. /\ job'[t][d] = "none" /\ \A b \in Decks \ {d} : job'[t][b] = job[t][b]
        /\ \A b \in Decks \ {d} : row'[t][b] = row[t][b]
    BY <1>1, UpsertDeckDoes
  <2> QED BY <1>0, <2>1, <2>2 DEF PostOwn
<1>2. CASE Commit(t) \/ Abort(t)
  <2>1. pc'[t] = "end" /\ Undo(t, Decks)
    BY <1>0, <1>2, GoToDoes DEF Commit, Abort
  <2>2. Clear(t, e)'
    BY <1>0, <2>1, UndoDoes DEF Clear
  <2>3. job'[t][e] \in {"stub", "none"}
    BY <1>0, <1>2 DEF Commit, Abort, Shapes, PostOwn
  <2> QED BY <2>1, <2>2, <2>3 DEF PostOwn, Clear
<1> QED BY <1>0, <1>1, <1>2 DEF TxStep

\* What transactions have done by themselves.
LEMMA OwnStep ==
    ASSUME Shapes, OwnInv, NEW t \in Txs, TxStep(t)
    PROVE  OwnInv'
<1>1. ASSUME NEW u \in Submits, NEW d \in Decks PROVE SubmitOwn(u, d)'
  <2>1. u \in Txs /\ SubmitOwn(u, d)
    BY ValuesDiffer DEF OwnInv
  <2>2. CASE u = t
    BY <2>2, SubmitOwnStep
  <2>3. CASE u # t
    BY <2>1, <2>3, OthersSame, OwnKept
  <2> QED BY <2>2, <2>3
<1>2. ASSUME NEW u \in Posts, NEW d \in Decks PROVE PostOwn(u, d)'
  <2>1. u \in Txs /\ PostOwn(u, d)
    BY ValuesDiffer DEF OwnInv
  <2>2. CASE u = t
    BY <2>2, PostOwnStep
  <2>3. CASE u # t
    BY <2>1, <2>3, OthersSame, OwnKept
  <2> QED BY <2>2, <2>3
<1> QED BY <1>1, <1>2 DEF OwnInv

\* A row that was written has a status that may be committed.
LEMMA WrittenStatus ==
    ASSUME Shapes, RowInv, NEW t \in Txs, NEW d \in Decks
    PROVE  /\ AsWritten(t, d).status \in {"queued", "done", "error"}
           /\ AsWritten(t, d).stamp \in Nat
<1>1. row[t][d] \in Rows /\ status[d] \in {"queued", "done", "error"} /\ stamp[d] \in Nat
  BY DEF Shapes
<1>2. CASE row[t][d] = Untouched
  BY <1>1, <1>2 DEF AsWritten
<1>3. CASE row[t][d] # Untouched
  <2>1. row[t][d].status \in {"queued", "done", "error"}
    BY <1>1, <1>3 DEF RowInv, RowFits, Txs
  <2> QED BY <1>1, <1>3, <2>1 DEF AsWritten, Rows
<1> QED BY <1>2, <1>3

\* The functions stay what they are.
LEMMA ShapesStep ==
    ASSUME Shapes, RowInv, NEW t \in Txs, TxStep(t)
    PROVE  Shapes'
<1>0. /\ \A u \in Submits : u \in Txs /\ u \notin Posts
      /\ \A u \in Posts : u \in Txs /\ u \notin Submits
  BY ValuesDiffer
<1>1. ASSUME NEW d \in Decks, SelectDeck(t, d) \/ SelectError(t, d) PROVE Shapes'
  <2>1. /\ job' \in [Txs -> [Decks -> {"ok", "error", "stub", "none"}]]
        /\ cur' \in [Txs -> Decks]
    BY <1>1, TakeDoes DEF SelectDeck, SelectError
  <2>2. pc' \in [Txs -> {"next", "begin", "delete", "insert", "update", "mark", "end"}]
    BY <1>1, GoToDoes DEF SelectDeck, SelectError
  <2>3. UNCHANGED <<status, stamp, list, snap, gone, todo, row, wrote, lastDone>>
        /\ overlap' \subseteq Decks
    BY <1>1 DEF SelectDeck, SelectError, committed, private, Shapes
  <2> QED BY <2>1, <2>2, <2>3 DEF Shapes
<1>2. CASE BeginDelete(t)
  <2>1. pc' \in [Txs -> {"next", "begin", "delete", "insert", "update", "mark", "end"}]
    BY <1>2, GoToDoes DEF BeginDelete
  <2>2. snap' \in [Txs -> SUBSET Cards]
    BY <1>2 DEF BeginDelete, RowsSeen, Shapes
  <2> QED BY <1>2, <2>1, <2>2 DEF BeginDelete, committed, Shapes
<1>3. CASE t \in Submits /\ DeleteRows(t)
  <2>1. pc' \in [Txs -> {"next", "begin", "delete", "insert", "update", "mark", "end"}]
    BY <1>3, GoToDoes DEF DeleteRows
  <2>2. /\ wrote' \in [Txs -> [Decks -> Lists]] /\ gone' \in [Txs -> [Decks -> SUBSET Cards]]
        /\ snap' \in [Txs -> SUBSET Cards] /\ todo' \in [Txs -> SUBSET Cards]
    BY <1>3, DeleteRowsDoes
  <2> QED BY <1>3, <2>1, <2>2 DEF DeleteRows, committed, Shapes
<1>4. ASSUME NEW c \in Cards, t \in Submits, InsertRow(t, c) PROVE Shapes'
  <2>1. wrote' \in [Txs -> [Decks -> Lists]] /\ todo' \in [Txs -> SUBSET Cards]
    BY <1>4, InsertRowDoes
  <2> QED BY <1>4, <2>1 DEF InsertRow, committed, Shapes
<1>5. CASE EndInsert(t)
  <2>1. pc' \in [Txs -> {"next", "begin", "delete", "insert", "update", "mark", "end"}]
    BY <1>5, GoToDoes DEF EndInsert
  <2> QED BY <1>5, <2>1 DEF EndInsert, committed, private, Shapes
<1>6. CASE t \in Submits /\ UpdateDeck(t)
  <2>1. pc' \in [Txs -> {"next", "begin", "delete", "insert", "update", "mark", "end"}]
    BY <1>6, GoToDoes DEF UpdateDeck
  <2>2. row' \in [Txs -> [Decks -> Rows]] /\ wrote' \in [Txs -> [Decks -> Lists]]
    BY <1>6, UpdateDeckDoes
  <2> QED BY <1>6, <2>1, <2>2 DEF UpdateDeck, committed, Shapes
<1>7. CASE t \in Submits /\ MarkError(t)
  <2>1. pc' \in [Txs -> {"next", "begin", "delete", "insert", "update", "mark", "end"}]
    BY <1>7, GoToDoes DEF MarkError
  <2>2. row' \in [Txs -> [Decks -> Rows]]
    BY <1>7, MarkErrorDoes
  <2> QED BY <1>7, <2>1, <2>2 DEF MarkError, committed, Shapes
<1>8. CASE FailStatement(t)
  <2>1. /\ GoTo(t, "next") /\ Undo(t, {cur[t]}) /\ cur[t] \in Decks
        /\ snap' \in [Txs -> SUBSET Cards]
        /\ UNCHANGED <<status, stamp, list, job, cur, lastDone, overlap>>
    BY <1>8 DEF FailStatement, RollBackDeck, committed, Shapes
  <2>2. pc' \in [Txs -> {"next", "begin", "delete", "insert", "update", "mark", "end"}]
    BY <2>1, GoToDoes
  <2> QED BY <2>1, <2>2, UndoDoes DEF Shapes
<1>9. CASE Commit(t)
  <2>1. GoTo(t, "end") /\ Undo(t, Decks) /\ UNCHANGED <<job, cur, overlap>>
    BY <1>9 DEF Commit
  <2>2. pc' \in [Txs -> {"next", "begin", "delete", "insert", "update", "mark", "end"}]
    BY <2>1, GoToDoes
  <2>3. status' \in [Decks -> {"queued", "done", "error"}] /\ stamp' \in [Decks -> Nat]
    BY <1>9, WrittenStatus DEF Commit
  <2>4. list' \in [Decks -> [Cards -> Writers \cup {NoTx}]]
    <3>1. \A d \in Decks, c \in Cards :
            (IF wrote[t][d][c] = Keep THEN list[d][c] ELSE wrote[t][d][c]) \in Writers \cup {NoTx}
      BY DEF Shapes, Lists, Writers
    <3> QED BY <1>9, <3>1 DEF Commit
  <2>5. snap' \in [Txs -> SUBSET Cards]
    BY <1>9 DEF Commit, Shapes
  <2>6. lastDone' \in [Decks -> Writers]
    BY <1>9 DEF Commit, Shapes, Writers
  <2> QED BY <2>1, <2>2, <2>3, <2>4, <2>5, <2>6, UndoDoes DEF Shapes
<1>10. CASE Abort(t)
  <2>1. /\ GoTo(t, "end") /\ Undo(t, Decks)
        /\ UNCHANGED <<status, stamp, list, cur, lastDone, overlap>>
        /\ job' \in [Txs -> [Decks -> {"ok", "error", "stub", "none"}]]
        /\ snap' \in [Txs -> SUBSET Cards]
    BY <1>10 DEF Abort, committed, Shapes
  <2>2. pc' \in [Txs -> {"next", "begin", "delete", "insert", "update", "mark", "end"}]
    BY <2>1, GoToDoes
  <2> QED BY <2>1, <2>2, UndoDoes DEF Shapes
<1>11. ASSUME NEW d \in Decks, t \in Posts, UpsertDeck(t, d) PROVE Shapes'
  <2>1. UNCHANGED <<status, stamp, list, pc, snap, gone, todo, wrote, lastDone, overlap>>
    BY <1>11 DEF UpsertDeck, committed
  <2> QED BY <1>11, <2>1, UpsertDeckDoes DEF Shapes
<1> QED BY <1>1, <1>2, <1>3, <1>4, <1>5, <1>6, <1>7, <1>8, <1>9, <1>10, <1>11
    DEF TxStep, SubmitStep
-----------------------------------------------------------------------------
(***************************************************************************)
(* Locks.                                                                  *)
(***************************************************************************)

\* Only a commit changes what is committed, and overlaps are not forgotten.
LEMMA OnlyCommitCommits ==
    ASSUME NEW t \in Txs, TxStep(t)
    PROVE  /\ ~Commit(t) => UNCHANGED <<status, stamp, list, lastDone>>
           /\ overlap \subseteq overlap'
<1>1. ASSUME NEW d \in Decks, SelectDeck(t, d) \/ SelectError(t, d) \/ UpsertDeck(t, d)
      PROVE  UNCHANGED <<status, stamp, list, lastDone>> /\ overlap \subseteq overlap'
  BY <1>1 DEF SelectDeck, SelectError, UpsertDeck, committed
<1>2. ASSUME NEW c \in Cards, InsertRow(t, c)
      PROVE  UNCHANGED <<status, stamp, list, lastDone>> /\ overlap \subseteq overlap'
  BY <1>2 DEF InsertRow, committed
<1>3. CASE \/ BeginDelete(t) \/ DeleteRows(t) \/ EndInsert(t) \/ UpdateDeck(t)
           \/ MarkError(t) \/ FailStatement(t) \/ Abort(t)
  BY <1>3 DEF BeginDelete, DeleteRows, EndInsert, UpdateDeck, MarkError, FailStatement,
              RollBackDeck, Abort, committed
<1>4. CASE Commit(t)
  BY <1>4 DEF Commit
<1> QED BY <1>1, <1>2, <1>3, <1>4 DEF TxStep, SubmitStep

\* A transaction whose statement is blocked by nobody finds the rows it writes
\* unlocked.
LEMMA Unlocked ==
    ASSUME NEW t \in Txs, NEW d \in Decks
    PROVE  /\ RowLockers(d, t) = {} => \A u \in Txs \ {t} : row[u][d] = Untouched
           /\ \A cs \in SUBSET Cards : KeyLockers(d, cs, t) = {} =>
                \A u \in Txs \ {t}, c \in cs : wrote[u][d][c] = Keep
BY DEF RowLockers, KeyLockers

\* A deck row that a transaction has not written, or left again, holds no list
\* of a singleton format.
LEMMA NoListWithoutRow ==
    ASSUME OwnInv, NEW u \in Txs, NEW d \in Singletons, d \in Decks, row[u][d] = Untouched
    PROVE  wrote[u][d] = NoWrites
<1>1. row[u][d].status # "done"
  BY DEF Untouched
<1>2. CASE u \in Submits
  BY <1>1, <1>2 DEF OwnInv, SubmitOwn
<1>3. CASE u \in Posts
  BY <1>3 DEF OwnInv, PostOwn
<1> QED BY <1>2, <1>3 DEF Txs

\* What a transaction writes, it had written already or nobody else has.
LEMMA LocksTaken ==
    ASSUME Shapes, OwnInv, NEW t \in Txs, TxStep(t), NEW e \in Decks
    PROVE  /\ \/ row'[t][e] = Untouched \/ row[t][e] # Untouched
              \/ \A u \in Txs \ {t} : row[u][e] = Untouched
           /\ \A c \in Cards :
                \/ wrote'[t][e][c] = Keep \/ wrote[t][e][c] # Keep
                \/ \A u \in Txs \ {t} : wrote[u][e][c] = Keep
<1>0. /\ cur[t] \in Decks /\ snap[t] \in SUBSET Cards
      /\ \A c \in Cards : NoWrites[c] = Keep
  BY DEF Shapes, NoWrites
<1>1. ASSUME NEW d \in Decks, SelectDeck(t, d) \/ SelectError(t, d)
      PROVE  UNCHANGED <<row, wrote>>
  BY <1>1 DEF SelectDeck, SelectError, private
<1>2. CASE BeginDelete(t) \/ EndInsert(t)
  BY <1>2 DEF BeginDelete, EndInsert, private
<1>3. CASE t \in Submits /\ DeleteRows(t)
  <2>1. UNCHANGED row /\ KeyLockers(cur[t], snap[t], t) = {}
    BY <1>3 DEF DeleteRows, Blockers
  <2>2. \A c \in snap[t], u \in Txs \ {t} : wrote[u][cur[t]][c] = Keep
    BY <1>0, <2>1, Unlocked
  <2>3. /\ \A c \in Cards :
             wrote'[t][cur[t]][c] = IF c \in snap[t] THEN NoTx ELSE wrote[t][cur[t]][c]
        /\ \A d \in Decks \ {cur[t]} : wrote'[t][d] = wrote[t][d]
    BY <1>3, DeleteRowsDoes
  <2> QED BY <2>1, <2>2, <2>3
<1>4. ASSUME NEW c \in Cards, t \in Submits, InsertRow(t, c)
      PROVE  /\ UNCHANGED row
             /\ \A b \in Cards :
                  \/ wrote'[t][e][b] = Keep \/ wrote[t][e][b] # Keep
                  \/ \A u \in Txs \ {t} : wrote[u][e][b] = Keep
  <2>1. UNCHANGED row /\ KeyLockers(cur[t], {c}, t) = {}
    BY <1>4 DEF InsertRow
  <2>2. \A u \in Txs \ {t} : wrote[u][cur[t]][c] = Keep
    BY <1>0, <2>1, Unlocked
  <2>3. /\ \A b \in Cards \ {c} : wrote'[t][cur[t]][b] = wrote[t][cur[t]][b]
        /\ \A d \in Decks \ {cur[t]} : wrote'[t][d] = wrote[t][d]
    BY <1>4, InsertRowDoes
  <2> QED BY <2>1, <2>2, <2>3
<1>5. CASE t \in Submits /\ UpdateDeck(t)
  <2>1. RowLockers(cur[t], t) = {}
    BY <1>5 DEF UpdateDeck, Blockers
  <2>2. \A u \in Txs \ {t} : row[u][cur[t]] = Untouched
    BY <1>0, <2>1, Unlocked
  <2>3. cur[t] \in Singletons => \A u \in Txs \ {t} : wrote[u][cur[t]] = NoWrites
    BY <1>0, <2>2, NoListWithoutRow
  <2>4. /\ \A d \in Decks \ {cur[t]} : row'[t][d] = row[t][d] /\ wrote'[t][d] = wrote[t][d]
        /\ cur[t] \notin Singletons => wrote'[t][cur[t]] = wrote[t][cur[t]]
    BY <1>5, UpdateDeckDoes
  <2> QED BY <1>0, <2>2, <2>3, <2>4
<1>6. CASE t \in Submits /\ MarkError(t)
  <2>1. /\ UNCHANGED wrote /\ \A d \in Decks \ {cur[t]} : row'[t][d] = row[t][d]
        /\ RowLockers(cur[t], t) = {} \/ row'[t][cur[t]] = row[t][cur[t]]
    BY <1>6, MarkErrorDoes DEF MarkError, Blockers
  <2> QED BY <1>0, <2>1, Unlocked
<1>7. CASE FailStatement(t)
  <2>1. Undo(t, {cur[t]})
    BY <1>7 DEF FailStatement, RollBackDeck
  <2>2. /\ row'[t][cur[t]] = Untouched /\ wrote'[t][cur[t]] = NoWrites
        /\ \A d \in Decks \ {cur[t]} : row'[t][d] = row[t][d] /\ wrote'[t][d] = wrote[t][d]
    BY <1>0, <2>1, UndoDoes
  <2> QED BY <1>0, <2>2
<1>8. CASE Commit(t) \/ Abort(t)
  <2>1. row'[t][e] = Untouched /\ wrote'[t][e] = NoWrites
    BY <1>8, UndoDoes DEF Commit, Abort
  <2> QED BY <1>0, <2>1
<1>9. ASSUME NEW d \in Decks, t \in Posts, UpsertDeck(t, d)
      PROVE  /\ UNCHANGED wrote
             /\ \/ row'[t][e] = Untouched \/ row[t][e] # Untouched
                \/ \A u \in Txs \ {t} : row[u][e] = Untouched
  <2>1. UNCHANGED wrote /\ RowLockers(d, t) = {}
    BY <1>9 DEF UpsertDeck
  <2>2. \A b \in Decks \ {d} : row'[t][b] = row[t][b]
    BY <1>9, UpsertDeckDoes
  <2> QED BY <2>1, <2>2, Unlocked
<1> QED BY <1>1, <1>2, <1>3, <1>4, <1>5, <1>6, <1>7, <1>8, <1>9 DEF TxStep, SubmitStep

\* No two transactions come to have written the same row.
LEMMA ExclusiveStep ==
    ASSUME Shapes, OwnInv, Exclusive, NEW t \in Txs, TxStep(t)
    PROVE  Exclusive'
<1> SUFFICES ASSUME NEW d \in Decks, NEW u \in Txs, NEW v \in Txs, u # v
             PROVE  /\ row'[u][d] = Untouched \/ row'[v][d] = Untouched
                    /\ \A c \in Cards : wrote'[u][d][c] = Keep \/ wrote'[v][d][c] = Keep
  BY DEF Exclusive
<1>0. /\ row[u][d] = Untouched \/ row[v][d] = Untouched
      /\ \A c \in Cards : wrote[u][d][c] = Keep \/ wrote[v][d][c] = Keep
  BY DEF Exclusive
<1>1. /\ u # t => row'[u] = row[u] /\ wrote'[u] = wrote[u]
      /\ v # t => row'[v] = row[v] /\ wrote'[v] = wrote[v]
  BY OthersSame DEF SameTx
<1>2. /\ \/ row'[t][d] = Untouched \/ row[t][d] # Untouched
         \/ \A x \in Txs \ {t} : row[x][d] = Untouched
      /\ \A c \in Cards :
           \/ wrote'[t][d][c] = Keep \/ wrote[t][d][c] # Keep
           \/ \A x \in Txs \ {t} : wrote[x][d][c] = Keep
  BY LocksTaken
<1>3. CASE u = t
  BY <1>0, <1>1, <1>2, <1>3
<1>4. CASE v = t
  BY <1>0, <1>1, <1>2, <1>4
<1>5. CASE u # t /\ v # t
  BY <1>0, <1>1, <1>5
<1> QED BY <1>3, <1>4, <1>5

\* The row a transaction has written about a deck: as before, none, or one made
\* from the row that is committed.
LEMMA RowWritten ==
    ASSUME Shapes, NEW t \in Txs, TxStep(t), ~Commit(t), NEW e \in Decks
    PROVE  \/ row'[t][e] = row[t][e] \/ row'[t][e] = Untouched
           \/ /\ t \in Submits /\ row'[t][e].stamp = stamp[e]
              /\ \/ row'[t][e].status = "done"
                 \/ row'[t][e].status = "error" /\ NotDone(e)
           \/ /\ t \in Posts /\ row'[t][e].stamp = StampOf[t]
              /\ row'[t][e].status = IF StampOf[t] > stamp[e] THEN "queued" ELSE status[e]
<1>0. cur[t] \in Decks
  BY DEF Shapes
<1>1. ASSUME NEW d \in Decks, SelectDeck(t, d) \/ SelectError(t, d) PROVE UNCHANGED row
  BY <1>1 DEF SelectDeck, SelectError, private
<1>2. CASE BeginDelete(t) \/ EndInsert(t) \/ DeleteRows(t)
  BY <1>2 DEF BeginDelete, EndInsert, DeleteRows, private
<1>3. ASSUME NEW c \in Cards, InsertRow(t, c) PROVE UNCHANGED row
  BY <1>3 DEF InsertRow
<1>4. CASE t \in Submits /\ UpdateDeck(t)
  BY <1>0, <1>4, UpdateDeckDoes
<1>5. CASE t \in Submits /\ MarkError(t)
  BY <1>0, <1>5, MarkErrorDoes
<1>6. CASE FailStatement(t)
  <2>1. Undo(t, {cur[t]})
    BY <1>6 DEF FailStatement, RollBackDeck
  <2> QED BY <1>0, <2>1, UndoDoes
<1>7. CASE Abort(t)
  BY <1>7, UndoDoes DEF Abort
<1>8. ASSUME NEW d \in Decks, t \in Posts, UpsertDeck(t, d)
      PROVE  \/ row'[t][e] = row[t][e]
             \/ /\ t \in Posts /\ row'[t][e].stamp = StampOf[t]
                /\ row'[t][e].status = IF StampOf[t] > stamp[e] THEN "queued" ELSE status[e]
  BY <1>8, UpsertDeckDoes
<1> QED BY <1>1, <1>2, <1>3, <1>4, <1>5, <1>6, <1>7, <1>8 DEF TxStep, SubmitStep

\* The row a transaction has written fits the one that is committed: nobody
\* else commits one meanwhile.
LEMMA RowStep ==
    ASSUME Shapes, Exclusive, RowInv, NEW t \in Txs, TxStep(t)
    PROVE  RowInv'
<1> SUFFICES ASSUME NEW u \in Txs, NEW d \in Decks PROVE RowFits(u, d)'
  BY DEF RowInv
<1>0. /\ \A x \in Submits : x \notin Posts /\ x \in Txs
      /\ \A x \in Posts : x \in Txs
  BY ValuesDiffer
<1>1. RowFits(u, d)
  BY DEF RowInv
<1>2. CASE Commit(t) /\ u = t
  <2>1. row'[u][d] = Untouched
    BY <1>2, UndoDoes DEF Commit
  <2> QED BY <2>1 DEF RowFits
<1>3. CASE Commit(t) /\ u # t
  <2>1. row'[u] = row[u]
    BY <1>3, OthersSame DEF SameTx
  <2>2. CASE row[u][d] = Untouched
    BY <2>1, <2>2 DEF RowFits
  <2>3. CASE row[u][d] # Untouched
    <3>1. row[t][d] = Untouched
      BY <1>3, <2>3 DEF Exclusive
    <3>2. AsWritten(t, d) = [status |-> status[d], stamp |-> stamp[d]]
      BY <3>1 DEF AsWritten
    <3>3. status'[d] = status[d] /\ stamp'[d] = stamp[d]
      BY <1>3, <3>2 DEF Commit
    <3> QED BY <1>1, <2>1, <3>3 DEF RowFits
  <2> QED BY <2>2, <2>3
<1>4. CASE ~Commit(t) /\ u # t
  <2>1. row'[u] = row[u] /\ UNCHANGED <<status, stamp>>
    BY <1>4, OthersSame, OnlyCommitCommits DEF SameTx
  <2> QED BY <1>1, <2>1 DEF RowFits
<1>5. CASE ~Commit(t) /\ u = t
  <2>1. UNCHANGED <<status, stamp>>
    BY <1>5, OnlyCommitCommits
  <2> QED BY <1>0, <1>1, <1>5, <2>1, RowWritten DEF RowFits, NotDone
<1> QED BY <1>2, <1>3, <1>4, <1>5
-----------------------------------------------------------------------------
(***************************************************************************)
(* Submissions that work on one deck.                                      *)
(***************************************************************************)

\* A submission begins to work on a deck at its SELECT, and then finds nobody
\* at work or records the overlap.
LEMMA WorkBegins ==
    ASSUME Shapes, NEW t \in Submits, TxStep(t), NEW e \in Decks \ overlap', WorkingOn(t, e)'
    PROVE  WorkingOn(t, e) \/ \A u \in Submits \ {t} : ~WorkingOn(u, e)
<1>0. t \in Txs /\ t \notin Posts /\ cur[t] \in Decks
  BY ValuesDiffer DEF Shapes
<1>1. ASSUME NEW d \in Decks, SelectDeck(t, d)
      PROVE  WorkingOn(t, e) \/ \A u \in Submits \ {t} : ~WorkingOn(u, e)
  <2>1. UNCHANGED row /\ cur'[t] = d
    BY <1>0, <1>1, TakeDoes DEF SelectDeck, private
  <2>2. ASSUME status[d] = "done" PROVE pc'[t] = "next"
    <3> DEFINE where == IF status[d] = "done" THEN "next"
                        ELSE IF d \in Singletons THEN "update" ELSE "begin"
    <3>1. where = "next"
      BY <2>2
    <3>2. GoTo(t, where)
      BY <1>1 DEF SelectDeck
    <3> HIDE DEF where
    <3> QED BY <1>0, <3>1, <3>2, GoToDoes
  <2>3. CASE row[t][e].status = "done"
    BY <2>3 DEF WorkingOn
  <2>4. CASE row[t][e].status # "done"
    <3>1. e = d /\ status[d] # "done"
      BY <2>1, <2>2, <2>4 DEF WorkingOn
    <3> QED BY <1>1, <3>1 DEF SelectDeck
  <2> QED BY <2>3, <2>4
<1>2. ASSUME NEW d \in Decks, SelectError(t, d) PROVE WorkingOn(t, e)
  <2>1. UNCHANGED row /\ pc'[t] = "mark"
    BY <1>0, <1>2, GoToDoes DEF SelectError, private
  <2> QED BY <2>1 DEF WorkingOn
<1>3. CASE BeginDelete(t) \/ EndInsert(t) \/ DeleteRows(t)
  BY <1>3 DEF BeginDelete, EndInsert, DeleteRows, private, WorkingOn
<1>4. ASSUME NEW c \in Cards, InsertRow(t, c) PROVE WorkingOn(t, e)
  BY <1>4 DEF InsertRow, WorkingOn
<1>5. CASE UpdateDeck(t)
  <2>1. pc[t] = "update" /\ pc'[t] = "next" /\ UNCHANGED cur
    BY <1>0, <1>5, GoToDoes DEF UpdateDeck
  <2>2. \A d \in Decks \ {cur[t]} : row'[t][d] = row[t][d]
    BY <1>5, UpdateDeckDoes
  <2> QED BY <2>1, <2>2 DEF WorkingOn
<1>6. CASE MarkError(t)
  <2>1. pc'[t] = "next"
    BY <1>0, <1>6, GoToDoes DEF MarkError
  <2>2. /\ row'[t][cur[t]].status = "error" \/ row'[t][cur[t]] = row[t][cur[t]]
        /\ \A d \in Decks \ {cur[t]} : row'[t][d] = row[t][d]
    BY <1>6, MarkErrorDoes
  <2> QED BY <1>0, <2>1, <2>2 DEF WorkingOn
<1>7. CASE FailStatement(t)
  <2>1. pc'[t] = "next" /\ Undo(t, {cur[t]})
    BY <1>0, <1>7, GoToDoes DEF FailStatement, RollBackDeck
  <2>2. /\ row'[t][cur[t]] = Untouched
        /\ \A d \in Decks \ {cur[t]} : row'[t][d] = row[t][d]
    BY <1>0, <2>1, UndoDoes
  <2> QED BY <1>0, <2>1, <2>2 DEF WorkingOn, Untouched
<1>8. CASE Commit(t) \/ Abort(t)
  <2>1. pc'[t] = "end" /\ row'[t][e] = Untouched
    BY <1>0, <1>8, GoToDoes, UndoDoes DEF Commit, Abort
  <2> QED BY <2>1 DEF WorkingOn, Untouched
<1> QED BY <1>0, <1>1, <1>2, <1>3, <1>4, <1>5, <1>6, <1>7, <1>8 DEF TxStep, SubmitStep

\* Two submissions work on a deck at once only if that is on record.
LEMMA WorkStep ==
    ASSUME Shapes, WorkInv, NEW t \in Txs, TxStep(t)
    PROVE  WorkInv'
<1> SUFFICES ASSUME NEW d \in Decks \ overlap', NEW u \in Submits, NEW v \in Submits,
                    WorkingOn(u, d)', WorkingOn(v, d)', u # v
             PROVE  FALSE
  BY DEF WorkInv
<1>1. \A x \in Submits : x \in Txs /\ (x # t => (WorkingOn(x, d)' <=> WorkingOn(x, d)))
  BY ValuesDiffer, OthersSame DEF SameTx, WorkingOn
<1>2. ~(WorkingOn(u, d) /\ WorkingOn(v, d))
  BY OnlyCommitCommits DEF WorkInv
<1>3. u = t \/ v = t
  BY <1>1, <1>2
<1>4. \/ WorkingOn(t, d)
      \/ \A x \in Submits \ {t} : ~WorkingOn(x, d)
  BY <1>3, WorkBegins
<1> QED BY <1>1, <1>2, <1>3, <1>4

\* Who does not work on a deck has written nothing of its list.
LEMMA NoListWithoutWork ==
    ASSUME OwnInv, NEW t \in Txs, NEW d \in Decks, t \in Submits => ~WorkingOn(t, d)
    PROVE  wrote[t][d] = NoWrites /\ gone[t][d] = {}
<1>1. CASE t \in Submits
  <2>1. row[t][d].status # "done" /\ ~At(t, d, {"insert", "update"})
    BY <1>1 DEF WorkingOn, At
  <2> QED BY <1>1, <2>1 DEF OwnInv, SubmitOwn
<1>2. CASE t \in Posts
  BY <1>2 DEF OwnInv, PostOwn
<1> QED BY <1>1, <1>2 DEF Txs

\* A commit leaves the list of a deck alone that its transaction did not work on.
LEMMA CommitKeepsList ==
    ASSUME Shapes, OwnInv, NEW t \in Txs, Commit(t), NEW d \in Decks,
           t \in Submits => ~WorkingOn(t, d)
    PROVE  /\ list'[d] = list[d]
           /\ \A u \in Txs \ {t} : cur[u] = d => snap'[u] = snap[u]
<1>1. wrote[t][d] = NoWrites /\ gone[t][d] = {}
  BY NoListWithoutWork
<1>2. \A c \in Cards : wrote[t][d][c] = Keep
  BY <1>1 DEF NoWrites
<1>3. list'[d] = [c \in Cards |-> list[d][c]]
  BY <1>2 DEF Commit
<1>4. list[d] = [c \in Cards |-> list[d][c]]
  BY DEF Shapes
<1>5. \A u \in Txs \ {t} : cur[u] = d => snap'[u] = snap[u]
  BY <1>1 DEF Commit, Shapes
<1> QED BY <1>3, <1>4, <1>5

\* Short of a commit, nobody changes what another's DELETE will find.
LEMMA SnapOfOthers ==
    ASSUME Shapes, NEW t \in Txs, TxStep(t), ~Commit(t), NEW u \in Txs \ {t}
    PROVE  snap'[u] = snap[u]
<1>1. ASSUME NEW d \in Decks, SelectDeck(t, d) \/ SelectError(t, d) \/ UpsertDeck(t, d)
      PROVE  snap'[u] = snap[u]
  BY <1>1 DEF SelectDeck, SelectError, UpsertDeck, private
<1>2. ASSUME NEW c \in Cards, InsertRow(t, c) PROVE snap'[u] = snap[u]
  BY <1>2 DEF InsertRow
<1>3. CASE \/ BeginDelete(t) \/ DeleteRows(t) \/ EndInsert(t) \/ UpdateDeck(t)
           \/ MarkError(t) \/ FailStatement(t) \/ Abort(t)
  BY <1>3 DEF BeginDelete, DeleteRows, EndInsert, UpdateDeck, MarkError, FailStatement,
              RollBackDeck, Abort, private, Shapes
<1> QED BY <1>1, <1>2, <1>3 DEF TxStep, SubmitStep

\* What a submission sees of the list, after a step of another transaction.
LEMMA SeesAfterOthers ==
    ASSUME Shapes, OwnInv, WorkInv, SeesInv, NEW t \in Txs, TxStep(t),
           NEW d \in Decks \ overlap', NEW u \in Submits, u # t
    PROVE  Sees(u, d)'
<1>0. u \in Txs \ {t} /\ SameTx(u) /\ d \in Decks \ overlap /\ Sees(u, d)
  BY ValuesDiffer, OthersSame, OnlyCommitCommits DEF SeesInv
<1>1. CASE ~Commit(t)
  <2>1. snap'[u] = snap[u] /\ UNCHANGED list
    BY <1>0, <1>1, SnapOfOthers, OnlyCommitCommits
  <2> QED BY <1>0, <2>1 DEF Sees, At, SameTx, RowsSeen
<1>2. CASE Commit(t) /\ ~WorkingOn(u, d)
  <2>1. ~At(u, d, {"delete"}) /\ ~At(u, d, {"insert", "update"}) /\ row[u][d].status # "done"
    BY <1>2 DEF WorkingOn, At
  <2> QED BY <1>0, <2>1 DEF Sees, At, SameTx
<1>3. CASE Commit(t) /\ WorkingOn(u, d)
  <2>1. t \in Submits => ~WorkingOn(t, d)
    BY <1>0, <1>3 DEF WorkInv
  <2>2. list'[d] = list[d] /\ (cur[u] = d => snap'[u] = snap[u])
    BY <1>0, <1>3, <2>1, CommitKeepsList
  <2> QED BY <1>0, <2>2 DEF Sees, At, SameTx, RowsSeen
<1> QED BY <1>1, <1>2, <1>3

\* And after a step of its own.
LEMMA SeesAfterOwn ==
    ASSUME Shapes, OwnInv, SeesInv, NEW t \in Submits, TxStep(t), NEW e \in Decks \ overlap'
    PROVE  Sees(t, e)'
<1>0. /\ t \in Txs /\ t \notin Posts /\ t # Keep /\ NoTx # Keep /\ cur[t] \in Decks
      /\ Sees(t, e) /\ SubmitOwn(t, e)
  BY ValuesDiffer, OnlyCommitCommits DEF SeesInv, OwnInv, Shapes
<1>1. ASSUME NEW d \in Decks, SelectDeck(t, d) \/ SelectError(t, d) PROVE Sees(t, e)'
  <2>1. /\ pc'[t] \in {"next", "mark", "update", "begin"}
        /\ pc'[t] = "update" => d \in Singletons
    BY <1>0, <1>1, GoToDoes DEF SelectDeck, SelectError
  <2>2. cur'[t] = d /\ UNCHANGED <<row, wrote, list>>
    BY <1>0, <1>1, TakeDoes DEF SelectDeck, SelectError, private, committed
  <2> QED BY <1>0, <2>1, <2>2 DEF Sees, At
<1>2. CASE BeginDelete(t)
  <2>1. /\ pc'[t] = "delete" /\ snap'[t] = RowsSeen(cur[t])
        /\ UNCHANGED <<list, cur, row, wrote>>
    BY <1>0, <1>2, GoToDoes DEF BeginDelete, committed, Shapes
  <2> QED BY <1>0, <2>1 DEF Sees, At, RowsSeen
<1>3. CASE DeleteRows(t)
  <2>1. /\ pc[t] = "delete" /\ pc'[t] = "insert" /\ UNCHANGED <<list, cur, row>>
    BY <1>0, <1>3, GoToDoes DEF DeleteRows, committed
  <2>2. /\ \A c \in Cards :
             wrote'[t][cur[t]][c] = IF c \in snap[t] THEN NoTx ELSE wrote[t][cur[t]][c]
        /\ \A d \in Decks \ {cur[t]} : wrote'[t][d] = wrote[t][d]
    BY <1>3, DeleteRowsDoes
  <2>3. CASE e = cur[t]
    <3>1. snap[t] = RowsSeen(e)
      BY <1>0, <2>1, <2>3 DEF Sees, At
    <3>2. \A c \in Cards : wrote'[t][e][c] = Keep => list[e][c] = NoTx
      BY <1>0, <2>2, <2>3, <3>1 DEF RowsSeen
    <3> QED BY <2>1, <3>2 DEF Sees, At
  <2>4. CASE e # cur[t]
    BY <1>0, <2>1, <2>2, <2>4 DEF Sees, At
  <2> QED BY <2>3, <2>4
<1>4. ASSUME NEW c \in Cards, InsertRow(t, c) PROVE Sees(t, e)'
  <2>1. pc[t] = "insert" /\ UNCHANGED <<pc, list, cur, row>>
    BY <1>4 DEF InsertRow, committed
  <2>2. /\ wrote'[t][cur[t]][c] = t
        /\ \A b \in Cards \ {c} : wrote'[t][cur[t]][b] = wrote[t][cur[t]][b]
        /\ \A d \in Decks \ {cur[t]} : wrote'[t][d] = wrote[t][d]
    BY <1>4, InsertRowDoes
  <2>3. CASE e = cur[t]
    <3>1. At(t, e, {"insert", "update"}) /\ At(t, e, {"begin", "delete", "insert"})
      BY <2>1, <2>3 DEF At
    <3>2. \A b \in Cards : wrote[t][e][b] = Keep => list[e][b] = NoTx
      BY <1>0, <3>1 DEF Sees, SubmitOwn
    <3>3. \A b \in Cards : wrote'[t][e][b] = Keep => list[e][b] = NoTx
      BY <1>0, <2>2, <2>3, <3>2
    <3> QED BY <2>1, <3>3 DEF Sees, At
  <2>4. CASE e # cur[t]
    BY <1>0, <2>1, <2>2, <2>4 DEF Sees, At
  <2> QED BY <2>3, <2>4
<1>5. CASE EndInsert(t)
  <2>1. /\ pc[t] = "insert" /\ pc'[t] = "update" /\ UNCHANGED <<list, cur, row, wrote>>
    BY <1>0, <1>5, GoToDoes DEF EndInsert, committed, private
  <2> QED BY <1>0, <2>1 DEF Sees, At
<1>6. CASE UpdateDeck(t)
  <2>1. /\ pc[t] = "update" /\ pc'[t] = "next" /\ UNCHANGED <<list, cur>>
    BY <1>0, <1>6, GoToDoes DEF UpdateDeck, committed
  <2>2. /\ \A d \in Decks \ {cur[t]} : row'[t][d] = row[t][d] /\ wrote'[t][d] = wrote[t][d]
        /\ cur[t] \in Singletons => wrote'[t][cur[t]] = Listed(t)
        /\ cur[t] \notin Singletons => wrote'[t][cur[t]] = wrote[t][cur[t]]
    BY <1>6, UpdateDeckDoes
  <2>3. CASE e = cur[t]
    <3>1. \A c \in Cards : wrote'[t][e][c] = Keep => list[e][c] = NoTx
      <4>1. CASE e \in Singletons
        BY <1>0, <2>2, <2>3, <4>1 DEF Listed
      <4>2. CASE e \notin Singletons
        BY <1>0, <2>1, <2>2, <2>3, <4>2 DEF Sees, At
      <4> QED BY <4>1, <4>2
    <3> QED BY <2>1, <3>1 DEF Sees, At
  <2>4. CASE e # cur[t]
    BY <1>0, <2>1, <2>2, <2>4 DEF Sees, At
  <2> QED BY <2>3, <2>4
<1>7. CASE MarkError(t)
  <2>1. pc'[t] = "next" /\ UNCHANGED <<list, wrote>>
    BY <1>0, <1>7, GoToDoes DEF MarkError, committed
  <2>2. /\ row'[t][cur[t]].status = "error" \/ row'[t][cur[t]] = row[t][cur[t]]
        /\ \A d \in Decks \ {cur[t]} : row'[t][d] = row[t][d]
    BY <1>7, MarkErrorDoes
  <2> QED BY <1>0, <2>1, <2>2 DEF Sees, At
<1>8. CASE FailStatement(t)
  <2>1. pc'[t] = "next" /\ Undo(t, {cur[t]}) /\ UNCHANGED list
    BY <1>0, <1>8, GoToDoes DEF FailStatement, RollBackDeck, committed
  <2>2. /\ row'[t][cur[t]] = Untouched
        /\ \A d \in Decks \ {cur[t]} : row'[t][d] = row[t][d] /\ wrote'[t][d] = wrote[t][d]
    BY <1>0, <2>1, UndoDoes
  <2> QED BY <1>0, <2>1, <2>2 DEF Sees, At, Untouched
<1>9. CASE Commit(t) \/ Abort(t)
  <2>1. pc'[t] = "end" /\ row'[t][e] = Untouched
    BY <1>0, <1>9, GoToDoes, UndoDoes DEF Commit, Abort
  <2> QED BY <2>1 DEF Sees, At, Untouched
<1> QED BY <1>0, <1>1, <1>2, <1>3, <1>4, <1>5, <1>6, <1>7, <1>8, <1>9 DEF TxStep, SubmitStep

\* What a submission sees of a list stays so until its own commit.
LEMMA SeesStep ==
    ASSUME Shapes, OwnInv, WorkInv, SeesInv, NEW t \in Txs, TxStep(t)
    PROVE  SeesInv'
<1> SUFFICES ASSUME NEW d \in Decks \ overlap', NEW u \in Submits PROVE Sees(u, d)'
  BY DEF SeesInv
<1> QED BY SeesAfterOthers, SeesAfterOwn
-----------------------------------------------------------------------------
(***************************************************************************)
(* Commits.                                                                *)
(***************************************************************************)

\* The commit of a submission that has written a deck's row as done leaves its
\* own list there, whole.
LEMMA CommitOfDone ==
    ASSUME Shapes, OwnInv, SeesInv, NEW t \in Submits, Commit(t), NEW d \in Decks,
           row[t][d].status = "done"
    PROVE  /\ lastDone'[d] = t
           /\ \A c \in ListOf[t] : list'[d][c] = t
           /\ d \in Singletons \/ d \notin overlap => list'[d] = Listed(t)
<1>0. /\ ListOf[t] \subseteq Cards /\ t # Keep /\ NoTx # Keep /\ SubmitOwn(t, d)
  BY ValuesDiffer DEF OwnInv
<1>1. lastDone'[d] = t
  BY DEF Commit
<1>2. list'[d] = [c \in Cards |-> IF wrote[t][d][c] = Keep THEN list[d][c]
                                                          ELSE wrote[t][d][c]]
  BY DEF Commit
<1>3. /\ \A c \in ListOf[t] : wrote[t][d][c] = t
      /\ \A c \in Cards : wrote[t][d][c] \in {t, NoTx, Keep}
      /\ \A c \in Cards : wrote[t][d][c] = t => c \in ListOf[t]
      /\ d \in Singletons => wrote[t][d] = Listed(t)
  BY <1>0 DEF SubmitOwn
<1>4. \A c \in ListOf[t] : list'[d][c] = t
  BY <1>0, <1>2, <1>3
<1>5. CASE d \in Singletons
  <2>1. \A c \in Cards : list'[d][c] = IF c \in ListOf[t] THEN t ELSE NoTx
    BY <1>0, <1>2, <1>3, <1>5 DEF Listed
  <2>2. list'[d] = Listed(t)
    BY <1>2, <2>1 DEF Listed
  <2> QED BY <1>1, <1>4, <2>2
<1>6. CASE d \notin Singletons /\ d \notin overlap
  <2>1. \A c \in Cards : wrote[t][d][c] = Keep => list[d][c] = NoTx
    BY <1>6 DEF SeesInv, Sees
  <2>2. \A c \in Cards : list'[d][c] = IF c \in ListOf[t] THEN t ELSE NoTx
    BY <1>0, <1>2, <1>3, <2>1
  <2>3. list'[d] = Listed(t)
    BY <1>2, <2>2 DEF Listed
  <2> QED BY <1>1, <1>4, <2>3
<1> QED BY <1>1, <1>4, <1>5, <1>6

\* Any other commit leaves the list alone, and makes no deck done.
LEMMA CommitOfOthers ==
    ASSUME Shapes, OwnInv, RowInv, NEW t \in Txs, Commit(t), NEW d \in Decks,
           ~(t \in Submits /\ row[t][d].status = "done")
    PROVE  /\ lastDone'[d] = lastDone[d] /\ list'[d] = list[d]
           /\ status'[d] = "done" => status[d] = "done"
<1>1. lastDone'[d] = lastDone[d]
  BY DEF Commit
<1>2. t \in Submits => ~WorkingOn(t, d)
  BY DEF Commit, WorkingOn
<1>3. list'[d] = list[d]
  BY <1>2, CommitKeepsList
<1>4. status'[d] = AsWritten(t, d).status
  BY DEF Commit
<1>5. status'[d] = "done" => status[d] = "done"
  <2>1. CASE row[t][d] = Untouched
    BY <1>4, <2>1 DEF AsWritten
  <2>2. CASE row[t][d] # Untouched
    <3>1. status'[d] = row[t][d].status
      BY <1>4, <2>2 DEF AsWritten
    <3>2. RowFits(t, d)
      BY DEF RowInv
    <3> QED BY <2>2, <3>1, <3>2 DEF RowFits, Txs
  <2> QED BY <2>1, <2>2
<1> QED BY <1>1, <1>3, <1>5

\* The list of a done deck is that of the last commit.
LEMMA DoneStep ==
    ASSUME Shapes, OwnInv, RowInv, SeesInv, DoneListIsTheLast, NEW t \in Txs, TxStep(t)
    PROVE  DoneListIsTheLast'
<1> SUFFICES ASSUME NEW d \in Decks, status'[d] = "done"
             PROVE  /\ \A c \in ListOf[lastDone'[d]] : list'[d][c] = lastDone'[d]
                    /\ d \in Singletons \/ d \notin overlap' => list'[d] = Listed(lastDone'[d])
  BY DEF DoneListIsTheLast, Listed
<1>0. overlap \subseteq overlap'
  BY OnlyCommitCommits
<1>1. CASE Commit(t) /\ t \in Submits /\ row[t][d].status = "done"
  BY <1>0, <1>1, CommitOfDone
<1>2. CASE Commit(t) /\ ~(t \in Submits /\ row[t][d].status = "done")
  BY <1>0, <1>2, CommitOfOthers DEF DoneListIsTheLast
<1>3. CASE ~Commit(t)
  BY <1>0, <1>3, OnlyCommitCommits DEF DoneListIsTheLast
<1> QED BY <1>1, <1>2, <1>3

-----------------------------------------------------------------------------
(***************************************************************************)
(* The invariant of the specification.                                     *)
(***************************************************************************)

\* It holds at the start.
LEMMA TxInvInit == Init => TxInv
<1> SUFFICES ASSUME Init PROVE TxInv
  OBVIOUS
<1>0. /\ \A t \in Submits : t \in Txs /\ t \notin Posts /\ t # Keep
      /\ \A t \in Posts : t \in Txs /\ t \notin Submits
  BY ValuesDiffer
<1>1. (CHOOSE d \in Decks : TRUE) \in Decks
  BY SubmitTxAssumption
<1>2. Old \in Writers /\ Listed(Old) \in [Cards -> Writers \cup {NoTx}]
  BY DEF Listed, Writers
<1>3. \A t \in Txs, d \in Decks : Clear(t, d)
  BY DEF Init, Clear
<1>4. \A t \in Txs, d \in Decks : row[t][d].status = "untouched" /\ row[t][d] = Untouched
  BY DEF Init, Untouched
<1>5. \A t \in Txs, d \in Decks, c \in Cards : wrote[t][d][c] = Keep
  BY DEF Init, NoWrites
<1>6. \A t \in Txs : pc[t] = "next"
  BY DEF Init
<1>7. Shapes
  <2>1. Untouched \in Rows /\ NoWrites \in Lists
    BY ValuesDiffer
  <2> HIDE DEF Rows, Lists, Untouched, NoWrites, Listed, Writers
  <2> QED BY <1>1, <1>2, <2>1 DEF Init, Shapes
<1>8. OwnInv
  <2>1. ASSUME NEW t \in Submits, NEW d \in Decks PROVE SubmitOwn(t, d)
    <3>1. job[t][d] # "stub"
      BY <1>0 DEF Init
    <3> QED BY <1>0, <1>3, <1>4, <1>5, <1>6, <3>1 DEF SubmitOwn, At, Clear
  <2>2. ASSUME NEW t \in Posts, NEW d \in Decks PROVE PostOwn(t, d)
    <3>1. job[t][d] \in {"stub", "none"}
      BY DEF Init
    <3> QED BY <1>0, <1>3, <1>6, <3>1 DEF PostOwn, Clear
  <2> QED BY <2>1, <2>2 DEF OwnInv
<1>9. Exclusive /\ RowInv
  BY <1>4, <1>5 DEF Exclusive, RowInv, RowFits
<1>10. WorkInv /\ SeesInv
  BY <1>0, <1>4, <1>6 DEF WorkInv, WorkingOn, SeesInv, Sees, At
<1>11. DoneListIsTheLast
  BY DEF Init, DoneListIsTheLast
<1> QED BY <1>7, <1>8, <1>9, <1>10, <1>11 DEF TxInv

\* And every step keeps it.
LEMMA TxInvStep == TxInv /\ [Next]_vars => TxInv'
<1> SUFFICES ASSUME TxInv, [Next]_vars PROVE TxInv'
  OBVIOUS
<1>0. /\ Shapes /\ OwnInv /\ Exclusive /\ RowInv
      /\ WorkInv /\ SeesInv /\ DoneListIsTheLast
  BY DEF TxInv
<1>1. CASE Next
  <2>1. PICK t \in Txs : TxStep(t)
    BY <1>1, StepsAreOfOne
  <2>2. Shapes' /\ OwnInv' /\ Exclusive' /\ RowInv'
    BY <1>0, <2>1, ShapesStep, OwnStep, ExclusiveStep, RowStep
  <2>3. WorkInv' /\ SeesInv' /\ DoneListIsTheLast'
    BY <1>0, <2>1, WorkStep, SeesStep, DoneStep
  <2> QED BY <2>2, <2>3 DEF TxInv
<1>2. CASE UNCHANGED vars
  <2>1. UNCHANGED <<status, stamp, list, job, pc, cur, snap, gone, todo, row, wrote,
                    lastDone, overlap>>
    BY <1>2 DEF vars, committed, private
  <2>2. Shapes' /\ Exclusive'
    BY <1>0, <2>1 DEF Shapes, Exclusive
  <2>3. OwnInv'
    BY <1>0, <2>1 DEF OwnInv, SubmitOwn, PostOwn, At, Clear
  <2>4. RowInv'
    BY <1>0, <2>1 DEF RowInv, RowFits
  <2>5. WorkInv'
    BY <1>0, <2>1 DEF WorkInv, WorkingOn
  <2>6. SeesInv'
    BY <1>0, <2>1 DEF SeesInv, Sees, At, RowsSeen
  <2>7. DoneListIsTheLast'
    BY <1>0, <2>1 DEF DoneListIsTheLast, Listed
  <2> QED BY <2>2, <2>3, <2>4, <2>5, <2>6, <2>7 DEF TxInv
<1> QED BY <1>1, <1>2

\* The invariant that the others follow from.
THEOREM TxInvCorrect == Spec => []TxInv
BY TxInvInit, TxInvStep, PTL DEF Spec

\* However submissions and posts overlap, statement by statement, a done deck
\* has the whole list that was committed last, and nothing else unless two
\* submissions worked on it at once.
THEOREM DoneListIsTheLastCorrect == Spec => []DoneListIsTheLast
<1>1. TxInv => DoneListIsTheLast
  BY DEF TxInv
<1> QED BY <1>1, TxInvCorrect, PTL

(***************************************************************************)
(* The refinement: commits are steps of DeckLifecycle.                     *)
(***************************************************************************)

\* The commit of a submission is one report of all its decks.
LEMMA SubmissionIsReport ==
    ASSUME Shapes, RowInv, NEW t \in Submits, Commit(t)
    PROVE  Life!Next
<1> DEFINE written == {d \in Decks : row[t][d].status = "done" /\ status[d] # "done"}
           errored == {d \in Decks : row[t][d].status = "error"}
<1>0. t \in Txs
  BY ValuesDiffer
<1>1. \A d \in Decks : RowFits(t, d) /\ status[d] \in {"queued", "done", "error"}
  BY <1>0 DEF RowInv, Shapes
<1>2. \A d \in Decks :
        /\ status'[d] = IF row[t][d] = Untouched THEN status[d] ELSE row[t][d].status
        /\ stamp'[d] = IF row[t][d] = Untouched THEN stamp[d] ELSE row[t][d].stamp
  BY DEF Commit, AsWritten
<1>3. \A d \in Decks : row[t][d] = Untouched =>
        row[t][d].status # "done" /\ row[t][d].status # "error"
  BY DEF Untouched
<1>4. \A d \in Decks : row[t][d] # Untouched =>
        /\ row[t][d].stamp = stamp[d]
        /\ row[t][d].status = "done" \/ (row[t][d].status = "error" /\ status[d] # "done")
  BY <1>1 DEF RowFits
<1>5. \A d \in Decks : status'[d] = CASE d \in written           -> "done"
                                      [] d \in errored \ written -> "error"
                                      [] OTHER                   -> status[d]
  BY <1>2, <1>3, <1>4
<1>6. \A d \in written \cup errored : status[d] \notin {"absent", "done"}
  BY <1>1, <1>3, <1>4
<1>7. \A d \in Decks : stamp'[d] = stamp[d]
  BY <1>2, <1>4
<1>8. written \in SUBSET Decks /\ errored \in SUBSET Decks
  OBVIOUS
<1> HIDE DEF written, errored
<1>9. status' = [d \in Decks |-> CASE d \in written           -> "done"
                                   [] d \in errored \ written -> "error"
                                   [] OTHER                   -> status[d]]
  BY <1>5 DEF Commit
<1>10. UNCHANGED stamp
  BY <1>7 DEF Commit, Shapes
<1>11. Life!Report(written, errored)
  BY <1>6, <1>9, <1>10 DEF Life!Report
<1> QED BY <1>8, <1>11 DEF Life!Next

\* The commit of a post is one post of all its decks.
LEMMA PostIsPost ==
    ASSUME Shapes, RowInv, NEW t \in Posts, Commit(t)
    PROVE  Life!Next
<1> DEFINE listed == {d \in Decks : row[t][d] # Untouched}
           stamps == [d \in Decks |-> StampOf[t]]
<1>0. t \in Txs
  BY ValuesDiffer
<1>1. \A d \in Decks : RowFits(t, d) /\ status[d] # "absent"
  BY <1>0 DEF RowInv, Shapes
<1>2. \A d \in Decks :
        /\ status'[d] = IF row[t][d] = Untouched THEN status[d] ELSE row[t][d].status
        /\ stamp'[d] = IF row[t][d] = Untouched THEN stamp[d] ELSE row[t][d].stamp
  BY DEF Commit, AsWritten
<1>3. \A d \in Decks : row[t][d] # Untouched =>
        /\ row[t][d].stamp = StampOf[t]
        /\ row[t][d].status = IF StampOf[t] > stamp[d] THEN "queued" ELSE status[d]
  BY <1>1 DEF RowFits
<1>4. /\ listed \in SUBSET Decks /\ stamps \in [Decks -> {StampOf[p] : p \in Posts}]
      /\ \A d \in Decks : stamps[d] = StampOf[t] /\ (d \in listed <=> row[t][d] # Untouched)
  OBVIOUS
<1> HIDE DEF listed, stamps
<1>5. \A d \in Decks : status'[d] =
        IF d \in listed /\ (status[d] = "absent" \/ stamps[d] > stamp[d])
        THEN "queued" ELSE status[d]
  BY <1>1, <1>2, <1>3, <1>4
<1>6. \A d \in Decks : stamp'[d] = IF d \in listed THEN stamps[d] ELSE stamp[d]
  BY <1>2, <1>3, <1>4
<1>7. Life!Post(listed, stamps)
  BY <1>5, <1>6 DEF Commit, Life!Post
<1> QED BY <1>4, <1>7 DEF Life!Next

\* Requests that overlap move the deck tables as DeckLifecycle allows one after
\* the other.
THEOREM CommitsFollowLifecycleCorrect == Spec => CommitsFollowLifecycle
<1>1. TxInv /\ [Next]_vars => [Life!Next]_<<status, stamp>>
  <2> SUFFICES ASSUME TxInv, [Next]_vars PROVE Life!Next \/ UNCHANGED <<status, stamp>>
    OBVIOUS
  <2>1. CASE Next
    <3>1. PICK t \in Txs : TxStep(t)
      BY <2>1, StepsAreOfOne
    <3>2. ~Commit(t) => UNCHANGED <<status, stamp>>
      BY <3>1, OnlyCommitCommits
    <3>3. Commit(t) => Life!Next
      BY SubmissionIsReport, PostIsPost DEF TxInv, Txs
    <3> QED BY <3>2, <3>3
  <2>2. CASE UNCHANGED vars
    BY <2>2 DEF vars, committed
  <2> QED BY <2>1, <2>2
<1> QED BY <1>1, TxInvCorrect, PTL DEF Spec, CommitsFollowLifecycle
-----------------------------------------------------------------------------
(***************************************************************************)
(* Answers.  What a submission will answer about a deck fits what it has   *)
(* written of it, from the end of that deck's statements to the commit.    *)
(***************************************************************************)
Outcomes   == {"none", "written", "collision", "errored", "failed"}
Statements == {"begin", "delete", "insert", "update", "mark"}

AnswerFits(t, d) ==
    /\ results[t][d] # "none" => job[t][d] = "none" /\ ~At(t, d, Statements)
    /\ results[t][d] = "written" => pc[t] = "end" \/ row[t][d].status = "done"
    /\ results[t][d] \in {"failed", "collision"} =>
         row[t][d] = Untouched /\ wrote[t][d] = NoWrites

AnswerInv ==
    /\ results \in [Txs -> [Decks -> Outcomes]]
    /\ \A t \in Submits, d \in Decks : AnswerFits(t, d)

\* The answer about one deck is noted.
LEMMA AnswerDoes ==
    ASSUME results \in [Txs -> [Decks -> Outcomes]], NEW t \in Txs, NEW d \in Decks,
           NEW res \in Outcomes, Answer(t, d, res)
    PROVE  /\ results' \in [Txs -> [Decks -> Outcomes]]
           /\ results'[t][d] = res
           /\ \A e \in Decks \ {d} : results'[t][e] = results[t][e]
           /\ \A u \in Txs \ {t} : results'[u] = results[u]
<1> HIDE DEF Outcomes
<1> QED BY DEF Answer

\* A submission keeps its answer about a deck whose rows and jobs stay, and that
\* it does not come back to.
LEMMA AnswerKept ==
    ASSUME NEW t \in Submits, NEW e \in Decks, AnswerFits(t, e), pc[t] # "end",
           results'[t][e] = results[t][e], job'[t][e] = job[t][e],
           row'[t][e] = row[t][e], wrote'[t][e] = wrote[t][e],
           At(t, e, Statements)' => At(t, e, Statements)
    PROVE  AnswerFits(t, e)'
BY DEF AnswerFits

\* Each step of a submission keeps its answers right.
LEMMA AnswerStep ==
    ASSUME Shapes, OwnInv, AnswerInv, NEW t \in Submits, TxStep(t)
    PROVE  /\ results' \in [Txs -> [Decks -> Outcomes]]
           /\ \A u \in Txs \ {t} : results'[u] = results[u]
           /\ \A e \in Decks : AnswerFits(t, e)'
<1> DEFINE Goal == /\ results' \in [Txs -> [Decks -> Outcomes]]
                   /\ \A u \in Txs \ {t} : results'[u] = results[u]
                   /\ \A e \in Decks : AnswerFits(t, e)'
<1>0. /\ t \in Txs /\ t \notin Posts /\ cur[t] \in Decks
      /\ results \in [Txs -> [Decks -> Outcomes]]
      /\ \A e \in Decks : SubmitOwn(t, e) /\ AnswerFits(t, e)
  BY ValuesDiffer DEF OwnInv, AnswerInv, Shapes
<1>1. ASSUME NEW d \in Decks, SelectDeck(t, d) PROVE Goal
  <2> DEFINE res == IF status[d] = "done" THEN "collision" ELSE "none"
  <2>1. /\ Answer(t, d, res) /\ res \in Outcomes /\ res # "written" /\ res # "failed"
        /\ res = "collision" => pc'[t] = "next"
        /\ UNCHANGED <<row, wrote>>
    BY <1>0, <1>1, GoToDoes DEF SelectDeck, Outcomes
  <2>2. /\ pc[t] = "next" /\ job[t][d] = "ok" /\ job'[t][d] = "none" /\ cur'[t] = d
        /\ \A e \in Decks \ {d} : job'[t][e] = job[t][e]
    BY <1>0, <1>1, TakeDoes DEF SelectDeck
  <2>3. Clear(t, d)
    BY <1>0, <2>2 DEF SubmitOwn
  <2> HIDE DEF res
  <2>4. /\ results' \in [Txs -> [Decks -> Outcomes]] /\ results'[t][d] = res
        /\ \A e \in Decks \ {d} : results'[t][e] = results[t][e]
        /\ \A u \in Txs \ {t} : results'[u] = results[u]
    BY <1>0, <2>1, AnswerDoes
  <2>5. AnswerFits(t, d)'
    <3>1. res = "collision" \/ res = "none"
      BY <2>1 DEF res
    <3> QED BY <2>1, <2>2, <2>3, <2>4, <3>1 DEF AnswerFits, At, Statements, Clear
  <2>6. ASSUME NEW e \in Decks \ {d} PROVE AnswerFits(t, e)'
    <3>1. ~At(t, e, Statements)'
      BY <2>2 DEF At
    <3> QED BY <1>0, <2>1, <2>2, <2>4, <3>1, AnswerKept
  <2> QED BY <2>4, <2>5, <2>6
<1>2. ASSUME NEW d \in Decks, SelectError(t, d) PROVE Goal
  <2>1. UNCHANGED <<row, wrote, results>>
    BY <1>2 DEF SelectError, private
  <2>2. /\ pc[t] = "next" /\ job[t][d] = "error" /\ cur'[t] = d
        /\ \A e \in Decks \ {d} : job'[t][e] = job[t][e]
    BY <1>0, <1>2, TakeDoes DEF SelectError
  <2>3. results[t][d] = "none"
    BY <1>0, <2>2 DEF AnswerFits
  <2>4. AnswerFits(t, d)'
    BY <2>1, <2>3 DEF AnswerFits
  <2>5. ASSUME NEW e \in Decks \ {d} PROVE AnswerFits(t, e)'
    <3>1. ~At(t, e, Statements)'
      BY <2>2 DEF At
    <3> QED BY <1>0, <2>1, <2>2, <3>1, AnswerKept
  <2> QED BY <1>0, <2>1, <2>4, <2>5
<1>3. CASE BeginDelete(t) \/ DeleteRows(t) \/ EndInsert(t)
  <2>1. /\ pc[t] \in Statements /\ UNCHANGED <<job, cur, row, results>>
        /\ \A e \in Decks \ {cur[t]} : wrote'[t][e] = wrote[t][e]
    BY <1>0, <1>3, DeleteRowsDoes DEF BeginDelete, DeleteRows, EndInsert, private, Statements
  <2>2. results[t][cur[t]] = "none"
    BY <1>0, <2>1 DEF AnswerFits, At
  <2>3. AnswerFits(t, cur[t])'
    BY <2>1, <2>2 DEF AnswerFits
  <2>4. ASSUME NEW e \in Decks \ {cur[t]} PROVE AnswerFits(t, e)'
    <3>1. ~At(t, e, Statements)'
      BY <2>1 DEF At
    <3> QED BY <1>0, <2>1, <3>1, AnswerKept DEF Statements
  <2> QED BY <1>0, <2>1, <2>3, <2>4
<1>4. ASSUME NEW c \in Cards, InsertRow(t, c) PROVE Goal
  <2>1. /\ pc[t] \in Statements /\ UNCHANGED <<job, cur, row, results>>
        /\ \A e \in Decks \ {cur[t]} : wrote'[t][e] = wrote[t][e]
    BY <1>0, <1>4, InsertRowDoes DEF InsertRow, Statements
  <2>2. results[t][cur[t]] = "none"
    BY <1>0, <2>1 DEF AnswerFits, At
  <2>3. AnswerFits(t, cur[t])'
    BY <2>1, <2>2 DEF AnswerFits
  <2>4. ASSUME NEW e \in Decks \ {cur[t]} PROVE AnswerFits(t, e)'
    <3>1. ~At(t, e, Statements)'
      BY <2>1 DEF At
    <3> QED BY <1>0, <2>1, <3>1, AnswerKept DEF Statements
  <2> QED BY <1>0, <2>1, <2>3, <2>4
<1>5. CASE UpdateDeck(t) \/ MarkError(t) \/ FailStatement(t)
  <2> DEFINE d == cur[t]
  <2>1. /\ pc[t] \in Statements /\ pc'[t] = "next" /\ UNCHANGED <<job, cur>>
    BY <1>0, <1>5, GoToDoes, FailsInStatement
       DEF UpdateDeck, MarkError, FailStatement, RollBackDeck, Statements
  <2>2. PICK res \in {"written", "errored", "failed"} :
          /\ Answer(t, d, res)
          /\ res = "written" => UpdateDeck(t)
          /\ res = "failed" => FailStatement(t)
    BY <1>5 DEF UpdateDeck, MarkError, FailStatement, RollBackDeck
  <2>3. /\ results' \in [Txs -> [Decks -> Outcomes]] /\ results'[t][d] = res
        /\ \A e \in Decks \ {d} : results'[t][e] = results[t][e]
        /\ \A u \in Txs \ {t} : results'[u] = results[u]
    <3>1. res \in Outcomes
      BY DEF Outcomes
    <3> QED BY <1>0, <2>2, <3>1, AnswerDoes
  <2>4. /\ UpdateDeck(t) => row'[t][d].status = "done"
        /\ FailStatement(t) => row'[t][d] = Untouched /\ wrote'[t][d] = NoWrites
    BY <1>0, UpdateDeckDoes, UndoDoes DEF FailStatement, RollBackDeck
  <2>5. \A e \in Decks \ {d} : row'[t][e] = row[t][e] /\ wrote'[t][e] = wrote[t][e]
    <3>1. CASE UpdateDeck(t)
      BY <3>1, UpdateDeckDoes
    <3>2. CASE MarkError(t)
      BY <3>2, MarkErrorDoes DEF MarkError
    <3>3. CASE FailStatement(t)
      BY <1>0, <3>3, UndoDoes DEF FailStatement, RollBackDeck
    <3> QED BY <1>5, <3>1, <3>2, <3>3
  <2>6. job[t][d] = "none"
    BY <1>0, <2>1 DEF SubmitOwn, At, Statements
  <2>7. \A e \in Decks : ~At(t, e, Statements)'
    BY <2>1 DEF At, Statements
  <2>8. ASSUME NEW e \in Decks, e = d PROVE AnswerFits(t, e)'
    <3>1. job'[t][e] = "none" /\ ~At(t, e, Statements)' /\ results'[t][e] = res
      BY <2>1, <2>3, <2>6, <2>7, <2>8
    <3>2. /\ res = "written" => row'[t][e].status = "done"
          /\ res = "failed" => row'[t][e] = Untouched /\ wrote'[t][e] = NoWrites
          /\ res # "collision"
      BY <2>2, <2>4, <2>8
    <3> QED BY <3>1, <3>2 DEF AnswerFits
  <2>9. ASSUME NEW e \in Decks \ {d} PROVE AnswerFits(t, e)'
    BY <1>0, <2>1, <2>3, <2>5, <2>7, AnswerKept DEF Statements
  <2> QED BY <2>3, <2>8, <2>9
<1>6. CASE Commit(t)
  <2>1. /\ pc'[t] = "end" /\ Undo(t, Decks) /\ UNCHANGED <<job, results>>
        /\ \A e \in Decks : job[t][e] = "none"
    BY <1>0, <1>6, GoToDoes DEF Commit, Left
  <2>2. ASSUME NEW e \in Decks PROVE AnswerFits(t, e)'
    <3>1. row'[t][e] = Untouched /\ wrote'[t][e] = NoWrites
      BY <1>0, <2>1, UndoDoes
    <3> QED BY <2>1, <3>1 DEF AnswerFits, At, Statements
  <2> QED BY <1>0, <2>1, <2>2
<1>7. CASE Abort(t)
  <2> DEFINE none == [d \in Decks |-> "none"]
  <2>1. results' = [results EXCEPT ![t] = none]
    BY <1>7 DEF Abort
  <2>2. none \in [Decks -> Outcomes] /\ \A e \in Decks : none[e] = "none"
    BY DEF Outcomes
  <2> HIDE DEF none
  <2>3. /\ results' \in [Txs -> [Decks -> Outcomes]] /\ results'[t] = none
        /\ \A u \in Txs \ {t} : results'[u] = results[u]
    <3> HIDE DEF Outcomes
    <3> QED BY <1>0, <2>1, <2>2
  <2>4. \A e \in Decks : AnswerFits(t, e)'
    BY <2>2, <2>3 DEF AnswerFits
  <2> QED BY <2>3, <2>4
<1> QED BY <1>0, <1>1, <1>2, <1>3, <1>4, <1>5, <1>6, <1>7 DEF TxStep, SubmitStep

\* A post has no answers, and leaves those of others alone.
LEMMA PostAnswersNothing ==
    ASSUME results \in [Txs -> [Decks -> Outcomes]], NEW t \in Posts, TxStep(t)
    PROVE  /\ results' \in [Txs -> [Decks -> Outcomes]]
           /\ \A u \in Txs \ {t} : results'[u] = results[u]
<1>0. t \in Txs /\ t \notin Submits
  BY ValuesDiffer
<1>1. CASE Abort(t)
  <2> DEFINE none == [d \in Decks |-> "none"]
  <2>1. results' = [results EXCEPT ![t] = none] /\ none \in [Decks -> Outcomes]
    BY <1>1 DEF Abort, Outcomes
  <2> HIDE DEF none, Outcomes
  <2> QED BY <1>0, <2>1
<1>2. CASE ~Abort(t)
  BY <1>0, <1>2 DEF TxStep, UpsertDeck, Commit
<1> QED BY <1>1, <1>2

\* The answers are right at every moment.
THEOREM AnswerInvCorrect == Spec => []AnswerInv
<1>1. Init => AnswerInv
  <2> SUFFICES ASSUME Init PROVE AnswerInv
    OBVIOUS
  <2>1. results \in [Txs -> [Decks -> Outcomes]]
    BY DEF Init, Outcomes
  <2>2. \A t \in Submits, d \in Decks : results[t][d] = "none"
    BY ValuesDiffer DEF Init
  <2> QED BY <2>1, <2>2 DEF AnswerInv, AnswerFits
<1>2. TxInv /\ AnswerInv /\ [Next]_vars => AnswerInv'
  <2> SUFFICES ASSUME Shapes, OwnInv, AnswerInv, [Next]_vars PROVE AnswerInv'
    BY DEF TxInv
  <2>1. CASE Next
    <3>1. PICK t \in Txs : TxStep(t)
      BY <2>1, StepsAreOfOne
    <3>2. /\ results' \in [Txs -> [Decks -> Outcomes]]
          /\ \A u \in Txs \ {t} : results'[u] = results[u]
          /\ t \in Submits => \A e \in Decks : AnswerFits(t, e)'
      <4>1. CASE t \in Submits
        BY <3>1, <4>1, AnswerStep
      <4>2. CASE t \notin Submits
        BY <3>1, <4>2, PostAnswersNothing DEF AnswerInv, Txs
      <4> QED BY <4>1, <4>2
    <3>3. ASSUME NEW u \in Submits, NEW e \in Decks PROVE AnswerFits(u, e)'
      <4>1. CASE u = t
        BY <3>2, <4>1
      <4>2. CASE u # t
        <5>1. SameTx(u) /\ results'[u] = results[u] /\ AnswerFits(u, e)
          BY <3>1, <3>2, <4>2, OthersSame, ValuesDiffer DEF AnswerInv
        <5> QED BY <5>1 DEF SameTx, AnswerFits, At
      <4> QED BY <4>1, <4>2
    <3> QED BY <3>2, <3>3 DEF AnswerInv
  <2>2. CASE UNCHANGED vars
    <3>1. UNCHANGED <<results, job, pc, cur, row, wrote>>
      BY <2>2 DEF vars, private
    <3> QED BY <3>1 DEF AnswerInv, AnswerFits, At
  <2> QED BY <2>1, <2>2
<1> QED BY <1>1, <1>2, TxInvCorrect, PTL DEF Spec

\* The tables and what transactions remember of them have the shape TypeOK
\* gives them, and no two transactions have written one row.
THEOREM TypeCorrect == Spec => []TypeOK
<1>1. TxInv /\ AnswerInv => TypeOK
  BY DEF TxInv, Shapes, Exclusive, Lists, AnswerInv, Outcomes, TypeOK
<1> QED BY <1>1, TxInvCorrect, AnswerInvCorrect, PTL

\* However requests overlap and whatever fails among a submission's decks, a
\* deck it answers for as written is done with its list once it commits, and one
\* it answers for as failed or done before is left as it was.
THEOREM AnswerIsCommittedCorrect == Spec => AnswerIsCommitted
<1>1. ASSUME TxInv, AnswerInv, NEW t \in Submits, Commit(t) PROVE AnsweredAsCommitted(t)
  <2>0. /\ t \in Txs /\ t # Keep /\ NoTx # Keep /\ ListOf[t] \subseteq Cards
        /\ Shapes /\ OwnInv /\ pc[t] = "next"
    BY <1>1, ValuesDiffer DEF TxInv, Commit
  <2>1. ASSUME NEW d \in Decks, results[t][d] = "written"
        PROVE  /\ status'[d] = "done"
               /\ \A c \in ListOf[t] : list'[d][c] = t
               /\ d \in Singletons => list'[d] = Listed(t)
    <3>1. SubmitOwn(t, d) /\ AnswerFits(t, d)
      BY <1>1, <2>0, <2>1 DEF OwnInv, AnswerInv
    <3>2. row[t][d].status = "done" /\ row[t][d] # Untouched
      BY <2>0, <2>1, <3>1 DEF AnswerFits, Untouched
    <3>3. status'[d] = "done"
      BY <1>1, <3>2 DEF Commit, AsWritten
    <3>4. list'[d] = [c \in Cards |-> IF wrote[t][d][c] = Keep THEN list[d][c]
                                                               ELSE wrote[t][d][c]]
      BY <1>1 DEF Commit
    <3>5. \A c \in ListOf[t] : list'[d][c] = t
      BY <2>0, <3>1, <3>2, <3>4 DEF SubmitOwn
    <3>6. d \in Singletons => list'[d] = Listed(t)
      BY <2>0, <3>1, <3>2, <3>4 DEF SubmitOwn, Listed
    <3> QED BY <3>3, <3>5, <3>6
  <2>2. ASSUME NEW d \in Decks, results[t][d] \in {"failed", "collision"}
        PROVE  status'[d] = status[d] /\ list'[d] = list[d]
    <3>1. row[t][d] = Untouched /\ wrote[t][d] = NoWrites
      BY <1>1, <2>2 DEF AnswerInv, AnswerFits
    <3>2. status'[d] = status[d]
      BY <1>1, <3>1 DEF Commit, AsWritten
    <3>3. list'[d] = [c \in Cards |-> list[d][c]]
      BY <1>1, <3>1 DEF Commit, NoWrites
    <3>4. list[d] \in [Cards -> Writers \cup {NoTx}]
      BY <2>0 DEF Shapes
    <3> QED BY <3>2, <3>3, <3>4
  <2> QED BY <2>1, <2>2 DEF AnsweredAsCommitted
<1>2. TxInv /\ AnswerInv =>
        [\A t \in Submits : Commit(t) => AnsweredAsCommitted(t)]_vars
  BY <1>1
<1> QED BY <1>2, TxInvCorrect, AnswerInvCorrect, PTL DEF Spec, AnswerIsCommitted
=============================================================================
