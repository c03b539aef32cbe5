------------------------------- MODULE SubmitTx -------------------------------
(***************************************************************************)
(* Overlapping transactions on the deck tables, statement by statement:    *)
(* the requests POST /decks/submit and POST /decks under the isolation     *)
(* level READ COMMITTED.  A statement sees what was committed when it      *)
(* began, waits for a row another transaction is writing, and then goes on *)
(* with the row that transaction left.  DeckQueue takes a request as one   *)
(* step; here the decks of a request, and the rows of a deck's list, are   *)
(* written one by one and become visible when the transaction commits.     *)
(*                                                                         *)
(* In which order a request comes to its decks, and a statement to its     *)
(* rows, is left open.  Decks are in the tables already; whether a queued  *)
(* deck is discovered or claimed makes no difference here.                 *)
(***************************************************************************)
EXTENDS Integers

CONSTANTS
    Decks,
    Singletons,  \* decks of singleton formats: their list is a column
    Cards,       \* keys (card_id, board) of a list
    Submits,     \* transactions of POST /decks/submit
    Posts,       \* transactions of POST /decks
    ListOf,      \* submission |-> the cards its decks have
    StampOf,     \* post |-> the stamp its stubs carry
    NoTx,        \* nobody: the writer of a row that does not exist
    Old          \* the writer of the rows that are there from the start

Txs     == Submits \cup Posts
Writers == Submits \cup {Old}

Keep == "keep"   \* a row of a list that a transaction has not written

ASSUME SubmitTxAssumption ==
    /\ Decks # {} /\ Singletons \subseteq Decks
    /\ Submits \cap Posts = {} /\ Old \notin Txs /\ NoTx \notin Txs \cup {Old}
    /\ Keep \notin Txs \cup {Old, NoTx}
    /\ ListOf \in [Writers -> SUBSET Cards]
    /\ StampOf \in [Posts -> Nat]

VARIABLES
    status,    \* deck |-> queued, done or error, as committed
    stamp,     \* deck |-> updated_at_utc, as committed
    list,      \* deck |-> card |-> the writer of that row of the list, or NoTx
    job,       \* transaction |-> deck |-> what it has yet to do: write its list
               \* (ok), mark an error, upsert a stub, or nothing (none)
    pc,        \* transaction |-> the statement it is at
    cur,       \* transaction |-> the deck that statement is about
    snap,      \* transaction |-> rows its DELETE saw when it began
    gone,      \* transaction |-> deck |-> rows it has deleted
    todo,      \* transaction |-> rows its INSERT has not come to
    row,       \* transaction |-> deck |-> the deck row it has written, or Untouched
    wrote,     \* transaction |-> deck |-> card |-> its writer, NoTx or Keep
    results,   \* transaction |-> deck |-> what it will answer about the deck:
               \* written, collision, errored, failed (-1 rows), or nothing (none)
    lastDone,  \* ghost: deck |-> who committed the list last
    overlap    \* ghost: decks two submissions worked on at the same time

committed == <<status, stamp, list>>
private   == <<snap, gone, todo, row, wrote, results>>
vars      == <<committed, job, pc, cur, private, lastDone, overlap>>

Untouched == [status |-> "untouched", stamp |-> 0]
NoWrites  == [c \in Cards |-> Keep]
Listed(t) == [c \in Cards |-> IF c \in ListOf[t] THEN t ELSE NoTx]

Init ==
    /\ status = [d \in Decks |-> "queued"]
    /\ stamp  = [d \in Decks |-> 1]
    /\ list   = [d \in Decks |-> Listed(Old)]
    /\ job \in [Txs -> [Decks -> {"ok", "error", "stub", "none"}]]
    /\ \A t \in Submits, d \in Decks : job[t][d] # "stub"
    /\ \A t \in Posts, d \in Decks : job[t][d] \in {"stub", "none"}
    /\ pc   = [t \in Txs |-> "next"]
    /\ cur  = [t \in Txs |-> CHOOSE d \in Decks : TRUE]
    /\ snap = [t \in Txs |-> {}]
    /\ gone = [t \in Txs |-> [d \in Decks |-> {}]]
    /\ todo = [t \in Txs |-> {}]
    /\ row  = [t \in Txs |-> [d \in Decks |-> Untouched]]
    /\ wrote = [t \in Txs |-> [d \in Decks |-> NoWrites]]
    /\ results = [t \in Txs |-> [d \in Decks |-> "none"]]
    /\ lastDone = [d \in Decks |-> Old]
    /\ overlap = {}

(***************************************************************************)
(* What a request has not come to, and whom it waits for: a transaction    *)
(* has locked what it has written.                                         *)
(***************************************************************************)
Left(t) == {d \in Decks : job[t][d] # "none"}

\* Whose row of deck d's, or of its list's, t cannot write yet.
RowLockers(d, t) == {u \in Txs \ {t} : row[u][d] # Untouched}

\* Mistaken form: no key on (deck_id, card_id, board), so nobody waits for it.
NoKeyLockers(d, cs, t) == {}

KeyLockers(d, cs, t) == {u \in Txs \ {t} : \E c \in cs : wrote[u][d][c] # Keep}

\* Whom t's statement may have to wait for.
Blockers(t) ==
    CASE pc[t] = "delete" -> KeyLockers(cur[t], snap[t], t)
      [] pc[t] = "insert" -> KeyLockers(cur[t], todo[t], t)
      [] pc[t] \in {"update", "mark"} -> RowLockers(cur[t], t)
      [] pc[t] = "next" /\ t \in Posts -> UNION {RowLockers(d, t) : d \in Left(t)}
      [] OTHER -> {}

(***************************************************************************)
(* Steps all transactions share.                                           *)
(***************************************************************************)
GoTo(t, where) == pc' = [pc EXCEPT ![t] = where]

WriteRow(t, d, r) == row' = [row EXCEPT ![t][d] = r]

Answer(t, d, res) == results' = [results EXCEPT ![t][d] = res]

\* Take back what t has written in the given decks, with its locks.
Undo(t, ds) ==
    /\ row'   = [row EXCEPT ![t] = [d \in Decks |-> IF d \in ds THEN Untouched ELSE @[d]]]
    /\ wrote' = [wrote EXCEPT ![t] = [d \in Decks |-> IF d \in ds THEN NoWrites ELSE @[d]]]
    /\ gone'  = [gone EXCEPT ![t] = [d \in Decks |-> IF d \in ds THEN {} ELSE @[d]]]
    /\ todo'  = [todo EXCEPT ![t] = {}]

AsWritten(t, d) == IF row[t][d] = Untouched THEN [status |-> status[d], stamp |-> stamp[d]]
                                            ELSE row[t][d]

\* A DELETE that waits for t misses the rows that t deleted and inserted anew:
\* they are not those it waits for.
Commit(t) ==
    /\ pc[t] = "next" /\ Left(t) = {}
    /\ GoTo(t, "end")
    /\ status' = [d \in Decks |-> AsWritten(t, d).status]
    /\ stamp'  = [d \in Decks |-> AsWritten(t, d).stamp]
    /\ list' = [d \in Decks |-> [c \in Cards |->
                  IF wrote[t][d][c] = Keep THEN list[d][c] ELSE wrote[t][d][c]]]
    /\ snap' = [u \in Txs |-> snap[u] \ gone[t][cur[u]]]
    /\ Undo(t, Decks)
    /\ lastDone' = [d \in Decks |-> IF t \in Submits /\ row[t][d].status = "done"
                                    THEN t ELSE lastDone[d]]
    /\ UNCHANGED <<job, cur, results, overlap>>

\* A statement outside any savepoint fails, the API dies or loses its connection
\* to the database: nothing of the request stays, and nothing is answered.
Abort(t) ==
    /\ pc[t] # "end"
    /\ GoTo(t, "end")
    /\ job'  = [job EXCEPT ![t] = [d \in Decks |-> "none"]]
    /\ snap' = [snap EXCEPT ![t] = {}]
    /\ Undo(t, Decks)
    /\ results' = [results EXCEPT ![t] = [d \in Decks |-> "none"]]
    /\ UNCHANGED <<committed, cur, lastDone, overlap>>

(***************************************************************************)
(* POST /decks/submit, the decks of a request one after the other.         *)
(***************************************************************************)
\* Who works on the list of d: between its SELECT and its commit.
WorkingOn(t, d) == \/ row[t][d].status = "done"
                   \/ cur[t] = d /\ pc[t] \in {"begin", "delete", "insert", "update"}

Take(t, d, what) ==
    /\ pc[t] = "next" /\ job[t][d] = what
    /\ job' = [job EXCEPT ![t][d] = "none"]
    /\ cur' = [cur EXCEPT ![t] = d]

\* SELECT id, status: a deck that is done already is left alone (collision).
SelectDeck(t, d) ==
    /\ Take(t, d, "ok")
    /\ GoTo(t, IF status[d] = "done" THEN "next"
               ELSE IF d \in Singletons THEN "update" ELSE "begin")
    /\ overlap' = IF status[d] # "done" /\ \E u \in Submits \ {t} : WorkingOn(u, d)
                  THEN overlap \cup {d} ELSE overlap
    /\ Answer(t, d, IF status[d] = "done" THEN "collision" ELSE "none")
    /\ UNCHANGED <<committed, snap, gone, todo, row, wrote, lastDone>>

\* Mistaken form: the old list is not deleted first.
NoRowsSeen(d) == {}

RowsSeen(d) == {c \in Cards : list[d][c] # NoTx}

\* DELETE of the deck's list: the rows it is about are those committed when it
\* begins; it waits for whoever is writing one of them.
BeginDelete(t) ==
    /\ pc[t] = "begin"
    /\ GoTo(t, "delete")
    /\ snap' = [snap EXCEPT ![t] = RowsSeen(cur[t])]
    /\ UNCHANGED <<committed, job, cur, gone, todo, row, wrote, results, lastDone,
                   overlap>>

DeleteRows(t) ==
    /\ pc[t] = "delete" /\ Blockers(t) = {}
    /\ GoTo(t, "insert")
    /\ wrote' = [wrote EXCEPT ![t][cur[t]] =
                   [c \in Cards |-> IF c \in snap[t] THEN NoTx ELSE @[c]]]
    /\ gone' = [gone EXCEPT ![t][cur[t]] = snap[t]]
    /\ snap' = [snap EXCEPT ![t] = {}]
    /\ todo' = [todo EXCEPT ![t] = ListOf[t]]
    /\ UNCHANGED <<committed, job, cur, row, results, lastDone, overlap>>

\* INSERT ... ON CONFLICT DO UPDATE: a row that is there, or gets there while
\* the statement waits for its key, is overwritten.
InsertRow(t, c) ==
    /\ pc[t] = "insert" /\ c \in todo[t]
    /\ KeyLockers(cur[t], {c}, t) = {}
    /\ wrote' = [wrote EXCEPT ![t][cur[t]][c] = t]
    /\ todo'  = [todo EXCEPT ![t] = @ \ {c}]
    /\ UNCHANGED <<committed, job, pc, cur, snap, gone, row, results, lastDone, overlap>>

EndInsert(t) ==
    /\ pc[t] = "insert" /\ todo[t] = {}
    /\ GoTo(t, "update")
    /\ UNCHANGED <<committed, job, cur, private, lastDone, overlap>>

\* UPDATE of the deck row, by its id alone: done, whatever it is by now.  In a
\* singleton format the list is a column of the row.
UpdateDeck(t) ==
    LET d == cur[t] IN
    /\ pc[t] = "update" /\ Blockers(t) = {}
    /\ GoTo(t, "next")
    /\ WriteRow(t, d, [status |-> "done", stamp |-> stamp[d]])
    /\ wrote' = IF d \in Singletons THEN [wrote EXCEPT ![t][d] = Listed(t)] ELSE wrote
    /\ Answer(t, d, "written")
    /\ UNCHANGED <<committed, job, cur, snap, gone, todo, lastDone, overlap>>

SelectError(t, d) ==
    /\ Take(t, d, "error")
    /\ GoTo(t, "mark")
    /\ UNCHANGED <<committed, private, lastDone, overlap>>

\* Mistaken form: without the condition.
MayMarkAlways(d) == TRUE

\* status <> 'done', on the row as the last writer left it.
NotDone(d) == status[d] # "done"

MarkError(t) ==
    LET d == cur[t] IN
    /\ pc[t] = "mark" /\ GoTo(t, "next")
    /\ Answer(t, d, "errored")
    /\ \/ /\ NotDone(d) /\ Blockers(t) = {}
          /\ WriteRow(t, d, [status |-> "error", stamp |-> stamp[d]])
       \/ /\ ~NotDone(d)
          /\ UNCHANGED row
    /\ UNCHANGED <<committed, job, cur, snap, gone, todo, wrote, lastDone, overlap>>

(***************************************************************************)
(* A statement that fails.  The database: an INSERT is refused over a row  *)
(* it comes to (two entries of one card on one board), and of transactions *)
(* that all wait for one another one is told so.                           *)
(***************************************************************************)
Refused(t) ==
    /\ pc[t] = "insert"
    /\ todo[t] = {} \/ \E c \in todo[t] : KeyLockers(cur[t], {c}, t) = {}

\* t is one of some transactions that all wait for one another.
Deadlocked(t) == \E S \in SUBSET Txs :
    /\ t \in S
    /\ \A u \in S : Blockers(u) \cap S # {} /\ \E v \in S : u \in Blockers(v)

\* Mistaken form: the handler comes back to the deck.
RollBackToRetry(t) ==
    /\ GoTo(t, "next")
    /\ job'  = [job EXCEPT ![t][cur[t]] = "ok"]
    /\ snap' = [snap EXCEPT ![t] = {}]
    /\ Undo(t, {cur[t]})
    /\ UNCHANGED <<committed, cur, results, lastDone, overlap>>

\* Mistaken form: the connection is rolled back, with the decks before this one.
RollBackAll(t) ==
    /\ GoTo(t, "next")
    /\ snap' = [snap EXCEPT ![t] = {}]
    /\ Undo(t, Decks)
    /\ Answer(t, cur[t], "failed")
    /\ UNCHANGED <<committed, job, cur, lastDone, overlap>>

\* The handler rolls back to the deck's savepoint, which frees what this deck
\* locked and nothing else, and goes on.
RollBackDeck(t) ==
    /\ GoTo(t, "next")
    /\ snap' = [snap EXCEPT ![t] = {}]
    /\ Undo(t, {cur[t]})
    /\ Answer(t, cur[t], "failed")
    /\ UNCHANGED <<committed, job, cur, lastDone, overlap>>

\* Whatever fails while a deck is written, the handler catches.
FailStatement(t) ==
    /\ Refused(t) \/ Deadlocked(t)
    /\ RollBackDeck(t)

(***************************************************************************)
(* POST /decks: one upsert per format, row by row.                         *)
(***************************************************************************)
UpsertDeck(t, d) ==
    /\ Take(t, d, "stub")
    /\ RowLockers(d, t) = {}
    /\ WriteRow(t, d, [status |-> IF StampOf[t] > stamp[d] THEN "queued" ELSE status[d],
                       stamp  |-> StampOf[t]])
    /\ UNCHANGED <<committed, pc, snap, gone, todo, wrote, results, lastDone, overlap>>

\* Chosen as the victim of a deadlock, the request fails as a whole.
AbortPost(t) == pc[t] = "next" /\ Deadlocked(t) /\ Abort(t)

Submission(t) ==
    \/ \E d \in Decks : SelectDeck(t, d) \/ SelectError(t, d)
    \/ BeginDelete(t) \/ DeleteRows(t)
    \/ \E c \in Cards : InsertRow(t, c)
    \/ EndInsert(t) \/ UpdateDeck(t) \/ MarkError(t) \/ FailStatement(t)
    \/ Commit(t)

Post(t) == (\E d \in Decks : UpsertDeck(t, d)) \/ AbortPost(t) \/ Commit(t)

Next == \/ \E t \in Submits : Submission(t)
        \/ \E t \in Posts : Post(t)
        \/ \E t \in Txs : Abort(t)

\* Every request is carried out; the database resolves deadlocks.
Spec == /\ Init /\ [][Next]_vars
        /\ \A t \in Submits : WF_vars(Submission(t))
        /\ \A t \in Posts : WF_vars(Post(t))
-----------------------------------------------------------------------------
(***************************************************************************)
(* Properties.                                                             *)
(***************************************************************************)

\* The type invariant.
TypeOK ==
    /\ status \in [Decks -> {"queued", "done", "error"}]
    /\ stamp \in [Decks -> Nat]
    /\ list \in [Decks -> [Cards -> Writers \cup {NoTx}]]
    /\ cur \in [Txs -> Decks]
    /\ pc \in [Txs -> {"next", "begin", "delete", "insert", "update", "mark", "end"}]
    /\ snap \in [Txs -> SUBSET Cards] /\ gone \in [Txs -> [Decks -> SUBSET Cards]]
    /\ todo \in [Txs -> SUBSET Cards]
    /\ wrote \in [Txs -> [Decks -> [Cards -> Submits \cup {NoTx, Keep}]]]
    /\ results \in [Txs -> [Decks -> {"none", "written", "collision", "errored", "failed"}]]
    /\ overlap \subseteq Decks
    \* No two transactions have written the same row.
    /\ \A d \in Decks, t, u \in Txs : t # u =>
         /\ row[t][d] = Untouched \/ row[u][d] = Untouched
         /\ \A c \in Cards : wrote[t][d][c] = Keep \/ wrote[u][d][c] = Keep

\* A done deck has every row of the list that was committed last, none of them
\* taken over by another request.  Rows of other lists are left beside them
\* only in a regular format, when two submissions worked on the deck at once.
DoneListIsTheLast ==
    \A d \in Decks : status[d] = "done" =>
        /\ \A c \in ListOf[lastDone[d]] : list[d][c] = lastDone[d]
        /\ d \in Singletons \/ d \notin overlap => list[d] = Listed(lastDone[d])

\* Requests that overlap move the tables as DeckLifecycle allows one after the
\* other: the commit of a post with a newer stamp queues the deck, whatever was
\* written about it in between, and no report turns a done deck into an error,
\* though it read the row when it was not done.  A report that read the row
\* before a post re-queued it may still commit afterwards and make it done.
Life == INSTANCE DeckLifecycle WITH
            stage <- status, Stamps <- {StampOf[t] : t \in Posts}

CommitsFollowLifecycle == [][Life!Next]_<<status, stamp>>

\* What a submission answers is what its commit leaves, whatever others did
\* meanwhile: a deck it calls written is done with this list, a deck it calls
\* failed or done before (collision) is as it was.  "Each deck is processed under
\* its own savepoint so one failure does not abort the batch."
AnsweredAsCommitted(t) == \A d \in Decks :
    /\ results[t][d] = "written" =>
         /\ status'[d] = "done"
         /\ \A c \in ListOf[t] : list'[d][c] = t
         /\ d \in Singletons => list'[d] = Listed(t)
    /\ results[t][d] \in {"failed", "collision"} =>
         status'[d] = status[d] /\ list'[d] = list[d]

AnswerIsCommitted == [][\A t \in Submits : Commit(t) => AnsweredAsCommitted(t)]_vars

\* Every request comes to its end: requests that wait for one another are
\* resolved for good by the savepoint of one deck or the failure of one post.
EveryRequestEnds == <>(\A t \in Txs : pc[t] = "end")
=============================================================================
