------------------------------ MODULE DeckQueue ------------------------------
(***************************************************************************)
(* The deck queue: the per-format deck tables of the database (one row per *)
(* Moxfield deck), the handlers of the coordination API that write them    *)
(* (POST /decks, /decks/claim, /decks/submit) and the worker threads that  *)
(* call those handlers.                                                    *)
(*                                                                         *)
(* A deck's contents on Moxfield are a version number: mox[d] = 0 until    *)
(* the deck exists, and it grows with every edit.  The version is also the *)
(* deck's lastUpdatedAtUtc stamp, so a card list of version v is the list  *)
(* the deck had when its stamp was v.                                      *)
(*                                                                         *)
(* Each handler is one transaction and one action.  What the statements of *)
(* two overlapping transactions can do to one another within a handler is  *)
(* not in this module, with one exception: SKIP LOCKED, which makes a      *)
(* claim look past rows another transaction is writing (Contended).        *)
(***************************************************************************)
EXTENDS Integers, FiniteSets

CONSTANTS
    Decks,       \* the decks of all formats
    Workers,     \* worker threads, of any number of nodes
    Rank,        \* deck |-> position of its format in FORMATS
    BatchSize,   \* decks a worker asks for in one claim
    Lease,       \* clock ticks a claim lasts
    PageSize,    \* bound: decks on one page of search results
    MaxVersion,  \* bound: versions of a deck on Moxfield
    MaxLate      \* bound: submissions that outlive their worker's patience

ASSUME DeckQueueAssumption ==
    /\ Rank \in [Decks -> Nat]
    /\ BatchSize \in Nat \ {0}
    /\ {Lease, PageSize, MaxVersion, MaxLate} \subseteq Nat

VARIABLES
    mox,        \* deck |-> its version on Moxfield, 0 when it does not exist
    status,     \* deck |-> status column, "absent" when there is no row
    updatedAt,  \* deck |-> updated_at_utc column
    cards,      \* deck |-> version of the stored card list, 0 when none
    claimAge,   \* deck |-> ticks since claimed_at, NoClaim for NULL
    page,       \* worker |-> the stubs of the page it read and has not posted
    todo,       \* worker |-> decks of its batch it has not fetched
    failed,     \* worker |-> decks of its batch it gave up on
    got,        \* worker |-> deck |-> version it fetched, 0 when none
    late,       \* submissions whose worker timed out before the API ran them
    overtaken   \* ghost: decks re-queued while somebody held an older copy

rows    == <<status, updatedAt, cards, claimAge>>
workers == <<page, todo, failed, got>>
vars    == <<mox, rows, workers, late, overtaken>>

NoStamp  == 0     \* NULL in updated_at_utc: below every real stamp
Unlisted == -1    \* not on the page
NoClaim  == -1    \* NULL in claimed_at

Versions == 0..MaxVersion
Statuses == {"absent", "discovered", "claimed", "done", "error"}
Ages     == {NoClaim} \cup 0..(Lease + 1)
Reports  == [err : SUBSET Decks, got : [Decks -> Versions]]

NoPage   == [d \in Decks |-> Unlisted]
NoCopies == [d \in Decks |-> 0]

(***************************************************************************)
(* Reading the state.                                                      *)
(***************************************************************************)
Idle(w) == /\ page[w] = NoPage
           /\ todo[w] = {} /\ failed[w] = {} /\ got[w] = NoCopies

Listed(w) == {d \in Decks : page[w][d] # Unlisted}

\* Decks of w's batch that it still answers for.
Batch(w) == todo[w] \cup failed[w] \cup {d \in Decks : got[w][d] > 0}

Queued(d)  == status[d] \in {"discovered", "claimed"}
Settled(d) == status[d] \in {"done", "error"}

\* claimed_at < NOW() - lease; NULL is not smaller than anything.
Expired(d) == claimAge[d] > Lease

\* Mistaken form: the query forgets about abandoned claims.
ClaimableUnclaimed == {d \in Decks : status[d] = "discovered"}

Claimable == {d \in Decks : \/ status[d] = "discovered"
                            \/ status[d] = "claimed" /\ Expired(d)}

\* Rows that a request of another worker may have locked: FOR UPDATE SKIP
\* LOCKED passes over them.
Contended(w) == UNION {Listed(v) \cup Batch(v) : v \in Workers \ {w}}
                  \cup UNION {r.err \cup {d \in Decks : r.got[d] > 0} : r \in late}

\* The report of worker w; inHand holds the deck a stop found it working on.
Report(w, inHand) == [err |-> failed[w] \cup inHand, got |-> got[w]]

\* Fetched copies of d that nobody has submitted yet.
CopiesOf(d) == {got[w][d] : w \in Workers} \cup {r.got[d] : r \in late}

(***************************************************************************)
(* The initial state: empty tables, idle workers, no deck on Moxfield yet. *)
(***************************************************************************)
Init ==
    /\ mox       = [d \in Decks |-> 0]
    /\ status    = [d \in Decks |-> "absent"]
    /\ updatedAt = [d \in Decks |-> NoStamp]
    /\ cards     = [d \in Decks |-> 0]
    /\ claimAge  = [d \in Decks |-> NoClaim]
    /\ page      = [w \in Workers |-> NoPage]
    /\ todo      = [w \in Workers |-> {}]
    /\ failed    = [w \in Workers |-> {}]
    /\ got       = [w \in Workers |-> NoCopies]
    /\ late      = {}
    /\ overtaken = {}

(***************************************************************************)
(* The environment: users of Moxfield publish and edit decks, time passes. *)
(***************************************************************************)
Edit(d) ==
    /\ mox[d] < MaxVersion
    /\ mox' = [mox EXCEPT ![d] = @ + 1]
    /\ UNCHANGED <<rows, workers, late, overtaken>>

\* Ages stop at Lease + 1: no condition tells older claims apart.
Tick ==
    /\ claimAge' = [d \in Decks |-> IF claimAge[d] \in 0..Lease
                                    THEN claimAge[d] + 1 ELSE claimAge[d]]
    /\ UNCHANGED <<mox, status, updatedAt, cards, workers, late, overtaken>>

(***************************************************************************)
(* Discovery: a sweeping worker reads a page of search results and posts   *)
(* its stubs.  Moxfield may leave a stub's lastUpdatedAtUtc out.           *)
(***************************************************************************)
SearchPage(w, listed, unstamped) ==
    /\ Idle(w)
    /\ listed # {} /\ Cardinality(listed) <= PageSize
    /\ \A d \in listed : mox[d] > 0
    /\ page' = [page EXCEPT ![w] = [d \in Decks |->
                    CASE d \notin listed    -> Unlisted
                      [] d \in unstamped    -> NoStamp
                      [] OTHER              -> mox[d]]]
    /\ UNCHANGED <<mox, rows, todo, failed, got, late, overtaken>>

\* _NEWER.  Its test for a NULL on either side is the order on stamps, as
\* NoStamp is the least of them.
Newer(d, stamp) == stamp > updatedAt[d]

\* Mistaken form: done is final.
StatusAfterUpsertKeepsDone(d, stamp) ==
    IF status[d] = "absent" \/ (Newer(d, stamp) /\ status[d] # "done")
    THEN "discovered" ELSE status[d]

StatusAfterUpsert(d, stamp) ==
    IF status[d] = "absent" \/ Newer(d, stamp) THEN "discovered" ELSE status[d]

\* Mistaken forms: a re-queued row keeps its lease; the lease is cleared with
\* every refresh of the metadata.
ClaimAfterUpsertKept(d, stamp) == claimAge[d]
ClaimAfterUpsertAlwaysNull(d, stamp) == NoClaim

ClaimAfterUpsert(d, stamp) ==
    IF status[d] = "absent" \/ Newer(d, stamp) THEN NoClaim ELSE claimAge[d]

PostDecks(w) ==
    LET requeued == {d \in Listed(w) : Newer(d, page[w][d])}
        overtook == {d \in requeued : \E v \in CopiesOf(d) : 0 < v /\ v < page[w][d]}
    IN
    /\ Listed(w) # {}
    /\ status' = [d \in Decks |-> IF d \in Listed(w)
                    THEN StatusAfterUpsert(d, page[w][d]) ELSE status[d]]
    /\ claimAge' = [d \in Decks |-> IF d \in Listed(w)
                    THEN ClaimAfterUpsert(d, page[w][d]) ELSE claimAge[d]]
    /\ updatedAt' = [d \in Decks |-> IF d \in Listed(w)
                    THEN page[w][d] ELSE updatedAt[d]]
    /\ page' = [page EXCEPT ![w] = NoPage]
    /\ overtaken' = (overtaken \ requeued) \cup overtook
    /\ UNCHANGED <<mox, cards, todo, failed, got, late>>

(***************************************************************************)
(* Claiming: the first format with a claimable row that is not locked      *)
(* fills the batch.  scraped_at, which orders the rows of one format, is   *)
(* not modelled: any of them may come first.                               *)
(***************************************************************************)
FirstFormat(pool) == {d \in pool : \A e \in pool : Rank[d] <= Rank[e]}

FullBatch(batch, pool) == \/ batch = pool /\ Cardinality(pool) <= BatchSize
                          \/ Cardinality(batch) = BatchSize

ClaimDecks(w, locked) ==
    /\ Idle(w)
    /\ \E batch \in (SUBSET FirstFormat(Claimable \ locked)) \ {{}} :
         /\ FullBatch(batch, FirstFormat(Claimable \ locked))
         /\ status'   = [d \in Decks |-> IF d \in batch THEN "claimed" ELSE status[d]]
         /\ claimAge' = [d \in Decks |-> IF d \in batch THEN 0 ELSE claimAge[d]]
         /\ todo'     = [todo EXCEPT ![w] = batch]
    /\ UNCHANGED <<mox, updatedAt, cards, page, failed, got, late, overtaken>>

(***************************************************************************)
(* Fetching: each deck of the batch yields its current card list, or the   *)
(* worker gives up on it.                                                  *)
(***************************************************************************)
FetchOk(w, d) ==
    /\ d \in todo[w]
    /\ got'  = [got EXCEPT ![w][d] = mox[d]]
    /\ todo' = [todo EXCEPT ![w] = @ \ {d}]
    /\ UNCHANGED <<mox, rows, page, failed, late, overtaken>>

FetchFails(w, d) ==
    /\ d \in todo[w]
    /\ failed' = [failed EXCEPT ![w] = @ \cup {d}]
    /\ todo'   = [todo EXCEPT ![w] = @ \ {d}]
    /\ UNCHANGED <<mox, rows, page, got, late, overtaken>>

(***************************************************************************)
(* Submission.  The handler takes the decks of a report one by one, each   *)
(* under a savepoint; bad is the set of decks whose savepoint is rolled    *)
(* back.  Writing a card list and marking an error both leave a done deck  *)
(* alone, and neither touches claimed_at or updated_at_utc.                *)
(***************************************************************************)
Written(r) == {d \in Decks : r.got[d] > 0 /\ status[d] \notin {"absent", "done"}}

\* Mistaken form: without the condition status <> 'done'.
MarkedErrorUnguarded(r) == {d \in r.err : status[d] # "absent"}

MarkedError(r) == {d \in r.err : status[d] \notin {"absent", "done"}}

SubmitDecks(r, bad) ==
    /\ status' = [d \in Decks |->
                    CASE d \in Written(r) \ bad                      -> "done"
                      [] d \in MarkedError(r) \ (Written(r) \cup bad) -> "error"
                      [] OTHER                                       -> status[d]]
    /\ cards'  = [d \in Decks |-> IF d \in Written(r) \ bad THEN r.got[d] ELSE cards[d]]
    /\ UNCHANGED <<mox, updatedAt, claimAge>>

DropBatch(w) ==
    /\ todo'   = [todo EXCEPT ![w] = {}]
    /\ failed' = [failed EXCEPT ![w] = {}]
    /\ got'    = [got EXCEPT ![w] = NoCopies]

Submit(w, bad) ==
    /\ todo[w] = {} /\ Batch(w) # {}
    /\ SubmitDecks(Report(w, {}), bad)
    /\ DropBatch(w)
    /\ UNCHANGED <<page, late, overtaken>>

\* The node was told to stop in the middle of a batch.  The deck in hand, if
\* any, counts as failed (_fetch_one returns None); the others of the batch
\* are left out of the report.
SubmitOnStop(w, inHand, bad) ==
    /\ todo[w] # {}
    /\ inHand \subseteq todo[w] /\ Cardinality(inHand) <= 1
    /\ SubmitDecks(Report(w, inHand), bad)
    /\ DropBatch(w)
    /\ UNCHANGED <<page, late, overtaken>>

\* The client's timeout ends the wait for an answer, the request lives on.
SubmitTimesOut(w, inHand) ==
    /\ Batch(w) # {}
    /\ inHand \subseteq todo[w] /\ Cardinality(inHand) <= 1
    /\ Cardinality(late) < MaxLate
    /\ late' = late \cup {Report(w, inHand)}
    /\ DropBatch(w)
    /\ UNCHANGED <<mox, rows, page, overtaken>>

LateSubmit(r, bad) ==
    /\ r \in late
    /\ SubmitDecks(r, bad)
    /\ late' = late \ {r}
    /\ UNCHANGED <<workers, overtaken>>

\* The worker loses what it holds: the process dies, or a request to the API
\* fails and the worker goes back to its main loop.
Abandon(w) ==
    /\ ~Idle(w)
    /\ page' = [page EXCEPT ![w] = NoPage]
    /\ DropBatch(w)
    /\ UNCHANGED <<mox, rows, late, overtaken>>

Next ==
    \/ Tick
    \/ \E d \in Decks : Edit(d)
    \/ \E w \in Workers :
         \/ \E listed \in SUBSET Decks : \E unstamped \in SUBSET listed :
               SearchPage(w, listed, unstamped)
         \/ PostDecks(w)
         \/ \E locked \in SUBSET Contended(w) : ClaimDecks(w, locked)
         \/ \E d \in Decks : FetchOk(w, d) \/ FetchFails(w, d)
         \/ \E bad \in SUBSET Decks : Submit(w, bad)
         \/ \E inHand, bad \in SUBSET Decks : SubmitOnStop(w, inHand, bad)
         \/ \E inHand \in SUBSET Decks : SubmitTimesOut(w, inHand)
         \/ Abandon(w)
    \/ \E r \in late : \E bad \in SUBSET Decks : LateSubmit(r, bad)

Spec == Init /\ [][Next]_vars
-----------------------------------------------------------------------------
(***************************************************************************)
(* Properties.                                                             *)
(***************************************************************************)

\* The type invariant.  A row that waits for a claim has no lease: claimed_at
\* is cleared whenever the status goes back to discovered.
TypeOK ==
    /\ mox       \in [Decks -> Versions]
    /\ status    \in [Decks -> Statuses]
    /\ updatedAt \in [Decks -> Versions]
    /\ cards     \in [Decks -> Versions]
    /\ claimAge  \in [Decks -> Ages]
    /\ page      \in [Workers -> [Decks -> Versions \cup {Unlisted}]]
    /\ todo      \in [Workers -> SUBSET Decks]
    /\ failed    \in [Workers -> SUBSET Decks]
    /\ got       \in [Workers -> [Decks -> Versions]]
    /\ late      \in SUBSET Reports
    /\ overtaken \in SUBSET Decks
    /\ \A d \in Decks : status[d] \in {"absent", "discovered"} => claimAge[d] = NoClaim

\* A claimed deck can be claimed again once its lease runs out.  The claim
\* query compares claimed_at with a time, which is never true of NULL, so a
\* claimed row without claimed_at would be out of reach for good and the sweep
\* cycle would never reset.
ClaimedHasLease == \A d \in Decks : status[d] = "claimed" => claimAge[d] # NoClaim

\* A done deck holds the card list of the stamp the tables show for it, or of a
\* later one, except when it was put back in the queue while somebody held an
\* older copy of it.  Late posts that move updated_at_utc back, late
\* submissions, expired leases and lost replies make no other exception.
StaleOnlyIfOvertaken ==
    \A d \in Decks \ overtaken : status[d] = "done" => cards[d] >= updatedAt[d]

\* What makes it inductive, in three parts.
\* No copy of a version that Moxfield does not have yet.
NoFutureVersions ==
    \A d \in Decks :
        /\ updatedAt[d] <= mox[d]
        /\ \A w \in Workers : page[w][d] <= mox[d]

\* Nobody works on a deck that has no row.
HeldDecksExist ==
    \A d \in Decks : status[d] = "absent" =>
        /\ \A w \in Workers : d \notin todo[w] /\ got[w][d] = 0
        /\ \A r \in late : r.got[d] = 0

\* Every copy in hand of a deck that was not overtaken may be written.
CopiesAreFresh ==
    \A d \in Decks \ overtaken :
        /\ \A w \in Workers : got[w][d] > 0 => got[w][d] >= updatedAt[d]
        /\ \A r \in late : r.got[d] > 0 => r.got[d] >= updatedAt[d]

\* The inductive invariant itself.
FreshInv == /\ NoFutureVersions /\ HeldDecksExist
            /\ CopiesAreFresh   /\ StaleOnlyIfOvertaken

\* What api.py's comment on the upsert promises: a deck that changed on Moxfield
\* since it was fetched is fetched again, so a done deck is up to date with the
\* stamp the tables show for it.
DoneIsFresh == \A d \in Decks : status[d] = "done" => cards[d] >= updatedAt[d]

\* Through this mapping the queue is a deck lifecycle: discovered and claimed
\* are its two ways of being queued, and updated_at_utc is its stamp.
Life == INSTANCE DeckLifecycle WITH
            stage  <- [d \in Decks |-> IF Queued(d) THEN "queued" ELSE status[d]],
            stamp  <- updatedAt,
            Stamps <- Versions

\* Whatever posts, claims, fetches, late submissions, rolled-back savepoints and
\* crashes come together, the deck tables move as DeckLifecycle promises: only
\* a newer stamp queues a settled deck, and a done deck never turns into an
\* error.
ImplementsLifecycle == Life!Spec
=============================================================================
