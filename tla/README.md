# The distributed deck scraper in TLA+

This directory specifies the V2 deck scraper (`src/V2/src`): a coordination API
(FastAPI over PostgreSQL) hands out work, and any number of scraper nodes, each
with a pool of worker threads, discover decks on Moxfield and fetch their card
lists. TLC checks the modules on small instances; TLAPS proves the safety
properties for every value of the constants.

Paths below are relative to `src/V2/src/distributed scraper/` unless they start
with `constants/`, `migrations/` or `scraping/`.

## 1. The system

```
             search pages                 deck documents
  Moxfield ----------------> worker <---------------------- Moxfield
                (limiter, retries)  (limiter, retries, failure budget)
                             |   ^
       POST /decks, /decks/submit, /sweeps/complete
                             v   |  /sweeps/claim, /decks/claim
                     coordination API --- card map (in memory)
                             |
                        PostgreSQL: card_format_status, {format}_decks,
                                    {format}_deck_cards, cards
```

A worker loops (`node.py:76-101`): claim a sweep unit (card, format) and page
through Moxfield's search results, posting deck stubs; if there is none, claim a
batch of decks of one format, fetch each and submit the outcomes; if there is
none either, wait.

| component | state | operations | what is hard | what makes it correct | module |
|---|---|---|---|---|---|
| Deck queue (`api.py:391-677`, deck tables) | per deck: `status`, `claimed_at`, `updated_at_utc`, card list | `post_decks`, `claim_decks`, `submit_decks` (`_submit_regular`, `_submit_singleton`, `_mark_error`) | handlers of many workers interleave; leases run out under a live worker; requests outlive the client's timeout; decks change on Moxfield between search, fetch and submission; statements of two transactions interleave | a claim can always expire; nothing but a newer stamp undoes `done`; a done deck is not older than its stamp; its list is one submission's | `DeckLifecycle`, `DeckQueue`, `SubmitTx` |
| Sweep cycle (`api.py:263-384`, `card_format_status`) | per unit: `swept`, `ever_swept`, `claimed_at` | `claim_sweep` (claim, drain check, reset, claim), `complete_sweep` | the claim handler is three transactions and a read per format; a reset runs among live sweeps; completions come late or from a worker that lost its lease; the card map may be missing | one holder per lease; `ever_swept` only for covered units; every unit is swept again and again | `SweepCycle` |
| Discovery (`node.py:105-143`) | page number, mode | search, post, complete | stop signals, failing requests, early exit, a listing that changes while it is read | a full sweep misses nothing; an incremental one catches up | `Discovery` |
| Main loop (`node.py:70-101`) | what the worker does next | sweep, else fetch, else wait | sweeps come first, formats have priorities, the cycle waits for the queue | every queued deck settles, every edit on a first page is fetched | `Scraper` |
| Fetch path (`node.py:147-185`, `moxfield_client.py`) | batch, failure count, 429 count | `_fetch`, `_fetch_one`, `_get_json` | nested retry loops, stop signals in the middle, documents that break the parser | each deck is reported once; requests per deck are bounded; what is reported is the deck's own doing | `FetchWorker` |
| Rate limiter (`ratelimiter.py`) | tokens, time of the last refill | `acquire` | threads race for tokens and sleep outside the lock | the budget in any window; somebody always gets on | `TokenBucket` |
| Cards (`cards.py`, `scraping/seed_cards.py`, trigger in V1) | cards, units, two dictionaries | seed, `load`, restart | seedings and loads overlap, fail, work from old files | one row per name, ids of the map are the table's, every legal card has its units | `CardMap` |
| Deck payloads (`constants/moxfield.py`, `constants/mtg.py`) | none | parsing, bucketing into arrays | duplicate rows, quantities, boards | the stored multiset is the deck | - |
| Connection pool (`db.py`) | one pool | borrow, return | lazy initialisation | - | - |
| Shell: auth, health, logging, migrations, scripts, environment | none | - | - | - | - |

`PROJECT.json` lists the hazards of this code line by line, with the properties
that would catch each of them going wrong.

## 2. Modules

Each component has a module `X.tla` and a module `MCX.tla` with the constants of its
small instances; all but the abstract `DeckLifecycle` have a module `XProofs.tla` with the theorems. Operators named
*Mistaken form* in a comment are not part of a specification: each is a slip one
could make in the definition after it, and shows that a property notices.

```
  DeckLifecycle  <--- implemented by ---  DeckQueue, commits of SubmitTx
  DeckQueue      <--- extended by    ---  Scraper
  SweepCycle        the cycle's transactions; Discovery, the pages of one sweep
  FetchWorker       the batch of one worker;  TokenBucket, the limiter it calls
  CardMap           the cards and units SweepCycle takes as given
```

### DeckLifecycle

What the deck tables promise whoever calls them: the stage of a deck (`absent`,
`queued`, `done`, `error`) and the stamp the table shows, moved by `Post` (a first
post or a newer stamp queues the deck, any stamp is overwritten) and `Report`
(outcomes; a done deck stays done, an error may still turn into done). There are no
claims, leases, workers or transactions in it.

### DeckQueue

`status`, `updatedAt`, `cards`, `claimAge` are the columns of the deck tables of
all formats; `cards[d]` is the version of the deck whose list is stored. A deck on
Moxfield is a version number, and its version is also its `lastUpdatedAtUtc`
stamp. `claimAge` is the age of `claimed_at` in ticks and saturates one tick past
the lease. `page`, `todo`, `failed`, `got` are what a worker holds between its
requests, `late` the submissions whose client gave up on them.

| action | code |
|---|---|
| `SearchPage` | the worker reads a page (`node.py:112-123`); a stub may lack a stamp |
| `PostDecks` | `post_decks` with the upsert (`api.py:395-456`) |
| `ClaimDecks` | `claim_decks` (`api.py:463-505`); `locked` is what `SKIP LOCKED` passes over |
| `FetchOk`, `FetchFails` | one deck of the batch (`node.py:152-160`) |
| `Submit`, `SubmitOnStop` | `submit_decks` (`api.py:621-677`); `bad` are decks whose savepoint is rolled back; on a stop the deck in hand is reported as an error |
| `SubmitTimesOut`, `LateSubmit` | the 60 s timeout of `api_client.py:51`, the API executes the request later |
| `Abandon` | the process dies, or a request fails and the worker starts over |
| `Edit`, `Tick` | the environment |

A handler is one action because it is one transaction; what the statements of two
overlapping transactions do to each other is SubmitTx's subject. A post that
outlives its client is covered by a worker that holds its page for long.
`ImplementsLifecycle` maps `discovered` and `claimed` to `queued` and states that
every step is one of DeckLifecycle or leaves its variables alone.

### SubmitTx

The same handlers statement by statement, under READ COMMITTED. `status`, `stamp`
and `list` are committed; `row` and `wrote` are what a transaction has written and
therefore locked, `results` what it will answer about its decks. `list[d][c]` names the submission that wrote row `c` of deck `d`'s
list, so rows of different submissions can be told apart.

| action | code |
|---|---|
| `SelectDeck` | `SELECT id, status`, skipping a deck that is done (`api.py:519-528`, `561-570`) |
| `BeginDelete`, `DeleteRows` | `DELETE` of the list (`api.py:530`): its rows are those committed when it begins, its wait is for whoever writes one of them |
| `InsertRow`, `EndInsert` | `INSERT ... ON CONFLICT DO UPDATE` row by row (`api.py:532-543`) |
| `UpdateDeck` | the `UPDATE` to done, by id alone (`api.py:546-549`, `582-598`) |
| `SelectError`, `MarkError` | `_mark_error` (`api.py:602-618`); `status <> 'done'` is evaluated on the row as the last writer left it |
| `FailStatement` | `RollBackDeck`, the handler's `except` and `ROLLBACK TO SAVEPOINT` (`api.py:659-666`), when the database fails a statement: it refuses a row of an `INSERT` (`Refused`), or has chosen the request as the victim of a deadlock (`Deadlocked`). When it does so is PostgreSQL's part, not the handler's |
| `UpsertDeck`, `AbortPost` | the upsert of `post_decks` row by row; as the victim of a deadlock the post fails as a whole |
| `Commit`, `Abort` | the end of the transaction |

The order in which a request comes to its decks, and a statement to its rows, is
left open, and so is the victim of a deadlock.

### Scraper

`Worker.run` over DeckQueue's actions and one unit per format: `stage` is the request
the loop makes next, `unit` the format it sweeps, `swept` and `sweepAge` the unit's
columns, `everSwept` what decides between a full and an incremental sweep. `ClaimSweep`
is the whole claim handler, with a drain check that reads DeckQueue's own `status`.
`Search`, `EmptyPage`, `Post`, `CompleteSweep` are the page loop of `_discover`: a format's
listing is sorted by creation (`Born`) and read page by page (`PageOf`), and the sweep ends
at the last page, at an empty one, or, when it is incremental, at a page without new decks
(`CaughtUp`). `ClaimSomeDecks`, `NothingToFetch`, then DeckQueue's `FetchOk`,
`FetchFails`, `Submit` are the fetch path. `StartOver` is a crash or a failed request,
`StopSweep` the stop event before a page. `LoopStep` collects the turns of a healthy
loop, `LoopFault` the others. `LoopTypeOK` says what a worker holds at each request:
a unit during a sweep, a page of that unit's format when it posts, a batch only
beside no sweep.

### SweepCycle

`swept`, `everSwept`, `claimAge` are the table; `pending` is the set of formats
with a deck that is `discovered` or `claimed`, which is all the handler reads of the
deck queue; `mapped` the units whose card is in the API's card map. `phase` follows
a worker through `claim_sweep` (`idle`, `check`, `reset`, `retry`) and through its
sweep (`sweep`, `complete`). The steps of `claim_sweep` are separate actions
(`ClaimSweep`, `NothingToClaim`, `CheckFormat` per SELECT, `ResetSweepCycle`,
`ClaimAgain`) because each commits or reads by itself. A sweep ends by `LastPage`,
`KnownPage` (incremental early exit), `StopSweep` (the stop event, after which
`_discover` still completes) or `AbandonSweep`. `LeaseUnit` leases first and looks
up the name afterwards, as the code does. `SKIP LOCKED` of the claim
(`api.py:278`) is not modelled: a claim that passes over a row which another claim or a
completion is writing finds what it would find right after that one, one that passes
over the rows of a reset what it would find before it. `RestartApi` loses the handlers in
progress and may come up without a card map. Two ghosts record the history:
`coverage` (what sweeps of a unit achieved) and `heldFor` (how long a worker has had
its unit).

### Discovery

`_discover` page by page over a live listing. Decks are numbered in the order of their
creation, by which the search is sorted (`moxfield_client.py:59`); a deck is listed
under each of its cards and known to the format's table once. `Publish`, `Withdraw`,
`MakePublic` and `Edit` change listings between two pages; an edit takes a deck out of the
listings of some cards and into those of others, wherever its creation puts it there; `ReadPage` computes the page of
`PageSize` entries and whether it is the last (`node.py:110-121`, `131-133`), `PostPage`
upserts it and goes on, or stops at a page without new decks in an incremental sweep
(`node.py:123-136`), `CompleteSweep`, `Abort` and `Stop` end the sweep. Which unit is handed out is
SweepCycle's business: an idle worker may get any card, also one that another worker still
sweeps. Ghosts: `owed`, the decks that were listed when the sweep began and are still unknown; `blamed`, the
cards whose listing may have a hole, because one of the named things happened.

### CardMap

The cards table, its units, and the API's map.

| action | code |
|---|---|
| `Release`, `ChangeLegality` | Scryfall's export changes |
| `BeginSeeding` | the download or a cached file (`seed_cards.py`), and the snapshot of the `UPDATE` |
| `UpdateAndInsert` | the `UPDATE` ends (it waits for rows that another seeding holds), then the anti-join `INSERT` of names that no committed row has; ids come from the identity column |
| `Commit` | both become visible, with the units that the trigger `_on_card_insert` adds |
| `SeedFails` | the transaction is rolled back; its ids stay used |
| `BeginLoad`, `FinishLoad` | `CardResolver.load` (`cards.py`): the read, and the swap of the dictionaries later |
| `RestartApi` | the lifespan (`api.py:84` on), with or without the table |

Of a card only its name and one format's legality are kept; an export is a function of
names, since `dedupe_by_name` leaves one entry per name.

### TokenBucket

`acquire` with its lock-protected pass (`Grant` or `Wait`) and the sleep outside
the lock. Tokens are measured in ticks, the time in which they accrue, so the
module needs integers only: a token is `Cost` ticks, the bucket `Capacity` ticks.
A window opened at any moment (`OpenWindow`, ghost) counts what passes.

### FetchWorker

One worker thread in `_fetch`, `_fetch_one` and `_get_json`, with the counters
`fails` (failed attempts of the deck in hand) and `tries` (429s of the request in
hand), the stop event, and the end of the process. Ghosts count the requests of the
deck in hand and, deck by deck, the failures other than 429s (`hard`) and the requests
that ended in a 429 (`throttled`), whatever the loop's own counters do.

## 3. Runs

| run | instance | what it shows |
|---|---|---|
| `deck_queue` | 1 deck, 2 workers, lease 1, 3 versions, 1 late submission | `ClaimedHasLease`, `StaleOnlyIfOvertaken`, `ImplementsLifecycle` |
| `deck_fresh` | 1 deck, 2 workers, 2 versions | `DoneIsFresh` is violated |
| `submit_tx` | 2 submissions and a post over 2 decks (one of a singleton format), lists of up to 3 rows | `DoneListIsTheLast`, `CommitsFollowLifecycle`, `AnswerIsCommitted`, `EveryRequestEnds` |
| `scraper` | 2 decks of one format, pages of 1, 1 worker, 2 versions, lease 0 | `LoopTypeOK`, `LoopSettles`, `FirstPageIsFetched` |
| `sweep_cycle` | 2 units of 2 formats, 2 workers, lease 0, 1 late completion | `LeaseExclusion`, `EverSweptIsExplained`, `EveryUnitIsSweptAgain` |
| `sweep_covered` | 2 units, 2 workers, lease 1 | `EverSweptIsCovered` is violated |
| `discovery` | 4 decks under 2 cards, pages of 2, 2 workers, 1 fault | `FullSweepCovers`, `EveryHoleHasACause`, `CaughtUpWithoutCause` |
| `discovery_gap` | the same without faults | `CaughtUp` is violated |
| `card_map` | 2 names, 2 seeders, 3 ids, 2 loads, 1 change of legality | `OneRowPerName`, `MapIsOfTheTable`, `ReloadCatchesUp`, `LegalCardsHaveUnits` |
| `token_bucket` | 2 threads, 2 tokens of burst, window of 9 ticks | `WindowBound`, `RequestsGoOn` |
| `fetch_worker` | 3 decks, 3 failures, 2 retries of a 429 | `BatchIsPartitioned`, `RequestsBounded`, `ReportIsEarned`, `BatchEnds` |
| `fetch_error` | the same | `ErrorMeansHardFailures` is violated |

Runs of a module with a type invariant check it as well.

**Bounds.**

* `MaxVersion` bounds the edits of a deck: two versions give a copy and
  something newer than it, three a copy, an overtaking stamp and a later page that
  moves the stamp back. Two workers and one late request (`MaxLate`) give three actors on one deck;
  the rows of different decks only meet in a batch, and what a batch does to its
  decks is `FetchWorker`'s and `SubmitTx`'s subject, so batches of one suffice here.
* A lease of 1 separates fresh, due and expired claims; a lease of 0 (an age above 0
  has expired) keeps liveness runs small and still tells held from expired. Ages stop
  at `Lease + 1` because no condition tells older ones apart.
* `SubmitTx`: two decks are what a circle of waits takes, two submissions with
  different lists and an older one in the table are what a mixed list takes, and
  one post meets both of them. Every mix of outcomes is an initial state.
* `Scraper`: two decks and pages of one give a deck on the first page, one that moves
  off it when the other is published, and an early exit above it. With a second format the
  liveness run has millions of states, so that decks of one format wait for those
  of another (`api.py:498`) is in the module and in no run.
* `Discovery`: four decks and pages of two give two full pages, a deck pushed over
  a page's edge, and a whole page of publications during a sweep; two cards are one that
  is swept and one whose sweep makes its decks known. `MaxFaults` bounds aborts,
  stops, withdrawals and edits.
* `CardMap`: three ids let one be lost to a rollback and two names still be
  inserted, or a name be inserted twice; `MaxLoads` of two let one overtake the
  other; one change of legality comes before, between or after two seedings.
* Two units of two formats make the drain check take two reads, between which the
  first format may fill again. `Window` exceeds `Capacity`, so a window can see the
  burst, the refill, and more.

Symmetry is used only where no liveness property is checked.

**Deadlock** is checked everywhere except in the `fetch_*` runs, where a process
that has ended does nothing any more, and in `submit_tx`, where all requests end.

**Fairness.** The clock runs and a running thread goes on with the work it holds:
weak fairness of whole turns of the loop. In `Scraper` that is all: weak fairness of `LoopTick` and of each
worker's `LoopStep`. In `SubmitTx` each request is carried out, as the database runs
the statements of a connection and resolves deadlocks. In
`SweepCycle` a listing ends (`FinishListing`) because Moxfield reports a finite
`totalPages`, and formats drain (`SettleFormat`), which is what `LoopSettles` of
`Scraper` says of the queue. In `TokenBucket` and `FetchWorker` the threads go on. Nothing makes users edit, requests fail or
processes stop. `LoopSettles`, `FirstPageIsFetched` and `EveryUnitIsSweptAgain` assume
that faults stop, since a crash in every batch, or a savepoint that is rolled back
each time, really prevents them. A fault is a step that is no step of the
healthy system: a worker that dies with nothing in hand is none.

## 4. What the violations show

1. `EverSweptIsCovered` (`sweep_covered`): a stop signal during a first sweep leaves
   the page loop and `_discover` completes the sweep all the same (`node.py:110`,
   `139`). The unit is incremental from then on and its older decks stay
   undiscovered, which `api.py:263-266` and the V2 migration rule out.
2. `DoneIsFresh` (`deck_fresh`): a submission fetched before an edit marks the deck
   done after the post that re-queued it (`api.py:527`, `569`), against the intent of
   `api.py:391-394`.
3. `ErrorMeansHardFailures` (`fetch_error`): a stop, or throttling alone, ends in the
   terminal `error` that `config.py:43` reserves for failures other than 429s.
4. `CaughtUp` (`discovery_gap`): an incremental sweep stops at the first page without
   new decks, "caught up to known decks" (`node.py:135`). A sweep of another card can
   have made that page known while older decks of this card are not.

What remains true beside them is checked and proved:
`EverSweptIsExplained` (a stop is the only way to a coverage hole of this kind),
`StaleOnlyIfOvertaken` (a copy in somebody's hands at the re-queuing is the only way
to a stale `done`), `ReportIsEarned` (without a stop, an error has used up its own
deck's failures, 429s included), `EveryHoleHasACause` and `CaughtUpWithoutCause` (the
causes of a gap).

Five more places where the code does less than a comment says came up in the models.
They have no run of their own; the properties state what does hold.

* An edit is seen only where a sweep reads. Listings are sorted by creation
  (`moxfield_client.py:59`) and an incremental sweep stops at the first page without new
  decks, so an edit of a deck behind that page does not re-queue it, though
  `api.py:391-394` speaks of any deck that changed. `FirstPageIsFetched` is about the decks
  of the first page, and TLC violates it without that restriction.
* The reset is not of a drained queue in every interleaving: `claim_sweep` checks in
  one transaction and resets in another (`api.py:326-328`, `config.py:45-47`).
  `EveryUnitIsSweptAgain` and `LeaseExclusion` hold in spite of it.
* The burst equals a second of rate, so one second can see twice the rate
  (`ratelimiter.py:4-6`, `config.py:40`). `WindowBound` is the bound that does hold.
* Two first seedings that overlap insert every name twice, though `cards.py:12-13`
  and `seed_cards.py:8-11` speak of one row per name. `OneRowPerName` holds for
  every later overlap, as each seeding then waits for the other's updated rows.
* Two submissions of one regular deck that overlap can leave rows of the first list
  beside the complete second one: the second `DELETE` does not see rows that were
  inserted after it began. `DoneListIsTheLast` states exactly that.

## 5. Proofs

Every safety property of the passing runs is proved, invariants and action properties,
for every value of the constants. The assumptions on the constants
(`DeckQueueAssumption`, `SubmitTxAssumption`, `SweepCycleAssumption`,
`ScraperAssumption`, `DiscoveryAssumption`, `TokenBucketAssumption`, `FetchWorkerAssumption`,
`CardMapAssumption`) say no more than that counts are naturals, a page has room for a
deck, formats have a place, decks of one format are created one after the other, there are
finitely many card names, and the values that stand for nobody or nothing are no
transactions and no cards. The bounds are
arbitrary, as are the sets of decks, units, workers, threads, requests, names and seeders.

* **DeckQueue.** `TypeCorrect`; `ClaimedHasLeaseCorrect`, inductive as it stands;
  `FreshCorrect`. `StaleOnlyIfOvertaken` is not inductive: a submission writes
  what the worker has in hand. The strengthening `FreshInv` adds that no stamp in the
  tables or on a page is ahead of Moxfield (so a fetch yields a copy no older than
  the stored stamp), that every copy in hand of a deck that was not overtaken may be written, and that
  nobody holds a deck without a row (so a first insert overtakes nobody).
  `ImplementsLifecycleCorrect` is the refinement: `PostImplementsPost` maps a post to
  `Post` with the page's stamps, `SubmitImplementsReport` each of the three forms of a
  submission to `Report`, and every other action leaves stage and stamp alone. It needs
  the type invariant only.
* **SubmitTx.** Everything follows from one invariant, `TxInv`. `OwnInv` says what a
  request has done by itself: a deck it has not come to is clear, and a row
  written as done comes with the whole list. `Exclusive` is the locks: a statement that
  is not blocked writes rows nobody else has written, so the row a transaction holds
  still fits the committed one (`RowInv`): an error only over a deck that is not done, a
  stub computed from the stamp that its commit will replace. From these,
  `CommitsFollowLifecycleCorrect` maps the commit of a submission to one `Report` and that of
  a post to one `Post`. `DoneListIsTheLastCorrect` needs more: outside `overlap` one
  submission works on a deck at a time (`WorkInv`), so what it saw of the list when its
  `DELETE` began is what is there at its commit, and every row it does not write is
  absent (`SeesInv`). The refinement is of steps: here decks are in the queue from the
  start, where DeckLifecycle begins with empty tables.
  `AnswerIsCommittedCorrect` rests on `AnswerInv`: a request notes an answer when it has
  done with the deck and never comes back to it, so what it calls written is a row it still
  holds as done, whatever savepoints of later decks are rolled back, and what it calls failed
  or done before it has not touched. With `OwnInv`, the commit puts just that into the tables.
* **Scraper.** `LoopImplementsQueue`: every turn of the loop is a step of DeckQueue or leaves
  its variables alone, so DeckQueue's theorems hold of the composition
  (`LoopFollowsLifecycle`, `LoopKeepsInvariants`). `LoopTypeCorrect` is about
  what the loop adds.
* **SweepCycle.** `LeaseExclusionCorrect` from `ClaimCoversHolder`: a unit's
  claim is never older than the time its holder has had it, so whoever gets the unit
  finds the claim expired, and hence the earlier holder past its lease.
  `EverSweptIsExplainedCorrect` from `CompletionIsExplained`: a completion under way
  belongs to a unit that was covered or cut, and an incremental sweep to a unit
  with `ever_swept`.
* **Discovery.** Lemmas about listings first: the decks of a listing have the ranks 0 to
  its size less one, each once (`HeightOnto`, by counting: an injection between finite sets
  of one size is onto), a page has a run of `PageSize` ranks, and only the last page ends
  the listing. `SweepInv` has three parts besides the types.
  - `OwedInv`: the decks a sweep still owes lie at or behind the page it is at, since a
    publication pushes decks back and never forward, and whatever moves decks forward (a
    withdrawal, an edit out of the listing) excuses the sweep. At its last page nothing is left,
    which is `FullSweepCoversCorrect`; an incremental sweep that stops early leaves them
    below a known deck, that is, in a hole.
  - `HandInv`: what is listed below a deck of the page in hand is in hand, too, or behind the page.
  - `HoleInv`: right below a known deck an unknown one (an edge of a hole) is always ahead of a
    sweep of the card that will come to it, unless one of the causes is on record. With nobody
    sweeping there is no such edge, hence no hole: `EveryHoleHasACauseCorrect`, and with the
    first part `CaughtUpWithoutCauseCorrect`.
  `EveryHoleHasACause` alone is not inductive: while sweeps are under way there are holes,
  and what matters is that somebody is still bound to fill each of them.
* **CardMap.** Lemmas about the data first: what `SetToSeq` and `RemoveAt` return,
  which rows an insert adds (`NewRowsAre`), what a commit keeps (`CommitKeeps`).
  `TypedRowsCorrect` is the type invariant with `RowsInv`: ids are used once, below
  `nextId`, and the rows a seeding updates are in the table and in its file. On it rest
  - `MapIsOfTheTableCorrect` from `MapInv`: the pairs of the map and of every load
    under way are pairs of the table, which never loses one (`CardsStay`);
  - `ReloadCatchesUpCorrect` from `LoadsInv`: loads that began later have read no
    less, and a load that none has overtaken has read all that was served;
  - `LegalCardsHaveUnitsCorrect` from `UnitsInv`: every file at hand, however old,
    shows a card as it was released unless it has changed since;
  - `OneRowPerNameCorrect` from `FirstCardInv` and `NamesInv`: the card that was
    released first is in every export and in every table that is not empty, so
    two seedings that update anything both update its row, and one of them waits;
    hence one seeding at a time inserts, and only names the table lacks.
* **TokenBucket.** `WindowBoundCorrect` from `SpentAndLeft`: what was spent in the window plus
  what could be spent at once never exceeds the capacity plus the time passed.
* **FetchWorker.** `PartitionCorrect` from what the thread holds at each point;
  `RequestsBoundedCorrect` from `RequestsByRound`, with a small lemma about products;
  `ReportIsEarnedCorrect` from `CountersAgree`: the loop's counter is what the ghosts have
  counted of the deck in hand, and decks that are still to come have no failures.

Only model-checked: the liveness properties (`LoopSettles`, `FirstPageIsFetched`,
`EveryUnitIsSweptAgain`, `EveryRequestEnds`, `RequestsGoOn`, `BatchEnds`), as the prover handles neither
fairness nor ENABLED; and the four violations of section 4, whose counterexamples are
behaviours of small instances.

A `CASE` whose guards overlap has any of the values that apply, while TLC and the code
take the first. The guards of all `CASE` expressions here exclude one another, as no
proof could tell which value is meant otherwise.

## 6. Not modelled, and the plan

Next, most important first:

1. An abstract sweep cycle (hand out each unit once, start over when all are swept and
   the queue is drained) that both `SweepCycle` and the units of `Scraper` implement, as
   the deck queue and its transactions both implement `DeckLifecycle`.
2. A run of `Scraper` with two formats that is small enough for liveness, so that
   starvation by priority is exercised.
3. The conversions of a deck document (`parse_deck_cards`, the expansion into
   `card_ids`, `encode_colors`) as operators against reference definitions, should they ever
   become more than one loop over one document.

Not modelled, and why:

* **Deck contents.** `SubmitTx` keeps which (card, board) rows a list has; quantities,
  boards of singleton lists and colour masks are conversions of one document
  without state. Of several entries with one name `dedupe_by_name` keeps the first:
  which card that is makes no difference to names, ids and units.
* **Connection pool.** Apart from the unsynchronised first use (two requests may
  create a pool each) it has no state of its own.
* **Processes and configuration.** The staggered start of the threads, argument
  parsing, environment files, authentication, probes, logging, migrations and images
  are I/O or run by hand; constants of `config.py` are CONSTANTS of the modules.
* **HTTP.** Clients' timeouts and failures are actions (`SubmitTimesOut`, `Abandon`,
  `CompleteTimesOut`, `StartOver`, `Abort`); headers, streaming and the text of
  requests are not.
* `scraped_at` (it orders rows of one format; the model lets any of them come first)
  and `claimed_by` (written, never read).
* **Pages that are refused on every attempt** (two stubs with one id, an entry of an
  unknown format): `Discovery` takes them as aborts, so a unit that is never swept
  for this reason is outside the liveness properties, which assume that faults stop.
