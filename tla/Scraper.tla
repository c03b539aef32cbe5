------------------------------- MODULE Scraper -------------------------------
(***************************************************************************)
(* The worker's main loop over the deck queue: discovery first, fetching   *)
(* when there is nothing to sweep, a new sweep cycle when the queue is     *)
(* drained.  It composes DeckQueue, whose actions are the requests about   *)
(* decks, with the units of the sweep cycle.                               *)
(*                                                                         *)
(* One unit per format (Discovery has several cards).  Its listing comes   *)
(* in pages, newest deck first.  The claim of a unit is one step, its      *)
(* transactions are in SweepCycle, and so is the order of the units: any   *)
(* of them may be next.                                                    *)
(***************************************************************************)
EXTENDS DeckQueue

CONSTANTS
    Born,     \* deck |-> its place in the order in which decks are created
    Edited    \* bound: decks that are edited after their creation

ASSUME ScraperAssumption ==
    /\ PageSize > 0
    /\ Born \in [Decks -> Nat]
    /\ \A d, e \in Decks : Rank[d] = Rank[e] /\ Born[d] = Born[e] => d = e
    /\ Edited \subseteq Decks

VARIABLES
    stage,     \* worker |-> the request its loop makes next
    unit,      \* worker |-> the format it sweeps, or NoFormat
    pageNo,    \* worker |-> the page its sweep has come to, 0 without a sweep
    full,      \* workers whose sweep is a full one
    last,      \* workers with the last page of their listing in hand
    swept,     \* formats whose unit is swept in this cycle
    everSwept, \* formats whose unit was ever swept
    sweepAge   \* format |-> ticks since its unit's claimed_at, capped

sweep   == <<unit, pageNo, full, last>>
units   == <<swept, everSwept, sweepAge>>
cycle   == <<stage, sweep, units>>
allVars == <<vars, cycle>>

Formats  == {Rank[d] : d \in Decks}
NoFormat == -1

\* A unit that was never claimed is as good as one whose lease ran out.
LoopInit ==
    /\ Init
    /\ stage = [w \in Workers |-> "claim_sweep"]
    /\ unit = [w \in Workers |-> NoFormat]
    /\ pageNo = [w \in Workers |-> 0]
    /\ full = {} /\ last = {}
    /\ swept = {} /\ everSwept = {}
    /\ sweepAge = [f \in Formats |-> Lease + 1]

OutOfLease == {f \in Formats : sweepAge[f] > Lease}

GoTo(w, next) == stage' = [stage EXCEPT ![w] = next]

\* Mistaken form: the worker goes on with the unit it had.
BackToTopWithUnit(w) == GoTo(w, "claim_sweep") /\ UNCHANGED sweep

BackToTop(w) ==
    /\ GoTo(w, "claim_sweep")
    /\ unit'   = [unit EXCEPT ![w] = NoFormat]
    /\ pageNo' = [pageNo EXCEPT ![w] = 0]
    /\ full'   = full \ {w}
    /\ last'   = last \ {w}

\* The decks of a format are created one after the other.
EditInOrder(d) ==
    /\ mox[d] > 0 => d \in Edited
    /\ \A e \in Decks : Rank[e] = Rank[d] /\ Born[e] < Born[d] => mox[e] > 0
    /\ Edit(d)

(***************************************************************************)
(* POST /sweeps/claim.                                                     *)
(***************************************************************************)
\* Mistaken form: only decks that wait to be claimed count as queued.
DrainedOfDiscovered == \A d \in Decks : status[d] # "discovered"

Drained == \A d \in Decks : ~Queued(d)

\* The units of the cycle the claim looks at: the running one while it has a
\* unit without a lease or the queue is not drained, else a fresh one.
SweptAtClaim ==
    IF OutOfLease \subseteq swept /\ Drained THEN {} ELSE swept

ClaimSweep(w) ==
    /\ stage[w] = "claim_sweep" /\ Idle(w)
    /\ swept' = SweptAtClaim
    /\ \/ \E f \in OutOfLease \ SweptAtClaim :
            /\ unit'     = [unit EXCEPT ![w] = f]
            /\ pageNo'   = [pageNo EXCEPT ![w] = 1]
            /\ full'     = IF f \in everSwept THEN full ELSE full \cup {w}
            /\ sweepAge' = [sweepAge EXCEPT ![f] = 0]
            /\ GoTo(w, "search")
       \/ /\ OutOfLease \subseteq SweptAtClaim
          /\ GoTo(w, "claim_decks")
          /\ UNCHANGED <<unit, pageNo, full, sweepAge>>
    /\ UNCHANGED <<vars, last, everSwept>>

(***************************************************************************)
(* The sweep: page after page is read and posted, then it is completed.    *)
(***************************************************************************)
Listing(f) == {d \in Decks : Rank[d] = f /\ mox[d] > 0}

Above(d)  == {e \in Listing(Rank[d]) : Born[e] > Born[d]}
PageOf(d) == (Cardinality(Above(d)) \div PageSize) + 1

PageRead(w) == {d \in Listing(unit[w]) : PageOf(d) = pageNo[w]}
IsLast(w)   == Cardinality(Listing(unit[w])) <= pageNo[w] * PageSize

Search(w, unstamped) ==
    /\ stage[w] = "search"
    /\ SearchPage(w, PageRead(w), unstamped)
    /\ GoTo(w, "post")
    /\ last' = IF IsLast(w) THEN last \cup {w} ELSE last
    /\ UNCHANGED <<unit, pageNo, full, units>>

EmptyPage(w) ==
    /\ stage[w] = "search" /\ PageRead(w) = {}
    /\ GoTo(w, "complete")
    /\ UNCHANGED <<vars, sweep, units>>

\* An incremental sweep ends at the first page without a new deck.
CaughtUp(w) == w \notin full /\ \A d \in Listed(w) : status[d] # "absent"

Post(w) ==
    /\ stage[w] = "post"
    /\ PostDecks(w)
    /\ \/ /\ w \in last \/ CaughtUp(w)
          /\ GoTo(w, "complete")
          /\ UNCHANGED pageNo
       \/ /\ ~(w \in last \/ CaughtUp(w))
          /\ GoTo(w, "search")
          /\ pageNo' = [pageNo EXCEPT ![w] = @ + 1]
    /\ UNCHANGED <<unit, full, last, units>>

\* The stop event is set: no further page is read, the sweep is completed.
StopSweep(w) ==
    /\ stage[w] = "search"
    /\ GoTo(w, "complete")
    /\ UNCHANGED <<vars, sweep, units>>

CompleteSweep(w) ==
    /\ stage[w] = "complete"
    /\ swept' = swept \cup {unit[w]}
    /\ everSwept' = everSwept \cup {unit[w]}
    /\ BackToTop(w)
    /\ UNCHANGED <<vars, sweepAge>>

(***************************************************************************)
(* POST /decks/claim and what follows.  Either way the loop starts over    *)
(* once the batch is dealt with.                                           *)
(***************************************************************************)
ClaimSomeDecks(w) ==
    /\ stage[w] = "claim_decks"
    /\ \E locked \in SUBSET Contended(w) : ClaimDecks(w, locked)
    /\ GoTo(w, "claim_sweep")
    /\ UNCHANGED <<sweep, units>>

NothingToFetch(w) ==
    /\ stage[w] = "claim_decks"
    /\ Claimable \subseteq Contended(w)
    /\ GoTo(w, "claim_sweep")
    /\ UNCHANGED <<vars, sweep, units>>

\* A crash, or a failed request: the loop starts over.
StartOver(w) ==
    /\ \/ Abandon(w)
       \/ Idle(w) /\ UNCHANGED vars
    /\ BackToTop(w)
    /\ UNCHANGED units

LoopTick ==
    /\ Tick
    /\ sweepAge' = [f \in Formats |-> IF sweepAge[f] <= Lease THEN sweepAge[f] + 1
                                      ELSE sweepAge[f]]
    /\ UNCHANGED <<stage, sweep, swept, everSwept>>

Fetch(w) == \E d \in Decks : FetchOk(w, d) \/ FetchFails(w, d)

\* One turn of a worker's loop in which nothing goes wrong.
LoopStep(w) ==
    \/ ClaimSweep(w)
    \/ Search(w, {})
    \/ EmptyPage(w)
    \/ Post(w)
    \/ CompleteSweep(w)
    \/ ClaimSomeDecks(w)
    \/ NothingToFetch(w)
    \/ (Fetch(w) \/ Submit(w, {})) /\ UNCHANGED cycle

LoopFault(w) ==
    \/ StartOver(w)
    \/ StopSweep(w)
    \/ \E unstamped \in (SUBSET PageRead(w)) \ {{}} : Search(w, unstamped)
    \/ /\ \/ \E bad \in (SUBSET Decks) \ {{}} : Submit(w, bad)
          \/ \E inHand, bad \in SUBSET Decks : SubmitOnStop(w, inHand, bad)
       /\ UNCHANGED cycle

LoopNext ==
    \/ LoopTick
    \/ \E d \in Decks : EditInOrder(d) /\ UNCHANGED cycle
    \/ \E w \in Workers : LoopStep(w) \/ LoopFault(w)

(***************************************************************************)
(* Fairness: the clock runs and a thread goes on, nothing more.            *)
(***************************************************************************)
LoopSpec ==
    /\ LoopInit /\ [][LoopNext]_allVars
    /\ WF_allVars(LoopTick)
    /\ \A w \in Workers : WF_allVars(LoopStep(w))
-----------------------------------------------------------------------------
(***************************************************************************)
(* Properties.                                                             *)
(***************************************************************************)

\* The type invariant.  It includes what a worker holds at each request: a unit
\* from the claim of a sweep to its end, a page of that unit's format when it
\* posts, and decks only when it has no sweep in hand.
LoopTypeOK ==
    /\ stage \in [Workers -> {"claim_sweep", "search", "post", "complete", "claim_decks"}]
    /\ unit \in [Workers -> Formats \cup {NoFormat}]
    /\ pageNo \in [Workers -> Nat]
    /\ full \subseteq Workers /\ last \subseteq Workers
    /\ swept \subseteq Formats /\ everSwept \subseteq Formats
    /\ sweepAge \in [Formats -> 0..(Lease + 1)]
    /\ \A w \in Workers :
         /\ unit[w] # NoFormat <=> stage[w] \in {"search", "post", "complete"}
         /\ Listed(w) # {} <=> stage[w] = "post"
         /\ \A d \in Listed(w) : Rank[d] = unit[w]
         /\ Batch(w) # {} => stage[w] = "claim_sweep"

\* A fault that looks like a step of a healthy loop (a rolled-back savepoint of
\* a deck that is done anyway) is none.
FaultsStop == <>[][\A w \in Workers : LoopFault(w) => LoopStep(w)]_allVars

\* No deck stays in the queue for ever: whatever units come back to a worker
\* (aborted sweeps, expired leases, a new cycle), sweeps do not starve fetches,
\* and decks that are re-queued do not keep the others waiting.
LoopSettles == FaultsStop => \A d \in Decks : Queued(d) ~> Settled(d)

\* Every edit of a deck on the first page of its listing is fetched in the end:
\* when the deck rests, what is stored is its newest version, unless its fetch
\* failed for good.  Crashes, sweeps stopped half-way, lost pages and stubs
\* without a stamp before that leave no such deck behind, and neither does the
\* early exit of incremental sweeps, which hides edits further down.  This is of
\* one worker whose submissions come in time: with two, one that holds an older
\* copy can undo the re-queuing (DoneIsFresh of DeckQueue).
FirstPageIsFetched ==
    FaultsStop => \A d \in Decks :
        <>[](mox[d] > 0 /\ PageOf(d) = 1 => status[d] = "error" \/ cards[d] = mox[d])
=============================================================================
