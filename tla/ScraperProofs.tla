---------------------------- MODULE ScraperProofs ----------------------------
(***************************************************************************)
(* Proofs about Scraper: the main loop is a way to use the deck queue, so  *)
(* that what DeckQueueProofs proves is true of it, and a worker holds what *)
(* the request it makes next is about.                                     *)
(***************************************************************************)
EXTENDS Scraper, DeckQueueProofs

(***************************************************************************)
(* The loop implements the deck queue.                                     *)
(***************************************************************************)

\* Every turn of the loop, healthy or not, is a step of the deck queue or
\* leaves it alone.
LEMMA TurnIsQueueStep ==
    ASSUME NEW w \in Workers, LoopStep(w) \/ LoopFault(w)
    PROVE  [Next]_vars
<1>1. ASSUME NEW unstamped \in SUBSET PageRead(w), Search(w, unstamped) PROVE Next
  <2>1. PageRead(w) \in SUBSET Decks
    BY DEF PageRead, Listing
  <2> QED BY <1>1, <2>1 DEF Search, Next
<1>2. CASE ClaimSweep(w) \/ EmptyPage(w) \/ CompleteSweep(w) \/ NothingToFetch(w)
           \/ StopSweep(w)
  BY <1>2 DEF ClaimSweep, EmptyPage, CompleteSweep, NothingToFetch, StopSweep
<1>3. CASE Post(w)
  BY <1>3 DEF Post, Next
<1>4. CASE ClaimSomeDecks(w)
  BY <1>4 DEF ClaimSomeDecks, Next
<1>5. CASE Fetch(w)
  BY <1>5 DEF Fetch, Next
<1>6. ASSUME NEW bad \in SUBSET Decks, Submit(w, bad) PROVE Next
  BY <1>6 DEF Next
<1>7. ASSUME NEW inHand \in SUBSET Decks, NEW bad \in SUBSET Decks,
             SubmitOnStop(w, inHand, bad)
      PROVE  Next
  BY <1>7 DEF Next
<1>8. CASE StartOver(w)
  BY <1>8 DEF StartOver, Next
<1>9. {} \in SUBSET PageRead(w) /\ {} \in SUBSET Decks
  OBVIOUS
<1> QED BY <1>1, <1>2, <1>3, <1>4, <1>5, <1>6, <1>7, <1>8, <1>9 DEF LoopStep, LoopFault

\* A worker that takes sweeps before fetches, completes what it stopped and
\* starts over after failures uses the deck queue as DeckQueue allows: the
\* composition adds no behaviour of the deck tables.
THEOREM LoopImplementsQueue == LoopSpec => Spec
<1>1. LoopInit => Init
  BY DEF LoopInit
<1>2. [LoopNext]_allVars => [Next]_vars
  <2>1. CASE LoopTick
    BY <2>1 DEF LoopTick, Next
  <2>2. ASSUME NEW d \in Decks, EditInOrder(d) PROVE Next
    BY <2>2 DEF EditInOrder, Next
  <2>3. ASSUME NEW w \in Workers, LoopStep(w) \/ LoopFault(w) PROVE [Next]_vars
    BY <2>3, TurnIsQueueStep
  <2>4. CASE UNCHANGED allVars
    BY <2>4 DEF allVars
  <2> QED BY <2>1, <2>2, <2>3, <2>4 DEF LoopNext
<1> QED BY <1>1, <1>2, PTL DEF LoopSpec, Spec

\* Hence the main loop, too, moves the deck tables as DeckLifecycle promises.
THEOREM LoopFollowsLifecycle == LoopSpec => ImplementsLifecycle
BY LoopImplementsQueue, ImplementsLifecycleCorrect

\* In the loop, too, every claimed deck comes back when its lease runs out, and a
\* done deck is stale only if it was overtaken.
THEOREM LoopKeepsInvariants ==
    LoopSpec => /\ []ClaimedHasLease
                /\ []StaleOnlyIfOvertaken
BY LoopImplementsQueue, ClaimedHasLeaseCorrect, FreshCorrect
-----------------------------------------------------------------------------
(***************************************************************************)
(* What a worker holds at each request.                                    *)
(***************************************************************************)
Stages == {"claim_sweep", "search", "post", "complete", "claim_decks"}

Shapes == /\ stage \in [Workers -> Stages]
          /\ unit \in [Workers -> Formats \cup {NoFormat}]
          /\ pageNo \in [Workers -> Nat]
          /\ full \subseteq Workers /\ last \subseteq Workers
          /\ swept \subseteq Formats /\ everSwept \subseteq Formats
          /\ sweepAge \in [Formats -> 0..(Lease + 1)]

HandFits(w) ==
    /\ unit[w] # NoFormat <=> stage[w] \in {"search", "post", "complete"}
    /\ Listed(w) # {} <=> stage[w] = "post"
    /\ \A d \in Listed(w) : Rank[d] = unit[w]
    /\ Batch(w) # {} => stage[w] = "claim_sweep"

\* The parts of LoopTypeOK.
LEMMA Parts == LoopTypeOK <=> Shapes /\ \A w \in Workers : HandFits(w)
BY DEF LoopTypeOK, Shapes, Stages, HandFits

\* Positions of formats are naturals, so none of them is NoFormat.
LEMMA FormatsAreReal == NoFormat \notin Formats /\ 0 \in 0..(Lease + 1)
BY DeckQueueAssumption DEF NoFormat, Formats

\* An idle worker holds no page and no decks.
LEMMA IdleHoldsNothing ==
    ASSUME NEW w \in Workers, Idle(w)
    PROVE  Listed(w) = {} /\ Batch(w) = {}
BY DEF Idle, Listed, Batch, NoPage, NoCopies

\* What a worker holds is in four variables.
HandSame(w) == /\ page'[w] = page[w] /\ todo'[w] = todo[w]
               /\ failed'[w] = failed[w] /\ got'[w] = got[w]

\* A worker whose hands and stage stay as they are fits.
LEMMA HandKept ==
    ASSUME NEW w \in Workers, HandFits(w), HandSame(w), stage'[w] = stage[w], unit'[w] = unit[w]
    PROVE  HandFits(w)'
BY DEF HandFits, HandSame, Listed, Batch

\* After its batch is dropped, a worker has no decks.
LEMMA DropEmpties ==
    ASSUME TypeOK, NEW w \in Workers, DropBatch(w)
    PROVE  /\ Batch(w)' = {}
           /\ \A v \in Workers \ {w} : /\ todo'[v] = todo[v] /\ failed'[v] = failed[v]
                                       /\ got'[v] = got[v]
<1>1. todo'[w] = {} /\ failed'[w] = {} /\ got'[w] = NoCopies
  BY DEF DropBatch, TypeOK
<1>2. \A d \in Decks : ~(got'[w][d] > 0)
  BY <1>1 DEF NoCopies
<1>3. Batch(w)' = {}
  BY <1>1, <1>2 DEF Batch
<1> QED BY <1>3 DEF DropBatch, TypeOK

\* A step to another stage changes one entry.
LEMMA GoToDoes ==
    ASSUME Shapes, NEW w \in Workers, NEW next \in Stages, GoTo(w, next)
    PROVE  /\ stage' \in [Workers -> Stages]
           /\ stage'[w] = next /\ \A v \in Workers \ {w} : stage'[v] = stage[v]
BY DEF GoTo, Shapes

\* So does the way back to the top.
LEMMA BackToTopDoes ==
    ASSUME Shapes, NEW w \in Workers, BackToTop(w)
    PROVE  /\ stage' \in [Workers -> Stages] /\ unit' \in [Workers -> Formats \cup {NoFormat}]
           /\ pageNo' \in [Workers -> Nat] /\ full' \subseteq Workers /\ last' \subseteq Workers
           /\ stage'[w] = "claim_sweep" /\ unit'[w] = NoFormat
           /\ \A v \in Workers \ {w} : stage'[v] = stage[v] /\ unit'[v] = unit[v]
<1>1. "claim_sweep" \in Stages
  BY DEF Stages
<1> QED BY <1>1, GoToDoes DEF BackToTop, Shapes

(***************************************************************************)
(* One turn of a worker's loop.                                            *)
(***************************************************************************)
OthersSame(w) == \A v \in Workers \ {w} : /\ HandSame(v)
                                          /\ stage'[v] = stage[v] /\ unit'[v] = unit[v]

\* The request for work.
LEMMA ClaimSweepFits ==
    ASSUME Shapes, NEW w \in Workers, HandFits(w), ClaimSweep(w)
    PROVE  Shapes' /\ HandFits(w)' /\ OthersSame(w)
<1>1. /\ Listed(w) = {} /\ Batch(w) = {} /\ UNCHANGED <<page, todo, failed, got>>
      /\ swept' \subseteq Formats /\ UNCHANGED <<last, everSwept>>
  BY IdleHoldsNothing DEF ClaimSweep, vars, workers, SweptAtClaim, Shapes
<1>2. Listed(w)' = {} /\ Batch(w)' = {}
  BY <1>1 DEF Listed, Batch
<1>3. ASSUME NEW f \in OutOfLease \ SweptAtClaim,
             unit' = [unit EXCEPT ![w] = f], pageNo' = [pageNo EXCEPT ![w] = 1],
             full' = IF f \in everSwept THEN full ELSE full \cup {w},
             sweepAge' = [sweepAge EXCEPT ![f] = 0], GoTo(w, "search")
      PROVE  Shapes' /\ HandFits(w)' /\ OthersSame(w)
  <2>1. f \in Formats /\ f # NoFormat /\ "search" \in Stages
    BY FormatsAreReal DEF OutOfLease, Stages
  <2>2. /\ stage' \in [Workers -> Stages] /\ stage'[w] = "search"
        /\ \A v \in Workers \ {w} : stage'[v] = stage[v]
    BY <1>3, <2>1, GoToDoes
  <2>3. /\ unit' \in [Workers -> Formats \cup {NoFormat}] /\ unit'[w] = f
        /\ \A v \in Workers \ {w} : unit'[v] = unit[v]
    BY <1>3, <2>1 DEF Shapes
  <2>4. /\ sweepAge' \in [Formats -> 0..(Lease + 1)] /\ pageNo' \in [Workers -> Nat]
        /\ full' \subseteq Workers
    BY <1>3, <2>1, FormatsAreReal DEF Shapes
  <2> QED BY <1>1, <1>2, <2>1, <2>2, <2>3, <2>4 DEF Shapes, HandFits, OthersSame, HandSame
<1>4. ASSUME GoTo(w, "claim_decks"), UNCHANGED <<unit, pageNo, full, sweepAge>>
      PROVE  Shapes' /\ HandFits(w)' /\ OthersSame(w)
  <2>1. /\ stage' \in [Workers -> Stages] /\ stage'[w] = "claim_decks"
        /\ \A v \in Workers \ {w} : stage'[v] = stage[v]
    BY <1>4, GoToDoes DEF Stages
  <2>2. unit[w] = NoFormat
    BY DEF ClaimSweep, HandFits
  <2> QED BY <1>1, <1>2, <1>4, <2>1, <2>2 DEF Shapes, HandFits, OthersSame, HandSame
<1> QED BY <1>3, <1>4 DEF ClaimSweep

\* A page in hand shows what is listed of the worker's format.
LEMMA SearchFits ==
    ASSUME TypeOK, Shapes, NEW w \in Workers, HandFits(w),
           NEW unstamped \in SUBSET PageRead(w), Search(w, unstamped)
    PROVE  Shapes' /\ HandFits(w)' /\ OthersSame(w)
<1> DEFINE listed == PageRead(w)
           stubs == [d \in Decks |-> CASE d \notin listed -> Unlisted
                                       [] d \in unstamped -> NoStamp
                                       [] OTHER           -> mox[d]]
<1>1. /\ stage[w] = "search" /\ GoTo(w, "post") /\ UNCHANGED <<unit, pageNo, full>>
      /\ UNCHANGED <<swept, everSwept, sweepAge>> /\ last' \in {last, last \cup {w}}
      /\ Idle(w) /\ page' = [page EXCEPT ![w] = stubs] /\ UNCHANGED <<todo, failed, got>>
      /\ listed # {}
  BY DEF Search, SearchPage, units
<1>2. listed \subseteq Decks /\ \A d \in listed : Rank[d] = unit[w]
  BY DEF PageRead, Listing
<1>3. \A d \in Decks : stubs[d] # Unlisted <=> d \in listed
  <2>1. \A d \in Decks : mox[d] # Unlisted
    BY DeckQueueAssumption DEF TypeOK, Versions, Unlisted
  <2>2. NoStamp # Unlisted
    BY DEF NoStamp, Unlisted
  <2> HIDE DEF listed
  <2>3. unstamped \subseteq listed
    BY DEF listed
  <2> QED BY <2>1, <2>2, <2>3
<1> HIDE DEF listed, stubs
<1>4. page'[w] = stubs /\ \A v \in Workers \ {w} : page'[v] = page[v]
  BY <1>1 DEF TypeOK
<1>5. Listed(w)' = listed
  BY <1>2, <1>3, <1>4 DEF Listed
<1>6. Batch(w)' = {}
  <2>1. Batch(w) = {}
    BY <1>1, IdleHoldsNothing
  <2> QED BY <1>1, <2>1 DEF Batch
<1>7. /\ stage' \in [Workers -> Stages] /\ stage'[w] = "post"
      /\ \A v \in Workers \ {w} : stage'[v] = stage[v]
  BY <1>1, GoToDoes DEF Stages
<1>8. unit'[w] # NoFormat
  BY <1>1 DEF HandFits
<1> QED BY <1>1, <1>2, <1>4, <1>5, <1>6, <1>7, <1>8 DEF Shapes, HandFits, OthersSame, HandSame

\* From a search without a page, or a stop, to the completion of the sweep.
LEMMA SkipFits ==
    ASSUME Shapes, NEW w \in Workers, HandFits(w), EmptyPage(w) \/ StopSweep(w)
    PROVE  Shapes' /\ HandFits(w)' /\ OthersSame(w)
<1>1. /\ stage[w] = "search" /\ GoTo(w, "complete") /\ UNCHANGED <<unit, pageNo, full, last>>
      /\ UNCHANGED <<swept, everSwept, sweepAge>> /\ UNCHANGED <<page, todo, failed, got>>
  BY DEF EmptyPage, StopSweep, vars, workers, sweep, units
<1>2. /\ stage' \in [Workers -> Stages] /\ stage'[w] = "complete"
      /\ \A v \in Workers \ {w} : stage'[v] = stage[v]
  BY <1>1, GoToDoes DEF Stages
<1>3. Listed(w)' = Listed(w) /\ Batch(w)' = Batch(w)
  BY <1>1 DEF Listed, Batch
<1> QED BY <1>1, <1>2, <1>3 DEF Shapes, HandFits, OthersSame, HandSame

\* The post empties the hand.
LEMMA PostFits ==
    ASSUME TypeOK, Shapes, NEW w \in Workers, HandFits(w), Post(w)
    PROVE  Shapes' /\ HandFits(w)' /\ OthersSame(w)
<1>1. /\ stage[w] = "post" /\ UNCHANGED <<unit, full, last, swept, everSwept, sweepAge>>
      /\ page' = [page EXCEPT ![w] = NoPage] /\ UNCHANGED <<todo, failed, got>>
  BY DEF Post, PostDecks, units
<1>2. /\ stage' \in [Workers -> Stages] /\ stage'[w] \in {"complete", "search"}
      /\ \A v \in Workers \ {w} : stage'[v] = stage[v]
      /\ pageNo' \in [Workers -> Nat]
  <2>1. "complete" \in Stages /\ "search" \in Stages
    BY DEF Stages
  <2>2. CASE GoTo(w, "complete") /\ UNCHANGED pageNo
    BY <2>1, <2>2, GoToDoes DEF Shapes
  <2>3. CASE GoTo(w, "search") /\ pageNo' = [pageNo EXCEPT ![w] = @ + 1]
    BY <2>1, <2>3, GoToDoes DEF Shapes
  <2> QED BY <2>2, <2>3 DEF Post
<1>3. page'[w] = NoPage /\ \A v \in Workers \ {w} : page'[v] = page[v]
  BY <1>1 DEF TypeOK
<1>4. Listed(w)' = {} /\ Batch(w)' = Batch(w)
  BY <1>1, <1>3 DEF Listed, Batch, NoPage
<1> QED BY <1>1, <1>2, <1>3, <1>4 DEF Shapes, HandFits, OthersSame, HandSame

\* The completion gives the unit back.
LEMMA CompleteFits ==
    ASSUME Shapes, NEW w \in Workers, HandFits(w), CompleteSweep(w)
    PROVE  Shapes' /\ HandFits(w)' /\ OthersSame(w)
<1>1. /\ stage[w] = "complete" /\ BackToTop(w) /\ UNCHANGED sweepAge
      /\ swept' = swept \cup {unit[w]} /\ everSwept' = everSwept \cup {unit[w]}
      /\ UNCHANGED <<page, todo, failed, got>>
  BY DEF CompleteSweep, vars, workers
<1>2. swept' \subseteq Formats /\ everSwept' \subseteq Formats
  BY <1>1 DEF Shapes, HandFits
<1>3. Listed(w)' = Listed(w) /\ Batch(w)' = Batch(w)
  BY <1>1 DEF Listed, Batch
<1> QED BY <1>1, <1>2, <1>3, BackToTopDoes DEF Shapes, HandFits, OthersSame, HandSame

\* The claim of decks, and a claim that yields none.
LEMMA ClaimDecksFits ==
    ASSUME TypeOK, Shapes, NEW w \in Workers, HandFits(w), ClaimSomeDecks(w) \/ NothingToFetch(w)
    PROVE  Shapes' /\ HandFits(w)' /\ OthersSame(w)
<1>1. /\ stage[w] = "claim_decks" /\ GoTo(w, "claim_sweep")
      /\ UNCHANGED <<unit, pageNo, full, last, swept, everSwept, sweepAge, page, failed, got>>
  BY DEF ClaimSomeDecks, NothingToFetch, ClaimDecks, vars, workers, sweep, units
<1>2. \A v \in Workers \ {w} : todo'[v] = todo[v]
  BY DEF ClaimSomeDecks, NothingToFetch, ClaimDecks, vars, workers, TypeOK
<1>3. /\ stage' \in [Workers -> Stages] /\ stage'[w] = "claim_sweep"
      /\ \A v \in Workers \ {w} : stage'[v] = stage[v]
  BY <1>1, GoToDoes DEF Stages
<1>4. Listed(w)' = Listed(w)
  BY <1>1 DEF Listed
<1> QED BY <1>1, <1>2, <1>3, <1>4 DEF Shapes, HandFits, OthersSame, HandSame

\* Fetches and submissions are of decks in hand.
LEMMA FetchFits ==
    ASSUME TypeOK, Shapes, NEW w \in Workers, HandFits(w), UNCHANGED cycle,
           \/ Fetch(w)
           \/ \E bad \in SUBSET Decks : Submit(w, bad)
           \/ \E inHand, bad \in SUBSET Decks : SubmitOnStop(w, inHand, bad)
    PROVE  Shapes' /\ HandFits(w)' /\ OthersSame(w)
<1>1. UNCHANGED <<page, stage, unit, pageNo, full, last, swept, everSwept, sweepAge>>
  BY DEF cycle, sweep, units, Fetch, FetchOk, FetchFails, Submit, SubmitOnStop
<1>2. Batch(w) # {}
  BY DEF Fetch, FetchOk, FetchFails, Submit, SubmitOnStop, Batch
<1>3. \A v \in Workers \ {w} : todo'[v] = todo[v] /\ failed'[v] = failed[v] /\ got'[v] = got[v]
  <2>1. CASE Fetch(w)
    BY <2>1 DEF Fetch, FetchOk, FetchFails, TypeOK
  <2>2. CASE ~Fetch(w)
    BY <2>2, DropEmpties DEF Submit, SubmitOnStop
  <2> QED BY <2>1, <2>2
<1>4. Listed(w)' = Listed(w)
  BY <1>1 DEF Listed
<1> QED BY <1>1, <1>2, <1>3, <1>4 DEF Shapes, HandFits, OthersSame, HandSame

\* A failure empties the hands.
LEMMA StartOverFits ==
    ASSUME TypeOK, Shapes, NEW w \in Workers, HandFits(w), StartOver(w)
    PROVE  Shapes' /\ HandFits(w)' /\ OthersSame(w)
<1>1. BackToTop(w) /\ UNCHANGED <<swept, everSwept, sweepAge>>
  BY DEF StartOver, units
<1>2. /\ Listed(w)' = {} /\ Batch(w)' = {}
      /\ \A v \in Workers \ {w} : HandSame(v)
  <2>1. CASE Abandon(w)
    <3>1. DropBatch(w) /\ page' = [page EXCEPT ![w] = NoPage]
      BY <2>1 DEF Abandon
    <3>2. page'[w] = NoPage /\ \A v \in Workers \ {w} : page'[v] = page[v]
      BY <3>1 DEF TypeOK
    <3>3. Listed(w)' = {}
      BY <3>2 DEF Listed, NoPage
    <3> QED BY <3>1, <3>2, <3>3, DropEmpties DEF HandSame
  <2>2. CASE Idle(w) /\ UNCHANGED vars
    <3>1. Listed(w) = {} /\ Batch(w) = {} /\ UNCHANGED <<page, todo, failed, got>>
      BY <2>2, IdleHoldsNothing DEF vars, workers
    <3> QED BY <3>1 DEF Listed, Batch, HandSame
  <2> QED BY <2>1, <2>2 DEF StartOver
<1> QED BY <1>1, <1>2, BackToTopDoes DEF Shapes, HandFits, OthersSame

\* Whatever a turn of the loop is.
LEMMA TurnFits ==
    ASSUME TypeOK, Shapes, NEW w \in Workers, HandFits(w), LoopStep(w) \/ LoopFault(w)
    PROVE  Shapes' /\ HandFits(w)' /\ OthersSame(w)
<1>1. {} \in SUBSET PageRead(w) /\ {} \in SUBSET Decks
  OBVIOUS
<1> QED BY <1>1, ClaimSweepFits, SearchFits, SkipFits, PostFits, CompleteFits, ClaimDecksFits,
           FetchFits, StartOverFits DEF LoopStep, LoopFault

\* Each worker holds what the request it makes next is about: no page without a
\* unit, no page of another format, no decks beside a sweep.
THEOREM LoopTypeCorrect == LoopSpec => []LoopTypeOK
<1>1. LoopInit => LoopTypeOK
  <2> SUFFICES ASSUME LoopInit PROVE Shapes /\ \A w \in Workers : HandFits(w)
    BY Parts
  <2>1. Lease + 1 \in 0..(Lease + 1)
    BY DeckQueueAssumption
  <2>2. Shapes
    BY <2>1 DEF LoopInit, Shapes, Stages
  <2>3. ASSUME NEW w \in Workers PROVE HandFits(w)
    <3>1. Idle(w)
      BY DEF LoopInit, Init, Idle
    <3>2. Listed(w) = {} /\ Batch(w) = {}
      BY <3>1, IdleHoldsNothing
    <3> QED BY <3>2 DEF LoopInit, HandFits
  <2> QED BY <2>2, <2>3
<1>2. TypeOK /\ LoopTypeOK /\ [LoopNext]_allVars => LoopTypeOK'
  <2> SUFFICES ASSUME TypeOK, Shapes, \A w \in Workers : HandFits(w), [LoopNext]_allVars
               PROVE  Shapes' /\ \A w \in Workers : HandFits(w)'
    BY Parts DEF LoopTypeOK, Shapes, Stages, HandFits
  <2>1. ASSUME UNCHANGED <<page, todo, failed, got, stage, unit>>
        PROVE  \A w \in Workers : HandFits(w)'
    BY <2>1, HandKept DEF HandSame
  <2>2. CASE LoopTick
    <3>1. UNCHANGED <<page, todo, failed, got, stage, unit, pageNo, full, last, swept, everSwept>>
      BY <2>2 DEF LoopTick, Tick, workers, sweep
    <3>2. sweepAge' \in [Formats -> 0..(Lease + 1)]
      BY <2>2, DeckQueueAssumption DEF LoopTick, Shapes
    <3> QED BY <2>1, <3>1, <3>2 DEF Shapes
  <2>3. ASSUME NEW d \in Decks, EditInOrder(d), UNCHANGED cycle
        PROVE  Shapes' /\ \A w \in Workers : HandFits(w)'
    BY <2>1, <2>3 DEF EditInOrder, Edit, workers, cycle, sweep, units, Shapes
  <2>4. ASSUME NEW w \in Workers, LoopStep(w) \/ LoopFault(w)
        PROVE  Shapes' /\ \A v \in Workers : HandFits(v)'
    <3>1. Shapes' /\ HandFits(w)' /\ OthersSame(w)
      BY <2>4, TurnFits
    <3>2. ASSUME NEW v \in Workers \ {w} PROVE HandFits(v)'
      BY <3>1, HandKept DEF OthersSame
    <3> QED BY <3>1, <3>2
  <2>5. CASE UNCHANGED allVars
    BY <2>1, <2>5 DEF allVars, vars, workers, cycle, sweep, units, Shapes
  <2> QED BY <2>2, <2>3, <2>4, <2>5 DEF LoopNext
<1>3. Spec => []TypeOK
  BY TypeCorrect
<1> QED BY <1>1, <1>2, <1>3, LoopImplementsQueue, PTL DEF LoopSpec
=============================================================================
