------------------------------ MODULE SweepCycle ------------------------------
(***************************************************************************)
(* The sweep cycle: the table card_format_status, whose rows are the units *)
(* (card, format) of discovery, the handlers POST /sweeps/claim and        *)
(* /sweeps/complete, and the workers that sweep a unit, page by page.      *)
(*                                                                         *)
(* claim_sweep is not atomic: it commits a claim that found nothing, reads *)
(* the deck tables format by format, resets the cycle and claims again,    *)
(* and requests of other workers run between these steps.  Each of them is *)
(* an action here.                                                         *)
(*                                                                         *)
(* Of the deck queue only what the handler reads is kept: which formats    *)
(* have a deck that is discovered or claimed (pending).  Of a listing on   *)
(* Moxfield only where the sweep leaves it is kept: at its end, at a page  *)
(* without new decks, or earlier.                                          *)
(***************************************************************************)
EXTENDS Integers, FiniteSets

CONSTANTS
    Units,       \* rows of card_format_status
    LastFormat,  \* formats are 1..LastFormat, in the order of FORMATS
    FormatOf,    \* unit |-> its format
    Workers,     \* worker threads, of any number of nodes
    NoUnit,      \* what a worker without a unit sweeps
    Lease,       \* clock ticks a lease lasts
    MaxLate      \* bound: completions that outlive their worker's patience

Formats == 1..LastFormat

ASSUME SweepCycleAssumption ==
    /\ LastFormat \in Nat \ {0}
    /\ FormatOf \in [Units -> Formats]
    /\ NoUnit \notin Units
    /\ {Lease, MaxLate} \subseteq Nat

VARIABLES
    swept,      \* units with swept = TRUE
    everSwept,  \* units with ever_swept = TRUE
    claimAge,   \* unit |-> ticks since claimed_at, Never for NULL
    pending,    \* formats with a deck that is discovered or claimed
    mapped,     \* units whose card is in the API's in-memory card map
    phase,      \* worker |-> where its loop, or the handler it called, stands
    job,        \* worker |-> the unit it sweeps, or NoUnit
    mode,       \* worker |-> "full" or "incremental" ("full" without a unit)
    scan,       \* worker |-> the format its claim handler looks at next
    late,       \* units whose completion the client stopped waiting for
    coverage,   \* ghost: unit |-> "full" once a sweep of it reached the end of
                \* its listing, else "cut" once a stop ended a full sweep early
    heldFor     \* ghost: worker |-> ticks since it was given its unit

table  == <<swept, everSwept, claimAge>>
ghosts == <<coverage, heldFor>>
vars   == <<table, pending, mapped, phase, job, mode, scan, late, ghosts>>

Never == Lease + 2   \* older than any claim: NULLS FIRST

Phases   == {"idle", "check", "reset", "retry", "sweep", "complete"}
Handling == {"check", "reset", "retry"}   \* inside the claim handler

Busy(w) == phase[w] \in {"sweep", "complete"}

\* Mistaken forms of Expired: the lease ends a tick early; it never ends.
ExpiredEarly(u) == claimAge[u] >= Lease
ExpiredNever(u) == claimAge[u] = Never

\* claimed_at IS NULL OR claimed_at < NOW() - lease
Expired(u) == claimAge[u] > Lease

Eligible == {u \in Units \ swept : Expired(u)}

\* ORDER BY ever_swept, claimed_at NULLS FIRST.  card_id, the last key, is not
\* modelled: any unit that is first by the two others may be taken.
Before(u, v) == \/ u \notin everSwept /\ v \in everSwept
                \/ (u \in everSwept <=> v \in everSwept) /\ claimAge[u] > claimAge[v]

FirstEligible == {u \in Eligible : \A v \in Eligible : ~Before(v, u)}

Init ==
    /\ swept = {} /\ everSwept = {}
    /\ claimAge = [u \in Units |-> Never]
    /\ pending = {}
    /\ mapped \in {{}, Units}
    /\ phase = [w \in Workers |-> "idle"]
    /\ job = [w \in Workers |-> NoUnit]
    /\ mode = [w \in Workers |-> "full"]
    /\ scan = [w \in Workers |-> 1]
    /\ late = {}
    /\ coverage = [u \in Units |-> "none"]
    /\ heldFor = [w \in Workers |-> 0]

\* Back to the top of the worker's loop.
BackToIdle(w) ==
    /\ phase'   = [phase EXCEPT ![w] = "idle"]
    /\ job'     = [job EXCEPT ![w] = NoUnit]
    /\ mode'    = [mode EXCEPT ![w] = "full"]
    /\ scan'    = [scan EXCEPT ![w] = 1]
    /\ heldFor' = [heldFor EXCEPT ![w] = 0]

(***************************************************************************)
(* POST /sweeps/claim.                                                     *)
(***************************************************************************)
\* The lease is committed before the name of the card is looked up: a unit
\* whose card is not in the map stays leased and the worker gets nothing.
LeaseUnit(w, u) ==
    /\ claimAge' = [claimAge EXCEPT ![u] = 0]
    /\ IF u \in mapped
       THEN /\ phase' = [phase EXCEPT ![w] = "sweep"]
            /\ job'   = [job EXCEPT ![w] = u]
            /\ mode'  = [mode EXCEPT ![w] = IF u \in everSwept THEN "incremental" ELSE "full"]
            /\ scan'  = [scan EXCEPT ![w] = 1]
            /\ heldFor' = [heldFor EXCEPT ![w] = 0]
       ELSE BackToIdle(w)
    /\ UNCHANGED <<swept, everSwept, pending, mapped, late, coverage>>

\* SKIP LOCKED is not modelled: a claim that passes over a row which another
\* claim or a completion is writing finds what it would find after that one, and
\* one that passes over the rows of a reset what it would find before it.
ClaimSweep(w) ==
    /\ phase[w] = "idle"
    /\ \E u \in FirstEligible : LeaseUnit(w, u)

NothingToClaim(w) ==
    /\ phase[w] = "idle"
    /\ Eligible = {}
    /\ phase' = [phase EXCEPT ![w] = "check"]
    /\ UNCHANGED <<table, pending, mapped, job, mode, scan, late, ghosts>>

\* Mistaken form: one format too many.
ScannedPast(w) == scan[w] > LastFormat

\* The format under scan is the last.
ScannedAll(w) == scan[w] = LastFormat

\* One SELECT of _deck_queue_drained.
CheckFormat(w) ==
    /\ phase[w] = "check"
    /\ \/ /\ scan[w] \in pending
          /\ BackToIdle(w)
       \/ /\ scan[w] \notin pending /\ ~ScannedAll(w)
          /\ scan' = [scan EXCEPT ![w] = @ + 1]
          /\ UNCHANGED <<phase, job, mode, heldFor>>
       \/ /\ scan[w] \notin pending /\ ScannedAll(w)
          /\ phase' = [phase EXCEPT ![w] = "reset"]
          /\ UNCHANGED <<job, mode, scan, heldFor>>
    /\ UNCHANGED <<table, pending, mapped, late, coverage>>

ResetSweepCycle(w) ==
    /\ phase[w] = "reset"
    /\ swept' = {}
    /\ phase' = [phase EXCEPT ![w] = "retry"]
    /\ UNCHANGED <<everSwept, claimAge, pending, mapped, job, mode, scan, late, ghosts>>

ClaimAgain(w) ==
    /\ phase[w] = "retry"
    /\ \/ \E u \in FirstEligible : LeaseUnit(w, u)
       \/ /\ Eligible = {}
          /\ BackToIdle(w)
          /\ UNCHANGED <<table, pending, mapped, late, coverage>>

(***************************************************************************)
(* The sweep.  queued is the set of formats to which the posted page adds  *)
(* work: the unit's own or none.                                           *)
(***************************************************************************)
PostsTo(w, queued) ==
    /\ phase[w] = "sweep"
    /\ queued \subseteq {FormatOf[job[w]]}
    /\ pending' = pending \cup queued

\* A page that is not the last.
PostPage(w, queued) ==
    /\ PostsTo(w, queued)
    /\ UNCHANGED <<table, mapped, phase, job, mode, scan, late, ghosts>>

LastPage(w, queued) ==
    /\ PostsTo(w, queued)
    /\ phase'    = [phase EXCEPT ![w] = "complete"]
    /\ coverage' = [coverage EXCEPT ![job[w]] = "full"]
    /\ UNCHANGED <<table, mapped, job, mode, scan, late, heldFor>>

\* Mistaken form: full sweeps stop at known decks as well.
MayExitAlways(w) == TRUE

MayExitEarly(w) == mode[w] = "incremental"

\* No new deck on the page.  Known decks of it may have been re-queued.
KnownPage(w, queued) ==
    /\ MayExitEarly(w)
    /\ PostsTo(w, queued)
    /\ phase' = [phase EXCEPT ![w] = "complete"]
    /\ UNCHANGED <<table, mapped, job, mode, scan, late, ghosts>>

\* The stop event ends the loop over the pages, and _discover goes on to
\* complete the sweep.
StopSweep(w) ==
    /\ phase[w] = "sweep"
    /\ phase'    = [phase EXCEPT ![w] = "complete"]
    /\ coverage' = IF mode[w] = "full" /\ coverage[job[w]] = "none"
                   THEN [coverage EXCEPT ![job[w]] = "cut"] ELSE coverage
    /\ UNCHANGED <<table, pending, mapped, job, mode, scan, late, heldFor>>

\* MoxfieldError, a failed request to the API, or the death of the process.
AbandonSweep(w) ==
    /\ Busy(w)
    /\ BackToIdle(w)
    /\ UNCHANGED <<table, pending, mapped, late, coverage>>

(***************************************************************************)
(* POST /sweeps/complete.  The card's name must still be in the map; who   *)
(* completes, and when, is not checked.                                    *)
(***************************************************************************)
MarkSwept(u) ==
    /\ swept'     = IF u \in mapped THEN swept \cup {u} ELSE swept
    /\ everSwept' = IF u \in mapped THEN everSwept \cup {u} ELSE everSwept

CompleteSweep(w) ==
    /\ phase[w] = "complete"
    /\ MarkSwept(job[w])
    /\ BackToIdle(w)
    /\ UNCHANGED <<claimAge, pending, mapped, late, coverage>>

CompleteTimesOut(w) ==
    /\ phase[w] = "complete"
    /\ Cardinality(late) < MaxLate
    /\ late' = late \cup {job[w]}
    /\ BackToIdle(w)
    /\ UNCHANGED <<table, pending, mapped, coverage>>

LateComplete(u) ==
    /\ u \in late
    /\ MarkSwept(u)
    /\ late' = late \ {u}
    /\ UNCHANGED <<claimAge, pending, mapped, phase, job, mode, scan, ghosts>>

(***************************************************************************)
(* Around it: the deck queue, the card map, the API process and the clock. *)
(***************************************************************************)
\* The last queued deck of a format is submitted.
SettleFormat(f) ==
    /\ f \in pending
    /\ pending' = pending \ {f}
    /\ UNCHANGED <<table, mapped, phase, job, mode, scan, late, ghosts>>

ReloadCards ==
    /\ mapped' = Units
    /\ UNCHANGED <<table, pending, phase, job, mode, scan, late, ghosts>>

\* The API starts even when it cannot load the card map.  Requests it was
\* handling are lost, and the workers that made them start over.
RestartApi(map) ==
    /\ map \in {{}, Units}
    /\ mapped' = map
    /\ phase'  = [w \in Workers |-> IF phase[w] \in Handling THEN "idle" ELSE phase[w]]
    /\ scan'   = [w \in Workers |-> 1]
    /\ late'   = {}
    /\ UNCHANGED <<table, pending, job, mode, ghosts>>

\* Ages stop at Lease + 1: no condition tells older claims apart.
Aged(age) == IF age <= Lease THEN age + 1 ELSE age

Tick ==
    /\ claimAge' = [u \in Units |-> Aged(claimAge[u])]
    /\ heldFor'  = [w \in Workers |-> IF Busy(w) THEN Aged(heldFor[w]) ELSE heldFor[w]]
    /\ UNCHANGED <<swept, everSwept, pending, mapped, phase, job, mode, scan, late,
                   coverage>>

\* The steps of a system in which nothing goes wrong.
Healthy ==
    \/ Tick
    \/ ReloadCards
    \/ \E f \in Formats : SettleFormat(f)
    \/ \E u \in late : LateComplete(u)
    \/ \E w \in Workers :
         \/ ClaimSweep(w)
         \/ NothingToClaim(w)
         \/ CheckFormat(w)
         \/ ResetSweepCycle(w)
         \/ ClaimAgain(w)
         \/ \E queued \in SUBSET Formats :
               PostPage(w, queued) \/ LastPage(w, queued) \/ KnownPage(w, queued)
         \/ CompleteSweep(w)

Next ==
    \/ Healthy
    \/ \E map \in {{}, Units} : RestartApi(map)
    \/ \E w \in Workers : StopSweep(w) \/ AbandonSweep(w) \/ CompleteTimesOut(w)

Spec == Init /\ [][Next]_vars

(***************************************************************************)
(* Fairness: the clock runs, a running worker goes on, the handler it      *)
(* called finishes, a listing on Moxfield is finite, and the decks of a    *)
(* format are settled in the end (Scraper's LoopSettles).                  *)
(***************************************************************************)
FinishListing(w) ==
    \E queued \in SUBSET Formats : LastPage(w, queued) \/ KnownPage(w, queued)

Fairness ==
    /\ WF_vars(Tick)
    /\ \A f \in Formats : WF_vars(SettleFormat(f))
    /\ \A w \in Workers :
         /\ WF_vars(ClaimSweep(w) \/ NothingToClaim(w))
         /\ WF_vars(CheckFormat(w) \/ ResetSweepCycle(w) \/ ClaimAgain(w))
         /\ WF_vars(FinishListing(w))
         /\ WF_vars(CompleteSweep(w))

FairSpec == Spec /\ Fairness
-----------------------------------------------------------------------------
(***************************************************************************)
(* Properties.                                                             *)
(***************************************************************************)

\* The type invariant.
TypeOK ==
    /\ swept \in SUBSET Units /\ everSwept \in SUBSET Units
    /\ claimAge \in [Units -> 0..Never]
    /\ pending \in SUBSET Formats
    /\ mapped \in SUBSET Units
    /\ phase \in [Workers -> Phases]
    /\ job \in [Workers -> Units \cup {NoUnit}]
    /\ \A w \in Workers : Busy(w) <=> job[w] # NoUnit
    /\ mode \in [Workers -> {"full", "incremental"}]
    /\ scan \in [Workers -> Formats]
    /\ late \in SUBSET Units
    /\ coverage \in [Units -> {"none", "cut", "full"}]
    /\ heldFor \in [Workers -> 0..(Lease + 1)]

\* Two workers sweep the same unit only if one of them has had it for longer
\* than the lease: neither completion, nor a late one, nor the reset of the
\* cycle, nor a restart hands a unit out twice within its lease.
LeaseExclusion ==
    \A v, w \in Workers :
        (v # w /\ Busy(v) /\ Busy(w) /\ job[v] = job[w])
            => heldFor[v] > Lease \/ heldFor[w] > Lease

\* What makes it inductive: the row's claim is never older than the time its
\* holder has had the unit.
ClaimCoversHolder == \A w \in Workers : Busy(w) => claimAge[job[w]] <= heldFor[w]

\* ever_swept is set only for a unit whose listing some sweep read to the end
\* or whose full sweep was cut short by a stop signal.  A crash, an aborted
\* sweep, an early exit of an incremental sweep, a lost or late completion and
\* an API restart never set it for a unit that was not covered.
EverSweptIsExplained == \A u \in everSwept : coverage[u] # "none"

\* What makes it inductive.
CompletionIsExplained ==
    /\ \A u \in late : coverage[u] # "none"
    /\ \A w \in Workers : phase[w] = "complete" => coverage[job[w]] # "none"
    /\ \A w \in Workers : Busy(w) /\ mode[w] = "incremental" => job[w] \in everSwept

\* What api.py and the V2 migration promise: an interrupted first sweep leaves
\* no coverage hole, so ever_swept is set only for units that were covered.
EverSweptIsCovered == \A u \in everSwept : coverage[u] = "full"

\* What a healthy system does not keep on doing.  A fault that looks like one
\* of its own steps (a restart that only cuts short a claim which found
\* nothing) is none.
Fault ==
    \/ \E map \in {{}, Units} : RestartApi(map)
    \/ \E w \in Workers : StopSweep(w) \/ AbandonSweep(w) \/ CompleteTimesOut(w)

FaultsStop == <>[][Fault => Healthy]_vars

\* Once faults stop and the card map is complete, every unit is swept again and
\* again: the claim order starves no unit, and the reset of the cycle neither
\* comes too early for a unit nor fails to come.
EveryUnitIsSweptAgain ==
    (FaultsStop /\ <>[](mapped = Units))
        => \A u \in Units : []<>(u \in swept) /\ []<>(u \notin swept)
=============================================================================
