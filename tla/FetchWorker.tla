------------------------------ MODULE FetchWorker ------------------------------
(***************************************************************************)
(* One worker thread of a node fetching the batches of decks it claims:    *)
(* _fetch, the retry loop _fetch_one, and under it the Moxfield client,    *)
(* which retries a 429 by itself with a growing backoff.  The node's stop  *)
(* event may be set at any moment; the process ends some time after that,  *)
(* whatever the thread is doing.                                           *)
(*                                                                         *)
(* The order of the decks in a batch is not modelled.  A claim that fails  *)
(* or brings nothing, and the sweeps between the batches, leave the        *)
(* variables below alone.                                                  *)
(***************************************************************************)
EXTENDS Integers

CONSTANTS
    Decks,     \* the decks a batch is made of
    MaxFails,  \* MAX_DECK_FETCH_FAILS
    Backoffs   \* len(_BACKOFF): how often a 429 is retried

ASSUME FetchWorkerAssumption ==
    /\ MaxFails \in Nat \ {0}
    /\ Backoffs \in Nat

VARIABLES
    pc,       \* where the thread stands
    batch,    \* the batch it claimed
    left,     \* decks of the batch the loop has not come to
    inHand,   \* the deck _fetch_one works on (a set of at most one)
    fails,    \* its failures so far
    tries,    \* attempt_429 of the request in progress
    errors,   \* decks reported with error=True
    fetched,  \* decks reported with their cards
    stop,     \* the node's stop event
    sent,     \* ghost: requests sent for the deck in hand
    hard,     \* ghost: deck of the batch |-> its failures other than 429s
    throttled \* ghost: deck of the batch |-> its requests that ended in a 429
              \* with no retry left

ghosts == <<sent, hard, throttled>>
vars   == <<pc, batch, left, inHand, fails, tries, errors, fetched, stop, ghosts>>

Points == {"idle", "next", "attempt", "request", "backoff", "submit", "dead"}

NoFailures == [d \in Decks |-> 0]

\* One more failure of the deck in hand.
Counted(count) == [d \in Decks |-> IF d \in inHand THEN count[d] + 1 ELSE count[d]]

Init ==
    /\ pc = "idle"
    /\ batch = {} /\ left = {} /\ inHand = {}
    /\ fails = 0 /\ tries = 0
    /\ errors = {} /\ fetched = {}
    /\ stop = FALSE
    /\ sent = 0
    /\ hard = NoFailures /\ throttled = NoFailures

\* The main loop: while not stopped, claim a batch and fetch it.
ClaimBatch(claimed) ==
    /\ pc = "idle" /\ ~stop
    /\ claimed # {}
    /\ pc' = "next"
    /\ batch' = claimed /\ left' = claimed
    /\ UNCHANGED <<inHand, fails, tries, errors, fetched, stop, ghosts>>

\* Mistaken form: the loop breaks at the first deck that fails.
ThroughAtError == left = {} \/ stop \/ errors # {}

\* The loop over the batch has come to its end, or to the break at a stop.
Through == left = {} \/ stop

\* Mistaken form: the count goes on from the deck before.
FailsCarriedOver == fails

FailsAtFirst == 0

NextDeck(d) ==
    /\ pc = "next" /\ ~Through
    /\ d \in left
    /\ pc' = "attempt"
    /\ left' = left \ {d} /\ inHand' = {d}
    /\ fails' = FailsAtFirst /\ sent' = 0
    /\ UNCHANGED <<batch, tries, errors, fetched, stop, hard, throttled>>

\* The batch is through, or the stop event breaks the loop over it.  A worker
\* that has nothing to report submits nothing.
EndBatch ==
    /\ pc = "next"
    /\ Through
    /\ pc' = IF errors \cup fetched = {} THEN "idle" ELSE "submit"
    /\ UNCHANGED <<batch, left, inHand, fails, tries, errors, fetched, stop, ghosts>>

(***************************************************************************)
(* _fetch_one.                                                             *)
(***************************************************************************)
UsedUp == fails >= MaxFails

Attempt ==
    /\ pc = "attempt"
    /\ ~UsedUp /\ ~stop
    /\ pc' = "request"
    /\ tries' = 0
    /\ UNCHANGED <<batch, left, inHand, fails, errors, fetched, stop, ghosts>>

\* Mistaken form: the deck is put back to the end of the batch, to start anew.
GiveUpForNow ==
    /\ pc = "attempt"
    /\ UsedUp \/ stop
    /\ pc' = "next"
    /\ left' = left \cup inHand /\ inHand' = {}
    /\ hard' = NoFailures /\ throttled' = NoFailures
    /\ UNCHANGED <<batch, fails, tries, errors, fetched, stop, sent>>

\* The loop's condition is false, for one reason or the other: no cards.
GiveUp ==
    /\ pc = "attempt"
    /\ UsedUp \/ stop
    /\ pc' = "next"
    /\ errors' = errors \cup inHand /\ inHand' = {}
    /\ UNCHANGED <<batch, left, fails, tries, fetched, stop, ghosts>>

(***************************************************************************)
(* The Moxfield client: _get_json sends a request through the limiter.     *)
(***************************************************************************)
FetchOk ==
    /\ pc = "request"
    /\ pc' = "next"
    /\ fetched' = fetched \cup inHand
    /\ inHand' = {}
    /\ sent' = sent + 1
    /\ UNCHANGED <<batch, left, fails, tries, errors, stop, hard, throttled>>

\* Mistaken form: the failure is not counted.
AfterFailureUncounted == fails

AfterFailure == fails + 1

\* Mistaken form: one retry too many.
RetryPastEnd == tries <= Backoffs

RetryLeft == tries < Backoffs

\* Network error, HTTP error other than 429, invalid JSON: MoxfieldError.
HardFailure ==
    /\ pc = "request"
    /\ pc' = "attempt"
    /\ fails' = AfterFailure
    /\ sent' = sent + 1 /\ hard' = Counted(hard)
    /\ UNCHANGED <<batch, left, inHand, tries, errors, fetched, stop, throttled>>

\* A document of an unexpected shape: parse_deck_cards raises what nobody
\* catches, and the thread is gone.  Its batch is left to the lease.
FetchBreaks ==
    /\ pc = "request"
    /\ pc' = "dead"
    /\ sent' = sent + 1
    /\ UNCHANGED <<batch, left, inHand, fails, tries, errors, fetched, stop, hard, throttled>>

\* A 429 is retried after a pause that the stop event does not cut short; when
\* the retries are used up it is a MoxfieldError like any other.
Throttled ==
    /\ pc = "request"
    /\ sent' = sent + 1
    /\ \/ /\ RetryLeft
          /\ pc' = "backoff"
          /\ UNCHANGED <<fails, throttled>>
       \/ /\ ~RetryLeft
          /\ pc' = "attempt"
          /\ fails' = AfterFailure /\ throttled' = Counted(throttled)
    /\ UNCHANGED <<batch, left, inHand, tries, errors, fetched, stop, hard>>

BackedOff ==
    /\ pc = "backoff"
    /\ pc' = "request"
    /\ tries' = tries + 1
    /\ UNCHANGED <<batch, left, inHand, fails, errors, fetched, stop, ghosts>>

\* The report is sent and the batch forgotten, whether the API took it or not:
\* decks of a lost report are claimed again when their lease runs out.
SubmitBatch ==
    /\ pc = "submit"
    /\ pc' = "idle"
    /\ batch' = {} /\ left' = {} /\ errors' = {} /\ fetched' = {}
    /\ hard' = NoFailures /\ throttled' = NoFailures
    /\ UNCHANGED <<inHand, fails, tries, stop, sent>>

(***************************************************************************)
(* The node: SIGTERM sets the event, and the process waits only so long.   *)
(***************************************************************************)
StopSignal ==
    /\ ~stop
    /\ stop' = TRUE
    /\ UNCHANGED <<pc, batch, left, inHand, fails, tries, errors, fetched, ghosts>>

ProcessEnds ==
    /\ stop /\ pc # "dead"
    /\ pc' = "dead"
    /\ UNCHANGED <<batch, left, inHand, fails, tries, errors, fetched, stop, ghosts>>

Step ==
    \/ \E claimed \in SUBSET Decks : ClaimBatch(claimed)
    \/ \E d \in Decks : NextDeck(d)
    \/ EndBatch
    \/ Attempt \/ GiveUp
    \/ FetchOk \/ HardFailure \/ FetchBreaks \/ Throttled \/ BackedOff
    \/ SubmitBatch

Next == Step \/ StopSignal \/ ProcessEnds

Spec == Init /\ [][Next]_vars

\* The thread runs; a signal need not come, nor the process end.
FairSpec == Spec /\ WF_vars(Step)
-----------------------------------------------------------------------------
(***************************************************************************)
(* Properties.                                                             *)
(***************************************************************************)

\* The type invariant.
TypeOK ==
    /\ pc \in Points
    /\ batch \in SUBSET Decks /\ left \in SUBSET Decks /\ inHand \in SUBSET Decks
    /\ fails \in 0..MaxFails /\ tries \in 0..Backoffs
    /\ errors \in SUBSET Decks /\ fetched \in SUBSET Decks
    /\ stop \in BOOLEAN
    /\ sent \in Nat
    /\ hard \in [Decks -> 0..MaxFails] /\ throttled \in [Decks -> 0..MaxFails]

\* Each deck of the batch is at one place: still to come, in hand, reported as
\* an error, or reported with cards.  So a report never names a deck twice or
\* a deck of another batch, and only decks the stop event cut off are missing.
BatchIsPartitioned ==
    /\ batch = left \cup inHand \cup errors \cup fetched
    /\ left \cap (inHand \cup errors \cup fetched) = {}
    /\ inHand \cap (errors \cup fetched) = {}
    /\ errors \cap fetched = {}
    /\ pc = "submit" => inHand = {} /\ (left = {} \/ stop)

\* What makes it inductive: what the thread holds where it stands.
HoldsWhatItShould ==
    /\ pc \in {"idle", "next"} => inHand = {}
    /\ pc = "idle" => errors = {} /\ fetched = {}

\* One deck costs at most MaxFails rounds of Backoffs + 1 requests, however
\* failures and 429s alternate.
RequestsBounded == sent <= MaxFails * (Backoffs + 1)

\* What makes it inductive: the requests of the finished rounds and of this one.
RequestsByRound ==
    LET finished == fails * (Backoffs + 1) IN
    /\ pc = "attempt" => sent <= finished
    /\ pc = "request" => sent <= finished + tries
    /\ pc = "backoff" => sent <= finished + tries + 1

\* What config.py and _fetch_one's docstring say: a deck is reported as an error
\* after MAX_DECK_FETCH_FAILS failures other than 429s.
ErrorMeansHardFailures == \A d \in errors : hard[d] >= MaxFails

\* What the report says of a deck comes from that deck's own failures, however
\* those of the decks before it went: without a stop, one that is given up has
\* failed MaxFails times, 429s without a retry left included, and one that is
\* fetched fewer times.
ReportIsEarned ==
    /\ \A d \in errors  : hard[d] + throttled[d] >= MaxFails \/ stop
    /\ \A d \in fetched : hard[d] + throttled[d] < MaxFails

\* What makes it inductive: the counter of the loop is the count of the deck in
\* hand, and decks to come have none.
CountersAgree ==
    /\ pc \in {"attempt", "request", "backoff"} =>
           \E d \in Decks : inHand = {d} /\ fails = hard[d] + throttled[d]
    /\ pc # "dead" => \A d \in Decks \ (inHand \cup errors \cup fetched) :
                         hard[d] = 0 /\ throttled[d] = 0
    /\ pc = "idle" => inHand = {} /\ errors = {} /\ fetched = {}
    /\ pc = "next" => inHand = {}

\* A batch in work ends: no mix of failures, throttling and stop events keeps a
\* worker in it for ever.
BatchEnds == (pc # "idle") ~> (pc \in {"idle", "dead"})
=============================================================================
