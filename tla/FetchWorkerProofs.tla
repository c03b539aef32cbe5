--------------------------- MODULE FetchWorkerProofs ---------------------------
(***************************************************************************)
(* Proofs about FetchWorker, for every batch and every retry limit.        *)
(***************************************************************************)
EXTENDS FetchWorker, TLAPS

\* No deck of a batch is reported twice, and none is dropped unless the node was
\* told to stop.
THEOREM PartitionCorrect == Spec => [](BatchIsPartitioned /\ HoldsWhatItShould)
<1> USE DEF BatchIsPartitioned, HoldsWhatItShould
<1>1. Init => BatchIsPartitioned /\ HoldsWhatItShould
  BY DEF Init
<1>2. /\ BatchIsPartitioned /\ HoldsWhatItShould /\ [Next]_vars
      => (BatchIsPartitioned /\ HoldsWhatItShould)'
  <2> SUFFICES ASSUME BatchIsPartitioned, HoldsWhatItShould, [Next]_vars
               PROVE  (BatchIsPartitioned /\ HoldsWhatItShould)'
    OBVIOUS
  <2>1. ASSUME NEW claimed \in SUBSET Decks, ClaimBatch(claimed)
        PROVE  (BatchIsPartitioned /\ HoldsWhatItShould)'
    BY <2>1 DEF ClaimBatch
  <2>2. ASSUME NEW d \in Decks, NextDeck(d) PROVE (BatchIsPartitioned /\ HoldsWhatItShould)'
    BY <2>2 DEF NextDeck
  <2>3. CASE EndBatch
    BY <2>3 DEF EndBatch, Through
  <2>4. CASE Attempt
    BY <2>4 DEF Attempt
  <2>5. CASE GiveUp
    BY <2>5 DEF GiveUp
  <2>6. CASE FetchOk
    BY <2>6 DEF FetchOk
  <2>7. CASE HardFailure
    BY <2>7 DEF HardFailure, AfterFailure
  <2>8. CASE FetchBreaks
    BY <2>8 DEF FetchBreaks
  <2>9. CASE Throttled
    BY <2>9 DEF Throttled, RetryLeft, AfterFailure
  <2>10. CASE BackedOff
    BY <2>10 DEF BackedOff
  <2>11. CASE SubmitBatch
    BY <2>11 DEF SubmitBatch
  <2>12. CASE StopSignal
    BY <2>12 DEF StopSignal
  <2>13. CASE ProcessEnds
    BY <2>13 DEF ProcessEnds
  <2>14. CASE UNCHANGED vars
    BY <2>14 DEF vars
  <2> QED BY <2>1, <2>2, <2>3, <2>4, <2>5, <2>6, <2>7, <2>8, <2>9, <2>10, <2>11, <2>12,
             <2>13, <2>14 DEF Next, Step
<1> QED BY <1>1, <1>2, PTL DEF Spec

\* The type invariant, with the counters within their limits: no path starts a
\* request with its failures or its 429 retries used up, and the counter of the
\* loop is the count of the deck in hand.
TypeInv == /\ TypeOK
           /\ CountersAgree
           /\ pc \in {"request", "backoff"} => fails < MaxFails
           /\ pc = "backoff" => tries < Backoffs

\* One more failure of the deck in hand is counted for it and for no other.
LEMMA CountedOnce ==
    ASSUME NEW count \in [Decks -> 0..MaxFails], NEW d \in Decks, inHand = {d},
           count[d] < MaxFails
    PROVE  /\ Counted(count) \in [Decks -> 0..MaxFails]
           /\ Counted(count)[d] = count[d] + 1
           /\ \A e \in Decks \ {d} : Counted(count)[e] = count[e]
<1>1. \A e \in Decks : Counted(count)[e] = IF e \in inHand THEN count[e] + 1 ELSE count[e]
  BY DEF Counted
<1>2. \A e \in Decks : count[e] \in 0..MaxFails
  OBVIOUS
<1>3. ASSUME NEW e \in Decks
      PROVE  (IF e \in inHand THEN count[e] + 1 ELSE count[e]) \in 0..MaxFails
  <2>1. count[e] \in 0..MaxFails /\ MaxFails \in Nat
    BY <1>2, FetchWorkerAssumption
  <2>2. CASE e = d
    <3>1. count[e] < MaxFails
      BY <2>2
    <3> QED BY <2>1, <3>1
  <2>3. CASE e # d
    <3>1. e \notin inHand
      BY <2>3
    <3> QED BY <2>1, <3>1
  <2> QED BY <2>2, <2>3
<1>4. Counted(count) \in [Decks -> 0..MaxFails]
  BY <1>3 DEF Counted
<1> QED BY <1>1, <1>4

\* A failed round keeps the counters in step, whatever it is counted under.
LEMMA FailureCounted ==
    ASSUME TypeInv, BatchIsPartitioned, pc = "request", pc' = "attempt", fails' = fails + 1,
           UNCHANGED <<batch, left, inHand, tries, errors, fetched, stop>>,
           sent' \in Nat,
           \/ hard' = Counted(hard) /\ throttled' = throttled
           \/ hard' = hard /\ throttled' = Counted(throttled)
    PROVE  TypeInv'
<1>1. PICK d \in Decks : inHand = {d} /\ fails = hard[d] + throttled[d]
  BY DEF TypeInv, CountersAgree
<1>2. /\ hard \in [Decks -> 0..MaxFails] /\ throttled \in [Decks -> 0..MaxFails]
      /\ hard[d] \in 0..MaxFails /\ throttled[d] \in 0..MaxFails
      /\ fails \in 0..MaxFails /\ fails < MaxFails /\ MaxFails \in Nat
  BY FetchWorkerAssumption DEF TypeInv, TypeOK
<1>3. hard[d] < MaxFails /\ throttled[d] < MaxFails
  BY <1>1, <1>2
<1>4. /\ hard' \in [Decks -> 0..MaxFails] /\ throttled' \in [Decks -> 0..MaxFails]
      /\ hard'[d] + throttled'[d] = fails + 1
      /\ \A e \in Decks \ {d} : hard'[e] = hard[e] /\ throttled'[e] = throttled[e]
  <2>1. CASE hard' = Counted(hard) /\ throttled' = throttled
    BY <1>1, <1>2, <1>3, <2>1, CountedOnce
  <2>2. CASE hard' = hard /\ throttled' = Counted(throttled)
    BY <1>1, <1>2, <1>3, <2>2, CountedOnce
  <2> QED BY <2>1, <2>2
<1>5. CountersAgree'
  <2>1. \A e \in Decks \ (inHand \cup errors \cup fetched) : hard[e] = 0 /\ throttled[e] = 0
    BY DEF TypeInv, CountersAgree
  <2> QED BY <1>1, <1>4, <2>1 DEF CountersAgree
<1>6. TypeOK'
  BY <1>2, <1>4 DEF TypeInv, TypeOK, Points
<1> QED BY <1>5, <1>6 DEF TypeInv

\* The counters stay within their limits and belong to the deck in hand.
THEOREM TypeInvCorrect == Spec => []TypeInv
<1> USE FetchWorkerAssumption
<1>1. Init => TypeInv
  <2> SUFFICES ASSUME Init PROVE TypeInv
    OBVIOUS
  <2>1. stop \in BOOLEAN
    BY Zenon DEF Init
  <2>2. NoFailures \in [Decks -> 0..MaxFails] /\ \A d \in Decks : NoFailures[d] = 0
    BY DEF NoFailures
  <2> QED BY <2>1, <2>2 DEF Init, TypeInv, TypeOK, CountersAgree, Points
<1>2. TypeInv /\ BatchIsPartitioned /\ [Next]_vars => TypeInv'
  <2> SUFFICES ASSUME TypeInv, BatchIsPartitioned, [Next]_vars PROVE TypeInv'
    OBVIOUS
  <2>0. sent \in Nat /\ sent + 1 \in Nat
    BY DEF TypeInv, TypeOK
  <2>1. ASSUME NEW claimed \in SUBSET Decks, ClaimBatch(claimed) PROVE TypeInv'
    BY <2>1 DEF ClaimBatch, ghosts, TypeInv, TypeOK, CountersAgree, Points
  <2>2. ASSUME NEW d \in Decks, NextDeck(d) PROVE TypeInv'
    <3>1. /\ pc = "next" /\ pc' = "attempt" /\ d \in left /\ left' = left \ {d}
          /\ inHand' = {d} /\ fails' = 0 /\ sent' = 0
          /\ UNCHANGED <<batch, tries, errors, fetched, stop, hard, throttled>>
      BY <2>2 DEF NextDeck, FailsAtFirst
    <3>2. \A e \in Decks \ (inHand \cup errors \cup fetched) : hard[e] = 0 /\ throttled[e] = 0
      BY <3>1 DEF TypeInv, CountersAgree
    <3>3. inHand = {} /\ d \notin errors \cup fetched
      BY <3>1 DEF BatchIsPartitioned, TypeInv, CountersAgree
    <3>4. CountersAgree'
      BY <3>1, <3>2, <3>3 DEF CountersAgree
    <3>5. TypeOK'
      BY <3>1 DEF TypeInv, TypeOK, Points
    <3> QED BY <3>1, <3>4, <3>5 DEF TypeInv
  <2>3. CASE EndBatch
    <3>1. pc = "next" /\ pc' \in {"idle", "submit"} /\ (pc' = "idle" => errors = {} /\ fetched = {})
      BY <2>3 DEF EndBatch
    <3> QED BY <2>3, <3>1 DEF EndBatch, ghosts, TypeInv, TypeOK, CountersAgree, Points
  <2>4. CASE Attempt
    <3>1. fails < MaxFails
      BY <2>4 DEF Attempt, UsedUp, TypeInv, TypeOK
    <3> QED BY <2>4, <3>1 DEF Attempt, ghosts, TypeInv, TypeOK, CountersAgree, Points
  <2>5. CASE GiveUp
    BY <2>5 DEF GiveUp, ghosts, TypeInv, TypeOK, CountersAgree, Points
  <2>6. CASE FetchOk
    BY <2>0, <2>6 DEF FetchOk, TypeInv, TypeOK, CountersAgree, Points
  <2>7. CASE HardFailure
    BY <2>0, <2>7, FailureCounted DEF HardFailure, AfterFailure
  <2>8. CASE FetchBreaks
    BY <2>0, <2>8 DEF FetchBreaks, TypeInv, TypeOK, CountersAgree, Points
  <2>9. CASE Throttled
    <3>1. CASE RetryLeft
      <4>1. tries < Backoffs
        BY <3>1 DEF RetryLeft
      <4>2. /\ pc = "request" /\ pc' = "backoff" /\ sent' = sent + 1
            /\ UNCHANGED <<fails, throttled, batch, left, inHand, tries, errors, fetched, stop, hard>>
        BY <2>9, <3>1 DEF Throttled
      <4> QED BY <2>0, <4>1, <4>2 DEF TypeInv, TypeOK, CountersAgree, Points
    <3>2. CASE ~RetryLeft
      BY <2>0, <2>9, <3>2, FailureCounted DEF Throttled, AfterFailure
    <3> QED BY <3>1, <3>2
  <2>10. CASE BackedOff
    <3>1. tries + 1 \in 0..Backoffs
      BY <2>10 DEF BackedOff, TypeInv, TypeOK
    <3> QED BY <2>10, <3>1 DEF BackedOff, ghosts, TypeInv, TypeOK, CountersAgree, Points
  <2>11. CASE SubmitBatch
    <3>1. NoFailures \in [Decks -> 0..MaxFails] /\ \A d \in Decks : NoFailures[d] = 0
      BY DEF NoFailures
    <3>2. inHand = {}
      BY <2>11 DEF SubmitBatch, BatchIsPartitioned
    <3> QED BY <2>11, <3>1, <3>2 DEF SubmitBatch, TypeInv, TypeOK, CountersAgree, Points
  <2>12. CASE StopSignal
    BY <2>12 DEF StopSignal, ghosts, TypeInv, TypeOK, CountersAgree, Points
  <2>13. CASE ProcessEnds
    BY <2>13 DEF ProcessEnds, ghosts, TypeInv, TypeOK, CountersAgree, Points
  <2>14. CASE UNCHANGED vars
    BY <2>14 DEF vars, ghosts, TypeInv, TypeOK, CountersAgree, Points
  <2> QED BY <2>1, <2>2, <2>3, <2>4, <2>5, <2>6, <2>7, <2>8, <2>9, <2>10, <2>11, <2>12,
             <2>13, <2>14 DEF Next, Step
<1> QED BY <1>1, <1>2, PartitionCorrect, PTL DEF Spec

\* The part of it that is the type invariant.
THEOREM TypeCorrect == Spec => []TypeOK
BY TypeInvCorrect, PTL DEF TypeInv

\* A round more is a whole round of requests more.
LEMMA OneMoreRound ==
    ASSUME NEW n \in Nat
    PROVE  (n + 1) * (Backoffs + 1) = n * (Backoffs + 1) + Backoffs + 1
BY FetchWorkerAssumption

\* Rounds of requests add up in order.
LEMMA RoundsMonotone ==
    ASSUME NEW n \in Nat, n <= MaxFails
    PROVE  /\ n * (Backoffs + 1) <= MaxFails * (Backoffs + 1)
           /\ n * (Backoffs + 1) \in Nat /\ MaxFails * (Backoffs + 1) \in Nat
BY FetchWorkerAssumption

\* A deck never costs more than MaxFails rounds of requests, so a deck that can
\* never be fetched uses a bounded share of the node's budget.
THEOREM RequestsBoundedCorrect == Spec => []RequestsBounded
<1>1. Init => RequestsBounded /\ RequestsByRound
  BY FetchWorkerAssumption, RoundsMonotone DEF Init, RequestsBounded, RequestsByRound
<1>2. TypeInv /\ TypeInv' /\ RequestsBounded /\ RequestsByRound /\ [Next]_vars
        => RequestsBounded' /\ RequestsByRound'
  <2> SUFFICES ASSUME TypeInv, TypeInv', RequestsBounded, RequestsByRound, [Next]_vars
               PROVE  RequestsBounded' /\ RequestsByRound'
    OBVIOUS
  <2> DEFINE R == Backoffs + 1
             done == fails * R
             all == MaxFails * R
  <2>0. /\ fails \in Nat /\ tries \in 0..Backoffs /\ sent \in Nat
        /\ R \in Nat /\ done \in Nat /\ all \in Nat
    BY FetchWorkerAssumption, RoundsMonotone DEF TypeInv, TypeOK
  <2>1. pc = "request" => sent + 1 <= all
    <3> SUFFICES ASSUME pc = "request" PROVE sent + 1 <= all
      OBVIOUS
    <3>1. fails + 1 \in Nat /\ fails + 1 <= MaxFails
      BY FetchWorkerAssumption DEF TypeInv, TypeOK
    <3>2. (fails + 1) * R <= all /\ (fails + 1) * R = done + Backoffs + 1
      BY <2>0, <3>1, RoundsMonotone, OneMoreRound
    <3>3. sent <= done + tries
      BY DEF RequestsByRound
    <3> HIDE DEF done, all, R
    <3> QED BY <2>0, <3>2, <3>3, FetchWorkerAssumption
  <2>2. pc = "request" => sent + 1 <= (fails + 1) * R
    <3>1. (fails + 1) * R = done + Backoffs + 1
      BY <2>0, OneMoreRound
    <3>2. pc = "request" => sent <= done + tries
      BY DEF RequestsByRound
    <3> HIDE DEF done, all, R
    <3> QED BY <2>0, <3>1, <3>2, FetchWorkerAssumption
  <2>3. CASE HardFailure \/ (Throttled /\ pc' = "attempt")
    <3>1. /\ pc = "request" /\ pc' = "attempt"
          /\ sent' = sent + 1 /\ fails' = fails + 1
      BY <2>3 DEF HardFailure, Throttled, AfterFailure, RetryLeft
    <3>2. sent' <= all /\ sent' <= fails' * R
      BY <2>1, <2>2, <3>1
    <3> QED BY <3>1, <3>2 DEF RequestsBounded, RequestsByRound
  <2>4. CASE Throttled /\ pc' = "backoff"
    <3>1. pc = "request" /\ sent' = sent + 1 /\ UNCHANGED <<fails, tries>>
      BY <2>4 DEF Throttled
    <3>2. sent' <= done + tries + 1
      <4>1. sent <= done + tries
        BY <3>1 DEF RequestsByRound
      <4> HIDE DEF done
      <4> QED BY <2>0, <3>1, <4>1
    <3> QED BY <2>1, <2>4, <3>1, <3>2 DEF RequestsBounded, RequestsByRound
  <2>5. CASE FetchOk \/ FetchBreaks
    <3>1. pc = "request" /\ sent' = sent + 1 /\ pc' \in {"next", "dead"}
      BY <2>5 DEF FetchOk, FetchBreaks
    <3> QED BY <2>1, <3>1 DEF RequestsBounded, RequestsByRound
  <2>6. CASE Attempt
    <3>1. /\ pc = "attempt" /\ pc' = "request" /\ tries' = 0 /\ UNCHANGED <<fails, sent>>
      BY <2>6 DEF Attempt, ghosts
    <3>2. sent <= done + 0
      <4>1. sent <= done
        BY <3>1 DEF RequestsByRound
      <4> HIDE DEF done
      <4> QED BY <2>0, <4>1
    <3> QED BY <3>1, <3>2 DEF RequestsBounded, RequestsByRound
  <2>7. CASE BackedOff
    <3>1. /\ pc = "backoff" /\ pc' = "request" /\ tries' = tries + 1 /\ UNCHANGED <<fails, sent>>
      BY <2>7 DEF BackedOff, ghosts
    <3>2. sent <= done + (tries + 1)
      <4>1. sent <= done + tries + 1
        BY <3>1 DEF RequestsByRound
      <4> HIDE DEF done
      <4> QED BY <2>0, <4>1
    <3> QED BY <3>1, <3>2 DEF RequestsBounded, RequestsByRound
  <2>8. ASSUME NEW d \in Decks, NextDeck(d) PROVE RequestsBounded' /\ RequestsByRound'
    <3>1. pc' = "attempt" /\ sent' = 0 /\ fails' = 0 /\ 0 <= 0 * R
      BY <2>8, FetchWorkerAssumption DEF NextDeck, FailsAtFirst
    <3> QED BY <2>0, <3>1 DEF RequestsBounded, RequestsByRound
  <2>9. CASE \/ \E claimed \in SUBSET Decks : ClaimBatch(claimed)
             \/ EndBatch \/ GiveUp \/ SubmitBatch \/ ProcessEnds
    BY <2>9 DEF ClaimBatch, EndBatch, GiveUp, SubmitBatch, ProcessEnds, ghosts,
                RequestsBounded, RequestsByRound
  <2>10. CASE StopSignal \/ UNCHANGED vars
    BY <2>10 DEF StopSignal, vars, ghosts, RequestsBounded, RequestsByRound
  <2>11. CASE Throttled
    BY <2>3, <2>4, <2>11 DEF Throttled
  <2> QED BY <2>3, <2>5, <2>6, <2>7, <2>8, <2>9, <2>10, <2>11 DEF Next, Step
<1> QED BY <1>1, <1>2, TypeInvCorrect, PTL DEF Spec

\* A deck given up without a stop has failed MaxFails times by itself, and one
\* fetched fewer times: no failure of a deck is carried over to the next.
THEOREM ReportIsEarnedCorrect == Spec => []ReportIsEarned
<1> USE DEF ReportIsEarned
<1>1. Init => ReportIsEarned
  BY DEF Init
<1>2. /\ TypeInv /\ BatchIsPartitioned /\ BatchIsPartitioned' /\ ReportIsEarned /\ [Next]_vars
      => ReportIsEarned'
  <2> SUFFICES ASSUME TypeInv, BatchIsPartitioned, ReportIsEarned, [Next]_vars
               PROVE  ReportIsEarned'
    OBVIOUS
  <2>0. /\ errors \in SUBSET Decks /\ fetched \in SUBSET Decks
        /\ inHand \cap (errors \cup fetched) = {}
    BY DEF TypeInv, TypeOK, BatchIsPartitioned
  <2>1. CASE GiveUp
    <3>1. PICK d \in Decks : inHand = {d} /\ fails = hard[d] + throttled[d]
      BY <2>1 DEF GiveUp, TypeInv, CountersAgree
    <3>2. fails >= MaxFails \/ stop
      BY <2>1 DEF GiveUp, UsedUp
    <3> QED BY <2>1, <3>1, <3>2 DEF GiveUp, ghosts
  <2>2. CASE FetchOk
    <3>1. PICK d \in Decks : inHand = {d} /\ fails = hard[d] + throttled[d]
      BY <2>2 DEF FetchOk, TypeInv, CountersAgree
    <3>2. fails < MaxFails
      BY <2>2 DEF FetchOk, TypeInv
    <3> QED BY <2>2, <3>1, <3>2 DEF FetchOk
  <2>3. CASE HardFailure
    <3>1. /\ errors' = errors /\ fetched' = fetched /\ stop' = stop
          /\ hard' = Counted(hard) /\ throttled' = throttled
      BY <2>3 DEF HardFailure
    <3>2. \A d \in errors \cup fetched : hard'[d] = hard[d]
      BY <2>0, <3>1 DEF Counted
    <3> QED BY <3>1, <3>2
  <2>4. CASE Throttled
    <3>1. /\ errors' = errors /\ fetched' = fetched /\ stop' = stop
          /\ hard' = hard /\ throttled' \in {throttled, Counted(throttled)}
      BY <2>4 DEF Throttled
    <3>2. \A d \in errors \cup fetched : throttled'[d] = throttled[d]
      BY <2>0, <3>1 DEF Counted
    <3> QED BY <3>1, <3>2
  <2>5. CASE SubmitBatch
    BY <2>5 DEF SubmitBatch
  <2>6. CASE StopSignal
    BY <2>6 DEF StopSignal, ghosts
  <2>7. CASE \/ \E claimed \in SUBSET Decks : ClaimBatch(claimed)
             \/ \E d \in Decks : NextDeck(d)
             \/ EndBatch \/ Attempt \/ FetchBreaks \/ BackedOff \/ ProcessEnds \/ UNCHANGED vars
    BY <2>7 DEF ClaimBatch, NextDeck, EndBatch, Attempt, FetchBreaks, BackedOff, ProcessEnds,
                vars, ghosts
  <2> QED BY <2>1, <2>2, <2>3, <2>4, <2>5, <2>6, <2>7 DEF Next, Step
<1> QED BY <1>1, <1>2, TypeInvCorrect, PartitionCorrect, PTL DEF Spec
=============================================================================
