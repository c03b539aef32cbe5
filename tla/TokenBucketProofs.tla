--------------------------- MODULE TokenBucketProofs ---------------------------
(***************************************************************************)
(* Proofs about TokenBucket, for any number of threads and every rate,     *)
(* burst and window.                                                       *)
(***************************************************************************)
EXTENDS TokenBucket, TLAPS

\* Refilling never overfills the bucket and never takes anything out.
LEMMA RefilledType ==
    ASSUME TypeOK
    PROVE  Refilled \in 0..Capacity /\ tokens <= Refilled
BY TokenBucketAssumption DEF TypeOK, Refilled, AtMost

\* The type invariant: the bucket neither runs dry nor over, and no thread
\* sleeps for longer than it takes to add a token.
THEOREM TypeCorrect == Spec => []TypeOK
<1>1. Init => TypeOK
  BY TokenBucketAssumption DEF Init, TypeOK
<1>2. TypeOK /\ [Next]_vars => TypeOK'
  <2> SUFFICES ASSUME TypeOK, [Next]_vars PROVE TypeOK'
    OBVIOUS
  <2> USE TokenBucketAssumption, RefilledType DEF TypeOK
  <2>1. CASE Tick
    BY <2>1 DEF Tick, AtMost
  <2>2. CASE OpenWindow
    BY <2>2 DEF OpenWindow
  <2>3. ASSUME NEW t \in Threads, Ask(t) PROVE TypeOK'
    BY <2>3 DEF Ask
  <2>4. ASSUME NEW t \in Threads, Grant(t) PROVE TypeOK'
    BY <2>4 DEF Grant, Enough
  <2>5. ASSUME NEW t \in Threads, Wait(t) PROVE TypeOK'
    <3>1. Cost - Refilled \in 0..Cost
      BY <2>5 DEF Wait, Enough, LeftByWait
    <3> QED BY <2>5, <3>1 DEF Wait, Enough, LeftByWait
  <2>6. ASSUME NEW t \in Threads, Wake(t) PROVE TypeOK'
    BY <2>6 DEF Wake
  <2>7. CASE UNCHANGED vars
    BY <2>7 DEF vars
  <2> QED BY <2>1, <2>2, <2>3, <2>4, <2>5, <2>6, <2>7 DEF Next
<1> QED BY <1>1, <1>2, PTL DEF Spec

\* What was let through since the window was opened, and what could be let
\* through now, never exceeds the capacity and the window's age.
THEOREM SpentAndLeftCorrect == Spec => []SpentAndLeft
<1>1. Init => SpentAndLeft
  BY TokenBucketAssumption DEF Init, SpentAndLeft, Refilled, AtMost
<1>2. TypeOK /\ TypeOK' /\ SpentAndLeft /\ [Next]_vars => SpentAndLeft'
  <2> SUFFICES ASSUME TypeOK, TypeOK', SpentAndLeft, [Next]_vars PROVE SpentAndLeft'
    OBVIOUS
  <2> USE TokenBucketAssumption DEF TypeOK, SpentAndLeft, Refilled, AtMost
  <2>1. CASE Tick
    BY <2>1 DEF Tick
  <2>2. CASE OpenWindow
    BY <2>2 DEF OpenWindow
  <2>3. ASSUME NEW t \in Threads, Ask(t) PROVE SpentAndLeft'
    BY <2>3 DEF Ask
  <2>4. ASSUME NEW t \in Threads, Grant(t) PROVE SpentAndLeft'
    BY <2>4 DEF Grant, Enough
  <2>5. ASSUME NEW t \in Threads, Wait(t) PROVE SpentAndLeft'
    BY <2>5 DEF Wait, Enough, LeftByWait
  <2>6. ASSUME NEW t \in Threads, Wake(t) PROVE SpentAndLeft'
    BY <2>6 DEF Wake
  <2>7. CASE UNCHANGED vars
    BY <2>7 DEF vars
  <2> QED BY <2>1, <2>2, <2>3, <2>4, <2>5, <2>6, <2>7 DEF Next
<1> QED BY <1>1, <1>2, TypeCorrect, PTL DEF Spec

\* No window lets through more than the burst and the rate allow.
THEOREM WindowBoundCorrect == Spec => []WindowBound
<1>1. TypeOK /\ SpentAndLeft => WindowBound
  BY RefilledType, TokenBucketAssumption DEF TypeOK, SpentAndLeft, WindowBound
<1> QED BY <1>1, TypeCorrect, SpentAndLeftCorrect, PTL
=============================================================================
