--------------------------- MODULE SweepCycleProofs ---------------------------
(***************************************************************************)
(* Proofs about SweepCycle, for every set of units and of workers, every   *)
(* number of formats and every lease.                                      *)
(***************************************************************************)
EXTENDS SweepCycle, TLAPS

\* Ageing keeps a claim's age in its range and never makes it younger.
LEMMA AgedType ==
    /\ \A a \in 0..Never : Aged(a) \in 0..Never
    /\ \A a \in 0..(Lease + 1) : Aged(a) \in 0..(Lease + 1)
BY SweepCycleAssumption DEF Aged, Never

\* A younger claim stays the younger one.
LEMMA AgedMonotone ==
    ASSUME NEW a \in 0..Never, NEW b \in 0..(Lease + 1), a <= b
    PROVE  Aged(a) <= Aged(b)
BY SweepCycleAssumption DEF Aged, Never


\* What BackToIdle does to the variables it sets.
LEMMA BackToIdleType ==
    ASSUME TypeOK, NEW w \in Workers, BackToIdle(w)
    PROVE  /\ phase' \in [Workers -> Phases]
           /\ job' \in [Workers -> Units \cup {NoUnit}]
           /\ \A v \in Workers : Busy(v)' <=> job'[v] # NoUnit
           /\ mode' \in [Workers -> {"full", "incremental"}]
           /\ scan' \in [Workers -> Formats]
           /\ heldFor' \in [Workers -> 0..(Lease + 1)]
           /\ ~Busy(w)'
           /\ \A v \in Workers \ {w} :
                /\ phase'[v] = phase[v] /\ job'[v] = job[v] /\ mode'[v] = mode[v]
                /\ heldFor'[v] = heldFor[v]
BY SweepCycleAssumption DEF TypeOK, BackToIdle, Phases, Formats, Busy

\* The same for the claim of a unit.
LEMMA LeaseUnitType ==
    ASSUME TypeOK, NEW w \in Workers, NEW u \in Units, LeaseUnit(w, u)
    PROVE  TypeOK'
<1>1. CASE u \in mapped
  <2>1. phase' \in [Workers -> Phases]
    BY <1>1 DEF TypeOK, LeaseUnit, Phases
  <2>2. \A v \in Workers : Busy(v)' <=> job'[v] # NoUnit
    BY <1>1, SweepCycleAssumption DEF TypeOK, LeaseUnit, Busy
  <2>3. /\ claimAge' \in [Units -> 0..Never]
        /\ scan' \in [Workers -> Formats] /\ heldFor' \in [Workers -> 0..(Lease + 1)]
    BY <1>1, SweepCycleAssumption DEF TypeOK, LeaseUnit, Never, Formats
  <2> QED BY <1>1, <2>1, <2>2, <2>3 DEF TypeOK, LeaseUnit
<1>2. CASE u \notin mapped
  <2>1. BackToIdle(w)
    BY <1>2 DEF LeaseUnit
  <2>2. claimAge' \in [Units -> 0..Never]
    BY SweepCycleAssumption DEF TypeOK, LeaseUnit, Never
  <2> QED BY <2>1, <2>2, BackToIdleType DEF TypeOK, LeaseUnit
<1> QED BY <1>1, <1>2

\* The type invariant holds, and with it that a worker has a unit exactly while
\* it sweeps or completes.
THEOREM TypeCorrect == Spec => []TypeOK
<1>1. Init => TypeOK
  BY SweepCycleAssumption DEF Init, TypeOK, Never, Formats, Phases, Busy
<1>2. TypeOK /\ [Next]_vars => TypeOK'
  <2> SUFFICES ASSUME TypeOK, [Next]_vars PROVE TypeOK'
    OBVIOUS
  <2>1. CASE Tick
    <3>1. /\ claimAge' \in [Units -> 0..Never]
          /\ heldFor' \in [Workers -> 0..(Lease + 1)]
      BY <2>1, AgedType DEF Tick, TypeOK
    <3> QED BY <2>1, <3>1 DEF Tick, TypeOK, Busy
  <2>2. CASE ReloadCards
    BY <2>2 DEF ReloadCards, TypeOK, table, ghosts, Busy
  <2>3. ASSUME NEW map, RestartApi(map) PROVE TypeOK'
    BY <2>3, SweepCycleAssumption
    DEF RestartApi, TypeOK, table, ghosts, Busy, Handling, Phases, Formats
  <2>4. ASSUME NEW f \in Formats, SettleFormat(f) PROVE TypeOK'
    BY <2>4 DEF SettleFormat, TypeOK, table, ghosts, Busy
  <2>5. ASSUME NEW u \in late, LateComplete(u) PROVE TypeOK'
    BY <2>5 DEF LateComplete, MarkSwept, TypeOK, ghosts, Busy
  <2>6. ASSUME NEW w \in Workers, ClaimSweep(w) PROVE TypeOK'
    BY <2>6, LeaseUnitType DEF ClaimSweep, FirstEligible, Eligible
  <2>7. ASSUME NEW w \in Workers, NothingToClaim(w) PROVE TypeOK'
    BY <2>7 DEF NothingToClaim, TypeOK, table, ghosts, Busy, Phases
  <2>8. ASSUME NEW w \in Workers, CheckFormat(w) PROVE TypeOK'
    <3>1. CASE BackToIdle(w)
      BY <2>8, <3>1, BackToIdleType DEF CheckFormat, TypeOK, table
    <3>2. CASE ~ScannedAll(w) /\ scan' = [scan EXCEPT ![w] = @ + 1]
               /\ UNCHANGED <<phase, job, mode, heldFor>>
      <4>1. scan' \in [Workers -> Formats]
        BY <3>2, SweepCycleAssumption DEF TypeOK, Formats, ScannedAll
      <4> QED BY <2>8, <3>2, <4>1 DEF CheckFormat, TypeOK, table, Busy
    <3>3. CASE phase' = [phase EXCEPT ![w] = "reset"] /\ UNCHANGED <<job, mode, scan, heldFor>>
      BY <2>8, <3>3 DEF CheckFormat, TypeOK, table, Busy, Phases
    <3> QED BY <2>8, <3>1, <3>2, <3>3 DEF CheckFormat
  <2>9. ASSUME NEW w \in Workers, ResetSweepCycle(w) PROVE TypeOK'
    BY <2>9 DEF ResetSweepCycle, TypeOK, ghosts, Busy, Phases
  <2>10. ASSUME NEW w \in Workers, ClaimAgain(w) PROVE TypeOK'
    <3>1. CASE BackToIdle(w) /\ UNCHANGED <<table, pending, mapped, late, coverage>>
      BY <3>1, BackToIdleType DEF TypeOK, table
    <3> QED BY <2>10, <3>1, LeaseUnitType DEF ClaimAgain, FirstEligible, Eligible
  <2>11. ASSUME NEW w \in Workers, NEW queued \in SUBSET Formats, PostPage(w, queued)
         PROVE  TypeOK'
    BY <2>11 DEF PostPage, PostsTo, TypeOK, table, ghosts, Busy
  <2>12. ASSUME NEW w \in Workers, NEW queued \in SUBSET Formats, LastPage(w, queued)
         PROVE  TypeOK'
    BY <2>12 DEF LastPage, PostsTo, TypeOK, table, Busy, Phases
  <2>13. ASSUME NEW w \in Workers, NEW queued \in SUBSET Formats, KnownPage(w, queued)
         PROVE  TypeOK'
    BY <2>13 DEF KnownPage, PostsTo, TypeOK, table, ghosts, Busy, Phases
  <2>14. ASSUME NEW w \in Workers, StopSweep(w) PROVE TypeOK'
    BY <2>14 DEF StopSweep, TypeOK, table, Busy, Phases
  <2>15. ASSUME NEW w \in Workers, AbandonSweep(w) PROVE TypeOK'
    BY <2>15, BackToIdleType DEF AbandonSweep, TypeOK, table
  <2>16. ASSUME NEW w \in Workers, CompleteSweep(w) PROVE TypeOK'
    <3>1. swept' \in SUBSET Units /\ everSwept' \in SUBSET Units
      BY <2>16 DEF CompleteSweep, MarkSwept, TypeOK
    <3> QED BY <2>16, <3>1, BackToIdleType DEF CompleteSweep, TypeOK
  <2>17. ASSUME NEW w \in Workers, CompleteTimesOut(w) PROVE TypeOK'
    <3>1. late' \in SUBSET Units
      BY <2>17 DEF CompleteTimesOut, TypeOK, Busy
    <3> QED BY <2>17, <3>1, BackToIdleType DEF CompleteTimesOut, TypeOK, table
  <2>18. CASE UNCHANGED vars
    BY <2>18 DEF vars, table, ghosts, TypeOK, Busy
  <2> QED BY <2>1, <2>2, <2>3, <2>4, <2>5, <2>6, <2>7, <2>8, <2>9, <2>10, <2>11, <2>12,
             <2>13, <2>14, <2>15, <2>16, <2>17, <2>18 DEF Next, Healthy
<1> QED BY <1>1, <1>2, PTL DEF Spec

\* The inductive invariant behind LeaseExclusion.
LeaseInv == ClaimCoversHolder /\ LeaseExclusion

\* Steps that give nobody a unit and make no claim look older.
GivesNothing ==
    /\ \A v \in Workers : Busy(v)' => /\ Busy(v) /\ job'[v] = job[v]
                                      /\ heldFor'[v] = heldFor[v]
    /\ \A u \in Units : claimAge'[u] <= claimAge[u]

LEMMA BusyHasUnit ==
    ASSUME TypeOK, NEW w \in Workers, Busy(w)
    PROVE  /\ job[w] \in Units
           /\ claimAge[job[w]] \in 0..Never /\ heldFor[w] \in 0..(Lease + 1)
BY DEF TypeOK

LEMMA GivesNothingKeepsLease ==
    ASSUME TypeOK, TypeOK', LeaseInv, GivesNothing
    PROVE  LeaseInv'
<1>1. ClaimCoversHolder'
  <2> SUFFICES ASSUME NEW w \in Workers, Busy(w)' PROVE claimAge'[job'[w]] <= heldFor'[w]
    BY DEF ClaimCoversHolder
  <2>1. Busy(w) /\ job'[w] = job[w] /\ heldFor'[w] = heldFor[w] /\ job[w] \in Units
    BY BusyHasUnit DEF GivesNothing
  <2>2. claimAge'[job[w]] <= claimAge[job[w]] /\ claimAge[job[w]] <= heldFor[w]
    BY <2>1 DEF GivesNothing, LeaseInv, ClaimCoversHolder
  <2>3. claimAge'[job[w]] \in Int /\ claimAge[job[w]] \in Int /\ heldFor[w] \in Int
    BY <2>1, SweepCycleAssumption DEF TypeOK, Never
  <2> QED BY <2>1, <2>2, <2>3
<1>2. LeaseExclusion'
  BY DEF GivesNothing, LeaseInv, LeaseExclusion
<1> QED BY <1>1, <1>2 DEF LeaseInv

\* Giving a unit out: the query takes it only when its claim has expired, and
\* the claim of a unit that somebody holds is no older than that holder.
LEMMA LeaseUnitKeepsLease ==
    ASSUME TypeOK, TypeOK', LeaseInv, NEW w \in Workers, ~Busy(w),
           NEW u \in FirstEligible, LeaseUnit(w, u)
    PROVE  LeaseInv'
<1>1. u \in Units /\ claimAge[u] > Lease
  BY DEF FirstEligible, Eligible, Expired
<1>2. /\ claimAge'[u] = 0
      /\ \A t \in Units \ {u} : claimAge'[t] = claimAge[t]
  BY <1>1 DEF LeaseUnit, TypeOK
<1>3. \A t \in Units : claimAge'[t] <= claimAge[t]
  BY <1>2, SweepCycleAssumption DEF TypeOK, Never
<1>4. CASE u \notin mapped
  <2>1. BackToIdle(w)
    BY <1>4 DEF LeaseUnit
  <2>2. GivesNothing
    BY <1>3, <2>1, BackToIdleType DEF GivesNothing, Busy
  <2> QED BY <2>2, GivesNothingKeepsLease
<1>5. CASE u \in mapped
  <2>1. /\ Busy(w)' /\ job'[w] = u /\ heldFor'[w] = 0
        /\ \A v \in Workers \ {w} : /\ Busy(v)' <=> Busy(v)
                                     /\ job'[v] = job[v] /\ heldFor'[v] = heldFor[v]
    BY <1>5 DEF LeaseUnit, TypeOK, Busy
  <2>2. ClaimCoversHolder'
    <3> SUFFICES ASSUME NEW v \in Workers, Busy(v)' PROVE claimAge'[job'[v]] <= heldFor'[v]
      BY DEF ClaimCoversHolder
    <3>1. CASE v = w
      BY <1>2, <2>1, <3>1
    <3>2. CASE v # w
      <4>1. Busy(v) /\ job'[v] = job[v] /\ heldFor'[v] = heldFor[v] /\ job[v] \in Units
        BY <2>1, <3>2, BusyHasUnit
      <4>2. claimAge'[job[v]] <= claimAge[job[v]] /\ claimAge[job[v]] <= heldFor[v]
        BY <1>3, <4>1 DEF LeaseInv, ClaimCoversHolder
      <4>3. claimAge'[job[v]] \in Int /\ claimAge[job[v]] \in Int /\ heldFor[v] \in Int
        BY <4>1, SweepCycleAssumption DEF TypeOK, Never
      <4> QED BY <4>1, <4>2, <4>3
    <3> QED BY <3>1, <3>2
  <2>3. \A v \in Workers \ {w} : Busy(v) /\ job[v] = u => heldFor[v] > Lease
    <3> SUFFICES ASSUME NEW v \in Workers \ {w}, Busy(v), job[v] = u PROVE heldFor[v] > Lease
      OBVIOUS
    <3>1. claimAge[u] <= heldFor[v]
      BY DEF LeaseInv, ClaimCoversHolder
    <3> QED BY <1>1, <3>1, BusyHasUnit, SweepCycleAssumption DEF Never
  <2>4. LeaseExclusion'
    <3> SUFFICES ASSUME NEW v \in Workers, NEW x \in Workers, v # x,
                        Busy(v)', Busy(x)', job'[v] = job'[x]
                 PROVE  heldFor'[v] > Lease \/ heldFor'[x] > Lease
      BY DEF LeaseExclusion
    <3>1. CASE v = w
      BY <2>1, <2>3, <3>1
    <3>2. CASE x = w
      BY <2>1, <2>3, <3>2
    <3>3. CASE v # w /\ x # w
      BY <2>1, <3>3 DEF LeaseInv, LeaseExclusion
    <3> QED BY <3>1, <3>2, <3>3
  <2> QED BY <2>2, <2>4 DEF LeaseInv
<1> QED BY <1>4, <1>5

\* A unit is in the hands of two workers only when one of them has outlived its
\* lease, whatever completions, resets and restarts come in between.
THEOREM LeaseInvCorrect == Spec => []LeaseInv
<1>1. Init => LeaseInv
  BY DEF Init, LeaseInv, ClaimCoversHolder, LeaseExclusion, Busy
<1>2. TypeOK /\ TypeOK' /\ LeaseInv /\ [Next]_vars => LeaseInv'
  <2> SUFFICES ASSUME TypeOK, TypeOK', LeaseInv, [Next]_vars PROVE LeaseInv'
    OBVIOUS
  <2>0. \A u \in Units : claimAge[u] <= claimAge[u]
    BY SweepCycleAssumption DEF TypeOK, Never
  <2> USE <2>0, GivesNothingKeepsLease
  <2>1. CASE Tick
    <3>1. \A w \in Workers : /\ Busy(w)' <=> Busy(w)
                             /\ Busy(w) => heldFor'[w] = Aged(heldFor[w])
      BY <2>1 DEF Tick, Busy
    <3>2. ClaimCoversHolder'
      <4> SUFFICES ASSUME NEW w \in Workers, Busy(w) PROVE claimAge'[job[w]] <= heldFor'[w]
        BY <2>1, <3>1 DEF ClaimCoversHolder, Tick
      <4>1. claimAge'[job[w]] = Aged(claimAge[job[w]])
        BY <2>1, BusyHasUnit DEF Tick
      <4>2. claimAge[job[w]] <= heldFor[w]
        BY DEF LeaseInv, ClaimCoversHolder
      <4> QED BY <3>1, <4>1, <4>2, BusyHasUnit, AgedMonotone
    <3>3. \A w \in Workers : heldFor[w] > Lease /\ Busy(w) => heldFor'[w] > Lease
      BY <3>1, BusyHasUnit, SweepCycleAssumption DEF Aged
    <3>4. LeaseExclusion'
      BY <2>1, <3>1, <3>3 DEF LeaseExclusion, LeaseInv, Tick
    <3> QED BY <3>2, <3>4 DEF LeaseInv
  <2>2. CASE ReloadCards
    BY <2>2 DEF ReloadCards, GivesNothing, table, ghosts, Busy
  <2>3. ASSUME NEW map, RestartApi(map) PROVE LeaseInv'
    BY <2>3 DEF RestartApi, GivesNothing, table, ghosts, Busy, Handling
  <2>4. ASSUME NEW f \in Formats, SettleFormat(f) PROVE LeaseInv'
    BY <2>4 DEF SettleFormat, GivesNothing, table, ghosts, Busy
  <2>5. ASSUME NEW u \in late, LateComplete(u) PROVE LeaseInv'
    BY <2>5 DEF LateComplete, GivesNothing, ghosts, Busy
  <2>6. ASSUME NEW w \in Workers, ClaimSweep(w) PROVE LeaseInv'
    BY <2>6, LeaseUnitKeepsLease DEF ClaimSweep, FirstEligible, Eligible, Busy
  <2>7. ASSUME NEW w \in Workers, NothingToClaim(w) PROVE LeaseInv'
    BY <2>7 DEF NothingToClaim, GivesNothing, TypeOK, table, ghosts, Busy
  <2>8. ASSUME NEW w \in Workers, CheckFormat(w) PROVE LeaseInv'
    <3>1. CASE BackToIdle(w)
      BY <2>8, <3>1, BackToIdleType DEF CheckFormat, GivesNothing, table, Busy
    <3>2. CASE UNCHANGED <<phase, job, mode, heldFor>>
      BY <2>8, <3>2 DEF CheckFormat, GivesNothing, table, Busy
    <3>3. CASE phase' = [phase EXCEPT ![w] = "reset"] /\ UNCHANGED <<job, mode, scan, heldFor>>
      BY <2>8, <3>3 DEF CheckFormat, GivesNothing, TypeOK, table, Busy
    <3> QED BY <2>8, <3>1, <3>2, <3>3 DEF CheckFormat
  <2>9. ASSUME NEW w \in Workers, ResetSweepCycle(w) PROVE LeaseInv'
    BY <2>9 DEF ResetSweepCycle, GivesNothing, TypeOK, ghosts, Busy
  <2>10. ASSUME NEW w \in Workers, ClaimAgain(w) PROVE LeaseInv'
    <3>1. CASE BackToIdle(w) /\ UNCHANGED <<table, pending, mapped, late, coverage>>
      BY <3>1, BackToIdleType DEF GivesNothing, table, Busy
    <3> QED BY <2>10, <3>1, LeaseUnitKeepsLease DEF ClaimAgain, FirstEligible, Eligible, Busy
  <2>11. ASSUME NEW w \in Workers, NEW queued, PostPage(w, queued) PROVE LeaseInv'
    BY <2>11 DEF PostPage, PostsTo, GivesNothing, table, ghosts, Busy
  <2>12. ASSUME NEW w \in Workers, NEW queued, LastPage(w, queued) PROVE LeaseInv'
    BY <2>12 DEF LastPage, PostsTo, GivesNothing, TypeOK, table, Busy
  <2>13. ASSUME NEW w \in Workers, NEW queued, KnownPage(w, queued) PROVE LeaseInv'
    BY <2>13 DEF KnownPage, PostsTo, GivesNothing, TypeOK, table, ghosts, Busy
  <2>14. ASSUME NEW w \in Workers, StopSweep(w) PROVE LeaseInv'
    BY <2>14 DEF StopSweep, GivesNothing, TypeOK, table, Busy
  <2>15. ASSUME NEW w \in Workers, AbandonSweep(w) PROVE LeaseInv'
    BY <2>15, BackToIdleType DEF AbandonSweep, GivesNothing, table, Busy
  <2>16. ASSUME NEW w \in Workers, CompleteSweep(w) PROVE LeaseInv'
    BY <2>16, BackToIdleType DEF CompleteSweep, GivesNothing, Busy
  <2>17. ASSUME NEW w \in Workers, CompleteTimesOut(w) PROVE LeaseInv'
    BY <2>17, BackToIdleType DEF CompleteTimesOut, GivesNothing, table, Busy
  <2>18. CASE UNCHANGED vars
    BY <2>18 DEF vars, table, ghosts, GivesNothing, Busy
  <2> QED BY <2>1, <2>2, <2>3, <2>4, <2>5, <2>6, <2>7, <2>8, <2>9, <2>10, <2>11, <2>12,
             <2>13, <2>14, <2>15, <2>16, <2>17, <2>18 DEF Next, Healthy
<1> QED BY <1>1, <1>2, TypeCorrect, PTL DEF Spec

\* The part of it that is a property of the system.
THEOREM LeaseExclusionCorrect == Spec => []LeaseExclusion
BY LeaseInvCorrect, PTL DEF LeaseInv

\* The inductive invariant behind EverSweptIsExplained.
CoverageInv == EverSweptIsExplained /\ CompletionIsExplained

\* Steps that mark nothing swept, start no completion and forget no coverage.
ExplainsNothingNew ==
    /\ \A u \in Units : coverage[u] # "none" => coverage'[u] # "none"
    /\ everSwept' = everSwept
    /\ late' \subseteq late \cup {job[w] : w \in {v \in Workers : phase[v] = "complete"}}
    /\ \A v \in Workers : /\ phase'[v] = "complete" => /\ Busy(v) /\ job'[v] = job[v]
                                                       /\ coverage'[job[v]] # "none"
                          /\ Busy(v)' => \/ Busy(v) /\ job'[v] = job[v] /\ mode'[v] = mode[v]
                                         \/ mode'[v] = "incremental" => job'[v] \in everSwept

LEMMA NothingNewKeepsCoverage ==
    ASSUME TypeOK, TypeOK', CoverageInv, ExplainsNothingNew
    PROVE  CoverageInv'
<1>1. EverSweptIsExplained'
  BY DEF TypeOK, CoverageInv, EverSweptIsExplained, ExplainsNothingNew
<1>2. ASSUME NEW u \in late' PROVE coverage'[u] # "none"
  <2>1. coverage[u] # "none" /\ u \in Units
    BY <1>2 DEF TypeOK, CoverageInv, CompletionIsExplained, ExplainsNothingNew
  <2> QED BY <2>1 DEF ExplainsNothingNew
<1>3. \A w \in Workers : phase'[w] = "complete" => coverage'[job'[w]] # "none"
  BY DEF ExplainsNothingNew
<1>4. \A w \in Workers : Busy(w)' /\ mode'[w] = "incremental" => job'[w] \in everSwept'
  BY DEF CoverageInv, CompletionIsExplained, ExplainsNothingNew
<1> QED BY <1>1, <1>2, <1>3, <1>4 DEF CoverageInv, CompletionIsExplained

\* Marking an explained unit swept.
LEMMA MarkSweptExplained ==
    ASSUME TypeOK, EverSweptIsExplained, NEW u \in Units, coverage[u] # "none",
           MarkSwept(u), UNCHANGED coverage
    PROVE  EverSweptIsExplained' /\ everSwept \subseteq everSwept'
BY DEF EverSweptIsExplained, MarkSwept

\* Claiming a unit starts no completion, and a unit is swept incrementally only
\* if it has been marked ever_swept.
LEMMA LeaseUnitExplains ==
    ASSUME TypeOK, CompletionIsExplained, NEW w \in Workers, ~Busy(w),
           NEW u \in Units, LeaseUnit(w, u)
    PROVE  ExplainsNothingNew
<1>1. CASE u \in mapped
  BY <1>1 DEF LeaseUnit, ExplainsNothingNew, CompletionIsExplained, TypeOK, Busy
<1>2. CASE u \notin mapped
  BY <1>2, BackToIdleType DEF LeaseUnit, ExplainsNothingNew, CompletionIsExplained, Busy
<1> QED BY <1>1, <1>2

\* ever_swept is never set for a unit whose listing was neither read to the end
\* nor left by a stop signal in a full sweep: the stop signal is the only way
\* to a coverage hole.
THEOREM CoverageInvCorrect == Spec => []CoverageInv
<1>1. Init => CoverageInv
  BY DEF Init, CoverageInv, EverSweptIsExplained, CompletionIsExplained, Busy
<1>2. TypeOK /\ TypeOK' /\ CoverageInv /\ [Next]_vars => CoverageInv'
  <2> SUFFICES ASSUME TypeOK, TypeOK', CoverageInv, [Next]_vars PROVE CoverageInv'
    OBVIOUS
  <2>0. EverSweptIsExplained /\ CompletionIsExplained
    BY DEF CoverageInv
  <2> USE NothingNewKeepsCoverage
  <2>1. CASE Tick
    BY <2>0, <2>1 DEF Tick, ExplainsNothingNew, CompletionIsExplained, Busy
  <2>2. CASE ReloadCards
    BY <2>0, <2>2 DEF ReloadCards, ExplainsNothingNew, CompletionIsExplained, table, ghosts, Busy
  <2>3. ASSUME NEW map, RestartApi(map) PROVE CoverageInv'
    BY <2>0, <2>3 DEF RestartApi, ExplainsNothingNew, CompletionIsExplained, table, ghosts,
                      Busy, Handling
  <2>4. ASSUME NEW f \in Formats, SettleFormat(f) PROVE CoverageInv'
    BY <2>0, <2>4 DEF SettleFormat, ExplainsNothingNew, CompletionIsExplained, table, ghosts, Busy
  <2>5. ASSUME NEW u \in late, LateComplete(u) PROVE CoverageInv'
    <3>1. u \in Units /\ coverage[u] # "none" /\ UNCHANGED <<coverage, phase, job, mode>>
      BY <2>0, <2>5 DEF LateComplete, TypeOK, CompletionIsExplained, ghosts
    <3>2. EverSweptIsExplained' /\ everSwept \subseteq everSwept'
      BY <2>0, <2>5, <3>1, MarkSweptExplained DEF LateComplete
    <3>3. CompletionIsExplained'
      BY <2>0, <2>5, <3>1, <3>2 DEF LateComplete, CompletionIsExplained, Busy
    <3> QED BY <3>2, <3>3 DEF CoverageInv
  <2>6. ASSUME NEW w \in Workers, ClaimSweep(w) PROVE CoverageInv'
    BY <2>0, <2>6, LeaseUnitExplains DEF ClaimSweep, FirstEligible, Eligible, Busy
  <2>7. ASSUME NEW w \in Workers, NothingToClaim(w) PROVE CoverageInv'
    BY <2>0, <2>7 DEF NothingToClaim, ExplainsNothingNew, CompletionIsExplained, TypeOK, table,
                      ghosts, Busy
  <2>8. ASSUME NEW w \in Workers, CheckFormat(w) PROVE CoverageInv'
    <3>1. CASE BackToIdle(w)
      BY <2>0, <2>8, <3>1, BackToIdleType
      DEF CheckFormat, ExplainsNothingNew, CompletionIsExplained, table, Busy
    <3>2. CASE UNCHANGED <<phase, job, mode, heldFor>>
      BY <2>0, <2>8, <3>2 DEF CheckFormat, ExplainsNothingNew, CompletionIsExplained, table, Busy
    <3>3. CASE phase' = [phase EXCEPT ![w] = "reset"] /\ UNCHANGED <<job, mode, scan, heldFor>>
      BY <2>0, <2>8, <3>3
      DEF CheckFormat, ExplainsNothingNew, CompletionIsExplained, TypeOK, table, Busy
    <3> QED BY <2>8, <3>1, <3>2, <3>3 DEF CheckFormat
  <2>9. ASSUME NEW w \in Workers, ResetSweepCycle(w) PROVE CoverageInv'
    BY <2>0, <2>9
    DEF ResetSweepCycle, ExplainsNothingNew, CompletionIsExplained, TypeOK, ghosts, Busy
  <2>10. ASSUME NEW w \in Workers, ClaimAgain(w) PROVE CoverageInv'
    <3>1. CASE BackToIdle(w) /\ UNCHANGED <<table, pending, mapped, late, coverage>>
      BY <2>0, <3>1, BackToIdleType DEF ExplainsNothingNew, CompletionIsExplained, table, Busy
    <3> QED BY <2>0, <2>10, <3>1, LeaseUnitExplains DEF ClaimAgain, FirstEligible, Eligible, Busy
  <2>11. ASSUME NEW w \in Workers, NEW queued, PostPage(w, queued) PROVE CoverageInv'
    BY <2>0, <2>11
    DEF PostPage, PostsTo, ExplainsNothingNew, CompletionIsExplained, table, ghosts, Busy
  <2>12. ASSUME NEW w \in Workers, NEW queued, LastPage(w, queued) PROVE CoverageInv'
    <3>1. job[w] \in Units
      BY <2>12, BusyHasUnit DEF LastPage, PostsTo, Busy
    <3>2. /\ coverage'[job[w]] = "full"
          /\ \A u \in Units : coverage[u] # "none" => coverage'[u] # "none"
      BY <2>12, <3>1 DEF LastPage, TypeOK
    <3>3. \A v \in Workers : phase'[v] = IF v = w THEN "complete" ELSE phase[v]
      BY <2>12 DEF LastPage, TypeOK
    <3>4. \A v \in Workers : phase[v] = "complete" => job[v] \in Units
      BY BusyHasUnit DEF Busy
    <3> QED BY <2>0, <2>12, <3>2, <3>3, <3>4
            DEF LastPage, PostsTo, ExplainsNothingNew, CompletionIsExplained, table, Busy
  <2>13. ASSUME NEW w \in Workers, NEW queued, KnownPage(w, queued) PROVE CoverageInv'
    <3>1. job[w] \in everSwept
      BY <2>0, <2>13 DEF KnownPage, MayExitEarly, PostsTo, CompletionIsExplained, Busy
    <3>2. coverage[job[w]] # "none"
      BY <2>0, <3>1 DEF EverSweptIsExplained
    <3>3. \A v \in Workers : phase'[v] = IF v = w THEN "complete" ELSE phase[v]
      BY <2>13 DEF KnownPage, TypeOK
    <3> QED BY <2>0, <2>13, <3>2, <3>3
            DEF KnownPage, PostsTo, ExplainsNothingNew, CompletionIsExplained, table, ghosts, Busy
  <2>14. ASSUME NEW w \in Workers, StopSweep(w) PROVE CoverageInv'
    <3>1. job[w] \in Units
      BY <2>14, BusyHasUnit DEF StopSweep, Busy
    <3>2. mode[w] = "incremental" => coverage[job[w]] # "none"
      BY <2>0, <2>14 DEF StopSweep, CompletionIsExplained, EverSweptIsExplained, Busy
    <3>3. /\ coverage'[job[w]] # "none"
          /\ \A u \in Units : coverage[u] # "none" => coverage'[u] # "none"
      BY <2>14, <3>1, <3>2 DEF StopSweep, TypeOK
    <3>4. \A v \in Workers : phase'[v] = IF v = w THEN "complete" ELSE phase[v]
      BY <2>14 DEF StopSweep, TypeOK
    <3>5. \A v \in Workers : phase[v] = "complete" => job[v] \in Units
      BY BusyHasUnit DEF Busy
    <3> QED BY <2>0, <2>14, <3>3, <3>4, <3>5
            DEF StopSweep, ExplainsNothingNew, CompletionIsExplained, table, Busy
  <2>15. ASSUME NEW w \in Workers, AbandonSweep(w) PROVE CoverageInv'
    BY <2>0, <2>15, BackToIdleType
    DEF AbandonSweep, ExplainsNothingNew, CompletionIsExplained, table, Busy
  <2>16. ASSUME NEW w \in Workers, CompleteSweep(w) PROVE CoverageInv'
    <3>1. job[w] \in Units /\ coverage[job[w]] # "none"
      BY <2>0, <2>16, BusyHasUnit DEF CompleteSweep, CompletionIsExplained, Busy
    <3>2. EverSweptIsExplained' /\ everSwept \subseteq everSwept'
      BY <2>0, <2>16, <3>1, MarkSweptExplained DEF CompleteSweep
    <3>3. CompletionIsExplained'
      BY <2>0, <2>16, <3>2, BackToIdleType DEF CompleteSweep, CompletionIsExplained, Busy
    <3> QED BY <3>2, <3>3 DEF CoverageInv
  <2>17. ASSUME NEW w \in Workers, CompleteTimesOut(w) PROVE CoverageInv'
    BY <2>0, <2>17, BackToIdleType
    DEF CompleteTimesOut, ExplainsNothingNew, CompletionIsExplained, table, Busy
  <2>18. CASE UNCHANGED vars
    BY <2>0, <2>18 DEF vars, table, ghosts, ExplainsNothingNew, CompletionIsExplained, Busy
  <2> QED BY <2>1, <2>2, <2>3, <2>4, <2>5, <2>6, <2>7, <2>8, <2>9, <2>10, <2>11, <2>12,
             <2>13, <2>14, <2>15, <2>16, <2>17, <2>18 DEF Next, Healthy
<1> QED BY <1>1, <1>2, TypeCorrect, PTL DEF Spec

\* The part of it that is a property of the system.
THEOREM EverSweptIsExplainedCorrect == Spec => []EverSweptIsExplained
BY CoverageInvCorrect, PTL DEF CoverageInv
=============================================================================
