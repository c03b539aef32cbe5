--------------------------- MODULE DeckQueueProofs ---------------------------
(***************************************************************************)
(* Proofs about DeckQueue, for every set of decks and of workers and every *)
(* value of the bounds.                                                    *)
(***************************************************************************)
EXTENDS DeckQueue, TLAPS

\* What the columns look like after an upsert stays in their types.
LEMMA UpsertType ==
    ASSUME NEW d \in Decks, NEW stamp, status[d] \in Statuses, claimAge[d] \in Ages
    PROVE  /\ StatusAfterUpsert(d, stamp) \in Statuses
           /\ ClaimAfterUpsert(d, stamp) \in Ages
BY DEF StatusAfterUpsert, ClaimAfterUpsert, Statuses, Ages

\* The type invariant holds: no handler, and no order of handlers, takes a
\* column or a worker's hands out of their types.
THEOREM TypeCorrect == Spec => []TypeOK
<1>1. Init => TypeOK
  BY DeckQueueAssumption
  DEF Init, TypeOK, Versions, Statuses, Ages, NoStamp, NoClaim, NoPage,
      NoCopies, Unlisted, Reports
<1>2. TypeOK /\ [Next]_vars => TypeOK'
  <2> SUFFICES ASSUME TypeOK, [Next]_vars PROVE TypeOK'
    OBVIOUS
  <2> USE DeckQueueAssumption DEF TypeOK
  <2>1. CASE Tick
    BY <2>1 DEF Tick, Ages, NoClaim, workers
  <2>2. ASSUME NEW d \in Decks, Edit(d) PROVE TypeOK'
    BY <2>2 DEF Edit, Versions, rows, workers
  <2>3. ASSUME NEW w \in Workers, NEW listed \in SUBSET Decks,
               NEW unstamped \in SUBSET listed, SearchPage(w, listed, unstamped)
        PROVE  TypeOK'
    BY <2>3 DEF SearchPage, Versions, NoStamp, rows
  <2>4. ASSUME NEW w \in Workers, PostDecks(w) PROVE TypeOK'
    <3>1. updatedAt' \in [Decks -> Versions]
      BY <2>4 DEF PostDecks, Listed
    <3>2. status' \in [Decks -> Statuses] /\ claimAge' \in [Decks -> Ages]
      BY <2>4, UpsertType DEF PostDecks
    <3>3. page' \in [Workers -> [Decks -> Versions \cup {Unlisted}]]
      BY <2>4 DEF PostDecks, NoPage
    <3>4. overtaken' \in SUBSET Decks
      BY <2>4 DEF PostDecks, Listed
    <3>5. ASSUME NEW d \in Decks, status'[d] \in {"absent", "discovered"}
          PROVE  claimAge'[d] = NoClaim
      BY <2>4, <3>5 DEF PostDecks, StatusAfterUpsert, ClaimAfterUpsert
    <3> QED BY <2>4, <3>1, <3>2, <3>3, <3>4, <3>5 DEF PostDecks
  <2>5. ASSUME NEW w \in Workers, NEW locked, ClaimDecks(w, locked) PROVE TypeOK'
    <3>1. PICK batch \in SUBSET FirstFormat(Claimable \ locked) :
            /\ status' = [d \in Decks |-> IF d \in batch THEN "claimed" ELSE status[d]]
            /\ claimAge' = [d \in Decks |-> IF d \in batch THEN 0 ELSE claimAge[d]]
            /\ todo' = [todo EXCEPT ![w] = batch]
      BY <2>5 DEF ClaimDecks
    <3>2. batch \in SUBSET Decks
      BY DEF FirstFormat, Claimable
    <3> QED BY <2>5, <3>1, <3>2 DEF ClaimDecks, Statuses, Ages
  <2>6. ASSUME NEW w \in Workers, NEW d \in Decks, FetchOk(w, d) \/ FetchFails(w, d)
        PROVE  TypeOK'
    <3>1. CASE FetchOk(w, d)
      <4>1. got' \in [Workers -> [Decks -> Versions]]
        BY <3>1 DEF FetchOk
      <4>2. todo' \in [Workers -> SUBSET Decks]
        BY <3>1 DEF FetchOk
      <4> QED BY <3>1, <4>1, <4>2 DEF FetchOk, rows
    <3>2. CASE FetchFails(w, d)
      BY <3>2 DEF FetchFails, rows
    <3> QED BY <2>6, <3>1, <3>2
  <2>7. ASSUME NEW r \in Reports, NEW bad, SubmitDecks(r, bad)
        PROVE  /\ status' \in [Decks -> Statuses] /\ cards' \in [Decks -> Versions]
               /\ mox' \in [Decks -> Versions] /\ updatedAt' \in [Decks -> Versions]
               /\ claimAge' \in [Decks -> Ages]
               /\ \A d \in Decks : status'[d] \in {"absent", "discovered"}
                                      => claimAge'[d] = NoClaim
    BY <2>7 DEF SubmitDecks, Reports, Statuses
  <2>8. ASSUME NEW w \in Workers, DropBatch(w)
        PROVE  /\ todo' \in [Workers -> SUBSET Decks] /\ failed' \in [Workers -> SUBSET Decks]
               /\ got' \in [Workers -> [Decks -> Versions]]
    BY <2>8 DEF DropBatch, NoCopies, Versions
  <2>9. ASSUME NEW w \in Workers, NEW inHand, inHand \subseteq todo[w]
        PROVE  Report(w, inHand) \in Reports
    BY <2>9 DEF Report, Reports
  <2>10. ASSUME NEW w \in Workers, NEW bad, Submit(w, bad) PROVE TypeOK'
    BY <2>7, <2>8, <2>9, <2>10 DEF Submit
  <2>11. ASSUME NEW w \in Workers, NEW inHand, NEW bad, SubmitOnStop(w, inHand, bad)
         PROVE  TypeOK'
    BY <2>7, <2>8, <2>9, <2>11 DEF SubmitOnStop
  <2>12. ASSUME NEW w \in Workers, NEW inHand, SubmitTimesOut(w, inHand) PROVE TypeOK'
    BY <2>8, <2>9, <2>12 DEF SubmitTimesOut, rows
  <2>13. ASSUME NEW r \in late, NEW bad, LateSubmit(r, bad) PROVE TypeOK'
    BY <2>7, <2>13 DEF LateSubmit, workers
  <2>14. ASSUME NEW w \in Workers, Abandon(w) PROVE TypeOK'
    BY <2>8, <2>14 DEF Abandon, NoPage, rows
  <2>15. CASE UNCHANGED vars
    BY <2>15 DEF vars, rows, workers
  <2> QED BY <2>1, <2>2, <2>3, <2>4, <2>5, <2>6, <2>10, <2>11, <2>12, <2>13, <2>14, <2>15 DEF Next
<1> QED BY <1>1, <1>2, PTL DEF Spec

\* A claimed row always has a claimed_at, so its lease can expire.
THEOREM ClaimedHasLeaseCorrect == Spec => []ClaimedHasLease
<1>1. Init => ClaimedHasLease
  BY DEF Init, ClaimedHasLease
<1>2. TypeOK /\ ClaimedHasLease /\ [Next]_vars => ClaimedHasLease'
  <2> SUFFICES ASSUME TypeOK, ClaimedHasLease, [Next]_vars,
                      NEW d \in Decks, status'[d] = "claimed"
               PROVE  claimAge'[d] # NoClaim
    BY DEF ClaimedHasLease
  <2> USE DEF TypeOK, ClaimedHasLease
  <2>1. CASE Tick
    BY <2>1, DeckQueueAssumption DEF Tick, NoClaim, Ages
  <2>2. ASSUME NEW e \in Decks, Edit(e) PROVE claimAge'[d] # NoClaim
    BY <2>2 DEF Edit, rows
  <2>3. ASSUME NEW w \in Workers, NEW listed, NEW unstamped, SearchPage(w, listed, unstamped)
        PROVE  claimAge'[d] # NoClaim
    BY <2>3 DEF SearchPage, rows
  <2>4. ASSUME NEW w \in Workers, PostDecks(w) PROVE claimAge'[d] # NoClaim
    BY <2>4 DEF PostDecks, StatusAfterUpsert, ClaimAfterUpsert
  <2>5. ASSUME NEW w \in Workers, NEW locked, ClaimDecks(w, locked)
        PROVE  claimAge'[d] # NoClaim
    BY <2>5 DEF ClaimDecks, NoClaim
  <2>6. ASSUME NEW w \in Workers, NEW e \in Decks, FetchOk(w, e) \/ FetchFails(w, e)
        PROVE  claimAge'[d] # NoClaim
    BY <2>6 DEF FetchOk, FetchFails, rows
  <2>7. ASSUME NEW r, NEW bad, SubmitDecks(r, bad) PROVE claimAge'[d] # NoClaim
    BY <2>7 DEF SubmitDecks
  <2>8. ASSUME NEW w \in Workers, NEW bad, Submit(w, bad) PROVE claimAge'[d] # NoClaim
    BY <2>7, <2>8 DEF Submit
  <2>9. ASSUME NEW w \in Workers, NEW inHand, NEW bad, SubmitOnStop(w, inHand, bad)
        PROVE  claimAge'[d] # NoClaim
    BY <2>7, <2>9 DEF SubmitOnStop
  <2>10. ASSUME NEW w \in Workers, NEW inHand, SubmitTimesOut(w, inHand)
         PROVE  claimAge'[d] # NoClaim
    BY <2>10 DEF SubmitTimesOut, rows
  <2>11. ASSUME NEW r \in late, NEW bad, LateSubmit(r, bad) PROVE claimAge'[d] # NoClaim
    BY <2>7, <2>11 DEF LateSubmit
  <2>12. ASSUME NEW w \in Workers, Abandon(w) PROVE claimAge'[d] # NoClaim
    BY <2>12 DEF Abandon, rows
  <2>13. CASE UNCHANGED vars
    BY <2>13 DEF vars, rows
  <2> QED BY <2>1, <2>2, <2>3, <2>4, <2>5, <2>6, <2>8, <2>9, <2>10, <2>11, <2>12, <2>13 DEF Next
<1> QED BY <1>1, <1>2, TypeCorrect, PTL DEF Spec

\* Versions and stamps are integers that can be compared.
LEMMA VersionsAreInts ==
    ASSUME TypeOK
    PROVE  /\ \A d \in Decks : mox[d] \in Int /\ updatedAt[d] \in Int /\ cards[d] \in Int
           /\ \A w \in Workers : \A d \in Decks : page[w][d] \in Int /\ got[w][d] \in Int
           /\ \A r \in late : \A d \in Decks : r.got[d] \in Int
BY DeckQueueAssumption DEF TypeOK, Versions, Unlisted, Reports

\* Handling a report of fresh copies of decks that have rows keeps done decks
\* fresh, and makes and removes no row.
LEMMA FreshReport ==
    ASSUME TypeOK, StaleOnlyIfOvertaken, NEW r \in Reports, NEW bad, SubmitDecks(r, bad),
           UNCHANGED overtaken,
           \A d \in Decks \ overtaken : r.got[d] > 0 => r.got[d] >= updatedAt[d]
    PROVE  /\ StaleOnlyIfOvertaken'
           /\ \A d \in Decks : status'[d] = "absent" => status[d] = "absent"
<1> USE DEF SubmitDecks
<1>1. StaleOnlyIfOvertaken'
  <2> SUFFICES ASSUME NEW d \in Decks \ overtaken, status'[d] = "done"
               PROVE  cards'[d] >= updatedAt[d]
    BY DEF StaleOnlyIfOvertaken
  <2>1. CASE d \in Written(r) \ bad
    BY <2>1 DEF Written, TypeOK
  <2>2. CASE d \notin Written(r) \ bad
    <3>1. status[d] = "done"
      BY <2>2 DEF MarkedError
    <3> QED BY <2>2, <3>1 DEF StaleOnlyIfOvertaken, TypeOK
  <2> QED BY <2>1, <2>2
<1>2. \A d \in Decks : status'[d] = "absent" => status[d] = "absent"
  OBVIOUS
<1> QED BY <1>1, <1>2

\* Emptying a worker's hands cannot break what is said of the copies in hand.
LEMMA DropKeeps ==
    ASSUME TypeOK, HeldDecksExist, CopiesAreFresh, NEW w \in Workers, DropBatch(w)
    PROVE  /\ \A v \in Workers : todo'[v] \subseteq todo[v]
           /\ \A v \in Workers : \A d \in Decks : got'[v][d] = got[v][d] \/ got'[v][d] = 0
BY DEF TypeOK, DropBatch, NoCopies

\* A done deck is stale only if it was re-queued while somebody held an older
\* copy.  The argument: stamps in the tables and on pages never run ahead of
\* Moxfield, so a fetch, which reads Moxfield as it is now, yields a copy at
\* least as new as the stored stamp; only an upsert with a newer stamp can make
\* a copy in hand old, and that is what puts the deck in overtaken.
THEOREM FreshInvCorrect == Spec => []FreshInv
<1>1. Init => FreshInv
  BY DEF Init, FreshInv, NoFutureVersions, HeldDecksExist, CopiesAreFresh,
         StaleOnlyIfOvertaken, NoPage, NoCopies, Unlisted, NoStamp
<1>2. TypeOK /\ TypeOK' /\ FreshInv /\ [Next]_vars => FreshInv'
  <2> SUFFICES ASSUME TypeOK, TypeOK', FreshInv, [Next]_vars PROVE FreshInv'
    OBVIOUS
  <2>0. NoFutureVersions /\ HeldDecksExist /\ CopiesAreFresh /\ StaleOnlyIfOvertaken
    BY DEF FreshInv
  <2> USE <2>0, VersionsAreInts
  <2>1. CASE Tick
    BY <2>1 DEF Tick, FreshInv, NoFutureVersions, HeldDecksExist, CopiesAreFresh,
                StaleOnlyIfOvertaken, workers
  <2>2. ASSUME NEW e \in Decks, Edit(e) PROVE FreshInv'
    <3>1. \A d \in Decks : mox[d] <= mox'[d] /\ mox'[d] \in Int
      BY <2>2 DEF Edit, TypeOK
    <3>2. NoFutureVersions'
      BY <2>2, <3>1 DEF Edit, NoFutureVersions, rows, workers
    <3>3. (HeldDecksExist /\ CopiesAreFresh /\ StaleOnlyIfOvertaken)'
      BY <2>2 DEF Edit, HeldDecksExist, CopiesAreFresh, StaleOnlyIfOvertaken, rows, workers
    <3> QED BY <3>2, <3>3 DEF FreshInv
  <2>3. ASSUME NEW w \in Workers, NEW listed \in SUBSET Decks,
               NEW unstamped \in SUBSET listed, SearchPage(w, listed, unstamped)
        PROVE  FreshInv'
    <3>1. \A v \in Workers : \A d \in Decks : page'[v][d] <= mox[d]
      BY <2>3 DEF SearchPage, TypeOK, NoFutureVersions, Unlisted, NoStamp, Versions
    <3>2. NoFutureVersions'
      BY <2>3, <3>1 DEF SearchPage, NoFutureVersions, rows
    <3>3. (HeldDecksExist /\ CopiesAreFresh /\ StaleOnlyIfOvertaken)'
      BY <2>3 DEF SearchPage, HeldDecksExist, CopiesAreFresh, StaleOnlyIfOvertaken, rows
    <3> QED BY <3>2, <3>3 DEF FreshInv
  <2>4. ASSUME NEW w \in Workers, PostDecks(w) PROVE FreshInv'
    <3>0. /\ mox' = mox
          /\ \A d \in Decks : updatedAt'[d] = IF d \in Listed(w) THEN page[w][d] ELSE updatedAt[d]
      BY <2>4 DEF PostDecks
    <3>1. NoFutureVersions'
      <4>1. \A v \in Workers : \A d \in Decks : page'[v][d] = page[v][d] \/ page'[v][d] = -1
        BY <2>4 DEF PostDecks, TypeOK, NoPage, Unlisted
      <4>2. \A d \in Decks : -1 <= mox[d]
        BY DeckQueueAssumption DEF TypeOK, Versions
      <4> QED BY <3>0, <4>1, <4>2 DEF NoFutureVersions
    <3>2. HeldDecksExist'
      BY <2>4 DEF PostDecks, TypeOK, HeldDecksExist, StatusAfterUpsert
    <3>3. ASSUME NEW d \in Decks \ overtaken'
          PROVE  /\ \A v \in Workers : got[v][d] > 0 => got[v][d] >= updatedAt'[d]
                 /\ \A r \in late : r.got[d] > 0 => r.got[d] >= updatedAt'[d]
                 /\ status'[d] = "done" => cards[d] >= updatedAt'[d]
      <4>1. CASE d \notin Listed(w)
        BY <2>4, <3>0, <3>3, <4>1 DEF PostDecks, CopiesAreFresh, StaleOnlyIfOvertaken
      <4>2. CASE d \in Listed(w) /\ Newer(d, page[w][d])
        <5>1. \A v \in CopiesOf(d) : ~(0 < v /\ v < page[w][d])
          BY <2>4, <3>3, <4>2 DEF PostDecks
        <5>2. status'[d] = "discovered"
          BY <2>4, <4>2 DEF PostDecks, StatusAfterUpsert
        <5>3. updatedAt'[d] = page[w][d]
          BY <3>0, <4>2
        <5> QED BY <5>1, <5>2, <5>3 DEF CopiesOf
      <4>3. CASE d \in Listed(w) /\ ~Newer(d, page[w][d])
        <5>1. d \notin overtaken /\ updatedAt'[d] <= updatedAt[d]
          BY <2>4, <3>0, <3>3, <4>3 DEF PostDecks, Newer
        <5>2. status'[d] = "done" => status[d] = "done"
          BY <2>4, <4>3 DEF PostDecks, StatusAfterUpsert
        <5>3. updatedAt'[d] \in Int
          BY <3>0, <4>3
        <5> QED BY <2>4, <5>1, <5>2, <5>3 DEF CopiesAreFresh, StaleOnlyIfOvertaken
      <4> QED BY <4>1, <4>2, <4>3
    <3>4. CopiesAreFresh' /\ StaleOnlyIfOvertaken'
      BY <2>4, <3>3 DEF PostDecks, CopiesAreFresh, StaleOnlyIfOvertaken
    <3> QED BY <3>1, <3>2, <3>4 DEF FreshInv
  <2>5. ASSUME NEW w \in Workers, NEW locked, ClaimDecks(w, locked) PROVE FreshInv'
    <3>1. PICK batch \in SUBSET FirstFormat(Claimable \ locked) :
            /\ status' = [d \in Decks |-> IF d \in batch THEN "claimed" ELSE status[d]]
            /\ todo' = [todo EXCEPT ![w] = batch]
      BY <2>5 DEF ClaimDecks
    <3>2. \A d \in batch : status[d] # "absent"
      BY DEF FirstFormat, Claimable
    <3>3. HeldDecksExist'
      BY <2>5, <3>1, <3>2 DEF ClaimDecks, HeldDecksExist, TypeOK
    <3>4. NoFutureVersions' /\ CopiesAreFresh' /\ StaleOnlyIfOvertaken'
      BY <2>5, <3>1 DEF ClaimDecks, NoFutureVersions, CopiesAreFresh, StaleOnlyIfOvertaken
    <3> QED BY <3>3, <3>4 DEF FreshInv
  <2>6. ASSUME NEW w \in Workers, NEW e \in Decks, FetchOk(w, e) PROVE FreshInv'
    <3>1. status[e] # "absent" /\ mox[e] >= updatedAt[e]
      BY <2>6 DEF FetchOk, HeldDecksExist, NoFutureVersions
    <3>2. \A v \in Workers : \A d \in Decks :
             got'[v][d] = got[v][d] \/ (d = e /\ got'[v][d] = mox[d])
      BY <2>6 DEF FetchOk, TypeOK
    <3>3. \A v \in Workers : todo'[v] \subseteq todo[v]
      BY <2>6 DEF FetchOk, TypeOK
    <3>4. HeldDecksExist' /\ CopiesAreFresh'
      BY <2>6, <3>1, <3>2, <3>3 DEF FetchOk, HeldDecksExist, CopiesAreFresh, rows
    <3>5. NoFutureVersions' /\ StaleOnlyIfOvertaken'
      BY <2>6 DEF FetchOk, NoFutureVersions, StaleOnlyIfOvertaken, rows
    <3> QED BY <3>4, <3>5 DEF FreshInv
  <2>7. ASSUME NEW w \in Workers, NEW e \in Decks, FetchFails(w, e) PROVE FreshInv'
    <3>1. \A v \in Workers : todo'[v] \subseteq todo[v]
      BY <2>7 DEF FetchFails, TypeOK
    <3> QED BY <2>7, <3>1 DEF FetchFails, FreshInv, NoFutureVersions, HeldDecksExist,
                              CopiesAreFresh, StaleOnlyIfOvertaken, rows
  <2>8. ASSUME NEW w \in Workers, NEW r \in Reports, NEW bad, SubmitDecks(r, bad),
               r.got = got[w], DropBatch(w), UNCHANGED <<page, late, overtaken>>
        PROVE  FreshInv'
    <3>1. \A d \in Decks \ overtaken : r.got[d] > 0 => r.got[d] >= updatedAt[d]
      BY <2>8 DEF CopiesAreFresh
    <3>2. StaleOnlyIfOvertaken' /\ \A d \in Decks : status'[d] = "absent" => status[d] = "absent"
      BY <2>8, <3>1, FreshReport
    <3>3. NoFutureVersions'
      BY <2>8 DEF SubmitDecks, NoFutureVersions
    <3>4. HeldDecksExist' /\ CopiesAreFresh'
      BY <2>8, <3>2, DropKeeps DEF SubmitDecks, HeldDecksExist, CopiesAreFresh
    <3> QED BY <3>2, <3>3, <3>4 DEF FreshInv
  <2>9. ASSUME NEW w \in Workers, NEW bad, Submit(w, bad) PROVE FreshInv'
    <3>1. Report(w, {}) \in Reports /\ Report(w, {}).got = got[w]
      BY DEF Report, Reports, TypeOK
    <3> QED BY <2>8, <2>9, <3>1 DEF Submit
  <2>10. ASSUME NEW w \in Workers, NEW inHand, NEW bad, SubmitOnStop(w, inHand, bad)
         PROVE  FreshInv'
    <3>1. Report(w, inHand) \in Reports /\ Report(w, inHand).got = got[w]
      BY <2>10 DEF SubmitOnStop, Report, Reports, TypeOK
    <3> QED BY <2>8, <2>10, <3>1 DEF SubmitOnStop
  <2>11. ASSUME NEW w \in Workers, NEW inHand, SubmitTimesOut(w, inHand) PROVE FreshInv'
    <3>1. late' = late \cup {Report(w, inHand)} /\ Report(w, inHand).got = got[w]
      BY <2>11 DEF SubmitTimesOut, Report
    <3>2. HeldDecksExist' /\ CopiesAreFresh'
      BY <2>11, <3>1, DropKeeps DEF SubmitTimesOut, HeldDecksExist, CopiesAreFresh, rows
    <3>3. NoFutureVersions' /\ StaleOnlyIfOvertaken'
      BY <2>11 DEF SubmitTimesOut, NoFutureVersions, StaleOnlyIfOvertaken, rows
    <3> QED BY <3>2, <3>3 DEF FreshInv
  <2>12. ASSUME NEW r \in late, NEW bad, LateSubmit(r, bad) PROVE FreshInv'
    <3>1. r \in Reports
      BY DEF TypeOK
    <3>2. \A d \in Decks \ overtaken : r.got[d] > 0 => r.got[d] >= updatedAt[d]
      BY DEF CopiesAreFresh
    <3>3. StaleOnlyIfOvertaken' /\ \A d \in Decks : status'[d] = "absent" => status[d] = "absent"
      BY <2>12, <3>1, <3>2, FreshReport DEF LateSubmit
    <3>4. HeldDecksExist' /\ CopiesAreFresh' /\ NoFutureVersions'
      BY <2>12, <3>3 DEF LateSubmit, SubmitDecks, HeldDecksExist, CopiesAreFresh,
                         NoFutureVersions, workers
    <3> QED BY <3>3, <3>4 DEF FreshInv
  <2>13. ASSUME NEW w \in Workers, Abandon(w) PROVE FreshInv'
    <3>1. \A v \in Workers : \A d \in Decks : page'[v][d] <= mox[d]
      BY <2>13 DEF Abandon, NoPage, Unlisted, NoFutureVersions, TypeOK, Versions
    <3>2. HeldDecksExist' /\ CopiesAreFresh'
      BY <2>13, DropKeeps DEF Abandon, HeldDecksExist, CopiesAreFresh, rows
    <3>3. NoFutureVersions' /\ StaleOnlyIfOvertaken'
      BY <2>13, <3>1 DEF Abandon, NoFutureVersions, StaleOnlyIfOvertaken, rows
    <3> QED BY <3>2, <3>3 DEF FreshInv
  <2>14. CASE UNCHANGED vars
    BY <2>14 DEF vars, rows, workers, FreshInv, NoFutureVersions, HeldDecksExist,
                 CopiesAreFresh, StaleOnlyIfOvertaken
  <2> QED BY <2>1, <2>2, <2>3, <2>4, <2>5, <2>6, <2>7, <2>9, <2>10, <2>11, <2>12, <2>13, <2>14
          DEF Next
<1> QED BY <1>1, <1>2, TypeCorrect, PTL DEF Spec

\* The part of it that matters to a reader of the tables.
THEOREM FreshCorrect == Spec => []StaleOnlyIfOvertaken
BY FreshInvCorrect, PTL DEF FreshInv

(***************************************************************************)
(* The refinement: DeckQueue implements DeckLifecycle.                     *)
(***************************************************************************)
\* The abstract stage of a deck, as in the mapping of Life.
Stage(d) == IF Queued(d) THEN "queued" ELSE status[d]

\* Whatever a report contains and whichever of its savepoints are rolled back,
\* it is an abstract report.
LEMMA SubmitImplementsReport ==
    ASSUME TypeOK, NEW r \in Reports, NEW bad, SubmitDecks(r, bad)
    PROVE  Life!Next
<1> DEFINE done   == Written(r) \ bad
           errors == MarkedError(r) \ (Written(r) \cup bad)
<1>1. done \in SUBSET Decks /\ errors \in SUBSET Decks
  BY DEF Written, MarkedError, Reports
<1>2. \A d \in done \cup errors : Stage(d) \notin {"absent", "done"}
  BY DEF Written, MarkedError, Stage, Queued
<1>3. \A d \in Decks : status'[d] = CASE d \in done   -> "done"
                                      [] d \in errors -> "error"
                                      [] OTHER        -> status[d]
  BY DEF SubmitDecks
<1>4. UNCHANGED updatedAt
  BY DEF SubmitDecks
<1>5. errors \ done = errors /\ done \cup errors \subseteq Decks
  BY <1>1
<1> HIDE DEF done, errors
<1>6. \A d \in Decks : Stage(d)' = CASE d \in done          -> "done"
                                      [] d \in errors \ done -> "error"
                                      [] OTHER              -> Stage(d)
  BY <1>2, <1>3, <1>5 DEF Stage, Queued
<1>7. [d \in Decks |-> Stage(d)]' = [d \in Decks |-> CASE d \in done          -> "done"
                                                        [] d \in errors \ done -> "error"
                                                        [] OTHER              -> Stage(d)]
  BY <1>6
<1>8. \E written, errored \in SUBSET Decks : Life!Report(written, errored)
  BY <1>1, <1>2, <1>4, <1>7 DEF Life!Report, Stage
<1> QED BY <1>8 DEF Life!Next

\* A posted page is an abstract post of the stamps it shows.
LEMMA PostImplementsPost ==
    ASSUME TypeOK, NEW w \in Workers, PostDecks(w)
    PROVE  Life!Next
<1> DEFINE stamps == [d \in Decks |-> IF d \in Listed(w) THEN page[w][d] ELSE NoStamp]
<1>1. Listed(w) \in SUBSET Decks /\ stamps \in [Decks -> Versions]
  BY DeckQueueAssumption DEF TypeOK, Listed, Versions, NoStamp
<1>2. \A d \in Decks : Stage(d)' =
        IF d \in Listed(w) /\ (Stage(d) = "absent" \/ stamps[d] > updatedAt[d])
        THEN "queued" ELSE Stage(d)
  BY DEF TypeOK, PostDecks, StatusAfterUpsert, Newer, Stage, Queued, Listed
<1>3. updatedAt' = [d \in Decks |-> IF d \in Listed(w) THEN stamps[d] ELSE updatedAt[d]]
  BY DEF PostDecks, Listed
<1> HIDE DEF stamps
<1> QED BY <1>1, <1>2, <1>3 DEF Life!Next, Life!Post, Stage

\* The deck queue implements the abstract lifecycle of a deck: every post and
\* every report is one of its steps, everything else leaves it alone.
THEOREM ImplementsLifecycleCorrect == Spec => ImplementsLifecycle
<1> DEFINE mapped == <<[d \in Decks |-> Stage(d)], updatedAt>>
<1>1. Init => Life!Init
  BY DEF Init, Life!Init, Queued, NoStamp
<1>2. TypeOK /\ [Next]_vars => [Life!Next]_mapped
  <2> SUFFICES ASSUME TypeOK, [Next]_vars PROVE Life!Next \/ UNCHANGED mapped
    OBVIOUS
  <2>0. ASSUME \A d \in Decks : Stage(d)' = Stage(d), UNCHANGED updatedAt
        PROVE  UNCHANGED mapped
    BY <2>0
  <2>1. ASSUME UNCHANGED <<status, updatedAt>> PROVE UNCHANGED mapped
    BY <2>0, <2>1 DEF Stage, Queued
  <2>2. CASE Tick
    BY <2>1, <2>2 DEF Tick
  <2>3. ASSUME NEW d \in Decks, Edit(d) PROVE UNCHANGED mapped
    BY <2>1, <2>3 DEF Edit, rows
  <2>4. ASSUME NEW w \in Workers, NEW listed, NEW unstamped, SearchPage(w, listed, unstamped)
        PROVE  UNCHANGED mapped
    BY <2>1, <2>4 DEF SearchPage, rows
  <2>5. ASSUME NEW w \in Workers, NEW locked, ClaimDecks(w, locked)
        PROVE  UNCHANGED mapped
    <3>1. PICK batch \in SUBSET FirstFormat(Claimable \ locked) :
            status' = [d \in Decks |-> IF d \in batch THEN "claimed" ELSE status[d]]
      BY <2>5 DEF ClaimDecks
    <3>2. \A d \in batch : Queued(d)
      BY DEF FirstFormat, Claimable, Queued
    <3>3. \A d \in Decks : Stage(d)' = Stage(d)
      BY <3>1, <3>2 DEF Stage, Queued
    <3> QED BY <2>0, <2>5, <3>3 DEF ClaimDecks
  <2>6. ASSUME NEW w \in Workers, NEW d \in Decks, FetchOk(w, d) \/ FetchFails(w, d)
        PROVE  UNCHANGED mapped
    BY <2>1, <2>6 DEF FetchOk, FetchFails, rows
  <2>7. ASSUME NEW w \in Workers, NEW inHand, SubmitTimesOut(w, inHand)
        PROVE  UNCHANGED mapped
    BY <2>1, <2>7 DEF SubmitTimesOut, rows
  <2>8. ASSUME NEW w \in Workers, Abandon(w) PROVE UNCHANGED mapped
    BY <2>1, <2>8 DEF Abandon, rows
  <2>9. ASSUME NEW w \in Workers, NEW inHand, NEW bad,
               Submit(w, bad) \/ SubmitOnStop(w, inHand, bad)
        PROVE  Life!Next
    <3>1. Report(w, {}) \in Reports
      BY DEF TypeOK, Report, Reports
    <3>2. CASE Submit(w, bad)
      BY <3>1, <3>2, SubmitImplementsReport DEF Submit
    <3>3. CASE SubmitOnStop(w, inHand, bad)
      <4>1. Report(w, inHand) \in Reports
        BY <3>3 DEF TypeOK, Report, Reports, SubmitOnStop
      <4> QED BY <3>3, <4>1, SubmitImplementsReport DEF SubmitOnStop
    <3> QED BY <2>9, <3>2, <3>3
  <2>10. ASSUME NEW r \in late, NEW bad, LateSubmit(r, bad) PROVE Life!Next
    BY <2>10, SubmitImplementsReport DEF LateSubmit, TypeOK
  <2>11. CASE UNCHANGED vars
    BY <2>1, <2>11 DEF vars, rows
  <2> HIDE DEF mapped
  <2> QED BY <2>2, <2>3, <2>4, <2>5, <2>6, <2>7, <2>8, <2>9, <2>10, <2>11,
             PostImplementsPost DEF Next
<1>3. ImplementsLifecycle <=> Life!Init /\ [][Life!Next]_mapped
  BY PTL DEF ImplementsLifecycle, Life!Spec, Stage
<1> QED BY <1>1, <1>2, <1>3, TypeCorrect, PTL DEF Spec
=============================================================================
