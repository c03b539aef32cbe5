-------------------------- MODULE DiscoveryProofs --------------------------
(***************************************************************************)
(* Proofs about Discovery, for every set of cards and of workers, every    *)
(* page size and any number of decks and faults.  First the listing: how   *)
(* decks are ranked and which page has which ranks.                        *)
(***************************************************************************)
EXTENDS Discovery, FiniteSetTheorems, FunctionTheorems, TLAPS

\* The types of the constants, and of the numbers of decks.
LEMMA ConstantsType ==
    /\ PageSize \in Nat /\ PageSize > 0 /\ MaxDecks \in Nat /\ MaxFaults \in Nat
    /\ \A d \in Decks : d \in Nat /\ d > 0 /\ d <= MaxDecks
BY DiscoveryAssumption DEF Decks

\* A set of decks is finite.
LEMMA DecksFinite ==
    ASSUME NEW T \in SUBSET Decks
    PROVE  IsFiniteSet(T) /\ Cardinality(T) \in Nat /\ Cardinality(T) <= MaxDecks
<1>1. IsFiniteSet(Decks) /\ Cardinality(Decks) = MaxDecks
  BY FS_Interval, DiscoveryAssumption DEF Decks
<1>2. IsFiniteSet(T) /\ Cardinality(T) <= Cardinality(Decks)
  BY <1>1, FS_Subset
<1> QED BY <1>1, <1>2, FS_CardinalityType

Above(T, d) == {e \in T : e > d}

Height(T, d) == Cardinality(Above(T, d))

\* Of two decks of a set, the newer has fewer decks above it.
LEMMA HeightOrder ==
    ASSUME NEW T \in SUBSET Decks, NEW d \in T, NEW e \in T, d < e
    PROVE  Height(T, e) < Height(T, d)
<1>1. Above(T, d) \in SUBSET Decks
  BY DEF Above
<1>2. Above(T, e) \in SUBSET Above(T, d)
  <2>1. \A x \in T : x > e => x > d
    BY ConstantsType
  <2> QED BY <2>1 DEF Above
<1>3. e \in Above(T, d) /\ e \notin Above(T, e)
  BY ConstantsType DEF Above
<1>4. /\ Cardinality(Above(T, e)) <= Cardinality(Above(T, d))
      /\ Cardinality(Above(T, d)) = Cardinality(Above(T, e)) => Above(T, d) = Above(T, e)
  BY <1>1, <1>2, DecksFinite, FS_Subset
<1>5. Cardinality(Above(T, e)) \in Nat /\ Cardinality(Above(T, d)) \in Nat
  BY DecksFinite DEF Above
<1> QED BY <1>3, <1>4, <1>5 DEF Height

\* A deck of a set has fewer decks above it than the set has.
LEMMA HeightBelowSize ==
    ASSUME NEW T \in SUBSET Decks, NEW d \in T
    PROVE  Height(T, d) \in 0..(Cardinality(T) - 1)
<1>1. Above(T, d) \in SUBSET T /\ d \notin Above(T, d)
  BY ConstantsType DEF Above
<1>2. /\ Cardinality(Above(T, d)) <= Cardinality(T)
      /\ Cardinality(T) = Cardinality(Above(T, d)) => T = Above(T, d)
  BY <1>1, DecksFinite, FS_Subset
<1>3. Cardinality(Above(T, d)) \in Nat /\ Cardinality(T) \in Nat
  BY DecksFinite DEF Above
<1> QED BY <1>1, <1>2, <1>3 DEF Height

\* Every number below the size of a set is the height of one of its decks.
LEMMA HeightOnto ==
    ASSUME NEW T \in SUBSET Decks, NEW k \in 0..(Cardinality(T) - 1)
    PROVE  \E d \in T : Height(T, d) = k
<1> DEFINE f == [d \in T |-> Height(T, d)]
           K == 0..(Cardinality(T) - 1)
<1>1. Cardinality(T) \in Nat
  BY DecksFinite
<1>2. IsFiniteSet(K) /\ Cardinality(K) = Cardinality(T)
  <2>1. /\ IsFiniteSet(K)
        /\ Cardinality(K) = IF 0 > Cardinality(T) - 1 THEN 0 ELSE Cardinality(T) - 1 - 0 + 1
    <3>1. 0 \in Int /\ Cardinality(T) - 1 \in Int
      BY <1>1
    <3> QED BY <3>1, FS_Interval
  <2> QED BY <1>1, <2>1
<1>3. f \in [T -> K]
  BY HeightBelowSize
<1>4. \A d, e \in T : f[d] = f[e] => d = e
  <2> SUFFICES ASSUME NEW d \in T, NEW e \in T, d # e PROVE f[d] # f[e]
    OBVIOUS
  <2>1. d \in Int /\ e \in Int /\ Height(T, d) \in Int /\ Height(T, e) \in Int
    BY HeightBelowSize DEF Decks
  <2>2. d < e \/ e < d
    BY <2>1
  <2> QED BY <2>1, <2>2, HeightOrder
<1>5. f \in Injection(T, K)
  BY <1>3, <1>4, Fun_IsInj
<1>6. f \in Surjection(T, K)
  BY <1>2, <1>5, FS_Injection
<1>7. PICK d \in T : f[d] = k
  <2> HIDE DEF f
  <2> QED BY <1>6 DEF Surjection
<1> QED BY <1>7

\* A set of decks that is not empty has a newest deck.
LEMMA NewestExists ==
    ASSUME NEW T \in SUBSET Decks, T # {}
    PROVE  \E d \in T : \A e \in T : e <= d
<1>1. Cardinality(T) \in Nat /\ Cardinality(T) # 0
  BY DecksFinite, FS_EmptySet
<1>2. PICK d \in T : Height(T, d) = 0
  BY <1>1, HeightOnto
<1>3. ASSUME NEW e \in T, d < e PROVE FALSE
  <2>1. Height(T, e) < Height(T, d)
    BY <1>3, HeightOrder
  <2> QED BY <1>2, <2>1, HeightBelowSize
<1> QED BY <1>3, ConstantsType
-----------------------------------------------------------------------------
(***************************************************************************)
(* Pages of a listing.                                                     *)
(***************************************************************************)
Rank(c, d) == Cardinality(Newer(c, d))

\* How many decks are on the pages before page p.
Start(p) == (p - 1) * PageSize

\* Pages follow one another without gap.
LEMMA StartsOfPages ==
    ASSUME NEW p \in Nat, p > 0
    PROVE  /\ Start(p) \in Nat /\ Start(p + 1) \in Nat
           /\ Start(p + 1) = Start(p) + PageSize
           /\ p - 1 <= Start(p)
<1>1. (p - 1) * PageSize \in Nat /\ p * PageSize \in Nat
  BY ConstantsType
<1>2. p * PageSize = (p - 1) * PageSize + PageSize
  BY ConstantsType
<1>3. p - 1 <= (p - 1) * PageSize
  BY ConstantsType
<1>4. p + 1 - 1 = p
  OBVIOUS
<1> QED BY <1>1, <1>2, <1>3, <1>4 DEF Start

\* A sweep begins at the top of the listing.
LEMMA FirstStart == Start(1) = 0
BY ConstantsType DEF Start

\* Division by the page size, by multiplication alone.
LEMMA DivisionByPageSize ==
    ASSUME NEW r \in Nat, NEW q \in Nat
    PROVE  /\ r \div PageSize \in Int
           /\ r \div PageSize = q <=> q * PageSize <= r /\ r < q * PageSize + PageSize
           /\ r \div PageSize <= q => r < q * PageSize + PageSize
<1> DEFINE k == r \div PageSize
<1>1. k \in Int /\ k * PageSize <= r /\ r < k * PageSize + PageSize
  BY ConstantsType
<1> HIDE DEF k
<1>2. k < q => k * PageSize + PageSize <= q * PageSize
  <2>1. SUFFICES ASSUME k < q PROVE k * PageSize + PageSize <= q * PageSize
    OBVIOUS
  <2>2. (k + 1) * PageSize <= q * PageSize
    BY <1>1, <2>1, ConstantsType
  <2> QED BY <1>1, <2>2, ConstantsType
<1>3. k > q => q * PageSize + PageSize <= k * PageSize
  <2>1. SUFFICES ASSUME k > q PROVE q * PageSize + PageSize <= k * PageSize
    OBVIOUS
  <2>2. (q + 1) * PageSize <= k * PageSize
    BY <1>1, <2>1, ConstantsType
  <2> QED BY <1>1, <2>2, ConstantsType
<1>4. k * PageSize \in Int /\ q * PageSize \in Int
  BY <1>1, ConstantsType
<1>5. k = q <=> q * PageSize <= r /\ r < q * PageSize + PageSize
  BY <1>1, <1>2, <1>3, <1>4, ConstantsType
<1>6. k <= q => r < q * PageSize + PageSize
  BY <1>1, <1>2, <1>4, ConstantsType
<1> QED BY <1>1, <1>5, <1>6 DEF k

\* Ranks are heights in the listing.
LEMMA RankIsHeight ==
    ASSUME NEW c, NEW d PROVE Rank(c, d) = Height(Listing(c), d)
BY DEF Rank, Height, Newer, Above

\* The rank of a listed deck, and which of two listed decks is the newer.
LEMMA RanksAreOrdered ==
    ASSUME listed \subseteq Decks, NEW c
    PROVE  /\ Listing(c) \in SUBSET Decks
           /\ \A d \in Listing(c) : Rank(c, d) \in Nat /\ Rank(c, d) < MaxDecks
                                    /\ Rank(c, d) <= Cardinality(Listing(c)) - 1
           /\ \A d, e \in Listing(c) : d < e <=> Rank(c, e) < Rank(c, d)
<1>1. Listing(c) \in SUBSET Decks
  BY DEF Listing
<1>2. Cardinality(Listing(c)) \in Nat /\ Cardinality(Listing(c)) <= MaxDecks
  BY <1>1, DecksFinite
<1>3. ASSUME NEW d \in Listing(c)
      PROVE  /\ Rank(c, d) \in Nat /\ Rank(c, d) < MaxDecks
             /\ Rank(c, d) <= Cardinality(Listing(c)) - 1
  BY <1>1, <1>2, HeightBelowSize, RankIsHeight, ConstantsType
<1>4. \A d, e \in Listing(c) : d < e => Rank(c, e) < Rank(c, d)
  BY <1>1, HeightOrder, RankIsHeight
<1>5. \A d, e \in Listing(c) : d < e <=> Rank(c, e) < Rank(c, d)
  <2> SUFFICES ASSUME NEW d \in Listing(c), NEW e \in Listing(c)
               PROVE  d < e <=> Rank(c, e) < Rank(c, d)
    OBVIOUS
  <2>1. d \in Nat /\ e \in Nat
    BY <1>1, ConstantsType
  <2>2. d < e \/ d = e \/ e < d
    BY <2>1
  <2> QED BY <1>3, <1>4, <2>1, <2>2
<1> QED BY <1>1, <1>3, <1>5

\* What is on a page, by rank.
LEMMA PageHasRanks ==
    ASSUME listed \subseteq Decks, NEW c, NEW p \in Nat, p > 0
    PROVE  /\ SearchPage(c, p) \subseteq Listing(c)
           /\ \A d \in Listing(c) : d \in SearchPage(c, p)
                  <=> Start(p) <= Rank(c, d) /\ Rank(c, d) < Start(p + 1)
<1>1. SearchPage(c, p) \subseteq Listing(c)
  BY DEF SearchPage
<1>2. ASSUME NEW d \in Listing(c)
      PROVE  d \in SearchPage(c, p) <=> Start(p) <= Rank(c, d) /\ Rank(c, d) < Start(p + 1)
  <2>1. Rank(c, d) \in Nat
    BY RanksAreOrdered
  <2>2. Rank(c, d) \div PageSize = p - 1
           <=> (p - 1) * PageSize <= Rank(c, d) /\ Rank(c, d) < (p - 1) * PageSize + PageSize
    BY <2>1, DivisionByPageSize
  <2>3. d \in SearchPage(c, p) <=> Rank(c, d) \div PageSize = p - 1
    BY DEF SearchPage, Rank
  <2> QED BY <2>2, <2>3, StartsOfPages DEF Start
<1> QED BY <1>1, <1>2

\* A page up to which there are decks is not empty.
LEMMA PageNotEmpty ==
    ASSUME listed \subseteq Decks, NEW c, NEW p \in Nat, p > 0,
           NEW d \in Listing(c), Start(p) <= Rank(c, d)
    PROVE  SearchPage(c, p) # {}
<1>1. Listing(c) \in SUBSET Decks /\ Cardinality(Listing(c)) \in Nat
  BY DecksFinite, RanksAreOrdered
<1>2. Rank(c, d) \in Nat /\ Rank(c, d) <= Cardinality(Listing(c)) - 1
  BY RanksAreOrdered
<1>3. Start(p) \in Nat /\ Start(p) < Start(p + 1)
  BY StartsOfPages, ConstantsType
<1>4. Start(p) \in 0..(Cardinality(Listing(c)) - 1)
  BY <1>1, <1>2, <1>3
<1>5. PICK e \in Listing(c) : Rank(c, e) = Start(p)
  BY <1>1, <1>4, HeightOnto, RankIsHeight
<1>6. Start(p) <= Rank(c, e) /\ Rank(c, e) < Start(p + 1)
  BY <1>3, <1>5
<1>7. e \in SearchPage(c, p)
  BY <1>5, <1>6, PageHasRanks
<1> QED BY <1>7

\* There are no more pages than decks.
LEMMA PagesAreBounded ==
    ASSUME listed \subseteq Decks, NEW c, NEW p \in Nat, p > 0, SearchPage(c, p) # {}
    PROVE  p <= MaxDecks
<1>1. PICK d \in SearchPage(c, p) : TRUE
  OBVIOUS
<1>2. d \in Listing(c) /\ Start(p) <= Rank(c, d) /\ Rank(c, d) < MaxDecks /\ Rank(c, d) \in Nat
  BY <1>1, PageHasRanks, RanksAreOrdered
<1> QED BY <1>2, StartsOfPages, ConstantsType

\* No deck lies behind the last page: a page that is not full is the last.
LEMMA LastPageIsLast ==
    ASSUME listed \subseteq Decks, NEW c, NEW p \in Nat, p > 0, IsLastPage(c, p),
           NEW d \in Listing(c), Start(p) <= Rank(c, d)
    PROVE  d \in SearchPage(c, p)
<1>0. /\ Listing(c) \in SUBSET Decks /\ Cardinality(Listing(c)) \in Nat
      /\ Rank(c, d) \in Nat /\ Rank(c, d) <= Cardinality(Listing(c)) - 1
  BY RanksAreOrdered, DecksFinite
<1> SUFFICES ASSUME Start(p + 1) <= Rank(c, d) PROVE FALSE
  BY <1>0, PageHasRanks, StartsOfPages
<1>1. CASE p >= TotalPages(c)
  <2> DEFINE r == Cardinality(Listing(c)) + PageSize - 1
  <2>1. r \in Nat
    BY <1>0, ConstantsType
  <2>2. TotalPages(c) = r \div PageSize
    BY DEF TotalPages
  <2> HIDE DEF r
  <2>3. r < p * PageSize + PageSize
    BY <1>1, <2>1, <2>2, DivisionByPageSize
  <2>4. Start(p + 1) = p * PageSize /\ Start(p + 1) \in Nat
    BY StartsOfPages DEF Start
  <2> QED BY <1>0, <2>3, <2>4, ConstantsType DEF r
<1>2. CASE Cardinality(SearchPage(c, p)) < PageSize
  <2> DEFINE S == SearchPage(c, p)
             K == Start(p)..(Start(p + 1) - 1)
             f == [e \in S |-> Rank(c, e)]
  <2>1. S \in SUBSET Listing(c) /\ S \in SUBSET Decks /\ Cardinality(S) \in Nat
    BY <1>0, PageHasRanks, DecksFinite
  <2>2. Cardinality(K) = PageSize
    <3>1. /\ Start(p) \in Int /\ Start(p + 1) - 1 \in Int
          /\ Start(p + 1) - 1 - Start(p) + 1 = PageSize /\ Start(p) <= Start(p + 1) - 1
      BY StartsOfPages, ConstantsType
    <3> QED BY <3>1, FS_Interval
  <2>3. f \in [S -> K]
    <3>1. ASSUME NEW e \in S PROVE Rank(c, e) \in K
      BY <2>1, PageHasRanks, RanksAreOrdered, StartsOfPages
    <3> QED BY <3>1
  <2>4. \A k \in K : \E e \in S : f[e] = k
    <3> SUFFICES ASSUME NEW k \in K PROVE \E e \in S : Rank(c, e) = k
      OBVIOUS
    <3>1. k \in 0..(Cardinality(Listing(c)) - 1) /\ Start(p) <= k /\ k < Start(p + 1)
      BY <1>0, StartsOfPages
    <3>2. PICK e \in Listing(c) : Rank(c, e) = k
      BY <1>0, <3>1, HeightOnto, RankIsHeight
    <3> QED BY <3>1, <3>2, PageHasRanks
  <2>5. f \in Surjection(S, K)
    <3> HIDE DEF f, S, K
    <3> QED BY <2>3, <2>4, Fun_IsSurj
  <2>6. Cardinality(K) <= Cardinality(S)
    <3> HIDE DEF f, S, K
    <3> QED BY <2>1, <2>5, DecksFinite, FS_Surjection
  <2> QED BY <1>2, <2>1, <2>2, <2>6, ConstantsType
<1> QED BY <1>1, <1>2 DEF IsLastPage
-----------------------------------------------------------------------------
(***************************************************************************)
(* The type invariant, with what it takes to be inductive: decks are       *)
(* numbered without gap, and a sweep is at a page that exists.             *)
(***************************************************************************)
Typed ==
    /\ TypeOK
    /\ Created = 1..Cardinality(Created)
    /\ \A w \in Workers :
         /\ hand[w] \subseteq Created
         /\ phase[w] = "post" => page[w] <= MaxDecks
         /\ ~Paging(w) => page[w] = 1
         /\ phase[w] # "post" => w \notin last

\* A published deck is the newest of all.
LEMMA PublishedIsNewest ==
    ASSUME Typed, NEW cs \in CardSets, Publish(cs)
    PROVE  LET d == Cardinality(Created) + 1 IN
           /\ d \in Decks /\ d \notin Created /\ \A e \in Created : e < d
           /\ Created' = Created \cup {d}
           /\ Created' = 1..Cardinality(Created')
           /\ has'[d] = cs /\ \A e \in Decks \ {d} : has'[e] = has[e]
<1> DEFINE d == Cardinality(Created) + 1
<1>1. Created \in SUBSET Decks /\ cs # {} /\ has \in [Decks -> CardSets \cup {{}}]
  BY DiscoveryAssumption DEF Typed, TypeOK, Created
<1>2. IsFiniteSet(Created) /\ Cardinality(Created) \in Nat
  BY <1>1, DecksFinite
<1>3. d \in Decks /\ has' = [has EXCEPT ![d] = cs]
  BY DEF Publish
<1>4. Created = 1..Cardinality(Created)
  BY DEF Typed
<1>5. d \notin Created /\ \A e \in Created : e < d
  BY <1>2, <1>4
<1>6. has'[d] = cs /\ \A e \in Decks \ {d} : has'[e] = has[e]
  BY <1>1, <1>3
<1> HIDE DEF d
<1>7. Created' = Created \cup {d}
  BY <1>1, <1>3, <1>6 DEF Created
<1>8. Cardinality(Created') = Cardinality(Created) + 1
  BY <1>2, <1>5, <1>7, FS_AddElement
<1>9. Created' = 1..Cardinality(Created')
  BY <1>2, <1>4, <1>7, <1>8 DEF d
<1> QED BY <1>3, <1>5, <1>6, <1>7, <1>9 DEF d

\* A step that creates no deck and leaves the known ones and the sweeps alone.
LEMMA TypedKept ==
    ASSUME Typed, Created' = Created, has' \in [Decks -> CardSets \cup {{}}],
           known' = known, listed' \subseteq Created,
           everSwept' \subseteq Cards, blamed' \subseteq Cards, faults' \in 0..MaxFaults,
           UNCHANGED sweep, owed' \in [Workers -> SUBSET Decks], UNCHANGED <<pubs, added>>
    PROVE  Typed'
<1>1. TypeOK'
  BY DEF Typed, TypeOK, sweep
<1> QED BY <1>1 DEF Typed, Paging, sweep

\* A worker becomes idle.
LEMMA GoIdleTyped ==
    ASSUME Typed, NEW w \in Workers, GoIdle(w), UNCHANGED moxfield, known' = known,
           everSwept' \subseteq Cards, blamed' \subseteq Cards, faults' \in 0..MaxFaults
    PROVE  Typed'
<1>1. Created' = Created
  BY DEF Created, moxfield
<1>2. /\ phase' \in [Workers -> {"idle", "read", "post", "complete"}]
      /\ card' \in [Workers -> Cards \cup {NoCard}]
      /\ full' \subseteq Workers /\ last' \subseteq Workers /\ added' \subseteq Workers
      /\ page' \in [Workers -> 1..(MaxDecks + 1)]
      /\ hand' \in [Workers -> SUBSET Decks] /\ owed' \in [Workers -> SUBSET Decks]
      /\ pubs' \in [Workers -> 0..PageSize]
  BY ConstantsType DEF Typed, TypeOK, GoIdle
<1>3. \A v \in Workers : /\ card'[v] = NoCard <=> phase'[v] = "idle"
                         /\ hand'[v] # {} <=> phase'[v] = "post"
  BY DEF Typed, TypeOK, GoIdle
<1>4. TypeOK'
  BY <1>1, <1>2, <1>3 DEF Typed, TypeOK, moxfield
<1>5. \A v \in Workers : /\ hand'[v] \subseteq Created'
                         /\ phase'[v] = "post" => page'[v] <= MaxDecks
                         /\ ~Paging(v)' => page'[v] = 1
                         /\ phase'[v] # "post" => v \notin last'
  BY <1>1 DEF Typed, TypeOK, GoIdle, Paging
<1> QED BY <1>1, <1>4, <1>5 DEF Typed

\* A sweep's loop ends, with the page in hand put away.
LEMMA EndLoopTyped ==
    ASSUME Typed, NEW w \in Workers, EndLoop(w), phase[w] # "idle", UNCHANGED <<card, full>>,
           hand' = [hand EXCEPT ![w] = {}], last' = last \ {w},
           UNCHANGED <<moxfield, everSwept>>, known' \subseteq Created,
           owed' \in [Workers -> SUBSET Decks],
           blamed' \subseteq Cards, faults' \in 0..MaxFaults
    PROVE  Typed'
<1>1. Created' = Created
  BY DEF Created, moxfield
<1>2. /\ phase' \in [Workers -> {"idle", "read", "post", "complete"}]
      /\ card' \in [Workers -> Cards \cup {NoCard}]
      /\ full' \subseteq Workers /\ last' \subseteq Workers /\ added' \subseteq Workers
      /\ page' \in [Workers -> 1..(MaxDecks + 1)]
      /\ hand' \in [Workers -> SUBSET Decks]
      /\ pubs' \in [Workers -> 0..PageSize]
  BY ConstantsType DEF Typed, TypeOK, EndLoop
<1>3. \A v \in Workers : /\ card'[v] = NoCard <=> phase'[v] = "idle"
                         /\ hand'[v] # {} <=> phase'[v] = "post"
  BY DEF Typed, TypeOK, EndLoop
<1>4. TypeOK'
  BY <1>1, <1>2, <1>3 DEF Typed, TypeOK, moxfield
<1>5. \A v \in Workers : /\ hand'[v] \subseteq Created'
                         /\ phase'[v] = "post" => page'[v] <= MaxDecks
                         /\ ~Paging(v)' => page'[v] = 1
                         /\ phase'[v] # "post" => v \notin last'
  BY <1>1 DEF Typed, TypeOK, EndLoop, Paging
<1> QED BY <1>1, <1>4, <1>5 DEF Typed

\* A page is read.
LEMMA ReadPageTyped ==
    ASSUME Typed, NEW w \in Workers, ReadPage(w)
    PROVE  Typed'
<1> DEFINE found == SearchPage(card[w], page[w])
<1>0. UNCHANGED <<moxfield, tables, card, full, faults, owed, blamed>> /\ phase[w] = "read"
  BY DEF ReadPage
<1>1. CASE AtEnd(found)
  <2>1. EndLoop(w) /\ UNCHANGED <<hand, last>>
    BY <1>1 DEF ReadPage
  <2>2. hand[w] = {} /\ w \notin last
    BY <1>0 DEF Typed, TypeOK
  <2>3. hand' = [hand EXCEPT ![w] = {}] /\ last' = last \ {w}
    BY <2>1, <2>2 DEF Typed, TypeOK
  <2> QED BY <1>0, <2>1, <2>3, EndLoopTyped DEF Typed, TypeOK, tables
<1>2. CASE ~AtEnd(found)
  <2>1. /\ phase' = [phase EXCEPT ![w] = "post"]
        /\ hand'  = [hand EXCEPT ![w] = found]
        /\ last'  = IF IsLastPage(card[w], page[w]) THEN last \cup {w} ELSE last
        /\ UNCHANGED <<page, pubs, added>>
    BY <1>2 DEF ReadPage
  <2>2. Created' = Created /\ listed \subseteq Decks /\ page[w] \in Nat /\ page[w] > 0
    BY <1>0, ConstantsType DEF Created, moxfield, Typed, TypeOK
  <2>3. found \subseteq Created /\ found \subseteq Decks /\ found # {}
    BY <1>2 DEF SearchPage, Listing, Typed, TypeOK, Created, AtEnd
  <2>4. page[w] <= MaxDecks
    BY <2>2, <2>3, PagesAreBounded
  <2> HIDE DEF found
  <2>5. /\ phase' \in [Workers -> {"idle", "read", "post", "complete"}]
        /\ hand' \in [Workers -> SUBSET Decks] /\ last' \subseteq Workers
    BY <2>1, <2>3 DEF Typed, TypeOK
  <2>6. /\ phase'[w] = "post" /\ hand'[w] = found
        /\ \A v \in Workers \ {w} : phase'[v] = phase[v] /\ hand'[v] = hand[v]
    BY <2>1 DEF Typed, TypeOK
  <2>7. \A v \in Workers : /\ card[v] = NoCard <=> phase'[v] = "idle"
                           /\ hand'[v] # {} <=> phase'[v] = "post"
    BY <1>0, <2>3, <2>6 DEF Typed, TypeOK
  <2>8. TypeOK'
    BY <1>0, <2>1, <2>2, <2>5, <2>7 DEF Typed, TypeOK, moxfield, tables
  <2>9. \A v \in Workers : /\ hand'[v] \subseteq Created
                           /\ phase'[v] = "post" => page'[v] <= MaxDecks
                           /\ ~Paging(v)' => page'[v] = 1
                           /\ phase'[v] # "post" => v \notin last'
    BY <2>1, <2>3, <2>4, <2>6 DEF Typed, TypeOK, Paging
  <2> QED BY <2>2, <2>8, <2>9 DEF Typed
<1> QED BY <1>1, <1>2
\* The cards of decks are cards.
LEMMA StrangersAreCards ==
    ASSUME Typed, NEW d \in Decks PROVE has[d] \subseteq Cards
BY DiscoveryAssumption DEF Typed, TypeOK

\* A page is posted.
LEMMA PostPageTyped ==
    ASSUME Typed, NEW w \in Workers, PostPage(w)
    PROVE  Typed'
<1>1. /\ UNCHANGED <<moxfield, everSwept, card, full, faults>> /\ phase[w] = "post"
      /\ hand' = [hand EXCEPT ![w] = {}] /\ last' = last \ {w}
      /\ known' = known \cup hand[w] /\ owed' = [v \in Workers |-> owed[v] \ hand[w]]
  BY DEF PostPage, Upsert
<1>2. Created' = Created
  BY <1>1 DEF Created, moxfield
<1>3. known' \subseteq Created /\ owed' \in [Workers -> SUBSET Decks]
  BY <1>1 DEF Typed, TypeOK
<1>4. blamed' \subseteq Cards
  <2>1. card[w] \in Cards /\ Fresh(w) \subseteq Decks
    BY <1>1 DEF Typed, TypeOK, Fresh
  <2>2. Strangers(w) \subseteq Cards
    BY <2>1, StrangersAreCards DEF Strangers
  <2> QED BY <2>1, <2>2 DEF PostPage, Typed, TypeOK
<1>5. faults' \in 0..MaxFaults
  BY <1>1 DEF Typed, TypeOK
<1>6. CASE w \in last \/ StopsAtKnown(w)
  <2>1. EndLoop(w)
    BY <1>6 DEF PostPage
  <2> QED BY <1>1, <1>3, <1>4, <1>5, <2>1, EndLoopTyped
<1>7. CASE ~(w \in last \/ StopsAtKnown(w))
  <2>1. /\ phase' = [phase EXCEPT ![w] = "read"]
        /\ page'  = [page EXCEPT ![w] = @ + 1]
        /\ added' = IF Fresh(w) # {} THEN added \cup {w} ELSE added
        /\ UNCHANGED pubs
    BY <1>7 DEF PostPage
  <2>2. page[w] + 1 \in 1..(MaxDecks + 1)
    BY <1>1, ConstantsType DEF Typed, TypeOK
  <2>3. /\ phase' \in [Workers -> {"idle", "read", "post", "complete"}]
        /\ page' \in [Workers -> 1..(MaxDecks + 1)]
        /\ hand' \in [Workers -> SUBSET Decks] /\ last' \subseteq Workers
        /\ added' \subseteq Workers
    BY <1>1, <2>1, <2>2 DEF Typed, TypeOK
  <2>4. /\ phase'[w] = "read" /\ hand'[w] = {}
        /\ \A v \in Workers \ {w} :
             phase'[v] = phase[v] /\ hand'[v] = hand[v] /\ page'[v] = page[v]
    BY <1>1, <2>1 DEF Typed, TypeOK
  <2>5. \A v \in Workers : /\ card[v] = NoCard <=> phase'[v] = "idle"
                           /\ hand'[v] # {} <=> phase'[v] = "post"
    BY <1>1, <2>4 DEF Typed, TypeOK
  <2>6. TypeOK'
    BY <1>1, <1>2, <1>3, <1>4, <1>5, <2>1, <2>3, <2>5 DEF Typed, TypeOK, moxfield
  <2>7. \A v \in Workers : /\ hand'[v] \subseteq Created
                           /\ phase'[v] = "post" => page'[v] <= MaxDecks
                           /\ ~Paging(v)' => page'[v] = 1
                           /\ phase'[v] # "post" => v \notin last'
    BY <1>1, <2>4 DEF Typed, TypeOK, Paging
  <2> QED BY <1>2, <2>6, <2>7 DEF Typed
<1> QED BY <1>6, <1>7

\* Every step keeps the type invariant.
LEMMA TypedStep == Typed /\ [Next]_vars => Typed'
<1> SUFFICES ASSUME Typed, [Next]_vars PROVE Typed'
  OBVIOUS
<1>0. Faulty => faults' \in 0..MaxFaults
  BY ConstantsType DEF Faulty, Typed, TypeOK
<1>1. ASSUME NEW cs \in CardSets, Publish(cs) PROVE Typed'
  <2> DEFINE d == Cardinality(Created) + 1
  <2>1. /\ d \in Decks /\ Created' = Created \cup {d}
        /\ Created' = 1..Cardinality(Created')
    BY <1>1, PublishedIsNewest
  <2>2. /\ has' = [has EXCEPT ![d] = cs] /\ listed' = listed \cup {d}
        /\ UNCHANGED <<faults, tables, sweep, owed, added, blamed>>
        /\ pubs' = [w \in Workers |->
                     IF Paging(w) /\ w \notin full /\ card[w] \in cs /\ pubs[w] < PageSize
                     THEN pubs[w] + 1 ELSE pubs[w]]
    BY <1>1 DEF Publish
  <2> HIDE DEF d
  <2>3. pubs' \in [Workers -> 0..PageSize]
    <3>1. \A w \in Workers : pubs[w] \in 0..PageSize
      BY DEF Typed, TypeOK
    <3>2. \A w \in Workers : pubs[w] < PageSize => pubs[w] + 1 \in 0..PageSize
      BY <3>1, ConstantsType
    <3> QED BY <2>2, <3>1, <3>2
  <2>4. has' \in [Decks -> CardSets \cup {{}}] /\ listed' \subseteq Created'
    BY <2>1, <2>2 DEF Typed, TypeOK
  <2>5. TypeOK'
    BY <2>1, <2>2, <2>3, <2>4 DEF Typed, TypeOK, tables, sweep
  <2> QED BY <2>1, <2>2, <2>5 DEF Typed, Paging, sweep
<1>2. ASSUME NEW d \in Decks, Withdraw(d) PROVE Typed'
  <2>1. blamed' \subseteq Cards
    BY <1>2, StrangersAreCards DEF Withdraw, Typed, TypeOK
  <2>2. owed' \in [Workers -> SUBSET Decks] /\ listed' \subseteq Created
    BY <1>2 DEF Withdraw, Typed, TypeOK
  <2>3. Created' = Created /\ has' = has
    BY <1>2 DEF Withdraw, Created
  <2> QED BY <1>0, <1>2, <2>1, <2>2, <2>3, TypedKept DEF Withdraw, Typed, TypeOK, tables
<1>3. ASSUME NEW d \in Decks, MakePublic(d) PROVE Typed'
  <2>1. blamed' \subseteq Cards /\ listed' \subseteq Created
    BY <1>3, StrangersAreCards DEF MakePublic, Typed, TypeOK
  <2>2. Created' = Created /\ has' = has
    BY <1>3 DEF MakePublic, Created
  <2> QED BY <1>3, <2>1, <2>2, TypedKept DEF MakePublic, Typed, TypeOK, tables
<1>4. ASSUME NEW w \in Workers, NEW c \in Cards, ClaimSweep(w, c) PROVE Typed'
  <2>1. Created' = Created /\ c # NoCard
    BY <1>4, DiscoveryAssumption DEF ClaimSweep, moxfield, Created
  <2>2. owed' \in [Workers -> SUBSET Decks]
    BY <1>4 DEF ClaimSweep, Typed, TypeOK, Listing, Created
  <2>3. /\ phase'[w] = "read" /\ card'[w] = c
        /\ \A v \in Workers \ {w} : phase'[v] = phase[v] /\ card'[v] = card[v]
    BY <1>4 DEF ClaimSweep, Typed, TypeOK
  <2>4. /\ phase' \in [Workers -> {"idle", "read", "post", "complete"}]
        /\ card' \in [Workers -> Cards \cup {NoCard}] /\ full' \subseteq Workers
    BY <1>4 DEF ClaimSweep, Typed, TypeOK
  <2>5. \A v \in Workers : /\ card'[v] = NoCard <=> phase'[v] = "idle"
                           /\ hand'[v] # {} <=> phase'[v] = "post"
    BY <1>4, <2>1, <2>3 DEF ClaimSweep, Typed, TypeOK
  <2>6. TypeOK'
    BY <1>4, <2>1, <2>2, <2>4, <2>5 DEF ClaimSweep, Typed, TypeOK, moxfield, tables
  <2>7. \A v \in Workers : /\ hand'[v] \subseteq Created
                           /\ phase'[v] = "post" => page'[v] <= MaxDecks
                           /\ ~Paging(v)' => page'[v] = 1
                           /\ phase'[v] # "post" => v \notin last'
    BY <1>4, <2>3 DEF ClaimSweep, Typed, TypeOK, Paging
  <2> QED BY <2>1, <2>6, <2>7 DEF Typed
<1>5. ASSUME NEW w \in Workers, Abort(w) PROVE Typed'
  <2>1. blamed' \subseteq Cards
    BY <1>5 DEF Abort, Typed, TypeOK
  <2> QED BY <1>0, <1>5, <2>1, GoIdleTyped DEF Abort, tables, Typed, TypeOK
<1>6. ASSUME NEW w \in Workers, Stop(w) PROVE Typed'
  <2>1. blamed' \subseteq Cards
    BY <1>6 DEF Stop, Typed, TypeOK
  <2>2. hand[w] = {} /\ w \notin last
    BY <1>6 DEF Stop, Typed, TypeOK
  <2>3. hand' = [hand EXCEPT ![w] = {}] /\ last' = last \ {w}
    BY <1>6, <2>2 DEF Stop, Typed, TypeOK
  <2>4. owed' \in [Workers -> SUBSET Decks]
    BY <1>6 DEF Stop, Typed, TypeOK
  <2> QED BY <1>0, <1>6, <2>1, <2>3, <2>4, EndLoopTyped DEF Stop, tables, Typed, TypeOK
<1>7. ASSUME NEW w \in Workers, CompleteSweep(w) PROVE Typed'
  <2>1. everSwept' \subseteq Cards
    BY <1>7 DEF CompleteSweep, Typed, TypeOK
  <2> QED BY <1>7, <2>1, GoIdleTyped DEF CompleteSweep, Typed, TypeOK
<1>8. CASE UNCHANGED vars
  <2>1. Created' = Created
    BY <1>8 DEF vars, moxfield, Created
  <2> QED BY <1>8, <2>1
      DEF vars, moxfield, tables, sweep, ghosts, Typed, TypeOK, Paging
<1>9. ASSUME NEW d \in Decks, NEW cs \in CardSets, Edit(d, cs) PROVE Typed'
  <2>1. blamed' \subseteq Cards
    <3>1. has[d] \subseteq Cards /\ cs \subseteq Cards
      BY StrangersAreCards, DiscoveryAssumption
    <3> QED BY <1>9, <3>1 DEF Edit, Entered, Left, Typed, TypeOK
  <2>2. owed' \in [Workers -> SUBSET Decks]
    BY <1>9 DEF Edit, Typed, TypeOK
  <2>3. has' \in [Decks -> CardSets \cup {{}}]
    BY <1>9 DEF Edit, Typed, TypeOK
  <2>4. Created' = Created
    <3>1. \A e \in Decks : has'[e] # {} <=> has[e] # {}
      BY <1>9, DiscoveryAssumption DEF Edit, Created, Typed, TypeOK
    <3> QED BY <3>1 DEF Created
  <2> QED BY <1>0, <1>9, <2>1, <2>2, <2>3, <2>4, TypedKept DEF Edit, Typed, TypeOK, tables
<1> QED BY <1>1, <1>2, <1>3, <1>4, <1>5, <1>6, <1>7, <1>8, <1>9, ReadPageTyped, PostPageTyped
        DEF Next

\* It holds at the start.
LEMMA InitTyped == Init => Typed
<1>1. SUFFICES ASSUME Init PROVE Typed
  OBVIOUS
<1>2. Created = {}
  BY <1>1 DEF Init, Created
<1>3. Created = 1..Cardinality(Created)
  BY <1>2, FS_EmptySet
<1>4. TypeOK
  BY <1>1, <1>2, ConstantsType, DiscoveryAssumption DEF Init, TypeOK
<1> QED BY <1>1, <1>2, <1>3, <1>4 DEF Init, Typed, Paging

\* The type invariant holds.
THEOREM TypeCorrect == Spec => []TypeOK
<1>1. Init => Typed
  BY InitTyped
<1>2. Typed => TypeOK
  BY DEF Typed
<1> QED BY <1>1, <1>2, TypedStep, PTL DEF Spec
-----------------------------------------------------------------------------
(***************************************************************************)
(* What sweeps rely on.  What worker w still owes, sweeping c: before it   *)
(* reads its page, such decks are at or behind that page; with the page in *)
(* hand, those it does not hold are behind it; and an incremental sweep    *)
(* that is over leaves them below a known deck.                            *)
(***************************************************************************)
OwedBy(w, c) ==
    /\ owed[w] \subseteq Listing(c)
    /\ phase[w] = "read" => \A d \in owed[w] : Start(page[w]) <= Rank(c, d)
    /\ phase[w] = "post" => \A d \in owed[w] \ hand[w] :
         /\ Start(page[w] + 1) <= Rank(c, d)
         /\ w \notin last
         /\ \A e \in hand[w] : d < e
    /\ phase[w] = "complete" =>
         /\ w \in full => owed[w] = {}
         /\ w \notin full /\ c \notin blamed =>
              \A d \in owed[w] : \E e \in known \cap Listing(c) : d < e

OwedAt(w) ==
    /\ phase[w] = "idle" => owed[w] = {}
    /\ owed[w] \cap known = {}
    /\ \A c \in Cards : card[w] = c => OwedBy(w, c)

OwedInv == \A w \in Workers : OwedAt(w)

\* The page w has in hand: what is listed below one of its decks is in hand as
\* well or behind the page, and an incremental sweep finds its decks no further
\* down than decks have come in since it began.
HandOf(w, c) ==
    /\ hand[w] \subseteq Listing(c)
    /\ \A d \in Listing(c) \ hand[w], e \in hand[w] :
         d < e => Start(page[w] + 1) <= Rank(c, d) /\ w \notin last
    /\ w \notin full /\ pubs[w] < PageSize =>
         \A d \in hand[w] : Rank(c, d) < Start(page[w] + 1) + pubs[w]

HandInv ==
    \A w \in Workers, c \in Cards :
        phase[w] = "post" /\ card[w] = c /\ c \notin blamed => HandOf(w, c)

\* An edge: an unknown deck right below a known one.
Edge(c, n) ==
    /\ n \in Listing(c) /\ n \notin known
    /\ \E u \in known \cap Listing(c) :
         n < u /\ \A m \in Listing(c) : ~(n < m /\ m < u)

\* A sweep of c that made decks known and will come to n: it stops before n only
\* at its last page or if a whole page has come in.
Guards(w, c, n) ==
    /\ card[w] = c /\ w \in added
    /\ \/ /\ phase[w] = "read"
          /\ Start(page[w]) <= Rank(c, n)
          /\ w \notin full /\ pubs[w] < PageSize =>
               Rank(c, n) <= Start(page[w]) + pubs[w]
       \/ /\ phase[w] = "post"
          /\ \/ n \in hand[w]
             \/ /\ w \in full \/ pubs[w] = PageSize
                /\ w \notin last
                /\ Start(page[w] + 1) <= Rank(c, n)

HoleInv ==
    \A c \in Cards \ blamed, n \in Decks :
        Edge(c, n) => \E w \in Workers : Guards(w, c, n)

SweepInv == Typed /\ OwedInv /\ HandInv /\ HoleInv

\* While Moxfield stands still, so do listings and ranks.
LEMMA ListingKept ==
    ASSUME UNCHANGED moxfield
    PROVE  \A c \in Cards : /\ Listing(c)' = Listing(c)
                            /\ \A d \in Decks : Rank(c, d)' = Rank(c, d)
BY DEF moxfield, Listing, Rank, Newer

\* A listing in which nothing is withdrawn and nothing appears.
LEMMA OtherListingKept ==
    ASSUME NEW c \in Cards, Listing(c)' = Listing(c)
    PROVE  \A d \in Decks : Rank(c, d)' = Rank(c, d)
BY DEF Rank, Newer

\* Nothing moves up in a listing that loses no deck.
LEMMA RanksGrow ==
    ASSUME NEW c \in Cards, Listing(c) \subseteq Listing(c)', Listing(c)' \subseteq Decks,
           NEW e \in Decks
    PROVE  Rank(c, e)' \in Nat /\ Rank(c, e) <= Rank(c, e)'
<1>1. Newer(c, e) \subseteq Newer(c, e)' /\ Newer(c, e)' \subseteq Decks
  BY DEF Newer
<1>2. IsFiniteSet(Newer(c, e)') /\ Cardinality(Newer(c, e)') \in Nat
  BY <1>1, DecksFinite
<1>3. Cardinality(Newer(c, e)) <= Cardinality(Newer(c, e)')
  BY <1>1, <1>2, FS_Subset
<1> QED BY <1>2, <1>3 DEF Rank

\* An edit takes the deck out of the listings it leaves and puts it into those
\* it enters.
LEMMA EditMoves ==
    ASSUME Typed, NEW d \in Decks, NEW cs \in CardSets, Edit(d, cs), NEW c \in Cards
    PROVE  /\ c \notin Entered(d, cs) => Listing(c)' \subseteq Listing(c)
           /\ c \notin Left(d, cs) => Listing(c) \subseteq Listing(c)'
<1>1. listed' = listed /\ has'[d] = cs /\ \A e \in Decks \ {d} : has'[e] = has[e]
  BY DEF Edit, Typed, TypeOK
<1>2. listed \subseteq Decks
  BY DEF Typed, TypeOK, Created
<1>3. ASSUME c \notin Entered(d, cs), NEW e \in Listing(c)' PROVE e \in Listing(c)
  BY <1>1, <1>2, <1>3 DEF Listing, Entered
<1>4. ASSUME c \notin Left(d, cs), NEW e \in Listing(c) PROVE e \in Listing(c)'
  BY <1>1, <1>2, <1>4 DEF Listing, Left
<1> QED BY <1>3, <1>4

\* A published deck is the first of the listings of its cards.
LEMMA PublishShifts ==
    ASSUME Typed, NEW cs \in CardSets, Publish(cs), NEW c \in Cards
    PROVE  LET d == Cardinality(Created) + 1 IN
           /\ d \notin Listing(c) /\ d \notin known
           /\ \A e \in Listing(c) \cup known : e < d
           /\ c \notin cs => Listing(c)' = Listing(c)
           /\ c \in cs => /\ Listing(c)' = Listing(c) \cup {d}
                          /\ \A e \in Listing(c) : Rank(c, e)' = Rank(c, e) + 1
<1> DEFINE d == Cardinality(Created) + 1
<1>1. /\ d \in Decks /\ d \notin Created /\ \A e \in Created : e < d
      /\ has'[d] = cs /\ \A e \in Decks \ {d} : has'[e] = has[e]
      /\ listed' = listed \cup {d}
  BY PublishedIsNewest DEF Publish
<1> HIDE DEF d
<1>2. listed \subseteq Created /\ known \subseteq Created /\ Created \subseteq Decks
  BY DEF Typed, TypeOK, Created
<1>3. d \notin Listing(c) /\ d \notin known /\ \A e \in Listing(c) \cup known : e < d
  BY <1>1, <1>2 DEF Listing
<1>4. c \notin cs => Listing(c)' = Listing(c)
  BY <1>1, <1>2 DEF Listing
<1>5. ASSUME c \in cs PROVE Listing(c)' = Listing(c) \cup {d}
  BY <1>1, <1>2, <1>5 DEF Listing
<1>6. ASSUME c \in cs, NEW e \in Listing(c) PROVE Rank(c, e)' = Rank(c, e) + 1
  <2>1. Listing(c)' = Listing(c) \cup {d} /\ d \notin Listing(c) /\ d > e
    BY <1>3, <1>5, <1>6, <1>1, <1>2, ConstantsType DEF Listing
  <2>2. Newer(c, e)' = Newer(c, e) \cup {d} /\ d \notin Newer(c, e)
    BY <2>1 DEF Newer
  <2>3. IsFiniteSet(Newer(c, e))
    BY <1>2, DecksFinite DEF Newer, Listing
  <2> QED BY <2>2, <2>3, FS_AddElement DEF Rank
<1> QED BY <1>3, <1>4, <1>5, <1>6 DEF d

\* Nothing changes for worker v.
SameAt(v) ==
    /\ phase'[v] = phase[v] /\ card'[v] = card[v] /\ page'[v] = page[v]
    /\ hand'[v] = hand[v] /\ pubs'[v] = pubs[v]
    /\ (v \in full' => v \in full) /\ (v \in full => v \in full')
    /\ (v \in last' => v \in last) /\ (v \in last => v \in last')
    /\ (v \in added' => v \in added) /\ (v \in added => v \in added')

WorkerStep(w) ==
    \/ \E c \in Cards : ClaimSweep(w, c)
    \/ ReadPage(w) \/ PostPage(w) \/ Abort(w) \/ Stop(w) \/ CompleteSweep(w)

\* A step of one worker changes nothing for another.
LEMMA OthersSame ==
    ASSUME Typed, NEW w \in Workers, WorkerStep(w), NEW v \in Workers \ {w}
    PROVE  SameAt(v)
<1>1. ASSUME NEW c \in Cards, ClaimSweep(w, c) PROVE SameAt(v)
  BY <1>1 DEF SameAt, ClaimSweep, Typed, TypeOK
<1>2. CASE ReadPage(w)
  BY <1>2 DEF SameAt, ReadPage, EndLoop, Typed, TypeOK
<1>3. CASE PostPage(w)
  BY <1>3 DEF SameAt, PostPage, EndLoop, Typed, TypeOK
<1>4. CASE Abort(w)
  BY <1>4 DEF SameAt, Abort, GoIdle, Typed, TypeOK
<1>5. CASE Stop(w)
  BY <1>5 DEF SameAt, Stop, EndLoop, Typed, TypeOK
<1>6. CASE CompleteSweep(w)
  BY <1>6 DEF SameAt, CompleteSweep, GoIdle, Typed, TypeOK
<1> QED BY <1>1, <1>2, <1>3, <1>4, <1>5, <1>6 DEF WorkerStep
\* What a worker owes stays where it is, or moves back, while others act.
LEMMA OwedKept ==
    ASSUME NEW w \in Workers, NEW c \in Cards, OwedBy(w, c), page[w] \in Nat, page[w] > 0,
           phase'[w] = phase[w], page'[w] = page[w], hand'[w] = hand[w],
           w \in last' => w \in last, w \in full' => w \in full, w \in full => w \in full',
           owed'[w] \subseteq owed[w], known \subseteq known', blamed \subseteq blamed',
           Listing(c) \subseteq Listing(c)',
           \A d \in Listing(c) : /\ Rank(c, d) \in Nat /\ Rank(c, d)' \in Nat
                                 /\ Rank(c, d) <= Rank(c, d)'
    PROVE  OwedBy(w, c)'
<1>1. Start(page[w]) \in Nat /\ Start(page[w] + 1) \in Nat
  BY StartsOfPages
<1>2. owed[w] \subseteq Listing(c) /\ owed'[w] \subseteq Listing(c)'
  BY DEF OwedBy
<1>3. phase'[w] = "read" => \A d \in owed'[w] : Start(page[w]) <= Rank(c, d)'
  BY <1>1, <1>2 DEF OwedBy
<1>4. ASSUME phase'[w] = "post", NEW d \in owed'[w] \ hand'[w]
      PROVE  /\ Start(page[w] + 1) <= Rank(c, d)' /\ w \notin last'
             /\ \A e \in hand'[w] : d < e
  BY <1>1, <1>2, <1>4 DEF OwedBy
<1>5. phase'[w] = "complete" =>
        /\ w \in full' => owed'[w] = {}
        /\ w \notin full' /\ c \notin blamed' =>
             \A d \in owed'[w] : \E e \in known' \cap Listing(c)' : d < e
  BY DEF OwedBy
<1> QED BY <1>2, <1>3, <1>4, <1>5 DEF OwedBy

\* The step of another worker.
LEMMA OwedByOthers ==
    ASSUME SweepInv, NEW w \in Workers, WorkerStep(w), NEW v \in Workers \ {w}
    PROVE  OwedAt(v)'
<1>1. UNCHANGED moxfield /\ known \subseteq known' /\ blamed \subseteq blamed'
  BY DEF WorkerStep, ClaimSweep, ReadPage, PostPage, Upsert, Abort, Stop, CompleteSweep, tables
<1>2. owed'[v] \subseteq owed[v] /\ owed'[v] \cap known' = {}
  <2>0. owed[v] \cap known = {} /\ owed \in [Workers -> SUBSET Decks]
    BY DEF SweepInv, OwedInv, OwedAt, Typed, TypeOK
  <2>1. CASE PostPage(w)
    BY <2>0, <2>1 DEF PostPage, Upsert
  <2>2. CASE ~PostPage(w)
    <3>1. known' = known /\ owed'[v] = owed[v]
      BY <2>0, <2>2 DEF WorkerStep, ClaimSweep, ReadPage, Abort, Stop, CompleteSweep, GoIdle, tables
    <3> QED BY <2>0, <3>1
  <2> QED BY <2>1, <2>2
<1>3. SameAt(v)
  BY OthersSame DEF SweepInv
<1>4. listed \subseteq Decks /\ page[v] \in Nat /\ page[v] > 0
  BY ConstantsType DEF SweepInv, Typed, TypeOK, Created
<1>5. ASSUME NEW c \in Cards, card'[v] = c PROVE OwedBy(v, c)'
  <2>1. OwedBy(v, c)
    BY <1>3, <1>5 DEF SweepInv, OwedInv, OwedAt, SameAt
  <2>2. /\ Listing(c) \subseteq Decks
        /\ \A d \in Listing(c) : Rank(c, d) \in Nat
    BY <1>4, RanksAreOrdered
  <2>3. /\ Listing(c)' = Listing(c)
        /\ \A d \in Listing(c) : Rank(c, d)' = Rank(c, d)
    BY <1>1, <2>2, ListingKept
  <2>4. \A d \in Listing(c) : /\ Rank(c, d) \in Nat /\ Rank(c, d)' \in Nat
                              /\ Rank(c, d) <= Rank(c, d)'
    BY <2>2, <2>3
  <2> QED BY <1>1, <1>2, <1>3, <1>4, <2>1, <2>3, <2>4, OwedKept DEF SameAt
<1>6. phase'[v] = "idle" => owed'[v] = {}
  BY <1>2, <1>3 DEF SweepInv, OwedInv, OwedAt, SameAt
<1> QED BY <1>2, <1>5, <1>6 DEF OwedAt

\* The first page of a sweep: nothing is passed yet.
LEMMA OwedAfterClaim ==
    ASSUME SweepInv, NEW w \in Workers, NEW c \in Cards, ClaimSweep(w, c)
    PROVE  OwedAt(w)'
<1>1. /\ phase'[w] = "read" /\ card'[w] = c /\ page'[w] = 1
      /\ owed'[w] = Listing(c) \ known /\ known' = known /\ UNCHANGED moxfield
  BY DEF ClaimSweep, SweepInv, Typed, TypeOK, Paging, tables
<1>2. /\ Listing(c) \subseteq Decks /\ Listing(c)' = Listing(c)
      /\ \A d \in Listing(c) : Rank(c, d)' = Rank(c, d) /\ Rank(c, d) \in Nat
  <2>1. listed \subseteq Decks
    BY DEF SweepInv, Typed, TypeOK, Created
  <2>2. Listing(c) \subseteq Decks /\ \A d \in Listing(c) : Rank(c, d) \in Nat
    BY <2>1, RanksAreOrdered
  <2> QED BY <1>1, <2>2, ListingKept
<1>3. \A d \in Listing(c) : Start(1) <= Rank(c, d)'
  BY <1>2, FirstStart
<1>4. OwedBy(w, c)'
  BY <1>1, <1>2, <1>3 DEF OwedBy
<1> QED BY <1>1, <1>4 DEF OwedAt

\* A page is read: the decks owed are on it or behind it, and an empty page or a
\* last page has none behind it.
LEMMA OwedAfterRead ==
    ASSUME SweepInv, NEW w \in Workers, ReadPage(w)
    PROVE  OwedAt(w)'
<1> DEFINE c == card[w]
           p == page[w]
           found == SearchPage(c, p)
<1>1. /\ phase[w] = "read" /\ UNCHANGED <<moxfield, known, card, full, owed, blamed>>
      /\ c \in Cards /\ p \in Nat /\ p > 0 /\ listed \subseteq Decks
  BY ConstantsType DEF ReadPage, SweepInv, Typed, TypeOK, Created, tables
<1>2. /\ owed[w] \cap known = {} /\ owed[w] \subseteq Listing(c)
      /\ \A d \in owed[w] : Start(p) <= Rank(c, d)
  BY <1>1 DEF SweepInv, OwedInv, OwedAt, OwedBy
<1>3. CASE AtEnd(found)
  <2>1. owed[w] = {}
    BY <1>1, <1>2, <1>3, PageNotEmpty DEF AtEnd
  <2>2. phase'[w] = "complete"
    BY <1>3 DEF ReadPage, EndLoop, SweepInv, Typed, TypeOK
  <2>3. \A b \in Cards : card'[w] = b => OwedBy(w, b)'
    BY <1>1, <2>1, <2>2 DEF OwedBy
  <2> QED BY <1>1, <2>1, <2>3 DEF OwedAt
<1>4. CASE ~AtEnd(found)
  <2>1. /\ phase'[w] = "post" /\ hand'[w] = found /\ page'[w] = p
        /\ w \in last' => IsLastPage(c, p)
    BY <1>1, <1>4 DEF ReadPage, SweepInv, Typed, TypeOK
  <2>2. ASSUME NEW d \in owed[w] \ found
        PROVE  /\ Start(p + 1) <= Rank(c, d) /\ w \notin last'
               /\ \A e \in found : d < e
    <3>1. d \in Listing(c) /\ Start(p) <= Rank(c, d) /\ Rank(c, d) \in Nat
      BY <1>1, <1>2, RanksAreOrdered
    <3>2. Start(p + 1) <= Rank(c, d)
      BY <1>1, <2>2, <3>1, PageHasRanks, StartsOfPages
    <3>3. w \notin last'
      BY <1>1, <2>1, <2>2, <3>1, LastPageIsLast
    <3>4. ASSUME NEW e \in found PROVE d < e
      <4>1. e \in Listing(c) /\ Rank(c, e) < Start(p + 1) /\ Rank(c, e) \in Nat
        BY <1>1, PageHasRanks, RanksAreOrdered
      <4>2. Rank(c, e) < Rank(c, d)
        BY <1>1, <3>1, <3>2, <4>1, StartsOfPages
      <4> QED BY <1>1, <3>1, <4>1, <4>2, RanksAreOrdered
    <3> QED BY <3>2, <3>3, <3>4
  <2> HIDE DEF found, p
  <2>3. ASSUME NEW b \in Cards, card'[w] = b PROVE OwedBy(w, b)'
    <3>1. b = c /\ Listing(b)' = Listing(b)
          /\ \A d \in Decks : Rank(b, d)' = Rank(b, d)
      BY <1>1, <2>3, ListingKept
    <3>2. Listing(b) \subseteq Decks
      BY <1>1 DEF Listing
    <3> QED BY <1>1, <1>2, <2>1, <2>2, <3>1, <3>2 DEF OwedBy
  <2> QED BY <1>1, <1>2, <2>1, <2>3 DEF OwedAt
<1> QED BY <1>3, <1>4
\* A page is posted: the decks owed were on it, or are behind it.  A full sweep
\* ends only at the last page, an incremental one below a deck that is known now.
LEMMA OwedAfterPost ==
    ASSUME SweepInv, NEW w \in Workers, PostPage(w)
    PROVE  OwedAt(w)'
<1> DEFINE c == card[w]
<1>1. /\ phase[w] = "post" /\ UNCHANGED <<moxfield, card, full>>
      /\ c \in Cards /\ hand[w] # {} /\ page[w] \in Nat
      /\ known' = known \cup hand[w] /\ owed'[w] = owed[w] \ hand[w]
      /\ blamed \subseteq blamed'
  BY ConstantsType DEF PostPage, Upsert, SweepInv, Typed, TypeOK
<1>2. /\ owed[w] \cap known = {} /\ owed[w] \subseteq Listing(c)
      /\ \A d \in owed[w] \ hand[w] :
           /\ Start(page[w] + 1) <= Rank(c, d) /\ w \notin last
           /\ \A e \in hand[w] : d < e
  BY <1>1 DEF SweepInv, OwedInv, OwedAt, OwedBy
<1>3. c \notin blamed => hand[w] \subseteq Listing(c)
  BY <1>1 DEF SweepInv, HandInv, HandOf
<1>4. ASSUME NEW b \in Cards, card'[w] = b PROVE OwedBy(w, b)'
  <2>1. b = c /\ Listing(b)' = Listing(b) /\ \A d \in Decks : Rank(b, d)' = Rank(b, d)
    BY <1>1, <1>4, ListingKept
  <2>2. Listing(b) \subseteq Decks
    BY DEF Listing, SweepInv, Typed, TypeOK, Created
  <2> HIDE DEF c
  <2>3. CASE w \in last \/ StopsAtKnown(w)
    <3>1. phase'[w] = "complete"
      BY <2>3 DEF PostPage, EndLoop, SweepInv, Typed, TypeOK
    <3>2. w \in full' => owed'[w] = {}
      BY <1>1, <1>2, <2>3 DEF StopsAtKnown
    <3>3. b \notin blamed' => \A d \in owed'[w] : \E e \in known' \cap Listing(b)' : d < e
      BY <1>1, <1>2, <1>3, <2>1
    <3> QED BY <1>1, <1>2, <2>1, <3>1, <3>2, <3>3 DEF OwedBy
  <2>4. CASE ~(w \in last \/ StopsAtKnown(w))
    <3>1. phase'[w] = "read" /\ page'[w] = page[w] + 1
      BY <2>4 DEF PostPage, SweepInv, Typed, TypeOK
    <3> QED BY <1>1, <1>2, <2>1, <2>2, <3>1 DEF OwedBy
  <2> QED BY <2>3, <2>4
<1>5. phase'[w] # "idle"
  BY <1>1 DEF PostPage, EndLoop, SweepInv, Typed, TypeOK
<1> QED BY <1>1, <1>2, <1>4, <1>5 DEF OwedAt

\* Every step keeps what sweeps owe in their reach.
LEMMA OwedStep == SweepInv /\ [Next]_vars => OwedInv'
<1> SUFFICES ASSUME SweepInv, [Next]_vars PROVE OwedInv'
  OBVIOUS
<1>0. /\ listed \subseteq Decks
      /\ \A v \in Workers : page[v] \in Nat /\ page[v] > 0 /\ OwedAt(v)
      /\ owed \in [Workers -> SUBSET Decks]
      /\ \A c \in Cards : /\ Listing(c) \subseteq Decks
                          /\ \A d \in Listing(c) : Rank(c, d) \in Nat
  <2>1. listed \subseteq Decks
    BY DEF SweepInv, Typed, TypeOK, Created
  <2>2. \A c \in Cards : /\ Listing(c) \subseteq Decks
                         /\ \A d \in Listing(c) : Rank(c, d) \in Nat
    BY <2>1, RanksAreOrdered
  <2> QED BY <2>1, <2>2, ConstantsType DEF SweepInv, OwedInv, Typed, TypeOK
<1>1. ASSUME NEW cs \in CardSets, Publish(cs) PROVE OwedInv'
  <2>1. UNCHANGED <<known, blamed, phase, card, full, page, hand, last, owed>>
    BY <1>1 DEF Publish, tables, sweep
  <2>2. ASSUME NEW v \in Workers, NEW c \in Cards, card'[v] = c PROVE OwedBy(v, c)'
    <3>1. OwedBy(v, c)
      BY <1>0, <2>1, <2>2 DEF OwedAt
    <3>2. CASE c \in cs
      <4>1. /\ Listing(c) \subseteq Listing(c)'
            /\ \A d \in Listing(c) : Rank(c, d)' = Rank(c, d) + 1
        BY <1>1, <3>2, PublishShifts DEF SweepInv
      <4>2. \A d \in Listing(c) : /\ Rank(c, d) \in Nat /\ Rank(c, d)' \in Nat
                                  /\ Rank(c, d) <= Rank(c, d)'
        BY <1>0, <4>1
      <4> QED BY <1>0, <2>1, <3>1, <4>1, <4>2, OwedKept
    <3>3. CASE c \notin cs
      <4>1. Listing(c)' = Listing(c)
        BY <1>1, <3>3, PublishShifts DEF SweepInv
      <4>2. \A d \in Listing(c) : /\ Rank(c, d) \in Nat /\ Rank(c, d)' \in Nat
                                  /\ Rank(c, d) <= Rank(c, d)'
        BY <1>0, <4>1, OtherListingKept
      <4> QED BY <1>0, <2>1, <3>1, <4>1, <4>2, OwedKept
    <3> QED BY <3>2, <3>3
  <2> QED BY <1>0, <2>1, <2>2 DEF OwedInv, OwedAt
<1>2. ASSUME NEW d \in Decks, Withdraw(d) PROVE OwedInv'
  <2>1. /\ UNCHANGED <<has, known, phase, card, full, page, hand, last>>
        /\ listed' = listed \ {d} /\ blamed \subseteq blamed'
        /\ \A v \in Workers : owed'[v] = IF card[v] \in has[d] THEN {} ELSE owed[v]
    BY <1>2 DEF Withdraw, tables, sweep
  <2>2. ASSUME NEW v \in Workers, NEW c \in Cards, card'[v] = c PROVE OwedBy(v, c)'
    <3>1. OwedBy(v, c)
      BY <1>0, <2>1, <2>2 DEF OwedAt
    <3>2. CASE c \in has[d]
      <4>1. owed'[v] = {}
        BY <2>1, <2>2, <3>2
      <4> QED BY <4>1 DEF OwedBy
    <3>3. CASE c \notin has[d]
      <4>1. Listing(c)' = Listing(c)
        BY <2>1, <3>3 DEF Listing
      <4>2. \A e \in Listing(c) : /\ Rank(c, e) \in Nat /\ Rank(c, e)' \in Nat
                                  /\ Rank(c, e) <= Rank(c, e)'
        BY <1>0, <4>1, OtherListingKept
      <4> QED BY <1>0, <2>1, <3>1, <4>1, <4>2, OwedKept
    <3> QED BY <3>2, <3>3
  <2> QED BY <1>0, <2>1, <2>2 DEF OwedInv, OwedAt
<1>3. ASSUME NEW d \in Decks, MakePublic(d) PROVE OwedInv'
  <2>1. /\ UNCHANGED <<has, known, phase, card, full, page, hand, last, owed>>
        /\ listed' = listed \cup {d} /\ blamed \subseteq blamed' /\ listed' \subseteq Decks
    BY <1>0, <1>3 DEF MakePublic, tables, sweep
  <2>2. ASSUME NEW v \in Workers, NEW c \in Cards, card'[v] = c PROVE OwedBy(v, c)'
    <3>1. OwedBy(v, c)
      BY <1>0, <2>1, <2>2 DEF OwedAt
    <3>2. Listing(c) \subseteq Listing(c)' /\ Listing(c)' \subseteq Decks
      BY <2>1 DEF Listing
    <3>3. ASSUME NEW e \in Listing(c)
          PROVE  Rank(c, e) \in Nat /\ Rank(c, e)' \in Nat /\ Rank(c, e) <= Rank(c, e)'
      BY <1>0, <3>2, RanksGrow
    <3> QED BY <1>0, <2>1, <3>1, <3>2, <3>3, OwedKept
  <2> QED BY <1>0, <2>1, <2>2 DEF OwedInv, OwedAt
<1>4. ASSUME NEW w \in Workers, WorkerStep(w), OwedAt(w)' PROVE OwedInv'
  BY <1>4, OwedByOthers DEF OwedInv
<1>5. ASSUME NEW w \in Workers, GoIdle(w), Abort(w) \/ CompleteSweep(w) PROVE OwedAt(w)'
  <2>1. owed'[w] = {} /\ phase'[w] = "idle"
    BY <1>5 DEF GoIdle, SweepInv, Typed, TypeOK
  <2>2. \A c \in Cards : OwedBy(w, c)'
    BY <2>1 DEF OwedBy
  <2> QED BY <2>1, <2>2 DEF OwedAt
<1>6. ASSUME NEW w \in Workers, Stop(w) PROVE OwedAt(w)'
  <2>1. owed'[w] = {}
    BY <1>0, <1>6 DEF Stop
  <2>2. \A c \in Cards : OwedBy(w, c)'
    BY <2>1 DEF OwedBy
  <2> QED BY <2>1, <2>2 DEF OwedAt
<1>7. ASSUME NEW w \in Workers, WorkerStep(w) PROVE OwedAt(w)'
  BY <1>5, <1>6, <1>7, OwedAfterClaim, OwedAfterRead, OwedAfterPost
     DEF WorkerStep, Abort, CompleteSweep
<1>8. CASE UNCHANGED vars
  <2>1. UNCHANGED <<has, listed, known, blamed, phase, card, full, page, hand, last, owed>>
    BY <1>8 DEF vars, moxfield, tables, sweep, ghosts
  <2> QED BY <2>1 DEF SweepInv, OwedInv, OwedAt, OwedBy, Listing, Rank, Newer
<1>9. ASSUME NEW d \in Decks, NEW cs \in CardSets, Edit(d, cs) PROVE OwedInv'
  <2>1. /\ UNCHANGED <<known, phase, card, full, page, hand, last, listed>>
        /\ blamed \subseteq blamed'
        /\ \A v \in Workers : owed'[v] = IF card[v] \in Left(d, cs) THEN {} ELSE owed[v]
    BY <1>9 DEF Edit, tables, sweep
  <2>2. ASSUME NEW v \in Workers, NEW c \in Cards, card'[v] = c PROVE OwedBy(v, c)'
    <3>1. OwedBy(v, c)
      BY <1>0, <2>1, <2>2 DEF OwedAt
    <3>2. CASE c \in Left(d, cs)
      <4>1. owed'[v] = {}
        BY <2>1, <2>2, <3>2
      <4> QED BY <4>1 DEF OwedBy
    <3>3. CASE c \notin Left(d, cs)
      <4>1. Listing(c) \subseteq Listing(c)' /\ Listing(c)' \subseteq Decks
        BY <1>0, <1>9, <2>1, <3>3, EditMoves DEF Listing, SweepInv
      <4>2. \A e \in Listing(c) : /\ Rank(c, e) \in Nat /\ Rank(c, e)' \in Nat
                                  /\ Rank(c, e) <= Rank(c, e)'
        BY <1>0, <4>1, RanksGrow
      <4>3. owed'[v] = owed[v]
        BY <2>1, <2>2, <3>3
      <4> QED BY <1>0, <2>1, <3>1, <4>1, <4>2, <4>3, OwedKept
    <3> QED BY <3>2, <3>3
  <2> QED BY <1>0, <2>1, <2>2 DEF OwedInv, OwedAt
<1> QED BY <1>1, <1>2, <1>3, <1>4, <1>7, <1>8, <1>9 DEF Next, WorkerStep
-----------------------------------------------------------------------------
(***************************************************************************)
(* Pages in hand.                                                          *)
(***************************************************************************)

\* What users do to decks that exist.
Change(d) == Withdraw(d) \/ MakePublic(d) \/ \E cs \in CardSets : Edit(d, cs)

\* A listing that is not blamed for a change is kept while somebody sweeps it, and
\* gets no deck otherwise.
LEMMA UnblamedKept ==
    ASSUME Typed, NEW d \in Decks, Change(d), NEW c \in Cards \ blamed'
    PROVE  /\ UNCHANGED <<known, sweep, pubs, added>> /\ blamed \subseteq blamed'
           /\ Listing(c)' \subseteq Listing(c)
           /\ (\E v \in Workers : card[v] = c)
                => Listing(c)' = Listing(c) /\ \A e \in Decks : Rank(c, e)' = Rank(c, e)
<1>1. UNCHANGED <<known, sweep, pubs, added>> /\ blamed \subseteq blamed'
  BY DEF Change, Withdraw, MakePublic, Edit, tables
<1>2. CASE Withdraw(d)
  <2>1. Listing(c)' \subseteq Listing(c)
    BY <1>2 DEF Withdraw, Listing
  <2>2. ASSUME \E v \in Workers : card[v] = c PROVE Listing(c)' = Listing(c)
    BY <1>2, <2>2 DEF Withdraw, Sweeping, Listing
  <2> QED BY <1>1, <2>1, <2>2, OtherListingKept
<1>3. CASE MakePublic(d)
  <2>1. Listing(c)' = Listing(c)
    BY <1>3 DEF MakePublic, Listing
  <2> QED BY <1>1, <2>1, OtherListingKept
<1>4. ASSUME NEW cs \in CardSets, Edit(d, cs)
      PROVE  /\ Listing(c)' \subseteq Listing(c)
             /\ (\E v \in Workers : card[v] = c)
                  => Listing(c)' = Listing(c) /\ \A e \in Decks : Rank(c, e)' = Rank(c, e)
  <2>1. /\ c \notin Entered(d, cs)
        /\ (\E v \in Workers : card[v] = c) => c \notin Left(d, cs)
    BY <1>4 DEF Edit, Sweeping
  <2>2. /\ Listing(c)' \subseteq Listing(c)
        /\ (\E v \in Workers : card[v] = c) => Listing(c)' = Listing(c)
    BY <1>4, <2>1, EditMoves
  <2> QED BY <1>1, <2>2, OtherListingKept
<1> QED BY <1>1, <1>2, <1>3, <1>4 DEF Change

\* Every step keeps what is known of the pages in hand.
LEMMA HandStep == SweepInv /\ [Next]_vars => HandInv'
<1> SUFFICES ASSUME SweepInv, [Next]_vars,
                    NEW v \in Workers, NEW c \in Cards,
                    phase'[v] = "post", card'[v] = c, c \notin blamed'
             PROVE  HandOf(v, c)'
  BY DEF HandInv
<1>0. /\ listed \subseteq Decks /\ Listing(c) \subseteq Decks
      /\ \A d \in Listing(c) : Rank(c, d) \in Nat
      /\ page[v] \in Nat /\ page[v] > 0 /\ pubs[v] \in 0..PageSize
      /\ Start(page[v]) \in Nat /\ Start(page[v] + 1) = Start(page[v]) + PageSize
      /\ phase[v] = "post" /\ card[v] = c /\ c \notin blamed => HandOf(v, c)
  <2>1. listed \subseteq Decks /\ page[v] \in Nat /\ page[v] > 0 /\ pubs[v] \in 0..PageSize
    BY ConstantsType DEF SweepInv, Typed, TypeOK, Created
  <2>2. Listing(c) \subseteq Decks /\ \A d \in Listing(c) : Rank(c, d) \in Nat
    BY <2>1, RanksAreOrdered
  <2> QED BY <2>1, <2>2, StartsOfPages DEF SweepInv, HandInv
<1>1. ASSUME NEW cs \in CardSets, Publish(cs) PROVE HandOf(v, c)'
  <2> DEFINE new == Cardinality(Created) + 1
  <2>1. UNCHANGED <<blamed, phase, card, full, page, hand, last>>
    BY <1>1 DEF Publish, sweep
  <2>2. HandOf(v, c) /\ hand[v] \subseteq Listing(c)
    BY <1>0, <2>1 DEF HandOf
  <2>3. CASE c \in cs
    <3>1. /\ \A e \in Listing(c) : e < new
          /\ Listing(c)' = Listing(c) \cup {new}
          /\ \A e \in Listing(c) : Rank(c, e)' = Rank(c, e) + 1
      BY <1>1, <2>3, PublishShifts DEF SweepInv
    <3>2. v \notin full /\ pubs'[v] < PageSize => pubs[v] < PageSize /\ pubs'[v] = pubs[v] + 1
      BY <1>0, <1>1, <2>1, <2>3, ConstantsType DEF Publish, Paging
    <3> HIDE DEF new
    <3>3. new \in Int
      BY <1>1 DEF Publish, Decks, new
    <3>4. \A e \in hand[v] : e \in Decks /\ e < new /\ Rank(c, e) \in Nat
      BY <1>0, <2>2, <3>1
    <3>5. ASSUME NEW d \in Listing(c)' \ hand[v], NEW e \in hand[v], d < e
          PROVE  Start(page[v] + 1) <= Rank(c, d)' /\ v \notin last
      <4>1. d \in Listing(c) \ hand[v]
        BY <3>1, <3>3, <3>4, <3>5, ConstantsType
      <4>2. Start(page[v] + 1) <= Rank(c, d) /\ v \notin last
        BY <2>2, <3>5, <4>1 DEF HandOf
      <4> QED BY <1>0, <3>1, <4>1, <4>2, ConstantsType
    <3>6. ASSUME v \notin full, pubs'[v] < PageSize, NEW d \in hand[v]
          PROVE  Rank(c, d)' < Start(page[v] + 1) + pubs'[v]
      <4>1. Rank(c, d) < Start(page[v] + 1) + pubs[v]
        BY <2>2, <3>2, <3>6 DEF HandOf
      <4> QED BY <1>0, <2>2, <3>1, <3>2, <3>4, <3>6, <4>1, ConstantsType
    <3> QED BY <2>1, <2>2, <3>1, <3>5, <3>6 DEF HandOf
  <2>4. CASE c \notin cs
    <3>1. Listing(c)' = Listing(c) /\ \A e \in Decks : Rank(c, e)' = Rank(c, e)
      BY <1>1, <2>4, PublishShifts, OtherListingKept DEF SweepInv
    <3>2. pubs'[v] = pubs[v]
      BY <1>1, <2>1, <2>4 DEF Publish
    <3> QED BY <1>0, <2>1, <2>2, <3>1, <3>2 DEF HandOf
  <2> QED BY <2>3, <2>4
<1>2. ASSUME NEW d \in Decks, Change(d) PROVE HandOf(v, c)'
  <2>1. UNCHANGED <<known, sweep, pubs, added>> /\ blamed \subseteq blamed'
    BY <1>2, UnblamedKept DEF SweepInv
  <2>2. card[v] = c /\ phase[v] = "post" /\ c \notin blamed
    BY <2>1 DEF sweep
  <2>3. Listing(c)' = Listing(c) /\ \A e \in Decks : Rank(c, e)' = Rank(c, e)
    BY <1>2, <2>2, UnblamedKept DEF SweepInv
  <2> QED BY <1>0, <2>1, <2>2, <2>3 DEF HandOf, sweep
<1>3. ASSUME NEW w \in Workers \ {v}, WorkerStep(w) PROVE HandOf(v, c)'
  <2>1. SameAt(v)
    BY <1>3, OthersSame DEF SweepInv
  <2>2. UNCHANGED moxfield /\ blamed \subseteq blamed'
    BY <1>3 DEF WorkerStep, ClaimSweep, ReadPage, PostPage, Upsert, Abort, Stop, CompleteSweep
  <2>3. Listing(c)' = Listing(c) /\ \A e \in Decks : Rank(c, e)' = Rank(c, e)
    BY <2>2, ListingKept
  <2>4. HandOf(v, c)
    BY <1>0, <2>1, <2>2 DEF SameAt
  <2> QED BY <1>0, <2>1, <2>3, <2>4 DEF HandOf, SameAt
<1>4. CASE ReadPage(v)
  <2> DEFINE found == SearchPage(c, page[v])
  <2>0. phase[v] = "read" /\ UNCHANGED <<moxfield, card, full>> /\ card[v] = c
    BY <1>4 DEF ReadPage
  <2>1. ~AtEnd(found)
    BY <1>4, <2>0 DEF ReadPage, EndLoop, SweepInv, Typed, TypeOK
  <2>2. UNCHANGED <<pubs, page>> /\ hand'[v] = found
        /\ (v \in last' => IsLastPage(c, page[v]))
    BY <1>4, <2>0, <2>1 DEF ReadPage, SweepInv, Typed, TypeOK
  <2>3. Listing(c)' = Listing(c) /\ \A e \in Decks : Rank(c, e)' = Rank(c, e)
    BY <2>0, ListingKept
  <2>4. /\ found \subseteq Listing(c)
        /\ \A d \in Listing(c) : d \in found
             <=> Start(page[v]) <= Rank(c, d) /\ Rank(c, d) < Start(page[v] + 1)
    BY <1>0, PageHasRanks
  <2>5. ASSUME NEW d \in Listing(c) \ found, NEW e \in found, d < e
        PROVE  Start(page[v] + 1) <= Rank(c, d)' /\ v \notin last'
    <3>1. e \in Listing(c) /\ Start(page[v]) <= Rank(c, e) /\ Rank(c, e) \in Nat
      BY <1>0, <2>4
    <3>2. Rank(c, e) < Rank(c, d) /\ Rank(c, d) \in Nat
      BY <1>0, <2>5, <3>1, RanksAreOrdered
    <3>3. Start(page[v]) <= Rank(c, d)
      BY <1>0, <3>1, <3>2
    <3>4. Start(page[v] + 1) <= Rank(c, d)
      BY <1>0, <2>4, <2>5, <3>2, <3>3, ConstantsType
    <3>5. v \notin last'
      BY <1>0, <2>2, <2>5, <3>3, LastPageIsLast
    <3> QED BY <1>0, <2>3, <3>4, <3>5
  <2>6. \A d \in found : Rank(c, d)' < Start(page[v] + 1) + pubs[v]
    BY <1>0, <2>3, <2>4, ConstantsType
  <2> HIDE DEF found
  <2> QED BY <2>0, <2>2, <2>3, <2>4, <2>5, <2>6 DEF HandOf
<1>5. CASE WorkerStep(v) /\ ~ReadPage(v)
  <2>1. phase'[v] # "post"
    BY <1>5 DEF WorkerStep, ClaimSweep, PostPage, Abort, Stop, CompleteSweep, EndLoop, GoIdle,
                SweepInv, Typed, TypeOK
  <2> QED BY <2>1
<1>6. CASE UNCHANGED vars
  <2>1. UNCHANGED <<moxfield, blamed, phase, card, full, page, hand, last, pubs>>
    BY <1>6 DEF vars, tables, sweep, ghosts
  <2> QED BY <1>0, <2>1, ListingKept DEF HandOf
<1> QED BY <1>1, <1>2, <1>3, <1>4, <1>5, <1>6 DEF Next, WorkerStep, Change
-----------------------------------------------------------------------------
(***************************************************************************)
(* Holes and their edges.                                                  *)
(***************************************************************************)

\* A listing with a hole has an edge: the newest unknown deck below the known
\* one has a known deck right above it.
LEMMA HoleHasEdge ==
    ASSUME listed \subseteq Decks, NEW c, Hole(c)
    PROVE  \E n \in Decks : Edge(c, n)
<1>0. /\ Listing(c) \in SUBSET Decks /\ Cardinality(Listing(c)) \in Nat
      /\ \A d \in Listing(c) : d \in Nat /\ Rank(c, d) \in Nat
                               /\ Rank(c, d) <= Cardinality(Listing(c)) - 1
  BY RanksAreOrdered, DecksFinite, ConstantsType
<1>1. PICK d \in Listing(c), e \in Listing(c) : d < e /\ d \notin known /\ e \in known
  BY DEF Hole
<1> DEFINE T == {m \in Listing(c) : m < e /\ m \notin known}
<1>2. PICK n \in T : \A m \in T : m <= n
  <2>1. T \in SUBSET Decks /\ T # {}
    BY <1>0, <1>1
  <2> HIDE DEF T
  <2> QED BY <2>1, NewestExists
<1>3. n \in Listing(c) /\ n < e /\ n \notin known
  BY <1>2
<1>4. Rank(c, n) - 1 \in 0..(Cardinality(Listing(c)) - 1)
  <2>1. Rank(c, e) < Rank(c, n)
    BY <1>1, <1>3, RanksAreOrdered
  <2> QED BY <1>0, <1>1, <1>3, <2>1
<1>5. PICK u \in Listing(c) : Rank(c, u) = Rank(c, n) - 1
  BY <1>0, <1>4, HeightOnto, RankIsHeight
<1>6. n < u
  <2>1. Rank(c, u) < Rank(c, n)
    BY <1>0, <1>3, <1>5
  <2> QED BY <1>3, <2>1, RanksAreOrdered
<1>7. ASSUME NEW m \in Listing(c), n < m, m < u PROVE FALSE
  <2>1. Rank(c, u) < Rank(c, m) /\ Rank(c, m) < Rank(c, n)
    BY <1>3, <1>7, RanksAreOrdered
  <2> QED BY <1>0, <1>3, <1>5, <2>1
<1>8. u <= e
  BY <1>0, <1>1, <1>3, <1>7
<1>9. u \in known
  <2> SUFFICES ASSUME u \notin known PROVE FALSE
    OBVIOUS
  <2>1. u \in T
    BY <1>0, <1>1, <1>8
  <2> QED BY <1>0, <1>2, <1>3, <1>6, <2>1
<1> QED BY <1>0, <1>3, <1>6, <1>7, <1>9 DEF Edge

\* A card that nobody sweeps and no cause is recorded for has no hole.
LEMMA NoGuardNoHole ==
    ASSUME SweepInv, NEW c \in Cards \ blamed,
           \A n \in Decks, w \in Workers : ~Guards(w, c, n)
    PROVE  ~Hole(c)
<1>1. listed \subseteq Decks
  BY DEF SweepInv, Typed, TypeOK, Created
<1> QED BY <1>1, HoleHasEdge DEF SweepInv, HoleInv

\* The deck right below another has one deck more above it.
LEMMA RankBelow ==
    ASSUME listed \subseteq Decks, NEW c, NEW n \in Listing(c), NEW u \in Listing(c), n < u,
           \A m \in Listing(c) : ~(n < m /\ m < u)
    PROVE  Rank(c, n) = Rank(c, u) + 1
<1>1. \A m \in Listing(c) : m \in Decks /\ m \in Nat
  BY ConstantsType DEF Listing
<1>2. Newer(c, n) = Newer(c, u) \cup {u}
  BY <1>1 DEF Newer
<1>3. u \notin Newer(c, u)
  BY <1>1 DEF Newer
<1>4. IsFiniteSet(Newer(c, u))
  BY DecksFinite DEF Newer, Listing
<1> QED BY <1>2, <1>3, <1>4, FS_AddElement DEF Rank

\* A guard stays a guard while it stays where it is and its listing is kept.
LEMMA GuardKept ==
    ASSUME NEW v \in Workers, NEW c \in Cards, NEW n \in Decks, Guards(v, c, n),
           SameAt(v), Rank(c, n)' = Rank(c, n)
    PROVE  Guards(v, c, n)'
BY DEF Guards, SameAt

\* An edge of a listing that is kept was there before, or its known deck is new.
LEMMA EdgeKept ==
    ASSUME NEW c \in Cards, NEW n \in Decks, Edge(c, n)', Listing(c)' = Listing(c),
           known' \cap Listing(c) \subseteq known, known \subseteq known'
    PROVE  Edge(c, n)
BY DEF Edge

\* Publications leave the guards where they are, or a whole page has come in.
LEMMA HolesAfterPublish ==
    ASSUME SweepInv, NEW cs \in CardSets, Publish(cs), NEW c \in Cards \ blamed,
           NEW n \in Decks, Edge(c, n)'
    PROVE  \E v \in Workers : Guards(v, c, n)'
<1> DEFINE new == Cardinality(Created) + 1
<1>0. /\ listed \subseteq Decks /\ Listing(c) \subseteq Decks
      /\ UNCHANGED <<known, blamed, phase, card, full, page, hand, last, added>>
      /\ new \in Nat /\ \A d \in Listing(c) : Rank(c, d) \in Nat
  <2>1. listed \subseteq Decks
    BY DEF SweepInv, Typed, TypeOK, Created
  <2>2. Listing(c) \subseteq Decks /\ \A d \in Listing(c) : Rank(c, d) \in Nat
    BY <2>1, RanksAreOrdered
  <2> QED BY <2>1, <2>2, ConstantsType DEF Publish, tables, sweep
<1>1. /\ new \notin known /\ \A e \in known : e < new
      /\ \/ Listing(c)' = Listing(c)
         \/ Listing(c)' = Listing(c) \cup {new}
  BY PublishShifts DEF SweepInv
<1> HIDE DEF new
<1>2. Edge(c, n)
  <2>1. n \in Listing(c)' /\ n \notin known
    BY <1>0 DEF Edge
  <2>2. PICK u \in known \cap Listing(c)' :
          n < u /\ \A m \in Listing(c)' : ~(n < m /\ m < u)
    BY <1>0 DEF Edge
  <2>3. u \in Listing(c) /\ u \in Nat /\ u < new /\ n \in Nat
    BY <1>0, <1>1, <2>2, ConstantsType
  <2>4. n \in Listing(c)
    BY <1>0, <1>1, <2>1, <2>2, <2>3
  <2> QED BY <1>1, <2>1, <2>2, <2>3, <2>4 DEF Edge
<1>3. PICK v \in Workers : Guards(v, c, n)
  BY <1>2 DEF SweepInv, HoleInv
<1>4. n \in Listing(c)
  BY <1>2 DEF Edge
<1>5. page[v] \in Nat /\ page[v] > 0 /\ pubs[v] \in 0..PageSize
  BY ConstantsType DEF SweepInv, Typed, TypeOK
<1>6. Start(page[v]) \in Nat /\ Start(page[v] + 1) \in Nat
  BY <1>5, StartsOfPages
<1>7. CASE c \in cs
  <2>1. Rank(c, n)' = Rank(c, n) + 1
    BY <1>4, <1>7, PublishShifts DEF SweepInv
  <2>2. /\ pubs[v] = PageSize => pubs'[v] = PageSize
        /\ v \notin full /\ pubs'[v] < PageSize =>
             pubs[v] < PageSize /\ pubs'[v] = pubs[v] + 1
    BY <1>3, <1>5, <1>7, ConstantsType DEF Publish, Paging, Guards
  <2>3. CASE phase[v] = "read"
    <3>1. Start(page[v]) <= Rank(c, n)'
      BY <1>0, <1>3, <1>4, <1>6, <2>1, <2>3 DEF Guards
    <3>2. ASSUME v \notin full, pubs'[v] < PageSize
          PROVE  Rank(c, n)' <= Start(page[v]) + pubs'[v]
      <4>1. Rank(c, n) <= Start(page[v]) + pubs[v]
        BY <1>3, <2>2, <2>3, <3>2 DEF Guards
      <4> QED BY <1>0, <1>4, <1>5, <1>6, <2>1, <2>2, <3>2, <4>1
    <3> QED BY <1>0, <1>3, <2>3, <3>1, <3>2 DEF Guards
  <2>4. CASE phase[v] = "post"
    <3>1. Start(page[v] + 1) <= Rank(c, n) => Start(page[v] + 1) <= Rank(c, n)'
      BY <1>0, <1>4, <1>6, <2>1
    <3> QED BY <1>0, <1>3, <2>2, <2>4, <3>1 DEF Guards
  <2> QED BY <1>3, <2>3, <2>4 DEF Guards
<1>8. CASE c \notin cs
  <2>1. Rank(c, n)' = Rank(c, n)
    BY <1>8, PublishShifts, OtherListingKept DEF SweepInv
  <2>2. pubs'[v] = pubs[v]
    BY <1>3, <1>8 DEF Publish, Guards
  <2> QED BY <1>0, <1>3, <2>1, <2>2 DEF Guards
<1> QED BY <1>7, <1>8

\* A change of a deck makes no edge where nobody sweeps, and elsewhere it is
\* blamed; so it is wherever it puts a deck into a listing.
LEMMA HolesAfterChange ==
    ASSUME SweepInv, NEW d \in Decks, Change(d), NEW c \in Cards \ blamed',
           NEW n \in Decks, Edge(c, n)'
    PROVE  \E v \in Workers : Guards(v, c, n)'
<1>1. /\ UNCHANGED <<known, sweep, pubs, added>> /\ c \in Cards \ blamed
      /\ Listing(c)' \subseteq Listing(c)
  BY UnblamedKept DEF SweepInv
<1>2. CASE \E v \in Workers : card[v] = c
  <2>1. Listing(c)' = Listing(c) /\ \A e \in Decks : Rank(c, e)' = Rank(c, e)
    BY <1>2, UnblamedKept DEF SweepInv
  <2>2. Edge(c, n)
    BY <1>1, <2>1, EdgeKept
  <2>3. PICK v \in Workers : Guards(v, c, n)
    BY <1>1, <2>2 DEF SweepInv, HoleInv
  <2>4. SameAt(v)
    BY <1>1 DEF SameAt, sweep
  <2> QED BY <2>1, <2>3, <2>4, GuardKept
<1>3. CASE ~\E v \in Workers : card[v] = c
  <2>1. \A m \in Decks, v \in Workers : ~Guards(v, c, m)
    BY <1>3 DEF Guards
  <2>2. ~Hole(c)
    BY <1>1, <2>1, NoGuardNoHole
  <2>3. Hole(c)
    BY <1>1 DEF Edge, Hole
  <2> QED BY <2>2, <2>3
<1> QED BY <1>2, <1>3

\* A page is read: the edges that rely on the reader are on it, or it is not the
\* last and the sweep does not stop at it.
LEMMA GuardAfterRead ==
    ASSUME SweepInv, NEW w \in Workers, ReadPage(w), NEW c \in Cards, NEW n \in Listing(c),
           Guards(w, c, n)
    PROVE  Guards(w, c, n)'
<1> DEFINE p == page[w]
           found == SearchPage(c, p)
<1>0. /\ phase[w] = "read" /\ card[w] = c /\ w \in added
      /\ UNCHANGED <<moxfield, card, full>>
      /\ listed \subseteq Decks /\ p \in Nat /\ p > 0 /\ pubs[w] \in 0..PageSize
      /\ n \in Decks
  BY ConstantsType DEF ReadPage, Guards, SweepInv, Typed, TypeOK, Created, Listing
<1>1. /\ Start(p) <= Rank(c, n)
      /\ w \notin full /\ pubs[w] < PageSize => Rank(c, n) <= Start(p) + pubs[w]
      /\ Start(p) \in Nat /\ Start(p + 1) = Start(p) + PageSize /\ Rank(c, n) \in Nat
  BY <1>0, StartsOfPages, RanksAreOrdered DEF Guards
<1>2. ~AtEnd(found)
  BY <1>0, <1>1, PageNotEmpty DEF AtEnd
<1>3. /\ phase'[w] = "post" /\ hand'[w] = found /\ UNCHANGED <<page, pubs, added>>
      /\ w \in last' => IsLastPage(c, p)
  BY <1>0, <1>2 DEF ReadPage, SweepInv, Typed, TypeOK
<1>4. Rank(c, n)' = Rank(c, n)
  BY <1>0, ListingKept
<1>5. CASE n \in found
  BY <1>0, <1>3, <1>5 DEF Guards
<1>6. CASE n \notin found
  <2>1. Start(p + 1) <= Rank(c, n)
    <3>1. n \in found <=> Start(p) <= Rank(c, n) /\ Rank(c, n) < Start(p + 1)
      BY <1>0, PageHasRanks
    <3> QED BY <1>1, <1>6, <3>1, ConstantsType
  <2>2. w \notin last'
    BY <1>0, <1>1, <1>3, <1>6, LastPageIsLast
  <2>3. w \in full \/ pubs[w] = PageSize
    BY <1>0, <1>1, <2>1, ConstantsType
  <2> HIDE DEF found
  <2> QED BY <1>0, <1>3, <1>4, <2>1, <2>2, <2>3 DEF Guards
<1> QED BY <1>5, <1>6

\* A page is posted: an edge that relied on the sweep was in hand and is known
\* now, or is still ahead of it; and an edge at a deck of the page that is new
\* relies on the sweep from now on.
LEMMA HolesAfterPost ==
    ASSUME SweepInv, NEW w \in Workers, PostPage(w), NEW c \in Cards \ blamed',
           NEW n \in Decks, Edge(c, n)'
    PROVE  \E v \in Workers : Guards(v, c, n)'
<1>0. /\ phase[w] = "post" /\ UNCHANGED <<moxfield, card, full>> /\ c \notin blamed
      /\ known' = known \cup hand[w]
      /\ Listing(c)' = Listing(c) /\ \A e \in Decks : Rank(c, e)' = Rank(c, e)
      /\ listed \subseteq Decks /\ Listing(c) \subseteq Decks
      /\ page[w] \in Nat /\ page[w] > 0 /\ pubs[w] \in 0..PageSize
      /\ c \notin Strangers(w)
      /\ card[w] = c /\ StopsAtKnown(w) => pubs[w] # PageSize
  <2>1. UNCHANGED moxfield
    BY DEF PostPage, Upsert
  <2>2. Listing(c)' = Listing(c) /\ \A e \in Decks : Rank(c, e)' = Rank(c, e)
    BY <2>1, ListingKept
  <2> QED BY <2>1, <2>2, ConstantsType
      DEF PostPage, Upsert, SweepInv, Typed, TypeOK, Created, Listing
<1>1. n \in Listing(c) /\ n \notin known /\ n \notin hand[w]
  BY <1>0 DEF Edge
<1>2. PICK u \in Listing(c) : /\ u \in known \cup hand[w] /\ n < u
                              /\ \A m \in Listing(c) : ~(n < m /\ m < u)
  BY <1>0 DEF Edge
<1>3. ~(w \in last \/ StopsAtKnown(w)) =>
        /\ phase'[w] = "read" /\ page'[w] = page[w] + 1 /\ UNCHANGED pubs
        /\ w \in added' <=> (w \in added \/ Fresh(w) # {})
  BY DEF PostPage, SweepInv, Typed, TypeOK
<1>4. CASE u \in known
  <2>1. PICK v \in Workers : Guards(v, c, n)
    BY <1>0, <1>1, <1>2, <1>4 DEF Edge, SweepInv, HoleInv
  <2>2. CASE v # w
    <3>1. SameAt(v)
      BY <2>2, OthersSame DEF WorkerStep, SweepInv
    <3> QED BY <1>0, <2>1, <3>1, GuardKept
  <2>3. CASE v = w
    <3>1. /\ card[w] = c /\ w \in added /\ (w \in full \/ pubs[w] = PageSize)
          /\ w \notin last /\ Start(page[w] + 1) <= Rank(c, n)
      BY <1>0, <1>1, <2>1, <2>3 DEF Guards
    <3>2. ~(w \in last \/ StopsAtKnown(w))
      BY <1>0, <3>1 DEF StopsAtKnown
    <3>3. Guards(w, c, n)'
      BY <1>0, <1>3, <3>1, <3>2, ConstantsType DEF Guards
    <3> QED BY <3>3
  <2> QED BY <2>2, <2>3
<1>5. CASE u \notin known
  <2>1. u \in Fresh(w) /\ u \in hand[w] /\ c \in has[u]
    BY <1>2, <1>5 DEF Fresh, Listing
  <2>2. card[w] = c
    BY <1>0, <2>1 DEF Strangers
  <2>3. HandOf(w, c)
    BY <1>0, <2>2 DEF SweepInv, HandInv
  <2>4. Start(page[w] + 1) <= Rank(c, n) /\ w \notin last
    BY <1>1, <1>2, <2>1, <2>3 DEF HandOf
  <2>5. ~(w \in last \/ StopsAtKnown(w))
    BY <2>1, <2>4 DEF StopsAtKnown
  <2>6. ASSUME w \notin full, pubs[w] < PageSize
        PROVE  Rank(c, n) <= Start(page[w] + 1) + pubs[w]
    <3>1. Rank(c, u) < Start(page[w] + 1) + pubs[w]
      BY <2>1, <2>3, <2>6 DEF HandOf
    <3>2. Rank(c, n) = Rank(c, u) + 1
      BY <1>0, <1>1, <1>2, RankBelow
    <3>3. Start(page[w] + 1) \in Nat /\ Rank(c, u) \in Nat
      BY <1>0, <1>2, StartsOfPages, RanksAreOrdered
    <3> QED BY <1>0, <3>1, <3>2, <3>3
  <2>7. Guards(w, c, n)'
    BY <1>0, <1>3, <2>1, <2>2, <2>4, <2>5, <2>6 DEF Guards
  <2> QED BY <2>7
<1> QED BY <1>4, <1>5

\* Every step keeps every edge guarded.
LEMMA HoleStep == SweepInv /\ [Next]_vars => HoleInv'
<1> SUFFICES ASSUME SweepInv, [Next]_vars, NEW c \in Cards \ blamed', NEW n \in Decks,
                    Edge(c, n)'
             PROVE  \E v \in Workers : Guards(v, c, n)'
  BY DEF HoleInv
<1>1. ASSUME NEW cs \in CardSets, Publish(cs) PROVE \E v \in Workers : Guards(v, c, n)'
  <2>1. c \in Cards \ blamed
    BY <1>1 DEF Publish
  <2> QED BY <1>1, <2>1, HolesAfterPublish
<1>2. ASSUME NEW w \in Workers, WorkerStep(w), ~PostPage(w)
      PROVE  \E v \in Workers : Guards(v, c, n)'
  <2>1. UNCHANGED <<moxfield, known>> /\ c \in Cards \ blamed
    BY <1>2 DEF WorkerStep, ClaimSweep, ReadPage, Abort, Stop, CompleteSweep, tables
  <2>2. Listing(c)' = Listing(c) /\ \A e \in Decks : Rank(c, e)' = Rank(c, e)
    BY <2>1, ListingKept
  <2>3. Edge(c, n)
    BY <2>1, <2>2, EdgeKept
  <2>4. PICK v \in Workers : Guards(v, c, n)
    BY <2>1, <2>3 DEF SweepInv, HoleInv
  <2>5. CASE v # w
    <3>1. SameAt(v)
      BY <1>2, <2>5, OthersSame DEF SweepInv
    <3> QED BY <2>2, <2>4, <3>1, GuardKept
  <2>6. CASE v = w /\ ReadPage(w)
    BY <2>3, <2>4, <2>6, GuardAfterRead DEF Edge
  <2>7. CASE v = w /\ ~ReadPage(w)
    <3>1. card[w] = c /\ w \in added /\ phase[w] \in {"read", "post"}
      BY <2>4, <2>7 DEF Guards
    <3>2. Abort(w) \/ Stop(w)
      BY <1>2, <2>7, <3>1 DEF WorkerStep, ClaimSweep, CompleteSweep
    <3>3. c \in blamed'
      BY <3>1, <3>2 DEF Abort, Stop
    <3> QED BY <3>3
  <2> QED BY <2>5, <2>6, <2>7
<1>3. CASE UNCHANGED vars
  <2>1. UNCHANGED <<moxfield, known, blamed, phase, card, full, page, hand, last, pubs, added>>
    BY <1>3 DEF vars, tables, sweep, ghosts
  <2>2. Listing(c)' = Listing(c) /\ \A e \in Decks : Rank(c, e)' = Rank(c, e)
    BY <2>1, ListingKept
  <2>3. Edge(c, n)
    BY <2>1, <2>2, EdgeKept
  <2>4. PICK v \in Workers : Guards(v, c, n)
    BY <2>1, <2>3 DEF SweepInv, HoleInv
  <2> QED BY <2>1, <2>2, <2>4, GuardKept DEF SameAt
<1>4. ASSUME NEW d \in Decks, Change(d) PROVE \E v \in Workers : Guards(v, c, n)'
  BY <1>4, HolesAfterChange
<1>5. ASSUME NEW w \in Workers, PostPage(w) PROVE \E v \in Workers : Guards(v, c, n)'
  BY <1>5, HolesAfterPost
<1> QED BY <1>1, <1>2, <1>3, <1>4, <1>5 DEF Next, WorkerStep, Change

\* What sweeps rely on holds throughout.
LEMMA SweepInvCorrect == Spec => []SweepInv
<1>1. Init => Typed
  BY InitTyped
<1>2. Init => OwedInv /\ HandInv /\ HoleInv
  <2>1. SUFFICES ASSUME Init PROVE OwedInv /\ HandInv /\ HoleInv
    OBVIOUS
  <2>2. OwedInv
    BY <2>1, DiscoveryAssumption DEF Init, OwedInv, OwedAt
  <2>3. HandInv
    BY <2>1 DEF Init, HandInv
  <2>4. HoleInv
    BY <2>1 DEF Init, HoleInv, Edge
  <2> QED BY <2>2, <2>3, <2>4
<1>3. SweepInv /\ [Next]_vars => SweepInv'
  BY TypedStep, OwedStep, HandStep, HoleStep DEF SweepInv
<1> QED BY <1>1, <1>2, <1>3, PTL DEF Spec, SweepInv

\* A full sweep that nothing cut short has found every deck that was listed when
\* it began, unless one of its listing was withdrawn or edited out of it since.
THEOREM FullSweepCoversCorrect == Spec => []FullSweepCovers
<1>1. SweepInv => FullSweepCovers
  <2> SUFFICES ASSUME SweepInv, NEW w \in full, phase[w] = "complete" PROVE owed[w] = {}
    BY DEF FullSweepCovers
  <2>1. w \in Workers /\ card[w] \in Cards
    BY DEF SweepInv, Typed, TypeOK
  <2> QED BY <2>1 DEF SweepInv, OwedInv, OwedAt, OwedBy
<1> QED BY <1>1, SweepInvCorrect, PTL

\* A listing that nobody sweeps has a hole only if one of the causes is on record.
THEOREM EveryHoleHasACauseCorrect == Spec => []EveryHoleHasACause
<1>1. SweepInv => EveryHoleHasACause
  <2> SUFFICES ASSUME SweepInv, NEW c \in everSwept \ blamed, Sweeping(c) = {}
               PROVE  ~Hole(c)
    BY DEF EveryHoleHasACause
  <2>1. c \in Cards \ blamed
    BY DEF SweepInv, Typed, TypeOK
  <2>2. \A n \in Decks, w \in Workers : ~Guards(w, c, n)
    BY DEF Sweeping, Guards
  <2> QED BY <2>1, <2>2, NoGuardNoHole
<1> QED BY <1>1, SweepInvCorrect, PTL

\* An incremental sweep that completes alone, with no such cause on record, has
\* found every deck that was listed when it began.
THEOREM CaughtUpWithoutCauseCorrect == Spec => []CaughtUpWithoutCause
<1>1. SweepInv => CaughtUpWithoutCause
  <2> SUFFICES ASSUME SweepInv, NEW w \in Workers \ full, phase[w] = "complete",
                      Sweeping(card[w]) = {w}, card[w] \notin blamed,
                      NEW d \in owed[w]
               PROVE  FALSE
    BY DEF CaughtUpWithoutCause
  <2> DEFINE c == card[w]
  <2>1. c \in Cards \ blamed
    BY DEF SweepInv, Typed, TypeOK
  <2>2. \A n \in Decks, v \in Workers : ~Guards(v, c, n)
    BY DEF Sweeping, Guards
  <2>3. ~Hole(c)
    BY <2>1, <2>2, NoGuardNoHole
  <2>4. OwedBy(w, c) /\ owed[w] \cap known = {}
    BY <2>1 DEF SweepInv, OwedInv, OwedAt
  <2>5. PICK e \in known \cap Listing(c) : d < e
    BY <2>1, <2>4 DEF OwedBy
  <2> QED BY <2>3, <2>4, <2>5 DEF Hole, OwedBy
<1> QED BY <1>1, SweepInvCorrect, PTL
============================================================================
