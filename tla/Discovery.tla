------------------------------ MODULE Discovery ------------------------------
(***************************************************************************)
(* A sweep pages through the decks Moxfield lists for a card in a format,  *)
(* newest creation first, while users publish, edit and withdraw decks and *)
(* other workers sweep other cards of the same format.  A deck is listed   *)
(* under each of its cards, and the table of the format holds it once.     *)
(*                                                                         *)
(* Decks are numbered in the order of their creation.  Which unit is       *)
(* handed out when is SweepCycle's business: here an idle worker may get   *)
(* any card, also one that another worker still sweeps, as after an        *)
(* expired lease.                                                          *)
(***************************************************************************)
EXTENDS Integers, FiniteSets

CONSTANTS
    Cards,      \* the cards swept in one format
    CardSets,   \* the sets of them a deck may be listed under
    Workers,    \* worker threads
    NoCard,     \* what an idle worker sweeps
    PageSize,   \* SEARCH_PAGE_SIZE
    MaxDecks,   \* bound: decks ever created
    MaxFaults   \* bound: aborts, stops, withdrawals, edits

Decks == 1..MaxDecks

ASSUME DiscoveryAssumption ==
    /\ NoCard \notin Cards
    /\ CardSets \subseteq (SUBSET Cards) \ {{}}
    /\ PageSize \in Nat \ {0} /\ {MaxDecks, MaxFaults} \subseteq Nat

VARIABLES
    has,        \* deck |-> its cards, {} before it is created
    listed,     \* decks that are public
    known,      \* decks with a row in the deck table
    everSwept,  \* cards whose sweep has been completed
    phase,      \* worker |-> idle, read, post or complete
    card,       \* worker |-> the card it sweeps, or NoCard
    full,       \* workers whose sweep is a full one
    page,       \* worker |-> the page it is at
    hand,       \* worker |-> the decks on the page it read
    last,       \* workers whose page in hand is the last
    faults,     \* faults so far
    owed,       \* ghost: worker |-> decks listed when its sweep began that are
                \* still unknown
    pubs,       \* ghost: worker |-> decks listed during its incremental sweep
    added,      \* ghost: workers whose sweep made a deck known
    blamed      \* ghost: cards whose listing may have a hole, with a cause

moxfield == <<has, listed>>
tables   == <<known, everSwept>>
sweep    == <<phase, card, full, page, hand, last>>
ghosts   == <<owed, pubs, added, blamed>>
vars     == <<moxfield, tables, sweep, faults, ghosts>>

Created == {d \in Decks : has[d] # {}}

Sweeping(c) == {w \in Workers : card[w] = c}
Paging(w)   == phase[w] \in {"read", "post"}

(***************************************************************************)
(* Moxfield's search.                                                      *)
(***************************************************************************)
Listing(c) == {d \in listed : c \in has[d]}

\* Mistaken form: the listing in ascending order.
Older(c, d) == {e \in Listing(c) : e < d}

Newer(c, d) == {e \in Listing(c) : e > d}

SearchPage(c, p) == {d \in Listing(c) : Cardinality(Newer(c, d)) \div PageSize = p - 1}

TotalPages(c) == (Cardinality(Listing(c)) + PageSize - 1) \div PageSize

Init ==
    /\ has = [d \in Decks |-> {}]
    /\ listed = {} /\ known = {} /\ everSwept = {}
    /\ phase = [w \in Workers |-> "idle"]
    /\ card  = [w \in Workers |-> NoCard]
    /\ page  = [w \in Workers |-> 1]
    /\ hand  = [w \in Workers |-> {}]
    /\ full = {} /\ last = {}
    /\ faults = 0
    /\ owed = [w \in Workers |-> {}]
    /\ pubs = [w \in Workers |-> 0]
    /\ added = {} /\ blamed = {}

Faulty == faults < MaxFaults /\ faults' = faults + 1

(***************************************************************************)
(* Users of Moxfield.  A withdrawal moves the older decks to earlier       *)
(* pages, behind a sweep that has passed them; a deck that becomes public  *)
(* (again) long after its creation appears in the middle of the listing.   *)
(* An edit does the one to the listings of the cards it takes out and the  *)
(* other to those of the cards it puts in.                                 *)
(***************************************************************************)
Publish(cs) ==
    LET d == Cardinality(Created) + 1 IN
    /\ d \in Decks
    /\ has' = [has EXCEPT ![d] = cs]
    /\ listed' = listed \cup {d}
    /\ pubs' = [w \in Workers |->
                   IF Paging(w) /\ w \notin full /\ card[w] \in cs /\ pubs[w] < PageSize
                   THEN pubs[w] + 1 ELSE pubs[w]]
    /\ UNCHANGED <<faults, tables, sweep, owed, added, blamed>>

Withdraw(d) ==
    /\ Faulty
    /\ d \in listed
    /\ listed' = listed \ {d}
    /\ owed' = [w \in Workers |-> IF card[w] \in has[d] THEN {} ELSE owed[w]]
    /\ blamed' = blamed \cup {c \in has[d] : Sweeping(c) # {}}
    /\ UNCHANGED <<has, tables, sweep, pubs, added>>

MakePublic(d) ==
    /\ d \in Created \ listed
    /\ listed' = listed \cup {d}
    /\ blamed' = blamed \cup has[d]
    /\ UNCHANGED <<has, tables, sweep, faults, owed, pubs, added>>

Entered(d, cs) == IF d \in listed THEN cs \ has[d] ELSE {}
Left(d, cs)    == IF d \in listed THEN has[d] \ cs ELSE {}

Edit(d, cs) ==
    /\ Faulty
    /\ d \in Created /\ cs # has[d]
    /\ has' = [has EXCEPT ![d] = cs]
    /\ owed' = [w \in Workers |-> IF card[w] \in Left(d, cs) THEN {} ELSE owed[w]]
    /\ blamed' = blamed \cup Entered(d, cs) \cup {c \in Left(d, cs) : Sweeping(c) # {}}
    /\ UNCHANGED <<listed, tables, sweep, pubs, added>>

(***************************************************************************)
(* The sweep.                                                              *)
(***************************************************************************)
ClaimSweep(w, c) ==
    /\ phase[w] = "idle"
    /\ phase' = [phase EXCEPT ![w] = "read"]
    /\ card'  = [card EXCEPT ![w] = c]
    /\ full'  = IF c \in everSwept THEN full ELSE full \cup {w}
    /\ owed'  = [owed EXCEPT ![w] = Listing(c) \ known]
    /\ UNCHANGED <<moxfield, tables, page, hand, last, faults, pubs, added, blamed>>

\* Mistaken form: pages are counted from 0, as in totalPages - 1.
IsLastPageFromZero(c, p) == p >= TotalPages(c) - 1

\* The second half follows from the first, as Moxfield fills its pages.
IsLastPage(c, p) == p >= TotalPages(c) \/ Cardinality(SearchPage(c, p)) < PageSize

\* Mistaken form: an empty page is posted like any other.
NoEnd(found) == FALSE

AtEnd(found) == found = {}

\* The end of the loop over the pages.
EndLoop(w) ==
    /\ phase' = [phase EXCEPT ![w] = "complete"]
    /\ page'  = [page EXCEPT ![w] = 1]
    /\ pubs'  = [pubs EXCEPT ![w] = 0]
    /\ added' = added \ {w}

ReadPage(w) ==
    LET found == SearchPage(card[w], page[w]) IN
    /\ phase[w] = "read"
    /\ \/ /\ AtEnd(found)
          /\ EndLoop(w)
          /\ UNCHANGED <<hand, last>>
       \/ /\ ~AtEnd(found)
          /\ phase' = [phase EXCEPT ![w] = "post"]
          /\ hand'  = [hand EXCEPT ![w] = found]
          /\ last'  = IF IsLastPage(card[w], page[w]) THEN last \cup {w} ELSE last
          /\ UNCHANGED <<page, pubs, added>>
    /\ UNCHANGED <<moxfield, tables, card, full, faults, owed, blamed>>

Fresh(w) == hand[w] \ known

\* POST /decks: one transaction for the whole page.
Upsert(w) ==
    /\ known' = known \cup hand[w]
    /\ owed'  = [v \in Workers |-> owed[v] \ hand[w]]
    /\ UNCHANGED <<moxfield, everSwept>>

\* The other cards of new decks: their listings get a known deck somewhere.
Strangers(w) == (UNION {has[d] : d \in Fresh(w)}) \ {card[w]}

\* Mistaken form: a full sweep stops at a page of known decks as well.
StopsAtKnownAlways(w) == Fresh(w) = {}

StopsAtKnown(w) == w \notin full /\ Fresh(w) = {}

PostPage(w) ==
    /\ phase[w] = "post"
    /\ Upsert(w)
    /\ IF w \in last \/ StopsAtKnown(w)
       THEN EndLoop(w)
       ELSE /\ phase' = [phase EXCEPT ![w] = "read"]
            /\ page'  = [page EXCEPT ![w] = @ + 1]
            /\ added' = IF Fresh(w) # {} THEN added \cup {w} ELSE added
            /\ UNCHANGED pubs
    /\ hand' = [hand EXCEPT ![w] = {}]
    /\ last' = last \ {w}
    /\ blamed' = blamed \cup Strangers(w)
                   \cup {c \in {card[w]} : StopsAtKnown(w) /\ pubs[w] = PageSize}
    /\ UNCHANGED <<card, full, faults>>

\* The end of a sweep, or its abort.
GoIdle(w) ==
    /\ phase' = [phase EXCEPT ![w] = "idle"]
    /\ card'  = [card EXCEPT ![w] = NoCard]
    /\ full'  = full \ {w}
    /\ page'  = [page EXCEPT ![w] = 1]
    /\ hand'  = [hand EXCEPT ![w] = {}]
    /\ last'  = last \ {w}
    /\ owed'  = [owed EXCEPT ![w] = {}]
    /\ pubs'  = [pubs EXCEPT ![w] = 0]
    /\ added' = added \ {w}

\* MoxfieldError, a request to the API that fails, the death of the process, a
\* page that is refused as one of its entries names an unknown format (400).
\* Right after PostPage: the rows are written but the answer is lost.
Abort(w) ==
    /\ Faulty
    /\ phase[w] # "idle"
    /\ GoIdle(w)
    /\ blamed' = blamed \cup {c \in {card[w]} : w \in added}
    /\ UNCHANGED <<moxfield, tables>>

\* The stop event ends the loop, and _discover completes the sweep.
Stop(w) ==
    /\ Faulty
    /\ phase[w] = "read"
    /\ EndLoop(w)
    /\ owed'  = [owed EXCEPT ![w] = {}]
    /\ blamed' = blamed \cup {c \in {card[w]} : w \in added}
    /\ UNCHANGED <<moxfield, tables, card, full, hand, last>>

CompleteSweep(w) ==
    /\ phase[w] = "complete"
    /\ everSwept' = everSwept \cup {card[w]}
    /\ GoIdle(w)
    /\ UNCHANGED <<moxfield, known, faults, blamed>>

Next ==
    \/ \E cs \in CardSets : Publish(cs)
    \/ \E d \in Decks : \/ Withdraw(d) \/ MakePublic(d)
                        \/ \E cs \in CardSets : Edit(d, cs)
    \/ \E w \in Workers :
         \/ \E c \in Cards : ClaimSweep(w, c)
         \/ ReadPage(w) \/ PostPage(w) \/ Abort(w) \/ Stop(w) \/ CompleteSweep(w)

Spec == Init /\ [][Next]_vars
-----------------------------------------------------------------------------
(***************************************************************************)
(* Properties.                                                             *)
(***************************************************************************)

\* The type invariant.
TypeOK ==
    /\ has \in [Decks -> CardSets \cup {{}}]
    /\ known \subseteq Created /\ listed \subseteq Created
    /\ everSwept \subseteq Cards /\ blamed \subseteq Cards
    /\ phase \in [Workers -> {"idle", "read", "post", "complete"}]
    /\ card \in [Workers -> Cards \cup {NoCard}]
    /\ \A w \in Workers : card[w] = NoCard <=> phase[w] = "idle"
    /\ full \subseteq Workers /\ last \subseteq Workers /\ added \subseteq Workers
    /\ page \in [Workers -> 1..(MaxDecks + 1)]
    /\ hand \in [Workers -> SUBSET Decks] /\ owed \in [Workers -> SUBSET Decks]
    /\ \A w \in Workers : hand[w] # {} <=> phase[w] = "post"
    /\ faults \in 0..MaxFaults
    /\ pubs \in [Workers -> 0..PageSize]

\* A full sweep that nothing cut short finds every deck that was listed when it
\* began, however many decks are published between its pages and whatever the
\* other workers post meanwhile, unless a deck was withdrawn or edited out of
\* its listing in between.
FullSweepCovers ==
    \A w \in full : phase[w] = "complete" => owed[w] = {}

\* The listing of c has a hole: an unknown deck older than a known one, which
\* an incremental sweep need not reach.
Hole(c) == \E d, e \in Listing(c) : d < e /\ d \notin known /\ e \in known

\* Holes come from nothing but these causes: a sweep of another card made a
\* newer deck known first; a sweep of the card was aborted, cut or not answered
\* after it had posted new decks; a whole page of decks came in during an
\* incremental sweep; a deck was withdrawn, or lost the card in an edit, during a
\* sweep; a deck became public after it was created; a public deck, known or not,
\* got the card in an edit.  In particular overlapping sweeps of one card, pages
\* that shift by less than a page and known decks on a page make none.
EveryHoleHasACause ==
    \A c \in everSwept \ blamed : Sweeping(c) = {} => ~Hole(c)

\* Without such a cause, and once nobody else sweeps the card, an incremental
\* sweep that stops at a page without new decks has caught up: every deck that
\* was listed when it began is known when it completes.
CaughtUpWithoutCause ==
    \A w \in Workers \ full :
        (phase[w] = "complete" /\ Sweeping(card[w]) = {w} /\ card[w] \notin blamed)
            => owed[w] = {}

\* What node.py says of it, with no such conditions: a page without new decks
\* means that the sweep has caught up to known decks.
CaughtUp ==
    \A w \in Workers \ full :
        (phase[w] = "complete" /\ Sweeping(card[w]) = {w}) => owed[w] = {}
=============================================================================
