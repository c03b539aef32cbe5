------------------------------- MODULE CardMap -------------------------------
(***************************************************************************)
(* The table v2.cards, the seedings that fill it from Scryfall's export,   *)
(* the trigger that gives new cards their sweep units, and the API's map   *)
(* between names and ids, which is a copy of the table: loaded at startup, *)
(* loaded anew on request, and never in step with the table by itself.     *)
(*                                                                         *)
(* Nothing in the database keeps names unique.  A seeding is one           *)
(* transaction under READ COMMITTED: each statement sees what was          *)
(* committed when it began, and the UPDATE waits for rows that another     *)
(* seeding has updated.  The map is used for a submitted deck, whose names *)
(* become ids, and for sweeps, which are claimed by id and completed by    *)
(* name (SweepCycle).                                                      *)
(*                                                                         *)
(* Of a card only its legality is kept, in one format that has a column    *)
(* for it ("gated") beside the one that takes every card ("open").         *)
(***************************************************************************)
EXTENDS Integers, Sequences, FiniteSets, SequencesExt

CONSTANTS
    Names,      \* names of cards
    FirstCard,  \* released before all others
    Printed,    \* card |-> its legality when it is released
    Seeders,    \* processes of seed_cards.py
    MaxId,      \* bound: ids the identity column hands out
    MaxChanges, \* bound: changes of a card's legality
    MaxLoads    \* bound: loads of the map under way

ASSUME CardMapAssumption ==
    /\ IsFiniteSet(Names) /\ FirstCard \in Names
    /\ Printed \in [Names -> {"legal", "not_legal"}]
    /\ {MaxId, MaxChanges, MaxLoads} \subseteq Nat

Ids     == 1..MaxId
Legal   == {"legal", "not_legal"}
Exports == [Names -> Legal \cup {"absent"}]
Unit    == [id : Ids, format : {"open", "gated"}]

VARIABLES
    scryfall,  \* what the bulk export holds now
    cache,     \* the export in data/cache, <<>> when there is none
    cards,     \* committed rows of v2.cards: id, name, legal
    units,     \* rows of card_format_status
    nextId,    \* the identity column; rolled-back inserts use it up as well
    seeding,   \* seeder |-> where it stands, its file, the rows it updates and
               \* those it inserts
    nameToId,  \* the map, NoId for a name it does not know; its inverse comes
               \* from the same rows
    loads,     \* loads under way in the order they began: the rows they read
    served,    \* ghost: cards that were in the table when a load began that has
               \* finished since, in this process of the API
    outrun,    \* ghost: the map is from a load that a later one had overtaken
    raced      \* ghost: two seedings overlapped, one of which had found no card
               \* to update

table == <<cards, units, nextId>>
api   == <<nameToId, loads, served, outrun>>
vars  == <<scryfall, cache, table, seeding, api, raced>>

NoId == 0
NotSeeding == [phase |-> "idle", file |-> <<>>, touched |-> {}, fresh |-> {}]

Present(file) == {n \in Names : file[n] # "absent"}
NamesIn(rows) == {c.name : c \in rows}

Init ==
    /\ scryfall = [n \in Names |-> IF n = FirstCard THEN Printed[n] ELSE "absent"]
    /\ cache = <<>>
    /\ cards = {} /\ units = {} /\ nextId = 1
    /\ seeding = [s \in Seeders |-> NotSeeding]
    /\ nameToId = [n \in Names |-> NoId]
    /\ loads = <<>> /\ served = {} /\ outrun = FALSE
    /\ raced = FALSE

(***************************************************************************)
(* Scryfall.                                                               *)
(***************************************************************************)
Changed == {n \in Names : scryfall[n] \notin {"absent", Printed[n]}}

Release(n) ==
    /\ scryfall[n] = "absent"
    /\ scryfall' = [scryfall EXCEPT ![n] = Printed[n]]
    /\ UNCHANGED <<cache, table, seeding, api, raced>>

\* A ban, or the end of one.
ChangeLegality(n) ==
    /\ scryfall[n] = Printed[n] /\ Cardinality(Changed) < MaxChanges
    /\ scryfall' = [scryfall EXCEPT ![n] = IF @ = "legal" THEN "not_legal" ELSE "legal"]
    /\ UNCHANGED <<cache, table, seeding, api, raced>>

(***************************************************************************)
(* Seeding.  dedupe_by_name leaves one entry per name, so an export is a   *)
(* function of names.                                                      *)
(***************************************************************************)
\* The download, or the cached file of an earlier one.
Fetched(cached) == IF cached /\ cache # <<>> THEN cache ELSE scryfall

\* Mistaken form: the UPDATE takes the columns from a subquery and has no WHERE,
\* so that a card the file lacks is emptied.
UpdatedAll(file) == {c.id : c \in cards}

\* The rows that the UPDATE finds by their names.
Updated(file) == {c.id : c \in {r \in cards : r.name \in Present(file)}}

\* The download, and the UPDATE begins: it will update the rows it finds now.
\* (A file that grew old between the two is like a cached one.)
BeginSeeding(s, cached) ==
    /\ seeding[s].phase = "idle"
    /\ seeding' = [seeding EXCEPT ![s] =
         [phase |-> "updating", file |-> Fetched(cached), fresh |-> {},
          touched |-> Updated(Fetched(cached))]]
    /\ cache' = IF cached THEN Fetched(cached) ELSE cache
    /\ UNCHANGED <<scryfall, table, api, raced>>

Uncommitted == {t \in Seeders : seeding[t].phase = "inserted"}

\* Mistaken form: the UPDATE waits for nobody.
LocksAlways(s) == TRUE

\* The UPDATE ends: it holds the locks of its rows until the transaction ends.
Locks(s) == \A t \in Uncommitted : seeding[t].touched \cap seeding[s].touched = {}

Missing(s) == Present(seeding[s].file) \ NamesIn(cards)

\* The rows of the INSERT, with consecutive ids.
NewRows(s) ==
    LET names == SetToSeq(Missing(s))
    IN  {[id |-> nextId + i - 1, name |-> names[i], legal |-> seeding[s].file[names[i]]] :
            i \in DOMAIN names}

UpdateAndInsert(s) ==
    /\ seeding[s].phase = "updating"
    /\ Locks(s)
    /\ nextId + Cardinality(Missing(s)) <= MaxId + 1
    /\ seeding' = [seeding EXCEPT ![s].phase = "inserted", ![s].fresh = NewRows(s)]
    /\ nextId' = nextId + Cardinality(Missing(s))
    /\ raced' = \/ raced
                \/ \E t \in Uncommitted : {} \in {seeding[s].touched, seeding[t].touched}
    /\ UNCHANGED <<scryfall, cache, cards, units, api>>

\* Mistaken form: the open format asks for legality too.
UnitsIfLegal(rows) == {u \in Unit : \E c \in rows : c.id = u.id /\ c.legal = "legal"}

\* The trigger _on_card_insert.
UnitsOf(rows) ==
    {u \in Unit : \E c \in rows : c.id = u.id /\ (u.format = "open" \/ c.legal = "legal")}

\* Mistaken form: cards that the UPDATE did not find are deleted.
UpdatedRowsPruned(s) ==
    {[c EXCEPT !.legal = seeding[s].file[c.name]] :
        c \in {r \in cards : r.id \in seeding[s].touched}}

UpdatedRows(s) ==
    {IF c.id \in seeding[s].touched THEN [c EXCEPT !.legal = seeding[s].file[c.name]] ELSE c :
        c \in cards}

Commit(s) ==
    /\ seeding[s].phase = "inserted"
    /\ cards' = UpdatedRows(s) \cup seeding[s].fresh
    /\ units' = units \cup UnitsOf(seeding[s].fresh)
    /\ seeding' = [seeding EXCEPT ![s] = NotSeeding]
    /\ UNCHANGED <<scryfall, cache, nextId, api, raced>>

\* The seeding dies, loses its connection or is the victim of a deadlock.
SeedFails(s) ==
    /\ seeding[s].phase # "idle"
    /\ seeding' = [seeding EXCEPT ![s] = NotSeeding]
    /\ UNCHANGED <<scryfall, cache, table, api, raced>>

(***************************************************************************)
(* The map.  A load reads the table and swaps the dictionaries in later,   *)
(* under a lock that readers do not take; a request reads one dictionary   *)
(* only, so the two assignments are one step.                              *)
(***************************************************************************)
\* SELECT id, card_name
Pairs(rows) == {[id |-> c.id, name |-> c.name] : c \in rows}

NoMap == \A n \in Names : nameToId[n] = NoId

\* Mistaken form: a map that holds cards is good enough.
ToLoadOnce == {c \in Pairs(cards) : NoMap \/ nameToId[c.name] # NoId}

ToLoad == Pairs(cards)

\* Of two rows with one name the one read last stays in the dictionary.
Dictionaries(rows) ==
    {m \in [Names -> Ids \cup {NoId}] : \A n \in Names :
        m[n] \in {c.id : c \in {r \in rows : r.name = n}}
                   \cup (IF n \in NamesIn(rows) THEN {} ELSE {NoId})}

BeginLoad ==
    /\ Len(loads) < MaxLoads
    /\ loads' = Append(loads, [rows |-> ToLoad, had |-> NamesIn(cards), late |-> FALSE])
    /\ UNCHANGED <<scryfall, cache, table, seeding, nameToId, served, outrun, raced>>

FinishLoad(i) ==
    /\ i \in DOMAIN loads
    /\ nameToId' \in Dictionaries(loads[i].rows)
    /\ loads'  = RemoveAt([j \in DOMAIN loads |->
                     IF j < i THEN [loads[j] EXCEPT !.late = TRUE] ELSE loads[j]], i)
    /\ served' = served \cup loads[i].had
    /\ outrun' = loads[i].late
    /\ UNCHANGED <<scryfall, cache, table, seeding, raced>>

\* The API starts, with or without the table.
RestartApi(reads) ==
    /\ reads \in {{}, cards}
    /\ nameToId' \in Dictionaries(reads)
    /\ loads' = <<>> /\ served' = NamesIn(reads) /\ outrun' = FALSE
    /\ UNCHANGED <<scryfall, cache, table, seeding, raced>>

Next ==
    \/ \E n \in Names : Release(n) \/ ChangeLegality(n)
    \/ \E s \in Seeders :
         \/ \E cached \in BOOLEAN : BeginSeeding(s, cached)
         \/ UpdateAndInsert(s)
         \/ Commit(s)
         \/ SeedFails(s)
    \/ BeginLoad
    \/ \E i \in 1..MaxLoads : FinishLoad(i)
    \/ \E reads \in {{}, cards} : RestartApi(reads)

Spec == Init /\ [][Next]_vars
-----------------------------------------------------------------------------
(***************************************************************************)
(* Properties.                                                             *)
(***************************************************************************)
Row  == [id : Ids, name : Names, legal : Legal]
Load == [rows : SUBSET [id : Ids, name : Names], had : SUBSET Names, late : BOOLEAN]

\* The type invariant.
TypeOK ==
    /\ scryfall \in Exports
    /\ cache \in Exports \cup {<<>>}
    /\ cards \in SUBSET Row
    /\ units \in SUBSET Unit
    /\ nextId \in 1..(MaxId + 1)
    /\ seeding \in [Seeders -> [phase : {"idle", "updating", "inserted"},
                               file : Exports \cup {<<>>},
                               touched : SUBSET Ids, fresh : SUBSET Row]]
    /\ \A s \in Seeders : seeding[s].phase # "idle" => seeding[s].file \in Exports
    /\ nameToId \in [Names -> Ids \cup {NoId}]
    /\ loads \in Seq(Load)
    /\ served \in SUBSET Names /\ outrun \in BOOLEAN /\ raced \in BOOLEAN

\* The seeder's promise, as far as it goes: one row per name, whatever seedings
\* overlap, fail or work from an old cached file, because each of them updates a
\* card the others update too and so waits for them.  Only a seeding that found
\* no card to update (the first ones) waits for nobody and may add a name twice.
\* The map then knows one of the two ids by name: a sweep claimed under the
\* other is completed for this one, and its own unit is never swept.
OneRowPerName == raced \/ \A c, d \in cards : c.name = d.name => c = d

\* Seeding never gives a card's id to another card, and the map hands out no id
\* of a row that does not exist, however a load overlaps with seedings that are
\* rolled back: an id that the map gave out, now or earlier, for a submitted
\* card stays the id of that card.
MapIsOfTheTable ==
    \A n \in Names : nameToId[n] # NoId =>
        \E c \in cards : c.id = nameToId[n] /\ c.name = n

\* A reload makes up for every seeding before it: the map lacks a card that was
\* in the table when a finished load began only if that load was overtaken by an
\* older one, which put an older copy of the table back.
ReloadCatchesUp ==
    outrun \/ \A n \in served : nameToId[n] # NoId

\* Units come from the insertion alone.  A card that is legal on Scryfall lacks
\* its unit only if its legality changed after its release (the UPDATE gives no
\* units); no overlap of seedings, old file or failure loses one, and the format
\* without a legality column has a unit of every card.
LegalCardsHaveUnits ==
    \A c \in cards :
        /\ [id |-> c.id, format |-> "open"] \in units
        /\ scryfall[c.name] = "legal" /\ c.name \notin Changed
              => [id |-> c.id, format |-> "gated"] \in units
=============================================================================
