--------------------------- MODULE DeckLifecycle ---------------------------
(***************************************************************************)
(* What the deck tables promise, whoever calls the API and however their   *)
(* requests overlap.  A deck enters the queue when it is first posted, and *)
(* again when a page brings a newer stamp than the one the table shows; it *)
(* leaves the queue when its outcome is reported; done is final until the  *)
(* next newer stamp, an error may still turn into done.  Claims, leases,   *)
(* workers and transactions are left to the specifications that implement  *)
(* this one.                                                               *)
(***************************************************************************)
EXTENDS Integers

CONSTANTS
    Decks,   \* the decks
    Stamps   \* values of lastUpdatedAtUtc, the least stands for NULL

VARIABLES
    stage,   \* deck |-> absent, queued, done or error
    stamp    \* deck |-> the stamp the table shows

Stages == {"absent", "queued", "done", "error"}

Init == /\ stage = [d \in Decks |-> "absent"]
        /\ stamp = [d \in Decks |-> 0]

\* A page with the given stamps: the stamp is overwritten in any case.
Post(listed, stamps) ==
    /\ stage' = [d \in Decks |->
                   IF d \in listed /\ (stage[d] = "absent" \/ stamps[d] > stamp[d])
                   THEN "queued" ELSE stage[d]]
    /\ stamp' = [d \in Decks |-> IF d \in listed THEN stamps[d] ELSE stamp[d]]

\* Outcomes of several decks at once; those that are done already stay so.
Report(written, errored) ==
    /\ \A d \in written \cup errored : stage[d] \notin {"absent", "done"}
    /\ stage' = [d \in Decks |-> CASE d \in written           -> "done"
                                   [] d \in errored \ written -> "error"
                                   [] OTHER                   -> stage[d]]
    /\ UNCHANGED stamp

Next == \/ \E listed \in SUBSET Decks, stamps \in [Decks -> Stamps] : Post(listed, stamps)
        \/ \E written, errored \in SUBSET Decks : Report(written, errored)

Spec == Init /\ [][Next]_<<stage, stamp>>
=============================================================================
