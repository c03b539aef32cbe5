------------------------------ MODULE TokenBucket ------------------------------
(***************************************************************************)
(* The rate limiter that all worker threads of a node share: acquire()     *)
(* blocks a thread until it may send one request to Moxfield.              *)
(*                                                                         *)
(* The bucket is measured in the time it takes to fill: a token is worth   *)
(* Cost clock ticks (1 / rate seconds), so tokens * rate becomes a plain   *)
(* count of ticks and the arithmetic is that of the code, scaled.  The     *)
(* clock is not a variable: the module keeps the ticks since the bucket    *)
(* was last refilled and those each thread still sleeps.                   *)
(*                                                                         *)
(* A window, opened at any moment, counts what is let through since then.  *)
(***************************************************************************)
EXTENDS Integers

CONSTANTS
    Threads,    \* the worker threads of one node
    Cost,       \* ticks in which one token is added
    Capacity,   \* ticks in which the bucket fills: burst tokens
    Window      \* bound: ticks for which a window is watched

ASSUME TokenBucketAssumption ==
    /\ Cost \in Nat \ {0}
    /\ Capacity \in Nat /\ Capacity >= Cost    \* burst >= 1 token
    /\ Window \in Nat

VARIABLES
    tokens,     \* _tokens, in ticks
    sinceLast,  \* ticks since _last, up to Capacity
    state,      \* thread |-> "busy" elsewhere, "asking", or "asleep" in acquire
    sleep,      \* thread |-> ticks it still sleeps
    winAge,     \* ghost: ticks since the window was opened
    winSpent    \* ghost: ticks' worth of tokens handed out since then

vars == <<tokens, sinceLast, state, sleep, winAge, winSpent>>

AtMost(bound, n) == IF n <= bound THEN n ELSE bound

\* Mistaken form: the bucket has no cap.
RefilledUncapped == tokens + sinceLast

\* min(capacity, tokens + elapsed * rate)
Refilled == AtMost(Capacity, tokens + sinceLast)

\* Mistaken form: part of a token is enough.
SomeLeft == Refilled > 0

\* _tokens >= 1.0
Enough == Refilled >= Cost

\* Mistaken form: a pass without a token stores the time but not the refill.
LeftNothing == 0

\* What a pass that finds no token leaves in the bucket.
LeftByWait == Refilled

Init ==
    /\ tokens = Capacity /\ sinceLast = 0
    /\ state = [t \in Threads |-> "busy"]
    /\ sleep = [t \in Threads |-> 0]
    /\ winAge = 0 /\ winSpent = 0

\* A thread calls acquire().
Ask(t) ==
    /\ state[t] = "busy"
    /\ state' = [state EXCEPT ![t] = "asking"]
    /\ UNCHANGED <<tokens, sinceLast, sleep, winAge, winSpent>>

\* One pass of the loop, under the lock, that finds a token.
Grant(t) ==
    /\ state[t] = "asking"
    /\ Enough
    /\ tokens' = Refilled - Cost
    /\ sinceLast' = 0
    /\ state' = [state EXCEPT ![t] = "busy"]
    /\ winSpent' = winSpent + Cost
    /\ UNCHANGED <<sleep, winAge>>

\* One pass that does not: the thread sleeps until the token it lacks would be
\* there, but reserves nothing.
Wait(t) ==
    /\ state[t] = "asking"
    /\ ~Enough
    /\ tokens' = LeftByWait
    /\ sinceLast' = 0
    /\ state' = [state EXCEPT ![t] = "asleep"]
    /\ sleep' = [sleep EXCEPT ![t] = Cost - Refilled]
    /\ UNCHANGED <<winAge, winSpent>>

\* time.sleep() returns, never early.
Wake(t) ==
    /\ state[t] = "asleep" /\ sleep[t] = 0
    /\ state' = [state EXCEPT ![t] = "asking"]
    /\ UNCHANGED <<tokens, sinceLast, sleep, winAge, winSpent>>

Tick ==
    /\ winAge < Window
    /\ sinceLast' = AtMost(Capacity, sinceLast + 1)
    /\ sleep' = [t \in Threads |-> IF sleep[t] > 0 THEN sleep[t] - 1 ELSE 0]
    /\ winAge' = winAge + 1
    /\ UNCHANGED <<tokens, state, winSpent>>

\* The watch starts anew, at any moment.
OpenWindow ==
    /\ winAge > 0
    /\ winAge' = 0 /\ winSpent' = 0
    /\ UNCHANGED <<tokens, sinceLast, state, sleep>>

Next ==
    \/ Tick
    \/ OpenWindow
    \/ \E t \in Threads : Ask(t) \/ Grant(t) \/ Wait(t) \/ Wake(t)

Spec == Init /\ [][Next]_vars

(***************************************************************************)
(* Fairness: the clock runs (a full window is reopened) and a thread goes  *)
(* on through acquire's loop; nothing makes a thread ask.                  *)
(***************************************************************************)
Fairness ==
    /\ WF_vars(Tick) /\ WF_vars(winAge = Window /\ OpenWindow)
    /\ \A t \in Threads : WF_vars(Grant(t) \/ Wait(t) \/ Wake(t))

FairSpec == Spec /\ Fairness
-----------------------------------------------------------------------------
(***************************************************************************)
(* Properties.                                                             *)
(***************************************************************************)

\* The type invariant.
TypeOK ==
    /\ tokens \in 0..Capacity
    /\ sinceLast \in 0..Capacity
    /\ state \in [Threads -> {"busy", "asking", "asleep"}]
    /\ sleep \in [Threads -> 0..Cost]
    /\ winAge \in 0..Window
    /\ winSpent \in Nat

\* In every window, whatever the threads do, what is let through is covered by
\* the bucket's capacity and the time that passed: at most
\* burst + rate * length requests.
WindowBound == winSpent <= Capacity + winAge

\* What makes it inductive: what could be let through at once counts too.
SpentAndLeft == winSpent + Refilled <= Capacity + winAge

\* While threads wait, requests go on being let through: the threads cannot
\* send one another back to sleep for ever.
Wanted == \E t \in Threads : state[t] # "busy"

RequestsGoOn == <>[]Wanted => []<><<\E t \in Threads : Grant(t)>>_vars
=============================================================================
