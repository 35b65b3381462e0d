------------------------------ MODULE WorkPool ------------------------------
(***************************************************************************)
(* What an in-memory queue of the listener promises to the code that fills *)
(* it: a piece of work is accepted at most once until it is settled, at    *)
(* most Capacity pieces are being worked on at a time, and a piece is      *)
(* worked on at most Budget times before it is settled.                    *)
(***************************************************************************)
EXTENDS Naturals, FiniteSets

CONSTANTS Work, Capacity, Budget

VARIABLES
    status,     \* [Work -> {"idle", "pending", "running"}]
    attempts    \* [Work -> Nat]: attempts begun since the work was accepted

poolVars == <<status, attempts>>

Running == {w \in Work : status[w] = "running"}

PoolInit ==
    /\ status = [w \in Work |-> "idle"]
    /\ attempts = [w \in Work |-> 0]

Accept(w) ==
    /\ status[w] = "idle"
    /\ status' = [status EXCEPT ![w] = "pending"]
    /\ UNCHANGED attempts

Begin(S) ==
    /\ \A w \in S : status[w] = "pending" /\ attempts[w] < Budget
    /\ Cardinality(Running \cup S) <= Capacity
    /\ status' = [w \in Work |-> IF w \in S THEN "running" ELSE status[w]]
    /\ attempts' = [w \in Work |-> IF w \in S THEN attempts[w] + 1 ELSE attempts[w]]

\* The work succeeded, or it was given up.
Settle(w) ==
    /\ status[w] = "running"
    /\ status' = [status EXCEPT ![w] = "idle"]
    /\ attempts' = [attempts EXCEPT ![w] = 0]

Defer(w) ==
    /\ status[w] = "running"
    /\ attempts[w] < Budget
    /\ status' = [status EXCEPT ![w] = "pending"]
    /\ UNCHANGED attempts

PoolNext ==
    \/ \E w \in Work : Accept(w) \/ Settle(w) \/ Defer(w)
    \/ \E S \in SUBSET Work : Begin(S)

PoolSpec == PoolInit /\ [][PoolNext]_poolVars
=============================================================================
