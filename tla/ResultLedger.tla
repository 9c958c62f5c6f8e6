---------------------------- MODULE ResultLedger ----------------------------
(***************************************************************************)
(* What players are promised of results and ratings: a result that was     *)
(* submitted is decided at most once, and exactly the results that were    *)
(* approved, by the opponent or by the passing of time, count in the       *)
(* ratings of their two players, from the moment of their approval.        *)
(***************************************************************************)
EXTENDS Integers

CONSTANTS Results, Players

VARIABLES
    status,    \* [Results -> what became of the result]
    between,   \* [Results -> its two players]
    standing   \* [Players -> the results that count in the rating]

vars == <<status, between, standing>>

Init ==
    /\ status = [r \in Results |-> "none"]
    /\ between = [r \in Results |-> {}]
    /\ standing = [p \in Players |-> {}]

Submit(r) ==
    /\ status[r] = "none"
    /\ status' = [status EXCEPT ![r] = "pending"]
    /\ \E a, b \in Players : a # b /\ between' = [between EXCEPT ![r] = {a, b}]
    /\ UNCHANGED standing

Drop(r) ==
    /\ status[r] = "pending"
    /\ \E s \in {"rejected", "canceled"} : status' = [status EXCEPT ![r] = s]
    /\ UNCHANGED <<between, standing>>

Approve(r) ==
    /\ status[r] = "pending"
    /\ \E s \in {"approved", "auto_approved"} : status' = [status EXCEPT ![r] = s]
    /\ standing' = [p \in Players |-> IF p \in between[r] THEN standing[p] \cup {r}
                                      ELSE standing[p]]
    /\ UNCHANGED between

Next == \E r \in Results : Submit(r) \/ Drop(r) \/ Approve(r)

Spec == Init /\ [][Next]_vars
=============================================================================
