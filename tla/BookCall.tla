------------------------------ MODULE BookCall ------------------------------
(***************************************************************************)
(* What the booking service promises of a call: the platform carries it    *)
(* out at most once, the answer "ok" means that it was carried out in      *)
(* full, and nothing happens after the answer.  An error says nothing of   *)
(* what was carried out: a court may be reserved, or reserved and paid.    *)
(***************************************************************************)
CONSTANTS Calls

VARIABLES
    asked,   \* [Calls -> "none", "book", "cancel" or, without effect, "look"]
    effect,  \* [Calls -> "none", "acted" or, for a paid reservation, "paid"]
    answer   \* [Calls -> "none", "ok" or "error"]

bookVars == <<asked, effect, answer>>

BookCallInit ==
    /\ asked = [w \in Calls |-> "none"]
    /\ effect = [w \in Calls |-> "none"]
    /\ answer = [w \in Calls |-> "none"]

Complete(k) ==
    CASE k = "book" -> "paid" [] k = "cancel" -> "acted" [] OTHER -> "none"

Open(w) == asked[w] # "none" /\ answer[w] = "none"

Ask(w) ==
    /\ asked[w] = "none"
    /\ \E k \in {"book", "cancel", "look"} : asked' = [asked EXCEPT ![w] = k]
    /\ UNCHANGED <<effect, answer>>

(* The court is reserved or the match cancelled, once; the answer may      *)
(* come with it.                                                           *)
Act(w) ==
    /\ Open(w) /\ asked[w] # "look" /\ effect[w] = "none"
    /\ effect' = [effect EXCEPT ![w] = "acted"]
    /\ \/ UNCHANGED answer
       \/ asked[w] = "cancel" /\ answer' = [answer EXCEPT ![w] = "ok"]
       \/ answer' = [answer EXCEPT ![w] = "error"]
    /\ UNCHANGED asked

Pay(w) ==
    /\ Open(w) /\ asked[w] = "book" /\ effect[w] = "acted"
    /\ effect' = [effect EXCEPT ![w] = "paid"]
    /\ \/ UNCHANGED answer
       \/ answer' = [answer EXCEPT ![w] = "error"]
    /\ UNCHANGED asked

Succeed(w) ==
    /\ Open(w) /\ effect[w] = Complete(asked[w])
    /\ answer' = [answer EXCEPT ![w] = "ok"]
    /\ UNCHANGED <<asked, effect>>

(* Several calls fail at once when the service stops.                      *)
Fail ==
    /\ \E S \in SUBSET {w \in Calls : Open(w)} :
           answer' = [w \in Calls |-> IF w \in S THEN "error" ELSE answer[w]]
    /\ UNCHANGED <<asked, effect>>

BookCallNext ==
    \/ Fail
    \/ \E w \in Calls : Ask(w) \/ Act(w) \/ Pay(w) \/ Succeed(w)

BookCallSpec == BookCallInit /\ [][BookCallNext]_bookVars
=============================================================================
