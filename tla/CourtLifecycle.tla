--------------------------- MODULE CourtLifecycle ---------------------------
(***************************************************************************)
(* The life of one game date: the cron polls run their jobs in order, the  *)
(* admins send requests, the players come and go, the clock ticks, and the *)
(* process may be restarted or die of its own accord.                      *)
(***************************************************************************)
EXTENDS ReleaseFlow, BookingFlow

CONSTANT MaxRequests    \* bound: requests the admins send

ASSUME RequestsAssumption == MaxRequests \in Nat

VARIABLE requests       \* requests sent so far

vars == <<clockVars, at, bookVars, planVars, cooling, faultVars, rel, bkg, requests>>

Init == StateInit /\ ReleaseInit /\ BookInit /\ requests = 0

-----------------------------------------------------------------------------
(* Steps of the workers.                                                   *)

Poll(p) ==
    /\ PollStart(p)
    /\ UNCHANGED <<bookVars, planVars, cooling, faultVars, rel, bkg, requests>>

Release(w) == ReleaseStep(w) /\ UNCHANGED <<bkg, requests>>
Book(w) == BookingStep(w) /\ UNCHANGED <<rel, requests>>

Request ==
    /\ requests < MaxRequests
    /\ requests' = requests + 1
    /\ \/ \E w \in Admins : RemovalRequest(w) /\ UNCHANGED bkg
       \/ \E w \in Admins : BookingRequest(w) /\ UNCHANGED rel
       \/ EditRequest /\ UNCHANGED bkg
       \/ GameRequest /\ UNCHANGED rel

-----------------------------------------------------------------------------
(* The world around them.                                                  *)

(* Players press the buttons under a published game until it is closed.    *)
Attend(g, n) ==
    /\ Created(g) /\ game[g].published /\ ~game[g].completed
    /\ players' = [players EXCEPT ![g] = n]
    /\ UNCHANGED <<clockVars, at, bookVars, result, game, reminded, cooling,
                   faultVars, rel, bkg, requests>>
Join(g) == players[g] < MaxPlayers /\ Attend(g, players[g] + 1)
Leave(g) == players[g] > 0 /\ Attend(g, players[g] - 1)

CooldownExpires(k) ==
    /\ k \in cooling /\ cooling' = cooling \ {k}
    /\ UNCHANGED <<clockVars, at, bookVars, planVars, faultVars, rel, bkg, requests>>

Idle == \A p \in Pollers : at[p] = 0

Tick ==
    /\ now < Horizon
    /\ PollsKeepUp => polled /\ Idle
    /\ now' = now + 1 /\ polled' = FALSE
    /\ UNCHANGED <<at, bookVars, planVars, cooling, faultVars, rel, bkg, requests>>

-----------------------------------------------------------------------------
(* Restarts.  Nothing of a worker survives but what it wrote.              *)
Restart ==
    /\ at' = [p \in Pollers |-> 0]
    /\ rel' = [w \in Workers |-> IdleFrame]
    /\ bkg' = [w \in Workers |-> IdleBook]
    /\ UNCHANGED <<clockVars, bookVars, planVars, cooling, faults, requests>>

Crash ==
    /\ crashes < MaxCrashes
    /\ crashes' = crashes + 1
    /\ Restart /\ UNCHANGED panicked

(* No recover stands between a job and the end of the process.             *)
Panic(w) ==
    /\ DividesByZero(w)
    /\ panicked' = TRUE
    /\ Restart /\ UNCHANGED crashes

-----------------------------------------------------------------------------
Next ==
    \/ Tick
    \/ \E p \in Pollers : Poll(p)
    \/ \E w \in Workers : Release(w) \/ Book(w) \/ Panic(w)
    \/ Request
    \/ \E g \in Games : Join(g) \/ Leave(g)
    \/ \E k \in Creds : CooldownExpires(k)
    \/ Crash

Spec == Init /\ [][Next]_vars

(* The cron fires and the goroutines run on.  Nothing obliges a player, an *)
(* admin or a failure.                                                     *)
Fairness ==
    /\ WF_vars(Tick)
    /\ \A p \in Pollers : WF_vars(Poll(p))
    /\ \A w \in Workers : WF_vars(Release(w) \/ Book(w) \/ Panic(w))

FairSpec == Spec /\ Fairness

-----------------------------------------------------------------------------
(* Every table, every frame and every counter has its type.                *)
TypeOK == StateTypeOK /\ ReleaseTypeOK /\ BookTypeOK /\ requests \in Nat
=============================================================================
