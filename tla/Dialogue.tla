------------------------------ MODULE Dialogue ------------------------------
(***************************************************************************)
(* All dialogues of one chat, side by side: several updates are handled at *)
(* once, a text goes to the first dialogue that waits for one, commands    *)
(* end dialogues while handlers still work on them.                        *)
(***************************************************************************)
EXTENDS GameDialogue, VenueDialogue, TLC

CONSTANTS h1, h2, g1, g2, v1, v2, v3, squash, tennis, c1, c2, t1

(* One venue with two sports, and two venues of one sport.                 *)
MCGroupOf == (v1 :> g1) @@ (v2 :> g2) @@ (v3 :> g2)
MCCourtsOf ==
    LET plays(a, b) == (squash :> a) @@ (tennis :> b)
    IN (v1 :> plays({c1}, {c2})) @@ (v2 :> plays({c1}, {})) @@ (v3 :> plays({c2}, {}))
GameTopics == {"newGame", "groupPick", "groupVenue"}
MCStarts ==
    {[topic |-> GameTopics, admin |-> {g1}, moves |-> 1],
     [topic |-> GameTopics, admin |-> {g2}, moves |-> 0],
     [topic |-> GameTopics, admin |-> {g1, g2}, moves |-> 0]}
    \cup [topic : {{"venueWizard"}, {"venueEdit", "sportEdit"},
                   {"credAdd", "daysEdit", "ptimeEdit"}}, admin : {{g1}}, moves : {1}]

vars == <<chatVars, game, venueVars>>

Init == ChatInit /\ VenueInit /\ game = NoGame

Next ==
    \/ \E h \in Handlers :
          \/ GameStep(h) /\ Unchanged
          \/ VenueStep(h) /\ game' = NoGame
          \/ Command(h) /\ game' = NoGame /\ Unchanged
    \/ (\E g \in Groups : MoveRights(g)) /\ game' = NoGame /\ Unchanged
    \/ OwnerDecides /\ game' = NoGame

Spec == Init /\ [][Next]_vars

(* Handlers of equal standing.                                             *)
HandlerSymmetry == Permutations(Handlers)
=============================================================================
