--------------------------- MODULE Administration ---------------------------
(***************************************************************************)
(* The management service's administration: account and venue requests and *)
(* jobs at the same time.                                                  *)
(***************************************************************************)
EXTENDS VenueDesk, TLC

adminVars == <<requestVars, accountVars, deskVars>>

Init == RequestsInit /\ AccountsInit /\ DeskInit

Next ==
    \/ /\ (Around \/ \E r \in Requests : AccountRequest(r) \/ AccountStep(r))
       /\ UNCHANGED deskVars
    \/ /\ \E r \in Requests : DeskRequest(r) \/ DeskStep(r)
       /\ UNCHANGED accountVars

(* Requests, chats and users are alike.                                    *)
Alike == Permutations(Requests) \cup Permutations(Chats) \cup Permutations(KnownUsers)

Spec == Init /\ [][Next]_adminVars
=============================================================================
