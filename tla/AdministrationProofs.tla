------------------------ MODULE AdministrationProofs ------------------------
(***************************************************************************)
(* Proofs about administration, for any number of requests, users and      *)
(* faults: a server owner remains, a forbidden group is not booked, first  *)
(* logins agree, the rights cache does not go back, courts held can be     *)
(* given back, and the audit trail tells the history of the flag.          *)
(*                                                                         *)
(* That owners is not empty is not inductive: a revocation that counted    *)
(* two owners must still find the other one when it writes.  OwnerInv says *)
(* that it holds the lock from its count to its end, so that no other      *)
(* revocation writes in between, and that the other owner is there.  It    *)
(* also gives pc its type, which the other invariants use: each of them    *)
(* speaks of a few variables, and has one lemma for the steps that leave   *)
(* those alone.                                                            *)
(***************************************************************************)
EXTENDS Administration, FiniteSetTheorems, TLAPS

Revoking == {"count", "revoke"}
Elsewhere ==
    {"idle", "done", "find", "insert", "profile", "authorize", "target", "grant",
     "lockOwners", "lockFlag", "writeFlag", "audit", "cached", "join", "scan", "wait",
     "isOwner", "getGroup", "same", "set", "delete", "upsert", "checkGroup", "write",
     "check", "findVenue", "checkLogin", "insertCred", "group", "venue", "creds",
     "reserve", "save", "row", "cred", "cancel", "mark"}

OwnerTypeOK ==
    /\ pc \in [Requests -> Revoking \cup Elsewhere]
    /\ req = [r \in Requests |-> req[r]]
    /\ user = [r \in Requests |-> user[r]]

LockHeld == \A r \in Requests : pc[r] \in Revoking => ownerLock = r
OtherOwner ==
    \A r \in Requests : pc[r] = "revoke" => \E u \in owners : u # Target(r)

OwnerInv == OwnerTypeOK /\ OwnerRemains /\ LockHeld /\ OtherOwner

-----------------------------------------------------------------------------
(* Most steps have nothing to do with owners.                              *)

MovesOn(r) ==
    /\ \E l \in Elsewhere : pc' = [pc EXCEPT ![r] = l]
    /\ req' = req

(* A step of r that neither takes part in a revocation nor touches owners. *)
Aside(r) ==
    /\ MovesOn(r)
    /\ UNCHANGED <<user, owners, ownerLock>>

LEMMA AsideKeeps ==
    ASSUME OwnerInv, NEW r \in Requests, Aside(r)
    PROVE  OwnerInv'
<1>1. PICK l \in Elsewhere : pc' = [pc EXCEPT ![r] = l]
  BY DEF Aside, MovesOn
<1>2. OwnerTypeOK'
  BY <1>1 DEF OwnerInv, OwnerTypeOK, Aside, MovesOn, Revoking, Elsewhere
<1>3. \A s \in Requests : pc'[s] \in Revoking => pc[s] = pc'[s]
  BY <1>1 DEF OwnerInv, OwnerTypeOK, Revoking, Elsewhere
<1>4. \A s \in Requests : Target(s)' = Target(s)
  BY DEF Target, Aside, MovesOn
<1> QED BY <1>2, <1>3, <1>4
        DEF OwnerInv, OwnerRemains, LockHeld, OtherOwner, Aside, Revoking, Elsewhere

LEMMA RequestsAreAside ==
    ASSUME OwnerInv, NEW r \in Requests, NEW l \in Elsewhere, NEW what,
           Receive(r, what, l), UNCHANGED <<user, owners, ownerLock>>
    PROVE  OwnerInv'
<1>1. pc' = [pc EXCEPT ![r] = l] /\ req' = [req EXCEPT ![r] = what] /\ pc[r] = "idle"
  BY DEF Receive
<1>2. OwnerTypeOK'
  BY <1>1 DEF OwnerInv, OwnerTypeOK, Revoking, Elsewhere
<1>3. \A s \in Requests : pc'[s] \in Revoking => s # r /\ pc[s] = pc'[s]
  BY <1>1 DEF OwnerInv, OwnerTypeOK, Revoking, Elsewhere
<1>4. \A s \in Requests : s # r => Target(s)' = Target(s)
  BY <1>1 DEF Target, OwnerInv, OwnerTypeOK, Revoking, Elsewhere
<1> QED BY <1>2, <1>3, <1>4
        DEF OwnerInv, OwnerRemains, LockHeld, OtherOwner, Revoking, Elsewhere

LEMMA DeskRequestsAreAside ==
    ASSUME OwnerInv, NEW r \in Requests, DeskRequest(r), UNCHANGED accountVars
    PROVE  OwnerInv'
<1>1. UNCHANGED <<user, owners, ownerLock>>
  BY DEF accountVars
<1>2. \A l \in {"isOwner", "delete", "upsert", "checkGroup", "check", "findVenue",
                "row", "group"} : l \in Elsewhere
  BY DEF Revoking, Elsewhere
<1> QED BY <1>1, <1>2, RequestsAreAside DEF DeskRequest

LEMMA AccountRequestsAreAside ==
    ASSUME OwnerInv, NEW r \in Requests, AccountRequest(r)
    PROVE  OwnerInv'
<1>1. \A l \in {"find", "authorize", "cached"} : l \in Elsewhere
  BY DEF Revoking, Elsewhere
<1>2. CASE \E e \in Logins : LogIn(r, e) \/ Seed(r, e)
  BY <1>1, <1>2, RequestsAreAside DEF LogIn, Seed, accountVars
<1>3. CASE \E a, u \in KnownUsers, on \in BOOLEAN : SetUserServerOwner(r, a, u, on)
  BY <1>1, <1>3, RequestsAreAside DEF SetUserServerOwner, accountVars
<1>4. CASE \E a \in KnownUsers, v \in Overrides : SetFeatureFlag(r, a, v)
  BY <1>1, <1>4, RequestsAreAside DEF SetFeatureFlag, accountVars
<1>5. CASE AdminGroupsFor(r)
  BY <1>1, <1>5, RequestsAreAside DEF AdminGroupsFor, accountVars
<1> QED BY <1>2, <1>3, <1>4, <1>5 DEF AccountRequest

LEMMA ChecksMoveOn ==
    ASSUME NEW r \in Requests, NEW op, NEW l, NEW passes \in BOOLEAN,
           NEW n \in Elsewhere, Check(r, op, l, passes, n)
    PROVE  MovesOn(r)
BY DEF Check, Goto, Respond, MovesOn, Revoking, Elsewhere

LEMMA WritesMoveOn ==
    ASSUME NEW r \in Requests, Respond(r, "ok") \/ Respond(r, "error")
    PROVE  MovesOn(r)
BY DEF Respond, MovesOn, Revoking, Elsewhere

(* No request about the venue desk touches owners.                         *)
LEMMA DeskStepsMoveOn ==
    ASSUME NEW r \in Requests, DeskStep(r)
    PROVE  MovesOn(r)
<1>1. CASE AllowCheck(r)
  BY <1>1 DEF AllowCheck, Check, Goto, Respond, MovesOn, Revoking, Elsewhere
<1>2. CASE SetAutoBookingAllowed(r) \/ RemoveGroup(r) \/ UpsertGroup(r)
           \/ CreateVenue(r) \/ UpdateVenue(r) \/ DeleteVenue(r)
  BY <1>2, WritesMoveOn
     DEF SetAutoBookingAllowed, RemoveGroup, UpsertGroup, CreateVenue, UpdateVenue,
         DeleteVenue, Accepted, Denied
<1>3. CASE InsertCred(r) \/ DeleteCred(r) \/ SaveRow(r) \/ MarkCanceled(r)
  BY <1>3, WritesMoveOn
     DEF InsertCred, DeleteCred, SaveRow, MarkCanceled, Accepted, Denied
<1>4. CASE CheckGroup(r) \/ LookAtVenue(r) \/ FindVenue(r) \/ CheckLogin(r)
           \/ LookAtCred(r)
  BY <1>4 DEF CheckGroup, LookAtVenue, FindVenue, CheckLogin, LookAtCred, Check,
              Goto, Respond, MovesOn, Revoking, Elsewhere
<1>5. CASE JobReads(r) \/ ListForBooking(r) \/ FindRow(r) \/ GetCred(r)
  BY <1>5 DEF JobReads, ListForBooking, FindRow, GetCred, Check, Goto, Respond,
              MovesOn, Revoking, Elsewhere
<1>6. CASE \E c \in Creds : Reserve(r, c)
  BY <1>6 DEF Reserve, Goto, Respond, MovesOn, Revoking, Elsewhere
<1>7. CASE CancelMatch(r)
  BY <1>7 DEF CancelMatch, Goto, Respond, MovesOn, Revoking, Elsewhere
<1> QED BY <1>1, <1>2, <1>3, <1>4, <1>5, <1>6, <1>7 DEF DeskStep

-----------------------------------------------------------------------------
(* The steps of accounts.                                                  *)

LEMMA IdentityStep ==
    ASSUME OwnerInv, NEW r \in Requests,
           FindIdentity(r) \/ InsertIdentity(r) \/ CommitIdentity(r)
    PROVE  OwnerInv'
<1>1. CASE FindIdentity(r)
  <2>1. Aside(r)
    BY <1>1 DEF FindIdentity, Goto, Respond, Aside, MovesOn, Revoking, Elsewhere, accountVars
  <2> QED BY <2>1, AsideKeeps
<1>2. CASE InsertIdentity(r)
  <2>1. Aside(r)
    BY <1>2 DEF InsertIdentity, Goto, Respond, Aside, MovesOn, Revoking, Elsewhere, ownerVars
  <2> QED BY <2>1, AsideKeeps
<1>3. CASE CommitIdentity(r)
  <2>1. MovesOn(r) /\ UNCHANGED <<owners, ownerLock>>
    BY <1>3 DEF CommitIdentity, Goto, Respond, MovesOn, Revoking, Elsewhere, ownerVars
  <2>2. \A s \in Requests : s # r => user'[s] = user[s]
    BY <1>3 DEF CommitIdentity, OwnerInv, OwnerTypeOK, Revoking, Elsewhere
  <2>3. user' = [s \in Requests |-> user'[s]]
    BY <1>3 DEF CommitIdentity, OwnerInv, OwnerTypeOK, Revoking, Elsewhere
  <2>4. PICK l \in Elsewhere : pc' = [pc EXCEPT ![r] = l]
    BY <2>1 DEF MovesOn
  <2>5. OwnerTypeOK'
    BY <2>1, <2>3, <2>4 DEF OwnerInv, OwnerTypeOK, MovesOn, Revoking, Elsewhere
  <2>6. \A s \in Requests : pc'[s] \in Revoking => s # r /\ pc[s] = pc'[s]
    BY <2>4 DEF OwnerInv, OwnerTypeOK, Revoking, Elsewhere
  <2>7. \A s \in Requests : s # r => Target(s)' = Target(s)
    BY <2>1, <2>2 DEF Target, MovesOn
  <2> QED BY <2>1, <2>5, <2>6, <2>7
          DEF OwnerInv, OwnerRemains, LockHeld, OtherOwner, Revoking, Elsewhere
<1> QED BY <1>1, <1>2, <1>3

LEMMA FlagAndRightsSteps ==
    ASSUME OwnerInv, NEW r \in Requests,
           \/ LockFlag(r) \/ WriteFlag(r) \/ AuditFlag(r)
           \/ ReadCache(r) \/ JoinScan(r) \/ (\E g \in Chats : ScanChat(r, g))
    PROVE  OwnerInv'
<1>1. CASE LockFlag(r) \/ WriteFlag(r) \/ AuditFlag(r)
  <2>1. Aside(r)
    BY <1>1 DEF LockFlag, WriteFlag, AuditFlag, Goto, Respond, Aside, MovesOn,
                Revoking, Elsewhere, identityVars, ownerVars
  <2> QED BY <2>1, AsideKeeps
<1>2. CASE ReadCache(r) \/ JoinScan(r) \/ (\E g \in Chats : ScanChat(r, g))
  <2>1. Aside(r)
    BY <1>2 DEF ReadCache, JoinScan, ScanChat, Goto, Respond, Aside, MovesOn,
                Revoking, Elsewhere, accountVars, identityVars, ownerVars
  <2> QED BY <2>1, AsideKeeps
<1> QED BY <1>1, <1>2

(* The end of a scan ends the requests that wait for it.                   *)
LEMMA ScanStep ==
    ASSUME OwnerInv, NEW r \in Requests, EndScan(r)
    PROVE  OwnerInv'
<1>1. /\ UNCHANGED <<req, user, owners, ownerLock>>
      /\ pc' = [s \in Requests |-> pc'[s]]
      /\ \A s \in Requests : pc'[s] = "done" \/ pc'[s] = pc[s]
  BY DEF EndScan, identityVars, ownerVars
<1>2. OwnerTypeOK'
  BY <1>1 DEF OwnerInv, OwnerTypeOK, Revoking, Elsewhere
<1>3. \A s \in Requests : pc'[s] \in Revoking => pc[s] = pc'[s]
  BY <1>1 DEF Revoking
<1>4. \A s \in Requests : Target(s)' = Target(s)
  BY <1>1 DEF Target
<1> QED BY <1>1, <1>2, <1>3, <1>4
        DEF OwnerInv, OwnerRemains, LockHeld, OtherOwner, Revoking, Elsewhere

(* Granting adds owners, and a revocation stays alone from its count on.   *)
LEMMA OwnerStep ==
    ASSUME OwnerInv, NEW r \in Requests,
           Authorize(r) \/ CheckTarget(r) \/ Grant(r) \/ LockOwners(r)
           \/ CountOwners(r) \/ Revoke(r)
    PROVE  OwnerInv'
<1>1. CASE Authorize(r) \/ CheckTarget(r)
  <2>1. Aside(r)
    BY <1>1 DEF Authorize, CheckTarget, Goto, Respond, Aside, MovesOn, Revoking, Elsewhere,
                accountVars
  <2> QED BY <2>1, AsideKeeps
<1>2. CASE Grant(r)
  <2>1. pc' = [pc EXCEPT ![r] = "done"] /\ UNCHANGED <<req, user, ownerLock>>
        /\ owners \subseteq owners'
    BY <1>2 DEF Grant, Respond, identityVars
  <2>2. OwnerTypeOK'
    BY <2>1 DEF OwnerInv, OwnerTypeOK, Revoking, Elsewhere
  <2>3. \A s \in Requests : pc'[s] \in Revoking => pc[s] = pc'[s]
    BY <2>1 DEF OwnerInv, OwnerTypeOK, Revoking, Elsewhere
  <2>4. \A s \in Requests : Target(s)' = Target(s)
    BY <2>1 DEF Target
  <2> QED BY <2>1, <2>2, <2>3, <2>4
          DEF OwnerInv, OwnerRemains, LockHeld, OtherOwner, Revoking, Elsewhere
<1>3. CASE LockOwners(r)
  <2>1. CASE ownerLock = NoReq /\ ownerLock' = r /\ Goto(r, "count")
    <3>1. pc' = [pc EXCEPT ![r] = "count"] /\ UNCHANGED <<req, user, owners>>
      BY <1>3, <2>1 DEF LockOwners, Goto, identityVars
    <3>2. \A s \in Requests : pc[s] \notin Revoking
      BY <2>1, RequestsAssumption DEF OwnerInv, LockHeld
    <3>3. \A s \in Requests : pc'[s] \in Revoking => s = r /\ pc'[s] = "count"
      BY <3>1, <3>2 DEF OwnerInv, OwnerTypeOK, Revoking, Elsewhere
    <3>4. OwnerTypeOK'
      BY <3>1 DEF OwnerInv, OwnerTypeOK, Revoking, Elsewhere
    <3> QED BY <2>1, <3>1, <3>3, <3>4
            DEF OwnerInv, OwnerRemains, LockHeld, OtherOwner, Revoking, Elsewhere
  <2>2. CASE Respond(r, "error") /\ UNCHANGED ownerLock
    <3>1. Aside(r)
      BY <1>3, <2>2 DEF LockOwners, Respond, Aside, MovesOn, Revoking, Elsewhere, identityVars
    <3> QED BY <3>1, AsideKeeps
  <2> QED BY <1>3, <2>1, <2>2 DEF LockOwners
<1>4. CASE CountOwners(r) \/ Revoke(r)
  <2>1. ownerLock = r /\ \A s \in Requests : pc[s] \in Revoking => s = r
    BY <1>4 DEF CountOwners, Revoke, OwnerInv, LockHeld, Revoking
  <2>2. PICK l \in {"done", "revoke"} : pc' = [pc EXCEPT ![r] = l]
    BY <1>4 DEF CountOwners, Revoke, Goto, Respond
  <2>3. UNCHANGED <<req, user>>
    BY <1>4 DEF CountOwners, Revoke, Goto, Respond, identityVars
  <2>4. OwnerTypeOK'
    BY <2>2, <2>3 DEF OwnerInv, OwnerTypeOK, Revoking, Elsewhere
  <2>5. \A s \in Requests : pc'[s] \in Revoking =>
            s = r /\ pc'[s] = "revoke" /\ l = "revoke"
    BY <2>1, <2>2 DEF OwnerInv, OwnerTypeOK, Revoking, Elsewhere
  <2>6. l = "revoke" => /\ CountOwners(r) /\ UNCHANGED <<owners, ownerLock>>
                        /\ owners # {Target(r)}
    BY <1>4, <2>2 DEF CountOwners, Revoke, Goto, Respond, OwnerInv, OwnerTypeOK, Revoking, Elsewhere
  <2>7. owners' # {}
    <3>1. CASE CountOwners(r)
      BY <3>1 DEF CountOwners, OwnerInv, OwnerRemains
    <3>2. CASE Revoke(r)
      <4>1. \E u \in owners : u # Target(r)
        BY <3>2 DEF Revoke, OwnerInv, OtherOwner
      <4> QED BY <3>2, <4>1 DEF Revoke, OwnerInv, OwnerRemains
    <3> QED BY <1>4, <3>1, <3>2
  <2>8. l = "revoke" => \E u \in owners' : u # Target(r)'
    BY <2>3, <2>6 DEF Target, OwnerInv, OwnerRemains
  <2> QED BY <2>1, <2>4, <2>5, <2>6, <2>7, <2>8
          DEF OwnerInv, OwnerRemains, LockHeld, OtherOwner, Revoking, Elsewhere
<1> QED BY <1>1, <1>2, <1>3, <1>4

-----------------------------------------------------------------------------
LEMMA OwnerInit == Init => OwnerInv
BY DEF Init, RequestsInit, AccountsInit, OwnerInv, OwnerTypeOK, OwnerRemains,
       LockHeld, OtherOwner, Revoking, Elsewhere

LEMMA OwnerNext == OwnerInv /\ [Next]_adminVars => OwnerInv'
<1> SUFFICES ASSUME OwnerInv, [Next]_adminVars PROVE OwnerInv'
  OBVIOUS
<1>1. CASE Around
  <2>1. UNCHANGED <<pc, req, user, owners, ownerLock>>
    BY <1>1 DEF Around, ExpireCache, ChangeRights, requestVars, identityVars, ownerVars
  <2> QED BY <2>1 DEF OwnerInv, OwnerTypeOK, OwnerRemains, LockHeld, OtherOwner, Target
<1>2. ASSUME NEW r \in Requests, AccountRequest(r) \/ AccountStep(r)
      PROVE  OwnerInv'
  BY <1>2, AccountRequestsAreAside, IdentityStep, FlagAndRightsSteps, ScanStep,
     OwnerStep DEF AccountStep
<1>3. ASSUME NEW r \in Requests, DeskRequest(r), UNCHANGED accountVars
      PROVE  OwnerInv'
  BY <1>3, DeskRequestsAreAside
<1>4. ASSUME NEW r \in Requests, DeskStep(r), UNCHANGED accountVars
      PROVE  OwnerInv'
  <2>1. Aside(r)
    BY <1>4, DeskStepsMoveOn DEF Aside, accountVars
  <2> QED BY <2>1, AsideKeeps
<1>5. CASE UNCHANGED adminVars
  <2>1. UNCHANGED <<pc, req, user, owners, ownerLock>>
    BY <1>5 DEF adminVars, requestVars, accountVars
  <2> QED BY <2>1 DEF OwnerInv, OwnerTypeOK, OwnerRemains, LockHeld, OtherOwner, Target
<1> QED BY <1>1, <1>2, <1>3, <1>4, <1>5 DEF Next

THEOREM OwnerInvariant == Spec => []OwnerInv
BY OwnerInit, OwnerNext, PTL DEF Spec

(* There is always a server owner: two revocations cannot both count the   *)
(* other's owner (user_repo.go, SetServerOwner).                           *)
THEOREM AnOwnerRemains == Spec => []OwnerRemains
<1>1. OwnerInv => OwnerRemains
  BY DEF OwnerInv
<1> QED BY <1>1, OwnerInvariant, PTL

-----------------------------------------------------------------------------
(* A group that is not allowed to book.                                    *)

(* A job begun while the group was not allowed ends at its first check,    *)
(* because the group stays as it is: allowing it excuses every job.        *)
BarredInv ==
    /\ barred \subseteq Requests
    /\ allowed => barred = {}
    /\ \A r \in barred : pc[r] \in {"group", "done"} /\ r \notin held
    /\ \A r \in Requests : r \in held => pc[r] \in {"save", "done"}

(* Account steps start at none of the booking job's steps.                 *)
LEMMA AccountStepsApart ==
    ASSUME OwnerInv, NEW r \in Requests, AccountStep(r)
    PROVE  \A s \in Requests :
               pc'[s] = pc[s] \/ pc[s] \notin {"idle", "group", "save", "done"}
<1>1. CASE FindIdentity(r) \/ InsertIdentity(r) \/ CommitIdentity(r)
  BY <1>1 DEF FindIdentity, InsertIdentity, CommitIdentity, Goto, Respond, OwnerInv,
              OwnerTypeOK
<1>2. CASE Authorize(r) \/ CheckTarget(r) \/ Grant(r) \/ LockOwners(r)
           \/ CountOwners(r) \/ Revoke(r)
  BY <1>2 DEF Authorize, CheckTarget, Grant, LockOwners, CountOwners, Revoke, Goto,
              Respond, OwnerInv, OwnerTypeOK
<1>3. CASE LockFlag(r) \/ WriteFlag(r) \/ AuditFlag(r)
  BY <1>3 DEF LockFlag, WriteFlag, AuditFlag, Goto, Respond, OwnerInv, OwnerTypeOK
<1>4. CASE ReadCache(r) \/ JoinScan(r) \/ (\E g \in Chats : ScanChat(r, g))
           \/ EndScan(r)
  BY <1>4 DEF ReadCache, JoinScan, ScanChat, EndScan, Goto, Respond, OwnerInv,
              OwnerTypeOK
<1> QED BY <1>1, <1>2, <1>3, <1>4 DEF AccountStep

LEMMA DeskUnchangedKeeps ==
    ASSUME BarredInv, UNCHANGED deskVars,
           \A s \in Requests :
               pc'[s] = pc[s] \/ pc[s] \notin {"group", "save", "done"}
    PROVE  BarredInv'
BY DEF BarredInv, deskVars

LEMMA OtherCallsStay ==
    ASSUME OwnerInv, NEW r \in Requests, MovesOn(r)
    PROVE  \A s \in Requests : s # r => pc'[s] = pc[s]
BY DEF OwnerInv, OwnerTypeOK, MovesOn

LEMMA BarredRequest ==
    ASSUME OwnerInv, BarredInv, NEW r \in Requests, DeskRequest(r)
    PROVE  BarredInv'
<1>1. CASE UNCHANGED deskVars /\ \E what, l : Receive(r, what, l)
  BY <1>1, DeskUnchangedKeeps DEF Receive, OwnerInv, OwnerTypeOK
<1>2. CASE /\ Receive(r, [op |-> "book"], "group")
           /\ barred' = (IF allowed THEN barred ELSE barred \cup {r})
           /\ UNCHANGED <<allowed, held>>
  <2>1. /\ \A s \in Requests : s # r => pc'[s] = pc[s]
        /\ pc[r] = "idle" /\ pc'[r] = "group"
    BY <1>2 DEF Receive, OwnerInv, OwnerTypeOK
  <2>2. r \notin held
    BY <2>1 DEF BarredInv
  <2> QED BY <1>2, <2>1, <2>2 DEF BarredInv
<1> QED BY <1>1, <1>2 DEF DeskRequest, bookingVars

LEMMA BarredStep ==
    ASSUME OwnerInv, BarredInv, NEW r \in Requests, DeskStep(r)
    PROVE  BarredInv'
<1>1. \A s \in Requests : s # r => pc'[s] = pc[s]
  BY DeskStepsMoveOn, OtherCallsStay
(* What is left of the action when r is not a job at its first or last step. *)
<1>2. ASSUME pc[r] \notin {"group", "save", "done"}, barred' = barred,
             allowed' => allowed, held' \subseteq held
      PROVE  BarredInv'
  BY <1>1, <1>2 DEF BarredInv
<1>3. CASE AllowCheck(r) \/ CheckGroup(r) \/ LookAtVenue(r) \/ FindVenue(r)
           \/ CheckLogin(r) \/ LookAtCred(r)
  BY <1>2, <1>3 DEF AllowCheck, CheckGroup, LookAtVenue, FindVenue, CheckLogin,
                    LookAtCred, Check, At, Look, Reads, deskVars, bookingVars
<1>4. CASE RemoveGroup(r) \/ UpsertGroup(r) \/ CreateVenue(r) \/ UpdateVenue(r)
           \/ DeleteVenue(r)
  BY <1>2, <1>4 DEF RemoveGroup, UpsertGroup, CreateVenue, UpdateVenue, DeleteVenue,
                    Accepted, Denied, At, deskVars, jobVars, bookingVars
<1>5. CASE InsertCred(r) \/ DeleteCred(r)
  BY <1>2, <1>5 DEF InsertCred, DeleteCred, Accepted, Denied, At, deskVars, jobVars,
                    bookingVars
<1>6. CASE ListForBooking(r) \/ FindRow(r) \/ GetCred(r)
  BY <1>2, <1>6 DEF ListForBooking, FindRow, GetCred, Check, At, Reads, deskVars,
                    bookingVars
<1>7. CASE CancelMatch(r) \/ MarkCanceled(r)
  BY <1>2, <1>7 DEF CancelMatch, MarkCanceled, Accepted, Denied, At, deskVars, jobVars
<1>8. CASE SetAutoBookingAllowed(r)
  <2>1. CASE Denied(r, "allow", "set", group)
    BY <1>2, <2>1 DEF Denied, At, deskVars
  <2>2. CASE /\ Accepted(r, "allow", "set") /\ allowed' = req[r].on
             /\ barred' = (IF req[r].on THEN {} ELSE barred)
             /\ held' = held
    BY <1>1, <2>2 DEF Accepted, At, BarredInv
  <2> QED BY <1>8, <2>1, <2>2 DEF SetAutoBookingAllowed, bookingVars
<1>9. CASE JobReads(r)
  <2>1. UNCHANGED <<allowed, barred, held>>
    BY <1>9 DEF JobReads, Reads, deskVars
  <2>2. CASE Check(r, "book", "venue", venue /\ auto, "creds")
    BY <1>2, <2>1, <2>2 DEF Check, At
  <2>3. CASE Check(r, "book", "group", group /\ allowed, "venue")
    <3>1. r \notin held
      BY <2>3 DEF Check, At, BarredInv
    <3>2. r \in barred => pc'[r] = "done"
      BY <2>3 DEF Check, At, Goto, Respond, BarredInv, OwnerInv, OwnerTypeOK
    <3> QED BY <1>1, <2>1, <3>1, <3>2 DEF BarredInv
  <2> QED BY <1>9, <2>2, <2>3 DEF JobReads
<1>10. CASE \E c \in Creds : Reserve(r, c)
  <2>1. pc[r] = "reserve" /\ UNCHANGED <<allowed, barred>>
    BY <1>10 DEF Reserve, At
  <2>2. CASE held' = held \cup {r} /\ pc'[r] = "save"
    BY <1>1, <2>1, <2>2 DEF BarredInv
  <2>3. CASE held' = held
    BY <1>2, <2>1, <2>3
  <2> QED BY <1>10, <2>2, <2>3 DEF Reserve, Goto, OwnerInv, OwnerTypeOK
<1>11. CASE SaveRow(r)
  <2>1. pc[r] = "save" /\ pc'[r] = "done" /\ UNCHANGED <<allowed, barred, held>>
    BY <1>11 DEF SaveRow, Accepted, Denied, At, Respond, deskVars, jobVars, OwnerInv,
                 OwnerTypeOK
  <2> QED BY <1>1, <2>1 DEF BarredInv
<1> QED BY <1>3, <1>4, <1>5, <1>6, <1>7, <1>8, <1>9, <1>10, <1>11 DEF DeskStep

LEMMA BarredNext ==
    ASSUME OwnerInv, BarredInv, [Next]_adminVars
    PROVE  BarredInv'
<1>1. CASE Around /\ UNCHANGED deskVars
  BY <1>1, DeskUnchangedKeeps DEF Around, ExpireCache, ChangeRights, requestVars
<1>2. ASSUME NEW r \in Requests, AccountRequest(r), UNCHANGED deskVars
      PROVE  BarredInv'
  <2>1. pc[r] = "idle" /\ \E l : pc' = [pc EXCEPT ![r] = l]
    BY <1>2 DEF AccountRequest, LogIn, Seed, SetUserServerOwner, SetFeatureFlag,
                AdminGroupsFor, Receive
  <2> QED BY <1>2, <2>1, DeskUnchangedKeeps DEF OwnerInv, OwnerTypeOK
<1>3. ASSUME NEW r \in Requests, AccountStep(r), UNCHANGED deskVars
      PROVE  BarredInv'
  BY <1>3, AccountStepsApart, DeskUnchangedKeeps
<1>4. ASSUME NEW r \in Requests, DeskRequest(r) \/ DeskStep(r)
      PROVE  BarredInv'
  BY <1>4, BarredRequest, BarredStep
<1>5. CASE UNCHANGED adminVars
  BY <1>5, DeskUnchangedKeeps DEF adminVars, requestVars
<1> QED BY <1>1, <1>2, <1>3, <1>4, <1>5 DEF Next

LEMMA BarredInit == Init => BarredInv
BY DeskAssumption DEF Init, RequestsInit, DeskInit, BarredInv

(* A job begun while its group was not allowed reserves nothing, whatever  *)
(* the venue's own flag says by then (auto_booking.go, runAutoBooking).    *)
THEOREM DisallowedIsNotBooked == Spec => []DisallowedGroupIsNotBooked
<1>1. BarredInv => DisallowedGroupIsNotBooked
  BY DEF BarredInv, DisallowedGroupIsNotBooked
<1>2. OwnerInv /\ BarredInv /\ [Next]_adminVars => BarredInv'
  BY BarredNext
<1> QED BY <1>1, <1>2, BarredInit, OwnerInvariant, PTL DEF Spec

-----------------------------------------------------------------------------
(* First logins.                                                           *)

(* Where a login or a seed deals with the identity.                        *)
IdentityPcs == {"find", "insert", "profile"}

LoginTypeOK ==
    /\ identity \in [Logins -> Users \cup {Nobody}]
    /\ inserting \in [Logins -> Requests \cup {NoReq}]
    /\ tries \in [Requests -> Nat] /\ user \in [Requests -> Users \cup {Nobody}]
    /\ answer \in [Requests -> {"none", "ok", "refused", "error"}]
    /\ faults \in Nat

LoginPlaces ==
    \A r \in Requests :
        /\ pc[r] \in IdentityPcs => req[r].op \in {"login", "seed"} /\ req[r].who \in Logins
        /\ req[r].op = "login" => pc[r] \in IdentityPcs \cup {"done"}

(* An uncommitted row is the only one of its key, and its transaction has  *)
(* yet to commit.                                                          *)
InsertersCommit ==
    \A e \in Logins : inserting[e] # NoReq =>
        identity[e] = Nobody /\ pc[inserting[e]] = "profile" /\ req[inserting[e]].who = e

(* Who lost the race finds the winner's row: one attempt is lost at most.  *)
OneAttemptIsLost ==
    \A r \in Requests :
        /\ pc[r] \in {"idle", "insert"} => tries[r] = 0
        /\ pc[r] = "find" => tries[r] = 0 \/ (tries[r] = 1 /\ identity[req[r].who] # Nobody)
        /\ pc[r] = "profile" => inserting[req[r].who] = r \/ identity[req[r].who] # Nobody

LoginsAreAnswered ==
    \A r \in Requests :
        pc[r] = "done" /\ req[r].op = "login" /\ faults = 0 =>
            /\ answer[r] = "ok" /\ user[r] = identity[req[r].who]
            /\ identity[req[r].who] # Nobody /\ req[r].who \in Logins

LoginInv ==
    LoginTypeOK /\ LoginPlaces /\ InsertersCommit /\ OneAttemptIsLost /\ LoginsAreAnswered

(* Requests that are elsewhere move among themselves.                      *)
LEMMA LoginAside ==
    ASSUME LoginInv, UNCHANGED <<identityVars, req>>, faults' \in Nat, faults' >= faults,
           answer' \in [Requests -> {"none", "ok", "refused", "error"}],
           \A s \in Requests :
               \/ pc'[s] = pc[s] /\ answer'[s] = answer[s]
               \/ pc[s] \notin IdentityPcs \cup {"done"} /\ pc'[s] \notin IdentityPcs \cup {"idle"}
    PROVE  LoginInv'
<1> USE DEF LoginInv, identityVars
<1>1. LoginTypeOK' /\ LoginPlaces'
  BY DEF LoginTypeOK, LoginPlaces
<1>2. InsertersCommit'
  BY RequestsAssumption DEF InsertersCommit, LoginTypeOK, IdentityPcs, RequestsAssumption
<1>3. OneAttemptIsLost'
  BY DEF OneAttemptIsLost, IdentityPcs
<1>4. LoginsAreAnswered'
  BY DEF LoginsAreAnswered, LoginPlaces, LoginTypeOK
<1> QED
  BY <1>1, <1>2, <1>3, <1>4

(* A request comes in: logins and seeds start at the identity.             *)
LEMMA LoginRequest ==
    ASSUME OwnerInv, LoginInv, NEW r \in Requests, NEW what, NEW l,
           Receive(r, what, l), UNCHANGED identityVars,
           \/ what.op \in {"login", "seed"} /\ what.who \in Logins /\ l = "find"
           \/ what.op # "login" /\ l \notin IdentityPcs \cup {"idle", "done"}
    PROVE  LoginInv'
<1> USE DEF LoginInv, identityVars
<1>1. /\ pc[r] = "idle" /\ pc'[r] = l /\ req'[r] = what /\ UNCHANGED <<answer, faults>>
      /\ \A s \in Requests : s # r => pc'[s] = pc[s] /\ req'[s] = req[s]
  BY DEF Receive, OwnerInv, OwnerTypeOK
<1>2. LoginTypeOK' /\ LoginPlaces'
  BY <1>1 DEF LoginTypeOK, LoginPlaces, IdentityPcs
<1>3. InsertersCommit'
  BY <1>1, RequestsAssumption DEF InsertersCommit, LoginTypeOK, RequestsAssumption
<1>4. OneAttemptIsLost'
  BY <1>1 DEF OneAttemptIsLost, IdentityPcs
<1>5. LoginsAreAnswered'
  BY <1>1 DEF LoginsAreAnswered, IdentityPcs
<1> QED
  BY <1>2, <1>3, <1>4, <1>5

(* Each step that deals with an identity.                                  *)
LEMMA LoginIdentityStep ==
    ASSUME OwnerInv, LoginInv, NEW r \in Requests,
           FindIdentity(r) \/ InsertIdentity(r) \/ CommitIdentity(r)
    PROVE  LoginInv'
<1> DEFINE e == req[r].who
<1> USE DEF LoginInv, Goto, Respond, Works, Fails
<1>1. /\ pc[r] \in IdentityPcs /\ e \in Logins /\ req' = req /\ faults' \in {faults, faults + 1}
      /\ req[r].op \in {"login", "seed"} /\ faults \in Nat
      /\ \A s \in Requests : s # r => pc'[s] = pc[s] /\ answer'[s] = answer[s]
      /\ answer' \in [Requests -> {"none", "ok", "refused", "error"}]
  BY DEF FindIdentity, InsertIdentity, CommitIdentity, IdentityPcs, LoginPlaces, OwnerInv,
         OwnerTypeOK, LoginTypeOK
<1>2. /\ r # NoReq /\ r # Nobody /\ r \in Users
  BY RequestsAssumption, AccountsAssumption DEF RequestsAssumption, AccountsAssumption, Users
<1>3. CASE FindIdentity(r)
  <2>1. /\ UNCHANGED identityVars /\ pc[r] = "find"
        /\ \/ /\ pc'[r] = (IF identity[e] = Nobody THEN "insert" ELSE "profile")
              /\ faults' = faults
           \/ pc'[r] = "done" /\ faults' # 0
    BY <1>1, <1>3 DEF FindIdentity, accountVars, identityVars, OwnerInv, OwnerTypeOK
  <2>2. LoginTypeOK' /\ LoginPlaces'
    BY <1>1, <2>1 DEF LoginTypeOK, LoginPlaces, IdentityPcs, identityVars
  <2>3. InsertersCommit'
    BY <1>1, <2>1 DEF InsertersCommit, LoginTypeOK, identityVars
  <2>4. OneAttemptIsLost'
    BY <1>1, <2>1 DEF OneAttemptIsLost, identityVars
  <2>5. LoginsAreAnswered'
    BY <1>1, <2>1 DEF LoginsAreAnswered, identityVars
  <2> QED
    BY <2>2, <2>3, <2>4, <2>5
<1>4. CASE InsertIdentity(r)
  <2>1. /\ UNCHANGED <<identity, user>> /\ pc[r] = "insert" /\ inserting[e] = NoReq /\ tries[r] = 0
        /\ \A s \in Requests : s # r => tries'[s] = tries[s]
        /\ tries' \in [Requests -> Nat]
    BY <1>1, <1>4 DEF InsertIdentity, OneAttemptIsLost, LoginTypeOK
  <2>2. \/ /\ identity[e] = Nobody /\ inserting' = [inserting EXCEPT ![e] = r]
           /\ pc'[r] = "profile" /\ tries'[r] = 0
        \/ /\ identity[e] # Nobody /\ inserting' = inserting
           /\ pc'[r] = "find" /\ tries'[r] = 1
        \/ inserting' = inserting /\ pc'[r] = "done" /\ faults' # 0
    BY <1>1, <1>4, <2>1
       DEF InsertIdentity, MaxAttempts, LoginTypeOK, OwnerInv, OwnerTypeOK
  <2>3. /\ \A d \in Logins : d # e => inserting'[d] = inserting[d]
        /\ inserting'[e] \in {NoReq, r}
        /\ inserting'[e] = r <=> pc'[r] = "profile"
    BY <1>1, <1>2, <2>1, <2>2 DEF LoginTypeOK
  <2>4. LoginTypeOK' /\ LoginPlaces'
    <3>1. inserting' \in [Logins -> Requests \cup {NoReq}]
      BY <2>2 DEF LoginTypeOK
    <3> QED
      BY <1>1, <2>1, <2>2, <3>1 DEF LoginTypeOK, LoginPlaces, IdentityPcs
  <2>5. InsertersCommit'
    BY <1>1, <2>1, <2>2, <2>3 DEF InsertersCommit, LoginTypeOK
  <2>6. OneAttemptIsLost'
    <3>1. ASSUME NEW s \in Requests, s # r, pc[s] = "profile"
          PROVE  inserting'[req[s].who] = s \/ identity[req[s].who] # Nobody
      <4>1. req[s].who \in Logins /\ s # NoReq
        BY <3>1, RequestsAssumption DEF LoginPlaces, IdentityPcs, RequestsAssumption
      <4> QED
        BY <2>1, <2>3, <3>1, <4>1 DEF OneAttemptIsLost
    <3>2. pc'[r] = "profile" => inserting'[e] = r
      BY <2>3
    <3>3. pc'[r] = "find" => tries'[r] = 1 /\ identity[e] # Nobody
      BY <2>2
    <3>4. pc'[r] \in {"find", "profile", "done"}
      BY <2>2
    <3>5. ASSUME NEW s \in Requests, s # r
          PROVE  pc'[s] = pc[s] /\ tries'[s] = tries[s]
      BY <1>1, <2>1, <3>5
    <3> QED
      BY <1>1, <2>1, <3>1, <3>2, <3>3, <3>4, <3>5 DEF OneAttemptIsLost
  <2>7. LoginsAreAnswered'
    BY <1>1, <2>1, <2>2 DEF LoginsAreAnswered
  <2> QED
    BY <2>4, <2>5, <2>6, <2>7
<1>5. CASE CommitIdentity(r)
  <2> DEFINE u == IF inserting[e] = r THEN r ELSE identity[e]
  <2>1. /\ pc[r] = "profile" /\ u # Nobody /\ u \in Users /\ tries' = tries
        /\ inserting[e] = r => identity[e] = Nobody
    BY <1>1, <1>2, <1>5
       DEF CommitIdentity, OneAttemptIsLost, InsertersCommit, LoginTypeOK
  <2> HIDE DEF u
  <2>2. /\ inserting' = [inserting EXCEPT ![e] = IF @ = r THEN NoReq ELSE @]
        /\ \/ /\ identity' = [identity EXCEPT ![e] = u] /\ user' = [user EXCEPT ![r] = u]
              /\ \/ req[r].op = "seed" /\ pc'[r] = "grant"
                 \/ pc'[r] = "done" /\ answer'[r] = "ok"
           \/ UNCHANGED <<identity, user>> /\ pc'[r] = "done" /\ faults' # 0
    BY <1>1, <1>5 DEF CommitIdentity, u, OwnerInv, OwnerTypeOK, LoginTypeOK
  <2>3. /\ \A d \in Logins : d # e => inserting'[d] = inserting[d] /\ identity'[d] = identity[d]
        /\ inserting'[e] # r /\ inserting'[e] \in {inserting[e], NoReq}
        /\ identity'[e] \in {identity[e], u}
        /\ \A s \in Requests : s # r => user'[s] = user[s]
    BY <1>1, <1>2, <2>2 DEF LoginTypeOK
  <2>4. identity[e] # Nobody => identity'[e] = identity[e]
    BY <2>1, <2>3 DEF u
  <2>5. LoginTypeOK' /\ LoginPlaces'
    <3>1. LoginTypeOK'
      BY <1>1, <2>1, <2>2 DEF LoginTypeOK
    <3> QED
      BY <1>1, <2>2, <3>1 DEF LoginPlaces, IdentityPcs
  <2>6. InsertersCommit'
    <3>1. ASSUME NEW d \in Logins, inserting'[d] # NoReq
          PROVE  inserting[d] = inserting'[d] /\ inserting[d] # r /\ identity'[d] = Nobody
      <4>1. inserting[d] = inserting'[d] /\ identity[d] = Nobody
        BY <2>3, <3>1 DEF InsertersCommit
      <4>2. inserting[d] # r
        BY <2>3, <3>1, <4>1 DEF InsertersCommit
      <4>3. d # e
        BY <1>1, <2>1, <3>1, <4>1, <4>2 DEF OneAttemptIsLost
      <4> QED
        BY <2>3, <4>1, <4>2, <4>3
    <3> QED
      BY <1>1, <3>1 DEF InsertersCommit, LoginTypeOK
  <2>7. OneAttemptIsLost'
    <3>1. \A s \in Requests : pc[s] \in IdentityPcs => req[s].who \in Logins
      BY DEF LoginPlaces
    <3>2. \A s \in Requests : s # r /\ pc[s] = "profile" => 
            inserting'[req[s].who] = s \/ identity'[req[s].who] # Nobody
      BY <1>1, <2>2, <2>3, <2>4, <3>1 DEF OneAttemptIsLost, IdentityPcs, LoginTypeOK
    <3>3. \A s \in Requests : s # r /\ pc[s] = "find" =>
            tries[s] = 0 \/ (tries[s] = 1 /\ identity'[req[s].who] # Nobody)
      BY <2>3, <2>4, <3>1 DEF OneAttemptIsLost, IdentityPcs
    <3> QED
      BY <1>1, <2>1, <2>2, <3>2, <3>3 DEF OneAttemptIsLost
  <2>8. LoginsAreAnswered'
    <3>1. ASSUME NEW s \in Requests, s # r, pc'[s] = "done", req[s].op = "login", faults' = 0
          PROVE  /\ answer'[s] = "ok" /\ user'[s] = identity'[req[s].who]
                 /\ identity'[req[s].who] # Nobody /\ req[s].who \in Logins
      BY <1>1, <2>3, <2>4, <3>1 DEF LoginsAreAnswered
    <3>2. ASSUME pc'[r] = "done", req[r].op = "login", faults' = 0
          PROVE  /\ answer'[r] = "ok" /\ user'[r] = identity'[e]
                 /\ identity'[e] # Nobody /\ e \in Logins
      BY <1>1, <2>1, <2>2, <3>2 DEF LoginTypeOK
    <3> QED
      BY <1>1, <3>1, <3>2 DEF LoginsAreAnswered
  <2> QED
    BY <2>5, <2>6, <2>7, <2>8
<1> QED
  BY <1>3, <1>4, <1>5

(* The other requests and steps.                                           *)
LEMMA LoginAccountRequest ==
    ASSUME OwnerInv, LoginInv, NEW r \in Requests, AccountRequest(r)
    PROVE  LoginInv'
<1>1. \A l \in {"authorize", "cached"} : l \notin IdentityPcs \cup {"idle", "done"}
  BY DEF IdentityPcs
<1>2. ASSUME NEW d \in Logins, LogIn(r, d) \/ Seed(r, d)
      PROVE  LoginInv'
  BY <1>2, LoginRequest DEF LogIn, Seed, accountVars, identityVars
<1>3. ASSUME NEW a \in KnownUsers, NEW u \in KnownUsers, NEW on \in BOOLEAN,
             SetUserServerOwner(r, a, u, on)
      PROVE  LoginInv'
  BY <1>1, <1>3, LoginRequest DEF SetUserServerOwner, accountVars, identityVars
<1>4. ASSUME NEW a \in KnownUsers, NEW v \in Overrides, SetFeatureFlag(r, a, v)
      PROVE  LoginInv'
  BY <1>1, <1>4, LoginRequest DEF SetFeatureFlag, accountVars, identityVars
<1>5. CASE AdminGroupsFor(r)
  BY <1>1, <1>5, LoginRequest DEF AdminGroupsFor, accountVars, identityVars
<1> QED
  BY <1>2, <1>3, <1>4, <1>5 DEF AccountRequest

LEMMA LoginDeskRequest ==
    ASSUME OwnerInv, LoginInv, NEW r \in Requests, DeskRequest(r), UNCHANGED accountVars
    PROVE  LoginInv'
<1>1. UNCHANGED identityVars
  BY DEF accountVars, identityVars
<1>2. \A l \in {"isOwner", "delete", "upsert", "checkGroup", "check", "findVenue",
                "row", "group"} : l \notin IdentityPcs \cup {"idle", "done"}
  BY DEF IdentityPcs
<1>3. PICK what, l : /\ Receive(r, what, l) /\ what.op # "login"
                     /\ l \in {"isOwner", "delete", "upsert", "checkGroup", "check",
                               "findVenue", "row", "group"}
  BY DEF DeskRequest
<1> QED
  BY <1>1, <1>2, <1>3, LoginRequest

(* A step of r that has nothing to do with identities.                     *)
NotIdentity(r) ==
    /\ pc[r] \notin IdentityPcs \cup {"done"}
    /\ faults' \in {faults, faults + 1}
    /\ \E l \in (Revoking \cup Elsewhere) \ (IdentityPcs \cup {"idle"}) :
           pc' = [pc EXCEPT ![r] = l]
    /\ answer' = answer
       \/ \E a \in {"ok", "refused", "error"} : answer' = [answer EXCEPT ![r] = a]
    /\ req' = req

LEMMA NotIdentityKeeps ==
    ASSUME OwnerInv, LoginInv, NEW r \in Requests, NotIdentity(r), UNCHANGED identityVars
    PROVE  LoginInv'
<1>1. faults' \in Nat /\ faults' >= faults
  BY DEF NotIdentity, LoginInv, LoginTypeOK
<1>2. answer' \in [Requests -> {"none", "ok", "refused", "error"}]
      /\ \A s \in Requests : s # r => answer'[s] = answer[s]
  BY DEF NotIdentity, LoginInv, LoginTypeOK
<1>3. /\ \A s \in Requests : s # r => pc'[s] = pc[s]
      /\ pc'[r] \notin IdentityPcs \cup {"idle"} /\ pc[r] \notin IdentityPcs \cup {"done"}
  BY DEF NotIdentity, OwnerInv, OwnerTypeOK
<1>4. req' = req
  BY DEF NotIdentity
<1> QED
  BY <1>1, <1>2, <1>3, <1>4, LoginAside

LEMMA LoginAccountStep ==
    ASSUME OwnerInv, LoginInv, NEW r \in Requests, AccountStep(r)
    PROVE  LoginInv'
<1> USE DEF NotIdentity, Goto, Respond, Works, Fails, Revoking, Elsewhere, IdentityPcs
<1>1. CASE FindIdentity(r) \/ InsertIdentity(r) \/ CommitIdentity(r)
  BY <1>1, LoginIdentityStep
<1>2. CASE Authorize(r) \/ CheckTarget(r) \/ Grant(r)
  <2>1. NotIdentity(r) /\ UNCHANGED identityVars
    BY <1>2 DEF Authorize, CheckTarget, Grant, accountVars, identityVars
  <2> QED
    BY <2>1, NotIdentityKeeps
<1>3. CASE LockOwners(r) \/ CountOwners(r) \/ Revoke(r)
  <2>1. NotIdentity(r) /\ UNCHANGED identityVars
    BY <1>3 DEF LockOwners, CountOwners, Revoke, identityVars
  <2> QED
    BY <2>1, NotIdentityKeeps
<1>4. CASE LockFlag(r) \/ WriteFlag(r) \/ AuditFlag(r)
  <2>1. NotIdentity(r) /\ UNCHANGED identityVars
    BY <1>4 DEF LockFlag, WriteFlag, AuditFlag, identityVars
  <2> QED
    BY <2>1, NotIdentityKeeps
<1>5. CASE ReadCache(r) \/ JoinScan(r) \/ (\E g \in Chats : ScanChat(r, g))
  <2>1. NotIdentity(r) /\ UNCHANGED identityVars
    BY <1>5 DEF ReadCache, JoinScan, ScanChat, accountVars, identityVars
  <2> QED
    BY <2>1, NotIdentityKeeps
<1>6. CASE EndScan(r)
  <2>1. /\ UNCHANGED <<identityVars, req>> /\ faults' \in {faults, faults + 1}
        /\ answer' \in [Requests -> {"none", "ok", "refused", "error"}]
    BY <1>6 DEF EndScan, LoginInv, LoginTypeOK
  <2>2. \A s \in Requests :
            \/ pc'[s] = pc[s] /\ answer'[s] = answer[s]
            \/ pc[s] \in {"scan", "wait"} /\ pc'[s] = "done"
    BY <1>6 DEF EndScan
  <2> QED
    BY <2>1, <2>2, LoginAside DEF LoginInv, LoginTypeOK
<1> QED
  BY <1>1, <1>2, <1>3, <1>4, <1>5, <1>6 DEF AccountStep

LEMMA LoginDeskStep ==
    ASSUME OwnerInv, LoginInv, NEW r \in Requests, DeskStep(r), UNCHANGED accountVars
    PROVE  LoginInv'
<1> USE DEF NotIdentity, Goto, Respond, Works, Fails, At, Check, Accepted, Denied,
            Revoking, Elsewhere, IdentityPcs
<1>1. CASE AllowCheck(r) \/ SetAutoBookingAllowed(r) \/ RemoveGroup(r) \/ UpsertGroup(r)
  <2>1. NotIdentity(r)
    BY <1>1 DEF AllowCheck, SetAutoBookingAllowed, RemoveGroup, UpsertGroup
  <2> QED
    BY <2>1, NotIdentityKeeps DEF accountVars, identityVars
<1>2. CASE CheckGroup(r) \/ CreateVenue(r) \/ UpdateVenue(r)
           \/ LookAtVenue(r) \/ DeleteVenue(r)
  <2>1. NotIdentity(r)
    BY <1>2 DEF CheckGroup, CreateVenue, UpdateVenue, LookAtVenue, DeleteVenue
  <2> QED
    BY <2>1, NotIdentityKeeps DEF accountVars, identityVars
<1>3. CASE FindVenue(r) \/ CheckLogin(r) \/ InsertCred(r) \/ LookAtCred(r) \/ DeleteCred(r)
  <2>1. NotIdentity(r)
    BY <1>3 DEF FindVenue, CheckLogin, InsertCred, LookAtCred, DeleteCred
  <2> QED
    BY <2>1, NotIdentityKeeps DEF accountVars, identityVars
<1>4. CASE JobReads(r) \/ ListForBooking(r) \/ (\E c \in Creds : Reserve(r, c)) \/ SaveRow(r)
  <2>1. NotIdentity(r)
    BY <1>4 DEF JobReads, ListForBooking, Reserve, SaveRow
  <2> QED
    BY <2>1, NotIdentityKeeps DEF accountVars, identityVars
<1>5. CASE FindRow(r) \/ GetCred(r) \/ CancelMatch(r) \/ MarkCanceled(r)
  <2>1. NotIdentity(r)
    BY <1>5 DEF FindRow, GetCred, CancelMatch, MarkCanceled
  <2> QED
    BY <2>1, NotIdentityKeeps DEF accountVars, identityVars
<1> QED
  BY <1>1, <1>2, <1>3, <1>4, <1>5 DEF DeskStep

LEMMA LoginInit == Init => LoginInv
BY AccountsAssumption, RequestsAssumption
   DEF Init, RequestsInit, AccountsInit, NoRequest, LoginInv, LoginTypeOK, LoginPlaces,
       InsertersCommit, OneAttemptIsLost, LoginsAreAnswered, IdentityPcs, Logins, Users,
       AccountsAssumption, RequestsAssumption

LEMMA LoginNext == OwnerInv /\ LoginInv /\ [Next]_adminVars => LoginInv'
<1> SUFFICES ASSUME OwnerInv, LoginInv, [Next]_adminVars PROVE LoginInv'
  OBVIOUS
<1>1. CASE Around \/ UNCHANGED adminVars
  <2>1. UNCHANGED <<requestVars, identityVars>>
    BY <1>1 DEF Around, ExpireCache, ChangeRights, adminVars, accountVars, identityVars
  <2>2. UNCHANGED <<pc, req, answer, faults, identity, inserting, tries, user>>
    BY <2>1 DEF requestVars, identityVars
  <2> QED
    BY <2>2 DEF LoginInv, LoginTypeOK, LoginPlaces, InsertersCommit, OneAttemptIsLost,
                LoginsAreAnswered
<1>2. ASSUME NEW r \in Requests, AccountRequest(r) \/ AccountStep(r)
      PROVE  LoginInv'
  BY <1>2, LoginAccountRequest, LoginAccountStep
<1>3. ASSUME NEW r \in Requests, DeskRequest(r) \/ DeskStep(r), UNCHANGED accountVars
      PROVE  LoginInv'
  BY <1>3, LoginDeskRequest, LoginDeskStep
<1> QED
  BY <1>1, <1>2, <1>3 DEF Next

(* With no fault every first login is answered, with the user its identity *)
(* names for good, whoever won the race (user_repo.go, "Race-safe").       *)
THEOREM LoginsAgree == Spec => []FirstLoginsAgree
<1>1. LoginInv => FirstLoginsAgree
  BY DEF LoginInv, LoginsAreAnswered, FirstLoginsAgree
<1>2. OwnerInv /\ LoginInv /\ [Next]_adminVars => LoginInv'
  BY LoginNext
<1> QED
  BY <1>1, <1>2, LoginInit, OwnerInvariant, PTL DEF Spec
-----------------------------------------------------------------------------
(* The cache of the groups a user administers.                             *)

CacheTypeOK ==
    /\ rights \in [Chats -> Nat] /\ cache \in [Chats -> Nat]
    /\ seen \in [Requests -> [Chats -> Nat]]

OneScans == \A r \in Requests : pc[r] = "scan" => scanner = r

(* A scan that has not begun has read nothing, and what the running one    *)
(* read is not older than the entry: nobody else stores one meanwhile.     *)
ScansAreNew ==
    \A r \in Requests :
        /\ pc[r] \notin {"scan", "done"} => \A g \in Chats : seen[r][g] = Unread
        /\ pc[r] = "scan" =>
               \A g \in Chats : seen[r][g] # Unread => cache[g] <= seen[r][g]

NothingIsAhead ==
    \A g \in Chats :
        /\ rights[g] >= 1 /\ cache[g] <= rights[g]
        /\ \A r \in Requests : seen[r][g] <= rights[g]

CacheInv == CacheTypeOK /\ OneScans /\ ScansAreNew /\ NothingIsAhead

(* Requests that do not scan move among themselves.                        *)
LEMMA CacheAside ==
    ASSUME CacheInv, UNCHANGED <<rights, scanner, seen, cache>>,
           \A s \in Requests :
               pc'[s] = pc[s] \/ (pc[s] \notin {"scan", "done"} /\ pc'[s] # "scan")
    PROVE  CacheInv'
BY DEF CacheInv, CacheTypeOK, OneScans, ScansAreNew, NothingIsAhead

(* A step of r that is not part of a scan.                                 *)
NotAScan(r) ==
    /\ pc[r] \notin {"scan", "done"}
    /\ \E l \in (Revoking \cup Elsewhere) \ {"scan"} : pc' = [pc EXCEPT ![r] = l]

LEMMA NotAScanKeeps ==
    ASSUME OwnerInv, CacheInv, NEW r \in Requests, NotAScan(r),
           UNCHANGED <<rights, scanner, seen, cache>>
    PROVE  CacheInv'
<1>1. \A s \in Requests :
          pc'[s] = pc[s] \/ (pc[s] \notin {"scan", "done"} /\ pc'[s] # "scan")
  BY DEF NotAScan, OwnerInv, OwnerTypeOK
<1> QED
  BY <1>1, CacheAside

LEMMA CacheRequest ==
    ASSUME OwnerInv, CacheInv, NEW r \in Requests,
           AccountRequest(r) \/ (DeskRequest(r) /\ UNCHANGED accountVars)
    PROVE  CacheInv'
<1>1. NotAScan(r) /\ UNCHANGED accountVars
  <2>1. CASE AccountRequest(r)
    BY <2>1 DEF AccountRequest, LogIn, Seed, SetUserServerOwner, SetFeatureFlag,
                AdminGroupsFor, Receive, NotAScan, Revoking, Elsewhere
  <2>2. CASE DeskRequest(r) /\ UNCHANGED accountVars
    BY <2>2 DEF DeskRequest, Receive, NotAScan, Revoking, Elsewhere
  <2> QED
    BY <2>1, <2>2
<1> QED
  BY <1>1, NotAScanKeeps DEF accountVars

LEMMA CacheAccountStep ==
    ASSUME OwnerInv, CacheInv, NEW r \in Requests, AccountStep(r),
           ~JoinScan(r), ~EndScan(r), \A g \in Chats : ~ScanChat(r, g)
    PROVE  CacheInv'
<1> USE DEF NotAScan, Goto, Respond, Revoking, Elsewhere, rightsVars, accountVars
<1>1. CASE FindIdentity(r) \/ InsertIdentity(r) \/ CommitIdentity(r)
  <2>1. NotAScan(r) /\ UNCHANGED rightsVars
    BY <1>1 DEF FindIdentity, InsertIdentity, CommitIdentity
  <2> QED
    BY <2>1, NotAScanKeeps
<1>2. CASE Authorize(r) \/ CheckTarget(r) \/ Grant(r)
  <2>1. NotAScan(r) /\ UNCHANGED rightsVars
    BY <1>2 DEF Authorize, CheckTarget, Grant
  <2> QED
    BY <2>1, NotAScanKeeps
<1>3. CASE LockOwners(r) \/ CountOwners(r) \/ Revoke(r)
  <2>1. NotAScan(r) /\ UNCHANGED rightsVars
    BY <1>3 DEF LockOwners, CountOwners, Revoke
  <2> QED
    BY <2>1, NotAScanKeeps
<1>4. CASE LockFlag(r) \/ WriteFlag(r) \/ AuditFlag(r)
  <2>1. NotAScan(r) /\ UNCHANGED rightsVars
    BY <1>4 DEF LockFlag, WriteFlag, AuditFlag
  <2> QED
    BY <2>1, NotAScanKeeps
<1>5. CASE ReadCache(r)
  <2>1. NotAScan(r) /\ UNCHANGED rightsVars
    BY <1>5 DEF ReadCache
  <2> QED
    BY <2>1, NotAScanKeeps
<1> QED
  BY <1>1, <1>2, <1>3, <1>4, <1>5 DEF AccountStep

LEMMA CacheDeskStep ==
    ASSUME OwnerInv, CacheInv, NEW r \in Requests, DeskStep(r), UNCHANGED accountVars
    PROVE  CacheInv'
<1> USE DEF NotAScan, Goto, Respond, At, Check, Accepted, Denied, Revoking, Elsewhere
<1>1. CASE AllowCheck(r) \/ SetAutoBookingAllowed(r) \/ RemoveGroup(r) \/ UpsertGroup(r)
  <2>1. NotAScan(r)
    BY <1>1 DEF AllowCheck, SetAutoBookingAllowed, RemoveGroup, UpsertGroup
  <2> QED
    BY <2>1, NotAScanKeeps DEF accountVars
<1>2. CASE CheckGroup(r) \/ CreateVenue(r) \/ UpdateVenue(r)
           \/ LookAtVenue(r) \/ DeleteVenue(r)
  <2>1. NotAScan(r)
    BY <1>2 DEF CheckGroup, CreateVenue, UpdateVenue, LookAtVenue, DeleteVenue
  <2> QED
    BY <2>1, NotAScanKeeps DEF accountVars
<1>3. CASE FindVenue(r) \/ CheckLogin(r) \/ InsertCred(r) \/ LookAtCred(r) \/ DeleteCred(r)
  <2>1. NotAScan(r)
    BY <1>3 DEF FindVenue, CheckLogin, InsertCred, LookAtCred, DeleteCred
  <2> QED
    BY <2>1, NotAScanKeeps DEF accountVars
<1>4. CASE JobReads(r) \/ ListForBooking(r) \/ (\E c \in Creds : Reserve(r, c)) \/ SaveRow(r)
  <2>1. NotAScan(r)
    BY <1>4 DEF JobReads, ListForBooking, Reserve, SaveRow
  <2> QED
    BY <2>1, NotAScanKeeps DEF accountVars
<1>5. CASE FindRow(r) \/ GetCred(r) \/ CancelMatch(r) \/ MarkCanceled(r)
  <2>1. NotAScan(r)
    BY <1>5 DEF FindRow, GetCred, CancelMatch, MarkCanceled
  <2> QED
    BY <2>1, NotAScanKeeps DEF accountVars
<1> QED
  BY <1>1, <1>2, <1>3, <1>4, <1>5 DEF DeskStep

(* The scan itself: one request at a time reads the rights, and stores     *)
(* what it read only when it read all.                                     *)
LEMMA CacheScanStep ==
    ASSUME OwnerInv, CacheInv, NEW r \in Requests,
           JoinScan(r) \/ (\E g \in Chats : ScanChat(r, g)) \/ EndScan(r)
    PROVE  CacheInv' /\ \A g \in Chats : cache'[g] >= cache[g]
<1> USE DEF CacheInv
<1>1. CASE JoinScan(r)
  <2>1. UNCHANGED <<rights, seen, cache>> /\ pc[r] = "join"
    BY <1>1 DEF JoinScan
  <2>2. PICK l \in {"scan", "wait"} : pc' = [pc EXCEPT ![r] = l]
    BY <1>1 DEF JoinScan, Goto
  <2>3. l = "scan" => scanner = NoReq /\ scanner' = r
    BY <1>1, <2>2 DEF JoinScan, Goto, OwnerInv, OwnerTypeOK
  <2>4. l = "wait" => scanner' = scanner
    BY <1>1, <2>2 DEF JoinScan, Goto, OwnerInv, OwnerTypeOK
  <2>5. /\ pc'[r] = l /\ pc[r] = "join"
        /\ \A s \in Requests : s # r => pc'[s] = pc[s]
    BY <2>1, <2>2 DEF OwnerInv, OwnerTypeOK
  <2>6. OneScans'
    BY <2>3, <2>4, <2>5, RequestsAssumption DEF OneScans, RequestsAssumption
  <2>7. ScansAreNew'
    BY <2>1, <2>5 DEF ScansAreNew, CacheTypeOK
  <2> QED
    BY <2>1, <2>6, <2>7 DEF CacheTypeOK, NothingIsAhead
<1>2. ASSUME NEW g \in Chats, ScanChat(r, g)
      PROVE  CacheInv' /\ \A h \in Chats : cache'[h] >= cache[h]
  <2>1. /\ UNCHANGED <<rights, cache, scanner>> /\ pc[r] = "scan"
        /\ seen' = [seen EXCEPT ![r][g] = rights[g]]
        /\ pc' = [pc EXCEPT ![r] = "scan"]
    BY <1>2 DEF ScanChat, Goto
  <2>2. \A s \in Requests : pc'[s] = pc[s]
    BY <2>1 DEF OwnerInv, OwnerTypeOK
  <2>3. CacheTypeOK'
    BY <2>1 DEF CacheTypeOK
  <2>4. \A s \in Requests, h \in Chats :
            seen'[s][h] = (IF s = r /\ h = g THEN rights[g] ELSE seen[s][h])
    BY <2>1 DEF CacheTypeOK
  <2>5. ScansAreNew'
    BY <2>1, <2>2, <2>4 DEF ScansAreNew, NothingIsAhead
  <2>6. NothingIsAhead'
    BY <2>1, <2>4 DEF NothingIsAhead, CacheTypeOK
  <2> QED
    BY <2>1, <2>2, <2>3, <2>5, <2>6 DEF OneScans, CacheTypeOK
<1>3. CASE EndScan(r)
  <2>1. /\ UNCHANGED <<rights, seen>> /\ pc[r] = "scan"
        /\ cache' = cache \/ (cache' = seen[r] /\ \A g \in Chats : seen[r][g] # Unread)
        /\ scanner = r
    BY <1>3 DEF EndScan, OneScans
  <2>2. \A s \in Requests :
            (pc'[s] = pc[s] /\ s # r) \/ (pc[s] \in {"scan", "wait"} /\ pc'[s] = "done")
    <3>1. \A s \in Requests :
              pc'[s] = (IF s = r \/ (pc[s] = "wait" /\ scanner = r) THEN "done" ELSE pc[s])
      BY <1>3 DEF EndScan
    <3> QED
      BY <2>1, <3>1
  <2>3. \A s \in Requests : pc'[s] # "scan"
    BY <2>1, <2>2 DEF OneScans
  <2>4. CacheTypeOK' /\ NothingIsAhead'
    BY <2>1 DEF CacheTypeOK, NothingIsAhead
  <2>5. \A g \in Chats : cache'[g] >= cache[g]
    BY <2>1 DEF ScansAreNew, CacheTypeOK
  <2>6. ScansAreNew'
    BY <2>1, <2>2, <2>3 DEF ScansAreNew
  <2> QED
    BY <2>3, <2>4, <2>5, <2>6 DEF OneScans
<1> QED
  BY <1>1, <1>2, <1>3

LEMMA CacheAround ==
    ASSUME CacheInv, Around
    PROVE  CacheInv' /\ cache' = cache
<1>1. CASE ExpireCache
  BY <1>1 DEF ExpireCache, requestVars, CacheInv, CacheTypeOK, OneScans, ScansAreNew,
              NothingIsAhead
<1>2. ASSUME NEW g \in Chats, ChangeRights(g)
      PROVE  CacheInv' /\ cache' = cache
  <2>1. UNCHANGED <<pc, scanner, seen, cache>> /\ rights' = [rights EXCEPT ![g] = @ + 1]
    BY <1>2 DEF ChangeRights, requestVars
  <2>2. CacheTypeOK' /\ \A h \in Chats : rights'[h] >= rights[h]
    BY <2>1 DEF CacheInv, CacheTypeOK
  <2>3. NothingIsAhead'
    BY <2>1, <2>2 DEF CacheInv, CacheTypeOK, NothingIsAhead
  <2> QED
    BY <2>1, <2>2, <2>3 DEF CacheInv, OneScans, ScansAreNew
<1> QED
  BY <1>1, <1>2 DEF Around

LEMMA CacheInit == Init => CacheInv
BY DEF Init, RequestsInit, AccountsInit, CacheInv, CacheTypeOK, OneScans, ScansAreNew,
       NothingIsAhead, Unread

(* A step of r that is no part of a scan leaves the cache alone.           *)
LEMMA OnlyScansStore ==
    ASSUME NEW r \in Requests, AccountRequest(r) \/ AccountStep(r), ~EndScan(r)
    PROVE  cache' = cache
BY DEF AccountRequest, LogIn, Seed, SetUserServerOwner, SetFeatureFlag, AdminGroupsFor,
       AccountStep, FindIdentity, InsertIdentity, CommitIdentity, Authorize, CheckTarget,
       Grant, LockOwners, CountOwners, Revoke, LockFlag, WriteFlag, AuditFlag, ReadCache,
       JoinScan, ScanChat, accountVars, rightsVars

LEMMA CacheNext ==
    OwnerInv /\ CacheInv /\ [Next]_adminVars =>
        CacheInv' /\ \A g \in Chats : cache'[g] >= cache[g]
<1> SUFFICES ASSUME OwnerInv, CacheInv, [Next]_adminVars
             PROVE  CacheInv' /\ \A g \in Chats : cache'[g] >= cache[g]
  OBVIOUS
<1>1. cache \in [Chats -> Nat]
  BY DEF CacheInv, CacheTypeOK
<1>2. CASE Around
  BY <1>1, <1>2, CacheAround
<1>3. ASSUME NEW r \in Requests, AccountRequest(r) \/ AccountStep(r)
      PROVE  CacheInv' /\ \A g \in Chats : cache'[g] >= cache[g]
  <2>1. CASE JoinScan(r) \/ (\E g \in Chats : ScanChat(r, g)) \/ EndScan(r)
    BY <2>1, CacheScanStep
  <2>2. CASE ~(JoinScan(r) \/ (\E g \in Chats : ScanChat(r, g)) \/ EndScan(r))
    BY <1>1, <1>3, <2>2, CacheRequest, CacheAccountStep, OnlyScansStore
  <2> QED
    BY <2>1, <2>2
<1>4. ASSUME NEW r \in Requests, DeskRequest(r) \/ DeskStep(r), UNCHANGED accountVars
      PROVE  CacheInv' /\ \A g \in Chats : cache'[g] >= cache[g]
  BY <1>1, <1>4, CacheRequest, CacheDeskStep DEF accountVars
<1>5. CASE UNCHANGED adminVars
  <2>1. UNCHANGED <<pc, rights, scanner, seen, cache>>
    BY <1>5 DEF adminVars, requestVars, accountVars
  <2> QED
    BY <1>1, <2>1, CacheAside
<1> QED
  BY <1>2, <1>3, <1>4, <1>5 DEF Next

THEOREM CacheInvariant == Spec => []CacheInv
BY CacheInit, CacheNext, OwnerInvariant, PTL DEF Spec

(* The cache entry never goes back to older rights: one request scans at a *)
(* time, and nobody stores what was read before the entry there is         *)
(* (admin_groups_resolver.go, singleflight).                               *)
THEOREM CacheOnlyMovesForward == Spec => CacheMovesForward
<1>1. OwnerInv /\ CacheInv /\ [Next]_adminVars =>
          [\A g \in Chats : cache'[g] >= cache[g]]_accountVars
  BY CacheNext
<1> QED
  BY <1>1, CacheInvariant, OwnerInvariant, PTL DEF Spec, CacheMovesForward
-----------------------------------------------------------------------------
(* Courts that can be given back.                                          *)

DeskTypeOK ==
    /\ row \in [Matches -> {"none", "active", "canceled"}]
    /\ account = [m \in Matches |-> account[m]]
    /\ held \subseteq Matches /\ creds \subseteq Creds
    /\ left = [r \in Requests |-> left[r]] /\ used = [r \in Requests |-> used[r]]
    /\ looked \in [Requests -> SUBSET Matches]
    /\ venue \in BOOLEAN /\ raced \in BOOLEAN /\ faults \in Nat

(* Where a court is when its row is not written, and what a request about  *)
(* it names.                                                               *)
BookedPlaces ==
    /\ \A m \in held : m = FirstMatch \/ pc[m] \in {"save", "done"}
    /\ \A m \in Requests :
           pc[m] # "done" => row[m] = "none" /\ \A r \in Requests : m \notin looked[r]
    /\ \A r \in Requests :
           /\ pc[r] \in {"reserve", "save"} => req[r].op = "book"
           /\ pc[r] = "mark" => req[r].op = "cancel" /\ req[r].match \notin held
           /\ req[r].op = "removeCred" => req[r].cred \in Creds
           /\ req[r].op = "cancel" =>
                  /\ req[r].match \in Matches
                  /\ req[r].match = FirstMatch \/ pc[req[r].match] \in {"save", "done"}
    /\ creds # {} => venue

(* A removal past its check goes on as if what it saw still held: courts   *)
(* booked since make it race.                                              *)
RemovalsLooked ==
    \A r \in Requests : pc[r] = "delete" =>
        /\ req[r].op = "deleteVenue" => looked[r] = {}
        /\ req[r].op = "removeCred" => \A m \in looked[r] : account[m] # req[r].cred

(* A booking past its reading of the credentials can still save its row.   *)
BookingsCanSave ==
    \A r \in Requests :
        /\ pc[r] = "reserve" => left[r] \subseteq creds
        /\ pc[r] = "save" => used[r] \in creds

HeldHaveRows ==
    \A m \in held :
        m = FirstMatch \/ pc[m] = "done" => row[m] = "active" /\ account[m] \in creds

DeskInv ==
    /\ DeskTypeOK /\ BookedPlaces
    /\ faults = 0 /\ ~raced => RemovalsLooked /\ BookingsCanSave /\ HeldHaveRows

(* Requests that touch neither rows nor credentials move among themselves. *)
LEMMA DeskAside ==
    ASSUME DeskInv, UNCHANGED <<req, row, account, held, creds, left, used, looked, raced>>,
           venue' \in BOOLEAN, venue => venue', faults' \in Nat, faults' >= faults,
           \A s \in Requests :
               \/ pc'[s] = pc[s]
               \/ /\ pc[s] \notin {"save", "done"}
                  /\ pc'[s] \notin {"reserve", "save", "delete", "mark"}
    PROVE  DeskInv'
<1> USE DEF DeskInv
<1>1. DeskTypeOK'
  BY DEF DeskTypeOK
<1>2. BookedPlaces'
  BY DEF BookedPlaces, DeskTypeOK, Matches
<1>3. faults' = 0 => faults = 0
  BY DEF DeskTypeOK
<1>4. RemovalsLooked => RemovalsLooked'
  BY DEF RemovalsLooked
<1>5. BookingsCanSave => BookingsCanSave'
  BY DEF BookingsCanSave
<1>6. HeldHaveRows => HeldHaveRows'
  BY DEF HeldHaveRows, BookedPlaces, DeskTypeOK, Matches
<1> QED
  BY <1>1, <1>2, <1>3, <1>4, <1>5, <1>6

(* A step of r of that kind.                                               *)
NotABooking(r) ==
    /\ pc[r] \notin {"save", "done"}
    /\ \E l \in (Revoking \cup Elsewhere) \ {"reserve", "save", "delete", "mark"} :
           pc' = [pc EXCEPT ![r] = l]
    /\ faults' \in {faults, faults + 1} /\ req' = req

LEMMA NotABookingKeeps ==
    ASSUME OwnerInv, DeskInv, NEW r \in Requests, NotABooking(r),
           venue' \in BOOLEAN, venue => venue',
           UNCHANGED <<row, account, held, creds, left, used, looked, raced>>
    PROVE  DeskInv'
<1>1. \A s \in Requests :
          \/ pc'[s] = pc[s]
          \/ /\ pc[s] \notin {"save", "done"}
             /\ pc'[s] \notin {"reserve", "save", "delete", "mark"}
  BY DEF NotABooking, OwnerInv, OwnerTypeOK
<1>2. faults' \in Nat /\ faults' >= faults /\ req' = req
  BY DEF NotABooking, DeskInv, DeskTypeOK
<1> QED
  BY <1>1, <1>2, DeskAside

(* What a step of r leaves to the others.                                  *)
LEMMA DeskReceive ==
    ASSUME OwnerInv, DeskInv, NEW r \in Requests, NEW what, NEW l, Receive(r, what, l),
           UNCHANGED <<venue, creds, row, account, held, left, used, looked, raced>>,
           l \notin {"reserve", "save", "mark", "idle", "done"},
           l = "delete" => what.op = "leave",
           what.op = "removeCred" => what.cred \in creds,
           what.op = "cancel" => what.match \in held
    PROVE  DeskInv'
<1> USE DEF DeskInv
<1>1. /\ pc[r] = "idle" /\ pc'[r] = l /\ req'[r] = what /\ faults' = faults
      /\ \A s \in Requests : s # r => pc'[s] = pc[s] /\ req'[s] = req[s]
  BY DEF Receive, OwnerInv, OwnerTypeOK
<1>2. DeskTypeOK'
  BY <1>1 DEF DeskTypeOK
<1>3. BookedPlaces'
  <2>1. \A m \in held : m = FirstMatch \/ pc'[m] \in {"save", "done"}
    BY <1>1 DEF BookedPlaces, DeskTypeOK, Matches
  <2>2. \A s \in Requests :
           /\ req'[s].op = "removeCred" => req'[s].cred \in Creds
           /\ req'[s].op = "cancel" =>
                  /\ req'[s].match \in Matches
                  /\ req'[s].match = FirstMatch \/ pc'[req'[s].match] \in {"save", "done"}
    BY <1>1, <2>1 DEF BookedPlaces, DeskTypeOK, Matches
  <2>3. \A s \in Requests :
           /\ pc'[s] \in {"reserve", "save"} => req'[s].op = "book"
           /\ pc'[s] = "mark" => req'[s].op = "cancel" /\ req'[s].match \notin held
    BY <1>1 DEF BookedPlaces
  <2>4. \A m \in Requests :
           pc'[m] # "done" => row[m] = "none" /\ \A s \in Requests : m \notin looked[s]
    BY <1>1 DEF BookedPlaces
  <2> QED
    BY <2>1, <2>2, <2>3, <2>4 DEF BookedPlaces
<1>4. RemovalsLooked => RemovalsLooked'
  BY <1>1 DEF RemovalsLooked
<1>5. BookingsCanSave => BookingsCanSave'
  BY <1>1 DEF BookingsCanSave
<1>6. HeldHaveRows => HeldHaveRows'
  BY <1>1 DEF HeldHaveRows, DeskTypeOK, Matches
<1> QED
  BY <1>1, <1>2, <1>3, <1>4, <1>5, <1>6

LEMMA DeskRequests ==
    ASSUME OwnerInv, DeskInv, NEW r \in Requests,
           (AccountRequest(r) /\ UNCHANGED deskVars)
           \/ (DeskRequest(r) /\ UNCHANGED accountVars)
    PROVE  DeskInv'
<1>1. UNCHANGED <<venue, creds, row, account, held, left, used, looked, raced>>
  BY DEF DeskRequest, deskVars, venueVars, bookingVars
<1>2. \A l \in {"find", "authorize", "cached", "isOwner", "upsert", "checkGroup", "check",
                "findVenue", "row", "group"} :
          l \notin {"reserve", "save", "mark", "idle", "done", "delete"}
  OBVIOUS
<1>3. ASSUME NEW e \in Logins, LogIn(r, e) \/ Seed(r, e)
      PROVE  DeskInv'
  BY <1>1, <1>2, <1>3, DeskReceive DEF LogIn, Seed
<1>4. ASSUME NEW a \in KnownUsers, NEW u \in KnownUsers, NEW on \in BOOLEAN,
             SetUserServerOwner(r, a, u, on)
      PROVE  DeskInv'
  BY <1>1, <1>2, <1>4, DeskReceive DEF SetUserServerOwner
<1>5. ASSUME NEW a \in KnownUsers, NEW v \in Overrides, SetFeatureFlag(r, a, v)
      PROVE  DeskInv'
  BY <1>1, <1>2, <1>5, DeskReceive DEF SetFeatureFlag
<1>6. CASE AdminGroupsFor(r)
  BY <1>1, <1>2, <1>6, DeskReceive DEF AdminGroupsFor
<1>7. ASSUME NEW a \in KnownUsers, NEW on \in BOOLEAN,
             Receive(r, [op |-> "allow", actor |-> a, on |-> on], "isOwner")
      PROVE  DeskInv'
  BY <1>1, <1>2, <1>7, DeskReceive
<1>8. ASSUME NEW op \in {"createVenue", "updateVenue"}, NEW on \in BOOLEAN,
             Receive(r, [op |-> op, on |-> on], "checkGroup")
      PROVE  DeskInv'
  BY <1>1, <1>2, <1>8, DeskReceive
<1>9. CASE \/ Receive(r, [op |-> "leave"], "delete") \/ Receive(r, [op |-> "enter"], "upsert")
           \/ Receive(r, [op |-> "deleteVenue"], "check") \/ Receive(r, [op |-> "book"], "group")
  BY <1>1, <1>2, <1>9, DeskReceive
<1>10. ASSUME NEW l \in LoginNames, Receive(r, [op |-> "addCred", login |-> l], "findVenue")
       PROVE  DeskInv'
  BY <1>1, <1>2, <1>10, DeskReceive
<1>11. ASSUME NEW c \in creds, Receive(r, [op |-> "removeCred", cred |-> c], "findVenue")
       PROVE  DeskInv'
  BY <1>1, <1>2, <1>11, DeskReceive
<1>12. ASSUME NEW m \in held, Receive(r, [op |-> "cancel", match |-> m], "row")
       PROVE  DeskInv'
  BY <1>1, <1>2, <1>12, DeskReceive
<1>13. AccountRequest(r) => DeskInv'
  BY <1>3, <1>4, <1>5, <1>6 DEF AccountRequest
<1>14. DeskRequest(r) => DeskInv'
  BY <1>7, <1>8, <1>9, <1>10, <1>11, <1>12 DEF DeskRequest
<1> QED
  BY <1>13, <1>14

LEMMA DeskAccountStep ==
    ASSUME OwnerInv, DeskInv, NEW r \in Requests, AccountStep(r), UNCHANGED deskVars
    PROVE  DeskInv'
<1> USE DEF NotABooking, Goto, Respond, Works, Fails, Revoking, Elsewhere
<1>0. /\ UNCHANGED <<venue, row, account, held, creds, left, used, looked, raced>>
      /\ venue' \in BOOLEAN
  BY DEF deskVars, DeskInv, DeskTypeOK
<1>1. CASE FindIdentity(r) \/ InsertIdentity(r) \/ CommitIdentity(r)
  <2>1. NotABooking(r)
    BY <1>1 DEF FindIdentity, InsertIdentity, CommitIdentity
  <2> QED
    BY <1>0, <2>1, NotABookingKeeps
<1>2. CASE Authorize(r) \/ CheckTarget(r) \/ Grant(r)
  <2>1. NotABooking(r)
    BY <1>2 DEF Authorize, CheckTarget, Grant
  <2> QED
    BY <1>0, <2>1, NotABookingKeeps
<1>3. CASE LockOwners(r) \/ CountOwners(r) \/ Revoke(r)
  <2>1. NotABooking(r)
    BY <1>3 DEF LockOwners, CountOwners, Revoke
  <2> QED
    BY <1>0, <2>1, NotABookingKeeps
<1>4. CASE LockFlag(r) \/ WriteFlag(r) \/ AuditFlag(r)
  <2>1. NotABooking(r)
    BY <1>4 DEF LockFlag, WriteFlag, AuditFlag
  <2> QED
    BY <1>0, <2>1, NotABookingKeeps
<1>5. CASE ReadCache(r) \/ JoinScan(r) \/ (\E g \in Chats : ScanChat(r, g))
  <2>1. NotABooking(r)
    BY <1>5 DEF ReadCache, JoinScan, ScanChat
  <2> QED
    BY <1>0, <2>1, NotABookingKeeps
<1>6. CASE EndScan(r)
  <2>1. req' = req /\ faults' \in {faults, faults + 1}
    BY <1>6 DEF EndScan
  <2>2. \A s \in Requests :
            pc'[s] = pc[s] \/ (pc[s] \in {"scan", "wait"} /\ pc'[s] = "done")
    BY <1>6 DEF EndScan
  <2> QED
    BY <1>0, <2>1, <2>2, DeskAside DEF DeskInv, DeskTypeOK
<1> QED
  BY <1>1, <1>2, <1>3, <1>4, <1>5, <1>6 DEF AccountStep

(* The steps of the desk that touch neither rows nor credentials, or whose *)
(* write is refused before a row is.                                       *)
LEMMA DeskQuietStep ==
    ASSUME OwnerInv, DeskInv, NEW r \in Requests,
           \/ AllowCheck(r) \/ SetAutoBookingAllowed(r) \/ UpsertGroup(r)
           \/ CheckGroup(r) \/ CreateVenue(r) \/ UpdateVenue(r)
           \/ FindVenue(r) \/ CheckLogin(r) \/ JobReads(r) \/ GetCred(r)
           \/ \E op, l, ok : Denied(r, op, l, ok) /\ l # "save" /\ l # "done"
    PROVE  DeskInv'
<1> USE DEF NotABooking, Goto, Respond, Works, Fails, At, Check, Accepted, Denied, Reads,
            Revoking, Elsewhere, deskVars
<1>0. venue \in BOOLEAN
  BY DEF DeskInv, DeskTypeOK
<1>1. CASE AllowCheck(r) \/ CheckGroup(r)
  <2>1. NotABooking(r) /\ UNCHANGED deskVars
    BY <1>1 DEF AllowCheck, CheckGroup
  <2> QED
    BY <1>0, <2>1, NotABookingKeeps
<1>2. CASE FindVenue(r) \/ CheckLogin(r) \/ JobReads(r) \/ GetCred(r)
  <2>1. NotABooking(r) /\ UNCHANGED deskVars
    BY <1>2 DEF FindVenue, CheckLogin, JobReads, GetCred
  <2> QED
    BY <1>0, <2>1, NotABookingKeeps
<1>3. CASE \E op, l, ok : Denied(r, op, l, ok) /\ l # "save" /\ l # "done"
  <2>1. NotABooking(r) /\ UNCHANGED deskVars
    BY <1>3
  <2> QED
    BY <1>0, <2>1, NotABookingKeeps
<1>4. CASE SetAutoBookingAllowed(r) \/ UpsertGroup(r)
  <2>1. /\ NotABooking(r)
        /\ UNCHANGED <<venue, row, account, held, creds, left, used, looked, raced>>
    BY <1>4 DEF SetAutoBookingAllowed, UpsertGroup, venueVars, bookingVars, jobVars
  <2> QED
    BY <1>0, <2>1, NotABookingKeeps
<1>5. CASE CreateVenue(r) \/ UpdateVenue(r)
  <2>1. /\ NotABooking(r)
        /\ UNCHANGED <<row, account, held, creds, left, used, looked, raced>>
    BY <1>5 DEF CreateVenue, UpdateVenue, bookingVars, jobVars
  <2>2. venue' = TRUE \/ venue' = venue
    BY <1>5 DEF CreateVenue, UpdateVenue
  <2>3. venue' \in BOOLEAN
    BY <1>0, <2>2
  <2>4. venue => venue'
    BY <2>2
  <2> QED
    BY <2>1, <2>3, <2>4, NotABookingKeeps
<1> QED
  BY <1>1, <1>2, <1>3, <1>4, <1>5
(* How a step of r moves it.                                               *)
LEMMA DeskMoves ==
    ASSUME OwnerInv, DeskInv, NEW r \in Requests, NEW l,
           pc' = [pc EXCEPT ![r] = l], faults' \in {faults, faults + 1}
    PROVE  /\ pc'[r] = l /\ \A s \in Requests : s # r => pc'[s] = pc[s]
           /\ faults' \in Nat /\ (faults' = 0 => faults' = faults)
BY DEF OwnerInv, OwnerTypeOK, DeskInv, DeskTypeOK

(* A removal looks.                                                        *)
LEMMA DeskLook ==
    ASSUME OwnerInv, DeskInv, NEW r \in Requests, LookAtVenue(r) \/ LookAtCred(r)
    PROVE  DeskInv'
<1> USE DEF DeskInv
<1>1. /\ UNCHANGED <<req, row, account, held, creds, venue, left, used, raced>>
      /\ looked' = [looked EXCEPT ![r] = Active] /\ pc[r] = "check"
    BY DEF LookAtVenue, LookAtCred, Check, At, Look, Goto, Respond, venueVars, bookingVars
<1>2. PICK l \in {"delete", "done"} :
          pc' = [pc EXCEPT ![r] = l] /\ faults' \in {faults, faults + 1}
    BY DEF LookAtVenue, LookAtCred, Check, Goto, Respond, Works, Fails
<1>3. /\ pc'[r] = l /\ \A s \in Requests : s # r => pc'[s] = pc[s]
      /\ faults' \in Nat /\ (faults' = 0 => faults' = faults)
    BY <1>2, DeskMoves
<1>4. looked'[r] = Active /\ \A s \in Requests : s # r => looked'[s] = looked[s]
    BY <1>1 DEF DeskTypeOK
<1>5. DeskTypeOK'
    BY <1>1, <1>3 DEF DeskTypeOK, Active
<1>6. l = "delete" =>
          /\ req[r].op = "deleteVenue" => Active = {}
          /\ req[r].op = "removeCred" => \A m \in Active : account[m] # req[r].cred
  <2>1. ASSUME l = "delete"
        PROVE  \/ req[r].op = "deleteVenue" /\ Active = {}
               \/ req[r].op = "removeCred" /\ \A m \in Active : account[m] # req[r].cred
    <3>1. pc' # [pc EXCEPT ![r] = "done"]
      BY <1>2, <2>1 DEF OwnerInv, OwnerTypeOK
    <3> QED
      BY <3>1 DEF LookAtVenue, LookAtCred, Check, At, Goto, Respond
  <2> QED
    BY <2>1
<1>7. BookedPlaces'
  <2>1. \A m \in Requests : pc'[m] # "done" => m \notin Active
    BY <1>1, <1>3 DEF BookedPlaces, Active
  <2>2. \A m \in Requests :
            pc'[m] # "done" => row[m] = "none" /\ \A s \in Requests : m \notin looked'[s]
    BY <1>1, <1>3, <1>4, <2>1 DEF BookedPlaces
  <2>3. \A m \in held : m = FirstMatch \/ pc'[m] \in {"save", "done"}
    BY <1>1, <1>3 DEF BookedPlaces, DeskTypeOK, Matches
  <2>4. \A s \in Requests : req[s].op = "cancel" =>
            req[s].match = FirstMatch \/ pc'[req[s].match] \in {"save", "done"}
    BY <1>1, <1>3 DEF BookedPlaces, DeskTypeOK, Matches
  <2> QED
    BY <1>1, <1>3, <2>2, <2>3, <2>4 DEF BookedPlaces
<1>8. RemovalsLooked => RemovalsLooked'
    BY <1>1, <1>3, <1>4, <1>6 DEF RemovalsLooked
<1>9. BookingsCanSave => BookingsCanSave'
    BY <1>1, <1>3 DEF BookingsCanSave
<1>10. HeldHaveRows => HeldHaveRows'
    BY <1>1, <1>3 DEF HeldHaveRows, BookedPlaces, DeskTypeOK, Matches
<1> QED
    BY <1>1, <1>3, <1>5, <1>7, <1>8, <1>9, <1>10

(* The group or the venue goes, with its credentials and rows.             *)
LEMMA DeskAllGoes ==
    ASSUME OwnerInv, DeskInv, NEW r \in Requests,
           \/ RemoveGroup(r) /\ ~Denied(r, "leave", "delete", TRUE)
           \/ DeleteVenue(r) /\ ~Denied(r, "deleteVenue", "delete", venue)
    PROVE  DeskInv'
<1> USE DEF DeskInv
<1>1. /\ UNCHANGED <<req, held, left, used, looked, faults>>
      /\ venue' = FALSE /\ creds' = {} /\ pc[r] = "delete"
      /\ row' = [m \in Matches |-> "none"] /\ account' = [m \in Matches |-> NoCred]
      /\ pc' = [pc EXCEPT ![r] = "done"] /\ raced' \in BOOLEAN
    BY DEF RemoveGroup, DeleteVenue, Accepted, At, Overlaps, Respond, Works, DeskTypeOK
<1>2. /\ pc'[r] = "done" /\ \A s \in Requests : s # r => pc'[s] = pc[s]
      /\ faults' \in Nat
    BY <1>1, DeskMoves
<1>3. ~raced' => /\ req[r].op = "deleteVenue" /\ ~raced
                 /\ Booking = {} /\ Active \subseteq looked[r]
    BY DEF RemoveGroup, DeleteVenue, Accepted, At, Overlaps
<1>4. DeskTypeOK'
    BY <1>1, <1>2 DEF DeskTypeOK
<1>5. BookedPlaces'
  <2>1. \A m \in held : m = FirstMatch \/ pc'[m] \in {"save", "done"}
    BY <1>1, <1>2 DEF BookedPlaces, DeskTypeOK, Matches
  <2>2. \A s \in Requests : req[s].op = "cancel" =>
            req[s].match = FirstMatch \/ pc'[req[s].match] \in {"save", "done"}
    BY <1>1, <1>2 DEF BookedPlaces, DeskTypeOK, Matches
  <2>3. \A m \in Requests :
            pc'[m] # "done" => row'[m] = "none" /\ \A s \in Requests : m \notin looked[s]
    BY <1>1, <1>2 DEF BookedPlaces, Matches
  <2> QED
    BY <1>1, <1>2, <2>1, <2>2, <2>3 DEF BookedPlaces
<1>6. ASSUME faults' = 0, ~raced'
      PROVE  RemovalsLooked' /\ BookingsCanSave' /\ HeldHaveRows'
  <2>1. /\ RemovalsLooked /\ HeldHaveRows /\ Booking = {} /\ Active = {}
    BY <1>1, <1>3, <1>6 DEF RemovalsLooked
  <2>2. RemovalsLooked'
    <3>1. ASSUME NEW s \in Requests, pc'[s] = "delete"
          PROVE  /\ req'[s].op = "deleteVenue" => looked'[s] = {}
                 /\ req'[s].op = "removeCred" => \A m \in looked'[s] : account'[m] # req'[s].cred
      <4>1. pc[s] = "delete" /\ s # r
        BY <1>2, <3>1
      <4>2. req[s].op = "removeCred" => req[s].cred # NoCred
        BY DeskAssumption DEF BookedPlaces, Creds, DeskAssumption
      <4>3. \A m \in looked[s] : account'[m] = NoCred
        BY <1>1 DEF DeskTypeOK
      <4> QED
        BY <1>1, <2>1, <4>1, <4>2, <4>3 DEF RemovalsLooked
    <3> QED
      BY <3>1 DEF RemovalsLooked
  <2>3. \A s \in Requests : pc[s] \notin {"reserve", "save"}
    BY <2>1 DEF Booking, BookedPlaces
  <2>4. BookingsCanSave'
    BY <1>2, <2>3 DEF BookingsCanSave
  <2>5. \A m \in held : m = FirstMatch \/ pc[m] = "done"
    <3>1. \A m \in held : m = FirstMatch \/ m \in Requests
      BY DEF DeskTypeOK, Matches
    <3>2. \A m \in held : m = FirstMatch \/ pc[m] = "save" \/ pc[m] = "done"
      BY Zenon DEF BookedPlaces
    <3> QED
      BY <2>3, <3>1, <3>2
  <2>6. held = {}
    BY <2>1, <2>5 DEF HeldHaveRows, Active, DeskTypeOK
  <2> QED
    BY <1>1, <2>2, <2>4, <2>6 DEF HeldHaveRows
<1> QED
    BY <1>4, <1>5, <1>6
(* A credential comes.                                                     *)
LEMMA DeskCredComes ==
    ASSUME OwnerInv, DeskInv, NEW r \in Requests, InsertCred(r),
           ~Denied(r, "addCred", "insertCred", venue /\ ~LoginTaken(req[r].login))
    PROVE  DeskInv'
<1> USE DEF DeskInv
<1>1. /\ UNCHANGED <<req, held, row, account, left, used, looked, raced, faults, venue>>
      /\ creds' = creds \cup {r} /\ pc[r] = "insertCred" /\ venue
      /\ pc' = [pc EXCEPT ![r] = "done"]
  BY DEF InsertCred, Accepted, At, Respond, Works, bookingVars, jobVars
<1>2. pc'[r] = "done" /\ \A s \in Requests : s # r => pc'[s] = pc[s]
  BY <1>1, DeskMoves
<1>3. DeskTypeOK'
  BY <1>1 DEF DeskTypeOK, Creds
<1>4. BookedPlaces'
  BY <1>1, <1>2 DEF BookedPlaces, DeskTypeOK, Matches
<1>5. RemovalsLooked => RemovalsLooked'
  BY <1>1, <1>2 DEF RemovalsLooked
<1>6. BookingsCanSave => BookingsCanSave'
  BY <1>1, <1>2 DEF BookingsCanSave
<1>7. HeldHaveRows => HeldHaveRows'
  BY <1>1, <1>2 DEF HeldHaveRows, BookedPlaces, DeskTypeOK, Matches
<1> QED
  BY <1>1, <1>3, <1>4, <1>5, <1>6, <1>7

(* A credential goes: unless it races, no court is booked with it.         *)
LEMMA DeskCredGoes ==
    ASSUME OwnerInv, DeskInv, NEW r \in Requests, DeleteCred(r),
           ~Denied(r, "removeCred", "delete", req[r].cred \in creds)
    PROVE  DeskInv'
<1> DEFINE c == req[r].cred
<1> USE DEF DeskInv
<1>1. /\ UNCHANGED <<req, held, row, left, used, looked, faults, venue>>
      /\ creds' = creds \ {c} /\ pc[r] = "delete" /\ req[r].op = "removeCred"
      /\ account' = [m \in Matches |-> IF account[m] = c THEN NoCred ELSE account[m]]
      /\ pc' = [pc EXCEPT ![r] = "done"] /\ raced' \in BOOLEAN
  BY DEF DeleteCred, Accepted, At, Respond, Works, Overlaps, DeskTypeOK
<1>2. ~raced' => ~raced /\ Booking = {} /\ Active \subseteq looked[r]
  BY DEF DeleteCred, Overlaps
<1>3. pc'[r] = "done" /\ \A s \in Requests : s # r => pc'[s] = pc[s]
  BY <1>1, DeskMoves
<1>4. DeskTypeOK'
  BY <1>1 DEF DeskTypeOK
<1>5. BookedPlaces'
  BY <1>1, <1>3 DEF BookedPlaces, DeskTypeOK, Matches
<1>6. ASSUME faults' = 0, ~raced'
      PROVE  RemovalsLooked' /\ BookingsCanSave' /\ HeldHaveRows'
  <2>1. RemovalsLooked /\ HeldHaveRows /\ Booking = {} /\ Active \subseteq looked[r]
    BY <1>1, <1>2, <1>6
  <2>2. \A m \in Active : account[m] # c
    BY <1>1, <2>1 DEF RemovalsLooked
  <2>3. RemovalsLooked'
    <3>1. ASSUME NEW s \in Requests, pc'[s] = "delete"
          PROVE  /\ req'[s].op = "deleteVenue" => looked'[s] = {}
                 /\ req'[s].op = "removeCred" => \A m \in looked'[s] : account'[m] # req'[s].cred
      <4>1. pc[s] = "delete"
        BY <1>3, <3>1
      <4>2. req[s].op = "removeCred" => req[s].cred # NoCred
        BY DeskAssumption DEF BookedPlaces, Creds, DeskAssumption
      <4>3. \A m \in looked[s] : account'[m] \in {NoCred, account[m]}
        BY <1>1 DEF DeskTypeOK
      <4> QED
        BY <1>1, <2>1, <4>1, <4>2, <4>3 DEF RemovalsLooked
    <3> QED
      BY <3>1 DEF RemovalsLooked
  <2>4. \A s \in Requests : pc[s] \notin {"reserve", "save"}
    BY <2>1 DEF Booking, BookedPlaces
  <2>5. BookingsCanSave'
    BY <1>3, <2>4 DEF BookingsCanSave
  <2>6. HeldHaveRows'
    <3>1. ASSUME NEW m \in held, m = FirstMatch \/ pc'[m] = "done"
          PROVE  row'[m] = "active" /\ account'[m] \in creds'
      <4>1. m \in Matches /\ (m = FirstMatch \/ m \in Requests)
        BY DEF DeskTypeOK, Matches
      <4>2. m = FirstMatch \/ pc[m] \in {"save", "done"}
        BY Zenon DEF BookedPlaces
      <4>3. row[m] = "active" /\ account[m] \in creds
        BY <2>1, <2>4, <4>1, <4>2 DEF HeldHaveRows
      <4>4. account[m] # c
        BY <2>2, <4>1, <4>3 DEF Active
      <4> QED
        BY <1>1, <4>1, <4>3, <4>4
    <3> QED
      BY <1>1, <3>1 DEF HeldHaveRows
  <2> QED
    BY <2>3, <2>5, <2>6
<1> QED
  BY <1>4, <1>5, <1>6

(* A booking lists the credentials.                                        *)
LEMMA DeskLists ==
    ASSUME OwnerInv, DeskInv, NEW r \in Requests, ListForBooking(r)
    PROVE  DeskInv'
<1> USE DEF DeskInv
<1>1. /\ UNCHANGED <<req, row, account, held, creds, venue, used, looked, raced>>
      /\ left' = [left EXCEPT ![r] = creds] /\ pc[r] = "creds" /\ req[r].op = "book"
  BY DEF ListForBooking, Check, At, Goto, Respond, venueVars, bookingVars
<1>2. PICK l \in {"reserve", "done"} :
          pc' = [pc EXCEPT ![r] = l] /\ faults' \in {faults, faults + 1}
  BY DEF ListForBooking, Check, Goto, Respond, Works, Fails
<1>3. /\ pc'[r] = l /\ \A s \in Requests : s # r => pc'[s] = pc[s]
      /\ faults' \in Nat /\ (faults' = 0 => faults' = faults)
  BY <1>2, DeskMoves
<1>4. DeskTypeOK'
  BY <1>1, <1>3 DEF DeskTypeOK
<1>5. BookedPlaces'
  BY <1>1, <1>3 DEF BookedPlaces, DeskTypeOK, Matches
<1>6. RemovalsLooked => RemovalsLooked'
  BY <1>1, <1>3 DEF RemovalsLooked
<1>7. BookingsCanSave => BookingsCanSave'
  BY <1>1, <1>3 DEF BookingsCanSave, DeskTypeOK
<1>8. HeldHaveRows => HeldHaveRows'
  BY <1>1, <1>3 DEF HeldHaveRows, BookedPlaces, DeskTypeOK, Matches
<1> QED
  BY <1>1, <1>3, <1>4, <1>5, <1>6, <1>7, <1>8

(* One of them reserves the court, or fails and the next one is asked.     *)
LEMMA DeskReserves ==
    ASSUME OwnerInv, DeskInv, NEW r \in Requests, NEW c \in Creds, Reserve(r, c)
    PROVE  DeskInv'
<1> USE DEF DeskInv
<1>1. /\ UNCHANGED <<req, row, account, creds, venue, looked, raced>>
      /\ pc[r] = "reserve" /\ req[r].op = "book" /\ c \in left[r]
  BY DEF Reserve, At, Goto, Respond, venueVars
<1>2. r \notin held
  BY <1>1, DeskAssumption DEF BookedPlaces, DeskTypeOK, Matches, DeskAssumption
<1>3. \A s \in Requests : req[s].op = "cancel" => req[s].match # r
  BY <1>1, DeskAssumption DEF BookedPlaces, DeskAssumption
<1>4. CASE /\ Works /\ held' = held \cup {r} /\ used' = [used EXCEPT ![r] = c]
           /\ Goto(r, "save") /\ UNCHANGED left
  <2>1. /\ pc'[r] = "save" /\ \A s \in Requests : s # r => pc'[s] = pc[s]
        /\ faults' = faults
    BY <1>4, DeskMoves DEF Goto, Works
  <2>2. DeskTypeOK'
    BY <1>1, <1>4, <2>1 DEF DeskTypeOK, Matches
  <2>3. BookedPlaces'
    <3>1. \A m \in held' : m = FirstMatch \/ pc'[m] \in {"save", "done"}
      BY <1>4, <2>1 DEF BookedPlaces, DeskTypeOK, Matches
    <3>2. \A s \in Requests : req[s].op = "cancel" =>
              req[s].match = FirstMatch \/ pc'[req[s].match] \in {"save", "done"}
      BY <1>3, <2>1 DEF BookedPlaces, Matches
    <3>3. \A s \in Requests :
              pc'[s] = "mark" => req[s].op = "cancel" /\ req[s].match \notin held'
      BY <1>3, <1>4, <2>1 DEF BookedPlaces
    <3>4. \A m \in Requests :
              pc'[m] # "done" => row[m] = "none" /\ \A s \in Requests : m \notin looked[s]
      BY <1>1, <2>1 DEF BookedPlaces
    <3>5. \A s \in Requests : pc'[s] \in {"reserve", "save"} => req[s].op = "book"
      BY <1>1, <2>1 DEF BookedPlaces
    <3> QED
      BY <1>1, <3>1, <3>2, <3>3, <3>4, <3>5 DEF BookedPlaces
  <2>4. RemovalsLooked => RemovalsLooked'
    BY <1>1, <2>1 DEF RemovalsLooked
  <2>5. BookingsCanSave => BookingsCanSave'
    BY <1>1, <1>4, <2>1 DEF BookingsCanSave, DeskTypeOK
  <2>6. HeldHaveRows => HeldHaveRows'
    BY <1>1, <1>4, <2>1, DeskAssumption DEF HeldHaveRows, DeskTypeOK, Matches, DeskAssumption
  <2> QED
    BY <1>1, <2>1, <2>2, <2>3, <2>4, <2>5, <2>6
<1>5. CASE /\ Fails /\ left' = [left EXCEPT ![r] = @ \ {c}]
           /\ IF left'[r] = {} THEN Respond(r, "error") ELSE Goto(r, "reserve")
           /\ UNCHANGED <<held, used>>
  <2>1. PICK l \in {"reserve", "done"} : pc' = [pc EXCEPT ![r] = l]
    BY <1>5 DEF Goto, Respond
  <2>2. /\ pc'[r] = l /\ \A s \in Requests : s # r => pc'[s] = pc[s]
        /\ faults' \in Nat /\ faults' # 0
    <3>1. faults' = faults + 1 /\ faults \in Nat
      BY <1>5 DEF Fails, DeskTypeOK
    <3>2. faults' \in {faults, faults + 1} /\ faults' \in Nat /\ faults' # 0
      BY <3>1
    <3> QED
      BY <2>1, <3>2, DeskMoves
  <2>3. DeskTypeOK'
    BY <1>1, <1>5, <2>2 DEF DeskTypeOK
  <2>4. BookedPlaces'
    BY <1>1, <1>2, <1>3, <1>5, <2>2 DEF BookedPlaces, DeskTypeOK, Matches
  <2> QED
    BY <2>2, <2>3, <2>4
<1> QED
  BY <1>4, <1>5 DEF Reserve

(* The row is written: with no fault and no race nothing refuses it.       *)
LEMMA DeskSaves ==
    ASSUME OwnerInv, DeskInv, NEW r \in Requests, SaveRow(r)
    PROVE  DeskInv'
<1> USE DEF DeskInv
<1>1. /\ UNCHANGED <<req, creds, venue, held, left, used, looked, raced>>
      /\ pc[r] = "save" /\ pc' = [pc EXCEPT ![r] = "done"] /\ faults' \in {faults, faults + 1}
  BY DEF SaveRow, Accepted, Denied, At, Respond, Works, Fails, deskVars, venueVars, jobVars
<1>2. /\ pc'[r] = "done" /\ \A s \in Requests : s # r => pc'[s] = pc[s]
      /\ faults' \in Nat /\ (faults' = 0 => faults' = faults)
  BY <1>1, DeskMoves
<1>3. \A s \in Requests : r \notin looked[s]
  BY <1>1 DEF BookedPlaces
<1>4. \/ row' = row /\ account' = account
      \/ /\ row' = [row EXCEPT ![r] = "active"]
         /\ account' = [account EXCEPT ![r] = used[r]] /\ used[r] \in creds
  BY DEF SaveRow, Denied, deskVars
<1>5. \A m \in Matches : m # r => row'[m] = row[m] /\ account'[m] = account[m]
  BY <1>4 DEF DeskTypeOK
<1>6. DeskTypeOK'
  BY <1>1, <1>2, <1>4 DEF DeskTypeOK, Matches
<1>7. BookedPlaces'
  <2>1. \A m \in held : m = FirstMatch \/ pc'[m] \in {"save", "done"}
    BY <1>2 DEF BookedPlaces, DeskTypeOK, Matches
  <2>2. \A s \in Requests : req[s].op = "cancel" =>
            req[s].match = FirstMatch \/ pc'[req[s].match] \in {"save", "done"}
    BY <1>2 DEF BookedPlaces, Matches
  <2>3. \A m \in Requests :
            pc'[m] # "done" => row'[m] = "none" /\ \A s \in Requests : m \notin looked[s]
    BY <1>2, <1>5 DEF BookedPlaces, Matches
  <2>4. \A s \in Requests : /\ pc'[s] \in {"reserve", "save"} => req[s].op = "book"
                            /\ pc'[s] = "mark" =>
                                   req[s].op = "cancel" /\ req[s].match \notin held
    BY <1>2 DEF BookedPlaces
  <2> QED
    BY <1>1, <2>1, <2>2, <2>3, <2>4 DEF BookedPlaces
<1>8. RemovalsLooked => RemovalsLooked'
  <2>1. \A s \in Requests : \A m \in looked[s] : m \in Matches /\ account'[m] = account[m]
    BY <1>3, <1>5 DEF DeskTypeOK
  <2>2. \A s \in Requests : pc'[s] = "delete" => pc[s] = "delete"
    BY <1>2
  <2> QED
    BY <1>1, <2>1, <2>2 DEF RemovalsLooked
<1>9. BookingsCanSave => BookingsCanSave'
  BY <1>1, <1>2 DEF BookingsCanSave
<1>10. ASSUME faults' = 0, BookingsCanSave, HeldHaveRows
       PROVE  HeldHaveRows'
  <2>1. used[r] \in creds
    BY <1>1, <1>10 DEF BookingsCanSave
  <2>2. venue
    BY <2>1 DEF BookedPlaces
  <2>3. row' = [row EXCEPT ![r] = "active"] /\ account' = [account EXCEPT ![r] = used[r]]
    BY <1>10, <2>1, <2>2 DEF SaveRow, Denied, Fails, DeskTypeOK
  <2>4. row'[r] = "active" /\ account'[r] \in creds
    BY <2>1, <2>3 DEF DeskTypeOK, Matches
  <2> QED
    BY <1>1, <1>2, <1>5, <1>10, <2>4 DEF HeldHaveRows, DeskTypeOK, Matches
<1> QED
  BY <1>1, <1>2, <1>6, <1>7, <1>8, <1>9, <1>10

(* A cancellation: its row and credential are found, the court is given    *)
(* back, and only then is the row marked.                                  *)
LEMMA DeskCancels ==
    ASSUME OwnerInv, DeskInv, NEW r \in Requests,
           FindRow(r) \/ CancelMatch(r) \/ (MarkCanceled(r) /\ ~Denied(r, "cancel", "mark", TRUE))
    PROVE  DeskInv'
<1> USE DEF DeskInv
<1>1. CASE FindRow(r)
  <2>1. /\ UNCHANGED <<req, row, account, held, creds, venue, left, looked, raced>>
        /\ used' = [used EXCEPT ![r] = account[req[r].match]] /\ pc[r] = "row"
    BY <1>1 DEF FindRow, Check, At, Goto, Respond, venueVars, bookingVars
  <2>2. PICK l \in {"cred", "done"} :
            pc' = [pc EXCEPT ![r] = l] /\ faults' \in {faults, faults + 1}
    BY <1>1 DEF FindRow, Check, Goto, Respond, Works, Fails
  <2>3. /\ pc'[r] = l /\ \A s \in Requests : s # r => pc'[s] = pc[s]
        /\ faults' \in Nat /\ (faults' = 0 => faults' = faults)
    BY <2>2, DeskMoves
  <2>4. DeskTypeOK'
    BY <2>1, <2>3 DEF DeskTypeOK
  <2>5. BookedPlaces'
    BY <2>1, <2>3 DEF BookedPlaces, DeskTypeOK, Matches
  <2>6. (RemovalsLooked => RemovalsLooked') /\ (HeldHaveRows => HeldHaveRows')
    BY <2>1, <2>3 DEF RemovalsLooked, HeldHaveRows, BookedPlaces, DeskTypeOK, Matches
  <2>7. BookingsCanSave => BookingsCanSave'
    BY <2>1, <2>3 DEF BookingsCanSave, DeskTypeOK
  <2> QED
    BY <2>1, <2>3, <2>4, <2>5, <2>6, <2>7
<1>2. CASE CancelMatch(r)
  <2>1. /\ UNCHANGED <<req, row, account, creds, venue, left, used, looked, raced>>
        /\ pc[r] = "cancel" /\ req[r].op = "cancel" /\ held' \subseteq held
    BY <1>2 DEF CancelMatch, At, Goto, Respond, venueVars, jobVars
  <2>2. PICK l \in {"mark", "done"} :
            pc' = [pc EXCEPT ![r] = l] /\ faults' \in {faults, faults + 1}
    BY <1>2 DEF CancelMatch, Goto, Respond, Works, Fails
  <2>3. /\ pc'[r] = l /\ \A s \in Requests : s # r => pc'[s] = pc[s]
        /\ faults' \in Nat /\ (faults' = 0 => faults' = faults)
    BY <2>2, DeskMoves
  <2>4. l = "mark" => req[r].match \notin held'
    BY <1>2, <2>2 DEF CancelMatch, Goto, Respond, OwnerInv, OwnerTypeOK
  <2>5. DeskTypeOK'
    BY <2>1, <2>3 DEF DeskTypeOK
  <2>6. BookedPlaces'
    BY <2>1, <2>3, <2>4 DEF BookedPlaces, DeskTypeOK, Matches
  <2>7. (RemovalsLooked => RemovalsLooked') /\ (BookingsCanSave => BookingsCanSave')
    BY <2>1, <2>3 DEF RemovalsLooked, BookingsCanSave
  <2>8. HeldHaveRows => HeldHaveRows'
    BY <2>1, <2>3 DEF HeldHaveRows, BookedPlaces, DeskTypeOK, Matches
  <2> QED
    BY <2>1, <2>3, <2>5, <2>6, <2>7, <2>8
<1>3. CASE MarkCanceled(r) /\ ~Denied(r, "cancel", "mark", TRUE)
  <2> DEFINE gone == req[r].match
  <2>1. /\ UNCHANGED <<req, account, held, creds, venue, left, used, looked, raced, faults>>
        /\ row' = [row EXCEPT ![gone] = IF @ = "active" THEN "canceled" ELSE @]
        /\ pc[r] = "mark" /\ pc' = [pc EXCEPT ![r] = "done"]
    BY <1>3 DEF MarkCanceled, Accepted, At, Respond, Works, venueVars, jobVars
  <2>2. /\ pc'[r] = "done" /\ \A s \in Requests : s # r => pc'[s] = pc[s]
    BY <2>1, DeskMoves
  <2>3. gone \notin held /\ \A n \in Matches : n # gone => row'[n] = row[n]
    BY <2>1 DEF BookedPlaces, DeskTypeOK
  <2>4. DeskTypeOK' /\ \A n \in Matches : row[n] = "none" => row'[n] = "none"
    BY <2>1 DEF DeskTypeOK
  <2>5. BookedPlaces'
    BY <2>1, <2>2, <2>4 DEF BookedPlaces, DeskTypeOK, Matches
  <2>6. (RemovalsLooked => RemovalsLooked') /\ (BookingsCanSave => BookingsCanSave')
    BY <2>1, <2>2 DEF RemovalsLooked, BookingsCanSave
  <2>7. \A n \in held : row'[n] = row[n] /\ (n = FirstMatch \/ pc'[n] = pc[n])
    BY <2>1, <2>2, <2>3 DEF BookedPlaces, DeskTypeOK, Matches
  <2>8. HeldHaveRows => HeldHaveRows'
    BY <2>1, <2>7 DEF HeldHaveRows
  <2> QED
    BY <2>1, <2>4, <2>5, <2>6, <2>8
<1> QED
  BY <1>1, <1>2, <1>3

LEMMA DeskInitially == Init => DeskInv
<1> SUFFICES ASSUME Init PROVE DeskInv
  OBVIOUS
<1> USE DEF Init, RequestsInit, DeskInit
<1>1. DeskTypeOK
  BY DEF DeskTypeOK, Matches, Creds
<1>2. BookedPlaces
  BY DeskAssumption DEF BookedPlaces, NoRequest, Matches, DeskAssumption
<1>3. RemovalsLooked /\ BookingsCanSave
  BY DEF RemovalsLooked, BookingsCanSave
<1>4. HeldHaveRows
  BY DEF HeldHaveRows, Matches
<1> QED
  BY <1>1, <1>2, <1>3, <1>4 DEF DeskInv

LEMMA DeskNext == OwnerInv /\ DeskInv /\ [Next]_adminVars => DeskInv'
<1> SUFFICES ASSUME OwnerInv, DeskInv, [Next]_adminVars PROVE DeskInv'
  OBVIOUS
<1>1. CASE UNCHANGED adminVars \/ (Around /\ UNCHANGED deskVars)
  <2>1. UNCHANGED <<pc, req, faults, row, account, held, creds, left, used, looked, raced, venue>>
    BY <1>1 DEF Around, ExpireCache, ChangeRights, adminVars, deskVars, requestVars
  <2> QED
    BY <2>1, DeskAside DEF DeskInv, DeskTypeOK
<1>2. ASSUME NEW r \in Requests, AccountRequest(r) \/ AccountStep(r), UNCHANGED deskVars
      PROVE  DeskInv'
  BY <1>2, DeskRequests, DeskAccountStep
<1>3. ASSUME NEW r \in Requests, DeskRequest(r), UNCHANGED accountVars
      PROVE  DeskInv'
  BY <1>3, DeskRequests
<1>4. ASSUME NEW r \in Requests, DeskStep(r)
      PROVE  DeskInv'
  <2>1. "delete" # "save" /\ "delete" # "done" /\ "insertCred" # "save"
        /\ "insertCred" # "done" /\ "mark" # "save" /\ "mark" # "done"
    OBVIOUS
  <2>2. CASE \/ RemoveGroup(r) \/ DeleteVenue(r) \/ InsertCred(r) \/ DeleteCred(r)
             \/ MarkCanceled(r)
    BY <2>1, <2>2, DeskQuietStep, DeskAllGoes, DeskCredComes, DeskCredGoes, DeskCancels
  <2>3. CASE \/ AllowCheck(r) \/ SetAutoBookingAllowed(r) \/ UpsertGroup(r)
             \/ CheckGroup(r) \/ CreateVenue(r) \/ UpdateVenue(r)
             \/ FindVenue(r) \/ CheckLogin(r) \/ JobReads(r) \/ GetCred(r)
    BY <2>3, DeskQuietStep
  <2>4. CASE LookAtVenue(r) \/ LookAtCred(r) \/ ListForBooking(r)
             \/ (\E c \in Creds : Reserve(r, c)) \/ SaveRow(r)
    BY <2>4, DeskLook, DeskLists, DeskReserves, DeskSaves
  <2>5. CASE FindRow(r) \/ CancelMatch(r)
    BY <2>5, DeskCancels
  <2> QED
    BY <1>4, <2>2, <2>3, <2>4, <2>5 DEF DeskStep
<1> QED
  BY <1>1, <1>2, <1>3, <1>4 DEF Next

THEOREM DeskInvariant == Spec => []DeskInv
BY DeskInitially, DeskNext, OwnerInvariant, PTL DEF Spec

(* With no fault, a court held through the service has a row whose         *)
(* credential exists, unless its group was removed or a booking ran while  *)
(* a venue or an account was removed (venue_service.go,                    *)
(* venue_credential_service.go).                                           *)
THEOREM CourtsAreGivenBack == Spec => []CourtsCanBeGivenBack
<1>1. DeskInv => CourtsCanBeGivenBack
  BY DEF DeskInv, HeldHaveRows, CourtsCanBeGivenBack
<1> QED
  BY <1>1, DeskInvariant, PTL
-----------------------------------------------------------------------------
(* The audit trail of the feature flag.                                    *)

FlagTypeOK ==
    /\ flag \in Overrides /\ old \in [Requests -> Overrides]
    /\ trail \in [Overrides \X Overrides -> Nat]
    /\ faults \in Nat

FlagPlaces ==
    \A r \in Requests :
        /\ pc[r] = "authorize" => req[r].op \in {"owner", "flag"}
        /\ req[r].op = "flag" => req[r].value \in Overrides
        /\ pc[r] \in {"lockFlag", "writeFlag", "audit"} => req[r].op = "flag"
        /\ pc[r] = "writeFlag" => flagLock = r /\ old[r] = flag

(* The changes that are still to be recorded.                              *)
ToEnter(v) == {r \in Requests : pc[r] = "audit" /\ req[r].value = v}
ToLeave(v) == {r \in Requests : pc[r] = "audit" /\ old[r] = v}

(* The trail with them, read as steps, leads from "unset" to the override  *)
(* stored.                                                                 *)
TrailLeads ==
    \A v \in Overrides :
        Entering(v) + Cardinality(ToEnter(v)) + One(v = "unset")
            = Leaving(v) + Cardinality(ToLeave(v)) + One(v = flag)

FlagInv == FlagTypeOK /\ FlagPlaces /\ (faults = 0 => TrailLeads)

(* A step that writes no flag and ends no change leaves the trail as it is. *)
LEMMA TrailStays ==
    ASSUME TrailLeads, UNCHANGED <<flag, trail>>,
           \A s \in Requests :
               \/ pc[s] # "audit" /\ pc'[s] # "audit"
               \/ pc'[s] = pc[s] /\ req'[s] = req[s] /\ old'[s] = old[s]
    PROVE  TrailLeads'
<1>1. ASSUME NEW v \in Overrides
      PROVE  Entering(v)' + Cardinality(ToEnter(v)') + One(v = "unset")
                 = Leaving(v)' + Cardinality(ToLeave(v)') + One(v = flag')
  <2>1. ToEnter(v)' = ToEnter(v) /\ ToLeave(v)' = ToLeave(v)
    BY DEF ToEnter, ToLeave
  <2>2. Entering(v)' = Entering(v) /\ Leaving(v)' = Leaving(v)
    BY DEF Entering, Leaving
  <2> QED
    BY <2>1, <2>2 DEF TrailLeads
<1> QED
  BY <1>1 DEF TrailLeads

(* Requests that have nothing to do with the flag move among themselves.   *)
LEMMA FlagAside ==
    ASSUME FlagInv, UNCHANGED <<req, flag, flagLock, old, trail>>,
           faults' \in Nat, faults' >= faults,
           \A s \in Requests :
               \/ pc'[s] = pc[s]
               \/ /\ pc[s] # "audit"
                  /\ pc'[s] \notin {"authorize", "lockFlag", "writeFlag", "audit"}
    PROVE  FlagInv'
<1> USE DEF FlagInv
<1>1. FlagTypeOK' /\ FlagPlaces'
  BY DEF FlagTypeOK, FlagPlaces
<1>2. TrailLeads => TrailLeads'
  BY TrailStays
<1>3. faults' = 0 => faults = 0
  BY DEF FlagTypeOK
<1> QED
  BY <1>1, <1>2, <1>3

(* A step of r of that kind, or one that goes on to lock the flag.         *)
NotTheFlag(r) ==
    /\ pc[r] # "audit" /\ faults' \in {faults, faults + 1} /\ req' = req
    /\ \E l \in (Revoking \cup Elsewhere) \ {"authorize", "lockFlag", "writeFlag", "audit"} :
           pc' = [pc EXCEPT ![r] = l]

LEMMA NotTheFlagKeeps ==
    ASSUME OwnerInv, FlagInv, NEW r \in Requests, NotTheFlag(r),
           UNCHANGED <<flag, flagLock, old, trail>>
    PROVE  FlagInv'
<1>1. \A s \in Requests :
          \/ pc'[s] = pc[s]
          \/ /\ pc[s] # "audit"
             /\ pc'[s] \notin {"authorize", "lockFlag", "writeFlag", "audit"}
  BY DEF NotTheFlag, OwnerInv, OwnerTypeOK
<1>2. faults' \in Nat /\ faults' >= faults /\ req' = req
  BY DEF NotTheFlag, FlagInv, FlagTypeOK
<1> QED
  BY <1>1, <1>2, FlagAside

LEMMA FlagReceive ==
    ASSUME OwnerInv, FlagInv, NEW r \in Requests, NEW what, NEW l, Receive(r, what, l),
           UNCHANGED <<flag, flagLock, old, trail>>,
           l \notin {"lockFlag", "writeFlag", "audit"},
           l = "authorize" => what.op \in {"owner", "flag"},
           what.op = "flag" => what.value \in Overrides
    PROVE  FlagInv'
<1> USE DEF FlagInv
<1>1. /\ pc[r] = "idle" /\ pc'[r] = l /\ req'[r] = what /\ faults' = faults
      /\ \A s \in Requests : s # r => pc'[s] = pc[s] /\ req'[s] = req[s]
  BY DEF Receive, OwnerInv, OwnerTypeOK
<1>2. FlagTypeOK' /\ FlagPlaces'
  BY <1>1 DEF FlagTypeOK, FlagPlaces
<1>3. \A s \in Requests :
          \/ pc[s] # "audit" /\ pc'[s] # "audit"
          \/ pc'[s] = pc[s] /\ req'[s] = req[s] /\ old'[s] = old[s]
  BY <1>1
<1>4. TrailLeads => TrailLeads'
  BY <1>3, TrailStays
<1> QED
  BY <1>1, <1>2, <1>4

LEMMA FlagRequest ==
    ASSUME OwnerInv, FlagInv, NEW r \in Requests,
           AccountRequest(r) \/ (DeskRequest(r) /\ UNCHANGED accountVars)
    PROVE  FlagInv'
<1>1. UNCHANGED <<flag, flagLock, old, trail>>
  BY DEF AccountRequest, LogIn, Seed, SetUserServerOwner, SetFeatureFlag,
         AdminGroupsFor, accountVars
<1>2. \A l \in {"find", "cached", "isOwner", "delete", "upsert", "checkGroup", "check",
                "findVenue", "row", "group"} :
          l \notin {"authorize", "lockFlag", "writeFlag", "audit"}
  OBVIOUS
<1>3. ASSUME NEW e \in Logins, LogIn(r, e) \/ Seed(r, e)
      PROVE  FlagInv'
  BY <1>1, <1>2, <1>3, FlagReceive DEF LogIn, Seed
<1>4. ASSUME NEW a \in KnownUsers, NEW u \in KnownUsers, NEW on \in BOOLEAN,
             SetUserServerOwner(r, a, u, on)
      PROVE  FlagInv'
  BY <1>1, <1>4, FlagReceive DEF SetUserServerOwner
<1>5. ASSUME NEW a \in KnownUsers, NEW v \in Overrides, SetFeatureFlag(r, a, v)
      PROVE  FlagInv'
  BY <1>1, <1>5, FlagReceive DEF SetFeatureFlag
<1>6. CASE AdminGroupsFor(r)
  BY <1>1, <1>2, <1>6, FlagReceive DEF AdminGroupsFor
<1>7. CASE DeskRequest(r)
  <2>1. PICK what, l : /\ Receive(r, what, l) /\ what.op # "flag"
                       /\ l \in {"isOwner", "delete", "upsert", "checkGroup", "check",
                                 "findVenue", "row", "group"}
    BY <1>7 DEF DeskRequest
  <2> QED
    BY <1>1, <1>2, <2>1, FlagReceive
<1>8. AccountRequest(r) => FlagInv'
  BY <1>3, <1>4, <1>5, <1>6 DEF AccountRequest
<1> QED
  BY <1>7, <1>8

LEMMA FlagDeskStep ==
    ASSUME OwnerInv, FlagInv, NEW r \in Requests, DeskStep(r), UNCHANGED accountVars
    PROVE  FlagInv'
<1> USE DEF NotTheFlag, Goto, Respond, Works, Fails, At, Check, Accepted, Denied,
            Revoking, Elsewhere
<1>0. UNCHANGED <<flag, flagLock, old, trail>>
  BY DEF accountVars
<1>1. CASE AllowCheck(r) \/ SetAutoBookingAllowed(r) \/ RemoveGroup(r) \/ UpsertGroup(r)
  <2>1. NotTheFlag(r)
    BY <1>1 DEF AllowCheck, SetAutoBookingAllowed, RemoveGroup, UpsertGroup
  <2> QED
    BY <1>0, <2>1, NotTheFlagKeeps
<1>2. CASE CheckGroup(r) \/ CreateVenue(r) \/ UpdateVenue(r)
           \/ LookAtVenue(r) \/ DeleteVenue(r)
  <2>1. NotTheFlag(r)
    BY <1>2 DEF CheckGroup, CreateVenue, UpdateVenue, LookAtVenue, DeleteVenue
  <2> QED
    BY <1>0, <2>1, NotTheFlagKeeps
<1>3. CASE FindVenue(r) \/ CheckLogin(r) \/ InsertCred(r) \/ LookAtCred(r) \/ DeleteCred(r)
  <2>1. NotTheFlag(r)
    BY <1>3 DEF FindVenue, CheckLogin, InsertCred, LookAtCred, DeleteCred
  <2> QED
    BY <1>0, <2>1, NotTheFlagKeeps
<1>4. CASE JobReads(r) \/ ListForBooking(r) \/ (\E c \in Creds : Reserve(r, c)) \/ SaveRow(r)
  <2>1. NotTheFlag(r)
    BY <1>4 DEF JobReads, ListForBooking, Reserve, SaveRow
  <2> QED
    BY <1>0, <2>1, NotTheFlagKeeps
<1>5. CASE FindRow(r) \/ GetCred(r) \/ CancelMatch(r) \/ MarkCanceled(r)
  <2>1. NotTheFlag(r)
    BY <1>5 DEF FindRow, GetCred, CancelMatch, MarkCanceled
  <2> QED
    BY <1>0, <2>1, NotTheFlagKeeps
<1> QED
  BY <1>1, <1>2, <1>3, <1>4, <1>5 DEF DeskStep

(* How a step of r moves it.                                               *)
LEMMA FlagMoves ==
    ASSUME OwnerInv, FlagInv, NEW r \in Requests, NEW l,
           pc' = [pc EXCEPT ![r] = l], faults' \in {faults, faults + 1}
    PROVE  /\ pc'[r] = l /\ \A s \in Requests : s # r => pc'[s] = pc[s]
           /\ faults' \in Nat /\ (faults' = 0 => faults' = faults)
BY DEF OwnerInv, OwnerTypeOK, FlagInv, FlagTypeOK

(* A request asks for the flag's lock and, when it has it, knows the       *)
(* override it replaces.                                                   *)
LEMMA FlagLockStep ==
    ASSUME OwnerInv, FlagInv, NEW r \in Requests, Authorize(r) \/ LockFlag(r)
    PROVE  FlagInv'
<1> USE DEF FlagInv
<1>1. UNCHANGED <<req, flag, trail>> /\ faults' \in {faults, faults + 1}
  BY DEF Authorize, LockFlag, Works, Fails, Goto, Respond, accountVars
<1>2. PICK l : pc' = [pc EXCEPT ![r] = l] /\ l # "audit"
  BY DEF Authorize, LockFlag, Goto, Respond
<1>3. /\ pc'[r] = l /\ \A s \in Requests : s # r => pc'[s] = pc[s]
      /\ faults' \in Nat /\ (faults' = 0 => faults' = faults)
  BY <1>1, <1>2, FlagMoves
<1>4. pc[r] # "audit" /\ old' = [s \in Requests |-> old'[s]]
      /\ \A s \in Requests : s # r => old'[s] = old[s]
  BY DEF Authorize, LockFlag, accountVars, FlagTypeOK
<1>5. old'[r] \in Overrides
  BY DEF Authorize, LockFlag, accountVars, FlagTypeOK
<1>6. FlagTypeOK'
  BY <1>1, <1>3, <1>4, <1>5 DEF FlagTypeOK
<1>7. FlagPlaces'
  <2>1. CASE Authorize(r)
    <3>1. l \in {"done", "target", "lockFlag"} /\ (l = "lockFlag" => req[r].op = "flag")
      BY <1>2, <2>1 DEF Authorize, Goto, Respond, FlagPlaces, OwnerInv, OwnerTypeOK
    <3> QED
      BY <1>1, <1>3, <2>1, <3>1 DEF Authorize, accountVars, FlagPlaces
  <2>2. CASE LockFlag(r) /\ l # "writeFlag"
    <3>1. l = "done" /\ UNCHANGED <<flagLock, old>>
      BY <1>2, <2>2 DEF LockFlag, Goto, Respond, OwnerInv, OwnerTypeOK
    <3> QED
      BY <1>1, <1>3, <3>1 DEF FlagPlaces
  <2>3. CASE LockFlag(r) /\ l = "writeFlag"
    <3>1. /\ flagLock = NoReq /\ flagLock' = r /\ old'[r] = flag /\ pc[r] = "lockFlag"
      BY <1>2, <2>3 DEF LockFlag, Goto, Respond, OwnerInv, OwnerTypeOK, FlagTypeOK
    <3>2. \A s \in Requests : pc[s] # "writeFlag"
      BY <3>1, RequestsAssumption DEF FlagPlaces, RequestsAssumption
    <3> QED
      BY <1>1, <1>3, <2>3, <3>1, <3>2 DEF FlagPlaces
  <2> QED
    BY <2>1, <2>2, <2>3
<1>8. \A s \in Requests :
          \/ pc[s] # "audit" /\ pc'[s] # "audit"
          \/ pc'[s] = pc[s] /\ req'[s] = req[s] /\ old'[s] = old[s]
  BY <1>1, <1>2, <1>3, <1>4
<1>9. TrailLeads => TrailLeads'
  BY <1>1, <1>8, TrailStays
<1> QED
  BY <1>3, <1>6, <1>7, <1>9

(* The flag is written: the change is still to be recorded.                *)
LEMMA FlagWriteStep ==
    ASSUME IsFiniteSet(Requests), OwnerInv, FlagInv, NEW r \in Requests, WriteFlag(r)
    PROVE  FlagInv'
<1> DEFINE u == old[r]
           w == req[r].value
<1> USE DEF FlagInv
<1>1. /\ UNCHANGED <<req, old, trail>> /\ faults' \in {faults, faults + 1}
      /\ pc[r] = "writeFlag" /\ flag = u /\ flagLock = r /\ flagLock' = NoReq
      /\ u \in Overrides /\ w \in Overrides
  BY DEF WriteFlag, Works, Fails, Goto, Respond, FlagPlaces, FlagTypeOK
<1>2. PICK l \in {"done", "audit"} : pc' = [pc EXCEPT ![r] = l]
  BY DEF WriteFlag, Goto, Respond
<1>3. /\ pc'[r] = l /\ \A s \in Requests : s # r => pc'[s] = pc[s]
      /\ faults' \in Nat /\ (faults' = 0 => faults' = faults)
  BY <1>1, <1>2, FlagMoves
<1>4. /\ l = "audit" => flag' = w /\ u # w
      /\ l = "done" => flag' = flag
  BY <1>1, <1>2 DEF WriteFlag, Goto, Respond, OwnerInv, OwnerTypeOK
<1>5. FlagTypeOK'
  BY <1>1, <1>3, <1>4 DEF FlagTypeOK
<1>6. FlagPlaces'
  <2>1. \A s \in Requests : s # r => pc[s] # "writeFlag"
    BY <1>1 DEF FlagPlaces
  <2> QED
    BY <1>1, <1>3, <2>1 DEF FlagPlaces
<1>7. ASSUME TrailLeads
      PROVE  TrailLeads'
  <2>1. CASE l = "done"
    <3>1. \A s \in Requests :
              \/ pc[s] # "audit" /\ pc'[s] # "audit"
              \/ pc'[s] = pc[s] /\ req'[s] = req[s] /\ old'[s] = old[s]
      BY <1>1, <1>3, <2>1
    <3> QED
      BY <1>1, <1>4, <1>7, <2>1, <3>1, TrailStays
  <2>2. CASE l = "audit"
    <3>1. ASSUME NEW v \in Overrides
          PROVE  /\ Cardinality(ToEnter(v)') = Cardinality(ToEnter(v)) + One(v = w)
                 /\ Cardinality(ToLeave(v)') = Cardinality(ToLeave(v)) + One(v = u)
                 /\ Cardinality(ToEnter(v)) \in Nat /\ Cardinality(ToLeave(v)) \in Nat
      <4>1. ToEnter(v)' = (IF v = w THEN ToEnter(v) \cup {r} ELSE ToEnter(v))
        BY <1>1, <1>3, <2>2 DEF ToEnter
      <4>2. ToLeave(v)' = (IF v = u THEN ToLeave(v) \cup {r} ELSE ToLeave(v))
        BY <1>1, <1>3, <2>2 DEF ToLeave
      <4>3. r \notin ToEnter(v) /\ r \notin ToLeave(v)
        BY <1>1 DEF ToEnter, ToLeave
      <4>4. IsFiniteSet(ToEnter(v)) /\ IsFiniteSet(ToLeave(v))
        BY FS_Subset DEF ToEnter, ToLeave
      <4>5. Cardinality(ToEnter(v)) \in Nat /\ Cardinality(ToLeave(v)) \in Nat
        BY <4>4, FS_CardinalityType
      <4>6. /\ Cardinality(ToEnter(v) \cup {r}) = Cardinality(ToEnter(v)) + 1
            /\ Cardinality(ToLeave(v) \cup {r}) = Cardinality(ToLeave(v)) + 1
        BY <4>3, <4>4, FS_AddElement
      <4> QED
        BY <4>1, <4>2, <4>5, <4>6 DEF One
    <3>2. ASSUME NEW v \in Overrides
          PROVE  /\ Entering(v)' = Entering(v) /\ Entering(v) \in Nat
                 /\ Leaving(v)' = Leaving(v) /\ Leaving(v) \in Nat
      BY <1>1 DEF Entering, Leaving, FlagTypeOK, Overrides
    <3>3. flag' = w /\ flag = u /\ u # w
      BY <1>1, <1>4, <2>2
    <3>4. ASSUME NEW v \in Overrides
          PROVE  Entering(v)' + Cardinality(ToEnter(v)') + One(v = "unset")
                     = Leaving(v)' + Cardinality(ToLeave(v)') + One(v = flag')
      <4>1. Entering(v) + Cardinality(ToEnter(v)) + One(v = "unset")
                = Leaving(v) + Cardinality(ToLeave(v)) + One(v = flag)
        BY <1>7 DEF TrailLeads
      <4>2. One(v = u) + One(v = flag') = One(v = w) + One(v = flag)
        BY <3>3 DEF One
      <4> QED
        BY <3>1, <3>2, <4>1, <4>2 DEF One
    <3> QED
      BY <3>4 DEF TrailLeads
  <2> QED
    BY <2>1, <2>2
<1> QED
  BY <1>3, <1>5, <1>6, <1>7

(* The change is recorded.                                                 *)
LEMMA FlagAuditStep ==
    ASSUME IsFiniteSet(Requests), OwnerInv, FlagInv, NEW r \in Requests, AuditFlag(r)
    PROVE  FlagInv'
<1> DEFINE u == old[r]
           w == req[r].value
<1> USE DEF FlagInv
<1>1. /\ UNCHANGED <<req, old, flag, flagLock>> /\ faults' \in {faults, faults + 1}
      /\ pc[r] = "audit" /\ pc' = [pc EXCEPT ![r] = "done"]
      /\ u \in Overrides /\ w \in Overrides
  BY DEF AuditFlag, Works, Fails, Respond, FlagPlaces, FlagTypeOK
<1>2. /\ pc'[r] = "done" /\ \A s \in Requests : s # r => pc'[s] = pc[s]
      /\ faults' \in Nat /\ (faults' = 0 => faults' = faults)
  BY <1>1, FlagMoves
<1>3. trail' = trail \/ trail' = [trail EXCEPT ![<<u, w>>] = @ + 1]
  BY DEF AuditFlag
<1>4. faults' = 0 => trail' = [trail EXCEPT ![<<u, w>>] = @ + 1]
  BY DEF AuditFlag, Fails, FlagTypeOK
<1>5. FlagTypeOK'
  <2>1. trail' \in [Overrides \X Overrides -> Nat]
    BY <1>1, <1>3 DEF FlagTypeOK
  <2> QED
    BY <1>1, <1>2, <2>1 DEF FlagTypeOK
<1>6. FlagPlaces'
  BY <1>1, <1>2 DEF FlagPlaces
<1>7. ASSUME faults' = 0, TrailLeads
      PROVE  TrailLeads'
  <2>1. ASSUME NEW v \in Overrides
        PROVE  /\ Cardinality(ToEnter(v)') = Cardinality(ToEnter(v)) - One(v = w)
               /\ Cardinality(ToLeave(v)') = Cardinality(ToLeave(v)) - One(v = u)
               /\ Cardinality(ToEnter(v)) \in Nat /\ Cardinality(ToLeave(v)) \in Nat
    <3>1. ToEnter(v)' = (IF v = w THEN ToEnter(v) \ {r} ELSE ToEnter(v))
      BY <1>1, <1>2 DEF ToEnter
    <3>2. ToLeave(v)' = (IF v = u THEN ToLeave(v) \ {r} ELSE ToLeave(v))
      BY <1>1, <1>2 DEF ToLeave
    <3>3. (v = w => r \in ToEnter(v)) /\ (v = u => r \in ToLeave(v))
      BY <1>1 DEF ToEnter, ToLeave
    <3>4. IsFiniteSet(ToEnter(v)) /\ IsFiniteSet(ToLeave(v))
      BY FS_Subset DEF ToEnter, ToLeave
    <3>5. Cardinality(ToEnter(v)) \in Nat /\ Cardinality(ToLeave(v)) \in Nat
      BY <3>4, FS_CardinalityType
    <3>6. /\ v = w => Cardinality(ToEnter(v) \ {r}) = Cardinality(ToEnter(v)) - 1
          /\ v = u => Cardinality(ToLeave(v) \ {r}) = Cardinality(ToLeave(v)) - 1
      BY <3>3, <3>4, FS_RemoveElement
    <3> QED
      BY <3>1, <3>2, <3>5, <3>6 DEF One
  <2>2. \A a, b \in Overrides :
            /\ trail[<<a, b>>] \in Nat
            /\ trail'[<<a, b>>] = trail[<<a, b>>] + One(a = u /\ b = w)
    BY <1>1, <1>4, <1>7 DEF FlagTypeOK, One
  <2>3. ASSUME NEW v \in Overrides
        PROVE  /\ Entering(v)' = Entering(v) + One(v = w) /\ Entering(v) \in Nat
               /\ Leaving(v)' = Leaving(v) + One(v = u) /\ Leaving(v) \in Nat
    <3>1. Entering(v)' = Entering(v) + One(v = w) /\ Entering(v) \in Nat
      BY <1>1, <2>2 DEF Entering, Overrides, One
    <3>2. Leaving(v)' = Leaving(v) + One(v = u) /\ Leaving(v) \in Nat
      BY <1>1, <2>2 DEF Leaving, Overrides, One
    <3> QED
      BY <3>1, <3>2
  <2>4. ASSUME NEW v \in Overrides
        PROVE  Entering(v)' + Cardinality(ToEnter(v)') + One(v = "unset")
                   = Leaving(v)' + Cardinality(ToLeave(v)') + One(v = flag')
    <3>1. Entering(v) + Cardinality(ToEnter(v)) + One(v = "unset")
              = Leaving(v) + Cardinality(ToLeave(v)) + One(v = flag)
      BY <1>7 DEF TrailLeads
    <3> QED
      BY <1>1, <2>1, <2>3, <3>1 DEF One
  <2> QED
    BY <2>4 DEF TrailLeads
<1> QED
  BY <1>2, <1>5, <1>6, <1>7

LEMMA FlagAccountStep ==
    ASSUME IsFiniteSet(Requests), OwnerInv, FlagInv, NEW r \in Requests, AccountStep(r)
    PROVE  FlagInv'
<1> USE DEF NotTheFlag, Goto, Respond, Works, Fails, Revoking, Elsewhere, flagVars
<1>1. CASE FindIdentity(r) \/ InsertIdentity(r) \/ CommitIdentity(r)
  <2>1. NotTheFlag(r) /\ UNCHANGED flagVars
    BY <1>1 DEF FindIdentity, InsertIdentity, CommitIdentity, accountVars
  <2> QED
    BY <2>1, NotTheFlagKeeps
<1>2. CASE CheckTarget(r) \/ Grant(r)
  <2>1. NotTheFlag(r) /\ UNCHANGED flagVars
    BY <1>2 DEF CheckTarget, Grant, accountVars
  <2> QED
    BY <2>1, NotTheFlagKeeps
<1>3. CASE LockOwners(r) \/ CountOwners(r) \/ Revoke(r)
  <2>1. NotTheFlag(r) /\ UNCHANGED flagVars
    BY <1>3 DEF LockOwners, CountOwners, Revoke
  <2> QED
    BY <2>1, NotTheFlagKeeps
<1>4. CASE Authorize(r) \/ LockFlag(r) \/ WriteFlag(r) \/ AuditFlag(r)
  BY <1>4, FlagLockStep, FlagWriteStep, FlagAuditStep
<1>5. CASE ReadCache(r) \/ JoinScan(r) \/ (\E g \in Chats : ScanChat(r, g))
  <2>1. NotTheFlag(r) /\ UNCHANGED flagVars
    BY <1>5 DEF ReadCache, JoinScan, ScanChat, accountVars
  <2> QED
    BY <2>1, NotTheFlagKeeps
<1>6. CASE EndScan(r)
  <2>1. UNCHANGED <<req, flagVars>> /\ faults' \in {faults, faults + 1}
    BY <1>6 DEF EndScan
  <2>2. \A s \in Requests :
            pc'[s] = pc[s] \/ (pc[s] \in {"scan", "wait"} /\ pc'[s] = "done")
    BY <1>6 DEF EndScan
  <2>3. faults' \in Nat /\ faults' >= faults
    BY <2>1 DEF FlagInv, FlagTypeOK
  <2> QED
    BY <2>1, <2>2, <2>3, FlagAside
<1> QED
  BY <1>1, <1>2, <1>3, <1>4, <1>5, <1>6 DEF AccountStep

LEMMA FlagInit == Init => FlagInv
<1> SUFFICES ASSUME Init PROVE FlagInv
  OBVIOUS
<1> USE DEF Init, RequestsInit, AccountsInit
<1>1. FlagTypeOK /\ FlagPlaces
  BY DEF FlagTypeOK, FlagPlaces, NoRequest, Overrides
<1>2. ASSUME NEW v \in Overrides
      PROVE  Entering(v) + Cardinality(ToEnter(v)) + One(v = "unset")
                 = Leaving(v) + Cardinality(ToLeave(v)) + One(v = flag)
  <2>1. ToEnter(v) = {} /\ ToLeave(v) = {}
    BY DEF ToEnter, ToLeave
  <2>2. Entering(v) = 0 /\ Leaving(v) = 0
    BY DEF Entering, Leaving, Overrides
  <2> QED
    BY <2>1, <2>2
<1> QED
  BY <1>1, <1>2 DEF FlagInv, TrailLeads

LEMMA FlagNext ==
    ASSUME IsFiniteSet(Requests), OwnerInv, FlagInv, [Next]_adminVars
    PROVE  FlagInv'
<1>1. CASE Around \/ UNCHANGED adminVars
  <2>1. UNCHANGED <<pc, req, faults, flag, flagLock, old, trail>>
    BY <1>1 DEF Around, ExpireCache, ChangeRights, adminVars, accountVars, requestVars, flagVars
  <2> QED
    BY <2>1, FlagAside DEF FlagInv, FlagTypeOK
<1>2. ASSUME NEW r \in Requests, AccountRequest(r) \/ AccountStep(r)
      PROVE  FlagInv'
  BY <1>2, FlagRequest, FlagAccountStep
<1>3. ASSUME NEW r \in Requests, DeskRequest(r) \/ DeskStep(r), UNCHANGED accountVars
      PROVE  FlagInv'
  BY <1>3, FlagRequest, FlagDeskStep
<1> QED
  BY <1>1, <1>2, <1>3 DEF Next

(* With no event lost the audit trail of the flag, read as steps, leads    *)
(* from "unset" to the override stored: the lock makes the old override of *)
(* an event the one it replaced (feature_flag_repo.go).                    *)
THEOREM TrailTellsHistory ==
    ASSUME IsFiniteSet(Requests)
    PROVE  Spec => []TrailFollowsFlag
<1>1. ASSUME FlagInv
      PROVE  TrailFollowsFlag
  <2>1. ASSUME faults = 0, \A r \in Requests : pc[r] # "audit", NEW v \in Overrides
        PROVE  Entering(v) - Leaving(v) = One(v = flag) - One(v = "unset")
    <3>1. Entering(v) + Cardinality(ToEnter(v)) + One(v = "unset")
              = Leaving(v) + Cardinality(ToLeave(v)) + One(v = flag)
      BY <1>1, <2>1 DEF FlagInv, TrailLeads
    <3>2. ToEnter(v) = {} /\ ToLeave(v) = {}
      BY <2>1 DEF ToEnter, ToLeave
    <3>3. Cardinality(ToEnter(v)) = 0 /\ Cardinality(ToLeave(v)) = 0
      BY <3>2, FS_EmptySet
    <3>4. Entering(v) \in Nat /\ Leaving(v) \in Nat
      BY <1>1 DEF FlagInv, FlagTypeOK, Entering, Leaving, Overrides
    <3> QED
      BY <3>1, <3>3, <3>4 DEF One
  <2> QED
    BY <2>1 DEF TrailFollowsFlag
<1>2. OwnerInv /\ FlagInv /\ [Next]_adminVars => FlagInv'
  BY FlagNext
<1> QED
  BY <1>1, <1>2, FlagInit, OwnerInvariant, PTL DEF Spec
=============================================================================
