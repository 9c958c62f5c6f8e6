------------------------------ MODULE Accounts ------------------------------
(***************************************************************************)
(* Users, their identities, the server owners, feature flags, and the      *)
(* cache of the groups a user administers.  A user made by a first login   *)
(* is named after the request.                                             *)
(***************************************************************************)
EXTENDS ApiRequests

CONSTANTS
    KnownUsers,  \* users with an identity of the same name
    NewLogins,   \* Telegram ids nobody has logged in with
    Nobody,      \* no user
    Chats,       \* Telegram groups the bot is in
    MaxChanges   \* bound: changes of a user's administrator rights

ASSUME AccountsAssumption ==
    /\ KnownUsers # {} /\ Nobody \notin KnownUsers \cup Requests
    /\ KnownUsers \cap Requests = {} /\ KnownUsers \cap NewLogins = {}
    /\ MaxChanges \in Nat

VARIABLES
    identity,   \* user_identities: [Logins -> the user, Nobody if no row]
    inserting,  \* [Logins -> the transaction that inserted the row, uncommitted]
    tries,      \* [Requests -> attempts that lost the race]
    user,       \* [Requests -> the user answered]
    owners,     \* users with is_server_owner
    ownerLock,  \* the transaction that holds the advisory lock of owners
    flag,       \* the override of the feature flag
    flagLock,   \* the transaction that holds the flag's advisory lock
    old,        \* [Requests -> the override the transaction read]
    trail,      \* audit_events: [<<old, new>> -> events of that change]
    rights,     \* Telegram: [Chats -> how often the viewer's rights changed]
    scanner,    \* the request that scans the groups, the others wait for it
    seen,       \* [Requests -> [Chats -> rights as the scan saw them]]
    cache,      \* [Chats -> rights as the cache entry has them]
    fresh       \* the cache has an entry younger than its time to live

accountVars == <<identity, inserting, tries, user, owners, ownerLock, flag,
                 flagLock, old, trail, rights, scanner, seen, cache, fresh>>
identityVars == <<identity, inserting, tries, user>>
ownerVars == <<owners, ownerLock>>
flagVars == <<flag, flagLock, old, trail>>
rightsVars == <<rights, scanner, seen, cache, fresh>>

Logins == KnownUsers \cup NewLogins
Users == KnownUsers \cup Requests
MaxAttempts == 3
Overrides == {"on", "off", "unset"}
(* Rights no scan could read: the chat did not answer.                     *)
Unread == 0

AccountsInit ==
    /\ identity = [e \in Logins |-> IF e \in KnownUsers THEN e ELSE Nobody]
    /\ inserting = [e \in Logins |-> NoReq]
    /\ tries = [r \in Requests |-> 0]
    /\ user = [r \in Requests |-> Nobody]
    /\ owners \in (SUBSET KnownUsers) \ {{}} /\ ownerLock = NoReq
    /\ flag = "unset" /\ flagLock = NoReq
    /\ old = [r \in Requests |-> "unset"]
    /\ trail = [c \in Overrides \X Overrides |-> 0]
    /\ rights = [g \in Chats |-> 1]
    /\ scanner = NoReq
    /\ seen = [r \in Requests |-> [g \in Chats |-> Unread]]
    /\ cache = [g \in Chats |-> Unread]
    /\ fresh = FALSE

-----------------------------------------------------------------------------
(* Identities.                                                             *)

LogIn(r, e) ==
    /\ Receive(r, [op |-> "login", who |-> e], "find")
    /\ UNCHANGED accountVars

(* The seed of server owners runs before the service takes requests.       *)
Seed(r, e) ==
    /\ \A s \in Requests : pc[s] = "idle"
    /\ Receive(r, [op |-> "seed", who |-> e], "find")
    /\ UNCHANGED accountVars

FindIdentity(r) ==
    LET e == req[r].who IN
    /\ pc[r] = "find"
    /\ \/ /\ Works
          /\ Goto(r, IF identity[e] = Nobody THEN "insert" ELSE "profile")
       \/ Fails /\ Respond(r, "error")
    /\ UNCHANGED accountVars

(* Mutant: a unique violation is an error, not a race.                     *)
InsertOrFail(r) ==
    LET e == req[r].who IN
    /\ pc[r] = "insert" /\ inserting[e] = NoReq /\ Works
    /\ IF identity[e] = Nobody
       THEN inserting' = [inserting EXCEPT ![e] = r] /\ Goto(r, "profile")
       ELSE UNCHANGED inserting /\ Respond(r, "error")
    /\ UNCHANGED <<identity, tries, user, ownerVars, flagVars, rightsVars>>

(* The insert waits for another transaction that inserted the same key; if *)
(* that one committed, this one starts again, MaxAttempts times in all.    *)
InsertIdentity(r) ==
    LET e == req[r].who IN
    /\ pc[r] = "insert" /\ inserting[e] = NoReq
    /\ \/ /\ Works /\ identity[e] = Nobody
          /\ inserting' = [inserting EXCEPT ![e] = r]
          /\ Goto(r, "profile") /\ UNCHANGED tries
       \/ /\ Works /\ identity[e] # Nobody
          /\ tries' = [tries EXCEPT ![r] = @ + 1]
          /\ IF tries'[r] < MaxAttempts THEN Goto(r, "find") ELSE Respond(r, "error")
          /\ UNCHANGED inserting
       \/ Fails /\ Respond(r, "error") /\ UNCHANGED <<inserting, tries>>
    /\ UNCHANGED <<identity, user, ownerVars, flagVars, rightsVars>>

(* The profile is written and the transaction commits, or rolls back.  The *)
(* seed goes on to grant the role.                                         *)
CommitIdentity(r) ==
    LET e == req[r].who
        u == IF inserting[e] = r THEN r ELSE identity[e] IN
    /\ pc[r] = "profile"
    /\ inserting' = [inserting EXCEPT ![e] = IF @ = r THEN NoReq ELSE @]
    /\ \/ /\ Works
          /\ identity' = [identity EXCEPT ![e] = u]
          /\ user' = [user EXCEPT ![r] = u]
          /\ IF req[r].op = "seed" /\ u \notin owners
             THEN Goto(r, "grant") ELSE Respond(r, "ok")
       \/ Fails /\ Respond(r, "error") /\ UNCHANGED <<identity, user>>
    /\ UNCHANGED <<tries, ownerVars, flagVars, rightsVars>>

-----------------------------------------------------------------------------
(* Server owners.                                                          *)

(* The user a grant or a revocation is about.                              *)
Target(r) == IF req[r].op = "seed" THEN user[r] ELSE req[r].who

SetUserServerOwner(r, a, u, on) ==
    /\ Receive(r, [op |-> "owner", actor |-> a, who |-> u, on |-> on], "authorize")
    /\ UNCHANGED accountVars

(* Only a server owner changes owners and flags.                           *)
Authorize(r) ==
    /\ pc[r] = "authorize"
    /\ \/ Works /\ req[r].actor \notin owners /\ Respond(r, "refused")
       \/ /\ Works /\ req[r].actor \in owners
          /\ Goto(r, IF req[r].op = "owner" THEN "target" ELSE "lockFlag")
       \/ Fails /\ Respond(r, "error")
    /\ UNCHANGED accountVars

CheckTarget(r) ==
    /\ pc[r] = "target"
    /\ \/ Works /\ (Target(r) \in owners <=> req[r].on) /\ Respond(r, "ok")
       \/ /\ Works /\ ~(Target(r) \in owners <=> req[r].on)
          /\ Goto(r, IF req[r].on THEN "grant" ELSE "lockOwners")
       \/ Fails /\ Respond(r, "error")
    /\ UNCHANGED accountVars

Grant(r) ==
    /\ pc[r] = "grant"
    /\ \/ Works /\ owners' = owners \cup {Target(r)} /\ Respond(r, "ok")
       \/ Fails /\ Respond(r, "error") /\ UNCHANGED owners
    /\ UNCHANGED <<identityVars, ownerLock, flagVars, rightsVars>>

(* Mutant: revocations are not serialised.                                 *)
LockNoOwners(r) ==
    /\ pc[r] = "lockOwners" /\ Works
    /\ Goto(r, "count") /\ UNCHANGED accountVars

LockOwners(r) ==
    /\ pc[r] = "lockOwners"
    /\ \/ /\ Works /\ ownerLock = NoReq
          /\ ownerLock' = r /\ Goto(r, "count")
       \/ Fails /\ Respond(r, "error") /\ UNCHANGED ownerLock
    /\ UNCHANGED <<identityVars, owners, flagVars, rightsVars>>

(* The end of the transaction releases the lock.                           *)
UnlockOwners(r) == ownerLock' = IF ownerLock = r THEN NoReq ELSE ownerLock

(* The target and the count are read in two statements: between them, only *)
(* grants can add owners.  Nobody but the target left means a count of one. *)
CountOwners(r) ==
    /\ pc[r] = "count"
    /\ \/ Works /\ Target(r) \notin owners /\ Respond(r, "error") /\ UnlockOwners(r)
       \/ Works /\ owners = {Target(r)} /\ Respond(r, "refused") /\ UnlockOwners(r)
       \/ /\ Works /\ Target(r) \in owners /\ owners # {Target(r)}
          /\ Goto(r, "revoke") /\ UNCHANGED ownerLock
       \/ Fails /\ Respond(r, "error") /\ UnlockOwners(r)
    /\ UNCHANGED <<identityVars, owners, flagVars, rightsVars>>

Revoke(r) ==
    /\ pc[r] = "revoke"
    /\ \/ Works /\ owners' = owners \ {Target(r)} /\ Respond(r, "ok")
       \/ Fails /\ Respond(r, "error") /\ UNCHANGED owners
    /\ UnlockOwners(r)
    /\ UNCHANGED <<identityVars, flagVars, rightsVars>>

-----------------------------------------------------------------------------
(* The feature flag.                                                       *)

SetFeatureFlag(r, a, v) ==
    /\ Receive(r, [op |-> "flag", actor |-> a, value |-> v], "authorize")
    /\ UNCHANGED accountVars

(* Mutant: the old override is read without the lock.                      *)
ReadFlagUnlocked(r) ==
    /\ pc[r] = "lockFlag" /\ Works
    /\ old' = [old EXCEPT ![r] = flag]
    /\ Goto(r, "writeFlag")
    /\ UNCHANGED <<identityVars, ownerVars, flag, flagLock, trail, rightsVars>>

LockFlag(r) ==
    /\ pc[r] = "lockFlag"
    /\ \/ /\ Works /\ flagLock = NoReq /\ flagLock' = r
          /\ old' = [old EXCEPT ![r] = flag]
          /\ Goto(r, "writeFlag")
       \/ Fails /\ Respond(r, "error") /\ UNCHANGED <<flagLock, old>>
    /\ UNCHANGED <<identityVars, ownerVars, flag, trail, rightsVars>>

WriteFlag(r) ==
    /\ pc[r] = "writeFlag"
    /\ flagLock' = IF flagLock = r THEN NoReq ELSE flagLock
    /\ \/ /\ Works /\ flag' = req[r].value
          /\ IF old[r] = req[r].value THEN Respond(r, "ok") ELSE Goto(r, "audit")
       \/ Fails /\ Respond(r, "error") /\ UNCHANGED flag
    /\ UNCHANGED <<identityVars, ownerVars, old, trail, rightsVars>>

(* A failed audit event is logged and dropped.                             *)
AuditFlag(r) ==
    /\ pc[r] = "audit"
    /\ \/ Works /\ trail' = [trail EXCEPT ![<<old[r], req[r].value>>] = @ + 1]
       \/ Fails /\ UNCHANGED trail
    /\ Respond(r, "ok")
    /\ UNCHANGED <<identityVars, ownerVars, flag, flagLock, old, rightsVars>>

-----------------------------------------------------------------------------
(* The groups a user administers.  "viewer" is one user, whose rights      *)
(* Telegram changes.                                                       *)

AdminGroupsFor(r) ==
    /\ Receive(r, [op |-> "groups"], "cached")
    /\ UNCHANGED accountVars

ReadCache(r) ==
    /\ pc[r] = "cached" /\ Works
    /\ IF fresh THEN Respond(r, "ok") ELSE Goto(r, "join")
    /\ UNCHANGED accountVars

(* Mutant: every request scans for itself.                                 *)
ScanAlone(r) ==
    /\ pc[r] = "join" /\ Works
    /\ Goto(r, "scan")
    /\ UNCHANGED accountVars

(* One request scans; those that come meanwhile get its result.            *)
JoinScan(r) ==
    /\ pc[r] = "join" /\ Works
    /\ IF scanner = NoReq
       THEN scanner' = r /\ Goto(r, "scan")
       ELSE UNCHANGED scanner /\ Goto(r, "wait")
    /\ UNCHANGED <<identityVars, ownerVars, flagVars, rights, seen, cache, fresh>>

(* One call to Telegram.  A chat that does not answer is left out.         *)
ScanChat(r, g) ==
    /\ pc[r] = "scan" /\ seen[r][g] = Unread
    /\ Works /\ seen' = [seen EXCEPT ![r][g] = rights[g]]
    /\ Goto(r, "scan")
    /\ UNCHANGED <<identityVars, ownerVars, flagVars, rights, scanner, cache, fresh>>

(* The scan is over: a partial one is answered and not cached.             *)
EndScan(r) ==
    LET unread == {g \in Chats : seen[r][g] = Unread}
        waiting == {s \in Requests : pc[s] = "wait" /\ scanner = r} IN
    /\ pc[r] = "scan"
    /\ IF unread = {}
       THEN Works /\ cache' = seen[r] /\ fresh' = TRUE
       ELSE Fails /\ UNCHANGED <<cache, fresh>>
    /\ scanner' = IF scanner = r THEN NoReq ELSE scanner
    /\ pc' = [s \in Requests |-> IF s \in waiting \cup {r} THEN "done" ELSE pc[s]]
    /\ answer' = [s \in Requests |-> IF s \in waiting \cup {r} THEN "ok" ELSE answer[s]]
    /\ UNCHANGED <<req, identityVars, ownerVars, flagVars, rights, seen>>

ChangeRights(g) ==
    /\ rights[g] <= MaxChanges
    /\ rights' = [rights EXCEPT ![g] = @ + 1]
    /\ UNCHANGED <<requestVars, identityVars, ownerVars, flagVars, scanner, seen,
                   cache, fresh>>

(* The entry's time to live ends.                                          *)
ExpireCache ==
    /\ fresh /\ fresh' = FALSE
    /\ UNCHANGED <<requestVars, identityVars, ownerVars, flagVars, rights,
                   scanner, seen, cache>>

-----------------------------------------------------------------------------
AccountRequest(r) ==
    \/ \E e \in Logins : LogIn(r, e) \/ Seed(r, e)
    \/ \E a, u \in KnownUsers, on \in BOOLEAN : SetUserServerOwner(r, a, u, on)
    \/ \E a \in KnownUsers, v \in Overrides : SetFeatureFlag(r, a, v)
    \/ AdminGroupsFor(r)

AccountStep(r) ==
    \/ FindIdentity(r) \/ InsertIdentity(r) \/ CommitIdentity(r)
    \/ Authorize(r) \/ CheckTarget(r) \/ Grant(r)
    \/ LockOwners(r) \/ CountOwners(r) \/ Revoke(r)
    \/ LockFlag(r) \/ WriteFlag(r) \/ AuditFlag(r)
    \/ ReadCache(r) \/ JoinScan(r) \/ (\E g \in Chats : ScanChat(r, g)) \/ EndScan(r)

Around == ExpireCache \/ \E g \in Chats : ChangeRights(g)

-----------------------------------------------------------------------------
(* There is a server owner at any time, whatever revocations run at once   *)
(* (user_repo.go, "leaving zero owners").                                  *)
OwnerRemains == owners # {}

(* First logins of one Telegram id agree on its user, and none fails for   *)
(* another having won: with no fault every login is answered with the user *)
(* the identity then names for good (user_repo.go, "Race-safe").           *)
FirstLoginsAgree ==
    \A r \in Requests :
        pc[r] = "done" /\ req[r].op = "login" /\ faults = 0 =>
            answer[r] = "ok" /\ user[r] = identity[req[r].who]

(* Events that enter and leave an override.                                *)
Entering(v) == trail[<<"on", v>>] + trail[<<"off", v>>] + trail[<<"unset", v>>]
Leaving(v) == trail[<<v, "on">>] + trail[<<v, "off">>] + trail[<<v, "unset">>]
One(b) == IF b THEN 1 ELSE 0

(* The audit trail of the flag tells its history: read as steps from the   *)
(* old to the new override, it leads from "unset" to the override stored,  *)
(* once the requests that wrote it have recorded it                        *)
(* (feature_flag_repo.go, "so the returned old value is accurate").        *)
TrailFollowsFlag ==
    faults = 0 /\ (\A r \in Requests : pc[r] # "audit") =>
        \A v \in Overrides :
            Entering(v) - Leaving(v) = One(v = flag) - One(v = "unset")

(* What the cache says of a group's administrators never goes back to an   *)
(* older state (admin_groups_resolver.go, singleflight).                   *)
CacheMovesForward == [][\A g \in Chats : cache'[g] >= cache[g]]_accountVars
=============================================================================
