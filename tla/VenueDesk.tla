----------------------------- MODULE VenueDesk -----------------------------
(***************************************************************************)
(* A group, its venue, the venue's booking accounts and the records of the *)
(* courts booked with them: what administrators change while the booking   *)
(* and cancellation jobs run.  A credential and a reservation are named    *)
(* after the request that made them.  Windows, courts and slots are in     *)
(* BookingFlow and ReleaseFlow; here a job books or cancels one court.     *)
(***************************************************************************)
EXTENDS Accounts

CONSTANTS
    FirstCred,   \* the credential there is at first
    FirstMatch,  \* the reservation there is at first, made with it
    NoCred,      \* credential_id NULL
    LoginNames   \* accounts at the platform

ASSUME DeskAssumption ==
    /\ FirstCred \notin Requests /\ FirstMatch \notin Requests
    /\ NoCred \notin Requests \cup {FirstCred}
    /\ LoginNames # {}

VARIABLES
    group,    \* the row of the group exists
    allowed,  \* bot_groups.auto_booking_allowed
    venue,    \* the row of the venue exists
    auto,     \* venues.auto_booking_enabled
    creds,    \* the venue's credentials
    loginOf,  \* [credentials -> their logins]
    row,      \* court_bookings: [reservations -> "none", "active", "canceled"]
    account,  \* court_bookings.credential_id
    held,     \* the platform: reservations not cancelled
    left,     \* [Requests -> credentials a booking has not tried]
    used,     \* [Requests -> the credential it booked or cancels with]
    looked,   \* [Requests -> rows that were active when a removal checked]
    raced,    \* a removal and a booking overlapped, or the group was removed
    barred    \* jobs begun while the group was not allowed

deskVars == <<group, allowed, venue, auto, creds, loginOf, row, account, held,
              left, used, looked, raced, barred>>
jobVars == <<left, used, looked, raced, barred>>
venueVars == <<venue, auto, creds, loginOf>>
bookingVars == <<row, account, held>>

Creds == Requests \cup {FirstCred}
Matches == Requests \cup {FirstMatch}
SomeLogin == CHOOSE l \in LoginNames : TRUE

(* A venue may be enabled in a group that is not allowed: updateVenue may  *)
(* check before and write after the owner's change.                        *)
DeskInit ==
    /\ group = TRUE /\ allowed \in BOOLEAN /\ venue = TRUE /\ auto \in BOOLEAN
    /\ creds = {FirstCred} /\ loginOf = [c \in Creds |-> SomeLogin]
    /\ held \in {{}, {FirstMatch}}
    /\ row = [m \in Matches |-> IF m \in held THEN "active" ELSE "none"]
    /\ account = [m \in Matches |-> IF m \in held THEN FirstCred ELSE NoCred]
    /\ left = [r \in Requests |-> {}]
    /\ used = [r \in Requests |-> NoCred]
    /\ looked = [r \in Requests |-> {}]
    /\ raced = FALSE /\ barred = {}

Active == {m \in Matches : row[m] = "active"}
Booking == {r \in Requests : req[r].op = "book" /\ pc[r] \in {"reserve", "save"}}

(* A statement of request r that reads, and goes on or ends.               *)
Reads == UNCHANGED deskVars
(* The check of a request at step l: to step n if it passes.               *)
Check(r, op, l, passes, n) ==
    /\ At(r, op, l)
    /\ \/ Works /\ IF passes THEN Goto(r, n) ELSE Respond(r, "refused")
       \/ Fails /\ Respond(r, "error")

(* The write of a request at step l, which the tables accept or not; what  *)
(* it changes is said beside it.                                           *)
Accepted(r, op, l) == At(r, op, l) /\ Works /\ Respond(r, "ok")
Denied(r, op, l, accepts) ==
    /\ At(r, op, l)
    /\ \/ Works /\ ~accepts
       \/ Fails
    /\ Respond(r, "error")
    /\ UNCHANGED deskVars

-----------------------------------------------------------------------------
(* The group.                                                              *)

AllowCheck(r) ==
    /\ \/ Check(r, "allow", "isOwner", req[r].actor \in owners, "getGroup")
       \/ Check(r, "allow", "getGroup", group, "same")
       \/ /\ At(r, "allow", "same") /\ Works
          /\ IF allowed = req[r].on THEN Respond(r, "ok") ELSE Goto(r, "set")
    /\ Reads

(* The flag and the venues of the group, in one transaction.               *)
SetAutoBookingAllowed(r) ==
    \/ /\ Accepted(r, "allow", "set") /\ group
       /\ allowed' = req[r].on
       /\ auto' = (auto /\ req[r].on)
       /\ barred' = IF req[r].on THEN {} ELSE barred
       /\ UNCHANGED <<group, venue, creds, loginOf, bookingVars, left, used,
                      looked, raced>>
    \/ Denied(r, "allow", "set", group)

(* The rows of the group and of what refers to it are deleted.             *)
RemoveGroup(r) ==
    \/ /\ Accepted(r, "leave", "delete")
       /\ group' = FALSE /\ allowed' = FALSE
       /\ venue' = FALSE /\ auto' = FALSE /\ creds' = {}
       /\ row' = [m \in Matches |-> "none"]
       /\ account' = [m \in Matches |-> NoCred]
       /\ raced' = TRUE
       /\ UNCHANGED <<loginOf, held, left, used, looked, barred>>
    \/ Denied(r, "leave", "delete", TRUE)

(* Upsert: a new group is not allowed to book.                             *)
UpsertGroup(r) ==
    \/ /\ Accepted(r, "enter", "upsert")
       /\ group' = TRUE /\ allowed' = (group /\ allowed)
       /\ UNCHANGED <<venueVars, bookingVars, jobVars>>
    \/ Denied(r, "enter", "upsert", TRUE)

-----------------------------------------------------------------------------
(* The venue.                                                              *)

(* Enabling auto-booking asks the group first.                             *)
CheckGroup(r) ==
    /\ \E op \in {"createVenue", "updateVenue"} :
           Check(r, op, "checkGroup", ~req[r].on \/ (group /\ allowed), "write")
    /\ Reads

CreateVenue(r) ==
    \/ /\ Accepted(r, "createVenue", "write") /\ group /\ ~venue
       /\ venue' = TRUE /\ auto' = req[r].on
       /\ UNCHANGED <<group, allowed, creds, loginOf, bookingVars, jobVars>>
    \/ Denied(r, "createVenue", "write", group /\ ~venue)

UpdateVenue(r) ==
    \/ /\ Accepted(r, "updateVenue", "write") /\ venue
       /\ auto' = req[r].on
       /\ UNCHANGED <<group, allowed, venue, creds, loginOf, bookingVars, jobVars>>
    \/ Denied(r, "updateVenue", "write", venue)

(* What a removal saw, and whether a booking came in between.              *)
Look(r) ==
    /\ looked' = [looked EXCEPT ![r] = Active]
    /\ UNCHANGED <<group, allowed, venueVars, bookingVars, left, used, raced, barred>>
Overlaps(r) == raced' = (raced \/ Booking # {} \/ ~(Active \subseteq looked[r]))

(* Mutant: a venue is deleted whatever is booked there.                    *)
LookAtNoRow(r) == Check(r, "deleteVenue", "check", venue, "delete") /\ Look(r)

LookAtVenue(r) ==
    Check(r, "deleteVenue", "check", venue /\ Active = {}, "delete") /\ Look(r)

(* The credentials and rows of the venue go with it.                       *)
DeleteVenue(r) ==
    \/ /\ Accepted(r, "deleteVenue", "delete") /\ venue
       /\ venue' = FALSE /\ auto' = FALSE /\ creds' = {}
       /\ row' = [m \in Matches |-> "none"]
       /\ account' = [m \in Matches |-> NoCred]
       /\ Overlaps(r)
       /\ UNCHANGED <<group, allowed, loginOf, held, left, used, looked, barred>>
    \/ Denied(r, "deleteVenue", "delete", venue)

-----------------------------------------------------------------------------
(* Credentials.                                                            *)

FindVenue(r) ==
    /\ \/ Check(r, "addCred", "findVenue", venue, "checkLogin")
       \/ Check(r, "removeCred", "findVenue", venue, "check")
    /\ Reads

LoginTaken(l) == \E c \in creds : loginOf[c] = l

CheckLogin(r) ==
    /\ Check(r, "addCred", "checkLogin", ~LoginTaken(req[r].login), "insertCred")
    /\ Reads

(* A login is unique in its venue, whatever was checked before.            *)
InsertCred(r) ==
    LET l == req[r].login IN
    \/ /\ Accepted(r, "addCred", "insertCred") /\ venue /\ ~LoginTaken(l)
       /\ creds' = creds \cup {r}
       /\ loginOf' = [loginOf EXCEPT ![r] = l]
       /\ UNCHANGED <<group, allowed, venue, auto, bookingVars, jobVars>>
    \/ Denied(r, "addCred", "insertCred", venue /\ ~LoginTaken(l))

LookAtCred(r) ==
    LET c == req[r].cred IN
    /\ Check(r, "removeCred", "check", \A m \in Active : account[m] # c, "delete")
    /\ Look(r)

DeleteCred(r) ==
    LET c == req[r].cred IN
    \/ /\ Accepted(r, "removeCred", "delete") /\ c \in creds
       /\ creds' = creds \ {c}
       /\ account' = [m \in Matches |-> IF account[m] = c THEN NoCred ELSE account[m]]
       /\ Overlaps(r)
       /\ UNCHANGED <<group, allowed, venue, auto, loginOf, row, held, left,
                      used, looked, barred>>
    \/ Denied(r, "removeCred", "delete", c \in creds)

-----------------------------------------------------------------------------
(* The jobs.                                                               *)

(* Mutant: the job trusts the venue's flag.                                *)
JobReadsVenueOnly(r) ==
    /\ \/ Check(r, "book", "group", group, "venue")
       \/ Check(r, "book", "venue", venue /\ auto, "creds")
    /\ Reads

(* runAutoBooking reads the group and then its venues.                     *)
JobReads(r) ==
    /\ \/ Check(r, "book", "group", group /\ allowed, "venue")
       \/ Check(r, "book", "venue", venue /\ auto, "creds")
    /\ Reads

ListForBooking(r) ==
    /\ Check(r, "book", "creds", creds # {}, "reserve")
    /\ left' = [left EXCEPT ![r] = creds]
    /\ UNCHANGED <<group, allowed, venueVars, bookingVars, used, looked, raced, barred>>

(* The account is asked for a court; the next one when it fails.           *)
Reserve(r, c) ==
    /\ At(r, "book", "reserve") /\ c \in left[r]
    /\ \/ /\ Works /\ held' = held \cup {r}
          /\ used' = [used EXCEPT ![r] = c]
          /\ Goto(r, "save") /\ UNCHANGED left
       \/ /\ Fails /\ left' = [left EXCEPT ![r] = @ \ {c}]
          /\ IF left'[r] = {} THEN Respond(r, "error") ELSE Goto(r, "reserve")
          /\ UNCHANGED <<held, used>>
    /\ UNCHANGED <<group, allowed, venueVars, row, account, looked, raced, barred>>

(* The row refers to the venue and the credential: both must still exist.  *)
SaveRow(r) ==
    \/ /\ Accepted(r, "book", "save") /\ venue /\ used[r] \in creds
       /\ row' = [row EXCEPT ![r] = "active"]
       /\ account' = [account EXCEPT ![r] = used[r]]
       /\ UNCHANGED <<group, allowed, venueVars, held, jobVars>>
    \/ Denied(r, "book", "save", venue /\ used[r] \in creds)

(* A cancellation skips a row without a credential.                        *)
FindRow(r) ==
    LET m == req[r].match IN
    /\ Check(r, "cancel", "row", row[m] = "active" /\ account[m] # NoCred, "cred")
    /\ used' = [used EXCEPT ![r] = account[m]]
    /\ UNCHANGED <<group, allowed, venueVars, bookingVars, left, looked, raced, barred>>

GetCred(r) == Check(r, "cancel", "cred", used[r] \in creds, "cancel") /\ Reads

CancelMatch(r) ==
    /\ At(r, "cancel", "cancel")
    /\ \/ Works /\ held' = held \ {req[r].match} /\ Goto(r, "mark")
       \/ Fails /\ Respond(r, "error") /\ UNCHANGED held
    /\ UNCHANGED <<group, allowed, venueVars, row, account, jobVars>>

MarkCanceled(r) ==
    LET m == req[r].match IN
    \/ /\ Accepted(r, "cancel", "mark")
       /\ row' = [row EXCEPT ![m] = IF @ = "active" THEN "canceled" ELSE @]
       /\ UNCHANGED <<group, allowed, venueVars, account, held, jobVars>>
    \/ Denied(r, "cancel", "mark", TRUE)

-----------------------------------------------------------------------------
DeskRequest(r) ==
    \/ /\ \/ \E a \in KnownUsers, on \in BOOLEAN :
                 Receive(r, [op |-> "allow", actor |-> a, on |-> on], "isOwner")
          \/ Receive(r, [op |-> "leave"], "delete")
          \/ Receive(r, [op |-> "enter"], "upsert")
          \/ \E op \in {"createVenue", "updateVenue"}, on \in BOOLEAN :
                 Receive(r, [op |-> op, on |-> on], "checkGroup")
          \/ Receive(r, [op |-> "deleteVenue"], "check")
          \/ \E l \in LoginNames : Receive(r, [op |-> "addCred", login |-> l], "findVenue")
          \/ \E c \in creds : Receive(r, [op |-> "removeCred", cred |-> c], "findVenue")
          \/ \E m \in held : Receive(r, [op |-> "cancel", match |-> m], "row")
       /\ UNCHANGED deskVars
    \/ /\ Receive(r, [op |-> "book"], "group")
       /\ barred' = IF allowed THEN barred ELSE barred \cup {r}
       /\ UNCHANGED <<group, allowed, venueVars, bookingVars, left, used, looked, raced>>

DeskStep(r) ==
    \/ AllowCheck(r) \/ SetAutoBookingAllowed(r) \/ RemoveGroup(r) \/ UpsertGroup(r)
    \/ CheckGroup(r) \/ CreateVenue(r) \/ UpdateVenue(r)
    \/ LookAtVenue(r) \/ DeleteVenue(r)
    \/ FindVenue(r) \/ CheckLogin(r) \/ InsertCred(r) \/ LookAtCred(r) \/ DeleteCred(r)
    \/ JobReads(r) \/ ListForBooking(r) \/ (\E c \in Creds : Reserve(r, c)) \/ SaveRow(r)
    \/ FindRow(r) \/ GetCred(r) \/ CancelMatch(r) \/ MarkCanceled(r)

-----------------------------------------------------------------------------
(* The owner's "no" holds: a job begun after it books nothing, although a  *)
(* venue of the group may have been enabled again by a request that asked  *)
(* before (auto_booking.go, the group's flag).                             *)
DisallowedGroupIsNotBooked == held \cap barred = {}

(* A court the service holds can be given back: its row names a credential *)
(* that exists.  Removals check for such rows first; only a booking that   *)
(* runs at the same time, a removed group or a fault strands a court       *)
(* (venue_credential_service.go, venue_service.go).                        *)
CourtsCanBeGivenBack ==
    faults = 0 /\ ~raced =>
        \A m \in held :
            m = FirstMatch \/ pc[m] = "done" =>
                row[m] = "active" /\ account[m] \in creds
=============================================================================
