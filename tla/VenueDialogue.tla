--------------------------- MODULE VenueDialogue ---------------------------
(***************************************************************************)
(* The dialogues about venues: one venue is there and is edited field by   *)
(* field, another is added, an account is added.  An edit reads the venue, *)
(* changes a field and writes the whole row back: two edits at once lose   *)
(* one.  Names, addresses, hours and counts are left out, the steps that   *)
(* ask for them are kept.                                                  *)
(***************************************************************************)
EXTENDS Chat

CONSTANTS
    HomeGroup,  \* the group of the venue
    Slots,      \* times of day
    MaxWrites   \* bound: writes of the venue

ASSUME VenueAssumption == HomeGroup \in Groups /\ MaxWrites \in Nat /\ Courts # {}

VARIABLES
    row,      \* the venue's row, NoRow when it was deleted
    added,    \* the row of a venue the last step added
    allowed,  \* bot_groups.auto_booking_allowed
    writes

venueVars == <<row, added, allowed, writes>>

NoRow == [group |-> NoGroup]
SomeRow(sports, slots, pref, auto, autoCourts) ==
    [group |-> HomeGroup, sports |-> sports, slots |-> slots, pref |-> pref,
     auto |-> auto, autoCourts |-> autoCourts]
NoSports == [s \in Sports |-> {}]
Played(r) == {s \in Sports : r.sports[s] # {}}
SquashCourts(r) == r.sports[DefaultSport]
CourtLists == SUBSET Courts \ {{}}

VenueInit ==
    /\ row = SomeRow([NoSports EXCEPT ![DefaultSport] = Courts], Slots, Slots, TRUE, Courts)
    /\ added = NoRow /\ allowed = TRUE /\ writes = 0

Unchanged == added' = NoRow /\ UNCHANGED <<row, allowed, writes>>

-----------------------------------------------------------------------------
(* createVenue and updateVenue of the API, validateVenue and the           *)
(* statements of the repository.                                           *)
Acceptable(r) ==
    /\ Played(r) # {}
    /\ r.auto => allowed /\ SquashCourts(r) # {}
    /\ r.pref \subseteq r.slots

(* The last call of an edit: the whole row, which the venue's row takes if *)
(* it is still there.  "drop" is the dialogue a success ends.              *)
WriteVenue(h) ==
    LET t == task[h] IN
    /\ t.do = "write"
    /\ \/ /\ Acceptable(t.row) /\ row # NoRow /\ writes < MaxWrites
          /\ row' = t.row /\ writes' = writes + 1
          /\ Leave(h, IF t.drop = "none" THEN pending ELSE Unpend(t.drop), session, Idle)
          /\ added' = NoRow /\ UNCHANGED allowed
       \/ Stop(h) /\ Unchanged

(* A handler has read the venue: it stops, or writes r back.               *)
Write(h, p, r, drop) ==
    Leave(h, p, session, [do |-> "write", on |-> task[h].on, row |-> r,
                          drop |-> drop])

-----------------------------------------------------------------------------
(* The wizard of a new venue.                                              *)

NewWizard ==
    [kind |-> "venueWizard", loose |-> FALSE, step |-> "name", sport |-> DefaultSport,
     courts |-> {}, slots |-> {}, picked |-> {}, auto |-> FALSE, autoCourts |-> {},
     allowed |-> allowed]

(* handleVenueAdd; the group may fail to be read.                          *)
PressAdd(h) ==
    /\ "venueWizard" \in topic /\ HomeGroup \in admin /\ Free(h) /\ Unchanged
    /\ \/ Open(h, pending, "venueWizard", NewWizard)
       \/ Open(h, pending, "venueWizard", [NewWizard EXCEPT !.allowed = FALSE])

(* processVenueWizard, all steps but the last.                             *)
WizardText(h) ==
    LET w == Found("venueWizard")
        to(new, step) == Change(h, "venueWizard", [new EXCEPT !.step = step])
    IN /\ TextFor("venueWizard") /\ Unchanged
       /\ \/ w.step = "name" /\ to(w, "sport")
          \/ /\ w.step = "courts"
             /\ \E cs \in CourtLists : to([w EXCEPT !.courts = cs], "slots")
          \/ /\ w.step = "slots"
             /\ \E ts \in SUBSET Slots :
                    to([w EXCEPT !.slots = ts], IF ts = {} THEN "address" ELSE "pref")
          \/ w.step = "address" /\ to(w, "days")
          \/ /\ w.step = "grace"
             /\ IF w.allowed THEN to(w, "auto") ELSE to([w EXCEPT !.auto = FALSE], "opens")
          \/ /\ w.step = "autoCourts"
             /\ \E cs \in SUBSET w.courts : to([w EXCEPT !.autoCourts = cs], "autoCount")
          \/ w.step = "autoCount" /\ to(w, "opens")

WizardSport(h, s) ==
    LET w == Found("venueWizard") IN
    /\ w.step = "sport"
    /\ Change(h, "venueWizard", [w EXCEPT !.sport = s, !.step = "courts",
                                          !.allowed = @ /\ s = DefaultSport])
    /\ Unchanged

(* A time, "no preference" or "done"; a time of an old message too.        *)
WizardPref(h) ==
    LET w == Found("venueWizard") IN
    /\ w.step = "pref" /\ Unchanged
    /\ \/ \E t \in Slots :
            Change(h, "venueWizard",
                   [w EXCEPT !.picked = IF t \in @ THEN @ \ {t} ELSE @ \cup {t}])
       \/ Change(h, "venueWizard", [w EXCEPT !.step = "address"])
       \/ Change(h, "venueWizard", [w EXCEPT !.step = "address", !.picked = {}])

(* Automatic booking, on or off: the group is asked for between the check  *)
(* of the step and the change, and the dialogue is stored again.           *)
PressAuto(h, on) ==
    /\ Found("venueWizard").step = "auto"
    /\ Load(h, "venueWizard", [do |-> "auto", enable |-> on]) /\ Unchanged
SetAuto(h) ==
    LET on == task[h].enable IN
    /\ task[h].do = "auto" /\ Unchanged
    /\ \/ Store(h, "venueWizard", [At(h) EXCEPT !.auto = on,
                                      !.step = IF on THEN "autoCourts" ELSE "opens"])
       \/ ~allowed /\ Stop(h)

(* The last step: the wizard is dropped, then its venue is created.        *)
WizardDone(h) ==
    LET w == Found("venueWizard") IN
    /\ TextFor("venueWizard") /\ w.step = "opens" /\ Unchanged
    /\ LoadAndDelete(h, "venueWizard", [do |-> "addVenue", pref |-> w.slots \cap w.picked])
AddVenue(h) ==
    LET w == At(h)
        r == SomeRow([NoSports EXCEPT ![w.sport] = w.courts], w.slots, task[h].pref,
                     w.auto, w.autoCourts)
    IN /\ task[h].do = "addVenue" /\ Stop(h)
       /\ \/ Acceptable(r) /\ added' = r /\ UNCHANGED <<row, allowed, writes>>
          \/ Unchanged

-----------------------------------------------------------------------------
(* Edits of the venue.                                                     *)

(* The buttons of the edit menu and of the list of sports: the venue is    *)
(* read, what the edit starts from is stored.  A text edit holds its       *)
(* field; an edit of preferred times the times and those picked.           *)
TextEdits ==
    [kind : {"venueEdit"}, loose : {FALSE}, field : {"courts", "slots", "autoCourts", "other"}]
SportEdits ==
    [kind : {"sportEdit"}, loose : {FALSE}, sport : Sports, field : {"courts", "ppc"}]
DaysEdits == [kind : {"daysEdit"}, loose : {FALSE}]
StartEdit(h) ==
    /\ HomeGroup \in admin /\ row # NoRow /\ writes < MaxWrites
    /\ Free(h) /\ Unchanged
    /\ \/ \E e \in TextEdits \cup SportEdits \cup DaysEdits :
            e.kind \in topic /\ Open(h, pending, e.kind, e)
       \/ /\ "ptimeEdit" \in topic /\ row.slots # {}
          /\ Open(h, pending, "ptimeEdit",
                  [kind |-> "ptimeEdit", loose |-> FALSE, slots |-> row.slots,
                   picked |-> row.pref])

(* The row after the text of an edit; accounts may book the courts named   *)
(* in autoCourts, which follow the courts, as preferred times the slots.   *)
CourtsChanged(r, cs) ==
    LET s == CHOOSE x \in Played(r) : x = DefaultSport \/ Cardinality(Played(r)) = 1
        has == DefaultSport \in Played(r) \/ Cardinality(Played(r)) = 1
    IN [r EXCEPT !.sports = IF has THEN [r.sports EXCEPT ![s] = cs] ELSE r.sports,
                 !.autoCourts = @ \cap cs]
Edited(r, field) ==
    CASE field = "courts" -> {CourtsChanged(r, cs) : cs \in CourtLists}
      [] field = "slots" -> {[r EXCEPT !.slots = ts, !.pref = @ \cap ts] : ts \in SUBSET Slots}
      [] field = "autoCourts" ->
           {[r EXCEPT !.autoCourts = cs] : cs \in SUBSET SquashCourts(r)}
      [] field = "other" -> {r}

(* processVenueEdit does not ask for the rights again.                     *)
TypeEdit(h) ==
    /\ TextFor("venueEdit") /\ Unchanged
    /\ Load(h, "venueEdit", [do |-> "text"])
EditText(h) ==
    /\ task[h].do = "text" /\ Unchanged
    /\ \/ /\ row # NoRow
          /\ \E r \in Edited(row, At(h).field) : Write(h, Unpend("venueEdit"), r, "none")
       \/ row = NoRow /\ Drop(h, "venueEdit")
       \/ Stop(h)

TypeSportEdit(h) ==
    /\ TextFor("sportEdit") /\ Unchanged
    /\ Load(h, "sportEdit", [do |-> "sportText"])

(* Mutant: the courts of a sport change without those booked automatically.*)
SportEditedAlone(r, s, cs) == [r EXCEPT !.sports[s] = cs]

SportEdited(r, s, cs) ==
    [r EXCEPT !.sports[s] = cs,
              !.autoCourts = IF s = DefaultSport THEN @ \cap cs ELSE @]

(* processVenueSportEdit; "ppc" needs the sport and changes nothing here.  *)
SportEditText(h) ==
    LET e == At(h) IN
    /\ task[h].do = "sportText" /\ Unchanged
    /\ \/ /\ row # NoRow /\ HomeGroup \in admin
          /\ \/ /\ e.field = "courts"
                /\ \E cs \in CourtLists :
                       Write(h, pending, SportEdited(row, e.sport, cs), "sportEdit")
             \/ /\ e.field = "ppc" /\ e.sport \in Played(row)
                /\ Write(h, pending, row, "sportEdit")
       \/ (row = NoRow \/ HomeGroup \notin admin) /\ Drop(h, "sportEdit")
       \/ Stop(h)

(* The day buttons are taken by the wizard at its step, else by the edit.  *)
WizardDays == pending["venueWizard"] # 0 /\ Found("venueWizard").step = "days"
ConfirmDays(h) ==
    /\ Unchanged
    /\ IF WizardDays
       THEN Change(h, "venueWizard", [Found("venueWizard") EXCEPT !.step = "grace"])
       ELSE LoadAndDelete(h, "daysEdit", [do |-> "days"])
DaysConfirmed(h) ==
    /\ task[h].do = "days" /\ Unchanged
    /\ \/ row # NoRow /\ Write(h, pending, row, "none")
       \/ Stop(h)

TogglePtime(h) ==
    LET e == Found("ptimeEdit") IN
    \E t \in Slots :
        /\ Change(h, "ptimeEdit",
                  [e EXCEPT !.picked = IF t \in @ THEN @ \ {t} ELSE @ \cup {t}])
        /\ Unchanged

(* Done, none, or one time by a button of an older version.                *)
ConfirmPtime(h) ==
    LET e == Found("ptimeEdit") IN
    \E ts \in {e.slots \cap e.picked, {}} \cup {{t} : t \in Slots} :
        LoadAndDelete(h, "ptimeEdit", [do |-> "ptime", pref |-> ts]) /\ Unchanged
PtimeConfirmed(h) ==
    /\ task[h].do = "ptime" /\ Unchanged
    /\ \/ row # NoRow /\ Write(h, pending, [row EXCEPT !.pref = task[h].pref], "none")
       \/ Stop(h)

(* Buttons that open no dialogue: a sport is removed, automatic booking is *)
(* switched, the venue is deleted.                                         *)
Button(h) ==
    /\ topic \cap {"venueEdit", "sportEdit"} # {} /\ HomeGroup \in admin
    /\ row # NoRow /\ writes < MaxWrites
WriteFrom(h, r) == Begin(h, [do |-> "write", row |-> r, drop |-> "none"]) /\ Unchanged
RemoveSport(h) ==
    /\ Button(h)
    /\ \E s \in Played(row) :
           /\ Cardinality(Played(row)) > 1 /\ ~(s = DefaultSport /\ row.auto)
           /\ WriteFrom(h, [row EXCEPT !.sports[s] = {},
                                      !.autoCourts = IF s = DefaultSport THEN {} ELSE @])
ToggleAuto(h) ==
    /\ Button(h) /\ allowed
    /\ WriteFrom(h, [row EXCEPT !.auto = ~@, !.autoCourts = IF row.auto THEN {} ELSE @])
DeleteVenue(h) ==
    /\ Button(h) /\ Free(h) /\ Stop(h)
    /\ row' = NoRow /\ added' = NoRow /\ UNCHANGED <<allowed, writes>>

-----------------------------------------------------------------------------
(* The wizard of an account of the venue: login, priority, most courts,    *)
(* password.  A failure to list the priorities drops it.                   *)

PressCredAdd(h) ==
    /\ "credAdd" \in topic /\ HomeGroup \in admin /\ Free(h) /\ Unchanged
    /\ Open(h, pending, "credAdd", [kind |-> "credAdd", loose |-> FALSE, step |-> "login"])

CredText(h) ==
    LET w == Found("credAdd") IN
    /\ TextFor("credAdd") /\ Unchanged
    /\ \/ w.step = "login" /\ Load(h, "credAdd", [do |-> "priorities"])
       \/ w.step = "priority" /\ Change(h, "credAdd", [w EXCEPT !.step = "maxCourts"])
       \/ w.step = "maxCourts" /\ Change(h, "credAdd", [w EXCEPT !.step = "password"])
       \/ w.step = "password" /\ LoadAndDelete(h, "credAdd", [do |-> "addCred"])
PrioritiesListed(h) ==
    /\ task[h].do = "priorities" /\ Unchanged
    /\ \/ Store(h, "credAdd", [At(h) EXCEPT !.step = "priority"])
       \/ Drop(h, "credAdd")
AddCred(h) == task[h].do = "addCred" /\ Stop(h) /\ Unchanged

-----------------------------------------------------------------------------
(* The server owner allows or disallows automatic booking of the group.    *)
OwnerDecides ==
    /\ moves > 0 /\ moves' = moves - 1 /\ allowed' = ~allowed
    /\ UNCHANGED <<pending, session, task, admin, topic, row, writes>>
    /\ added' = NoRow

VenueStep(h) ==
    \/ PressAdd(h) \/ SetAuto(h) \/ AddVenue(h)
    \/ (pending["venueWizard"] # 0 /\
          (\/ WizardText(h) \/ WizardPref(h) \/ WizardDone(h)
           \/ \E s \in Sports : WizardSport(h, s)
           \/ \E on \in BOOLEAN : PressAuto(h, on)))
    \/ StartEdit(h) \/ WriteVenue(h)
    \/ TypeEdit(h) \/ EditText(h) \/ TypeSportEdit(h) \/ SportEditText(h)
    \/ ConfirmDays(h) \/ DaysConfirmed(h)
    \/ (pending["ptimeEdit"] # 0 /\ (TogglePtime(h) \/ ConfirmPtime(h)))
    \/ PtimeConfirmed(h)
    \/ RemoveSport(h) \/ ToggleAuto(h) \/ DeleteVenue(h)
    \/ PressCredAdd(h)
    \/ (pending["credAdd"] # 0 /\ CredText(h))
    \/ PrioritiesListed(h) \/ AddCred(h)

-----------------------------------------------------------------------------
(* The fields of a venue fit each other whatever dialogues edited it, two  *)
(* at once included: an automatically booked venue has squash courts, the  *)
(* courts booked automatically are squash courts of the venue, preferred   *)
(* times are its slots (venue_handlers.go, the filters of both court edits *)
(* and of the slots; the service checks the courts for digits only).       *)
Whole(r) ==
    r = NoRow \/
        /\ r.auto => SquashCourts(r) # {}
        /\ r.autoCourts \subseteq SquashCourts(r)
        /\ r.pref \subseteq r.slots
VenuesStayWhole == Whole(row) /\ Whole(added)
=============================================================================
