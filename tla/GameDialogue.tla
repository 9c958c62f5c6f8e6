--------------------------- MODULE GameDialogue ---------------------------
(***************************************************************************)
(* The /newgame dialogue: date, group, venue, sport, courts, time, and the *)
(* game that is created and announced.  Dates and times are left out: a    *)
(* date button opens the dialogue, a time ends it.                         *)
(***************************************************************************)
EXTENDS Chat

CONSTANTS
    Venues, NoVenue,
    GroupOf,    \* [Venues -> the group the venue belongs to]
    CourtsOf    \* [Venues -> [Sports -> its courts, {} where it is not played]]

ASSUME GameAssumption ==
    /\ GroupOf \in [Venues -> Groups] /\ NoVenue \notin Venues
    /\ CourtsOf \in [Venues -> [Sports -> SUBSET Courts]]

VARIABLE game  \* the game the last step created, with how it came about

NoGame == [group |-> NoGroup]
VenuesOf(g) == {v \in Venues : GroupOf[v] = g}
SportsOf(v) == {s \in Sports : CourtsOf[v][s] # {}}
Only(S) == CHOOSE x \in S : TRUE

(* newGameWizard: "offered" are venueCourts, "picked" selectedCourts;      *)
(* "made" says that a game was requested of it.                            *)
Wizard(step) ==
    [kind |-> "newGame", loose |-> FALSE, step |-> step, group |-> NoGroup,
     venue |-> NoVenue, sport |-> DefaultSport, offered |-> {}, picked |-> {},
     made |-> FALSE]
Chosen(w) == w.picked \cap w.offered

(* prepareWizardVenue                                                      *)
Prepared(w, v) ==
    LET w1 == [w EXCEPT !.venue = v, !.picked = {}]
        s == Only(SportsOf(v))
    IN IF Cardinality(SportsOf(v)) = 1
       THEN [w1 EXCEPT !.sport = s, !.offered = CourtsOf[v][s], !.step = "courtPick"]
       ELSE [w1 EXCEPT !.step = "sport"]

(* One venue is taken, several are asked for.                              *)
WithVenuesOf(w, g) ==
    IF Cardinality(VenuesOf(g)) = 1
    THEN Prepared(w, Only(VenuesOf(g)))
    ELSE [w EXCEPT !.step = "venue", !.venue = NoVenue, !.offered = {}, !.picked = {}]

-----------------------------------------------------------------------------
(* The buttons before the time.                                            *)

(* handleNewGameDate                                                       *)
PressDate(h) ==
    LET g == Only(admin) IN
    /\ GameKinds \cap topic # {} /\ Free(h)
    /\ \/ /\ Cardinality(admin) > 1
          /\ Open(h, pending, "newGame", Wizard("group"))
       \/ /\ Cardinality(admin) = 1 /\ VenuesOf(g) # {}
          /\ Open(h, pending, "newGame", WithVenuesOf(Wizard("venue"), g))

PressGroup(h, g) ==
    Found("newGame").step = "group" /\ Load(h, "newGame", [do |-> "group", group |-> g])
SetGroup(h) ==
    LET g == task[h].group IN
    /\ task[h].do = "group"
    /\ \/ /\ g \in admin /\ VenuesOf(g) # {}
          /\ Store(h, "newGame", WithVenuesOf([At(h) EXCEPT !.group = g], g))
       \/ Stop(h)

PressVenue(h, v) ==
    Found("newGame").step = "venue" /\ Load(h, "newGame", [do |-> "venue", venue |-> v])
SetVenue(h) ==
    LET v == task[h].venue IN
    /\ task[h].do = "venue"
    /\ \/ /\ At(h).group \in {NoGroup, GroupOf[v]}
          /\ Store(h, "newGame", Prepared(At(h), v))
       \/ Stop(h)

PressSport(h, s) ==
    LET w == Found("newGame") IN
    /\ w.step = "sport" /\ s \in SportsOf(w.venue)
    /\ Change(h, "newGame",
              [w EXCEPT !.sport = s, !.offered = CourtsOf[w.venue][s],
                        !.picked = {}, !.step = "courtPick"])

(* A court button names its venue, and is taken at every step.             *)
ToggleCourt(h, v, c) ==
    LET w == Found("newGame") IN
    /\ w.venue = v /\ c \in UNION {CourtsOf[v][s] : s \in Sports}
    /\ Change(h, "newGame",
              [w EXCEPT !.picked = IF c \in @ THEN @ \ {c} ELSE @ \cup {c}])

ConfirmCourts(h, v) ==
    LET w == Found("newGame") IN
    /\ w.venue = v /\ Chosen(w) # {}
    /\ Change(h, "newGame", [w EXCEPT !.step = "time"])

-----------------------------------------------------------------------------
(* The time, and the courts if none was picked.                            *)

(* With its group the dialogue is kept until the rights were asked for.    *)
Complete(h, cs, typed) ==
    LET t == [do |-> "time", courts |-> cs, typed |-> typed] IN
    IF Found("newGame").group = NoGroup THEN LoadAndDelete(h, "newGame", t)
    ELSE Load(h, "newGame", t)

(* A slot button is taken at every step.                                   *)
PressSlot(h) == Complete(h, Chosen(Found("newGame")), FALSE)
TypeTime(h) ==
    LET w == Found("newGame") IN
    /\ TextFor("newGame") /\ w.step = "time"
    /\ IF Chosen(w) # {} THEN Complete(h, Chosen(w), FALSE)
       ELSE Change(h, "newGame", [w EXCEPT !.step = "courts"])
(* Any list may be typed; the venue's courts are not asked for.            *)
TypeCourts(h) ==
    /\ TextFor("newGame") /\ Found("newGame").step = "courts"
    /\ Complete(h, Courts, TRUE)

(* createGame of the API: a game has courts, its group's venue and a sport *)
(* of the venue.                                                           *)
Creatable(t) ==
    /\ t.courts # {}
    /\ IF t.venue = NoVenue THEN t.sport = DefaultSport
       ELSE GroupOf[t.venue] = t.group /\ t.sport \in SportsOf(t.venue)

(* createAndAnnounceGame, the maps being p: it looks at no dialogue and    *)
(* changes none, and is one step with what led to it.                      *)
Create(h, p, g, v, s) ==
    LET t == [group |-> g, venue |-> v, sport |-> s, courts |-> task[h].courts,
              typed |-> task[h].typed, again |-> At(h).made, loose |-> At(h).loose]
    IN /\ Leave(h, p, [session EXCEPT ![task[h].on].made = TRUE], Idle)
       /\ game' = IF Creatable(t) THEN t ELSE NoGame

(* Mutant: the dialogue stays pending when its game is made.               *)
TimeGivenKeepingIt(h) ==
    LET w == At(h) IN
    /\ task[h].do = "time"
    /\ \/ /\ w.group \in admin
          /\ Create(h, pending, w.group, w.venue, w.sport)
       \/ /\ w.group = NoGroup /\ Cardinality(admin) = 1
          /\ Create(h, pending, Only(admin), w.venue, w.sport)
       \/ /\ w.group = NoGroup /\ Cardinality(admin) > 1
          /\ Open(h, pending, "groupPick",
                  [kind |-> "groupPick", loose |-> w.loose, made |-> w.made,
                   courts |-> task[h].courts, typed |-> task[h].typed])
          /\ game' = NoGame
       \/ Stop(h) /\ game' = NoGame

(* The end of handleNewGameTimeSlot and of the two texts: whatever is      *)
(* pending by then is deleted; of several groups one is asked for (one     *)
(* such question at a time: a second one replaces the first).              *)
TimeGiven(h) ==
    LET w == At(h) IN
    /\ task[h].do = "time"
    /\ \/ /\ w.group \in admin
          /\ Create(h, Unpend("newGame"), w.group, w.venue, w.sport)
       \/ /\ w.group = NoGroup /\ Cardinality(admin) = 1
          /\ Create(h, pending, Only(admin), w.venue, w.sport)
       \/ /\ w.group = NoGroup /\ Cardinality(admin) > 1
          /\ Open(h, pending, "groupPick",
                  [kind |-> "groupPick", loose |-> w.loose, made |-> w.made,
                   courts |-> task[h].courts, typed |-> task[h].typed])
          /\ game' = NoGame
       \/ Stop(h) /\ game' = NoGame

-----------------------------------------------------------------------------
(* The group asked for at the end, and its venue.  The sport is forgotten. *)

PickGroup(h, g) ==
    LET p == Found("groupPick") IN
    Load(h, "groupPick", [do |-> "pick", group |-> g, courts |-> p.courts,
                          typed |-> p.typed])
GroupPicked(h) ==
    LET g == task[h].group IN
    /\ task[h].do = "pick"
    /\ \/ /\ g \in admin /\ Cardinality(VenuesOf(g)) = 1
          /\ Create(h, Unpend("groupPick"), g, Only(VenuesOf(g)), DefaultSport)
       \/ /\ g \in admin /\ Cardinality(VenuesOf(g)) > 1
          /\ Open(h, Unpend("groupPick"), "groupVenue",
                  [kind |-> "groupVenue", loose |-> At(h).loose, made |-> At(h).made,
                   courts |-> At(h).courts, typed |-> At(h).typed, group |-> g])
          /\ game' = NoGame
       \/ Stop(h) /\ game' = NoGame

PickVenue(h, v) ==
    LET p == Found("groupVenue") IN
    LoadAndDelete(h, "groupVenue", [do |-> "pickVenue", venue |-> v,
                                    courts |-> p.courts, typed |-> p.typed])
VenuePicked(h) ==
    LET v == task[h].venue IN
    /\ task[h].do = "pickVenue"
    /\ \/ /\ GroupOf[v] = At(h).group
          /\ Create(h, pending, At(h).group, v, DefaultSport)
       \/ Stop(h) /\ game' = NoGame

-----------------------------------------------------------------------------
GameStep(h) ==
    \/ TimeGiven(h) \/ GroupPicked(h) \/ VenuePicked(h)
    \/ /\ \/ PressDate(h) \/ SetGroup(h) \/ SetVenue(h)
          \/ (pending["newGame"] # 0 /\
                \/ \E g \in Groups : PressGroup(h, g)
                \/ \E v \in Venues : PressVenue(h, v) \/ ConfirmCourts(h, v)
                \/ \E s \in Sports : PressSport(h, s)
                \/ \E v \in Venues, c \in Courts : ToggleCourt(h, v, c)
                \/ PressSlot(h) \/ TypeTime(h) \/ TypeCourts(h))
          \/ (pending["groupPick"] # 0 /\ \E g \in Groups : PickGroup(h, g))
          \/ (pending["groupVenue"] # 0 /\ \E v \in Venues : PickVenue(h, v))
       /\ game' = NoGame

-----------------------------------------------------------------------------
(* A dialogue makes one game, and its courts are courts of its venue for   *)
(* its sport, or were typed: buttons of old messages, of other venues and  *)
(* of dialogues given up are pressed in between.  Two presses handled at   *)
(* once, and rights that change on the way, are excused: they make two     *)
(* games, or courts of one venue at another (newgame_handlers.go, the      *)
(* checks "Reject presses from an older message").                         *)
GamesAreOfOneDialogue ==
    game = NoGame \/ game.loose \/
        /\ ~game.again
        /\ game.typed \/ /\ game.venue \in Venues
                         /\ game.courts \subseteq CourtsOf[game.venue][game.sport]
=============================================================================
