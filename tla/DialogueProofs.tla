--------------------------- MODULE DialogueProofs ---------------------------
(***************************************************************************)
(* Proofs about the dialogues of one chat, for any number of updates       *)
(* handled at once, of dialogues, groups, venues and courts.               *)
(*                                                                         *)
(* The inductive invariant describes what the maps point to (Memory, by    *)
(* the kind of the dialogue), and what each handler knows of the dialogue  *)
(* it took before its remote call (Task): the step it checked then, unless *)
(* the dialogue was disturbed.  The dialogues about games rest on this: a  *)
(* handler that works on one alone, or knows that it does not.  The venues *)
(* rest on two facts: a handler that is to write a row holds one whose     *)
(* automatic courts are squash courts (Writable), whatever was written     *)
(* since it read the venue, and the wizard comes to automatic booking with *)
(* squash only, the steps before it being over for good (Follows).         *)
(*                                                                         *)
(* Every step goes through one of a few ways to leave the dialogues, each  *)
(* with its lemma: none changes (StayKeeps), one is loaded (TakeKeeps),    *)
(* changed (ChangeKeeps), stored (StoreKeeps), opened (OpenKeeps) or made  *)
(* into a game (CreateKeeps).                                              *)
(***************************************************************************)
EXTENDS Dialogue, FiniteSetTheorems, TLAPS

(* What a dialogue of each kind holds.                                     *)
GameSteps == {"group", "venue", "sport", "courtPick", "time", "courts"}
FirstSteps == {"name", "sport", "courts"}
AutoSteps == {"auto", "autoCourts", "autoCount"}
VenueSteps ==
    FirstSteps \cup AutoSteps \cup {"slots", "pref", "address", "days", "grace", "opens"}

NewGames ==
    [kind : {"newGame"}, loose : BOOLEAN, step : GameSteps, group : Groups \cup {NoGroup},
     venue : Venues \cup {NoVenue}, sport : Sports, offered : SUBSET Courts,
     picked : SUBSET Courts, made : BOOLEAN]
GroupPicks ==
    [kind : {"groupPick"}, loose : BOOLEAN, made : BOOLEAN, courts : SUBSET Courts,
     typed : BOOLEAN]
VenuePicks ==
    [kind : {"groupVenue"}, loose : BOOLEAN, made : BOOLEAN, courts : SUBSET Courts,
     typed : BOOLEAN, group : Groups]
NewVenues ==
    [kind : {"venueWizard"}, loose : BOOLEAN, step : VenueSteps, sport : Sports,
     courts : SUBSET Courts, slots : SUBSET Slots, picked : SUBSET Slots, auto : BOOLEAN,
     autoCourts : SUBSET Courts, allowed : BOOLEAN]
Edits ==
    [kind : {"venueEdit"}, loose : BOOLEAN, field : {"courts", "slots", "autoCourts", "other"}]
        \cup [kind : {"sportEdit"}, loose : BOOLEAN, sport : Sports, field : {"courts", "ppc"}]
        \cup [kind : {"daysEdit"}, loose : BOOLEAN]
        \cup [kind : {"ptimeEdit"}, loose : BOOLEAN, slots : SUBSET Slots, picked : SUBSET Slots]
        \cup [kind : {"credAdd"}, loose : BOOLEAN,
              step : {"login", "priority", "maxCourts", "password"}]

(* A dialogue about a game that nobody disturbed has made none, and offers *)
(* courts of its venue and sport only; without a group the user is an      *)
(* administrator of one, n being their number.                             *)
FirmGame(m, n) ==
    /\ ~m.made
    /\ m.step \in {"group", "venue"} => m.offered = {}
    /\ m.offered # {} => m.venue \in Venues /\ m.offered \subseteq CourtsOf[m.venue][m.sport]
    /\ m.group = NoGroup /\ m.step # "group" => n = 1

(* One that was disturbed still has its types.                             *)
GameMemory(m, n) ==
    /\ m \in NewGames
    /\ m.step = "sport" => m.venue \in Venues
    /\ m.loose \/ FirmGame(m, n)
PickMemory(m) ==
    /\ m \in GroupPicks \cup VenuePicks
    /\ m.loose \/ (~m.made /\ (m.typed \/ m.courts = {}))

(* A new venue is booked automatically on its squash courts only.          *)
VenueMemory(m) ==
    /\ m \in NewVenues
    /\ m.autoCourts \subseteq m.courts
    /\ m.step \in FirstSteps => m.autoCourts = {}
    /\ m.allowed \/ m.step \in AutoSteps \/ m.autoCourts # {} => m.sport = DefaultSport

Memory(m, n) ==
    CASE m.kind = "newGame" -> GameMemory(m, n)
      [] m.kind \in {"groupPick", "groupVenue"} -> PickMemory(m)
      [] m.kind = "venueWizard" -> VenueMemory(m)
      [] OTHER -> m \in Edits

-----------------------------------------------------------------------------
(* What a handler knows of dialogue m, its task being t, the dialogues     *)
(* pending p.                                                              *)
Rows ==
    [group : {HomeGroup}, sports : [Sports -> SUBSET Courts], slots : SUBSET Slots,
     pref : SUBSET Slots, auto : BOOLEAN, autoCourts : SUBSET Courts]

TaskKind ==
    [group |-> "newGame", venue |-> "newGame", time |-> "newGame", pick |-> "groupPick",
     pickVenue |-> "groupVenue", auto |-> "venueWizard", addVenue |-> "venueWizard",
     text |-> "venueEdit", sportText |-> "sportEdit", days |-> "daysEdit",
     ptime |-> "ptimeEdit", priorities |-> "credAdd", addCred |-> "credAdd"]

GameTask(t, m, p) ==
    /\ t.do = "group" => t.group \in Groups /\ (m.loose \/ m.step = "group")
    /\ t.do = "venue" => t.venue \in Venues /\ (m.loose \/ m.step = "venue")
    /\ t.do = "time" =>
         /\ t.courts \in SUBSET Courts /\ t.typed \in BOOLEAN
         /\ m.loose \/ t.typed \/ t.courts \subseteq m.offered
         /\ m.loose \/ m.group # NoGroup \/ p["newGame"] # t.on
    /\ t.do \in {"pick", "pickVenue"} =>
         /\ t.courts \in SUBSET Courts /\ t.typed \in BOOLEAN
         /\ m.loose \/ t.typed \/ t.courts = {}
    /\ t.do = "pick" => t.group \in Groups
    /\ t.do = "pickVenue" => t.venue \in Venues /\ p["groupVenue"] # t.on

VenueTask(t, m) ==
    /\ t.do = "auto" =>
         t.enable \in BOOLEAN /\ m.step \notin FirstSteps /\ m.sport = DefaultSport
    /\ t.do = "addVenue" => t.pref \in SUBSET Slots
    /\ t.do = "ptime" => t.pref \in SUBSET Slots
    /\ t.do = "write" => t.row \in Rows /\ t.row.autoCourts \subseteq SquashCourts(t.row)

Task(t, s, p, n) ==
    /\ t.on \in Sessions \cup {0}
    /\ t.on # 0 => s[t.on].kind \in Kinds /\ Memory(s[t.on], n)
    /\ t.do \in DOMAIN TaskKind => t.on # 0 /\ s[t.on].kind = TaskKind[t.do]
    /\ GameTask(t, s[t.on], p) /\ VenueTask(t, s[t.on])

(* The invariant of maps p, memory s, tasks tk, and n groups administered. *)
(* Two handlers are at one dialogue about a game only if it knows.         *)
Chats(p, s, tk, n) ==
    /\ p \in [Kinds -> Sessions \cup {0}]
    /\ s = [i \in Sessions |-> s[i]] /\ tk = [h \in Handlers |-> tk[h]]
    /\ \A k \in Kinds : p[k] # 0 => s[p[k]].kind = k /\ Memory(s[p[k]], n)
    /\ \A h \in Handlers : Task(tk[h], s, p, n)
    /\ \A h, o \in Handlers :
         h # o /\ tk[h].on # 0 /\ tk[h].on = tk[o].on /\ s[tk[h].on].kind \in GameKinds =>
           s[tk[h].on].loose

ChatInv == Chats(pending, session, task, Cardinality(admin))

RowOK(r) == r = NoRow \/ (r \in Rows /\ Whole(r))
VenueInv == RowOK(row) /\ RowOK(added) /\ allowed \in BOOLEAN

-----------------------------------------------------------------------------
(* Dialogues by their kind.                                                *)

(* A dialogue that is disturbed keeps what it holds.                       *)
LEMMA MemoryLoosens ==
    ASSUME NEW n, NEW n2, NEW m, Memory(m, n), m.kind \in Kinds,
           NEW b \in BOOLEAN, m.loose => b, n2 = n \/ b \/ m.kind \notin GameKinds
    PROVE  /\ Memory([m EXCEPT !.loose = b], n2)
           /\ [m EXCEPT !.loose = b].kind = m.kind
           /\ [m EXCEPT !.loose = b].loose = b
<1> DEFINE m2 == [m EXCEPT !.loose = b]
<1>1. CASE m.kind = "newGame"
  <2>1. m \in NewGames /\ GameMemory(m, n)
    BY <1>1 DEF Memory, GameMemory
  <2>2. m2 \in NewGames /\ m2.loose = b /\ m2.step = m.step /\ m2.venue = m.venue
          /\ m2.offered = m.offered /\ m2.made = m.made /\ m2.sport = m.sport
          /\ m2.group = m.group /\ m2.kind = "newGame"
    BY <2>1 DEF NewGames
  <2> HIDE DEF m2
  <2>3. GameMemory(m2, n2)
    BY <1>1, <2>1, <2>2 DEF GameMemory, FirmGame, GameKinds
  <2>4. Memory(m2, n2)
    BY <2>2, <2>3 DEF Memory
  <2> QED
    BY <1>1, <2>2, <2>4 DEF m2
<1>2. CASE m.kind \in {"groupPick", "groupVenue"}
  <2>1. m \in GroupPicks \cup VenuePicks /\ PickMemory(m)
    BY <1>2 DEF Memory, PickMemory
  <2>2. m2 \in GroupPicks \cup VenuePicks /\ m2.loose = b /\ m2.made = m.made
          /\ m2.typed = m.typed /\ m2.courts = m.courts /\ m2.kind = m.kind
    BY <2>1 DEF GroupPicks, VenuePicks
  <2> HIDE DEF m2
  <2>3. PickMemory(m2)
    BY <2>1, <2>2 DEF PickMemory
  <2>4. Memory(m2, n2)
    BY <1>2, <2>2, <2>3 DEF Memory
  <2> QED
    BY <2>2, <2>4 DEF m2
<1>3. CASE m.kind = "venueWizard"
  <2>1. m \in NewVenues /\ VenueMemory(m)
    BY <1>3 DEF Memory, VenueMemory
  <2>2. m2 \in NewVenues /\ m2.loose = b /\ m2.step = m.step /\ m2.courts = m.courts
          /\ m2.autoCourts = m.autoCourts /\ m2.allowed = m.allowed /\ m2.sport = m.sport
          /\ m2.kind = "venueWizard"
    BY <2>1 DEF NewVenues
  <2> HIDE DEF m2
  <2>3. VenueMemory(m2)
    BY <2>1, <2>2 DEF VenueMemory
  <2>4. Memory(m2, n2)
    BY <2>2, <2>3 DEF Memory
  <2> QED
    BY <1>3, <2>2, <2>4 DEF m2
<1>4. CASE m.kind \notin {"newGame", "groupPick", "groupVenue", "venueWizard"}
  <2>1. m \in Edits
    BY <1>4 DEF Memory
  <2>2. m2 \in Edits /\ m2.loose = b /\ m2.kind = m.kind
    BY <2>1 DEF Edits
  <2> HIDE DEF m2
  <2>3. Memory(m2, n2)
    BY <1>4, <2>2 DEF Memory
  <2> QED
    BY <2>2, <2>3 DEF m2
<1> QED
  BY <1>1, <1>2, <1>3, <1>4

(* Its handlers know of it what they knew.                                 *)
LEMMA TaskLoosens ==
    ASSUME NEW n, NEW m, Memory(m, n), m.kind \in Kinds, NEW b \in BOOLEAN, m.loose => b,
           NEW t, t.do \in DOMAIN TaskKind => m.kind = TaskKind[t.do],
           NEW p, NEW q, GameTask(t, m, p), VenueTask(t, m),
           q["newGame"] = t.on => p["newGame"] = t.on,
           q["groupVenue"] = t.on => p["groupVenue"] = t.on
    PROVE  GameTask(t, [m EXCEPT !.loose = b], q) /\ VenueTask(t, [m EXCEPT !.loose = b])
<1> DEFINE m2 == [m EXCEPT !.loose = b]
<1>1. CASE m.kind = "newGame"
  <2>1. /\ m2.loose = b /\ m2.step = m.step /\ m2.offered = m.offered /\ m2.group = m.group
    BY <1>1 DEF Memory, GameMemory, NewGames
  <2>2. t.do \notin {"auto", "pick", "pickVenue", "addVenue", "ptime"}
    BY <1>1 DEF TaskKind
  <2> HIDE DEF m2
  <2>3. GameTask(t, m2, q) /\ VenueTask(t, m2)
    BY <2>1, <2>2 DEF GameTask, VenueTask
  <2> QED
    BY <2>3 DEF m2
<1>2. CASE m.kind \in {"groupPick", "groupVenue"}
  <2>1. /\ m2.loose = b
    BY <1>2 DEF Memory, PickMemory, GroupPicks, VenuePicks
  <2>2. t.do \notin {"auto", "group", "venue", "time", "addVenue", "ptime"}
    BY <1>2 DEF TaskKind
  <2> HIDE DEF m2
  <2>3. GameTask(t, m2, q) /\ VenueTask(t, m2)
    BY <2>1, <2>2 DEF GameTask, VenueTask
  <2> QED
    BY <2>3 DEF m2
<1>3. CASE m.kind \notin GameKinds
  <2>1. m.kind = "venueWizard" => m2.step = m.step /\ m2.sport = m.sport
    BY DEF Memory, VenueMemory, NewVenues
  <2>2. /\ t.do \notin {"group", "venue", "time", "pick", "pickVenue"}
        /\ t.do = "auto" => m.kind = "venueWizard"
    BY <1>3 DEF TaskKind, GameKinds
  <2> HIDE DEF m2
  <2>3. GameTask(t, m2, q) /\ VenueTask(t, m2)
    BY <2>1, <2>2 DEF GameTask, VenueTask
  <2> QED
    BY <2>3 DEF m2
<1> QED
  BY <1>1, <1>2, <1>3 DEF GameKinds

-----------------------------------------------------------------------------
(* What a step leaves: dialogues nobody refers to are gone.                *)
LEMMA LeaveKeeps ==
    ASSUME NEW h \in Handlers, NEW p, NEW s, NEW t, Leave(h, p, s, t),
           Chats(p, s, [task EXCEPT ![h] = t], Cardinality(admin))
    PROVE  ChatInv'
<1> DEFINE tk == [task EXCEPT ![h] = t]
           n == Cardinality(admin)
<1>1. /\ pending' = p /\ task' = tk /\ Cardinality(admin)' = n
      /\ session' = [i \in Sessions |->
            IF i \in {p[k] : k \in Kinds} \cup {tk[o].on : o \in Handlers} THEN s[i] ELSE Gone]
  BY DEF Leave
<1> HIDE DEF tk, n
<1>2. Chats(p, s, tk, n)
  BY DEF tk, n
<1>3. \A k \in Kinds : p[k] # 0 => session'[p[k]] = s[p[k]]
  BY <1>1, <1>2 DEF Chats
<1>4. \A o \in Handlers : tk[o].on # 0 => session'[tk[o].on] = s[tk[o].on]
  BY <1>1, <1>2 DEF Chats, Task
<1>5. ASSUME NEW o \in Handlers PROVE Task(tk[o], session', p, n)
  <2> DEFINE u == tk[o]
  <2>1. Task(u, s, p, n)
    BY <1>2 DEF Chats
  <2>2. u.on # 0 => session'[u.on] = s[u.on]
    BY <1>4
  <2>3. CASE u.on # 0
    BY <2>1, <2>2, <2>3 DEF Task
  <2>4. CASE u.on = 0
    <3>1. u.do \notin DOMAIN TaskKind
      BY <2>1, <2>4 DEF Task
    <3>2. u.do \notin {"group", "venue", "time", "pick", "pickVenue", "auto", "addVenue", "ptime"}
      BY <3>1 DEF TaskKind
    <3>3. GameTask(u, session'[u.on], p) /\ VenueTask(u, session'[u.on])
      BY <2>1, <3>2 DEF Task, GameTask, VenueTask
    <3> QED
      BY <2>1, <2>4, <3>1, <3>3 DEF Task
  <2> QED
    BY <2>3, <2>4
<1>6. Chats(p, session', tk, n)
  BY <1>1, <1>2, <1>3, <1>4, <1>5 DEF Chats
<1> QED
  BY <1>1, <1>6 DEF ChatInv

(* A step of handler h that changes dialogue i into m: it may store it,    *)
(* forget others, and must leave the other handlers of i what they know.   *)
LEMMA MoveKeeps ==
    ASSUME ChatInv, NEW h \in Handlers, NEW i \in Sessions, NEW m, NEW t,
           NEW p \in [Kinds -> Sessions \cup {0}],
           NEW n, n = Cardinality(admin),
           \A k \in Kinds : /\ p[k] \in {0, pending[k], i}
                            /\ p[k] = i => m.kind = k /\ Memory(m, n),
           Task(t, [session EXCEPT ![i] = m], p, n),
           t.on \in {0, i, task[h].on},
           \A o \in Handlers \ {h} : task[o].on = i =>
              /\ m.kind = session[i].kind /\ Memory(m, n)
              /\ GameTask(task[o], m, p) /\ VenueTask(task[o], m)
              /\ m.kind \in GameKinds /\ (session[i].loose \/ t.on = i) => m.loose
    PROVE  Chats(p, [session EXCEPT ![i] = m], [task EXCEPT ![h] = t], n)
<1> DEFINE s == [session EXCEPT ![i] = m]
           tk == [task EXCEPT ![h] = t]
<1>1. /\ s = [j \in Sessions |-> IF j = i THEN m ELSE session[j]]
      /\ tk = [o \in Handlers |-> IF o = h THEN t ELSE task[o]]
  BY DEF ChatInv, Chats
<1>2. Task(t, s, p, n)
  OBVIOUS
<1> HIDE DEF s, tk
<1>3. s = [j \in Sessions |-> s[j]] /\ tk = [o \in Handlers |-> tk[o]]
  BY <1>1
<1>4. \A k \in Kinds : p[k] # 0 => s[p[k]].kind = k /\ Memory(s[p[k]], n)
  BY <1>1 DEF ChatInv, Chats
<1>5. ASSUME NEW o \in Handlers PROVE Task(tk[o], s, p, n)
  <2>1. CASE o = h
    BY <1>1, <1>2, <2>1
  <2>2. CASE o # h
    <3> DEFINE u == task[o]
    <3>1. tk[o] = u /\ Task(u, session, pending, n)
      BY <1>1, <2>2 DEF ChatInv, Chats
    <3>2. u.on = i => m.kind = session[i].kind /\ Memory(m, n) /\ GameTask(u, m, p) /\ VenueTask(u, m)
      BY <2>2
    <3> HIDE DEF u
    <3>3. CASE u.on = i
      BY <1>1, <3>1, <3>2, <3>3 DEF Task
    <3>4. CASE u.on # i /\ u.on # 0
      <4>1. s[u.on] = session[u.on]
        BY <1>1, <3>1, <3>4 DEF Task
      <4>2. /\ "newGame" \in Kinds /\ "groupVenue" \in Kinds
        BY DEF Kinds
      <4>3. GameTask(u, session[u.on], p)
        BY <3>1, <3>4, <4>2 DEF Task, GameTask
      <4> QED
        BY <3>1, <4>1, <4>3 DEF Task
    <3>5. CASE u.on = 0
      <4>1. u.do \notin DOMAIN TaskKind
        BY <3>1, <3>5 DEF Task
      <4>2. u.do \notin {"group", "venue", "time", "pick", "pickVenue", "auto", "addVenue", "ptime"}
        BY <4>1 DEF TaskKind
      <4>3. GameTask(u, s[u.on], p) /\ VenueTask(u, s[u.on])
        BY <3>1, <4>2 DEF Task, GameTask, VenueTask
      <4> QED
        BY <3>1, <3>5, <4>1, <4>3 DEF Task
    <3> QED
      BY <3>1, <3>3, <3>4, <3>5
  <2> QED
    BY <2>1, <2>2
<1>6. ASSUME NEW o \in Handlers, NEW v \in Handlers, o # v, tk[o].on # 0, tk[o].on = tk[v].on,
             s[tk[o].on].kind \in GameKinds
      PROVE  s[tk[o].on].loose
  <2> DEFINE j == tk[o].on
  <2>1. j \in Sessions
    BY <1>5, <1>6 DEF Task
  <2>2. \A a, b \in Handlers : a # b /\ task[a].on # 0 /\ task[a].on = task[b].on
                                 /\ session[task[a].on].kind \in GameKinds =>
           session[task[a].on].loose
    BY DEF ChatInv, Chats
  <2>3. CASE j # i
    <3>1. task[o].on = j /\ task[v].on = j /\ s[j] = session[j]
      BY <1>1, <1>6, <2>1, <2>3
    <3> QED
      BY <1>6, <2>2, <3>1
  <2>4. CASE j = i
    <3>1. s[j] = m
      BY <1>1, <2>1, <2>4
    <3>2. CASE o = h \/ v = h
      BY <1>1, <1>6, <2>4, <3>1, <3>2
    <3>3. CASE o # h /\ v # h
      <4>1. task[o].on = i /\ task[v].on = i
        BY <1>1, <1>6, <2>4, <3>3
      <4>2. session[i].loose
        BY <1>6, <2>1, <2>2, <2>4, <3>1, <3>3, <4>1
      <4> QED
        BY <1>6, <2>4, <3>1, <3>3, <4>1, <4>2
    <3> QED
      BY <3>2, <3>3
  <2> QED
    BY <2>3, <2>4
<1>7. Chats(p, s, tk, n)
  BY <1>3, <1>4, <1>5, <1>6 DEF Chats
<1> QED
  BY <1>7 DEF s, tk

-----------------------------------------------------------------------------
(* The ways in which a handler leaves the dialogues.                       *)

Number == Cardinality(admin)

(* What is pending and what is loaded is known.                            *)
LEMMA Known ==
    ASSUME ChatInv
    PROVE  /\ \A k \in Kinds : pending[k] # 0 =>
                 /\ pending[k] \in Sessions /\ Found(k).kind = k /\ Memory(Found(k), Number)
           /\ \A h \in Handlers :
                 /\ Task(task[h], session, pending, Number)
                 /\ task[h].on # 0 => task[h].on \in Sessions /\ At(h).kind \in Kinds
                                        /\ Memory(At(h), Number)
           /\ \A h, o \in Handlers :
                 h # o /\ task[h].on # 0 /\ task[o].on = task[h].on /\ At(h).kind \in GameKinds =>
                   At(h).loose
           /\ pending \in [Kinds -> Sessions \cup {0}]
           /\ task = [h \in Handlers |-> task[h]] /\ session = [i \in Sessions |-> session[i]]
<1>1. Chats(pending, session, task, Number)
  BY DEF ChatInv, Number
<1> QED
  BY <1>1 DEF Chats, Task, Found, At

(* A handler that has nothing to do knows nothing.                         *)
LEMMA IdleIsTask == ASSUME NEW s, NEW p, NEW n PROVE Task(Idle, s, p, n)
<1>1. Idle.do = "idle" /\ Idle.on = 0
  BY DEF Idle
<1>2. Idle.do \notin DOMAIN TaskKind
  BY <1>1 DEF TaskKind
<1> QED
  BY <1>1, <1>2 DEF Task, GameTask, VenueTask

(* No dialogue is changed; the handler is done, or is to write a venue.    *)
LEMMA StayKeeps ==
    ASSUME ChatInv, NEW h \in Handlers, NEW p \in [Kinds -> Sessions \cup {0}],
           \A k \in Kinds : p[k] \in {0, pending[k]},
           NEW t, Leave(h, p, session, t),
           t = Idle \/ /\ t.on \in {0, task[h].on} /\ t.do = "write"
                       /\ t.row \in Rows /\ t.row.autoCourts \subseteq SquashCourts(t.row)
    PROVE  ChatInv'
<1>1. 1 \in Sessions
  BY ChatAssumption DEF Sessions, ChatAssumption
<1>2. [session EXCEPT ![1] = session[1]] = session
  BY <1>1, Known
<1>3. t.on \in {0, task[h].on}
  BY DEF Idle
<1>4. Task(t, session, p, Number)
  <2>1. CASE t = Idle
    BY <2>1, IdleIsTask
  <2>2. CASE t # Idle
    <3>1. t.do \notin DOMAIN TaskKind
      BY <2>2 DEF TaskKind
    <3> QED
      BY <2>2, <3>1, Known DEF Task, GameTask, VenueTask, At
  <2> QED
    BY <2>1, <2>2
<1>5. ASSUME NEW o \in Handlers, task[o].on = 1
      PROVE  /\ Memory(session[1], Number) /\ VenueTask(task[o], session[1])
             /\ GameTask(task[o], session[1], p)
  <2>1. /\ Memory(session[1], Number) /\ VenueTask(task[o], session[1])
        /\ GameTask(task[o], session[1], pending)
    BY <1>5, Known DEF Task, At
  <2>2. "newGame" \in Kinds /\ "groupVenue" \in Kinds
    BY DEF Kinds
  <2>3. p["newGame"] \in {0, pending["newGame"]} /\ p["groupVenue"] \in {0, pending["groupVenue"]}
    BY <2>2
  <2>4. GameTask(task[o], session[1], p)
    BY <1>5, <2>1, <2>3 DEF GameTask
  <2> QED
    BY <2>1, <2>4
<1>6. \A k \in Kinds : p[k] = 1 => session[1].kind = k /\ Memory(session[1], Number)
  BY Known DEF Found
<1>7. ASSUME NEW o \in Handlers \ {h}, task[o].on = 1, session[1].kind \in GameKinds, t.on = 1
      PROVE  session[1].loose
  BY <1>3, <1>7, Known DEF At
<1>8. Chats(p, [session EXCEPT ![1] = session[1]], [task EXCEPT ![h] = t], Number)
  BY <1>1, <1>2, <1>3, <1>4, <1>5, <1>6, <1>7, MoveKeeps DEF Number
<1> QED
  BY <1>2, <1>8, LeaveKeeps DEF Number

(* A free handler loads a dialogue.                                        *)
LEMMA TakeKeeps ==
    ASSUME ChatInv, NEW h \in Handlers, NEW k \in Kinds, Free(h), pending[k] # 0,
           NEW p \in {pending, Unpend(k)}, NEW t,
           Leave(h, p, Shared(h, pending[k]), t),
           t.on = pending[k], t.do \in DOMAIN TaskKind, TaskKind[t.do] = k,
           GameTask(t, Found(k), p), VenueTask(t, Found(k))
    PROVE  ChatInv'
<1> DEFINE i == pending[k]
           b == session[i].loose \/ Held(h, i)
           m == [session[i] EXCEPT !.loose = b]
<1>1. /\ i \in Sessions /\ session[i].kind = k /\ Memory(session[i], Number)
      /\ p \in [Kinds -> Sessions \cup {0}]
      /\ \A j \in Kinds : p[j] \in {0, pending[j]}
  BY Known DEF Found, Unpend
<1>2. Shared(h, i) = [session EXCEPT ![i] = m]
  BY <1>1, Known DEF Shared
<1>3. b \in BOOLEAN /\ (session[i].loose => b)
  OBVIOUS
<1> HIDE DEF b
<1>4. Memory(m, Number) /\ m.kind = k /\ m.loose = b
  BY <1>1, <1>3, MemoryLoosens
<1>5. GameTask(t, m, p) /\ VenueTask(t, m)
  BY <1>1, <1>3, TaskLoosens DEF Found
<1>6. ASSUME NEW o \in Handlers \ {h}, task[o].on = i
      PROVE  /\ GameTask(task[o], m, p) /\ VenueTask(task[o], m)
             /\ m.kind \in GameKinds => m.loose
  <2>1. Task(task[o], session, pending, Number)
    BY Known
  <2>2. /\ task[o].do \in DOMAIN TaskKind => session[i].kind = TaskKind[task[o].do]
        /\ GameTask(task[o], session[i], pending) /\ VenueTask(task[o], session[i])
    BY <1>6, <2>1 DEF Task
  <2>3. "newGame" \in Kinds /\ "groupVenue" \in Kinds
    BY DEF Kinds
  <2>4. p["newGame"] \in {0, pending["newGame"]} /\ p["groupVenue"] \in {0, pending["groupVenue"]}
    BY <1>1, <2>3
  <2>5. GameTask(task[o], m, p) /\ VenueTask(task[o], m)
    BY <1>1, <1>3, <1>6, <2>2, <2>4, TaskLoosens
  <2>6. m.kind \in GameKinds => b
    BY <1>1, <1>4, <1>6 DEF Held, b
  <2> QED
    BY <1>4, <2>5, <2>6
<1> HIDE DEF m
<1>7. Task(t, [session EXCEPT ![i] = m], p, Number)
  BY <1>1, <1>4, <1>5, Known DEF Task
<1>8. \A j \in Kinds : p[j] = i => j = k
  BY <1>1, Known DEF Found
<1>9. Chats(p, [session EXCEPT ![i] = m], [task EXCEPT ![h] = t], Number)
  BY <1>1, <1>4, <1>6, <1>7, <1>8, MoveKeeps DEF Number
<1> QED
  BY <1>2, <1>9, LeaveKeeps DEF Number

(* New contents of a dialogue that others may work on.                     *)
Follows(new, old) ==
    /\ Memory(new, Number) /\ new.kind = old.kind
    /\ old.kind = "venueWizard" /\ old.step \notin FirstSteps =>
         new.step \notin FirstSteps /\ new.sport = old.sport

(* What the others know of it then, when it knows of them.                 *)
LEMMA OthersKnow ==
    ASSUME NEW m, NEW old, NEW t, NEW p, NEW q, m.kind = old.kind, old.kind \in Kinds,
           old.kind \in GameKinds => m.loose,
           old.kind = "venueWizard" /\ old.step \notin FirstSteps =>
             m.step \notin FirstSteps /\ m.sport = old.sport,
           t.do \in DOMAIN TaskKind => old.kind = TaskKind[t.do],
           GameTask(t, old, p), VenueTask(t, old),
           q["groupVenue"] = t.on => p["groupVenue"] = t.on
    PROVE  GameTask(t, m, q) /\ VenueTask(t, m)
<1>1. /\ t.do \in {"group", "venue", "time", "pick", "pickVenue"} => m.loose
      /\ t.do = "auto" => old.kind = "venueWizard"
  BY DEF TaskKind, GameKinds
<1> QED
  BY <1>1 DEF GameTask, VenueTask

(* The dialogue pending is changed.                                        *)
LEMMA ChangeKeeps ==
    ASSUME ChatInv, NEW h \in Handlers, NEW k \in Kinds, NEW new, Change(h, k, new),
           Follows(new, Found(k))
    PROVE  ChatInv'
<1> DEFINE i == pending[k]
           b == new.loose \/ Held(h, i)
           m == [new EXCEPT !.loose = b]
<1>1. /\ i # 0 /\ i \in Sessions /\ session[i].kind = k /\ Memory(session[i], Number)
      /\ Memory(new, Number) /\ new.kind = k
      /\ Leave(h, pending, [session EXCEPT ![i] = m], Idle)
  BY Known DEF Found, Change, Follows
<1>2. b \in BOOLEAN /\ (new.loose => b)
  OBVIOUS
<1> HIDE DEF b
<1>3. Memory(m, Number) /\ m.kind = k /\ m.loose = b
  BY <1>1, <1>2, MemoryLoosens
<1>4. k = "venueWizard" => m.step = new.step /\ m.sport = new.sport
  BY <1>1 DEF Memory, VenueMemory, NewVenues
<1>5. ASSUME NEW o \in Handlers \ {h}, task[o].on = i
      PROVE  /\ GameTask(task[o], m, pending) /\ VenueTask(task[o], m)
             /\ m.kind \in GameKinds => m.loose
  <2>1. Task(task[o], session, pending, Number)
    BY Known
  <2>2. /\ task[o].do \in DOMAIN TaskKind => session[i].kind = TaskKind[task[o].do]
        /\ GameTask(task[o], session[i], pending) /\ VenueTask(task[o], session[i])
    BY <1>5, <2>1 DEF Task
  <2>3. k \in GameKinds => b
    BY <1>1, <1>5 DEF Held, b
  <2> HIDE DEF m
  <2>4. k = "venueWizard" /\ session[i].step \notin FirstSteps =>
          m.step \notin FirstSteps /\ m.sport = session[i].sport
    BY <1>1, <1>4 DEF Follows, Found
  <2>5. GameTask(task[o], m, pending) /\ VenueTask(task[o], m)
    BY <1>1, <1>3, <2>2, <2>3, <2>4, OthersKnow
  <2> QED
    BY <1>3, <2>3, <2>5
<1> HIDE DEF m
<1>6. Task(Idle, [session EXCEPT ![i] = m], pending, Number) /\ Idle.on = 0
  BY IdleIsTask DEF Idle
<1>7. \A j \in Kinds : pending[j] = i => j = k
  BY <1>1, Known DEF Found
<1>8. Chats(pending, [session EXCEPT ![i] = m], [task EXCEPT ![h] = Idle], Number)
  BY <1>1, <1>3, <1>5, <1>6, <1>7, Known, MoveKeeps DEF Number
<1> QED
  BY <1>1, <1>8, LeaveKeeps DEF Number

(* The handler stores what it works on again.                              *)
LEMMA StoreKeeps ==
    ASSUME ChatInv, NEW h \in Handlers, NEW k \in {"newGame", "venueWizard", "credAdd"},
           NEW new, Store(h, k, new), task[h].on # 0, At(h).kind = k, Follows(new, At(h)),
           k = "newGame" /\ At(h).loose => new.loose
    PROVE  ChatInv'
<1> DEFINE i == task[h].on
           p == [pending EXCEPT ![k] = i]
<1>1. /\ i # 0 /\ i \in Sessions /\ session[i].kind = k /\ Memory(session[i], Number)
      /\ Memory(new, Number) /\ new.kind = k /\ k \in Kinds
      /\ Leave(h, p, [session EXCEPT ![i] = new], Idle)
  BY Known DEF At, Store, Follows, Kinds
<1>2. /\ p \in [Kinds -> Sessions \cup {0}]
      /\ \A j \in Kinds : p[j] \in {0, pending[j], i} /\ (p[j] = i => j = k)
  BY <1>1, Known DEF Found
<1>3. ASSUME NEW o \in Handlers \ {h}, task[o].on = i
      PROVE  /\ GameTask(task[o], new, p) /\ VenueTask(task[o], new)
             /\ new.kind \in GameKinds => new.loose
  <2>1. Task(task[o], session, pending, Number)
    BY Known
  <2>2. /\ task[o].do \in DOMAIN TaskKind => session[i].kind = TaskKind[task[o].do]
        /\ GameTask(task[o], session[i], pending) /\ VenueTask(task[o], session[i])
    BY <1>3, <2>1 DEF Task
  <2>3. k \in GameKinds => new.loose
    <3>1. k \in GameKinds => At(h).loose
      BY <1>1, <1>3, Known DEF At
    <3> QED
      BY <3>1 DEF GameKinds
  <2>4. k = "venueWizard" /\ session[i].step \notin FirstSteps =>
          new.step \notin FirstSteps /\ new.sport = session[i].sport
    BY DEF Follows, At
  <2>5. p["groupVenue"] = pending["groupVenue"]
    <3>1. "groupVenue" \in Kinds /\ "groupVenue" # k
      BY DEF Kinds
    <3> QED
      BY <3>1, Known
  <2> HIDE DEF p
  <2>6. GameTask(task[o], new, p) /\ VenueTask(task[o], new)
    BY <1>1, <2>2, <2>3, <2>4, <2>5, OthersKnow
  <2> QED
    BY <1>1, <2>3, <2>6
<1> HIDE DEF p
<1>4. Task(Idle, [session EXCEPT ![i] = new], p, Number) /\ Idle.on = 0
  BY IdleIsTask DEF Idle
<1>5. Chats(p, [session EXCEPT ![i] = new], [task EXCEPT ![h] = Idle], Number)
  BY <1>1, <1>2, <1>3, <1>4, MoveKeeps DEF Number
<1> QED
  BY <1>1, <1>5, LeaveKeeps DEF Number

(* A dialogue is opened in memory that nobody refers to.                   *)
LEMMA OpenKeeps ==
    ASSUME ChatInv, NEW h \in Handlers, NEW k \in Kinds, NEW q \in [Kinds -> Sessions \cup {0}],
           \A j \in Kinds : q[j] \in {0, pending[j]},
           NEW new, Memory(new, Number), new.kind = k, Open(h, q, k, new)
    PROVE  ChatInv'
<1>1. PICK i \in Sessions :
        /\ session[i] = Gone
        /\ Leave(h, [q EXCEPT ![k] = i], [session EXCEPT ![i] = new], Idle)
  BY DEF Open
<1> DEFINE p == [q EXCEPT ![k] = i]
<1>2. i # 0 /\ session[i].kind \notin Kinds
  BY <1>1, ChatAssumption DEF Gone, Kinds, Sessions, ChatAssumption
<1>3. \A j \in Kinds : pending[j] # i
  BY <1>2, Known DEF Found
<1>4. \A o \in Handlers : task[o].on # i
  BY <1>2, Known DEF At
<1>5. /\ p \in [Kinds -> Sessions \cup {0}]
      /\ \A j \in Kinds : p[j] \in {0, pending[j], i} /\ (p[j] = i => j = k)
  BY <1>2, <1>3
<1> HIDE DEF p
<1>6. Task(Idle, [session EXCEPT ![i] = new], p, Number) /\ Idle.on = 0
  BY IdleIsTask DEF Idle
<1>7. Chats(p, [session EXCEPT ![i] = new], [task EXCEPT ![h] = Idle], Number)
  BY <1>4, <1>5, <1>6, MoveKeeps DEF Number
<1> QED
  BY <1>1, <1>7, LeaveKeeps DEF Number, p

(* A game is made of a dialogue that is forgotten or knows of others.      *)
LEMMA MadeStays ==
    ASSUME NEW n, NEW m, Memory(m, n), m.kind \in GameKinds, m.loose
    PROVE  /\ Memory([m EXCEPT !.made = TRUE], n)
           /\ [m EXCEPT !.made = TRUE].kind = m.kind
           /\ [m EXCEPT !.made = TRUE].loose
<1> DEFINE m2 == [m EXCEPT !.made = TRUE]
<1>1. CASE m.kind = "newGame"
  <2>1. m \in NewGames /\ GameMemory(m, n)
    BY <1>1 DEF Memory, GameMemory
  <2>2. m2 \in NewGames /\ m2.loose = m.loose /\ m2.step = m.step /\ m2.venue = m.venue
          /\ m2.kind = "newGame"
    BY <2>1 DEF NewGames
  <2> HIDE DEF m2
  <2>3. GameMemory(m2, n)
    BY <2>1, <2>2 DEF GameMemory
  <2>4. Memory(m2, n)
    BY <2>2, <2>3 DEF Memory
  <2> QED
    BY <1>1, <2>2, <2>4 DEF m2
<1>2. CASE m.kind \in {"groupPick", "groupVenue"}
  <2>1. m \in GroupPicks \cup VenuePicks
    BY <1>2 DEF Memory, PickMemory
  <2>2. m2 \in GroupPicks \cup VenuePicks /\ m2.loose = m.loose /\ m2.kind = m.kind
    BY <2>1 DEF GroupPicks, VenuePicks
  <2> HIDE DEF m2
  <2>3. PickMemory(m2)
    BY <2>2 DEF PickMemory
  <2>4. Memory(m2, n)
    BY <1>2, <2>2, <2>3 DEF Memory
  <2> QED
    BY <2>2, <2>4 DEF m2
<1> QED
  BY <1>1, <1>2 DEF GameKinds

LEMMA CreateKeeps ==
    ASSUME ChatInv, NEW h \in Handlers, NEW p \in [Kinds -> Sessions \cup {0}],
           \A k \in Kinds : p[k] \in {0, pending[k]},
           task[h].on # 0, At(h).kind \in GameKinds,
           At(h).loose \/ p[At(h).kind] # task[h].on,
           Leave(h, p, [session EXCEPT ![task[h].on].made = TRUE], Idle)
    PROVE  ChatInv'
<1> DEFINE i == task[h].on
           m == [session[i] EXCEPT !.made = TRUE]
<1>1. /\ i # 0 /\ i \in Sessions /\ Memory(session[i], Number)
      /\ session[i].kind \in GameKinds /\ session[i].kind \in Kinds
  BY Known DEF At
<1>2. [session EXCEPT ![i].made = TRUE] = [session EXCEPT ![i] = m]
  BY <1>1, Known
<1>3. session[i].loose => Memory(m, Number) /\ m.kind = session[i].kind /\ m.loose
  BY <1>1, MadeStays
<1> HIDE DEF m
<1>4. ASSUME NEW j \in Kinds, p[j] = i
      PROVE  m.kind = j /\ Memory(m, Number)
  <2>1. pending[j] = i /\ session[i].kind = j
    BY <1>1, <1>4, Known DEF Found
  <2> QED
    BY <1>3, <1>4, <2>1 DEF At
<1>5. ASSUME NEW o \in Handlers \ {h}, task[o].on = i
      PROVE  /\ m.kind = session[i].kind /\ Memory(m, Number) /\ m.loose
             /\ GameTask(task[o], m, p) /\ VenueTask(task[o], m)
  <2>1. session[i].loose
    BY <1>1, <1>5, Known DEF At
  <2>2. Task(task[o], session, pending, Number)
    BY Known
  <2>3. /\ task[o].do \in DOMAIN TaskKind => session[i].kind = TaskKind[task[o].do]
        /\ GameTask(task[o], session[i], pending) /\ VenueTask(task[o], session[i])
    BY <1>5, <2>2 DEF Task
  <2>4. p["groupVenue"] = i => pending["groupVenue"] = i
    BY <1>1 DEF Kinds
  <2>5. session[i].kind # "venueWizard"
    BY <1>1 DEF GameKinds
  <2>6. GameTask(task[o], m, p) /\ VenueTask(task[o], m)
    BY <1>1, <1>3, <1>5, <2>1, <2>3, <2>4, <2>5, OthersKnow
  <2> QED
    BY <1>3, <2>1, <2>6
<1>6. Task(Idle, [session EXCEPT ![i] = m], p, Number) /\ Idle.on = 0
  BY IdleIsTask DEF Idle
<1>7. Chats(p, [session EXCEPT ![i] = m], [task EXCEPT ![h] = Idle], Number)
  BY <1>1, <1>4, <1>5, <1>6, MoveKeeps DEF Number
<1> QED
  BY <1>2, <1>7, LeaveKeeps DEF Number

(* Rights change, and every dialogue about a game knows.                   *)
LEMMA RightsKeep ==
    ASSUME ChatInv, NEW g, MoveRights(g)
    PROVE  ChatInv'
<1> DEFINE b(i) == session[i].loose \/ session[i].kind \in GameKinds
<1>1. /\ UNCHANGED <<pending, task>>
      /\ session' = [i \in Sessions |-> [session[i] EXCEPT !.loose = b(i)]]
  BY DEF MoveRights
<1>2. ASSUME NEW i \in Sessions, session[i].kind \in Kinds, Memory(session[i], Number)
      PROVE  /\ Memory(session'[i], Number') /\ session'[i].kind = session[i].kind
             /\ session[i].kind \in GameKinds => session'[i].loose
  <2>1. b(i) \in BOOLEAN /\ (session[i].loose => b(i)) /\ (session[i].kind \in GameKinds => b(i))
    OBVIOUS
  <2>2. session'[i] = [session[i] EXCEPT !.loose = b(i)]
    BY <1>1
  <2> HIDE DEF b
  <2> QED
    BY <1>2, <2>1, <2>2, MemoryLoosens
<1>3. ASSUME NEW o \in Handlers PROVE Task(task[o], session', pending, Number')
  <2> DEFINE u == task[o]
  <2>1. Task(u, session, pending, Number)
    BY Known
  <2>2. CASE u.on = 0
    <3>1. u.do \notin DOMAIN TaskKind
      BY <2>1, <2>2 DEF Task
    <3>2. u.do \notin {"group", "venue", "time", "pick", "pickVenue", "auto", "addVenue", "ptime"}
      BY <3>1 DEF TaskKind
    <3>3. GameTask(u, session'[u.on], pending) /\ VenueTask(u, session'[u.on])
      BY <2>1, <3>2 DEF Task, GameTask, VenueTask
    <3> QED
      BY <2>1, <2>2, <3>1, <3>3 DEF Task
  <2>3. CASE u.on # 0
    <3>1. /\ u.on \in Sessions /\ session[u.on].kind \in Kinds /\ Memory(session[u.on], Number)
          /\ u.do \in DOMAIN TaskKind => session[u.on].kind = TaskKind[u.do]
          /\ GameTask(u, session[u.on], pending) /\ VenueTask(u, session[u.on])
      BY <2>1, <2>3 DEF Task
    <3>2. /\ b(u.on) \in BOOLEAN /\ (session[u.on].loose => b(u.on))
          /\ session'[u.on] = [session[u.on] EXCEPT !.loose = b(u.on)]
      BY <1>1, <3>1
    <3> HIDE DEF b, u
    <3>3. GameTask(u, session'[u.on], pending) /\ VenueTask(u, session'[u.on])
      BY <3>1, <3>2, TaskLoosens
    <3>4. Memory(session'[u.on], Number') /\ session'[u.on].kind = session[u.on].kind
      BY <1>2, <3>1
    <3> QED
      BY <2>1, <2>3, <3>1, <3>3, <3>4 DEF Task, u
  <2> QED
    BY <2>2, <2>3
<1>4. \A k \in Kinds : pending[k] # 0 =>
        session'[pending[k]].kind = k /\ Memory(session'[pending[k]], Number')
  BY <1>2, Known DEF Found
<1>5. \A o, v \in Handlers : o # v /\ task[o].on # 0 /\ task[o].on = task[v].on
          /\ session'[task[o].on].kind \in GameKinds => session'[task[o].on].loose
  BY <1>2, Known DEF At
<1>6. Chats(pending, session', task, Number')
  <2>1. session' = [i \in Sessions |-> session'[i]]
    BY <1>1
  <2> QED
    BY <1>3, <1>4, <1>5, <2>1, Known DEF Chats
<1> QED
  BY <1>1, <1>6 DEF ChatInv, Number

-----------------------------------------------------------------------------
(* The dialogues about games.                                              *)

LEMMA MemoryOfGame ==
    ASSUME NEW m, NEW n, m.kind = "newGame"
    PROVE  Memory(m, n) <=> GameMemory(m, n)
  BY DEF Memory

LEMMA MemoryOfPick ==
    ASSUME NEW m, NEW n, m.kind \in {"groupPick", "groupVenue"}
    PROVE  Memory(m, n) <=> PickMemory(m)
  BY DEF Memory

LEMMA OnlyIsOne == ASSUME NEW S, S # {} PROVE Only(S) \in S
  BY DEF Only

LEMMA OneIsSome == ASSUME NEW S, Cardinality(S) = 1 PROVE Only(S) \in S
<1>1. S # {}
  BY FS_EmptySet
<1> QED
  BY <1>1, OnlyIsOne

(* A dialogue that offered nothing offers courts of the venue it gets.     *)
LEMMA PreparedKeeps ==
    ASSUME NEW w \in NewGames, NEW v \in Venues, NEW n,
           w.loose \/ (~w.made /\ w.offered = {} /\ (w.group = NoGroup => n = 1))
    PROVE  GameMemory(Prepared(w, v), n) /\ Prepared(w, v).kind = "newGame"
             /\ Prepared(w, v).loose = w.loose
<1> DEFINE w1 == [w EXCEPT !.venue = v, !.picked = {}]
           s == Only(SportsOf(v))
           m1 == [w1 EXCEPT !.sport = s, !.offered = CourtsOf[v][s], !.step = "courtPick"]
           m2 == [w1 EXCEPT !.step = "sport"]
<1>1. /\ w1 \in NewGames /\ w1.loose = w.loose /\ w1.made = w.made /\ w1.offered = w.offered
      /\ w1.venue = v /\ w1.group = w.group /\ w1.sport = w.sport
  BY DEF NewGames
<1> HIDE DEF w1
<1>2. CASE Cardinality(SportsOf(v)) = 1
  <2>1. s \in Sports
    BY <1>2, OneIsSome DEF SportsOf
  <2>2. CourtsOf[v][s] \in SUBSET Courts
    BY <2>1, GameAssumption DEF GameAssumption
  <2> HIDE DEF s
  <2>3. /\ m1 \in NewGames /\ m1.loose = w.loose /\ m1.made = w.made /\ m1.venue = v
        /\ m1.offered = CourtsOf[v][s] /\ m1.sport = s /\ m1.group = w.group
        /\ m1.step = "courtPick" /\ m1.kind = "newGame"
    BY <1>1, <2>1, <2>2 DEF NewGames, GameSteps
  <2> HIDE DEF m1
  <2>4. GameMemory(m1, n)
    BY <2>3 DEF GameMemory, FirmGame
  <2>5. Prepared(w, v) = m1
    BY <1>2 DEF Prepared, m1, w1, s
  <2> QED
    BY <2>3, <2>4, <2>5
<1>3. CASE Cardinality(SportsOf(v)) # 1
  <2>1. /\ m2 \in NewGames /\ m2.loose = w.loose /\ m2.made = w.made /\ m2.venue = v
        /\ m2.offered = w.offered /\ m2.group = w.group /\ m2.step = "sport"
        /\ m2.kind = "newGame"
    BY <1>1 DEF NewGames, GameSteps
  <2> HIDE DEF m2
  <2>2. GameMemory(m2, n)
    BY <2>1 DEF GameMemory, FirmGame
  <2>3. Prepared(w, v) = m2
    BY <1>3 DEF Prepared, m2, w1
  <2> QED
    BY <2>1, <2>2, <2>3
<1> QED
  BY <1>2, <1>3

LEMMA WithVenuesKeeps ==
    ASSUME NEW w \in NewGames, NEW g, VenuesOf(g) # {}, NEW n,
           w.loose \/ (~w.made /\ w.offered = {} /\ (w.group = NoGroup => n = 1))
    PROVE  GameMemory(WithVenuesOf(w, g), n) /\ WithVenuesOf(w, g).kind = "newGame"
             /\ WithVenuesOf(w, g).loose = w.loose
<1> DEFINE m == [w EXCEPT !.step = "venue", !.venue = NoVenue, !.offered = {}, !.picked = {}]
<1>1. CASE Cardinality(VenuesOf(g)) = 1
  <2>1. Only(VenuesOf(g)) \in Venues
    BY OnlyIsOne DEF VenuesOf
  <2> QED
    BY <1>1, <2>1, PreparedKeeps DEF WithVenuesOf
<1>2. CASE Cardinality(VenuesOf(g)) # 1
  <2>1. /\ m \in NewGames /\ m.loose = w.loose /\ m.made = w.made /\ m.group = w.group
        /\ m.offered = {} /\ m.step = "venue" /\ m.kind = "newGame"
    BY DEF NewGames, GameSteps
  <2> HIDE DEF m
  <2>2. GameMemory(m, n)
    BY <2>1 DEF GameMemory, FirmGame
  <2>3. WithVenuesOf(w, g) = m
    BY <1>2 DEF WithVenuesOf, m
  <2> QED
    BY <2>1, <2>2, <2>3
<1> QED
  BY <1>1, <1>2

LEMMA PendingIsMap == ASSUME ChatInv PROVE pending \in [Kinds -> Sessions \cup {0}]
  BY Known

LEMMA DateKeeps ==
    ASSUME ChatInv, NEW h \in Handlers, PressDate(h) PROVE ChatInv'
<1> DEFINE w1 == Wizard("group")
           w2 == Wizard("venue")
           g == Only(admin)
           m == WithVenuesOf(w2, g)
<1>1. /\ w1 \in NewGames /\ w1.loose = FALSE /\ w1.made = FALSE /\ w1.offered = {}
      /\ w1.step = "group" /\ w1.kind = "newGame"
      /\ w2 \in NewGames /\ w2.loose = FALSE /\ w2.made = FALSE /\ w2.offered = {}
  BY ChatAssumption DEF Wizard, NewGames, GameSteps, ChatAssumption
<1>2. Memory(w1, Number)
  <2> HIDE DEF w1
  <2> QED
    BY <1>1, MemoryOfGame DEF GameMemory, FirmGame
<1>3. "newGame" \in Kinds
  BY DEF Kinds
<1>4. CASE Open(h, pending, "newGame", w1)
  BY <1>1, <1>2, <1>3, <1>4, OpenKeeps, PendingIsMap
<1>5. CASE Cardinality(admin) = 1 /\ VenuesOf(g) # {} /\ Open(h, pending, "newGame", m)
  <2> HIDE DEF w2, g
  <2>1. GameMemory(m, Number) /\ m.kind = "newGame"
    BY <1>1, <1>5, WithVenuesKeeps DEF Number
  <2> HIDE DEF m
  <2>2. Memory(m, Number)
    BY <2>1, MemoryOfGame
  <2> QED
    BY <1>3, <1>5, <2>1, <2>2, OpenKeeps, PendingIsMap
<1> QED
  BY <1>4, <1>5 DEF PressDate

(* What a handler of such a dialogue works on.                             *)
LEMMA GameLoaded ==
    ASSUME ChatInv, NEW h \in Handlers, task[h].do \in {"group", "venue", "time"}
    PROVE  /\ task[h].on # 0 /\ At(h).kind = "newGame" /\ GameMemory(At(h), Number)
           /\ At(h) \in NewGames /\ GameTask(task[h], At(h), pending)
<1>1. task[h].do \in DOMAIN TaskKind /\ TaskKind[task[h].do] = "newGame"
  BY DEF TaskKind
<1>2. task[h].on # 0 /\ At(h).kind = "newGame" /\ Memory(At(h), Number)
        /\ GameTask(task[h], At(h), pending)
  BY <1>1, Known DEF Task, At
<1> QED
  BY <1>2, MemoryOfGame DEF GameMemory

LEMMA SetGroupKeeps ==
    ASSUME ChatInv, NEW h \in Handlers, SetGroup(h) PROVE ChatInv'
<1> DEFINE g == task[h].group
           w == [At(h) EXCEPT !.group = g]
           m == WithVenuesOf(w, g)
<1>1. task[h].do = "group" /\ At(h) \in NewGames /\ At(h).kind = "newGame" /\ task[h].on # 0
        /\ GameMemory(At(h), Number) /\ g \in Groups /\ (At(h).loose \/ At(h).step = "group")
  BY GameLoaded DEF SetGroup, GameTask
<1>2. /\ w \in NewGames /\ w.loose = At(h).loose /\ w.made = At(h).made
      /\ w.offered = At(h).offered /\ w.group # NoGroup
  BY <1>1, ChatAssumption DEF NewGames, ChatAssumption
<1>3. CASE VenuesOf(g) # {} /\ Store(h, "newGame", m)
  <2>1. w.loose \/ (~w.made /\ w.offered = {})
    BY <1>1, <1>2 DEF GameMemory, FirmGame
  <2> HIDE DEF w
  <2>2. GameMemory(m, Number) /\ m.kind = "newGame" /\ m.loose = w.loose
    BY <1>2, <1>3, <2>1, WithVenuesKeeps
  <2> HIDE DEF m
  <2>3. Follows(m, At(h))
    BY <1>1, <2>2, MemoryOfGame DEF Follows
  <2> QED
    BY <1>1, <1>2, <1>3, <2>2, <2>3, StoreKeeps
<1>4. CASE Stop(h)
  BY <1>4, StayKeeps, PendingIsMap DEF Stop
<1> QED
  BY <1>3, <1>4 DEF SetGroup

LEMMA SetVenueKeeps ==
    ASSUME ChatInv, NEW h \in Handlers, SetVenue(h) PROVE ChatInv'
<1> DEFINE v == task[h].venue
           w == At(h)
           m == Prepared(w, v)
<1>1. task[h].do = "venue" /\ w \in NewGames /\ w.kind = "newGame" /\ task[h].on # 0
        /\ GameMemory(w, Number) /\ v \in Venues /\ (w.loose \/ w.step = "venue")
  BY GameLoaded DEF SetVenue, GameTask
<1>2. CASE Store(h, "newGame", m)
  <2>1. w.loose \/ (~w.made /\ w.offered = {} /\ (w.group = NoGroup => Number = 1))
    BY <1>1 DEF GameMemory, FirmGame
  <2>2. GameMemory(m, Number) /\ m.kind = "newGame" /\ m.loose = w.loose
    BY <1>1, <2>1, PreparedKeeps
  <2> HIDE DEF m
  <2>3. Follows(m, At(h))
    BY <1>1, <2>2, MemoryOfGame DEF Follows
  <2> QED
    BY <1>1, <1>2, <2>2, <2>3, StoreKeeps
<1>3. CASE Stop(h)
  BY <1>3, StayKeeps, PendingIsMap DEF Stop
<1> QED
  BY <1>2, <1>3 DEF SetVenue

-----------------------------------------------------------------------------
(* Buttons and texts of a dialogue that is pending.                        *)
LEMMA GameFound ==
    ASSUME ChatInv, pending["newGame"] # 0
    PROVE  /\ Found("newGame").kind = "newGame" /\ GameMemory(Found("newGame"), Number)
           /\ Found("newGame") \in NewGames /\ "newGame" \in Kinds
<1>1. "newGame" \in Kinds
  BY DEF Kinds
<1>2. Found("newGame").kind = "newGame" /\ Memory(Found("newGame"), Number)
  BY <1>1, Known
<1> QED
  BY <1>1, <1>2, MemoryOfGame DEF GameMemory

(* Such a dialogue is changed.                                             *)
LEMMA GameChanges ==
    ASSUME ChatInv, NEW h \in Handlers, pending["newGame"] # 0, NEW new,
           Change(h, "newGame", new), GameMemory(new, Number), new.kind = "newGame"
    PROVE  ChatInv'
<1>1. Follows(new, Found("newGame"))
  BY GameFound, MemoryOfGame DEF Follows
<1> QED
  BY <1>1, GameFound, ChangeKeeps

LEMMA SportKeeps ==
    ASSUME ChatInv, NEW h \in Handlers, NEW s \in Sports, pending["newGame"] # 0,
           PressSport(h, s)
    PROVE  ChatInv'
<1> DEFINE w == Found("newGame")
           m == [w EXCEPT !.sport = s, !.offered = CourtsOf[w.venue][s],
                          !.picked = {}, !.step = "courtPick"]
<1>1. w \in NewGames /\ GameMemory(w, Number) /\ w.step = "sport" /\ Change(h, "newGame", m)
  BY GameFound DEF PressSport
<1> HIDE DEF w
<1>2. w.venue \in Venues
  BY <1>1 DEF GameMemory
<1>3. CourtsOf[w.venue][s] \in SUBSET Courts
  BY <1>2, GameAssumption DEF GameAssumption
<1>4. /\ m \in NewGames /\ m.loose = w.loose /\ m.made = w.made /\ m.venue = w.venue
      /\ m.offered = CourtsOf[w.venue][s] /\ m.sport = s /\ m.group = w.group
      /\ m.step = "courtPick" /\ m.kind = "newGame"
  BY <1>1, <1>3 DEF NewGames, GameSteps
<1> HIDE DEF m
<1>5. GameMemory(m, Number)
  BY <1>1, <1>2, <1>4 DEF GameMemory, FirmGame
<1> QED
  BY <1>1, <1>4, <1>5, GameChanges

LEMMA ToggleCourtKeeps ==
    ASSUME ChatInv, NEW h \in Handlers, NEW v \in Venues, NEW c \in Courts,
           pending["newGame"] # 0, ToggleCourt(h, v, c)
    PROVE  ChatInv'
<1> DEFINE w == Found("newGame")
           d == IF c \in w.picked THEN w.picked \ {c} ELSE w.picked \cup {c}
           m == [w EXCEPT !.picked = d]
<1>1. w \in NewGames /\ GameMemory(w, Number) /\ Change(h, "newGame", m)
  BY GameFound DEF ToggleCourt
<1>2. d \in SUBSET Courts
  BY <1>1 DEF NewGames
<1> HIDE DEF w, d
<1>3. /\ m \in NewGames /\ m.loose = w.loose /\ m.made = w.made /\ m.venue = w.venue
      /\ m.offered = w.offered /\ m.sport = w.sport /\ m.group = w.group
      /\ m.step = w.step /\ m.kind = "newGame"
  BY <1>1, <1>2 DEF NewGames
<1> HIDE DEF m
<1>4. GameMemory(m, Number)
  BY <1>1, <1>3 DEF GameMemory, FirmGame
<1> QED
  BY <1>1, <1>3, <1>4, GameChanges

LEMMA GameStepKeeps ==
    ASSUME ChatInv, NEW h \in Handlers, pending["newGame"] # 0,
           NEW step \in {"time", "courts"},
           Change(h, "newGame", [Found("newGame") EXCEPT !.step = step]),
           Chosen(Found("newGame")) # {} \/ Found("newGame").step = "time"
    PROVE  ChatInv'
<1> DEFINE w == Found("newGame")
           m == [w EXCEPT !.step = step]
<1>1. w \in NewGames /\ GameMemory(w, Number) /\ Change(h, "newGame", m)
  BY GameFound
<1>2. w.offered # {} \/ w.step = "time"
  BY DEF Chosen
<1> HIDE DEF w
<1>3. /\ m \in NewGames /\ m.loose = w.loose /\ m.made = w.made /\ m.venue = w.venue
      /\ m.offered = w.offered /\ m.sport = w.sport /\ m.group = w.group
      /\ m.step = step /\ m.kind = "newGame"
  BY <1>1 DEF NewGames, GameSteps
<1> HIDE DEF m
<1>4. GameMemory(m, Number)
  BY <1>1, <1>2, <1>3 DEF GameMemory, FirmGame
<1> QED
  BY <1>1, <1>3, <1>4, GameChanges

(* A time is given, with the courts chosen or typed.                       *)
LEMMA CompleteKeeps ==
    ASSUME ChatInv, NEW h \in Handlers, pending["newGame"] # 0,
           NEW cs \in SUBSET Courts, NEW typed \in BOOLEAN,
           typed \/ cs \subseteq Found("newGame").offered,
           Complete(h, cs, typed)
    PROVE  ChatInv'
<1> DEFINE w == Found("newGame")
           i == pending["newGame"]
           t == [do |-> "time", courts |-> cs, typed |-> typed]
           u == On(t, i)
<1>1. u.do = "time" /\ u.courts = cs /\ u.typed = typed /\ u.on = i
  BY DEF On
<1>2. "newGame" \in Kinds /\ i \in Sessions /\ u.do \in DOMAIN TaskKind /\ TaskKind[u.do] = "newGame"
  BY <1>1, Known DEF Kinds, TaskKind
<1>3. \E p \in {pending, Unpend("newGame")} :
         /\ Free(h) /\ Leave(h, p, Shared(h, i), u)
         /\ w.group = NoGroup => p = Unpend("newGame")
  BY DEF Complete, Load, LoadAndDelete
<1>4. PICK p \in {pending, Unpend("newGame")} :
         /\ Free(h) /\ Leave(h, p, Shared(h, i), u)
         /\ w.group = NoGroup => p = Unpend("newGame")
  BY <1>3
<1>5. Unpend("newGame")["newGame"] = 0
  BY <1>2, Known DEF Unpend
<1> HIDE DEF w, u
<1>6. GameTask(u, w, p) /\ VenueTask(u, w)
  BY <1>1, <1>4, <1>5 DEF GameTask, VenueTask, w
<1> QED
  BY <1>1, <1>2, <1>4, <1>6, TakeKeeps DEF w

LEMMA PressesKeep ==
    ASSUME ChatInv, NEW h \in Handlers, pending["newGame"] # 0,
           \/ \E g \in Groups : PressGroup(h, g)
           \/ \E v \in Venues : PressVenue(h, v)
    PROVE  ChatInv'
<1> DEFINE w == Found("newGame")
           i == pending["newGame"]
<1>0. "newGame" \in Kinds /\ i \in Sessions
  BY Known DEF Kinds
<1>1. ASSUME NEW g \in Groups, PressGroup(h, g) PROVE ChatInv'
  <2> DEFINE u == On([do |-> "group", group |-> g], i)
  <2>1. u.do = "group" /\ u.group = g /\ u.on = i
    BY DEF On
  <2>2. w.step = "group" /\ Free(h) /\ Leave(h, pending, Shared(h, i), u)
    BY <1>1 DEF PressGroup, Load
  <2> HIDE DEF u, w
  <2>3. u.do \in DOMAIN TaskKind /\ TaskKind[u.do] = "newGame"
          /\ GameTask(u, w, pending) /\ VenueTask(u, w)
    BY <2>1, <2>2 DEF TaskKind, GameTask, VenueTask
  <2> QED
    BY <1>0, <2>1, <2>2, <2>3, TakeKeeps DEF w
<1>2. ASSUME NEW v \in Venues, PressVenue(h, v) PROVE ChatInv'
  <2> DEFINE u == On([do |-> "venue", venue |-> v], i)
  <2>1. u.do = "venue" /\ u.venue = v /\ u.on = i
    BY DEF On
  <2>2. w.step = "venue" /\ Free(h) /\ Leave(h, pending, Shared(h, i), u)
    BY <1>2 DEF PressVenue, Load
  <2> HIDE DEF u, w
  <2>3. u.do \in DOMAIN TaskKind /\ TaskKind[u.do] = "newGame"
          /\ GameTask(u, w, pending) /\ VenueTask(u, w)
    BY <2>1, <2>2 DEF TaskKind, GameTask, VenueTask
  <2> QED
    BY <1>0, <2>1, <2>2, <2>3, TakeKeeps DEF w
<1> QED
  BY <1>1, <1>2

LEMMA PickMemories ==
    ASSUME ChatInv
    PROVE  /\ \A k \in {"groupPick", "groupVenue"} : pending[k] # 0 =>
                Found(k).kind = k /\ PickMemory(Found(k)) /\ pending[k] \in Sessions
           /\ \A h \in Handlers : task[h].do \in {"pick", "pickVenue"} =>
                /\ task[h].on # 0 /\ PickMemory(At(h)) /\ GameTask(task[h], At(h), pending)
                /\ task[h].do = "pick" => At(h).kind = "groupPick"
                /\ task[h].do = "pickVenue" => At(h).kind = "groupVenue"
<1>1. \A k \in {"groupPick", "groupVenue"} : k \in Kinds
  BY DEF Kinds
<1>2. \A k \in {"groupPick", "groupVenue"} : pending[k] # 0 =>
        Found(k).kind = k /\ PickMemory(Found(k)) /\ pending[k] \in Sessions
  BY <1>1, Known, MemoryOfPick
<1>3. ASSUME NEW h \in Handlers, task[h].do \in {"pick", "pickVenue"}
      PROVE  /\ task[h].on # 0 /\ PickMemory(At(h)) /\ GameTask(task[h], At(h), pending)
             /\ task[h].do = "pick" => At(h).kind = "groupPick"
             /\ task[h].do = "pickVenue" => At(h).kind = "groupVenue"
  <2>1. task[h].do \in DOMAIN TaskKind
    BY <1>3 DEF TaskKind
  <2>2. /\ task[h].on # 0 /\ At(h).kind = TaskKind[task[h].do] /\ Memory(At(h), Number)
        /\ GameTask(task[h], At(h), pending)
    BY <2>1, Known DEF Task, At
  <2>3. /\ task[h].do = "pick" => At(h).kind = "groupPick"
        /\ task[h].do = "pickVenue" => At(h).kind = "groupVenue"
    BY <2>2 DEF TaskKind
  <2> QED
    BY <1>3, <2>2, <2>3, MemoryOfPick
<1> QED
  BY <1>2, <1>3

(* The group, or the venue, of a game is picked.                           *)
LEMMA PicksKeep ==
    ASSUME ChatInv, NEW h \in Handlers,
           \/ pending["groupPick"] # 0 /\ \E g \in Groups : PickGroup(h, g)
           \/ pending["groupVenue"] # 0 /\ \E v \in Venues : PickVenue(h, v)
    PROVE  ChatInv'
<1>1. ASSUME NEW g \in Groups, pending["groupPick"] # 0, PickGroup(h, g) PROVE ChatInv'
  <2> DEFINE w == Found("groupPick")
             u == On([do |-> "pick", group |-> g, courts |-> w.courts, typed |-> w.typed],
                     pending["groupPick"])
  <2>1. u.do = "pick" /\ u.group = g /\ u.on = pending["groupPick"] /\ u.courts = w.courts
          /\ u.typed = w.typed
    BY DEF On
  <2>2. Free(h) /\ Leave(h, pending, Shared(h, pending["groupPick"]), u)
    BY <1>1 DEF PickGroup, Load
  <2>3. PickMemory(w) /\ w.kind = "groupPick"
    BY <1>1, PickMemories
  <2> HIDE DEF u, w
  <2>4. /\ w.courts \in SUBSET Courts /\ w.typed \in BOOLEAN
        /\ w.loose \/ w.typed \/ w.courts = {}
    BY <2>3 DEF PickMemory, GroupPicks, VenuePicks
  <2>5. u.do \in DOMAIN TaskKind /\ TaskKind[u.do] = "groupPick" /\ "groupPick" \in Kinds
          /\ GameTask(u, w, pending) /\ VenueTask(u, w)
    BY <2>1, <2>4 DEF TaskKind, GameTask, VenueTask, Kinds
  <2> QED
    BY <1>1, <2>1, <2>2, <2>5, TakeKeeps DEF w
<1>2. ASSUME NEW v \in Venues, pending["groupVenue"] # 0, PickVenue(h, v) PROVE ChatInv'
  <2> DEFINE w == Found("groupVenue")
             u == On([do |-> "pickVenue", venue |-> v, courts |-> w.courts, typed |-> w.typed],
                     pending["groupVenue"])
             p == Unpend("groupVenue")
  <2>1. u.do = "pickVenue" /\ u.venue = v /\ u.on = pending["groupVenue"] /\ u.courts = w.courts
          /\ u.typed = w.typed
    BY DEF On
  <2>2. Free(h) /\ Leave(h, p, Shared(h, pending["groupVenue"]), u)
    BY <1>2 DEF PickVenue, LoadAndDelete
  <2>3. PickMemory(w) /\ w.kind = "groupVenue"
    BY <1>2, PickMemories
  <2> HIDE DEF u, w
  <2>4. /\ w.courts \in SUBSET Courts /\ w.typed \in BOOLEAN
        /\ w.loose \/ w.typed \/ w.courts = {}
    BY <2>3 DEF PickMemory, GroupPicks, VenuePicks
  <2>5. "groupVenue" \in Kinds
    BY DEF Kinds
  <2>6. p["groupVenue"] = 0
    BY <2>5, Known DEF Unpend
  <2> HIDE DEF p
  <2>7. u.do \in DOMAIN TaskKind /\ TaskKind[u.do] = "groupVenue"
          /\ GameTask(u, w, p) /\ VenueTask(u, w)
    BY <1>2, <2>1, <2>4, <2>6 DEF TaskKind, GameTask, VenueTask
  <2> QED
    BY <1>2, <2>1, <2>2, <2>5, <2>7, TakeKeeps DEF w, p
<1> QED
  BY <1>1, <1>2

-----------------------------------------------------------------------------
(* The game.                                                               *)

(* It is of one dialogue if that was not disturbed.                        *)
LEMMA GameIsOfOne ==
    ASSUME NEW h, NEW p, NEW g, NEW v, NEW s, Create(h, p, g, v, s),
           At(h).loose \/ (~At(h).made /\
             (task[h].typed \/ task[h].courts = {}
                \/ (v \in Venues /\ task[h].courts \subseteq CourtsOf[v][s])))
    PROVE  GamesAreOfOneDialogue'
<1> DEFINE t == [group |-> g, venue |-> v, sport |-> s, courts |-> task[h].courts,
                 typed |-> task[h].typed, again |-> At(h).made, loose |-> At(h).loose]
<1>1. game' = NoGame \/ (game' = t /\ Creatable(t))
  BY DEF Create
<1>2. CASE game' = t /\ Creatable(t)
  <2>1. task[h].courts # {}
    BY <1>2 DEF Creatable
  <2>2. /\ game'.again = At(h).made /\ game'.loose = At(h).loose /\ game'.typed = task[h].typed
        /\ game'.venue = v /\ game'.sport = s /\ game'.courts = task[h].courts
    BY <1>2
  <2> QED
    BY <2>1, <2>2 DEF GamesAreOfOneDialogue
<1> QED
  BY <1>1, <1>2 DEF GamesAreOfOneDialogue

LEMMA NoGameIsFine == ASSUME game' = NoGame PROVE GamesAreOfOneDialogue'
  BY DEF GamesAreOfOneDialogue, NoGame

LEMMA UnpendIsMap ==
    ASSUME ChatInv, NEW k
    PROVE  /\ Unpend(k) \in [Kinds -> Sessions \cup {0}]
           /\ \A j \in Kinds : Unpend(k)[j] \in {0, pending[j]}
           /\ k \in Kinds => Unpend(k)[k] = 0
  BY Known DEF Unpend

LEMMA TimeKeeps ==
    ASSUME ChatInv, NEW h \in Handlers, TimeGiven(h)
    PROVE  ChatInv' /\ GamesAreOfOneDialogue'
<1> DEFINE w == At(h)
           t == task[h]
<1>1. /\ t.do = "time" /\ t.on # 0 /\ w.kind = "newGame" /\ w \in NewGames
      /\ w.loose \/ FirmGame(w, Number)
      /\ t.courts \in SUBSET Courts /\ t.typed \in BOOLEAN
      /\ w.loose \/ t.typed \/ t.courts \subseteq w.offered
      /\ w.loose \/ w.group # NoGroup \/ pending["newGame"] # t.on
  BY GameLoaded DEF TimeGiven, GameTask, GameMemory
<1>2. w.loose \/ (~w.made /\ (t.typed \/ t.courts = {}
                       \/ (w.venue \in Venues /\ t.courts \subseteq CourtsOf[w.venue][w.sport])))
  BY <1>1 DEF FirmGame
<1>3. "newGame" \in Kinds /\ "newGame" \in GameKinds
  BY DEF Kinds, GameKinds
<1>4. CASE Create(h, Unpend("newGame"), w.group, w.venue, w.sport)
  <2>1. Leave(h, Unpend("newGame"), [session EXCEPT ![task[h].on].made = TRUE], Idle)
    BY <1>4 DEF Create
  <2>2. /\ Unpend("newGame") \in [Kinds -> Sessions \cup {0}]
        /\ \A k \in Kinds : Unpend("newGame")[k] \in {0, pending[k]}
        /\ Unpend("newGame")[w.kind] # t.on
    BY <1>1, <1>3, UnpendIsMap
  <2>3. w.kind \in GameKinds
    BY <1>1, <1>3
  <2>4. ChatInv'
    BY <1>1, <2>1, <2>2, <2>3, CreateKeeps
  <2> QED
    BY <1>2, <1>4, <2>4, GameIsOfOne
<1>5. CASE w.group = NoGroup /\ Create(h, pending, Only(admin), w.venue, w.sport)
  <2>1. Leave(h, pending, [session EXCEPT ![task[h].on].made = TRUE], Idle)
    BY <1>5 DEF Create
  <2>2. ChatInv'
    BY <1>1, <1>3, <1>5, <2>1, PendingIsMap, CreateKeeps
  <2> QED
    BY <1>2, <1>5, <2>2, GameIsOfOne
<1>6. ASSUME w.group = NoGroup, Cardinality(admin) > 1, game' = NoGame,
             Open(h, pending, "groupPick",
                  [kind |-> "groupPick", loose |-> w.loose, made |-> w.made,
                   courts |-> t.courts, typed |-> t.typed])
      PROVE  ChatInv' /\ GamesAreOfOneDialogue'
  <2> DEFINE m == [kind |-> "groupPick", loose |-> w.loose, made |-> w.made,
                   courts |-> t.courts, typed |-> t.typed]
  <2>1. m \in GroupPicks
    BY <1>1 DEF GroupPicks, NewGames
  <2>2. w.loose \/ (~w.made /\ (t.typed \/ t.courts = {}))
    <3>1. Number # 1
      BY <1>6 DEF Number
    <3> QED
      BY <1>1, <1>6, <3>1 DEF FirmGame
  <2>3. PickMemory(m) /\ m.kind = "groupPick"
    BY <2>1, <2>2 DEF PickMemory
  <2> HIDE DEF m
  <2>4. Memory(m, Number)
    BY <2>3, MemoryOfPick
  <2>5. "groupPick" \in Kinds
    BY DEF Kinds
  <2>6. Open(h, pending, "groupPick", m)
    BY <1>6 DEF m
  <2>7. ChatInv'
    BY <2>3, <2>4, <2>5, <2>6, PendingIsMap, OpenKeeps
  <2> QED
    BY <1>6, <2>7, NoGameIsFine
<1>7. CASE Stop(h) /\ game' = NoGame
  BY <1>7, StayKeeps, PendingIsMap, NoGameIsFine DEF Stop
<1> QED
  BY <1>4, <1>5, <1>6, <1>7 DEF TimeGiven

LEMMA GroupPickedKeeps ==
    ASSUME ChatInv, NEW h \in Handlers, GroupPicked(h)
    PROVE  ChatInv' /\ GamesAreOfOneDialogue'
<1> DEFINE g == task[h].group
           w == At(h)
<1>1. /\ task[h].do = "pick" /\ task[h].on # 0 /\ w.kind = "groupPick" /\ PickMemory(w)
      /\ w.loose \/ task[h].typed \/ task[h].courts = {}
      /\ g \in Groups
  BY PickMemories DEF GroupPicked, GameTask
<1>2. w.loose \/ ~w.made
  BY <1>1 DEF PickMemory
<1>3. "groupPick" \in Kinds /\ "groupPick" \in GameKinds
  BY DEF Kinds, GameKinds
<1>4. CASE Create(h, Unpend("groupPick"), g, Only(VenuesOf(g)), DefaultSport)
  <2>1. Leave(h, Unpend("groupPick"), [session EXCEPT ![task[h].on].made = TRUE], Idle)
    BY <1>4 DEF Create
  <2>2. /\ Unpend("groupPick") \in [Kinds -> Sessions \cup {0}]
        /\ \A k \in Kinds : Unpend("groupPick")[k] \in {0, pending[k]}
        /\ Unpend("groupPick")[w.kind] # task[h].on
    BY <1>1, <1>3, UnpendIsMap
  <2>3. w.kind \in GameKinds
    BY <1>1, <1>3
  <2>4. ChatInv'
    BY <1>1, <2>1, <2>2, <2>3, CreateKeeps
  <2> QED
    BY <1>1, <1>2, <1>4, <2>4, GameIsOfOne
<1>5. ASSUME game' = NoGame,
             Open(h, Unpend("groupPick"), "groupVenue",
                  [kind |-> "groupVenue", loose |-> w.loose, made |-> w.made,
                   courts |-> w.courts, typed |-> w.typed, group |-> g])
      PROVE  ChatInv' /\ GamesAreOfOneDialogue'
  <2> DEFINE m == [kind |-> "groupVenue", loose |-> w.loose, made |-> w.made,
                   courts |-> w.courts, typed |-> w.typed, group |-> g]
  <2>1. m \in VenuePicks
    BY <1>1 DEF PickMemory, GroupPicks, VenuePicks
  <2>2. PickMemory(m) /\ m.kind = "groupVenue"
    BY <1>1, <2>1 DEF PickMemory
  <2> HIDE DEF m
  <2>3. Memory(m, Number)
    BY <2>2, MemoryOfPick
  <2>4. "groupVenue" \in Kinds
    BY DEF Kinds
  <2>5. Open(h, Unpend("groupPick"), "groupVenue", m)
    BY <1>5 DEF m
  <2>6. ChatInv'
    BY <2>2, <2>3, <2>4, <2>5, UnpendIsMap, OpenKeeps
  <2> QED
    BY <1>5, <2>6, NoGameIsFine
<1>6. CASE Stop(h) /\ game' = NoGame
  BY <1>6, StayKeeps, PendingIsMap, NoGameIsFine DEF Stop
<1> QED
  BY <1>4, <1>5, <1>6 DEF GroupPicked

LEMMA VenuePickedKeeps ==
    ASSUME ChatInv, NEW h \in Handlers, VenuePicked(h)
    PROVE  ChatInv' /\ GamesAreOfOneDialogue'
<1> DEFINE v == task[h].venue
           w == At(h)
<1>1. /\ task[h].do = "pickVenue" /\ task[h].on # 0 /\ w.kind = "groupVenue" /\ PickMemory(w)
      /\ w.loose \/ task[h].typed \/ task[h].courts = {}
      /\ pending["groupVenue"] # task[h].on
  BY PickMemories DEF VenuePicked, GameTask
<1>2. w.loose \/ ~w.made
  BY <1>1 DEF PickMemory
<1>3. CASE Create(h, pending, w.group, v, DefaultSport)
  <2>1. Leave(h, pending, [session EXCEPT ![task[h].on].made = TRUE], Idle)
    BY <1>3 DEF Create
  <2>2. ChatInv'
    BY <1>1, <2>1, PendingIsMap, CreateKeeps DEF GameKinds
  <2> QED
    BY <1>1, <1>2, <1>3, <2>2, GameIsOfOne
<1>4. CASE Stop(h) /\ game' = NoGame
  BY <1>4, StayKeeps, PendingIsMap, NoGameIsFine DEF Stop
<1> QED
  BY <1>3, <1>4 DEF VenuePicked

(* Every step of the dialogues about games.                                *)
LEMMA GameStepKeepsAll ==
    ASSUME ChatInv, NEW h \in Handlers, GameStep(h)
    PROVE  ChatInv' /\ GamesAreOfOneDialogue'
<1> DEFINE w == Found("newGame")
<1>1. CASE TimeGiven(h) \/ GroupPicked(h) \/ VenuePicked(h)
  BY <1>1, TimeKeeps, GroupPickedKeeps, VenuePickedKeeps
<1>2. CASE game' = NoGame /\ (PressDate(h) \/ SetGroup(h) \/ SetVenue(h))
  BY <1>2, DateKeeps, SetGroupKeeps, SetVenueKeeps, NoGameIsFine
<1>3. ASSUME game' = NoGame, pending["newGame"] # 0,
             \/ \E g \in Groups : PressGroup(h, g)
             \/ \E v \in Venues : PressVenue(h, v)
      PROVE  ChatInv' /\ GamesAreOfOneDialogue'
  BY <1>3, PressesKeep, NoGameIsFine
<1>4. ASSUME game' = NoGame, pending["newGame"] # 0,
             \E v \in Venues : ConfirmCourts(h, v)
      PROVE  ChatInv' /\ GamesAreOfOneDialogue'
  <2>1. Chosen(w) # {} /\ Change(h, "newGame", [w EXCEPT !.step = "time"])
    BY <1>4 DEF ConfirmCourts
  <2> QED
    BY <1>4, <2>1, GameStepKeeps, NoGameIsFine
<1>5. ASSUME game' = NoGame, pending["newGame"] # 0,
             \/ \E s \in Sports : PressSport(h, s)
             \/ \E v \in Venues, c \in Courts : ToggleCourt(h, v, c)
      PROVE  ChatInv' /\ GamesAreOfOneDialogue'
  BY <1>5, SportKeeps, ToggleCourtKeeps, NoGameIsFine
<1>6. ASSUME game' = NoGame, pending["newGame"] # 0,
             PressSlot(h) \/ TypeTime(h) \/ TypeCourts(h)
      PROVE  ChatInv' /\ GamesAreOfOneDialogue'
  <2>1. Chosen(w) \in SUBSET Courts /\ Chosen(w) \subseteq w.offered
    BY <1>6, GameFound DEF Chosen, NewGames
  <2>2. CASE Complete(h, Chosen(w), FALSE) \/ Complete(h, Courts, TRUE)
    BY <1>6, <2>1, <2>2, CompleteKeeps, NoGameIsFine
  <2>3. CASE w.step = "time" /\ Change(h, "newGame", [w EXCEPT !.step = "courts"])
    BY <1>6, <2>3, GameStepKeeps, NoGameIsFine
  <2> QED
    BY <1>6, <2>2, <2>3 DEF PressSlot, TypeTime, TypeCourts
<1>7. ASSUME game' = NoGame,
             \/ pending["groupPick"] # 0 /\ \E g \in Groups : PickGroup(h, g)
             \/ pending["groupVenue"] # 0 /\ \E v \in Venues : PickVenue(h, v)
      PROVE  ChatInv' /\ GamesAreOfOneDialogue'
  BY <1>7, PicksKeep, NoGameIsFine
<1> QED
  BY <1>1, <1>2, <1>3, <1>4, <1>5, <1>6, <1>7 DEF GameStep

-----------------------------------------------------------------------------
(* The dialogues about venues.                                             *)

LEMMA MemoryOfVenue ==
    ASSUME NEW m, NEW n, m.kind = "venueWizard"
    PROVE  Memory(m, n) <=> VenueMemory(m)
  BY DEF Memory

LEMMA MemoryOfEdit ==
    ASSUME NEW m, NEW n, m.kind \notin GameKinds, m.kind # "venueWizard"
    PROVE  Memory(m, n) <=> m \in Edits
  BY DEF Memory, GameKinds

(* A row that may be written: the service checks the rest.                 *)
Writable(r) == r \in Rows /\ r.autoCourts \subseteq SquashCourts(r)

LEMMA VenueUnchanged == ASSUME VenueInv, Unchanged PROVE VenueInv'
  BY DEF VenueInv, Unchanged, RowOK

LEMMA WriteKeeps ==
    ASSUME ChatInv, NEW h \in Handlers, NEW p \in [Kinds -> Sessions \cup {0}],
           \A k \in Kinds : p[k] \in {0, pending[k]},
           NEW r, Writable(r), NEW drop, Write(h, p, r, drop)
    PROVE  ChatInv'
<1> DEFINE t == [do |-> "write", on |-> task[h].on, row |-> r, drop |-> drop]
<1>1. t.on = task[h].on /\ t.do = "write" /\ t.row = r
  OBVIOUS
<1>2. Leave(h, p, session, t)
  BY DEF Write
<1> HIDE DEF t
<1> QED
  BY <1>1, <1>2, StayKeeps DEF Writable

LEMMA WriteFromKeeps ==
    ASSUME ChatInv, NEW h \in Handlers, NEW r, Writable(r), WriteFrom(h, r)
    PROVE  ChatInv'
<1> DEFINE t == On([do |-> "write", row |-> r, drop |-> "none"], 0)
<1>1. t.on = 0 /\ t.do = "write" /\ t.row = r
  BY DEF On
<1>2. Leave(h, pending, session, t)
  BY DEF WriteFrom, Begin
<1> HIDE DEF t
<1> QED
  BY <1>1, <1>2, StayKeeps, PendingIsMap DEF Writable

LEMMA StopKeeps == ASSUME ChatInv, NEW h \in Handlers, Stop(h) PROVE ChatInv'
  BY StayKeeps, PendingIsMap DEF Stop

LEMMA DropKeeps == ASSUME ChatInv, NEW h \in Handlers, NEW k, Drop(h, k) PROVE ChatInv'
  BY StayKeeps, UnpendIsMap DEF Drop

(* The row is written as it was checked.                                   *)
LEMMA WriteVenueKeeps ==
    ASSUME ChatInv, VenueInv, NEW h \in Handlers, WriteVenue(h)
    PROVE  ChatInv' /\ VenueInv'
<1> DEFINE t == task[h]
<1>1. t.do = "write" /\ Writable(t.row)
  BY Known DEF WriteVenue, Task, VenueTask, Writable
<1>2. CASE /\ Acceptable(t.row) /\ row' = t.row /\ added' = NoRow /\ UNCHANGED allowed
           /\ Leave(h, IF t.drop = "none" THEN pending ELSE Unpend(t.drop), session, Idle)
  <2>1. Leave(h, pending, session, Idle) \/ Leave(h, Unpend(t.drop), session, Idle)
    BY <1>2
  <2>2. ChatInv'
    BY <2>1, StayKeeps, PendingIsMap, UnpendIsMap
  <2>3. RowOK(t.row)
    BY <1>1, <1>2 DEF Acceptable, RowOK, Whole, Writable
  <2>4. VenueInv'
    BY <1>2, <2>3 DEF VenueInv, RowOK
  <2> QED
    BY <2>2, <2>4
<1>3. CASE Stop(h) /\ Unchanged
  BY <1>3, StopKeeps, VenueUnchanged
<1> QED
  BY <1>2, <1>3 DEF WriteVenue

(* A dialogue about a venue is loaded.                                     *)
LEMMA VenueLoads ==
    ASSUME ChatInv, NEW h \in Handlers, NEW k \in Kinds, k \notin GameKinds, NEW t,
           Load(h, k, t) \/ LoadAndDelete(h, k, t),
           NEW u, u = On(t, pending[k]), u.on = pending[k], u.do \in DOMAIN TaskKind,
           TaskKind[u.do] = k, VenueTask(u, Found(k))
    PROVE  ChatInv'
<1>1. PICK p \in {pending, Unpend(k)} :
        Free(h) /\ pending[k] # 0 /\ Leave(h, p, Shared(h, pending[k]), u)
  BY DEF Load, LoadAndDelete
<1>2. u.do \notin {"group", "venue", "time", "pick", "pickVenue"}
  BY DEF TaskKind, GameKinds
<1>3. GameTask(u, Found(k), p)
  BY <1>2 DEF GameTask
<1> QED
  BY <1>1, <1>3, TakeKeeps

-----------------------------------------------------------------------------
(* The wizard of a new venue.                                              *)
LEMMA WizardFound ==
    ASSUME ChatInv, pending["venueWizard"] # 0
    PROVE  /\ Found("venueWizard").kind = "venueWizard" /\ VenueMemory(Found("venueWizard"))
           /\ Found("venueWizard") \in NewVenues /\ "venueWizard" \in Kinds
<1>1. "venueWizard" \in Kinds
  BY DEF Kinds
<1>2. Found("venueWizard").kind = "venueWizard" /\ Memory(Found("venueWizard"), Number)
  BY <1>1, Known
<1> QED
  BY <1>1, <1>2, MemoryOfVenue DEF VenueMemory

LEMMA WizardChanges ==
    ASSUME ChatInv, NEW h \in Handlers, pending["venueWizard"] # 0, NEW new,
           Change(h, "venueWizard", new), VenueMemory(new),
           Found("venueWizard").step \notin FirstSteps =>
             new.step \notin FirstSteps /\ new.sport = Found("venueWizard").sport
    PROVE  ChatInv'
<1>1. new.kind = "venueWizard"
  BY DEF VenueMemory, NewVenues
<1>2. Follows(new, Found("venueWizard"))
  BY <1>1, WizardFound, MemoryOfVenue DEF Follows
<1> QED
  BY <1>2, WizardFound, ChangeKeeps

LEMMA AddKeeps ==
    ASSUME ChatInv, VenueInv, NEW h \in Handlers, PressAdd(h)
    PROVE  ChatInv' /\ VenueInv'
<1> DEFINE w == NewWizard
           x == [NewWizard EXCEPT !.allowed = FALSE]
<1>1. /\ w \in NewVenues /\ w.sport = DefaultSport /\ w.autoCourts = {} /\ w.courts = {}
      /\ w.step = "name" /\ w.kind = "venueWizard"
      /\ x \in NewVenues /\ x.sport = DefaultSport /\ x.autoCourts = {} /\ x.courts = {}
      /\ x.step = "name" /\ x.kind = "venueWizard"
  BY ChatAssumption
     DEF NewWizard, NewVenues, VenueSteps, FirstSteps, ChatAssumption, VenueInv
<1> HIDE DEF w, x
<1>2. VenueMemory(w) /\ VenueMemory(x)
  BY <1>1 DEF VenueMemory
<1>3. Memory(w, Number) /\ Memory(x, Number) /\ "venueWizard" \in Kinds
  BY <1>1, <1>2, MemoryOfVenue DEF Kinds
<1>4. Unchanged /\ (Open(h, pending, "venueWizard", w) \/ Open(h, pending, "venueWizard", x))
  BY DEF PressAdd, w, x
<1> QED
  BY <1>1, <1>3, <1>4, OpenKeeps, PendingIsMap, VenueUnchanged

(* A text or a button gives it its next step and perhaps a field.          *)
LEMMA WizardTextKeeps ==
    ASSUME ChatInv, NEW h \in Handlers, pending["venueWizard"] # 0, WizardText(h)
    PROVE  ChatInv'
<1> DEFINE w == Found("venueWizard")
<1>1. VenueMemory(w) /\ w \in NewVenues
  BY WizardFound
<1>2. ASSUME NEW m, Change(h, "venueWizard", m), m \in NewVenues, m.sport = w.sport,
             m.allowed = w.allowed, m.autoCourts = w.autoCourts, m.courts = w.courts,
             w.step \notin FirstSteps \cup AutoSteps, m.step \notin FirstSteps,
             m.step \in AutoSteps => w.allowed
      PROVE  ChatInv'
  <2>1. VenueMemory(m)
    BY <1>1, <1>2 DEF VenueMemory
  <2> QED
    BY <1>2, <2>1, WizardChanges
<1>3. CASE w.step = "name" /\ Change(h, "venueWizard", [w EXCEPT !.step = "sport"])
  <2> DEFINE m == [w EXCEPT !.step = "sport"]
  <2>1. /\ m \in NewVenues /\ m.sport = w.sport /\ m.allowed = w.allowed
        /\ m.autoCourts = w.autoCourts /\ m.courts = w.courts /\ m.step = "sport"
    BY <1>1 DEF NewVenues, VenueSteps, FirstSteps
  <2> HIDE DEF m
  <2>2. VenueMemory(m)
    BY <1>1, <1>3, <2>1 DEF VenueMemory, FirstSteps, AutoSteps
  <2>3. w.step \in FirstSteps
    BY <1>3 DEF FirstSteps
  <2> QED
    BY <1>3, <2>2, <2>3, WizardChanges DEF m
<1>4. ASSUME w.step = "courts", NEW cs \in CourtLists,
             Change(h, "venueWizard", [[w EXCEPT !.courts = cs] EXCEPT !.step = "slots"])
      PROVE  ChatInv'
  <2> DEFINE m == [[w EXCEPT !.courts = cs] EXCEPT !.step = "slots"]
  <2>1. /\ m \in NewVenues /\ m.sport = w.sport /\ m.allowed = w.allowed
        /\ m.autoCourts = w.autoCourts /\ m.courts = cs /\ m.step = "slots"
    BY <1>1 DEF NewVenues, VenueSteps, CourtLists
  <2> HIDE DEF m
  <2>2. VenueMemory(m)
    BY <1>1, <1>4, <2>1 DEF VenueMemory, FirstSteps, AutoSteps
  <2>3. w.step \in FirstSteps
    BY <1>4 DEF FirstSteps
  <2> QED
    BY <1>4, <2>2, <2>3, WizardChanges DEF m
<1>5. ASSUME w.step = "slots", NEW ts \in SUBSET Slots, NEW step \in {"address", "pref"},
             Change(h, "venueWizard", [[w EXCEPT !.slots = ts] EXCEPT !.step = step])
      PROVE  ChatInv'
  <2> DEFINE m == [[w EXCEPT !.slots = ts] EXCEPT !.step = step]
  <2>1. /\ m \in NewVenues /\ m.sport = w.sport /\ m.allowed = w.allowed
        /\ m.autoCourts = w.autoCourts /\ m.courts = w.courts /\ m.step = step
    BY <1>1 DEF NewVenues, VenueSteps
  <2> HIDE DEF m
  <2> QED
    BY <1>2, <1>5, <2>1 DEF m, FirstSteps, AutoSteps
<1>6. ASSUME NEW step \in {"days", "auto", "opens"},
             w.step = (IF step = "days" THEN "address" ELSE "grace"),
             step = "auto" => w.allowed,
             \/ Change(h, "venueWizard", [w EXCEPT !.step = step])
             \/ Change(h, "venueWizard", [[w EXCEPT !.auto = FALSE] EXCEPT !.step = step])
      PROVE  ChatInv'
  <2>1. ASSUME NEW m, Change(h, "venueWizard", m),
               m \in {[w EXCEPT !.step = step], [[w EXCEPT !.auto = FALSE] EXCEPT !.step = step]}
        PROVE  ChatInv'
    <3>1. /\ m \in NewVenues /\ m.sport = w.sport /\ m.allowed = w.allowed
          /\ m.autoCourts = w.autoCourts /\ m.courts = w.courts /\ m.step = step
      BY <1>1, <2>1 DEF NewVenues, VenueSteps, AutoSteps
    <3> QED
      BY <1>2, <1>6, <2>1, <3>1 DEF FirstSteps, AutoSteps
  <2> QED
    BY <1>6, <2>1
<1>7. ASSUME w.step = "autoCourts", NEW cs \in SUBSET w.courts,
             Change(h, "venueWizard", [[w EXCEPT !.autoCourts = cs] EXCEPT !.step = "autoCount"])
      PROVE  ChatInv'
  <2> DEFINE m == [[w EXCEPT !.autoCourts = cs] EXCEPT !.step = "autoCount"]
  <2>1. /\ m \in NewVenues /\ m.sport = w.sport /\ m.allowed = w.allowed
        /\ m.autoCourts = cs /\ m.courts = w.courts /\ m.step = "autoCount"
    BY <1>1 DEF NewVenues, VenueSteps, AutoSteps
  <2> HIDE DEF m
  <2>2. w.sport = DefaultSport /\ m.step \notin FirstSteps
    BY <1>1, <1>7, <2>1 DEF VenueMemory, AutoSteps, FirstSteps
  <2>3. VenueMemory(m)
    BY <2>1, <2>2 DEF VenueMemory
  <2> QED
    BY <1>7, <2>1, <2>2, <2>3, WizardChanges DEF m
<1>8. CASE w.step = "autoCount" /\ Change(h, "venueWizard", [w EXCEPT !.step = "opens"])
  <2> DEFINE m == [w EXCEPT !.step = "opens"]
  <2>1. /\ m \in NewVenues /\ m.sport = w.sport /\ m.allowed = w.allowed
        /\ m.autoCourts = w.autoCourts /\ m.courts = w.courts /\ m.step = "opens"
    BY <1>1 DEF NewVenues, VenueSteps
  <2> HIDE DEF m
  <2>2. w.sport = DefaultSport /\ m.step \notin FirstSteps
    BY <1>1, <1>8, <2>1 DEF VenueMemory, AutoSteps, FirstSteps
  <2>3. VenueMemory(m)
    BY <1>1, <2>1, <2>2 DEF VenueMemory
  <2> QED
    BY <1>8, <2>1, <2>2, <2>3, WizardChanges DEF m
<1> QED
  BY <1>3, <1>4, <1>5, <1>6, <1>7, <1>8 DEF WizardText

LEMMA WizardSportKeeps ==
    ASSUME ChatInv, NEW h \in Handlers, pending["venueWizard"] # 0, NEW s \in Sports,
           WizardSport(h, s)
    PROVE  ChatInv'
<1> DEFINE w == Found("venueWizard")
           b == w.allowed /\ s = DefaultSport
           m == [w EXCEPT !.sport = s, !.step = "courts", !.allowed = b]
<1>1. VenueMemory(w) /\ w \in NewVenues /\ w.step = "sport" /\ Change(h, "venueWizard", m)
  BY WizardFound DEF WizardSport
<1>2. b \in BOOLEAN /\ (b => s = DefaultSport)
  OBVIOUS
<1>3. w.step \in FirstSteps
  BY <1>1 DEF FirstSteps
<1> HIDE DEF w, b
<1>4. /\ m \in NewVenues /\ m.sport = s /\ m.allowed = b /\ m.step = "courts"
      /\ m.autoCourts = w.autoCourts /\ m.courts = w.courts
  BY <1>1, <1>2 DEF NewVenues, VenueSteps, FirstSteps
<1> HIDE DEF m
<1>5. VenueMemory(m)
  BY <1>1, <1>2, <1>3, <1>4 DEF VenueMemory, FirstSteps, AutoSteps
<1> QED
  BY <1>1, <1>3, <1>5, WizardChanges DEF w

LEMMA WizardPrefKeeps ==
    ASSUME ChatInv, NEW h \in Handlers, pending["venueWizard"] # 0, WizardPref(h)
    PROVE  ChatInv'
<1> DEFINE w == Found("venueWizard")
<1>1. VenueMemory(w) /\ w \in NewVenues /\ w.step = "pref"
  BY WizardFound DEF WizardPref
<1>2. PICK ts \in SUBSET Slots, step \in {"pref", "address"} :
        \/ Change(h, "venueWizard", [w EXCEPT !.picked = ts])
        \/ Change(h, "venueWizard", [w EXCEPT !.step = step])
        \/ Change(h, "venueWizard", [w EXCEPT !.step = step, !.picked = ts])
  <2>1. ASSUME NEW t \in Slots PROVE (IF t \in w.picked THEN w.picked \ {t} ELSE w.picked \cup {t}) \in SUBSET Slots
    BY <1>1 DEF NewVenues
  <2> QED
    BY <2>1 DEF WizardPref
<1>3. ASSUME NEW m, Change(h, "venueWizard", m),
             m \in {[w EXCEPT !.picked = ts], [w EXCEPT !.step = step],
                    [w EXCEPT !.step = step, !.picked = ts]}
      PROVE  ChatInv'
  <2>1. /\ m \in NewVenues /\ m.sport = w.sport /\ m.allowed = w.allowed
        /\ m.autoCourts = w.autoCourts /\ m.courts = w.courts /\ m.step \in {"pref", "address"}
    BY <1>1, <1>3 DEF NewVenues, VenueSteps
  <2>2. VenueMemory(m) /\ m.step \notin FirstSteps
    BY <1>1, <2>1 DEF VenueMemory, FirstSteps, AutoSteps
  <2> QED
    BY <1>3, <2>1, <2>2, WizardChanges
<1> QED
  BY <1>2, <1>3

(* Automatic booking is asked for at its step, which squash alone reaches. *)
LEMMA PressAutoKeeps ==
    ASSUME ChatInv, NEW h \in Handlers, pending["venueWizard"] # 0, NEW on \in BOOLEAN,
           PressAuto(h, on)
    PROVE  ChatInv'
<1> DEFINE w == Found("venueWizard")
           t == [do |-> "auto", enable |-> on]
           u == On(t, pending["venueWizard"])
<1>1. VenueMemory(w) /\ w.step = "auto" /\ Load(h, "venueWizard", t) /\ "venueWizard" \in Kinds
  BY WizardFound DEF PressAuto
<1>2. u.do = "auto" /\ u.enable = on /\ u.on = pending["venueWizard"]
  BY DEF On
<1> HIDE DEF w, u
<1>3. w.step \notin FirstSteps /\ w.sport = DefaultSport
  BY <1>1 DEF VenueMemory, FirstSteps, AutoSteps
<1>4. VenueTask(u, w) /\ u.do \in DOMAIN TaskKind /\ TaskKind[u.do] = "venueWizard"
  BY <1>2, <1>3 DEF VenueTask, TaskKind
<1> QED
  BY <1>1, <1>2, <1>4, VenueLoads DEF w, u, GameKinds

LEMMA SetAutoKeeps ==
    ASSUME ChatInv, NEW h \in Handlers, SetAuto(h)
    PROVE  ChatInv'
<1> DEFINE w == At(h)
           on == task[h].enable
           step == IF on THEN "autoCourts" ELSE "opens"
           m == [w EXCEPT !.auto = on, !.step = step]
<1>1. task[h].do = "auto" /\ task[h].do \in DOMAIN TaskKind /\ TaskKind["auto"] = "venueWizard"
  BY DEF SetAuto, TaskKind
<1>2. /\ task[h].on # 0 /\ w.kind = "venueWizard" /\ Memory(w, Number) /\ on \in BOOLEAN
      /\ w.step \notin FirstSteps /\ w.sport = DefaultSport
  BY <1>1, Known DEF Task, VenueTask, At
<1>3. VenueMemory(w) /\ w \in NewVenues
  BY <1>2, MemoryOfVenue DEF VenueMemory
<1>4. step \in {"autoCourts", "opens"}
  OBVIOUS
<1>5. CASE Store(h, "venueWizard", m)
  <2> HIDE DEF w, on, step
  <2>1. /\ m \in NewVenues /\ m.sport = w.sport /\ m.step = step /\ m.kind = "venueWizard"
        /\ m.autoCourts = w.autoCourts /\ m.courts = w.courts
    BY <1>2, <1>3, <1>4 DEF NewVenues, VenueSteps, AutoSteps
  <2> HIDE DEF m
  <2>2. VenueMemory(m) /\ m.step \notin FirstSteps
    BY <1>2, <1>3, <1>4, <2>1 DEF VenueMemory, FirstSteps
  <2>3. Follows(m, At(h))
    BY <1>2, <2>1, <2>2, MemoryOfVenue DEF Follows, w
  <2> QED
    BY <1>2, <1>5, <2>3, StoreKeeps DEF w
<1>6. CASE Stop(h)
  BY <1>6, StopKeeps
<1> QED
  BY <1>5, <1>6 DEF SetAuto

LEMMA WizardDoneKeeps ==
    ASSUME ChatInv, NEW h \in Handlers, pending["venueWizard"] # 0, WizardDone(h)
    PROVE  ChatInv'
<1> DEFINE w == Found("venueWizard")
           t == [do |-> "addVenue", pref |-> w.slots \cap w.picked]
           u == On(t, pending["venueWizard"])
<1>1. w \in NewVenues /\ LoadAndDelete(h, "venueWizard", t) /\ "venueWizard" \in Kinds
  BY WizardFound DEF WizardDone
<1>2. u.do = "addVenue" /\ u.pref = w.slots \cap w.picked /\ u.on = pending["venueWizard"]
  BY DEF On
<1> HIDE DEF w, u
<1>3. u.pref \in SUBSET Slots
  BY <1>1, <1>2 DEF NewVenues
<1>4. VenueTask(u, w) /\ u.do \in DOMAIN TaskKind /\ TaskKind[u.do] = "venueWizard"
  BY <1>2, <1>3 DEF VenueTask, TaskKind
<1> QED
  BY <1>1, <1>2, <1>4, VenueLoads DEF w, u, GameKinds

(* A row of fields of their types.                                         *)
LEMMA SomeRowIsRow ==
    ASSUME NEW sports \in [Sports -> SUBSET Courts], NEW slots \in SUBSET Slots,
           NEW pref \in SUBSET Slots, NEW auto \in BOOLEAN, NEW cs \in SUBSET Courts
    PROVE  /\ SomeRow(sports, slots, pref, auto, cs) \in Rows
           /\ SquashCourts(SomeRow(sports, slots, pref, auto, cs)) = sports[DefaultSport]
           /\ SomeRow(sports, slots, pref, auto, cs).autoCourts = cs
  BY DEF SomeRow, Rows, SquashCourts

LEMMA AddVenueKeeps ==
    ASSUME ChatInv, VenueInv, NEW h \in Handlers, AddVenue(h)
    PROVE  ChatInv' /\ VenueInv'
<1> DEFINE w == At(h)
           sports == [NoSports EXCEPT ![w.sport] = w.courts]
           r == SomeRow(sports, w.slots, task[h].pref, w.auto, w.autoCourts)
<1>1. /\ task[h].do = "addVenue" /\ Stop(h)
      /\ \/ Acceptable(r) /\ added' = r /\ UNCHANGED <<row, allowed, writes>>
         \/ Unchanged
  BY DEF AddVenue
<1>2. task[h].do \in DOMAIN TaskKind /\ TaskKind["addVenue"] = "venueWizard"
  BY <1>1 DEF TaskKind
<1>3. w.kind = "venueWizard" /\ Memory(w, Number) /\ task[h].pref \in SUBSET Slots
  BY <1>1, <1>2, Known DEF Task, VenueTask, At
<1>4. VenueMemory(w) /\ w \in NewVenues
  BY <1>3, MemoryOfVenue DEF VenueMemory
<1> HIDE DEF w
<1>5. sports \in [Sports -> SUBSET Courts]
        /\ (w.sport = DefaultSport => sports[DefaultSport] = w.courts)
  BY <1>4, ChatAssumption DEF NewVenues, NoSports, ChatAssumption
<1>6. w.autoCourts \subseteq sports[DefaultSport]
  BY <1>4, <1>5 DEF VenueMemory
<1>7. /\ w.slots \in SUBSET Slots /\ w.auto \in BOOLEAN /\ w.autoCourts \in SUBSET Courts
  BY <1>4 DEF NewVenues
<1> HIDE DEF sports
<1>8. r \in Rows /\ SquashCourts(r) = sports[DefaultSport] /\ r.autoCourts = w.autoCourts
  BY <1>3, <1>5, <1>7, SomeRowIsRow
<1> HIDE DEF r
<1>9. Acceptable(r) => RowOK(r)
  BY <1>6, <1>8 DEF Acceptable, RowOK, Whole
<1>10. ChatInv'
  BY <1>1, StopKeeps
<1>11. VenueInv'
  BY <1>1, <1>9, VenueUnchanged DEF VenueInv, RowOK
<1> QED
  BY <1>10, <1>11

-----------------------------------------------------------------------------
(* Edits of the venue.                                                     *)

(* The fields of a row that is there.                                      *)
LEMMA RowFields ==
    ASSUME VenueInv, row # NoRow
    PROVE  /\ Writable(row)
           /\ row.sports \in [Sports -> SUBSET Courts] /\ row.slots \in SUBSET Slots
           /\ row.pref \in SUBSET Slots /\ row.autoCourts \in SUBSET Courts
           /\ row.auto \in BOOLEAN
<1>1. row \in Rows /\ Whole(row)
  BY DEF VenueInv, RowOK
<1>2. row.autoCourts \subseteq SquashCourts(row)
  BY <1>1 DEF Whole
<1> QED
  BY <1>1, <1>2 DEF Writable, Rows

LEMMA StartEditKeeps ==
    ASSUME ChatInv, VenueInv, NEW h \in Handlers, StartEdit(h)
    PROVE  ChatInv'
<1> DEFINE x == [kind |-> "ptimeEdit", loose |-> FALSE, slots |-> row.slots, picked |-> row.pref]
<1>1. ASSUME NEW e, e \in TextEdits \cup SportEdits \cup DaysEdits,
             Open(h, pending, e.kind, e)
      PROVE  ChatInv'
  <2>1. e \in Edits /\ e.kind \in {"venueEdit", "sportEdit", "daysEdit"}
    BY <1>1 DEF TextEdits, SportEdits, DaysEdits, Edits
  <2>2. e.kind \in Kinds /\ Memory(e, Number)
    BY <2>1, MemoryOfEdit DEF Kinds, GameKinds
  <2> QED
    BY <1>1, <2>2, OpenKeeps, PendingIsMap
<1>2. CASE Open(h, pending, "ptimeEdit", x)
  <2>1. x \in Edits /\ x.kind = "ptimeEdit"
    BY RowFields DEF StartEdit, Edits
  <2> HIDE DEF x
  <2>2. "ptimeEdit" \in Kinds /\ Memory(x, Number)
    BY <2>1, MemoryOfEdit DEF Kinds, GameKinds
  <2> QED
    BY <1>2, <2>1, <2>2, OpenKeeps, PendingIsMap
<1> QED
  BY <1>1, <1>2 DEF StartEdit

(* A step of an edit that is loaded; what is known of the edit.            *)
LEMMA EditLoaded ==
    ASSUME ChatInv, NEW h \in Handlers, task[h].do \in {"text", "sportText", "ptime", "priorities"}
    PROVE  /\ task[h].on # 0 /\ At(h).kind = TaskKind[task[h].do] /\ At(h) \in Edits
           /\ task[h].do = "ptime" => task[h].pref \in SUBSET Slots
<1>1. task[h].do \in DOMAIN TaskKind
        /\ TaskKind[task[h].do] \in {"venueEdit", "sportEdit", "ptimeEdit", "credAdd"}
  BY DEF TaskKind
<1>2. /\ task[h].on # 0 /\ At(h).kind = TaskKind[task[h].do] /\ Memory(At(h), Number)
      /\ task[h].do = "ptime" => task[h].pref \in SUBSET Slots
  BY <1>1, Known DEF Task, VenueTask, At
<1> QED
  BY <1>1, <1>2, MemoryOfEdit DEF GameKinds

(* An edit that is pending; it is loaded, or changed.                      *)
EditKinds == {"venueEdit", "sportEdit", "daysEdit", "ptimeEdit", "credAdd"}

LEMMA EditFound ==
    ASSUME ChatInv, NEW k \in EditKinds, pending[k] # 0
    PROVE  k \in Kinds /\ k \notin GameKinds /\ k # "venueWizard"
             /\ Found(k).kind = k /\ Found(k) \in Edits
<1>1. k \in Kinds /\ k \notin GameKinds /\ k # "venueWizard"
  BY DEF EditKinds, Kinds, GameKinds
<1>2. Found(k).kind = k /\ Memory(Found(k), Number)
  BY <1>1, Known
<1> QED
  BY <1>1, <1>2, MemoryOfEdit

LEMMA EditChanges ==
    ASSUME ChatInv, NEW h \in Handlers, NEW k \in EditKinds, NEW new, Change(h, k, new),
           new \in Edits, new.kind = k
    PROVE  ChatInv'
<1>1. pending[k] # 0
  BY DEF Change
<1>2. k \in Kinds /\ k \notin GameKinds /\ k # "venueWizard" /\ Found(k).kind = k
  BY <1>1, EditFound
<1>3. Memory(new, Number)
  BY <1>2, MemoryOfEdit
<1>4. Follows(new, Found(k))
  BY <1>2, <1>3 DEF Follows
<1> QED
  BY <1>2, <1>4, ChangeKeeps

LEMMA EditLoads ==
    ASSUME ChatInv, NEW h \in Handlers, NEW k \in EditKinds, NEW t,
           Load(h, k, t) \/ LoadAndDelete(h, k, t),
           "do" \in DOMAIN t, t.do \in DOMAIN TaskKind, TaskKind[t.do] = k,
           t.do = "ptime" => "pref" \in DOMAIN t /\ t.pref \in SUBSET Slots
    PROVE  ChatInv'
<1> DEFINE u == On(t, pending[k])
<1>1. u.on = pending[k] /\ u.do = t.do /\ (t.do = "ptime" => u.pref = t.pref)
  BY DEF On
<1>2. k \in Kinds /\ k \notin GameKinds
  BY DEF EditKinds, Kinds, GameKinds
<1>3. t.do \notin {"auto", "addVenue", "write"}
  BY DEF TaskKind, EditKinds
<1> HIDE DEF u
<1>4. VenueTask(u, Found(k))
  BY <1>1, <1>3 DEF VenueTask
<1> QED
  BY <1>1, <1>2, <1>4, VenueLoads DEF u

LEMMA EditTextsKeep ==
    ASSUME ChatInv, NEW h \in Handlers,
           TypeEdit(h) \/ TypeSportEdit(h)
             \/ (~WizardDays /\ ConfirmDays(h)) \/ (pending["ptimeEdit"] # 0 /\ ConfirmPtime(h))
    PROVE  ChatInv'
<1>1. EditKinds = {"venueEdit", "sportEdit", "daysEdit", "ptimeEdit", "credAdd"}
  BY DEF EditKinds
<1>2. CASE TypeEdit(h)
  BY <1>1, <1>2, EditLoads DEF TypeEdit, TaskKind
<1>3. CASE TypeSportEdit(h)
  BY <1>1, <1>3, EditLoads DEF TypeSportEdit, TaskKind
<1>4. CASE ~WizardDays /\ ConfirmDays(h)
  BY <1>1, <1>4, EditLoads DEF ConfirmDays, TaskKind
<1>5. CASE pending["ptimeEdit"] # 0 /\ ConfirmPtime(h)
  <2> DEFINE e == Found("ptimeEdit")
  <2>1. e \in Edits /\ e.kind = "ptimeEdit"
    BY <1>1, <1>5, EditFound
  <2>2. e.slots \in SUBSET Slots
    BY <2>1 DEF Edits
  <2>3. PICK ts \in SUBSET Slots : LoadAndDelete(h, "ptimeEdit", [do |-> "ptime", pref |-> ts])
    BY <1>5, <2>2 DEF ConfirmPtime
  <2> QED
    BY <1>1, <2>3, EditLoads DEF TaskKind
<1> QED
  BY <1>2, <1>3, <1>4, <1>5

(* The day buttons of the wizard.                                          *)
LEMMA WizardDaysKeep ==
    ASSUME ChatInv, NEW h \in Handlers, WizardDays, ConfirmDays(h)
    PROVE  ChatInv'
<1> DEFINE w == Found("venueWizard")
           m == [w EXCEPT !.step = "grace"]
<1>1. VenueMemory(w) /\ w \in NewVenues /\ w.step = "days" /\ Change(h, "venueWizard", m)
  BY WizardFound DEF WizardDays, ConfirmDays
<1>2. /\ m \in NewVenues /\ m.sport = w.sport /\ m.allowed = w.allowed /\ m.step = "grace"
      /\ m.autoCourts = w.autoCourts /\ m.courts = w.courts
  BY <1>1 DEF NewVenues, VenueSteps
<1> HIDE DEF m
<1>3. VenueMemory(m) /\ m.step \notin FirstSteps
  BY <1>1, <1>2 DEF VenueMemory, FirstSteps, AutoSteps
<1> QED
  BY <1>1, <1>2, <1>3, WizardChanges DEF WizardDays

LEMMA TogglePtimeKeeps ==
    ASSUME ChatInv, NEW h \in Handlers, pending["ptimeEdit"] # 0, TogglePtime(h)
    PROVE  ChatInv'
<1> DEFINE e == Found("ptimeEdit")
           d(t) == IF t \in e.picked THEN e.picked \ {t} ELSE e.picked \cup {t}
<1>1. "ptimeEdit" \in EditKinds
  BY DEF EditKinds
<1>2. e \in Edits /\ e.kind = "ptimeEdit"
  BY <1>1, EditFound
<1>3. PICK t \in Slots : Change(h, "ptimeEdit", [e EXCEPT !.picked = d(t)])
  BY DEF TogglePtime
<1>4. d(t) \in SUBSET Slots
  BY <1>2 DEF Edits
<1> HIDE DEF e, d
<1>5. [e EXCEPT !.picked = d(t)] \in Edits /\ [e EXCEPT !.picked = d(t)].kind = "ptimeEdit"
  BY <1>2, <1>4 DEF Edits
<1> QED
  BY <1>1, <1>3, <1>5, EditChanges

-----------------------------------------------------------------------------
(* The rows an edit may write back.                                        *)

(* A row whose courts or times are others.                                 *)
LEMMA RowChanges ==
    ASSUME NEW r \in Rows, NEW sports \in [Sports -> SUBSET Courts], NEW cs \in SUBSET Courts,
           NEW slots \in SUBSET Slots, NEW pref \in SUBSET Slots, NEW auto \in BOOLEAN
    PROVE  /\ cs \subseteq sports[DefaultSport] =>
                Writable([r EXCEPT !.sports = sports, !.autoCourts = cs])
           /\ cs \subseteq SquashCourts(r) =>
                /\ Writable([r EXCEPT !.autoCourts = cs])
                /\ Writable([r EXCEPT !.auto = auto, !.autoCourts = cs])
           /\ r.autoCourts \subseteq SquashCourts(r) =>
                /\ Writable([r EXCEPT !.slots = slots, !.pref = pref])
                /\ Writable([r EXCEPT !.pref = pref])
  BY DEF Rows, Writable, SquashCourts

(* The courts booked automatically follow the courts.                      *)
LEMMA CourtsChangedIsWritable ==
    ASSUME NEW r \in Rows, r.autoCourts \subseteq SquashCourts(r), NEW cs \in SUBSET Courts
    PROVE  Writable(CourtsChanged(r, cs))
<1> DEFINE s == CHOOSE x \in Played(r) : x = DefaultSport \/ Cardinality(Played(r)) = 1
           has == DefaultSport \in Played(r) \/ Cardinality(Played(r)) = 1
           sports == IF has THEN [r.sports EXCEPT ![s] = cs] ELSE r.sports
           auto == r.autoCourts \cap cs
<1>1. r.sports \in [Sports -> SUBSET Courts] /\ r.autoCourts \in SUBSET Courts
        /\ r.autoCourts \subseteq r.sports[DefaultSport]
  BY DEF Rows, SquashCourts
<1>2. CourtsChanged(r, cs) = [r EXCEPT !.sports = sports, !.autoCourts = auto]
  BY DEF CourtsChanged
<1> HIDE DEF s, has
<1>3. sports \in [Sports -> SUBSET Courts] /\ auto \in SUBSET Courts
        /\ auto \subseteq sports[DefaultSport]
  BY <1>1, ChatAssumption DEF ChatAssumption
<1> HIDE DEF sports, auto
<1>4. Writable([r EXCEPT !.sports = sports, !.autoCourts = auto])
  <2>1. r.slots \in SUBSET Slots /\ TRUE \in BOOLEAN
    BY DEF Rows
  <2> QED
    BY <1>3, <2>1, RowChanges
<1> QED
  BY <1>2, <1>4

LEMMA EditedIsWritable ==
    ASSUME VenueInv, row # NoRow, NEW field \in {"courts", "slots", "autoCourts", "other"},
           NEW r \in Edited(row, field)
    PROVE  Writable(r)
<1>0. row \in Rows /\ row.autoCourts \subseteq SquashCourts(row)
  BY RowFields DEF Writable
<1>1. CASE field = "courts"
  BY <1>0, <1>1, CourtsChangedIsWritable DEF Edited, CourtLists
<1>2. CASE field = "slots"
  <2>1. PICK ts \in SUBSET Slots : r = [row EXCEPT !.slots = ts, !.pref = row.pref \cap ts]
    BY <1>2 DEF Edited
  <2>2. row.pref \cap ts \in SUBSET Slots
    OBVIOUS
  <2> QED
    BY <1>0, <2>1, <2>2, RowChanges, RowFields
<1>3. CASE field = "autoCourts"
  <2>1. PICK cs \in SUBSET SquashCourts(row) : r = [row EXCEPT !.autoCourts = cs]
    BY <1>3 DEF Edited
  <2>2. cs \in SUBSET Courts
    BY <2>1, RowFields, ChatAssumption DEF SquashCourts, ChatAssumption
  <2> QED
    BY <1>0, <2>1, <2>2, RowChanges, RowFields
<1>4. CASE field = "other"
  BY <1>0, <1>4 DEF Edited, Writable
<1> QED
  BY <1>1, <1>2, <1>3, <1>4

LEMMA SportEditedIsWritable ==
    ASSUME VenueInv, row # NoRow, NEW s \in Sports, NEW cs \in SUBSET Courts
    PROVE  Writable(SportEdited(row, s, cs))
<1> DEFINE sports == [row.sports EXCEPT ![s] = cs]
           auto == IF s = DefaultSport THEN row.autoCourts \cap cs ELSE row.autoCourts
<1>1. SportEdited(row, s, cs) = [row EXCEPT !.sports = sports, !.autoCourts = auto]
  BY RowFields DEF SportEdited
<1>2. row \in Rows /\ row.autoCourts \subseteq row.sports[DefaultSport]
  BY RowFields DEF Writable, SquashCourts
<1>3. sports \in [Sports -> SUBSET Courts] /\ auto \in SUBSET Courts
        /\ auto \subseteq sports[DefaultSport]
  BY <1>2, RowFields, ChatAssumption DEF ChatAssumption
<1> HIDE DEF sports, auto
<1>4. row.slots \in SUBSET Slots /\ TRUE \in BOOLEAN
  BY RowFields
<1>5. Writable([row EXCEPT !.sports = sports, !.autoCourts = auto])
  BY <1>2, <1>3, <1>4, RowChanges
<1> QED
  BY <1>1, <1>5

LEMMA EditTextKeeps ==
    ASSUME ChatInv, VenueInv, NEW h \in Handlers, EditText(h)
    PROVE  ChatInv'
<1>1. CASE row # NoRow /\ \E r \in Edited(row, At(h).field) : Write(h, Unpend("venueEdit"), r, "none")
  <2>1. At(h) \in Edits /\ At(h).kind = "venueEdit"
    BY EditLoaded DEF EditText, TaskKind
  <2>2. At(h).field \in {"courts", "slots", "autoCourts", "other"}
    BY <2>1 DEF Edits
  <2>3. PICK r \in Edited(row, At(h).field) : Write(h, Unpend("venueEdit"), r, "none")
    BY <1>1
  <2>4. Writable(r)
    BY <1>1, <2>2, EditedIsWritable
  <2> QED
    BY <2>3, <2>4, WriteKeeps, UnpendIsMap
<1>2. CASE Drop(h, "venueEdit")
  BY <1>2, DropKeeps
<1>3. CASE Stop(h)
  BY <1>3, StopKeeps
<1> QED
  BY <1>1, <1>2, <1>3 DEF EditText

LEMMA SportEditTextKeeps ==
    ASSUME ChatInv, VenueInv, NEW h \in Handlers, SportEditText(h)
    PROVE  ChatInv'
<1> DEFINE e == At(h)
<1>1. ASSUME row # NoRow, e.field = "courts", NEW cs \in CourtLists,
             Write(h, pending, SportEdited(row, e.sport, cs), "sportEdit")
      PROVE  ChatInv'
  <2>1. e \in Edits /\ e.kind = "sportEdit"
    BY EditLoaded DEF SportEditText, TaskKind
  <2>2. e.sport \in Sports
    BY <2>1 DEF Edits
  <2>3. Writable(SportEdited(row, e.sport, cs))
    BY <1>1, <2>2, SportEditedIsWritable DEF CourtLists
  <2> QED
    BY <1>1, <2>3, WriteKeeps, PendingIsMap
<1>2. CASE row # NoRow /\ Write(h, pending, row, "sportEdit")
  BY <1>2, WriteKeeps, PendingIsMap, RowFields
<1>3. CASE Drop(h, "sportEdit")
  BY <1>3, DropKeeps
<1>4. CASE Stop(h)
  BY <1>4, StopKeeps
<1> QED
  BY <1>1, <1>2, <1>3, <1>4 DEF SportEditText

LEMMA ConfirmedKeep ==
    ASSUME ChatInv, VenueInv, NEW h \in Handlers, DaysConfirmed(h) \/ PtimeConfirmed(h)
    PROVE  ChatInv'
<1>1. CASE row # NoRow /\ Write(h, pending, row, "none")
  BY <1>1, WriteKeeps, PendingIsMap, RowFields
<1>2. CASE /\ task[h].do = "ptime" /\ row # NoRow
           /\ Write(h, pending, [row EXCEPT !.pref = task[h].pref], "none")
  <2>1. task[h].pref \in SUBSET Slots
    BY <1>2, EditLoaded
  <2>2. row \in Rows /\ row.autoCourts \subseteq SquashCourts(row)
    BY <1>2, RowFields DEF Writable
  <2>3. Writable([row EXCEPT !.pref = task[h].pref])
    BY <1>2, <2>1, <2>2, RowChanges, RowFields
  <2> QED
    BY <1>2, <2>3, WriteKeeps, PendingIsMap
<1>3. CASE Stop(h)
  BY <1>3, StopKeeps
<1> QED
  BY <1>1, <1>2, <1>3 DEF DaysConfirmed, PtimeConfirmed

LEMMA ButtonsKeep ==
    ASSUME ChatInv, VenueInv, NEW h \in Handlers, RemoveSport(h) \/ ToggleAuto(h)
    PROVE  ChatInv'
<1>1. /\ row # NoRow /\ row \in Rows /\ row.autoCourts \subseteq SquashCourts(row)
  BY RowFields DEF RemoveSport, ToggleAuto, Button, Writable
<1>2. CASE RemoveSport(h)
  <2>1. PICK s \in Played(row) :
           WriteFrom(h, [row EXCEPT !.sports[s] = {},
                                    !.autoCourts = IF s = DefaultSport THEN {} ELSE @])
    BY <1>2 DEF RemoveSport
  <2> DEFINE sports == [row.sports EXCEPT ![s] = {}]
             auto == IF s = DefaultSport THEN {} ELSE row.autoCourts
  <2>2. s \in Sports
    BY DEF Played
  <2>3. WriteFrom(h, [row EXCEPT !.sports = sports, !.autoCourts = auto])
    BY <1>1, <2>1, <2>2, RowFields
  <2>4. sports \in [Sports -> SUBSET Courts] /\ auto \in SUBSET Courts
          /\ auto \subseteq sports[DefaultSport]
    BY <1>1, <2>2, RowFields, ChatAssumption DEF ChatAssumption, SquashCourts
  <2> HIDE DEF sports, auto
  <2>5. Writable([row EXCEPT !.sports = sports, !.autoCourts = auto])
    BY <1>1, <2>4, RowChanges, RowFields
  <2> QED
    BY <2>3, <2>5, WriteFromKeeps
<1>3. CASE ToggleAuto(h)
  <2> DEFINE auto == IF row.auto THEN {} ELSE row.autoCourts
             on == ~row.auto
  <2>1. WriteFrom(h, [row EXCEPT !.auto = on, !.autoCourts = auto])
    BY <1>3 DEF ToggleAuto
  <2>2. on \in BOOLEAN /\ auto \in SUBSET Courts /\ auto \subseteq SquashCourts(row)
    BY <1>1, RowFields
  <2> HIDE DEF on, auto
  <2>3. Writable([row EXCEPT !.auto = on, !.autoCourts = auto])
    BY <1>1, <2>2, RowChanges, RowFields
  <2> QED
    BY <2>1, <2>3, WriteFromKeeps
<1> QED
  BY <1>2, <1>3

LEMMA DeleteKeeps ==
    ASSUME ChatInv, VenueInv, NEW h \in Handlers, DeleteVenue(h)
    PROVE  ChatInv' /\ VenueInv'
  BY StopKeeps DEF DeleteVenue, VenueInv, RowOK

-----------------------------------------------------------------------------
(* The wizard of an account.                                               *)
LEMMA CredKeeps ==
    ASSUME ChatInv, NEW h \in Handlers,
           PressCredAdd(h) \/ (pending["credAdd"] # 0 /\ CredText(h))
             \/ PrioritiesListed(h) \/ AddCred(h)
    PROVE  ChatInv'
<1>1. "credAdd" \in EditKinds /\ "credAdd" \in Kinds /\ "credAdd" \notin GameKinds
  BY DEF EditKinds, Kinds, GameKinds
<1>2. ASSUME NEW w \in Edits, w.kind = "credAdd",
             NEW step \in {"login", "priority", "maxCourts", "password"}
      PROVE  [w EXCEPT !.step = step] \in Edits /\ [w EXCEPT !.step = step].kind = "credAdd"
  BY <1>2 DEF Edits
<1>3. CASE PressCredAdd(h)
  <2> DEFINE w == [kind |-> "credAdd", loose |-> FALSE, step |-> "login"]
  <2>1. w \in Edits /\ w.kind = "credAdd" /\ Open(h, pending, "credAdd", w)
    BY <1>3 DEF PressCredAdd, Edits
  <2> HIDE DEF w
  <2>2. Memory(w, Number)
    BY <1>1, <2>1, MemoryOfEdit
  <2> QED
    BY <1>1, <2>1, <2>2, OpenKeeps, PendingIsMap
<1>4. CASE pending["credAdd"] # 0 /\ CredText(h)
  <2>1. Found("credAdd") \in Edits /\ Found("credAdd").kind = "credAdd"
    BY <1>1, <1>4, EditFound
  <2>2. CASE Load(h, "credAdd", [do |-> "priorities"])
               \/ LoadAndDelete(h, "credAdd", [do |-> "addCred"])
    BY <1>1, <2>2, EditLoads DEF TaskKind
  <2>3. ASSUME NEW step \in {"maxCourts", "password"},
               Change(h, "credAdd", [Found("credAdd") EXCEPT !.step = step])
        PROVE  ChatInv'
    BY <1>1, <1>2, <2>1, <2>3, EditChanges
  <2> QED
    BY <1>4, <2>2, <2>3 DEF CredText
<1>5. CASE PrioritiesListed(h)
  <2> DEFINE m == [At(h) EXCEPT !.step = "priority"]
  <2>1. task[h].on # 0 /\ At(h) \in Edits /\ At(h).kind = "credAdd"
    BY <1>5, EditLoaded DEF PrioritiesListed, TaskKind
  <2>2. m \in Edits /\ m.kind = "credAdd"
    BY <1>2, <2>1
  <2> HIDE DEF m
  <2>3. Memory(m, Number)
    BY <1>1, <2>2, MemoryOfEdit
  <2>4. Follows(m, At(h))
    BY <2>1, <2>2, <2>3 DEF Follows
  <2>5. Store(h, "credAdd", m) => ChatInv'
    BY <2>1, <2>4, StoreKeeps
  <2> QED
    BY <1>5, <2>5, DropKeeps DEF PrioritiesListed, m
<1>6. CASE AddCred(h)
  BY <1>6, StopKeeps DEF AddCred
<1> QED
  BY <1>3, <1>4, <1>5, <1>6

-----------------------------------------------------------------------------
(* Every step.                                                             *)
LEMMA VenueStepKeeps ==
    ASSUME ChatInv, VenueInv, NEW h \in Handlers, VenueStep(h)
    PROVE  ChatInv' /\ VenueInv'
<1>1. CASE AddVenue(h) \/ WriteVenue(h) \/ DeleteVenue(h) \/ PressAdd(h)
  BY <1>1, AddVenueKeeps, WriteVenueKeeps, DeleteKeeps, AddKeeps
<1>2. ASSUME pending["venueWizard"] # 0,
             \/ WizardText(h) \/ WizardPref(h) \/ WizardDone(h)
             \/ \E s \in Sports : WizardSport(h, s)
             \/ \E on \in BOOLEAN : PressAuto(h, on)
      PROVE  ChatInv' /\ Unchanged
  <2>1. ChatInv'
    BY <1>2, WizardTextKeeps, WizardPrefKeeps, WizardDoneKeeps, WizardSportKeeps, PressAutoKeeps
  <2>2. Unchanged
    BY <1>2 DEF WizardText, WizardPref, WizardDone, WizardSport, PressAuto
  <2> QED
    BY <2>1, <2>2
<1>3. CASE SetAuto(h)
  BY <1>3, SetAutoKeeps, VenueUnchanged DEF SetAuto
<1>4. CASE StartEdit(h) \/ EditText(h) \/ SportEditText(h) \/ DaysConfirmed(h) \/ PtimeConfirmed(h)
  <2>1. ChatInv'
    BY <1>4, StartEditKeeps, EditTextKeeps, SportEditTextKeeps, ConfirmedKeep
  <2>2. Unchanged
    BY <1>4 DEF StartEdit, EditText, SportEditText, DaysConfirmed, PtimeConfirmed
  <2> QED
    BY <2>1, <2>2, VenueUnchanged
<1>5. CASE TypeEdit(h) \/ TypeSportEdit(h) \/ ConfirmDays(h)
             \/ (pending["ptimeEdit"] # 0 /\ (TogglePtime(h) \/ ConfirmPtime(h)))
  <2>1. ChatInv'
    BY <1>5, EditTextsKeep, WizardDaysKeep, TogglePtimeKeeps
  <2>2. Unchanged
    BY <1>5 DEF TypeEdit, TypeSportEdit, ConfirmDays, TogglePtime, ConfirmPtime
  <2> QED
    BY <2>1, <2>2, VenueUnchanged
<1>6. CASE RemoveSport(h) \/ ToggleAuto(h)
  <2>1. Unchanged
    BY <1>6 DEF RemoveSport, ToggleAuto, WriteFrom
  <2> QED
    BY <1>6, <2>1, ButtonsKeep, VenueUnchanged
<1>7. CASE PressCredAdd(h) \/ (pending["credAdd"] # 0 /\ CredText(h))
             \/ PrioritiesListed(h) \/ AddCred(h)
  <2>1. Unchanged
    BY <1>7 DEF PressCredAdd, CredText, PrioritiesListed, AddCred
  <2> QED
    BY <1>7, <2>1, CredKeeps, VenueUnchanged
<1> QED
  BY <1>1, <1>2, <1>3, <1>4, <1>5, <1>6, <1>7, VenueUnchanged DEF VenueStep

LEMMA CommandKeeps ==
    ASSUME ChatInv, NEW h \in Handlers, Command(h)
    PROVE  ChatInv'
<1> DEFINE p == [k \in Kinds |-> IF k = "groupPick" THEN pending[k] ELSE 0]
<1>1. p \in [Kinds -> Sessions \cup {0}] /\ \A k \in Kinds : p[k] \in {0, pending[k]}
  BY Known
<1>2. Leave(h, p, session, Idle)
  BY DEF Command
<1> QED
  BY <1>1, <1>2, StayKeeps

(* The server owner changes one flag.                                      *)
LEMMA OwnerKeeps ==
    ASSUME ChatInv, VenueInv, OwnerDecides
    PROVE  ChatInv' /\ VenueInv'
<1>1. UNCHANGED <<pending, session, task, admin>>
  BY DEF OwnerDecides
<1>2. ChatInv'
  BY <1>1 DEF ChatInv
<1>3. VenueInv'
  BY DEF OwnerDecides, VenueInv, RowOK
<1> QED
  BY <1>2, <1>3

DialogueInv == ChatInv /\ VenueInv /\ GamesAreOfOneDialogue

LEMMA DialogueStarts == ASSUME Init PROVE DialogueInv
<1>1. ChatInv
  <2>1. /\ \A k \in Kinds : pending[k] = 0
        /\ \A h \in Handlers : task[h] = Idle
        /\ pending \in [Kinds -> Sessions \cup {0}]
        /\ session = [i \in Sessions |-> session[i]] /\ task = [h \in Handlers |-> task[h]]
    BY DEF Init, ChatInit
  <2>2. \A h \in Handlers : task[h].on = 0
    BY <2>1 DEF Idle
  <2>3. \A h \in Handlers : Task(task[h], session, pending, Cardinality(admin))
    BY <2>1, IdleIsTask
  <2> QED
    BY <2>1, <2>2, <2>3 DEF ChatInv, Chats
<1>2. VenueInv
  <2> DEFINE sports == [NoSports EXCEPT ![DefaultSport] = Courts]
  <2>1. /\ row = SomeRow(sports, Slots, Slots, TRUE, Courts)
        /\ added = NoRow /\ allowed = TRUE
    BY DEF Init, VenueInit
  <2>2. sports \in [Sports -> SUBSET Courts] /\ sports[DefaultSport] = Courts
    BY ChatAssumption DEF ChatAssumption, NoSports
  <2> HIDE DEF sports
  <2>3. row = [group |-> HomeGroup, sports |-> sports, slots |-> Slots, pref |-> Slots,
               auto |-> TRUE, autoCourts |-> Courts]
    BY <2>1 DEF SomeRow
  <2>4. row \in Rows /\ SquashCourts(row) = Courts /\ row.autoCourts = Courts
    BY <2>2, <2>3 DEF Rows, SquashCourts
  <2>5. row.pref = Slots /\ row.slots = Slots
    BY <2>3
  <2>6. Whole(row)
    BY <2>4, <2>5, VenueAssumption DEF Whole, VenueAssumption
  <2> QED
    BY <2>1, <2>4, <2>6 DEF VenueInv, RowOK
<1>3. GamesAreOfOneDialogue
  BY DEF Init, GamesAreOfOneDialogue, NoGame
<1> QED
  BY <1>1, <1>2, <1>3 DEF DialogueInv

LEMMA DialogueStepKeeps == ASSUME DialogueInv, [Next]_vars PROVE DialogueInv'
<1>0. ChatInv /\ VenueInv /\ GamesAreOfOneDialogue
  BY DEF DialogueInv
<1>1. ASSUME NEW h \in Handlers, GameStep(h), Unchanged PROVE DialogueInv'
  BY <1>0, <1>1, GameStepKeepsAll, VenueUnchanged DEF DialogueInv
<1>2. ASSUME NEW h \in Handlers, VenueStep(h), game' = NoGame PROVE DialogueInv'
  BY <1>0, <1>2, VenueStepKeeps, NoGameIsFine DEF DialogueInv
<1>3. ASSUME NEW h \in Handlers, Command(h), game' = NoGame, Unchanged PROVE DialogueInv'
  BY <1>0, <1>3, CommandKeeps, VenueUnchanged, NoGameIsFine DEF DialogueInv
<1>4. ASSUME NEW g \in Groups, MoveRights(g), game' = NoGame, Unchanged PROVE DialogueInv'
  BY <1>0, <1>4, RightsKeep, VenueUnchanged, NoGameIsFine DEF DialogueInv
<1>5. CASE OwnerDecides /\ game' = NoGame
  BY <1>0, <1>5, OwnerKeeps, NoGameIsFine DEF DialogueInv
<1>6. CASE UNCHANGED vars
  <2>1. UNCHANGED <<pending, session, task, admin, topic, moves>>
          /\ UNCHANGED <<row, added, allowed>> /\ UNCHANGED game
    BY <1>6 DEF vars, chatVars, venueVars
  <2>2. ChatInv'
    BY <1>0, <2>1 DEF ChatInv
  <2>3. VenueInv'
    BY <1>0, <2>1 DEF VenueInv, RowOK
  <2>4. GamesAreOfOneDialogue'
    BY <1>0, <2>1 DEF GamesAreOfOneDialogue
  <2> QED
    BY <2>2, <2>3, <2>4 DEF DialogueInv
<1> QED
  BY <1>1, <1>2, <1>3, <1>4, <1>5, <1>6 DEF Next

(* The state of one chat: what the dialogues hold, what the handlers at    *)
(* work on them know, and the rows of the venues (the maps of Bot, and the *)
(* wizards and edits they point to).                                       *)
THEOREM ChatInvariant == Spec => []DialogueInv
<1>1. Init => DialogueInv
  BY DialogueStarts
<1>2. DialogueInv /\ [Next]_vars => DialogueInv'
  BY DialogueStepKeeps
<1> QED
  BY <1>1, <1>2, PTL DEF Spec

(* A dialogue nobody disturbed makes one game, on courts of its venue and  *)
(* sport (newgame_handlers.go, "Reject presses from an older message" and  *)
(* the deletion before the game is created), for any number of handlers at *)
(* once, groups, venues and courts.                                        *)
THEOREM OneDialoguePerGame == Spec => []GamesAreOfOneDialogue
<1>1. DialogueInv => GamesAreOfOneDialogue
  BY DEF DialogueInv
<1> QED
  BY <1>1, ChatInvariant, PTL

(* A venue's courts, automatic booking and preferred times fit each other, *)
(* whatever edits of it were at work at once (venue_handlers.go, the       *)
(* filters of both court edits and of the slots), for any venue.           *)
THEOREM VenuesAreWhole == Spec => []VenuesStayWhole
<1>1. DialogueInv => VenuesStayWhole
  BY DEF DialogueInv, VenueInv, RowOK, VenuesStayWhole, Whole
<1> QED
  BY <1>1, ChatInvariant, PTL
=============================================================================
