-------------------------------- MODULE Chat --------------------------------
(***************************************************************************)
(* One user's private chat with the bot.  The bot keeps an unfinished      *)
(* dialogue in a map of its kind, by the chat; the map holds a pointer,    *)
(* and a handler keeps the pointer it loaded, so that what a dialogue      *)
(* holds is shared by the handlers that run at once.  A handler takes one  *)
(* step from one remote call to the next; reads that follow each other are *)
(* one step, and an update nobody can tell of yet is not begun.  An old    *)
(* message keeps its buttons: any may be pressed at any time.              *)
(***************************************************************************)
EXTENDS Integers, FiniteSets, Sequences

CONSTANTS
    Handlers,     \* updates of the chat handled at once
    MaxSessions,  \* bound: dialogues that are pending or being handled
    Starts,       \* bound: the dialogues one behaviour opens, the rights at
                  \* first and how often rights change
    Groups,
    NoGroup,
    Sports,
    DefaultSport, \* squash
    Courts

ASSUME ChatAssumption ==
    /\ MaxSessions \in Nat \ {0}
    /\ NoGroup \notin Groups /\ DefaultSport \in Sports

VARIABLES
    pending,  \* [Kinds -> the dialogue pending, or 0]: the maps of Bot
    session,  \* [Sessions -> what the dialogue holds]: the memory
    task,     \* [Handlers -> the update being handled]
    admin,    \* groups the user is an administrator of
    topic,    \* the kinds of dialogue this behaviour opens
    moves     \* changes of rights left

chatVars == <<pending, session, task, admin, topic, moves>>

Kinds == {"newGame", "groupPick", "groupVenue", "venueWizard", "venueEdit",
          "sportEdit", "daysEdit", "ptimeEdit", "credAdd"}
Sessions == 1..MaxSessions

Gone == [kind |-> "none", loose |-> FALSE]
Idle == [do |-> "idle", on |-> 0]

ChatInit ==
    /\ \E s \in Starts : topic = s.topic /\ admin = s.admin /\ moves = s.moves
    /\ pending = [k \in Kinds |-> 0]
    /\ session = [i \in Sessions |-> Gone]
    /\ task = [h \in Handlers |-> Idle]

-----------------------------------------------------------------------------
(* A step of handler h leaves maps p, memory s and task t; a dialogue      *)
(* nobody refers to is gone.                                               *)
Leave(h, p, s, t) ==
    LET tasks == [task EXCEPT ![h] = t]
        held == {p[k] : k \in Kinds} \cup {tasks[o].on : o \in Handlers}
    IN /\ pending' = p /\ task' = tasks
       /\ session' = [i \in Sessions |-> IF i \in held THEN s[i] ELSE Gone]
       /\ UNCHANGED <<admin, topic, moves>>

Free(h) == task[h] = Idle
Unpend(k) == [pending EXCEPT ![k] = 0]

(* The dialogue h works on, or the one it finds pending.  "loose" is for   *)
(* the property of the games: two handlers held the dialogue at once, or   *)
(* the user's rights changed while it lasted.                              *)
At(h) == session[task[h].on]
Found(k) == session[pending[k]]
GameKinds == {"newGame", "groupPick", "groupVenue"}
Held(h, i) ==
    session[i].kind \in GameKinds /\ \E o \in Handlers \ {h} : task[o].on = i
Shared(h, i) == [session EXCEPT ![i].loose = @ \/ Held(h, i)]

(* An update goes on with a remote call: it has found no dialogue, or      *)
(* loaded the dialogue of kind k.                                          *)
On(t, i) == [f \in DOMAIN t \cup {"on"} |-> IF f = "on" THEN i ELSE t[f]]
Begin(h, t) ==
    /\ Free(h)
    /\ Leave(h, pending, session, On(t, 0))
Load(h, k, t) ==
    /\ Free(h) /\ pending[k] # 0
    /\ Leave(h, pending, Shared(h, pending[k]), On(t, pending[k]))
LoadAndDelete(h, k, t) ==
    /\ Free(h) /\ pending[k] # 0
    /\ Leave(h, Unpend(k), Shared(h, pending[k]), On(t, pending[k]))

(* An update that changes the dialogue it finds and is done.               *)
Change(h, k, new) ==
    /\ Free(h) /\ pending[k] # 0
    /\ LET i == pending[k] IN
       Leave(h, pending, [session EXCEPT ![i] = [new EXCEPT !.loose = new.loose \/ Held(h, i)]], Idle)

(* The task is over: nothing else changed, the dialogue was changed and    *)
(* stored again, it was dropped, or a new one was stored in map k (p are   *)
(* the maps by then).                                                      *)
Stop(h) == Leave(h, pending, session, Idle)
Store(h, k, new) ==
    Leave(h, [pending EXCEPT ![k] = task[h].on],
          [session EXCEPT ![task[h].on] = new], Idle)
Drop(h, k) == Leave(h, Unpend(k), session, Idle)
Open(h, p, k, new) ==
    \E i \in Sessions :
        /\ session[i] = Gone /\ \A j \in Sessions : session[j] = Gone => i <= j
        /\ Leave(h, [p EXCEPT ![k] = i],
                 [session EXCEPT ![i] = new], Idle)

(* handleMessage gives a text to the first dialogue of this order.         *)
TextOrder == <<"newGame", "venueWizard", "venueEdit", "sportEdit", "credAdd">>
TextFor(k) ==
    \E n \in 1..Len(TextOrder) :
        /\ TextOrder[n] = k /\ pending[k] # 0
        /\ \A m \in 1..(n - 1) : pending[TextOrder[m]] = 0

-----------------------------------------------------------------------------
(* A command forgets what is pending, except a group that was asked for.   *)
Command(h) ==
    /\ Free(h)
    /\ Leave(h, [k \in Kinds |-> IF k = "groupPick" THEN pending[k] ELSE 0],
             session, Idle)

(* isAdminInGroup and adminGroups ask Telegram each time.                  *)
MoveRights(g) ==
    /\ moves > 0 /\ moves' = moves - 1
    /\ admin' = IF g \in admin THEN admin \ {g} ELSE admin \cup {g}
    /\ session' = [i \in Sessions |-> [session[i] EXCEPT !.loose = @ \/ session[i].kind \in GameKinds]]
    /\ UNCHANGED <<pending, task, topic>>
=============================================================================
