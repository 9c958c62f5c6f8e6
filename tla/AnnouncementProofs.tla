------------------------- MODULE AnnouncementProofs -------------------------
(***************************************************************************)
(* Proofs that the announcement of a game is current whenever nothing is   *)
(* under way, that no live message is lost sight of, and that no seat      *)
(* counted for a guest is given to another, for every number of players,   *)
(* requests, editors, messages, changes and faults.                        *)
(*                                                                         *)
(* The invariant is AnnouncementInv.  The roster lemmas are about the      *)
(* tables, ChangeKeeps about whatever changes them, and then there is one  *)
(* lemma for the editors, one for the worker and one for the publisher.    *)
(***************************************************************************)
EXTENDS Announcement, FiniteSetTheorems, TLAPS

-----------------------------------------------------------------------------
(* The tables.                                                             *)

(* What the roster's own part of the invariant says.                       *)
TapLock == \A t, u \in Taps : tap[t] # IdleTap /\ tap[u] # IdleTap => t = u
RosterInv == RosterTypeOK /\ TapLock /\ CountedSeatKept

(* The statements that change a table, guarded as the handlers guard them. *)
RosterChange ==
    \/ \E p \in Players : \E s \in {"none", "registered", "skipped"} : SetStatus(p, s)
    \/ \E t \in Taps : \E p \in Players : CountSeats(t, p)
    \/ \E t \in Taps : InsertGuest(t) \/ Rollback(t)
    \/ \E p \in Players : DeleteLatestGuest(p)
    \/ \E g \in guests : DeleteGuest(g)
    \/ \E n \in 0..MaxCourts : SetCourts(n)

(* A request that is not idle has counted.                                 *)
LEMMA TapPc ==
    ASSUME NEW x \in Tap
    PROVE  x # IdleTap <=> x.pc = "counted"
  BY DEF Tap, IdleTap

(* A guest taken from a finite table leaves no more guests.                *)
LEMMA FewerGuests ==
    ASSUME IsFiniteSet(guests), NEW g \in guests
    PROVE  /\ IsFiniteSet(guests \ {g})
           /\ Cardinality(guests \ {g}) <= Cardinality(guests)
           /\ Cardinality(guests) \in Nat /\ Cardinality(guests \ {g}) \in Nat
<1>1. IsFiniteSet(guests \ {g}) /\ Cardinality(guests \ {g}) <= Cardinality(guests)
  BY FS_Subset, guests \ {g} \in SUBSET guests
<1> QED
  BY <1>1, FS_CardinalityType

(* The first tables satisfy the roster's invariant.                        *)
LEMMA RosterInitially == RosterInit => RosterInv
<1> SUFFICES ASSUME RosterInit PROVE RosterInv
  OBVIOUS
<1> USE RosterAssumption DEF RosterInit
<1>1. RosterTypeOK
  <2>1. IsFiniteSet({})
    BY FS_EmptySet
  <2> QED
    BY <2>1 DEF RosterTypeOK, Tap, RosterAssumption
<1>2. TapLock /\ CountedSeatKept
  BY DEF TapLock, CountedSeatKept, IdleTap
<1> QED
  BY <1>1, <1>2 DEF RosterInv

(* Every statement preserves it.                                           *)
LEMMA RosterKept == RosterInv /\ RosterChange => RosterInv'
<1> SUFFICES ASSUME RosterInv, RosterChange PROVE RosterInv'
  OBVIOUS
<1> USE DEF RosterInv
<1>t. \A t \in Taps : tap[t] \in Tap /\ (tap[t] # IdleTap <=> tap[t].pc = "counted")
  BY TapPc DEF RosterTypeOK
<1>c. Cardinality(guests) \in Nat
  BY FS_CardinalityType DEF RosterTypeOK
<1>1. ASSUME NEW p \in Players, NEW s \in {"none", "registered", "skipped"}, SetStatus(p, s)
      PROVE  RosterInv'
  BY <1>1 DEF SetStatus, RosterTypeOK, TapLock, CountedSeatKept
<1>2. ASSUME NEW t \in Taps, NEW p \in Players, CountSeats(t, p)
      PROVE  RosterInv'
  <2> DEFINE new == [pc |-> "counted", by |-> p, counted |-> Cardinality(guests)]
  <2>1. new \in Tap
    BY <1>c DEF Tap
  <2>2. tap' = [tap EXCEPT ![t] = new] /\ guests' = guests
    BY <1>2 DEF CountSeats
  <2>3. \A u \in Taps : tap[u] = IdleTap
    BY <1>2 DEF CountSeats, LockFree
  <2>4. RosterTypeOK'
    BY <1>2, <2>1, <2>2 DEF CountSeats, RosterTypeOK
  <2>5. TapLock'
    BY <2>2, <2>3 DEF TapLock, RosterTypeOK
  <2>6. CountedSeatKept'
    <3> SUFFICES ASSUME NEW u \in Taps, tap'[u].pc = "counted"
                 PROVE  Cardinality(guests) <= tap'[u].counted
      BY <2>2 DEF CountedSeatKept
    <3>1. u = t
      BY <2>2, <2>3 DEF IdleTap, RosterTypeOK
    <3>2. tap'[u].counted = Cardinality(guests)
      BY <2>2, <3>1 DEF RosterTypeOK
    <3> QED
      BY <3>2, <1>c
  <2> QED
    BY <2>4, <2>5, <2>6
<1>3. ASSUME NEW t \in Taps, InsertGuest(t)
      PROVE  RosterInv'
  <2> DEFINE row == [id |-> nextGuest, by |-> tap[t].by]
  <2>1. tap[t].pc = "counted" /\ tap[t] # IdleTap /\ tap[t].by \in Players
    BY <1>3, <1>t DEF InsertGuest, Tap, IdleTap
  <2>2. /\ guests' = guests \cup {row} /\ tap' = [tap EXCEPT ![t] = IdleTap]
        /\ nextGuest' = nextGuest + 1 /\ courts' = courts /\ status' = status
    BY <1>3 DEF InsertGuest
  <2>3. \A u \in Taps : tap'[u] = IdleTap
    BY <2>1, <2>2 DEF TapLock, RosterTypeOK
  <2>4. IsFiniteSet(guests') /\ guests' \subseteq Guest
    <3>1. IsFiniteSet(guests \cup {row})
      BY FS_AddElement DEF RosterTypeOK
    <3>2. row \in Guest
      BY <2>1 DEF RosterTypeOK, Guest
    <3> QED
      BY <3>1, <3>2, <2>2 DEF RosterTypeOK
  <2>5. RosterTypeOK'
    BY <2>2, <2>4 DEF RosterTypeOK, Tap
  <2> QED
    BY <2>3, <2>5 DEF TapLock, CountedSeatKept, IdleTap
<1>4. ASSUME NEW t \in Taps, Rollback(t)
      PROVE  RosterInv'
  <2>1. /\ tap' = [tap EXCEPT ![t] = IdleTap]
        /\ UNCHANGED <<courts, status, guests, nextGuest>>
    BY <1>4 DEF Rollback
  <2>2. RosterTypeOK'
    BY <2>1 DEF RosterTypeOK, Tap
  <2>3. TapLock'
    BY <2>1 DEF TapLock, RosterTypeOK
  <2>4. CountedSeatKept'
    BY <2>1 DEF CountedSeatKept, RosterTypeOK, IdleTap
  <2> QED
    BY <2>2, <2>3, <2>4
<1>5. ASSUME NEW g \in guests, guests' = guests \ {g},
             UNCHANGED <<courts, status, nextGuest, tap>>
      PROVE  RosterInv'
  <2>1. /\ IsFiniteSet(guests') /\ Cardinality(guests') <= Cardinality(guests)
        /\ Cardinality(guests') \in Nat
    BY <1>5, FewerGuests DEF RosterTypeOK
  <2>2. RosterTypeOK'
    BY <1>5, <2>1 DEF RosterTypeOK
  <2>3. TapLock'
    BY <1>5 DEF TapLock
  <2>4. CountedSeatKept'
    <3> SUFFICES ASSUME NEW u \in Taps, tap[u].pc = "counted"
                 PROVE  Cardinality(guests') <= tap[u].counted
      BY <1>5 DEF CountedSeatKept
    <3>1. Cardinality(guests) <= tap[u].counted /\ tap[u].counted \in Nat
      BY <1>t DEF CountedSeatKept, Tap, IdleTap
    <3> QED
      BY <3>1, <2>1, <1>c
  <2> QED
    BY <2>2, <2>3, <2>4
<1>6. ASSUME NEW p \in Players, DeleteLatestGuest(p)
      PROVE  RosterInv'
  BY <1>5, <1>6 DEF DeleteLatestGuest, GuestsOf
<1>7. ASSUME NEW g \in guests, DeleteGuest(g)
      PROVE  RosterInv'
  BY <1>5, <1>7 DEF DeleteGuest
<1>8. ASSUME NEW n \in 0..MaxCourts, SetCourts(n)
      PROVE  RosterInv'
  BY <1>8 DEF SetCourts, RosterTypeOK, TapLock, CountedSeatKept
<1> QED
  BY <1>1, <1>2, <1>3, <1>4, <1>6, <1>7, <1>8 DEF RosterChange

-----------------------------------------------------------------------------
(* The message.  Everything of the invariant but the roster's part.        *)
ChatTypeOK ==
    /\ messageId \in 0..MaxMessages
    /\ board \in [MessageIds -> View \cup {NoText}]
    /\ lastMessage \in 0..MaxMessages
    /\ abandoned \subseteq MessageIds
    /\ pub \in [pc : {"idle", "parts", "guests", "send", "store", "delete"},
                kind : {"publish", "create"}, msg : 0..MaxMessages, view : View]

EditTypeOK ==
    /\ queued \in Nat /\ lock \in Editors \cup {Free}
    /\ edit \in [Editors -> [pc : Holding \cup {"idle", "game"},
                             msg : 0..MaxMessages, view : View]]

WorkerTypeOK ==
    /\ replies \in Nat
    /\ worker \in [running : BOOLEAN, pending : BOOLEAN, attempt : {0, 1},
                   pc : Holding \cup {"idle", "game", "ran"},
                   msg : 0..MaxMessages, view : View]

CountsTypeOK == excused \in BOOLEAN /\ changes \in Nat /\ faults \in Nat

EditLock == \A e \in Editors : edit[e].pc # "idle" => lock = e

ChatInv ==
    /\ ChatTypeOK /\ EditTypeOK /\ WorkerTypeOK /\ CountsTypeOK
    /\ EditLock /\ ViewsAreOfTheMessage /\ PublisherIsFirst /\ LiveMessages
    /\ WorkerRuns /\ CurrentOrDue

(* The two halves are the invariant.                                       *)
LEMMA InvHalves == AnnouncementInv <=> RosterInv /\ ChatInv
  BY DEF AnnouncementInv, RosterInv, ChatInv, TypeOK, ChatTypeOK, EditTypeOK,
         WorkerTypeOK, CountsTypeOK, LocksHeldOnce, TapLock, EditLock

(* What the tables hold can be shown.                                      *)
LEMMA Showable ==
    ASSUME RosterTypeOK
    PROVE  /\ Current \in View /\ NoView \in View
           /\ registered \in SUBSET Players /\ guests \in SUBSET Guest
           /\ courts \in 0..MaxCourts
           /\ [NoView EXCEPT !.courts = courts] \in View
           /\ [NoView EXCEPT !.courts = courts].courts = courts
  BY RosterAssumption DEF RosterTypeOK, Current, View, NoView, registered, RosterAssumption

(* A frame that has read everything and is fresh holds the present.        *)
LEMMA FreshIsCurrent ==
    ASSUME NEW frame, frame.view \in View, frame.pc \in {"send", "store"}, Fresh(frame)
    PROVE  frame.view = Current
  BY DEF Fresh, View, Current

(* A change of the tables sets off an edit, or is excused, or changes      *)
(* nothing that is shown.                                                  *)
LEMMA ChangeKeeps ==
    ASSUME ChatInv,
           UNCHANGED <<chatVars, lock, edit, worker, pub>>,
           \/ queued' = queued + 1 /\ UNCHANGED <<replies, excused>>
           \/ replies' = replies + 1 /\ UNCHANGED <<queued, excused>>
           \/ excused' = TRUE /\ UNCHANGED <<queued, replies>>
           \/ UNCHANGED <<courts, status, guests, queued, replies, excused>>,
           changes' \in Nat, faults' \in Nat
    PROVE  ChatInv'
<1> USE DEF ChatInv, chatVars
<1>1. ChatTypeOK' /\ EditTypeOK' /\ WorkerTypeOK' /\ CountsTypeOK'
  <2>1. ChatTypeOK'
    BY DEF ChatTypeOK
  <2>2. EditTypeOK'
    BY DEF EditTypeOK
  <2>3. WorkerTypeOK'
    BY DEF WorkerTypeOK
  <2>4. CountsTypeOK'
    BY DEF CountsTypeOK
  <2> QED
    BY <2>1, <2>2, <2>3, <2>4
<1>2. EditLock' /\ ViewsAreOfTheMessage' /\ PublisherIsFirst' /\ LiveMessages' /\ WorkerRuns'
  BY DEF EditLock, ViewsAreOfTheMessage, PublisherIsFirst, LiveMessages, WorkerRuns
<1>3. CurrentOrDue'
  <2>1. CASE excused' = TRUE
    BY <2>1 DEF CurrentOrDue
  <2>2. CASE excused' = excused /\ (queued' = queued + 1 \/ replies' = replies + 1)
    <3>1. Due'
      BY <2>2 DEF Due, EditTypeOK, WorkerTypeOK
    <3>2. (~(Editing /\ worker.pc \in Holding))' <=> ~(Editing /\ worker.pc \in Holding)
      BY DEF Editing
    <3> QED
      BY <2>2, <3>1, <3>2 DEF CurrentOrDue
  <2>3. CASE UNCHANGED <<courts, status, guests, queued, replies, excused>>
    BY <2>3 DEF CurrentOrDue, Due, Editing, Fresh, Current, registered
  <2> QED
    BY <2>1, <2>2, <2>3
<1> QED
  BY <1>1, <1>2, <1>3

-----------------------------------------------------------------------------
(* The frame of an editor.                                                 *)
EditFrame == [pc : Holding \cup {"idle", "game"}, msg : 0..MaxMessages, view : View]

(* The editor that holds the lock is the only one that is not idle, and    *)
(* stays so in its next state.                                             *)
LEMMA EditorMoves ==
    ASSUME EditTypeOK, EditLock, NEW e \in Editors, edit[e].pc # "idle", NEW frame \in EditFrame,
           edit' = [edit EXCEPT ![e] = frame], queued' = queued,
           lock' = IF frame.pc = "idle" THEN Free ELSE lock
    PROVE  /\ EditTypeOK' /\ EditLock' /\ edit'[e] = frame
           /\ \A f \in Editors : f # e => edit'[f].pc = "idle"
           /\ Editing' <=> frame.pc \in Holding
<1>1. lock = e /\ \A f \in Editors : f # e => edit[f].pc = "idle"
  BY DEF EditLock
<1>2. edit'[e] = frame /\ \A f \in Editors : f # e => edit'[f] = edit[f]
  BY DEF EditTypeOK
<1>3. EditTypeOK'
  BY <1>1 DEF EditTypeOK, EditFrame
<1>4. EditLock' /\ (Editing' <=> frame.pc \in Holding)
  BY <1>1, <1>2 DEF EditLock, Editing, Holding
<1> QED
  BY <1>1, <1>2, <1>3, <1>4

(* EditGameMessage: one step per action.                                   *)
LEMMA EditKeeps ==
    ASSUME RosterTypeOK, ChatInv, NEW e \in Editors, EditStep(e)
    PROVE  ChatInv'
<1> USE EditorsAssumption DEF ChatInv
<1>v. /\ Current \in View /\ NoView \in View
      /\ registered \in SUBSET Players /\ guests \in SUBSET Guest
  BY Showable
<1>i. /\ EditLock /\ (lock = e \/ edit[e].pc = "idle")
      /\ \A f \in Editors : edit[f].pc # "idle" => lock = f
  BY DEF EditLock
<1>1. ASSUME Take(e) PROVE ChatInv'
  <2> USE <1>1 DEF Take
  <2>1. /\ edit' = [edit EXCEPT ![e].pc = "game"] /\ lock' = e /\ queued' = queued - 1
        /\ queued \in Nat /\ queued > 0
        /\ UNCHANGED <<rosterVars, chatVars, botVars, pub, excused, countVars>>
    BY DEF EditTypeOK
  <2>2. \A f \in Editors : edit[f].pc = "idle"
    BY <1>i DEF Free
  <2>3. \A f \in Editors : f # e => edit'[f] = edit[f]
    BY <2>1 DEF EditTypeOK
  <2>4. edit'[e] = [edit[e] EXCEPT !.pc = "game"] /\ edit'[e].pc = "game"
    BY <2>1 DEF EditTypeOK
  <2>5. EditTypeOK'
    BY <2>1, <2>3, <2>4 DEF EditTypeOK
  <2>6. ChatTypeOK' /\ WorkerTypeOK' /\ CountsTypeOK' /\ PublisherIsFirst' /\ LiveMessages' /\ WorkerRuns'
    BY <2>1 DEF chatVars, botVars, countVars, ChatTypeOK, WorkerTypeOK, CountsTypeOK,
                PublisherIsFirst, LiveMessages, WorkerRuns
  <2>7. EditLock' /\ ViewsAreOfTheMessage'
    BY <2>1, <2>2, <2>3, <2>4 DEF EditLock, ViewsAreOfTheMessage, Holding, chatVars, botVars
  <2>8. CurrentOrDue'
    <3>1. Due' /\ ~Editing'
      BY <2>2, <2>3, <2>4 DEF Due, Editing, Holding
    <3> QED
      BY <3>1, <2>1 DEF CurrentOrDue
  <2> QED
    BY <2>5, <2>6, <2>7, <2>8
<1>f. edit[e] \in EditFrame /\ EditTypeOK /\ EditLock
  BY DEF EditTypeOK, EditFrame
<1>n. IdleFrame \in EditFrame /\ IdleFrame.pc = "idle"
  BY <1>v, BoundsAssumption DEF IdleFrame, EditFrame, None, BoundsAssumption
<1>2. ASSUME EditFails(e) PROVE ChatInv'
  <2>1. /\ edit[e].pc # "idle" /\ edit' = [edit EXCEPT ![e] = IdleFrame] /\ lock' = Free
        /\ excused' = TRUE /\ faults' = faults + 1 /\ queued' = queued
        /\ UNCHANGED <<rosterVars, chatVars, botVars, pub, changes>>
    BY <1>2 DEF EditFails, Fails, Return
  <2>2. /\ EditTypeOK' /\ EditLock'
        /\ \A f \in Editors : edit'[f].pc = "idle"
    <3>1. /\ EditTypeOK' /\ EditLock' /\ edit'[e] = IdleFrame
          /\ \A f \in Editors : f # e => edit'[f].pc = "idle"
      BY <2>1, <1>f, <1>n, EditorMoves
    <3> QED
      BY <3>1, <1>n
  <2>3. ChatTypeOK' /\ WorkerTypeOK' /\ PublisherIsFirst' /\ LiveMessages' /\ WorkerRuns'
    BY <2>1 DEF chatVars, botVars, ChatTypeOK, WorkerTypeOK, PublisherIsFirst, LiveMessages, WorkerRuns
  <2>4. CountsTypeOK'
    BY <2>1 DEF CountsTypeOK
  <2>5. ViewsAreOfTheMessage' /\ CurrentOrDue'
    BY <2>1, <2>2 DEF ViewsAreOfTheMessage, CurrentOrDue, Holding, chatVars, botVars
  <2> QED
    BY <2>2, <2>3, <2>4, <2>5
<1>3. ASSUME EditNothing(e) PROVE ChatInv'
  <2>1. /\ edit[e].pc = "game" /\ messageId = None
        /\ edit' = [edit EXCEPT ![e] = IdleFrame] /\ lock' = Free
        /\ excused' = (excused \/ pub.pc # "idle") /\ queued' = queued
        /\ UNCHANGED <<rosterVars, chatVars, botVars, pub, countVars>>
    BY <1>3 DEF EditNothing, Return
  <2>2. /\ EditTypeOK' /\ EditLock'
        /\ \A f \in Editors : edit'[f].pc = "idle"
    <3>1. /\ EditTypeOK' /\ EditLock' /\ edit'[e] = IdleFrame
          /\ \A f \in Editors : f # e => edit'[f].pc = "idle"
      BY <2>1, <1>f, <1>n, EditorMoves
    <3> QED
      BY <3>1, <1>n
  <2>3. ChatTypeOK' /\ WorkerTypeOK' /\ PublisherIsFirst' /\ LiveMessages' /\ WorkerRuns'
    BY <2>1 DEF chatVars, botVars, ChatTypeOK, WorkerTypeOK, PublisherIsFirst, LiveMessages, WorkerRuns
  <2>4. CountsTypeOK'
    BY <2>1 DEF CountsTypeOK, countVars
  <2>5. ViewsAreOfTheMessage'
    BY <2>1, <2>2 DEF ViewsAreOfTheMessage, Holding, chatVars, botVars
  <2>6. CurrentOrDue'
    BY <2>1, <2>2 DEF CurrentOrDue, Editing, Holding, chatVars, botVars
  <2> QED
    BY <2>2, <2>3, <2>4, <2>5, <2>6
<1>4. ASSUME EditGame(e) PROVE ChatInv'
  <2> DEFINE frame == [pc |-> "parts", msg |-> messageId,
                       view |-> [NoView EXCEPT !.courts = courts]]
  <2>1. /\ edit[e].pc = "game" /\ messageId # None
        /\ edit' = [edit EXCEPT ![e] = frame] /\ lock' = lock
        /\ excused' = (worker.pc \in Holding) /\ queued' = queued
        /\ UNCHANGED <<rosterVars, chatVars, botVars, pub, countVars>>
    BY <1>4 DEF EditGame
  <2>2. frame \in EditFrame
    BY Showable DEF EditFrame, ChatTypeOK, Holding
  <2>3. /\ EditTypeOK' /\ EditLock' /\ edit'[e] = frame
        /\ \A f \in Editors : f # e => edit'[f].pc = "idle"
    BY <2>1, <2>2, <1>f, EditorMoves
  <2>4. ChatTypeOK' /\ WorkerTypeOK' /\ PublisherIsFirst' /\ LiveMessages' /\ WorkerRuns'
    BY <2>1 DEF chatVars, botVars, ChatTypeOK, WorkerTypeOK, PublisherIsFirst, LiveMessages, WorkerRuns
  <2>5. CountsTypeOK'
    BY <2>1 DEF CountsTypeOK, countVars
  <2>6. ViewsAreOfTheMessage'
    BY <2>1, <2>3 DEF ViewsAreOfTheMessage, Holding, chatVars, botVars
  <2>7. CurrentOrDue'
    <3>1. Fresh(edit[e])'
      BY <2>1, <2>3, Showable DEF Fresh, rosterVars
    <3>2. pub.pc = "idle"
      BY <2>1 DEF PublisherIsFirst
    <3>3. Editing' /\ (\A f \in Editors : edit'[f].pc \in Holding => f = e)
      BY <2>3 DEF Editing, Holding
    <3>4. worker' = worker /\ pub' = pub
      BY <2>1 DEF botVars
    <3> SUFFICES ASSUME ~excused' PROVE CurrentOrDue'
      BY DEF CurrentOrDue
    <3>5. worker'.pc \notin Holding /\ pub'.pc \notin Holding \cup {"store"}
      BY <2>1, <3>2, <3>4 DEF Holding
    <3> QED
      BY <3>1, <3>3, <3>5 DEF CurrentOrDue
  <2> QED
    BY <2>3, <2>4, <2>5, <2>6, <2>7
<1>5. ASSUME EditParts(e) PROVE ChatInv'
  <2> DEFINE frame == [edit[e] EXCEPT !.pc = "guests", !.view.registered = registered]
  <2>1. /\ edit[e].pc = "parts" /\ edit' = [edit EXCEPT ![e] = frame]
        /\ UNCHANGED <<rosterVars, chatVars, queued, lock, botVars, pub, excused, countVars>>
    BY <1>5 DEF EditParts, EditTypeOK
  <2>2. /\ frame \in EditFrame /\ frame.pc = "guests" /\ frame.msg = edit[e].msg
        /\ frame.view.registered = registered /\ frame.view.courts = edit[e].view.courts
    BY <1>f, <1>v DEF EditFrame, View, Holding
  <2> HIDE DEF frame
  <2>3. /\ EditTypeOK' /\ EditLock' /\ edit'[e] = frame /\ Editing'
        /\ \A f \in Editors : f # e => edit'[f].pc = "idle"
    BY <2>1, <2>2, <1>f, EditorMoves DEF Holding
  <2>4. ChatTypeOK' /\ WorkerTypeOK' /\ PublisherIsFirst' /\ LiveMessages' /\ WorkerRuns'
    BY <2>1 DEF chatVars, botVars, ChatTypeOK, WorkerTypeOK, PublisherIsFirst, LiveMessages, WorkerRuns
  <2>5. CountsTypeOK'
    BY <2>1 DEF CountsTypeOK, countVars
  <2>6. ViewsAreOfTheMessage'
    BY <2>1, <2>2, <2>3 DEF ViewsAreOfTheMessage, Holding, chatVars, botVars
  <2>7. CurrentOrDue'
    <3>1. Fresh(edit[e]) => Fresh(edit[e])'
      BY <2>1, <2>2, <2>3 DEF Fresh, rosterVars, registered
    <3>2. Editing /\ (Due' <=> Due)
      BY <1>i, <2>1, <2>2, <2>3 DEF Due, Editing, Holding, botVars
    <3>3. Fresh(worker)' <=> Fresh(worker)
      BY <2>1 DEF Fresh, rosterVars, botVars, registered
    <3>4. Fresh(pub)' <=> Fresh(pub)
      BY <2>1 DEF Fresh, rosterVars, registered
    <3> QED
      BY <2>1, <2>2, <2>3, <3>1, <3>2, <3>3, <3>4 DEF CurrentOrDue, Holding, chatVars, botVars
  <2> QED
    BY <2>3, <2>4, <2>5, <2>6, <2>7
<1>6. ASSUME EditGuests(e) PROVE ChatInv'
  <2> DEFINE frame == [edit[e] EXCEPT !.pc = "send", !.view.guests = guests]
  <2>1. /\ edit[e].pc = "guests" /\ edit' = [edit EXCEPT ![e] = frame]
        /\ UNCHANGED <<rosterVars, chatVars, queued, lock, botVars, pub, excused, countVars>>
    BY <1>6 DEF EditGuests, EditTypeOK
  <2>2. /\ frame \in EditFrame /\ frame.pc = "send" /\ frame.msg = edit[e].msg
        /\ frame.view.registered = edit[e].view.registered
        /\ frame.view.guests = guests /\ frame.view.courts = edit[e].view.courts
    BY <1>f, <1>v DEF EditFrame, View, Holding
  <2> HIDE DEF frame
  <2>3. /\ EditTypeOK' /\ EditLock' /\ edit'[e] = frame /\ Editing'
        /\ \A f \in Editors : f # e => edit'[f].pc = "idle"
    BY <2>1, <2>2, <1>f, EditorMoves DEF Holding
  <2>4. ChatTypeOK' /\ WorkerTypeOK' /\ PublisherIsFirst' /\ LiveMessages' /\ WorkerRuns'
    BY <2>1 DEF chatVars, botVars, ChatTypeOK, WorkerTypeOK, PublisherIsFirst, LiveMessages, WorkerRuns
  <2>5. CountsTypeOK'
    BY <2>1 DEF CountsTypeOK, countVars
  <2>6. ViewsAreOfTheMessage'
    BY <2>1, <2>2, <2>3 DEF ViewsAreOfTheMessage, Holding, chatVars, botVars
  <2>7. CurrentOrDue'
    <3>1. Fresh(edit[e]) => Fresh(edit[e])'
      BY <2>1, <2>2, <2>3 DEF Fresh, rosterVars, registered
    <3>2. Editing /\ (Due' <=> Due)
      BY <1>i, <2>1, <2>2, <2>3 DEF Due, Editing, Holding, botVars
    <3>3. Fresh(worker)' <=> Fresh(worker)
      BY <2>1 DEF Fresh, rosterVars, botVars, registered
    <3>4. Fresh(pub)' <=> Fresh(pub)
      BY <2>1 DEF Fresh, rosterVars, registered
    <3> QED
      BY <2>1, <2>2, <2>3, <3>1, <3>2, <3>3, <3>4 DEF CurrentOrDue, Holding, chatVars, botVars
  <2> QED
    BY <2>3, <2>4, <2>5, <2>6, <2>7
<1>7. ASSUME EditSend(e) PROVE ChatInv'
  <2>1. /\ edit[e].pc = "send" /\ board' = [board EXCEPT ![edit[e].msg] = edit[e].view]
        /\ edit' = [edit EXCEPT ![e] = IdleFrame] /\ lock' = Free
        /\ UNCHANGED <<rosterVars, messageId, lastMessage, abandoned, queued, botVars, pub,
                       excused, countVars>>
    BY <1>7 DEF EditSend, Return
  <2>2. /\ EditTypeOK' /\ EditLock'
        /\ \A f \in Editors : edit'[f].pc = "idle"
    <3>1. /\ EditTypeOK' /\ EditLock' /\ edit'[e] = IdleFrame
          /\ \A f \in Editors : f # e => edit'[f].pc = "idle"
      BY <2>1, <1>f, <1>n, EditorMoves
    <3> QED
      BY <3>1, <1>n
  <2>3. /\ messageId # None /\ edit[e].msg = messageId /\ messageId \in MessageIds
        /\ edit[e].view \in View /\ pub.pc = "idle"
    BY <2>1, <1>f DEF ViewsAreOfTheMessage, Holding, PublisherIsFirst, ChatTypeOK, EditFrame,
                      MessageIds, None
  <2>4. board' = [board EXCEPT ![messageId] = edit[e].view]
    BY <2>1, <2>3
  <2>5. ChatTypeOK' /\ LiveMessages' /\ board'[messageId] = edit[e].view
    BY <2>1, <2>3, <2>4 DEF ChatTypeOK, LiveMessages
  <2>6. WorkerTypeOK' /\ CountsTypeOK' /\ PublisherIsFirst' /\ WorkerRuns'
    BY <2>1, <2>3 DEF botVars, countVars, WorkerTypeOK, CountsTypeOK, PublisherIsFirst, WorkerRuns,
                      Holding
  <2>7. ViewsAreOfTheMessage'
    BY <2>1, <2>2 DEF ViewsAreOfTheMessage, Holding, botVars
  <2>8. CurrentOrDue'
    <3>1. Editing /\ ~Editing' /\ (Due' <=> Due)
      BY <1>i, <2>1, <2>2 DEF Due, Editing, Holding, botVars
    <3> SUFFICES ASSUME ~excused', ~Due' PROVE CurrentOrDue'
      BY <3>1 DEF CurrentOrDue
    <3>2. worker'.pc \notin Holding /\ Fresh(edit[e])
      BY <2>1, <2>3, <3>1 DEF CurrentOrDue, Holding, botVars
    <3>3. board'[messageId] = Current /\ Current' = Current
      BY <2>1, <2>3, <2>5, <3>2, FreshIsCurrent DEF Current, rosterVars, registered
    <3>4. pub'.pc = "idle"
      BY <2>1, <2>3
    <3> QED
      BY <2>1, <2>2, <3>1, <3>2, <3>3, <3>4 DEF CurrentOrDue, Holding
  <2> QED
    BY <2>2, <2>5, <2>6, <2>7, <2>8
<1> QED
  BY <1>1, <1>2, <1>3, <1>4, <1>5, <1>6, <1>7 DEF EditStep

-----------------------------------------------------------------------------
(* What the worker's steps leave alone.                                    *)
LEMMA BotLeaves ==
    ASSUME ChatInv, UNCHANGED <<rosterVars, messageId, lastMessage, abandoned, editVars, pub>>
    PROVE  /\ EditTypeOK' /\ EditLock'
           /\ (\A e \in Editors : edit[e].pc \in Holding => messageId # None /\ edit[e].msg = messageId)'
           /\ Editing' <=> Editing
           /\ \A e \in Editors : Fresh(edit[e])' <=> Fresh(edit[e])
           /\ Fresh(pub)' <=> Fresh(pub)
           /\ Current' = Current
           /\ board' = board => ChatTypeOK' /\ PublisherIsFirst' /\ LiveMessages'
<1> USE DEF ChatInv, editVars
<1>1. EditTypeOK' /\ EditLock'
  BY DEF EditTypeOK, EditLock
<1>2. (\A e \in Editors : edit[e].pc \in Holding => messageId # None /\ edit[e].msg = messageId)'
  BY DEF ViewsAreOfTheMessage
<1>3. /\ Editing' <=> Editing
      /\ \A e \in Editors : Fresh(edit[e])' <=> Fresh(edit[e])
      /\ Fresh(pub)' <=> Fresh(pub)
      /\ Current' = Current
  BY DEF Editing, Fresh, rosterVars, registered, Current
<1>4. board' = board => ChatTypeOK' /\ PublisherIsFirst' /\ LiveMessages'
  BY DEF ChatTypeOK, PublisherIsFirst, LiveMessages
<1> QED
  BY <1>1, <1>2, <1>3, <1>4

(* A step of the worker that leaves the message alone keeps the invariant  *)
(* if what it leaves due, or holds, is what CurrentOrDue asks for.         *)
LEMMA WorkerMoves ==
    ASSUME ChatInv, UNCHANGED <<rosterVars, chatVars, editVars, pub>>,
           WorkerTypeOK', CountsTypeOK', WorkerRuns',
           worker'.pc \in Holding => messageId # None /\ worker'.msg = messageId,
           \/ excused' = TRUE
           \/ excused' = excused /\ Due' /\ worker'.pc \notin Holding
           \/ /\ excused' = excused /\ (Due => Due')
              /\ worker.pc \in Holding /\ worker'.pc \in Holding
              /\ Fresh(worker) => Fresh(worker)'
           \/ /\ excused' = excused /\ (Due => Due')
              /\ worker.pc \notin Holding /\ worker'.pc \notin Holding
           \/ /\ ~Editing /\ pub.pc = "idle" /\ worker'.pc \in Holding /\ Fresh(worker)'
           \/ messageId = None /\ pub.pc = "idle" /\ worker'.pc \notin Holding
    PROVE  ChatInv'
<1> USE DEF ChatInv, chatVars
<1>1. /\ EditTypeOK' /\ EditLock' /\ ChatTypeOK' /\ PublisherIsFirst' /\ LiveMessages'
      /\ (\A e \in Editors : edit[e].pc \in Holding => messageId # None /\ edit[e].msg = messageId)'
      /\ Editing' <=> Editing
      /\ \A e \in Editors : Fresh(edit[e])' <=> Fresh(edit[e])
      /\ Fresh(pub)' <=> Fresh(pub)
      /\ Current' = Current
  BY BotLeaves
<1>2. ViewsAreOfTheMessage'
  BY <1>1 DEF ViewsAreOfTheMessage
<1>3. messageId' = messageId /\ board' = board /\ pub' = pub /\ edit' = edit
  BY DEF editVars
<1>4. CurrentOrDue'
  <2>1. CASE excused' = TRUE
    BY <2>1 DEF CurrentOrDue
  <2>2. CASE excused' = excused /\ Due' /\ worker'.pc \notin Holding
    BY <2>2 DEF CurrentOrDue
  <2>3. CASE /\ excused' = excused /\ (Due => Due')
             /\ worker.pc \in Holding /\ worker'.pc \in Holding
             /\ Fresh(worker) => Fresh(worker)'
    BY <1>1, <1>3, <2>3 DEF CurrentOrDue
  <2>4. CASE /\ excused' = excused /\ (Due => Due')
             /\ worker.pc \notin Holding /\ worker'.pc \notin Holding
    BY <1>1, <1>3, <2>4 DEF CurrentOrDue
  <2>5. CASE ~Editing /\ pub.pc = "idle" /\ worker'.pc \in Holding /\ Fresh(worker)'
    BY <1>1, <1>3, <2>5 DEF CurrentOrDue, Editing, Holding
  <2>6. CASE messageId = None /\ pub.pc = "idle" /\ worker'.pc \notin Holding
    BY <1>1, <1>3, <2>6 DEF CurrentOrDue, Holding
  <2> QED
    BY <2>1, <2>2, <2>3, <2>4, <2>5, <2>6
<1> QED
  BY <1>1, <1>2, <1>4

(* The worker's frame.                                                     *)
WorkerFrame == [running : BOOLEAN, pending : BOOLEAN, attempt : {0, 1},
                pc : Holding \cup {"idle", "game", "ran"},
                msg : 0..MaxMessages, view : View]

(* doEditGameMessage and the loop around it: one step per action.          *)
LEMMA BotKeeps ==
    ASSUME RosterTypeOK, ChatInv, BotStep
    PROVE  ChatInv'
<1> USE DEF ChatInv
<1>v. /\ NoView \in View /\ 0 \in 0..MaxMessages
      /\ registered \in SUBSET Players /\ guests \in SUBSET Guest /\ courts \in 0..MaxCourts
  BY Showable, BoundsAssumption DEF BoundsAssumption
<1>w. worker \in WorkerFrame /\ replies \in Nat
  BY DEF WorkerTypeOK, WorkerFrame
<1>1. ASSUME Schedule PROVE ChatInv'
  <2>1. /\ replies > 0 /\ replies' = replies - 1
        /\ UNCHANGED <<rosterVars, chatVars, editVars, pub, excused, countVars>>
    BY <1>1 DEF Schedule
  <2>2. CASE worker.running
    <3>1. worker' = [worker EXCEPT !.pending = TRUE]
      BY <1>1, <2>2 DEF Schedule
    <3>2. worker' \in WorkerFrame /\ worker'.pending /\ worker'.running /\ worker'.pc = worker.pc
          /\ worker'.msg = worker.msg /\ worker'.view = worker.view
      BY <1>w, <2>2, <3>1 DEF WorkerFrame
    <3>3. WorkerTypeOK' /\ CountsTypeOK' /\ WorkerRuns' /\ Due'
      BY <1>w, <2>1, <3>2 DEF WorkerTypeOK, WorkerFrame, CountsTypeOK, countVars, WorkerRuns, Due
    <3>4. worker'.pc \in Holding => messageId # None /\ worker'.msg = messageId
      BY <3>2 DEF ViewsAreOfTheMessage
    <3>5. Fresh(worker)' <=> Fresh(worker)
      BY <2>1, <3>2 DEF Fresh, rosterVars, registered
    <3> QED
      BY <2>1, <3>2, <3>3, <3>4, <3>5, WorkerMoves
  <2>3. CASE ~worker.running
    <3>1. worker' = [worker EXCEPT !.running = TRUE, !.pc = "game", !.attempt = 0]
      BY <1>1, <2>3 DEF Schedule
    <3>2. worker' \in WorkerFrame /\ worker'.running /\ worker'.pc = "game"
      BY <1>w, <3>1 DEF WorkerFrame
    <3>3. WorkerTypeOK' /\ CountsTypeOK' /\ WorkerRuns' /\ Due' /\ worker'.pc \notin Holding
      BY <1>w, <2>1, <3>2 DEF WorkerTypeOK, WorkerFrame, CountsTypeOK, countVars, WorkerRuns, Due, Holding
    <3> QED
      BY <2>1, <3>3, WorkerMoves
  <2> QED
    BY <2>2, <2>3
<1>r. ASSUME RunEnds, replies' = replies, worker.pc # "idle"
      PROVE  WorkerTypeOK' /\ WorkerRuns' /\ worker'.pc = "ran" /\ worker'.pending = worker.pending
  <2>1. /\ worker' \in WorkerFrame /\ worker'.pc = "ran"
        /\ worker'.pending = worker.pending /\ worker'.running = worker.running
    BY <1>r, <1>w, <1>v DEF RunEnds, WorkerFrame, None
  <2> QED
    BY <1>r, <1>w, <2>1 DEF WorkerTypeOK, WorkerFrame, WorkerRuns
<1>2. ASSUME BotFails PROVE ChatInv'
  <2>1. /\ worker.pc # "idle" /\ RunEnds /\ faults' = faults + 1 /\ excused' = TRUE
        /\ UNCHANGED <<rosterVars, chatVars, editVars, replies, pub, changes>>
    BY <1>2 DEF BotFails, Fails, Holding
  <2>2. CountsTypeOK'
    BY <2>1 DEF CountsTypeOK
  <2> QED
    BY <2>1, <2>2, <1>r, WorkerMoves DEF Holding
<1>3. ASSUME BotNothing PROVE ChatInv'
  <2>1. /\ worker.pc = "game" /\ RunEnds /\ messageId = None
        /\ excused' = (excused \/ pub.pc # "idle")
        /\ UNCHANGED <<rosterVars, chatVars, editVars, replies, pub, countVars>>
    BY <1>3 DEF BotNothing
  <2>2. CountsTypeOK'
    BY <2>1 DEF CountsTypeOK, countVars
  <2>3. excused' = TRUE \/ pub.pc = "idle"
    BY <2>1
  <2> QED
    BY <2>1, <2>2, <2>3, <1>r, WorkerMoves DEF Holding
<1>4. ASSUME BotGame PROVE ChatInv'
  <2>1. /\ worker.pc = "game" /\ messageId # None
        /\ worker' = [worker EXCEPT !.pc = "parts", !.msg = messageId, !.view.courts = courts]
        /\ excused' = Editing
        /\ UNCHANGED <<rosterVars, chatVars, editVars, replies, pub, countVars>>
    BY <1>4 DEF BotGame
  <2>2. /\ worker' \in WorkerFrame /\ worker'.pc = "parts" /\ worker'.msg = messageId
        /\ worker'.view.courts = courts /\ worker'.running = worker.running
        /\ worker'.pending = worker.pending
    BY <2>1, <1>w, <1>v DEF WorkerFrame, View, Holding, ChatTypeOK
  <2>3. WorkerTypeOK' /\ CountsTypeOK' /\ WorkerRuns'
    <3>1. WorkerTypeOK'
      <4>1. worker' \in WorkerFrame /\ replies' = replies /\ replies \in Nat
        BY <1>w, <2>1, <2>2
      <4> QED
        BY <4>1 DEF WorkerTypeOK, WorkerFrame
    <3>2. CountsTypeOK'
      BY <2>1 DEF CountsTypeOK, countVars, Editing
    <3>3. WorkerRuns'
      BY <2>1, <2>2 DEF WorkerRuns
    <3> QED
      BY <3>1, <3>2, <3>3
  <2>4. Fresh(worker)' /\ worker'.pc \in Holding /\ pub.pc = "idle"
    BY <2>1, <2>2 DEF Fresh, Holding, rosterVars, PublisherIsFirst
  <2>5. excused' = TRUE \/ ~Editing
    BY <2>1
  <2> QED
    BY <2>1, <2>2, <2>3, <2>4, <2>5, WorkerMoves
<1>5. ASSUME BotParts PROVE ChatInv'
  <2>1. /\ worker.pc = "parts"
        /\ worker' = [worker EXCEPT !.pc = "guests", !.view.registered = registered]
        /\ UNCHANGED <<rosterVars, chatVars, editVars, replies, pub, excused, countVars>>
    BY <1>5 DEF BotParts
  <2>2. /\ worker' \in WorkerFrame /\ worker'.pc = "guests" /\ worker'.msg = worker.msg
        /\ worker'.view.courts = worker.view.courts /\ worker'.view.registered = registered
        /\ worker'.running = worker.running /\ worker'.pending = worker.pending
    BY <2>1, <1>w, <1>v DEF WorkerFrame, View, Holding
  <2>3. WorkerTypeOK' /\ CountsTypeOK' /\ WorkerRuns' /\ (Due => Due')
    BY <1>w, <2>1, <2>2 DEF WorkerTypeOK, WorkerFrame, CountsTypeOK, countVars, WorkerRuns, Due, editVars
  <2>4. Fresh(worker) => Fresh(worker)'
    BY <2>1, <2>2 DEF Fresh, rosterVars, registered
  <2>5. messageId # None /\ worker'.msg = messageId /\ worker.pc \in Holding /\ worker'.pc \in Holding
    BY <2>1, <2>2 DEF ViewsAreOfTheMessage, Holding
  <2> QED
    BY <2>1, <2>3, <2>4, <2>5, WorkerMoves
<1>6. ASSUME BotGuests PROVE ChatInv'
  <2>1. /\ worker.pc = "guests"
        /\ worker' = [worker EXCEPT !.pc = "send", !.view.guests = guests]
        /\ UNCHANGED <<rosterVars, chatVars, editVars, replies, pub, excused, countVars>>
    BY <1>6 DEF BotGuests
  <2>2. /\ worker' \in WorkerFrame /\ worker'.pc = "send" /\ worker'.msg = worker.msg
        /\ worker'.view.courts = worker.view.courts /\ worker'.view.guests = guests
        /\ worker'.view.registered = worker.view.registered
        /\ worker'.running = worker.running /\ worker'.pending = worker.pending
    BY <2>1, <1>w, <1>v DEF WorkerFrame, View, Holding
  <2>3. WorkerTypeOK' /\ CountsTypeOK' /\ WorkerRuns' /\ (Due => Due')
    BY <1>w, <2>1, <2>2 DEF WorkerTypeOK, WorkerFrame, CountsTypeOK, countVars, WorkerRuns, Due, editVars
  <2>4. Fresh(worker) => Fresh(worker)'
    BY <2>1, <2>2 DEF Fresh, rosterVars, registered
  <2>5. messageId # None /\ worker'.msg = messageId /\ worker.pc \in Holding /\ worker'.pc \in Holding
    BY <2>1, <2>2 DEF ViewsAreOfTheMessage, Holding
  <2> QED
    BY <2>1, <2>3, <2>4, <2>5, WorkerMoves
<1>7. ASSUME BotSend PROVE ChatInv'
  <2>1. /\ worker.pc = "send" /\ RunEnds
        /\ board' = [board EXCEPT ![worker.msg] = worker.view]
        /\ UNCHANGED <<rosterVars, messageId, lastMessage, abandoned, editVars, replies, pub,
                       excused, countVars>>
    BY <1>7 DEF BotSend
  <2>2. /\ messageId # None /\ worker.msg = messageId /\ messageId \in MessageIds
        /\ worker.view \in View /\ pub.pc = "idle"
    BY <2>1, <1>w DEF ViewsAreOfTheMessage, Holding, PublisherIsFirst, ChatTypeOK, WorkerFrame,
                      MessageIds, None
  <2>3. board' = [board EXCEPT ![messageId] = worker.view]
    BY <2>1, <2>2
  <2>4. ChatTypeOK' /\ LiveMessages' /\ board'[messageId] = worker.view
    BY <2>1, <2>2, <2>3 DEF ChatTypeOK, LiveMessages
  <2>5. /\ EditTypeOK' /\ EditLock'
        /\ (\A e \in Editors : edit[e].pc \in Holding => messageId # None /\ edit[e].msg = messageId)'
        /\ (Editing' <=> Editing) /\ Current' = Current
    BY <2>1, BotLeaves
  <2>6. WorkerTypeOK' /\ WorkerRuns' /\ worker'.pc = "ran" /\ worker'.pending = worker.pending
    BY <2>1, <1>r
  <2>7. CountsTypeOK' /\ PublisherIsFirst'
    BY <2>1, <2>2 DEF countVars, CountsTypeOK, PublisherIsFirst, Holding
  <2>8. ViewsAreOfTheMessage'
    BY <2>5, <2>6 DEF ViewsAreOfTheMessage, Holding
  <2>9. CurrentOrDue'
    <3>1. Due' <=> Due
      BY <2>1, <2>6 DEF Due, editVars
    <3> SUFFICES ASSUME ~excused', ~Due' PROVE CurrentOrDue'
      BY <2>6 DEF CurrentOrDue, Holding
    <3>2. ~Editing' /\ Fresh(worker)
      BY <2>1, <2>2, <2>5, <3>1 DEF CurrentOrDue, Holding
    <3>3. board'[messageId] = Current'
      BY <2>1, <2>2, <2>4, <2>5, <3>2, FreshIsCurrent
    <3>4. pub'.pc = "idle"
      BY <2>1, <2>2
    <3> QED
      BY <2>1, <2>6, <3>1, <3>2, <3>3, <3>4 DEF CurrentOrDue, Editing, Holding
  <2> QED
    BY <2>4, <2>5, <2>6, <2>7, <2>8, <2>9
<1>8. ASSUME BotRetries PROVE ChatInv'
  <2>1. /\ worker.pc = "send" /\ faults' = faults + 1
        /\ worker' = [worker EXCEPT !.pc = "game", !.attempt = 1, !.msg = None, !.view = NoView]
        /\ UNCHANGED <<rosterVars, chatVars, editVars, replies, pub, excused, changes>>
    BY <1>8 DEF BotRetries, Fails
  <2>2. /\ worker' \in WorkerFrame /\ worker'.pc = "game" /\ worker'.running = worker.running
        /\ worker'.pending = worker.pending
    BY <2>1, <1>w, <1>v DEF WorkerFrame, None
  <2>3. WorkerTypeOK' /\ CountsTypeOK' /\ WorkerRuns' /\ Due' /\ worker'.pc \notin Holding
    BY <1>w, <2>1, <2>2 DEF WorkerTypeOK, WorkerFrame, CountsTypeOK, WorkerRuns, Due, Holding
  <2> QED
    BY <2>1, <2>3, WorkerMoves
<1>9. ASSUME BotLoops PROVE ChatInv'
  <2>1. /\ worker.pc = "ran"
        /\ UNCHANGED <<rosterVars, chatVars, editVars, replies, pub, excused, countVars>>
    BY <1>9 DEF BotLoops
  <2>2. CASE worker.pending
    <3>1. worker' = [worker EXCEPT !.pending = FALSE, !.pc = "game", !.attempt = 0]
      BY <1>9, <2>2 DEF BotLoops
    <3>2. worker' \in WorkerFrame /\ worker'.pc = "game" /\ worker'.running = worker.running
      BY <1>w, <3>1 DEF WorkerFrame
    <3>3. WorkerTypeOK' /\ CountsTypeOK' /\ WorkerRuns' /\ Due' /\ worker'.pc \notin Holding
      BY <1>w, <2>1, <3>2 DEF WorkerTypeOK, WorkerFrame, CountsTypeOK, countVars, WorkerRuns, Due, Holding
    <3> QED
      BY <2>1, <3>3, WorkerMoves
  <2>3. CASE ~worker.pending
    <3>1. worker' = IdleWorker
      BY <1>9, <2>3 DEF BotLoops
    <3>2. worker' \in WorkerFrame /\ worker'.pc = "idle" /\ ~worker'.pending
      BY <1>v, <3>1 DEF WorkerFrame, IdleWorker, None
    <3>3. WorkerTypeOK' /\ CountsTypeOK' /\ WorkerRuns' /\ (Due => Due')
      BY <1>w, <2>1, <2>3, <3>2 DEF WorkerTypeOK, WorkerFrame, CountsTypeOK, countVars, WorkerRuns, Due, editVars
    <3>4. worker.pc \notin Holding /\ worker'.pc \notin Holding
      BY <2>1, <3>2 DEF Holding
    <3> QED
      BY <2>1, <3>3, <3>4, WorkerMoves
  <2> QED
    BY <2>2, <2>3
<1> QED
  BY <1>1, <1>2, <1>3, <1>4, <1>5, <1>6, <1>7, <1>8, <1>9 DEF BotStep

-----------------------------------------------------------------------------
(* The publisher's frame.                                                  *)
PubFrame == [pc : {"idle", "parts", "guests", "send", "store", "delete"},
             kind : {"publish", "create"}, msg : 0..MaxMessages, view : View]

(* What the publisher's steps leave alone while the game has no message:   *)
(* nobody holds a view.                                                    *)
LEMMA PubLeaves ==
    ASSUME ChatInv, messageId = None,
           UNCHANGED <<rosterVars, editVars, botVars>>
    PROVE  /\ EditTypeOK' /\ EditLock' /\ WorkerTypeOK' /\ WorkerRuns' /\ ViewsAreOfTheMessage'
           /\ ~Editing' /\ worker'.pc \notin Holding /\ (Due' <=> Due) /\ Current' = Current
<1> USE DEF ChatInv, editVars, botVars
<1>1. EditTypeOK' /\ EditLock' /\ WorkerTypeOK' /\ WorkerRuns'
  BY DEF EditTypeOK, EditLock, WorkerTypeOK, WorkerRuns
<1>2. ~Editing' /\ worker'.pc \notin Holding
  BY DEF ViewsAreOfTheMessage, Editing
<1>3. ViewsAreOfTheMessage'
  BY <1>2 DEF ViewsAreOfTheMessage, Editing
<1>4. (Due' <=> Due) /\ Current' = Current
  BY DEF Due, rosterVars, Current, registered
<1> QED
  BY <1>1, <1>2, <1>3, <1>4

(* A step of the publisher before the message is stored.                   *)
LEMMA PublisherMoves ==
    ASSUME ChatInv, messageId = None, messageId' = None,
           UNCHANGED <<rosterVars, editVars, botVars>>,
           ChatTypeOK', CountsTypeOK', PublisherIsFirst', LiveMessages',
           \/ excused' = TRUE \/ pub'.pc \notin Holding \cup {"store"} \/ Fresh(pub)'
           \/ /\ excused' = excused /\ pub.pc \in Holding \cup {"store"}
              /\ Fresh(pub) => Fresh(pub)'
    PROVE  ChatInv'
<1>1. /\ EditTypeOK' /\ EditLock' /\ WorkerTypeOK' /\ WorkerRuns' /\ ViewsAreOfTheMessage'
      /\ ~Editing' /\ worker'.pc \notin Holding /\ (Due' <=> Due)
  BY PubLeaves
<1>2. CurrentOrDue'
  BY <1>1 DEF CurrentOrDue, ChatInv
<1> QED
  BY <1>1, <1>2 DEF ChatInv

(* PublishGame and the announcement of a new game: one step per action.    *)
LEMMA PubKeeps ==
    ASSUME RosterTypeOK, ChatInv, Publish \/ PubStep
    PROVE  ChatInv'
<1> USE DEF ChatInv
<1>v. /\ NoView \in View /\ 0 \in 0..MaxMessages /\ IdlePub \in PubFrame /\ IdlePub.pc = "idle"
      /\ registered \in SUBSET Players /\ guests \in SUBSET Guest
      /\ [NoView EXCEPT !.courts = courts] \in View
      /\ [NoView EXCEPT !.courts = courts].courts = courts
  BY Showable, BoundsAssumption DEF BoundsAssumption, IdlePub, PubFrame, None
<1>p. /\ pub \in PubFrame /\ messageId \in 0..MaxMessages /\ lastMessage \in 0..MaxMessages
      /\ board \in [MessageIds -> View \cup {NoText}] /\ abandoned \subseteq MessageIds
      /\ MaxMessages \in Nat
  BY BoundsAssumption DEF ChatTypeOK, PubFrame, BoundsAssumption
<1>m. pub.pc # "idle" => messageId = None
  BY DEF PublisherIsFirst
<1>c. ASSUME UNCHANGED chatVars, pub' \in PubFrame
      PROVE  ChatTypeOK'
  <2>1. /\ messageId' = messageId /\ board' = board /\ lastMessage' = lastMessage
        /\ abandoned' = abandoned
    BY <1>c DEF chatVars
  <2> QED
    BY <1>c, <1>p, <2>1 DEF ChatTypeOK, PubFrame
<1>1. ASSUME Publish PROVE ChatInv'
  <2>1. /\ pub.pc = "idle" /\ messageId = None /\ lastMessage < MaxMessages
        /\ pub' = [pc |-> "parts", kind |-> "publish", msg |-> None,
                   view |-> [NoView EXCEPT !.courts = courts]]
        /\ excused' = FALSE
        /\ UNCHANGED <<rosterVars, chatVars, editVars, botVars, countVars>>
    BY <1>1 DEF Publish
  <2>2. pub' \in PubFrame /\ pub'.pc = "parts" /\ pub'.view.courts = courts
    BY <1>v, <2>1 DEF PubFrame, None
  <2>3. ChatTypeOK'
    BY <1>c, <2>1, <2>2
  <2>4. CountsTypeOK' /\ PublisherIsFirst' /\ LiveMessages'
    BY <2>1, <2>2 DEF CountsTypeOK, countVars, PublisherIsFirst, LiveMessages, chatVars
  <2>5. Fresh(pub)'
    BY <2>1, <2>2 DEF Fresh, rosterVars
  <2>6. /\ messageId = None /\ messageId' = None
        /\ UNCHANGED <<rosterVars, editVars, botVars>>
    BY <2>1 DEF chatVars
  <2> QED
    BY <2>3, <2>4, <2>5, <2>6, PublisherMoves
<1>2. ASSUME PubParts PROVE ChatInv'
  <2>1. /\ pub.pc = "parts"
        /\ UNCHANGED <<rosterVars, chatVars, editVars, botVars, changes>>
        /\ \/ /\ faults' = faults /\ excused' = excused
              /\ pub' = [pub EXCEPT !.pc = "guests", !.view.registered = registered]
           \/ /\ faults' = faults + 1 /\ excused' = TRUE
              /\ pub' = [pub EXCEPT !.pc = "guests"]
    BY <1>2 DEF PubParts, Works, Fails
  <2>2. pub' \in PubFrame /\ pub'.pc = "guests" /\ pub'.view.courts = pub.view.courts
    <3>1. CASE pub' = [pub EXCEPT !.pc = "guests"]
      BY <1>p, <3>1 DEF PubFrame
    <3>2. CASE pub' = [pub EXCEPT !.pc = "guests", !.view.registered = registered]
      BY <1>v, <1>p, <3>2 DEF PubFrame, View
    <3> QED
      BY <2>1, <3>1, <3>2
  <2>3. ChatTypeOK'
    BY <1>c, <2>1, <2>2
  <2>4. CountsTypeOK'
    <3>1. excused' = TRUE \/ excused' = excused
      BY <2>1
    <3>2. changes' \in Nat /\ faults' \in Nat
      BY <2>1 DEF CountsTypeOK
    <3>3. excused' \in BOOLEAN
      BY <3>1, Zenon DEF CountsTypeOK
    <3> QED
      BY <3>2, <3>3 DEF CountsTypeOK
  <2>5. PublisherIsFirst' /\ LiveMessages'
    BY <2>1, <2>2 DEF PublisherIsFirst, LiveMessages, chatVars, Holding
  <2>6. /\ messageId = None /\ messageId' = None /\ pub.pc \in Holding
        /\ UNCHANGED <<rosterVars, editVars, botVars>>
    BY <1>m, <2>1 DEF chatVars, Holding
  <2>7. CASE excused' = TRUE
    BY <2>3, <2>4, <2>5, <2>6, <2>7, PublisherMoves
  <2>8. CASE excused' = excused /\ pub' = [pub EXCEPT !.pc = "guests", !.view.registered = registered]
    <3>1. pub'.view.registered = registered
      BY <1>p, <2>8 DEF PubFrame, View
    <3>2. Fresh(pub) => Fresh(pub)'
      BY <2>1, <2>2, <3>1 DEF Fresh, rosterVars, registered
    <3> QED
      BY <2>3, <2>4, <2>5, <2>6, <2>8, <3>2, PublisherMoves
  <2> QED
    BY <2>1, <2>7, <2>8
<1>3. ASSUME PubGuests PROVE ChatInv'
  <2>1. /\ pub.pc = "guests"
        /\ UNCHANGED <<rosterVars, chatVars, editVars, botVars, changes>>
        /\ \/ /\ faults' = faults /\ excused' = excused
              /\ pub' = [pub EXCEPT !.pc = "send", !.view.guests = guests]
           \/ /\ faults' = faults + 1 /\ excused' = TRUE
              /\ pub' = [pub EXCEPT !.pc = "send"]
    BY <1>3 DEF PubGuests, Works, Fails
  <2>2. pub' \in PubFrame /\ pub'.pc = "send" /\ pub'.view.courts = pub.view.courts
    <3>1. CASE pub' = [pub EXCEPT !.pc = "send"]
      BY <1>p, <3>1 DEF PubFrame
    <3>2. CASE pub' = [pub EXCEPT !.pc = "send", !.view.guests = guests]
      BY <1>v, <1>p, <3>2 DEF PubFrame, View
    <3> QED
      BY <2>1, <3>1, <3>2
  <2>3. ChatTypeOK'
    BY <1>c, <2>1, <2>2
  <2>4. CountsTypeOK'
    <3>1. excused' = TRUE \/ excused' = excused
      BY <2>1
    <3>2. changes' \in Nat /\ faults' \in Nat
      BY <2>1 DEF CountsTypeOK
    <3>3. excused' \in BOOLEAN
      BY <3>1, Zenon DEF CountsTypeOK
    <3> QED
      BY <3>2, <3>3 DEF CountsTypeOK
  <2>5. PublisherIsFirst' /\ LiveMessages'
    BY <2>1, <2>2 DEF PublisherIsFirst, LiveMessages, chatVars, Holding
  <2>6. /\ messageId = None /\ messageId' = None /\ pub.pc \in Holding
        /\ UNCHANGED <<rosterVars, editVars, botVars>>
    BY <1>m, <2>1 DEF chatVars, Holding
  <2>7. CASE excused' = TRUE
    BY <2>3, <2>4, <2>5, <2>6, <2>7, PublisherMoves
  <2>8. CASE excused' = excused /\ pub' = [pub EXCEPT !.pc = "send", !.view.guests = guests]
    <3>1. pub'.view.guests = guests
        /\ pub'.view.registered = pub.view.registered
      BY <1>p, <2>8 DEF PubFrame, View
    <3>2. Fresh(pub) => Fresh(pub)'
      BY <2>1, <2>2, <3>1 DEF Fresh, rosterVars, registered
    <3> QED
      BY <2>3, <2>4, <2>5, <2>6, <2>8, <3>2, PublisherMoves
  <2> QED
    BY <2>1, <2>7, <2>8
<1>k. ASSUME excused' = excused, changes' = changes, faults' \in {faults, faults + 1}
      PROVE  CountsTypeOK'
  BY <1>k DEF CountsTypeOK
<1>4. ASSUME PubSend PROVE ChatInv'
  <2> DEFINE m == lastMessage + 1
  <2>1. /\ pub.pc = "send" /\ messageId' = messageId /\ abandoned' = abandoned
        /\ excused' = excused /\ changes' = changes
        /\ UNCHANGED <<rosterVars, editVars, botVars>>
    BY <1>4 DEF PubSend
  <2>2. faults' \in {faults, faults + 1}
    BY <1>4 DEF PubSend, Works, Fails
  <2>3. CountsTypeOK' /\ messageId = None /\ lastMessage < MaxMessages /\ m \in MessageIds
    BY <1>k, <1>m, <1>p, <2>1, <2>2 DEF PublisherIsFirst, Holding, MessageIds
  <2>4. CASE /\ lastMessage' = m /\ board' = [board EXCEPT ![m] = pub.view]
             /\ pub' = [pub EXCEPT !.pc = "store", !.msg = m]
    <3>1. /\ pub' \in PubFrame /\ pub'.pc = "store" /\ pub'.msg = m /\ pub'.view = pub.view
      <4>1. m \in 0..MaxMessages
        BY <1>p, <2>3 DEF MessageIds
      <4>2. pub' = [pub EXCEPT !.pc = "store", !.msg = m]
        BY <2>4
      <4> HIDE DEF m
      <4> QED
        BY <1>p, <4>1, <4>2 DEF PubFrame
    <3>2. /\ board' \in [MessageIds -> View \cup {NoText}] /\ board'[m] = pub.view
          /\ \A n \in MessageIds : n # m => board'[n] = board[n]
      BY <1>p, <2>3, <2>4 DEF PubFrame
    <3>3. ChatTypeOK'
      <4>1. lastMessage' \in 0..MaxMessages
        BY <2>3, <2>4 DEF MessageIds
      <4>2. messageId' \in 0..MaxMessages /\ abandoned' \subseteq MessageIds
        BY <1>p, <2>1
      <4> QED
        BY <3>1, <3>2, <4>1, <4>2 DEF ChatTypeOK, PubFrame
    <3>4. PublisherIsFirst'
      BY <2>1, <2>3, <3>1, <3>2 DEF PublisherIsFirst, Holding
    <3>5. LiveMessages'
      BY <2>1, <3>1, <3>2 DEF LiveMessages
    <3>6. Fresh(pub) => Fresh(pub)'
      BY <2>1, <3>1 DEF Fresh, rosterVars, registered
    <3>7. messageId' = None /\ pub.pc \in Holding
      BY <2>1, <2>3 DEF Holding
    <3> QED
      BY <2>1, <2>3, <3>3, <3>4, <3>5, <3>6, <3>7, PublisherMoves
  <2>5. CASE pub' = IdlePub /\ UNCHANGED <<lastMessage, board>>
    <3>1. ChatTypeOK'
      BY <1>v, <1>c, <2>1, <2>5 DEF chatVars
    <3>2. PublisherIsFirst' /\ LiveMessages'
      BY <2>1, <2>5, <1>v DEF PublisherIsFirst, LiveMessages, Holding
    <3>3. messageId' = None /\ pub'.pc \notin Holding \cup {"store"}
      BY <1>v, <2>1, <2>3, <2>5 DEF Holding
    <3> QED
      BY <2>1, <2>3, <3>1, <3>2, <3>3, PublisherMoves
  <2> QED
    BY <1>4, <2>4, <2>5 DEF PubSend
<1>5. ASSUME PubStore PROVE ChatInv'
  <2>1. /\ pub.pc = "store" /\ board' = board /\ lastMessage' = lastMessage
        /\ excused' = excused /\ changes' = changes
        /\ UNCHANGED <<rosterVars, editVars, botVars>>
    BY <1>5 DEF PubStore
  <2>2. faults' \in {faults, faults + 1}
    BY <1>5 DEF PubStore, Works, Fails
  <2>3. /\ CountsTypeOK' /\ messageId = None /\ pub.msg \in MessageIds
        /\ board[pub.msg] = pub.view /\ pub.view \in View
    BY <1>k, <1>m, <1>p, <2>1, <2>2 DEF PublisherIsFirst, PubFrame
  <2>4. CASE messageId' = pub.msg /\ pub' = IdlePub /\ abandoned' = abandoned
    <3>1. /\ EditTypeOK' /\ EditLock' /\ WorkerTypeOK' /\ WorkerRuns' /\ ViewsAreOfTheMessage'
          /\ ~Editing' /\ worker'.pc \notin Holding /\ (Due' <=> Due) /\ Current' = Current
      <4>1. /\ EditTypeOK' /\ EditLock' /\ WorkerTypeOK' /\ WorkerRuns'
            /\ ~Editing' /\ worker'.pc \notin Holding /\ (Due' <=> Due) /\ Current' = Current
        BY <2>1, <2>3, PubLeaves
      <4>2. ViewsAreOfTheMessage'
        BY <4>1 DEF ViewsAreOfTheMessage, Editing
      <4> QED
        BY <4>1, <4>2
    <3>2. ChatTypeOK'
      BY <1>v, <1>p, <2>1, <2>3, <2>4 DEF ChatTypeOK, PubFrame, MessageIds
    <3>3. PublisherIsFirst' /\ LiveMessages'
      <4>1. \A m \in MessageIds : m # messageId
        BY <1>p, <2>3 DEF MessageIds, None
      <4>2. LiveMessages'
        BY <2>1, <2>4, <4>1 DEF LiveMessages
      <4>3. PublisherIsFirst'
        BY <1>v, <2>4 DEF PublisherIsFirst, Holding
      <4> QED
        BY <4>2, <4>3
    <3>4. CurrentOrDue'
      <4> SUFFICES ASSUME ~excused', ~Due' PROVE CurrentOrDue'
        BY <1>v, <2>4, <3>1 DEF CurrentOrDue, Holding
      <4>1. Fresh(pub)
        BY <2>1, <3>1 DEF CurrentOrDue
      <4>2. pub.view = Current
        <5>1. pub.view \in View /\ pub.pc \in {"send", "store"}
          BY <2>1, <2>3
        <5> QED
          BY <5>1, <4>1, FreshIsCurrent
      <4>3. board'[messageId'] = Current'
        BY <2>1, <2>3, <2>4, <3>1, <4>2
      <4>4. pub'.pc \notin Holding \cup {"store"}
        BY <1>v, <2>4 DEF Holding
      <4> QED
        BY <3>1, <4>3, <4>4 DEF CurrentOrDue, Editing
    <3> QED
      BY <2>3, <3>1, <3>2, <3>3, <3>4
  <2>5. CASE pub' = [pub EXCEPT !.pc = "delete"] /\ messageId' = messageId /\ abandoned' = abandoned
    <3>1. pub' \in PubFrame /\ pub'.pc = "delete" /\ pub'.msg = pub.msg
      BY <1>p, <2>5 DEF PubFrame
    <3>2. ChatTypeOK'
      BY <1>c, <2>1, <2>5, <3>1 DEF chatVars
    <3>3. PublisherIsFirst' /\ LiveMessages'
      BY <2>1, <2>3, <2>5, <3>1 DEF PublisherIsFirst, LiveMessages, Holding
    <3>4. messageId' = None /\ pub'.pc \notin Holding \cup {"store"}
      BY <2>3, <2>5, <3>1 DEF Holding
    <3> QED
      BY <2>1, <2>3, <3>2, <3>3, <3>4, PublisherMoves
  <2>6. CASE pub' = IdlePub /\ messageId' = messageId /\ abandoned' = abandoned \cup {pub.msg}
    <3>1. ChatTypeOK'
      BY <1>v, <1>p, <2>1, <2>3, <2>6 DEF ChatTypeOK, PubFrame
    <3>2. PublisherIsFirst' /\ LiveMessages'
      BY <1>v, <2>1, <2>3, <2>6 DEF PublisherIsFirst, LiveMessages, Holding
    <3>3. messageId' = None /\ pub'.pc \notin Holding \cup {"store"}
      BY <1>v, <2>3, <2>6 DEF Holding
    <3> QED
      BY <2>1, <2>3, <3>1, <3>2, <3>3, PublisherMoves
  <2> QED
    BY <1>5, <2>4, <2>5, <2>6 DEF PubStore
<1>6. ASSUME PubDelete PROVE ChatInv'
  <2>1. /\ pub.pc = "delete" /\ pub' = IdlePub /\ messageId' = messageId
        /\ lastMessage' = lastMessage /\ excused' = excused /\ changes' = changes
        /\ UNCHANGED <<rosterVars, editVars, botVars>>
    BY <1>6 DEF PubDelete
  <2>2. faults' \in {faults, faults + 1}
    BY <1>6 DEF PubDelete, Works, Fails
  <2>3. CountsTypeOK' /\ messageId = None /\ pub.msg \in MessageIds
    BY <1>k, <1>m, <2>1, <2>2 DEF PublisherIsFirst
  <2>4. messageId' = None /\ pub'.pc \notin Holding \cup {"store"}
    BY <1>v, <2>1, <2>3 DEF Holding
  <2>5. PublisherIsFirst'
    BY <1>v, <2>1 DEF PublisherIsFirst, Holding
  <2>6. CASE board' = [board EXCEPT ![pub.msg] = NoText] /\ abandoned' = abandoned
    <3>1. ChatTypeOK'
      BY <1>v, <1>p, <2>1, <2>6 DEF ChatTypeOK, PubFrame
    <3>2. LiveMessages'
      BY <1>p, <2>1, <2>3, <2>6 DEF LiveMessages
    <3> QED
      BY <2>1, <2>3, <2>4, <2>5, <3>1, <3>2, PublisherMoves
  <2>7. CASE board' = board /\ abandoned' = abandoned \cup {pub.msg}
    <3>1. ChatTypeOK'
      BY <1>v, <1>p, <2>1, <2>3, <2>7 DEF ChatTypeOK, PubFrame
    <3>2. LiveMessages'
      BY <2>1, <2>3, <2>7 DEF LiveMessages
    <3> QED
      BY <2>1, <2>3, <2>4, <2>5, <3>1, <3>2, PublisherMoves
  <2> QED
    BY <1>6, <2>6, <2>7 DEF PubDelete
<1> QED
  BY <1>1, <1>2, <1>3, <1>4, <1>5, <1>6 DEF PubStep

-----------------------------------------------------------------------------
(* The specification.                                                      *)

(* Players, admins and the scheduler change the tables by the statements   *)
(* of RosterChange, and what follows is what ChangeKeeps asks.             *)
Change ==
    \/ \E p \in Players : Join(p) \/ Skip(p) \/ RemoveGuest(p) \/ KickPlayer(p)
    \/ \E t \in Taps : \/ \E p \in Players : AddGuest(t, p)
                       \/ AddGuestCommits(t) \/ AddGuestFails(t)
    \/ \E g \in guests : KickGuest(g)
    \/ EditCourts \/ ReleaseCourts

LEMMA ChangeIsOfTheRoster == RosterInv /\ Change => RosterChange
<1> SUFFICES ASSUME RosterInv, Change PROVE RosterChange
  OBVIOUS
<1>1. ASSUME NEW p \in Players, Join(p) \/ Skip(p) \/ RemoveGuest(p) \/ KickPlayer(p)
      PROVE  RosterChange
  BY <1>1 DEF Join, Skip, RemoveGuest, KickPlayer, RosterChange
<1>2. ASSUME NEW t \in Taps, \/ \E p \in Players : AddGuest(t, p)
                             \/ AddGuestCommits(t) \/ AddGuestFails(t)
      PROVE  RosterChange
  BY <1>2 DEF AddGuest, AddGuestCommits, AddGuestFails, RosterChange
<1>3. ASSUME NEW g \in guests, KickGuest(g) PROVE RosterChange
  BY <1>3 DEF KickGuest, RosterChange
<1>4. ASSUME EditCourts PROVE RosterChange
  <2>1. PICK n \in 1..MaxCourts : SetCourts(n)
    BY <1>4 DEF EditCourts
  <2>2. n \in 0..MaxCourts
    BY RosterAssumption DEF RosterAssumption
  <2> QED
    BY <2>1, <2>2 DEF RosterChange
<1>5. ASSUME ReleaseCourts PROVE RosterChange
  <2>1. PICK n \in 0..courts - 1 : SetCourts(n)
    BY <1>5 DEF ReleaseCourts
  <2>2. n \in 0..MaxCourts
    BY RosterAssumption DEF RosterAssumption, RosterInv, RosterTypeOK
  <2> QED
    BY <2>1, <2>2 DEF RosterChange
<1> QED
  BY <1>1, <1>2, <1>3, <1>4, <1>5 DEF Change

(* Where a change leads.                                                   *)
LEMMA ChangeIsFollowed ==
    ASSUME CountsTypeOK, Change
    PROVE  /\ UNCHANGED <<chatVars, lock, edit, worker, pub>>
           /\ \/ queued' = queued + 1 /\ UNCHANGED <<replies, excused>>
              \/ replies' = replies + 1 /\ UNCHANGED <<queued, excused>>
              \/ excused' = TRUE /\ UNCHANGED <<queued, replies>>
              \/ UNCHANGED <<courts, status, guests, queued, replies, excused>>
           /\ changes' \in Nat /\ faults' \in Nat
<1> DEFINE Goal == /\ UNCHANGED <<chatVars, lock, edit, worker, pub>>
                   /\ \/ queued' = queued + 1 /\ UNCHANGED <<replies, excused>>
                      \/ replies' = replies + 1 /\ UNCHANGED <<queued, excused>>
                      \/ excused' = TRUE /\ UNCHANGED <<queued, replies>>
                      \/ UNCHANGED <<courts, status, guests, queued, replies, excused>>
                   /\ changes' \in Nat /\ faults' \in Nat
<1> USE DEF CountsTypeOK, Changes, Works, Fails, editVars, botVars, countVars
<1>1. ASSUME Changes \/ UNCHANGED changes, ThenEdits PROVE Goal
  BY <1>1 DEF ThenEdits
<1>2. ASSUME Changes, ThenReplies PROVE Goal
  BY <1>2 DEF ThenReplies
<1>3. ASSUME NEW p \in Players, Join(p) \/ Skip(p) \/ RemoveGuest(p) PROVE Goal
  <2>1. Changes /\ ThenEdits
    BY <1>3 DEF Join, Skip, RemoveGuest
  <2> QED
    BY <1>1, <2>1
<1>4. ASSUME NEW t \in Taps, AddGuestCommits(t) PROVE Goal
  <2>1. UNCHANGED changes /\ ThenEdits
    BY <1>4 DEF AddGuestCommits
  <2> QED
    BY <1>1, <2>1
<1>5. ASSUME NEW t \in Taps, NEW p \in Players, AddGuest(t, p) PROVE Goal
  BY <1>5 DEF AddGuest, CountSeats
<1>6. ASSUME NEW t \in Taps, AddGuestFails(t) PROVE Goal
  BY <1>6 DEF AddGuestFails, Rollback
<1>7. ASSUME \/ \E p \in Players : KickPlayer(p)
             \/ \E g \in guests : KickGuest(g)
             \/ EditCourts
      PROVE  Goal
  <2>1. Changes /\ ThenReplies
    BY <1>7 DEF KickPlayer, KickGuest, EditCourts
  <2> QED
    BY <1>2, <2>1
<1>8. ASSUME ReleaseCourts PROVE Goal
  BY <1>8 DEF ReleaseCourts
<1> QED
  BY <1>3, <1>4, <1>5, <1>6, <1>7, <1>8 DEF Change

(* The first state of the message.                                         *)
LEMMA ChatInitially == Init => ChatInv
<1> SUFFICES ASSUME Init PROVE ChatInv
  OBVIOUS
<1>1. RosterTypeOK
  BY RosterInitially DEF Init, RosterInv
<1>2. /\ NoView \in View /\ [NoView EXCEPT !.courts = courts] \in View
      /\ [NoView EXCEPT !.courts = courts].courts = courts
      /\ 0 \in 0..MaxMessages /\ 0 < MaxMessages /\ 0 \notin MessageIds
  BY <1>1, Showable, BoundsAssumption DEF BoundsAssumption, MessageIds
<1>3. /\ messageId = 0 /\ board = [m \in MessageIds |-> NoText] /\ lastMessage = 0
      /\ abandoned = {} /\ queued = 0 /\ lock = Free
      /\ edit = [e \in Editors |-> IdleFrame] /\ replies = 0 /\ worker = IdleWorker
      /\ excused = FALSE /\ changes = 0 /\ faults = 0
  BY DEF Init, None
<1>4. /\ pub \in [pc : {"idle", "parts", "guests", "send", "store", "delete"},
                  kind : {"publish", "create"}, msg : 0..MaxMessages, view : View]
      /\ (pub.pc = "send" /\ pub.view = [NoView EXCEPT !.courts = courts]) \/ pub.pc = "idle"
  BY <1>2 DEF Init, IdlePub, None
<1>5. ChatTypeOK
  BY <1>2, <1>3, <1>4 DEF ChatTypeOK
<1>6. EditTypeOK /\ WorkerTypeOK /\ CountsTypeOK
  BY <1>2, <1>3 DEF EditTypeOK, WorkerTypeOK, CountsTypeOK, IdleFrame, IdleWorker, None
<1>7. /\ EditLock /\ ViewsAreOfTheMessage /\ LiveMessages /\ WorkerRuns
      /\ ~Editing /\ worker.pc \notin Holding
  BY <1>3 DEF EditLock, ViewsAreOfTheMessage, LiveMessages, WorkerRuns, Editing, Holding,
              IdleFrame, IdleWorker
<1>8. PublisherIsFirst
  BY <1>2, <1>3, <1>4 DEF PublisherIsFirst, Holding, None
<1>9. CurrentOrDue
  <2>1. registered = {} /\ guests = {}
    BY DEF Init, RosterInit, registered
  <2>2. pub.pc \in Holding \cup {"store"} => Fresh(pub)
    BY <1>2, <1>4, <2>1 DEF Fresh, NoView, Holding
  <2> QED
    BY <1>3, <1>7, <2>2 DEF CurrentOrDue, None
<1> QED
  BY <1>5, <1>6, <1>7, <1>8, <1>9 DEF ChatInv

(* Every step preserves the invariant.                                     *)
LEMMA AnnouncementStep == AnnouncementInv /\ [Next]_vars => AnnouncementInv'
<1>h. AnnouncementInv' <=> (RosterInv' /\ ChatInv')
  BY InvHalves, PTL
<1> SUFFICES ASSUME RosterInv, ChatInv, [Next]_vars PROVE RosterInv' /\ ChatInv'
  BY <1>h, InvHalves
<1>r. RosterTypeOK /\ CountsTypeOK
  BY DEF RosterInv, ChatInv
<1>u. ASSUME UNCHANGED rosterVars PROVE RosterInv'
  BY <1>u DEF rosterVars, RosterInv, RosterTypeOK, TapLock, CountedSeatKept
<1>1. ASSUME Change PROVE RosterInv' /\ ChatInv'
  <2>1. RosterInv'
    BY <1>1, ChangeIsOfTheRoster, RosterKept
  <2>2. ChatInv'
    BY <1>1, <1>r, ChangeIsFollowed, ChangeKeeps
  <2> QED
    BY <2>1, <2>2
<1>2. ASSUME NEW e \in Editors, EditStep(e) PROVE RosterInv' /\ ChatInv'
  <2>1. UNCHANGED rosterVars
    BY <1>2 DEF EditStep, Take, EditFails, EditNothing, EditGame, EditParts, EditGuests, EditSend
  <2> QED
    BY <1>2, <1>r, <1>u, <2>1, EditKeeps
<1>3. ASSUME BotStep PROVE RosterInv' /\ ChatInv'
  <2>1. UNCHANGED rosterVars
    BY <1>3 DEF BotStep, Schedule, BotFails, BotNothing, BotGame, BotParts, BotGuests,
                BotSend, BotRetries, BotLoops
  <2> QED
    BY <1>3, <1>r, <1>u, <2>1, BotKeeps
<1>4. ASSUME Publish \/ PubStep PROVE RosterInv' /\ ChatInv'
  <2>1. UNCHANGED rosterVars
    BY <1>4 DEF Publish, PubStep, PubParts, PubGuests, PubSend, PubStore, PubDelete
  <2> QED
    BY <1>4, <1>r, <1>u, <2>1, PubKeeps
<1>5. ASSUME UNCHANGED vars PROVE RosterInv' /\ ChatInv'
  <2>1. /\ UNCHANGED <<rosterVars, chatVars, lock, edit, worker, pub>>
        /\ UNCHANGED <<courts, status, guests, queued, replies, excused>>
        /\ changes' = changes /\ faults' = faults
    BY <1>5 DEF vars, rosterVars, editVars, botVars, countVars
  <2> QED
    BY <1>r, <1>u, <2>1, ChangeKeeps DEF CountsTypeOK
<1> QED
  BY <1>1, <1>2, <1>3, <1>4, <1>5 DEF Next, Change

(* The invariant holds in every reachable state.                           *)
THEOREM AnnouncementInvariant == Spec => []AnnouncementInv
<1>1. Init => AnnouncementInv
  BY InvHalves, ChatInitially, RosterInitially DEF Init
<1>2. AnnouncementInv /\ [Next]_vars => AnnouncementInv'
  BY AnnouncementStep
<1> QED
  BY <1>1, <1>2, PTL DEF Spec

(* The variables have their types.                                         *)
THEOREM AnnouncementTypeCorrect == Spec => []TypeOK
<1>1. AnnouncementInv => TypeOK
  BY DEF AnnouncementInv
<1> QED
  BY <1>1, AnnouncementInvariant, PTL

(* A seat counted for a guest is given to no other guest: the advisory     *)
(* lock of guest_repo.go:34 is enough.                                     *)
THEOREM SeatKept == Spec => []CountedSeatKept
<1>1. AnnouncementInv => CountedSeatKept
  BY DEF AnnouncementInv
<1> QED
  BY <1>1, AnnouncementInvariant, PTL

(* Whenever nothing is under way the announcement shows the game: the      *)
(* notifier's lock and the worker's pending flag (game_notifier.go:59,     *)
(* bot.go:199) are enough, but for what `excused` names.                   *)
THEOREM CurrentWhenSettled == Spec => []AnnouncementIsCurrent
<1>1. AnnouncementInv => AnnouncementIsCurrent
  <2> SUFFICES ASSUME AnnouncementInv, Settled, ~excused, messageId # None
               PROVE  board[messageId] = Current
    BY DEF AnnouncementIsCurrent, Shown
  <2>1. WorkerRuns /\ CurrentOrDue
    BY DEF AnnouncementInv
  <2>2. ~Due /\ ~Editing /\ worker.pc \notin Holding
    BY <2>1 DEF Settled, WorkerRuns, Due, Editing, Holding, AnnouncementInv, TypeOK
  <2> QED
    BY <2>1, <2>2 DEF CurrentOrDue
<1> QED
  BY <1>1, AnnouncementInvariant, PTL

(* A publisher that is done has left no live message but the stored one    *)
(* and those it had to abandon (game_service.go:261-271).                  *)
THEOREM NoMessageLost == Spec => []NoOrphan
<1>1. AnnouncementInv => NoOrphan
  BY DEF AnnouncementInv, LiveMessages, NoOrphan
<1> QED
  BY <1>1, AnnouncementInvariant, PTL
=============================================================================
