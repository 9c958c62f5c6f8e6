---------------------------- MODULE Announcement ----------------------------
(***************************************************************************)
(* One game's message in the group chat: who publishes it, and how it      *)
(* follows the players and courts of the game.                             *)
(*                                                                         *)
(* Players' own changes and the scheduler's releases are followed by       *)
(* GameNotifier.EditGameMessage in the management service, which holds a   *)
(* lock of the game from its first read to the send.  Admins' changes are  *)
(* followed by the bot, whose coalescing worker shares no lock with it.    *)
(* Both read the game, then its participations, then its guests, and then  *)
(* send what they read.                                                    *)
(***************************************************************************)
EXTENDS Roster

CONSTANTS
    Editors,      \* bound: goroutines inside EditGameMessage or at its lock
    MaxMessages,  \* bound: announcements sent
    MaxChanges,   \* bound: changes by players, admins and the scheduler
    MaxFaults     \* bound: failing calls and lost answers

ASSUME BoundsAssumption ==
    MaxMessages \in Nat \ {0} /\ MaxChanges \in Nat /\ MaxFaults \in Nat

ASSUME EditorsAssumption == "free" \notin Editors

VARIABLES
    messageId,   \* games.message_id, None when NULL
    board,       \* [message ids -> what the message shows], NoText when deleted
    lastMessage, \* the last message id the chat gave out
    abandoned,   \* live messages whose id is not stored and that nobody deletes
    queued,      \* EditGameMessage calls that have not come to the lock
    lock,        \* the editor that holds the game's edit lock, or Free
    edit,        \* [Editors -> the frame of EditGameMessage]
    replies,     \* bot handlers whose change succeeded, before schedule()
    worker,      \* the game's gameEditWorker and the frame of doEditGameMessage
    pub,         \* the frame of the publisher
    excused,     \* the message may be stale by what is not promised (below)
    changes,     \* changes made
    faults       \* calls that failed

chatVars == <<messageId, board, lastMessage, abandoned>>
editVars == <<queued, lock, edit>>
botVars == <<replies, worker>>
countVars == <<changes, faults>>
vars == <<rosterVars, chatVars, editVars, botVars, pub, excused, countVars>>

None == 0
Free == "free"
MessageIds == 1..MaxMessages
NoView == [courts |-> 0, registered |-> {}, guests |-> {}]
View == [courts : 0..MaxCourts, registered : SUBSET Players, guests : SUBSET Guest]
NoText == [text |-> "deleted"]

(* What FormatGameMessage shows of the tables as they are now.             *)
Current == [courts |-> courts, registered |-> registered, guests |-> guests]

IdleFrame == [pc |-> "idle", msg |-> None, view |-> NoView]
IdleWorker == [running |-> FALSE, pending |-> FALSE, attempt |-> 0,
               pc |-> "idle", msg |-> None, view |-> NoView]
IdlePub == [pc |-> "idle", kind |-> "publish", msg |-> None, view |-> NoView]

(* A frame that has read the game holds a view that may grow old.          *)
Holding == {"parts", "guests", "send"}
Editing == \E e \in Editors : edit[e].pc \in Holding

Works == UNCHANGED faults
Fails == faults < MaxFaults /\ faults' = faults + 1

Init ==
    /\ RosterInit
    /\ messageId = None
    /\ board = [m \in MessageIds |-> NoText]
    /\ lastMessage = None
    /\ abandoned = {}
    /\ queued = 0 /\ lock = Free
    /\ edit = [e \in Editors |-> IdleFrame]
    /\ replies = 0 /\ worker = IdleWorker
    /\ pub \in {IdlePub,
                \* createAndAnnounceGame, the game just created
                [pc |-> "send", kind |-> "create", msg |-> None,
                 view |-> [NoView EXCEPT !.courts = courts]]}
    /\ excused = FALSE
    /\ changes = 0 /\ faults = 0

-----------------------------------------------------------------------------
(* Changes.  After the statement that changes a table, the management      *)
(* service reads the lists for its answer and starts the edit; when the    *)
(* read fails it returns an error and starts none.                         *)
ThenEdits ==
    /\ \/ Works /\ queued' = queued + 1 /\ UNCHANGED excused
       \/ Fails /\ excused' = TRUE /\ UNCHANGED queued
    /\ UNCHANGED <<chatVars, lock, edit, botVars, pub>>

(* What an admin does is followed up by the bot when it has the answer.    *)
ThenReplies ==
    /\ \/ Works /\ replies' = replies + 1 /\ UNCHANGED excused
       \/ Fails /\ excused' = TRUE /\ UNCHANGED replies
    /\ UNCHANGED <<chatVars, editVars, worker, pub>>

Changes == changes < MaxChanges /\ changes' = changes + 1

(* ParticipationService.Join, of a player in any state.                    *)
Join(p) == Changes /\ SetStatus(p, "registered") /\ ThenEdits

(* Skip changes nothing unless the player is registered.                   *)
Skip(p) == Changes /\ p \in registered /\ SetStatus(p, "skipped") /\ ThenEdits

(* AddGuest, from the lock to the commit, in three actions.                *)
AddGuest(t, p) ==
    /\ Changes /\ CountSeats(t, p)
    /\ UNCHANGED <<chatVars, editVars, botVars, pub, excused, faults>>

AddGuestCommits(t) == InsertGuest(t) /\ ThenEdits /\ UNCHANGED changes

AddGuestFails(t) ==
    /\ Rollback(t) /\ Fails
    /\ UNCHANGED <<chatVars, editVars, botVars, pub, excused, changes>>

RemoveGuest(p) == Changes /\ DeleteLatestGuest(p) /\ ThenEdits

(* Mutant: one court more than the game has is taken off its count.        *)
ReleaseOneMore ==
    /\ Changes
    /\ \E n \in -1..courts - 1 : SetCourts(n)
    /\ queued' = queued + 1
    /\ UNCHANGED <<chatVars, lock, edit, botVars, pub, excused, faults>>

(* A job of the scheduler stores fewer courts and then edits the message   *)
(* itself; whether it or a goroutine waits for the lock is no difference.  *)
ReleaseCourts ==
    /\ Changes
    /\ \E n \in 0..courts - 1 : SetCourts(n)
    /\ queued' = queued + 1
    /\ UNCHANGED <<chatVars, lock, edit, botVars, pub, excused, faults>>

(* handleManageKickPlayer, handleManageKickGuest, handleManageCourtsConfirm *)
(* and processCourtsEdit.                                                  *)
KickPlayer(p) == Changes /\ status[p] # "none" /\ SetStatus(p, "none") /\ ThenReplies
KickGuest(g) == Changes /\ DeleteGuest(g) /\ ThenReplies
EditCourts == Changes /\ (\E n \in 1..MaxCourts : SetCourts(n)) /\ ThenReplies

-----------------------------------------------------------------------------
(* Mutant: an edit begins without the game's lock.                         *)
TakeWithoutLock(e) ==
    /\ queued > 0 /\ edit[e].pc = "idle"
    /\ queued' = queued - 1
    /\ lock' = e
    /\ edit' = [edit EXCEPT ![e].pc = "game"]
    /\ UNCHANGED <<rosterVars, chatVars, botVars, pub, excused, countVars>>

(* GameNotifier.EditGameMessage.                                           *)
Take(e) ==
    /\ queued > 0 /\ lock = Free /\ edit[e].pc = "idle"
    /\ queued' = queued - 1
    /\ lock' = e
    /\ edit' = [edit EXCEPT ![e].pc = "game"]
    /\ UNCHANGED <<rosterVars, chatVars, botVars, pub, excused, countVars>>

Return(e) == edit' = [edit EXCEPT ![e] = IdleFrame] /\ lock' = Free

(* A failed read or send is logged and the edit is given up.               *)
EditFails(e) ==
    /\ edit[e].pc # "idle"
    /\ Fails /\ Return(e)
    /\ excused' = TRUE
    /\ UNCHANGED <<rosterVars, chatVars, queued, botVars, pub, changes>>

(* Mutant: the early return comes before the unlock.                       *)
LeaveLocked(e) ==
    /\ edit[e].pc = "game" /\ messageId = None
    /\ edit' = [edit EXCEPT ![e] = IdleFrame]
    /\ excused' = (excused \/ pub.pc # "idle")
    /\ UNCHANGED <<rosterVars, chatVars, queued, lock, botVars, pub, countVars>>

(* No message yet: nothing to edit.  When one is being published, it was   *)
(* composed from what was read before.                                     *)
EditNothing(e) ==
    /\ edit[e].pc = "game" /\ messageId = None
    /\ Return(e)
    /\ excused' = (excused \/ pub.pc # "idle")
    /\ UNCHANGED <<rosterVars, chatVars, queued, botVars, pub, countVars>>

(* The first read of an edit that runs alone puts an end to older excuses. *)
EditGame(e) ==
    /\ edit[e].pc = "game" /\ messageId # None
    /\ edit' = [edit EXCEPT ![e] = [pc |-> "parts", msg |-> messageId,
                                    view |-> [NoView EXCEPT !.courts = courts]]]
    /\ excused' = (worker.pc \in Holding)
    /\ UNCHANGED <<rosterVars, chatVars, queued, lock, botVars, pub, countVars>>

EditParts(e) ==
    /\ edit[e].pc = "parts"
    /\ edit' = [edit EXCEPT ![e].pc = "guests", ![e].view.registered = registered]
    /\ UNCHANGED <<rosterVars, chatVars, queued, lock, botVars, pub, excused, countVars>>

EditGuests(e) ==
    /\ edit[e].pc = "guests"
    /\ edit' = [edit EXCEPT ![e].pc = "send", ![e].view.guests = guests]
    /\ UNCHANGED <<rosterVars, chatVars, queued, lock, botVars, pub, excused, countVars>>

EditSend(e) ==
    /\ edit[e].pc = "send"
    /\ board' = [board EXCEPT ![edit[e].msg] = edit[e].view]
    /\ Return(e)
    /\ UNCHANGED <<rosterVars, messageId, lastMessage, abandoned, queued, botVars, pub,
                   excused, countVars>>

EditStep(e) ==
    \/ Take(e) \/ EditFails(e) \/ EditNothing(e)
    \/ EditGame(e) \/ EditParts(e) \/ EditGuests(e) \/ EditSend(e)

-----------------------------------------------------------------------------
(* The bot's worker.  schedule() starts it, or tells a running one to go   *)
(* round once more.                                                        *)
Schedule ==
    /\ replies > 0
    /\ replies' = replies - 1
    /\ worker' = IF worker.running
                 THEN [worker EXCEPT !.pending = TRUE]
                 ELSE [worker EXCEPT !.running = TRUE, !.pc = "game", !.attempt = 0]
    /\ UNCHANGED <<rosterVars, chatVars, editVars, pub, excused, countVars>>

(* doEditGameMessage is over, with or without success.                     *)
RunEnds == worker' = [worker EXCEPT !.pc = "ran", !.msg = None, !.view = NoView]

(* A failed read or send is logged and the run is over.                    *)
BotFails ==
    /\ worker.pc \in Holding \cup {"game"}
    /\ Fails /\ RunEnds
    /\ excused' = TRUE
    /\ UNCHANGED <<rosterVars, chatVars, editVars, replies, pub, changes>>

BotNothing ==
    /\ worker.pc = "game" /\ messageId = None
    /\ RunEnds
    /\ excused' = (excused \/ pub.pc # "idle")
    /\ UNCHANGED <<rosterVars, chatVars, editVars, replies, pub, countVars>>

BotGame ==
    /\ worker.pc = "game" /\ messageId # None
    /\ worker' = [worker EXCEPT !.pc = "parts", !.msg = messageId, !.view.courts = courts]
    /\ excused' = Editing
    /\ UNCHANGED <<rosterVars, chatVars, editVars, replies, pub, countVars>>

BotParts ==
    /\ worker.pc = "parts"
    /\ worker' = [worker EXCEPT !.pc = "guests", !.view.registered = registered]
    /\ UNCHANGED <<rosterVars, chatVars, editVars, replies, pub, excused, countVars>>

BotGuests ==
    /\ worker.pc = "guests"
    /\ worker' = [worker EXCEPT !.pc = "send", !.view.guests = guests]
    /\ UNCHANGED <<rosterVars, chatVars, editVars, replies, pub, excused, countVars>>

BotSend ==
    /\ worker.pc = "send"
    /\ board' = [board EXCEPT ![worker.msg] = worker.view]
    /\ RunEnds
    /\ UNCHANGED <<rosterVars, messageId, lastMessage, abandoned, editVars, replies, pub,
                   excused, countVars>>

(* Telegram answers 429 the first time: sleep and read everything again.   *)
BotRetries ==
    /\ worker.pc = "send" /\ worker.attempt = 0
    /\ Fails
    /\ worker' = [worker EXCEPT !.pc = "game", !.attempt = 1, !.msg = None, !.view = NoView]
    /\ UNCHANGED <<rosterVars, chatVars, editVars, replies, pub, excused, changes>>

(* The end of the loop, under the worker's mutex.                          *)
BotLoops ==
    /\ worker.pc = "ran"
    /\ worker' = IF worker.pending
                 THEN [worker EXCEPT !.pending = FALSE, !.pc = "game", !.attempt = 0]
                 ELSE IdleWorker
    /\ UNCHANGED <<rosterVars, chatVars, editVars, replies, pub, excused, countVars>>

BotStep ==
    \/ Schedule \/ BotFails \/ BotNothing \/ BotGame \/ BotParts
    \/ BotGuests \/ BotSend \/ BotRetries \/ BotLoops

-----------------------------------------------------------------------------
(* GameService.PublishGame, of a game that has no message.  It begins with *)
(* fresh reads, so that older excuses are of no account.                   *)
Publish ==
    /\ pub.pc = "idle" /\ messageId = None /\ lastMessage < MaxMessages
    /\ pub' = [pc |-> "parts", kind |-> "publish", msg |-> None,
               view |-> [NoView EXCEPT !.courts = courts]]
    /\ excused' = FALSE
    /\ UNCHANGED <<rosterVars, chatVars, editVars, botVars, countVars>>

(* A failed read is logged and the list is announced empty.                *)
PubParts ==
    /\ pub.pc = "parts"
    /\ \/ /\ Works /\ UNCHANGED excused
          /\ pub' = [pub EXCEPT !.pc = "guests", !.view.registered = registered]
       \/ /\ Fails /\ excused' = TRUE
          /\ pub' = [pub EXCEPT !.pc = "guests"]
    /\ UNCHANGED <<rosterVars, chatVars, editVars, botVars, changes>>

PubGuests ==
    /\ pub.pc = "guests"
    /\ \/ /\ Works /\ UNCHANGED excused
          /\ pub' = [pub EXCEPT !.pc = "send", !.view.guests = guests]
       \/ /\ Fails /\ excused' = TRUE
          /\ pub' = [pub EXCEPT !.pc = "send"]
    /\ UNCHANGED <<rosterVars, chatVars, editVars, botVars, changes>>

PubSend ==
    /\ pub.pc = "send"
    /\ \/ /\ Works
          /\ lastMessage' = lastMessage + 1
          /\ board' = [board EXCEPT ![lastMessage + 1] = pub.view]
          /\ pub' = [pub EXCEPT !.pc = "store", !.msg = lastMessage + 1]
       \/ /\ Fails
          /\ pub' = IdlePub
          /\ UNCHANGED <<lastMessage, board>>
    /\ UNCHANGED <<rosterVars, messageId, abandoned, editVars, botVars, excused, changes>>

(* Mutant: a message whose id was not stored is left in the chat.          *)
StoreOrForget ==
    /\ pub.pc = "store"
    /\ \/ Works /\ messageId' = pub.msg
       \/ Fails /\ UNCHANGED messageId
    /\ pub' = IdlePub
    /\ UNCHANGED <<rosterVars, board, lastMessage, abandoned, editVars, botVars, excused,
                   changes>>

(* UpdateMessageID.  When it fails, PublishGame deletes the message; the   *)
(* bot and the 10:00 job's own announcement of a new game leave it.        *)
PubStore ==
    /\ pub.pc = "store"
    /\ \/ Works /\ messageId' = pub.msg /\ pub' = IdlePub /\ UNCHANGED abandoned
       \/ /\ Fails /\ pub.kind = "publish"
          /\ pub' = [pub EXCEPT !.pc = "delete"]
          /\ UNCHANGED <<messageId, abandoned>>
       \/ /\ Fails /\ pub.kind = "create"
          /\ pub' = IdlePub
          /\ abandoned' = abandoned \cup {pub.msg}
          /\ UNCHANGED messageId
    /\ UNCHANGED <<rosterVars, board, lastMessage, editVars, botVars, excused, changes>>

PubDelete ==
    /\ pub.pc = "delete"
    /\ \/ /\ Works
          /\ board' = [board EXCEPT ![pub.msg] = NoText]
          /\ UNCHANGED abandoned
       \/ /\ Fails
          /\ abandoned' = abandoned \cup {pub.msg}
          /\ UNCHANGED board
    /\ pub' = IdlePub
    /\ UNCHANGED <<rosterVars, messageId, lastMessage, editVars, botVars, excused, changes>>

PubStep == PubParts \/ PubGuests \/ PubSend \/ PubStore \/ PubDelete

-----------------------------------------------------------------------------
Next ==
    \/ \E p \in Players : Join(p) \/ Skip(p) \/ RemoveGuest(p) \/ KickPlayer(p)
    \/ \E t \in Taps :
         \/ \E p \in Players : AddGuest(t, p)
         \/ AddGuestCommits(t)
         \/ AddGuestFails(t)
    \/ \E g \in guests : KickGuest(g)
    \/ EditCourts \/ ReleaseCourts
    \/ \E e \in Editors : EditStep(e)
    \/ BotStep
    \/ Publish \/ PubStep

Spec == Init /\ [][Next]_vars

(* Goroutines and handlers that were started run on, and an edit that is   *)
(* due finds an editor.  Nothing obliges a player, an admin or a failure.  *)
Fairness ==
    /\ \A t \in Taps : WF_vars(AddGuestCommits(t))
    /\ WF_vars(\E e \in Editors : EditStep(e))
    /\ WF_vars(BotStep)
    /\ WF_vars(PubStep)

FairSpec == Spec /\ Fairness

-----------------------------------------------------------------------------
(* Every variable has its type.                                            *)
TypeOK ==
    /\ RosterTypeOK
    /\ messageId \in 0..MaxMessages
    /\ board \in [MessageIds -> View \cup {NoText}]
    /\ lastMessage \in 0..MaxMessages
    /\ abandoned \subseteq MessageIds
    /\ queued \in Nat /\ lock \in Editors \cup {Free}
    /\ edit \in [Editors -> [pc : Holding \cup {"idle", "game"},
                             msg : 0..MaxMessages, view : View]]
    /\ replies \in Nat
    /\ worker \in [running : BOOLEAN, pending : BOOLEAN, attempt : {0, 1},
                   pc : Holding \cup {"idle", "game", "ran"},
                   msg : 0..MaxMessages, view : View]
    /\ pub \in [pc : {"idle", "parts", "guests", "send", "store", "delete"},
                kind : {"publish", "create"}, msg : 0..MaxMessages, view : View]
    /\ excused \in BOOLEAN /\ changes \in Nat /\ faults \in Nat

(* No change waits to be shown and nobody is showing one.                  *)
Settled ==
    /\ queued = 0 /\ replies = 0
    /\ \A e \in Editors : edit[e].pc = "idle"
    /\ ~worker.running
    /\ pub.pc = "idle"

Shown == messageId # None => board[messageId] = Current

(* When everything has settled the announcement shows the players, guests  *)
(* and courts of the game.  Excused are a failure since, an edit of the    *)
(* bot that overlapped one of the management service (they share no lock), *)
(* and a change made while the message was being published; the next edit  *)
(* that runs alone repairs even those (game_notifier.go:28, bot.go:196).   *)
AnnouncementIsCurrent == Settled /\ ~excused => Shown

(* Once the changes stop, the announcement comes to show the game and      *)
(* keeps showing it: no lock is kept, no trigger is lost.                  *)
AnnouncementCatchesUp == <>[](Shown \/ excused)

(* Outside a publication every live message but the stored one was         *)
(* abandoned: its id could not be stored, and it could not be deleted or   *)
(* is of a game just created (game_service.go:267, newgame_handlers.go:177).*)
NoOrphan ==
    pub.pc = "idle" =>
        \A m \in MessageIds : board[m] # NoText => m = messageId \/ m \in abandoned

-----------------------------------------------------------------------------
(* The inductive invariant of the proofs.                                  *)

(* The advisory lock and the edit lock each have one holder.               *)
LocksHeldOnce ==
    /\ \A t, u \in Taps : tap[t] # IdleTap /\ tap[u] # IdleTap => t = u
    /\ \A e \in Editors : edit[e].pc # "idle" => lock = e

(* Whoever holds a view sends it to the stored message, which is not       *)
(* replaced once there is one.                                             *)
ViewsAreOfTheMessage ==
    /\ \A e \in Editors : edit[e].pc \in Holding => messageId # None /\ edit[e].msg = messageId
    /\ worker.pc \in Holding => messageId # None /\ worker.msg = messageId

(* A publisher works for a game without a message, and what it sent is     *)
(* what its frame says.                                                    *)
PublisherIsFirst ==
    /\ pub.pc # "idle" => messageId = None
    /\ pub.pc \in Holding => lastMessage < MaxMessages
    /\ pub.pc \in {"store", "delete"} => pub.msg \in MessageIds
    /\ pub.pc = "store" => board[pub.msg] = pub.view

(* The message of a publisher on its way is the only other live one.       *)
LiveMessages ==
    \A m \in MessageIds : board[m] # NoText =>
        \/ m = messageId \/ m \in abandoned
        \/ pub.pc \in {"store", "delete"} /\ m = pub.msg

WorkerRuns == worker.pc # "idle" \/ worker.pending => worker.running

(* Somebody will read everything from now on.                              *)
Due ==
    \/ queued > 0 \/ replies > 0
    \/ worker.pending \/ worker.pc = "game"
    \/ \E e \in Editors : edit[e].pc = "game"

(* What a frame has read so far is still so.                               *)
Fresh(frame) ==
    /\ frame.view.courts = courts
    /\ frame.pc \in {"guests", "send", "store"} => frame.view.registered = registered
    /\ frame.pc \in {"send", "store"} => frame.view.guests = guests

(* Either somebody will read the game from its start, or those who hold a  *)
(* view hold the present one, or nobody does and the message shows it.     *)
CurrentOrDue ==
    ~excused =>
        /\ ~(Editing /\ worker.pc \in Holding)
        /\ ~Due /\ messageId # None =>
             /\ \A e \in Editors : edit[e].pc \in Holding => Fresh(edit[e])
             /\ worker.pc \in Holding => Fresh(worker)
             /\ ~Editing /\ worker.pc \notin Holding => board[messageId] = Current
        /\ ~Due /\ pub.pc \in Holding \cup {"store"} => Fresh(pub)

(* The conjunction is what every step preserves (game_notifier.go:58-100,  *)
(* bot.go:199-222, game_service.go:207-280, guest_repo.go:25-68).          *)
AnnouncementInv ==
    /\ TypeOK /\ LocksHeldOnce /\ CountedSeatKept
    /\ ViewsAreOfTheMessage /\ PublisherIsFirst /\ LiveMessages
    /\ WorkerRuns /\ CurrentOrDue
=============================================================================
