---------------------------- MODULE ReleaseFlow -----------------------------
(***************************************************************************)
(* Giving courts back and closing games: the cancellation reminder, the    *)
(* halfway and the final court check, the day-after cleanup, and an        *)
(* admin's removal of courts.  Every database, platform and Telegram call  *)
(* that another worker can see, or that can fail, is a step of its own.    *)
(*                                                                         *)
(* A job reads its list of games once and then works from that snapshot.   *)
(* Court lists are sets here: the copies and the order a list may hold are *)
(* checked in CourtSelection.                                              *)
(***************************************************************************)
EXTENDS CourtState

VARIABLE rel    \* what each worker has read and is doing

ReleaseJobs == {"reminder", "halfway", "final", "cleanup"}

Frame == [pc : {"idle", "begin", "count", "load", "cancel", "row", "tell", "mark",
                "complete", "rows"},
          todo : SUBSET Games,            \* games of the list still to do
          snap : [Games -> Game],         \* the list as it was read
          t : Nat,                        \* the now of the job's start
          g : Games \cup {None},          \* the game at hand
          count : Nat,                    \* players counted for it
          picks : SUBSET Matches,         \* reservations still to cancel
          m : Matches \cup {None},        \* the one just canceled upstream
          gone : SUBSET Labels,           \* courts canceled so far
          goal : SUBSET Labels]           \* the list an admin asked for

IdleFrame == [pc |-> "idle", todo |-> {}, snap |-> [g \in Games |-> NoGame], t |-> 0,
              g |-> None, count |-> 0, picks |-> {}, m |-> None, gone |-> {}, goal |-> {}]

ReleaseTypeOK == rel \in [Workers -> Frame]
ReleaseInit == rel = [w \in Workers |-> IdleFrame]

Goto(w, pc) == rel' = [rel EXCEPT ![w].pc = pc]
Read(w) == rel[w].snap[rel[w].g]

-----------------------------------------------------------------------------
(* The loop over games.                                                    *)

Due(job) ==
    CASE job = "reminder" ->
            {g \in Games : Upcoming(g) /\ ~game[g].notified /\ Near(ReminderAt(game[g].slot))}
      [] job = "halfway" ->
            {g \in Games : /\ Upcoming(g) /\ ~game[g].halfway
                           /\ \/ now > Deadline(game[g].slot)
                              \/ /\ game[g].published
                                 /\ now >= preventiveCancellationAt(game[g].slot)}
      [] job = "final" ->
            {g \in Games : Upcoming(g) /\ ~game[g].final /\ Near(FinalAt(game[g].slot))}
      [] job = "cleanup" ->
            {g \in Games : InWindow(CleanupAt) /\ Created(g) /\ ~game[g].completed}

(* Take up the earliest game of todo (ORDER BY game_date), or return.      *)
Proceed(w, todo, snap, t) ==
    IF todo = {}
    THEN rel' = [rel EXCEPT ![w] = IdleFrame] /\ NextJob(w)
    ELSE /\ \E g \in todo :
              /\ \A h \in todo : snap[g].slot <= snap[h].slot
              /\ rel' = [rel EXCEPT ![w] = [IdleFrame EXCEPT
                            !.pc = "begin", !.todo = todo, !.snap = snap, !.t = t, !.g = g]]
         /\ UNCHANGED at

NextGame(w) == Proceed(w, rel[w].todo \ {rel[w].g}, rel[w].snap, rel[w].t)

QueryGames(w) ==
    /\ w \in Pollers /\ rel[w].pc = "idle"
    /\ \E job \in ReleaseJobs :
          /\ AtJob(w, job)
          /\ \/ Works /\ Proceed(w, Due(job), game, now)
             \/ Fails("read") /\ Proceed(w, {}, game, now)
    /\ UNCHANGED <<bookVars, game>>

-----------------------------------------------------------------------------
(* Counting.                                                               *)

(* The halfway check leaves a game past its deadline to the later jobs and *)
(* one without reservations for a later poll.  A failed lookup is either   *)
(* made good by the rows of the whole date or leaves the game for later.   *)
BeginHalfway(w) ==
    /\ rel[w].pc = "begin" /\ AtJob(w, "halfway")
    /\ IF rel[w].t > Deadline(Read(w).slot)
       THEN Works /\ Goto(w, "mark") /\ UNCHANGED at
       ELSE \/ /\ Works
               /\ \E entries \in loadCourtBookingEntries(rel[w].g) :
                     IF entries = {} THEN NextGame(w)
                                     ELSE Goto(w, "count") /\ UNCHANGED at
            \/ Fails("read") /\ NextGame(w)
            \/ Fails("read") /\ ActiveRows # {} /\ Goto(w, "count") /\ UNCHANGED at
    /\ UNCHANGED <<bookVars, game>>

Counting(w) ==
    \/ rel[w].pc = "begin" /\ (AtJob(w, "reminder") \/ AtJob(w, "final"))
    \/ rel[w].pc = "count"

(* playersPerCourt := capacity / game.CourtsCount on a list read with none. *)
DividesByZero(w) == Counting(w) /\ Read(w).count = 0

(* Courts the job decides to free, from the snapshot and the head count.   *)
Quota(w) ==
    IF AtJob(w, "halfway")
    THEN HalfUnneeded(rel[w].count, Read(w).count, PlayersPerCourt)
    ELSE Unneeded(rel[w].count, Read(w).count, PlayersPerCourt)

AfterRelease(w) == IF AtJob(w, "reminder") THEN "tell" ELSE "mark"

CountPlayers(w) ==
    /\ Counting(w)
    /\ \/ /\ Read(w).count # 0 /\ Works
          /\ rel' = [rel EXCEPT ![w].pc = "load", ![w].count = players[rel[w].g]]
          /\ UNCHANGED at
       \/ Fails("read") /\ NextGame(w)
    /\ UNCHANGED <<bookVars, game>>

-----------------------------------------------------------------------------
(* Canceling.                                                              *)

(* cancelUsingBookingEntries: the latest entry of each selected court, the *)
(* courts of the entries taken in ascending order.                         *)
Selected(entries, quota) ==
    LET upTo(c) == Cardinality({m \in entries : match[m].court <= c})
        sorted == [k \in 1..Cardinality(entries) |->
                     CHOOSE c \in {match[m].court : m \in entries} :
                        upTo(c - 1) < k /\ k <= upTo(c)]
        chosen[courts \in Seq(Nat)] == ToSet(CourtsToCancel(courts, Preferred, quota))
    IN  {m \in entries : /\ match[m].court \in chosen[sorted]
                         /\ \A n \in entries : match[n].court = match[m].court => n <= m}

(* cancelUnusedCourts up to the selection.  Nothing to free, a group whose *)
(* time zone cannot be read, or no entries to work from: on to the end of  *)
(* the job.  A failed lookup widens the scope to the whole date.           *)
LoadBookings(w) ==
    /\ rel[w].pc = "load" /\ w \in Pollers
    /\ LET quota == Quota(w)
           Use(entries) == IF entries = {} THEN Goto(w, AfterRelease(w))
                           ELSE rel' = [rel EXCEPT ![w].pc = "cancel",
                                                   ![w].picks = Selected(entries, quota)]
       IN  \/ quota = 0 /\ Works /\ Goto(w, AfterRelease(w))
           \/ /\ quota # 0 /\ Works
              /\ \E entries \in loadCourtBookingEntries(rel[w].g) : Use(entries)
           \/ quota # 0 /\ Fails("read") /\ \E entries \in {{}, ActiveRows} : Use(entries)
    /\ UNCHANGED <<at, bookVars, game>>

(* Mutant: a failed cancellation is recorded like one that worked.         *)
CancelWithoutAnswer(w) ==
    /\ rel[w].pc = "cancel"
    /\ \E m \in rel[w].picks :
          /\ \/ Works /\ match' = [match EXCEPT ![m].st = "canceled"]
             \/ Fails("cancel") /\ UNCHANGED match
          /\ rel' = [rel EXCEPT ![w].pc = "row", ![w].m = m, ![w].picks = @ \ {m},
                                ![w].gone = @ \cup {match[m].court}]
    /\ UNCHANGED <<at, row, game>>

(* One selected reservation: credential lookup and CancelMatch.  A failed  *)
(* call may have canceled all the same (the answer was lost); what the     *)
(* platform answers for one already canceled is its own affair.  Any order *)
(* of the selection is allowed: it matters only if the process dies.       *)
CancelCourt(w) ==
    /\ rel[w].pc = "cancel"
    /\ \E m \in rel[w].picks :
          \/ /\ Works
             /\ match[m].st \in {"live", "canceled"}
             /\ match' = [match EXCEPT ![m].st = "canceled"]
             /\ rel' = [rel EXCEPT ![w].pc = "row", ![w].m = m,
                                   ![w].picks = @ \ {m},
                                   ![w].gone = @ \cup {match[m].court}]
          \/ /\ match[m].st = "canceled" /\ Works
             /\ rel' = [rel EXCEPT ![w].picks = @ \ {m}]
             /\ UNCHANGED match
          \/ /\ \/ Fails("cancel") /\ UNCHANGED match
                \/ Fails("lost") /\ match' = [match EXCEPT ![m].st = "canceled"]
             /\ rel' = [rel EXCEPT ![w].picks = @ \ {m}]
    /\ UNCHANGED <<at, row, game>>

(* Mutant: the rows of the whole date are closed with the one.             *)
MarkWholeDate(w) ==
    /\ rel[w].pc = "row"
    /\ Works /\ row' = [m \in Matches |-> IF row[m] = "active" THEN "canceled" ELSE row[m]]
    /\ rel' = [rel EXCEPT ![w].pc = "cancel", ![w].m = None]
    /\ UNCHANGED <<at, match, game>>

(* Mutant: the row of a court that is off the list already is left alone.  *)
MarkListed(w) ==
    /\ rel[w].pc = "row" /\ Works
    /\ LET m == rel[w].m
       IN  row' = IF match[m].court \in game[rel[w].g].courts
                  THEN [row EXCEPT ![m] = "canceled"] ELSE row
    /\ rel' = [rel EXCEPT ![w].pc = "cancel", ![w].m = None]
    /\ UNCHANGED <<at, match, game>>

(* CourtBookingRepo.MarkCanceled; a failure is only logged.                *)
MarkRow(w) ==
    /\ rel[w].pc = "row"
    /\ \/ Works /\ row' = [row EXCEPT ![rel[w].m] = IF @ = "active" THEN "canceled" ELSE @]
       \/ Fails("write") /\ UNCHANGED row
    /\ rel' = [rel EXCEPT ![w].pc = "cancel", ![w].m = None]
    /\ UNCHANGED <<at, match, game>>

(* Mutant: the list shrinks and the count does not.                        *)
PersistOldCount(w) ==
    /\ rel[w].pc = "cancel" /\ rel[w].picks = {} /\ w \in Pollers
    /\ Works /\ UpdateCourts(rel[w].g, Read(w).courts \ rel[w].gone, Read(w).count)
    /\ Goto(w, AfterRelease(w))
    /\ UNCHANGED <<at, bookVars>>

(* The list the job read, less what it canceled, becomes the game's list.  *)
PersistCourts(w) ==
    /\ rel[w].pc = "cancel" /\ rel[w].picks = {} /\ w \in Pollers
    /\ LET kept == Read(w).courts \ rel[w].gone
       IN  \/ rel[w].gone = {} /\ Works /\ UNCHANGED game
           \/ rel[w].gone # {} /\ Works /\ UpdateCourts(rel[w].g, kept, Cardinality(kept))
           \/ rel[w].gone # {} /\ Fails("write") /\ UNCHANGED game
    /\ Goto(w, AfterRelease(w))
    /\ UNCHANGED <<at, bookVars>>

-----------------------------------------------------------------------------
(* Telling the group and marking the check done.                           *)

(* The reminder is marked only if it was sent; the two checks mark anyway. *)
SendReminder(w) ==
    /\ rel[w].pc = "tell"
    /\ \/ Works /\ Goto(w, "mark") /\ UNCHANGED at
       \/ Fails("telegram") /\ NextGame(w)
    /\ UNCHANGED <<bookVars, game>>

Marked(w, r) ==
    CASE AtJob(w, "reminder") -> [r EXCEPT !.notified = TRUE]
      [] AtJob(w, "halfway")  -> [r EXCEPT !.halfway = TRUE]
      [] AtJob(w, "final")    -> [r EXCEPT !.final = TRUE]

MarkDone(w) ==
    /\ rel[w].pc = "mark"
    /\ \/ Works /\ game' = [game EXCEPT ![rel[w].g] = Marked(w, @)]
       \/ Fails("write") /\ UNCHANGED game
    /\ NextGame(w)
    /\ UNCHANGED bookVars

-----------------------------------------------------------------------------
(* Day-after cleanup.  A game whose message cannot be edited is left as it *)
(* is: the job returns before the game is completed.                       *)
CloseMessage(w) ==
    /\ rel[w].pc = "begin" /\ AtJob(w, "cleanup")
    /\ \/ Works /\ Goto(w, "complete") /\ UNCHANGED at
       \/ /\ Read(w).published /\ (Fails("telegram") \/ Fails("read"))
          /\ NextGame(w)
    /\ UNCHANGED <<bookVars, game>>

(* Mutant: the rows of the date stay open.                                 *)
CompleteOnly(w) ==
    /\ rel[w].pc = "complete"
    /\ Works
    /\ game' = [game EXCEPT ![rel[w].g].completed = TRUE]
    /\ NextGame(w)
    /\ UNCHANGED bookVars

CompleteGame(w) ==
    /\ rel[w].pc = "complete"
    /\ \/ /\ Works
          /\ game' = [game EXCEPT ![rel[w].g].completed = TRUE]
          /\ Goto(w, "rows") /\ UNCHANGED at
       \/ Fails("write") /\ UNCHANGED game /\ NextGame(w)
    /\ UNCHANGED bookVars

(* MarkCanceledByVenueAndDate: every row of the date, whatever its slot.   *)
CloseRows(w) ==
    /\ rel[w].pc = "rows"
    /\ \/ Works /\ row' = [m \in Matches |-> IF row[m] = "active" THEN "canceled" ELSE row[m]]
       \/ Fails("write") /\ UNCHANGED row
    /\ NextGame(w)
    /\ UNCHANGED <<match, game>>

-----------------------------------------------------------------------------
(* An admin edits a game's courts.                                         *)

(* Without cancel_bookings: only the list changes; an empty list counts as *)
(* one court, as strings.Split of an empty string does.                    *)
EditCourts(g, courts) ==
    /\ Admins # {} /\ Created(g)
    /\ UpdateCourts(g, courts, IF courts = {} THEN 1 ELSE Cardinality(courts))
    /\ Works
    /\ UNCHANGED <<at, rel, bookVars>>

(* RemoveCourtsAndCancelBookings reads the game ...                        *)
RemoveCourts(w, g, courts) ==
    /\ w \in Admins /\ rel[w].pc = "idle" /\ Created(g)
    /\ rel' = [rel EXCEPT ![w] = [IdleFrame EXCEPT
                 !.pc = IF game[g].courts \subseteq courts THEN "cancel" ELSE "load",
                 !.snap = game, !.g = g, !.goal = courts]]
    /\ Works
    /\ UNCHANGED <<at, bookVars, game>>

(* ... finds the reservations behind the removed courts, one per court ... *)
LoadRemoved(w) ==
    /\ rel[w].pc = "load" /\ w \in Admins
    /\ LET removed == Read(w).courts \ rel[w].goal
           Firsts(entries) == {m \in entries :
                /\ match[m].court \in removed
                /\ \A n \in entries : match[n].court = match[m].court => m <= n}
           Use(entries) == rel' = [rel EXCEPT ![w].pc = "cancel", ![w].picks = Firsts(entries)]
       IN  \/ Works /\ \E entries \in loadCourtBookingEntries(rel[w].g) : Use(entries)
           \/ /\ Fails("read")
              /\ Use(ActiveRows) \/ rel' = [rel EXCEPT ![w] = IdleFrame]
    /\ UNCHANGED <<at, bookVars, game>>

(* ... and stores the list asked for, whatever became of them.             *)
PersistRemoval(w) ==
    /\ rel[w].pc = "cancel" /\ rel[w].picks = {} /\ w \in Admins
    /\ \/ Works /\ UpdateCourts(rel[w].g, rel[w].goal, Cardinality(rel[w].goal))
       \/ Fails("write") /\ UNCHANGED game
    /\ rel' = [rel EXCEPT ![w] = IdleFrame]
    /\ UNCHANGED <<at, bookVars>>

-----------------------------------------------------------------------------
ReleaseStep(w) ==
    /\ \/ QueryGames(w) \/ BeginHalfway(w) \/ CountPlayers(w)
       \/ LoadBookings(w) \/ CancelCourt(w) \/ MarkRow(w) \/ PersistCourts(w)
       \/ SendReminder(w) \/ MarkDone(w)
       \/ CloseMessage(w) \/ CompleteGame(w) \/ CloseRows(w)
       \/ LoadRemoved(w) \/ PersistRemoval(w)
    /\ UNCHANGED <<clockVars, result, players, reminded, cooling>>

RemovalRequest(w) ==
    /\ \E g \in Games, courts \in SUBSET Labels : RemoveCourts(w, g, courts)
    /\ UNCHANGED <<clockVars, result, players, reminded, cooling>>

EditRequest ==
    /\ \E g \in Games, courts \in SUBSET Labels : EditCourts(g, courts)
    /\ UNCHANGED <<clockVars, result, players, reminded, cooling>>

=============================================================================
