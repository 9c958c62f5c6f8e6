----------------------------- MODULE CourtState -----------------------------
(***************************************************************************)
(* The state the court workflows of the management service share: the      *)
(* tables games, court_bookings and auto_booking_results, the reservations *)
(* at the booking platform, the head counts, the wall clock, and the       *)
(* workers that run the workflows: cron polls and admin requests.          *)
(*                                                                         *)
(* One group, one venue, one game date.  A slot is a start time on that    *)
(* date, a match a reservation of one court for one slot.  Time passes in  *)
(* ticks of one poll interval.                                             *)
(***************************************************************************)
EXTENDS CourtSelection

CONSTANTS
    Slots,            \* the venue's preferred game times, in order
    Games,            \* ids of games rows
    Matches,          \* ids of reservations at the booking platform
    Facility,         \* the court numbers, in the order the platform lists them
    Preferred,        \* venue.AutoBookingCourts: court numbers by preference
    CourtsPerSlot,    \* venue.AutoBookingCourtsCount
    PlayersPerCourt,  \* players_per_court snapshotted in each game
    Creds,            \* the venue's booking accounts, in priority order
    MaxCourts,        \* courts one account may reserve in one go
    Pollers,          \* goroutines the cron may run RunScheduledTasks in
    Admins,           \* concurrent admin requests
    Jobs,             \* the jobs of one poll, in the order NewScheduler got them
    StartAt,          \* [Slots -> ticks] when the games start
    Grace,            \* venue.GracePeriodHours
    ReminderLead,     \* the reminder's 6 hours before the grace deadline
    FinalLead,        \* finalCheckLeadTime
    Fraction,         \* venue.PreventiveCancellationFraction
    OpensAt,          \* 00:00 of the day booking opens
    AnnounceAt,       \* 10:00 of the same day
    CleanupAt,        \* 03:00 of the day after the games
    EventTicks,       \* the five minutes after such an hour, in poll intervals
    PollWindow,       \* half a poll interval, in ticks
    Horizon,          \* bound: the last tick
    MaxPlayers,       \* bound: players and guests of a game
    FaultKinds,       \* which calls may fail: "read" and "write" (database),
                      \* "book", "cancel", "lost" (platform), "telegram"
    MaxFaults,        \* bound: failing calls
    MaxCrashes,       \* bound: process restarts
    PollsKeepUp       \* every tick is polled and no worker outlives its tick

Labels == ToSet(Facility)
Workers == Pollers \cup Admins
None == 0

ASSUME CountsAssumption ==
    /\ Slots \subseteq Nat \ {0} /\ IsFiniteSet(Slots)
    /\ Games \subseteq Nat \ {0}
    /\ Matches \subseteq Nat \ {0} /\ IsFiniteSet(Matches)
    /\ Creds \subseteq Nat \ {0}
    /\ CourtsPerSlot \in Nat /\ PlayersPerCourt \in Nat /\ MaxCourts \in Nat \ {0}
    /\ MaxPlayers \in Nat /\ MaxFaults \in Nat /\ MaxCrashes \in Nat

ASSUME CourtsAssumption ==
    /\ Facility \in Seq(Nat \ {0}) /\ IsFiniteSet(Labels) /\ Labels \subseteq Nat \ {0}
    /\ Preferred \in Seq(Nat)

ASSUME WorkersAssumption == Pollers \cap Admins = {} /\ Jobs \in Seq(STRING)

ASSUME TimeAssumption ==
    /\ StartAt \in [Slots -> Nat]
    /\ {Grace, ReminderLead, FinalLead, OpensAt, AnnounceAt, CleanupAt,
        EventTicks, PollWindow, Horizon} \subseteq Nat
    /\ Fraction \in {"1/3", "1/2", "2/3"}
    /\ PollsKeepUp \in BOOLEAN /\ OpensAt < CleanupAt
    /\ \A s \in Slots : OpensAt <= StartAt[s] - Grace /\ StartAt[s] < CleanupAt

VARIABLES
    now,       \* the wall clock
    polled,    \* the cron has fired in this tick
    at,        \* [Pollers -> index of the job the poll is at, 0 between polls]
    match,     \* the platform: [Matches -> [st, slot, court]]
    row,       \* court_bookings: [Matches -> "none" | "active" | "canceled"]
    result,    \* auto_booking_results: [Slots -> [saved, courts, game]]
    game,      \* games: [Games -> row, slot = None when there is none]
    players,   \* registered players plus guests of each game
    reminded,  \* venue.LastBookingReminderAt is today
    cooling,   \* accounts whose last_error_at is within the cooldown
    faults,    \* calls that failed so far
    crashes,   \* restarts so far
    panicked   \* a job divided by zero

clockVars == <<now, polled>>
bookVars == <<match, row>>
planVars == <<result, game, players, reminded>>
faultVars == <<faults, crashes, panicked>>

Match == [st : {"unused", "live", "canceled"}, slot : Slots \cup {None},
          court : Labels \cup {None}]
Result == [saved : BOOLEAN, courts : SUBSET Labels, game : Games \cup {None}]
Game == [slot : Slots \cup {None}, courts : SUBSET Labels, count : Nat,
         published : BOOLEAN, notified : BOOLEAN, halfway : BOOLEAN,
         final : BOOLEAN, completed : BOOLEAN]

NoMatch == [st |-> "unused", slot |-> None, court |-> None]
NoResult == [saved |-> FALSE, courts |-> {}, game |-> None]
NoGame == [slot |-> None, courts |-> {}, count |-> 0, published |-> FALSE,
           notified |-> FALSE, halfway |-> FALSE, final |-> FALSE, completed |-> FALSE]

StateTypeOK ==
    /\ now \in Nat /\ polled \in BOOLEAN
    /\ at \in [Pollers -> Nat]
    /\ match \in [Matches -> Match]
    /\ row \in [Matches -> {"none", "active", "canceled"}]
    /\ result \in [Slots -> Result]
    /\ game \in [Games -> Game]
    /\ players \in [Games -> Nat]
    /\ reminded \in BOOLEAN
    /\ cooling \subseteq Creds
    /\ faults \in Nat /\ crashes \in Nat /\ panicked \in BOOLEAN

StateInit ==
    /\ now = 0 /\ polled = FALSE
    /\ at = [p \in Pollers |-> 0]
    /\ match = [m \in Matches |-> NoMatch]
    /\ row = [m \in Matches |-> "none"]
    /\ result = [s \in Slots |-> NoResult]
    /\ game = [g \in Games |-> NoGame]
    /\ players = [g \in Games |-> 0]
    /\ reminded = FALSE
    /\ cooling = {}
    /\ faults = 0 /\ crashes = 0 /\ panicked = FALSE

-----------------------------------------------------------------------------
(* A call to the database, the platform or Telegram either works or, while *)
(* the bound lasts, fails in one of the kinds the instance allows.         *)
Works == UNCHANGED faultVars
Fails(kind) ==
    /\ kind \in FaultKinds /\ faults < MaxFaults
    /\ faults' = faults + 1
    /\ UNCHANGED <<crashes, panicked>>

-----------------------------------------------------------------------------
(* The clock and the polls.                                                *)

(* Mutant: the window is open on both sides.                               *)
StrictlyNear(t) == now - t \in (1 - PollWindow)..(PollWindow - 1)

(* diff <= pollWindow around an event.                                     *)
Near(t) == now - t \in (-PollWindow)..PollWindow

(* Hour() = h and Minute() < 5: the polls of the first five minutes.       *)
InWindow(t) == t <= now /\ now < t + EventTicks

Deadline(s) == StartAt[s] - Grace
ReminderAt(s) == Deadline(s) - ReminderLead
FinalAt(s) == Deadline(s) - FinalLead

preventiveCancellationAt(s) ==
    LET window == Deadline(s) - OpensAt
    IN  OpensAt + (CASE Fraction = "1/3" -> window \div 3
                     [] Fraction = "2/3" -> (window \div 3) * 2
                     [] OTHER -> window \div 2)

(* RunScheduledTasks: the cron starts a goroutine whether or not an earlier *)
(* one is still at work.                                                   *)
PollStart(p) ==
    /\ ~polled /\ at[p] = 0
    /\ polled' = TRUE
    /\ at' = [at EXCEPT ![p] = 1]
    /\ UNCHANGED now

AtJob(p, job) == at[p] \in DOMAIN Jobs /\ Jobs[at[p]] = job

(* The job returned: on to the next one, or the end of the poll.           *)
NextJob(p) ==
    at' = [at EXCEPT ![p] = IF @ < Len(Jobs) THEN @ + 1 ELSE 0]

-----------------------------------------------------------------------------
(* The tables.                                                             *)

Created(g) == game[g].slot # None
Upcoming(g) == Created(g) /\ ~game[g].completed /\ StartAt[game[g].slot] > now

(* AutoBookingResultRepo.GetByGameID, as the slots of the rows it may find. *)
LinkedSlots(g) == {s \in Slots : result[s].saved /\ result[s].game = g}

ActiveRows == {m \in Matches : row[m] = "active"}
RowsAt(s) == {m \in ActiveRows : match[m].slot = s}
Live == {m \in Matches : match[m].st = "live"}
LiveAt(s) == {m \in Live : match[m].slot = s}

(* Mutant: the slot the game is linked to is not looked at.                *)
loadWholeDate(g) == {ActiveRows}

(* loadCourtBookingEntries without errors: the rows of the linked slot, or *)
(* for a game no result names every row of the venue and date.             *)
loadCourtBookingEntries(g) ==
    IF LinkedSlots(g) = {} THEN {ActiveRows}
    ELSE {RowsAt(s) : s \in LinkedSlots(g)}

(* GameRepo.UpdateCourts.                                                  *)
UpdateCourts(g, courts, count) ==
    game' = [game EXCEPT ![g].courts = courts, ![g].count = count]

(* GameRepo.Create: a row of its own, unpublished.                         *)
NewGame(s, courts, count) ==
    [NoGame EXCEPT !.slot = s, !.courts = courts, !.count = count]
FreshGames == {g \in Games : ~Created(g) /\ \A h \in Games : h < g => Created(h)}

=============================================================================
