-------------------------- MODULE CourtProperties ---------------------------
(***************************************************************************)
(* What the life of a game date has to satisfy.                            *)
(***************************************************************************)
EXTENDS CourtLifecycle

-----------------------------------------------------------------------------
(* Reservations and their records.                                         *)

Ledger == INSTANCE CourtLedger WITH
              st <- [m \in Matches |-> match[m].st],
              over <- (now >= CleanupAt)

(* The lifecycle implements the ledger: a reservation is never revived, its *)
(* record never reopened, and no record is closed for a court that is      *)
(* still reserved for a coming game (CancelMatch before MarkCanceled, and  *)
(* MarkCanceledByVenueAndDate only after the date).                        *)
ImplementsLedger == Ledger!LedgerSpec

(* The same, as the invariant operators rely on when they trust a closed   *)
(* row: before the morning after, its reservation is gone for good.        *)
RowCanceledIsReleased ==
    \A m \in Matches :
        row[m] = "canceled" => match[m].st = "canceled" \/ now >= CleanupAt

(* While the process stays up and no write fails, court_bookings is never  *)
(* more than one step behind the platform, whoever books and cancels at    *)
(* the same time: a reservation without a row is about to be saved, one    *)
(* given back under an open row is about to be marked.                     *)
RecordsFollowPlatform ==
    ~panicked => \A m \in Matches :
        /\ match[m].st # "unused" /\ row[m] = "none" =>
              \E w \in Workers : bkg[w].pc = "save" /\ bkg[w].m = m
        /\ match[m].st = "canceled" /\ row[m] = "active" =>
              \E w \in Workers : rel[w].pc = "row" /\ rel[w].m = m

-----------------------------------------------------------------------------
(* Why no record is closed too early: the parts of an inductive invariant. *)

(* Each place in the code has read what the steps from there on use.       *)
FramesAreFilled ==
    \A w \in Workers :
        /\ rel[w].pc # "idle" => rel[w].g \in Games
        /\ rel[w].pc \notin {"idle", "load", "cancel", "row"} => w \in Pollers
        /\ rel[w].pc = "row" => rel[w].m \in Matches
        /\ bkg[w].pc \notin {"idle", "stamp", "refused"} => bkg[w].slot \in Slots
        /\ bkg[w].pc \in {"book", "save"} /\ bkg[w].left > 0 => bkg[w].lim > 0
        /\ bkg[w].pc = "save" => bkg[w].m \in Matches
        /\ bkg[w].pc \in {"announce", "create", "post", "stamp"} => w \in Pollers

(* A poll runs one job at a time, and the cleanup only after the date.     *)
PollsTakeTurns ==
    \A p \in Pollers :
        /\ rel[p].pc # "idle" => \E job \in ReleaseJobs : AtJob(p, job)
        /\ bkg[p].pc # "idle" => AtJob(p, "auto_booking") \/ AtJob(p, "booking_reminder")
        /\ rel[p].pc # "idle" /\ AtJob(p, "cleanup") =>
              now >= CleanupAt /\ rel[p].pc \in {"begin", "complete", "rows"}
        /\ rel[p].pc \in {"complete", "rows"} => AtJob(p, "cleanup")

(* A record is written after the court was reserved, and marked after it   *)
(* was given back; the steps under way are about such reservations.        *)
RecordsComeAfter ==
    /\ \A m \in Matches :
          /\ row[m] # "none" => match[m].st # "unused"
          /\ match[m].st # "unused" => match[m].court \in Labels
    /\ \A w \in Workers :
          /\ \A m \in rel[w].picks : match[m].st # "unused"
          /\ rel[w].pc = "row" => match[rel[w].m].st = "canceled"
          /\ bkg[w].pc = "save" => match[bkg[w].m].st # "unused"

(* Inductive: with it, RowCanceledIsReleased and ImplementsLedger hold of  *)
(* each step, whatever fails, crashes or runs beside it.                   *)
LedgerInv ==
    TypeOK /\ FramesAreFilled /\ PollsTakeTurns /\ RecordsComeAfter /\ RowCanceledIsReleased

-----------------------------------------------------------------------------
(* How many courts are given back.                                         *)

SeatsAt(g) == Capacity(Cardinality(LiveAt(game[g].slot)), PlayersPerCourt)

(* A job that gave a court back left seats for every player it counted:    *)
(* the courts it divides by and the courts really reserved agree.          *)
SeatsKept ==
    \A p \in Pollers : rel[p].gone # {} => SeatsAt(rel[p].g) >= rel[p].count

(* When the reminder speaks or the final check is through, no reserved     *)
(* court of the slot is fully unneeded for the players it counted.         *)
NoIdleCourtKept ==
    \A p \in Pollers :
        \/ rel[p].pc = "tell"
        \/ rel[p].pc = "mark" /\ AtJob(p, "final")
        => SeatsAt(rel[p].g) < rel[p].count + Capacity(1, PlayersPerCourt)

(* Until the reminder or the final check is due, at least half of what was *)
(* booked for a slot stays reserved: the halfway check releases once.      *)
HalfStays ==
    \A s \in Slots :
        result[s].saved /\ now < ReminderAt(s) /\ now < FinalAt(s) =>
            Cardinality(LiveAt(s)) >=
                Cardinality(result[s].courts) - Cardinality(result[s].courts) \div 2

(* Courts are reserved up to the venue's count per slot and not beyond:    *)
(* the result of the first poll of the window stops the next.              *)
SlotNotOverbooked == \A s \in Slots : Cardinality(LiveAt(s)) <= CourtsPerSlot

-----------------------------------------------------------------------------
(* What the tables say of each other.                                      *)

Quiet == Idle /\ \A w \in Workers : rel[w].pc = "idle" /\ bkg[w].pc = "idle"

(* Between polls a game lists exactly the courts reserved for its slot,    *)
(* and its count is their number.                                          *)
ListedCourtsAreReserved ==
    Quiet => \A g \in Games : Created(g) =>
        LET live == LiveAt(game[g].slot)
        IN  /\ game[g].courts = {match[m].court : m \in live}
            /\ game[g].count = Cardinality(live)

(* Every slot has one game at most: the 10:00 job publishes the one        *)
(* midnight created instead of creating another.                           *)
OneGamePerSlot ==
    \A g, h \in Games : g # h /\ Created(g) => game[g].slot # game[h].slot

(* Two sessions of one date hold the same court numbers: a result names a *)
(* game of its own slot, whoever created it, and a release for that game   *)
(* takes only reservations of that slot.                                   *)
SlotsStayApart ==
    /\ \A s \in Slots : result[s].game # None => game[result[s].game].slot = s
    /\ \A w \in Workers : rel[w].g # None /\ LinkedSlots(rel[w].g) # {} =>
          \A m \in rel[w].picks : match[m].slot = game[rel[w].g].slot

(* A job never meets a game it cannot divide the players of: the process   *)
(* stays up.                                                               *)
NoPanic == ~panicked

-----------------------------------------------------------------------------
(* What must happen in the end.                                            *)

(* A game's last night comes: it is completed and no record of the date is *)
(* left open, so that a credential or the venue can be removed.            *)
EveryGameCloses ==
    \A g \in Games : Created(g) ~> game[g].completed /\ ActiveRows = {}

(* Courts reserved at midnight become a game the group can join.           *)
BookedSlotIsAnnounced ==
    \A s \in Slots : result[s].saved ~>
        \E g \in Games : game[g].slot = s /\ game[g].published

(* A published game gets its capacity reminder, unless the process died.   *)
ReminderIsSent ==
    \A g \in Games : game[g].published ~> game[g].notified \/ panicked

=============================================================================
