------------------------------- MODULE Roster -------------------------------
(***************************************************************************)
(* Who plays in one game: the rows of game_participations and              *)
(* guest_participations, the courts of the game they share, and the        *)
(* transactions that add a guest.  The operators here are the statements   *)
(* that change the tables; Announcement says who runs them and what is     *)
(* shown of them.                                                          *)
(***************************************************************************)
EXTENDS Integers, FiniteSets

CONSTANTS
    Players,           \* players of the group
    Taps,              \* concurrent "+1" requests
    PlayersPerCourt,   \* games.players_per_court
    MaxCourts,         \* bound: courts of the game
    MaxGuests          \* bound: guest rows ever inserted

ASSUME RosterAssumption ==
    /\ PlayersPerCourt \in Nat /\ MaxCourts \in Nat /\ MaxGuests \in Nat

VARIABLES
    courts,     \* games.courts_count
    status,     \* [Players -> status of the player's participation row]
    guests,     \* rows of guest_participations
    nextGuest,  \* the table's id sequence
    tap         \* [Taps -> the transaction the request is in]

rosterVars == <<courts, status, guests, nextGuest, tap>>

Guest == [id : Nat, by : Players]

(* After the count a transaction holds the game's advisory lock; it has    *)
(* seen room for one more and `counted` guests.                            *)
IdleTap == [pc |-> "idle"]
Tap == {IdleTap} \cup [pc : {"counted"}, by : Players, counted : Nat]

registered == {p \in Players : status[p] = "registered"}
Capacity == courts * PlayersPerCourt
Occupancy == Cardinality(registered) + Cardinality(guests)
LockFree == \A t \in Taps : tap[t] = IdleTap
GuestsOf(p) == {g \in guests : g.by = p}

RosterInit ==
    /\ courts \in 1..MaxCourts
    /\ status = [p \in Players |-> "none"]
    /\ guests = {}
    /\ nextGuest = 1
    /\ tap = [t \in Taps |-> IdleTap]

-----------------------------------------------------------------------------
(* ParticipationRepo.Upsert and DeleteByGameAndPlayer.                     *)
SetStatus(p, s) ==
    /\ status' = [status EXCEPT ![p] = s]
    /\ UNCHANGED <<courts, guests, nextGuest, tap>>

(* Mutant: the seats are counted without the advisory lock.                *)
CountWithoutLock(t, p) ==
    /\ tap[t] = IdleTap
    /\ nextGuest <= MaxGuests
    /\ Occupancy < Capacity
    /\ tap' = [tap EXCEPT ![t] =
                 [pc |-> "counted", by |-> p, counted |-> Cardinality(guests)]]
    /\ UNCHANGED <<courts, status, guests, nextGuest>>

(* GuestRepo.AddGuest: the lock is taken, the seats are counted in one     *)
(* query, and a full game ends the transaction with nothing changed.       *)
CountSeats(t, p) ==
    /\ LockFree
    /\ nextGuest <= MaxGuests
    /\ Occupancy < Capacity
    /\ tap' = [tap EXCEPT ![t] =
                 [pc |-> "counted", by |-> p, counted |-> Cardinality(guests)]]
    /\ UNCHANGED <<courts, status, guests, nextGuest>>

(* The row is inserted and committed, which releases the lock.             *)
InsertGuest(t) ==
    /\ tap[t].pc = "counted"
    /\ guests' = guests \cup {[id |-> nextGuest, by |-> tap[t].by]}
    /\ nextGuest' = nextGuest + 1
    /\ tap' = [tap EXCEPT ![t] = IdleTap]
    /\ UNCHANGED <<courts, status>>

(* The insert or the commit fails and the transaction is rolled back.      *)
Rollback(t) ==
    /\ tap[t].pc = "counted"
    /\ tap' = [tap EXCEPT ![t] = IdleTap]
    /\ UNCHANGED <<courts, status, guests, nextGuest>>

(* RemoveLatestGuest of one inviter.                                       *)
DeleteLatestGuest(p) ==
    /\ \E g \in GuestsOf(p) :
         /\ \A h \in GuestsOf(p) : h.id <= g.id
         /\ guests' = guests \ {g}
    /\ UNCHANGED <<courts, status, nextGuest, tap>>

(* DeleteByID of a guest an admin picked.                                  *)
DeleteGuest(g) ==
    /\ g \in guests
    /\ guests' = guests \ {g}
    /\ UNCHANGED <<courts, status, nextGuest, tap>>

(* GameRepo.UpdateCourts.                                                  *)
SetCourts(n) ==
    /\ courts' = n
    /\ UNCHANGED <<status, guests, nextGuest, tap>>

-----------------------------------------------------------------------------
(* The tables have their types.                                            *)
RosterTypeOK ==
    /\ courts \in 0..MaxCourts
    /\ status \in [Players -> {"none", "registered", "skipped"}]
    /\ guests \subseteq Guest /\ IsFiniteSet(guests)
    /\ nextGuest \in Nat
    /\ tap \in [Taps -> Tap]

(* A seat that was counted free of guests is not given to another guest    *)
(* before the row is inserted: whatever players and admins do meanwhile,   *)
(* the table holds no more guests than were counted (guest_repo.go:34,     *)
(* participation_handlers.go:64).  Joins take no lock, so that a player    *)
(* may still fill the seat.                                                *)
CountedSeatKept ==
    \A t \in Taps : tap[t].pc = "counted" => Cardinality(guests) <= tap[t].counted
=============================================================================
