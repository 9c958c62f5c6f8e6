---------------------------- MODULE BookingFlow -----------------------------
(***************************************************************************)
(* Reserving courts and putting games up: the midnight auto-booking job,   *)
(* the 10:00 booking reminder that publishes what it created, and an       *)
(* admin's on-demand booking for an existing game.  Auto-booking and the   *)
(* on-demand booking share bookFreeCourts: the steps "list", "book" and    *)
(* "save" below.                                                           *)
(***************************************************************************)
EXTENDS CourtState

CONSTANT FlagLoaded   \* GameRepo.GetByID fills Venue.AutoBookingEnabled

ASSUME FlagAssumption == FlagLoaded \in BOOLEAN

VARIABLE bkg    \* what each worker has read and is doing

BookFrame == [pc : {"idle", "dedup", "list", "book", "save", "append",
                    "create", "link", "post", "announce", "stamp", "refused"},
              todo : SUBSET Slots,           \* slots or results still to do
              seen : [Slots -> Result],      \* the results as they were read
              slot : Slots \cup {None},      \* the slot at hand
              free : SUBSET Labels,          \* free courts not yet tried
              creds : SUBSET Creds,          \* accounts not yet used up
              left : Nat,                    \* courts still wanted
              lim : Nat,                     \* courts left to the first account
              m : Matches \cup {None},       \* the match just reserved
              got : SUBSET Labels,           \* courts reserved so far
              g : Games \cup {None},         \* the game at hand
              old : SUBSET Labels]           \* its list as it was read

IdleBook == [pc |-> "idle", todo |-> {}, seen |-> [s \in Slots |-> NoResult], slot |-> None,
             free |-> {}, creds |-> {}, left |-> 0, lim |-> 0, m |-> None,
             got |-> {}, g |-> None, old |-> {}]

BookTypeOK == bkg \in [Workers -> BookFrame]
BookInit == bkg = [w \in Workers |-> IdleBook]

Step(w, pc) == bkg' = [bkg EXCEPT ![w].pc = pc]

(* The next slot of the job, or its end; an admin's request just ends.     *)
Continue(w, todo, pc, endpc) ==
    IF w \in Admins THEN bkg' = [bkg EXCEPT ![w] = IdleBook] /\ UNCHANGED at
    ELSE IF todo = {}
    THEN IF endpc = "idle"
         THEN bkg' = [bkg EXCEPT ![w] = IdleBook] /\ NextJob(w)
         ELSE bkg' = [bkg EXCEPT ![w] = [IdleBook EXCEPT !.pc = endpc]] /\ UNCHANGED at
    ELSE /\ \E s \in todo :
              /\ \A u \in todo : s <= u
              /\ bkg' = [bkg EXCEPT ![w] = [IdleBook EXCEPT
                            !.pc = pc, !.todo = todo, !.seen = bkg[w].seen, !.slot = s]]
         /\ UNCHANGED at

Rest(w) == bkg[w].todo \ {bkg[w].slot}
NextSlot(w) == IF w \in Pollers /\ AtJob(w, "booking_reminder")
               THEN Continue(w, Rest(w), "announce", "stamp")
               ELSE Continue(w, Rest(w), "dedup", "idle")

-----------------------------------------------------------------------------
(* Auto-booking: at the opening midnight, every preferred time in turn.    *)
StartAutoBooking(w) ==
    /\ w \in Pollers /\ AtJob(w, "auto_booking") /\ bkg[w].pc = "idle"
    /\ \/ Works /\ Continue(w, IF InWindow(OpensAt) THEN Slots ELSE {}, "dedup", "idle")
       \/ Fails("read") /\ Continue(w, {}, "dedup", "idle")
    /\ UNCHANGED <<bookVars, planVars, cooling>>

(* Mutant: no look at the results of an earlier poll.                      *)
BookAgain(w) ==
    /\ bkg[w].pc = "dedup" /\ Works
    /\ bkg' = [bkg EXCEPT ![w].pc = "list", ![w].left = CourtsPerSlot]
    /\ UNCHANGED <<at, bookVars, planVars, cooling>>

(* A slot with a result is done; one whose lookup fails is left alone.     *)
DedupSlot(w) ==
    /\ bkg[w].pc = "dedup"
    /\ \/ /\ Works
          /\ IF result[bkg[w].slot].saved THEN NextSlot(w)
             ELSE /\ bkg' = [bkg EXCEPT ![w].pc = "list", ![w].left = CourtsPerSlot]
                  /\ UNCHANGED at
       \/ Fails("read") /\ NextSlot(w)
    /\ UNCHANGED <<bookVars, planVars, cooling>>

-----------------------------------------------------------------------------
(* bookFreeCourts.                                                         *)

Least(a, b) == IF a < b THEN a ELSE b

(* ListForBooking leaves out the accounts in cooldown; a court with a      *)
(* match at the slot's start is occupied.  No account or no free court:    *)
(* nothing is booked and the caller is done with the slot.                 *)
ListFree(w) ==
    /\ bkg[w].pc = "list"
    /\ LET all == [i \in DOMAIN Facility |-> [id |-> Facility[i], num |-> Facility[i]]]
           taken == {match[m].court : m \in LiveAt(bkg[w].slot)}
           free == ToSet(filterFreeCourts(all, taken, Labels, Preferred)) \cap Labels
           usable == Creds \ cooling
       IN  \/ /\ free # {} /\ usable # {} /\ bkg[w].left > 0 /\ Works
              /\ bkg' = [bkg EXCEPT ![w].pc = "book", ![w].free = free, ![w].creds = usable,
                                    ![w].lim = Least(MaxCourts, bkg[w].left)]
              /\ UNCHANGED at
           \/ (free = {} \/ usable = {} \/ bkg[w].left = 0) /\ Works /\ NextSlot(w)
           \/ (Fails("read") \/ Fails("book")) /\ NextSlot(w)
    /\ UNCHANGED <<bookVars, planVars, cooling>>

(* The court tried next: the order of filterFreeCourts among those left.   *)
IsNextCourt(w, c) ==
    LET all == [i \in DOMAIN Facility |-> [id |-> Facility[i], num |-> Facility[i]]]
        order == filterFreeCourts(all, Labels \ bkg[w].free, Labels, Preferred)
    IN  order # <<>> /\ c = Head(order)

IsFirstCred(w, c) == c \in bkg[w].creds /\ \A d \in bkg[w].creds : c <= d

(* The rotation is over: enough courts, no court or no account left.       *)
Booked(w) ==
    bkg[w].pc = "book" /\ (bkg[w].left = 0 \/ bkg[w].free = {} \/ bkg[w].creds = {})

(* Mutant: an account is never used up.                                    *)
ReservedUnlimited(f, c, m, k) ==
    [f EXCEPT !.pc = "save", !.m = m, !.free = @ \ {c}, !.got = @ \cup {c},
              !.left = @ - 1, !.lim = @ - 1]

(* The frame after court c was reserved as m by account k.                 *)
Reserved(f, c, m, k) ==
    LET spent == f.lim = 1
    IN  [f EXCEPT !.pc = "save", !.m = m, !.free = @ \ {c}, !.got = @ \cup {c},
                  !.left = @ - 1,
                  !.creds = IF spent THEN @ \ {k} ELSE @,
                  !.lim = IF spent THEN Least(MaxCourts, f.left - 1) ELSE @ - 1]

(* The frame after account k failed: the court goes back for the next one. *)
Rotated(f, k) == [f EXCEPT !.creds = @ \ {k}, !.lim = Least(MaxCourts, f.left)]

FreshMatches == {m \in Matches : match[m].st = "unused"
                                 /\ \A n \in Matches : n < m => match[n].st # "unused"}

(* BookMatch.  The platform refuses a court that is taken; any error, a    *)
(* lost answer to a booking that did happen included, is held against the  *)
(* account: it cools down and the next one tries the same court.  (That     *)
(* MarkError itself fails is the same as an early CooldownExpires.)        *)
BookCourt(w) ==
    /\ bkg[w].pc = "book" /\ ~Booked(w)
    /\ \E c \in bkg[w].free, k \in bkg[w].creds, m \in FreshMatches :
          LET s == bkg[w].slot
              taken == \E n \in LiveAt(s) : match[n].court = c
              reserve == match' = [match EXCEPT ![m] = [st |-> "live", slot |-> s, court |-> c]]
              blame == /\ bkg' = [bkg EXCEPT ![w] = Rotated(@, k)]
                       /\ cooling' = cooling \cup {k}
          IN  /\ IsNextCourt(w, c) /\ IsFirstCred(w, k)
              /\ \/ /\ ~taken /\ Works /\ reserve
                    /\ bkg' = [bkg EXCEPT ![w] = Reserved(@, c, m, k)]
                    /\ UNCHANGED cooling
                 \/ taken /\ Works /\ blame /\ UNCHANGED match
                 \/ Fails("book") /\ blame /\ UNCHANGED match
                 \/ ~taken /\ Fails("lost") /\ blame /\ reserve
    /\ UNCHANGED <<at, row, planVars>>

(* CourtBookingRepo.Save; a failure is only logged.                        *)
SaveBooking(w) ==
    /\ bkg[w].pc = "save"
    /\ \/ Works /\ row' = [row EXCEPT ![bkg[w].m] = IF @ = "none" THEN "active" ELSE @]
       \/ Fails("write") /\ UNCHANGED row
    /\ bkg' = [bkg EXCEPT ![w].pc = "book", ![w].m = None]
    /\ UNCHANGED <<at, match, planVars, cooling>>

-----------------------------------------------------------------------------
(* What the callers make of it.                                            *)

NothingBooked(w) ==
    /\ Booked(w) /\ bkg[w].got = {}
    /\ NextSlot(w) /\ Works
    /\ UNCHANGED <<bookVars, planVars, cooling>>

(* BookGameCourts appends to the list it read before booking.              *)
AppendCourts(w) ==
    /\ Booked(w) /\ bkg[w].got # {} /\ w \in Admins
    /\ LET all == bkg[w].old \cup bkg[w].got
       IN  \/ /\ Works /\ UpdateCourts(bkg[w].g, all, Cardinality(all))
              /\ Step(w, "append")
           \/ /\ Fails("write") /\ UNCHANGED game
              /\ bkg' = [bkg EXCEPT ![w] = IdleBook]
    /\ UNCHANGED <<at, bookVars, result, players, reminded, cooling>>

(* AutoBookingResultRepo.Save: an existing row keeps its courts and game.  *)
(* The on-demand booking saves one where it finds none for the slot, or    *)
(* cannot tell.                                                            *)
SaveResult(w) ==
    /\ \/ Booked(w) /\ bkg[w].got # {} /\ w \in Pollers
       \/ bkg[w].pc = "append"
    /\ \/ /\ IF bkg[w].pc = "append" /\ result[bkg[w].slot].saved
             THEN Fails("read") ELSE Works
          /\ result' = [result EXCEPT ![bkg[w].slot] =
                IF @.saved THEN @ ELSE [saved |-> TRUE, courts |-> bkg[w].got, game |-> None]]
          /\ Step(w, IF w \in Admins THEN "link" ELSE "create") /\ UNCHANGED at
       \/ /\ bkg[w].pc = "append" => ~result[bkg[w].slot].saved
          /\ Fails("write") /\ UNCHANGED result /\ NextSlot(w)
    /\ UNCHANGED <<bookVars, game, players, reminded, cooling>>

KeepResult(w) ==
    /\ bkg[w].pc = "append" /\ result[bkg[w].slot].saved
    /\ NextSlot(w) /\ Works
    /\ UNCHANGED <<bookVars, planVars, cooling>>

(* createUnpublishedGame, and createGameAndAnnounce for a result that has  *)
(* no game at 10:00.                                                       *)
CreateGame(w) ==
    /\ bkg[w].pc = "create"
    /\ LET s == bkg[w].slot
           courts == IF AtJob(w, "auto_booking") THEN bkg[w].got ELSE bkg[w].seen[s].courts
       IN  \/ \E g \in FreshGames :
                 /\ Works
                 /\ game' = [game EXCEPT ![g] = NewGame(s, courts, Cardinality(courts))]
                 /\ bkg' = [bkg EXCEPT ![w].pc = "link", ![w].g = g]
                 /\ UNCHANGED at
           \/ Fails("write") /\ UNCHANGED game /\ NextSlot(w)
    /\ UNCHANGED <<bookVars, result, players, reminded, cooling>>

(* Mutant: SetGameID never reaches the database.                           *)
LinkNothing(w) ==
    /\ bkg[w].pc = "link" /\ Works
    /\ IF w \in Pollers /\ AtJob(w, "booking_reminder")
       THEN Step(w, "post") /\ UNCHANGED at
       ELSE NextSlot(w)
    /\ UNCHANGED <<bookVars, result, game, players, reminded, cooling>>

(* Mutant: every result of the date is linked to the game.                 *)
LinkWholeDate(w) ==
    /\ bkg[w].pc = "link" /\ Works
    /\ result' = [s \in Slots |-> [result[s] EXCEPT !.game = bkg[w].g]]
    /\ NextSlot(w)
    /\ UNCHANGED <<bookVars, game, players, reminded, cooling>>

(* SetGameID; without it the game is only found by venue and date.         *)
LinkResult(w) ==
    /\ bkg[w].pc = "link"
    /\ \/ Works /\ result' = [result EXCEPT ![bkg[w].slot].game = bkg[w].g]
       \/ Fails("write") /\ UNCHANGED result
    /\ IF w \in Pollers /\ AtJob(w, "booking_reminder")
       THEN Step(w, "post") /\ UNCHANGED at
       ELSE NextSlot(w)
    /\ UNCHANGED <<bookVars, game, players, reminded, cooling>>

-----------------------------------------------------------------------------
(* Booking reminder: at 10:00, once a day, publish what midnight created.  *)
(* Without the groups or venues there is nothing to do; without the        *)
(* results the admins are told to book, which counts as done.              *)
StartBookingReminder(w) ==
    /\ w \in Pollers /\ AtJob(w, "booking_reminder") /\ bkg[w].pc = "idle"
    /\ LET saved == {s \in Slots : result[s].saved}
           due == InWindow(AnnounceAt) /\ ~reminded
       IN  \/ ~due /\ Works /\ Continue(w, {}, "announce", "idle")
           \/ Fails("read") /\ Continue(w, {}, "announce", "idle")
           \/ due /\ Fails("read") /\ Continue(w, {}, "announce", "stamp")
           \/ due /\ saved = {} /\ Works /\ Continue(w, {}, "announce", "stamp")
           \/ /\ due /\ saved # {} /\ Works /\ UNCHANGED at
              /\ \E s \in saved :
                    /\ \A u \in saved : s <= u
                    /\ bkg' = [bkg EXCEPT ![w] = [IdleBook EXCEPT
                         !.pc = "announce", !.todo = saved, !.seen = result, !.slot = s]]
    /\ UNCHANGED <<bookVars, planVars, cooling>>

(* PublishGame for a linked game.  A game that is published, or cannot be  *)
(* read, or whose announcement fails, is not tried again.                  *)
Publish(g) == game' = [game EXCEPT ![g].published = TRUE]

(* Mutant: a linked game counts as published.                              *)
SkipLinked(w) ==
    /\ bkg[w].pc = "announce" /\ Works
    /\ IF bkg[w].seen[bkg[w].slot].game = None
       THEN UNCHANGED at /\ Step(w, "create")
       ELSE NextSlot(w)
    /\ UNCHANGED <<bookVars, result, game, players, reminded, cooling>>

AnnounceResult(w) ==
    /\ bkg[w].pc = "announce"
    /\ LET g == bkg[w].seen[bkg[w].slot].game
       IN  IF g = None
           THEN Works /\ UNCHANGED <<at, game>> /\ Step(w, "create")
           ELSE /\ \/ Works /\ Publish(g)
                   \/ /\ ~game[g].published
                      /\ Fails("telegram") \/ Fails("read") \/ Fails("write")
                      /\ UNCHANGED game
                /\ NextSlot(w)
    /\ UNCHANGED <<bookVars, result, players, reminded, cooling>>

(* The announcement of a game createGameAndAnnounce has just created.      *)
PostNewGame(w) ==
    /\ bkg[w].pc = "post"
    /\ \/ Works /\ Publish(bkg[w].g)
       \/ (Fails("telegram") \/ Fails("read") \/ Fails("write")) /\ UNCHANGED game
    /\ NextSlot(w)
    /\ UNCHANGED <<bookVars, result, players, reminded, cooling>>

(* SetLastBookingReminderAt, reached however the announcements went; only  *)
(* a message to the admins that could not be sent leaves it out.           *)
StampReminder(w) ==
    /\ bkg[w].pc = "stamp"
    /\ \/ Works /\ reminded' = TRUE
       \/ (Fails("write") \/ Fails("telegram")) /\ UNCHANGED reminded
    /\ bkg' = [bkg EXCEPT ![w] = IdleBook] /\ NextJob(w)
    /\ UNCHANGED <<bookVars, result, game, players, cooling>>

-----------------------------------------------------------------------------
(* Admin requests.                                                         *)

(* BookGameCourts for an existing game; the venue it reads says whether    *)
(* auto-booking is on.  Without it, or without the game, it is refused.    *)
BookGameCourts(w, g, count) ==
    /\ w \in Admins /\ bkg[w].pc = "idle" /\ Created(g)
    /\ \/ /\ FlagLoaded /\ Works
          /\ bkg' = [bkg EXCEPT ![w] =
                [IdleBook EXCEPT !.pc = "list", !.slot = game[g].slot, !.left = count,
                                 !.g = g, !.old = game[g].courts]]
       \/ /\ (~FlagLoaded /\ Works) \/ Fails("read")
          /\ bkg' = [bkg EXCEPT ![w] = [IdleBook EXCEPT !.pc = "refused"]]
    /\ UNCHANGED <<at, bookVars, planVars, cooling>>

Refuse(w) ==
    /\ bkg[w].pc = "refused"
    /\ bkg' = [bkg EXCEPT ![w] = IdleBook]
    /\ Works
    /\ UNCHANGED <<at, bookVars, planVars, cooling>>

(* GameService.CreateGame: an admin's own game, courts taken elsewhere.    *)
CreateManualGame(s, courts) ==
    /\ Admins # {} /\ StartAt[s] > now
    /\ \E g \in FreshGames :
          game' = [game EXCEPT ![g] = NewGame(s, courts, Cardinality(courts))]
    /\ Works
    /\ UNCHANGED <<at, bkg, bookVars, result, players, reminded, cooling>>

(* GameService.PublishGame, as one request that succeeds.                  *)
PublishRequest(g) ==
    /\ Admins # {} /\ Created(g) /\ ~game[g].published
    /\ Publish(g)
    /\ Works
    /\ UNCHANGED <<at, bkg, bookVars, result, players, reminded, cooling>>

-----------------------------------------------------------------------------
BookingStep(w) ==
    /\ \/ StartAutoBooking(w) \/ DedupSlot(w) \/ ListFree(w) \/ BookCourt(w)
       \/ SaveBooking(w) \/ NothingBooked(w) \/ AppendCourts(w) \/ SaveResult(w)
       \/ KeepResult(w) \/ CreateGame(w) \/ LinkResult(w)
       \/ StartBookingReminder(w) \/ AnnounceResult(w) \/ PostNewGame(w)
       \/ StampReminder(w) \/ Refuse(w)
    /\ UNCHANGED clockVars

BookingRequest(w) ==
    /\ \E g \in Games, n \in 1..CourtsPerSlot : BookGameCourts(w, g, n)
    /\ UNCHANGED clockVars

GameRequest ==
    /\ \/ \E s \in Slots, courts \in SUBSET Labels \ {{}} : CreateManualGame(s, courts)
       \/ \E g \in Games : PublishRequest(g)
    /\ UNCHANGED clockVars

=============================================================================
