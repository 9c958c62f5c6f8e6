------------------------ MODULE CourtLifecycleProofs ------------------------
(***************************************************************************)
(* Proofs about CourtLifecycle, for any number of slots, games, matches,   *)
(* courts, accounts, workers, faults, restarts and requests.  The          *)
(* inductive invariant is LedgerInv; it is proved in the form Inv, which   *)
(* says of one frame at a time what LedgerInv says of all of them, so that *)
(* a step has to be looked at for the one frame it changes.  From it       *)
(* follow the type invariant, that no row is closed before its             *)
(* reservation is given back, and the refinement of CourtLedger.  With     *)
(* FollowInv beside it the records keep up with the platform, where no     *)
(* write fails, no answer is lost and the process is not restarted.        *)
(* Where besides the polls finish within their interval and no admin is at *)
(* work, nine invariants more, each on some of the ones before it, say     *)
(* what the tables, the platform and the one poll at work know of each     *)
(* other: OnePoll, PlanInv (one game per slot), HeldInv (what is reserved  *)
(* for a slot), ApartInv (what a release takes), ListInv (what games       *)
(* list), SeatsInv (what a release leaves), JobInv (which games the job at *)
(* hand may meet), HalfInv (what the halfway check leaves) and SpareInv    *)
(* (what the two jobs that free all that is unneeded leave).               *)
(***************************************************************************)
EXTENDS CourtProperties, CourtSelectionLemmas

-----------------------------------------------------------------------------
(* The invariant, one frame at a time.                                     *)

(* A list of courts has a length.                                          *)
LEMMA LabelsCount ==
    ASSUME NEW S \in SUBSET Labels
    PROVE  Cardinality(S) \in Nat
BY CourtsAssumption, FS_Subset, FS_CardinalityType

(* What holds of worker w with release frame f at job i, when the clock    *)
(* shows n and the platform holds mt.                                      *)
RelOK(f, w, i, n, mt) ==
    /\ f \in Frame
    /\ f.pc # "idle" => f.g \in Games
    /\ f.pc \notin {"idle", "load", "cancel", "row"} => w \in Pollers
    /\ f.pc = "row" => f.m \in Matches /\ mt[f.m].st = "canceled"
    /\ \A m \in f.picks : mt[m].st # "unused"
    /\ w \in Pollers /\ f.pc # "idle" =>
          /\ i \in DOMAIN Jobs /\ Jobs[i] \in ReleaseJobs
          /\ Jobs[i] = "cleanup" => n >= CleanupAt /\ f.pc \in {"begin", "complete", "rows"}
    /\ f.pc \in {"complete", "rows"} => i \in DOMAIN Jobs /\ Jobs[i] = "cleanup"

(* The same for its booking frame.                                         *)
BkgOK(f, w, i, mt) ==
    /\ f \in BookFrame
    /\ f.pc \notin {"idle", "stamp", "refused"} => f.slot \in Slots
    /\ f.pc \in {"book", "save"} /\ f.left > 0 => f.lim > 0
    /\ f.pc = "save" => f.m \in Matches /\ mt[f.m].st # "unused"
    /\ f.pc \in {"announce", "create", "post", "stamp"} => w \in Pollers
    /\ w \in Pollers /\ f.pc # "idle" =>
          i \in DOMAIN Jobs /\ Jobs[i] \in {"auto_booking", "booking_reminder"}

(* What holds of the reservations mt and their rows rw at time n.          *)
TablesOK(n, mt, rw) ==
    /\ mt \in [Matches -> Match]
    /\ rw \in [Matches -> {"none", "active", "canceled"}]
    /\ \A m \in Matches :
          /\ rw[m] # "none" => mt[m].st # "unused"
          /\ mt[m].st # "unused" => mt[m].court \in Labels
          /\ rw[m] = "canceled" => mt[m].st = "canceled" \/ n >= CleanupAt

(* The types of everything else.                                           *)
RestOK ==
    /\ now \in Nat /\ polled \in BOOLEAN
    /\ at \in [Pollers -> Nat]
    /\ result \in [Slots -> Result]
    /\ game \in [Games -> Game]
    /\ players \in [Games -> Nat]
    /\ reminded \in BOOLEAN
    /\ cooling \subseteq Creds
    /\ faults \in Nat /\ crashes \in Nat /\ panicked \in BOOLEAN
    /\ requests \in Nat
    /\ DOMAIN rel = Workers /\ DOMAIN bkg = Workers

Inv ==
    /\ RestOK
    /\ TablesOK(now, match, row)
    /\ \A w \in Workers : RelOK(rel[w], w, at[w], now, match) /\ BkgOK(bkg[w], w, at[w], match)
    /\ rel = [w \in Workers |-> rel[w]] /\ bkg = [w \in Workers |-> bkg[w]]

(* Inv is LedgerInv, regrouped.                                            *)
LEMMA InvIsLedgerInv == Inv <=> LedgerInv
<1>1. ASSUME Inv PROVE LedgerInv
  <2>1. TypeOK
    BY <1>1 DEF Inv, RestOK, TablesOK, RelOK, BkgOK, TypeOK, StateTypeOK, ReleaseTypeOK, BookTypeOK
  <2>2. FramesAreFilled
    BY <1>1 DEF Inv, RelOK, BkgOK, FramesAreFilled
  <2>3. PollsTakeTurns
    BY <1>1 DEF Inv, RelOK, BkgOK, PollsTakeTurns, AtJob, Workers
  <2>4. RecordsComeAfter /\ RowCanceledIsReleased
    BY <1>1 DEF Inv, RelOK, BkgOK, TablesOK, RecordsComeAfter, RowCanceledIsReleased
  <2> QED BY <2>1, <2>2, <2>3, <2>4 DEF LedgerInv
<1>2. ASSUME LedgerInv PROVE Inv
  <2>1. RestOK
    BY <1>2 DEF LedgerInv, RestOK, TypeOK, StateTypeOK, ReleaseTypeOK, BookTypeOK
  <2>2. TablesOK(now, match, row)
    BY <1>2 DEF LedgerInv, TablesOK, RecordsComeAfter, RowCanceledIsReleased, TypeOK, StateTypeOK
  <2>3. ASSUME NEW w \in Workers PROVE RelOK(rel[w], w, at[w], now, match)
    BY <1>2 DEF LedgerInv, TypeOK, ReleaseTypeOK, FramesAreFilled, PollsTakeTurns, RecordsComeAfter, RelOK, AtJob, ReleaseJobs
  <2>4. ASSUME NEW w \in Workers PROVE BkgOK(bkg[w], w, at[w], match)
    BY <1>2 DEF LedgerInv, TypeOK, BookTypeOK, FramesAreFilled, PollsTakeTurns, RecordsComeAfter, BkgOK, AtJob
  <2>5. rel = [w \in Workers |-> rel[w]] /\ bkg = [w \in Workers |-> bkg[w]]
    BY <1>2 DEF LedgerInv, TypeOK, ReleaseTypeOK, BookTypeOK
  <2> QED BY <2>1, <2>2, <2>3, <2>4, <2>5 DEF Inv
<1> QED BY <1>1, <1>2

-----------------------------------------------------------------------------
(* What a step of one worker leaves to the others.                         *)

(* Reservations are never taken back to an earlier stage.                  *)
TablesMove ==
    \A m \in Matches : match[m].st # "unused" =>
        /\ match'[m].st # "unused"
        /\ match[m].st = "canceled" => match'[m].st = "canceled"

(* A frame that does not change stays fit while time passes and            *)
(* reservations move on.                                                   *)
LEMMA RelStays ==
    ASSUME NEW f, NEW w \in Workers, NEW i, RelOK(f, w, i, now, match),
           now \in Nat, now' \in Nat, now' >= now, TablesMove
    PROVE  RelOK(f, w, i, now', match')
BY TimeAssumption DEF RelOK, TablesMove, Frame

(* The same for a booking frame.                                           *)
LEMMA BkgStays ==
    ASSUME NEW f, NEW w \in Workers, NEW i, BkgOK(f, w, i, match), TablesMove
    PROVE  BkgOK(f, w, i, match')
BY DEF BkgOK, TablesMove, BookFrame

(* A step that changes the release frame of one worker keeps Inv if the    *)
(* new frame is fit; it may move the poll on only when no booking job is   *)
(* under way in it.                                                        *)
LEMMA ReleaseKeeps ==
    ASSUME Inv, RestOK', TablesOK(now', match', row'), now' = now, TablesMove,
           NEW w \in Workers, NEW f, rel' = [rel EXCEPT ![w] = f],
           RelOK(f, w, at'[w], now, match'), bkg' = bkg,
           \A p \in Pollers : p # w => at'[p] = at[p],
           w \in Pollers => at'[w] = at[w] \/ bkg[w].pc = "idle"
    PROVE  Inv'
<1>1. ASSUME NEW u \in Workers PROVE RelOK(rel'[u], u, at'[u], now', match')
  <2>1. CASE u = w
    BY <2>1 DEF Inv
  <2>2. CASE u # w
    <3>1. rel'[u] = rel[u] /\ (u \in Pollers => at'[u] = at[u])
      BY <2>2 DEF Inv
    <3>2. RelOK(rel[u], u, at'[u], now, match)
      BY <3>1 DEF Inv, RelOK
    <3> QED BY <3>1, <3>2, RelStays DEF Inv, RestOK
  <2> QED BY <2>1, <2>2
<1>2. ASSUME NEW u \in Workers PROVE BkgOK(bkg'[u], u, at'[u], match')
  <2>1. BkgOK(bkg[u], u, at'[u], match)
    BY DEF Inv, BkgOK
  <2> QED BY <2>1, BkgStays
<1> QED BY <1>1, <1>2 DEF Inv

(* The same for a step of the booking flow.                                *)
LEMMA BookKeeps ==
    ASSUME Inv, RestOK', TablesOK(now', match', row'), now' = now, TablesMove,
           NEW w \in Workers, NEW f, bkg' = [bkg EXCEPT ![w] = f],
           BkgOK(f, w, at'[w], match'), rel' = rel,
           \A p \in Pollers : p # w => at'[p] = at[p],
           w \in Pollers => at'[w] = at[w] \/ rel[w].pc = "idle"
    PROVE  Inv'
<1>1. ASSUME NEW u \in Workers PROVE BkgOK(bkg'[u], u, at'[u], match')
  <2>1. CASE u = w
    BY <2>1 DEF Inv
  <2>2. CASE u # w
    <3>1. bkg'[u] = bkg[u] /\ (u \in Pollers => at'[u] = at[u])
      BY <2>2 DEF Inv
    <3>2. BkgOK(bkg[u], u, at'[u], match)
      BY <3>1 DEF Inv, BkgOK
    <3> QED BY <3>1, <3>2, BkgStays
  <2> QED BY <2>1, <2>2
<1>2. ASSUME NEW u \in Workers PROVE RelOK(rel'[u], u, at'[u], now', match')
  <2>1. RelOK(rel[u], u, at'[u], now, match)
    BY DEF Inv, RelOK
  <2> QED BY <2>1, RelStays DEF Inv, RestOK
<1> QED BY <1>1, <1>2 DEF Inv

-----------------------------------------------------------------------------
(* The release flow.                                                       *)

(* A worker that does nothing is fit at any time.                          *)
LEMMA IdleFrameFits ==
    ASSUME NEW w, NEW i, NEW n, NEW mt
    PROVE  RelOK(IdleFrame, w, i, n, mt)
<1>1. IdleFrame \in Frame
  BY DEF IdleFrame, Frame, Game, NoGame
<1> QED BY <1>1 DEF IdleFrame, RelOK

(* Taking up the first game of a list, or ending the job, leads to a fit   *)
(* frame; a cleanup that has a game to take up runs after the date.        *)
LEMMA ProceedSteps ==
    ASSUME Inv, NEW w \in Pollers, NEW todo \in SUBSET Games, NEW snap \in [Games -> Game],
           NEW t \in Nat, Proceed(w, todo, snap, t),
           at[w] \in DOMAIN Jobs, Jobs[at[w]] \in ReleaseJobs,
           todo # {} /\ Jobs[at[w]] = "cleanup" => now >= CleanupAt
    PROVE  /\ at' \in [Pollers -> Nat]
           /\ \A p \in Pollers : p # w => at'[p] = at[p]
           /\ bkg[w].pc = "idle"
           /\ \E f : rel' = [rel EXCEPT ![w] = f] /\ RelOK(f, w, at'[w], now, match)
<1>1. bkg[w].pc = "idle"
  BY DEF Inv, BkgOK, ReleaseJobs, Workers
<1>2. CASE todo = {}
  <2>2. RelOK(IdleFrame, w, at'[w], now, match)
    BY IdleFrameFits
  <2>3. rel' = [rel EXCEPT ![w] = IdleFrame] /\ NextJob(w)
    BY <1>2 DEF Proceed
  <2>4. at' \in [Pollers -> Nat] /\ \A p \in Pollers : p # w => at'[p] = at[p]
    BY <2>3 DEF NextJob, Inv, RestOK
  <2> QED BY <1>1, <2>2, <2>3, <2>4
<1>3. CASE todo # {}
  <2>1. PICK g \in todo : rel' = [rel EXCEPT ![w] = [IdleFrame EXCEPT
                            !.pc = "begin", !.todo = todo, !.snap = snap, !.t = t, !.g = g]]
    BY <1>3 DEF Proceed
  <2> DEFINE f == [IdleFrame EXCEPT !.pc = "begin", !.todo = todo, !.snap = snap, !.t = t, !.g = g]
  <2>2. at' = at
    BY <1>3 DEF Proceed
  <2>3. f \in Frame /\ f.pc = "begin" /\ f.g = g /\ f.picks = {}
    BY DEF IdleFrame, Frame, Game, NoGame
  <2>4. RelOK(f, w, at'[w], now, match)
    BY <1>3, <2>2, <2>3 DEF RelOK
  <2> QED BY <1>1, <2>1, <2>2, <2>4 DEF Inv, RestOK
<1> QED BY <1>2, <1>3

(* UpdateCourts stores a list and a number.                                *)
LEMMA UpdateCourtsKeepsType ==
    ASSUME Inv, NEW g, NEW courts \in SUBSET Labels, NEW count \in Nat,
           UpdateCourts(g, courts, count)
    PROVE  game' \in [Games -> Game]
<1>1. \A r \in Game : [r EXCEPT !.courts = courts, !.count = count] \in Game
  BY DEF Game
<1> QED BY <1>1 DEF UpdateCourts, Inv, RestOK

(* Going on to the next game leads to a fit frame.                         *)
LEMMA NextGameSteps ==
    ASSUME Inv, NEW w \in Pollers, rel[w].pc # "idle", NextGame(w)
    PROVE  /\ at' \in [Pollers -> Nat]
           /\ \A p \in Pollers : p # w => at'[p] = at[p]
           /\ bkg[w].pc = "idle"
           /\ \E f : rel' = [rel EXCEPT ![w] = f] /\ RelOK(f, w, at'[w], now, match)
<1>1. RelOK(rel[w], w, at[w], now, match)
  BY DEF Inv, Workers
<1>2. /\ rel[w].todo \in SUBSET Games /\ rel[w].snap \in [Games -> Game] /\ rel[w].t \in Nat
      /\ at[w] \in DOMAIN Jobs /\ Jobs[at[w]] \in ReleaseJobs
      /\ Jobs[at[w]] = "cleanup" => now >= CleanupAt
  BY <1>1 DEF RelOK, Frame
<1> QED BY <1>2, ProceedSteps DEF NextGame

(* Whatever loadCourtBookingEntries returns, its fallbacks included, are   *)
(* rows, and so reservations that were made.                               *)
LEMMA EntriesAreRows ==
    ASSUME Inv, NEW g, NEW entries \in loadCourtBookingEntries(g) \cup {{}, ActiveRows}
    PROVE  entries \in SUBSET Matches /\ \A m \in entries : match[m].st # "unused"
<1>1. entries \in SUBSET ActiveRows
  BY DEF loadCourtBookingEntries, ActiveRows, RowsAt
<1> QED BY <1>1 DEF ActiveRows, Inv, TablesOK

(* The selection picks from the entries it is given.                       *)
LEMMA SelectedAreEntries ==
    ASSUME NEW entries, NEW quota
    PROVE  Selected(entries, quota) \in SUBSET entries
BY DEF Selected

(* Every step of the release flow keeps the invariant.                     *)
LEMMA ReleaseStepKeepsInv ==
    ASSUME Inv, NEW w \in Workers, Release(w)
    PROVE  Inv'
<1> DEFINE frame == rel[w]
<1>1. /\ RelOK(frame, w, at[w], now, match)
      /\ frame \in Frame
      /\ UNCHANGED <<now, polled, result, players, reminded, cooling, bkg, requests>>
  BY DEF Inv, RelOK, Release, ReleaseStep, clockVars
<1>2. /\ match' = match /\ row' = row => TablesMove /\ TablesOK(now', match', row')
  BY <1>1 DEF Inv, TablesOK, TablesMove
<1>3. ASSUME at' \in [Pollers -> Nat], game' \in [Games -> Game],
             Works \/ \E kind \in FaultKinds : Fails(kind),
             NEW f, rel' = [rel EXCEPT ![w] = f]
      PROVE  RestOK'
  BY <1>1, <1>3 DEF Inv, RestOK, Works, Fails, faultVars
<1>4. ASSUME UNCHANGED <<match, row, at>>, game' \in [Games -> Game],
             Works \/ \E kind \in FaultKinds : Fails(kind),
             NEW f, rel' = [rel EXCEPT ![w] = f], RelOK(f, w, at[w], now, match)
      PROVE  Inv'
  BY <1>1, <1>2, <1>3, <1>4, ReleaseKeeps DEF Inv, RestOK
<1>5. ASSUME UNCHANGED <<match, row>>, game' \in [Games -> Game], w \in Pollers,
             Works \/ \E kind \in FaultKinds : Fails(kind),
             at' \in [Pollers -> Nat], \A p \in Pollers : p # w => at'[p] = at[p],
             bkg[w].pc = "idle",
             \E f : rel' = [rel EXCEPT ![w] = f] /\ RelOK(f, w, at'[w], now, match)
      PROVE  Inv'
  BY <1>1, <1>2, <1>3, <1>5, ReleaseKeeps
<1>6. CASE QueryGames(w)
  <2>1. PICK job \in ReleaseJobs :
            /\ AtJob(w, job)
            /\ \/ Works /\ Proceed(w, Due(job), game, now)
               \/ Fails("read") /\ Proceed(w, {}, game, now)
    BY <1>6 DEF QueryGames
  <2>2. w \in Pollers /\ UNCHANGED <<match, row, game>>
    BY <1>6 DEF QueryGames, bookVars
  <2>3. at[w] \in DOMAIN Jobs /\ Jobs[at[w]] = job
    BY <2>1 DEF AtJob
  <2>4. Due(job) \in SUBSET Games
    BY DEF Due, ReleaseJobs
  <2>5. Due(job) # {} /\ job = "cleanup" => now >= CleanupAt
    BY TimeAssumption DEF Due, InWindow, Inv, RestOK
  <2> QED BY <1>5, <2>1, <2>2, <2>3, <2>4, <2>5, ProceedSteps DEF Inv, RestOK, Fails
<1>7. CASE BeginHalfway(w)
  <2>1. /\ w \in Pollers /\ UNCHANGED <<match, row, game>> /\ frame.pc = "begin"
        /\ Jobs[at[w]] = "halfway"
    BY <1>1, <1>7 DEF BeginHalfway, bookVars, RelOK, AtJob
  <2> DEFINE to(pc) == [frame EXCEPT !.pc = pc]
  <2>2. ASSUME NEW pc \in {"mark", "count"}, Goto(w, pc), UNCHANGED at,
               Works \/ Fails("read")
        PROVE  Inv'
    <3>1. RelOK(to(pc), w, at[w], now, match)
      BY <1>1, <2>1 DEF RelOK, Frame
    <3>2. rel' = [rel EXCEPT ![w] = to(pc)]
      BY <2>2 DEF Goto
    <3> QED BY <1>4, <2>1, <2>2, <3>1, <3>2 DEF Inv, RestOK, Fails
  <2>3. ASSUME NextGame(w), Works \/ Fails("read") PROVE Inv'
    BY <1>5, <2>1, <2>3, NextGameSteps DEF Inv, RestOK, Fails
  <2> QED BY <1>7, <2>2, <2>3 DEF BeginHalfway
<1>8. CASE CountPlayers(w)
  <2>1. /\ w \in Pollers /\ UNCHANGED <<match, row, game>>
        /\ frame.pc \in {"begin", "count"} /\ Jobs[at[w]] # "cleanup"
    BY <1>1, <1>8 DEF CountPlayers, Counting, bookVars, RelOK, AtJob
  <2>2. CASE Fails("read") /\ NextGame(w)
    BY <1>5, <2>1, <2>2, NextGameSteps DEF Inv, RestOK, Fails
  <2>3. CASE /\ Works /\ UNCHANGED at
             /\ rel' = [rel EXCEPT ![w].pc = "load", ![w].count = players[rel[w].g]]
    <3> DEFINE f == [frame EXCEPT !.pc = "load", !.count = players[frame.g]]
    <3>1. RelOK(f, w, at[w], now, match)
      BY <1>1, <2>1 DEF RelOK, Frame, Inv, RestOK
    <3>2. rel' = [rel EXCEPT ![w] = f]
      BY <2>3
    <3> QED BY <1>4, <2>1, <2>3, <3>1, <3>2 DEF Inv, RestOK
  <2> QED BY <1>8, <2>2, <2>3 DEF CountPlayers
<1>9. CASE LoadBookings(w)
  <2>1. w \in Pollers /\ UNCHANGED <<match, row, at, game>> /\ frame.pc = "load"
    BY <1>9 DEF LoadBookings, bookVars
  <2>2. AfterRelease(w) \in {"tell", "mark"}
    BY DEF AfterRelease
  <2>3. ASSUME Goto(w, AfterRelease(w)), Works \/ Fails("read")
        PROVE  Inv'
    <3> DEFINE f == [frame EXCEPT !.pc = AfterRelease(w)]
    <3>1. RelOK(f, w, at[w], now, match)
      BY <1>1, <2>1, <2>2 DEF RelOK, Frame
    <3>2. rel' = [rel EXCEPT ![w] = f]
      BY <2>3 DEF Goto
    <3> QED BY <1>4, <2>1, <2>3, <3>1, <3>2 DEF Inv, RestOK, Fails
  <2>4. ASSUME NEW entries \in loadCourtBookingEntries(rel[w].g) \cup {{}, ActiveRows},
               rel' = [rel EXCEPT ![w].pc = "cancel",
                                  ![w].picks = Selected(entries, Quota(w))],
               Works \/ Fails("read")
        PROVE  Inv'
    <3> DEFINE picks == Selected(entries, Quota(w))
               f == [frame EXCEPT !.pc = "cancel", !.picks = picks]
    <3>1. picks \in SUBSET Matches /\ \A m \in picks : match[m].st # "unused"
      BY EntriesAreRows, SelectedAreEntries
    <3>2. RelOK(f, w, at[w], now, match)
      <4> HIDE DEF picks
      <4> QED BY <1>1, <2>1, <3>1 DEF RelOK, Frame
    <3>3. rel' = [rel EXCEPT ![w] = f]
      BY <2>4
    <3> QED BY <1>4, <2>1, <2>4, <3>2, <3>3 DEF Inv, RestOK, Fails
  <2> QED BY <1>9, <2>3, <2>4 DEF LoadBookings
<1>10. CASE CancelCourt(w)
  <2>1. UNCHANGED <<row, at, game>> /\ frame.pc = "cancel"
    BY <1>10 DEF CancelCourt
  <2>2. PICK m \in frame.picks :
          \/ /\ Works
             /\ match[m].st \in {"live", "canceled"}
             /\ match' = [match EXCEPT ![m].st = "canceled"]
             /\ rel' = [rel EXCEPT ![w].pc = "row", ![w].m = m,
                                   ![w].picks = @ \ {m},
                                   ![w].gone = @ \cup {match[m].court}]
          \/ /\ match[m].st = "canceled" /\ Works
             /\ rel' = [rel EXCEPT ![w].picks = @ \ {m}]
             /\ UNCHANGED match
          \/ /\ \/ Fails("cancel") /\ UNCHANGED match
                \/ Fails("lost") /\ match' = [match EXCEPT ![m].st = "canceled"]
             /\ rel' = [rel EXCEPT ![w].picks = @ \ {m}]
    BY <1>10 DEF CancelCourt
  <2>3. /\ m \in Matches /\ match[m] \in Match
        /\ match[m].st # "unused" /\ match[m].court \in Labels
    BY <1>1 DEF RelOK, Frame, Inv, TablesOK
  <2>4. TablesMove /\ TablesOK(now', match', row')
    <3>1. [match[m] EXCEPT !.st = "canceled"] \in Match
      BY <2>3 DEF Match
    <3>2. match' = match \/ match' = [match EXCEPT ![m] = [@ EXCEPT !.st = "canceled"]]
      BY <2>2
    <3>3. match' \in [Matches -> Match]
      BY <2>3, <3>1, <3>2 DEF Inv, TablesOK
    <3>4. ASSUME NEW n \in Matches
          PROVE  /\ match'[n].st \in {match[n].st, "canceled"}
                 /\ match[n].st = "unused" => match'[n].st = "unused"
                 /\ match'[n].court = match[n].court
      <4>1. match[n] \in Match
        BY DEF Inv, TablesOK
      <4>2. match'[n] = match[n] \/ (n = m /\ match'[n] = [match[n] EXCEPT !.st = "canceled"])
        BY <2>3, <3>2 DEF Inv, TablesOK
      <4>3. CASE match'[n] = match[n]
        BY <4>3
      <4>4. CASE n = m /\ match'[n] = [match[n] EXCEPT !.st = "canceled"]
        <5>1. match'[n].st = "canceled" /\ match'[n].court = match[n].court
          BY <4>1, <4>4 DEF Match
        <5> QED BY <2>3, <4>4, <5>1
      <4> QED BY <4>2, <4>3, <4>4
    <3>5. TablesMove
      BY <3>4 DEF TablesMove
    <3>6. row' = row /\ now' = now
      BY <1>1, <2>1
    <3>7. TablesOK(now, match, row)
      BY DEF Inv
    <3> QED BY <3>3, <3>4, <3>5, <3>6, <3>7 DEF TablesOK
  <2>5. \E f : rel' = [rel EXCEPT ![w] = f] /\ RelOK(f, w, at[w], now, match')
    <3>1. CASE /\ match' = [match EXCEPT ![m].st = "canceled"]
               /\ rel' = [rel EXCEPT ![w].pc = "row", ![w].m = m,
                                     ![w].picks = @ \ {m},
                                     ![w].gone = @ \cup {match[m].court}]
      <4> DEFINE f == [frame EXCEPT !.pc = "row", !.m = m, !.picks = @ \ {m},
                                    !.gone = @ \cup {match[m].court}]
      <4>1. f \in Frame
        BY <1>1, <2>3 DEF Frame
      <4>2. match'[m].st = "canceled"
        BY <2>3, <3>1 DEF Inv, TablesOK
      <4>3. RelOK(f, w, at[w], now, match')
        BY <1>1, <2>1, <2>3, <2>4, <4>1, <4>2 DEF RelOK, Frame, TablesMove
      <4>4. rel' = [rel EXCEPT ![w] = f]
        BY <3>1
      <4> QED BY <4>3, <4>4
    <3>2. CASE rel' = [rel EXCEPT ![w].picks = @ \ {m}]
      <4> DEFINE f == [frame EXCEPT !.picks = @ \ {m}]
      <4>1. RelOK(f, w, at[w], now, match')
        BY <1>1, <2>1, <2>3, <2>4 DEF RelOK, Frame, TablesMove
      <4>2. rel' = [rel EXCEPT ![w] = f]
        BY <3>2
      <4> QED BY <4>1, <4>2
    <3> QED BY <2>2, <3>1, <3>2
  <2>6. RestOK'
    BY <1>3, <2>1, <2>2, <2>5 DEF Inv, RestOK, Fails
  <2> QED BY <1>1, <2>1, <2>4, <2>5, <2>6, ReleaseKeeps
<1>11. CASE MarkRow(w)
  <2>1. UNCHANGED <<match, at, game>> /\ frame.pc = "row"
    BY <1>11 DEF MarkRow
  <2>2. frame.m \in Matches /\ match[frame.m].st = "canceled"
    BY <1>1, <2>1 DEF RelOK
  <2>3. TablesMove /\ TablesOK(now', match', row')
    BY <1>1, <1>11, <2>1, <2>2 DEF MarkRow, TablesMove, TablesOK, Inv
  <2> DEFINE f == [frame EXCEPT !.pc = "cancel", !.m = None]
  <2>4. RelOK(f, w, at[w], now, match)
    BY <1>1, <2>1 DEF RelOK, Frame
  <2>5. rel' = [rel EXCEPT ![w] = f]
    BY <1>11 DEF MarkRow
  <2>6. RestOK'
    BY <1>3, <1>11, <2>1, <2>5 DEF MarkRow, Inv, RestOK, Fails
  <2> QED BY <1>1, <2>1, <2>3, <2>4, <2>5, <2>6, ReleaseKeeps
<1>12. CASE PersistCourts(w)
  <2>1. UNCHANGED <<match, row, at>> /\ frame.pc = "cancel" /\ w \in Pollers
    BY <1>12 DEF PersistCourts, bookVars
  <2>2. AfterRelease(w) \in {"tell", "mark"}
    BY DEF AfterRelease
  <2> DEFINE f == [frame EXCEPT !.pc = AfterRelease(w)]
  <2>3. RelOK(f, w, at[w], now, match)
    BY <1>1, <2>1, <2>2 DEF RelOK, Frame
  <2>4. rel' = [rel EXCEPT ![w] = f]
    BY <1>12 DEF PersistCourts, Goto
  <2>5. Read(w).courts \ frame.gone \in SUBSET Labels
    BY <1>1, <2>1 DEF RelOK, Frame, Read, Game
  <2>6. game' \in [Games -> Game]
    BY <1>12, <2>5, LabelsCount, UpdateCourtsKeepsType DEF PersistCourts, Inv, RestOK
  <2> QED BY <1>4, <1>12, <2>1, <2>3, <2>4, <2>6 DEF PersistCourts, Fails
<1>13. CASE SendReminder(w)
  <2>1. UNCHANGED <<match, row, game>> /\ frame.pc = "tell" /\ w \in Pollers
    BY <1>1, <1>13 DEF SendReminder, bookVars, RelOK
  <2>2. CASE Fails("telegram") /\ NextGame(w)
    BY <1>5, <2>1, <2>2, NextGameSteps DEF Inv, RestOK, Fails
  <2>3. CASE Works /\ Goto(w, "mark") /\ UNCHANGED at
    <3> DEFINE f == [frame EXCEPT !.pc = "mark"]
    <3>1. RelOK(f, w, at[w], now, match)
      BY <1>1, <2>1 DEF RelOK, Frame
    <3>2. rel' = [rel EXCEPT ![w] = f]
      BY <2>3 DEF Goto
    <3> QED BY <1>4, <2>1, <2>3, <3>1, <3>2 DEF Inv, RestOK
  <2> QED BY <1>13, <2>2, <2>3 DEF SendReminder
<1>14. CASE MarkDone(w)
  <2>1. UNCHANGED <<match, row>> /\ frame.pc = "mark" /\ w \in Pollers /\ NextGame(w)
    BY <1>1, <1>14 DEF MarkDone, bookVars, RelOK
  <2>2. AtJob(w, "reminder") \/ AtJob(w, "halfway") \/ AtJob(w, "final")
    BY <1>1, <2>1 DEF RelOK, AtJob, ReleaseJobs
  <2>3. \A r \in Game : Marked(w, r) \in Game
    BY <2>2 DEF Marked, Game
  <2>4. game' \in [Games -> Game]
    BY <1>14, <2>3 DEF MarkDone, Inv, RestOK
  <2> QED BY <1>5, <1>14, <2>1, <2>4, NextGameSteps DEF MarkDone, Fails
<1>15. CASE CloseMessage(w)
  <2>1. UNCHANGED <<match, row, game>> /\ frame.pc = "begin" /\ w \in Pollers /\ AtJob(w, "cleanup")
    BY <1>1, <1>15 DEF CloseMessage, bookVars, RelOK
  <2>2. CASE (Fails("telegram") \/ Fails("read")) /\ NextGame(w)
    BY <1>5, <2>1, <2>2, NextGameSteps DEF Inv, RestOK, Fails
  <2>3. CASE Works /\ Goto(w, "complete") /\ UNCHANGED at
    <3> DEFINE f == [frame EXCEPT !.pc = "complete"]
    <3>1. RelOK(f, w, at[w], now, match)
      BY <1>1, <2>1 DEF RelOK, Frame, AtJob
    <3>2. rel' = [rel EXCEPT ![w] = f]
      BY <2>3 DEF Goto
    <3> QED BY <1>4, <2>1, <2>3, <3>1, <3>2 DEF Inv, RestOK
  <2> QED BY <1>15, <2>2, <2>3 DEF CloseMessage
<1>16. CASE CompleteGame(w)
  <2>1. UNCHANGED <<match, row>> /\ frame.pc = "complete" /\ w \in Pollers
    BY <1>1, <1>16 DEF CompleteGame, bookVars, RelOK
  <2>2. CASE Fails("write") /\ UNCHANGED game /\ NextGame(w)
    BY <1>5, <2>1, <2>2, NextGameSteps DEF Inv, RestOK, Fails
  <2>3. CASE /\ Works
             /\ game' = [game EXCEPT ![rel[w].g].completed = TRUE]
             /\ Goto(w, "rows") /\ UNCHANGED at
    <3> DEFINE f == [frame EXCEPT !.pc = "rows"]
    <3>1. RelOK(f, w, at[w], now, match)
      BY <1>1, <2>1 DEF RelOK, Frame
    <3>2. rel' = [rel EXCEPT ![w] = f]
      BY <2>3 DEF Goto
    <3>3. \A r \in Game : [r EXCEPT !.completed = TRUE] \in Game
      BY DEF Game
    <3>4. game' \in [Games -> Game]
      BY <2>3, <3>3 DEF Inv, RestOK
    <3> QED BY <1>4, <2>1, <2>3, <3>1, <3>2, <3>4
  <2> QED BY <1>16, <2>2, <2>3 DEF CompleteGame
<1>17. CASE CloseRows(w)
  <2>1. /\ UNCHANGED <<match, game>> /\ frame.pc = "rows" /\ w \in Pollers
        /\ now >= CleanupAt /\ NextGame(w)
    BY <1>1, <1>17 DEF CloseRows, bookVars, RelOK
  <2>2. TablesMove /\ TablesOK(now', match', row')
    BY <1>1, <1>17, <2>1 DEF CloseRows, TablesMove, TablesOK, Inv
  <2>3. Works \/ \E kind \in FaultKinds : Fails(kind)
    BY <1>17 DEF CloseRows, Fails
  <2>4. PICK f : rel' = [rel EXCEPT ![w] = f] /\ RelOK(f, w, at'[w], now, match)
    BY <2>1, NextGameSteps
  <2>5. RestOK'
    BY <1>3, <2>1, <2>3, <2>4, NextGameSteps DEF Inv, RestOK
  <2> QED BY <1>1, <2>1, <2>2, <2>4, <2>5, NextGameSteps, ReleaseKeeps
<1>18. CASE LoadRemoved(w)
  <2>1. UNCHANGED <<match, row, at, game>> /\ frame.pc = "load" /\ w \in Admins
    BY <1>18 DEF LoadRemoved, bookVars
  <2>2. w \notin Pollers
    BY <2>1, WorkersAssumption
  <2>3. ASSUME NEW entries \in loadCourtBookingEntries(rel[w].g) \cup {{}, ActiveRows},
               NEW picks \in SUBSET entries,
               rel' = [rel EXCEPT ![w].pc = "cancel", ![w].picks = picks],
               Works \/ Fails("read")
        PROVE  Inv'
    <3> DEFINE f == [frame EXCEPT !.pc = "cancel", !.picks = picks]
    <3>1. picks \in SUBSET Matches /\ \A m \in picks : match[m].st # "unused"
      BY EntriesAreRows
    <3>2. RelOK(f, w, at[w], now, match)
      BY <1>1, <2>1, <2>2, <3>1 DEF RelOK, Frame
    <3>3. rel' = [rel EXCEPT ![w] = f]
      BY <2>3
    <3> QED BY <1>4, <2>1, <2>3, <3>2, <3>3 DEF Inv, RestOK, Fails
  <2>4. CASE Fails("read") /\ rel' = [rel EXCEPT ![w] = IdleFrame]
    BY <1>4, <2>1, <2>4, IdleFrameFits DEF Inv, RestOK, Fails
  <2> DEFINE Firsts(entries) ==
               {m \in entries :
                   /\ match[m].court \in Read(w).courts \ rel[w].goal
                   /\ \A n \in entries : match[n].court = match[m].court => m <= n}
  <2>5. \/ Fails("read") /\ rel' = [rel EXCEPT ![w] = IdleFrame]
        \/ /\ Works \/ Fails("read")
           /\ \E entries \in loadCourtBookingEntries(rel[w].g) \cup {{}, ActiveRows} :
                 rel' = [rel EXCEPT ![w].pc = "cancel", ![w].picks = Firsts(entries)]
    <3>1. CASE Works /\ \E entries \in loadCourtBookingEntries(rel[w].g) :
                 rel' = [rel EXCEPT ![w].pc = "cancel", ![w].picks = Firsts(entries)]
      BY <3>1
    <3>2. CASE Fails("read") /\ rel' = [rel EXCEPT ![w].pc = "cancel", ![w].picks = Firsts(ActiveRows)]
      BY <3>2
    <3> QED BY <1>18, <3>1, <3>2 DEF LoadRemoved
  <2>6. \A entries : Firsts(entries) \in SUBSET entries
    OBVIOUS
  <2> HIDE DEF Firsts
  <2> QED BY <2>3, <2>4, <2>5, <2>6
<1>19. CASE PersistRemoval(w)
  <2>1. UNCHANGED <<match, row, at>> /\ rel' = [rel EXCEPT ![w] = IdleFrame]
    BY <1>19 DEF PersistRemoval, bookVars
  <2>2. frame.goal \in SUBSET Labels
    BY <1>1 DEF Frame
  <2>3. game' \in [Games -> Game]
    BY <1>19, <2>2, LabelsCount, UpdateCourtsKeepsType DEF PersistRemoval, Inv, RestOK
  <2> QED BY <1>4, <1>19, <2>1, <2>3, IdleFrameFits DEF PersistRemoval, Fails
<1> QED
  BY <1>6, <1>7, <1>8, <1>9, <1>10, <1>11, <1>12, <1>13, <1>14, <1>15, <1>16, <1>17,
     <1>18, <1>19 DEF Release, ReleaseStep

-----------------------------------------------------------------------------
(* The booking flow.                                                       *)

(* A worker that books nothing is fit at any time.                         *)
LEMMA IdleBookFits ==
    ASSUME NEW w, NEW i, NEW mt
    PROVE  BkgOK(IdleBook, w, i, mt)
<1>1. IdleBook \in BookFrame
  BY DEF IdleBook, BookFrame, Result, NoResult
<1> QED BY <1>1 DEF IdleBook, BkgOK

(* Taking up the first slot of a list, or ending the job, leads to a fit   *)
(* frame.                                                                  *)
LEMMA ContinueSteps ==
    ASSUME Inv, NEW w \in Workers, NEW todo \in SUBSET Slots,
           NEW pc \in {"dedup", "announce"}, NEW endpc \in {"idle", "stamp"},
           Continue(w, todo, pc, endpc),
           w \in Pollers => /\ at[w] \in DOMAIN Jobs
                            /\ Jobs[at[w]] \in {"auto_booking", "booking_reminder"}
    PROVE  /\ at' \in [Pollers -> Nat]
           /\ \A p \in Pollers : p # w => at'[p] = at[p]
           /\ w \in Pollers => at'[w] = at[w] \/ rel[w].pc = "idle"
           /\ \E f : bkg' = [bkg EXCEPT ![w] = f] /\ BkgOK(f, w, at'[w], match)
<1>1. w \in Pollers => rel[w].pc = "idle"
  BY DEF Inv, RelOK, ReleaseJobs
<1>2. CASE w \in Admins
  <2>1. bkg' = [bkg EXCEPT ![w] = IdleBook] /\ at' = at
    BY <1>2 DEF Continue
  <2>2. BkgOK(IdleBook, w, at'[w], match)
    BY IdleBookFits
  <2>3. at' \in [Pollers -> Nat]
    BY <2>1 DEF Inv, RestOK
  <2>4. \E f : bkg' = [bkg EXCEPT ![w] = f] /\ BkgOK(f, w, at'[w], match)
    BY <2>1, <2>2
  <2> QED BY <2>1, <2>3, <2>4
<1>3. CASE w \in Pollers /\ w \notin Admins /\ todo = {}
  <2>1. CASE endpc = "idle"
    <3>1. bkg' = [bkg EXCEPT ![w] = IdleBook] /\ NextJob(w)
      BY <1>3, <2>1 DEF Continue
    <3>2. at' \in [Pollers -> Nat] /\ \A p \in Pollers : p # w => at'[p] = at[p]
      BY <1>3, <3>1 DEF NextJob, Inv, RestOK
    <3> QED BY <1>1, <3>1, <3>2, IdleBookFits
  <2>2. CASE endpc = "stamp"
    <3> DEFINE f == [IdleBook EXCEPT !.pc = "stamp"]
    <3>1. bkg' = [bkg EXCEPT ![w] = f] /\ at' = at
      BY <1>3, <2>2 DEF Continue
    <3>2. BkgOK(f, w, at[w], match)
      BY <1>3, IdleBookFits DEF BkgOK, IdleBook, BookFrame
    <3> QED BY <1>1, <3>1, <3>2 DEF Inv, RestOK
  <2> QED BY <2>1, <2>2
<1>4. CASE w \in Pollers /\ w \notin Admins /\ todo # {}
  <2>1. PICK s \in todo : bkg' = [bkg EXCEPT ![w] = [IdleBook EXCEPT
                            !.pc = pc, !.todo = todo, !.seen = bkg[w].seen, !.slot = s]]
    BY <1>4 DEF Continue
  <2>2. at' = at
    BY <1>4 DEF Continue
  <2> DEFINE f == [IdleBook EXCEPT !.pc = pc, !.todo = todo, !.seen = bkg[w].seen, !.slot = s]
  <2>3. bkg[w].seen \in [Slots -> Result]
    BY DEF Inv, BkgOK, BookFrame
  <2>4. f \in BookFrame /\ f.pc = pc /\ f.slot = s
    BY <2>3 DEF IdleBook, BookFrame, Result, NoResult
  <2>5. BkgOK(f, w, at[w], match)
    BY <1>4, <2>4 DEF BkgOK
  <2> QED BY <1>1, <2>1, <2>2, <2>5 DEF Inv, RestOK
<1> QED BY <1>2, <1>3, <1>4 DEF Workers

(* Going on to the next slot leads to a fit frame.                         *)
LEMMA NextSlotSteps ==
    ASSUME Inv, NEW w \in Workers, bkg[w].pc # "idle", NextSlot(w)
    PROVE  /\ at' \in [Pollers -> Nat]
           /\ \A p \in Pollers : p # w => at'[p] = at[p]
           /\ w \in Pollers => at'[w] = at[w] \/ rel[w].pc = "idle"
           /\ \E f : bkg' = [bkg EXCEPT ![w] = f] /\ BkgOK(f, w, at'[w], match)
<1>1. BkgOK(bkg[w], w, at[w], match)
  BY DEF Inv
<1>2. /\ Rest(w) \in SUBSET Slots
      /\ w \in Pollers => /\ at[w] \in DOMAIN Jobs
                          /\ Jobs[at[w]] \in {"auto_booking", "booking_reminder"}
  BY <1>1 DEF BkgOK, BookFrame, Rest
<1> QED BY <1>2, ContinueSteps DEF NextSlot

(* The frame with which bookFreeCourts enters its rotation.                *)
LEMMA ListedFits ==
    ASSUME NEW f \in BookFrame, NEW free \in SUBSET Labels, NEW creds \in SUBSET Creds,
           NEW lim \in Nat \ {0}, NEW g,
           g = [f EXCEPT !.pc = "book", !.free = free, !.creds = creds, !.lim = lim]
    PROVE  g \in BookFrame /\ g.pc = "book" /\ g.slot = f.slot /\ g.lim > 0
<1>1. g \in BookFrame
  BY DEF BookFrame
<1> QED BY <1>1 DEF BookFrame

(* The frame after a reservation: while courts are wanted, the account at  *)
(* hand may reserve at least one more.                                     *)
LEMMA ReservedFits ==
    ASSUME NEW f \in BookFrame, NEW c \in Labels, NEW k, NEW m \in Matches,
           f.left \in Nat \ {0}, f.lim \in Nat \ {0}, MaxCourts \in Nat \ {0},
           NEW g, g = Reserved(f, c, m, k)
    PROVE  /\ g \in BookFrame /\ g.pc = "save" /\ g.slot = f.slot /\ g.m = m
           /\ g.left > 0 => g.lim > 0
<1>1. /\ f.left - 1 \in Nat /\ f.lim - 1 \in Nat
      /\ Least(MaxCourts, f.left - 1) \in Nat
      /\ f.left - 1 > 0 => Least(MaxCourts, f.left - 1) > 0
      /\ f.lim # 1 => f.lim - 1 > 0
  BY DEF Least
<1>2. g \in BookFrame
  BY <1>1 DEF BookFrame, Reserved
<1>3. g.pc = "save" /\ g.slot = f.slot /\ g.m = m
  BY DEF BookFrame, Reserved
<1>4. /\ g.left = f.left - 1
      /\ g.lim = IF f.lim = 1 THEN Least(MaxCourts, f.left - 1) ELSE f.lim - 1
  BY DEF BookFrame, Reserved
<1> QED BY <1>1, <1>2, <1>3, <1>4

(* The frame after an account failed.                                      *)
LEMMA RotatedFits ==
    ASSUME NEW f \in BookFrame, NEW k, f.left \in Nat \ {0}, MaxCourts \in Nat \ {0},
           NEW g, g = Rotated(f, k)
    PROVE  g \in BookFrame /\ g.pc = f.pc /\ g.slot = f.slot /\ g.lim > 0
<1>1. Least(MaxCourts, f.left) \in Nat \ {0}
  BY DEF Least
<1>2. g \in BookFrame
  BY <1>1 DEF BookFrame, Rotated
<1>3. g.pc = f.pc /\ g.slot = f.slot /\ g.lim = Least(MaxCourts, f.left)
  BY DEF BookFrame, Rotated
<1> QED BY <1>1, <1>2, <1>3

(* A new game is a row of the games table.                                 *)
LEMMA NewGameFits ==
    ASSUME NEW s \in Slots, NEW courts \in SUBSET Labels, NEW count \in Nat
    PROVE  NewGame(s, courts, count) \in Game
BY DEF NewGame, NoGame, Game

(* Publishing changes one flag.                                            *)
LEMMA PublishKeepsType ==
    ASSUME Inv, NEW g, Publish(g)
    PROVE  game' \in [Games -> Game]
<1>1. \A r \in Game : [r EXCEPT !.published = TRUE] \in Game
  BY DEF Game
<1> QED BY <1>1 DEF Publish, Inv, RestOK

(* Moving on inside a slot keeps a frame fit.                              *)
LEMMA StepFits ==
    ASSUME NEW f, NEW w, NEW i, NEW mt, BkgOK(f, w, i, mt),
           f.pc \notin {"idle", "stamp", "refused"},
           NEW pc \in {"append", "link", "create", "post"},
           pc \in {"create", "post"} => w \in Pollers,
           NEW g, g = [f EXCEPT !.pc = pc]
    PROVE  BkgOK(g, w, i, mt)
<1>1. g \in BookFrame /\ g.pc = pc /\ g.slot = f.slot
  BY DEF BkgOK, BookFrame
<1> QED BY <1>1 DEF BkgOK

(* Every step of the booking flow keeps the invariant.                     *)
LEMMA BookStepKeepsInv ==
    ASSUME Inv, NEW w \in Workers, Book(w)
    PROVE  Inv'
<1> DEFINE frame == bkg[w]
<1>1. /\ BkgOK(frame, w, at[w], match)
      /\ frame \in BookFrame
      /\ UNCHANGED <<now, polled, rel, requests>>
  BY DEF Inv, BkgOK, Book, BookingStep, clockVars
<1>2. match' = match /\ row' = row => TablesMove /\ TablesOK(now', match', row')
  BY <1>1 DEF Inv, TablesOK, TablesMove
<1>3. ASSUME at' \in [Pollers -> Nat], game' \in [Games -> Game],
             result' \in [Slots -> Result], players' = players,
             reminded' \in BOOLEAN, cooling' \subseteq Creds,
             Works \/ \E kind \in FaultKinds : Fails(kind),
             NEW f, bkg' = [bkg EXCEPT ![w] = f]
      PROVE  RestOK'
  BY <1>1, <1>3 DEF Inv, RestOK, Works, Fails, faultVars
<1>4. ASSUME UNCHANGED <<match, row, at, players, cooling>>, game' \in [Games -> Game],
             result' \in [Slots -> Result], reminded' \in BOOLEAN,
             Works \/ \E kind \in FaultKinds : Fails(kind),
             NEW f, bkg' = [bkg EXCEPT ![w] = f], BkgOK(f, w, at[w], match)
      PROVE  Inv'
  BY <1>1, <1>2, <1>3, <1>4, BookKeeps DEF Inv, RestOK
<1>5. ASSUME UNCHANGED <<match, row, players, cooling>>, game' \in [Games -> Game],
             result' \in [Slots -> Result], reminded' \in BOOLEAN,
             Works \/ \E kind \in FaultKinds : Fails(kind),
             \/ /\ frame.pc # "idle"
                /\ NextSlot(w)
             \/ \E todo \in SUBSET Slots, pc \in {"dedup", "announce"}, endpc \in {"idle", "stamp"} :
                   /\ Continue(w, todo, pc, endpc)
                   /\ w \in Pollers /\ (AtJob(w, "auto_booking") \/ AtJob(w, "booking_reminder"))
      PROVE  Inv'
  <2>1. /\ at' \in [Pollers -> Nat]
        /\ \A p \in Pollers : p # w => at'[p] = at[p]
        /\ w \in Pollers => at'[w] = at[w] \/ rel[w].pc = "idle"
        /\ \E f : bkg' = [bkg EXCEPT ![w] = f] /\ BkgOK(f, w, at'[w], match)
    BY <1>5, NextSlotSteps, ContinueSteps DEF AtJob
  <2> QED BY <1>1, <1>2, <1>3, <1>5, <2>1, BookKeeps DEF Inv, RestOK
<1>6. CASE StartAutoBooking(w)
  BY <1>5, <1>6 DEF StartAutoBooking, bookVars, planVars, Inv, RestOK, Fails
<1>7. CASE DedupSlot(w)
  <2>1. /\ UNCHANGED <<match, row, game, result, players, reminded, cooling>>
        /\ frame.pc = "dedup"
    BY <1>7 DEF DedupSlot, bookVars, planVars
  <2>2. CASE NextSlot(w) /\ (Works \/ Fails("read"))
    BY <1>5, <2>1, <2>2 DEF Inv, RestOK, Fails
  <2>3. CASE /\ Works /\ UNCHANGED at
             /\ bkg' = [bkg EXCEPT ![w].pc = "list", ![w].left = CourtsPerSlot]
    <3> DEFINE f == [frame EXCEPT !.pc = "list", !.left = CourtsPerSlot]
    <3>1. CourtsPerSlot \in Nat
      BY CountsAssumption
    <3>2. f \in BookFrame /\ f.pc = "list" /\ f.slot = frame.slot
      BY <1>1, <3>1 DEF BookFrame
    <3>3. BkgOK(f, w, at[w], match)
      <4> HIDE DEF f
      <4> QED BY <1>1, <2>1, <3>2 DEF BkgOK
    <3>4. bkg' = [bkg EXCEPT ![w] = f]
      BY <2>3
    <3> QED BY <1>4, <2>1, <2>3, <3>3, <3>4 DEF Inv, RestOK
  <2> QED BY <1>7, <2>2, <2>3 DEF DedupSlot
<1>8. CASE ListFree(w)
  <2>1. /\ UNCHANGED <<match, row, game, result, players, reminded, cooling>>
        /\ frame.pc = "list"
    BY <1>8 DEF ListFree, bookVars, planVars
  <2>2. \/ NextSlot(w) /\ (Works \/ Fails("read") \/ Fails("book"))
        \/ \E free \in SUBSET Labels, usable \in SUBSET Creds :
              /\ frame.left > 0 /\ Works /\ UNCHANGED at
              /\ bkg' = [bkg EXCEPT ![w].pc = "book", ![w].free = free, ![w].creds = usable,
                                    ![w].lim = Least(MaxCourts, bkg[w].left)]
    BY <1>8 DEF ListFree
  <2>3. CASE NextSlot(w) /\ (Works \/ Fails("read") \/ Fails("book"))
    BY <1>5, <2>1, <2>3 DEF Inv, RestOK, Fails
  <2>4. ASSUME NEW free \in SUBSET Labels, NEW usable \in SUBSET Creds,
               frame.left > 0, Works, UNCHANGED at,
               bkg' = [bkg EXCEPT ![w].pc = "book", ![w].free = free, ![w].creds = usable,
                                  ![w].lim = Least(MaxCourts, bkg[w].left)]
        PROVE  Inv'
    <3> DEFINE f == [frame EXCEPT !.pc = "book", !.free = free, !.creds = usable,
                                  !.lim = Least(MaxCourts, frame.left)]
    <3>1. frame.left \in Nat /\ Least(MaxCourts, frame.left) \in Nat \ {0}
      BY <1>1, <2>4, CountsAssumption DEF BookFrame, Least
    <3>2. f \in BookFrame /\ f.pc = "book" /\ f.slot = frame.slot /\ f.lim > 0
      BY <1>1, <3>1, ListedFits
    <3>3. BkgOK(f, w, at[w], match)
      <4> HIDE DEF f
      <4> QED BY <1>1, <2>1, <3>2 DEF BkgOK
    <3>4. bkg' = [bkg EXCEPT ![w] = f]
      BY <2>4
    <3> QED BY <1>4, <2>1, <2>4, <3>3, <3>4 DEF Inv, RestOK
  <2> QED BY <2>2, <2>3, <2>4
<1>9. CASE BookCourt(w)
  <2>1. /\ UNCHANGED <<row, at, game, result, players, reminded>>
        /\ frame.pc = "book" /\ frame.left > 0
    BY <1>1, <1>9 DEF BookCourt, Booked, planVars, BookFrame
  <2>2. PICK c \in frame.free, k \in frame.creds, m \in FreshMatches :
          LET s == frame.slot
              reserve == match' = [match EXCEPT ![m] = [st |-> "live", slot |-> s, court |-> c]]
              blame == /\ bkg' = [bkg EXCEPT ![w] = Rotated(@, k)]
                       /\ cooling' = cooling \cup {k}
          IN  \/ /\ Works /\ reserve
                 /\ bkg' = [bkg EXCEPT ![w] = Reserved(@, c, m, k)]
                 /\ UNCHANGED cooling
              \/ Works /\ blame /\ UNCHANGED match
              \/ Fails("book") /\ blame /\ UNCHANGED match
              \/ Fails("lost") /\ blame /\ reserve
    BY <1>9 DEF BookCourt
  <2>3. /\ c \in Labels /\ k \in Creds /\ frame.slot \in Slots
        /\ m \in Matches /\ match[m].st = "unused" /\ row[m] = "none"
    BY <1>1, <2>1 DEF BkgOK, BookFrame, FreshMatches, Inv, TablesOK
  <2> DEFINE new == [st |-> "live", slot |-> frame.slot, court |-> c]
  <2>4. new \in Match
    BY <2>3 DEF Match
  <2>5. match' = match \/ match' = [match EXCEPT ![m] = new]
    BY <2>2
  <2>6. TablesMove /\ TablesOK(now', match', row')
    BY <1>1, <1>2, <2>1, <2>3, <2>4, <2>5 DEF TablesMove, TablesOK, Inv
  <2>7. cooling' \subseteq Creds
    BY <2>2, <2>3 DEF Inv, RestOK
  <2>8. frame.left \in Nat \ {0} /\ frame.lim \in Nat \ {0} /\ MaxCourts \in Nat \ {0}
    BY <1>1, <2>1, CountsAssumption DEF BkgOK, BookFrame
  <2>9. \E f : bkg' = [bkg EXCEPT ![w] = f] /\ BkgOK(f, w, at[w], match')
    <3>1. CASE /\ bkg' = [bkg EXCEPT ![w] = Reserved(@, c, m, k)]
               /\ match' = [match EXCEPT ![m] = new]
      <4> DEFINE f == Reserved(frame, c, m, k)
      <4>1. /\ f \in BookFrame /\ f.pc = "save" /\ f.slot = frame.slot /\ f.m = m
            /\ f.left > 0 => f.lim > 0
        BY <1>1, <2>3, <2>8, ReservedFits
      <4>2. match'[m].st # "unused"
        BY <2>3, <3>1 DEF Inv, TablesOK
      <4>3. BkgOK(f, w, at[w], match')
        <5> HIDE DEF f
        <5> QED BY <1>1, <2>1, <2>3, <4>1, <4>2 DEF BkgOK
      <4> QED BY <3>1, <4>3
    <3>2. CASE bkg' = [bkg EXCEPT ![w] = Rotated(@, k)]
      <4> DEFINE f == Rotated(frame, k)
      <4>1. f \in BookFrame /\ f.pc = "book" /\ f.slot = frame.slot /\ f.lim > 0
        BY <1>1, <2>1, <2>8, RotatedFits
      <4>2. BkgOK(f, w, at[w], match')
        <5> HIDE DEF f
        <5> QED BY <1>1, <2>1, <4>1 DEF BkgOK
      <4> QED BY <3>2, <4>2
    <3> QED BY <2>2, <3>1, <3>2
  <2>10. RestOK'
    BY <1>3, <2>1, <2>2, <2>7, <2>9 DEF Inv, RestOK, Fails
  <2> QED BY <1>1, <2>1, <2>6, <2>9, <2>10, BookKeeps
<1>10. CASE SaveBooking(w)
  <2>1. /\ UNCHANGED <<match, at, game, result, players, reminded, cooling>>
        /\ frame.pc = "save"
    BY <1>10 DEF SaveBooking, planVars
  <2>2. frame.m \in Matches /\ match[frame.m].st # "unused"
    BY <1>1, <2>1 DEF BkgOK
  <2>3. TablesMove /\ TablesOK(now', match', row')
    BY <1>1, <1>10, <2>1, <2>2 DEF SaveBooking, TablesMove, TablesOK, Inv
  <2> DEFINE f == [frame EXCEPT !.pc = "book", !.m = None]
  <2>4. f \in BookFrame /\ f.pc = "book" /\ f.slot = frame.slot
        /\ f.left = frame.left /\ f.lim = frame.lim
    BY <1>1 DEF BookFrame
  <2>5. BkgOK(f, w, at[w], match')
    <3> HIDE DEF f
    <3> QED BY <1>1, <2>1, <2>4 DEF BkgOK
  <2>6. bkg' = [bkg EXCEPT ![w] = f]
    BY <1>10 DEF SaveBooking
  <2>7. RestOK'
    BY <1>3, <1>10, <2>1, <2>6 DEF SaveBooking, Inv, RestOK, Fails
  <2> QED BY <1>1, <2>1, <2>3, <2>5, <2>6, <2>7, BookKeeps
<1>11. CASE NothingBooked(w)
  BY <1>5, <1>11 DEF NothingBooked, Booked, bookVars, planVars, Inv, RestOK
<1>12. CASE AppendCourts(w)
  <2>1. /\ UNCHANGED <<match, row, at, result, players, reminded, cooling>>
        /\ frame.pc = "book"
    BY <1>12 DEF AppendCourts, Booked, bookVars
  <2>2. frame.old \cup frame.got \in SUBSET Labels
    BY <1>1 DEF BookFrame
  <2>3. CASE Works /\ Step(w, "append")
             /\ UpdateCourts(frame.g, frame.old \cup frame.got,
                             Cardinality(frame.old \cup frame.got))
    <3>1. game' \in [Games -> Game]
      BY <2>2, <2>3, LabelsCount, UpdateCourtsKeepsType
    <3>2. BkgOK([frame EXCEPT !.pc = "append"], w, at[w], match)
      BY <1>1, <2>1, StepFits
    <3> QED BY <1>4, <2>1, <2>3, <3>1, <3>2 DEF Step, Inv, RestOK
  <2>4. CASE Fails("write") /\ UNCHANGED game /\ bkg' = [bkg EXCEPT ![w] = IdleBook]
    <3>1. BkgOK(IdleBook, w, at[w], match)
      BY IdleBookFits
    <3> QED BY <1>4, <2>1, <2>4, <3>1 DEF Inv, RestOK, Fails
  <2> QED BY <1>12, <2>3, <2>4 DEF AppendCourts
<1>13. CASE SaveResult(w)
  <2>1. /\ UNCHANGED <<match, row, game, players, reminded, cooling>>
        /\ frame.pc \in {"book", "append"}
    BY <1>13 DEF SaveResult, Booked, bookVars
  <2>2. CASE NextSlot(w) /\ Fails("write") /\ UNCHANGED result
    BY <1>5, <2>1, <2>2 DEF Inv, RestOK, Fails
  <2>3. CASE /\ Works \/ Fails("read")
             /\ result' = [result EXCEPT ![frame.slot] =
                   IF @.saved THEN @ ELSE [saved |-> TRUE, courts |-> frame.got, game |-> None]]
             /\ Step(w, IF w \in Admins THEN "link" ELSE "create") /\ UNCHANGED at
    <3> DEFINE pc == IF w \in Admins THEN "link" ELSE "create"
    <3>1. pc \in {"link", "create"} /\ (pc = "create" => w \in Pollers)
      BY DEF Workers
    <3>2. BkgOK([frame EXCEPT !.pc = pc], w, at[w], match)
      <4> HIDE DEF pc
      <4> QED BY <1>1, <2>1, <3>1, StepFits
    <3>3. [saved |-> TRUE, courts |-> frame.got, game |-> None] \in Result
      BY <1>1 DEF BookFrame, Result
    <3>4. result' \in [Slots -> Result]
      BY <2>3, <3>3 DEF Inv, RestOK
    <3> QED BY <1>4, <2>1, <2>3, <3>2, <3>4 DEF Step, Inv, RestOK, Fails
  <2>4. \/ NextSlot(w) /\ Fails("write") /\ UNCHANGED result
        \/ /\ Works \/ Fails("read")
           /\ result' = [result EXCEPT ![frame.slot] =
                 IF @.saved THEN @ ELSE [saved |-> TRUE, courts |-> frame.got, game |-> None]]
           /\ Step(w, IF w \in Admins THEN "link" ELSE "create") /\ UNCHANGED at
    BY <1>13 DEF SaveResult
  <2> QED BY <2>2, <2>3, <2>4
<1>14. CASE KeepResult(w)
  BY <1>5, <1>14 DEF KeepResult, bookVars, planVars, Inv, RestOK
<1>15. CASE CreateGame(w)
  <2>1. /\ UNCHANGED <<match, row, result, players, reminded, cooling>>
        /\ frame.pc = "create"
    BY <1>15 DEF CreateGame, bookVars
  <2>2. CASE Fails("write") /\ UNCHANGED game /\ NextSlot(w)
    BY <1>5, <2>1, <2>2 DEF Inv, RestOK, Fails
  <2> DEFINE courts == IF AtJob(w, "auto_booking") THEN frame.got
                       ELSE frame.seen[frame.slot].courts
  <2>3. courts \in SUBSET Labels /\ frame.slot \in Slots
    BY <1>1, <2>1 DEF BkgOK, BookFrame, Result
  <2>4. ASSUME NEW g \in FreshGames, Works, UNCHANGED at,
               game' = [game EXCEPT ![g] = NewGame(frame.slot, courts, Cardinality(courts))],
               bkg' = [bkg EXCEPT ![w].pc = "link", ![w].g = g]
        PROVE  Inv'
    <3> HIDE DEF courts
    <3>1. Cardinality(courts) \in Nat
      BY <2>3, LabelsCount
    <3>2. game' \in [Games -> Game]
      BY <2>3, <2>4, <3>1, NewGameFits DEF Inv, RestOK
    <3>3. g \in Games
      BY DEF FreshGames
    <3> DEFINE f == [frame EXCEPT !.pc = "link", !.g = g]
    <3>4. f \in BookFrame /\ f.pc = "link" /\ f.slot = frame.slot
      BY <1>1, <3>3 DEF BookFrame
    <3>5. BkgOK(f, w, at[w], match)
      <4> HIDE DEF f
      <4> QED BY <1>1, <2>1, <3>4 DEF BkgOK
    <3>6. bkg' = [bkg EXCEPT ![w] = f]
      BY <2>4
    <3> QED BY <1>4, <2>1, <2>4, <3>2, <3>5, <3>6 DEF Inv, RestOK
  <2>5. \/ Fails("write") /\ UNCHANGED game /\ NextSlot(w)
        \/ \E g \in FreshGames :
              /\ Works /\ UNCHANGED at
              /\ game' = [game EXCEPT ![g] = NewGame(frame.slot, courts, Cardinality(courts))]
              /\ bkg' = [bkg EXCEPT ![w].pc = "link", ![w].g = g]
    BY <1>15 DEF CreateGame
  <2> QED BY <2>2, <2>4, <2>5
<1>16. CASE LinkResult(w)
  <2>1. /\ UNCHANGED <<match, row, game, players, reminded, cooling>>
        /\ frame.pc = "link"
    BY <1>16 DEF LinkResult, bookVars
  <2>2. result' \in [Slots -> Result] /\ (Works \/ Fails("write"))
    <3>1. frame.g \in Games \cup {None} /\ frame.slot \in Slots
      BY <1>1, <2>1 DEF BkgOK, BookFrame
    <3>2. [result[frame.slot] EXCEPT !.game = frame.g] \in Result
      BY <3>1 DEF Inv, RestOK, Result
    <3>3. \/ Works /\ result' = [result EXCEPT ![frame.slot] = [@ EXCEPT !.game = frame.g]]
          \/ Fails("write") /\ UNCHANGED result
      BY <1>16 DEF LinkResult
    <3> QED BY <3>2, <3>3 DEF Inv, RestOK
  <2>3. CASE NextSlot(w)
    BY <1>5, <2>1, <2>2, <2>3 DEF Inv, RestOK, Fails
  <2>4. CASE w \in Pollers /\ Step(w, "post") /\ UNCHANGED at
    <3>1. BkgOK([frame EXCEPT !.pc = "post"], w, at[w], match)
      BY <1>1, <2>1, <2>4, StepFits
    <3> QED BY <1>4, <2>1, <2>2, <2>4, <3>1 DEF Step, Inv, RestOK, Fails
  <2> QED BY <1>16, <2>3, <2>4 DEF LinkResult
<1>17. CASE StartBookingReminder(w)
  <2>1. /\ UNCHANGED <<match, row, game, result, players, reminded, cooling>>
        /\ frame.pc = "idle" /\ w \in Pollers /\ AtJob(w, "booking_reminder")
        /\ Works \/ Fails("read")
    BY <1>17 DEF StartBookingReminder, bookVars, planVars
  <2>2. CASE \E endpc \in {"idle", "stamp"} : Continue(w, {}, "announce", endpc)
    BY <1>5, <2>1, <2>2 DEF Inv, RestOK, Fails
  <2>3. ASSUME NEW saved \in SUBSET Slots, NEW s \in saved, Works, UNCHANGED at,
               bkg' = [bkg EXCEPT ![w] = [IdleBook EXCEPT
                         !.pc = "announce", !.todo = saved, !.seen = result, !.slot = s]]
        PROVE  Inv'
    <3> DEFINE f == [IdleBook EXCEPT !.pc = "announce", !.todo = saved, !.seen = result,
                                     !.slot = s]
    <3>1. f \in BookFrame /\ f.pc = "announce" /\ f.slot = s
      BY DEF IdleBook, BookFrame, Inv, RestOK
    <3>2. at[w] \in DOMAIN Jobs /\ Jobs[at[w]] = "booking_reminder"
      BY <2>1 DEF AtJob
    <3>3. BkgOK(f, w, at[w], match)
      <4> HIDE DEF f
      <4> QED BY <2>1, <3>1, <3>2 DEF BkgOK
    <3> QED BY <1>4, <2>1, <2>3, <3>3 DEF Inv, RestOK
  <2>4. \/ \E endpc \in {"idle", "stamp"} : Continue(w, {}, "announce", endpc)
        \/ \E saved \in SUBSET Slots : \E s \in saved :
              /\ Works /\ UNCHANGED at
              /\ bkg' = [bkg EXCEPT ![w] = [IdleBook EXCEPT
                         !.pc = "announce", !.todo = saved, !.seen = result, !.slot = s]]
    BY <1>17 DEF StartBookingReminder
  <2> QED BY <2>2, <2>3, <2>4
<1>18. CASE AnnounceResult(w)
  <2>1. /\ UNCHANGED <<match, row, result, players, reminded, cooling>>
        /\ frame.pc = "announce" /\ w \in Pollers
    BY <1>1, <1>18 DEF AnnounceResult, bookVars, BkgOK
  <2>2. CASE Works /\ UNCHANGED <<at, game>> /\ Step(w, "create")
    <3>1. BkgOK([frame EXCEPT !.pc = "create"], w, at[w], match)
      BY <1>1, <2>1, StepFits
    <3> QED BY <1>4, <2>1, <2>2, <3>1 DEF Step, Inv, RestOK
  <2>3. CASE /\ NextSlot(w)
             /\ \/ Works /\ Publish(frame.seen[frame.slot].game)
                \/ Fails("telegram") /\ UNCHANGED game
                \/ Fails("read") /\ UNCHANGED game
                \/ Fails("write") /\ UNCHANGED game
    <3>1. game' \in [Games -> Game]
      BY <2>3, PublishKeepsType DEF Inv, RestOK
    <3> QED BY <1>5, <2>1, <2>3, <3>1 DEF Inv, RestOK, Fails
  <2> QED BY <1>18, <2>2, <2>3 DEF AnnounceResult
<1>19. CASE PostNewGame(w)
  <2>1. /\ UNCHANGED <<match, row, result, players, reminded, cooling>>
        /\ frame.pc = "post" /\ NextSlot(w)
    BY <1>19 DEF PostNewGame, bookVars
  <2>2. game' \in [Games -> Game]
    BY <1>19, PublishKeepsType DEF PostNewGame, Inv, RestOK
  <2> QED BY <1>5, <1>19, <2>1, <2>2 DEF PostNewGame, Inv, RestOK, Fails
<1>20. CASE StampReminder(w)
  <2>1. /\ UNCHANGED <<match, row, game, result, players, cooling>>
        /\ reminded' \in BOOLEAN /\ w \in Pollers
        /\ bkg' = [bkg EXCEPT ![w] = IdleBook] /\ NextJob(w)
    BY <1>1, <1>20 DEF StampReminder, bookVars, BkgOK, Inv, RestOK
  <2>2. Continue(w, {}, "announce", "idle")
    BY <2>1, WorkersAssumption DEF Continue
  <2>3. AtJob(w, "auto_booking") \/ AtJob(w, "booking_reminder")
    BY <1>1, <1>20, <2>1 DEF BkgOK, AtJob, StampReminder
  <2> QED BY <1>5, <1>20, <2>1, <2>2, <2>3 DEF StampReminder, Inv, RestOK, Fails
<1>21. CASE Refuse(w)
  <2>1. BkgOK(IdleBook, w, at[w], match)
    BY IdleBookFits
  <2> QED BY <1>4, <1>21, <2>1 DEF Refuse, bookVars, planVars, Inv, RestOK
<1> QED
  BY <1>6, <1>7, <1>8, <1>9, <1>10, <1>11, <1>12, <1>13, <1>14, <1>15, <1>16, <1>17,
     <1>18, <1>19, <1>20, <1>21 DEF Book, BookingStep

-----------------------------------------------------------------------------
(* Everything else that happens.                                           *)

(* A new poll starts in a goroutine that does nothing yet.                 *)
LEMMA PollKeepsInv ==
    ASSUME Inv, NEW p \in Pollers, Poll(p)
    PROVE  Inv'
<1>1. /\ at[p] = 0 /\ at' = [at EXCEPT ![p] = 1] /\ polled' = TRUE
      /\ UNCHANGED <<now, match, row, result, game, players, reminded, cooling,
                     faults, crashes, panicked, rel, bkg, requests>>
  BY DEF Poll, PollStart, bookVars, planVars, faultVars
<1>2. 0 \notin DOMAIN Jobs
  BY WorkersAssumption
<1>3. rel[p].pc = "idle" /\ bkg[p].pc = "idle"
  BY <1>1, <1>2 DEF Inv, RelOK, BkgOK, Workers
<1>4. RestOK' /\ TablesOK(now', match', row')
  BY <1>1 DEF Inv, RestOK
<1>5. ASSUME NEW w \in Workers PROVE RelOK(rel'[w], w, at'[w], now', match')
  <2>1. RelOK(rel[w], w, at[w], now, match) /\ (w \in Pollers /\ w # p => at'[w] = at[w])
    BY <1>1 DEF Inv, RestOK
  <2> QED BY <1>1, <1>3, <2>1, WorkersAssumption DEF RelOK, Workers
<1>6. ASSUME NEW w \in Workers PROVE BkgOK(bkg'[w], w, at'[w], match')
  <2>1. BkgOK(bkg[w], w, at[w], match) /\ (w \in Pollers /\ w # p => at'[w] = at[w])
    BY <1>1 DEF Inv, RestOK
  <2> QED BY <1>1, <1>3, <2>1 DEF BkgOK
<1> QED BY <1>1, <1>4, <1>5, <1>6 DEF Inv

(* Every admin request keeps the invariant.                                *)
LEMMA RequestKeepsInv ==
    ASSUME Inv, Request
    PROVE  Inv'
<1>1. requests' \in Nat
  BY DEF Request, Inv, RestOK
<1>2. ASSUME NEW w \in Admins, RemovalRequest(w), UNCHANGED bkg PROVE Inv'
  <2>1. PICK g \in Games, courts \in SUBSET Labels : RemoveCourts(w, g, courts)
    BY <1>2 DEF RemovalRequest
  <2>2. UNCHANGED <<now, polled, at, match, row, game, result, players, reminded, cooling,
                    faults, crashes, panicked>>
    BY <1>2, <2>1 DEF RemovalRequest, RemoveCourts, Works, bookVars, clockVars, faultVars
  <2> DEFINE f == [IdleFrame EXCEPT
                 !.pc = IF game[g].courts \subseteq courts THEN "cancel" ELSE "load",
                 !.snap = game, !.g = g, !.goal = courts]
  <2>3. f \in Frame /\ f.pc \in {"cancel", "load"} /\ f.g = g /\ f.picks = {}
    BY DEF IdleFrame, Frame, Inv, RestOK
  <2>4. RelOK(f, w, at[w], now, match)
    <3> HIDE DEF f
    <3> QED BY <2>3, WorkersAssumption DEF RelOK
  <2>5. rel' = [rel EXCEPT ![w] = f]
    BY <2>1 DEF RemoveCourts
  <2>6. RestOK' /\ TablesOK(now', match', row') /\ TablesMove
    BY <1>1, <1>2, <2>2, <2>5 DEF Inv, RestOK, TablesMove
  <2> HIDE DEF f
  <2> QED BY <1>2, <2>2, <2>4, <2>5, <2>6, ReleaseKeeps DEF Workers
<1>3. ASSUME NEW w \in Admins, BookingRequest(w), UNCHANGED rel PROVE Inv'
  <2>1. PICK g \in Games, n \in 1..CourtsPerSlot : BookGameCourts(w, g, n)
    BY <1>3 DEF BookingRequest
  <2>2. /\ UNCHANGED <<now, polled, at, match, row, game, result, players, reminded, cooling,
                       crashes, panicked>>
        /\ faults' \in Nat
    BY <1>3, <2>1 DEF BookingRequest, BookGameCourts, Works, Fails, bookVars, planVars,
                      clockVars, faultVars, Inv, RestOK
  <2>3. game[g].slot \in Slots /\ game[g].courts \in SUBSET Labels /\ n \in Nat
    BY <2>1, CountsAssumption DEF BookGameCourts, Created, Inv, RestOK, Game
  <2> DEFINE listing == [IdleBook EXCEPT !.pc = "list", !.slot = game[g].slot, !.left = n,
                                         !.g = g, !.old = game[g].courts]
             refused == [IdleBook EXCEPT !.pc = "refused"]
  <2>4. BkgOK(listing, w, at[w], match)
    <3>1. listing \in BookFrame /\ listing.pc = "list" /\ listing.slot \in Slots
      BY <2>3 DEF IdleBook, BookFrame, Result, NoResult
    <3> HIDE DEF listing
    <3> QED BY <3>1, WorkersAssumption DEF BkgOK
  <2>5. BkgOK(refused, w, at[w], match)
    <3>1. refused \in BookFrame /\ refused.pc = "refused"
      BY DEF IdleBook, BookFrame, Result, NoResult
    <3> HIDE DEF refused
    <3> QED BY <3>1, WorkersAssumption DEF BkgOK
  <2>6. PICK f : bkg' = [bkg EXCEPT ![w] = f] /\ BkgOK(f, w, at[w], match)
    BY <2>1, <2>4, <2>5 DEF BookGameCourts
  <2>7. RestOK' /\ TablesOK(now', match', row') /\ TablesMove
    BY <1>1, <1>3, <2>2, <2>6 DEF Inv, RestOK, TablesMove
  <2> QED BY <1>3, <2>2, <2>6, <2>7, BookKeeps DEF Workers
<1>4. ASSUME EditRequest \/ GameRequest, UNCHANGED <<rel, bkg>> PROVE Inv'
  <2>1. game' \in [Games -> Game]
    <3>1. ASSUME NEW g \in Games, NEW courts \in SUBSET Labels, EditCourts(g, courts)
          PROVE  game' \in [Games -> Game]
      <4>1. (IF courts = {} THEN 1 ELSE Cardinality(courts)) \in Nat
        BY LabelsCount
      <4> QED BY <3>1, <4>1, UpdateCourtsKeepsType DEF EditCourts
    <3>2. ASSUME NEW s \in Slots, NEW courts \in SUBSET Labels, CreateManualGame(s, courts)
          PROVE  game' \in [Games -> Game]
      <4>1. NewGame(s, courts, Cardinality(courts)) \in Game
        BY LabelsCount, NewGameFits
      <4>2. PICK g \in FreshGames :
                game' = [game EXCEPT ![g] = NewGame(s, courts, Cardinality(courts))]
        BY <3>2 DEF CreateManualGame
      <4> QED BY <4>1, <4>2 DEF Inv, RestOK
    <3>3. ASSUME NEW g \in Games, PublishRequest(g)
          PROVE  game' \in [Games -> Game]
      BY <3>3, PublishKeepsType DEF PublishRequest
    <3> QED BY <1>4, <3>1, <3>2, <3>3 DEF EditRequest, GameRequest
  <2>2. UNCHANGED <<now, polled, at, match, row, result, players, reminded, cooling,
                    faults, crashes, panicked>>
    BY <1>4 DEF EditRequest, GameRequest, EditCourts, CreateManualGame, PublishRequest,
                Works, bookVars, clockVars, faultVars
  <2> QED BY <1>1, <1>4, <2>1, <2>2 DEF Inv, RestOK
<1> QED BY <1>2, <1>3, <1>4
     DEF Request, EditRequest, EditCourts, GameRequest, CreateManualGame, PublishRequest

(* A restart, for whatever reason, forgets frames and nothing else.        *)
LEMMA RestartKeepsInv ==
    ASSUME Inv, Restart, crashes' \in Nat, panicked' \in BOOLEAN
    PROVE  Inv'
<1>1. /\ UNCHANGED <<now, polled, match, row, result, game, players, reminded, cooling,
                     faults, requests>>
      /\ at' = [p \in Pollers |-> 0]
      /\ rel' = [w \in Workers |-> IdleFrame]
      /\ bkg' = [w \in Workers |-> IdleBook]
  BY DEF Restart, clockVars, bookVars, planVars
<1>2. RestOK' /\ TablesOK(now', match', row')
  BY <1>1 DEF Inv, RestOK
<1>3. ASSUME NEW w \in Workers
      PROVE  RelOK(rel'[w], w, at'[w], now', match') /\ BkgOK(bkg'[w], w, at'[w], match')
  BY <1>1, IdleFrameFits, IdleBookFits
<1> QED BY <1>1, <1>2, <1>3 DEF Inv

(* The clock keeps the invariant.                                          *)
LEMMA TickKeepsInv ==
    ASSUME Inv, Tick
    PROVE  Inv'
<1>1. /\ now' = now + 1 /\ polled' = FALSE
      /\ UNCHANGED <<at, match, row, result, game, players, reminded, cooling, faults, crashes,
                     panicked, rel, bkg, requests>>
  BY DEF Tick, bookVars, planVars, faultVars
<1>2. now \in Nat /\ now' \in Nat /\ now' >= now /\ TablesMove
  BY <1>1 DEF Inv, RestOK, TablesMove
<1>3. CleanupAt \in Nat
  BY TimeAssumption
<1>4. RestOK' /\ TablesOK(now', match', row')
  <2>1. RestOK'
    BY <1>1, <1>2 DEF Inv, RestOK
  <2>2. TablesOK(now', match', row')
    BY <1>1, <1>2, <1>3 DEF Inv, TablesOK
  <2> QED BY <2>1, <2>2
<1>5. ASSUME NEW w \in Workers
      PROVE  RelOK(rel'[w], w, at'[w], now', match') /\ BkgOK(bkg'[w], w, at'[w], match')
  BY <1>1, <1>2, RelStays, BkgStays DEF Inv
<1> QED BY <1>1, <1>4, <1>5 DEF Inv

(* An empty date satisfies the invariant.                                  *)
LEMMA InitEstablishesInv == ASSUME Init PROVE Inv
<1>1. RestOK
  BY DEF Init, StateInit, ReleaseInit, BookInit, RestOK, Result, NoResult, Game, NoGame
<1>2. TablesOK(now, match, row)
  BY DEF Init, StateInit, TablesOK, Match, NoMatch
<1>3. ASSUME NEW w \in Workers
      PROVE  RelOK(rel[w], w, at[w], now, match) /\ BkgOK(bkg[w], w, at[w], match)
  BY IdleFrameFits, IdleBookFits DEF Init, ReleaseInit, BookInit
<1> QED BY <1>1, <1>2, <1>3 DEF Inv, Init, ReleaseInit, BookInit

(* Every step, and every stuttering step, keeps the invariant.             *)
LEMMA NextKeepsInv == ASSUME Inv, [Next]_vars PROVE Inv'
<1>1. CASE Tick
  BY <1>1, TickKeepsInv
<1>2. ASSUME NEW p \in Pollers, Poll(p) PROVE Inv'
  BY <1>2, PollKeepsInv
<1>3. ASSUME NEW w \in Workers, Release(w) \/ Book(w) PROVE Inv'
  BY <1>3, ReleaseStepKeepsInv, BookStepKeepsInv
<1>4. CASE Crash \/ \E w \in Workers : Panic(w)
  <2>1. crashes \in Nat /\ panicked \in BOOLEAN
    BY DEF Inv, RestOK
  <2>2. CASE Crash
    BY <2>1, <2>2, RestartKeepsInv DEF Crash
  <2>3. ASSUME NEW w \in Workers, Panic(w) PROVE Inv'
    BY <2>1, <2>3, RestartKeepsInv DEF Panic
  <2> QED BY <1>4, <2>2, <2>3
<1>5. CASE Request
  BY <1>5, RequestKeepsInv
<1>6. ASSUME NEW g \in Games, Join(g) \/ Leave(g) PROVE Inv'
  <2>1. /\ players' \in [Games -> Nat]
        /\ UNCHANGED <<now, polled, at, match, row, result, game, reminded, cooling,
                       faults, crashes, panicked, rel, bkg, requests>>
    BY <1>6 DEF Join, Leave, Attend, Inv, RestOK, clockVars, bookVars, faultVars
  <2> QED BY <2>1 DEF Inv, RestOK
<1>7. ASSUME NEW k \in Creds, CooldownExpires(k) PROVE Inv'
  BY <1>7 DEF CooldownExpires, Inv, RestOK, clockVars, bookVars, planVars, faultVars
<1>8. CASE UNCHANGED vars
  BY <1>8 DEF vars, Inv, RestOK, clockVars, bookVars, planVars, faultVars
<1> QED BY <1>1, <1>2, <1>3, <1>4, <1>5, <1>6, <1>7, <1>8 DEF Next

(* In every reachable state, whatever calls failed and however workers and *)
(* restarts interleaved: each worker is about rows whose reservations were *)
(* made, a row is marked after the platform gave its court back, and the   *)
(* cleanup closes rows after the date only.                                *)
THEOREM LedgerInvariant == Spec => []LedgerInv
<1>1. Init => Inv
  BY InitEstablishesInv
<1>2. Inv /\ [Next]_vars => Inv'
  BY NextKeepsInv
<1>3. Inv => LedgerInv
  BY InvIsLedgerInv
<1> QED BY <1>1, <1>2, <1>3, PTL DEF Spec

(* Every table, frame and counter keeps its type.                          *)
THEOREM TypeCorrect == Spec => []TypeOK
<1>1. LedgerInv => TypeOK
  BY DEF LedgerInv
<1> QED BY <1>1, LedgerInvariant, PTL

(* A row is closed only when its reservation is gone or the date is over:  *)
(* CancelMatch before MarkCanceled, and the cleanup after the games.       *)
THEOREM ClosedRowsAreReleased == Spec => []RowCanceledIsReleased
<1>1. LedgerInv => RowCanceledIsReleased
  BY DEF LedgerInv
<1> QED BY <1>1, LedgerInvariant, PTL

-----------------------------------------------------------------------------
(* The ledger.                                                             *)

(* A step that touches no reservation, no row and not the clock.           *)
LEMMA QuietLedger ==
    ASSUME UNCHANGED <<match, row, now>>
    PROVE  UNCHANGED Ledger!ledger
BY DEF Ledger!ledger

(* CancelMatch at the platform, on a match held or canceled already.       *)
LEMMA GiveBackIsLedgerStep ==
    ASSUME Inv, NEW m \in Matches, match[m].st # "unused",
           match' = [match EXCEPT ![m].st = "canceled"], UNCHANGED <<row, now>>
    PROVE  [Ledger!LedgerNext]_Ledger!ledger
<1> DEFINE st == [n \in Matches |-> match[n].st]
<1>1. match \in [Matches -> Match] /\ match[m].st \in {"live", "canceled"}
  BY DEF Inv, TablesOK, Match
<1>2. st' = [st EXCEPT ![m] = "canceled"]
  BY <1>1 DEF Match
<1>3. CASE match[m].st = "live"
  <2>1. Ledger!GiveBack(m)
    BY <1>2, <1>3 DEF Ledger!GiveBack
  <2> QED BY <2>1 DEF Ledger!LedgerNext
<1>4. CASE match[m].st = "canceled"
  <2>1. st' = st
    BY <1>2, <1>4
  <2> QED BY <2>1 DEF Ledger!ledger
<1> QED BY <1>1, <1>3, <1>4

(* BookMatch at the platform.                                              *)
LEMMA ReserveIsLedgerStep ==
    ASSUME Inv, NEW m \in Matches, match[m].st = "unused", NEW s, NEW c,
           match' = [match EXCEPT ![m] = [st |-> "live", slot |-> s, court |-> c]],
           UNCHANGED <<row, now>>
    PROVE  [Ledger!LedgerNext]_Ledger!ledger
<1> DEFINE st == [n \in Matches |-> match[n].st]
<1>1. st' = [st EXCEPT ![m] = "live"]
  BY DEF Inv, TablesOK
<1>2. Ledger!Reserve(m)
  BY <1>1 DEF Ledger!Reserve
<1> QED BY <1>2 DEF Ledger!LedgerNext

(* CourtBookingRepo.Save.                                                  *)
LEMMA OpenIsLedgerStep ==
    ASSUME Inv, NEW m \in Matches, match[m].st # "unused",
           row' = [row EXCEPT ![m] = IF @ = "none" THEN "active" ELSE @],
           UNCHANGED <<match, now>>
    PROVE  [Ledger!LedgerNext]_Ledger!ledger
<1>1. CASE row[m] = "none"
  <2>1. Ledger!Open(m)
    BY <1>1 DEF Ledger!Open, Inv, TablesOK
  <2> QED BY <2>1 DEF Ledger!LedgerNext
<1>2. CASE row[m] # "none"
  <2>1. row' = row
    BY <1>2 DEF Inv, TablesOK
  <2> QED BY <2>1, QuietLedger
<1> QED BY <1>1, <1>2

(* MarkCanceled and MarkCanceledByVenueAndDate.                            *)
LEMMA CloseIsLedgerStep ==
    ASSUME Inv, NEW ms \in SUBSET Matches,
           \A m \in ms : row[m] = "active" /\ (match[m].st = "canceled" \/ now >= CleanupAt),
           row' = [m \in Matches |-> IF m \in ms THEN "canceled" ELSE row[m]],
           UNCHANGED <<match, now>>
    PROVE  [Ledger!LedgerNext]_Ledger!ledger
<1>1. Ledger!Close(ms)
  BY DEF Ledger!Close
<1> QED BY <1>1 DEF Ledger!LedgerNext

(* The release flow gives back and closes, and does nothing else to the    *)
(* ledger.                                                                 *)
LEMMA ReleaseIsLedgerStep ==
    ASSUME Inv, NEW w \in Workers, Release(w)
    PROVE  [Ledger!LedgerNext]_Ledger!ledger
<1>1. RelOK(rel[w], w, at[w], now, match) /\ UNCHANGED now
  BY DEF Inv, Release, ReleaseStep, clockVars
<1>2. CASE CancelCourt(w)
  <2>1. UNCHANGED row
    BY <1>2 DEF CancelCourt
  <2>2. PICK m \in rel[w].picks :
           match' = match \/ match' = [match EXCEPT ![m].st = "canceled"]
    BY <1>2 DEF CancelCourt
  <2>3. m \in Matches /\ match[m].st # "unused"
    BY <1>1 DEF RelOK, Frame
  <2> QED BY <1>1, <2>1, <2>2, <2>3, GiveBackIsLedgerStep, QuietLedger
<1>3. CASE MarkRow(w)
  <2> DEFINE m == rel[w].m
             ms == IF row[m] = "active" THEN {m} ELSE {}
  <2>1. UNCHANGED match /\ m \in Matches /\ match[m].st = "canceled"
    BY <1>1, <1>3 DEF MarkRow, RelOK
  <2>2. CASE row' = row
    BY <1>1, <2>1, <2>2, QuietLedger
  <2>3. CASE row' = [row EXCEPT ![m] = IF @ = "active" THEN "canceled" ELSE @]
    <3>1. row' = [n \in Matches |-> IF n \in ms THEN "canceled" ELSE row[n]]
      BY <2>1, <2>3 DEF Inv, TablesOK
    <3>2. ms \in SUBSET Matches
          /\ \A n \in ms : row[n] = "active" /\ match[n].st = "canceled"
      BY <2>1
    <3> HIDE DEF ms
    <3> QED BY <1>1, <2>1, <3>1, <3>2, CloseIsLedgerStep
  <2> QED BY <1>3, <2>2, <2>3 DEF MarkRow
<1>4. CASE CloseRows(w)
  <2>1. UNCHANGED match /\ now >= CleanupAt
    BY <1>1, <1>4 DEF CloseRows, RelOK
  <2>2. CASE row' = row
    BY <1>1, <2>1, <2>2, QuietLedger
  <2>3. CASE row' = [m \in Matches |-> IF row[m] = "active" THEN "canceled" ELSE row[m]]
    <3>1. row' = [m \in Matches |-> IF m \in ActiveRows THEN "canceled" ELSE row[m]]
      BY <2>3 DEF ActiveRows
    <3>2. ActiveRows \in SUBSET Matches /\ \A m \in ActiveRows : row[m] = "active"
      BY DEF ActiveRows
    <3> QED BY <1>1, <2>1, <3>1, <3>2, CloseIsLedgerStep
  <2> QED BY <1>4, <2>2, <2>3 DEF CloseRows
<1>5. CASE UNCHANGED <<match, row>>
  BY <1>1, <1>5, QuietLedger
<1>6. \/ CancelCourt(w) \/ MarkRow(w) \/ CloseRows(w)
      \/ UNCHANGED <<match, row>>
  BY DEF Release, ReleaseStep, bookVars, QueryGames, BeginHalfway, CountPlayers, LoadBookings,
         PersistCourts, SendReminder, MarkDone, CloseMessage, CompleteGame, LoadRemoved,
         PersistRemoval
<1> QED BY <1>2, <1>3, <1>4, <1>5, <1>6

(* The booking flow reserves and opens, and does nothing else to the       *)
(* ledger.                                                                 *)
LEMMA BookIsLedgerStep ==
    ASSUME Inv, NEW w \in Workers, Book(w)
    PROVE  [Ledger!LedgerNext]_Ledger!ledger
<1>1. BkgOK(bkg[w], w, at[w], match) /\ UNCHANGED now
  BY DEF Inv, Book, BookingStep, clockVars
<1>2. CASE BookCourt(w)
  <2>1. UNCHANGED row
    BY <1>2 DEF BookCourt
  <2>2. CASE match' = match
    BY <1>1, <2>1, <2>2, QuietLedger
  <2>3. CASE \E m \in FreshMatches, c \in bkg[w].free :
                match' = [match EXCEPT ![m] = [st |-> "live", slot |-> bkg[w].slot, court |-> c]]
    BY <1>1, <2>1, <2>3, ReserveIsLedgerStep DEF FreshMatches
  <2> QED BY <1>2, <2>2, <2>3 DEF BookCourt
<1>3. CASE SaveBooking(w)
  <2>1. UNCHANGED match /\ bkg[w].m \in Matches /\ match[bkg[w].m].st # "unused"
    BY <1>1, <1>3 DEF SaveBooking, BkgOK
  <2>2. \/ row' = [row EXCEPT ![bkg[w].m] = IF @ = "none" THEN "active" ELSE @]
        \/ row' = row
    BY <1>3 DEF SaveBooking
  <2> QED BY <1>1, <2>1, <2>2, OpenIsLedgerStep, QuietLedger
<1>4. CASE UNCHANGED <<match, row>>
  BY <1>1, <1>4, QuietLedger
<1>5. BookCourt(w) \/ SaveBooking(w) \/ UNCHANGED <<match, row>>
  BY DEF Book, BookingStep, bookVars, StartAutoBooking, DedupSlot, ListFree, NothingBooked,
         AppendCourts, SaveResult, KeepResult, CreateGame, LinkResult, StartBookingReminder,
         AnnounceResult, PostNewGame, StampReminder, Refuse
<1> QED BY <1>2, <1>3, <1>4, <1>5

(* Every step of the lifecycle is a step of the ledger or leaves it alone. *)
LEMMA NextIsLedgerStep ==
    ASSUME Inv, [Next]_vars
    PROVE  [Ledger!LedgerNext]_Ledger!ledger
<1>1. CASE Tick
  <2>1. now' = now + 1 /\ UNCHANGED <<match, row>> /\ now \in Nat /\ CleanupAt \in Nat
    BY <1>1, TimeAssumption DEF Tick, bookVars, Inv, RestOK
  <2>2. CASE now < CleanupAt /\ now' >= CleanupAt
    <3>1. Ledger!DayEnds
      BY <2>1, <2>2 DEF Ledger!DayEnds
    <3> QED BY <3>1 DEF Ledger!LedgerNext
  <2>3. CASE (now >= CleanupAt) <=> (now' >= CleanupAt)
    BY <2>1, <2>3 DEF Ledger!ledger
  <2> QED BY <2>1, <2>2, <2>3
<1>2. ASSUME NEW w \in Workers, Release(w) \/ Book(w)
      PROVE  [Ledger!LedgerNext]_Ledger!ledger
  BY <1>2, ReleaseIsLedgerStep, BookIsLedgerStep
<1>3. CASE UNCHANGED <<match, row, now>>
  BY <1>3, QuietLedger
<1>4. ASSUME Request PROVE UNCHANGED <<match, row, now>>
  BY <1>4 DEF Request, RemovalRequest, RemoveCourts, BookingRequest, BookGameCourts,
              EditRequest, EditCourts, GameRequest, CreateManualGame, PublishRequest,
              bookVars, clockVars
<1>5. ASSUME \/ Crash \/ UNCHANGED vars
             \/ \E p \in Pollers : Poll(p)
             \/ \E w \in Workers : Panic(w)
             \/ \E g \in Games : Join(g) \/ Leave(g)
             \/ \E k \in Creds : CooldownExpires(k)
      PROVE  UNCHANGED <<match, row, now>>
  BY <1>5 DEF Crash, Panic, Restart, vars, Poll, PollStart, Join, Leave, Attend,
              CooldownExpires, bookVars, clockVars
<1> QED BY <1>1, <1>2, <1>3, <1>4, <1>5 DEF Next

(* The lifecycle implements CourtLedger: no reservation is revived, no row *)
(* reopened, and no row closed while its court is still held for a coming  *)
(* game.                                                                   *)
THEOREM LedgerRefinement == Spec => ImplementsLedger
<1>1. Init => Ledger!LedgerInit
  <2>1. ~(0 >= CleanupAt)
    BY TimeAssumption
  <2> QED BY <2>1 DEF Init, StateInit, NoMatch, Ledger!LedgerInit
<1>2. Init => Inv
  BY InitEstablishesInv
<1>3. Inv /\ [Next]_vars => Inv'
  BY NextKeepsInv
<1>4. Inv /\ [Next]_vars => [Ledger!LedgerNext]_Ledger!ledger
  BY NextIsLedgerStep
<1> QED BY <1>1, <1>2, <1>3, <1>4, PTL DEF Spec, ImplementsLedger, Ledger!LedgerSpec

-----------------------------------------------------------------------------
(* The records keep up with the platform.                                  *)

(* What RecordsFollowPlatform says of a process that is up.                *)
Behind ==
    /\ \A m \in Matches : match[m].st # "unused" /\ row[m] = "none" =>
          \E w \in Workers : bkg[w].pc = "save" /\ bkg[w].m = m
    /\ \A m \in Matches : match[m].st = "canceled" /\ row[m] = "active" =>
          \E w \in Workers : rel[w].pc = "row" /\ rel[w].m = m

(* A reservation about to be saved is held and has no row; what is to be   *)
(* given back or marked has one.  Two workers never save the same match.   *)
SaveOK(f) == f.pc = "save" => match[f.m].st = "live" /\ row[f.m] = "none"
MarkOK(f) ==
    /\ f.pc = "row" => row[f.m] # "none"
    /\ \A m \in f.picks : row[m] # "none"
SavesAreApart ==
    \A v, w \in Workers :
        v # w /\ bkg[v].pc = "save" /\ bkg[w].pc = "save" => bkg[v].m # bkg[w].m

FollowOK ==
    /\ Behind /\ SavesAreApart
    /\ \A w \in Workers : SaveOK(bkg[w])
    /\ \A w \in Workers : MarkOK(rel[w])
FollowInv == ~panicked => FollowOK

(* No write of a record fails, no answer of the platform is lost, and the  *)
(* process is not restarted.                                               *)
Unbroken == "write" \notin FaultKinds /\ "lost" \notin FaultKinds /\ MaxCrashes = 0

(* A release step that leaves the tables alone and marks nothing.          *)
LEMMA ReleaseFollows ==
    ASSUME Inv, FollowOK, NEW w \in Workers, NEW f, rel' = [rel EXCEPT ![w] = f],
           rel[w].pc # "row", f.pc # "row", \A m \in f.picks : row[m] # "none",
           UNCHANGED <<match, row, bkg>>
    PROVE  FollowOK'
<1>1. rel'[w] = f /\ \A u \in Workers : u # w => rel'[u] = rel[u]
  BY DEF Inv, RestOK
<1>2. Behind'
  <2>1. ASSUME NEW m \in Matches, match[m].st = "canceled", row[m] = "active"
        PROVE  \E u \in Workers : rel'[u].pc = "row" /\ rel'[u].m = m
    <3>1. PICK u \in Workers : rel[u].pc = "row" /\ rel[u].m = m
      BY <2>1 DEF FollowOK, Behind
    <3>2. u # w
      BY <3>1
    <3> QED BY <1>1, <3>1, <3>2
  <2> QED BY <2>1 DEF FollowOK, Behind
<1>3. ASSUME NEW u \in Workers PROVE MarkOK(rel[u])'
  BY <1>1 DEF FollowOK, MarkOK
<1>4. SavesAreApart' /\ \A u \in Workers : SaveOK(bkg[u])'
  BY DEF FollowOK, SavesAreApart, SaveOK
<1> QED BY <1>2, <1>3, <1>4 DEF FollowOK

(* A booking step that leaves the tables alone and saves nothing.          *)
LEMMA BookFollows ==
    ASSUME Inv, FollowOK, NEW w \in Workers, NEW f, bkg' = [bkg EXCEPT ![w] = f],
           bkg[w].pc # "save", f.pc # "save",
           UNCHANGED <<match, row, rel>>
    PROVE  FollowOK'
<1>1. bkg'[w] = f /\ \A u \in Workers : u # w => bkg'[u] = bkg[u]
  BY DEF Inv, RestOK
<1>2. Behind'
  <2>1. ASSUME NEW m \in Matches, match[m].st # "unused", row[m] = "none"
        PROVE  \E u \in Workers : bkg'[u].pc = "save" /\ bkg'[u].m = m
    <3>1. PICK u \in Workers : bkg[u].pc = "save" /\ bkg[u].m = m
      BY <2>1 DEF FollowOK, Behind
    <3>2. u # w
      BY <3>1
    <3> QED BY <1>1, <3>1, <3>2
  <2> QED BY <2>1 DEF FollowOK, Behind
<1>3. ASSUME NEW u \in Workers PROVE SaveOK(bkg[u])'
  BY <1>1 DEF FollowOK, SaveOK
<1>4. SavesAreApart'
  BY <1>1 DEF FollowOK, SavesAreApart
<1>5. \A u \in Workers : MarkOK(rel[u])'
  BY DEF FollowOK, MarkOK
<1> QED BY <1>2, <1>3, <1>4, <1>5 DEF FollowOK

(* Going on to the next game, or ending the job.                           *)
LEMMA ProceedPicks ==
    ASSUME NEW w, NEW todo, NEW snap, NEW t, Proceed(w, todo, snap, t)
    PROVE  \E f : rel' = [rel EXCEPT ![w] = f] /\ f.pc # "row" /\ f.picks = {}
<1>1. CASE todo = {}
  <2>1. rel' = [rel EXCEPT ![w] = IdleFrame]
    BY <1>1 DEF Proceed
  <2>2. IdleFrame.pc # "row" /\ IdleFrame.picks = {}
    BY DEF IdleFrame
  <2> QED BY <2>1, <2>2
<1>2. CASE todo # {}
  <2>1. PICK g \in todo : rel' = [rel EXCEPT ![w] = [IdleFrame EXCEPT
                            !.pc = "begin", !.todo = todo, !.snap = snap, !.t = t, !.g = g]]
    BY <1>2 DEF Proceed
  <2> DEFINE f == [IdleFrame EXCEPT !.pc = "begin", !.todo = todo, !.snap = snap, !.t = t, !.g = g]
  <2>2. f.pc # "row" /\ f.picks = {}
    BY DEF IdleFrame
  <2> QED BY <2>1, <2>2
<1> QED BY <1>1, <1>2

(* Cancellation upstream puts the worker at the row; nothing else cancels. *)
LEMMA CancelFollows ==
    ASSUME Inv, FollowOK, "lost" \notin FaultKinds, NEW w \in Workers, CancelCourt(w),
           UNCHANGED bkg
    PROVE  FollowOK'
<1>1. rel[w].pc = "cancel" /\ UNCHANGED row /\ RelOK(rel[w], w, at[w], now, match)
  BY DEF CancelCourt, Inv
<1>2. PICK m \in rel[w].picks :
          \/ /\ Works
             /\ match[m].st \in {"live", "canceled"}
             /\ match' = [match EXCEPT ![m].st = "canceled"]
             /\ rel' = [rel EXCEPT ![w].pc = "row", ![w].m = m,
                                   ![w].picks = @ \ {m},
                                   ![w].gone = @ \cup {match[m].court}]
          \/ /\ match[m].st = "canceled" /\ Works
             /\ rel' = [rel EXCEPT ![w].picks = @ \ {m}]
             /\ UNCHANGED match
          \/ /\ \/ Fails("cancel") /\ UNCHANGED match
                \/ Fails("lost") /\ match' = [match EXCEPT ![m].st = "canceled"]
             /\ rel' = [rel EXCEPT ![w].picks = @ \ {m}]
  BY DEF CancelCourt
<1>3. m \in Matches /\ row[m] # "none" /\ rel[w] \in Frame
  BY <1>1, <1>2 DEF RelOK, Frame, FollowOK, MarkOK
<1>4. CASE match' = match /\ rel' = [rel EXCEPT ![w].picks = @ \ {m}]
  <2> DEFINE f == [rel[w] EXCEPT !.picks = @ \ {m}]
  <2>1. f.pc = "cancel" /\ \A n \in f.picks : row[n] # "none"
    BY <1>1, <1>3 DEF Frame, FollowOK, MarkOK
  <2>2. rel' = [rel EXCEPT ![w] = f]
    BY <1>4
  <2> QED BY <1>1, <1>4, <2>1, <2>2, ReleaseFollows
<1>5. CASE /\ match' = [match EXCEPT ![m].st = "canceled"]
           /\ rel' = [rel EXCEPT ![w].pc = "row", ![w].m = m,
                                 ![w].picks = @ \ {m},
                                 ![w].gone = @ \cup {match[m].court}]
  <2> DEFINE f == [rel[w] EXCEPT !.pc = "row", !.m = m, !.picks = @ \ {m},
                                 !.gone = @ \cup {match[m].court}]
  <2>1. f.pc = "row" /\ f.m = m /\ f.picks \subseteq rel[w].picks
    BY <1>3 DEF Frame
  <2>2. rel' = [rel EXCEPT ![w] = f]
    BY <1>5
  <2> HIDE DEF f
  <2>3. rel'[w] = f /\ \A u \in Workers : u # w => rel'[u] = rel[u]
    BY <2>2 DEF Inv, RestOK
  <2>4. /\ match'[m].st = "canceled"
        /\ \A n \in Matches : n # m => match'[n] = match[n]
        /\ match[m].st # "unused"
    BY <1>1, <1>2, <1>3, <1>5 DEF Inv, TablesOK, Match, RelOK
  <2>5. ASSUME NEW n \in Matches, match'[n].st # "unused", row[n] = "none"
        PROVE  \E u \in Workers : bkg[u].pc = "save" /\ bkg[u].m = n
    BY <1>3, <2>4, <2>5 DEF FollowOK, Behind
  <2>6. ASSUME NEW n \in Matches, match'[n].st = "canceled", row[n] = "active"
        PROVE  \E u \in Workers : rel'[u].pc = "row" /\ rel'[u].m = n
    <3>1. CASE n = m
      BY <2>1, <2>3, <3>1
    <3>2. CASE n # m
      <4>1. PICK u \in Workers : rel[u].pc = "row" /\ rel[u].m = n
        BY <2>4, <2>6, <3>2 DEF FollowOK, Behind
      <4>2. u # w
        BY <1>1, <4>1
      <4> QED BY <2>3, <4>1, <4>2
    <3> QED BY <3>1, <3>2
  <2>7. Behind'
    BY <1>1, <2>5, <2>6 DEF Behind
  <2>8. ASSUME NEW u \in Workers PROVE SaveOK(bkg[u])'
    <3>1. bkg[u].pc = "save" => bkg[u].m \in Matches /\ bkg[u].m # m
      BY <1>3 DEF Inv, BkgOK, FollowOK, SaveOK
    <3> QED BY <1>1, <2>4, <3>1 DEF FollowOK, SaveOK
  <2>9. ASSUME NEW u \in Workers PROVE MarkOK(rel[u])'
    BY <1>1, <1>3, <2>1, <2>3 DEF FollowOK, MarkOK
  <2> QED BY <2>7, <2>8, <2>9 DEF FollowOK, SavesAreApart
<1> QED BY <1>2, <1>4, <1>5 DEF Fails

(* The row of the match given back is closed, and no other.                *)
LEMMA MarkFollows ==
    ASSUME Inv, FollowOK, "write" \notin FaultKinds, NEW w \in Workers, MarkRow(w),
           UNCHANGED bkg
    PROVE  FollowOK'
<1> DEFINE m == rel[w].m
           f == [rel[w] EXCEPT !.pc = "cancel", !.m = None]
<1>1. /\ rel[w].pc = "row" /\ UNCHANGED match
      /\ row' = [row EXCEPT ![m] = IF @ = "active" THEN "canceled" ELSE @]
      /\ rel' = [rel EXCEPT ![w] = f]
  BY DEF MarkRow, Fails
<1>2. m \in Matches /\ rel[w] \in Frame /\ row[m] # "none"
  BY <1>1 DEF Inv, RelOK, FollowOK, MarkOK
<1>3. f.pc = "cancel" /\ f.picks = rel[w].picks
  BY <1>2 DEF Frame
<1>4. rel'[w] = f /\ \A u \in Workers : u # w => rel'[u] = rel[u]
  BY <1>1 DEF Inv, RestOK
<1>5. /\ row'[m] \notin {"none", "active"}
      /\ \A n \in Matches : n # m => row'[n] = row[n]
  BY <1>1, <1>2 DEF Inv, TablesOK
<1> HIDE DEF f
<1>6. ASSUME NEW n \in Matches, match[n].st = "canceled", row'[n] = "active"
      PROVE  \E u \in Workers : rel'[u].pc = "row" /\ rel'[u].m = n
  <2>1. n # m /\ row[n] = "active"
    BY <1>5, <1>6
  <2>2. PICK u \in Workers : rel[u].pc = "row" /\ rel[u].m = n
    BY <1>6, <2>1 DEF FollowOK, Behind
  <2>3. u # w
    BY <2>1, <2>2
  <2> QED BY <1>4, <2>2, <2>3
<1>7. Behind'
  BY <1>1, <1>5, <1>6 DEF FollowOK, Behind
<1>8. ASSUME NEW u \in Workers PROVE SaveOK(bkg[u])'
  <2>1. bkg[u].pc = "save" => bkg[u].m \in Matches /\ bkg[u].m # m
    BY <1>2 DEF Inv, BkgOK, FollowOK, SaveOK
  <2> QED BY <1>1, <1>5, <2>1 DEF FollowOK, SaveOK
<1>9. ASSUME NEW u \in Workers PROVE MarkOK(rel[u])'
  <2>1. \A n \in Matches : row[n] # "none" => row'[n] # "none"
    BY <1>5
  <2>2. rel'[u].picks = rel[u].picks /\ rel[u].picks \subseteq Matches
        /\ (rel'[u].pc = "row" => rel'[u] = rel[u] /\ rel[u].m \in Matches)
    BY <1>3, <1>4 DEF Inv, RelOK, Frame
  <2> QED BY <2>1, <2>2 DEF FollowOK, MarkOK
<1> QED BY <1>7, <1>8, <1>9 DEF FollowOK, SavesAreApart

(* The cleanup closes what is open.                                        *)
LEMMA CloseFollows ==
    ASSUME Inv, FollowOK, "write" \notin FaultKinds, NEW w \in Workers, CloseRows(w),
           UNCHANGED bkg
    PROVE  FollowOK'
<1>1. /\ rel[w].pc = "rows" /\ UNCHANGED match /\ w \in Pollers /\ NextGame(w)
      /\ row' = [n \in Matches |-> IF row[n] = "active" THEN "canceled" ELSE row[n]]
  BY DEF CloseRows, Fails, Inv, RelOK
<1>2. PICK f : rel' = [rel EXCEPT ![w] = f] /\ f.pc # "row" /\ f.picks = {}
  BY <1>1, ProceedPicks DEF NextGame
<1>3. rel'[w] = f /\ \A u \in Workers : u # w => rel'[u] = rel[u]
  BY <1>2 DEF Inv, RestOK
<1>4. \A n \in Matches : row'[n] # "active" /\ (row'[n] = "none" <=> row[n] = "none")
  BY <1>1 DEF Inv, TablesOK
<1>5. Behind'
  BY <1>1, <1>4 DEF FollowOK, Behind
<1>6. ASSUME NEW u \in Workers PROVE SaveOK(bkg[u])'
  <2>1. bkg[u].pc = "save" => bkg[u].m \in Matches
    BY DEF Inv, BkgOK
  <2> QED BY <1>1, <1>4, <2>1 DEF FollowOK, SaveOK
<1>7. ASSUME NEW u \in Workers PROVE MarkOK(rel[u])'
  <2>1. rel[u].picks \subseteq Matches /\ (rel[u].pc = "row" => rel[u].m \in Matches)
    BY DEF Inv, RelOK, Frame
  <2> QED BY <1>2, <1>3, <1>4, <2>1 DEF FollowOK, MarkOK
<1> QED BY <1>5, <1>6, <1>7 DEF FollowOK, SavesAreApart

(* A reservation is made with the step that saves it to come.              *)
LEMMA ReserveFollows ==
    ASSUME Inv, FollowOK, "lost" \notin FaultKinds, NEW w \in Workers, BookCourt(w),
           UNCHANGED rel
    PROVE  FollowOK'
<1>1. bkg[w].pc = "book" /\ UNCHANGED row /\ bkg[w] \in BookFrame
  BY DEF BookCourt, Booked, Inv, BkgOK
<1>2. PICK c \in bkg[w].free, k \in bkg[w].creds, m \in FreshMatches :
          \/ /\ match' = [match EXCEPT ![m] = [st |-> "live", slot |-> bkg[w].slot, court |-> c]]
             /\ bkg' = [bkg EXCEPT ![w] = Reserved(@, c, m, k)]
          \/ match' = match /\ bkg' = [bkg EXCEPT ![w] = Rotated(@, k)]
  BY DEF BookCourt, Fails
<1>3. CASE match' = match /\ bkg' = [bkg EXCEPT ![w] = Rotated(@, k)]
  <2> DEFINE f == Rotated(bkg[w], k)
  <2>1. f.pc = "book"
    BY <1>1 DEF Rotated, BookFrame
  <2>2. bkg' = [bkg EXCEPT ![w] = f]
    BY <1>3
  <2> QED BY <1>1, <1>3, <2>1, <2>2, BookFollows
<1>4. CASE /\ match' = [match EXCEPT ![m] = [st |-> "live", slot |-> bkg[w].slot, court |-> c]]
           /\ bkg' = [bkg EXCEPT ![w] = Reserved(@, c, m, k)]
  <2> DEFINE f == Reserved(bkg[w], c, m, k)
  <2>1. f.pc = "save" /\ f.m = m
    BY <1>1 DEF Reserved, BookFrame
  <2>2. bkg' = [bkg EXCEPT ![w] = f]
    BY <1>4
  <2> HIDE DEF f
  <2>3. bkg'[w] = f /\ \A u \in Workers : u # w => bkg'[u] = bkg[u]
    BY <2>2 DEF Inv, RestOK
  <2>4. m \in Matches /\ match[m].st = "unused" /\ row[m] = "none"
    BY DEF FreshMatches, Inv, TablesOK
  <2>5. match'[m].st = "live" /\ \A n \in Matches : n # m => match'[n] = match[n]
    BY <1>4, <2>4 DEF Inv, TablesOK
  <2>6. ASSUME NEW n \in Matches, match'[n].st # "unused", row[n] = "none"
        PROVE  \E u \in Workers : bkg'[u].pc = "save" /\ bkg'[u].m = n
    <3>1. CASE n = m
      BY <2>1, <2>3, <3>1
    <3>2. CASE n # m
      <4>1. PICK u \in Workers : bkg[u].pc = "save" /\ bkg[u].m = n
        BY <2>5, <2>6, <3>2 DEF FollowOK, Behind
      <4>2. u # w
        BY <1>1, <4>1
      <4> QED BY <2>3, <4>1, <4>2
    <3> QED BY <3>1, <3>2
  <2>7. Behind'
    BY <1>1, <2>4, <2>5, <2>6 DEF FollowOK, Behind
  <2>8. \A u \in Workers : bkg[u].pc = "save" => bkg[u].m \in Matches /\ bkg[u].m # m
    BY <2>4 DEF Inv, BkgOK
  <2>9. ASSUME NEW u \in Workers PROVE SaveOK(bkg[u])'
    <3>1. CASE u = w
      BY <1>1, <2>1, <2>3, <2>4, <2>5, <3>1 DEF SaveOK
    <3>2. CASE u # w
      BY <1>1, <2>3, <2>5, <2>8, <3>2 DEF FollowOK, SaveOK
    <3> QED BY <3>1, <3>2
  <2>10. SavesAreApart'
    <3>1. ASSUME NEW u \in Workers, NEW v \in Workers, u # v,
                 bkg'[u].pc = "save", bkg'[v].pc = "save"
          PROVE  bkg'[u].m # bkg'[v].m
      BY <2>1, <2>3, <2>8, <3>1 DEF FollowOK, SavesAreApart
    <3> QED BY <3>1 DEF SavesAreApart
  <2>11. \A u \in Workers : MarkOK(rel[u])'
    BY <1>1 DEF FollowOK, MarkOK
  <2> QED BY <2>7, <2>9, <2>10, <2>11 DEF FollowOK
<1> QED BY <1>2, <1>3, <1>4

(* The row is written, of a match that is still held.                      *)
LEMMA SaveFollows ==
    ASSUME Inv, FollowOK, "write" \notin FaultKinds, NEW w \in Workers, SaveBooking(w),
           UNCHANGED rel
    PROVE  FollowOK'
<1> DEFINE m == bkg[w].m
           f == [bkg[w] EXCEPT !.pc = "book", !.m = None]
<1>1. /\ bkg[w].pc = "save" /\ UNCHANGED match
      /\ row' = [row EXCEPT ![m] = IF @ = "none" THEN "active" ELSE @]
      /\ bkg' = [bkg EXCEPT ![w] = f]
  BY DEF SaveBooking, Fails
<1>2. m \in Matches /\ bkg[w] \in BookFrame /\ match[m].st = "live" /\ row[m] = "none"
  BY <1>1 DEF Inv, BkgOK, FollowOK, SaveOK
<1>3. f.pc = "book"
  BY <1>2 DEF BookFrame
<1>4. bkg'[w] = f /\ \A u \in Workers : u # w => bkg'[u] = bkg[u]
  BY <1>1 DEF Inv, RestOK
<1>5. row'[m] = "active" /\ \A n \in Matches : n # m => row'[n] = row[n]
  BY <1>1, <1>2 DEF Inv, TablesOK
<1> HIDE DEF f
<1>6. ASSUME NEW n \in Matches, match[n].st # "unused", row'[n] = "none"
      PROVE  \E u \in Workers : bkg'[u].pc = "save" /\ bkg'[u].m = n
  <2>1. n # m /\ row[n] = "none"
    BY <1>5, <1>6
  <2>2. PICK u \in Workers : bkg[u].pc = "save" /\ bkg[u].m = n
    BY <1>6, <2>1 DEF FollowOK, Behind
  <2>3. u # w
    BY <2>1, <2>2
  <2> QED BY <1>4, <2>2, <2>3
<1>7. Behind'
  BY <1>1, <1>2, <1>5, <1>6 DEF FollowOK, Behind
<1>8. ASSUME NEW u \in Workers PROVE SaveOK(bkg[u])'
  <2>1. CASE u = w
    BY <1>3, <1>4, <2>1 DEF SaveOK
  <2>2. CASE u # w
    <3>1. bkg[u].pc = "save" => bkg[u].m \in Matches /\ bkg[u].m # m
      BY <1>1, <2>2 DEF Inv, BkgOK, FollowOK, SavesAreApart
    <3> QED BY <1>1, <1>4, <1>5, <2>2, <3>1 DEF FollowOK, SaveOK
  <2> QED BY <2>1, <2>2
<1>9. SavesAreApart'
  BY <1>3, <1>4 DEF FollowOK, SavesAreApart
<1>10. ASSUME NEW u \in Workers PROVE MarkOK(rel[u])'
  <2>1. rel[u].picks \subseteq Matches /\ (rel[u].pc = "row" => rel[u].m \in Matches)
    BY DEF Inv, RelOK, Frame
  <2>2. \A n \in Matches : row[n] # "none" => row'[n] # "none"
    BY <1>5
  <2> QED BY <2>1, <2>2 DEF FollowOK, MarkOK
<1> QED BY <1>7, <1>8, <1>9, <1>10 DEF FollowOK

(* The release flow.                                                       *)
LEMMA ReleaseStepFollows ==
    ASSUME Inv, FollowOK, Unbroken, NEW w \in Workers, Release(w)
    PROVE  FollowOK'
<1>1. rel[w] \in Frame /\ (\A m \in rel[w].picks : m \in Matches) /\ UNCHANGED bkg
  BY DEF Inv, RelOK, Frame, Release
<1>2. ASSUME NEW f, rel' = [rel EXCEPT ![w] = f], rel[w].pc # "row", f.pc # "row",
             f.picks = {} \/ f.picks \subseteq ActiveRows \/ f.picks = rel[w].picks,
             UNCHANGED <<match, row>>
      PROVE  FollowOK'
  <2>1. \A m \in f.picks : row[m] # "none"
    BY <1>2 DEF ActiveRows, FollowOK, MarkOK
  <2> QED BY <1>1, <1>2, <2>1, ReleaseFollows
<1>3. ASSUME rel[w].pc # "row", NEW todo, NEW snap, NEW t, Proceed(w, todo, snap, t),
             UNCHANGED <<match, row>>
      PROVE  FollowOK'
  BY <1>2, <1>3, ProceedPicks
<1>4. ASSUME rel[w].pc # "row", NEW pc \in {"mark", "count", "tell", "complete", "rows"},
             Goto(w, pc), UNCHANGED <<match, row>>
      PROVE  FollowOK'
  <2> DEFINE f == [rel[w] EXCEPT !.pc = pc]
  <2>1. f.pc = pc /\ f.picks = rel[w].picks
    BY <1>1 DEF Frame
  <2>2. rel' = [rel EXCEPT ![w] = f]
    BY <1>4 DEF Goto
  <2> HIDE DEF f
  <2> QED BY <1>2, <1>4, <2>1, <2>2
<1>5. ASSUME rel[w].pc # "row", rel' = [rel EXCEPT ![w] = IdleFrame], UNCHANGED <<match, row>>
      PROVE  FollowOK'
  <2>1. IdleFrame.pc = "idle" /\ IdleFrame.picks = {}
    BY DEF IdleFrame
  <2> QED BY <1>2, <1>5, <2>1
<1>6. AfterRelease(w) \in {"tell", "mark"}
  BY DEF AfterRelease
<1>7. CASE QueryGames(w)
  BY <1>3, <1>7 DEF QueryGames, bookVars
<1>8. CASE BeginHalfway(w) \/ SendReminder(w) \/ CloseMessage(w) \/ CompleteGame(w)
  <2>1. rel[w].pc # "row" /\ UNCHANGED <<match, row>>
    BY <1>8 DEF BeginHalfway, SendReminder, CloseMessage, CompleteGame, bookVars
  <2>2. NextGame(w) \/ \E pc \in {"mark", "count", "complete", "rows"} : Goto(w, pc)
    BY <1>8 DEF BeginHalfway, SendReminder, CloseMessage, CompleteGame
  <2> QED BY <1>3, <1>4, <2>1, <2>2 DEF NextGame
<1>9. CASE CountPlayers(w)
  <2>1. rel[w].pc # "row" /\ UNCHANGED <<match, row>>
    BY <1>9 DEF CountPlayers, Counting, bookVars
  <2>2. CASE NextGame(w)
    BY <1>3, <2>1, <2>2 DEF NextGame
  <2>3. CASE rel' = [rel EXCEPT ![w].pc = "load", ![w].count = players[rel[w].g]]
    <3> DEFINE f == [rel[w] EXCEPT !.pc = "load", !.count = players[rel[w].g]]
    <3>1. f.pc = "load" /\ f.picks = rel[w].picks
      BY <1>1 DEF Frame
    <3>2. rel' = [rel EXCEPT ![w] = f]
      BY <2>3
    <3> HIDE DEF f
    <3> QED BY <1>2, <2>1, <3>1, <3>2
  <2> QED BY <1>9, <2>2, <2>3 DEF CountPlayers
<1>10. CASE LoadBookings(w)
  <2>1. rel[w].pc # "row" /\ UNCHANGED <<match, row>>
    BY <1>10 DEF LoadBookings, bookVars
  <2>2. CASE Goto(w, AfterRelease(w))
    BY <1>4, <1>6, <2>1, <2>2
  <2>3. ASSUME NEW entries \in loadCourtBookingEntries(rel[w].g) \cup {{}, ActiveRows},
               rel' = [rel EXCEPT ![w].pc = "cancel", ![w].picks = Selected(entries, Quota(w))]
        PROVE  FollowOK'
    <3> DEFINE f == [rel[w] EXCEPT !.pc = "cancel", !.picks = Selected(entries, Quota(w))]
    <3>1. entries \subseteq ActiveRows
      BY DEF loadCourtBookingEntries, ActiveRows, RowsAt
    <3>2. f.pc = "cancel" /\ f.picks = Selected(entries, Quota(w))
      BY <1>1 DEF Frame
    <3>3. f.picks \subseteq ActiveRows
      BY <3>1, <3>2, SelectedAreEntries
    <3>4. rel' = [rel EXCEPT ![w] = f]
      BY <2>3
    <3> HIDE DEF f
    <3> QED BY <1>2, <2>1, <3>2, <3>3, <3>4
  <2> QED BY <1>10, <2>2, <2>3 DEF LoadBookings
<1>11. CASE CancelCourt(w)
  BY <1>1, <1>11, CancelFollows DEF Unbroken
<1>12. CASE MarkRow(w)
  BY <1>1, <1>12, MarkFollows DEF Unbroken
<1>13. CASE PersistCourts(w)
  BY <1>4, <1>6, <1>13 DEF PersistCourts, bookVars
<1>14. CASE MarkDone(w)
  BY <1>3, <1>14 DEF MarkDone, NextGame, bookVars
<1>15. CASE CloseRows(w)
  BY <1>1, <1>15, CloseFollows DEF Unbroken
<1>16. CASE LoadRemoved(w)
  <2>1. rel[w].pc # "row" /\ UNCHANGED <<match, row>>
    BY <1>16 DEF LoadRemoved, bookVars
  <2>2. CASE rel' = [rel EXCEPT ![w] = IdleFrame]
    BY <1>5, <2>1, <2>2
  <2> DEFINE removed == Read(w).courts \ rel[w].goal
             Firsts(entries) == {m \in entries :
                /\ match[m].court \in removed
                /\ \A n \in entries : match[n].court = match[m].court => m <= n}
  <2>3. ASSUME NEW entries \in loadCourtBookingEntries(rel[w].g) \cup {ActiveRows},
               rel' = [rel EXCEPT ![w].pc = "cancel", ![w].picks = Firsts(entries)]
        PROVE  FollowOK'
    <3> DEFINE f == [rel[w] EXCEPT !.pc = "cancel", !.picks = Firsts(entries)]
    <3>1. entries \subseteq ActiveRows
      BY DEF loadCourtBookingEntries, ActiveRows, RowsAt
    <3>2. f.pc = "cancel" /\ f.picks = Firsts(entries)
      BY <1>1 DEF Frame
    <3>3. f.picks \subseteq ActiveRows
      BY <3>1, <3>2
    <3>4. rel' = [rel EXCEPT ![w] = f]
      BY <2>3
    <3> HIDE DEF f
    <3> QED BY <1>2, <2>1, <3>2, <3>3, <3>4
  <2> QED BY <1>16, <2>2, <2>3 DEF LoadRemoved
<1>17. CASE PersistRemoval(w)
  BY <1>5, <1>17 DEF PersistRemoval, bookVars
<1> QED BY <1>7, <1>8, <1>9, <1>10, <1>11, <1>12, <1>13, <1>14, <1>15, <1>16, <1>17
     DEF Release, ReleaseStep

(* The next slot of a booking job, or its end, saves nothing.              *)
LEMMA ContinuePicks ==
    ASSUME NEW w, NEW todo, NEW pc, NEW endpc, pc # "save", endpc # "save",
           Continue(w, todo, pc, endpc)
    PROVE  \E f : bkg' = [bkg EXCEPT ![w] = f] /\ f.pc # "save"
<1>1. CASE bkg' = [bkg EXCEPT ![w] = IdleBook]
  <2>1. IdleBook.pc # "save"
    BY DEF IdleBook
  <2> QED BY <1>1, <2>1
<1>2. CASE bkg' = [bkg EXCEPT ![w] = [IdleBook EXCEPT !.pc = endpc]]
  <2> DEFINE f == [IdleBook EXCEPT !.pc = endpc]
  <2>1. f.pc # "save"
    BY DEF IdleBook
  <2> QED BY <1>2, <2>1
<1>3. CASE \E s \in todo : bkg' = [bkg EXCEPT ![w] = [IdleBook EXCEPT
                !.pc = pc, !.todo = todo, !.seen = bkg[w].seen, !.slot = s]]
  <2>1. PICK s \in todo : bkg' = [bkg EXCEPT ![w] = [IdleBook EXCEPT
                !.pc = pc, !.todo = todo, !.seen = bkg[w].seen, !.slot = s]]
    BY <1>3
  <2> DEFINE f == [IdleBook EXCEPT !.pc = pc, !.todo = todo, !.seen = bkg[w].seen, !.slot = s]
  <2>2. f.pc # "save"
    BY DEF IdleBook
  <2> QED BY <2>1, <2>2
<1> QED BY <1>1, <1>2, <1>3 DEF Continue

LEMMA NextSlotPicks ==
    ASSUME NEW w, NextSlot(w)
    PROVE  \E f : bkg' = [bkg EXCEPT ![w] = f] /\ f.pc # "save"
BY ContinuePicks DEF NextSlot

(* The booking flow.                                                       *)
LEMMA BookStepFollows ==
    ASSUME Inv, FollowOK, Unbroken, NEW w \in Workers, Book(w)
    PROVE  FollowOK'
<1>1. bkg[w] \in BookFrame /\ UNCHANGED rel
  BY DEF Inv, BkgOK, Book
<1>2. ASSUME bkg[w].pc # "save", \E f : bkg' = [bkg EXCEPT ![w] = f] /\ f.pc # "save",
             UNCHANGED <<match, row>>
      PROVE  FollowOK'
  BY <1>1, <1>2, BookFollows
<1>3. ASSUME bkg[w].pc # "save", UNCHANGED <<match, row>>,
             \/ NextSlot(w)
             \/ \E todo, pc, endpc :
                    pc # "save" /\ endpc # "save" /\ Continue(w, todo, pc, endpc)
             \/ bkg' = [bkg EXCEPT ![w] = IdleBook]
             \/ \E pc \in {"append", "link", "create", "post"} : Step(w, pc)
      PROVE  FollowOK'
  <2>1. ASSUME NEW pc \in {"append", "link", "create", "post"}, Step(w, pc)
        PROVE  \E f : bkg' = [bkg EXCEPT ![w] = f] /\ f.pc # "save"
    <3> DEFINE f == [bkg[w] EXCEPT !.pc = pc]
    <3>1. f.pc = pc
      BY <1>1 DEF BookFrame
    <3>2. bkg' = [bkg EXCEPT ![w] = f]
      BY <2>1 DEF Step
    <3> HIDE DEF f
    <3> QED BY <3>1, <3>2
  <2>2. IdleBook.pc # "save"
    BY DEF IdleBook
  <2> QED BY <1>2, <1>3, <2>1, <2>2, NextSlotPicks, ContinuePicks
<1>4. CASE StartAutoBooking(w)
  <2>1. bkg[w].pc # "save" /\ UNCHANGED <<match, row>>
    BY <1>4 DEF StartAutoBooking, bookVars
  <2>2. \E todo : Continue(w, todo, "dedup", "idle")
    BY <1>4 DEF StartAutoBooking
  <2> QED BY <1>3, <2>1, <2>2
<1>5. CASE DedupSlot(w)
  <2>1. bkg[w].pc # "save" /\ UNCHANGED <<match, row>>
    BY <1>5 DEF DedupSlot, bookVars
  <2>2. CASE bkg' = [bkg EXCEPT ![w].pc = "list", ![w].left = CourtsPerSlot]
    <3> DEFINE f == [bkg[w] EXCEPT !.pc = "list", !.left = CourtsPerSlot]
    <3>1. f.pc = "list"
      BY <1>1 DEF BookFrame
    <3>2. bkg' = [bkg EXCEPT ![w] = f]
      BY <2>2
    <3> HIDE DEF f
    <3> QED BY <1>2, <2>1, <3>1, <3>2
  <2> QED BY <1>3, <1>5, <2>1, <2>2 DEF DedupSlot
<1>6. CASE ListFree(w)
  <2>1. bkg[w].pc # "save" /\ UNCHANGED <<match, row>>
    BY <1>6 DEF ListFree, bookVars
  <2>2. ASSUME NEW free, NEW usable,
               bkg' = [bkg EXCEPT ![w].pc = "book", ![w].free = free, ![w].creds = usable,
                                  ![w].lim = Least(MaxCourts, bkg[w].left)]
        PROVE  FollowOK'
    <3> DEFINE f == [bkg[w] EXCEPT !.pc = "book", !.free = free, !.creds = usable,
                                   !.lim = Least(MaxCourts, bkg[w].left)]
    <3>1. f.pc = "book"
      BY <1>1 DEF BookFrame
    <3>2. bkg' = [bkg EXCEPT ![w] = f]
      BY <2>2
    <3> HIDE DEF f
    <3> QED BY <1>2, <2>1, <3>1, <3>2
  <2> QED BY <1>3, <1>6, <2>1, <2>2 DEF ListFree
<1>7. CASE BookCourt(w)
  BY <1>1, <1>7, ReserveFollows DEF Unbroken
<1>8. CASE SaveBooking(w)
  BY <1>1, <1>8, SaveFollows DEF Unbroken
<1>9. CASE NothingBooked(w) \/ AppendCourts(w) \/ SaveResult(w) \/ KeepResult(w)
  <2>1. bkg[w].pc # "save" /\ UNCHANGED <<match, row>>
    BY <1>9 DEF NothingBooked, AppendCourts, SaveResult, KeepResult, Booked, bookVars
  <2>2. \/ NextSlot(w)
        \/ bkg' = [bkg EXCEPT ![w] = IdleBook]
        \/ \E pc \in {"append", "link", "create"} : Step(w, pc)
    BY <1>9 DEF NothingBooked, AppendCourts, SaveResult, KeepResult
  <2> QED BY <1>3, <2>1, <2>2
<1>10. CASE CreateGame(w)
  <2>1. bkg[w].pc # "save" /\ UNCHANGED <<match, row>>
    BY <1>10 DEF CreateGame, bookVars
  <2>2. ASSUME NEW g, bkg' = [bkg EXCEPT ![w].pc = "link", ![w].g = g]
        PROVE  FollowOK'
    <3> DEFINE f == [bkg[w] EXCEPT !.pc = "link", !.g = g]
    <3>1. f.pc = "link"
      BY <1>1 DEF BookFrame
    <3>2. bkg' = [bkg EXCEPT ![w] = f]
      BY <2>2
    <3> HIDE DEF f
    <3> QED BY <1>2, <2>1, <3>1, <3>2
  <2> QED BY <1>3, <1>10, <2>1, <2>2 DEF CreateGame
<1>11. CASE LinkResult(w) \/ AnnounceResult(w) \/ PostNewGame(w)
  <2>1. bkg[w].pc # "save" /\ UNCHANGED <<match, row>>
    BY <1>11 DEF LinkResult, AnnounceResult, PostNewGame, bookVars
  <2>2. NextSlot(w) \/ \E pc \in {"post", "create"} : Step(w, pc)
    BY <1>11 DEF LinkResult, AnnounceResult, PostNewGame
  <2> QED BY <1>3, <2>1, <2>2
<1>12. CASE StartBookingReminder(w)
  <2>1. bkg[w].pc # "save" /\ UNCHANGED <<match, row>>
    BY <1>12 DEF StartBookingReminder, bookVars
  <2>2. ASSUME NEW s, NEW saved, bkg' = [bkg EXCEPT ![w] = [IdleBook EXCEPT
                         !.pc = "announce", !.todo = saved, !.seen = result, !.slot = s]]
        PROVE  FollowOK'
    <3> DEFINE f == [IdleBook EXCEPT !.pc = "announce", !.todo = saved, !.seen = result,
                                     !.slot = s]
    <3>1. f.pc = "announce"
      BY DEF IdleBook
    <3>2. bkg' = [bkg EXCEPT ![w] = f]
      BY <2>2
    <3> HIDE DEF f
    <3> QED BY <1>2, <2>1, <3>1, <3>2
  <2> QED BY <1>3, <1>12, <2>1, <2>2 DEF StartBookingReminder
<1>13. CASE StampReminder(w) \/ Refuse(w)
  BY <1>3, <1>13 DEF StampReminder, Refuse, bookVars
<1> QED BY <1>4, <1>5, <1>6, <1>7, <1>8, <1>9, <1>10, <1>11, <1>12, <1>13 DEF Book, BookingStep

(* The admins' requests touch no reservation and no record.                *)
LEMMA RequestFollows ==
    ASSUME Inv, FollowOK, Request
    PROVE  FollowOK'
<1>1. UNCHANGED <<match, row>>
  BY DEF Request, RemovalRequest, RemoveCourts, BookingRequest, BookGameCourts, EditRequest,
         EditCourts, GameRequest, CreateManualGame, PublishRequest, bookVars, Works, Fails, faultVars
<1>2. ASSUME NEW w \in Admins, RemovalRequest(w), UNCHANGED bkg PROVE FollowOK'
  <2>1. PICK g \in Games, courts \in SUBSET Labels : RemoveCourts(w, g, courts)
    BY <1>2 DEF RemovalRequest
  <2> DEFINE f == [IdleFrame EXCEPT
                 !.pc = IF game[g].courts \subseteq courts THEN "cancel" ELSE "load",
                 !.snap = game, !.g = g, !.goal = courts]
  <2>2. rel[w].pc = "idle" /\ rel' = [rel EXCEPT ![w] = f]
    BY <2>1 DEF RemoveCourts
  <2>3. f.pc # "row" /\ f.picks = {}
    BY DEF IdleFrame
  <2> HIDE DEF f
  <2> QED BY <1>1, <1>2, <2>2, <2>3, ReleaseFollows DEF Workers
<1>3. ASSUME NEW w \in Admins, BookingRequest(w), UNCHANGED rel PROVE FollowOK'
  <2>1. PICK g \in Games, n \in 1..CourtsPerSlot : BookGameCourts(w, g, n)
    BY <1>3 DEF BookingRequest
  <2>2. bkg[w].pc = "idle"
    BY <2>1 DEF BookGameCourts
  <2>3. CASE bkg' = [bkg EXCEPT ![w] = [IdleBook EXCEPT !.pc = "refused"]]
    <3> DEFINE f == [IdleBook EXCEPT !.pc = "refused"]
    <3>1. f.pc # "save"
      BY DEF IdleBook
    <3> QED BY <1>1, <1>3, <2>2, <2>3, <3>1, BookFollows DEF Workers
  <2>4. CASE bkg' = [bkg EXCEPT ![w] =
                [IdleBook EXCEPT !.pc = "list", !.slot = game[g].slot, !.left = n,
                                 !.g = g, !.old = game[g].courts]]
    <3> DEFINE f == [IdleBook EXCEPT !.pc = "list", !.slot = game[g].slot, !.left = n,
                                     !.g = g, !.old = game[g].courts]
    <3>1. f.pc # "save"
      BY DEF IdleBook
    <3>2. bkg' = [bkg EXCEPT ![w] = f]
      BY <2>4
    <3> HIDE DEF f
    <3> QED BY <1>1, <1>3, <2>2, <3>1, <3>2, BookFollows DEF Workers
  <2> QED BY <2>1, <2>3, <2>4 DEF BookGameCourts
<1>4. CASE UNCHANGED <<rel, bkg>>
  BY <1>1, <1>4 DEF FollowOK, Behind, SavesAreApart, SaveOK, MarkOK
<1> QED BY <1>2, <1>3, <1>4
     DEF Request, EditRequest, EditCourts, GameRequest, CreateManualGame, PublishRequest

LEMMA InitFollows == ASSUME Init PROVE FollowOK
BY DEF Init, StateInit, ReleaseInit, BookInit, NoMatch, IdleFrame, IdleBook,
       FollowOK, Behind, SavesAreApart, SaveOK, MarkOK

(* Every step but a division by zero.                                      *)
LEMMA NextFollowsOn ==
    ASSUME Inv, FollowOK, Unbroken, [Next]_vars, \A w \in Workers : ~Panic(w)
    PROVE  FollowOK'
<1>1. ASSUME NEW w \in Workers, Release(w) \/ Book(w) PROVE FollowOK'
  BY <1>1, ReleaseStepFollows, BookStepFollows
<1>2. ~Crash
  BY DEF Crash, Unbroken, Inv, RestOK
<1>3. CASE Request
  BY <1>3, RequestFollows
<1>4. ASSUME UNCHANGED <<match, row, rel, bkg>> PROVE FollowOK'
  BY <1>4 DEF FollowOK, Behind, SavesAreApart, SaveOK, MarkOK
<1>5. ASSUME \/ Tick \/ UNCHANGED vars
             \/ \E p \in Pollers : Poll(p)
             \/ \E g \in Games : Join(g) \/ Leave(g)
             \/ \E k \in Creds : CooldownExpires(k)
      PROVE  UNCHANGED <<match, row, rel, bkg>>
  BY <1>5 DEF Tick, vars, Poll, PollStart, Join, Leave, Attend, CooldownExpires,
              bookVars, planVars
<1> QED BY <1>1, <1>2, <1>3, <1>4, <1>5 DEF Next

LEMMA StaysPanicked == ASSUME [Next]_vars, panicked PROVE panicked'
<1>1. ASSUME NEW w \in Workers, Release(w) PROVE UNCHANGED panicked
  BY <1>1 DEF Release, ReleaseStep, QueryGames, BeginHalfway, CountPlayers, LoadBookings,
         CancelCourt, MarkRow, PersistCourts, SendReminder, MarkDone, CloseMessage,
         CompleteGame, CloseRows, LoadRemoved, PersistRemoval, Works, Fails, faultVars
<1>2. ASSUME NEW w \in Workers, Book(w) PROVE UNCHANGED panicked
  BY <1>2 DEF Book, BookingStep, StartAutoBooking, DedupSlot, ListFree, BookCourt, SaveBooking,
         NothingBooked, AppendCourts, SaveResult, KeepResult, CreateGame, LinkResult,
         StartBookingReminder, AnnounceResult, PostNewGame, StampReminder, Refuse,
         Works, Fails, faultVars
<1>3. CASE Request
  BY <1>3 DEF Request, RemovalRequest, RemoveCourts, BookingRequest, BookGameCourts, EditRequest,
         EditCourts, GameRequest, CreateManualGame, PublishRequest, Works, Fails, faultVars
<1>4. CASE \/ Tick \/ UNCHANGED vars \/ Crash
           \/ \E p \in Pollers : Poll(p)
           \/ \E g \in Games : Join(g) \/ Leave(g)
           \/ \E k \in Creds : CooldownExpires(k)
  BY <1>4 DEF Tick, vars, Crash, Poll, Join, Leave, Attend, CooldownExpires, faultVars
<1>5. ASSUME NEW w \in Workers, Panic(w) PROVE panicked'
  BY <1>5 DEF Panic
<1> QED BY <1>1, <1>2, <1>3, <1>4, <1>5 DEF Next

LEMMA NextFollows == ASSUME Inv, FollowInv, Unbroken, [Next]_vars PROVE FollowInv'
<1>1. ASSUME NEW w \in Workers, Panic(w) PROVE FollowInv'
  BY <1>1 DEF Panic, FollowInv
<1> QED BY <1>1, StaysPanicked, NextFollowsOn DEF FollowInv

(* Two jobs, a job and an admin's request, or two requests may book and    *)
(* give back at the same time: while no write of a record fails, no answer *)
(* of the platform is lost and the process is up, a reservation without a  *)
(* row is about to be saved and one given back under an open row about to  *)
(* be marked (booking_core.go:50, court_cancellation.go:180,               *)
(* game_service.go:536).                                                   *)
THEOREM RecordsKeepUp ==
    ASSUME "write" \notin FaultKinds, "lost" \notin FaultKinds, MaxCrashes = 0
    PROVE  Spec => []RecordsFollowPlatform
<1>1. Init => Inv /\ FollowInv
  BY InitEstablishesInv, InitFollows DEF FollowInv
<1>2. Inv /\ FollowInv /\ [Next]_vars => (Inv /\ FollowInv)'
  BY NextKeepsInv, NextFollows DEF Unbroken
<1>3. FollowInv => RecordsFollowPlatform
  BY DEF FollowInv, FollowOK, Behind, RecordsFollowPlatform
<1> QED BY <1>1, <1>2, <1>3, PTL DEF Spec

-----------------------------------------------------------------------------

(* One poll at a time.                                                     *)

(* The polls finish within their interval, no admin is at work, no write   *)
(* of the database fails and the process is not restarted.                 *)
Alone == PollsKeepUp /\ Admins = {} /\ "write" \notin FaultKinds /\ MaxCrashes = 0

(* A poll that is at a job is the one of this tick, and the only one.      *)
OnePoll ==
    \A p \in Pollers : at[p] # 0 => polled /\ \A q \in Pollers : q # p => at[q] = 0

(* What is at no job is idle, and what is at one is idle in the other flow.*)
LEMMA DutyIsAlone ==
    ASSUME Inv, Alone, OnePoll, NEW w \in Workers, at[w] # 0
    PROVE  /\ w \in Pollers /\ polled
           /\ \A u \in Workers : u # w => at[u] = 0 /\ rel[u].pc = "idle" /\ bkg[u].pc = "idle"
<1>1. Workers = Pollers /\ 0 \notin DOMAIN Jobs
  BY WorkersAssumption DEF Workers, Alone
<1> QED BY <1>1 DEF OnePoll, Inv, RelOK, BkgOK

LEMMA BookerIsAt ==
    ASSUME Inv, Alone, NEW w \in Workers, bkg[w].pc # "idle" \/ Book(w)
    PROVE  /\ at[w] # 0 /\ rel[w].pc = "idle" /\ w \in Pollers /\ w \notin Admins
           /\ AtJob(w, "auto_booking") \/ AtJob(w, "booking_reminder")
           /\ ~(AtJob(w, "auto_booking") /\ AtJob(w, "booking_reminder"))
<1>1. w \in Pollers /\ w \notin Admins /\ 0 \notin DOMAIN Jobs
  BY WorkersAssumption DEF Workers, Alone
<1>2. bkg[w].pc # "idle" \/ AtJob(w, "auto_booking") \/ AtJob(w, "booking_reminder")
  BY DEF Book, BookingStep, StartAutoBooking, DedupSlot, ListFree, BookCourt, SaveBooking,
         NothingBooked, AppendCourts, SaveResult, KeepResult, CreateGame, LinkResult,
         StartBookingReminder, AnnounceResult, PostNewGame, StampReminder, Refuse, Booked
<1>3. AtJob(w, "auto_booking") \/ AtJob(w, "booking_reminder")
  BY <1>1, <1>2 DEF Inv, BkgOK, AtJob
<1> QED BY <1>1, <1>3 DEF Inv, RelOK, AtJob, ReleaseJobs

LEMMA ReleaserIsAt ==
    ASSUME Inv, Alone, NEW w \in Workers, rel[w].pc # "idle" \/ Release(w)
    PROVE  /\ at[w] # 0 /\ bkg[w].pc = "idle" /\ w \in Pollers /\ w \notin Admins
           /\ \E job \in ReleaseJobs : AtJob(w, job)
<1>1. w \in Pollers /\ w \notin Admins /\ 0 \notin DOMAIN Jobs
  BY WorkersAssumption DEF Workers, Alone
<1>2. rel[w].pc # "idle" \/ \E job \in ReleaseJobs : AtJob(w, job)
  BY DEF Release, ReleaseStep, QueryGames, BeginHalfway, CountPlayers, Counting,
         LoadBookings, CancelCourt, MarkRow, PersistCourts, SendReminder, MarkDone,
         CloseMessage, CompleteGame, CloseRows, LoadRemoved, PersistRemoval
<1>3. \E job \in ReleaseJobs : AtJob(w, job)
  BY <1>1, <1>2 DEF Inv, RelOK, AtJob
<1> QED BY <1>1, <1>3 DEF Inv, BkgOK, AtJob, ReleaseJobs

(* A step of a flow moves nobody's poll but its own, and not before it is  *)
(* at a job.                                                               *)
LEMMA FlowsMoveOwnPoll ==
    ASSUME Inv, Alone, NEW w \in Workers, Release(w) \/ Book(w)
    PROVE  polled' = polled /\ at' \in [Pollers -> Nat]
           /\ \A p \in Pollers : p # w => at'[p] = at[p]
<1>1. at \in [Pollers -> Nat] /\ w \notin Admins
  BY BookerIsAt, ReleaserIsAt DEF Inv, RestOK
<1>2. polled' = polled
  BY DEF Release, ReleaseStep, Book, BookingStep, clockVars
<1>3. ASSUME NextJob(w) \/ UNCHANGED at
      PROVE  at' \in [Pollers -> Nat] /\ \A p \in Pollers : p # w => at'[p] = at[p]
  BY <1>1, <1>3 DEF NextJob
<1>4. ASSUME NEW todo, NEW snap, NEW t, Proceed(w, todo, snap, t)
      PROVE  NextJob(w) \/ UNCHANGED at
  BY <1>4 DEF Proceed
<1>5. ASSUME NEW todo, NEW pc, NEW endpc, Continue(w, todo, pc, endpc)
      PROVE  NextJob(w) \/ UNCHANGED at
  BY <1>5 DEF Continue
<1>6. ASSUME Release(w) PROVE NextJob(w) \/ UNCHANGED at
  BY <1>4, <1>6 DEF Release, ReleaseStep, QueryGames, BeginHalfway, CountPlayers,
         LoadBookings, CancelCourt, MarkRow, PersistCourts, SendReminder, MarkDone,
         CloseMessage, CompleteGame, CloseRows, LoadRemoved, PersistRemoval, NextGame
<1>7. ASSUME Book(w) PROVE NextJob(w) \/ UNCHANGED at
  BY <1>5, <1>7 DEF Book, BookingStep, StartAutoBooking, DedupSlot, ListFree, BookCourt,
         SaveBooking, NothingBooked, AppendCourts, SaveResult, KeepResult, CreateGame,
         LinkResult, StartBookingReminder, AnnounceResult, PostNewGame, StampReminder, Refuse,
         NextSlot
<1> QED BY <1>2, <1>3, <1>6, <1>7

(* Polls never overlap: the next tick waits for this one's poll.           *)
LEMMA OnePollKept ==
    ASSUME Inv, Alone, OnePoll, [Next]_vars
    PROVE  OnePoll'
<1>1. ASSUME NEW w \in Workers, Release(w) \/ Book(w) PROVE OnePoll'
  <2>1. at[w] # 0 /\ w \in Pollers
    BY <1>1, BookerIsAt, ReleaserIsAt
  <2> QED BY <1>1, <2>1, FlowsMoveOwnPoll DEF OnePoll
<1>2. ASSUME NEW p \in Pollers, Poll(p) PROVE OnePoll'
  BY <1>2 DEF Poll, PollStart, OnePoll, Inv, RestOK
<1>3. CASE Tick
  BY <1>3 DEF Tick, Idle, OnePoll, Alone
<1>4. ASSUME at' = [p \in Pollers |-> 0] PROVE OnePoll'
  BY <1>4 DEF OnePoll
<1>5. ASSUME UNCHANGED <<at, polled>> PROVE OnePoll'
  BY <1>5 DEF OnePoll
<1>6. CASE Crash \/ \E w \in Workers : Panic(w)
  BY <1>4, <1>6 DEF Crash, Panic, Restart
<1>7. CASE \/ Request \/ \E g \in Games : Join(g) \/ Leave(g)
           \/ \E k \in Creds : CooldownExpires(k)
           \/ UNCHANGED vars
  BY <1>5, <1>7 DEF Request, RemovalRequest, RemoveCourts, BookingRequest, BookGameCourts,
         EditRequest, EditCourts, GameRequest, CreateManualGame, PublishRequest,
         Join, Leave, Attend, CooldownExpires, clockVars, vars
<1> QED BY <1>1, <1>2, <1>3, <1>6, <1>7 DEF Next

-----------------------------------------------------------------------------
(* One game per slot.                                                      *)

(* What the results and the games say of slot s.                           *)
PlanOK(s) ==
    /\ result[s].game # None => result[s].saved /\ game[result[s].game].slot = s
    /\ \A g \in Games : game[g].slot = s =>
          \/ result[s].game = g
          \/ \E w \in Workers : bkg[w].pc = "link" /\ bkg[w].slot = s /\ bkg[w].g = g
    /\ result[s].saved /\ result[s].game = None =>
          \E w \in Workers : bkg[w].pc \in {"create", "link"} /\ bkg[w].slot = s

(* What the worker at work on frame f has to know of them.                 *)
PlanFrameOK(f) ==
    /\ f.pc \notin {"append", "refused", "post"}
    /\ f.pc = "announce" => f.slot \in f.todo /\ \A s \in f.todo : f.seen[s].game # None
    /\ f.pc \in {"list", "book", "save"} => ~result[f.slot].saved
    /\ f.pc \in {"create", "link"} => result[f.slot].saved /\ result[f.slot].game = None
    /\ f.pc = "link" => f.g \in Games /\ game[f.g].slot = f.slot

PlanInv ==
    /\ \A s \in Slots : PlanOK(s)
    /\ \A w \in Workers : PlanFrameOK(bkg[w])
    /\ \A w \in Workers :
          bkg[w].pc \in {"dedup", "list", "book", "save", "create", "link"} =>
              AtJob(w, "auto_booking")

-----------------------------------------------------------------------------
(* What a booking step does, as far as slots, courts and games go.         *)

SlotsFixed == \A g \in Games : game'[g].slot = game[g].slot
CourtsFixed ==
    /\ SlotsFixed
    /\ \A g \in Games : game'[g].courts = game[g].courts /\ game'[g].count = game[g].count

(* The worker takes up the next slot of its job, or ends it.               *)
NextUp(w, f) ==
    /\ bkg' = [bkg EXCEPT ![w] = f]
    /\ f.pc \in {"idle", "dedup", "announce", "stamp"}
    /\ f.got = {}
    /\ f.pc # "idle" => at' = at
    /\ f.pc = "dedup" => AtJob(w, "auto_booking")
    /\ f.pc = "announce" =>
          /\ f.slot \in f.todo
          /\ \/ /\ bkg[w].pc = "idle" /\ f.seen = result
                /\ \A s \in f.todo : result[s].saved
             \/ bkg[w].pc = "announce" /\ f.seen = bkg[w].seen /\ f.todo \subseteq bkg[w].todo

Turn(w) ==
    /\ \/ bkg[w].pc \in {"idle", "dedup", "list", "announce", "stamp"}
       \/ bkg[w].pc = "book" /\ bkg[w].got = {}
    /\ \E f : NextUp(w, f)
    /\ UNCHANGED <<match, result>> /\ CourtsFixed

(* It moves on within the slot.                                            *)
Lists(w) ==
    /\ bkg[w].pc = "dedup" /\ ~result[bkg[w].slot].saved
    /\ bkg' = [bkg EXCEPT ![w] = [bkg[w] EXCEPT !.pc = "list", !.left = CourtsPerSlot]]
    /\ UNCHANGED <<at, match, result, game>>
StartsBooking(w) ==
    /\ bkg[w].pc = "list"
    /\ \E free \in SUBSET Labels, creds \in SUBSET Creds, lim \in Nat :
          bkg' = [bkg EXCEPT ![w] = [bkg[w] EXCEPT !.pc = "book", !.free = free,
                                                   !.creds = creds, !.lim = lim]]
    /\ UNCHANGED <<at, match, result, game>>
Reserves(w) ==
    /\ bkg[w].pc = "book" /\ bkg[w].left # 0
    /\ \E c \in Labels, m \in Matches, k \in Creds :
          /\ match[m].st = "unused"
          /\ \A n \in LiveAt(bkg[w].slot) : match[n].court # c
          /\ match' = [match EXCEPT ![m] = [st |-> "live", slot |-> bkg[w].slot, court |-> c]]
          /\ bkg' = [bkg EXCEPT ![w] = Reserved(bkg[w], c, m, k)]
    /\ UNCHANGED <<at, result, game>>
Blames(w) ==
    /\ bkg[w].pc = "book" /\ bkg[w].left # 0
    /\ \E k \in Creds : bkg' = [bkg EXCEPT ![w] = Rotated(bkg[w], k)]
    /\ UNCHANGED <<at, result, game>>
    /\ "lost" \notin FaultKinds => UNCHANGED match
    /\ \/ UNCHANGED match
       \/ \E m \in Matches, c \in Labels :
             /\ match[m].st = "unused"
             /\ match' = [match EXCEPT ![m] = [st |-> "live", slot |-> bkg[w].slot, court |-> c]]
Saves(w) ==
    /\ bkg[w].pc = "save"
    /\ bkg' = [bkg EXCEPT ![w] = [bkg[w] EXCEPT !.pc = "book", !.m = None]]
    /\ UNCHANGED <<at, match, result, game>>
SavesResult(w) ==
    /\ bkg[w].pc = "book" /\ bkg[w].got # {}
    /\ result' = [result EXCEPT ![bkg[w].slot] =
          IF @.saved THEN @ ELSE [saved |-> TRUE, courts |-> bkg[w].got, game |-> None]]
    /\ bkg' = [bkg EXCEPT ![w] = [bkg[w] EXCEPT !.pc = "create"]]
    /\ UNCHANGED <<at, match, game>>
Creates(w) ==
    /\ bkg[w].pc = "create"
    /\ \E g \in Games :
          /\ ~Created(g)
          /\ game' = [game EXCEPT ![g] = NewGame(bkg[w].slot, bkg[w].got, Cardinality(bkg[w].got))]
          /\ bkg' = [bkg EXCEPT ![w] = [bkg[w] EXCEPT !.pc = "link", !.g = g]]
    /\ UNCHANGED <<at, match, result>>
Links(w) ==
    /\ bkg[w].pc = "link"
    /\ result' = [result EXCEPT ![bkg[w].slot].game = bkg[w].g]
    /\ \E f : NextUp(w, f)
    /\ UNCHANGED <<match, game>>

BookEffect(w) ==
    \/ Turn(w) \/ Lists(w) \/ StartsBooking(w) \/ Reserves(w) \/ Blames(w) \/ Saves(w)
    \/ SavesResult(w) \/ Creates(w) \/ Links(w)

(* Going on to the next slot, or ending the job.                           *)
LEMMA ContinueIsNextUp ==
    ASSUME NEW w, w \notin Admins, NEW todo, NEW pc, NEW endpc \in {"idle", "stamp"},
           Continue(w, todo, pc, endpc),
           \/ todo = {} /\ pc = "announce"
           \/ pc = "dedup" /\ AtJob(w, "auto_booking")
           \/ pc = "announce" /\ bkg[w].pc = "announce" /\ todo \subseteq bkg[w].todo
    PROVE  \E f : NextUp(w, f)
<1>1. CASE todo = {} /\ endpc = "idle"
  <2>1. bkg' = [bkg EXCEPT ![w] = IdleBook]
    BY <1>1 DEF Continue
  <2>2. IdleBook.pc = "idle" /\ IdleBook.got = {}
    BY DEF IdleBook
  <2> QED BY <2>1, <2>2 DEF NextUp
<1>2. CASE todo = {} /\ endpc = "stamp"
  <2> DEFINE f == [IdleBook EXCEPT !.pc = "stamp"]
  <2>1. bkg' = [bkg EXCEPT ![w] = f] /\ at' = at
    BY <1>2 DEF Continue
  <2>2. f.pc = "stamp" /\ f.got = {}
    BY DEF IdleBook
  <2> HIDE DEF f
  <2> QED BY <2>1, <2>2 DEF NextUp
<1>3. CASE todo # {}
  <2>1. PICK s \in todo : bkg' = [bkg EXCEPT ![w] = [IdleBook EXCEPT
                !.pc = pc, !.todo = todo, !.seen = bkg[w].seen, !.slot = s]]
    BY <1>3 DEF Continue
  <2>2. at' = at
    BY <1>3 DEF Continue
  <2> DEFINE f == [IdleBook EXCEPT !.pc = pc, !.todo = todo, !.seen = bkg[w].seen, !.slot = s]
  <2>3. f.pc = pc /\ f.todo = todo /\ f.seen = bkg[w].seen /\ f.slot = s /\ f.got = {}
    BY DEF IdleBook
  <2>4. bkg' = [bkg EXCEPT ![w] = f]
    BY <2>1
  <2> HIDE DEF f
  <2>5. NextUp(w, f)
    BY <1>3, <2>2, <2>3, <2>4 DEF NextUp
  <2> QED BY <2>5
<1> QED BY <1>1, <1>2, <1>3

LEMMA NextSlotIsNextUp ==
    ASSUME Inv, Alone, PlanInv, NEW w \in Workers, bkg[w].pc # "idle", NextSlot(w),
           bkg[w].pc # "stamp"
    PROVE  \E f : NextUp(w, f)
<1>1. w \in Pollers /\ w \notin Admins
      /\ (AtJob(w, "auto_booking") \/ AtJob(w, "booking_reminder"))
  BY BookerIsAt
<1>2. CASE AtJob(w, "booking_reminder")
  <2>1. bkg[w].pc = "announce"
    <3>1. bkg[w].pc \notin {"dedup", "list", "book", "save", "create", "link"}
      BY <1>2, BookerIsAt DEF PlanInv
    <3> QED BY <3>1 DEF PlanInv, PlanFrameOK, Inv, BkgOK, BookFrame
  <2>2. Continue(w, Rest(w), "announce", "stamp")
    BY <1>1, <1>2 DEF NextSlot
  <2>3. Rest(w) \subseteq bkg[w].todo
    BY DEF Rest
  <2> QED BY <1>1, <2>1, <2>2, <2>3, ContinueIsNextUp
<1>3. CASE ~AtJob(w, "booking_reminder")
  <2>1. Continue(w, Rest(w), "dedup", "idle")
    BY <1>3 DEF NextSlot
  <2> QED BY <1>1, <1>3, <2>1, ContinueIsNextUp
<1> QED BY <1>2, <1>3

(* Publishing, appending nothing: a step that changes other columns.       *)
LEMMA PublishFixesCourts ==
    ASSUME Inv, NEW g, Publish(g) \/ UNCHANGED game
    PROVE  CourtsFixed
<1>1. CASE UNCHANGED game
  BY <1>1 DEF CourtsFixed, SlotsFixed
<1>2. CASE Publish(g)
  <2>1. ASSUME NEW h \in Games
        PROVE  /\ game'[h].slot = game[h].slot /\ game'[h].courts = game[h].courts
               /\ game'[h].count = game[h].count
    <3>1. game[h] \in Game
      BY DEF Inv, RestOK
    <3>2. game'[h] = game[h] \/ game'[h] = [game[h] EXCEPT !.published = TRUE]
      BY <1>2 DEF Publish, Inv, RestOK
    <3> QED BY <3>1, <3>2 DEF Game
  <2> QED BY <2>1 DEF CourtsFixed, SlotsFixed
<1> QED BY <1>1, <1>2

(* While one poll is at work alone, a booking step is one of these.        *)
LEMMA BookHasEffect ==
    ASSUME Inv, Alone, OnePoll, PlanInv, NEW w \in Workers, Book(w)
    PROVE  BookEffect(w)
<1> DEFINE frame == bkg[w]
<1>1. /\ w \in Pollers /\ w \notin Admins /\ at[w] # 0
      /\ AtJob(w, "auto_booking") \/ AtJob(w, "booking_reminder")
      /\ ~(AtJob(w, "auto_booking") /\ AtJob(w, "booking_reminder"))
  BY BookerIsAt
<1>2. /\ frame \in BookFrame /\ PlanFrameOK(frame)
      /\ BkgOK(frame, w, at[w], match)
      /\ frame.pc \in {"dedup", "list", "book", "save", "create", "link"} =>
             AtJob(w, "auto_booking")
  BY DEF Inv, BkgOK, PlanInv
<1>3. ~Fails("write") /\ Alone
  BY DEF Fails, Alone
<1>4. ASSUME UNCHANGED <<match, result>>, CourtsFixed, NextSlot(w),
             \/ frame.pc \in {"dedup", "list", "announce"}
             \/ frame.pc = "book" /\ frame.got = {}
      PROVE  BookEffect(w)
  <2>1. \E f : NextUp(w, f)
    BY <1>4, NextSlotIsNextUp
  <2> QED BY <1>4, <2>1 DEF BookEffect, Turn
<1>5. UNCHANGED game => CourtsFixed
  BY DEF CourtsFixed, SlotsFixed
<1>6. CASE StartAutoBooking(w)
  <2>1. PICK todo : Continue(w, todo, "dedup", "idle")
    BY <1>6 DEF StartAutoBooking
  <2>2. \E f : NextUp(w, f)
    BY <1>1, <1>6, <2>1, ContinueIsNextUp DEF StartAutoBooking
  <2>3. frame.pc = "idle" /\ UNCHANGED <<match, result, game>>
    BY <1>6 DEF StartAutoBooking, bookVars, planVars
  <2> QED BY <1>5, <2>2, <2>3 DEF BookEffect, Turn
<1>7. CASE DedupSlot(w)
  <2>1. frame.pc = "dedup" /\ UNCHANGED <<match, result, game>>
    BY <1>7 DEF DedupSlot, bookVars, planVars
  <2>2. \/ NextSlot(w)
        \/ /\ ~result[frame.slot].saved /\ UNCHANGED at
           /\ bkg' = [bkg EXCEPT ![w].pc = "list", ![w].left = CourtsPerSlot]
    BY <1>7 DEF DedupSlot
  <2>3. CASE /\ ~result[frame.slot].saved /\ UNCHANGED at
             /\ bkg' = [bkg EXCEPT ![w].pc = "list", ![w].left = CourtsPerSlot]
    BY <2>1, <2>3 DEF BookEffect, Lists
  <2> QED BY <1>4, <1>5, <2>1, <2>2, <2>3
<1>8. CASE ListFree(w)
  <2>1. frame.pc = "list" /\ UNCHANGED <<match, result, game>>
    BY <1>8 DEF ListFree, bookVars, planVars
  <2>2. \/ NextSlot(w)
        \/ \E free \in SUBSET Labels, usable \in SUBSET Creds :
              /\ UNCHANGED at
              /\ bkg' = [bkg EXCEPT ![w].pc = "book", ![w].free = free, ![w].creds = usable,
                                    ![w].lim = Least(MaxCourts, bkg[w].left)]
    BY <1>8 DEF ListFree
  <2>3. ASSUME NEW free \in SUBSET Labels, NEW usable \in SUBSET Creds, UNCHANGED at,
               bkg' = [bkg EXCEPT ![w].pc = "book", ![w].free = free, ![w].creds = usable,
                                  ![w].lim = Least(MaxCourts, bkg[w].left)]
        PROVE  BookEffect(w)
    <3>1. PICK lim : lim = Least(MaxCourts, bkg[w].left)
      OBVIOUS
    <3>2. lim \in Nat
      BY <1>2, <3>1, CountsAssumption DEF BookFrame, Least
    <3>3. bkg' = [bkg EXCEPT ![w] = [bkg[w] EXCEPT !.pc = "book", !.free = free,
                                                   !.creds = usable, !.lim = lim]]
      BY <2>3, <3>1
    <3>4. StartsBooking(w)
      BY <2>1, <2>3, <3>2, <3>3 DEF StartsBooking
    <3> QED BY <3>4 DEF BookEffect
  <2> QED BY <1>4, <1>5, <2>1, <2>2, <2>3
<1>9. CASE BookCourt(w)
  <2>1. /\ frame.pc = "book" /\ frame.left # 0
        /\ UNCHANGED <<at, result, game>>
    BY <1>9 DEF BookCourt, Booked, planVars
  <2>2. PICK c \in frame.free, k \in frame.creds, m \in FreshMatches :
          LET s == frame.slot
              taken == \E n \in LiveAt(s) : match[n].court = c
              reserve == match' = [match EXCEPT ![m] = [st |-> "live", slot |-> s, court |-> c]]
              blame == /\ bkg' = [bkg EXCEPT ![w] = Rotated(@, k)]
                       /\ cooling' = cooling \cup {k}
          IN  \/ /\ ~taken /\ Works /\ reserve
                 /\ bkg' = [bkg EXCEPT ![w] = Reserved(@, c, m, k)]
                 /\ UNCHANGED cooling
              \/ taken /\ Works /\ blame /\ UNCHANGED match
              \/ Fails("book") /\ blame /\ UNCHANGED match
              \/ ~taken /\ Fails("lost") /\ blame /\ reserve
    BY <1>9 DEF BookCourt
  <2>3. c \in Labels /\ k \in Creds /\ m \in Matches /\ match[m].st = "unused"
    BY <1>2 DEF BookFrame, FreshMatches
  <2> DEFINE reserve == match' = [match EXCEPT
                           ![m] = [st |-> "live", slot |-> frame.slot, court |-> c]]
  <2>4. CASE /\ ~\E n \in LiveAt(frame.slot) : match[n].court = c
             /\ reserve /\ bkg' = [bkg EXCEPT ![w] = Reserved(@, c, m, k)]
    <3>1. Reserves(w)
      BY <2>1, <2>3, <2>4 DEF Reserves
    <3> QED BY <3>1 DEF BookEffect
  <2>5. CASE /\ bkg' = [bkg EXCEPT ![w] = Rotated(@, k)]
             /\ UNCHANGED match \/ (reserve /\ "lost" \in FaultKinds)
    <3>1. Blames(w)
      BY <2>1, <2>3, <2>5 DEF Blames
    <3> QED BY <3>1 DEF BookEffect
  <2> QED BY <2>2, <2>4, <2>5 DEF Fails
<1>10. CASE SaveBooking(w)
  BY <1>10 DEF SaveBooking, planVars, BookEffect, Saves
<1>11. CASE NothingBooked(w)
  BY <1>4, <1>5, <1>11 DEF NothingBooked, Booked, bookVars, planVars
<1>12. CASE AppendCourts(w) \/ KeepResult(w) \/ PostNewGame(w) \/ Refuse(w)
  BY <1>1, <1>2, <1>12 DEF AppendCourts, KeepResult, PostNewGame, Refuse, PlanFrameOK
<1>13. CASE SaveResult(w)
  BY <1>1, <1>2, <1>3, <1>13
     DEF SaveResult, Booked, Step, PlanFrameOK, bookVars, BookEffect, SavesResult
<1>14. CASE CreateGame(w)
  <2>1. frame.pc = "create" /\ UNCHANGED <<at, match, result>> /\ AtJob(w, "auto_booking")
    BY <1>2, <1>3, <1>14 DEF CreateGame, bookVars
  <2>2. PICK g \in FreshGames :
           /\ game' = [game EXCEPT ![g] = NewGame(frame.slot, frame.got, Cardinality(frame.got))]
           /\ bkg' = [bkg EXCEPT ![w].pc = "link", ![w].g = g]
    BY <1>3, <1>14, <2>1 DEF CreateGame
  <2> QED BY <2>1, <2>2 DEF BookEffect, Creates, FreshGames
<1>15. CASE LinkResult(w)
  <2>1. /\ frame.pc = "link" /\ UNCHANGED <<match, game>>
        /\ result' = [result EXCEPT ![frame.slot].game = frame.g]
    BY <1>3, <1>15 DEF LinkResult, bookVars
  <2>2. NextSlot(w)
    BY <1>1, <1>2, <1>15, <2>1 DEF LinkResult
  <2>3. \E f : NextUp(w, f)
    BY <2>1, <2>2, NextSlotIsNextUp
  <2> QED BY <2>1, <2>3 DEF BookEffect, Links
<1>16. CASE StartBookingReminder(w)
  <2>1. frame.pc = "idle" /\ UNCHANGED <<match, result, game>>
    BY <1>16 DEF StartBookingReminder, bookVars, planVars
  <2>2. CASE \E endpc \in {"idle", "stamp"} : Continue(w, {}, "announce", endpc)
    <3>1. \E f : NextUp(w, f)
      BY <1>1, <2>2, ContinueIsNextUp
    <3> QED BY <1>5, <2>1, <3>1 DEF BookEffect, Turn
  <2> DEFINE saved == {s \in Slots : result[s].saved}
  <2>3. ASSUME UNCHANGED at, NEW s \in saved,
               bkg' = [bkg EXCEPT ![w] = [IdleBook EXCEPT
                         !.pc = "announce", !.todo = saved, !.seen = result, !.slot = s]]
        PROVE  BookEffect(w)
    <3>0. at' = at /\ frame.pc = "idle" /\ \A u \in saved : result[u].saved
      BY <2>1, <2>3
    <3> DEFINE f == [IdleBook EXCEPT !.pc = "announce", !.todo = saved, !.seen = result,
                                     !.slot = s]
    <3>1. f.pc = "announce" /\ f.todo = saved /\ f.seen = result /\ f.slot = s /\ f.got = {}
      BY DEF IdleBook
    <3>2. bkg' = [bkg EXCEPT ![w] = f]
      BY <2>3
    <3> HIDE DEF f
    <3> HIDE DEF saved
    <3>3. NextUp(w, f)
      BY <3>0, <2>3, <3>1, <3>2 DEF NextUp
    <3> QED BY <1>5, <2>1, <3>3 DEF BookEffect, Turn
  <2>4. \/ \E endpc \in {"idle", "stamp"} : Continue(w, {}, "announce", endpc)
        \/ /\ UNCHANGED at
           /\ \E s \in saved : bkg' = [bkg EXCEPT ![w] = [IdleBook EXCEPT
                         !.pc = "announce", !.todo = saved, !.seen = result, !.slot = s]]
    BY <1>16 DEF StartBookingReminder
  <2> HIDE DEF saved
  <2> QED BY <2>2, <2>3, <2>4
<1>17. CASE AnnounceResult(w)
  <2>1. frame.pc = "announce" /\ UNCHANGED <<match, result>>
    BY <1>17 DEF AnnounceResult, bookVars
  <2>2. frame.seen[frame.slot].game # None
    BY <1>2, <2>1 DEF PlanFrameOK
  <2>3. NextSlot(w) /\ (Publish(frame.seen[frame.slot].game) \/ UNCHANGED game)
    BY <1>17, <2>2 DEF AnnounceResult
  <2> QED BY <1>4, <2>1, <2>3, PublishFixesCourts
<1>18. CASE StampReminder(w)
  <2>1. /\ frame.pc = "stamp" /\ UNCHANGED <<match, result, game>>
        /\ bkg' = [bkg EXCEPT ![w] = IdleBook]
    BY <1>18 DEF StampReminder, bookVars
  <2>2. IdleBook.pc = "idle" /\ IdleBook.got = {}
    BY DEF IdleBook
  <2>3. NextUp(w, IdleBook)
    BY <2>1, <2>2 DEF NextUp
  <2> QED BY <1>5, <2>1, <2>3 DEF BookEffect, Turn
<1> QED
  BY <1>6, <1>7, <1>8, <1>9, <1>10, <1>11, <1>12, <1>13, <1>14, <1>15, <1>16, <1>17, <1>18
     DEF Book, BookingStep

-----------------------------------------------------------------------------
(* PlanOK where nobody but the worker on frame f is at work.               *)
PlanOf(f, s) ==
    /\ result[s].game # None => result[s].saved /\ game[result[s].game].slot = s
    /\ \A g \in Games : game[g].slot = s =>
          result[s].game = g \/ (f.pc = "link" /\ f.slot = s /\ f.g = g)
    /\ result[s].saved /\ result[s].game = None =>
          f.pc \in {"create", "link"} /\ f.slot = s

LEMMA PlanBefore ==
    ASSUME Inv, Alone, OnePoll, PlanInv, NEW w \in Workers, at[w] # 0
    PROVE  /\ \A s \in Slots : PlanOf(bkg[w], s)
           /\ PlanFrameOK(bkg[w])
<1>1. \A u \in Workers : u # w => bkg[u].pc = "idle"
  BY DutyIsAlone
<1>2. ASSUME NEW s \in Slots PROVE PlanOf(bkg[w], s)
  <2>1. PlanOK(s)
    BY DEF PlanInv
  <2> QED BY <1>1, <2>1 DEF PlanOK, PlanOf
<1> QED BY <1>2 DEF PlanInv

LEMMA PlanAfter ==
    ASSUME Inv, Alone, OnePoll, PlanInv, NEW w \in Workers, at[w] # 0,
           NEW f, bkg' = [bkg EXCEPT ![w] = f], PlanFrameOK(f)',
           f.pc \in {"dedup", "list", "book", "save", "create", "link"} =>
               AtJob(w, "auto_booking")',
           \A s \in Slots : PlanOf(f, s)'
    PROVE  PlanInv'
<1>1. bkg'[w] = f
  BY DEF Inv, RestOK
<1>2. \A u \in Workers : u # w => bkg'[u] = bkg[u] /\ bkg[u].pc = "idle"
  BY DutyIsAlone DEF Inv, RestOK
<1>3. ASSUME NEW s \in Slots PROVE PlanOK(s)'
  <2>1. PlanOf(f, s)'
    OBVIOUS
  <2> QED BY <1>1, <2>1 DEF PlanOK, PlanOf
<1>4. ASSUME NEW u \in Workers PROVE PlanFrameOK(bkg[u])'
  BY <1>1, <1>2 DEF PlanFrameOK
<1>5. ASSUME NEW u \in Workers,
             bkg'[u].pc \in {"dedup", "list", "book", "save", "create", "link"}
      PROVE  AtJob(u, "auto_booking")'
  BY <1>1, <1>2, <1>5
<1> QED BY <1>3, <1>4, <1>5 DEF PlanInv

(* The step leaves results and slots as they are, and the worker in no     *)
(* other place as far as they go.                                          *)
LEMMA QuietPlan ==
    ASSUME Inv, NEW e, NEW f, NEW s \in Slots, PlanOf(e, s), result' = result, SlotsFixed,
           \/ e.pc \notin {"create", "link"}
           \/ f.pc = e.pc /\ f.slot = e.slot /\ f.g = e.g
    PROVE  PlanOf(f, s)'
<1>1. result[s].game # None => result[s].game \in Games
  BY DEF Inv, RestOK, Result
<1> QED BY <1>1 DEF PlanOf, SlotsFixed

LEMMA NextUpFits ==
    ASSUME Inv, Inv', NEW w \in Workers, NEW f, NextUp(w, f), PlanFrameOK(bkg[w]),
           \A s \in Slots : result[s].saved /\ result[s].game = None => bkg[w].pc = "link",
           bkg[w].pc = "link" => f.pc # "announce"
    PROVE  /\ PlanFrameOK(f)' /\ bkg' = [bkg EXCEPT ![w] = f]
           /\ f.pc \in {"dedup", "list", "book", "save", "create", "link"} =>
                  AtJob(w, "auto_booking")'
<1>1. bkg' = [bkg EXCEPT ![w] = f] /\ bkg'[w] = f
  BY DEF NextUp, Inv, RestOK
<1>2. f.pc \in {"idle", "dedup", "announce", "stamp"}
  BY DEF NextUp
<1>3. f.pc = "announce" => f.slot \in f.todo /\ \A s \in f.todo : f.seen[s].game # None
  <2>1. f.todo \subseteq Slots
    BY <1>1 DEF Inv, BkgOK, BookFrame
  <2>2. CASE f.pc = "announce" /\ f.seen = result /\ \A s \in f.todo : result[s].saved
    BY <2>1, <2>2 DEF NextUp
  <2>3. CASE f.pc = "announce" /\ bkg[w].pc = "announce" /\ f.seen = bkg[w].seen
             /\ f.todo \subseteq bkg[w].todo
    BY <2>3 DEF NextUp, PlanFrameOK
  <2> QED BY <2>2, <2>3 DEF NextUp
<1>4. f.pc = "dedup" => AtJob(w, "auto_booking")'
  BY DEF NextUp, AtJob
<1> QED BY <1>1, <1>2, <1>3, <1>4 DEF PlanFrameOK

LEMMA BookKeepsPlan ==
    ASSUME Inv, Alone, OnePoll, PlanInv, NEW w \in Workers, Book(w)
    PROVE  PlanInv'
<1> DEFINE e == bkg[w]
<1>1. /\ w \in Pollers /\ at[w] # 0 /\ Inv' /\ BookEffect(w)
      /\ ~(AtJob(w, "auto_booking") /\ AtJob(w, "booking_reminder"))
  BY BookerIsAt, BookStepKeepsInv, BookHasEffect
<1>2. /\ \A s \in Slots : PlanOf(e, s)
      /\ PlanFrameOK(e)
  BY <1>1, PlanBefore
<1>3. /\ e \in BookFrame /\ BkgOK(e, w, at[w], match) /\ DOMAIN bkg = Workers
      /\ result \in [Slots -> Result] /\ game \in [Games -> Game]
      /\ e.pc \in {"dedup", "list", "book", "save", "create", "link"} =>
             AtJob(w, "auto_booking")
      /\ None \notin Games
  BY CountsAssumption DEF Inv, RestOK, BkgOK, PlanInv, None
<1>4. UNCHANGED game => SlotsFixed
  BY DEF SlotsFixed
<1>5. ASSUME NEW f, bkg' = [bkg EXCEPT ![w] = f], UNCHANGED <<at, result, game>>,
             PlanFrameOK(f)', AtJob(w, "auto_booking"),
             e.pc \notin {"create", "link"}
      PROVE  PlanInv'
  <2>1. \A s \in Slots : PlanOf(f, s)'
    BY <1>2, <1>4, <1>5, QuietPlan
  <2>2. AtJob(w, "auto_booking")'
    BY <1>5 DEF AtJob
  <2> QED BY <1>1, <1>5, <2>1, <2>2, PlanAfter
<1>6. CASE Turn(w)
  <2>1. PICK f : NextUp(w, f)
    BY <1>6 DEF Turn
  <2>2. e.pc \notin {"create", "link"} /\ UNCHANGED result /\ SlotsFixed
    BY <1>6 DEF Turn, CourtsFixed
  <2>3. \A s \in Slots : result[s].saved => result[s].game # None
    BY <1>2, <2>2 DEF PlanOf
  <2>4. /\ PlanFrameOK(f)' /\ bkg' = [bkg EXCEPT ![w] = f]
        /\ f.pc \in {"dedup", "list", "book", "save", "create", "link"} =>
               AtJob(w, "auto_booking")'
    BY <1>1, <1>2, <2>1, <2>2, <2>3, NextUpFits
  <2>5. \A s \in Slots : PlanOf(f, s)'
    BY <1>2, <2>2, QuietPlan
  <2> QED BY <1>1, <2>4, <2>5, PlanAfter
<1>7. CASE Lists(w)
  <2>0. PICK f : f = [e EXCEPT !.pc = "list", !.left = CourtsPerSlot]
    OBVIOUS
  <2>1. f.pc = "list" /\ f.slot = e.slot
    BY <1>3, <2>0 DEF BookFrame
  <2>2. PlanFrameOK(f)'
    BY <1>7, <2>1 DEF Lists, PlanFrameOK
  <2>3. bkg' = [bkg EXCEPT ![w] = f]
    BY <1>7, <2>0 DEF Lists
  <2> QED BY <1>3, <1>5, <1>7, <2>2, <2>3 DEF Lists
<1>8. CASE StartsBooking(w)
  <2>1. PICK free \in SUBSET Labels, creds \in SUBSET Creds, lim \in Nat :
           bkg' = [bkg EXCEPT ![w] = [bkg[w] EXCEPT !.pc = "book", !.free = free,
                                                    !.creds = creds, !.lim = lim]]
    BY <1>8 DEF StartsBooking
  <2>0. PICK f : f = [e EXCEPT !.pc = "book", !.free = free, !.creds = creds, !.lim = lim]
    OBVIOUS
  <2>2. f.pc = "book" /\ f.slot = e.slot
    BY <1>3, <2>0 DEF BookFrame
  <2>3. bkg' = [bkg EXCEPT ![w] = f]
    BY <2>0, <2>1
  <2>4. PlanFrameOK(f)'
    BY <1>2, <1>8, <2>2 DEF StartsBooking, PlanFrameOK
  <2> QED BY <1>3, <1>5, <1>8, <2>3, <2>4 DEF StartsBooking
<1>9. CASE Reserves(w) \/ Blames(w)
  <2>1. e.pc = "book" /\ UNCHANGED <<at, result, game>>
    BY <1>9 DEF Reserves, Blames
  <2>2. \/ \E c \in Labels, m \in Matches, k \in Creds :
               bkg' = [bkg EXCEPT ![w] = Reserved(e, c, m, k)]
        \/ \E k \in Creds : bkg' = [bkg EXCEPT ![w] = Rotated(e, k)]
    BY <1>9 DEF Reserves, Blames
  <2>3. ASSUME NEW f, f.pc \in {"book", "save"}, f.slot = e.slot, bkg' = [bkg EXCEPT ![w] = f]
        PROVE  PlanInv'
    <3>1. PlanFrameOK(f)'
      BY <1>2, <2>1, <2>3 DEF PlanFrameOK
    <3> QED BY <1>3, <1>5, <2>1, <2>3, <3>1
  <2>4. /\ \A c, m, k : Reserved(e, c, m, k).pc = "save" /\ Reserved(e, c, m, k).slot = e.slot
        /\ \A k : Rotated(e, k).pc = "book" /\ Rotated(e, k).slot = e.slot
    BY <1>3, <2>1 DEF Reserved, Rotated, BookFrame
  <2> QED BY <2>2, <2>3, <2>4
<1>10. CASE Saves(w)
  <2>0. PICK f : f = [e EXCEPT !.pc = "book", !.m = None]
    OBVIOUS
  <2>1. f.pc = "book" /\ f.slot = e.slot
    BY <1>3, <2>0 DEF BookFrame
  <2>2. bkg' = [bkg EXCEPT ![w] = f]
    BY <1>10, <2>0 DEF Saves
  <2>3. PlanFrameOK(f)'
    BY <1>2, <1>10, <2>1 DEF Saves, PlanFrameOK
  <2> QED BY <1>3, <1>5, <1>10, <2>2, <2>3 DEF Saves
<1>11. CASE SavesResult(w)
  <2> DEFINE new == [saved |-> TRUE, courts |-> e.got, game |-> None]
  <2>0. PICK f : f = [e EXCEPT !.pc = "create"]
    OBVIOUS
  <2>1. f.pc = "create" /\ f.slot = e.slot
    BY <1>3, <2>0 DEF BookFrame
  <2>2. e.slot \in Slots /\ ~result[e.slot].saved /\ e.pc = "book" /\ UNCHANGED <<at, game>>
    BY <1>2, <1>3, <1>11 DEF SavesResult, BkgOK, PlanFrameOK
  <2>3. result' = [result EXCEPT ![e.slot] = new]
    BY <1>11, <2>2 DEF SavesResult
  <2>4. bkg' = [bkg EXCEPT ![w] = f]
    BY <1>11, <2>0 DEF SavesResult
  <2>5. PlanFrameOK(f)'
    BY <1>3, <2>1, <2>2, <2>3 DEF PlanFrameOK
  <2>6. ASSUME NEW s \in Slots PROVE PlanOf(f, s)'
    <3>1. PlanOf(e, s)
      BY <1>2
    <3>2. CASE s = e.slot
      <4>1. result'[s].game = None /\ result'[s].saved
        BY <1>3, <2>3, <3>2
      <4>2. \A g \in Games : game[g].slot # s
        BY <1>3, <2>2, <3>1, <3>2 DEF PlanOf
      <4> QED BY <2>1, <2>2, <3>2, <4>1, <4>2 DEF PlanOf
    <3>3. CASE s # e.slot
      <4>1. result'[s] = result[s]
        BY <1>3, <2>3, <3>3
      <4> QED BY <2>2, <3>1, <4>1 DEF PlanOf
    <3> QED BY <3>2, <3>3
  <2>7. AtJob(w, "auto_booking")'
    BY <1>3, <2>2 DEF AtJob
  <2> QED BY <1>1, <2>4, <2>5, <2>6, <2>7, PlanAfter
<1>12. CASE Creates(w)
  <2>1. PICK g \in Games :
          /\ ~Created(g)
          /\ game' = [game EXCEPT ![g] = NewGame(e.slot, e.got, Cardinality(e.got))]
          /\ bkg' = [bkg EXCEPT ![w] = [e EXCEPT !.pc = "link", !.g = g]]
    BY <1>12 DEF Creates
  <2>0. PICK f : f = [e EXCEPT !.pc = "link", !.g = g]
    OBVIOUS
  <2>2. f.pc = "link" /\ f.slot = e.slot /\ f.g = g
    BY <1>3, <2>0 DEF BookFrame
  <2>3. bkg' = [bkg EXCEPT ![w] = f]
    BY <2>0, <2>1
  <2>4. e.pc = "create" /\ UNCHANGED <<at, result>> /\ e.slot \in Slots
    BY <1>3, <1>12 DEF Creates, BkgOK
  <2>5. /\ game'[g].slot = e.slot
        /\ \A h \in Games : h # g => game'[h] = game[h]
    BY <1>3, <2>1 DEF NewGame, NoGame
  <2>6. PlanFrameOK(f)'
    BY <1>2, <2>2, <2>4, <2>5 DEF PlanFrameOK
  <2>7. ASSUME NEW s \in Slots PROVE PlanOf(f, s)'
    <3>1. PlanOf(e, s)
      BY <1>2
    <3>2. result[s].game # None => result[s].game \in Games /\ result[s].game # g
      <4>1. game[g].slot = None /\ None \notin Slots
        BY <2>1, CountsAssumption DEF Created, None
      <4> QED BY <1>3, <3>1, <4>1 DEF PlanOf, Result
    <3>3. ASSUME NEW h \in Games, game'[h].slot = s
          PROVE  result[s].game = h \/ (f.slot = s /\ f.g = h)
      <4>1. CASE h = g
        BY <2>2, <2>5, <3>3, <4>1
      <4>2. CASE h # g
        BY <2>4, <2>5, <3>1, <3>3, <4>2 DEF PlanOf
      <4> QED BY <4>1, <4>2
    <3>4. result[s].game # None => result[s].saved /\ game'[result[s].game].slot = s
      BY <2>5, <3>1, <3>2 DEF PlanOf
    <3>5. result[s].saved /\ result[s].game = None => f.slot = s
      BY <2>2, <3>1 DEF PlanOf
    <3> QED BY <2>2, <2>4, <3>3, <3>4, <3>5 DEF PlanOf
  <2>8. AtJob(w, "auto_booking")'
    BY <1>3, <2>4 DEF AtJob
  <2> QED BY <1>1, <2>3, <2>6, <2>7, <2>8, PlanAfter
<1>13. CASE Links(w)
  <2>1. PICK f : NextUp(w, f)
    BY <1>13 DEF Links
  <2>2. /\ e.pc = "link" /\ UNCHANGED game /\ e.slot \in Slots /\ e.g \in Games
        /\ game[e.g].slot = e.slot /\ result[e.slot].saved /\ result[e.slot].game = None
        /\ result' = [result EXCEPT ![e.slot].game = e.g]
    BY <1>2, <1>3, <1>13 DEF Links, BkgOK, PlanFrameOK
  <2>3. /\ result'[e.slot].saved /\ result'[e.slot].game = e.g
        /\ \A s \in Slots : s # e.slot => result'[s] = result[s]
    <3>1. result[e.slot] \in Result
      BY <1>3, <2>2
    <3>2. result'[e.slot] = [result[e.slot] EXCEPT !.game = e.g]
      BY <1>3, <2>2
    <3>3. \A s \in Slots : s # e.slot => result'[s] = result[s]
      BY <1>3, <2>2
    <3> QED BY <2>2, <3>1, <3>2, <3>3 DEF Result
  <2>4. f.pc # "announce"
    BY <2>1, <2>2 DEF NextUp
  <2>5. /\ PlanFrameOK(f)' /\ bkg' = [bkg EXCEPT ![w] = f]
        /\ f.pc \in {"dedup", "list", "book", "save", "create", "link"} =>
               AtJob(w, "auto_booking")'
    BY <1>1, <1>2, <2>1, <2>2, <2>4, NextUpFits
  <2>6. ASSUME NEW s \in Slots PROVE PlanOf(f, s)'
    <3>1. PlanOf(e, s)
      BY <1>2
    <3>2. CASE s = e.slot
      <4>1. \A g \in Games : game[g].slot = s => g = e.g
        BY <1>3, <2>2, <3>1, <3>2 DEF PlanOf
      <4> QED BY <1>3, <2>2, <2>3, <3>2, <4>1 DEF PlanOf
    <3>3. CASE s # e.slot
      BY <2>2, <2>3, <3>1, <3>3 DEF PlanOf
    <3> QED BY <3>2, <3>3
  <2> QED BY <1>1, <2>5, <2>6, PlanAfter
<1> QED
  BY <1>1, <1>6, <1>7, <1>8, <1>9, <1>10, <1>11, <1>12, <1>13 DEF BookEffect

(* A release changes lists, counts and marks of games, never their slots.  *)
LEMMA ReleaseFixesSlots ==
    ASSUME Inv, Alone, NEW w \in Workers, Release(w)
    PROVE  UNCHANGED <<result, bkg>> /\ SlotsFixed
<1>1. w \notin Admins /\ w \in Pollers
  BY ReleaserIsAt
<1>2. game \in [Games -> Game] /\ RelOK(rel[w], w, at[w], now, match)
  BY DEF Inv, RestOK
<1>3. ASSUME game' = game PROVE SlotsFixed
  BY <1>3 DEF SlotsFixed
<1>4. ASSUME NEW g, NEW r, game' = [game EXCEPT ![g] = r],
             g \in Games => r.slot = game[g].slot
      PROVE  SlotsFixed
  <2>1. \A h \in Games : game'[h] = IF h = g THEN r ELSE game[h]
    BY <1>2, <1>4
  <2> QED BY <1>4, <2>1 DEF SlotsFixed
<1>5. CASE PersistCourts(w)
  <2> DEFINE kept == Read(w).courts \ rel[w].gone
             g == rel[w].g
             r == [game[g] EXCEPT !.courts = kept, !.count = Cardinality(kept)]
  <2>1. game' = game \/ game' = [game EXCEPT ![g] = r]
    BY <1>5 DEF PersistCourts, UpdateCourts
  <2>2. g \in Games => r.slot = game[g].slot
    BY <1>2 DEF Game
  <2> HIDE DEF r
  <2> QED BY <1>3, <1>4, <2>1, <2>2 DEF Release, ReleaseStep
<1>6. CASE MarkDone(w)
  <2>1. rel[w].pc = "mark" /\ rel[w].g \in Games
    BY <1>2, <1>6 DEF MarkDone, RelOK
  <2>2. AtJob(w, "reminder") \/ AtJob(w, "halfway") \/ AtJob(w, "final")
    BY <1>1, <1>2, <2>1 DEF RelOK, AtJob, ReleaseJobs
  <2>3. Marked(w, game[rel[w].g]).slot = game[rel[w].g].slot
    BY <1>2, <2>1, <2>2 DEF Marked, Game
  <2>4. game' = game \/ game' = [game EXCEPT ![rel[w].g] = Marked(w, game[rel[w].g])]
    BY <1>6 DEF MarkDone
  <2> QED BY <1>3, <1>4, <2>3, <2>4 DEF Release, ReleaseStep
<1>7. CASE CompleteGame(w)
  <2> DEFINE g == rel[w].g
             r == [game[g] EXCEPT !.completed = TRUE]
  <2>1. game' = game \/ game' = [game EXCEPT ![g] = r]
    BY <1>7 DEF CompleteGame
  <2>2. g \in Games => r.slot = game[g].slot
    BY <1>2 DEF Game
  <2> HIDE DEF r
  <2> QED BY <1>3, <1>4, <2>1, <2>2 DEF Release, ReleaseStep
<1>8. ASSUME Release(w), ~PersistCourts(w), ~MarkDone(w), ~CompleteGame(w)
      PROVE  game' = game
  BY <1>1, <1>8 DEF Release, ReleaseStep, QueryGames, BeginHalfway, CountPlayers,
         LoadBookings, CancelCourt, MarkRow, SendReminder,
         CloseMessage, CloseRows, LoadRemoved, PersistRemoval
<1> QED BY <1>3, <1>5, <1>6, <1>7, <1>8 DEF Release, ReleaseStep

(* Steps the plan does not see: the frames stay, or nobody was booking.    *)
LEMMA PlanUnseen ==
    ASSUME Inv, PlanInv, UNCHANGED result, SlotsFixed, DOMAIN bkg' = Workers,
           \A u \in Workers : \/ bkg'[u] = bkg[u] /\ (u \in Pollers /\ at[u] # 0 => at'[u] = at[u])
                              \/ bkg[u].pc = "idle" /\ bkg'[u].pc = "idle",
           0 \notin DOMAIN Jobs, Workers = Pollers
    PROVE  PlanInv'
<1>1. ASSUME NEW s \in Slots PROVE PlanOK(s)'
  <2>1. PlanOK(s)
    BY DEF PlanInv
  <2>2. result[s].game # None => result[s].game \in Games
    BY DEF Inv, RestOK, Result
  <2>3. ASSUME NEW u \in Workers, bkg[u].pc # "idle" PROVE bkg'[u] = bkg[u]
    BY <2>3
  <2> QED BY <2>1, <2>2, <2>3 DEF PlanOK, SlotsFixed
<1>2. ASSUME NEW u \in Workers PROVE PlanFrameOK(bkg[u])'
  <2>1. PlanFrameOK(bkg[u])
    BY DEF PlanInv
  <2>2. CASE bkg'[u].pc = "idle"
    BY <2>2 DEF PlanFrameOK
  <2>3. CASE bkg'[u] = bkg[u]
    BY <2>1, <2>3 DEF PlanFrameOK, SlotsFixed
  <2> QED BY <2>2, <2>3
<1>3. ASSUME NEW u \in Workers,
             bkg'[u].pc \in {"dedup", "list", "book", "save", "create", "link"}
      PROVE  AtJob(u, "auto_booking")'
  <2>1. bkg'[u] = bkg[u]
    BY <1>3
  <2>2. AtJob(u, "auto_booking")
    BY <1>3, <2>1 DEF PlanInv
  <2>3. at'[u] = at[u]
    BY <1>3, <2>2 DEF AtJob
  <2> QED BY <2>2, <2>3 DEF AtJob
<1> QED BY <1>1, <1>2, <1>3 DEF PlanInv

LEMMA NobodyAsks == ASSUME Alone PROVE ~Request
BY DEF Alone, Request, EditRequest, EditCourts, GameRequest, CreateManualGame, PublishRequest

LEMMA NoCrash == ASSUME Inv, Alone PROVE ~Crash
BY DEF Alone, Inv, RestOK, Crash

LEMMA PanicIsAlone ==
    ASSUME Inv, Alone, OnePoll, NEW w \in Workers, Panic(w)
    PROVE  /\ rel[w].pc # "idle" /\ w \in Pollers
           /\ \A u \in Workers : bkg[u].pc = "idle"
           /\ \A u \in Workers : u # w => rel[u].pc = "idle"
<1>1. rel[w].pc # "idle"
  BY DEF Panic, DividesByZero, Counting
<1> QED BY <1>1, ReleaserIsAt, DutyIsAlone

LEMMA NextKeepsPlan ==
    ASSUME Inv, Alone, OnePoll, PlanInv, [Next]_vars
    PROVE  PlanInv'
<1>1. 0 \notin DOMAIN Jobs /\ Workers = Pollers /\ DOMAIN bkg = Workers
  BY WorkersAssumption DEF Alone, Workers, Inv, RestOK
<1>2. UNCHANGED game => SlotsFixed
  BY DEF SlotsFixed
<1>3. ASSUME NEW w \in Workers, Book(w) PROVE PlanInv'
  BY <1>3, BookKeepsPlan
<1>4. ASSUME NEW w \in Workers, Release(w) PROVE PlanInv'
  <2>1. at[w] # 0 /\ bkg[w].pc = "idle"
    BY <1>4, ReleaserIsAt
  <2>2. \A u \in Workers : bkg[u].pc = "idle"
    BY <2>1, DutyIsAlone
  <2> QED BY <1>1, <1>4, <2>2, ReleaseFixesSlots, PlanUnseen
<1>5. ASSUME NEW w \in Workers, Panic(w) PROVE PlanInv'
  <2>1. /\ bkg' = [u \in Workers |-> IdleBook] /\ IdleBook.pc = "idle"
        /\ UNCHANGED <<result, game>>
    BY <1>5 DEF Panic, Restart, IdleBook, planVars
  <2> QED BY <1>1, <1>2, <1>5, <2>1, PanicIsAlone, PlanUnseen
<1>6. ASSUME UNCHANGED <<result, game, bkg>>,
             \A p \in Pollers : at[p] # 0 => at'[p] = at[p]
      PROVE  PlanInv'
  BY <1>1, <1>2, <1>6, PlanUnseen
<1>7. CASE Tick \/ UNCHANGED vars \/ \E p \in Pollers : Poll(p)
  <2>1. UNCHANGED <<result, game, bkg>>
    BY <1>7 DEF Tick, vars, Poll, planVars
  <2>2. \A p \in Pollers : at[p] # 0 => at'[p] = at[p]
    BY <1>7 DEF Tick, vars, Poll, PollStart, Inv, RestOK
  <2> QED BY <1>6, <2>1, <2>2
<1>8. CASE \/ \E g \in Games : Join(g) \/ Leave(g)
           \/ \E k \in Creds : CooldownExpires(k)
  <2>1. UNCHANGED <<result, game, bkg, at>>
    BY <1>8 DEF Join, Leave, Attend, CooldownExpires, planVars
  <2> QED BY <1>6, <2>1
<1> QED BY <1>3, <1>4, <1>5, <1>7, <1>8, NobodyAsks, NoCrash DEF Next

LEMMA InitPlans == ASSUME Init PROVE OnePoll /\ PlanInv
<1>1. OnePoll
  BY DEF Init, StateInit, OnePoll
<1>2. \A s \in Slots : PlanOK(s)
  BY CountsAssumption DEF Init, StateInit, NoResult, NoGame, PlanOK, None
<1>3. \A w \in Workers : bkg[w].pc = "idle"
  BY DEF Init, BookInit, IdleBook
<1> QED BY <1>1, <1>2, <1>3 DEF PlanInv, PlanFrameOK

(* A game of a slot is the one its result names, or the one the worker     *)
(* that created it is about to name.                                       *)
LEMMA PlanGivesOneGame ==
    ASSUME Inv, Alone, OnePoll, PlanInv
    PROVE  OneGamePerSlot
<1>1. None \notin Games
  BY CountsAssumption DEF None
<1>2. SUFFICES ASSUME NEW g \in Games, NEW h \in Games, g # h, Created(g),
                      game[g].slot = game[h].slot
               PROVE  FALSE
  BY DEF OneGamePerSlot
<1> DEFINE s == game[g].slot
<1>3. s \in Slots /\ PlanOK(s)
  <2>1. game[g] \in Game
    BY DEF Inv, RestOK
  <2>2. s \in Slots
    BY <1>2, <2>1 DEF Created, Game
  <2> QED BY <2>2 DEF PlanInv
<1>4. \/ result[s].game = g
      \/ \E w \in Workers : bkg[w].pc = "link" /\ bkg[w].slot = s /\ bkg[w].g = g
  BY <1>3 DEF PlanOK
<1>5. \/ result[s].game = h
      \/ \E w \in Workers : bkg[w].pc = "link" /\ bkg[w].slot = s /\ bkg[w].g = h
  BY <1>2, <1>3 DEF PlanOK
<1>6. ASSUME NEW w \in Workers, bkg[w].pc = "link", bkg[w].slot = s
      PROVE  result[s].game = None /\ \A u \in Workers : u # w => bkg[u].pc = "idle"
  <2>1. PlanFrameOK(bkg[w]) /\ at[w] # 0
    BY <1>6, BookerIsAt DEF PlanInv
  <2> QED BY <1>6, <2>1, DutyIsAlone DEF PlanFrameOK
<1>7. CASE result[s].game = g
  BY <1>1, <1>2, <1>5, <1>6, <1>7
<1>8. CASE \E w \in Workers : bkg[w].pc = "link" /\ bkg[w].slot = s /\ bkg[w].g = g
  <2>1. PICK w \in Workers : bkg[w].pc = "link" /\ bkg[w].slot = s /\ bkg[w].g = g
    BY <1>8
  <2>2. result[s].game = None /\ \A u \in Workers : u # w => bkg[u].pc = "idle"
    BY <1>6, <2>1
  <2> QED BY <1>1, <1>2, <1>5, <2>1, <2>2
<1> QED BY <1>4, <1>7, <1>8

LEMMA AlonePlans ==
    ASSUME Alone
    PROVE  Spec => [](Inv /\ OnePoll /\ PlanInv)
<1>1. Init => Inv /\ OnePoll /\ PlanInv
  BY InitEstablishesInv, InitPlans
<1>2. Inv /\ OnePoll /\ PlanInv /\ [Next]_vars => (Inv /\ OnePoll /\ PlanInv)'
  BY NextKeepsInv, OnePollKept, NextKeepsPlan
<1> QED BY <1>1, <1>2, PTL DEF Spec

(* A slot has one game: the result midnight saved stops the next poll of   *)
(* the window, and the 10:00 job publishes the game it names               *)
(* (auto_booking.go:157, booking_reminder.go:148), as long as the polls    *)
(* finish in their interval, every write arrives and nothing restarts.     *)
THEOREM SlotsHaveOneGame ==
    ASSUME PollsKeepUp = TRUE, Admins = {}, "write" \notin FaultKinds, MaxCrashes = 0
    PROVE  Spec => []OneGamePerSlot
<1>1. Spec => [](Inv /\ OnePoll /\ PlanInv)
  BY AlonePlans DEF Alone
<1>2. Inv /\ OnePoll /\ PlanInv => OneGamePerSlot
  BY PlanGivesOneGame DEF Alone
<1> QED BY <1>1, <1>2, PTL

-----------------------------------------------------------------------------
(* No slot is overbooked.                                                  *)

(* Every reservation ever made for a slot, and the courts still reserved.  *)
AllAt(s) == {m \in Matches : match[m].st # "unused" /\ match[m].slot = s}
CourtsHeld(s) == {match[m].court : m \in LiveAt(s)}

(* What the reservations of slot s look like: none is made before the      *)
(* worker at the slot has listed it, none is given back before the result  *)
(* is saved, and a court is reserved once.                                 *)
HeldOK(s) ==
    /\ Cardinality(LiveAt(s)) <= CourtsPerSlot
    /\ ~result[s].saved =>
          /\ AllAt(s) \subseteq LiveAt(s)
          /\ AllAt(s) # {} =>
                \E w \in Workers : bkg[w].pc \in {"book", "save"} /\ bkg[w].slot = s
    /\ \A m, n \in AllAt(s) : match[m].court = match[n].court => m = n

(* The worker at work on frame f knows what it reserved, and how many more *)
(* courts the slot may have.                                               *)
HeldFrameOK(f) ==
    /\ f.pc \in {"dedup", "list"} => f.got = {}
    /\ f.pc = "list" => f.left = CourtsPerSlot
    /\ f.pc \in {"book", "save"} => Cardinality(LiveAt(f.slot)) + f.left <= CourtsPerSlot
    /\ f.pc \in {"book", "save", "create"} => f.got = CourtsHeld(f.slot)

HeldInv ==
    /\ \A s \in Slots : HeldOK(s)
    /\ \A w \in Workers : HeldFrameOK(bkg[w])

(* HeldOK where nobody but the worker on frame f is at work.               *)
HeldOf(f, s) ==
    /\ Cardinality(LiveAt(s)) <= CourtsPerSlot
    /\ ~result[s].saved =>
          /\ AllAt(s) \subseteq LiveAt(s)
          /\ AllAt(s) # {} => f.pc \in {"book", "save"} /\ f.slot = s
    /\ \A m, n \in AllAt(s) : match[m].court = match[n].court => m = n

LEMMA HeldBefore ==
    ASSUME Inv, Alone, OnePoll, HeldInv, NEW w \in Workers, at[w] # 0
    PROVE  /\ \A s \in Slots : HeldOf(bkg[w], s)
           /\ HeldFrameOK(bkg[w])
<1>1. \A u \in Workers : u # w => bkg[u].pc = "idle"
  BY DutyIsAlone
<1>2. ASSUME NEW s \in Slots PROVE HeldOf(bkg[w], s)
  <2>1. HeldOK(s)
    BY DEF HeldInv
  <2> QED BY <1>1, <2>1 DEF HeldOK, HeldOf
<1> QED BY <1>2 DEF HeldInv

LEMMA HeldAfter ==
    ASSUME Inv, Alone, OnePoll, HeldInv, NEW w \in Workers, at[w] # 0,
           NEW f, bkg' = [bkg EXCEPT ![w] = f], HeldFrameOK(f)', \A s \in Slots : HeldOf(f, s)'
    PROVE  HeldInv'
<1>1. bkg'[w] = f
  BY DEF Inv, RestOK
<1>2. \A u \in Workers : u # w => bkg'[u] = bkg[u] /\ bkg[u].pc = "idle"
  BY DutyIsAlone DEF Inv, RestOK
<1>3. ASSUME NEW s \in Slots PROVE HeldOK(s)'
  <2>1. HeldOf(f, s)'
    OBVIOUS
  <2> QED BY <1>1, <2>1 DEF HeldOK, HeldOf
<1>4. ASSUME NEW u \in Workers PROVE HeldFrameOK(bkg[u])'
  BY <1>1, <1>2 DEF HeldFrameOK
<1> QED BY <1>3, <1>4 DEF HeldInv

(* Reservations that do not change are held as before.                     *)
LEMMA SameMatchesSameSets ==
    ASSUME match' = match
    PROVE  \A s : LiveAt(s)' = LiveAt(s) /\ AllAt(s)' = AllAt(s)
                  /\ CourtsHeld(s)' = CourtsHeld(s)
BY DEF LiveAt, Live, AllAt, CourtsHeld

LEMMA LiveIsFinite ==
    ASSUME NEW s
    PROVE  IsFiniteSet(LiveAt(s)) /\ Cardinality(LiveAt(s)) \in Nat /\ LiveAt(s) \subseteq AllAt(s)
<1>1. LiveAt(s) \subseteq Matches /\ LiveAt(s) \subseteq AllAt(s)
  BY DEF LiveAt, Live, AllAt
<1> QED BY <1>1, CountsAssumption, FS_Subset, FS_CardinalityType

(* A step that touches no reservation and saves no result.                 *)
LEMMA QuietHeld ==
    ASSUME NEW e, NEW f, NEW s \in Slots, HeldOf(e, s), match' = match,
           result'[s].saved = result[s].saved \/ result'[s].saved,
           \/ e.pc \notin {"book", "save"}
           \/ f.pc \in {"book", "save"} /\ f.slot = e.slot
           \/ result'[e.slot].saved
           \/ AllAt(e.slot) = {}
    PROVE  HeldOf(f, s)'
<1>1. LiveAt(s)' = LiveAt(s) /\ AllAt(s)' = AllAt(s)
  BY SameMatchesSameSets
<1>2. Cardinality(LiveAt(s))' <= CourtsPerSlot
  BY <1>1 DEF HeldOf
<1>3. ASSUME ~result'[s].saved
      PROVE  /\ AllAt(s) \subseteq LiveAt(s)
             /\ AllAt(s) # {} => f.pc \in {"book", "save"} /\ f.slot = s
  BY <1>3 DEF HeldOf
<1>4. \A m, n \in AllAt(s) : match'[m].court = match'[n].court => m = n
  BY DEF HeldOf
<1> QED BY <1>1, <1>2, <1>3, <1>4 DEF HeldOf

(* BookMatch: one reservation more, of a court nobody holds.               *)
LEMMA ReservesHeld ==
    ASSUME Inv, NEW e \in BookFrame, e.slot \in Slots, e.pc = "book", e.left # 0,
           \A s \in Slots : HeldOf(e, s), HeldFrameOK(e), ~result[e.slot].saved,
           NEW c \in Labels, NEW m \in Matches, NEW k \in Creds, match[m].st = "unused",
           \A n \in LiveAt(e.slot) : match[n].court # c,
           match' = [match EXCEPT ![m] = [st |-> "live", slot |-> e.slot, court |-> c]],
           result' = result, NEW f, f = Reserved(e, c, m, k)
    PROVE  HeldFrameOK(f)' /\ \A s \in Slots : HeldOf(f, s)'
<1>1. /\ f.pc = "save" /\ f.slot = e.slot /\ f.left = e.left - 1 /\ f.got = e.got \cup {c}
      /\ e.left \in Nat /\ CourtsPerSlot \in Nat
  BY CountsAssumption DEF Reserved, BookFrame
<1>2. /\ match'[m] = [st |-> "live", slot |-> e.slot, court |-> c]
      /\ \A n \in Matches : n # m => match'[n] = match[n]
  BY DEF Inv, TablesOK
<1>3. LiveAt(e.slot)' = LiveAt(e.slot) \cup {m} /\ AllAt(e.slot)' = AllAt(e.slot) \cup {m}
  BY <1>2 DEF LiveAt, Live, AllAt
<1>4. m \notin LiveAt(e.slot) /\ m \notin AllAt(e.slot)
  BY DEF LiveAt, Live, AllAt
<1>5. \A s \in Slots : s # e.slot => LiveAt(s)' = LiveAt(s) /\ AllAt(s)' = AllAt(s)
  BY <1>2 DEF LiveAt, Live, AllAt
<1>6. Cardinality(LiveAt(e.slot))' = Cardinality(LiveAt(e.slot)) + 1
  <2>1. Cardinality(LiveAt(e.slot) \cup {m}) = Cardinality(LiveAt(e.slot)) + 1
    <3>1. IsFiniteSet(LiveAt(e.slot))
      BY LiveIsFinite
    <3> QED BY <1>4, <3>1, FS_AddElement
  <2> QED BY <1>3, <2>1
<1>7. Cardinality(LiveAt(e.slot))' + f.left <= CourtsPerSlot
  BY <1>1, <1>6, LiveIsFinite DEF HeldFrameOK
<1>8. CourtsHeld(e.slot)' = CourtsHeld(e.slot) \cup {c}
  <2>1. \A n \in LiveAt(e.slot) : match'[n] = match[n]
    BY <1>2, <1>4 DEF LiveAt, Live
  <2> QED BY <1>2, <1>3, <2>1 DEF CourtsHeld
<1>9. HeldFrameOK(f)'
  <2>1. e.got = CourtsHeld(e.slot)
    BY DEF HeldFrameOK
  <2> QED BY <1>1, <1>7, <1>8, <2>1 DEF HeldFrameOK
<1>10. HeldOf(f, e.slot)'
  <2>1. AllAt(e.slot) = LiveAt(e.slot)
    <3>1. HeldOf(e, e.slot)
      OBVIOUS
    <3>2. AllAt(e.slot) \subseteq LiveAt(e.slot)
      BY <3>1 DEF HeldOf
    <3>3. LiveAt(e.slot) \subseteq AllAt(e.slot)
      BY LiveIsFinite
    <3> QED BY <3>2, <3>3
  <2>2. \A n \in AllAt(e.slot) : match'[n] = match[n] /\ match[n].court # c
    BY <1>2, <1>4, <2>1 DEF AllAt
  <2>3. \A n1, n2 \in AllAt(e.slot)' : match'[n1].court = match'[n2].court => n1 = n2
    <3>1. \A n1, n2 \in AllAt(e.slot) : match[n1].court = match[n2].court => n1 = n2
      BY DEF HeldOf
    <3>2. match'[m].court = c
      BY <1>2
    <3> QED BY <1>3, <2>2, <3>1, <3>2
  <2>4. Cardinality(LiveAt(e.slot))' <= CourtsPerSlot
    BY <1>1, <1>6, <1>7, LiveIsFinite
  <2>5. AllAt(e.slot)' \subseteq LiveAt(e.slot)'
    BY <1>3, <2>1
  <2> QED BY <1>1, <2>3, <2>4, <2>5 DEF HeldOf
<1>11. ASSUME NEW s \in Slots, s # e.slot PROVE HeldOf(f, s)'
  <2>1. HeldOf(e, s)
    OBVIOUS
  <2>2. LiveAt(s)' = LiveAt(s) /\ AllAt(s)' = AllAt(s)
    BY <1>5, <1>11
  <2>3. \A n \in AllAt(s) : match'[n] = match[n]
    BY <1>2 DEF AllAt
  <2>4. ~result[s].saved => AllAt(s) = {}
    BY <1>11, <2>1 DEF HeldOf
  <2>5. \A n1, n2 \in AllAt(s)' : match'[n1].court = match'[n2].court => n1 = n2
    BY <2>1, <2>2, <2>3 DEF HeldOf
  <2>6. Cardinality(LiveAt(s))' <= CourtsPerSlot
    BY <2>1, <2>2 DEF HeldOf
  <2> QED BY <2>2, <2>4, <2>5, <2>6 DEF HeldOf
<1> QED BY <1>9, <1>10, <1>11

LEMMA BookKeepsHeld ==
    ASSUME Inv, Alone, "lost" \notin FaultKinds, OnePoll, PlanInv, HeldInv,
           NEW w \in Workers, Book(w)
    PROVE  HeldInv'
<1> DEFINE e == bkg[w]
<1>1. w \in Pollers /\ at[w] # 0 /\ BookEffect(w)
  BY BookerIsAt, BookHasEffect
<1>2. /\ \A s \in Slots : HeldOf(e, s)
      /\ HeldFrameOK(e) /\ PlanFrameOK(e)
  BY <1>1, HeldBefore, PlanBefore
<1>3. /\ e \in BookFrame /\ BkgOK(e, w, at[w], match)
      /\ result \in [Slots -> Result]
      /\ CourtsPerSlot \in Nat
  BY CountsAssumption DEF Inv, RestOK, BkgOK
<1>4. ASSUME NEW f, bkg' = [bkg EXCEPT ![w] = f], HeldFrameOK(f)', match' = match,
             \A s \in Slots : result'[s].saved = result[s].saved \/ result'[s].saved,
             \/ e.pc \notin {"book", "save"}
             \/ f.pc \in {"book", "save"} /\ f.slot = e.slot
             \/ result'[e.slot].saved
             \/ AllAt(e.slot) = {}
      PROVE  HeldInv'
  <2>1. \A s \in Slots : HeldOf(f, s)'
    BY <1>2, <1>4, QuietHeld
  <2> QED BY <1>1, <1>4, <2>1, HeldAfter
<1>5. match' = match => \A s : /\ LiveAt(s)' = LiveAt(s) /\ AllAt(s)' = AllAt(s)
                               /\ CourtsHeld(s)' = CourtsHeld(s)
  BY SameMatchesSameSets
<1>6. CASE Turn(w)
  <2>1. PICK f : NextUp(w, f)
    BY <1>6 DEF Turn
  <2>2. HeldFrameOK(f)' /\ bkg' = [bkg EXCEPT ![w] = f]
    BY <2>1 DEF NextUp, HeldFrameOK
  <2>3. ASSUME e.pc = "book" PROVE AllAt(e.slot) = {}
    <3>1. e.got = {} /\ e.got = CourtsHeld(e.slot)
      BY <1>2, <1>6, <2>3 DEF Turn, HeldFrameOK
    <3>2. LiveAt(e.slot) = {}
      BY <3>1 DEF CourtsHeld
    <3>3. e.slot \in Slots /\ ~result[e.slot].saved
      BY <1>2, <1>3, <2>3 DEF BkgOK, PlanFrameOK
    <3> QED BY <1>2, <3>2, <3>3 DEF HeldOf
  <2> QED BY <1>4, <1>6, <2>2, <2>3 DEF Turn
<1>7. CASE Lists(w)
  <2>0. PICK f : f = [e EXCEPT !.pc = "list", !.left = CourtsPerSlot]
    OBVIOUS
  <2>1. f.pc = "list" /\ f.left = CourtsPerSlot /\ f.got = e.got
    BY <1>3, <2>0 DEF BookFrame
  <2>2. HeldFrameOK(f)'
    BY <1>2, <1>7, <2>1 DEF Lists, HeldFrameOK
  <2> QED BY <1>4, <1>7, <2>0, <2>2 DEF Lists
<1>8. CASE StartsBooking(w)
  <2>1. PICK free \in SUBSET Labels, creds \in SUBSET Creds, lim \in Nat :
           bkg' = [bkg EXCEPT ![w] = [bkg[w] EXCEPT !.pc = "book", !.free = free,
                                                    !.creds = creds, !.lim = lim]]
    BY <1>8 DEF StartsBooking
  <2>0. PICK f : f = [e EXCEPT !.pc = "book", !.free = free, !.creds = creds, !.lim = lim]
    OBVIOUS
  <2>2. f.pc = "book" /\ f.slot = e.slot /\ f.left = e.left /\ f.got = e.got
    BY <1>3, <2>0 DEF BookFrame
  <2>3. /\ e.pc = "list" /\ UNCHANGED <<match, result>> /\ e.slot \in Slots
        /\ ~result[e.slot].saved /\ e.got = {} /\ e.left = CourtsPerSlot
    BY <1>2, <1>3, <1>8 DEF StartsBooking, BkgOK, PlanFrameOK, HeldFrameOK
  <2>4. LiveAt(e.slot) = {}
    BY <1>2, <2>3, LiveIsFinite DEF HeldOf
  <2>5. Cardinality(LiveAt(e.slot)) = 0 /\ CourtsHeld(e.slot) = {}
    BY <2>4, FS_EmptySet DEF CourtsHeld
  <2>6. HeldFrameOK(f)'
    BY <1>3, <1>5, <2>2, <2>3, <2>5 DEF HeldFrameOK
  <2> QED BY <1>4, <2>0, <2>1, <2>3, <2>6
<1>9. CASE Reserves(w)
  <2>1. PICK c \in Labels, m \in Matches, k \in Creds :
          /\ match[m].st = "unused"
          /\ \A n \in LiveAt(e.slot) : match[n].court # c
          /\ match' = [match EXCEPT ![m] = [st |-> "live", slot |-> e.slot, court |-> c]]
          /\ bkg' = [bkg EXCEPT ![w] = Reserved(e, c, m, k)]
    BY <1>9 DEF Reserves
  <2>2. PICK f : f = Reserved(e, c, m, k)
    OBVIOUS
  <2>3. e.pc = "book" /\ e.left # 0 /\ e.slot \in Slots /\ ~result[e.slot].saved
        /\ result' = result
    BY <1>2, <1>3, <1>9 DEF Reserves, BkgOK, PlanFrameOK
  <2>4. HeldFrameOK(f)' /\ \A s \in Slots : HeldOf(f, s)'
    BY <1>2, <1>3, <2>1, <2>2, <2>3, ReservesHeld
  <2> QED BY <1>1, <2>1, <2>2, <2>4, HeldAfter
<1>10. CASE Blames(w)
  <2>1. PICK k \in Creds : bkg' = [bkg EXCEPT ![w] = Rotated(e, k)]
    BY <1>10 DEF Blames
  <2>2. PICK f : f = Rotated(e, k)
    OBVIOUS
  <2>3. e.pc = "book" /\ UNCHANGED <<match, result>>
    BY <1>10 DEF Blames
  <2>4. f.pc = "book" /\ f.slot = e.slot /\ f.left = e.left /\ f.got = e.got
    BY <1>3, <2>2, <2>3 DEF Rotated, BookFrame
  <2>5. HeldFrameOK(f)'
    BY <1>2, <1>5, <2>3, <2>4 DEF HeldFrameOK
  <2> QED BY <1>4, <2>1, <2>2, <2>3, <2>4, <2>5
<1>11. CASE Saves(w)
  <2>0. PICK f : f = [e EXCEPT !.pc = "book", !.m = None]
    OBVIOUS
  <2>1. f.pc = "book" /\ f.slot = e.slot /\ f.left = e.left /\ f.got = e.got
    BY <1>3, <2>0 DEF BookFrame
  <2>2. e.pc = "save" /\ UNCHANGED <<match, result>> /\ bkg' = [bkg EXCEPT ![w] = f]
    BY <1>11, <2>0 DEF Saves
  <2>3. HeldFrameOK(f)'
    BY <1>2, <1>5, <2>1, <2>2 DEF HeldFrameOK
  <2> QED BY <1>4, <2>1, <2>2, <2>3
<1>12. CASE SavesResult(w)
  <2>0. PICK f : f = [e EXCEPT !.pc = "create"]
    OBVIOUS
  <2>1. f.pc = "create" /\ f.slot = e.slot /\ f.got = e.got
    BY <1>3, <2>0 DEF BookFrame
  <2>2. e.pc = "book" /\ match' = match /\ bkg' = [bkg EXCEPT ![w] = f] /\ e.slot \in Slots
    BY <1>3, <1>12, <2>0 DEF SavesResult, BkgOK
  <2>3. HeldFrameOK(f)'
    BY <1>2, <1>5, <2>1, <2>2 DEF HeldFrameOK
  <2>4. /\ result'[e.slot].saved
        /\ \A s \in Slots : s # e.slot => result'[s] = result[s]
    BY <1>3, <1>12, <2>2 DEF SavesResult
  <2> QED BY <1>4, <2>2, <2>3, <2>4
<1>13. CASE Creates(w)
  <2>1. PICK g \in Games : bkg' = [bkg EXCEPT ![w] = [e EXCEPT !.pc = "link", !.g = g]]
    BY <1>13 DEF Creates
  <2>0. PICK f : f = [e EXCEPT !.pc = "link", !.g = g]
    OBVIOUS
  <2>2. f.pc = "link"
    BY <1>3, <2>0 DEF BookFrame
  <2>3. HeldFrameOK(f)'
    BY <2>2 DEF HeldFrameOK
  <2> QED BY <1>4, <1>13, <2>0, <2>1, <2>3 DEF Creates
<1>14. CASE Links(w)
  <2>1. PICK f : NextUp(w, f)
    BY <1>14 DEF Links
  <2>2. HeldFrameOK(f)' /\ bkg' = [bkg EXCEPT ![w] = f]
    BY <2>1 DEF NextUp, HeldFrameOK
  <2>3. e.pc = "link" /\ match' = match /\ e.slot \in Slots
        /\ result' = [result EXCEPT ![e.slot].game = e.g]
    BY <1>3, <1>14 DEF Links, BkgOK
  <2>4. ASSUME NEW s \in Slots PROVE result'[s].saved = result[s].saved
    <3>1. result[s] \in Result
      BY <1>3
    <3>2. result'[s] = result[s] \/ result'[s] = [result[s] EXCEPT !.game = e.g]
      BY <1>3, <2>3
    <3> QED BY <3>1, <3>2 DEF Result
  <2> QED BY <1>4, <2>2, <2>3, <2>4
<1> QED
  BY <1>1, <1>6, <1>7, <1>8, <1>9, <1>10, <1>11, <1>12, <1>13, <1>14 DEF BookEffect

(* A release gives a reservation back, or leaves all as they are.          *)
LEMMA ReleaseGivesBack ==
    ASSUME Inv, Alone, NEW w \in Workers, Release(w), match' # match
    PROVE  /\ CancelCourt(w)
           /\ \E m \in rel[w].picks :
                 match[m].st # "unused" /\ match' = [match EXCEPT ![m].st = "canceled"]
<1>1. CancelCourt(w)
  BY DEF Release, ReleaseStep, QueryGames, BeginHalfway, CountPlayers,
         LoadBookings, MarkRow, PersistCourts, SendReminder, MarkDone,
         CloseMessage, CompleteGame, CloseRows, LoadRemoved, PersistRemoval, bookVars
<1>2. PICK m \in rel[w].picks : match' = [match EXCEPT ![m].st = "canceled"]
  BY <1>1 DEF CancelCourt
<1>3. match[m].st # "unused"
  BY <1>2 DEF Inv, RelOK
<1> QED BY <1>1, <1>2, <1>3

(* What giving m back leaves of the reservations of a slot.                *)
LEMMA GivenBackSets ==
    ASSUME Inv, NEW m \in Matches, match[m].st # "unused",
           match' = [match EXCEPT ![m].st = "canceled"]
    PROVE  /\ \A s : LiveAt(s)' = LiveAt(s) \ {m} /\ AllAt(s)' = AllAt(s)
           /\ \A n \in Matches : match'[n].court = match[n].court /\ match'[n].slot = match[n].slot
<1>1. /\ match \in [Matches -> Match]
      /\ match'[m] = [match[m] EXCEPT !.st = "canceled"]
      /\ \A n \in Matches : n # m => match'[n] = match[n]
  BY DEF Inv, TablesOK
<1>2. match'[m].st = "canceled" /\ match'[m].court = match[m].court
      /\ match'[m].slot = match[m].slot
  <2>1. match[m] \in Match
    BY <1>1
  <2> QED BY <1>1, <2>1 DEF Match
<1>3. \A n \in Matches : match'[n].court = match[n].court /\ match'[n].slot = match[n].slot
  BY <1>1, <1>2
<1>4. ASSUME NEW s PROVE LiveAt(s)' = LiveAt(s) \ {m} /\ AllAt(s)' = AllAt(s)
  BY <1>1, <1>2, <1>3 DEF LiveAt, Live, AllAt
<1> QED BY <1>3, <1>4

LEMMA ReleaseKeepsHeld ==
    ASSUME Inv, Alone, OnePoll, HeldInv, NEW w \in Workers, Release(w)
    PROVE  HeldInv'
<1>1. at[w] # 0 /\ bkg[w].pc = "idle" /\ UNCHANGED <<result, bkg>>
  BY ReleaserIsAt, ReleaseFixesSlots
<1>2. \A s \in Slots : HeldOf(bkg[w], s)
  BY <1>1, HeldBefore
<1>3. PICK f : f = bkg[w]
  OBVIOUS
<1>4. bkg' = [bkg EXCEPT ![w] = f] /\ HeldFrameOK(f)'
  BY <1>1, <1>3 DEF Inv, RestOK, HeldFrameOK
<1>5. ASSUME NEW s \in Slots PROVE HeldOf(f, s)'
  <2>1. HeldOf(f, s)
    BY <1>2, <1>3
  <2>2. CASE match' = match
    BY <1>1, <1>3, <2>1, <2>2, QuietHeld
  <2>3. CASE match' # match
    <3>1. PICK m \in rel[w].picks :
             match[m].st # "unused" /\ match' = [match EXCEPT ![m].st = "canceled"]
      BY <2>3, ReleaseGivesBack
    <3>2. m \in Matches
      BY <3>1 DEF Inv, RelOK, Frame
    <3>3. /\ LiveAt(s)' = LiveAt(s) \ {m} /\ AllAt(s)' = AllAt(s)
          /\ \A n \in AllAt(s) : match'[n].court = match[n].court
      BY <3>1, <3>2, GivenBackSets DEF AllAt
    <3>4. Cardinality(LiveAt(s))' <= Cardinality(LiveAt(s)) /\ Cardinality(LiveAt(s))' \in Nat
      <4>1. IsFiniteSet(LiveAt(s))
        BY LiveIsFinite
      <4>2. /\ IsFiniteSet(LiveAt(s) \ {m})
            /\ Cardinality(LiveAt(s) \ {m}) <= Cardinality(LiveAt(s))
        BY <4>1, FS_Subset
      <4>3. Cardinality(LiveAt(s) \ {m}) \in Nat
        BY <4>2, FS_CardinalityType
      <4> QED BY <3>3, <4>2, <4>3
    <3>5. Cardinality(LiveAt(s))' <= CourtsPerSlot
      BY <2>1, <3>4, LiveIsFinite, CountsAssumption DEF HeldOf
    <3>6. ~result[s].saved => AllAt(s) = {}
      BY <1>1, <1>3, <2>1 DEF HeldOf
    <3>7. \A n1, n2 \in AllAt(s)' : match'[n1].court = match'[n2].court => n1 = n2
      BY <2>1, <3>3 DEF HeldOf
    <3> QED BY <1>1, <3>3, <3>5, <3>6, <3>7 DEF HeldOf
  <2> QED BY <2>2, <2>3
<1> QED BY <1>1, <1>4, <1>5, HeldAfter

LEMMA HeldUnseen ==
    ASSUME HeldInv, UNCHANGED <<match, result>>,
           \A u \in Workers : bkg'[u] = bkg[u] \/ (bkg[u].pc = "idle" /\ bkg'[u].pc = "idle")
    PROVE  HeldInv'
<1>1. \A s : /\ LiveAt(s)' = LiveAt(s) /\ AllAt(s)' = AllAt(s)
             /\ CourtsHeld(s)' = CourtsHeld(s)
  BY SameMatchesSameSets
<1>2. ASSUME NEW s \in Slots PROVE HeldOK(s)'
  <2>1. HeldOK(s)
    BY DEF HeldInv
  <2>2. ASSUME NEW u \in Workers, bkg[u].pc # "idle" PROVE bkg'[u] = bkg[u]
    BY <2>2
  <2> QED BY <1>1, <2>1, <2>2 DEF HeldOK
<1>3. ASSUME NEW u \in Workers PROVE HeldFrameOK(bkg[u])'
  <2>1. HeldFrameOK(bkg[u])
    BY DEF HeldInv
  <2>2. CASE bkg'[u].pc = "idle"
    BY <2>2 DEF HeldFrameOK
  <2>3. CASE bkg'[u] = bkg[u]
    <3>1. bkg'[u].slot = bkg[u].slot
      BY <2>3
    <3>2. LiveAt(bkg[u].slot)' = LiveAt(bkg[u].slot)
          /\ CourtsHeld(bkg[u].slot)' = CourtsHeld(bkg[u].slot)
      BY <2>3 DEF LiveAt, Live, CourtsHeld
    <3> QED BY <2>1, <2>3, <3>2 DEF HeldFrameOK
  <2> QED BY <2>2, <2>3
<1> QED BY <1>2, <1>3 DEF HeldInv

LEMMA NextKeepsHeld ==
    ASSUME Inv, Alone, "lost" \notin FaultKinds, OnePoll, PlanInv, HeldInv, [Next]_vars
    PROVE  HeldInv'
<1>1. ASSUME NEW w \in Workers, Release(w) \/ Book(w) PROVE HeldInv'
  BY <1>1, ReleaseKeepsHeld, BookKeepsHeld
<1>2. ASSUME NEW w \in Workers, Panic(w) PROVE HeldInv'
  <2>1. /\ bkg' = [u \in Workers |-> IdleBook] /\ IdleBook.pc = "idle"
        /\ UNCHANGED <<match, result>>
    BY <1>2 DEF Panic, Restart, IdleBook, planVars, bookVars
  <2> QED BY <1>2, <2>1, PanicIsAlone, HeldUnseen
<1>3. CASE \/ Tick \/ UNCHANGED vars
           \/ \E p \in Pollers : Poll(p)
           \/ \E g \in Games : Join(g) \/ Leave(g)
           \/ \E k \in Creds : CooldownExpires(k)
  <2>1. UNCHANGED <<match, result, bkg>>
    BY <1>3 DEF Tick, vars, Poll, Join, Leave, Attend, CooldownExpires, planVars, bookVars
  <2> QED BY <2>1, HeldUnseen
<1> QED BY <1>1, <1>2, <1>3, NobodyAsks, NoCrash DEF Next

LEMMA InitHolds == ASSUME Init PROVE HeldInv
<1>1. \A s : AllAt(s) = {} /\ LiveAt(s) = {}
  BY DEF Init, StateInit, NoMatch, AllAt, LiveAt, Live
<1>2. \A s \in Slots : HeldOK(s)
  BY <1>1, FS_EmptySet, CountsAssumption DEF HeldOK
<1>3. \A w \in Workers : bkg[w].pc = "idle"
  BY DEF Init, BookInit, IdleBook
<1> QED BY <1>2, <1>3 DEF HeldInv, HeldFrameOK

LEMMA AloneHolds ==
    ASSUME Alone, "lost" \notin FaultKinds
    PROVE  Spec => [](Inv /\ OnePoll /\ PlanInv /\ HeldInv)
<1>1. Init => Inv /\ OnePoll /\ PlanInv /\ HeldInv
  BY InitEstablishesInv, InitPlans, InitHolds
<1>2. Inv /\ OnePoll /\ PlanInv /\ HeldInv /\ [Next]_vars
          => (Inv /\ OnePoll /\ PlanInv /\ HeldInv)'
  BY NextKeepsInv, OnePollKept, NextKeepsPlan, NextKeepsHeld
<1> QED BY <1>1, <1>2, PTL DEF Spec

(* However many accounts, courts and cooldowns the rotation goes through,  *)
(* and whatever bookings and cancellations the platform refuses, a slot    *)
(* never has more courts than the venue asks for (booking_core.go:138,     *)
(* auto_booking.go:157): a second poll in the window finds the result, and *)
(* no answer to a booking that happened is lost.                           *)
THEOREM NoSlotIsOverbooked ==
    ASSUME PollsKeepUp = TRUE, Admins = {}, MaxCrashes = 0,
           "write" \notin FaultKinds, "lost" \notin FaultKinds
    PROVE  Spec => []SlotNotOverbooked
<1>1. Spec => [](Inv /\ OnePoll /\ PlanInv /\ HeldInv)
  BY AloneHolds DEF Alone
<1>2. HeldInv => SlotNotOverbooked
  BY DEF HeldInv, HeldOK, SlotNotOverbooked
<1> QED BY <1>1, <1>2, PTL

-----------------------------------------------------------------------------
(* What a release takes back.                                              *)

(* The worker on release frame r works for games that exist, and what it   *)
(* is going to cancel is reserved for the game at hand.                    *)
ApartFrame(r) ==
    /\ r.pc # "idle" => r.g \in r.todo /\ \A h \in r.todo : Created(h)
    /\ r.pc \notin {"cancel", "row"} => r.picks = {}
    /\ \A m \in r.picks : match[m].slot = game[r.g].slot
ApartInv == \A w \in Workers : ApartFrame(rel[w])

(* The worker takes up the next game of its list, or ends the job.         *)
TakesUp(w, f) ==
    /\ rel' = [rel EXCEPT ![w] = f]
    /\ f.pc \in {"idle", "begin"} /\ f.picks = {} /\ f.gone = {}
    /\ f.pc = "begin" =>
          /\ f.g \in f.todo
          /\ \/ rel[w].pc = "idle" /\ f.snap = game /\ \A h \in f.todo : Created(h)
             \/ /\ rel[w].pc # "idle" /\ f.snap = rel[w].snap
                /\ f.todo = rel[w].todo \ {rel[w].g}

Takes(w) ==
    /\ rel[w].pc \notin {"load", "cancel", "row"}
    /\ \E f : TakesUp(w, f)
    /\ UNCHANGED match /\ CourtsFixed

(* It moves on with the game, before or after the cancellations.           *)
MovesOn(w) ==
    /\ \E pc \in {"count", "load", "tell", "mark", "complete", "rows"}, n \in Nat :
          /\ rel[w].pc \in {"begin", "count"}
             \/ (rel[w].pc \in {"load", "tell", "complete"} /\ pc \notin {"count", "load"})
          /\ n = rel[w].count \/ rel[w].pc \in {"begin", "count"}
          /\ rel' = [rel EXCEPT ![w] = [rel[w] EXCEPT !.pc = pc, !.count = n]]
    /\ UNCHANGED match /\ CourtsFixed

Selects(w) ==
    /\ rel[w].pc = "load" /\ Quota(w) # 0
    /\ \E picks \in SUBSET Matches :
          /\ Cardinality(picks) <= Quota(w)
          /\ \A m \in picks : match[m].slot = game[rel[w].g].slot
          /\ rel' = [rel EXCEPT ![w] = [rel[w] EXCEPT !.pc = "cancel", !.picks = picks]]
    /\ UNCHANGED <<match, game>>

GivesBack(w) ==
    /\ rel[w].pc = "cancel"
    /\ \E m \in rel[w].picks :
          /\ match' = [match EXCEPT ![m].st = "canceled"]
          /\ rel' = [rel EXCEPT ![w] = [rel[w] EXCEPT
                !.pc = "row", !.m = m, !.picks = @ \ {m}, !.gone = @ \cup {match[m].court}]]
    /\ UNCHANGED game

LeavesOut(w) ==
    /\ rel[w].pc = "cancel"
    /\ \E m \in rel[w].picks :
          /\ \/ UNCHANGED match
             \/ "lost" \in FaultKinds /\ match' = [match EXCEPT ![m].st = "canceled"]
          /\ rel' = [rel EXCEPT ![w] = [rel[w] EXCEPT !.picks = @ \ {m}]]
    /\ UNCHANGED game

Marks(w) ==
    /\ rel[w].pc = "row"
    /\ rel' = [rel EXCEPT ![w] = [rel[w] EXCEPT !.pc = "cancel", !.m = None]]
    /\ UNCHANGED <<match, game>>

Persists(w) ==
    /\ rel[w].pc = "cancel" /\ rel[w].picks = {}
    /\ \E pc \in {"tell", "mark"} : rel' = [rel EXCEPT ![w] = [rel[w] EXCEPT !.pc = pc]]
    /\ LET kept == Read(w).courts \ rel[w].gone
       IN  \/ rel[w].gone = {} /\ UNCHANGED game
           \/ game' = [game EXCEPT ![rel[w].g].courts = kept,
                                   ![rel[w].g].count = Cardinality(kept)]
    /\ UNCHANGED match

ReleaseEffect(w) ==
    \/ Takes(w) \/ MovesOn(w) \/ Selects(w) \/ GivesBack(w) \/ LeavesOut(w) \/ Marks(w)
    \/ Persists(w)

LEMMA ProceedTakesUp ==
    ASSUME NEW w, NEW todo, NEW snap, NEW t, Proceed(w, todo, snap, t),
           \/ todo = {}
           \/ rel[w].pc = "idle" /\ snap = game /\ \A h \in todo : Created(h)
           \/ /\ rel[w].pc # "idle" /\ snap = rel[w].snap
              /\ todo = rel[w].todo \ {rel[w].g}
    PROVE  \E f : TakesUp(w, f)
<1>1. CASE todo = {}
  <2>1. rel' = [rel EXCEPT ![w] = IdleFrame]
    BY <1>1 DEF Proceed
  <2>2. IdleFrame.pc = "idle" /\ IdleFrame.picks = {} /\ IdleFrame.gone = {}
    BY DEF IdleFrame
  <2>3. TakesUp(w, IdleFrame)
    BY <2>1, <2>2 DEF TakesUp
  <2> QED BY <2>3
<1>2. CASE todo # {}
  <2>1. PICK g \in todo : rel' = [rel EXCEPT ![w] = [IdleFrame EXCEPT
                            !.pc = "begin", !.todo = todo, !.snap = snap, !.t = t, !.g = g]]
    BY <1>2 DEF Proceed
  <2> DEFINE f == [IdleFrame EXCEPT !.pc = "begin", !.todo = todo, !.snap = snap, !.t = t, !.g = g]
  <2>2. /\ f.pc = "begin" /\ f.todo = todo /\ f.snap = snap /\ f.g = g
        /\ f.picks = {} /\ f.gone = {}
    BY DEF IdleFrame
  <2>3. rel' = [rel EXCEPT ![w] = f]
    BY <2>1
  <2> HIDE DEF f
  <2>4. TakesUp(w, f)
    BY <1>2, <2>2, <2>3 DEF TakesUp
  <2> QED BY <2>4
<1> QED BY <1>1, <1>2

LEMMA NextGameTakesUp ==
    ASSUME NEW w, NextGame(w), rel[w].pc # "idle"
    PROVE  \E f : TakesUp(w, f)
BY ProceedTakesUp DEF NextGame

LEMMA DueAreCreated ==
    ASSUME NEW job \in ReleaseJobs
    PROVE  \A g \in Due(job) : Created(g)
BY DEF Due, ReleaseJobs, Upcoming

(* While nobody books, every game is the one its slot's result names, so a *)
(* lookup that works finds the rows of its slot.                           *)
LEMMA EntriesAreOfSlot ==
    ASSUME Inv, PlanInv, \A u \in Workers : bkg[u].pc = "idle", NEW g \in Games, Created(g)
    PROVE  loadCourtBookingEntries(g) = {RowsAt(game[g].slot)}
<1>1. game[g].slot \in Slots
  <2>1. game[g] \in Game
    BY DEF Inv, RestOK
  <2> QED BY <2>1 DEF Created, Game
<1>2. PlanOK(game[g].slot)
  BY <1>1 DEF PlanInv
<1>3. result[game[g].slot].game = g /\ g # None
  BY <1>2, CountsAssumption DEF PlanOK, None
<1>4. LinkedSlots(g) = {game[g].slot}
  <2>1. game[g].slot \in LinkedSlots(g)
    BY <1>1, <1>2, <1>3 DEF LinkedSlots, PlanOK
  <2>2. ASSUME NEW s \in LinkedSlots(g) PROVE s = game[g].slot
    BY <1>3, <2>2 DEF LinkedSlots, PlanInv, PlanOK
  <2> QED BY <2>1, <2>2
<1> QED BY <1>4 DEF loadCourtBookingEntries

LEMMA MarkFixesCourts ==
    ASSUME Inv, NEW g \in Games, NEW r \in Game, game' = [game EXCEPT ![g] = r],
           r.slot = game[g].slot, r.courts = game[g].courts, r.count = game[g].count
    PROVE  CourtsFixed
<1>1. \A h \in Games : game'[h] = IF h = g THEN r ELSE game[h]
  BY DEF Inv, RestOK
<1> QED BY <1>1 DEF CourtsFixed, SlotsFixed

-----------------------------------------------------------------------------
(* How many courts a release selects.                                      *)

(* Two lists of so many courts name no more courts than that.              *)
LEMMA ChainedAreFew ==
    ASSUME NEW a \in Nat, NEW b \in Nat, NEW p, NEW q,
           p = [i \in 1..a |-> p[i]], q = [i \in 1..b |-> q[i]]
    PROVE  /\ IsFiniteSet(ToSet(p \o q))
           /\ Cardinality(ToSet(p \o q)) \in 0..(a + b)
<1> DEFINE S == {p[i] : i \in 1..a} \cup {q[i] : i \in 1..b}
<1>1. p \in Seq(S) /\ q \in Seq(S) /\ Len(p) = a /\ Len(q) = b
  <2>1. (\A i \in 1..a : p[i] \in S) /\ (\A i \in 1..b : q[i] \in S)
    OBVIOUS
  <2> HIDE DEF S
  <2>2. p \in [1..a -> S] /\ q \in [1..b -> S]
    BY <2>1
  <2> QED BY <2>2
<1>2. PICK chosen : chosen = p \o q
  OBVIOUS
<1>3. chosen \in Seq(S) /\ Len(chosen) = a + b
  <2> HIDE DEF S
  <2>1. p \o q \in Seq(S) /\ Len(p \o q) = Len(p) + Len(q)
    BY <1>1
  <2> QED BY <1>1, <1>2, <2>1
<1>4. ToSet(chosen) = {chosen[i] : i \in 1..(a + b)}
  BY <1>3 DEF ToSet
<1> DEFINE f == [i \in 1..(a + b) |-> chosen[i]]
<1>5. f \in Surjection(1..(a + b), ToSet(chosen))
  BY <1>4 DEF Surjection
<1>6. IsFiniteSet(1..(a + b)) /\ Cardinality(1..(a + b)) = a + b
  <2>1. PICK n \in Nat : n = a + b
    OBVIOUS
  <2>2. IsFiniteSet(1..n) /\ Cardinality(1..n) = n
    BY FS_Interval
  <2> QED BY <2>1, <2>2
<1>7. /\ IsFiniteSet(ToSet(chosen))
      /\ Cardinality(ToSet(chosen)) <= Cardinality(1..(a + b))
  <2> HIDE DEF f
  <2> QED BY <1>5, <1>6, FS_Surjection
<1>8. Cardinality(ToSet(chosen)) \in Nat
  BY <1>7, FS_CardinalityType
<1>9. Cardinality(ToSet(chosen)) \in 0..(a + b)
  BY <1>6, <1>7, <1>8
<1> QED BY <1>2, <1>7, <1>9

(* Whatever the lists hold, no more courts are chosen than asked for.      *)
LEMMA ChosenAreFew ==
    ASSUME NEW C, NEW sorted \in Seq(C), NEW preferred \in Seq(C), NEW n \in Nat
    PROVE  /\ IsFiniteSet(ToSet(CourtsToCancel(sorted, preferred, n)))
           /\ Cardinality(ToSet(CourtsToCancel(sorted, preferred, n))) <= n
<1> DEFINE ranked == Reverse(preferred)
           p == FirstReserved(ranked, sorted, n)
           rest == Without(sorted, ToSet(p))
           q == selectCourtsToCancel(rest, n - Len(p))
           chosen == CourtsToCancel(sorted, preferred, n)
           both == [phase1 \in Seq(ToSet(sorted)) |->
                      phase1 \o selectCourtsToCancel(Without(sorted, ToSet(phase1)),
                                                      n - Len(phase1))]
<1>1. chosen = both[p]
  BY DEF CourtsToCancel
<1> HIDE DEF chosen
<1>2. ranked \in Seq(C)
  BY DEF Reverse
<1> HIDE DEF ranked
<1>3. p \in Seq(C) /\ Len(p) <= n /\ ToSet(p) \subseteq ToSet(sorted)
  <2>1. PICK r : r = p
    OBVIOUS
  <2>2. r \in Seq(C) /\ Len(r) <= n /\ ToSet(r) \subseteq ToSet(sorted)
    <3> HIDE DEF p
    <3>1. r = FirstReserved(ranked, sorted, n)
      BY <2>1 DEF p
    <3> QED BY <1>2, <3>1, FirstReservedIs
  <2> QED BY <2>1, <2>2
<1> HIDE DEF p
<1>10. chosen = p \o q
  <2>1. p \in Seq(ToSet(sorted))
    BY <1>3, SeqOfMembers
  <2> QED BY <1>1, <2>1
<1> HIDE DEF both
<1>4. rest \in Seq(C)
  <2> DEFINE keep == {i \in DOMAIN sorted : sorted[i] \notin ToSet(p)}
  <2>1. keep \in SUBSET DOMAIN sorted /\ rest = Kept(sorted, keep)
    BY DEF Without
  <2> HIDE DEF keep, rest
  <2> QED BY <2>1, KeptIs
<1> HIDE DEF rest
<1>5. Len(p) \in Nat /\ n - Len(p) \in Nat
  BY <1>3
<1>6. q \in Seq(C) /\ Len(q) <= n - Len(p)
  <2> DEFINE total == IF n - Len(p) < Len(rest) THEN n - Len(p) ELSE Len(rest)
  <2>1. q \in Seq(C) /\ Len(q) = total
    BY <1>4, <1>5, TakenAreDistinct
  <2>2. Len(rest) \in Nat
    BY <1>4
  <2>3. total <= n - Len(p)
    BY <1>5, <2>2
  <2> QED BY <2>1, <2>3
<1> HIDE DEF q
<1>7. PICK a \in Nat, b \in Nat : /\ a + b <= n
                                  /\ p = [i \in 1..a |-> p[i]] /\ q = [i \in 1..b |-> q[i]]
  <2>1. Len(q) \in Nat /\ Len(p) + Len(q) <= n
    BY <1>5, <1>6
  <2>2. p = [i \in 1..Len(p) |-> p[i]] /\ q = [i \in 1..Len(q) |-> q[i]]
    BY <1>3, <1>6
  <2> QED BY <1>5, <2>1, <2>2
<1>8. IsFiniteSet(ToSet(p \o q)) /\ Cardinality(ToSet(p \o q)) \in 0..(a + b)
  BY <1>7, ChainedAreFew
<1>9. IsFiniteSet(ToSet(chosen)) /\ Cardinality(ToSet(chosen)) <= n
  BY <1>7, <1>8, <1>10
<1> QED BY <1>9 DEF chosen

(* A finite set of numbers is bounded.                                     *)
LEMMA FiniteIsBounded ==
    ASSUME NEW S \in SUBSET Nat, IsFiniteSet(S)
    PROVE  \E b \in Nat : \A c \in S : c <= b
<1> DEFINE n == Cardinality(S)
<1>1. n \in Nat /\ ExistsBijection(1..n, S)
  BY FS_CardinalityType
<1> HIDE DEF n
<1>2. PICK f \in Bijection(1..n, S) : TRUE
  BY <1>1 DEF ExistsBijection
<1> DEFINE Bounded(k) == \E b \in Nat : \A i \in 1..n : i <= k => f[i] <= b
           Bad == {k \in 0..n : ~Bounded(k)}
<1>3. (\A i \in 1..n : f[i] \in Nat) /\ \A c \in S : \E i \in 1..n : f[i] = c
  BY <1>2 DEF Bijection, Injection, Surjection
<1>4. Bounded(0)
  BY <1>1
<1>5. ASSUME NEW k \in 1..n, Bounded(k - 1) PROVE Bounded(k)
  <2>1. PICK b \in Nat : \A i \in 1..n : i <= k - 1 => f[i] <= b
    BY <1>5
  <2>2. PICK d \in Nat : b <= d /\ f[k] <= d
    <3>1. f[k] \in Nat
      BY <1>3
    <3> QED BY <3>1
  <2>3. \A i \in 1..n : i <= k => f[i] <= d
    <3> SUFFICES ASSUME NEW i \in 1..n, i <= k PROVE f[i] <= d
      OBVIOUS
    <3>1. i = k \/ i <= k - 1
      BY <1>1
    <3>2. f[i] \in Nat
      BY <1>3
    <3> QED BY <2>1, <2>2, <3>1, <3>2
  <2> QED BY <2>3
<1>6. Bad = {}
  <2> SUFFICES ASSUME Bad # {} PROVE FALSE
    OBVIOUS
  <2>1. PICK k \in Bad : \A m \in Bad : k <= m
    <3>1. Bad \in SUBSET Nat
      BY <1>1
    <3> HIDE DEF Bad
    <3> QED BY <3>1, LeastNumber
  <2>2. k \in 0..n /\ ~Bounded(k) /\ \A m \in 0..n : ~Bounded(m) => k <= m
    <3> HIDE DEF Bounded
    <3> QED BY <2>1
  <2> HIDE DEF Bounded
  <2>3. k # 0
    BY <1>4, <2>2
  <2>4. k \in 1..n /\ k - 1 \in 0..n /\ ~(k <= k - 1)
    BY <1>1, <2>2, <2>3
  <2> QED BY <1>5, <2>2, <2>4
<1>7. Bounded(n)
  <2> HIDE DEF Bounded
  <2>1. n \in 0..n
    BY <1>1
  <2> QED BY <1>6, <2>1
<1>8. PICK b \in Nat : \A i \in 1..n : f[i] <= b
  BY <1>1, <1>7
<1> QED BY <1>3, <1>8

(* The entries whose courts are numbered up to c, and the courts of the    *)
(* entries in ascending order, as Selected lists them.                     *)
EntriesUpTo(entries, c) == {m \in entries : match[m].court <= c}
SortedCourts(entries) ==
    [k \in 1..Cardinality(entries) |->
        CHOOSE c \in {match[m].court : m \in entries} :
            /\ Cardinality(EntriesUpTo(entries, c - 1)) < k
            /\ k <= Cardinality(EntriesUpTo(entries, c))]

(* Each place of the list holds the court of an entry.                     *)
LEMMA SortedCourtsAreListed ==
    ASSUME NEW entries \in SUBSET Matches, \A m \in entries : match[m].court \in Nat
    PROVE  /\ SortedCourts(entries) \in Seq(Nat)
           /\ Len(SortedCourts(entries)) = Cardinality(entries)
           /\ Cardinality(entries) \in Nat
           /\ \A k \in 1..Cardinality(entries) :
                 LET c == SortedCourts(entries)[k]
                 IN  /\ \E m \in entries : c = match[m].court
                     /\ Cardinality(EntriesUpTo(entries, c - 1)) < k
                     /\ k <= Cardinality(EntriesUpTo(entries, c))
<1> DEFINE n == Cardinality(entries)
           upTo(c) == Cardinality(EntriesUpTo(entries, c))
           courts == {match[m].court : m \in entries}
           sorted == SortedCourts(entries)
           Holds(c, k) == upTo(c - 1) < k /\ k <= upTo(c)
<1>1. IsFiniteSet(entries) /\ n \in Nat
  BY CountsAssumption, FS_Subset, FS_CardinalityType
<1>2. \A c : upTo(c) \in Nat
  <2>1. \A c : EntriesUpTo(entries, c) \in SUBSET entries
    BY DEF EntriesUpTo
  <2>2. \A c : IsFiniteSet(EntriesUpTo(entries, c))
    BY <1>1, <2>1, FS_Subset
  <2> QED BY <2>2, FS_CardinalityType
<1>3. courts \in SUBSET Nat /\ IsFiniteSet(courts)
  <2>1. courts \in SUBSET Nat
    OBVIOUS
  <2> DEFINE g == [m \in entries |-> match[m].court]
  <2>2. g \in Surjection(entries, courts)
    BY DEF Surjection
  <2> HIDE DEF g, courts
  <2>3. IsFiniteSet(courts)
    BY <1>1, <2>2, FS_Surjection
  <2> QED BY <2>1, <2>3
<1>4. PICK b \in Nat : \A m \in entries : match[m].court <= b
  <2>1. \A m \in entries : match[m].court \in courts
    OBVIOUS
  <2> HIDE DEF courts
  <2> QED BY <1>3, <2>1, FiniteIsBounded
<1>5. upTo(b) = n
  <2>1. EntriesUpTo(entries, b) = entries
    BY <1>4 DEF EntriesUpTo
  <2> QED BY <2>1
<1>6. ASSUME NEW k \in 1..n PROVE \E c \in courts : Holds(c, k)
  <2> DEFINE T == {c \in Nat : k <= upTo(c)}
  <2>1. T \in SUBSET Nat /\ b \in T
    BY <1>1, <1>5
  <2>2. \E c \in T : \A d \in T : c <= d
    <3> HIDE DEF T
    <3> QED BY <2>1, LeastNumber
  <2> HIDE DEF upTo
  <2>3. PICK c \in Nat : k <= upTo(c) /\ \A d \in Nat : k <= upTo(d) => c <= d
    BY <2>2
  <2>4. upTo(c - 1) < k
    <3>1. CASE c = 0
      <4>1. EntriesUpTo(entries, -1) = {}
        BY DEF EntriesUpTo
      <4>2. c - 1 = -1
        BY <3>1
      <4>3. upTo(c - 1) = 0
        BY <4>1, <4>2, FS_EmptySet DEF upTo
      <4> QED BY <1>1, <4>3
    <3>2. CASE c # 0
      <4>1. c - 1 \in Nat /\ ~(c <= c - 1)
        BY <3>2
      <4>2. ~(k <= upTo(c - 1))
        BY <2>3, <4>1
      <4> QED BY <1>1, <1>2, <4>2
    <3> QED BY <3>1, <3>2
  <2>5. c \in courts
    <3> SUFFICES ASSUME \A m \in entries : match[m].court # c PROVE FALSE
      OBVIOUS
    <3>1. EntriesUpTo(entries, c) = EntriesUpTo(entries, c - 1)
      BY DEF EntriesUpTo
    <3>2. upTo(c) = upTo(c - 1)
      BY <3>1 DEF upTo
    <3>3. upTo(c) \in Nat /\ k \in Int
      BY <1>1, <1>2
    <3> QED BY <2>3, <2>4, <3>2, <3>3
  <2> QED BY <2>3, <2>4, <2>5
<1>7. sorted = [k \in 1..n |-> CHOOSE c \in courts : Holds(c, k)]
  BY DEF SortedCourts
<1> HIDE DEF courts, upTo
<1>8. \A k \in 1..n : sorted[k] \in courts /\ Holds(sorted[k], k)
  <2> SUFFICES ASSUME NEW k \in 1..n PROVE sorted[k] \in courts /\ Holds(sorted[k], k)
    OBVIOUS
  <2>1. sorted[k] = CHOOSE c \in courts : Holds(c, k)
    BY <1>7
  <2> HIDE DEF Holds, sorted
  <2> QED BY <1>6, <2>1
<1>9. sorted \in [1..n -> Nat]
  <2> HIDE DEF Holds
  <2> QED BY <1>3, <1>7, <1>8
<1>10. sorted \in Seq(Nat) /\ Len(sorted) = n
  <2> HIDE DEF sorted, n
  <2> QED BY <1>1, <1>9
<1>11. \A k \in 1..n : \E m \in entries : sorted[k] = match[m].court
  BY <1>8 DEF courts
<1> QED BY <1>1, <1>8, <1>10, <1>11 DEF upTo

SelectedBy(entries, chosen) ==
    {m \in entries : /\ match[m].court \in chosen
                     /\ \A n \in entries : match[n].court = match[m].court => n <= m}

(* Selected takes one reservation, the latest, of each court chosen.       *)
LEMMA SelectedIs ==
    ASSUME NEW entries \in SUBSET Matches, \A m \in entries : match[m].court \in Nat,
           NEW quota
    PROVE  Selected(entries, quota)
              = SelectedBy(entries, ToSet(CourtsToCancel(SortedCourts(entries), Preferred, quota)))
<1> DEFINE upTo(c) == Cardinality({m \in entries : match[m].court <= c})
           sorted == [k \in 1..Cardinality(entries) |->
                        CHOOSE c \in {match[m].court : m \in entries} :
                           upTo(c - 1) < k /\ k <= upTo(c)]
           chosen == [courts \in Seq(Nat) |-> ToSet(CourtsToCancel(courts, Preferred, quota))]
<1>1. sorted = SortedCourts(entries)
  BY DEF SortedCourts, EntriesUpTo
<1>2. Selected(entries, quota) = SelectedBy(entries, chosen[sorted])
  BY DEF Selected, SelectedBy
<1> HIDE DEF sorted
<1>3. sorted \in Seq(Nat)
  BY <1>1, SortedCourtsAreListed
<1> QED BY <1>1, <1>2, <1>3

LEMMA SelectedAreFew ==
    ASSUME NEW entries \in SUBSET Matches, \A m \in entries : match[m].court \in Nat,
           NEW quota \in Nat
    PROVE  Cardinality(Selected(entries, quota)) <= quota
<1> DEFINE chosen == ToSet(CourtsToCancel(SortedCourts(entries), Preferred, quota))
           picks == Selected(entries, quota)
           f == [m \in picks |-> match[m].court]
<1>1. IsFiniteSet(chosen) /\ Cardinality(chosen) <= quota
  <2>1. SortedCourts(entries) \in Seq(Nat) /\ Preferred \in Seq(Nat)
    BY CourtsAssumption, SortedCourtsAreListed
  <2> QED BY <2>1, ChosenAreFew
<1>2. picks = {m \in entries : /\ match[m].court \in chosen
                               /\ \A n \in entries : match[n].court = match[m].court => n <= m}
  BY SelectedIs DEF SelectedBy
<1> HIDE DEF chosen, picks
<1>3. f \in Injection(picks, chosen)
  <2>1. \A m, n \in picks : match[m].court = match[n].court => m = n
    BY <1>2, CountsAssumption
  <2> QED BY <1>2, <2>1 DEF Injection, IsInjective
<1>4. Cardinality(picks) <= Cardinality(chosen)
  <2> HIDE DEF f
  <2> QED BY <1>1, <1>3, FS_Injection
<1>5. Cardinality(picks) \in Nat /\ Cardinality(chosen) \in Nat
  <2>1. IsFiniteSet(picks)
    BY <1>2, CountsAssumption, FS_Subset
  <2> QED BY <1>1, <2>1, FS_CardinalityType
<1>6. Cardinality(picks) <= quota
  BY <1>1, <1>4, <1>5
<1> QED BY <1>6 DEF picks

LEMMA CourtsAreNumbers ==
    ASSUME Inv, NEW entries \in SUBSET Matches
    PROVE  \A m \in entries : match[m].court \in Nat
BY CourtsAssumption DEF Inv, TablesOK, Match, None

(* Where no court is held twice and as many are reserved as are to go,     *)
(* exactly so many reservations are selected.                              *)
LEMMA SelectedAreExact ==
    ASSUME NEW entries \in SUBSET Matches, \A m \in entries : match[m].court \in Nat,
           \A m, n \in entries : match[m].court = match[n].court => m = n,
           NEW quota \in Nat, quota <= Cardinality(entries), IsInjective(Preferred)
    PROVE  Cardinality(Selected(entries, quota)) = quota
<1> DEFINE n == Cardinality(entries)
           upTo(c) == Cardinality(EntriesUpTo(entries, c))
           sorted == SortedCourts(entries)
           chosen == ToSet(CourtsToCancel(sorted, Preferred, quota))
           picks == Selected(entries, quota)
           f == [m \in picks |-> match[m].court]
<1>1. /\ sorted \in Seq(Nat) /\ Len(sorted) = n /\ n \in Nat
      /\ \A k \in 1..n : /\ \E m \in entries : sorted[k] = match[m].court
                         /\ upTo(sorted[k] - 1) < k /\ k <= upTo(sorted[k])
  BY SortedCourtsAreListed
<1>2. picks = {m \in entries : match[m].court \in chosen}
  <2>1. \A m \in entries : m <= m
    <3>1. Matches \in SUBSET Nat
      BY CountsAssumption
    <3>2. \A m \in entries : m \in Matches
      OBVIOUS
    <3> QED BY <3>1, <3>2
  <2> QED BY <2>1, SelectedIs DEF SelectedBy
<1> HIDE DEF sorted, picks
<1>3. ASSUME NEW c \in Nat
      PROVE  upTo(c - 1) \in Nat /\ upTo(c) \in Nat /\ upTo(c) <= upTo(c - 1) + 1
  <2> DEFINE low == EntriesUpTo(entries, c - 1)
             all == EntriesUpTo(entries, c)
  <2>1. IsFiniteSet(low) /\ IsFiniteSet(all) /\ Cardinality(low) \in Nat /\ Cardinality(all) \in Nat
    <3>1. low \in SUBSET Matches /\ all \in SUBSET Matches
      BY DEF EntriesUpTo
    <3> HIDE DEF low, all
    <3> QED BY <3>1, CountsAssumption, FS_Subset, FS_CardinalityType
  <2>2. \A m \in all : m \in low \/ match[m].court = c
    BY DEF EntriesUpTo
  <2>3. low \subseteq all
    BY DEF EntriesUpTo
  <2>4. CASE \E m \in all : match[m].court = c
    <3>1. PICK m \in all : match[m].court = c
      BY <2>4
    <3>2. m \notin low
      BY <3>1 DEF EntriesUpTo
    <3>3. all = low \cup {m}
      <4>1. \A p \in all : p \in entries
        BY DEF EntriesUpTo
      <4>2. \A p \in all : match[p].court = c => p = m
        BY <3>1, <4>1
      <4> QED BY <2>2, <2>3, <4>2
    <3> HIDE DEF low, all
    <3>4. Cardinality(all) = Cardinality(low) + 1
      BY <2>1, <3>2, <3>3, FS_AddElement
    <3> QED BY <2>1, <3>4 DEF low, all
  <2>5. CASE \A m \in all : match[m].court # c
    <3>1. all = low
      BY <2>2, <2>3, <2>5
    <3> QED BY <2>1, <3>1
  <2> QED BY <2>4, <2>5
<1> HIDE DEF upTo
<1>4. IsInjective(sorted)
  <2>1. \A k \in 1..n : sorted[k] \in Nat
    BY <1>1
  <2> SUFFICES ASSUME NEW j \in 1..n, NEW k \in 1..n, sorted[j] = sorted[k] PROVE j = k
    BY <1>1 DEF IsInjective
  <2>2. PICK c \in Nat : c = sorted[j] /\ c = sorted[k]
    BY <2>1
  <2>3. upTo(c - 1) < j /\ j <= upTo(c) /\ upTo(c - 1) < k /\ k <= upTo(c)
    BY <1>1, <2>2
  <2>4. upTo(c - 1) \in Nat /\ upTo(c) \in Nat /\ upTo(c) <= upTo(c - 1) + 1
    BY <1>3
  <2>5. j \in Nat /\ k \in Nat
    BY <1>1
  <2> HIDE DEF n
  <2> QED BY <2>3, <2>4, <2>5
<1>5. /\ chosen \subseteq ToSet(sorted) /\ IsFiniteSet(chosen)
      /\ Cardinality(chosen) = IF quota < Len(sorted) THEN quota ELSE Len(sorted)
  <2>1. Preferred \in Seq(Nat)
    BY CourtsAssumption
  <2> QED BY <1>1, <1>4, <2>1, ReleaseIsExact
<1>6. Cardinality(chosen) = quota
  <2> HIDE DEF chosen, n
  <2> QED BY <1>1, <1>5 DEF n
<1>7. \A c \in chosen : \E m \in entries : c = match[m].court
  <2>1. \A c \in ToSet(sorted) : \E k \in 1..n : c = sorted[k]
    BY <1>1 DEF ToSet
  <2> HIDE DEF chosen
  <2> QED BY <1>1, <1>5, <2>1
<1> HIDE DEF chosen
<1>8. f \in Bijection(picks, chosen)
  <2>1. \A m, p \in picks : match[m].court = match[p].court => m = p
    BY <1>2
  <2>2. f \in Injection(picks, chosen)
    BY <1>2, <2>1 DEF Injection, IsInjective
  <2>3. f \in Surjection(picks, chosen)
    BY <1>2, <1>7 DEF Surjection
  <2> QED BY <2>2, <2>3 DEF Bijection
<1>9. Cardinality(picks) = Cardinality(chosen)
  <2>1. IsFiniteSet(picks)
    BY <1>2, CountsAssumption, FS_Subset
  <2> HIDE DEF f
  <2>2. ExistsBijection(picks, chosen)
    BY <1>8 DEF ExistsBijection
  <2> QED BY <2>1, <2>2, FS_Bijection
<1> QED BY <1>6, <1>9 DEF picks

LEMMA UnneededIsNat ==
    ASSUME NEW count \in Nat, NEW c \in Nat, NEW ppc \in Nat
    PROVE  Unneeded(count, c, ppc) \in Nat /\ HalfUnneeded(count, c, ppc) \in Nat
<1> DEFINE per == IF ppc = 0 THEN 2 ELSE ppc
<1>1. per \in Nat \ {0} /\ Capacity(c, ppc) = c * per
  BY DEF Capacity
<1> HIDE DEF per
<1>2. CASE count < c * per
  <2>1. c # 0
    BY <1>1, <1>2
  <2>2. (c * per) \div c = per
    BY <1>1, <2>1
  <2>3. Unneeded(count, c, ppc) = (c * per - count) \div per
    BY <1>1, <1>2, <2>2 DEF Unneeded, PerCourt
  <2>4. (c * per - count) \div per \in Nat
    BY <1>1, <1>2
  <2> QED BY <2>3, <2>4 DEF HalfUnneeded
<1>3. CASE ~(count < c * per)
  <2>1. Unneeded(count, c, ppc) = 0
    BY <1>1, <1>3 DEF Unneeded
  <2> QED BY <2>1 DEF HalfUnneeded
<1> QED BY <1>2, <1>3

LEMMA QuotaIsNat ==
    ASSUME NEW w, rel[w] \in Frame, rel[w].g \in Games
    PROVE  /\ Quota(w) \in Nat /\ rel[w].count \in Nat /\ Read(w).count \in Nat
           /\ Quota(w) <= Unneeded(rel[w].count, Read(w).count, PlayersPerCourt)
<1>1. rel[w].count \in Nat /\ Read(w).count \in Nat /\ PlayersPerCourt \in Nat
  BY CountsAssumption DEF Frame, Read, Game
<1>2. /\ Unneeded(rel[w].count, Read(w).count, PlayersPerCourt) \in Nat
      /\ HalfUnneeded(rel[w].count, Read(w).count, PlayersPerCourt) \in Nat
  BY <1>1, UnneededIsNat
<1>3. HalfUnneeded(rel[w].count, Read(w).count, PlayersPerCourt)
        <= Unneeded(rel[w].count, Read(w).count, PlayersPerCourt)
  BY <1>2 DEF HalfUnneeded
<1> QED BY <1>1, <1>2, <1>3 DEF Quota

(* The courts left after freeing what is unneeded seat everybody.          *)
LEMMA SeatsAreLeft ==
    ASSUME NEW count \in Nat, NEW c \in Nat, NEW ppc \in Nat, NEW n \in Nat,
           Unneeded(count, c, ppc) # 0, n <= Unneeded(count, c, ppc)
    PROVE  n <= c /\ Capacity(c - n, ppc) >= count
<1> DEFINE per == IF ppc = 0 THEN 2 ELSE ppc
           u == (c * per - count) \div per
<1>1. per \in Nat \ {0}
  OBVIOUS
<1>2. \A k \in Int : Capacity(k, ppc) = k * per
  BY DEF Capacity
<1> HIDE DEF per
<1>3. c # 0 /\ count < c * per
  BY <1>1, <1>2 DEF Unneeded
<1>4. (c * per) \div c = per
  BY <1>1, <1>3
<1>5. Unneeded(count, c, ppc) = u
  BY <1>2, <1>3, <1>4 DEF Unneeded, PerCourt
<1>6. u \in Nat /\ u * per <= c * per - count
  BY <1>1, <1>3
<1> HIDE DEF u
<1>7. n * per <= u * per /\ (c - n) * per = c * per - n * per
  BY <1>1, <1>5, <1>6
<1>8. (c - n) * per >= count
  BY <1>1, <1>6, <1>7
<1>9. n <= c
  <2>1. ASSUME n > c PROVE FALSE
    <3>1. (c - n) * per < 0
      BY <1>1, <2>1
    <3> QED BY <1>8, <3>1, <1>1
  <2> QED BY <2>1
<1> QED BY <1>2, <1>8, <1>9

(* While one poll is at work alone and lookups work, a release step is one *)
(* of these.                                                               *)
LEMMA ReleaseHasEffect ==
    ASSUME Inv, Alone, "read" \notin FaultKinds, OnePoll, PlanInv, ApartInv,
           NEW w \in Workers, Release(w)
    PROVE  ReleaseEffect(w)
<1> DEFINE r == rel[w]
<1>1. /\ w \in Pollers /\ w \notin Admins /\ at[w] # 0
      /\ \A u \in Workers : bkg[u].pc = "idle"
  BY ReleaserIsAt, DutyIsAlone
<1>2. /\ r \in Frame /\ RelOK(r, w, at[w], now, match) /\ ApartFrame(r)
      /\ game \in [Games -> Game]
  BY DEF Inv, RestOK, RelOK, ApartInv
<1>3. ~Fails("write") /\ ~Fails("read")
  BY DEF Fails, Alone
<1>4. UNCHANGED game => CourtsFixed
  BY DEF CourtsFixed, SlotsFixed
<1>5. ASSUME NextGame(w), r.pc \notin {"idle", "load", "cancel", "row"}, UNCHANGED match,
             CourtsFixed
      PROVE  ReleaseEffect(w)
  <2>1. \E f : TakesUp(w, f)
    BY <1>5, NextGameTakesUp
  <2> QED BY <1>5, <2>1 DEF ReleaseEffect, Takes
<1>6. ASSUME NEW pc \in {"count", "load", "tell", "mark", "complete", "rows"}, Goto(w, pc),
             r.pc \in {"begin", "count"}
             \/ (r.pc \in {"load", "tell", "complete"} /\ pc \notin {"count", "load"}),
             UNCHANGED match, CourtsFixed
      PROVE  ReleaseEffect(w)
  <2>1. r.count \in Nat
    BY <1>2 DEF Frame
  <2>2. [r EXCEPT !.pc = pc, !.count = r.count] = [r EXCEPT !.pc = pc]
    BY <1>2 DEF Frame
  <2>3. rel' = [rel EXCEPT ![w] = [r EXCEPT !.pc = pc, !.count = r.count]]
    BY <1>6, <2>2 DEF Goto
  <2> QED BY <1>6, <2>1, <2>3 DEF ReleaseEffect, MovesOn
<1>7. CASE QueryGames(w)
  <2>1. r.pc = "idle" /\ UNCHANGED <<match, game>>
    BY <1>7 DEF QueryGames, bookVars
  <2>2. PICK job \in ReleaseJobs : Proceed(w, Due(job), game, now)
    BY <1>3, <1>7 DEF QueryGames
  <2>3. \E f : TakesUp(w, f)
    BY <2>1, <2>2, DueAreCreated, ProceedTakesUp
  <2> QED BY <1>4, <2>1, <2>3 DEF ReleaseEffect, Takes
<1>8. CASE BeginHalfway(w)
  <2>1. r.pc = "begin" /\ UNCHANGED <<match, game>>
    BY <1>8 DEF BeginHalfway, bookVars
  <2>2. NextGame(w) \/ Goto(w, "mark") \/ Goto(w, "count")
    BY <1>8 DEF BeginHalfway
  <2> QED BY <1>4, <1>5, <1>6, <2>1, <2>2
<1>9. CASE CountPlayers(w)
  <2>1. r.pc \in {"begin", "count"} /\ UNCHANGED <<match, game>> /\ r.g \in Games
    BY <1>2, <1>9 DEF CountPlayers, Counting, bookVars, RelOK
  <2>2. rel' = [rel EXCEPT ![w].pc = "load", ![w].count = players[r.g]]
    BY <1>3, <1>9 DEF CountPlayers
  <2>3. players[r.g] \in Nat
    BY <2>1 DEF Inv, RestOK
  <2>4. rel' = [rel EXCEPT ![w] = [r EXCEPT !.pc = "load", !.count = players[r.g]]]
    BY <2>2
  <2> QED BY <1>4, <2>1, <2>3, <2>4 DEF ReleaseEffect, MovesOn
<1>10. CASE LoadBookings(w)
  <2>1. r.pc = "load" /\ UNCHANGED <<match, game>> /\ r.g \in Games /\ Created(r.g)
    BY <1>2, <1>10 DEF LoadBookings, bookVars, RelOK, ApartFrame
  <2>2. AfterRelease(w) \in {"tell", "mark"}
    BY DEF AfterRelease
  <2>3. \/ Goto(w, AfterRelease(w))
        \/ Quota(w) # 0 /\ \E entries \in loadCourtBookingEntries(r.g) :
              rel' = [rel EXCEPT ![w].pc = "cancel", ![w].picks = Selected(entries, Quota(w))]
    BY <1>3, <1>10 DEF LoadBookings
  <2>4. CASE Goto(w, AfterRelease(w))
    <3> DEFINE pc == AfterRelease(w)
    <3> HIDE DEF pc
    <3>1. pc \in {"tell", "mark"} /\ Goto(w, pc)
      BY <2>2, <2>4 DEF pc
    <3> QED BY <1>4, <1>6, <2>1, <3>1
  <2>5. CASE Quota(w) # 0 /\ \E entries \in loadCourtBookingEntries(r.g) :
              rel' = [rel EXCEPT ![w].pc = "cancel", ![w].picks = Selected(entries, Quota(w))]
    <3>0. PICK entries \in loadCourtBookingEntries(r.g) :
            rel' = [rel EXCEPT ![w].pc = "cancel", ![w].picks = Selected(entries, Quota(w))]
      BY <2>5
    <3> DEFINE picks == Selected(entries, Quota(w))
    <3>a. entries = RowsAt(game[r.g].slot)
      BY <1>1, <2>1, <3>0, EntriesAreOfSlot
    <3>b. picks \in SUBSET entries /\ Cardinality(picks) <= Quota(w)
      <4>1. entries \in SUBSET Matches
        BY <3>a DEF RowsAt, ActiveRows
      <4>2. Quota(w) \in Nat
        BY <1>2, <2>1, QuotaIsNat
      <4>3. \A m \in entries : match[m].court \in Nat
        BY <4>1, CourtsAreNumbers
      <4> QED BY <4>1, <4>2, <4>3, SelectedAreEntries, SelectedAreFew
    <3>c. rel' = [rel EXCEPT ![w].pc = "cancel", ![w].picks = picks]
      BY <3>0
    <3> HIDE DEF picks
    <3>1. /\ picks \in SUBSET RowsAt(game[r.g].slot)
          /\ Cardinality(picks) <= Quota(w)
          /\ rel' = [rel EXCEPT ![w].pc = "cancel", ![w].picks = picks]
      BY <3>a, <3>b, <3>c
    <3>2. picks \in SUBSET Matches /\ \A m \in picks : match[m].slot = game[r.g].slot
      BY <3>1 DEF RowsAt, ActiveRows
    <3>3. rel' = [rel EXCEPT ![w] = [r EXCEPT !.pc = "cancel", !.picks = picks]]
      BY <3>1
    <3> QED BY <2>1, <2>5, <3>1, <3>2, <3>3 DEF ReleaseEffect, Selects
  <2> QED BY <2>3, <2>4, <2>5
<1>11. CASE CancelCourt(w)
  <2>1. r.pc = "cancel" /\ UNCHANGED game
    BY <1>11 DEF CancelCourt
  <2>2. PICK m \in r.picks :
          \/ /\ match' = [match EXCEPT ![m].st = "canceled"]
             /\ rel' = [rel EXCEPT ![w].pc = "row", ![w].m = m,
                                   ![w].picks = @ \ {m},
                                   ![w].gone = @ \cup {match[m].court}]
          \/ /\ rel' = [rel EXCEPT ![w].picks = @ \ {m}]
             /\ \/ UNCHANGED match
                \/ Fails("lost") /\ match' = [match EXCEPT ![m].st = "canceled"]
    BY <1>11 DEF CancelCourt
  <2>3. CASE /\ match' = [match EXCEPT ![m].st = "canceled"]
             /\ rel' = [rel EXCEPT ![w].pc = "row", ![w].m = m,
                                   ![w].picks = @ \ {m},
                                   ![w].gone = @ \cup {match[m].court}]
    <3>1. rel' = [rel EXCEPT ![w] = [r EXCEPT
                !.pc = "row", !.m = m, !.picks = @ \ {m}, !.gone = @ \cup {match[m].court}]]
      BY <2>3
    <3>2. GivesBack(w)
      BY <2>1, <2>3, <3>1 DEF GivesBack
    <3> QED BY <3>2 DEF ReleaseEffect
  <2>4. CASE /\ rel' = [rel EXCEPT ![w].picks = @ \ {m}]
             /\ \/ UNCHANGED match
                \/ Fails("lost") /\ match' = [match EXCEPT ![m].st = "canceled"]
    <3>1. rel' = [rel EXCEPT ![w] = [r EXCEPT !.picks = @ \ {m}]]
      BY <2>4
    <3>2. LeavesOut(w)
      BY <2>1, <2>4, <3>1 DEF LeavesOut, Fails
    <3> QED BY <3>2 DEF ReleaseEffect
  <2> QED BY <2>2, <2>3, <2>4
<1>12. CASE MarkRow(w)
  <2>1. rel' = [rel EXCEPT ![w] = [r EXCEPT !.pc = "cancel", !.m = None]]
    BY <1>12 DEF MarkRow
  <2> QED BY <1>12, <2>1 DEF MarkRow, ReleaseEffect, Marks
<1>13. CASE PersistCourts(w)
  <2> DEFINE pc == AfterRelease(w)
  <2>1. pc \in {"tell", "mark"}
    BY DEF AfterRelease
  <2>2. rel' = [rel EXCEPT ![w] = [r EXCEPT !.pc = pc]]
    BY <1>13 DEF PersistCourts, Goto
  <2>3. r.pc = "cancel" /\ r.picks = {} /\ UNCHANGED match
    BY <1>13 DEF PersistCourts, bookVars
  <2>4. \/ r.gone = {} /\ UNCHANGED game
        \/ game' = [game EXCEPT ![r.g].courts = Read(w).courts \ r.gone,
                                ![r.g].count = Cardinality(Read(w).courts \ r.gone)]
    BY <1>3, <1>13 DEF PersistCourts, UpdateCourts
  <2> HIDE DEF pc
  <2>5. Persists(w)
    BY <2>1, <2>2, <2>3, <2>4 DEF Persists
  <2> QED BY <2>5 DEF ReleaseEffect
<1>14. CASE SendReminder(w)
  <2>1. r.pc = "tell" /\ UNCHANGED <<match, game>> /\ (Goto(w, "mark") \/ NextGame(w))
    BY <1>14 DEF SendReminder, bookVars
  <2> QED BY <1>4, <1>5, <1>6, <2>1
<1>15. CASE MarkDone(w)
  <2>1. r.pc = "mark" /\ UNCHANGED match /\ r.g \in Games /\ NextGame(w)
        /\ game' = [game EXCEPT ![r.g] = Marked(w, game[r.g])]
    BY <1>2, <1>3, <1>15 DEF MarkDone, bookVars, RelOK
  <2>2. AtJob(w, "reminder") \/ AtJob(w, "halfway") \/ AtJob(w, "final")
    BY <1>1, <1>2, <2>1 DEF RelOK, AtJob, ReleaseJobs
  <2>3. /\ Marked(w, game[r.g]) \in Game
        /\ Marked(w, game[r.g]).slot = game[r.g].slot
        /\ Marked(w, game[r.g]).courts = game[r.g].courts
        /\ Marked(w, game[r.g]).count = game[r.g].count
    <3>1. game[r.g] \in Game
      BY <1>2, <2>1
    <3> QED BY <2>2, <3>1 DEF Marked, Game
  <2>4. CourtsFixed
    BY <2>1, <2>3, MarkFixesCourts
  <2> QED BY <1>5, <2>1, <2>4
<1>16. CASE CloseMessage(w)
  <2>1. r.pc = "begin" /\ UNCHANGED <<match, game>> /\ (Goto(w, "complete") \/ NextGame(w))
    BY <1>16 DEF CloseMessage, bookVars
  <2> QED BY <1>4, <1>5, <1>6, <2>1
<1>17. CASE CompleteGame(w)
  <2>1. r.pc = "complete" /\ UNCHANGED match /\ r.g \in Games /\ Goto(w, "rows")
        /\ game' = [game EXCEPT ![r.g].completed = TRUE]
    BY <1>2, <1>3, <1>17 DEF CompleteGame, bookVars, RelOK
  <2> DEFINE new == [game[r.g] EXCEPT !.completed = TRUE]
  <2>2. /\ new \in Game /\ new.slot = game[r.g].slot /\ new.courts = game[r.g].courts
        /\ new.count = game[r.g].count
    <3>1. game[r.g] \in Game
      BY <1>2, <2>1
    <3> QED BY <3>1 DEF Game
  <2>3. game' = [game EXCEPT ![r.g] = new]
    BY <2>1
  <2> HIDE DEF new
  <2>4. CourtsFixed
    BY <2>1, <2>2, <2>3, MarkFixesCourts
  <2> QED BY <1>6, <2>1, <2>4
<1>18. CASE CloseRows(w)
  <2>1. r.pc = "rows" /\ UNCHANGED <<match, game>> /\ NextGame(w)
    BY <1>18 DEF CloseRows
  <2> QED BY <1>4, <1>5, <2>1
<1>19. ~LoadRemoved(w) /\ ~PersistRemoval(w)
  BY <1>1 DEF LoadRemoved, PersistRemoval
<1> QED
  BY <1>7, <1>8, <1>9, <1>10, <1>11, <1>12, <1>13, <1>14, <1>15, <1>16, <1>17, <1>18, <1>19
     DEF Release, ReleaseStep

(* Giving back changes no reservation's slot or court.                     *)
LEMMA ReleaseKeepsPlaces ==
    ASSUME Inv, Alone, NEW w \in Workers, Release(w)
    PROVE  \A m \in Matches : match'[m].slot = match[m].slot /\ match'[m].court = match[m].court
<1>1. CASE match' = match
  BY <1>1
<1>2. CASE match' # match
  <2>1. PICK m \in rel[w].picks :
           match[m].st # "unused" /\ match' = [match EXCEPT ![m].st = "canceled"]
    BY <1>2, ReleaseGivesBack
  <2>2. m \in Matches
    BY <2>1 DEF Inv, RelOK, Frame
  <2> QED BY <2>1, <2>2, GivenBackSets
<1> QED BY <1>1, <1>2

LEMMA ApartFrameKept ==
    ASSUME NEW f \in Frame, ApartFrame(f), SlotsFixed,
           \A m \in Matches : match'[m].slot = match[m].slot
    PROVE  ApartFrame(f)'
<1>1. f.todo \subseteq Games /\ f.picks \subseteq Matches
  BY DEF Frame
<1>2. \A h \in Games : Created(h)' <=> Created(h)
  BY DEF Created, SlotsFixed
<1>3. f.pc # "idle" => f.g \in f.todo /\ \A h \in f.todo : Created(h)'
  BY <1>1, <1>2 DEF ApartFrame
<1>4. f.picks # {} => f.g \in Games
  BY <1>1 DEF ApartFrame
<1>5. \A m \in f.picks : match'[m].slot = game'[f.g].slot
  BY <1>1, <1>4 DEF ApartFrame, SlotsFixed
<1> QED BY <1>3, <1>5 DEF ApartFrame

(* Only the worker at a job has a frame to speak of.                       *)
LEMMA ApartAfter ==
    ASSUME Inv, Alone, OnePoll, ApartInv, NEW w \in Workers, at[w] # 0,
           NEW f, rel' = [rel EXCEPT ![w] = f], ApartFrame(f)'
    PROVE  ApartInv'
<1>1. rel'[w] = f /\ \A u \in Workers : u # w => rel'[u] = rel[u]
  BY DEF Inv, RestOK
<1>2. ASSUME NEW u \in Workers, u # w PROVE ApartFrame(rel[u])'
  <2>1. rel[u].pc = "idle" /\ rel[u].picks = {}
    BY <1>2, DutyIsAlone DEF ApartInv, ApartFrame
  <2> QED BY <1>1, <1>2, <2>1 DEF ApartFrame
<1>3. ApartFrame(rel[w])'
  BY <1>1
<1> QED BY <1>2, <1>3 DEF ApartInv

LEMMA ReleaseKeepsApart ==
    ASSUME Inv, Alone, "read" \notin FaultKinds, OnePoll, PlanInv, ApartInv,
           NEW w \in Workers, Release(w)
    PROVE  ApartInv'
<1>1. PICK r : r = rel[w]
  OBVIOUS
<1>2. at[w] # 0 /\ SlotsFixed /\ Inv' /\ ReleaseEffect(w)
      /\ \A m \in Matches : match'[m].slot = match[m].slot
  BY ReleaserIsAt, ReleaseFixesSlots, ReleaseStepKeepsInv, ReleaseHasEffect, ReleaseKeepsPlaces
<1>3. r \in Frame /\ ApartFrame(r)
  BY <1>1 DEF Inv, RelOK, ApartInv
<1>4. ASSUME NEW f, rel' = [rel EXCEPT ![w] = f], ApartFrame(f)
      PROVE  ApartInv'
  <2>1. rel'[w] = f
    BY <1>4 DEF Inv, RestOK
  <2>2. f \in Frame
    BY <1>2, <2>1 DEF Inv, RelOK
  <2>3. ApartFrame(f)'
    BY <1>2, <1>4, <2>2, ApartFrameKept
  <2> QED BY <1>2, <1>4, <2>3, ApartAfter
<1>5. CASE Takes(w)
  <2>1. PICK f : TakesUp(w, f)
    BY <1>5 DEF Takes
  <2>2. ApartFrame(f)
    BY <1>1, <1>3, <2>1 DEF TakesUp, ApartFrame
  <2> QED BY <1>4, <2>1, <2>2 DEF TakesUp
<1>6. CASE MovesOn(w)
  <2>1. PICK pc \in {"count", "load", "tell", "mark", "complete", "rows"}, n \in Nat :
          /\ r.pc \in {"begin", "count", "load", "tell", "complete"}
          /\ rel' = [rel EXCEPT ![w] = [r EXCEPT !.pc = pc, !.count = n]]
    BY <1>1, <1>6 DEF MovesOn
  <2>2. ApartFrame([r EXCEPT !.pc = pc, !.count = n])
    BY <1>3, <2>1 DEF ApartFrame, Frame
  <2> QED BY <1>4, <2>1, <2>2
<1>7. CASE Selects(w)
  <2>1. PICK picks \in SUBSET Matches :
          /\ \A m \in picks : match[m].slot = game[r.g].slot
          /\ rel' = [rel EXCEPT ![w] = [r EXCEPT !.pc = "cancel", !.picks = picks]]
    BY <1>1, <1>7 DEF Selects
  <2>2. r.pc = "load"
    BY <1>1, <1>7 DEF Selects
  <2>3. ApartFrame([r EXCEPT !.pc = "cancel", !.picks = picks])
    BY <1>3, <2>1, <2>2 DEF ApartFrame, Frame
  <2> QED BY <1>4, <2>1, <2>3
<1>8. CASE GivesBack(w)
  <2>1. PICK m : rel' = [rel EXCEPT ![w] = [r EXCEPT
                    !.pc = "row", !.m = m, !.picks = @ \ {m}, !.gone = @ \cup {match[m].court}]]
    BY <1>1, <1>8 DEF GivesBack
  <2>2. r.pc = "cancel"
    BY <1>1, <1>8 DEF GivesBack
  <2>3. ApartFrame([r EXCEPT
                    !.pc = "row", !.m = m, !.picks = @ \ {m}, !.gone = @ \cup {match[m].court}])
    BY <1>3, <2>2 DEF ApartFrame, Frame
  <2> QED BY <1>4, <2>1, <2>3
<1>9. CASE LeavesOut(w)
  <2>1. PICK m : rel' = [rel EXCEPT ![w] = [r EXCEPT !.picks = @ \ {m}]]
    BY <1>1, <1>9 DEF LeavesOut
  <2>2. r.pc = "cancel"
    BY <1>1, <1>9 DEF LeavesOut
  <2>3. ApartFrame([r EXCEPT !.picks = @ \ {m}])
    BY <1>3, <2>2 DEF ApartFrame, Frame
  <2> QED BY <1>4, <2>1, <2>3
<1>10. CASE Marks(w)
  <2>1. /\ r.pc = "row"
        /\ rel' = [rel EXCEPT ![w] = [r EXCEPT !.pc = "cancel", !.m = None]]
    BY <1>1, <1>10 DEF Marks
  <2>2. ApartFrame([r EXCEPT !.pc = "cancel", !.m = None])
    BY <1>3, <2>1 DEF ApartFrame, Frame
  <2> QED BY <1>4, <2>1, <2>2
<1>11. CASE Persists(w)
  <2>1. PICK pc \in {"tell", "mark"} : rel' = [rel EXCEPT ![w] = [r EXCEPT !.pc = pc]]
    BY <1>1, <1>11 DEF Persists
  <2>2. r.pc = "cancel" /\ r.picks = {}
    BY <1>1, <1>11 DEF Persists
  <2>3. ApartFrame([r EXCEPT !.pc = pc])
    BY <1>3, <2>1, <2>2 DEF ApartFrame, Frame
  <2> QED BY <1>4, <2>1, <2>3
<1> QED BY <1>2, <1>5, <1>6, <1>7, <1>8, <1>9, <1>10, <1>11 DEF ReleaseEffect

LEMMA IdleIsApart ==
    ASSUME \A u \in Workers : rel'[u].pc = "idle" /\ rel'[u].picks = {}
    PROVE  ApartInv'
BY DEF ApartInv, ApartFrame

LEMMA NextKeepsApart ==
    ASSUME Inv, Alone, "read" \notin FaultKinds, OnePoll, PlanInv, ApartInv, [Next]_vars
    PROVE  ApartInv'
<1>1. ASSUME NEW w \in Workers, Release(w) PROVE ApartInv'
  BY <1>1, ReleaseKeepsApart
<1>2. ASSUME NEW w \in Workers, Book(w) PROVE ApartInv'
  <2>1. at[w] # 0 /\ rel[w].pc = "idle" /\ rel' = rel
    BY <1>2, BookerIsAt DEF Book
  <2>2. \A u \in Workers : rel[u].pc = "idle" /\ rel[u].picks = {}
    BY <2>1, DutyIsAlone DEF ApartInv, ApartFrame
  <2> QED BY <2>1, <2>2, IdleIsApart
<1>3. ASSUME NEW w \in Workers, Panic(w) PROVE ApartInv'
  <2>1. \A u \in Workers : rel'[u].pc = "idle" /\ rel'[u].picks = {}
    BY <1>3 DEF Panic, Restart, IdleFrame
  <2> QED BY <2>1, IdleIsApart
<1>4. CASE \/ Tick \/ UNCHANGED vars
           \/ \E p \in Pollers : Poll(p)
           \/ \E g \in Games : Join(g) \/ Leave(g)
           \/ \E k \in Creds : CooldownExpires(k)
  <2>1. UNCHANGED <<match, game, rel>>
    BY <1>4 DEF Tick, vars, Poll, Join, Leave, Attend, CooldownExpires, planVars, bookVars
  <2>2. ASSUME NEW u \in Workers PROVE ApartFrame(rel[u])'
    BY <2>1 DEF ApartInv, ApartFrame, Created
  <2> QED BY <2>2 DEF ApartInv
<1> QED BY <1>1, <1>2, <1>3, <1>4, NobodyAsks, NoCrash DEF Next

LEMMA InitIsApart == ASSUME Init PROVE ApartInv
BY DEF Init, ReleaseInit, IdleFrame, ApartInv, ApartFrame

(* Two sessions of a date stay apart: a result names a game of its own     *)
(* slot, and the releases for a game cancel reservations of that slot and  *)
(* no other, though both hold the same court numbers: while lookups work,  *)
(* the slot's result names the game and so narrows the rows down           *)
(* (court_cancellation.go:81).                                             *)
THEOREM SessionsAreApart ==
    ASSUME PollsKeepUp = TRUE, Admins = {}, MaxCrashes = 0,
           "write" \notin FaultKinds, "read" \notin FaultKinds
    PROVE  Spec => []SlotsStayApart
<1>1. Init => Inv /\ OnePoll /\ PlanInv /\ ApartInv
  BY InitEstablishesInv, InitPlans, InitIsApart
<1>2. Inv /\ OnePoll /\ PlanInv /\ ApartInv /\ [Next]_vars
          => (Inv /\ OnePoll /\ PlanInv /\ ApartInv)'
  BY NextKeepsInv, OnePollKept, NextKeepsPlan, NextKeepsApart DEF Alone
<1>3. PlanInv /\ ApartInv => SlotsStayApart
  BY DEF PlanInv, PlanOK, ApartInv, ApartFrame, SlotsStayApart
<1> QED BY <1>1, <1>2, <1>3, PTL DEF Spec

-----------------------------------------------------------------------------
(* Between polls, a game lists what is reserved.                           *)

(* A game lists the courts reserved for its slot, unless a release for it  *)
(* is between the first cancellation and the new list.                     *)
ListOK(g) ==
    Created(g) =>
        /\ game[g].count = Cardinality(game[g].courts)
        /\ \/ game[g].courts = CourtsHeld(game[g].slot)
           \/ \E w \in Workers : rel[w].pc \in {"cancel", "row"} /\ rel[w].g = g

(* The list a release read is the one in the table until it writes it, and *)
(* what it has given back is what the platform no longer holds.            *)
ListFrameOK(r) ==
    /\ r.pc # "idle" =>
          \A h \in r.todo \ {r.g} : /\ r.snap[h].courts = game[h].courts
                                   /\ r.snap[h].count = game[h].count
    /\ r.pc \in {"begin", "count", "load", "cancel", "row"} =>
          /\ r.snap[r.g].courts = game[r.g].courts
          /\ r.snap[r.g].count = game[r.g].count
    /\ r.pc \in {"begin", "count", "load"} => r.gone = {}
    /\ r.pc \in {"cancel", "row"} => game[r.g].courts \ r.gone = CourtsHeld(game[r.g].slot)

ListInv ==
    /\ \A g \in Games : ListOK(g)
    /\ \A w \in Workers : ListFrameOK(rel[w])

(* ListOK where nobody but the worker on frame r gives courts back.        *)
ListOf(r, g) ==
    Created(g) =>
        /\ game[g].count = Cardinality(game[g].courts)
        /\ \/ game[g].courts = CourtsHeld(game[g].slot)
           \/ r.pc \in {"cancel", "row"} /\ r.g = g

LEMMA ListBefore ==
    ASSUME Inv, Alone, OnePoll, ListInv, NEW w \in Workers, at[w] # 0
    PROVE  ListFrameOK(rel[w]) /\ \A g \in Games : ListOf(rel[w], g)
<1>1. \A u \in Workers : u # w => rel[u].pc = "idle"
  BY DutyIsAlone
<1>2. ASSUME NEW g \in Games PROVE ListOf(rel[w], g)
  <2>1. ListOK(g)
    BY DEF ListInv
  <2> QED BY <1>1, <2>1 DEF ListOK, ListOf
<1> QED BY <1>2 DEF ListInv

LEMMA ListAfter ==
    ASSUME Inv, Alone, OnePoll, NEW w \in Workers, at[w] # 0,
           NEW f, rel' = [rel EXCEPT ![w] = f], ListFrameOK(f)', \A g \in Games : ListOf(f, g)'
    PROVE  ListInv'
<1>1. rel'[w] = f
  BY DEF Inv, RestOK
<1>2. \A u \in Workers : u # w => rel'[u] = rel[u] /\ rel[u].pc = "idle"
  BY DutyIsAlone DEF Inv, RestOK
<1>3. ASSUME NEW g \in Games PROVE ListOK(g)'
  <2>1. ListOf(f, g)'
    OBVIOUS
  <2> QED BY <1>1, <2>1 DEF ListOK, ListOf
<1>4. ASSUME NEW u \in Workers PROVE ListFrameOK(rel[u])'
  BY <1>1, <1>2 DEF ListFrameOK
<1> QED BY <1>3, <1>4 DEF ListInv

(* A step of the worker that changes no reservation and no list.           *)
LEMMA ListUntouched ==
    ASSUME Inv, NEW r, NEW f, match' = match, CourtsFixed, f.todo \subseteq Games,
           f.pc # "idle" => f.g \in Games,
           \A g \in Games : ListOf(r, g),
           \A g \in Games : r.pc \in {"cancel", "row"} /\ r.g = g => f.pc \in {"cancel", "row"} /\ f.g = g,
           ListFrameOK(f)
    PROVE  ListFrameOK(f)' /\ \A g \in Games : ListOf(f, g)'
<1>1. \A s : CourtsHeld(s)' = CourtsHeld(s)
  BY SameMatchesSameSets
<1>2. \A g \in Games : /\ game'[g].slot = game[g].slot /\ game'[g].courts = game[g].courts
                       /\ game'[g].count = game[g].count
  BY DEF CourtsFixed, SlotsFixed
<1>3. ASSUME NEW g \in Games PROVE ListOf(f, g)'
  <2>1. ListOf(r, g)
    OBVIOUS
  <2>2. /\ game'[g].slot = game[g].slot /\ game'[g].courts = game[g].courts
        /\ game'[g].count = game[g].count
    BY <1>2
  <2>3. CourtsHeld(game[g].slot)' = CourtsHeld(game[g].slot)
    BY <2>2, <1>1
  <2> QED BY <2>1, <2>2, <2>3 DEF ListOf, Created
<1>4. ASSUME f.pc # "idle"
      PROVE  /\ \A h \in f.todo \ {f.g} : /\ f.snap[h].courts = game'[h].courts
                                         /\ f.snap[h].count = game'[h].count
             /\ game'[f.g].courts = game[f.g].courts /\ game'[f.g].count = game[f.g].count
             /\ game'[f.g].slot = game[f.g].slot
  BY <1>2, <1>4 DEF ListFrameOK
<1>5. f.pc # "idle" => CourtsHeld(game[f.g].slot)' = CourtsHeld(game[f.g].slot)
  <2>1. f.pc # "idle" => game'[f.g].slot = game[f.g].slot
    BY <1>4
  <2> QED BY <1>1, <2>1
<1>6. ListFrameOK(f)'
  BY <1>4, <1>5 DEF ListFrameOK
<1> QED BY <1>3, <1>6

(* A cancellation takes one court off what is held for its slot.           *)
LEMMA GivenBackCourts ==
    ASSUME Inv, HeldInv, NEW m \in Matches, match[m].st # "unused",
           match' = [match EXCEPT ![m].st = "canceled"], match[m].slot \in Slots
    PROVE  /\ CourtsHeld(match[m].slot)' = CourtsHeld(match[m].slot) \ {match[m].court}
           /\ \A t : t # match[m].slot => CourtsHeld(t)' = CourtsHeld(t)
<1> DEFINE s == match[m].slot
           c == match[m].court
<1>1. match'[m].slot = s
  BY GivenBackSets
<1>2. /\ \A t : LiveAt(t)' = LiveAt(t) \ {m}
      /\ \A n \in Matches : match'[n].court = match[n].court
  BY GivenBackSets
<1>3. \A t : CourtsHeld(t)' = {match[n].court : n \in LiveAt(t) \ {m}}
  <2>1. \A t : \A n \in LiveAt(t) \ {m} : match'[n].court = match[n].court
    BY <1>2 DEF LiveAt, Live
  <2> QED BY <1>2, <2>1 DEF CourtsHeld
<1>4. \A n \in LiveAt(s) : n # m => match[n].court # c
  <2>1. \A n1, n2 \in AllAt(s) : match[n1].court = match[n2].court => n1 = n2
    BY DEF HeldInv, HeldOK
  <2>2. m \in AllAt(s) /\ LiveAt(s) \subseteq AllAt(s)
    BY DEF AllAt, LiveAt, Live
  <2> QED BY <2>1, <2>2
<1>5. {match[n].court : n \in LiveAt(s) \ {m}} = CourtsHeld(s) \ {c}
  BY <1>4 DEF CourtsHeld
<1>6. ASSUME NEW t, t # s PROVE LiveAt(t) \ {m} = LiveAt(t)
  BY <1>6 DEF LiveAt
<1>7. \A t : t # s => CourtsHeld(t)' = CourtsHeld(t)
  BY <1>3, <1>6 DEF CourtsHeld
<1>8. CourtsHeld(s) \ {c} = {match[n].court : n \in LiveAt(s) \ {m}}
  BY <1>5
<1>9. PICK t : t = s
  OBVIOUS
<1>10. CourtsHeld(t)' = CourtsHeld(t) \ {c}
  BY <1>3, <1>8, <1>9
<1>11. CourtsHeld(s)' = CourtsHeld(t)'
  BY <1>1, <1>9
<1> QED BY <1>7, <1>9, <1>10, <1>11

(* The release steps that change neither a reservation nor a list.         *)
LEMMA QuietReleaseLists ==
    ASSUME Inv, Alone, OnePoll, ListInv, Inv', ApartInv', NEW w \in Workers, at[w] # 0,
           NEW f, rel' = [rel EXCEPT ![w] = f], match' = match, CourtsFixed, ListFrameOK(f),
           rel[w].pc \in {"cancel", "row"} => f.pc \in {"cancel", "row"} /\ f.g = rel[w].g
    PROVE  ListInv'
<1>1. PICK r : r = rel[w]
  OBVIOUS
<1>2. \A g \in Games : ListOf(r, g)
  BY <1>1, ListBefore
<1>3. rel'[w] = f
  BY DEF Inv, RestOK
<1>4. f \in Frame /\ ApartFrame(f)'
  BY <1>3 DEF Inv, RelOK, ApartInv
<1>5. f.todo \subseteq Games /\ (f.pc # "idle" => f.g \in Games)
  BY <1>4 DEF Frame, ApartFrame
<1>6. \A g \in Games : r.pc \in {"cancel", "row"} /\ r.g = g => f.pc \in {"cancel", "row"} /\ f.g = g
  BY <1>1
<1>7. ListFrameOK(f)' /\ \A g \in Games : ListOf(f, g)'
  BY <1>2, <1>5, <1>6, ListUntouched
<1> QED BY <1>7, ListAfter

LEMMA TakesUpLists ==
    ASSUME Inv, ListInv, NEW w \in Workers, NEW f, TakesUp(w, f)
    PROVE  ListFrameOK(f)
<1>1. ListFrameOK(rel[w])
  BY DEF ListInv
<1> QED BY <1>1 DEF TakesUp, ListFrameOK

(* CancelMatch: the court is off the platform and off what will be kept.   *)
LEMMA GivesBackLists ==
    ASSUME Inv, Alone, OnePoll, PlanInv, HeldInv, ApartInv, ListInv,
           NEW w \in Workers, at[w] # 0, GivesBack(w)
    PROVE  ListInv'
<1>1. PICK r : r = rel[w]
  OBVIOUS
<1>2. PICK m \in r.picks :
        /\ match' = [match EXCEPT ![m].st = "canceled"]
        /\ rel' = [rel EXCEPT ![w] = [r EXCEPT
                !.pc = "row", !.m = m, !.picks = @ \ {m}, !.gone = @ \cup {match[m].court}]]
  BY <1>1 DEF GivesBack
<1>3. PICK f : f = [r EXCEPT
                !.pc = "row", !.m = m, !.picks = @ \ {m}, !.gone = @ \cup {match[m].court}]
  OBVIOUS
<1>4. /\ r \in Frame /\ ApartFrame(r) /\ r.pc = "cancel" /\ ListFrameOK(r)
      /\ m \in Matches /\ match[m].st # "unused" /\ UNCHANGED game
  <2>1. RelOK(r, w, at[w], now, match) /\ ApartFrame(r) /\ ListFrameOK(r)
    BY <1>1 DEF Inv, ApartInv, ListInv
  <2> QED BY <1>1, <1>2, <2>1 DEF RelOK, Frame, GivesBack
<1>5. /\ f.pc = "row" /\ f.g = r.g /\ f.todo = r.todo /\ f.snap = r.snap
      /\ f.gone = r.gone \cup {match[m].court}
  BY <1>3, <1>4 DEF Frame
<1>6. /\ r.g \in Games /\ Created(r.g) /\ match[m].slot = game[r.g].slot
  BY <1>2, <1>4 DEF ApartFrame, Frame
<1>7. match[m].slot \in Slots
  <2>1. game[r.g] \in Game
    BY <1>6 DEF Inv, RestOK
  <2> QED BY <1>6, <2>1 DEF Created, Game
<1>8. PICK s : s = game[r.g].slot
  OBVIOUS
<1>9. /\ CourtsHeld(s)' = CourtsHeld(s) \ {match[m].court}
      /\ \A t : t # s => CourtsHeld(t)' = CourtsHeld(t)
  <2>1. PICK c : c = match[m].court
    OBVIOUS
  <2>2. match'[m].slot = s
    BY <1>2, <1>4, <1>6, <1>8, GivenBackSets
  <2>3. /\ CourtsHeld(match[m].slot)' = CourtsHeld(match[m].slot) \ {match[m].court}
        /\ \A t : t # match[m].slot => CourtsHeld(t)' = CourtsHeld(t)
    BY <1>2, <1>4, <1>7, GivenBackCourts
  <2>4. CourtsHeld(s)' = CourtsHeld(match[m].slot)'
    BY <2>2
  <2> QED BY <1>6, <1>8, <2>3, <2>4
<1>10. ListFrameOK(f)'
  <2>1. game'[f.g].courts \ f.gone = CourtsHeld(s)'
    <3>1. game[r.g].courts \ r.gone = CourtsHeld(s)
      BY <1>4, <1>8 DEF ListFrameOK
    <3> QED BY <1>4, <1>5, <1>9, <3>1
  <2>2. CourtsHeld(game[f.g].slot)' = CourtsHeld(s)'
    BY <1>4, <1>5, <1>8
  <2>3. f.snap[f.g].courts = game'[f.g].courts /\ f.snap[f.g].count = game'[f.g].count
    BY <1>4, <1>5 DEF ListFrameOK
  <2>4. \A h \in f.todo \ {f.g} : /\ f.snap[h].courts = game'[h].courts
                                 /\ f.snap[h].count = game'[h].count
    BY <1>4, <1>5 DEF ListFrameOK
  <2> QED BY <1>5, <2>1, <2>2, <2>3, <2>4 DEF ListFrameOK
<1>11. ASSUME NEW g \in Games PROVE ListOf(f, g)'
  <2>1. ListOf(r, g)
    BY <1>1, ListBefore
  <2>2. CASE g = r.g
    BY <1>4, <1>5, <2>1, <2>2 DEF ListOf, Created
  <2>3. CASE g # r.g /\ Created(g)
    <3>1. game[g].slot # s
      BY <1>6, <1>8, <2>3, PlanGivesOneGame DEF OneGamePerSlot
    <3>2. CourtsHeld(game[g].slot)' = CourtsHeld(game[g].slot)
      BY <1>4, <1>9, <3>1
    <3> QED BY <1>4, <2>1, <2>3, <3>2 DEF ListOf, Created
  <2>4. CASE ~Created(g)
    BY <1>4, <2>4 DEF ListOf, Created
  <2> QED BY <2>2, <2>3, <2>4
<1> QED BY <1>2, <1>3, <1>10, <1>11, ListAfter

(* UpdateCourts: the list read, less what was given back, is what is held. *)
LEMMA PersistsLists ==
    ASSUME Inv, Alone, OnePoll, ApartInv, ListInv,
           NEW w \in Workers, at[w] # 0, Persists(w)
    PROVE  ListInv'
<1>1. PICK r : r = rel[w]
  OBVIOUS
<1>2. PICK pc \in {"tell", "mark"} : rel' = [rel EXCEPT ![w] = [r EXCEPT !.pc = pc]]
  BY <1>1 DEF Persists
<1>3. PICK f : f = [r EXCEPT !.pc = pc]
  OBVIOUS
<1>4. /\ r \in Frame /\ ApartFrame(r) /\ r.pc = "cancel" /\ ListFrameOK(r) /\ match' = match
      /\ r.g \in Games /\ Created(r.g) /\ r.todo \subseteq Games
  <2>1. RelOK(r, w, at[w], now, match) /\ ApartFrame(r) /\ ListFrameOK(r)
    BY <1>1 DEF Inv, ApartInv, ListInv
  <2> QED BY <1>1, <2>1 DEF RelOK, Frame, Persists, ApartFrame
<1>5. f.pc \in {"tell", "mark"} /\ f.g = r.g /\ f.todo = r.todo /\ f.snap = r.snap
  BY <1>2, <1>3, <1>4 DEF Frame
<1>6. PICK kept : kept = game[r.g].courts \ r.gone
  OBVIOUS
<1>7. kept = CourtsHeld(game[r.g].slot) /\ Read(w).courts \ rel[w].gone = kept
  BY <1>1, <1>4, <1>6 DEF ListFrameOK, Read
<1>8. /\ \A g \in Games : game'[g].slot = game[g].slot
      /\ \A g \in Games : g # r.g => game'[g] = game[g]
      /\ game'[r.g].courts = kept /\ game'[r.g].count = Cardinality(kept)
  <2>1. CASE r.gone = {} /\ UNCHANGED game
    <3>1. ListOf(r, r.g)
      BY <1>1, <1>4, ListBefore
    <3> QED BY <1>4, <1>6, <2>1, <3>1 DEF ListOf
  <2>2. CASE game' = [game EXCEPT ![r.g].courts = kept, ![r.g].count = Cardinality(kept)]
    <3>1. game \in [Games -> Game] /\ game[r.g] \in Game
      BY <1>4 DEF Inv, RestOK
    <3> QED BY <1>4, <2>2, <3>1 DEF Game
  <2> QED BY <1>1, <1>7, <2>1, <2>2 DEF Persists
<1>9. \A s : CourtsHeld(s)' = CourtsHeld(s)
  BY <1>4, SameMatchesSameSets
<1>10. ListFrameOK(f)'
  BY <1>4, <1>5, <1>8 DEF ListFrameOK
<1>11. ASSUME NEW g \in Games PROVE ListOf(f, g)'
  <2>1. CourtsHeld(game[g].slot)' = CourtsHeld(game[g].slot)
    <3>1. game'[g].slot = game[g].slot
      BY <1>8
    <3> QED BY <1>9, <3>1
  <2>2. ListOf(r, g)
    BY <1>1, ListBefore
  <2>3. CASE g = r.g
    BY <1>7, <1>8, <2>1, <2>3 DEF ListOf
  <2>4. CASE g # r.g
    BY <1>8, <2>1, <2>2, <2>4 DEF ListOf, Created
  <2> QED BY <2>3, <2>4
<1> QED BY <1>2, <1>3, <1>10, <1>11, ListAfter

LEMMA ReleaseKeepsLists ==
    ASSUME Inv, Alone, "read" \notin FaultKinds, "lost" \notin FaultKinds, OnePoll, PlanInv,
           HeldInv, ApartInv, ListInv, NEW w \in Workers, Release(w)
    PROVE  ListInv'
<1>1. PICK r : r = rel[w]
  OBVIOUS
<1>2. at[w] # 0 /\ Inv' /\ ReleaseEffect(w) /\ ApartInv'
  BY ReleaserIsAt, ReleaseStepKeepsInv, ReleaseHasEffect, ReleaseKeepsApart
<1>3. r \in Frame /\ ApartFrame(r) /\ ListFrameOK(r) /\ \A g \in Games : ListOf(r, g)
  BY <1>1, <1>2, ListBefore DEF Inv, RelOK, ApartInv
<1>4. UNCHANGED game => CourtsFixed
  BY DEF CourtsFixed, SlotsFixed
<1>5. CASE Takes(w)
  <2>1. PICK f : TakesUp(w, f)
    BY <1>5 DEF Takes
  <2>2. ListFrameOK(f)
    BY <2>1, TakesUpLists
  <2>3. /\ rel' = [rel EXCEPT ![w] = f] /\ match' = match /\ CourtsFixed
        /\ rel[w].pc \notin {"cancel", "row"}
    BY <1>5, <2>1 DEF Takes, TakesUp
  <2> QED BY <1>2, <2>2, <2>3, QuietReleaseLists
<1>6. CASE MovesOn(w)
  <2>1. PICK pc \in {"count", "load", "tell", "mark", "complete", "rows"}, n \in Nat :
          /\ r.pc \in {"begin", "count"}
             \/ (r.pc \in {"load", "tell", "complete"} /\ pc \notin {"count", "load"})
          /\ n = r.count \/ r.pc \in {"begin", "count"}
          /\ rel' = [rel EXCEPT ![w] = [r EXCEPT !.pc = pc, !.count = n]]
    BY <1>1, <1>6 DEF MovesOn
  <2>2. PICK f : f = [r EXCEPT !.pc = pc, !.count = n]
    OBVIOUS
  <2>3. /\ f.pc = pc /\ f.todo = r.todo /\ f.snap = r.snap /\ f.g = r.g /\ f.gone = r.gone
    BY <1>3, <2>2 DEF Frame
  <2>4. ListFrameOK(f)
    BY <1>3, <2>1, <2>3 DEF ListFrameOK
  <2>5. match' = match /\ CourtsFixed /\ rel[w].pc \notin {"cancel", "row"}
    BY <1>1, <1>6, <2>1 DEF MovesOn
  <2> QED BY <1>2, <2>1, <2>2, <2>4, <2>5, QuietReleaseLists
<1>7. CASE Selects(w)
  <2>1. PICK picks \in SUBSET Matches :
          rel' = [rel EXCEPT ![w] = [r EXCEPT !.pc = "cancel", !.picks = picks]]
    BY <1>1, <1>7 DEF Selects
  <2>2. PICK f : f = [r EXCEPT !.pc = "cancel", !.picks = picks]
    OBVIOUS
  <2>3. /\ f.pc = "cancel" /\ f.todo = r.todo /\ f.snap = r.snap /\ f.g = r.g /\ f.gone = r.gone
    BY <1>3, <2>2 DEF Frame
  <2>4. r.pc = "load" /\ match' = match /\ CourtsFixed
    BY <1>1, <1>4, <1>7 DEF Selects
  <2>5. game[r.g].courts = CourtsHeld(game[r.g].slot)
    <3>1. r.g \in Games /\ Created(r.g)
      BY <1>3, <2>4 DEF ApartFrame, Frame
    <3>2. ListOf(r, r.g)
      BY <1>3, <3>1
    <3> QED BY <2>4, <3>1, <3>2 DEF ListOf
  <2>6. ListFrameOK(f)
    BY <1>3, <2>3, <2>4, <2>5 DEF ListFrameOK
  <2> QED BY <1>1, <1>2, <2>1, <2>2, <2>4, <2>6, QuietReleaseLists
<1>8. CASE GivesBack(w)
  BY <1>2, <1>8, GivesBackLists
<1>9. CASE LeavesOut(w)
  <2>1. PICK m : rel' = [rel EXCEPT ![w] = [r EXCEPT !.picks = @ \ {m}]]
    BY <1>1, <1>9 DEF LeavesOut
  <2>2. PICK f : f = [r EXCEPT !.picks = @ \ {m}]
    OBVIOUS
  <2>3. f.pc = r.pc /\ f.todo = r.todo /\ f.snap = r.snap /\ f.g = r.g /\ f.gone = r.gone
    BY <1>3, <2>2 DEF Frame
  <2>4. ListFrameOK(f)
    BY <1>3, <2>3 DEF ListFrameOK
  <2>5. match' = match /\ CourtsFixed
    BY <1>4, <1>9 DEF LeavesOut
  <2> QED BY <1>1, <1>2, <2>1, <2>2, <2>3, <2>4, <2>5, QuietReleaseLists
<1>10. CASE Marks(w)
  <2>1. /\ r.pc = "row" /\ match' = match /\ CourtsFixed
        /\ rel' = [rel EXCEPT ![w] = [r EXCEPT !.pc = "cancel", !.m = None]]
    BY <1>1, <1>4, <1>10 DEF Marks
  <2>2. PICK f : f = [r EXCEPT !.pc = "cancel", !.m = None]
    OBVIOUS
  <2>3. f.pc = "cancel" /\ f.todo = r.todo /\ f.snap = r.snap /\ f.g = r.g /\ f.gone = r.gone
    BY <1>3, <2>2 DEF Frame
  <2>4. ListFrameOK(f)
    BY <1>3, <2>1, <2>3 DEF ListFrameOK
  <2> QED BY <1>1, <1>2, <2>1, <2>2, <2>3, <2>4, QuietReleaseLists
<1>11. CASE Persists(w)
  BY <1>2, <1>11, PersistsLists
<1> QED BY <1>2, <1>5, <1>6, <1>7, <1>8, <1>9, <1>10, <1>11 DEF ReleaseEffect

(* Where no release is under way, the lists are as the slots are held.     *)
LEMMA QuietLists ==
    ASSUME ListInv, \A u \in Workers : rel[u].pc = "idle", NEW g \in Games, Created(g)
    PROVE  /\ game[g].count = Cardinality(game[g].courts)
           /\ game[g].courts = CourtsHeld(game[g].slot)
BY DEF ListInv, ListOK

LEMMA ListsWhileIdle ==
    ASSUME \A u \in Workers : rel'[u].pc = "idle",
           \A g \in Games : Created(g)' =>
              /\ game'[g].count = Cardinality(game'[g].courts)
              /\ game'[g].courts = CourtsHeld(game[g].slot)'
    PROVE  ListInv'
<1>1. \A g \in Games : ListOK(g)'
  BY DEF ListOK
<1>2. \A u \in Workers : ListFrameOK(rel[u])'
  BY DEF ListFrameOK
<1> QED BY <1>1, <1>2 DEF ListInv

LEMMA ListsUntouchedWhileIdle ==
    ASSUME ListInv, \A u \in Workers : rel[u].pc = "idle" /\ rel'[u].pc = "idle",
           match' = match, CourtsFixed
    PROVE  ListInv'
<1>1. ASSUME NEW g \in Games, Created(g)'
      PROVE  /\ game'[g].count = Cardinality(game'[g].courts)
             /\ game'[g].courts = CourtsHeld(game[g].slot)'
  <2>1. /\ game'[g].slot = game[g].slot /\ game'[g].courts = game[g].courts
        /\ game'[g].count = game[g].count
    BY DEF CourtsFixed, SlotsFixed
  <2>2. Created(g)
    BY <1>1, <2>1 DEF Created
  <2>3. CourtsHeld(game[g].slot)' = CourtsHeld(game[g].slot)
    BY <2>1, SameMatchesSameSets
  <2> QED BY <2>1, <2>2, <2>3, QuietLists
<1> QED BY <1>1, ListsWhileIdle

(* A slot that is being booked has no game yet.                            *)
LEMMA NoGameYet ==
    ASSUME Inv, Alone, OnePoll, PlanInv, NEW w \in Workers, at[w] # 0, bkg[w].pc = "book"
    PROVE  \A g \in Games : game[g].slot # bkg[w].slot
<1>1. /\ bkg[w].slot \in Slots /\ ~result[bkg[w].slot].saved
      /\ PlanOf(bkg[w], bkg[w].slot)
  <2>1. PlanFrameOK(bkg[w]) /\ BkgOK(bkg[w], w, at[w], match)
    BY PlanBefore DEF Inv
  <2> QED BY <2>1, PlanBefore DEF PlanFrameOK, BkgOK
<1>2. None \notin Games
  BY CountsAssumption DEF None
<1> QED BY <1>1, <1>2 DEF PlanOf

LEMMA BookKeepsLists ==
    ASSUME Inv, Alone, "lost" \notin FaultKinds, OnePoll, PlanInv, HeldInv, ListInv,
           NEW w \in Workers, Book(w)
    PROVE  ListInv'
<1>1. at[w] # 0 /\ BookEffect(w) /\ rel' = rel /\ \A u \in Workers : rel[u].pc = "idle"
  <2>1. at[w] # 0 /\ rel[w].pc = "idle"
    BY BookerIsAt
  <2> QED BY <2>1, DutyIsAlone, BookHasEffect DEF Book
<1>2. UNCHANGED game => CourtsFixed
  BY DEF CourtsFixed, SlotsFixed
<1>3. match' = match /\ CourtsFixed => ListInv'
  BY <1>1, ListsUntouchedWhileIdle
<1>4. CASE Reserves(w)
  <2>1. PICK s : s = bkg[w].slot
    OBVIOUS
  <2>2. PICK c \in Labels, m \in Matches :
          /\ match[m].st = "unused"
          /\ match' = [match EXCEPT ![m] = [st |-> "live", slot |-> s, court |-> c]]
    BY <1>4, <2>1 DEF Reserves
  <2>3. bkg[w].pc = "book" /\ UNCHANGED game
    BY <1>4 DEF Reserves
  <2>4. /\ match'[m].slot = s
        /\ \A n \in Matches : n # m => match'[n] = match[n]
    BY <2>2 DEF Inv, TablesOK
  <2>5. ASSUME NEW t, t # s PROVE CourtsHeld(t)' = CourtsHeld(t)
    <3>1. LiveAt(t)' = LiveAt(t)
      BY <2>2, <2>4, <2>5 DEF LiveAt, Live
    <3>2. \A n \in LiveAt(t) : match'[n] = match[n]
      BY <2>2, <2>4 DEF LiveAt, Live
    <3> QED BY <3>1, <3>2 DEF CourtsHeld
  <2>6. ASSUME NEW g \in Games, Created(g)'
        PROVE  /\ game'[g].count = Cardinality(game'[g].courts)
               /\ game'[g].courts = CourtsHeld(game[g].slot)'
    <3>1. Created(g) /\ game[g].slot # s
      BY <1>1, <2>1, <2>3, <2>6, NoGameYet DEF Created
    <3>2. CourtsHeld(game[g].slot)' = CourtsHeld(game[g].slot)
      BY <2>3, <2>5, <3>1
    <3> QED BY <1>1, <2>3, <3>1, <3>2, QuietLists
  <2> QED BY <1>1, <2>6, ListsWhileIdle
<1>5. CASE Creates(w)
  <2>1. PICK e : e = bkg[w]
    OBVIOUS
  <2>2. PICK g \in Games : game' = [game EXCEPT ![g] = NewGame(e.slot, e.got, Cardinality(e.got))]
    BY <1>5, <2>1 DEF Creates
  <2>3. e.pc = "create" /\ match' = match /\ e.got = CourtsHeld(e.slot)
    BY <1>1, <1>5, <2>1, HeldBefore DEF Creates, HeldFrameOK
  <2>4. /\ game'[g].slot = e.slot /\ game'[g].courts = e.got
        /\ game'[g].count = Cardinality(e.got)
        /\ \A h \in Games : h # g => game'[h] = game[h]
    <3>1. game'[g] = NewGame(e.slot, e.got, Cardinality(e.got))
          /\ \A h \in Games : h # g => game'[h] = game[h]
      BY <2>2 DEF Inv, RestOK
    <3> QED BY <3>1 DEF NewGame, NoGame
  <2>5. \A s : CourtsHeld(s)' = CourtsHeld(s)
    BY <2>3, SameMatchesSameSets
  <2>6. ASSUME NEW h \in Games, Created(h)'
        PROVE  /\ game'[h].count = Cardinality(game'[h].courts)
               /\ game'[h].courts = CourtsHeld(game[h].slot)'
    <3>1. CASE h = g
      <4>1. CourtsHeld(game[h].slot)' = CourtsHeld(e.slot)
        BY <2>4, <2>5, <3>1
      <4> QED BY <2>3, <2>4, <3>1, <4>1
    <3>2. CASE h # g
      <4>1. game'[h] = game[h] /\ Created(h)
        BY <2>4, <2>6, <3>2 DEF Created
      <4>2. CourtsHeld(game[h].slot)' = CourtsHeld(game[h].slot)
        BY <2>5, <4>1
      <4> QED BY <1>1, <4>1, <4>2, QuietLists
    <3> QED BY <3>1, <3>2
  <2> QED BY <1>1, <2>6, ListsWhileIdle
<1>6. CASE \/ Turn(w) \/ Lists(w) \/ StartsBooking(w) \/ Blames(w) \/ Saves(w)
           \/ SavesResult(w) \/ Links(w)
  <2>1. match' = match
    BY <1>6 DEF Turn, Lists, StartsBooking, Blames, Saves, SavesResult, Links
  <2>2. CourtsFixed
    BY <1>2, <1>6 DEF Turn, Lists, StartsBooking, Blames, Saves, SavesResult, Links
  <2> QED BY <1>3, <2>1, <2>2
<1> QED BY <1>1, <1>4, <1>5, <1>6 DEF BookEffect

LEMMA NextKeepsLists ==
    ASSUME Inv, Alone, "read" \notin FaultKinds, "lost" \notin FaultKinds, OnePoll, PlanInv,
           HeldInv, ApartInv, ListInv, [Next]_vars
    PROVE  ListInv'
<1>1. ASSUME NEW w \in Workers, Release(w) \/ Book(w) PROVE ListInv'
  BY <1>1, ReleaseKeepsLists, BookKeepsLists
<1>2. ASSUME NEW w \in Workers, Panic(w) PROVE ListInv'
  <2>1. /\ rel[w].pc \in {"begin", "count"}
        /\ \A u \in Workers : u # w => rel[u].pc = "idle"
    BY <1>2, PanicIsAlone DEF Panic, DividesByZero, Counting
  <2>2. /\ \A u \in Workers : rel'[u].pc = "idle"
        /\ match' = match /\ game' = game
    BY <1>2 DEF Panic, Restart, IdleFrame, planVars, bookVars
  <2>3. ASSUME NEW g \in Games, Created(g)'
        PROVE  /\ game'[g].count = Cardinality(game'[g].courts)
               /\ game'[g].courts = CourtsHeld(game[g].slot)'
    <3>1. ListOK(g) /\ Created(g)
      BY <2>2, <2>3 DEF ListInv, Created
    <3>2. /\ game[g].count = Cardinality(game[g].courts)
          /\ game[g].courts = CourtsHeld(game[g].slot)
      BY <2>1, <3>1 DEF ListOK
    <3>3. CourtsHeld(game[g].slot)' = CourtsHeld(game[g].slot)
      BY <2>2, SameMatchesSameSets
    <3> QED BY <2>2, <3>2, <3>3
  <2> QED BY <2>2, <2>3, ListsWhileIdle
<1>3. CASE \/ Tick \/ UNCHANGED vars
           \/ \E p \in Pollers : Poll(p)
           \/ \E g \in Games : Join(g) \/ Leave(g)
           \/ \E k \in Creds : CooldownExpires(k)
  <2>1. UNCHANGED <<match, game, rel>>
    BY <1>3 DEF Tick, vars, Poll, Join, Leave, Attend, CooldownExpires, planVars, bookVars
  <2>2. ASSUME NEW g \in Games PROVE ListOK(g)'
    <3>1. CourtsHeld(game[g].slot)' = CourtsHeld(game[g].slot)
      BY <2>1, SameMatchesSameSets
    <3>2. ListOK(g)
      BY DEF ListInv
    <3> QED BY <2>1, <3>1, <3>2 DEF ListOK, Created
  <2>3. ASSUME NEW u \in Workers PROVE ListFrameOK(rel[u])'
    <3>1. CourtsHeld(game[rel[u].g].slot)' = CourtsHeld(game[rel[u].g].slot)
      BY <2>1, SameMatchesSameSets
    <3>2. ListFrameOK(rel[u])
      BY DEF ListInv
    <3> QED BY <2>1, <3>1, <3>2 DEF ListFrameOK
  <2> QED BY <2>2, <2>3 DEF ListInv
<1> QED BY <1>1, <1>2, <1>3, NobodyAsks, NoCrash DEF Next

LEMMA InitLists == ASSUME Init PROVE ListInv
BY DEF Init, StateInit, NoGame, ReleaseInit, IdleFrame, ListInv, ListOK, ListFrameOK, Created

(* As many courts are held for a slot as reservations are live: no two of  *)
(* them are of one court.                                                  *)
LEMMA HeldAreDistinct ==
    ASSUME HeldInv, NEW s \in Slots
    PROVE  Cardinality(CourtsHeld(s)) = Cardinality(LiveAt(s))
<1> DEFINE f == [m \in LiveAt(s) |-> match[m].court]
<1>1. f \in Bijection(LiveAt(s), CourtsHeld(s))
  <2>1. \A m, n \in LiveAt(s) : match[m].court = match[n].court => m = n
    <3>1. \A m, n \in AllAt(s) : match[m].court = match[n].court => m = n
      BY DEF HeldInv, HeldOK
    <3> QED BY <3>1, LiveIsFinite
  <2>2. f \in Injection(LiveAt(s), CourtsHeld(s))
    BY <2>1 DEF Injection, IsInjective, CourtsHeld
  <2>3. f \in Surjection(LiveAt(s), CourtsHeld(s))
    BY DEF Surjection, CourtsHeld
  <2> QED BY <2>2, <2>3 DEF Bijection
<1>2. ExistsBijection(LiveAt(s), CourtsHeld(s))
  BY <1>1 DEF ExistsBijection
<1> QED BY <1>2, LiveIsFinite, FS_Bijection

LEMMA HeldAreListed ==
    ASSUME Inv, HeldInv, ListInv
    PROVE  ListedCourtsAreReserved
<1>1. ASSUME Quiet, NEW g \in Games, Created(g)
      PROVE  /\ game[g].courts = {match[m].court : m \in LiveAt(game[g].slot)}
             /\ game[g].count = Cardinality(LiveAt(game[g].slot))
  <2>1. game[g].slot \in Slots
    <3>1. game[g] \in Game
      BY DEF Inv, RestOK
    <3> QED BY <1>1, <3>1 DEF Created, Game
  <2>2. /\ game[g].count = Cardinality(game[g].courts)
        /\ game[g].courts = CourtsHeld(game[g].slot)
    BY <1>1, QuietLists DEF Quiet
  <2> QED BY <2>1, <2>2, HeldAreDistinct DEF CourtsHeld
<1> QED BY <1>1 DEF ListedCourtsAreReserved

(* Between polls a game lists what the platform holds for its slot, and    *)
(* counts it: the list that midnight wrote and the lists the releases      *)
(* wrote from the ones they had read before, whatever cancellation the     *)
(* platform refused on the way (auto_booking.go:258,                       *)
(* court_cancellation.go:44).                                              *)
THEOREM ListsMatchReservations ==
    ASSUME PollsKeepUp = TRUE, Admins = {}, MaxCrashes = 0,
           "write" \notin FaultKinds, "read" \notin FaultKinds, "lost" \notin FaultKinds
    PROVE  Spec => []ListedCourtsAreReserved
<1> DEFINE I == Inv /\ OnePoll /\ PlanInv /\ HeldInv /\ ApartInv /\ ListInv
<1>1. Init => I
  BY InitEstablishesInv, InitPlans, InitHolds, InitIsApart, InitLists
<1>2. I /\ [Next]_vars => I'
  BY NextKeepsInv, OnePollKept, NextKeepsPlan, NextKeepsHeld, NextKeepsApart, NextKeepsLists
     DEF Alone
<1>3. I => ListedCourtsAreReserved
  BY HeldAreListed
<1> QED BY <1>1, <1>2, <1>3, PTL DEF Spec

-----------------------------------------------------------------------------
(* A release leaves a seat for everybody.                                  *)

(* The reservations left of the game at hand once the selection is gone.   *)
LeftAfter(r) == Cardinality(LiveAt(game[r.g].slot)) - Cardinality(r.picks)

(* From the selection on they seat the players counted.                    *)
SeatsFrameOK(r) ==
    /\ r.pc = "idle" => r.gone = {}
    /\ r.pc \in {"cancel", "row"} \/ r.gone # {} =>
          Capacity(LeftAfter(r), PlayersPerCourt) >= r.count
SeatsInv == \A w \in Workers : SeatsFrameOK(rel[w])

LEMMA MoreCourtsMoreSeats ==
    ASSUME NEW a \in Int, NEW b \in Int, a <= b
    PROVE  /\ Capacity(a, PlayersPerCourt) \in Int /\ Capacity(b, PlayersPerCourt) \in Int
           /\ Capacity(a, PlayersPerCourt) <= Capacity(b, PlayersPerCourt)
<1>1. PICK per \in Nat : per = IF PlayersPerCourt = 0 THEN 2 ELSE PlayersPerCourt
  BY CountsAssumption
<1>2. Capacity(a, PlayersPerCourt) = a * per /\ Capacity(b, PlayersPerCourt) = b * per
  BY <1>1 DEF Capacity
<1>3. PICK d \in Nat : b = a + d
  <2>1. b - a \in Nat /\ b = a + (b - a)
    OBVIOUS
  <2> QED BY <2>1
<1>4. b * per = a * per + d * per
  BY <1>1, <1>3
<1>5. d * per \in Nat /\ a * per \in Int
  BY <1>1
<1> QED BY <1>2, <1>4, <1>5

LEMMA PicksAreFinite ==
    ASSUME NEW r \in Frame
    PROVE  /\ IsFiniteSet(r.picks) /\ Cardinality(r.picks) \in Nat /\ LeftAfter(r) \in Int
           /\ \A m \in r.picks : Cardinality(r.picks \ {m}) = Cardinality(r.picks) - 1
<1>1. IsFiniteSet(r.picks) /\ Cardinality(r.picks) \in Nat
  BY CountsAssumption, FS_Subset, FS_CardinalityType DEF Frame
<1>2. \A m \in r.picks : Cardinality(r.picks \ {m}) = Cardinality(r.picks) - 1
  BY <1>1, FS_RemoveElement
<1>3. Cardinality(LiveAt(game[r.g].slot)) \in Nat
  BY LiveIsFinite
<1> QED BY <1>1, <1>2, <1>3 DEF LeftAfter

(* The same game and count, and no fewer reservations left.                *)
LEMMA SeatsStay ==
    ASSUME NEW r \in Frame, NEW f \in Frame, SeatsFrameOK(r), f.count = r.count, f.pc # "idle",
           f.pc \in {"cancel", "row"} \/ f.gone # {} => r.pc \in {"cancel", "row"} \/ r.gone # {},
           LeftAfter(f)' \in Int, LeftAfter(f)' >= LeftAfter(r)
    PROVE  SeatsFrameOK(f)'
<1>1. LeftAfter(r) \in Int
  BY PicksAreFinite
<1>2. PICK n \in Int : n = LeftAfter(f)'
  OBVIOUS
<1>3. /\ Capacity(LeftAfter(r), PlayersPerCourt) <= Capacity(n, PlayersPerCourt)
      /\ Capacity(LeftAfter(r), PlayersPerCourt) \in Int /\ Capacity(n, PlayersPerCourt) \in Int
  BY <1>1, <1>2, MoreCourtsMoreSeats
<1>4. Capacity(n, PlayersPerCourt) = Capacity(LeftAfter(f), PlayersPerCourt)'
  BY <1>2 DEF Capacity
<1>5. r.count \in Int
  BY DEF Frame
<1> QED BY <1>3, <1>4, <1>5 DEF SeatsFrameOK

LEMMA SeatsAfter ==
    ASSUME Inv, Alone, OnePoll, SeatsInv, NEW w \in Workers, at[w] # 0,
           NEW f, rel' = [rel EXCEPT ![w] = f], SeatsFrameOK(f)'
    PROVE  SeatsInv'
<1>1. rel'[w] = f /\ \A u \in Workers : u # w => rel'[u] = rel[u]
  BY DEF Inv, RestOK
<1>2. ASSUME NEW u \in Workers, u # w PROVE SeatsFrameOK(rel[u])'
  <2>1. rel[u].pc = "idle" /\ rel[u].gone = {}
    BY <1>2, DutyIsAlone DEF SeatsInv, SeatsFrameOK
  <2> QED BY <1>1, <1>2, <2>1 DEF SeatsFrameOK
<1>3. SeatsFrameOK(rel[w])'
  BY <1>1
<1> QED BY <1>2, <1>3 DEF SeatsInv

(* The courts counted are the courts reserved, so freeing no more of them  *)
(* than are unneeded leaves seats for the players counted.                 *)
LEMMA SelectionLeavesSeats ==
    ASSUME Inv, HeldInv, ListInv, NEW w \in Workers, rel[w] \in Frame, rel[w].pc = "load",
           rel[w].g \in Games, Created(rel[w].g),
           game[rel[w].g].courts = CourtsHeld(game[rel[w].g].slot),
           Quota(w) # 0, NEW picks \in SUBSET Matches, Cardinality(picks) <= Quota(w)
    PROVE  Capacity(Cardinality(LiveAt(game[rel[w].g].slot)) - Cardinality(picks),
                    PlayersPerCourt) >= rel[w].count
<1>1. PICK g \in Games : g = rel[w].g
  OBVIOUS
<1>2. game[g].slot \in Slots
  <2>1. game[g] \in Game
    BY DEF Inv, RestOK
  <2> QED BY <1>1, <2>1 DEF Created, Game
<1>3. Cardinality(LiveAt(game[g].slot)) = Read(w).count
  <2>1. Read(w).count = game[g].count
    BY <1>1 DEF ListInv, ListFrameOK, Read
  <2>2. game[g].count = Cardinality(game[g].courts)
    BY <1>1 DEF ListInv, ListOK
  <2> QED BY <1>1, <1>2, <2>1, <2>2, HeldAreDistinct
<1>4. /\ Quota(w) \in Nat /\ rel[w].count \in Nat /\ Read(w).count \in Nat
      /\ Quota(w) <= Unneeded(rel[w].count, Read(w).count, PlayersPerCourt)
  BY QuotaIsNat
<1>5. PlayersPerCourt \in Nat
  BY CountsAssumption
<1>6. Unneeded(rel[w].count, Read(w).count, PlayersPerCourt) \in Nat
  BY <1>4, <1>5, UnneededIsNat
<1>7. Cardinality(picks) \in Nat
  BY CountsAssumption, FS_Subset, FS_CardinalityType
<1>8. /\ Unneeded(rel[w].count, Read(w).count, PlayersPerCourt) # 0
      /\ Cardinality(picks) <= Unneeded(rel[w].count, Read(w).count, PlayersPerCourt)
  BY <1>4, <1>6, <1>7
<1>9. Capacity(Read(w).count - Cardinality(picks), PlayersPerCourt) >= rel[w].count
  BY <1>4, <1>5, <1>7, <1>8, SeatsAreLeft
<1> QED BY <1>1, <1>3, <1>9

LEMMA ReleaseKeepsSeats ==
    ASSUME Inv, Alone, "read" \notin FaultKinds, "lost" \notin FaultKinds, OnePoll, PlanInv,
           HeldInv, ApartInv, ListInv, SeatsInv, NEW w \in Workers, Release(w)
    PROVE  SeatsInv'
<1>1. PICK r : r = rel[w]
  OBVIOUS
<1>2. at[w] # 0 /\ Inv' /\ ReleaseEffect(w) /\ SlotsFixed
  BY ReleaserIsAt, ReleaseStepKeepsInv, ReleaseHasEffect, ReleaseFixesSlots
<1>3. /\ r \in Frame /\ ApartFrame(r) /\ ListFrameOK(r) /\ SeatsFrameOK(r)
      /\ r.pc # "idle" => r.g \in Games
      /\ \A m \in r.picks : match[m].st # "unused"
  BY <1>1 DEF Inv, RelOK, ApartInv, ListInv, SeatsInv
<1>4. ASSUME NEW f, rel' = [rel EXCEPT ![w] = f] PROVE f \in Frame
  <2>1. rel'[w] = f
    BY <1>4 DEF Inv, RestOK
  <2> QED BY <1>2, <2>1 DEF Inv, RelOK
<1>5. ASSUME NEW f \in Frame, f.g = r.g, r.pc # "idle"
      PROVE  /\ LeftAfter(f)' \in Int
             /\ match' = match =>
                  LeftAfter(f)' = Cardinality(LiveAt(game[r.g].slot)) - Cardinality(f.picks)
             /\ \A m \in Matches :
                  match[m].st # "unused" /\ match' = [match EXCEPT ![m].st = "canceled"] =>
                  LeftAfter(f)' >= Cardinality(LiveAt(game[r.g].slot)) - 1 - Cardinality(f.picks)
  <2>1. PICK s : s = game[r.g].slot
    OBVIOUS
  <2>2. game'[f.g].slot = s
    BY <1>2, <1>3, <1>5, <2>1 DEF SlotsFixed
  <2>3. /\ IsFiniteSet(LiveAt(s)) /\ Cardinality(LiveAt(s)) \in Nat
        /\ Cardinality(f.picks) \in Nat
    BY LiveIsFinite, PicksAreFinite
  <2>4. LeftAfter(f)' = Cardinality(LiveAt(s)') - Cardinality(f.picks)
    <3>1. LiveAt(game[f.g].slot)' = LiveAt(s)'
      BY <2>2 DEF LiveAt
    <3> QED BY <3>1 DEF LeftAfter
  <2>5. match' = match => LiveAt(s)' = LiveAt(s)
    BY SameMatchesSameSets
  <2>6. ASSUME NEW m \in Matches,
               match[m].st # "unused", match' = [match EXCEPT ![m].st = "canceled"]
        PROVE  Cardinality(LiveAt(s)') >= Cardinality(LiveAt(s)) - 1
    <3>1. LiveAt(s)' = LiveAt(s) \ {m}
      BY <2>6, GivenBackSets
    <3>2. Cardinality(LiveAt(s) \ {m}) >= Cardinality(LiveAt(s)) - 1
      <4>1. CASE m \in LiveAt(s)
        <5>1. Cardinality(LiveAt(s) \ {m}) = Cardinality(LiveAt(s)) - 1
          BY <2>3, <4>1, FS_RemoveElement
        <5> QED BY <2>3, <5>1
      <4>2. CASE m \notin LiveAt(s)
        <5>1. LiveAt(s) \ {m} = LiveAt(s)
          BY <4>2
        <5> QED BY <2>3, <5>1
      <4> QED BY <4>1, <4>2
    <3> QED BY <3>1, <3>2
  <2>7. Cardinality(LiveAt(s)') \in Nat
    <3>1. LiveAt(s)' \subseteq Matches
      BY DEF LiveAt, Live
    <3> QED BY <3>1, CountsAssumption, FS_Subset, FS_CardinalityType
  <2> QED BY <2>1, <2>3, <2>4, <2>5, <2>6, <2>7
<1>6. LeftAfter(r) = Cardinality(LiveAt(game[r.g].slot)) - Cardinality(r.picks)
  BY DEF LeftAfter
<1>7. ASSUME NEW f \in Frame, rel' = [rel EXCEPT ![w] = f], f.g = r.g, f.count = r.count,
             f.pc # "idle", r.pc # "idle", match' = match, f.picks = r.picks,
             f.pc \in {"cancel", "row"} \/ f.gone # {} => r.pc \in {"cancel", "row"} \/ r.gone # {}
      PROVE  SeatsInv'
  <2>1. LeftAfter(f)' \in Int /\ LeftAfter(f)' = LeftAfter(r)
    BY <1>5, <1>6, <1>7
  <2>2. LeftAfter(f)' >= LeftAfter(r)
    BY <2>1
  <2>3. SeatsFrameOK(f)'
    BY <1>3, <1>7, <2>1, <2>2, SeatsStay
  <2> QED BY <1>2, <1>7, <2>3, SeatsAfter
<1>8. CASE Takes(w)
  <2>1. PICK f : TakesUp(w, f)
    BY <1>8 DEF Takes
  <2>2. SeatsFrameOK(f)' /\ rel' = [rel EXCEPT ![w] = f]
    BY <2>1 DEF TakesUp, SeatsFrameOK
  <2> QED BY <1>2, <2>2, SeatsAfter
<1>9. CASE MovesOn(w)
  <2>1. PICK pc \in {"count", "load", "tell", "mark", "complete", "rows"}, n \in Nat :
          /\ r.pc \in {"begin", "count"}
             \/ (r.pc \in {"load", "tell", "complete"} /\ pc \notin {"count", "load"})
          /\ n = r.count \/ r.pc \in {"begin", "count"}
          /\ rel' = [rel EXCEPT ![w] = [r EXCEPT !.pc = pc, !.count = n]]
    BY <1>1, <1>9 DEF MovesOn
  <2>2. PICK f : f = [r EXCEPT !.pc = pc, !.count = n]
    OBVIOUS
  <2>3. /\ f.pc = pc /\ f.g = r.g /\ f.gone = r.gone /\ f.count = n /\ f.picks = r.picks
        /\ f \in Frame
    BY <1>3, <1>4, <2>1, <2>2 DEF Frame
  <2>4. CASE r.pc \in {"begin", "count"}
    <3>1. f.gone = {}
      BY <1>3, <2>3, <2>4 DEF ListFrameOK
    <3>2. SeatsFrameOK(f)'
      BY <2>3, <3>1 DEF SeatsFrameOK
    <3> QED BY <1>2, <2>1, <2>2, <3>2, SeatsAfter
  <2>5. CASE r.pc \notin {"begin", "count"}
    <3>1. match' = match
      BY <1>9 DEF MovesOn
    <3> QED BY <1>7, <2>1, <2>2, <2>3, <2>5, <3>1
  <2> QED BY <2>4, <2>5
<1>10. CASE Selects(w)
  <2>1. PICK picks \in SUBSET Matches :
          /\ Cardinality(picks) <= Quota(w)
          /\ rel' = [rel EXCEPT ![w] = [r EXCEPT !.pc = "cancel", !.picks = picks]]
    BY <1>1, <1>10 DEF Selects
  <2>2. PICK f : f = [r EXCEPT !.pc = "cancel", !.picks = picks]
    OBVIOUS
  <2>3. /\ f.pc = "cancel" /\ f.g = r.g /\ f.count = r.count /\ f.picks = picks
        /\ f \in Frame
    BY <1>3, <1>4, <2>1, <2>2 DEF Frame
  <2>4. r.pc = "load" /\ Quota(w) # 0 /\ match' = match
    BY <1>1, <1>10 DEF Selects
  <2>5. r.g \in Games /\ Created(r.g) /\ game[r.g].courts = CourtsHeld(game[r.g].slot)
    <3>1. r.g \in Games /\ Created(r.g)
      BY <1>3, <2>4 DEF ApartFrame
    <3>2. ListOf(r, r.g)
      BY <1>1, <1>2, <3>1, ListBefore
    <3> QED BY <2>4, <3>1, <3>2 DEF ListOf
  <2>6. Capacity(Cardinality(LiveAt(game[r.g].slot)) - Cardinality(picks), PlayersPerCourt)
          >= r.count
    BY <1>1, <1>3, <2>1, <2>4, <2>5, SelectionLeavesSeats
  <2>7. LeftAfter(f)' = Cardinality(LiveAt(game[r.g].slot)) - Cardinality(picks)
    BY <1>5, <2>3, <2>4
  <2>8. Capacity(LeftAfter(f), PlayersPerCourt)'
          = Capacity(Cardinality(LiveAt(game[r.g].slot)) - Cardinality(picks), PlayersPerCourt)
    BY <2>7 DEF Capacity
  <2>9. SeatsFrameOK(f)'
    BY <2>3, <2>6, <2>8 DEF SeatsFrameOK
  <2> QED BY <1>2, <2>1, <2>2, <2>9, SeatsAfter
<1>11. CASE GivesBack(w)
  <2>1. PICK m \in r.picks :
          /\ match' = [match EXCEPT ![m].st = "canceled"]
          /\ rel' = [rel EXCEPT ![w] = [r EXCEPT
                !.pc = "row", !.m = m, !.picks = @ \ {m}, !.gone = @ \cup {match[m].court}]]
    BY <1>1, <1>11 DEF GivesBack
  <2>2. PICK f : f = [r EXCEPT
                !.pc = "row", !.m = m, !.picks = @ \ {m}, !.gone = @ \cup {match[m].court}]
    OBVIOUS
  <2>3. /\ f.pc = "row" /\ f.g = r.g /\ f.count = r.count /\ f.picks = r.picks \ {m}
        /\ f \in Frame /\ r.pc = "cancel" /\ m \in Matches
    BY <1>1, <1>3, <1>4, <1>11, <2>1, <2>2 DEF Frame, GivesBack
  <2>4. /\ LeftAfter(f)' \in Int
        /\ LeftAfter(f)' >= Cardinality(LiveAt(game[r.g].slot)) - 1 - Cardinality(f.picks)
    BY <1>3, <1>5, <2>1, <2>3
  <2>5. Cardinality(f.picks) = Cardinality(r.picks) - 1 /\ Cardinality(r.picks) \in Nat
    BY <1>3, <2>1, <2>3, PicksAreFinite
  <2>6. Cardinality(LiveAt(game[r.g].slot)) \in Nat
    BY LiveIsFinite
  <2>7. LeftAfter(f)' >= LeftAfter(r)
    BY <1>6, <2>4, <2>5, <2>6
  <2>8. SeatsFrameOK(f)'
    BY <1>3, <2>3, <2>4, <2>7, SeatsStay
  <2> QED BY <1>2, <2>1, <2>2, <2>8, SeatsAfter
<1>12. CASE LeavesOut(w)
  <2>1. PICK m \in r.picks : rel' = [rel EXCEPT ![w] = [r EXCEPT !.picks = @ \ {m}]]
    BY <1>1, <1>12 DEF LeavesOut
  <2>2. PICK f : f = [r EXCEPT !.picks = @ \ {m}]
    OBVIOUS
  <2>3. /\ f.pc = "cancel" /\ f.g = r.g /\ f.count = r.count /\ f.picks = r.picks \ {m}
        /\ f \in Frame /\ r.pc = "cancel" /\ match' = match
    BY <1>1, <1>3, <1>4, <1>12, <2>1, <2>2 DEF Frame, LeavesOut
  <2>4. /\ LeftAfter(f)' \in Int
        /\ LeftAfter(f)' = Cardinality(LiveAt(game[r.g].slot)) - Cardinality(f.picks)
    BY <1>5, <2>3
  <2>5. Cardinality(f.picks) = Cardinality(r.picks) - 1 /\ Cardinality(r.picks) \in Nat
    BY <1>3, <2>1, <2>3, PicksAreFinite
  <2>6. Cardinality(LiveAt(game[r.g].slot)) \in Nat
    BY LiveIsFinite
  <2>7. LeftAfter(f)' >= LeftAfter(r)
    BY <1>6, <2>4, <2>5, <2>6
  <2>8. SeatsFrameOK(f)'
    BY <1>3, <2>3, <2>4, <2>7, SeatsStay
  <2> QED BY <1>2, <2>1, <2>2, <2>8, SeatsAfter
<1>13. CASE Marks(w)
  <2>1. /\ r.pc = "row" /\ match' = match
        /\ rel' = [rel EXCEPT ![w] = [r EXCEPT !.pc = "cancel", !.m = None]]
    BY <1>1, <1>13 DEF Marks
  <2>2. PICK f : f = [r EXCEPT !.pc = "cancel", !.m = None]
    OBVIOUS
  <2>3. /\ f.pc = "cancel" /\ f.g = r.g /\ f.count = r.count /\ f.picks = r.picks /\ f \in Frame
    BY <1>3, <1>4, <2>1, <2>2 DEF Frame
  <2> QED BY <1>7, <2>1, <2>2, <2>3
<1>14. CASE Persists(w)
  <2>1. PICK pc \in {"tell", "mark"} : rel' = [rel EXCEPT ![w] = [r EXCEPT !.pc = pc]]
    BY <1>1, <1>14 DEF Persists
  <2>2. PICK f : f = [r EXCEPT !.pc = pc]
    OBVIOUS
  <2>3. /\ f.pc = pc /\ f.g = r.g /\ f.count = r.count /\ f.picks = r.picks /\ f \in Frame
    BY <1>3, <1>4, <2>1, <2>2 DEF Frame
  <2>4. match' = match /\ r.pc = "cancel"
    BY <1>1, <1>14 DEF Persists
  <2> QED BY <1>7, <2>1, <2>2, <2>3, <2>4
<1> QED BY <1>2, <1>8, <1>9, <1>10, <1>11, <1>12, <1>13, <1>14 DEF ReleaseEffect

(* Where the frames have given nothing back, there is nothing to keep.     *)
LEMMA NothingGone ==
    ASSUME \A u \in Workers : rel'[u].pc = "idle" /\ rel'[u].gone = {}
    PROVE  SeatsInv'
BY DEF SeatsInv, SeatsFrameOK

LEMMA NextKeepsSeats ==
    ASSUME Inv, Alone, "read" \notin FaultKinds, "lost" \notin FaultKinds, OnePoll, PlanInv,
           HeldInv, ApartInv, ListInv, SeatsInv, [Next]_vars
    PROVE  SeatsInv'
<1>1. ASSUME NEW w \in Workers, Release(w) PROVE SeatsInv'
  BY <1>1, ReleaseKeepsSeats
<1>2. ASSUME NEW w \in Workers, Book(w) PROVE SeatsInv'
  <2>1. rel' = rel /\ \A u \in Workers : rel[u].pc = "idle"
    <3>1. at[w] # 0 /\ rel[w].pc = "idle"
      BY <1>2, BookerIsAt
    <3> QED BY <1>2, <3>1, DutyIsAlone DEF Book
  <2>2. \A u \in Workers : rel[u].gone = {}
    BY <2>1 DEF SeatsInv, SeatsFrameOK
  <2> QED BY <2>1, <2>2, NothingGone
<1>3. ASSUME NEW w \in Workers, Panic(w) PROVE SeatsInv'
  <2>1. \A u \in Workers : rel'[u].pc = "idle" /\ rel'[u].gone = {}
    BY <1>3 DEF Panic, Restart, IdleFrame
  <2> QED BY <2>1, NothingGone
<1>4. CASE \/ Tick \/ UNCHANGED vars
           \/ \E p \in Pollers : Poll(p)
           \/ \E g \in Games : Join(g) \/ Leave(g)
           \/ \E k \in Creds : CooldownExpires(k)
  <2>1. UNCHANGED <<match, game, rel>>
    BY <1>4 DEF Tick, vars, Poll, Join, Leave, Attend, CooldownExpires, planVars, bookVars
  <2> QED BY <2>1 DEF SeatsInv, SeatsFrameOK, LeftAfter, LiveAt, Live
<1> QED BY <1>1, <1>2, <1>3, <1>4, NobodyAsks, NoCrash DEF Next

LEMMA InitSeats == ASSUME Init PROVE SeatsInv
BY DEF Init, ReleaseInit, IdleFrame, SeatsInv, SeatsFrameOK

LEMMA SeatsAreKept ==
    ASSUME Inv, Alone, OnePoll, ApartInv, SeatsInv
    PROVE  SeatsKept
<1>1. ASSUME NEW p \in Pollers, rel[p].gone # {}
      PROVE  SeatsAt(rel[p].g) >= rel[p].count
  <2>1. PICK r : r = rel[p]
    OBVIOUS
  <2>2. p \in Workers /\ r \in Frame /\ SeatsFrameOK(r)
    BY <2>1 DEF Workers, Inv, RelOK, SeatsInv
  <2>3. Capacity(LeftAfter(r), PlayersPerCourt) >= r.count
    BY <1>1, <2>1, <2>2 DEF SeatsFrameOK
  <2>4. PICK live \in Nat : live = Cardinality(LiveAt(game[r.g].slot))
    BY LiveIsFinite
  <2>5. LeftAfter(r) \in Int /\ LeftAfter(r) <= live
    BY <2>2, <2>4, PicksAreFinite DEF LeftAfter
  <2>6. /\ Capacity(LeftAfter(r), PlayersPerCourt) <= Capacity(live, PlayersPerCourt)
        /\ Capacity(LeftAfter(r), PlayersPerCourt) \in Int
        /\ Capacity(live, PlayersPerCourt) \in Int
    BY <2>5, MoreCourtsMoreSeats
  <2>7. r.count \in Nat
    BY <2>2 DEF Frame
  <2> QED BY <2>1, <2>3, <2>4, <2>6, <2>7 DEF SeatsAt
<1> QED BY <1>1 DEF SeatsKept

(* A job that gave a court back left seats for every player it counted:    *)
(* the count it divided by is what the platform held, the selection is no  *)
(* larger than the number it computed, and every step that gives a court   *)
(* back takes one off the selection (court_cancellation.go:44,             *)
(* cancellation_reminder.go:121).                                          *)
THEOREM ReleasesLeaveSeats ==
    ASSUME PollsKeepUp = TRUE, Admins = {}, MaxCrashes = 0,
           "write" \notin FaultKinds, "read" \notin FaultKinds, "lost" \notin FaultKinds
    PROVE  Spec => []SeatsKept
<1> DEFINE I == Inv /\ OnePoll /\ PlanInv /\ HeldInv /\ ApartInv /\ ListInv /\ SeatsInv
<1>1. Init => I
  BY InitEstablishesInv, InitPlans, InitHolds, InitIsApart, InitLists, InitSeats
<1>2. I /\ [Next]_vars => I'
  BY NextKeepsInv, OnePollKept, NextKeepsPlan, NextKeepsHeld, NextKeepsApart, NextKeepsLists,
     NextKeepsSeats DEF Alone
<1>3. I => SeatsKept
  BY SeatsAreKept DEF Alone
<1> QED BY <1>1, <1>2, <1>3, PTL DEF Spec

-----------------------------------------------------------------------------
(* Half of what was booked stays until the reminder or the final check.    *)

(* Neither of the two is due for slot s.                                   *)
Early(s) == now < ReminderAt(s) /\ now < FinalAt(s)

(* What the halfway check has to leave of the courts booked for it.        *)
Wanted(s) == Cardinality(result[s].courts) - Cardinality(result[s].courts) \div 2

(* The poll on frame r tells the group only in the reminder's job, checks  *)
(* at halfway no game it has checked before, and is at the reminder or the *)
(* final check of no game for which neither is due.                        *)
JobOK(w, r) ==
    r.pc # "idle" =>
        /\ r.pc = "tell" => AtJob(w, "reminder")
        /\ AtJob(w, "halfway") => \A h \in r.todo : ~game[h].halfway
        /\ AtJob(w, "reminder") \/ AtJob(w, "final") => \A h \in r.todo : ~Early(game[h].slot)
JobInv == \A w \in Workers : JobOK(w, rel[w])

(* A halfway check that is giving courts back, or has yet to be marked.    *)
Halving(w, r, g) == AtJob(w, "halfway") /\ r.g = g /\ r.pc \in {"cancel", "row", "mark"}

(* Before the two are due, a slot has all the courts booked for it, or it  *)
(* has been through its halfway check and has enough of them.              *)
HalfOK(s) ==
    result[s].saved /\ Early(s) =>
        \/ Cardinality(LiveAt(s)) = Cardinality(result[s].courts)
        \/ /\ Cardinality(LiveAt(s)) >= Wanted(s)
           /\ \E g \in Games : game[g].slot = s /\
                 (game[g].halfway \/ \E w \in Workers : Halving(w, rel[w], g))

(* The selection of a halfway check leaves enough.                         *)
HalfFrameOK(w, r) ==
    AtJob(w, "halfway") /\ r.pc \in {"cancel", "row"} /\ Early(game[r.g].slot) =>
        LeftAfter(r) >= Wanted(game[r.g].slot)

HalfInv ==
    /\ \A s \in Slots : HalfOK(s)
    /\ \A w \in Workers : HalfFrameOK(w, rel[w])

(* HalfOK where nobody but the worker w, on frame r, gives courts back.    *)
HalfOf(w, r, s) ==
    result[s].saved /\ Early(s) =>
        \/ Cardinality(LiveAt(s)) = Cardinality(result[s].courts)
        \/ /\ Cardinality(LiveAt(s)) >= Wanted(s)
           /\ \E g \in Games : game[g].slot = s /\ (game[g].halfway \/ Halving(w, r, g))

LEMMA HalfBefore ==
    ASSUME Inv, Alone, OnePoll, HalfInv, NEW w \in Workers, at[w] # 0
    PROVE  HalfFrameOK(w, rel[w]) /\ \A s \in Slots : HalfOf(w, rel[w], s)
<1>1. \A u \in Workers : u # w => rel[u].pc = "idle"
  BY DutyIsAlone
<1>2. ASSUME NEW s \in Slots PROVE HalfOf(w, rel[w], s)
  <2>1. HalfOK(s)
    BY DEF HalfInv
  <2>2. \A u \in Workers, g \in Games : Halving(u, rel[u], g) => u = w
    BY <1>1 DEF Halving
  <2> QED BY <2>1, <2>2 DEF HalfOK, HalfOf
<1> QED BY <1>2 DEF HalfInv

LEMMA HalfAfter ==
    ASSUME Inv, Alone, OnePoll, NEW w \in Workers, at[w] # 0,
           NEW f, rel' = [rel EXCEPT ![w] = f], HalfFrameOK(w, f)',
           \A s \in Slots : HalfOf(w, f, s)'
    PROVE  HalfInv'
<1>1. rel'[w] = f
  BY DEF Inv, RestOK
<1>2. \A u \in Workers : u # w => rel'[u] = rel[u] /\ rel[u].pc = "idle"
  BY DutyIsAlone DEF Inv, RestOK
<1>3. ASSUME NEW s \in Slots PROVE HalfOK(s)'
  <2>1. HalfOf(w, f, s)'
    OBVIOUS
  <2>2. \A g \in Games : Halving(w, f, g)' => Halving(w, rel[w], g)'
    BY <1>1 DEF Halving
  <2> QED BY <2>1, <2>2 DEF HalfOK, HalfOf
<1>4. ASSUME NEW u \in Workers PROVE HalfFrameOK(u, rel[u])'
  <2>1. CASE u = w
    BY <1>1, <2>1 DEF HalfFrameOK, LeftAfter
  <2>2. CASE u # w
    BY <1>2, <2>2 DEF HalfFrameOK
  <2> QED BY <2>1, <2>2
<1> QED BY <1>3, <1>4 DEF HalfInv

(* A booking step takes no mark off a game.                                *)
LEMMA BookKeepsMarks ==
    ASSUME Inv, Alone, NEW w \in Workers, Book(w)
    PROVE  \A g \in Games : Created(g) =>
              game'[g].slot = game[g].slot /\ game'[g].halfway = game[g].halfway
<1>1. w \in Pollers /\ w \notin Admins /\ game \in [Games -> Game]
  BY BookerIsAt DEF Inv, RestOK
<1>2. ASSUME NEW g \in Games, Publish(g)
      PROVE  \A h \in Games : game'[h].slot = game[h].slot /\ game'[h].halfway = game[h].halfway
  <2>1. game'[g] = [game[g] EXCEPT !.published = TRUE]
        /\ \A h \in Games : h # g => game'[h] = game[h]
    BY <1>1, <1>2 DEF Publish
  <2>2. game[g] \in Game
    BY <1>1
  <2>3. game'[g].slot = game[g].slot /\ game'[g].halfway = game[g].halfway
    BY <2>1, <2>2 DEF Game
  <2> QED BY <2>1, <2>3
<1>3. ASSUME NEW g, g \notin Games, Publish(g) PROVE game' = game
  BY <1>1, <1>3 DEF Publish
<1>4. CASE CreateGame(w)
  <2>1. \/ UNCHANGED game
        \/ \E g \in FreshGames : \E r : game' = [game EXCEPT ![g] = r]
    BY <1>4 DEF CreateGame
  <2> QED BY <1>1, <2>1 DEF FreshGames
<1>5. CASE AnnounceResult(w) \/ PostNewGame(w)
  <2>1. UNCHANGED game \/ \E g : Publish(g)
    BY <1>5 DEF AnnounceResult, PostNewGame
  <2> QED BY <1>2, <1>3, <2>1
<1>6. ASSUME ~CreateGame(w), ~AnnounceResult(w), ~PostNewGame(w) PROVE game' = game
  BY <1>1, <1>6 DEF Book, BookingStep, StartAutoBooking, DedupSlot, ListFree, BookCourt,
         SaveBooking, NothingBooked, AppendCourts, SaveResult, KeepResult, LinkResult,
         StartBookingReminder, StampReminder, Refuse, planVars
<1> QED BY <1>4, <1>5, <1>6

(* Where the poll is after a release step: at the same job, or idle.       *)
LEMMA ReleaseStaysAtJob ==
    ASSUME Inv, Alone, NEW w \in Workers, Release(w)
    PROVE  UNCHANGED now /\ (at' = at \/ rel'[w] = IdleFrame)
<1>1. w \notin Admins /\ rel \in [Workers -> Frame]
  BY ReleaserIsAt DEF Inv, RestOK, RelOK
<1>2. ASSUME NEW todo, NEW snap, NEW t, Proceed(w, todo, snap, t)
      PROVE  at' = at \/ rel'[w] = IdleFrame
  BY <1>1, <1>2 DEF Proceed
<1>3. ASSUME NextGame(w) PROVE at' = at \/ rel'[w] = IdleFrame
  BY <1>2, <1>3 DEF NextGame
<1>4. ASSUME \/ QueryGames(w) \/ BeginHalfway(w) \/ CountPlayers(w) \/ SendReminder(w)
             \/ MarkDone(w) \/ CloseMessage(w) \/ CompleteGame(w) \/ CloseRows(w)
      PROVE  at' = at \/ rel'[w] = IdleFrame
  BY <1>2, <1>3, <1>4 DEF QueryGames, BeginHalfway, CountPlayers, SendReminder, MarkDone,
         CloseMessage, CompleteGame, CloseRows
<1>5. ASSUME LoadBookings(w) \/ CancelCourt(w) \/ MarkRow(w) \/ PersistCourts(w)
      PROVE  at' = at
  BY <1>5 DEF LoadBookings, CancelCourt, MarkRow, PersistCourts
<1> QED BY <1>1, <1>4, <1>5 DEF Release, ReleaseStep, LoadRemoved, PersistRemoval, clockVars

(* The marks a release step sets: none but those of the game at hand, and  *)
(* at halfway the check's own, at the step that ends it.                   *)
LEMMA ReleaseMarks ==
    ASSUME Inv, Alone, NEW w \in Workers, Release(w)
    PROVE  /\ \A g \in Games : game[g].halfway => game'[g].halfway
           /\ \A g \in Games : g # rel[w].g \/ rel[w].pc # "mark" =>
                 game'[g].halfway = game[g].halfway
           /\ rel[w].pc = "mark" /\ AtJob(w, "halfway") => game'[rel[w].g].halfway
<1>1. w \notin Admins /\ w \in Pollers
  BY ReleaserIsAt
<1>2. game \in [Games -> Game] /\ RelOK(rel[w], w, at[w], now, match)
  BY DEF Inv, RestOK
<1>3. ~Fails("write") /\ (rel[w].pc # "idle" => rel[w].g \in Games)
  BY <1>2 DEF Fails, Alone, RelOK
<1>4. CASE PersistCourts(w)
  <2>1. PICK kept : UNCHANGED game \/ UpdateCourts(rel[w].g, kept, Cardinality(kept))
    BY <1>4 DEF PersistCourts
  <2>2. rel[w].pc = "cancel" /\ rel[w].g \in Games
    BY <1>3, <1>4 DEF PersistCourts
  <2>3. PICK g \in Games : g = rel[w].g
    BY <2>2
  <2>4. CASE UpdateCourts(g, kept, Cardinality(kept))
    <3>1. game'[g] = [game[g] EXCEPT !.courts = kept, !.count = Cardinality(kept)]
          /\ \A h \in Games : h # g => game'[h] = game[h]
      BY <1>2, <2>4 DEF UpdateCourts
    <3>2. game[g] \in Game
      BY <1>2
    <3>3. game'[g].halfway = game[g].halfway
      BY <3>1, <3>2 DEF Game
    <3> QED BY <2>2, <3>1, <3>3
  <2> QED BY <2>1, <2>2, <2>3, <2>4
<1>5. CASE MarkDone(w)
  <2>1. PICK g \in Games : g = rel[w].g
    BY <1>3, <1>5 DEF MarkDone
  <2>2. AtJob(w, "reminder") \/ AtJob(w, "halfway") \/ AtJob(w, "final")
    BY <1>1, <1>2, <1>5 DEF RelOK, AtJob, ReleaseJobs, MarkDone
  <2>3. PICK new : new = Marked(w, game[g])
    OBVIOUS
  <2>4. (game[g].halfway => new.halfway) /\ (AtJob(w, "halfway") => new.halfway)
    <3>1. game[g] \in Game
      BY <1>2
    <3>2. CASE AtJob(w, "halfway")
      <4>1. ~AtJob(w, "reminder")
        BY <3>2 DEF AtJob
      <4>2. new = [game[g] EXCEPT !.halfway = TRUE]
        BY <2>3, <3>2, <4>1 DEF Marked, AtJob
      <4> QED BY <3>1, <4>2 DEF Game
    <3>3. CASE ~AtJob(w, "halfway")
      <4>1. new = [game[g] EXCEPT !.notified = TRUE] \/ new = [game[g] EXCEPT !.final = TRUE]
        BY <2>2, <2>3, <3>3 DEF Marked, AtJob
      <4> QED BY <3>1, <3>3, <4>1 DEF Game
    <3> QED BY <3>2, <3>3
  <2>5. game' = [game EXCEPT ![g] = new]
    BY <1>3, <1>5, <2>1, <2>3 DEF MarkDone
  <2>6. game'[g] = new /\ \A h \in Games : h # g => game'[h] = game[h]
    BY <1>2, <2>5
  <2>7. rel[w].pc = "mark"
    BY <1>5 DEF MarkDone
  <2> QED BY <2>1, <2>4, <2>6, <2>7
<1>6. CASE CompleteGame(w)
  <2>1. PICK g \in Games : g = rel[w].g
    BY <1>3, <1>6 DEF CompleteGame
  <2>2. game' = [game EXCEPT ![g].completed = TRUE] /\ rel[w].pc = "complete"
    BY <1>3, <1>6, <2>1 DEF CompleteGame
  <2>3. game'[g] = [game[g] EXCEPT !.completed = TRUE]
        /\ \A h \in Games : h # g => game'[h] = game[h]
    BY <1>2, <2>2
  <2>4. game[g] \in Game
    BY <1>2
  <2>5. game'[g].halfway = game[g].halfway
    BY <2>3, <2>4 DEF Game
  <2> QED BY <2>2, <2>3, <2>5
<1>7. ASSUME ~PersistCourts(w), ~MarkDone(w), ~CompleteGame(w)
      PROVE  game' = game /\ ~(rel[w].pc = "mark" /\ AtJob(w, "halfway"))
  <2>1. \/ QueryGames(w) \/ BeginHalfway(w) \/ CountPlayers(w) \/ LoadBookings(w)
        \/ CancelCourt(w) \/ MarkRow(w) \/ SendReminder(w) \/ CloseMessage(w) \/ CloseRows(w)
    BY <1>1, <1>7 DEF Release, ReleaseStep, LoadRemoved, PersistRemoval
  <2>2. game' = game
    BY <2>1 DEF QueryGames, BeginHalfway, CountPlayers,
         LoadBookings, CancelCourt, MarkRow, SendReminder, CloseMessage, CloseRows
  <2>3. rel[w].pc # "mark"
    BY <2>1 DEF QueryGames, BeginHalfway, CountPlayers, Counting,
         LoadBookings, CancelCourt, MarkRow, SendReminder, CloseMessage, CloseRows
  <2> QED BY <2>2, <2>3
<1> QED BY <1>4, <1>5, <1>6, <1>7

(* The lists the reminder and the final check work from are of games they  *)
(* are due for.                                                            *)
LEMMA DueIsNotEarly ==
    ASSUME Inv, PollWindow = 0, NEW job \in ReleaseJobs, NEW g \in Due(job)
    PROVE  /\ job = "halfway" => ~game[g].halfway
           /\ job \in {"reminder", "final"} => ~Early(game[g].slot)
<1>1. CASE job = "halfway"
  BY <1>1 DEF Due
<1>2. ASSUME job \in {"reminder", "final"} PROVE ~Early(game[g].slot)
  <2>1. g \in Games /\ Created(g)
    BY <1>2 DEF Due, Upcoming
  <2>2. game[g].slot \in Slots
    <3>1. game[g] \in Game
      BY <2>1 DEF Inv, RestOK
    <3> QED BY <2>1, <3>1 DEF Created, Game
  <2>3. ReminderAt(game[g].slot) \in Int /\ FinalAt(game[g].slot) \in Int /\ now \in Int
    <3>1. StartAt[game[g].slot] \in Nat /\ Grace \in Nat /\ ReminderLead \in Nat
          /\ FinalLead \in Nat
      BY <2>2, TimeAssumption
    <3>2. now \in Nat
      BY DEF Inv, RestOK, TablesOK
    <3> QED BY <3>1, <3>2 DEF ReminderAt, FinalAt, Deadline
  <2>4. \/ Near(ReminderAt(game[g].slot)) \/ Near(FinalAt(game[g].slot))
    BY <1>2 DEF Due
  <2>5. now = ReminderAt(game[g].slot) \/ now = FinalAt(game[g].slot)
    BY <2>3, <2>4 DEF Near
  <2> QED BY <2>3, <2>5 DEF Early
<1> QED BY <1>1, <1>2

(* The list a release works from after a step: a new one of the job's, or  *)
(* what is left of the one it had.                                         *)
LEMMA ReleaseWorksOff ==
    ASSUME Inv, Alone, NEW w \in Workers, Release(w), rel'[w].pc # "idle"
    PROVE  \/ /\ rel'[w].pc = "begin" /\ game' = game
              /\ \E job \in ReleaseJobs : AtJob(w, job) /\ rel'[w].todo \subseteq Due(job)
           \/ /\ rel[w].pc # "idle" /\ rel'[w].todo \subseteq rel[w].todo
              /\ rel[w].pc = "mark" => rel[w].g \notin rel'[w].todo
              /\ rel'[w].pc = "tell" => AtJob(w, "reminder")
<1>1. PICK r : r = rel[w]
  OBVIOUS
<1>2. w \notin Admins /\ r \in Frame /\ ~Fails("write")
  BY <1>1, ReleaserIsAt DEF Inv, RelOK, Alone, Fails
<1>3. \A f : rel' = [rel EXCEPT ![w] = f] => rel'[w] = f
  BY DEF Inv, RestOK
<1>4. ASSUME NEW todo, NEW snap, NEW t, Proceed(w, todo, snap, t)
      PROVE  rel'[w].pc = "begin" /\ rel'[w].todo = todo
  <2>1. todo # {}
    <3>1. SUFFICES ASSUME todo = {} PROVE FALSE
      OBVIOUS
    <3>2. rel' = [rel EXCEPT ![w] = IdleFrame]
      BY <1>4, <3>1 DEF Proceed
    <3>3. rel'[w] = IdleFrame
      BY <1>3, <3>2
    <3> QED BY <3>3 DEF IdleFrame
  <2>2. PICK g \in todo : rel' = [rel EXCEPT ![w] = [IdleFrame EXCEPT
                            !.pc = "begin", !.todo = todo, !.snap = snap, !.t = t, !.g = g]]
    BY <1>4, <2>1 DEF Proceed
  <2>3. rel'[w] = [IdleFrame EXCEPT !.pc = "begin", !.todo = todo, !.snap = snap, !.t = t, !.g = g]
    BY <1>3, <2>2
  <2> QED BY <2>3 DEF IdleFrame
<1>5. ASSUME NextGame(w) PROVE rel'[w].pc = "begin" /\ rel'[w].todo = r.todo \ {r.g}
  BY <1>1, <1>4, <1>5 DEF NextGame
<1>6. ASSUME NEW pc, Goto(w, pc) PROVE rel'[w].pc = pc /\ rel'[w].todo = r.todo
  <2>1. rel'[w] = [r EXCEPT !.pc = pc]
    BY <1>1, <1>3, <1>6 DEF Goto
  <2> QED BY <1>2, <2>1 DEF Frame
<1>7. CASE QueryGames(w)
  <2>1. PICK job \in ReleaseJobs :
          AtJob(w, job) /\ (Proceed(w, Due(job), game, now) \/ Proceed(w, {}, game, now))
    BY <1>7 DEF QueryGames
  <2>2. rel'[w].pc = "begin" /\ rel'[w].todo \subseteq Due(job) /\ game' = game
    BY <1>4, <1>7, <2>1 DEF QueryGames
  <2> QED BY <2>1, <2>2
<1>8. CASE BeginHalfway(w)
  <2>1. r.pc = "begin" /\ (NextGame(w) \/ Goto(w, "mark") \/ Goto(w, "count"))
    BY <1>1, <1>8 DEF BeginHalfway
  <2> QED BY <1>1, <1>5, <1>6, <2>1
<1>9. CASE CountPlayers(w)
  <2>1. r.pc \in {"begin", "count"}
    BY <1>1, <1>9 DEF CountPlayers, Counting
  <2>2. CASE NextGame(w)
    BY <1>1, <1>5, <2>1, <2>2
  <2>3. CASE rel' = [rel EXCEPT ![w].pc = "load", ![w].count = players[rel[w].g]]
    <3>1. rel' = [rel EXCEPT ![w] = [r EXCEPT !.pc = "load", !.count = players[rel[w].g]]]
      BY <1>1, <2>3
    <3>2. rel'[w] = [r EXCEPT !.pc = "load", !.count = players[rel[w].g]]
      BY <1>3, <3>1
    <3>3. rel'[w].pc = "load" /\ rel'[w].todo = r.todo
      BY <1>2, <3>2 DEF Frame
    <3> QED BY <1>1, <2>1, <3>3
  <2> QED BY <1>9, <2>2, <2>3 DEF CountPlayers
<1>10. CASE LoadBookings(w)
  <2>1. r.pc = "load"
    BY <1>1, <1>10 DEF LoadBookings
  <2>2. CASE Goto(w, AfterRelease(w))
    BY <1>1, <1>6, <2>1, <2>2 DEF AfterRelease
  <2>3. CASE \E p : rel' = [rel EXCEPT ![w].pc = "cancel", ![w].picks = p]
    <3>1. PICK p : rel' = [rel EXCEPT ![w] = [r EXCEPT !.pc = "cancel", !.picks = p]]
      BY <1>1, <2>3
    <3>2. rel'[w] = [r EXCEPT !.pc = "cancel", !.picks = p]
      BY <1>3, <3>1
    <3>3. rel'[w].pc = "cancel" /\ rel'[w].todo = r.todo
      BY <1>2, <3>2 DEF Frame
    <3> QED BY <1>1, <2>1, <3>3
  <2> QED BY <1>10, <2>2, <2>3 DEF LoadBookings
<1>11. CASE CancelCourt(w)
  <2>1. PICK m \in rel[w].picks :
          \/ rel' = [rel EXCEPT ![w].pc = "row", ![w].m = m, ![w].picks = @ \ {m},
                                ![w].gone = @ \cup {match[m].court}]
          \/ rel' = [rel EXCEPT ![w].picks = @ \ {m}]
    BY <1>11 DEF CancelCourt
  <2>2. \/ rel' = [rel EXCEPT ![w] = [r EXCEPT !.pc = "row", !.m = m, !.picks = @ \ {m},
                                               !.gone = @ \cup {match[m].court}]]
        \/ rel' = [rel EXCEPT ![w] = [r EXCEPT !.picks = @ \ {m}]]
    BY <1>1, <2>1
  <2>3. \/ rel'[w] = [r EXCEPT !.pc = "row", !.m = m, !.picks = @ \ {m},
                               !.gone = @ \cup {match[m].court}]
        \/ rel'[w] = [r EXCEPT !.picks = @ \ {m}]
    BY <1>3, <2>2
  <2>4. r.pc = "cancel"
    BY <1>1, <1>11 DEF CancelCourt
  <2>5. rel'[w].pc \in {"cancel", "row"} /\ rel'[w].todo = r.todo
    BY <1>2, <2>3, <2>4 DEF Frame
  <2> QED BY <1>1, <2>4, <2>5
<1>12. CASE MarkRow(w)
  <2>1. rel' = [rel EXCEPT ![w] = [r EXCEPT !.pc = "cancel", !.m = None]] /\ r.pc = "row"
    BY <1>1, <1>12 DEF MarkRow
  <2>2. rel'[w] = [r EXCEPT !.pc = "cancel", !.m = None]
    BY <1>3, <2>1
  <2>3. rel'[w].pc = "cancel" /\ rel'[w].todo = r.todo
    BY <1>2, <2>2 DEF Frame
  <2> QED BY <1>1, <2>1, <2>3
<1>13. CASE PersistCourts(w)
  <2>1. r.pc = "cancel" /\ Goto(w, AfterRelease(w))
    BY <1>1, <1>13 DEF PersistCourts
  <2> QED BY <1>1, <1>6, <2>1 DEF AfterRelease
<1>14. CASE SendReminder(w) \/ MarkDone(w) \/ CloseMessage(w) \/ CompleteGame(w) \/ CloseRows(w)
  <2>1. r.pc # "idle"
    BY <1>1, <1>14 DEF SendReminder, MarkDone, CloseMessage, CompleteGame, CloseRows
  <2>2. NextGame(w) \/ (r.pc # "mark" /\ \E pc \in {"mark", "complete", "rows"} : Goto(w, pc))
    BY <1>1, <1>14 DEF SendReminder, MarkDone, CloseMessage, CompleteGame, CloseRows
  <2> QED BY <1>1, <1>5, <1>6, <2>1, <2>2
<1> QED BY <1>2, <1>7, <1>8, <1>9, <1>10, <1>11, <1>12, <1>13, <1>14
        DEF Release, ReleaseStep, LoadRemoved, PersistRemoval

LEMMA OthersRest ==
    ASSUME Inv, Alone, OnePoll, NEW w \in Workers, Release(w)
    PROVE  \A u \in Workers : u # w => rel'[u].pc = "idle"
<1>1. at[w] # 0 /\ Inv' /\ Workers = Pollers /\ 0 \notin DOMAIN Jobs
  BY ReleaserIsAt, ReleaseStepKeepsInv, WorkersAssumption DEF Workers, Alone
<1>2. ASSUME NEW u \in Workers, u # w PROVE at'[u] = 0
  BY <1>1, <1>2, DutyIsAlone, FlowsMoveOwnPoll
<1> QED BY <1>1, <1>2 DEF Inv, RelOK

LEMMA ReleaseKeepsJob ==
    ASSUME Inv, Alone, PollWindow = 0, OnePoll, JobInv, NEW w \in Workers, Release(w)
    PROVE  JobInv'
<1>1. PICK r : r = rel[w]
  OBVIOUS
<1>2. PICK f : f = rel'[w]
  OBVIOUS
<1>3. /\ Inv' /\ now' = now /\ SlotsFixed /\ r.todo \subseteq Games /\ f.todo \subseteq Games
      /\ f.pc # "idle" => at' = at
  <2>1. Inv' /\ now' = now /\ SlotsFixed /\ (at' = at \/ rel'[w] = IdleFrame)
    BY ReleaseStepKeepsInv, ReleaseStaysAtJob, ReleaseFixesSlots
  <2>2. IdleFrame.pc = "idle"
    BY DEF IdleFrame
  <2> QED BY <1>1, <1>2, <2>1, <2>2 DEF Inv, RelOK, Frame
<1>4. \A h \in Games : Early(game[h].slot)' <=> Early(game[h].slot)
  BY <1>3 DEF Early, ReminderAt, FinalAt, Deadline, SlotsFixed
<1>5. JobOK(w, f)'
  <2>1. SUFFICES ASSUME f.pc # "idle"
                 PROVE  /\ f.pc = "tell" => AtJob(w, "reminder")
                        /\ AtJob(w, "halfway") => \A h \in f.todo : ~game'[h].halfway
                        /\ AtJob(w, "reminder") \/ AtJob(w, "final") =>
                              \A h \in f.todo : ~Early(game[h].slot)
    BY <1>3, <1>4 DEF JobOK, AtJob
  <2>2. CASE /\ f.pc = "begin" /\ game' = game
             /\ \E job \in ReleaseJobs : AtJob(w, job) /\ f.todo \subseteq Due(job)
    <3>1. PICK job \in ReleaseJobs : AtJob(w, job) /\ f.todo \subseteq Due(job)
      BY <2>2
    <3>2. AtJob(w, "halfway") => job = "halfway"
      BY <3>1 DEF AtJob
    <3>3. AtJob(w, "reminder") \/ AtJob(w, "final") => job \in {"reminder", "final"}
      BY <3>1 DEF AtJob
    <3> QED BY <2>2, <3>1, <3>2, <3>3, DueIsNotEarly
  <2>3. CASE /\ r.pc # "idle" /\ f.todo \subseteq r.todo
             /\ r.pc = "mark" => r.g \notin f.todo
             /\ f.pc = "tell" => AtJob(w, "reminder")
    <3>1. JobOK(w, r)
      BY <1>1 DEF JobInv
    <3>2. \A h \in f.todo : game'[h].halfway = game[h].halfway
      BY <1>1, <1>3, <2>3, ReleaseMarks
    <3> QED BY <2>3, <3>1, <3>2 DEF JobOK
  <2> QED BY <1>1, <1>2, <2>1, <2>2, <2>3, ReleaseWorksOff
<1>6. ASSUME NEW u \in Workers PROVE JobOK(u, rel[u])'
  <2>1. CASE u = w
    BY <1>2, <1>5, <2>1
  <2>2. CASE u # w
    BY <2>2, OthersRest DEF JobOK
  <2> QED BY <2>1, <2>2
<1> QED BY <1>6 DEF JobInv

LEMMA NextKeepsJob ==
    ASSUME Inv, Alone, PollWindow = 0, OnePoll, JobInv, [Next]_vars
    PROVE  JobInv'
<1>1. ASSUME NEW w \in Workers, Release(w) PROVE JobInv'
  BY <1>1, ReleaseKeepsJob
<1>2. ASSUME \A u \in Workers : rel'[u].pc = "idle" PROVE JobInv'
  BY <1>2 DEF JobInv, JobOK
<1>3. ASSUME NEW w \in Workers, Book(w) PROVE JobInv'
  <2>1. rel' = rel /\ \A u \in Workers : rel[u].pc = "idle"
    <3>1. at[w] # 0 /\ rel[w].pc = "idle"
      BY <1>3, BookerIsAt
    <3> QED BY <1>3, <3>1, DutyIsAlone DEF Book
  <2> QED BY <1>2, <2>1
<1>4. ASSUME NEW w \in Workers, Panic(w) PROVE JobInv'
  BY <1>2, <1>4 DEF Panic, Restart, IdleFrame
<1>5. CASE Tick \/ \E p \in Pollers : Poll(p)
  <2>1. rel' = rel
    BY <1>5 DEF Tick, Poll
  <2>2. ASSUME NEW u \in Workers PROVE rel[u].pc = "idle" \/ (at'[u] = at[u] /\ now' = now)
    <3>1. ASSUME rel[u].pc # "idle" PROVE at[u] # 0 /\ u \in Pollers /\ polled
      BY <3>1, ReleaserIsAt, DutyIsAlone
    <3> QED BY <1>5, <3>1 DEF Tick, Idle, Alone, Poll, PollStart
  <2>3. UNCHANGED game
    BY <1>5 DEF Tick, Poll, planVars
  <2> QED BY <2>1, <2>2, <2>3 DEF JobInv, JobOK, AtJob, Early, ReminderAt, FinalAt, Deadline
<1>6. CASE \/ UNCHANGED vars
           \/ \E g \in Games : Join(g) \/ Leave(g)
           \/ \E k \in Creds : CooldownExpires(k)
  <2>1. UNCHANGED <<game, rel, at, now>>
    BY <1>6 DEF vars, Join, Leave, Attend, CooldownExpires, planVars, clockVars
  <2> QED BY <2>1 DEF JobInv, JobOK, AtJob, Early, ReminderAt, FinalAt, Deadline
<1> QED BY <1>1, <1>3, <1>4, <1>5, <1>6, NobodyAsks, NoCrash DEF Next

LEMMA InitJob == ASSUME Init PROVE JobInv
BY DEF Init, ReleaseInit, IdleFrame, JobInv, JobOK

(* Giving one reservation back takes one off its slot's at most, and none  *)
(* off the other slots'.                                                   *)
LEMMA GivenBackCounts ==
    ASSUME Inv, NEW s, NEW m \in Matches, match[m].st # "unused",
           match' = [match EXCEPT ![m].st = "canceled"]
    PROVE  /\ Cardinality(LiveAt(s)') \in Nat
           /\ Cardinality(LiveAt(s)') >= Cardinality(LiveAt(s)) - 1
           /\ match[m].slot # s => LiveAt(s)' = LiveAt(s)
<1>1. LiveAt(s)' = LiveAt(s) \ {m} /\ (match[m].slot # s => m \notin LiveAt(s))
  BY GivenBackSets DEF LiveAt
<1>2. IsFiniteSet(LiveAt(s)) /\ Cardinality(LiveAt(s)) \in Nat
  BY LiveIsFinite
<1>3. CASE m \in LiveAt(s)
  <2>1. Cardinality(LiveAt(s) \ {m}) = Cardinality(LiveAt(s)) - 1
    BY <1>2, <1>3, FS_RemoveElement
  <2>2. Cardinality(LiveAt(s) \ {m}) \in Nat
    BY <1>2, FS_RemoveElement, FS_CardinalityType
  <2> QED BY <1>1, <1>2, <1>3, <2>1, <2>2
<1>4. CASE m \notin LiveAt(s)
  <2>1. LiveAt(s)' = LiveAt(s)
    BY <1>1, <1>4
  <2> QED BY <1>2, <2>1
<1> QED BY <1>3, <1>4

(* What a release leaves once its selection is gone, no step of it makes   *)
(* less.                                                                   *)
LEMMA LeftStays ==
    ASSUME Inv, SlotsFixed, NEW r \in Frame, NEW f \in Frame, r.g \in Games, f.g = r.g,
           \/ match' = match /\ f.picks \subseteq r.picks
           \/ \E m \in r.picks :
                 /\ match[m].st # "unused" /\ match' = [match EXCEPT ![m].st = "canceled"]
                 /\ f.picks = r.picks \ {m}
    PROVE  LeftAfter(r) \in Int /\ LeftAfter(f)' \in Int /\ LeftAfter(f)' >= LeftAfter(r)
<1>1. PICK s : s = game[r.g].slot
  OBVIOUS
<1>2. LeftAfter(f)' = Cardinality(LiveAt(s)') - Cardinality(f.picks)
  <2>1. game'[f.g].slot = s
    BY <1>1 DEF SlotsFixed
  <2>2. LiveAt(game[f.g].slot)' = LiveAt(s)'
    BY <2>1 DEF LiveAt
  <2> QED BY <2>2 DEF LeftAfter
<1>3. /\ Cardinality(LiveAt(s)) \in Nat /\ IsFiniteSet(r.picks)
      /\ Cardinality(r.picks) \in Nat /\ Cardinality(f.picks) \in Nat
  BY LiveIsFinite, PicksAreFinite
<1>4. CASE match' = match /\ f.picks \subseteq r.picks
  <2>1. LiveAt(s)' = LiveAt(s)
    BY <1>4, SameMatchesSameSets
  <2>2. Cardinality(f.picks) <= Cardinality(r.picks)
    BY <1>3, <1>4, FS_Subset
  <2> QED BY <1>1, <1>2, <1>3, <2>1, <2>2 DEF LeftAfter
<1>5. ASSUME NEW m \in r.picks, match[m].st # "unused",
             match' = [match EXCEPT ![m].st = "canceled"], f.picks = r.picks \ {m}
      PROVE  LeftAfter(r) \in Int /\ LeftAfter(f)' \in Int /\ LeftAfter(f)' >= LeftAfter(r)
  <2>1. m \in Matches
    BY DEF Frame
  <2>2. /\ Cardinality(LiveAt(s)') \in Nat
        /\ Cardinality(LiveAt(s)') >= Cardinality(LiveAt(s)) - 1
    BY <1>5, <2>1, GivenBackCounts
  <2>3. Cardinality(f.picks) = Cardinality(r.picks) - 1
    BY <1>5, PicksAreFinite
  <2> QED BY <1>1, <1>2, <1>3, <2>2, <2>3 DEF LeftAfter
<1> QED BY <1>4, <1>5

(* The halfway check finds all the courts booked for a slot reserved: it   *)
(* has not been through the slot before.  It selects half of them at most. *)
LEMMA SelectionLeavesHalf ==
    ASSUME Inv, Alone, OnePoll, PlanInv, HeldInv, ApartInv, ListInv, JobInv, HalfInv,
           NEW w \in Workers, at[w] # 0, rel[w].pc = "load", AtJob(w, "halfway"),
           Quota(w) # 0, Early(game[rel[w].g].slot),
           NEW picks \in SUBSET Matches, Cardinality(picks) <= Quota(w)
    PROVE  Cardinality(LiveAt(game[rel[w].g].slot)) - Cardinality(picks)
              >= Wanted(game[rel[w].g].slot)
<1>1. PICK g \in Games : g = rel[w].g /\ Created(g) /\ ~game[g].halfway /\ rel[w] \in Frame
  <2>1. RelOK(rel[w], w, at[w], now, match) /\ ApartFrame(rel[w]) /\ JobOK(w, rel[w])
    BY DEF Inv, ApartInv, JobInv
  <2> QED BY <2>1 DEF RelOK, ApartFrame, JobOK
<1>2. PICK s \in Slots : s = game[g].slot
  <2>1. game[g] \in Game
    BY DEF Inv, RestOK
  <2> QED BY <1>1, <2>1 DEF Created, Game
<1>3. result[s].saved
  <2>1. \A u \in Workers : bkg[u].pc = "idle"
    <3>1. bkg[w].pc = "idle"
      BY ReleaserIsAt
    <3> QED BY <3>1, DutyIsAlone
  <2>2. result[s].game = g /\ g # None
    BY <1>2, <2>1, CountsAssumption DEF PlanInv, PlanOK, None
  <2> QED BY <2>2 DEF PlanInv, PlanOK
<1>4. PICK n \in Nat : n = Cardinality(LiveAt(s))
  BY LiveIsFinite
<1>5. n = Cardinality(result[s].courts)
  <2>1. HalfOf(w, rel[w], s)
    BY HalfBefore
  <2>2. ASSUME NEW h \in Games, game[h].slot = s, game[h].halfway \/ Halving(w, rel[w], h)
        PROVE  FALSE
    <3>1. game[h].halfway
      BY <2>2 DEF Halving
    <3>2. h = g
      BY <1>1, <1>2, <2>2, PlanGivesOneGame DEF OneGamePerSlot
    <3> QED BY <1>1, <3>1, <3>2
  <2> QED BY <1>1, <1>2, <1>3, <1>4, <2>1, <2>2 DEF HalfOf
<1>6. Read(w).count = n
  <2>1. game[g].courts = CourtsHeld(s) /\ game[g].count = Cardinality(game[g].courts)
    <3>1. ListOf(rel[w], g)
      BY ListBefore
    <3> QED BY <1>1, <1>2, <3>1 DEF ListOf
  <2>2. Read(w).count = game[g].count
    BY <1>1 DEF ListInv, ListFrameOK, Read
  <2> QED BY <1>4, <2>1, <2>2, HeldAreDistinct
<1>7. PICK u \in Nat : u = Unneeded(rel[w].count, n, PlayersPerCourt)
  BY <1>1, CountsAssumption, UnneededIsNat DEF Frame
<1>8. Quota(w) = u \div 2
  BY <1>6, <1>7 DEF Quota, HalfUnneeded
<1>9. u <= n
  <2>1. rel[w].count \in Nat /\ PlayersPerCourt \in Nat
    BY <1>1, CountsAssumption DEF Frame
  <2>2. u # 0
    BY <1>8
  <2> QED BY <1>7, <2>1, <2>2, SeatsAreLeft
<1>10. PICK k \in Nat : k = Cardinality(picks)
  BY CountsAssumption, FS_Subset, FS_CardinalityType
<1>11. n - k >= n - n \div 2
  BY <1>8, <1>9, <1>10
<1> QED BY <1>1, <1>2, <1>4, <1>5, <1>10, <1>11 DEF Wanted

LEMMA WantedIsInt ==
    ASSUME Inv, NEW s \in Slots
    PROVE  Wanted(s) \in Int
<1>1. result[s].courts \subseteq Labels
  BY DEF Inv, RestOK, Result
<1>2. Cardinality(result[s].courts) \in Nat
  BY <1>1, CourtsAssumption, FS_Subset, FS_CardinalityType
<1> QED BY <1>2 DEF Wanted

(* No release takes from a slot more than the halfway check may, before    *)
(* the reminder or the final check is due.                                 *)
LEMMA ReleaseKeepsHalf ==
    ASSUME Inv, Alone, "read" \notin FaultKinds, "lost" \notin FaultKinds, OnePoll, PlanInv,
           HeldInv, ApartInv, ListInv, JobInv, JobInv', HalfInv, NEW w \in Workers, Release(w)
    PROVE  HalfInv'
<1>1. PICK r : r = rel[w]
  OBVIOUS
<1>2. /\ at[w] # 0 /\ Inv' /\ ReleaseEffect(w) /\ SlotsFixed /\ result' = result /\ now' = now
      /\ \E job \in ReleaseJobs : AtJob(w, job)
  BY ReleaserIsAt, ReleaseStepKeepsInv, ReleaseHasEffect, ReleaseFixesSlots, ReleaseStaysAtJob
<1>3. /\ r \in Frame /\ ApartFrame(r) /\ JobOK(w, r) /\ HalfFrameOK(w, r)
      /\ \A s \in Slots : HalfOf(w, r, s)
      /\ r.pc # "idle" => r.g \in Games /\ game[r.g].slot \in Slots
      /\ \A m \in r.picks : m \in Matches /\ match[m].st # "unused"
  <2>1. RelOK(r, w, at[w], now, match) /\ ApartFrame(r) /\ JobOK(w, r)
    BY <1>1 DEF Inv, ApartInv, JobInv
  <2>2. r.pc # "idle" => game[r.g] \in Game /\ Created(r.g)
    BY <2>1 DEF RelOK, ApartFrame, Inv, RestOK
  <2> QED BY <1>1, <1>2, <2>1, <2>2, HalfBefore DEF RelOK, Frame, Game, Created
<1>4. ASSUME NEW f, rel' = [rel EXCEPT ![w] = f]
      PROVE  f \in Frame /\ JobOK(w, f)' /\ (f.pc # "idle" => at' = at) /\ f = rel'[w]
  <2>1. rel'[w] = f
    BY <1>4 DEF Inv, RestOK
  <2>2. at' = at \/ f = IdleFrame
    BY <2>1, ReleaseStaysAtJob
  <2> QED BY <1>2, <2>1, <2>2 DEF Inv, RelOK, JobInv, IdleFrame
<1>5. \A s : (Early(s)' <=> Early(s)) /\ Wanted(s)' = Wanted(s)
  BY <1>2 DEF Early, Wanted, ReminderAt, FinalAt, Deadline
<1>6. \A g \in Games : game'[g].slot = game[g].slot /\ (game[g].halfway => game'[g].halfway)
  BY <1>2, ReleaseMarks DEF SlotsFixed
<1>7. ASSUME NEW f, rel' = [rel EXCEPT ![w] = f], match' = match,
             \A g \in Games : Halving(w, r, g) => game'[g].halfway \/ Halving(w, f, g)'
      PROVE  \A s \in Slots : HalfOf(w, f, s)'
  <2>1. ASSUME NEW s \in Slots PROVE HalfOf(w, f, s)'
    <3>1. HalfOf(w, r, s) /\ LiveAt(s)' = LiveAt(s)
      BY <1>3, <1>7, SameMatchesSameSets
    <3> QED BY <1>2, <1>5, <1>6, <1>7, <3>1 DEF HalfOf
  <2> QED BY <2>1
<1>8. ASSUME NEW f, rel' = [rel EXCEPT ![w] = f], r.pc # "idle", f.g = r.g,
             r.pc \in {"cancel", "row"},
             \/ match' = match /\ f.picks \subseteq r.picks
             \/ \E m \in r.picks :
                   /\ match[m].st # "unused" /\ match' = [match EXCEPT ![m].st = "canceled"]
                   /\ f.picks = r.picks \ {m}
      PROVE  HalfFrameOK(w, f)'
  <2>1. f \in Frame /\ (f.pc # "idle" => at' = at)
    BY <1>4, <1>8
  <2>2. LeftAfter(r) \in Int /\ LeftAfter(f)' \in Int /\ LeftAfter(f)' >= LeftAfter(r)
    BY <1>2, <1>3, <1>8, <2>1, LeftStays
  <2>3. PICK s \in Slots : s = game[r.g].slot
    BY <1>3, <1>8
  <2>4. Wanted(s) \in Int
    BY WantedIsInt
  <2>5. game'[f.g].slot = s
    BY <1>3, <1>6, <1>8, <2>3
  <2>6. ASSUME AtJob(w, "halfway"), Early(s) PROVE LeftAfter(f)' >= Wanted(s)
    <3>1. LeftAfter(r) >= Wanted(s)
      BY <1>3, <1>8, <2>3, <2>6 DEF HalfFrameOK
    <3> QED BY <2>2, <2>4, <3>1
  <2>7. /\ Early(game[f.g].slot)' <=> Early(s)
        /\ Wanted(game[f.g].slot)' = Wanted(s)
    BY <1>5, <2>5 DEF Early, Wanted, ReminderAt, FinalAt, Deadline
  <2>8. f.pc # "idle" => (AtJob(w, "halfway")' <=> AtJob(w, "halfway"))
    BY <2>1 DEF AtJob
  <2> QED BY <2>6, <2>7, <2>8 DEF HalfFrameOK
<1>9. CASE Takes(w)
  <2>1. PICK f : TakesUp(w, f)
    BY <1>9 DEF Takes
  <2>2. /\ rel' = [rel EXCEPT ![w] = f] /\ f.pc \in {"idle", "begin"} /\ match' = match
        /\ r.pc \notin {"cancel", "row"}
    BY <1>1, <1>9, <2>1 DEF Takes, TakesUp
  <2>3. HalfFrameOK(w, f)'
    BY <2>2 DEF HalfFrameOK
  <2>4. \A g \in Games : Halving(w, r, g) => game'[g].halfway
    BY <1>1, <2>2, ReleaseMarks DEF Halving
  <2> QED BY <1>2, <1>7, <2>2, <2>3, <2>4, HalfAfter
<1>10. CASE MovesOn(w)
  <2>1. PICK pc \in {"count", "load", "tell", "mark", "complete", "rows"}, n \in Nat :
          /\ r.pc \in {"begin", "count", "load", "tell", "complete"}
          /\ rel' = [rel EXCEPT ![w] = [r EXCEPT !.pc = pc, !.count = n]]
    BY <1>1, <1>10 DEF MovesOn
  <2>2. PICK f : f = [r EXCEPT !.pc = pc, !.count = n]
    OBVIOUS
  <2>3. f.pc = pc /\ match' = match
    BY <1>3, <1>10, <2>2 DEF Frame, MovesOn
  <2>4. HalfFrameOK(w, f)'
    BY <2>3 DEF HalfFrameOK
  <2>5. \A g \in Games : ~Halving(w, r, g)
    BY <2>1 DEF Halving
  <2> QED BY <1>2, <1>7, <2>1, <2>2, <2>3, <2>4, <2>5, HalfAfter
<1>11. CASE Selects(w)
  <2>1. PICK picks \in SUBSET Matches :
          /\ Cardinality(picks) <= Quota(w)
          /\ rel' = [rel EXCEPT ![w] = [r EXCEPT !.pc = "cancel", !.picks = picks]]
    BY <1>1, <1>11 DEF Selects
  <2>2. PICK f : f = [r EXCEPT !.pc = "cancel", !.picks = picks]
    OBVIOUS
  <2>3. /\ f.pc = "cancel" /\ f.g = r.g /\ f.picks = picks /\ r.pc = "load"
        /\ Quota(w) # 0 /\ match' = match
    BY <1>1, <1>3, <1>11, <2>2 DEF Frame, Selects
  <2>4. PICK s \in Slots : s = game[r.g].slot
    BY <1>3, <2>3
  <2>5. game'[f.g].slot = s /\ LiveAt(s)' = LiveAt(s)
    BY <1>3, <1>6, <2>3, <2>4, SameMatchesSameSets
  <2>6. LeftAfter(f)' = Cardinality(LiveAt(s)) - Cardinality(picks)
    <3>1. LiveAt(game[f.g].slot)' = LiveAt(s)'
      BY <2>5 DEF LiveAt
    <3> QED BY <2>3, <2>5, <3>1 DEF LeftAfter
  <2>7. ASSUME AtJob(w, "halfway"), Early(s) PROVE LeftAfter(f)' >= Wanted(s)
    BY <1>1, <1>2, <2>1, <2>3, <2>4, <2>6, <2>7, SelectionLeavesHalf
  <2>8. /\ Early(game[f.g].slot)' <=> Early(s)
        /\ Wanted(game[f.g].slot)' = Wanted(s)
    BY <1>5, <2>5 DEF Early, Wanted, ReminderAt, FinalAt, Deadline
  <2>9. AtJob(w, "halfway")' <=> AtJob(w, "halfway")
    BY <1>4, <2>1, <2>2, <2>3 DEF AtJob
  <2>10. HalfFrameOK(w, f)'
    BY <2>7, <2>8, <2>9 DEF HalfFrameOK
  <2>11. \A g \in Games : ~Halving(w, r, g)
    BY <2>3 DEF Halving
  <2> QED BY <1>2, <1>7, <2>1, <2>2, <2>3, <2>10, <2>11, HalfAfter
<1>12. CASE GivesBack(w)
  <2>1. PICK m \in r.picks :
          /\ match' = [match EXCEPT ![m].st = "canceled"]
          /\ rel' = [rel EXCEPT ![w] = [r EXCEPT
                !.pc = "row", !.m = m, !.picks = @ \ {m}, !.gone = @ \cup {match[m].court}]]
    BY <1>1, <1>12 DEF GivesBack
  <2>2. PICK f : f = [r EXCEPT
                !.pc = "row", !.m = m, !.picks = @ \ {m}, !.gone = @ \cup {match[m].court}]
    OBVIOUS
  <2>3. f.pc = "row" /\ f.g = r.g /\ f.picks = r.picks \ {m} /\ r.pc = "cancel" /\ m \in Matches
    BY <1>1, <1>3, <1>12, <2>2 DEF Frame, GivesBack
  <2>4. rel' = [rel EXCEPT ![w] = f] /\ at' = at
    BY <1>4, <2>1, <2>2, <2>3
  <2>5. HalfFrameOK(w, f)'
    BY <1>3, <1>8, <2>1, <2>3, <2>4
  <2>6. ASSUME NEW s \in Slots PROVE HalfOf(w, f, s)'
    <3>1. SUFFICES ASSUME result[s].saved, Early(s)
                   PROVE  \/ Cardinality(LiveAt(s)') = Cardinality(result[s].courts)
                          \/ /\ Cardinality(LiveAt(s)') >= Wanted(s)
                             /\ \E g \in Games : game'[g].slot = s
                                   /\ (game'[g].halfway \/ Halving(w, f, g)')
      BY <1>2, <1>5 DEF HalfOf
    <3>2. CASE s # game[r.g].slot
      <4>1. LiveAt(s)' = LiveAt(s)
        BY <1>3, <2>1, <2>3, <3>2, GivenBackCounts DEF ApartFrame
      <4>2. \A g \in Games : game[g].slot = s => ~Halving(w, r, g)
        BY <3>2 DEF Halving
      <4>3. HalfOf(w, r, s)
        BY <1>3
      <4> QED BY <1>6, <3>1, <4>1, <4>2, <4>3 DEF HalfOf
    <3>3. CASE s = game[r.g].slot
      <4>1. AtJob(w, "halfway")
        <5>1. ~AtJob(w, "reminder") /\ ~AtJob(w, "final")
          BY <1>3, <2>3, <3>1, <3>3 DEF JobOK, ApartFrame
        <5>2. ~AtJob(w, "cleanup")
          <6>1. RelOK(r, w, at[w], now, match) /\ w \in Pollers
            BY <1>1, <1>2, DutyIsAlone DEF Inv
          <6> QED BY <2>3, <6>1 DEF RelOK, AtJob
        <5> QED BY <1>2, <5>1, <5>2 DEF ReleaseJobs
      <4>2. LeftAfter(r) >= Wanted(s)
        BY <1>3, <2>3, <3>1, <3>3, <4>1 DEF HalfFrameOK
      <4>3. /\ Cardinality(LiveAt(s)') \in Nat
            /\ Cardinality(LiveAt(s)') >= Cardinality(LiveAt(s)) - 1
        BY <1>3, <2>1, <2>3, GivenBackCounts
      <4>4. /\ Cardinality(r.picks) \in Nat /\ Cardinality(r.picks) >= 1
            /\ Cardinality(LiveAt(s)) \in Nat
        <5>1. IsFiniteSet(r.picks) /\ Cardinality(r.picks) \in Nat
          BY <1>3, PicksAreFinite
        <5>2. Cardinality(r.picks) # 0
          BY <2>1, <5>1, FS_EmptySet
        <5> QED BY <5>1, <5>2, LiveIsFinite
      <4>5. Cardinality(LiveAt(s)') >= Wanted(s)
        BY <3>3, <4>2, <4>3, <4>4, WantedIsInt DEF LeftAfter
      <4>6. r.g \in Games /\ game'[r.g].slot = s /\ Halving(w, f, r.g)'
        BY <1>3, <1>6, <2>3, <2>4, <3>3, <4>1 DEF Halving, AtJob
      <4> QED BY <4>5, <4>6
    <3> QED BY <3>2, <3>3
  <2> QED BY <1>2, <2>4, <2>5, <2>6, HalfAfter
<1>13. CASE LeavesOut(w)
  <2>1. PICK m : rel' = [rel EXCEPT ![w] = [r EXCEPT !.picks = @ \ {m}]]
    BY <1>1, <1>13 DEF LeavesOut
  <2>2. PICK f : f = [r EXCEPT !.picks = @ \ {m}]
    OBVIOUS
  <2>3. /\ f.pc = "cancel" /\ f.g = r.g /\ f.picks \subseteq r.picks /\ r.pc = "cancel"
        /\ match' = match
    BY <1>1, <1>3, <1>13, <2>2 DEF Frame, LeavesOut
  <2>4. rel' = [rel EXCEPT ![w] = f] /\ at' = at
    BY <1>4, <2>1, <2>2, <2>3
  <2>5. HalfFrameOK(w, f)'
    BY <1>8, <2>3, <2>4
  <2>6. \A g \in Games : Halving(w, r, g) => Halving(w, f, g)'
    BY <2>3, <2>4 DEF Halving, AtJob
  <2> QED BY <1>2, <1>7, <2>3, <2>4, <2>5, <2>6, HalfAfter
<1>14. CASE Marks(w)
  <2>1. rel' = [rel EXCEPT ![w] = [r EXCEPT !.pc = "cancel", !.m = None]]
    BY <1>1, <1>14 DEF Marks
  <2>2. PICK f : f = [r EXCEPT !.pc = "cancel", !.m = None]
    OBVIOUS
  <2>3. /\ f.pc = "cancel" /\ f.g = r.g /\ f.picks = r.picks /\ r.pc = "row" /\ match' = match
    BY <1>1, <1>3, <1>14, <2>2 DEF Frame, Marks
  <2>4. rel' = [rel EXCEPT ![w] = f] /\ at' = at
    BY <1>4, <2>1, <2>2, <2>3
  <2>5. HalfFrameOK(w, f)'
    BY <1>8, <2>3, <2>4
  <2>6. \A g \in Games : Halving(w, r, g) => Halving(w, f, g)'
    BY <2>3, <2>4 DEF Halving, AtJob
  <2> QED BY <1>2, <1>7, <2>3, <2>4, <2>5, <2>6, HalfAfter
<1>15. CASE Persists(w)
  <2>1. PICK pc \in {"tell", "mark"} : rel' = [rel EXCEPT ![w] = [r EXCEPT !.pc = pc]]
    BY <1>1, <1>15 DEF Persists
  <2>2. PICK f : f = [r EXCEPT !.pc = pc]
    OBVIOUS
  <2>3. f.pc = pc /\ f.g = r.g /\ match' = match
    BY <1>1, <1>3, <1>15, <2>2 DEF Frame, Persists
  <2>4. rel' = [rel EXCEPT ![w] = f] /\ at' = at /\ JobOK(w, f)'
    BY <1>4, <2>1, <2>2, <2>3
  <2>5. HalfFrameOK(w, f)'
    BY <2>3 DEF HalfFrameOK
  <2>6. AtJob(w, "halfway") => f.pc = "mark"
    <3>1. AtJob(w, "halfway") => ~AtJob(w, "reminder")
      BY DEF AtJob
    <3> QED BY <2>3, <2>4, <3>1 DEF JobOK, AtJob
  <2>7. \A g \in Games : Halving(w, r, g) => Halving(w, f, g)'
    BY <2>3, <2>4, <2>6 DEF Halving, AtJob
  <2> QED BY <1>2, <1>7, <2>3, <2>4, <2>5, <2>7, HalfAfter
<1> QED BY <1>2, <1>9, <1>10, <1>11, <1>12, <1>13, <1>14, <1>15 DEF ReleaseEffect

(* HalfInv where no release is under way, before or after the step.        *)
LEMMA HalfWhileIdle ==
    ASSUME Inv, HalfInv, \A u \in Workers : rel[u].pc = "idle" /\ rel'[u].pc = "idle",
           now' >= now, now' \in Nat,
           \A g \in Games : Created(g) =>
              game'[g].slot = game[g].slot /\ (game[g].halfway => game'[g].halfway),
           \A s \in Slots : result'[s].saved =>
              \/ Cardinality(LiveAt(s)') = Cardinality(result'[s].courts)
              \/ /\ result[s].saved /\ result'[s].courts = result[s].courts
                 /\ LiveAt(s)' = LiveAt(s)
    PROVE  HalfInv'
<1>1. ASSUME NEW s \in Slots PROVE HalfOK(s)'
  <2>1. SUFFICES ASSUME result[s].saved, result'[s].courts = result[s].courts,
                        LiveAt(s)' = LiveAt(s), Early(s)'
                 PROVE  \/ Cardinality(LiveAt(s)) = Cardinality(result[s].courts)
                        \/ /\ Cardinality(LiveAt(s)) >= Wanted(s)
                           /\ \E g \in Games : game'[g].slot = s /\ game'[g].halfway
    BY DEF HalfOK, Wanted
  <2>2. Early(s)
    <3>1. ReminderAt(s) \in Int /\ FinalAt(s) \in Int /\ now \in Nat
      <4>1. StartAt[s] \in Nat /\ Grace \in Nat /\ ReminderLead \in Nat /\ FinalLead \in Nat
        BY TimeAssumption
      <4> QED BY <4>1 DEF ReminderAt, FinalAt, Deadline, Inv, RestOK
    <3> QED BY <2>1, <3>1 DEF Early, ReminderAt, FinalAt, Deadline
  <2>3. HalfOK(s)
    BY DEF HalfInv
  <2>4. ASSUME NEW g \in Games, game[g].slot = s,
               game[g].halfway \/ \E w \in Workers : Halving(w, rel[w], g)
        PROVE  game'[g].slot = s /\ game'[g].halfway
    <3>1. game[g].halfway
      BY <2>4 DEF Halving
    <3>2. Created(g)
      BY <2>4, CountsAssumption DEF Created, None
    <3> QED BY <2>4, <3>1, <3>2
  <2> QED BY <2>1, <2>2, <2>3, <2>4 DEF HalfOK
<1>2. \A u \in Workers : HalfFrameOK(u, rel[u])'
  BY DEF HalfFrameOK
<1> QED BY <1>1, <1>2 DEF HalfInv

(* A slot is saved with the courts reserved for it, and is booked no more. *)
LEMMA BookKeepsHalf ==
    ASSUME Inv, Alone, "lost" \notin FaultKinds, OnePoll, PlanInv, HeldInv, HalfInv,
           NEW w \in Workers, Book(w)
    PROVE  HalfInv'
<1>1. PICK e : e = bkg[w]
  OBVIOUS
<1>2. /\ at[w] # 0 /\ BookEffect(w) /\ rel' = rel /\ now' = now /\ now \in Nat
      /\ \A u \in Workers : rel[u].pc = "idle"
  <2>1. at[w] # 0 /\ rel[w].pc = "idle"
    BY BookerIsAt
  <2> QED BY <2>1, DutyIsAlone, BookHasEffect DEF Book, BookingStep, clockVars, Inv, RestOK
<1>3. PlanFrameOK(e) /\ HeldFrameOK(e) /\ BkgOK(e, w, at[w], match)
  BY <1>1, <1>2, PlanBefore, HeldBefore DEF Inv
<1>4. \A g \in Games : Created(g) =>
         game'[g].slot = game[g].slot /\ (game[g].halfway => game'[g].halfway)
  BY BookKeepsMarks
<1>5. SUFFICES ASSUME NEW s \in Slots, result'[s].saved
               PROVE  \/ Cardinality(LiveAt(s)') = Cardinality(result'[s].courts)
                      \/ /\ result[s].saved /\ result'[s].courts = result[s].courts
                         /\ LiveAt(s)' = LiveAt(s)
  BY <1>2, <1>4, HalfWhileIdle
<1>6. result \in [Slots -> Result]
  BY DEF Inv, RestOK
<1>7. CASE Reserves(w)
  <2>1. PICK c \in Labels, m \in Matches :
          /\ match[m].st = "unused"
          /\ match' = [match EXCEPT ![m] = [st |-> "live", slot |-> e.slot, court |-> c]]
    BY <1>1, <1>7 DEF Reserves
  <2>2. result' = result /\ s # e.slot
    BY <1>1, <1>3, <1>5, <1>7 DEF Reserves, PlanFrameOK
  <2>3. match'[m].slot = e.slot /\ \A n \in Matches : n # m => match'[n] = match[n]
    BY <2>1 DEF Inv, TablesOK
  <2>4. LiveAt(s)' = LiveAt(s)
    BY <2>1, <2>2, <2>3 DEF LiveAt, Live
  <2> QED BY <1>5, <2>2, <2>4
<1>8. CASE SavesResult(w)
  <2>1. e.pc = "book" /\ e.slot \in Slots /\ match' = match
        /\ result' = [result EXCEPT ![e.slot] =
              IF @.saved THEN @ ELSE [saved |-> TRUE, courts |-> e.got, game |-> None]]
    BY <1>1, <1>3, <1>8 DEF SavesResult, BkgOK
  <2>2. LiveAt(s)' = LiveAt(s)
    BY <2>1, SameMatchesSameSets
  <2>3. CASE s # e.slot
    BY <1>5, <1>6, <2>1, <2>2, <2>3
  <2>4. CASE s = e.slot
    <3>1. result'[s].courts = e.got
      BY <1>3, <1>6, <2>1, <2>4 DEF PlanFrameOK
    <3>2. e.got = CourtsHeld(s)
      BY <1>3, <2>1, <2>4 DEF HeldFrameOK
    <3> QED BY <2>2, <3>1, <3>2, HeldAreDistinct
  <2> QED BY <2>3, <2>4
<1>9. CASE Links(w)
  <2>1. match' = match /\ result' = [result EXCEPT ![e.slot].game = e.g]
    BY <1>1, <1>9 DEF Links
  <2>2. LiveAt(s)' = LiveAt(s)
    BY <2>1, SameMatchesSameSets
  <2>3. result'[s] = result[s] \/ result'[s] = [result[s] EXCEPT !.game = e.g]
    BY <1>6, <2>1
  <2>4. result[s] \in Result
    BY <1>6
  <2>5. result'[s].courts = result[s].courts /\ result'[s].saved = result[s].saved
    BY <2>3, <2>4 DEF Result
  <2> QED BY <1>5, <2>2, <2>5
<1>10. CASE \/ Turn(w) \/ Lists(w) \/ StartsBooking(w) \/ Blames(w) \/ Saves(w) \/ Creates(w)
  <2>1. match' = match /\ result' = result
    BY <1>10 DEF Turn, Lists, StartsBooking, Blames, Saves, Creates
  <2> QED BY <1>5, <2>1, SameMatchesSameSets
<1> QED BY <1>2, <1>7, <1>8, <1>9, <1>10 DEF BookEffect

LEMMA NextKeepsHalf ==
    ASSUME Inv, Alone, "read" \notin FaultKinds, "lost" \notin FaultKinds, OnePoll, PlanInv,
           HeldInv, ApartInv, ListInv, JobInv, JobInv', HalfInv, [Next]_vars
    PROVE  HalfInv'
<1>1. ASSUME NEW w \in Workers, Release(w) \/ Book(w) PROVE HalfInv'
  BY <1>1, ReleaseKeepsHalf, BookKeepsHalf
<1>2. now \in Nat
  BY DEF Inv, RestOK
<1>3. ASSUME \A u \in Workers : rel[u].pc = "idle" /\ rel'[u].pc = "idle",
             now' \in {now, now + 1}, UNCHANGED <<match, game, result>>
      PROVE  HalfInv'
  <2>1. \A s : LiveAt(s)' = LiveAt(s)
    BY <1>3, SameMatchesSameSets
  <2> QED BY <1>2, <1>3, <2>1, HalfWhileIdle
<1>4. CASE Tick
  <2>1. \A u \in Workers : rel[u].pc = "idle"
    <3>1. ASSUME NEW u \in Workers, rel[u].pc # "idle" PROVE at[u] # 0 /\ u \in Pollers
      BY <3>1, ReleaserIsAt
    <3> QED BY <1>4, <3>1 DEF Tick, Idle, Alone
  <2>2. UNCHANGED <<match, game, result, rel>> /\ now' = now + 1
    BY <1>4 DEF Tick, planVars, bookVars
  <2> QED BY <1>3, <2>1, <2>2
<1>5. ASSUME NEW w \in Workers, Panic(w) PROVE HalfInv'
  <2>1. /\ rel[w].pc \in {"begin", "count"}
        /\ \A u \in Workers : u # w => rel[u].pc = "idle"
    BY <1>5, PanicIsAlone DEF Panic, DividesByZero, Counting
  <2>2. /\ \A u \in Workers : rel'[u].pc = "idle"
        /\ UNCHANGED <<match, game, result, now>>
    BY <1>5 DEF Panic, Restart, IdleFrame, planVars, bookVars, clockVars
  <2>3. \A u \in Workers, g \in Games : ~Halving(u, rel[u], g)
    BY <2>1 DEF Halving
  <2>4. ASSUME NEW s \in Slots PROVE HalfOK(s)'
    <3>1. HalfOK(s) /\ LiveAt(s)' = LiveAt(s)
      BY <2>2, SameMatchesSameSets DEF HalfInv
    <3> QED BY <2>2, <2>3, <3>1 DEF HalfOK, Early, ReminderAt, FinalAt, Deadline, Wanted
  <2> QED BY <2>2, <2>4 DEF HalfInv, HalfFrameOK
<1>6. CASE \/ UNCHANGED vars
           \/ \E p \in Pollers : Poll(p)
           \/ \E g \in Games : Join(g) \/ Leave(g)
           \/ \E k \in Creds : CooldownExpires(k)
  <2>1. UNCHANGED <<match, game, rel, result, now>>
    BY <1>6 DEF vars, Poll, PollStart, Join, Leave, Attend, CooldownExpires, planVars,
           bookVars, clockVars
  <2>2. ASSUME NEW u \in Workers PROVE rel[u].pc = "idle" \/ at'[u] = at[u]
    <3>1. ASSUME rel[u].pc # "idle" PROVE at[u] # 0 /\ u \in Pollers /\ polled
      BY <3>1, ReleaserIsAt, DutyIsAlone
    <3> QED BY <1>6, <3>1 DEF vars, Poll, PollStart, Join, Leave, Attend, CooldownExpires
  <2>3. \A u \in Workers, g \in Games : Halving(u, rel[u], g)' <=> Halving(u, rel[u], g)
    BY <2>1, <2>2 DEF Halving, AtJob
  <2>4. \A s : LiveAt(s)' = LiveAt(s)
    BY <2>1, SameMatchesSameSets
  <2>5. ASSUME NEW s \in Slots PROVE HalfOK(s)'
    <3>1. HalfOK(s)
      BY DEF HalfInv
    <3> QED BY <2>1, <2>3, <2>4, <3>1 DEF HalfOK, Early, ReminderAt, FinalAt, Deadline, Wanted
  <2>6. ASSUME NEW u \in Workers PROVE HalfFrameOK(u, rel[u])'
    <3>1. HalfFrameOK(u, rel[u]) /\ LeftAfter(rel[u])' = LeftAfter(rel[u])
      BY <2>1 DEF HalfInv, LeftAfter, LiveAt, Live
    <3> QED BY <2>1, <2>2, <3>1
            DEF HalfFrameOK, AtJob, Early, ReminderAt, FinalAt, Deadline, Wanted
  <2> QED BY <2>5, <2>6 DEF HalfInv
<1> QED BY <1>1, <1>4, <1>5, <1>6, NobodyAsks, NoCrash DEF Next

LEMMA InitHalf == ASSUME Init PROVE HalfInv
BY DEF Init, StateInit, NoResult, ReleaseInit, IdleFrame, HalfInv, HalfOK, HalfFrameOK

LEMMA HalfIsKept ==
    ASSUME Inv, HalfInv
    PROVE  HalfStays
<1>1. ASSUME NEW s \in Slots, result[s].saved, Early(s)
      PROVE  Cardinality(LiveAt(s)) >= Wanted(s)
  <2>1. result[s].courts \subseteq Labels
    BY DEF Inv, RestOK, Result
  <2>2. PICK n \in Nat : n = Cardinality(result[s].courts)
    BY <2>1, CourtsAssumption, FS_Subset, FS_CardinalityType
  <2>3. n >= n - n \div 2
    OBVIOUS
  <2> QED BY <1>1, <2>2, <2>3 DEF HalfInv, HalfOK, Wanted
<1> QED BY <1>1 DEF HalfStays, Early, Wanted

(* Until the reminder or the final check is due, a slot keeps half of the  *)
(* courts booked for it, rounded up: the halfway check gives back half of  *)
(* them at most and marks the game before its next query, and the other    *)
(* two jobs leave the slot alone (halfway_court_check.go:170,              *)
(* court_cancellation.go:44).  A poll interval is one tick, so that the    *)
(* window around an event, half an interval, is that tick.                 *)
THEOREM HalfwayTakesHalf ==
    ASSUME PollsKeepUp = TRUE, Admins = {}, MaxCrashes = 0, PollWindow = 0,
           "write" \notin FaultKinds, "read" \notin FaultKinds, "lost" \notin FaultKinds
    PROVE  Spec => []HalfStays
<1> DEFINE I == Inv /\ OnePoll /\ PlanInv /\ HeldInv /\ ApartInv /\ ListInv /\ JobInv /\ HalfInv
<1>1. Init => I
  BY InitEstablishesInv, InitPlans, InitHolds, InitIsApart, InitLists, InitJob, InitHalf
<1>2. I /\ [Next]_vars => I'
  BY NextKeepsInv, OnePollKept, NextKeepsPlan, NextKeepsHeld, NextKeepsApart, NextKeepsLists,
     NextKeepsJob, NextKeepsHalf DEF Alone
<1>3. I => HalfStays
  BY HalfIsKept
<1> QED BY <1>1, <1>2, <1>3, PTL DEF Spec
-----------------------------------------------------------------------------
(* No court stays that nobody needs.                                       *)

(* The reminder's job and the final check free all that is unneeded.       *)
Checks(w) == AtJob(w, "reminder") \/ AtJob(w, "final")

(* What such a poll has selected is held, and what is left besides seats   *)
(* fewer than one court's players more than it counted.                    *)
SpareFrameOK(w, r) ==
    /\ r.pc = "tell" => AtJob(w, "reminder")
    /\ Checks(w) /\ r.pc # "idle" => now < CleanupAt
    /\ Checks(w) /\ r.pc \in {"cancel", "row", "tell", "mark"} =>
          /\ \A m \in r.picks : match[m].st = "live"
          /\ Capacity(LeftAfter(r), PlayersPerCourt) < r.count + Capacity(1, PlayersPerCourt)
SpareInv == \A w \in Workers : SpareFrameOK(w, rel[w])

(* The records follow the platform through the end of the process as well: *)
(* whoever divides by zero is at work alone, and saves and marks nothing.  *)
LEMMA NextFollowsAlone ==
    ASSUME Inv, Alone, "lost" \notin FaultKinds, OnePoll, FollowOK, [Next]_vars
    PROVE  FollowOK'
<1>1. Unbroken
  BY DEF Alone, Unbroken
<1>2. ASSUME NEW w \in Workers, Panic(w) PROVE FollowOK'
  <2>1. /\ \A u \in Workers : bkg[u].pc = "idle" /\ rel[u].pc # "row"
        /\ match' = match /\ row' = row
    <3>1. rel[w].pc \in {"begin", "count"}
      BY <1>2 DEF Panic, DividesByZero, Counting
    <3>2. \A u \in Workers : bkg[u].pc = "idle" /\ (u # w => rel[u].pc = "idle")
      BY <1>2, PanicIsAlone
    <3> QED BY <1>2, <3>1, <3>2 DEF Panic, Restart, bookVars
  <2>2. \A u \in Workers : /\ rel'[u].pc = "idle" /\ rel'[u].picks = {}
                           /\ bkg'[u].pc = "idle"
    BY <1>2 DEF Panic, Restart, IdleFrame, IdleBook
  <2>3. Behind'
    BY <2>1 DEF FollowOK, Behind
  <2> QED BY <2>2, <2>3 DEF FollowOK, SavesAreApart, SaveOK, MarkOK
<1> QED BY <1>1, <1>2, NextFollowsOn

(* Before the cleanup, with no row to be written, the open rows of a slot  *)
(* are the reservations the platform holds for it.                         *)
LEMMA RowsAreLive ==
    ASSUME Inv, FollowOK, now < CleanupAt, NEW s,
           \A u \in Workers : bkg[u].pc = "idle" /\ rel[u].pc # "row"
    PROVE  RowsAt(s) = LiveAt(s)
<1>1. now \in Nat /\ CleanupAt \in Nat /\ ~(now >= CleanupAt)
  BY TimeAssumption DEF Inv, RestOK
<1>2. ASSUME NEW m \in Matches PROVE row[m] = "active" <=> match[m].st = "live"
  <2>1. /\ row[m] # "none" => match[m].st # "unused"
        /\ row[m] = "canceled" => match[m].st = "canceled" \/ now >= CleanupAt
        /\ row[m] \in {"none", "active", "canceled"}
        /\ match[m].st \in {"unused", "live", "canceled"}
    BY DEF Inv, TablesOK, Match
  <2>2. /\ ~(match[m].st # "unused" /\ row[m] = "none")
        /\ ~(match[m].st = "canceled" /\ row[m] = "active")
    BY DEF FollowOK, Behind
  <2> QED BY <1>1, <2>1, <2>2
<1> QED BY <1>2 DEF RowsAt, ActiveRows, LiveAt, Live

(* What is left when all that is unneeded is freed is no whole court too   *)
(* much.                                                                   *)
LEMMA NoMoreCouldGo ==
    ASSUME NEW count \in Nat, NEW c \in Nat, NEW ppc \in Nat,
           NEW u \in Nat, u = Unneeded(count, c, ppc)
    PROVE  u <= c /\ Capacity(c - u, ppc) < count + Capacity(1, ppc)
<1> DEFINE per == IF ppc = 0 THEN 2 ELSE ppc
<1>1. per \in Nat \ {0}
  OBVIOUS
<1>2. \A k \in Int : Capacity(k, ppc) = k * per
  BY DEF Capacity
<1> HIDE DEF per
<1>3. CASE count < c * per
  <2>1. c # 0
    BY <1>1, <1>3
  <2>2. (c * per) \div c = per
    BY <1>1, <2>1
  <2>3. u = (c * per - count) \div per
    BY <1>2, <1>3, <2>2 DEF Unneeded, PerCourt
  <2>4. u * per <= c * per - count /\ c * per - count < u * per + per
    BY <1>1, <1>3, <2>3
  <2>5. (c - u) * per = c * per - u * per /\ 1 * per = per
    BY <1>1
  <2>6. u <= c
    <3>1. ASSUME u > c PROVE FALSE
      <4>1. (c - u) * per < 0
        BY <1>1, <3>1
      <4> QED BY <1>1, <2>4, <2>5, <4>1
    <3> QED BY <3>1
  <2>7. (c - u) * per < count + 1 * per
    BY <1>1, <2>4, <2>5
  <2> QED BY <1>2, <2>6, <2>7
<1>4. CASE ~(count < c * per)
  <2>1. u = 0
    BY <1>2, <1>4 DEF Unneeded
  <2>2. (c - u) * per = c * per /\ 1 * per = per
    BY <1>1, <2>1
  <2>3. (c - u) * per < count + 1 * per
    BY <1>1, <1>4, <2>2
  <2> QED BY <1>2, <2>1, <2>3
<1> QED BY <1>3, <1>4

(* The two jobs find the reservations of the game held and select as many  *)
(* as can go.                                                              *)
LEMMA SelectionLeavesNoSpare ==
    ASSUME Inv, FollowOK, Alone, OnePoll, PlanInv, HeldInv, ApartInv, ListInv,
           IsInjective(Preferred), now < CleanupAt, NEW w \in Workers, at[w] # 0,
           rel[w].pc = "load", Checks(w), NEW live, live = LiveAt(game[rel[w].g].slot)
    PROVE  /\ loadCourtBookingEntries(rel[w].g) = {live}
           /\ Quota(w) \in Nat /\ Cardinality(live) \in Nat /\ Quota(w) <= Cardinality(live)
           /\ Cardinality(Selected(live, Quota(w))) = Quota(w)
           /\ Selected(live, Quota(w)) \in SUBSET live
           /\ Capacity(Cardinality(live) - Quota(w), PlayersPerCourt)
                 < rel[w].count + Capacity(1, PlayersPerCourt)
<1>1. PICK g \in Games : g = rel[w].g /\ Created(g) /\ rel[w] \in Frame
  <2>1. RelOK(rel[w], w, at[w], now, match) /\ ApartFrame(rel[w])
    BY DEF Inv, ApartInv
  <2> QED BY <2>1 DEF RelOK, ApartFrame
<1>2. PICK s \in Slots : s = game[g].slot
  <2>1. game[g] \in Game
    BY DEF Inv, RestOK
  <2> QED BY <1>1, <2>1 DEF Created, Game
<1>3. \A u \in Workers : bkg[u].pc = "idle" /\ rel[u].pc # "row"
  <2>1. bkg[w].pc = "idle"
    BY ReleaserIsAt
  <2>2. \A u \in Workers : u # w => rel[u].pc = "idle" /\ bkg[u].pc = "idle"
    BY DutyIsAlone
  <2> QED BY <2>1, <2>2
<1>4. RowsAt(s) = live /\ loadCourtBookingEntries(g) = {live}
  BY <1>1, <1>2, <1>3, RowsAreLive, EntriesAreOfSlot
<1>5. /\ live \in SUBSET Matches /\ Cardinality(live) \in Nat
      /\ \A m \in live : match[m].court \in Nat
      /\ \A m, n \in live : match[m].court = match[n].court => m = n
  <2>1. live = LiveAt(s) /\ LiveAt(s) \in SUBSET Matches /\ LiveAt(s) \subseteq AllAt(s)
        /\ Cardinality(LiveAt(s)) \in Nat
    BY <1>1, <1>2, LiveIsFinite DEF LiveAt, Live
  <2>2. \A m, n \in AllAt(s) : match[m].court = match[n].court => m = n
    BY DEF HeldInv, HeldOK
  <2> QED BY <2>1, <2>2, CourtsAreNumbers
<1>6. Cardinality(live) = Read(w).count
  <2>1. ListFrameOK(rel[w]) /\ ListOf(rel[w], g)
    BY <1>1, ListBefore
  <2>2. Read(w).count = game[g].count
    BY <1>1, <2>1 DEF ListFrameOK, Read
  <2>3. game[g].count = Cardinality(game[g].courts) /\ game[g].courts = CourtsHeld(s)
    BY <1>1, <1>2, <2>1 DEF ListOf
  <2> QED BY <1>1, <1>2, <2>2, <2>3, HeldAreDistinct
<1>7. Quota(w) \in Nat /\ rel[w].count \in Nat /\ PlayersPerCourt \in Nat
  BY <1>1, QuotaIsNat, CountsAssumption
<1>8. Quota(w) = Unneeded(rel[w].count, Read(w).count, PlayersPerCourt)
  BY DEF Quota, Checks, AtJob
<1>9. /\ Quota(w) <= Cardinality(live)
      /\ Capacity(Cardinality(live) - Quota(w), PlayersPerCourt)
            < rel[w].count + Capacity(1, PlayersPerCourt)
  BY <1>5, <1>6, <1>7, <1>8, NoMoreCouldGo
<1>10. Cardinality(Selected(live, Quota(w))) = Quota(w)
  BY <1>5, <1>7, <1>9, SelectedAreExact
<1> QED BY <1>1, <1>4, <1>5, <1>7, <1>9, <1>10, SelectedAreEntries

(* Giving back what is selected leaves what the selection left.            *)
LEMMA LeftIsSame ==
    ASSUME Inv, SlotsFixed, NEW r \in Frame, NEW f \in Frame, r.g \in Games, f.g = r.g,
           \/ match' = match /\ f.picks = r.picks
           \/ \E m \in r.picks :
                 /\ m \in LiveAt(game[r.g].slot) /\ match' = [match EXCEPT ![m].st = "canceled"]
                 /\ f.picks = r.picks \ {m}
    PROVE  LeftAfter(f)' = LeftAfter(r)
<1>1. PICK s : s = game[r.g].slot
  OBVIOUS
<1>2. LeftAfter(f)' = Cardinality(LiveAt(s)') - Cardinality(f.picks)
  <2>1. game'[f.g].slot = s
    BY <1>1 DEF SlotsFixed
  <2>2. LiveAt(game[f.g].slot)' = LiveAt(s)'
    BY <2>1 DEF LiveAt
  <2> QED BY <2>2 DEF LeftAfter
<1>3. CASE match' = match /\ f.picks = r.picks
  <2>1. LiveAt(s)' = LiveAt(s)
    BY <1>3, SameMatchesSameSets
  <2> QED BY <1>1, <1>2, <1>3, <2>1 DEF LeftAfter
<1>4. ASSUME NEW m \in r.picks, m \in LiveAt(s),
             match' = [match EXCEPT ![m].st = "canceled"], f.picks = r.picks \ {m}
      PROVE  LeftAfter(f)' = LeftAfter(r)
  <2>1. m \in Matches /\ match[m].st # "unused"
    BY <1>4 DEF LiveAt, Live
  <2>2. LiveAt(s)' = LiveAt(s) \ {m}
    BY <1>4, <2>1, GivenBackSets
  <2>3. /\ IsFiniteSet(LiveAt(s)) /\ Cardinality(LiveAt(s)) \in Nat
        /\ Cardinality(LiveAt(s) \ {m}) = Cardinality(LiveAt(s)) - 1
    BY <1>4, LiveIsFinite, FS_RemoveElement
  <2>4. Cardinality(f.picks) = Cardinality(r.picks) - 1 /\ Cardinality(r.picks) \in Nat
    BY <1>4, PicksAreFinite
  <2> QED BY <1>1, <1>2, <2>2, <2>3, <2>4 DEF LeftAfter
<1> QED BY <1>1, <1>3, <1>4

(* The steps that a poll of the two jobs takes after the selection.        *)
LEMMA ChecksStep ==
    ASSUME Inv, Alone, NEW w \in Workers, Release(w), Checks(w),
           rel'[w].pc \in {"cancel", "row", "tell", "mark"}
    PROVE  \/ LoadBookings(w) \/ CancelCourt(w) \/ MarkRow(w) \/ PersistCourts(w)
           \/ rel[w].pc = "tell" /\ Goto(w, "mark") /\ UNCHANGED bookVars
<1>1. w \notin Admins /\ ~AtJob(w, "halfway") /\ ~AtJob(w, "cleanup")
  BY ReleaserIsAt DEF Checks, AtJob
<1>2. \A e : rel' = [rel EXCEPT ![w] = e] => rel'[w] = e
  BY DEF Inv, RestOK
<1>3. ASSUME NEW todo, NEW snap, NEW t, Proceed(w, todo, snap, t) PROVE FALSE
  <2>1. CASE todo = {}
    <3>1. rel'[w] = IdleFrame
      BY <1>2, <1>3, <2>1 DEF Proceed
    <3> QED BY <3>1 DEF IdleFrame
  <2>2. CASE todo # {}
    <3>1. PICK g \in todo : rel' = [rel EXCEPT ![w] = [IdleFrame EXCEPT
                              !.pc = "begin", !.todo = todo, !.snap = snap, !.t = t, !.g = g]]
      BY <1>3, <2>2 DEF Proceed
    <3>2. rel'[w] = [IdleFrame EXCEPT !.pc = "begin", !.todo = todo, !.snap = snap,
                                      !.t = t, !.g = g]
      BY <1>2, <3>1
    <3> QED BY <3>2 DEF IdleFrame
  <2> QED BY <2>1, <2>2
<1>4. ~NextGame(w)
  BY <1>3 DEF NextGame
<1>5. ASSUME NEW pc, Goto(w, pc) PROVE pc \in {"cancel", "row", "tell", "mark"}
  <2>1. rel' = [rel EXCEPT ![w] = [rel[w] EXCEPT !.pc = pc]]
    BY <1>5 DEF Goto
  <2>2. rel'[w] = [rel[w] EXCEPT !.pc = pc] /\ rel[w] \in Frame
    BY <1>2, <2>1 DEF Inv, RelOK
  <2> QED BY <2>2 DEF Frame
<1>6. ~CountPlayers(w)
  <2>1. ASSUME rel' = [rel EXCEPT ![w].pc = "load", ![w].count = players[rel[w].g]]
        PROVE  FALSE
    <3>1. rel' = [rel EXCEPT ![w] = [rel[w] EXCEPT !.pc = "load", !.count = players[rel[w].g]]]
      BY <2>1
    <3>2. rel'[w] = [rel[w] EXCEPT !.pc = "load", !.count = players[rel[w].g]]
          /\ rel[w] \in Frame
      BY <1>2, <3>1 DEF Inv, RelOK
    <3> QED BY <3>2 DEF Frame
  <2> QED BY <1>4, <2>1 DEF CountPlayers
<1>7. ~QueryGames(w)
  BY <1>3 DEF QueryGames
<1>8. ~BeginHalfway(w) /\ ~MarkDone(w) /\ ~CloseMessage(w) /\ ~CloseRows(w)
  BY <1>1, <1>4 DEF BeginHalfway, MarkDone, CloseMessage, CloseRows
<1>9. ~CompleteGame(w)
  BY <1>4, <1>5 DEF CompleteGame
<1>10. SendReminder(w) => rel[w].pc = "tell" /\ Goto(w, "mark") /\ UNCHANGED bookVars
  BY <1>4 DEF SendReminder
<1> QED BY <1>1, <1>6, <1>7, <1>8, <1>9, <1>10 DEF Release, ReleaseStep, LoadRemoved, PersistRemoval

LEMMA ReleaseKeepsSpare ==
    ASSUME Inv, Alone, "read" \notin FaultKinds, "lost" \notin FaultKinds,
           "cancel" \notin FaultKinds, IsInjective(Preferred), OnePoll, PlanInv, HeldInv,
           ApartInv, ApartInv', ListInv, FollowOK, SpareInv, NEW w \in Workers, Release(w)
    PROVE  SpareInv'
<1>1. PICK r : r = rel[w]
  OBVIOUS
<1>2. PICK f : f = rel'[w]
  OBVIOUS
<1>3. /\ Inv' /\ now' = now /\ SlotsFixed /\ at[w] # 0 /\ r \in Frame /\ f \in Frame
      /\ f.pc # "idle" => at' = at
      /\ r.pc # "idle" => r.g \in Games
      /\ \A m \in r.picks : m \in Matches
  <2>1. /\ Inv' /\ now' = now /\ SlotsFixed /\ (at' = at \/ rel'[w] = IdleFrame) /\ at[w] # 0
    BY ReleaseStepKeepsInv, ReleaseStaysAtJob, ReleaseFixesSlots, ReleaserIsAt
  <2>2. IdleFrame.pc = "idle"
    BY DEF IdleFrame
  <2> QED BY <1>1, <1>2, <2>1, <2>2 DEF Inv, RelOK, Frame
<1>4. SpareFrameOK(w, r) /\ ApartFrame(r) /\ ApartFrame(f)'
  BY <1>1, <1>2 DEF SpareInv, ApartInv, ApartFrame
<1>5. \A e : rel' = [rel EXCEPT ![w] = e] => f = e
  BY <1>2 DEF Inv, RestOK
<1>6. f.pc = "tell" => AtJob(w, "reminder")
  BY <1>2, ReleaseWorksOff
<1>7. ASSUME Checks(w), f.pc # "idle" PROVE now < CleanupAt
  <2>1. CASE \E job \in ReleaseJobs : AtJob(w, job) /\ f.todo \subseteq Due(job)
    <3>1. PICK job \in ReleaseJobs : AtJob(w, job) /\ f.todo \subseteq Due(job)
      BY <2>1
    <3>2. job \in {"reminder", "final"} /\ f.g \in Due(job)
      BY <1>4, <1>7, <3>1 DEF Checks, AtJob, ApartFrame
    <3>3. f.g \in Games /\ Upcoming(f.g)
      BY <3>2 DEF Due
    <3>4. StartAt[game[f.g].slot] > now /\ game[f.g].slot \in Slots
      <4>1. game[f.g] \in Game
        BY <3>3 DEF Inv, RestOK
      <4> QED BY <3>3, <4>1 DEF Upcoming, Created, Game
    <3>5. /\ StartAt[game[f.g].slot] \in Nat /\ CleanupAt \in Nat /\ now \in Nat
          /\ StartAt[game[f.g].slot] < CleanupAt
      BY <3>4, TimeAssumption DEF Inv, RestOK
    <3> QED BY <3>4, <3>5
  <2>2. CASE r.pc # "idle"
    BY <1>4, <1>7, <2>2 DEF SpareFrameOK
  <2> QED BY <1>1, <1>2, <1>7, <2>1, <2>2, ReleaseWorksOff
<1>8. ASSUME Checks(w), f.pc \in {"cancel", "row", "tell", "mark"}
      PROVE  /\ \A m \in f.picks : match'[m].st = "live"
             /\ Capacity(LeftAfter(f)', PlayersPerCourt) < f.count + Capacity(1, PlayersPerCourt)
  <2>1. /\ r.pc # "idle" /\ r.g \in Games
        /\ \/ LoadBookings(w) \/ CancelCourt(w) \/ MarkRow(w) \/ PersistCourts(w)
           \/ r.pc = "tell" /\ Goto(w, "mark") /\ UNCHANGED bookVars
    <3>1. \/ LoadBookings(w) \/ CancelCourt(w) \/ MarkRow(w) \/ PersistCourts(w)
          \/ r.pc = "tell" /\ Goto(w, "mark") /\ UNCHANGED bookVars
      BY <1>1, <1>2, <1>8, ChecksStep
    <3>2. r.pc # "idle"
      BY <1>1, <3>1 DEF LoadBookings, CancelCourt, MarkRow, PersistCourts
    <3> QED BY <1>3, <3>1, <3>2
  <2>2. ASSUME r.pc \in {"cancel", "row", "tell"}, f.g = r.g, f.count = r.count,
               f.picks = r.picks, match' = match
        PROVE  /\ \A m \in f.picks : match'[m].st = "live"
               /\ Capacity(LeftAfter(f)', PlayersPerCourt)
                     < f.count + Capacity(1, PlayersPerCourt)
    <3>1. LeftAfter(f)' = LeftAfter(r)
      BY <1>3, <2>1, <2>2, LeftIsSame
    <3> QED BY <1>4, <1>8, <2>2, <3>1 DEF SpareFrameOK
  <2>3. ASSUME NEW pc, Goto(w, pc) PROVE f.g = r.g /\ f.count = r.count /\ f.picks = r.picks
    <3>1. rel' = [rel EXCEPT ![w] = [r EXCEPT !.pc = pc]]
      BY <1>1, <2>3 DEF Goto
    <3>2. f = [r EXCEPT !.pc = pc]
      BY <1>5, <3>1
    <3> QED BY <1>3, <3>2 DEF Frame
  <2>4. CASE LoadBookings(w)
    <3>1. r.pc = "load" /\ match' = match /\ r.picks = {} /\ now < CleanupAt
      BY <1>1, <1>4, <1>7, <1>8, <2>4 DEF LoadBookings, bookVars, ApartFrame
    <3>2. PICK live : live = LiveAt(game[r.g].slot)
      OBVIOUS
    <3>3. PICK q : q = Quota(w)
      OBVIOUS
    <3>4. /\ loadCourtBookingEntries(r.g) = {live}
          /\ q \in Nat /\ Cardinality(live) \in Nat /\ q <= Cardinality(live)
          /\ Cardinality(Selected(live, q)) = q /\ Selected(live, q) \in SUBSET live
          /\ Capacity(Cardinality(live) - q, PlayersPerCourt)
                < r.count + Capacity(1, PlayersPerCourt)
      BY <1>1, <1>3, <1>8, <3>1, <3>2, <3>3, SelectionLeavesNoSpare
    <3>5. f.g = r.g => LeftAfter(f)' = Cardinality(live) - Cardinality(f.picks)
      <4> SUFFICES ASSUME f.g = r.g
                   PROVE  LeftAfter(f)' = Cardinality(live) - Cardinality(f.picks)
        OBVIOUS
      <4>1. game'[f.g].slot = game[r.g].slot
        BY <1>3, <2>1 DEF SlotsFixed
      <4>2. LiveAt(game[f.g].slot)' = live
        BY <3>1, <3>2, <4>1 DEF LiveAt, Live
      <4> QED BY <4>2 DEF LeftAfter
    <3>6. ASSUME q = 0, NEW pc, Goto(w, pc)
          PROVE  /\ \A m \in f.picks : match'[m].st = "live"
                 /\ Capacity(LeftAfter(f)', PlayersPerCourt)
                       < f.count + Capacity(1, PlayersPerCourt)
      <4>1. f.g = r.g /\ f.count = r.count /\ f.picks = {} /\ Cardinality(f.picks) = 0
        BY <2>3, <3>1, <3>6, FS_EmptySet
      <4>2. LeftAfter(f)' = Cardinality(live) - q
        BY <3>5, <3>6, <4>1
      <4> QED BY <3>4, <4>1, <4>2
    <3>7. ASSUME q # 0, rel' = [rel EXCEPT ![w].pc = "cancel", ![w].picks = Selected(live, q)]
          PROVE  /\ \A m \in f.picks : match'[m].st = "live"
                 /\ Capacity(LeftAfter(f)', PlayersPerCourt)
                       < f.count + Capacity(1, PlayersPerCourt)
      <4>1. rel' = [rel EXCEPT ![w] = [r EXCEPT !.pc = "cancel", !.picks = Selected(live, q)]]
        BY <1>1, <3>7
      <4>2. f = [r EXCEPT !.pc = "cancel", !.picks = Selected(live, q)]
        BY <1>5, <4>1
      <4>3. f.g = r.g /\ f.count = r.count /\ f.picks = Selected(live, q)
        BY <1>3, <4>2 DEF Frame
      <4>4. \A m \in live : match[m].st = "live"
        BY <3>2 DEF LiveAt, Live
      <4> QED BY <3>1, <3>4, <3>5, <4>3, <4>4
    <3>8. \/ q = 0 /\ \E pc : Goto(w, pc)
          \/ /\ q # 0
             /\ rel' = [rel EXCEPT ![w].pc = "cancel", ![w].picks = Selected(live, q)]
      <4>1. ~Fails("read")
        BY DEF Fails
      <4>2. live = {} => q = 0
        BY <3>4, FS_EmptySet
      <4> QED BY <1>1, <2>4, <3>3, <3>4, <4>1, <4>2 DEF LoadBookings
    <3> QED BY <3>6, <3>7, <3>8
  <2>5. CASE CancelCourt(w)
    <3>1. r.pc = "cancel"
      BY <1>1, <2>5 DEF CancelCourt
    <3>2. PICK m \in r.picks :
            /\ match' = [match EXCEPT ![m].st = "canceled"]
            /\ rel' = [rel EXCEPT ![w].pc = "row", ![w].m = m, ![w].picks = @ \ {m},
                                  ![w].gone = @ \cup {match[m].court}]
      <4>1. ~Fails("cancel") /\ ~Fails("lost")
        BY DEF Fails
      <4>2. \A m \in r.picks : match[m].st # "canceled"
        BY <1>4, <1>8, <3>1 DEF SpareFrameOK
      <4> QED BY <1>1, <2>5, <4>1, <4>2 DEF CancelCourt
    <3>3. rel' = [rel EXCEPT ![w] = [r EXCEPT !.pc = "row", !.m = m, !.picks = @ \ {m},
                                              !.gone = @ \cup {match[m].court}]]
      BY <1>1, <3>2
    <3>4. f = [r EXCEPT !.pc = "row", !.m = m, !.picks = @ \ {m},
                        !.gone = @ \cup {match[m].court}]
      BY <1>5, <3>3
    <3>5. f.g = r.g /\ f.count = r.count /\ f.picks = r.picks \ {m}
      BY <1>3, <3>4 DEF Frame
    <3>6. m \in LiveAt(game[r.g].slot)
      BY <1>3, <1>4, <1>8, <3>1, <3>2 DEF SpareFrameOK, ApartFrame, LiveAt, Live
    <3>7. LeftAfter(f)' = LeftAfter(r)
      BY <1>3, <2>1, <3>2, <3>5, <3>6, LeftIsSame
    <3>8. \A n \in f.picks : match'[n].st = "live"
      <4>1. \A n \in f.picks : n \in r.picks /\ n # m /\ n \in Matches /\ match[n].st = "live"
        BY <1>3, <1>4, <1>8, <3>1, <3>5 DEF SpareFrameOK
      <4>2. DOMAIN match = Matches
        BY DEF Inv, TablesOK
      <4> QED BY <3>2, <4>1, <4>2
    <3> QED BY <1>4, <1>8, <3>1, <3>5, <3>7, <3>8 DEF SpareFrameOK
  <2>6. CASE MarkRow(w)
    <3>1. /\ rel' = [rel EXCEPT ![w] = [r EXCEPT !.pc = "cancel", !.m = None]]
          /\ r.pc = "row" /\ match' = match
      BY <1>1, <2>6 DEF MarkRow
    <3>2. f = [r EXCEPT !.pc = "cancel", !.m = None]
      BY <1>5, <3>1
    <3>3. f.g = r.g /\ f.count = r.count /\ f.picks = r.picks
      BY <1>3, <3>2 DEF Frame
    <3> QED BY <2>2, <3>1, <3>3
  <2>7. CASE PersistCourts(w)
    <3>1. r.pc = "cancel" /\ match' = match /\ \E pc : Goto(w, pc)
      BY <1>1, <2>7 DEF PersistCourts, bookVars
    <3> QED BY <2>2, <2>3, <3>1
  <2>8. CASE r.pc = "tell" /\ Goto(w, "mark") /\ UNCHANGED bookVars
    BY <2>2, <2>3, <2>8 DEF bookVars
  <2> QED BY <2>1, <2>4, <2>5, <2>6, <2>7, <2>8
<1>9. SpareFrameOK(w, f)'
  <2>1. CASE f.pc = "idle"
    BY <2>1 DEF SpareFrameOK
  <2>2. CASE f.pc # "idle"
    <3>1. \A job : AtJob(w, job)' <=> AtJob(w, job)
      BY <1>3, <2>2 DEF AtJob
    <3>2. Checks(w)' <=> Checks(w)
      BY <3>1 DEF Checks
    <3>3. Capacity(LeftAfter(f), PlayersPerCourt)' = Capacity(LeftAfter(f)', PlayersPerCourt)
      BY DEF Capacity
    <3> QED BY <1>3, <1>6, <1>7, <1>8, <2>2, <3>1, <3>2, <3>3 DEF SpareFrameOK
  <2> QED BY <2>1, <2>2
<1>10. ASSUME NEW u \in Workers PROVE SpareFrameOK(u, rel[u])'
  <2>1. CASE u = w
    BY <1>2, <1>9, <2>1 DEF SpareFrameOK, LeftAfter
  <2>2. CASE u # w
    BY <2>2, OthersRest DEF SpareFrameOK
  <2> QED BY <2>1, <2>2
<1> QED BY <1>10 DEF SpareInv

LEMMA NextKeepsSpare ==
    ASSUME Inv, Alone, "read" \notin FaultKinds, "lost" \notin FaultKinds,
           "cancel" \notin FaultKinds, IsInjective(Preferred), OnePoll, PlanInv, HeldInv,
           ApartInv, ApartInv', ListInv, FollowOK, SpareInv, [Next]_vars
    PROVE  SpareInv'
<1>1. ASSUME NEW w \in Workers, Release(w) PROVE SpareInv'
  BY <1>1, ReleaseKeepsSpare
<1>2. ASSUME \A u \in Workers : rel'[u].pc = "idle" PROVE SpareInv'
  BY <1>2 DEF SpareInv, SpareFrameOK
<1>3. ASSUME NEW w \in Workers, Book(w) PROVE SpareInv'
  <2>1. rel' = rel /\ \A u \in Workers : rel[u].pc = "idle"
    <3>1. at[w] # 0 /\ rel[w].pc = "idle"
      BY <1>3, BookerIsAt
    <3> QED BY <1>3, <3>1, DutyIsAlone DEF Book
  <2> QED BY <1>2, <2>1
<1>4. ASSUME NEW w \in Workers, Panic(w) PROVE SpareInv'
  BY <1>2, <1>4 DEF Panic, Restart, IdleFrame
<1>5. CASE \/ Tick \/ UNCHANGED vars
           \/ \E p \in Pollers : Poll(p)
           \/ \E g \in Games : Join(g) \/ Leave(g)
           \/ \E k \in Creds : CooldownExpires(k)
  <2>1. UNCHANGED <<match, game, rel>>
    BY <1>5 DEF Tick, vars, Poll, Join, Leave, Attend, CooldownExpires, planVars, bookVars
  <2>2. ASSUME NEW u \in Workers, rel[u].pc # "idle" PROVE at'[u] = at[u] /\ now' = now
    <3>1. at[u] # 0 /\ u \in Pollers /\ polled
      BY <2>2, ReleaserIsAt, DutyIsAlone
    <3> QED BY <1>5, <3>1 DEF Tick, Idle, Alone, Poll, PollStart, vars, Join, Leave, Attend,
                               CooldownExpires, clockVars
  <2>3. ASSUME NEW u \in Workers PROVE SpareFrameOK(u, rel[u])'
    <3>1. CASE rel[u].pc = "idle"
      BY <2>1, <3>1 DEF SpareFrameOK
    <3>2. CASE rel[u].pc # "idle"
      <4>1. SpareFrameOK(u, rel[u])
        BY DEF SpareInv
      <4> QED BY <2>1, <2>2, <3>2, <4>1
              DEF SpareFrameOK, Checks, AtJob, LeftAfter, LiveAt, Live
    <3> QED BY <3>1, <3>2
  <2> QED BY <2>3 DEF SpareInv
<1> QED BY <1>1, <1>3, <1>4, <1>5, NobodyAsks, NoCrash DEF Next

LEMMA InitSpare == ASSUME Init PROVE SpareInv
BY DEF Init, ReleaseInit, IdleFrame, SpareInv, SpareFrameOK

LEMMA SpareAreGone ==
    ASSUME Inv, ApartInv, SpareInv
    PROVE  NoIdleCourtKept
<1>1. ASSUME NEW p \in Pollers, rel[p].pc = "tell" \/ (rel[p].pc = "mark" /\ AtJob(p, "final"))
      PROVE  SeatsAt(rel[p].g) < rel[p].count + Capacity(1, PlayersPerCourt)
  <2>1. PICK r : r = rel[p]
    OBVIOUS
  <2>2. p \in Workers /\ SpareFrameOK(p, r) /\ ApartFrame(r)
    BY <2>1 DEF Workers, SpareInv, ApartInv
  <2>3. /\ r.picks = {} /\ Cardinality(r.picks) = 0
        /\ Capacity(LeftAfter(r), PlayersPerCourt) < r.count + Capacity(1, PlayersPerCourt)
    BY <1>1, <2>1, <2>2, FS_EmptySet DEF SpareFrameOK, ApartFrame, Checks
  <2>4. Cardinality(LiveAt(game[r.g].slot)) \in Nat
    BY LiveIsFinite
  <2>5. LeftAfter(r) = Cardinality(LiveAt(game[r.g].slot))
    BY <2>3, <2>4 DEF LeftAfter
  <2> QED BY <2>1, <2>3, <2>5 DEF SeatsAt
<1> QED BY <1>1 DEF NoIdleCourtKept

(* When the reminder speaks, or the final check is through, no reserved    *)
(* court is fully unneeded for the players counted: the rows the job reads *)
(* are the reservations held, the number it computes is the most that can  *)
(* go, as many are selected, and none of them is refused                   *)
(* (cancellation_reminder.go:121, final_court_check.go:114,                *)
(* court_cancellation.go:101 and 247).                                     *)
THEOREM NoCourtIsIdle ==
    ASSUME PollsKeepUp = TRUE, Admins = {}, MaxCrashes = 0, IsInjective(Preferred),
           "write" \notin FaultKinds, "read" \notin FaultKinds, "lost" \notin FaultKinds,
           "cancel" \notin FaultKinds
    PROVE  Spec => []NoIdleCourtKept
<1> DEFINE I == /\ Inv /\ OnePoll /\ PlanInv /\ HeldInv /\ ApartInv /\ ListInv
                /\ FollowOK /\ SpareInv
<1>1. Init => I
  BY InitEstablishesInv, InitPlans, InitHolds, InitIsApart, InitLists, InitFollows, InitSpare
<1>2. I /\ [Next]_vars => I'
  BY NextKeepsInv, OnePollKept, NextKeepsPlan, NextKeepsHeld, NextKeepsApart, NextKeepsLists,
     NextFollowsAlone, NextKeepsSpare DEF Alone
<1>3. I => NoIdleCourtKept
  BY SpareAreGone
<1> QED BY <1>1, <1>2, <1>3, PTL DEF Spec
=============================================================================
