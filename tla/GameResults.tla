---------------------------- MODULE GameResults ----------------------------
(***************************************************************************)
(* Results of games between two players: a player submits one, the bot     *)
(* asks the opponent, and the opponent, the author or the 48-hour job      *)
(* decides it.  An approval changes the ratings of both players in the     *)
(* transaction that changes the result's status.                           *)
(*                                                                         *)
(* Deciders are requests to the management service that the bot sends for  *)
(* a pressed button; Polls are scheduler polls inside the auto-approve     *)
(* job.  Time advances in half days.                                       *)
(***************************************************************************)
EXTENDS Integers, FiniteSets

CONSTANTS
    Results,           \* bound: rows of game_results
    Players,           \* player ids, which order the row locks
    Deciders,          \* bound: decisions under way at once
    Polls,             \* bound: polls under way at once
    NoOne,             \* no worker
    NoResult,          \* a worker's job when it has none
    PoolSize,          \* connections of the database pool (MaxConns)
    GameDays,          \* days with a game in the evening
    ResultWindowDays,  \* config.ResultWindowDays
    MaxTicks,          \* bound: half days
    MaxOptOuts,        \* bound: changes of a results_opt_out flag
    MaxFaults          \* bound: failing calls, lost answers, restarts

Workers == Deciders \cup Polls

ASSUME ResultsAssumption ==
    /\ Players \subseteq Nat \ {0}
    /\ GameDays \subseteq Nat
    /\ PoolSize \in Nat /\ ResultWindowDays \in Nat
    /\ MaxTicks \in Nat /\ MaxFaults \in Nat /\ MaxOptOuts \in Nat
    /\ NoOne \notin Workers /\ NoResult \notin Results
    /\ Deciders \cap Polls = {}

ASSUME PlayersAreFinite == IsFiniteSet(Players)

VARIABLES
    status,      \* [Results -> game_results.status, "none" without a row]
    row,         \* [Results -> the row's players, game day and time]
    hasRating,   \* players with a row in player_ratings
    folded,      \* [Players -> the results the player's rating contains]
    changes,     \* rows of rating_changes
    rowLock,     \* [Results -> the transaction that changed the row]
    ratingLock,  \* [Players -> the transaction that holds the rating row]
    pc,          \* [Workers -> the statement or call a worker is at]
    job,         \* [Workers -> the result in hand]
    to,          \* [Workers -> the status it is to get]
    seen,        \* [Workers -> [Players -> what its transaction read]]
    due,         \* [Polls -> results of its list still to approve]
    flow,        \* [Results -> where the bot is with the submission]
    card,        \* [Results -> what the opponent's message says]
    stored,      \* results whose approval message id is stored
    told,        \* [Results -> times both players were told of an approval]
    optedOut,    \* players with results_opt_out
    optOuts,     \* changes of that flag
    now,         \* half days since the first day began
    faults       \* calls that failed

ratingVars == <<hasRating, folded, changes>>
lockVars == <<rowLock, ratingLock>>
botVars == <<flow, card, stored>>
optVars == <<optedOut, optOuts>>

NoRow == [author |-> 0, opponent |-> 0, day |-> 0, at |-> 0]
Rated == {"approved", "auto_approved"}
Decisions == {"approved", "rejected", "canceled"}

(* Half days: a result may be approved by the job after 48 hours, and      *)
(* keeps its day open on the leaderboard for 49, so that for an hour of    *)
(* the fourth half day it is both.  A game starts in the evening.          *)
AutoApproveTicks == 4
StartOf(d) == 2 * d + 1
Today == now \div 2
Overdue(r) == now - row[r].at >= AutoApproveTicks
Fresh(r) == now - row[r].at <= AutoApproveTicks

Both(r) == {row[r].author, row[r].opponent}
Held(w) == {p \in Players : ratingLock[p] = w}
Left(w) == Both(job[w]) \ Held(w)
Least(S) == CHOOSE p \in S : \A q \in S : p <= q

(* Mutant: the author's row first, as the result names the players.        *)
AuthorFirst(w) ==
    IF row[job[w]].author \in Left(w) THEN row[job[w]].author
    ELSE row[job[w]].opponent

(* The rating row getOrInitForUpdate asks for next: ascending player ids.  *)
NextPlayer(w) == Least(Left(w))

InTx == {"flip", "select", "insert", "reselect", "audit", "commit"}
Connections == Cardinality({w \in Workers : pc[w] \in InTx})
ConnectionFree == Connections < PoolSize

Works == UNCHANGED faults
Fails == faults < MaxFaults /\ faults' = faults + 1

ResultsInit ==
    /\ status = [r \in Results |-> "none"]
    /\ row = [r \in Results |-> NoRow]
    /\ hasRating = {}
    /\ folded = [p \in Players |-> {}]
    /\ changes = {}
    /\ rowLock = [r \in Results |-> NoOne]
    /\ ratingLock = [p \in Players |-> NoOne]
    /\ pc = [w \in Workers |-> "idle"]
    /\ job = [w \in Workers |-> NoResult]
    /\ to = [w \in Workers |-> "none"]
    /\ seen = [w \in Workers |-> [p \in Players |-> {}]]
    /\ due = [w \in Polls |-> {}]
    /\ flow = [r \in Results |-> "none"]
    /\ card = [r \in Results |-> "none"]
    /\ stored = {}
    /\ told = [r \in Results |-> 0]
    /\ optedOut = {} /\ optOuts = 0
    /\ now = 0 /\ faults = 0

Goto(w, l) == pc' = [pc EXCEPT ![w] = l]
Stays(w, l) == Goto(w, l) /\ UNCHANGED <<job, to>>

(* The worker is through with its result.                                  *)
Leaves(w, l) ==
    /\ Goto(w, l)
    /\ job' = [job EXCEPT ![w] = NoResult]
    /\ to' = [to EXCEPT ![w] = "none"]

-----------------------------------------------------------------------------
(* The bot and the author.                                                 *)

(* GameInResultWindow.                                                     *)
InWindow(d) == StartOf(d) <= now /\ Today - d \in 0..ResultWindowDays

(* GameResultService.Submit: both players took part and neither opted out. *)
(* The answer may be lost on its way to the bot.                           *)
Submit(r, a, b, d) ==
    /\ status[r] = "none"
    /\ a # b /\ {a, b} \cap optedOut = {}
    /\ InWindow(d)
    /\ status' = [status EXCEPT ![r] = "pending"]
    /\ row' = [row EXCEPT ![r] = [author |-> a, opponent |-> b, day |-> d, at |-> now]]
    /\ \/ Works /\ flow' = [flow EXCEPT ![r] = "ask"]
       \/ Fails /\ flow' = [flow EXCEPT ![r] = "lost"]
    /\ UNCHANGED <<ratingVars, lockVars, pc, job, to, seen, due, card, stored,
                   told, optVars, now>>

BotUnchanged ==
    UNCHANGED <<row, ratingVars, lockVars, pc, job, to, seen, due, told, optVars, now>>

(* handleResultSubmit sends the opponent a message with the two buttons.   *)
(* An error may hide a message that was delivered.                         *)
SendCard(r) ==
    /\ flow[r] = "ask"
    /\ \/ /\ Works
          /\ card' = [card EXCEPT ![r] = "buttons"]
          /\ flow' = [flow EXCEPT ![r] = "store"]
       \/ /\ Fails
          /\ card' \in {card, [card EXCEPT ![r] = "buttons"]}
          /\ flow' = [flow EXCEPT ![r] = "cancel"]
    /\ UNCHANGED <<status, stored>> /\ BotUnchanged

(* Mutant: the result stays when the opponent cannot be reached.           *)
LeaveUndelivered(r) ==
    /\ flow[r] = "cancel"
    /\ flow' = [flow EXCEPT ![r] = "closed"]
    /\ Works
    /\ UNCHANGED <<status, card, stored>> /\ BotUnchanged

(* The result of an opponent who could not be asked is canceled; an error  *)
(* of the call is ignored.                                                 *)
CancelUndelivered(r) ==
    /\ flow[r] = "cancel"
    /\ flow' = [flow EXCEPT ![r] = "closed"]
    /\ \/ /\ Works /\ rowLock[r] = NoOne
          /\ status' = [status EXCEPT ![r] = IF @ = "pending" THEN "canceled" ELSE @]
       \/ Fails /\ UNCHANGED status
    /\ UNCHANGED <<card, stored>> /\ BotUnchanged

(* SetApprovalMessage, its error ignored; then the author gets a button to *)
(* withdraw.                                                               *)
StoreCard(r) ==
    /\ flow[r] = "store"
    /\ flow' = [flow EXCEPT ![r] = "open"]
    /\ \/ Works /\ stored' = stored \cup {r}
       \/ Fails /\ UNCHANGED stored
    /\ UNCHANGED <<status, card>> /\ BotUnchanged

(* The bot stops and starts: what it was doing with a submission is over.  *)
BotRestart ==
    /\ \E r \in Results : flow[r] \in {"ask", "cancel", "store"}
    /\ Fails
    /\ flow' = [r \in Results |->
                  IF flow[r] \in {"ask", "cancel", "store"} THEN "lost" ELSE flow[r]]
    /\ UNCHANGED <<status, card, stored>> /\ BotUnchanged

(* A button starts a decision; decide() lets the opponent approve and      *)
(* reject, and the author withdraw.                                        *)
Press(w, r, decision) ==
    /\ w \in Deciders /\ pc[w] = "idle"
    /\ IF decision = "canceled" THEN flow[r] = "open" ELSE card[r] = "buttons"
    /\ Goto(w, "decide")
    /\ job' = [job EXCEPT ![w] = r]
    /\ to' = [to EXCEPT ![w] = decision]
    /\ UNCHANGED <<status, row, ratingVars, lockVars, seen, due, botVars, told,
                   optVars, now, faults>>

-----------------------------------------------------------------------------
(* Decisions.  Without a rating a single statement decides.                *)

DecisionUnchanged == UNCHANGED <<row, due, botVars, told, optVars, now>>

(* GameResultRepo.Decide, the statement waits for the row's lock.          *)
Decide(w) ==
    /\ pc[w] = "decide" /\ to[w] \notin Rated
    /\ ConnectionFree
    /\ LET r == job[w] IN
       \/ /\ Works /\ rowLock[r] = NoOne
          /\ IF status[r] = "pending"
             THEN status' = [status EXCEPT ![r] = to[w]] /\ Stays(w, "answer")
             ELSE UNCHANGED status /\ Stays(w, "refused")
       \/ Fails /\ Leaves(w, "idle") /\ UNCHANGED status
    /\ UNCHANGED <<ratingVars, lockVars, seen>> /\ DecisionUnchanged

(* With a rating: pool.Begin.                                              *)
BeginTx(w) ==
    /\ pc[w] = "decide" /\ to[w] \in Rated
    /\ ConnectionFree
    /\ Stays(w, "flip")
    /\ UNCHANGED <<status, ratingVars, lockVars, seen, faults>> /\ DecisionUnchanged

(* Mutant: the job stops for good at the first result that fails.          *)
StopAtError(w) == IF w \in Polls THEN "stuck" ELSE "idle"

AfterRollback(w) == IF w \in Polls THEN "next" ELSE "idle"

(* Mutant: the status is read, not changed, at the start.                  *)
FlipWithoutLock(w) ==
    /\ pc[w] = "flip"
    /\ IF status[job[w]] = "pending" THEN Stays(w, "select")
       ELSE IF w \in Polls THEN Leaves(w, "next") ELSE Stays(w, "refused")
    /\ UNCHANGED <<rowLock, status, ratingVars, ratingLock, seen, faults>>
    /\ DecisionUnchanged

(* DecideInTx.  A row another transaction has changed is waited for, and   *)
(* its status is looked at again when that transaction has ended.          *)
FlipStatus(w) ==
    /\ pc[w] = "flip" /\ rowLock[job[w]] = NoOne
    /\ IF status[job[w]] = "pending"
       THEN rowLock' = [rowLock EXCEPT ![job[w]] = w] /\ Stays(w, "select")
       ELSE /\ IF w \in Polls THEN Leaves(w, "next") ELSE Stays(w, "refused")
            /\ UNCHANGED rowLock
    /\ UNCHANGED <<status, ratingVars, ratingLock, seen, faults>> /\ DecisionUnchanged

(* The rating row p is locked and read; after the second one both are.     *)
TakeRating(w, p) ==
    /\ ratingLock[p] = NoOne
    /\ ratingLock' = [ratingLock EXCEPT ![p] = w]
    /\ seen' = [seen EXCEPT ![w][p] = folded[p]]
    /\ Stays(w, IF Left(w) = {p} THEN "audit" ELSE "select")

ApplyUnchanged == UNCHANGED <<status, ratingVars, rowLock, faults>> /\ DecisionUnchanged

(* getOrInitForUpdate: SELECT ... FOR UPDATE finds the row or finds none.  *)
SelectRating(w) ==
    /\ pc[w] = "select"
    /\ LET p == NextPlayer(w) IN
       IF p \in hasRating THEN TakeRating(w, p)
       ELSE Stays(w, "insert") /\ UNCHANGED <<ratingLock, seen>>
    /\ ApplyUnchanged

(* INSERT ... ON CONFLICT DO NOTHING waits for an insert not yet committed *)
(* and returns no row when there is one by then.                           *)
InsertRating(w) ==
    /\ pc[w] = "insert"
    /\ LET p == NextPlayer(w) IN
       IF p \in hasRating THEN Stays(w, "reselect") /\ UNCHANGED <<ratingLock, seen>>
       ELSE TakeRating(w, p)
    /\ ApplyUnchanged

(* Mutant: the first read takes the defaults for granted.                  *)
ReselectDefaults(w) ==
    /\ pc[w] = "reselect"
    /\ LET p == NextPlayer(w) IN
       /\ ratingLock[p] = NoOne
       /\ ratingLock' = [ratingLock EXCEPT ![p] = w]
       /\ seen' = [seen EXCEPT ![w][p] = {}]
       /\ Stays(w, IF Left(w) = {p} THEN "audit" ELSE "select")
    /\ ApplyUnchanged

(* The row of the concurrent insert is read under its lock as well.        *)
ReselectRating(w) ==
    /\ pc[w] = "reselect"
    /\ TakeRating(w, NextPlayer(w))
    /\ ApplyUnchanged

(* RecordRatingUpdated takes a second connection from the pool, inside     *)
(* the transaction; whether the insert works makes no difference.          *)
RecordRating(w) ==
    /\ pc[w] = "audit" /\ ConnectionFree
    /\ Stays(w, "commit")
    /\ UNCHANGED <<ratingLock, seen>> /\ ApplyUnchanged

EndTx(w) ==
    /\ seen' = [seen EXCEPT ![w] = [p \in Players |-> {}]]
    /\ rowLock' = [r \in Results |-> IF rowLock[r] = w THEN NoOne ELSE rowLock[r]]
    /\ ratingLock' = [p \in Players |-> IF ratingLock[p] = w THEN NoOne ELSE ratingLock[p]]

Change(w, p) == [result |-> job[w], player |-> p,
                 old |-> seen[w][p], new |-> seen[w][p] \cup {job[w]}]

(* The status, both ratings and both rows of the history become visible.   *)
(* The answer to a decider may be lost.                                    *)
CommitTx(w) ==
    /\ pc[w] = "commit"
    /\ status' = [status EXCEPT ![job[w]] = to[w]]
    /\ hasRating' = hasRating \cup Both(job[w])
    /\ folded' = [p \in Players |-> IF p \in Both(job[w]) THEN seen[w][p] \cup {job[w]}
                                    ELSE folded[p]]
    /\ changes' = changes \cup {Change(w, p) : p \in Both(job[w])}
    /\ EndTx(w)
    /\ \/ Works /\ Stays(w, IF w \in Polls THEN "tell" ELSE "answer")
       \/ Fails /\ Leaves(w, AfterRollback(w))
    /\ DecisionUnchanged

(* Mutant: the status change is committed although the rating failed.      *)
AbortRatingOnly(w) ==
    /\ pc[w] \in InTx \ {"audit"}
    /\ Fails
    /\ status' = [status EXCEPT ![job[w]] =
                    IF rowLock[job[w]] = w THEN to[w] ELSE @]
    /\ EndTx(w)
    /\ Leaves(w, AfterRollback(w))
    /\ UNCHANGED ratingVars /\ DecisionUnchanged

(* A statement fails: rollback.                                            *)
AbortTx(w) ==
    /\ pc[w] \in InTx \ {"audit"}
    /\ Fails
    /\ EndTx(w)
    /\ Leaves(w, AfterRollback(w))
    /\ UNCHANGED <<status, ratingVars>> /\ DecisionUnchanged

-----------------------------------------------------------------------------
(* What is shown of a decision.                                            *)

TellUnchanged ==
    UNCHANGED <<status, row, ratingVars, lockVars, seen, due, stored, optVars, now>>

Says(w) == IF to[w] \in {"approved", "rejected"} THEN to[w] ELSE "withdrawn"

(* handleResultApprove, -Reject and -Withdraw with an answer: the card is  *)
(* edited, for a withdrawal only when its id was stored.                   *)
Answer(w) ==
    /\ pc[w] = "answer"
    /\ LET r == job[w] IN
       /\ \/ /\ Works
             /\ IF to[w] = "canceled" /\ r \notin stored THEN UNCHANGED card
                ELSE card' = [card EXCEPT ![r] = Says(w)]
          \/ Fails /\ UNCHANGED card
       /\ flow' = [flow EXCEPT ![r] = IF to[w] = "canceled" THEN "closed" ELSE @]
    /\ Leaves(w, "idle")
    /\ UNCHANGED told /\ TellUnchanged

(* Mutant: a refused decision is answered like a decision.                 *)
RefusedLooksDone(w) ==
    /\ pc[w] = "refused"
    /\ Works
    /\ card' = [card EXCEPT ![job[w]] = Says(w)]
    /\ Leaves(w, "idle")
    /\ UNCHANGED <<flow, told>> /\ TellUnchanged

(* ErrGameResultNotPending: only an approval edits the card.               *)
Refused(w) ==
    /\ pc[w] = "refused"
    /\ \/ Works /\ card' = IF to[w] = "approved" THEN [card EXCEPT ![job[w]] = "decided"]
                           ELSE card
       \/ Fails /\ UNCHANGED card
    /\ Leaves(w, "idle")
    /\ UNCHANGED <<flow, told>> /\ TellUnchanged

(* After autoApproveOne: the card loses its buttons, both players are told. *)
TellAutoApproved(w) ==
    /\ pc[w] = "tell"
    /\ told' = [told EXCEPT ![job[w]] = @ + 1]
    /\ \/ Works /\ card' = IF job[w] \in stored THEN [card EXCEPT ![job[w]] = "auto"]
                           ELSE card
       \/ Fails /\ UNCHANGED card
    /\ Leaves(w, "next")
    /\ UNCHANGED flow /\ TellUnchanged

-----------------------------------------------------------------------------
(* runAutoApprove.                                                         *)

ListUnchanged ==
    UNCHANGED <<status, row, ratingVars, lockVars, seen, botVars, told, optVars, now>>

(* ListPendingOlderThan.                                                   *)
ListOverdue(w) ==
    /\ w \in Polls /\ pc[w] = "idle"
    /\ \/ /\ Works /\ Goto(w, "next")
          /\ due' = [due EXCEPT ![w] = {r \in Results : status[r] = "pending" /\ Overdue(r)}]
       \/ Fails /\ Goto(w, "days") /\ UNCHANGED due
    /\ UNCHANGED <<job, to>> /\ ListUnchanged

(* Each result of the list, whatever became of the one before.             *)
NextOverdue(w) ==
    /\ w \in Polls /\ pc[w] = "next"
    /\ \E r \in due[w] :
         /\ job' = [job EXCEPT ![w] = r]
         /\ to' = [to EXCEPT ![w] = "auto_approved"]
         /\ due' = [due EXCEPT ![w] = @ \ {r}]
    /\ Goto(w, "decide")
    /\ UNCHANGED faults /\ ListUnchanged

ListDone(w) ==
    /\ w \in Polls /\ pc[w] = "next" /\ due[w] = {}
    /\ Goto(w, "days")
    /\ UNCHANGED <<job, to, due, faults>> /\ ListUnchanged

-----------------------------------------------------------------------------
(* The management service stops and starts: its transactions roll back.    *)
ServiceRestart ==
    /\ \E w \in Workers : pc[w] # "idle"
    /\ Fails
    /\ pc' = [w \in Workers |-> "idle"]
    /\ due' = [w \in Polls |-> {}]
    /\ rowLock' = [r \in Results |-> NoOne]
    /\ ratingLock' = [p \in Players |-> NoOne]
    /\ seen' = [w \in Workers |-> [p \in Players |-> {}]]
    /\ job' = [w \in Workers |-> NoResult]
    /\ to' = [w \in Workers |-> "none"]
    /\ UNCHANGED <<status, row, ratingVars, botVars, told, optVars, now>>

ToggleOptOut(p) ==
    /\ optOuts < MaxOptOuts /\ optOuts' = optOuts + 1
    /\ optedOut' = (optedOut \ {p}) \cup ({p} \ optedOut)
    /\ UNCHANGED <<status, row, ratingVars, lockVars, pc, job, to, seen, due,
                   botVars, told, now, faults>>

(* Half a day passes; no poll and no transaction takes as long.            *)
Quiet ==
    /\ \A w \in Polls : pc[w] = "idle"
    /\ \A w \in Deciders : pc[w] \notin InTx
    /\ \A r \in Results : flow[r] \notin {"ask", "cancel", "store"}

Tick ==
    /\ now < MaxTicks /\ Quiet
    /\ now' = now + 1
    /\ UNCHANGED <<status, row, ratingVars, lockVars, pc, job, to, seen, due,
                   botVars, told, optVars, faults>>

Tx(w) ==
    \/ BeginTx(w) \/ FlipStatus(w)
    \/ SelectRating(w) \/ InsertRating(w) \/ ReselectRating(w)
    \/ RecordRating(w) \/ CommitTx(w)

Bot(r) == SendCard(r) \/ CancelUndelivered(r) \/ StoreCard(r)

Respond(w) == Decide(w) \/ Answer(w) \/ Refused(w) \/ TellAutoApproved(w)
=============================================================================
