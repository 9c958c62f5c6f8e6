--------------------------- MODULE LeaderboardPost ---------------------------
(***************************************************************************)
(* Results, ratings and the leaderboard that a poll posts for each day     *)
(* with approved results, after the auto-approve job of the same poll.     *)
(* The marker of the group says which day was dealt with last.             *)
(***************************************************************************)
EXTENDS GameResults

CONSTANTS
    WestOfUtc,  \* TRUE for a group whose time zone is west of UTC
    MaxPosts    \* bound: leaderboards posted for one day

ASSUME LeaderboardAssumption == WestOfUtc \in BOOLEAN /\ MaxPosts \in Nat

VARIABLES
    marker,      \* last_leaderboard_posted_for, NoDay when NULL
    posts,       \* [GameDays -> leaderboards posted for the day]
    cursor,      \* [Polls -> the day a poll is at]
    overlapped,  \* two polls were at the leaderboard at once
    inTime       \* results submitted before their day was dealt with

postVars == <<marker, posts, cursor, overlapped, inTime>>
vars == <<status, row, ratingVars, lockVars, pc, job, to, seen, due, botVars, told,
          optVars, now, faults, postVars>>

NoDay == -1
LookbackDays == 5
DayPcs == {"days", "day", "send", "mark"}
At(w, d) == pc[w] \in {"day", "send", "mark"} /\ cursor[w] = d

Init ==
    /\ ResultsInit
    /\ marker = NoDay
    /\ posts = [d \in GameDays |-> 0]
    /\ cursor = [w \in Polls |-> 0]
    /\ overlapped = FALSE
    /\ inTime = {}

-----------------------------------------------------------------------------
OthersUnchanged ==
    UNCHANGED <<status, row, ratingVars, lockVars, job, to, seen, due, botVars, told,
                optVars, now, inTime>>

Later(d, e) == IF d > e THEN d ELSE e

(* The day of the marker in the group's zone: the column is a DATE, which  *)
(* is read as midnight UTC, the evening before west of it.                 *)
MarkerDay == IF WestOfUtc THEN marker - 1 ELSE marker

(* processGroup: from the day after the marker, five days back at most.    *)
(* Days before the first are of no account.                                *)
StartDay ==
    Later(0, IF marker = NoDay THEN Today - LookbackDays
             ELSE Later(MarkerDay + 1, Today - LookbackDays))

StartDays(w) ==
    /\ pc[w] = "days"
    /\ Goto(w, IF StartDay < Today THEN "day" ELSE "idle")
    /\ cursor' = [cursor EXCEPT ![w] = StartDay]
    /\ overlapped' = (overlapped \/ \E v \in Polls \ {w} : pc[v] \in DayPcs)
    /\ UNCHANGED <<marker, posts, faults>> /\ OthersUnchanged

OnDay(d) == {r \in Results : status[r] # "none" /\ row[r].day = d}

(* Mutant: a pending result does not keep its day open.                    *)
ReadDayHasty(w) ==
    /\ pc[w] = "day"
    /\ Works
    /\ Goto(w, IF \E r \in OnDay(cursor[w]) : status[r] \in Rated THEN "send" ELSE "mark")
    /\ UNCHANGED <<marker, posts, cursor, overlapped>> /\ OthersUnchanged

(* processCandidateDay up to the send: a day with an approved result may   *)
(* wait for 24 hours after its games, if they are completed; without one   *)
(* it waits for fresh pending results, and is done when there are none.    *)
ReadDay(w) ==
    /\ pc[w] = "day"
    /\ LET d == cursor[w]
           rated == {r \in OnDay(d) : status[r] \in Rated}
           open == {r \in OnDay(d) : status[r] = "pending" /\ Fresh(r)}
       IN \/ Works /\ rated # {} /\ Goto(w, "send")
          \/ Works /\ rated # {} /\ now < StartOf(d) + 2 /\ Goto(w, "idle")
          \/ Works /\ rated = {} /\ open # {} /\ Goto(w, "idle")
          \/ Works /\ rated = {} /\ open = {} /\ Goto(w, "mark")
          \/ Fails /\ Goto(w, "idle")
    /\ UNCHANGED <<marker, posts, cursor, overlapped>> /\ OthersUnchanged

(* GetLeaderboard: rated players who have not opted out.                   *)
Standings == {p \in Players \ optedOut : folded[p] # {}}

(* Nothing to show, or a failing send: the day is tried again.             *)
SendPost(w) ==
    /\ pc[w] = "send"
    /\ LET d == cursor[w] IN
       \/ /\ Works /\ Standings # {} /\ posts[d] < MaxPosts
          /\ posts' = [posts EXCEPT ![d] = @ + 1]
          /\ Goto(w, "mark")
       \/ Works /\ Standings = {} /\ Goto(w, "idle") /\ UNCHANGED posts
       \/ Fails /\ Goto(w, "idle") /\ UNCHANGED posts
    /\ UNCHANGED <<marker, cursor, overlapped>> /\ OthersUnchanged

NextDay(w) ==
    /\ cursor' = [cursor EXCEPT ![w] = @ + 1]
    /\ Goto(w, IF cursor[w] + 1 < Today THEN "day" ELSE "idle")

(* Mutant: only a silent day moves the marker.                             *)
MarkSilentDay(w) ==
    /\ pc[w] = "mark"
    /\ Works
    /\ marker' = IF OnDay(cursor[w]) = {} THEN cursor[w] ELSE marker
    /\ NextDay(w)
    /\ UNCHANGED <<posts, overlapped>> /\ OthersUnchanged

(* SetLastLeaderboardPostedFor, a failure is logged.                       *)
MarkDay(w) ==
    /\ pc[w] = "mark"
    /\ \/ Works /\ marker' = cursor[w]
       \/ Fails /\ UNCHANGED marker
    /\ NextDay(w)
    /\ UNCHANGED <<posts, overlapped>> /\ OthersUnchanged

Post(w) == StartDays(w) \/ ReadDay(w) \/ SendPost(w) \/ MarkDay(w)

-----------------------------------------------------------------------------
(* A result is in time when no leaderboard has dealt with its day.         *)
SubmitResult(r, a, b, d) ==
    /\ Submit(r, a, b, d)
    /\ inTime' = IF marker < d /\ ~\E w \in Polls : At(w, d) THEN inTime \cup {r}
                 ELSE inTime
    /\ UNCHANGED <<marker, posts, cursor, overlapped>>

ByPlayers ==
    \/ \E w \in Deciders, r \in Results, decision \in Decisions : Press(w, r, decision)
    \/ \E p \in Players : ToggleOptOut(p)

(* What handlers and jobs do once they were started.                       *)
Handlers ==
    \/ \E r \in Results : Bot(r)
    \/ \E w \in Workers : Tx(w) \/ AbortTx(w) \/ Respond(w)
    \/ \E w \in Polls : ListOverdue(w) \/ NextOverdue(w) \/ ListDone(w)

Next ==
    \/ \E r \in Results, a, b \in Players, d \in GameDays : SubmitResult(r, a, b, d)
    \/ (ByPlayers \/ Handlers \/ BotRestart \/ ServiceRestart \/ Tick) /\ UNCHANGED postVars
    \/ \E w \in Polls : Post(w)

Spec == Init /\ [][Next]_vars

(* A poll comes every five minutes, and what was started runs on; time     *)
(* passes.  No player is obliged to press a button.                        *)
Steps(w) ==
    \/ (Tx(w) \/ Respond(w)) /\ UNCHANGED postVars
    \/ w \in Polls /\ (ListOverdue(w) \/ NextOverdue(w) \/ ListDone(w)) /\ UNCHANGED postVars
    \/ w \in Polls /\ Post(w)

Fairness ==
    /\ \A w \in Workers : WF_vars(Steps(w))
    /\ \A r \in Results : WF_vars(Bot(r) /\ UNCHANGED postVars)
    /\ SF_vars(Tick /\ UNCHANGED postVars)

FairSpec == Spec /\ Fairness

-----------------------------------------------------------------------------
(* Every variable has its type: those of decisions and ratings, then those *)
(* of the bot, the clock and the leaderboard.                              *)
RatingTypeOK ==
    /\ status \in [Results -> {"none", "pending"} \cup Decisions \cup Rated]
    /\ row \in [Results -> [author : Nat, opponent : Nat, day : Nat, at : Nat]]
    /\ hasRating \subseteq Players /\ folded \in [Players -> SUBSET Results]
    /\ changes \subseteq [result : Results, player : Players,
                          old : SUBSET Results, new : SUBSET Results]
    /\ rowLock \in [Results -> Workers \cup {NoOne}]
    /\ ratingLock \in [Players -> Workers \cup {NoOne}]
    /\ pc \in [Workers -> InTx \cup DayPcs \cup {"idle", "decide", "answer", "refused",
                                                 "tell", "next"}]
    /\ job \in [Workers -> Results \cup {NoResult}]
    /\ to \in [Workers -> Decisions \cup Rated \cup {"none"}]
    /\ seen \in [Workers -> [Players -> SUBSET Results]]

OtherTypeOK ==
    /\ due \in [Polls -> SUBSET Results]
    /\ flow \in [Results -> {"none", "lost", "ask", "cancel", "closed", "store", "open"}]
    /\ card \in [Results -> {"none", "buttons", "approved", "rejected", "withdrawn",
                             "decided", "auto"}]
    /\ stored \subseteq Results /\ told \in [Results -> Nat]
    /\ optedOut \subseteq Players /\ optOuts \in Nat
    /\ now \in Nat /\ faults \in Nat
    /\ marker \in Int /\ posts \in [GameDays -> Nat] /\ cursor \in [Polls -> Nat]
    /\ overlapped \in BOOLEAN /\ inTime \subseteq Results

TypeOK == RatingTypeOK /\ OtherTypeOK

(* A rating counts exactly the approved results of its player, from the    *)
(* commit on: no approval without its rating and none applied twice, though *)
(* opponent, author and polls decide at once and any statement may fail    *)
(* (game_result_service.go:318, auto_approve_results.go:90).               *)
RatedExactlyOnce ==
    \A p \in Players : folded[p] = {r \in Results : status[r] \in Rated /\ p \in Both(r)}

(* The history of a rating is a chain: every change begins where another   *)
(* one ended, so that no update of a player's rating was lost to another   *)
(* of the same time (rating_service.go:249, player_rating_repo.go).        *)
ChangesFormChain ==
    \A c \in changes :
        /\ c.new = c.old \cup {c.result} /\ c.result \notin c.old
        /\ c.new \subseteq folded[c.player]
        /\ \A e \in changes \ {c} :
             e.player = c.player => c.new \subseteq e.old \/ e.new \subseteq c.old

(* What a transaction waits for, and who has it.                           *)
WaitsFor(w) ==
    CASE pc[w] = "flip" -> {rowLock[job[w]]}
      [] pc[w] \in {"select", "insert", "reselect"} -> {ratingLock[NextPlayer(w)]}
      [] OTHER -> {}

(* Transactions that share players never wait for one another in a circle, *)
(* whoever of the two submitted which result (rating_service.go:101).      *)
NoCircularWait ==
    \A S \in SUBSET Workers : S # {} => \E w \in S : WaitsFor(w) \cap S = {}

(* The opponent's message never claims a decision that was not made, and    *)
(* both players are told at most once that time approved their result, and *)
(* only when it did (result_handlers.go:690-860,                           *)
(* auto_approve_results.go:66-86).                                         *)
CardTellsTruth ==
    \A r \in Results :
        /\ CASE card[r] = "approved" -> status[r] = "approved"
             [] card[r] = "rejected" -> status[r] = "rejected"
             [] card[r] = "withdrawn" -> status[r] = "canceled"
             [] card[r] = "auto" -> status[r] = "auto_approved"
             [] card[r] = "decided" -> status[r] \notin {"none", "pending"}
             [] OTHER -> TRUE
        /\ told[r] <= IF status[r] = "auto_approved" THEN 1 ELSE 0

(* No result is approved by time alone whose opponent was not asked,       *)
(* unless two calls failed or the bot never got to asking, for the answer  *)
(* of the submission was lost or the bot restarted (result_handlers.go:598). *)
SilentNeedsFaults ==
    \A r \in Results :
        status[r] = "auto_approved" /\ card[r] = "none" => flow[r] = "lost" \/ faults >= 2

(* A day's leaderboard is posted once, but for the failure to store the    *)
(* marker and polls that overlap (post_leaderboard.go:177-184).            *)
PostedOnce == ~overlapped => \A d \in GameDays : posts[d] <= 1 + faults

(* A result does not stay pending: it is decided before time ends.         *)
EveryResultDecided ==
    \A r \in Results :
        (status[r] = "pending" /\ row[r].at + AutoApproveTicks <= MaxTicks)
          ~> status[r] \in Decisions \cup Rated

(* A day with an approved result gets its leaderboard, unless something    *)
(* failed, the day was dealt with before, or nobody is left to show.       *)
RatedDayIsPosted ==
    \A r \in Results :
        (status[r] \in Rated /\ r \in inTime /\ row[r].day + 2 <= MaxTicks \div 2)
          ~> (posts[row[r].day] > 0 \/ faults > 0 \/ Standings = {})

-----------------------------------------------------------------------------
(* The inductive invariant of the proofs.                                  *)

(* Statements of a transaction that has changed the result's row.          *)
Decided == InTx \ {"flip"}

(* Who is with a result has one; a transaction is an approval.             *)
JobsAreResults ==
    \A w \in Workers :
        /\ pc[w] \in InTx \cup {"decide", "answer", "refused", "tell"} => job[w] \in Results
        /\ pc[w] \in InTx => to[w] \in Rated
        /\ pc[w] = "decide" => to[w] # "none"

(* A submitted result is between two players.                              *)
RowsAreOfPlayers ==
    \A r \in Results : status[r] # "none" =>
        row[r].author \in Players /\ row[r].opponent \in Players
          /\ row[r].author # row[r].opponent

(* The row's lock is its transaction's, from the change to the end, and    *)
(* nobody else changes the status meanwhile.                               *)
RowLockHeld ==
    /\ \A w \in Workers : pc[w] \in Decided =>
         rowLock[job[w]] = w /\ status[job[w]] = "pending"
    /\ \A r \in Results : rowLock[r] # NoOne =>
         pc[rowLock[r]] \in Decided /\ job[rowLock[r]] = r

(* A rating row is locked for a player of the result, and what was read of *)
(* it is still so.                                                         *)
RatingLockHeld ==
    \A w \in Workers : \A p \in Held(w) :
        pc[w] \in Decided /\ p \in Both(job[w]) /\ seen[w][p] = folded[p]

(* Both rows are locked before either rating is stored.                    *)
BothAreLocked ==
    \A w \in Workers :
        /\ pc[w] \in {"audit", "commit"} => Left(w) = {}
        /\ pc[w] \in {"select", "insert", "reselect"} => Left(w) # {}

(* The conjunction is what every step preserves                            *)
(* (game_result_service.go:318-342, rating_service.go:82-194, 249-292).    *)
RatingInv ==
    /\ TypeOK /\ JobsAreResults /\ RowsAreOfPlayers /\ RowLockHeld
    /\ RatingLockHeld /\ BothAreLocked /\ RatedExactlyOnce /\ ChangesFormChain

-----------------------------------------------------------------------------
Ledger == INSTANCE ResultLedger WITH
    between <- [r \in Results |-> IF status[r] = "none" THEN {} ELSE Both(r)],
    standing <- folded

(* Results and ratings keep what ResultLedger promises                     *)
(* (game_result_service.go:318-342, auto_approve_results.go:90-109).       *)
ImplementsLedger == Ledger!Spec
=============================================================================
