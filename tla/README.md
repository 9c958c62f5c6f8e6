# Verification of squash-bot

TLA+ models, TLC runs and TLAPS proofs about the squash-bot repository
(`src/`). The bot books courts at an external platform, announces games to a
Telegram group, gives courts back that nobody needs and closes the day. What is
hard about it is that four parties act on the same courts — cron polls, admin
requests, the platform, the players — that almost every step is a call that can
fail, and that nothing holds platform, database and chat together in one
transaction. Around the courts, players submit results that change ratings,
administrators manage venues, accounts and rights, and several dialogues with
one user run in one chat.

Paths below are relative to the repository; `service/` stands for
`cmd/management/service/`, `storage/` for `cmd/management/storage/`.

## 1. Inventory

| Part | State it keeps | Operations | What is hard | What makes it correct |
|---|---|---|---|---|
| Scheduler (`main.go`, `service/scheduler.go`) | none; one goroutine per cron firing | `RunScheduledTasks`: the jobs in a fixed order | a poll that outlives its interval overlaps the next; no recover | every due job is done, the process stays up |
| Release jobs (`cancellation_reminder.go`, `halfway_court_check.go`, `final_court_check.go`, `court_cancellation.go`) | flags of a `games` row; `court_bookings.canceled_at` | query, count, choose courts, cancel, mark row, store list, tell, set flag | each of these may fail alone; the game list is a snapshot | nobody loses a seat, no idle court stays, rows tell the truth |
| Day-after cleanup (`day_after_cleanup.go`) | `games.completed` | edit and unpin, complete, close the date's rows | one five-minute window a day | every game ends, no row stays open |
| Automatic booking (`auto_booking.go`, `booking_core.go`) | `auto_booking_results`, `court_bookings` | per slot: dedup, list free courts, rotate accounts, reserve, save row, save result, create game, link | several polls per window; lost answers; accounts with limits and cooldowns | a slot is booked once, each reservation has a row, each result a game |
| Booking reminder (`booking_reminder.go`) | `venues.last_booking_reminder_at` | publish or create-and-publish per result | failures in the middle, once a day | a booked slot becomes one announced game |
| Game service (`game_service.go`, `api/games.go`) | `games` | create, publish, edit courts, book more, remove courts and cancel | runs beside the polls on the same rows | the admin's list survives, removals reach the platform |
| Booking platform | reservations per court and time | list, reserve, cancel | external, refuses, loses answers | — |
| Participation (`participation_service.go`, `storage/guest_repo.go`) | participations, guests | join, skip, add and remove guests | guest capacity under a lock that joins do not take | occupancy, announcements that follow it |
| Message edits (`game_notifier.go`, worker in `cmd/telegram/telegram/bot.go`) | striped locks; running/pending bits | edit the announcement | edits run in goroutines; triggers while one ends | the last edit shows the last state, no trigger lost |
| Credentials (`venue_credential_service.go`) | accounts, `last_error_at` | add, remove, list for booking | check, then delete | no active row names a deleted account |
| Results and ratings (`game_result_service.go`, `auto_approve_results.go`, `rating_service.go`, the bot's `result_handlers.go`) | `game_results`, `player_ratings`, `rating_changes` | submit, ask the opponent, approve, reject, withdraw, auto-approve after 48 hours, apply the ratings in the approving transaction | opponent, author and job decide at once; row locks and a pool of connections; the opponent may not be reached | one decision, one rating update, nobody is told what did not happen |
| Leaderboard post (`post_leaderboard.go`) | a marker per group | choose the day, wait for open results, send, store the marker | a failure between send and store; results decided late | a day with an approved result is posted, once |
| Changelog (`changelog_announcer.go`) | one marker | send to all groups, then record | a failure between the two | — |
| Users (`storage/user_repo.go`, `api/users.go`) | identities, owners | resolve identity, seed, grant and revoke | races on the unique key, the last owner | one user per identity, never no owner |
| Admin groups resolver (`admin_groups_resolver.go`) | a cache per user | scan all groups, share a scan, cache a full one | the scan takes long, rights change meanwhile | what is cached never goes back |
| Feature flags, audit trail (`storage/feature_flag_repo.go`) | the override, append-only events | lock, write, record | two changes at once | the events tell the flag's history |
| Venues and groups (`api/venues.go`, `api/groups.go`) | groups, venues, the owner's permission | allow, disallow, remove, create, edit, delete | a check and a write in two statements, beside the jobs | a forbidden group is not booked, a booked court keeps its account |
| Eversports service (`cmd/booking`) | a client object and a cookie session per account | login, list, five-step checkout, cancel | sessions that die anywhere, two calls that share one, lost answers | no call is carried out twice, each knows its own match, each is answered |
| Telegram bot (`cmd/telegram`) | a map per kind of dialogue, by chat, of pointers | texts, commands, buttons; up to 50 handlers at once | buttons of old messages, two handlers on one dialogue, edits of what was read before | a dialogue makes one game of its own choices; edits leave a venue whole |
| Web gateway, texts, configuration, migrations | none between requests | — | — | — |

How they meet: cron starts the scheduler; the jobs and the HTTP API of the
management service both call the booking service, which calls Eversports; they
share the tables `games`, `auto_booking_results` and `court_bookings` without a
common transaction; the telegram and web services call the API; announcements
are edited by the management service and, for button presses, by the telegram
service. The approving transaction of a result is the only one that spans two
components (`game_results` and the ratings). Permissions are checked by the
bot, by the gateway and again by the API, each time anew, but for the cache of
the resolver.

## 2. Modules

| Module | Models | Extends |
|---|---|---|
| `CourtSelection` | the pure decisions: capacity, quotas, which courts to give back, which to offer, the difference of two court lists, the reminder's scenario | — |
| `CourtState` | the tables, the platform, the clock, failures | `CourtSelection` |
| `ReleaseFlow` | the three release jobs, the cleanup, an admin's edits and removals | `CourtState` |
| `BookingFlow` | auto-booking, the 10:00 publication, on-demand booking, an admin's own games | `CourtState` |
| `CourtLifecycle` | both flows together with polls, players, the clock, restarts and panics; `Spec`, `FairSpec` | `ReleaseFlow`, `BookingFlow` |
| `CourtLedger` | abstract specification: what `court_bookings` promises about reservations | — |
| `CourtProperties` | the properties of the lifecycle | `CourtLifecycle`, instance of `CourtLedger` |
| `CourtLifecycleProofs` | the theorems | `CourtProperties`, `CourtSelectionLemmas` |
| `Roster` | the players, guests and courts of one game: the statements that change them and the guest transaction with its advisory lock | — |
| `Announcement` | that game's message: the changes, `GameNotifier`, the bot's coalescing worker, the publisher; its properties | `Roster` |
| `AnnouncementProofs` | its theorems | `Announcement` |
| `GameResults` | a result's submission, the message to the opponent, the decisions, the 48-hour job, and the rating transaction statement by statement | — |
| `LeaderboardPost` | the poll that posts the days beside all that; `Spec`, `FairSpec` and the properties of results and leaderboard | `GameResults`, instance of `ResultLedger` |
| `ResultLedger` | abstract specification: what players are promised of results and ratings | — |
| `GameResultsProofs` | its theorems | `LeaderboardPost` |
| `Checkout` | the booking service: calls of one account, client objects, session, login, checkout, cancellation, reads, restart | instance of `BookCall` |
| `BookCall` | abstract specification: what a caller of the booking service is promised | — |
| `CheckoutProofs` | its theorems | `Checkout` |
| `ApiRequests` | requests of the administration as goroutines that take one statement at a time | — |
| `Accounts` | identities, owners, the feature flag and its audit trail, the rights cache | `ApiRequests` |
| `VenueDesk` | group, venue, credentials, the rows of booked courts, and the jobs beside them | `Accounts` |
| `Administration` | all of them together | `VenueDesk` |
| `AdministrationProofs` | its theorems | `Administration` |
| `Chat` | one private chat with the bot: maps of pending dialogues, pointers, handlers, commands, order of texts | — |
| `GameDialogue` | the `/newgame` dialogue up to the game | `Chat` |
| `VenueDialogue` | the dialogues that add and edit a venue, its sports, times and accounts | `Chat` |
| `Dialogue` | all dialogues of the chat side by side, with constants for TLC | `GameDialogue`, `VenueDialogue` |
| `DialogueProofs` | its theorems | `Dialogue` |
| `CourtSelectionMC` | reference definitions of the pure decisions, and a walk through their inputs | `CourtSelection` |
| `CourtSelectionLemmas` | what the operators of `CourtSelection` compute, for lists of any length | `CourtSelection` |
| `CourtSelectionProofs` | the theorems of the run `court_selection` | `CourtSelectionMC`, `CourtSelectionLemmas` |
| `CourtMC` | constants of the lifecycle for TLC | `CourtProperties` |

### Correspondence

- One venue, one group and one game date. Its preferred times are `Slots`; two
  of them are two sessions of one evening that use the same court numbers.
- A poll is a member of `Pollers`. `at[p]` is the index of the job it is at.
  A worker's local variables — the list of games as it was read, the head
  count, the rows chosen — are its frame `rel[w]` or `bkg[w]`; the field `pc`
  says before which call it stands. A frame disappears when the process does.
- Every call that another worker can observe or that can fail is a step of its
  own: `QueryGames`, `CountPlayers`, `LoadBookings`, `CancelCourt`, `MarkRow`,
  `PersistCourts`, `SendReminder`, `MarkDone` for the release jobs;
  `DedupSlot`, `ListFree`, `BookCourt`, `SaveBooking`, `SaveResult`,
  `CreateGame`, `LinkResult`, `AnnounceResult`, `StampReminder` for booking.
  An early return of the code is a disjunct that moves on to the next game or
  slot, or to the next job.
- A call works (`Works`) or fails (`Fails(kind)`); `FaultKinds` says which
  kinds an instance allows: database reads and writes, a refused booking or
  cancellation, an answer that was lost though the platform acted, Telegram.
- Time counts poll intervals. `EventTicks` is the five-minute window after an
  hour, `PollWindow` half a poll interval. A tick need not be polled and a poll
  may outlive its tick, unless `PollsKeepUp`.
- The division by `game.CourtsCount` is the action `Panic`: the goroutine has
  no recover, so the process ends and is started again.
- `FlagLoaded` says whether the query behind `GetByID` fills
  `Venue.AutoBookingEnabled`. In the code it does not (`FALSE`). The run
  `overlap` sets it, as the mocks of the service tests do, to look at
  the code behind the guard.

In `Roster` and `Announcement`:

- One game. Every change sets off an edit the way its handler does it: the
  players' own changes count a goroutine of `EditGameMessage` in `queued`
  (`ThenEdits`), an admin's count a handler of the bot before `schedule()` in
  `replies` (`ThenReplies`), a job of the scheduler edits after its release.
- `Editors` are the goroutines inside `EditGameMessage`; `lock` is the game's
  mutex, held from before the first read until after the send. `worker` is the
  `gameEditWorker` with its two flags and the frame of `doEditGameMessage`.
  `pub` is the frame of `PublishGame`, or of an announcement that the bot or
  the 10:00 job sends for a game it has just created.
- All of them read the game, then the players, then the guests, in a step each,
  and send what they have read. What a message shows is the record of the three
  (`View`); `Current` is that record of the tables.
- `excused` notes that the message may be stale for a reason the code gives no
  promise about: a call failed, a change came while a message without an id was
  on its way, or an edit of the bot overlapped one of the management service.
  The next edit that runs alone, or a new publication, withdraws the excuse.
- `tap` are the transactions that add a guest, from the count under the
  advisory lock to the insert.

In `GameResults` and `LeaderboardPost`:

- `Deciders` are requests for a pressed button, `Polls` are polls inside the
  auto-approve or the leaderboard job. `pc` stands before the next statement:
  `flip` (the conditional update of the status), `select`, `insert`, `reselect`
  (`getOrInitForUpdate`), `audit`, `commit`. `rowLock` and `ratingLock` are the
  database's row locks, `PoolSize` its connections. A rollback is possible at
  every statement and takes back all of the transaction, which is why nothing
  but the locks changes before the commit.
- A rating is the set of results it counts (`folded`), a change is the pair of
  sets before and after: the Glicko-2 arithmetic is real-valued, what can be
  lost or counted twice is not.
- `flow`, `card`, `stored` are the bot's side: who was asked, what the message
  shows, whether its id is stored. Time advances in half days, so that the 48
  hours of the job and the 49 of the leaderboard differ by one visible moment.

In `Checkout`: a call is a goroutine of the service; `jar`, `loggedIn` and the
two mutexes belong to a client object, which is named after the call that made
it; `live` are the sessions the platform knows, `latest` a session's latest
reservation. `Rejected` is a 401, a login page or a challenge page, `TurnedDown`
a refusal of the request itself, `Broken` a lost answer.

In `ApiRequests`, `Accounts` and `VenueDesk`: `req[r]` is what request r asks
for and `pc[r]` the statement it stands before; a request may come again as
another. Advisory and row locks are variables with the name of their holder.
Foreign keys are part of the statements that meet them: a row cannot be saved
without its venue and credential, and deleting a credential clears it from
closed rows.

In `Chat` and the two dialogues: `pending[k]` is the `sync.Map` of kind k at
this chat, `session` the memory its pointers refer to, `task[h]` what handler h
holds across a remote call. From one remote call to the next is one step; reads
that follow each other are one. `At(h)` is the dialogue h works on, also when
another handler has dropped it from the map or changed it, so that a `Store`
may bring back what a command had ended. Buttons can be pressed at any time and
name what the code puts into their data. An edit of a venue reads the row,
changes a field and writes the whole row (`WriteVenue`).

### What is abstracted

Courts are numbers and lists of courts are sets in the lifecycle; copies and
order of a list are the subject of `CourtSelection`. Two rows with one match id
do not exist (the key is unique), and a court is cancelled once per selection.
The order in which a selection is cancelled is left open. Registered players and
guests are one number read at once. Publication is one step in the lifecycle;
`Announcement` has its steps. A failed
`MarkError` is the same as an early end of the cooldown, a checkout without a
match id the same as a row that was not saved. `game_time = ''` rows from before
their migration, the difference between a date column and a group's time zone,
and the force triggers of the tests are left out, as are messages to admins,
the audit trail and the wording of anything. In `Announcement` two publishers at
once are left out, since `docs/invariants.md:11` promises nothing about them, a
restart, which only drops edits that wait, games that share one of the
notifier's 64 locks, and the read with which `Skip` finds the player registered
before it writes. In `GameResults` two players at least share every result, the
players of a game are known, and a day's games may be completed or not at will.
In `Checkout` one account stands for all, since accounts share nothing; pages
are what they say. In `Accounts` and `VenueDesk` a form's fields are valid. In
the dialogues one venue is edited and three exist, dates, times, names and
counts are left out, the language of a user is cached, and the end of
`createAndAnnounceGame` is one step with what led to it.

## 3. Runs

Every run takes less than three minutes on two workers.

| Run | Instance | Question |
|---|---|---|
| `court_selection` | every list over 4 court numbers with up to 4 reserved and 3 listed, quotas up to 5 | Do the decisions agree with reference definitions that say the same in another way? |
| `calm_day` | 2 slots, 3 courts, 2 accounts with a limit of 2, up to 5 players, no faults, fairness | Does each session release, list and link its own courts, is no idle court left, and is every booked slot announced, reminded and closed? |
| `refused_calls` | 1 slot, 3 courts of 4, 2 faults: read, book, cancel, telegram | Does every counted player keep a seat, is half released once, is a slot booked once and announced once? |
| `any_failure` | 1 slot, 2 courts, 2 faults of any kind and 1 restart | Does the ledger hold? |
| `overlap` | 2 polls that may overlap and be late, 1 admin request of any kind, 1 failed read, `FlagLoaded` | Does every reservation get its row, and every cancellation its mark? |
| `empty_list` | the smallest instance that reaches it | The finding of section 6; it is expected to be violated. |
| `announcement` | 2 players, 2 requests for a guest, 2 editors, 2 messages, 3 changes, 1 fault, fairness | Is the announcement current when all is quiet, does it become current, is a message ever lost sight of, is a counted seat kept? |
| `results` | 2 results of 2 players, 1 request and 1 poll, 2 faults or restarts, 4 connections, 5 half days | Is each result decided once, rated exactly when approved, and shown as what it became, and does nobody wait in a circle? |
| `leaderboard` | 1 result, 2 game days, 1 request and 1 poll, 1 fault, 1 opt-out, 7 half days, fairness | Does an approved result get its day a leaderboard, once, and is every result decided in the end? |
| `checkout` | 2 calls of any kind for 1 account, 1 ended session, 1 fault or restart, fairness (529,096 states) | Is each call carried out at most once, does it know its own match, does it fail only for a reason, is it answered? |
| `administration` | any 2 requests or jobs one after another or at once, 1 fault, symmetry (529,440 states) | Does an owner remain, do first logins meet, does the trail tell the flag's changes, is a forbidden group left alone, does a booked court keep its account, does the cache never go back? |
| `dialogue` | 2 handlers, 2 dialogues held at once, 1 change of rights, 2 writes of the venue, symmetry (2,105,289 states) | Does a dialogue make one game with courts of its venue, and do edits leave a venue whose fields fit? |

**The properties** of the courts, in `CourtProperties` unless said otherwise:

- `ImplementsLedger`, `RowCanceledIsReleased`: a reservation is never revived,
  a row never reopened, and no row is closed while the platform still holds
  its court for a coming game. This is why `CancelMatch` comes before
  `MarkCanceled` and why the cleanup may close all rows.
- `RecordsFollowPlatform`: with no failed write and no restart, the table is at
  most one step behind the platform, under any overlap of polls and requests.
- `SeatsKept`, `NoIdleCourtKept`, `HalfStays`: a release takes neither too much
  nor too little, across the three jobs and the accounts' limits.
- `SlotNotOverbooked`, `OneGamePerSlot`, `SlotsStayApart`,
  `ListedCourtsAreReserved`: the tables agree with each other and the platform.
- `NoPanic`: refuted, see section 6.
- `EveryGameCloses`, `BookedSlotIsAnnounced`, `ReminderIsSent`: liveness.
- In `CourtSelectionMC`: `RunsAreDrainedInOrder` (the shortest run of
  neighbouring courts first, from its far end), `PreferenceIsFollowed` (courts
  are given up against the venue's order and offered along it),
  `ReleaseIsExactAndSaid` (the most courts that can go with a seat for
  everyone, half of them at halfway, the text that fits what was done, and a
  removal that counts copies).

Those of the message, in `Announcement` and `Roster`:

- `AnnouncementIsCurrent`: when no change, edit or publication is under way and
  nothing is excused, the message shows the courts, players and guests of the
  game. This is what the lock around read and send (`game_notifier.go:28`) and
  the `pending` flag (`bot.go:199`) are for.
- `AnnouncementCatchesUp`: it comes to be so and stays so (liveness).
- `NoOrphan`: a message whose id could not be stored is deleted, or remembered
  here as abandoned. The bot and the 10:00 job abandon theirs.
- `CountedSeatKept`: between the count and the insert of a guest's transaction
  no other guest is inserted. A joining player may still take the seat.

Those of results and leaderboard, in `LeaderboardPost`:

- `RatedExactlyOnce`, `ImplementsLedger`: a result counts in its players'
  ratings exactly from the commit of its approval, once, whoever decides.
- `ChangesFormChain`: no rating update overwrites another of the same player.
- `NoCircularWait`: rating rows are locked in ascending order of players.
- `CardTellsTruth`: no message claims a decision that was not made, nobody is
  told twice that time approved a result.
- `SilentNeedsFaults`: a result is approved by time although its opponent was
  never asked only after two failures, a lost answer or a restart.
- `PostedOnce`, `RatedDayIsPosted`, `EveryResultDecided`: the leaderboard, and
  liveness.

Those of the booking service, in `Checkout`: `CallsStayApart` (the shared
session never mixes two checkouts up, and without a fault a booking knows its
match), `EveryCallEnds` (liveness: no error path keeps a lock) and
`ImplementsBookCall` (at most once, and "ok" only for what was done in full).

Those of the administration, in `Accounts` and `VenueDesk`: `OwnerRemains`,
`FirstLoginsAgree`, `TrailFollowsFlag`, `CacheMovesForward`,
`DisallowedGroupIsNotBooked`, `CourtsCanBeGivenBack`.

Those of the dialogues: `GamesAreOfOneDialogue` in `GameDialogue` (one game per
dialogue, its courts courts of its venue for its sport) and `VenuesStayWhole`
in `VenueDialogue` (the courts booked automatically are squash courts of the
venue, preferred times are its slots, an automatically booked venue has squash
courts, whatever edits overlap).

**Bounds.** `Horizon`, `MaxPlayers`, `MaxFaults`, `MaxCrashes`, `MaxRequests`.
Two faults are enough for a fault in the handling of another, one restart for a
restart between any two steps, one request beside two polls for a request in the
middle of either. `Horizon` ends after the cleanup window. Two slots are enough for
one session to touch the other's rows; three courts, an account limit of two and
a count of three make the accounts rotate and leave a half that is not a whole
number. Players come and go freely within `MaxPlayers`, so that the count at
every job is arbitrary. `overlap` keeps head counts at zero, where a
release takes everything it can. `Announcement` is bounded by
`MaxChanges`, `MaxFaults`, `MaxMessages`, `MaxGuests`, `MaxCourts` and the number of
`Editors`: two editors are enough for one at the lock while another sends, three
changes for one before, one during and one after a read, two messages for a
publication that failed and another, one fault because after it the message is
excused until someone reads everything again.

`results` has two results because a circle of locks needs two transactions, and
two faults for one in the handling of another; `leaderboard` has two days for
the marker to pass one too early, and time enough for the job and for the posts
after it. In `checkout` two calls are enough for one to end or replace the
session the other is using, and one ended session beside one fault for a retry
that fails; a call of each kind meets a call of each kind. In `administration`
two requests are enough for every race of a check and a write, each may be
followed by others, and `MaxChanges` is the number of changes of rights. In
`dialogue` a behaviour opens dialogues of one of four groups of kinds
(`MCStarts`), because the dialogues about games and about venues share no data;
inside a group they are pending side by side. Two sessions are one dialogue and
its successor, or two kinds that compete for a text. Symmetry is of handlers,
requests, chats and users that nothing orders or names. Deadlock checking is
off where a day, a call or a request ends; the dialogues never stop.

**What does not hold, and is therefore not claimed.** `HalfStays` fails when
the flag of the halfway check cannot be written, or the process restarts before
it is: the next poll halves again. `SlotNotOverbooked` fails with a lost answer
or a restart between booking and result. `SeatsKept` fails with a failed write
(section 6), a restart or a lost cancellation. `SlotsStayApart` fails with a
failed read of the linked result, which widens the scope to the date. The repository's
documents disclaim the double booking (`README.md:475`) and the unconditional
scope (`docs/services/management-scheduling.md:45`). `AnnouncementIsCurrent`
excuses an edit of the bot that overlaps one of the management service, since
they share no lock. `PostedOnce` excuses overlapping polls.
`CourtsCanBeGivenBack` excuses a booking that runs while its account, venue or
group is removed. `GamesAreOfOneDialogue` excuses two presses handled at once
and rights that change during the dialogue: they do make two games, or a game
with courts of another venue (section 6).

**Fairness.** `FairSpec` asks weak fairness of the clock, of each poll's start
(cron fires) and of each worker (a goroutine runs on, its calls return). Nothing
is asked of players, admins or failures. `Announcement` has it of each guest
transaction, of the editors together (a mutex that is free is taken by someone
who waits), of the worker and of the publisher, and nothing of those who change
the game. `LeaderboardPost` has it of
the polls (cron fires every five minutes), of what a poll or request has
started and of the bot's handling of a submission; of the clock it asks strong
fairness, as polls that start again and again must not stop time; of players,
who press buttons or do not, it asks nothing; `Checkout` of the
goroutine of each call. All runs of the court lifecycle but `overlap` set
`PollsKeepUp`: a poll starts in every tick and ends before the next, which is
what the jobs' windows of one or more intervals assume; without it a late poll
misses a window, and no liveness is promised by the code either.

## 4. Proofs

`CourtLifecycleProofs` proves for every number of slots, games, reservations,
courts, accounts, polls, requests, faults and restarts, and every schedule:

| Theorem | Says |
|---|---|
| `LedgerInvariant` | `Spec => []LedgerInv` |
| `TypeCorrect` | `Spec => []TypeOK` |
| `ClosedRowsAreReleased` | `Spec => []RowCanceledIsReleased` |
| `LedgerRefinement` | `Spec => ImplementsLedger` |
| `RecordsKeepUp` | `Spec => []RecordsFollowPlatform`, where no write fails, no answer is lost and nothing restarts |
| `SlotsHaveOneGame` | `Spec => []OneGamePerSlot`, one poll at a time |
| `NoSlotIsOverbooked` | `Spec => []SlotNotOverbooked`, one poll at a time, no answer is lost |
| `SessionsAreApart` | `Spec => []SlotsStayApart`, one poll at a time, lookups work |
| `ListsMatchReservations` | `Spec => []ListedCourtsAreReserved`, one poll at a time, lookups work, no answer is lost |
| `ReleasesLeaveSeats` | `Spec => []SeatsKept`, under the same |
| `HalfwayTakesHalf` | `Spec => []HalfStays`, under the same with `PollWindow = 0` |
| `NoCourtIsIdle` | `Spec => []NoIdleCourtKept`, under the same where no cancellation is refused and no court is preferred twice |

"One poll at a time" stands for `PollsKeepUp = TRUE`, `Admins = {}`, no failing
write and no restart; any number of bookings, cancellations and messages may
fail, and players come and go. With these, every safety property that a run
of the lifecycle is expected to pass is proved.

`AnnouncementProofs` proves for every number of players, requests, editors,
messages, changes, guests and faults:

| Theorem | Says |
|---|---|
| `AnnouncementInvariant` | `Spec => []AnnouncementInv` |
| `AnnouncementTypeCorrect` | `Spec => []TypeOK` |
| `SeatKept` | `Spec => []CountedSeatKept` |
| `CurrentWhenSettled` | `Spec => []AnnouncementIsCurrent` |
| `NoMessageLost` | `Spec => []NoOrphan` |

from `RosterAssumption`, `BoundsAssumption` and `EditorsAssumption` (the bounds
are numbers, at least one message, and no editor is the name of the free lock).
`AnnouncementIsCurrent` speaks of quiet states only; the invariant behind it,
`CurrentOrDue`, of all: either somebody has yet to read the game from its start,
or everyone who holds a view holds one that is still true (`Fresh`), or nobody
holds one and the message shows the game. A change makes an edit due, a first
read turns "due" into "fresh", a send turns "fresh" into "shown". That the view
goes to the right message is `ViewsAreOfTheMessage`, and that no publisher
interferes `PublisherIsFirst`. `ChangeKeeps` treats all changes at once,
`EditKeeps`, `BotKeeps` and `PubKeeps` have one step per action.

`GameResultsProofs` proves for every number of results, players, deciders,
polls, connections, days, faults and opt-outs, from `ResultsAssumption` and
`LeaderboardAssumption`:

| Theorem | Says |
|---|---|
| `RatingInvariant` | `Spec => []RatingInv` |
| `ResultsAreTyped` | `Spec => []TypeOK` |
| `EveryResultRatedOnce` | `Spec => []RatedExactlyOnce` |
| `NoRatingUpdateLost` | `Spec => []ChangesFormChain` |
| `ResultsImplementLedger` | `Spec => ImplementsLedger` |

`RatedExactlyOnce` says nothing of a transaction under way, and is not
inductive. A worker past `flip` holds the lock of its result's row and the
result is pending until the commit (`RowLockHeld`); a rating row that a worker
has read is locked by it and holds what was read (`RatingLockHeld`); at the
commit both rows are (`BothAreLocked`); a job's result is one that exists
(`JobsAreResults`), and its two players differ (`RowsAreOfPlayers`). From these
a commit finds the ratings it read, so that the result is not in them yet and
the change it appends begins where the last one ended.

It continues from `RatingInv`, with `PlayersAreFinite` besides for the first of
these:

| Theorem | Says |
|---|---|
| `RatingsNeverDeadlock` | `Spec => []NoCircularWait` |
| `CardsTellTruth` | `Spec => []CardTellsTruth` |
| `SilenceNeedsFaults` | `Spec => []SilentNeedsFaults` |
| `LeaderboardPostedOnce` | `Spec => []PostedOnce`, where `WestOfUtc = FALSE` |

`LocksAscend` says that whoever locks ratings has rows of lesser ids than those
it still asks for. In a circle nobody waits at `flip` alone, for who has changed
a result's row is past it; of the others, the one that asks for the greatest
player would wait for a holder that asks for a greater (`GreatestPlayer`, from
the well-foundedness of the numbers). `CardInv` says that what a worker at
`answer`, `refused` or `tell` learned of its result is still so, since a
decision is final: that is the ledger's, through `LedgerStep`. `SilentInv` says
that no time passes while the bot asks, and that polls only take what is
overdue, so that none approves a result before its opponent had a message.
`PostInv` says that while polls do not overlap one poll at most is at a day,
which is past the marker, and that a day posted past the marker more often than
calls failed is about to be marked (`PaidPosts`). It is for groups not west of
UTC because `PostedOnce` is false of the others: section 6 has the reason.

`CheckoutProofs` proves for every number of calls, ended sessions and faults,
from `CheckoutAssumption`: `CallInvariant` (`CheckoutSpec => []CallInv`) and
`CallsKeepPromise` (`CheckoutSpec => ImplementsBookCall`), and for every finite
number of calls `CallsAreApart` (`CheckoutSpec => []CallsStayApart`). `CallInv` says for
each place in a call what the platform has done for it by then: nothing while
the call may still log in and ask again, one reservation before the payment,
both after it. The theorem is about the steps; the ledger has no fairness.
`CallsStayApart` needs `ApartInv`: a session is in the jar of one client
(`SessionsAreOwn`), and a checkout between its reservation and its answer holds
that client's lock, so that the latest reservation of the session is its own, or
none if somebody logged in meanwhile (`ApartOK`). Where nothing fails and no
session ends, nobody logs in twice (`SmoothOK`), and the match is always found.

`AdministrationProofs` proves for every number of requests, users, chats,
logins and faults:

| Theorem | Says |
|---|---|
| `OwnerInvariant` | `Spec => []OwnerInv`, from `RequestsAssumption` |
| `AnOwnerRemains` | `Spec => []OwnerRemains` |
| `DisallowedIsNotBooked` | `Spec => []DisallowedGroupIsNotBooked`, from `DeskAssumption` |
| `LoginsAgree` | `Spec => []FirstLoginsAgree`, from `RequestsAssumption` and `AccountsAssumption` |
| `CacheInvariant`, `CacheOnlyMovesForward` | `Spec => []CacheInv`, `Spec => CacheMovesForward` |
| `DeskInvariant`, `CourtsAreGivenBack` | `Spec => []DeskInv`, `Spec => []CourtsCanBeGivenBack` |
| `TrailTellsHistory` | `Spec => []TrailFollowsFlag`, for finitely many requests |

With these every property of the run `administration` is proved.

`OwnerInv` adds to `OwnerRemains` that a request between its count and its
revocation holds the advisory lock and that another owner than its target
exists, which only a holder of the lock could change. `BarredInv` says that a job
begun while the group was forbidden is before its look at the group or through
with it, and holds no court; and that nobody is barred once the group is
allowed. `LoginInv` says that an uncommitted row is alone under its key and its
transaction has yet to commit, that a request which lost the race looks again
with the winner's row there, so that one attempt is lost at most, and that an
answered login names the user its identity keeps. `CacheInv` says that one
request scans the groups at a time and that what it has read is not older than
the entry it will replace: an entry is only stored by the one that scans.
`DeskInv` says, of behaviours with no failed write and no booking beside a
removal, that a removal past its look still sees what is there, that a booking
still has the credentials it read, and that a court held has its row; where a
court is while its row is not written is `BookedPlaces`, which always holds.
`TrailFollowsFlag` speaks of states where no change is still to be recorded;
`TrailLeads` counts those that are: the trail with them leads, step by step,
from "unset" to the override stored.

The lifecycle's theorems assume `CountsAssumption`, `CourtsAssumption`, `WorkersAssumption`,
`TimeAssumption`, `FlagAssumption` and `RequestsAssumption`: the constants have
their types, polls and admins are different, booking opens before the games and
the cleanup is after them.

`RowCanceledIsReleased` is not inductive. A row is closed in two places.
`MarkRow` closes the row of `rel[w].m`, so one has to know that a worker at
`"row"` has a reservation it has just cancelled, and that nothing revives a
reservation: `RecordsComeAfter`. `CloseRows` closes every row of the date, so
one has to know that a worker at `"rows"` belongs to a poll at the cleanup and
that its query ran after 03:00, which only the frame remembers: `PollsTakeTurns`.
Both need frames that hold what their `pc` promises: `FramesAreFilled`. Together
with `TypeOK` these form `LedgerInv`.

The proof works with `Inv`, an equivalent form that speaks of one frame at a
time (`RelOK`, `BkgOK`; `InvIsLedgerInv`), so that a step is only looked at for
the frame it changes; `ReleaseKeeps` and `BookKeeps` carry all the others over.
`ReleaseStepKeepsInv` and `BookStepKeepsInv` have one step per action. The
refinement has one lemma per kind of step of the ledger and reuses `Inv`.

`RecordsKeepUp` puts `FollowInv` beside `Inv`: while the process has not
panicked, a reservation about to be saved is held and has no row, two workers
never save the same one, and whatever a worker picked to give back has a row.
Its hypotheses are those of the run `overlap`, and are what the property is
about: with a failed write, a lost answer or a restart in between, a record is
behind the platform for good, as the code accepts (it logs, and goes on).

The seven theorems about one poll at a time each add an invariant to those
before. The hypotheses are what their runs admit (`refused_calls`, `calm_day`,
the second of which has no failing call at all), and each is needed: two polls
in one window may both find no result, an admin may book or create a game of his
own, a result that was not saved lets the next poll book again, a lost answer
leaves a court reserved that nobody counts, a failed lookup widens a release
to the whole date, and a refused cancellation leaves an idle court.

- `OnePoll`: at most one poll is at a job, and only after this tick's cron. So
  one frame speaks for all (`DutyIsAlone`), and a step of the flows is compared
  with few kinds of steps: `BookEffect` and `ReleaseEffect` list what a booking
  or a release step can do to slots, courts and games, `BookHasEffect` and
  `ReleaseHasEffect` prove it, and each invariant is only shown for the kinds.
- `PlanInv`: a game of slot `s` is the one the result of `s` names, or the one
  the worker that created it is about to link; a worker that books knows that
  the slot has no result, and the 10:00 job only meets results that name a game.
- `HeldInv`: as long as a slot has no result, whatever is reserved for it was
  reserved by the worker at the slot, which knows all of it and has `left` for
  what is missing to the venue's count; a court is reserved once per slot, ever.
- `ApartInv`: what a release is about to cancel is of the slot of its game,
  which the lookup found through the result (`EntriesAreOfSlot`, from `PlanInv`).
- `ListInv`: the list a release has read is still the game's until it writes the
  new one, and that list less what was given back is what the platform holds.
  That another game's list is not touched meanwhile needs `OneGamePerSlot`, that
  a cancellation takes one court off needs the distinct courts of `HeldInv`.
- `SeatsInv`: from the selection on, the reservations of the slot less those
  still selected seat the players counted. It starts to hold because the count a
  release divides by is the number of reservations (`ListInv`, `HeldAreDistinct`),
  the selection has at most as many members as asked for (`SelectedAreFew`) and
  freeing that many leaves the seats (`SeatsAreLeft`, the arithmetic); each
  cancellation takes one off both sides, and a refused one off the selection only.
- `JobInv` and `HalfInv`: a halfway check meets no game it has been through, and
  the other two jobs meet none before they are due. Until then a slot has all the
  courts booked for it, or its game is marked (or about to be) and half are left.
  A window of none is that of a poll interval of one tick, where half an interval
  rounds to none; with a longer one the two jobs may run that much before they
  are due, and take more than half.
- `SpareInv`: while the reminder's job or the final check cancels, what will be
  left seats less than a court's players more than were counted. It needs the other
  direction of everything above: before the cleanup the open rows of a game are
  its live reservations (`RowsAreLive`, from `FollowInv`), the quotient is the
  most that can go (`NoMoreCouldGo`), and as many are selected
  (`SelectedAreExact`), of which each is cancelled. A court preferred twice would
  be selected twice (`court_cancellation.go:126`) and fill the quota with one;
  the service refuses such a preference list (`venue_service.go:69`), which
  compares texts, so that "1" and "01" pass it.

What a selection takes is proved once, for lists of any length, in
`CourtSelectionLemmas`. The positions kept are listed in ascending order and so
are the members of a chosen list (`PositionsAscend`, `KeptIs`); a round of
`selectCourtsToCancel` takes one of the positions left (`RoundsTakeOne`), so that
`k` rounds take `k` different ones or all (`TakenAreDistinct`), and both phases
together exactly the quota where it is not beyond what is reserved
(`ReleaseIsExact`). The loop is a recursive function of the number of rounds.
Where a proof would be by induction over it, it takes the least number of rounds
that is a counterexample (`LeastNumber`, from the well-foundedness of `<`) and
looks at the round before.

`CourtSelectionProofs` proves of the walk of `CourtSelectionMC`, from
`WalkAssumption` (there are two court numbers at least), hence for any lists and
numbers:

| Theorem | Says |
|---|---|
| `WholeRunsGoFirst` | `Spec => []RunsAreDrainedInOrder` |
| `PreferencesAreKept` | `Spec => []PreferenceIsFollowed` |
| `ReleasesAreExactAndSaid` | `Spec => []ReleaseIsExactAndSaid` |

The first says that grouping anew after every pick, as the code does, takes the
positions in one fixed order, that of the runs as they were at the start: the
position a round takes comes before all that are left (`NextIsFirst`), so what
`k` rounds take are the first `k` of the order (`RoundsTakeFirst`). For the
second, the courts offered are counted off by their rank in the preference list
(`OfferIsRight`). For the third, the quotient is compared with the largest number
that seats everyone for one to four players a court (`UnneededIs`), since a
product of two variables is beyond the solver; and a removal keeps of each court
as many copies as the difference of the counts (`ExactRemoval`).

`DialogueProofs` proves for every number of handlers, dialogues, groups, venues,
sports, courts, slots and changes of rights, from `ChatAssumption`,
`GameAssumption` and `VenueAssumption`:

| Theorem | Says |
|---|---|
| `ChatInvariant` | `Spec => []DialogueInv` |
| `OneDialoguePerGame` | `Spec => []GamesAreOfOneDialogue` |
| `VenuesAreWhole` | `Spec => []VenuesStayWhole` |

`DialogueInv` has two parts beside the properties. `ChatInv` says what the
maps point to: a dialogue of the map's kind, whose fields fit its step
(`Memory`). And it says what a handler still knows of the dialogue it took
before its remote call (`Task`): a dialogue about a game nobody disturbed is at
the step the handler checked, because nobody else held it; a wizard that was
asked about automatic booking never returns to the steps that choose its sport,
so that a handler answers for squash even if others pressed on meanwhile. Two
handlers hold one dialogue about a game only if it is marked as disturbed, which
`GamesAreOfOneDialogue` excuses. `VenueInv` says that the rows are whole; that
they stay so whatever was written since an edit read the venue is in `Task` too:
a handler that is to write a row holds one whose automatic courts are squash
courts (`Writable`), and the service checks the rest (`Acceptable`). That a
venue has courts at first (`Courts # {}`) is part of `VenueAssumption`, since
the first row is booked automatically. `MoveKeeps` treats all changes of one
dialogue at once; every step goes through one of the lemmas for loading,
changing, storing or opening a dialogue.

With these every invariant and every safety property of a passing run is proved.
Checked by TLC only are the liveness properties (`EveryGameCloses`,
`BookedSlotIsAnnounced`, `ReminderIsSent`, `AnnouncementCatchesUp`,
`EveryResultDecided`, `RatedDayIsPosted`, `EveryCallEnds`): fairness is beyond the
prover. The refinements are proved for the safety part of the ledgers, which is
all they state.

## 5. Plan

Done: the court lifecycle with its ledger; the announcement; results, ratings
and leaderboard; the booking service; the administration; the dialogues; the
theorems of section 4.

Worth doing next, in this order:

1. Proofs: `RecordsFollowPlatform` and the theorems about one poll at a
   time under weaker hypotheses, where the code still promises them: admins that
   only remove courts, or a restart between two polls.
2. The courts editor of a published game in `Chat`, with `UpdateCourts` of the
   lifecycle behind it; the steps of the result wizard before `Submit`.
3. Two accounts in `Checkout`, composed with `BookingFlow` in place of the
   external platform.

### Not modelled

- The web gateway: a proxy that checks a cookie and rights per request and
  keeps nothing; its races are those of the service behind it.
- The changelog announcer: one goroutine at the start that sends to all groups
  and then stores one marker; a marker that cannot be stored repeats the
  messages at the next start, a message that cannot be sent is not repeated.
- The settings of language, time zone, opt-outs and announcements: each is one
  statement that nothing reads before it writes.
- The courts editor and the result wizard's steps of the bot; the rendering of
  messages and keyboards.
- Translations, formatting, configuration, migrations, the frontend: no state
  of the program, or layout.
- The arithmetic of ratings, the parsing of the platform's pages, encryption.

## 6. Findings

A run shows the first; the others were met while modelling and are what the
properties excuse or the instances leave out.

**Courts**

- `empty_list`: after all courts of a game were released, the next check
  divides by its court count, zero, in a goroutine that nothing recovers
  (`service/final_court_check.go:113`, `halfway_court_check.go:164`,
  `cancellation_reminder.go:115`).
- Courts cancelled, list not stored: the next job counts seats on courts that
  are gone and cancels needed ones (`court_cancellation.go:215`).
- A result whose game could not be linked gets a second game at 10:00
  (`auto_booking.go:321`, `booking_reminder.go:177`).
- A message that cannot be edited at 03:00 keeps its game open for good: the
  edit's failure returns before `MarkCompleted` (`day_after_cleanup.go:127`).
- `GetByID` never loads `AutoBookingEnabled`, so on-demand booking is always
  refused (`storage/game_repo.go:669`, `game_service.go:299`).
- A release stores a list computed from what it read before its calls and
  undoes an admin's edit (`court_cancellation.go:202`, `game_service.go:356`).
- Removing a credential or a venue checks for active bookings and deletes in
  two statements; a booking in between leaves a court nobody can give back.
  Removing a group takes its rows with it and leaves the reservations.

**Booking service**

- A 401 that arrives late drops the fresh session of another call
  (`client.go:223`): that call's court is reserved and its payment fails.
- `GetCourts` without a session gets a page without courts and answers that
  there are none.

**Results and leaderboard**

- Recording a rating's audit event takes a second connection while the
  transaction holds one (`rating_service.go:187`, whose comment says it must
  not block the update): as many approvals at once as the pool has connections
  wait for each other.
- A result whose opponent could not be asked is canceled, and an error of that
  is ignored (`result_handlers.go:598`): it is then approved after 48 hours.
- The first poll after midnight deals with a day that has no results yet, so
  that one submitted later is not posted; a group in which everybody opted out
  never gets past the day; under overlapping polls the marker may go back; the
  marker, a DATE, is read as midnight UTC (`post_leaderboard.go:91`), so that
  west of UTC the last day is posted again.

**Administration**

- `updateVenue` may enable a venue after the owner disallowed its group; the
  job's own look at the group makes it harmless.
- A rights cache entry can be older than its time to live by the length of a
  scan; a failed audit event is dropped; two grants of one owner make two.

**Dialogues**

- A command ends the pending dialogues (`handlers.go:30`), but not a question
  for the group of a game (`pendingGames`), the confirmation of cancelled
  courts or the choice of a number; and a handler in flight may store a wizard
  back that a command has ended, or delete a newer dialogue under the same key.
- A text goes to the first kind of dialogue in a fixed order, not to the one
  that asked last.
- Two presses of time buttons make two games; after the question for a group
  the sport is forgotten and squash is taken.
- A time button is accepted at every step, also with no court chosen: the
  service then refuses the game and the dialogue is lost. Courts switched off
  after their confirmation lead to the step where any list may be typed.
- Two edits of a venue write whole rows: the later one undoes the earlier.
  `processVenueEdit` and `handleNewGameGroupVenue` do not ask for the rights
  again. The service checks automatically booked courts for digits and
  duplicates only, so that the bot's own filters keep them among the venue's.
- The result wizard's preview edited without an opponent dereferences nil
  (recovered, `bot.go:344`). `newGameWizard` is changed without a lock.

## 7. Running

    tlc -workers 2 -config CourtSelectionMC.cfg CourtSelectionMC
    tlc -workers 2 -config CalmDay.cfg CourtMC        # also AnyFailure, Overlap,
                                                      # RefusedCalls, EmptyList
    tlc -workers 2 -config Announcement.cfg Announcement
    tlc -workers 2 -config Results.cfg LeaderboardPost      # also Leaderboard
    tlc -workers 2 -config Checkout.cfg Checkout
    tlc -workers 2 -config Administration.cfg Administration
    tlc -workers 2 -config Dialogue.cfg Dialogue
    tlapm CourtLifecycleProofs.tla                    # and the other *Proofs.tla
