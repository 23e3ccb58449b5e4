# A verification project for the Mohaeng (SWYP) server

Friends share *rooms*, collect candidate *places* in them, draw one, propose a
*plan* for it, and vote; the plan is confirmed by its creator, by the room's
host, or by a worker when the response deadline has passed. This directory
holds TLA+ modules translated from the server's source, the TLC configurations
that check them, and TLAPS proofs. Paths below are relative to `src/app/`.
`PROJECT.json` is the index: components, runs, mutants, the source lines of
every definition, findings, hazards and theorems.

## How the program runs

One uvicorn process (the Dockerfile starts it without `--workers`).

* **Synchronous endpoints** (rooms, plans, places, schedules, profile, FCM
  tokens, inbox) run in a thread pool, each on a SQLAlchemy session of its own:
  they are truly concurrent. Their transactions run at PostgreSQL's default,
  READ COMMITTED. `SessionLocal` has `autoflush=False`: rows are written at
  explicit flushes and at commit, by primary key, and only changed columns.
* **Asynchronous endpoints** (login, token reissue, logout, withdrawal, image
  upload) run on the event loop, and interleave at their awaits. Their database
  calls are synchronous and block the loop.
* **The auto-close worker** is an asyncio task (`main.py` lifespan) that runs
  `auto_close_due_plans_once` in a thread every interval.
* **Redis** holds refresh sessions and the blacklist of access tokens;
  **Firebase**, **Azure Blob Storage** and the identity providers are external.

Nothing coordinates handlers except row locks, unique constraints and two
explicit kinds of `SELECT ... FOR UPDATE` (rooms, due plans). The repository
has no tests.

## Inventory

| component | state | operations | hard behaviour | what makes it correct |
|---|---|---|---|---|
| Plans and voting (`services/plan/plan_service.py`, `repository/plan`) | `plans`, `votes`, `notifications` | create, answer, remind, close, list, draw | unlocked checks before writes by primary key; double taps; soft-deleted rows under a unique constraint | one row per member and plan; no notification without its change; one confirmation |
| Auto-close worker (`services/plan/auto_close_service.py`) | none of its own | poll, lock, confirm | `SKIP LOCKED` against votes and closers; errors and restarts | every due plan is confirmed, once, with every vote |
| Rooms (`services/room`, `repository/room`) | `rooms`, `room_members` | create, join, leave with hand-over, kick | locks on the room, but none by withdrawal; codes collide | one host; deleted rooms are empty; who was kicked stays out |
| Login and sessions (`services/auth`, `core/security`) | Redis sessions, blacklist, `users` | login, reissue, logout, authenticate | rotation races, scan against save, half a logout | a token is exchanged once; who logs out stays out |
| Withdrawal (`services/user/withdrawal_service.py`) | almost every table, Redis | one long transaction with awaits in it | row locks held across awaits; Redis before commit | every old session ends; the person may sign up again |
| Places (`services/place`, `repository/place`) | `places` | create, update, delete, list, draw, search, extract | duplicate and in-use checks without locks; pages from two snapshots | requests that do not overlap keep duplicates out and planned places in |
| Recommended time (`plan_service.py:149-255`) | none | search of free slots | midnight, opening hours, bounded search | the earliest slot that fits everybody, else the creator, else the first |
| Recurring schedules (`services/user/recurring_schedule_service.py`) | schedule groups and days | create, patch, toggle, delete | two partial updates of one range; DELETE and INSERT of days | start before end; the days of one request |
| FCM tokens and push (`services/notification/fcm_service.py`) | `user_fcm_tokens`, switches of `users` | register, toggle, send, deactivate, diagnose | find-then-insert; a rejected token against its registration | a push goes to whoever registered or switched last |
| Inbox (`services/notification/notification_service.py`) | `notifications` | list, read, read all | pages from two snapshots while rows arrive | who scrolls to the end has seen everything |
| Images (`services/common/image_service.py`) | `images`, blobs | upload | blob and row are not one transaction | a row has its file and a file its row |
| Profile (`services/user/profile_service.py`) | `users`, `images.image_purpose` | update | two updates demote each other's image | the selected image stays PROFILE_IMAGE |
| Terms, notification settings | one row per user | agree, toggle | little | |
| API layer, schemas, exceptions, metrics, migrations, deployment | none | | none | not modelled |

Interactions: rooms feed the membership and host checks of plans; withdrawal
writes into rooms, plans, votes, notifications, tokens, places and images in
one transaction without any of their locks; the worker and `close_plan` share
`_confirm_plan_and_dispatch_notifications`; every plan handler writes the inbox
in its own transaction and pushes after the commit; a plan keeps its place from
being edited; recurring schedules feed the recommended time. `PROJECT.json`
lists the hazards line by line.

## Modules

| module | what it is |
|---|---|
| `PlanVoting` | plans, votes, notifications, the auto-close worker and withdrawals as interleaved transactions and an event loop |
| `PlanLifecycle` | abstract: a plan is proposed, collects an answer per member, is confirmed once and for all |
| `RoomMembership` | rooms, members, host hand-over, kicks, and withdrawals that ignore the room lock and hold members' rows across their awaits |
| `RoomLifecycle` | abstract: a room is opened by its host, people come and go, it ends with its last member |
| `AccountSessions` | login, reissue, logout and withdrawal as coroutines of one event loop, with Redis |
| `SessionLifecycle` | abstract: a session is opened once, held by one token at a time, closed for good |
| `PlaceCandidates` | the places of a room and the plans made of them, each handler a stale check and a write |
| `PlaceSearch` | the search for places, as a function of the request and the provider's answer |
| `ImageExtraction` | extends `PlaceSearch`: the extraction of places from an image, likewise |
| `RecommendedTime` | the search for a free slot, one iteration a step |
| `RecurringSchedules` | extends `RecommendedTime`: the schedules, and draws that search in them |
| `PushDelivery` | devices, switches, sending, rejected tokens, the push diagnosis |
| `NotificationInbox` | extends `PushDelivery`: who is notified, and what an inbox shows |
| `UserProfile` | uploads, profile updates and withdrawals on one account, its images and files |
| `MC*` | the instances TLC checks: symmetry, and the values of structured constants |
| `*Proofs` | the theorems about a module |

`PlaceCandidates` extends `PlaceSearch`: what a search makes of a provider's
answer (`SearchedBodies`) is among the bodies that `create_place` gets;
`MCPlaceCandidates` adds what `ImageExtraction` makes of an image. The other compositions are by EXTENDS, as the table says. Withdrawal
appears in most modules, each with the rows and locks it needs.

### How state and actions correspond to the code

A handler is split where another transaction, or another coroutine, can get in
between. The SELECTs of one check are one step, although under READ COMMITTED
each sees a snapshot of its own; flush-and-commit without anything in between
is one step. In every module `tx` holds, per request, the program counter and
the locals of its handler, and a request runs one handler once; a request that
inserts a row stands for the row's id. History that only properties use is
named with the state: `reclosers` in `PlanVoting`, `before` (the requests that
had finished when this one began), `there` (what a client could have seen then)
and `torn` (a page whose count and rows are of different moments) elsewhere.
Two requests overlap when neither is in the other's `before`.

**PlanVoting.** `status`, `creator`, `placeOf`, `due` are the columns of
`plans` (`due` stands for `voting_ends_at <= now`); `vote` has the rows of
`votes` by the request that inserted them; `member` and `host` are one room's
undeleted `room_members`; `inbox` is `notifications`; `leaving` is, per user, the
withdrawal under way with the votes and plans it has locked.

| actions | code |
|---|---|
| `CreatePlanCheck`, `…Insert`, `…Commit` | `create_plan`: checks, the plan's row, the notifications |
| `SavePlanResponseCheck`, `…Insert`, `…Flush`, `…Fails`, `…Commit` | `save_plan_response` and `upsert_vote`: SELECT, unique index, foreign keys or UPDATE, IntegrityError, notification and commit |
| `ClosePlanCheck`; `AutoCloseLock` | `close_plan`'s checks; `find_due_voting_plan_id_for_update` |
| `ConfirmCollect`, `ConfirmCommit` | `_confirm_plan_and_dispatch_notifications`, for both |
| `SendRemindersCheck`, `SendRemindersCommit` | both reminder endpoints |
| `WithdrawBegins`, `WithdrawTakesVotes`, `…TakesPlans`, `…TakesUser`, `WithdrawCommit`, `WithdrawFails` | `withdraw_user`: its UPDATEs in their order, the flush, the awaits, the commit |
| `LocksUserRow`, `DeadlockDetected` | PostgreSQL: a statement that waits keeps the rows it has; a cycle of lock waits fails one of its transactions |
| `LeaveRoom`, `DeadlinePasses`, `Rollback` | what happens around the handlers; every handler ends in `db.rollback()` on an error |

Row locks are read off the transactions in flight. A vote's INSERT holds FOR
KEY SHARE on its plan because of the foreign key, and therefore excludes the
worker's FOR UPDATE; the UPDATE of a vote does not, and neither does the plan
UPDATE of `close_plan`, which is flushed and committed in one go (the unit of work
writes notifications before plans). The worker's second look at the plan
(`plan_service.py:1102-1108`) is not a branch of the model: theorem
`LockedPlanStaysOpen` shows that it never finds anything changed.

A withdrawal is a coroutine. Its UPDATEs lock votes, then plans, then the row of
the user (`WithdrawTakes…`), and it keeps them across its awaits until
`WithdrawCommit`. Meanwhile the worker skips its plans (`LockedByWithdrawal`), a
changed answer waits for its vote (`VoteLocked`), and every INSERT whose foreign key
refers to the user waits (`UserLocked`: `provider_id` is under a unique constraint,
so that the UPDATE is one of a key). In turn the withdrawal's queries wait for
answers being changed, for the worker, and at its flush for everybody who holds FOR
KEY SHARE on its user (`holds`), and such a wait blocks the event loop
(`LoopRuns`), on which other withdrawals come back from their awaits and
the worker's next poll is started. Handlers and polls that have a thread go on
without the loop.

**RoomMembership.** `room` has state and invite code, `row` the
`room_members` row of every room and user (there is at most one, by
constraint), `active` the accounts. `AccountCheck` is
`_ensure_active_user`, which is not repeated under the lock; `JoinOrKickLock`,
`LeaveLock` and `Refused` are what a handler decides once it holds the room;
`JoinCommit`, `LeaveCommit`, `KickCommit` are its writes. `CreateInsert`
and `CreateCollides` are one attempt in a savepoint. A withdrawal finds its
memberships (`WithdrawBegin`), takes their rows one by one (`WithdrawTakesRow`),
flushes its user's row (`WithdrawFlush`) and comes back from its awaits
(`WithdrawCommit`); until it has flushed, its queries hold the event loop
(`LoopRuns`), which another withdrawal needs for its commit. `rows` are
the `room_members` a transaction has written and not committed. The flush of
`leave_room` writes the leaver and the next host one after the other, in either
order: when it has to wait for one it keeps the other (`LeaveTakesRow`).
Which member is "earliest" is left open,
because `created_at` is the time a transaction began, not the order of commits.
Withdrawals of one user by two requests at a time are in `AccountSessions`.

`RoomLifecycle` is what is left when rows, locks and program counters are
taken away: `phase` is the state of a room, `role` what each user is in it
("HOST", "MEMBER", "out", "kicked"), `gone` the withdrawn users and `calling`
the users with a request. A call is made by somebody who is not gone, and only a
caller changes anything, so "a user who has withdrawn calls no more" and "what
was called before the withdrawal is still carried out" can both be said. Each
commit of `RoomMembership` is one of its actions: `CreateInsert` is `Open`,
`JoinCommit` `Join`, `LeaveCommit` `Leave`, `HandOver` or `Close`, `KickCommit`
`Kick`, `WithdrawCommit` `Withdraw`; a withdrawal in between is why a host or a
successor there may be gone already (`IsOrGone`).

**AccountSessions.** `account` is `users` (status and provider identity),
`session` the Redis keys `refresh:session:<sid>`, `blacklist` the keys of
blacklisted access tokens, `token` every pair that was issued, `age` how far an
access token is from its `exp`. An action is what runs between two awaits.

| actions | code |
|---|---|
| `LoginCheck`, `LoginRefused`, `LoginSave` | `social_login`: provider answer, account, `save_refresh_session`; `OAuthIdentity` is the three OAuth clients |
| `ReissueCheck`, `ReissueDrop`, `ReissueRotate`, `ReissueRefused` | `reissue_tokens` and the Lua script |
| `GetCurrentAccessPayload` | `get_current_access_payload`, before logout and withdrawal |
| `LogoutCheck`, `…Looks`, `…Blacklist`, `…Delete` | `logout_token` and `logout` |
| `WithdrawWrite`, `…Visits`, `…Delete`, `…Blacklist`, `…Commit` | `withdraw_user`: flush, `scan_iter` key by key, DEL, blacklist, commit |
| `Fails`, `Restart`, `AccessTokenAges`, `SessionExpires` | a Redis or database error, the process, time |

`LoopRuns` is the event loop: a withdrawal that waits for row locks in a
synchronous call ("waiting") stops every coroutine. In its last second an
access token is no longer blacklisted, because `_seconds_until` rounds down.

**PlaceCandidates.** `place` has the rows of `places`, reduced to name, address
and coordinates, `order` their `created_at`, `plan` the plan a request has
made. `CreateCheck`/`CreateCommit` and the like are a handler's checks and its
write by primary key; `Merged` is what SQLAlchemy's UPDATE of the changed
columns leaves of two concurrent edits. `ListCount`/`ListRows` are the two
queries of a page, of a client that scrolls through all pages;
`DrawPick`/`DrawRemaining`/`DrawRefused` those of one that draws until it may
not. `PlanConfirms` stands for the confirmation in `PlanVoting`.

**PlaceSearch and ImageExtraction.** Keyword, paging and provider choice, the
answers of Kakao and Naver with their error statuses, the parsing of the
OpenAI-style answers, normalisation and removal of duplicates, as operators.
What was found is a set: no property is about its order. Coordinates are whole
degrees; a name stands for its text.

**RecommendedTime and RecurringSchedules.** Times are minutes since a Monday's
midnight. `StartSearch` and `SearchStep` are `_find_recommended_scheduled_at`
and one iteration of its loop; `RecommendationIsBest` compares the result with
its definition as a minimum over a week. `group` and `days` are the two tables,
`days` with the request that inserted a row. A PATCH reads and validates
(`UpdateCheck`), its DELETE of the days takes a snapshot (`UpdateScan`) and
waits for concurrent deleters (`UpdateDelete`), and then everything is flushed
and committed (`UpdateCommit`, or `UpdateCollides` on the unique constraint).
`DrawPlace` reads the rows of the members and starts the search.

**PushDelivery and NotificationInbox.** `token` has the rows of
`user_fcm_tokens`, `account` the ACTIVE flag and the switches, `note` and
`order` the rows of `notifications`. A registration is find, then insert or
update; a dispatch chooses its targets after the commit (`chosen`), sends one by
one and deactivates what Firebase has rejected. `Diagnose` is the diagnosis
endpoint as a function of the rows. A withdrawal masks the rows of its user by
the values it has read (`Masked`).

**UserProfile.** `user` is one row of `users`, `image` and `blob` the rows of
`images` and the files in the container. `UploadCheck`, `UploadBlob`,
`UploadInsert`, `UploadCleans` are the steps of the upload coroutine, and each
can fail, also after its effect (an answer that is lost). `ProfileDemote` is
the UPDATE that demotes the other images and holds their rows until
`ProfileCommit`; `WithdrawWrites` and `WithdrawCommit` are a withdrawal before
and after its awaits. `Restart` ends every handler.

## Runs

| run | instance | what it shows |
|---|---|---|
| `plan_voting` | 2 users, 1 plan created in the behaviour, 4 requests (all endpoints), 2 workers, 1 departure or withdrawal, 1 failure | the safety properties of `PlanVoting`, and that the transactions implement `PlanLifecycle` |
| `plan_deadlines` | 2 users, 1 open plan, 2 requests (answer, close), 1 worker, 2 departures or withdrawals, fairness | due plans are confirmed and handlers and withdrawals end, unless two withdrawals stop the event loop |
| `plan_closed_twice` | 2 users, 1 plan, 2 close requests, 1 worker | **finding**: a plan is confirmed twice |
| `room_membership` | 3 users, 1 room, 4 requests (join, leave, kick, withdraw), 1 rollback | the safety properties of `RoomMembership` |
| `room_handlers` | 2 users, 2 rooms, 2 codes, 2 attempts, 3 requests (all endpoints), fairness | every handler ends unless two withdrawals stop the event loop, and the transactions implement `RoomLifecycle` |
| `room_not_ended` | 2 users, 1 room, 2 requests (leave, withdraw) | **finding**: an empty room stays open |
| `account_sessions` | 2 users, 2 identities, 1 old session, 3 requests (all), 1 error or restart, 1 expiry | the safety properties of `AccountSessions`, and that it implements `SessionLifecycle` |
| `withdrawal_unanswered` | 1 user, 2 withdrawals, fairness | **finding**: a second withdrawal stops the event loop |
| `place_candidates` | 2 old places, 3 requests (all), pages of 2, 1 excluded id | what the unlocked checks still keep; that search results are accepted |
| `recurring_schedules` | 2 members with a schedule each, 3 requests, draws on a Friday evening and a Sunday night | the stored schedules after races; the recommended time |
| `notification_inbox` | 2 users, 2 devices, 3 requests, pages of 1 | who is pushed to, what the diagnosis says, what a scrolling client sees |
| `user_profile` | 2 old images, 2 nicknames, 3 requests, failures and restarts without bound | which picture is left; files and rows |

**Bounds and why they are enough.** Every property of `PlanVoting` speaks of
one plan, one voter and at most two transactions racing for it plus one that
disturbs them: one request creates the plan, three more and two workers give
every such triple; the theorems drop the bound. Two users are a creator and a
voter, and either may be the host. A double tap takes two requests, an answer
that meets a
soft-deleted row takes a third. In a room three users are a host, a successor
and a third party; four requests are, for instance, two hand-overs around a
join and a withdrawal. `MaxChurn` counts departures and withdrawals in
`PlanVoting`, `MaxFaults` the transactions that fail; one of each meets every
step of every handler. `plan_deadlines` has two departures, because one withdrawal
blocks the loop for another, and no failure, which would only end a wait. `Attempts` is 2 instead of 10 so that running out of
codes is reached.

In the other modules the properties are again about two requests on one row and
a third that comes before, between or after them, so three requests are what
the instances have. `account_sessions` needs a second user for a session that
is not one's own and for the identity that signs up again; `MaxTicks` lets one
token or session run out at any moment. In `place_candidates` one old place has
an address and the other a spot, which are the two ways of being a duplicate;
two places and a page of two make a third place start a second page; with one
excluded id the limit (200 in the code) is passed after two draws. The bodies cover
every outcome of search and extraction that the parser distinguishes, so the
instance has few places and many answers. `recurring_schedules` has slots of
three hours, business hours of nine, and a week of search, because the loop
is one state per slot; the assumption `SlotsFitTheDay` is what the real
values (10 minutes, 11:00 to 20:00, 30 days) and these share. One draw per
behaviour is enough, because a draw writes nothing. `notification_inbox` has one
old row and two devices, so that a device changes hands, and pages of one item.
`user_profile` needs two images to choose between and a third that is uploaded;
a restart costs at least one request, so it needs no bound.

The liveness instances are smaller because TLC checks liveness without
symmetry. Requests run once, so the system may stop: deadlock checking is off,
and `HandlersEnd` takes its place where locks could block.

### Properties

*PlanVoting.* `OneVotePerMember`: two answers of one member
that both find no row still leave one. `AutoCloseNeverRecloses`: nobody
confirms a plan under the worker's lock (`LockedPlanIsOpen`, which is proved), so
auto-close confirms each plan at most once. `AutoCloseHearsEveryVoter`: between
the worker's reads and its commit no vote of somebody it has not heard gets in.
`NotificationsAreTrue`: a notification is committed with its change or not at
all. `DuePlansAreConfirmed`: every plan past its deadline is confirmed, even
without a creator and while the worker skips it. `HandlersEnd`: the waits of
handlers, worker and withdrawals for votes, plans and users have no cycle but those
that PostgreSQL breaks. Both make one exception, `LoopStands`: one withdrawal
blocks the loop and another is at its awaits, for ever. Then the first
waits, perhaps through a handler, for a row of the second, which needs the loop
to commit. That this is the only way to stop is what they say. For instance u1 and u2
withdraw and a close has inserted the notification of u2: the close waits for u1's
row, u2's flush waits for the close and blocks the loop, u1 never commits.
`ImplementsLifecycle`: the refinement.

*RoomMembership.* `AtMostOneHost`: under any interleaving of
leaving, coming back, hand-over and withdrawal. `HostlessByWithdrawal`: an open
room without a host has lost a withdrawn user. `DeletedRoomIsEmpty`: nobody
joins a room that is being deleted. `KickedStaysOut`: no write decided from an
older read brings a kicked member back. `HandlersEnd`: as in `PlanVoting`; a leave
that holds one member's row and waits for the other's is how two withdrawals stop
the loop here. `ImplementsLifecycle`: the refinement of
`RoomLifecycle`. It says of every change at once who may have made it and from
which state, also when the one who acts has withdrawn since the account was
checked: such a join or leave is one that was called before, a room ends only
as its last member leaves, and a hand-over has one successor who was a member.

*AccountSessions.* `ExchangedOnce`: two reissues of one token never both
succeed. `LoggedOutStaysOut`: no rotation under way revives a session that was
logged out, and its access token is refused. `OldSessionsEnd`: a withdrawal ends
what was there when it began, whatever rotates during its scan.
`IdentityHasOneAccount`, `SessionMatchesItsToken`. What is *not* claimed is in
the hazards: a login during the scan can leave a session of a withdrawn
account, which the reissue then refuses and drops; a rollback after DEL
leaves a live account without its sessions.

*PlaceCandidates.* No constraint backs the checks, so overlapping requests do
get past each other; the properties say that only they do.
`DuplicatesOnlyByOverlap`, `CoordinatesComeInPairs` (two PATCHes that each
validated the pair), `SerialRequestsRespectPlans` (edit, delete and a second
plan of a planned or deleted place). `BrowsingMissesNothing` and
`DrawsGoThroughAll` are what scrolling and redrawing promise the client.
`SearchedPlacesAreAccepted` joins two components: what the search returns, the
creation accepts.

*RecurringSchedules.* `RangesInvertOnlyByOverlap`: a schedule ends before it
starts only after two PATCHes that overlapped. `DaysAreOfOneRequest`: READ
COMMITTED lets two replacements of the days mix, but only if they overlap.
`BusyTimesAreAvoided` connects a draw to what was stored before it;
`RecommendationIsBest` says the loop finds the first slot that suits everyone,
or the creator.

*NotificationInbox.* `PushesFollowTheLastWord`: whether a device is chosen
follows the last registration, switch or withdrawal that finished before the
dispatch, unless one overlaps it. `DiagnosisMatchesDispatch`: the diagnosis
counts what a dispatch would choose. `ScrollingMissesNothing`.

*UserProfile.* `ProfileFollowsTheLastRequest`: the picture is the one chosen
last and the only profile image left, a withdrawal leaves none, an onboarding is
seen. `FilesMatchRows`: row, file and answer agree unless the process crashed,
an answer was lost or the cleaning failed.

**Fairness.** A synchronous handler that has started is run to its end by its
thread, and PostgreSQL queues the waiters of a row lock, so weak fairness of its
next step is enough; it needs no event loop until it answers. A poll of the worker
that has begun has a thread, too (`auto_close_service.py:42`), but the task that
starts the next one is on the loop: weak fairness of `LoopRuns /\ AutoCloseLock`,
which says nothing once the loop stands still. The task itself catches every exception
and polls again (`auto_close_service.py:40-49`). A withdrawal that is in its queries has
the loop, and goes on when the row it waits for is free; at its awaits it is
enabled only while `LoopRuns` (`WithdrawCommit`), given that the identity provider
and Redis answer or time out. PostgreSQL detects deadlocks between
its own lock waits (`DeadlockDetected`), and none that leads through the loop.
Deadlines pass. Other coroutines that block the loop on such a row (an upload's
INSERT, a second withdrawal of the account) are in `UserProfile` and
`AccountSessions`, where the liveness of this loop is finding 3: the liveness
properties of `PlanVoting` and `RoomMembership` are about behaviours without them.
In `AccountSessions` the event loop runs every coroutine whose
await is answered: weak fairness of each request's `Continue`, which is not
enabled while the loop stands still. Nothing makes clients send requests,
members leave or transactions fail.

**Findings.** (1) `close_plan` checks the status without a lock and writes it
without looking again, so overlapping closes confirm twice, although
`PlanAlreadyClosedException` exists for the second. (2) `leave_room` deletes a
room only when a HOST leaves; after the host has withdrawn nobody is HOST, and
the last member leaves an open, empty room, against the comment at
`room_service.py:530`. (3) `withdraw_user` holds row locks across awaits; a
second withdrawal of the account waits for them in a synchronous call, on the
event loop that the first one needs to commit, and neither is answered,
although `UserAlreadyWithdrawnException` exists for the second.

Two more divergences have no run of their own. `profile_service.py:228` says that
a completed onboarding is recognised by `updated_at` differing from
`created_at`; an onboarding that keeps the provider's nickname and chooses no
picture changes no column, writes nothing, and is never seen. `OnboardingIsSeen`
therefore speaks only of another nickname. The comment at
`withdrawal_service.py:94` says that the votes of a user who withdraws are
soft-deleted; the UPDATE that does so (`user_withdrawal_repository.py:69-78`)
overlooks a vote whose INSERT is not committed yet, the flush then waits for that
answer because of its foreign key, and the vote stays undeleted
(`WithdrawTakesVotes`). The user is not counted among the participants,
who are read without deleted users.

## Proofs

`PlanVotingProofs` proves, for every choice of the constants that satisfies
`IdsAreDistinct` and `BoundsAreNat`, that the specification `Spec` (no fairness)
keeps each safety property the run `plan_voting` checks, and `LockedPlanIsOpen`. These inductive
invariants are layered, each proved on top of `TypeInv`:

* `TypeInv` is `TypeOK` with one conjunct per transaction: at a given program
  counter the locals that the next step uses are not NULL. Without it a step
  like `status' = [status EXCEPT ![tx[t].plan] = ...]` could not be typed.
  Theorem `TypeCorrect`.
* `LockInv` adds that at most one worker is between lock and commit for a plan
  (`OneWorkerPerPlan`) and that no vote is inserted, uncommitted, into a plan
  that a worker holds (`InsertsKeepWorkersOut`). These are the facts that make
  the lock mean something; the three invariants about auto-close are not
  inductive without them. Theorems `LockedPlanStaysOpen`,
  `AutoCloseConfirmsOnce`, `AutoCloseMissesNobody`.
* `RowInv` says that a request inserts its row as its last step and that the votes
  a withdrawal has locked are rows of its user; so rows stay and keep their keys
  (`RowsStay`), whatever a withdrawal writes at its commit.
* `KeyInv` adds that two INSERTs that are in the unique index and not committed
  differ in user or plan and that neither meets a committed row. Theorem
  `AtMostOneVote`.
* `HandlerInv` adds what a handler may rely on at its commit: the plan it found
  is still there, a plan being created is not, the row it found is still a row
  of that plan. Theorem `NoticesAreTrue`, and with the other invariants the
  refinement, theorem `PlansFollowTheLifecycle`: each commit is an action of
  `PlanLifecycle` on the answers of one member or one plan, or changes nothing there.

`RoomMembershipProofs` proves, from `NullIsNothing`, `RoomsToStartWith`,
`AttemptsArePositive` and `FaultsAreNat`, every safety property of the runs
`room_membership` and `room_handlers`. `TypeInv` is again `TypeOK` with what each
handler's record holds at each point of its program. `RoomInv` has three parts,
none inductive alone:

* `RoomOK` says what holds of a room at rest: the three invariants that are
  checked, and that an absent room has no rows and no active row is marked
  KICKED.
* `HandlerOK` says that what a handler decided from is still so when it writes,
  although a withdrawal may have written in between: a joiner may still join, a
  host who leaves is still the only one, a host who found no successor is still
  the last member, a successor is an active member or has withdrawn, a target
  of a kick is still not a host; the rows a withdrawal has taken are its user's and
  still active (`RowsHeld`).
* `Apart` is the locking: two handlers never hold one room, create one room or
  withdraw one user at the same time.

There is one lemma per operation, on top of frame lemmas that say which handlers
and rooms a commit cannot disturb (`CommitFrame`, `StillFrame`). Theorems
`TypeCorrect`, `OneHost`, `HostsAreLostByWithdrawal`, `DeletedRoomsAreEmpty`, and
`KickedMembersStayOut`, an action property that follows from the same invariant.

Theorem `RoomsFollowTheLifecycle` is the refinement of `RoomLifecycle`. `RoomInv`
says what is true of the row a handler is going to write, and the abstract actions
speak of who acts, too; that is `ActorInv`: between its checks and its commit a
handler's user holds the role it acts in, or has lost it to a withdrawal. Each commit
is then mapped to its action, with the facts of `RoomInv` as the guards; a commit that
writes only what a withdrawal has already taken away maps to the same action with
nothing left to do, and every other step to `Call`, `HangUp` or a stutter.

`AccountSessionsProofs` proves, from `NullIsNothing`, `NullIsNoRow`,
`RequestsAreNew` and `BoundsAreNat`, every property of the run
`account_sessions` that needs no fairness:

* `TypeInv` is `TypeOK` with what each coroutine holds at each point of its
  program. Theorem `TypeCorrect`.
* `SessionInv` is `SessionMatchesItsToken` and that the first token of a chain of
  rotations, whose request opened the session, was issued. Every step is one of
  three things to the sessions (`SessionStep`): it `Opens` one, `Passes` one on to
  a new token, or `Closes` some (or none). From this one lemma follow
  `SessionsMatchTheirTokens` and the refinement `SessionsImplementLifecycle`: each
  step of `AccountSessions` is a step of `SessionLifecycle` or a stutter.
* `RequestInv` adds `ExchangedOnce` and what a request has established for good by
  a point of its program (`RequestOK`): the refresh token of an answered reissue is
  used up; the access token of a logout that deletes is refused; a session that a
  withdrawal found is ended, or the SCAN has it still to visit or to delete.
  Theorems `TokensAreExchangedOnce`, `LoggedOutForGood`, `WithdrawalEndsSessions`.
* `OneAccountPerIdentity` is inductive on top of `TypeInv`.

`RecurringSchedulesProofs` proves the safety properties of the schedules, from
`NullIsNobody`, `RequestsAreNew`, `TimesAreNumbers` and what the schema and the
table guarantee of bodies and rows (`BodiesAreComplete`, `PatchesHaveFields`,
`OldRowsAreValid`):

* `TypeInv` has, besides types, that a handler past its check holds a body that
  passed, and a row that is still in the table. Theorem `TypeCorrect`.
* `ScheduleInv` says how stale a handler may be. The times an unfinished PATCH has
  read are still the row's, or another PATCH of the row ended after this one began;
  day rows that its DELETE has not found were written by a request that ended after
  it began. Every request that has ended stays as it is (`DoneStay`), so an overlap
  once found is there for good. Theorems `InvertedOnlyByOverlap`, `DaysAreReplaced`.
* `SearchInv` says that a search works on the rows of the table and that what it
  finds before its slots run out is free for all. Theorem `DrawsAvoidBusyTimes`.
* `ProgressInv` is the loop invariant of the search, with `SlotsFitTheDay`
  (slots divide the day and the opening, a search covers a week) and
  `MomentsAreNat`: of the slots it has passed none is free for all, the fallback is
  the first that is free for the creator, and `checked` iterations have passed as
  many slots at least. Schedules recur weekly (`WeekBeforeIsAlike`), so that the
  earliest slot of a kind is within a week after the deadline, and a search that
  runs out has gone through that week. Theorem `DrawsRecommendTheBestTime`.

`PlaceCandidatesProofs` proves the properties of the run `place_candidates`, from what the validation and the table guarantee of the rows
that are there (`RowsHaveColumns`, `OldRowsAreChecked`, `OldRowsDiffer`,
`OldPlacesAreFinite`) and distinct ids (`NullIsNothing`, `RequestsAreNew`,
`SizesAreNat`):

* `TypeInv` has, per request, what its locals hold at each point; a row is there once
  the request that inserts it has ended. Theorem `TypeCorrectness`.
* `SerialInv`: a delete or a plan is for good, and a handler that began later has
  seen it in its checks. Theorem `PlansAreRespected`.
* `OverlapInv` adds `ChecksHold` to the two properties: what the checks of a handler
  have established still holds of every row but those that another request has written
  since the handler began. Neither property is inductive without it. Theorems
  `DuplicatesNeedOverlap`, `CoordinatesStayPaired`.
* `DrawsGoThroughAll` is inductive on top of `TypeInv`: of the places that were there
  when a client began to draw, fewer and fewer can be drawn, and the draw that ends has
  found none that was not shown. Theorem `DrawsAreComplete`.
* `OrderInv` and `ScrollInv`: while nobody deletes, what was in the list when a member
  began to scroll is on a page that has been read or has a rank beyond those pages;
  rows only come in before it. Theorem `BrowsingIsComplete`.
* `SearchedBodiesAreValid`, a lemma about `PlaceSearch`: whatever the request, the
  settings and the answer, what the search lets through has coordinates in range. With
  `InvalidInv`, a request that was rejected as invalid still holds coordinates that are
  not, this gives theorem `SearchResultsAreAccepted`.

`UserProfileProofs` proves, from `NicknameIsAllowed`, `OldImagesAreOld` and
`NullIsNothing`, the safety properties of the run `user_profile`:

* `TypeInv` relates each file to its row by the point that the upload which writes both
  has reached (`FileOK`). Theorem `FilesAndRowsMatch`.
* `SeenInv` (another nickname shows as an update), `WithdrawalInv` (nobody begins after
  a withdrawal that succeeded, which has left no picture behind) and `ChoiceInv` (while
  no two choices of a picture have overlapped, what an unfinished one has decided from
  is still so, and it is going to demote every picture but its own). Theorem
  `LastRequestWins`.

`NotificationInboxProofs` proves, from the assumptions of `NotificationInbox` and
`PushDelivery` on ids, rows and bodies, that the diagnosis of a push reports what a
dispatch would do (`DiagnosisIsADispatch`) and that scrolling an inbox shows everything
that was in it (`ScrollingIsComplete`, with an `OrderInv` and a `ScrollInv` like those of
the places), besides `TypeCorrectness`. `PushDeliveryProofs` builds on it and proves
`PushesObeyTheAnswers`: the pushes of every dispatch follow the last word of each device
and each user. Its invariant joins what each kind of request leaves for good until
another of its kind comes:

* `AccountInv`, who has withdrawn has not registered since; `SwitchInv`, a type that was
  switched off and is on was switched on since; `OwnerInv`, the row of a device is of the
  user who has registered it last; `RejectInv`, a device that FCM has refused stays
  inactive until it is registered again.
* `PromiseInv`, the other direction: a registration that nobody has undone leaves an
  active row that no withdrawal is about to mask.
* `AgainstInv` and `ForInv` say of a dispatch under way what `PushesFollowTheLastWord` says
  of one that has ended; they use the five others at the moment it reads the devices.

Each candidate invariant was checked by TLC before it was proved. Every safety property
of the passing runs is proved; what is only model-checked is everything under fairness
(`DuePlansAreConfirmed`, `HandlersEnd`), which is out of the prover's reach. What `ImageExtraction` computes is
evaluated on the answers of `MCPlaceCandidates` only: it merges the parts of an answer
with folds over sequences, and what a fold computes for every input needs induction over
data.

## Not modelled

* **Terms agreement**: one INSERT ... ON CONFLICT DO NOTHING under a unique
  index, idempotent by PostgreSQL, read back only by the handler itself.
* **API layer, schemas, exceptions, metrics, migrations, deployment**: routing,
  validation, wording and configuration. The endpoints are the operations above.
* **Reads that change nothing**: the lists of rooms and plans, the vote
  screen, the profile, the details of an inbox item.
* **Image formats**: recognising a file by its first bytes is a table.
* **The connection pool** (hazard at `image_extraction_service.py:64`): a
  handler that keeps its connection during a slow provider call; the modules
  have no bound on transactions in flight.
* **Ambiguous commits** (an error answer after the COMMIT was done) are in the
  upload only, where the code cleans up after them; elsewhere the handler just
  reports the error.
* **A push after a failed query**: an error of the dispatch's own queries comes
  after the commit and reaches the client as an error of the request
  (`plan_service.py:845`); the inbox row is there all the same.
