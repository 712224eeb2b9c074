# mini-app-stack: specifications, model checking and proofs

This directory holds TLA+ models of `djdietrick/mini-app-stack`, the TLC
configurations that check them and proofs that TLAPS checks. Every definition
is a translation of code under `src/`; `PROJECT.json` (`map`) names the lines.

## The system

Several small web apps share one stack. Each app is a table of
transport-free routes (`domain/`) over a data port (`repo/types.ts`) that is
implemented twice: on Postgres (self-hosted, Fastify) and on Firestore (Cloud
Functions). A request is verified (`packages/auth-client`), routed
(`packages/service-kit`) and answered by a handler that calls the port one or
more times. Nothing is shared between requests but the database, a few
in-process caches, and leases for scheduled jobs.

| Part | State | Operations | What is hard | What makes it correct |
|---|---|---|---|---|
| highroller, chips and hands (`hands.ts`, `economy.ts`, `settle.ts`, `jackpot.ts`, `repo/postgres.ts`) | players, ledger, hands, gifts, game stats, jackpot and its hits | open a player, start a hand, act, settle, daily bonus, bailout, gift, jackpot contribution and hit | requests of one player side by side, retries, double taps, lock order, a pot all players touch, days that change while a request waits | the ledger explains every balance; a hand moves its own chips once; a settled hand is final; the pot conserves; gifts balance and keep their caps; claims once a day; no deadlock |
| highroller, Firestore twin (`repo/firestore.ts`) | the same records as documents, the pot over ten shards | the same | optimistic transactions that run the step again, blind increments | the same promises |
| highroller, quests, shop, boards, feed (`quests.ts`, `catalog.ts`, `social.ts`, `stats.ts`) | quest rows, inventory, equipped, weekly rows, feed, caches | progress, claim, buy, equip, hide, list | read-modify-write outside the transaction, batches, stale caches | a quest pays once; no equip is lost; a hidden player leaves every board |
| highroller, engines (`games/*`) | a hand's state | deal, act, settle | payout arithmetic, many phases | the contract of `engine.ts` |
| highroller, web client (`useHand.ts`) | the hand shown, the request under way | start, act, retry, recover | lost answers, stale versions | converges to the server's hand |
| ytdigest, jobs (`poll.ts`, `digest.ts`, `lease.ts`) | channels, videos, subscriptions, notified videos, a lease | poll, run digests, run now | overlap, leases that run out, crashes between steps, failed mail | no upload is missed; a video is mailed once |
| ytdigest, rules and feed | rules, cursors | match, page | baselines, ties | the feed's pages partition the matches |
| crumb, reminders | starters, bakes, reminders, push subscriptions | edit, replace, claim, send | edits racing, overlapping dispatchers | a reminder is sent at most once, and as the last edit says |
| crumb, fermentation and bakes | bakes and their steps | start, advance, estimate | real-valued arithmetic | steps advance in order |
| pantry | households, members, invites, items, lists | join, leave, remove, accept, finish a list | members leaving at once, an invite used twice | a household has an owner; an invite is used once |
| crate | album queue | queue, listen, rate, skip | two inserts at once | one row per album |
| fretwork | exercises, runs, progress, positions | record a run, suggest | aggregates folded on write against the same thing rebuilt by the client | the ladder agrees |
| auth, functions/auth | users, sessions, flow cookie | sign up, log in, log out, verify | a cache in front of the session table | a session ends |
| service-kit, db-clients, mailer, auth-ui, landing, infra | none of their own (migrations: one table) | plumbing | | |

`PROJECT.json` lists each with its sources, what is modelled of it and, under
`hazards`, what in this code is hard to test, line by line.

## What is modelled: the chips of highroller

| Module | What it is |
|---|---|
| `Chips` | The pure rules: `applyCreditTo` (`Post`), `newPlayer`, `planStart`, `planAction`, `finish`, `settleHand`, `payJackpot`, the claims, `planGift`. Each takes the rows a transaction read and gives the rows it writes. An engine is only its contract: the states it may deal and reach, with what the lifecycle asks of a state. |
| `ChipsPostgres` | The Postgres repository. The tables are variables, requests are processes: arrive (the route, with everything it fixes before its transaction: the deal, the day, the recipient), lock player rows one by one, run the pure step on what is locked, lock the jackpot row if the hand wins it, commit or lose the connection. |
| `ChipBook` | What this promises, with no transactions: a book of balances, hands and a pot in which every change has one cause. `ChipsPostgres` implements it (`ImplementsBook`). |
| `ChipsAccounts` | The promises about money as sums over the tables, and the invariants behind them. |
| `ChipsFirestore` | The Firestore repository: the same steps in transactions that lock nothing. It implements `ChipBook` too. |
| `ChipsPlans` | When a plan still fits the tables. |
| `ChipsInvariant`, `ChipsFirestoreInvariant` | The inductive invariants. |
| `ChipsPlanProofs` | Lemmas about the pure rules, shared by both repositories: what each rule plans, and sums over tables. |
| `ChipsSafetyProofs` | Proofs about `ChipsPostgres`: every action, requests that race, the refinement. |
| `ChipsAccountsProofs` | Proofs of the sums, and of what a day limits. |
| `ChipsFirestoreProofs` | Proofs about `ChipsFirestore`. |
| `MCGames`, `MCChips`, `MCFirestore` | Small engines, and id sets and bounds for TLC. |

How the code maps to actions: `EnsurePlayer` is `ensurePlayer`; `PostHands`,
`PostAction`, `PostClaim` and `PostGift` are the routes up to
their call of the repository; `LockPlayer` is `SELECT ... FOR UPDATE` (for a
gift the rows come in `user_id` order, one at a time); `PlanStart`,
`PlanAction`, `PlanDaily`, `PlanBailout`, `PlanGift` run the step;
`Answer` is every refusal and every repeated request that is answered without
writes; `LockJackpot` is the `FOR UPDATE` of a hit together with
`payJackpot`; `Commit` applies all writes at once, which is what other
transactions can see of them; `Abort` is a lost connection, a crash or a
constraint violation anywhere before the commit; `Tick` moves the clock.

A retry is a request like any other with an id that was used before. A
request holds its locks from its reads to its end, so the reads of hands,
statistics and gifts between them are atomic with the step: every row they
read is only written under the same player's lock. Where that is not so (the
jackpot) the lock is a step of its own.

Left out of the records, because nothing about chips reads them: names, e-mail,
xp, the view and results of a hand, wins and losses in the statistics, the
weekly row, quests, the feed, equipped items, times of day. A ledger row's
`handId` and `ref` are one field: a row has a hand, or a reference, or neither.
A player is a number, because lock order is the order of user ids. A day is
a number: `previousDay` is the day before it.

On Firestore (`ChipsFirestore`) an attempt of a request reads its documents and runs the
step (`PlanStart` to `PlanGift`, one snapshot), a hit then reads all shards (`ReadPot`),
and the attempt commits if nobody has written a document it read (`stale`); `Reads` and `Written`
are the documents `handTransaction`, `applyCredit` and `gift` read and write. A contribution increments
its shard without reading it, so it makes a hit's attempt stale and is never made stale by one. The client library is external
and is modelled as it is used: a transaction whose callback or commit fails is run again from
the start (`Rerun`), also when it took effect and only the answer was lost (`Commit` ending in `Again`), until
it gives up (`Fail`). That library queues writers behind readers at times; a queue only removes
interleavings from those modelled. A hand's transaction writes its player's whole `activeHands` map from the copy it read
(`read`); claims and gifts leave the map alone.

- `ShardsBalance`: no contribution is lost to a hit that zeroes the shards, none counts twice.
- `ActiveHandsAgree`: the map does what the unique index does on Postgres.
- `CreatesSucceed`: `tx.create` on a ledger number, a gift or a hit never refuses an attempt that is not stale.
- `ImplementsBook`: every request acts at most once, whatever is run again.

### Runs

`firestore` uses `MCFirestore`, the other runs of this part `MCChips`; the stakes, limits and grants are scaled to a few chips so that
limits are reached (`StartingBalance` 10,000 in the code is 0 to 3 here,
`GIFT_SEND_LIMIT` 5,000 is 2, `DAILY_STREAK_CAP` 7 is 2, and so on). The seed
of the pot is 197 hundredths where spins are played, so that a payout rounds down. Requests are
interchangeable and their symmetry is used in the safety runs.

| Run | Instance | Question |
|---|---|---|
| `economy` | 2 players, 2 requests at a time, 3 hand ids, 3 gift ids, clock to 5 | Does each hand move its own chips once? Does the pot conserve? Do gifts balance, keep caps and floor? Are claims paid once a day, and does the streak pay what the ledger shows? Does nothing deadlock, and do the tables implement the book? |
| `live` | 2 players, 2 gift ids, 1 spin each that feeds or wins, 2 requests | Is every request answered? Do gifts and hits side by side implement the book? |
| `midnight` | 1 player, 2 requests, 3 days | Finding 1. |
| `firestore` | 2 players, 2 requests at a time, 3 hand ids, 2 gift ids, 2 shards, 2 days | Do transactions that lock nothing and run again implement the same book? Does a pot over shards conserve? |

`economy` bounds its behaviours by an action constraint, `OneBusiness`: one
behaviour is about the call game and the bailouts after it (one player), about
spins and the pot (two players), about gifts that cross (two players, two days),
or about daily claims (one player, three days), each in full. The four instances
add up and do not multiply; what is not met is one kind running beside another.
`ChipsPostgres` itself allows it, and the proofs below cover it. `firestore` is bounded the same
way, but for gifts and daily claims, which it mixes: a claim of the receiver is what a gift's
reads must notice. Two shards, with two hands on one of them, tell a read of all shards from a
read of one.

Two requests are enough for every pairwise race, since a transaction's only
contact with others is through locks, and a ring needs two requests and
two rows. A player with two hand ids meets an id that is used again, a second
hand of a game, and a hand after a settled one. Ids are finite and each is used up
by its first success, so `MaxClock` is the only bound on an action.

In `economy` the clock moves only between requests (`SlowRequests = FALSE`): no
request lasts past the tick it came in. `ClaimedOncePerDay`, `StreaksPayRuns` and
`GiftCaps` depend on it, and Finding 1 shows what happens without it. It also keeps a
player in one time zone.

Fairness (`FairSpec`, used by `live`): strong fairness of each request's own
steps. A handler runs to its end, and Postgres grants a row to its waiters in
turn. Aborts are not fair: nothing is owed to luck. Arrivals are not fair either.

## What is modelled: the jobs of ytdigest

| Module | What it is |
|---|---|
| `Lease` | `lease.ts` under the poll job: one key with a time to live, triggers that come when they like, crashes, the platform's timeout. Time is in minutes (a lease of 10, a timeout of 9). |
| `Poll` | `poll.ts` on Postgres with everything around it: YouTube's uploads, subscriptions made, edited and dropped, a lease that may expire under a run. |
| `Digest` | `Poll` extended with `digest.ts`: the daily job over its users, run-now, the outbox, `notified_videos`. |
| `LeaseProofs`, `DigestProofs` | Proofs. |
| `MCLease`, `MCPoll`, `MCDigest` | Values for TLC. |

Nothing here is a transaction except `recordDigest`: a job is a sequence of
autocommitted statements, calls to YouTube and one mail, so every
await is a step, any of them may fail (`FailChannel`, `FailDigest`: the loop
logs and goes on) or be the process's last (`CrashPoll`, `CrashDigest`), and
what a run read before an await it may use after it. A run's locals are a
record: `poll[p]` has the channels to do, the newest row read,
the rows left to insert or count; `digest[d]` has the users to do, the
subscription rows as they were read, the candidates still to be matched, and the lines of the mail.

| Action | Code |
|---|---|
| `StartPoll` | `acquire` and `channelsToPoll` |
| `ReadLatest`, `ListUploads`, `InsertVideo`, `TrackVideos`, `RecordStats`, `MarkPolled` | the awaits of `pollChannel`; `insertVideos` is one step per row |
| `EndPoll`, `Expire` | the `finally`'s release, which deletes the key whoever took it; the key's time to live |
| `StartDaily`, `RunNow` | the two ways a digest begins, with its `runDate` |
| `ReadDue`, `ReadCandidates`, `MatchVideo` | the awaits of `buildDigest`: the due rows; one row's candidates, with `enabledRules`; one candidate's `latestSnapshot` and what the rules say of it |
| `MarkDigested`, `SendMail`, `RecordDigest` | the awaits of `sendDigest`; `markDigested` is one step per subscription |
| `Subscribe`, `EditSubscription`, `Unsubscribe` | the routes |

A video is its channel and its rank among the channel's uploads, which is its
place in the playlist and by `published_at`. `first_seen_at` is the time its
INSERT began, so a row may become visible with a time already past. A tick of
`Digest`'s clock stands for a day, as far as `dayOfWeek` reads it, and for
any time that passes as far as windows are compared. Rules are abstracted to what they may say of
a video (`Verdicts`): some they match by its words alone (`Titled`), of the others they may say either
once it has statistics, and before that they cannot match it.

Some variables only remember causes: `skipped`, `rejected`, `unsent`, `unrecorded`,
`doubled`, `late`. No guard reads them. With them the main properties say not that nothing is
ever lost or repeated, which the code does not promise under failures, but
that nothing is lost or repeated in any way but those listed:

- `GapsHaveACause`: a missing upload older than a stored one was left by a
  poll that failed or crashed half way (newest first is what makes that final), or was
  beyond the five pages. Two polls at once make no hole of their own.
- `NoSilentLoss`: a stored video behind a subscription's window is notified, in a
  digest under way, was judged and refused, lost its mail or its record
  after `markDigested`, or became visible behind the window. A refusal is final, whatever the
  statistics were by then.
- `MailedAgainHasACause`: a second mail follows a record that failed, or two
  digests that overlapped: one read a candidate that the other had read or taken and not yet
  recorded.

The lease of `Poll` may expire at any time, under a running poll too: `Poll`'s properties
hold with and without the exclusion that `Lease` shows.

Left out: the Firestore twin of the repository, rows of past digests, `last_polled_at`, videos
YouTube withdraws between two polls, uploads that appear while pages are
being listed, and changes of rules (so when `enabledRules` is read makes no difference). A failed `channelsToPoll` releases the lease at once and
changes nothing.

### Runs

| Run | Instance | Question |
|---|---|---|
| `lease` | 3 runs, lease 10, timeout 9 enforced | Is there ever a second holder, or a foreign release? Does the job go on after a holder crashed? |
| `poll` | 2 polls, 1 channel, 2 uploads, 2 ticks | Are holes only those with a cause? Is every upload stored in the end, or a newer one? |
| `digest` | 1 user with 2 digests at once, weekly, over 2 days; or 1 user who drops the channel and subscribes again; or 2 users on one channel, cadences edited between daily and a day that is not due; or 1 user with a digest of 2 channels; rules, the second channel's videos matched by their words | What do overlapping digests lose or repeat? Do users' histories stay apart? Does a digest that fails between two marks lose anything more? |
| `digest_twice` | 1 user, 2 digests, 2 videos | Finding 2. |

Bounds: `MaxUploads`, `MaxClock` and `MaxSubs` bound the three counters. Two
uploads make a batch that can be cut in half, and a second poll that starts from half of it;
the pages hold both, so the uploads beyond the fifth page, a cause `GapsHaveACause` names, are
not met; two days tell a window that is closed from one that is not.

`digest` keeps its four instances apart with the action constraint `Apart`: which of them a
behaviour is in is settled by who subscribes, and to what. From the second subscription on, the poll and the digest take
turns and the clock stands; beside each other they run with one user of one channel. A channel
dropped and subscribed to again may be so at any await of a digest: its marks meet a row of another
id, its record a foreign key.

Fairness. `Lease`: time passes, triggers keep coming, a run with an answer
goes on, and (strong) not every run dies before the lease answers.
`PollFairSpec`: leases expire, triggers keep coming; YouTube, the reads and the inserts
succeed if tried for ever (strong, since crashes and failures may interrupt them for ever
but not every time), and a poll's own steps go on (weak). Nothing is assumed
of users, uploads or failures.

## What is modelled: crumb's reminders and bakes

| Module | What it is |
|---|---|
| `BakePlan` | The plan of a bake as pure functions (`fermentation/plan.ts`): `planBake` lays the steps out backward, `completeStep`, `logFold`, `foldsDue`, `shiftRemaining`. |
| `Crumb` | The routes that change starters, feedings and bakes, the sync of their reminders, and the dispatcher, on Postgres. |
| `CrumbProofs` | Proofs about plans, reminders and pushes. |
| `MCCrumb` | Values for TLC. |

A request makes its change (`NewStarter` to `DropFeeding`, `NewBake` to `Shift`) and then
syncs, every await a step: `ReadRecord` and `ReadFeedings` (`syncStarter`
reads the starter again, then its feedings), `Plan` (the reminders as of now;
a bake's come from the row the route already has), then `replaceReminders`. That is a
transaction under READ COMMITTED, modelled down to what its DELETE sees: `Plan`
also takes the DELETE's snapshot (`saw`), `DeleteRows` waits for rows another has deleted
and not committed, `InsertRows` upserts and commits; what a commit has deleted, the others'
DELETEs skip (`Skip`), and a row stored again under the key of such a row is another row, which
they leave alone.
`Fail` stops a request at any await; its change stays. The dispatcher is
`ClaimDueReminders` (one statement, FOR UPDATE SKIP LOCKED), `ListDevices`, `Push`
(taken, failed, or the device is gone) and `StopDispatch`.

A reminder is a row named by its group (a starter or a bake) and key, with a due time. Words,
recipes beyond the minutes and folds of their steps, temperatures and predicted durations are
left out (`FeedEvery`, `PeakAfter` are constants). One user. As in `Digest`, some
variables only remember causes: `unsure` (requests about a group overlapped or
failed, and none has run alone since), `raced` (a reminder was claimed while a request that had planned it
was about to store it), `strain` (what happened to a plan besides steps done in turn).

- `RemindersCurrent`: with nothing in flight and no such cause, the reminders to come
  are those the tables imply: no route leaves out the sync and no sync reads too
  little.
- `TwiceOnlyInARace`: overlapping and crashing dispatchers never push twice. A request
  that planned a reminder before it was due and stores it after it was claimed does.
- `DoneInOrder`, `OverlapHasACause`, `NextStepFollows`: steps are done from the first on; open steps
  overlap only after a shift with two of them under way; the next step starts when the one before
  was done, unless the plan was shifted or a step marked done again. Both exceptions are real:
  `shiftRemaining` lengthens every open step that has started and keeps its start, so a first step
  left open grows into the second (`plan.ts:199-200` says steps never overlap); and a second `done`
  moves the later steps again, since `completeStep` leaves the end it measures from where it was.

| Run | Instance | Question |
|---|---|---|
| `crumb` | 1 starter or 1 bake of 2 steps, 3 changes, 2 requests, 2 dispatches, 1 device, clock to 3 | The properties above. |
| `crumb_replace` | 1 starter or 1 bake, 2 requests | Finding 3. |

`Apart` bounds `crumb`: a behaviour is about a starter or about a bake, which share no
row; the device registers first and is given up only after a push; a
bake's third change waits for its second; two dispatches run at once only about a starter
with two changes. Two requests and two dispatches make each race once; the third change
makes one that comes after a race. No fairness is assumed: all of it is safety.

## What is modelled: pantry's households

`Households` (with `MCHouseholds`, `HouseholdsProofs`) is membership on Postgres: `household_members` in the
order of joining, invites with the user each let in, `active_household_id`.

| Action | Code |
|---|---|
| `AskDelete`, `AskActivate`, `AskInvite`, `AskRevoke`, `AskRemove` | the routes, up to `requireOwner` or `requireMember` |
| `CreateHousehold`, `DeleteHousehold`, `SetActive`, `CreateInvite`, `RevokeInvite` | one statement or transaction each; foreign keys refuse a household that is gone |
| `OpenInvite`, `AcceptInvite` | `acceptInvite`: the SELECT FOR UPDATE with its tests; the rest and COMMIT |
| `ReadRole`, `DeleteMember`, `Look`, `Settle` | `memberRole` of the one removed, then the three statements of `removeMember`'s transaction; `Settle` promotes or drops, and commits |
| `FindOther`, `Repoint` | the two statements after it |
| `Fail` | any statement; an open transaction is undone, what came before stays |

Nothing uncommitted is in the tables; a request's record says which row it holds deleted (`row`), and
`Deleted`, `Accepting` and `DropBlocked` say who waits for it: a second DELETE or an
UPDATE of that row, the same user's INSERT, the cascade of a household's DELETE. A Postgres deadlock (an
accept against a DELETE of its household) ends one of the two, which is `Fail`. Two
members who join at once are ordered by their commits, where the code orders them by the beginning
of their transactions.

- `OneOwner`: a household has exactly one owner, unless two removals crossed in it.
- `InviteSingleUse`: who an invite let in never changes.
- `ActiveHasACause`: what a user has active is a household of theirs, but while a
  removal has yet to repoint them, or after requests about them met or one failed.
- `LostOnlyInARace`: a household deleted by its last member leaving is lost only by
  someone who joined between that member's look and the commit.

| Run | Instance | Question |
|---|---|---|
| `households` | 3 users, 2 households, 2 invites, 2 requests, 1 expiry | The properties above. |
| `households_owner` | 2 users, 1 household, 1 invite, 2 requests | Finding 4. |

Three members are what it takes for an owner and the next one to leave a third behind.
`OneHousehold` bounds `households`: only one household has invites, is left or deleted, the other
is what a user may have or be given as active; households and invites are made while no
other kind of request is in flight; time passes before anyone joined; requests meet about one user.
Both runs may stop: once ids and clock are used up and every household is gone
nothing is left to do (`CHECK_DEADLOCK FALSE`).

## Findings

1. `midnight`: `dailyBonus` and `bailout` compare the day on the row with the
   request's for equality, and the request's day is fixed before it waits
   for the row. A request from before midnight that commits after one of the
   new day puts the old day back; the new day is then paid again.
   `economy.ts:51`: "Once per day." The gift counters (`economy.ts:140-142`) keep a day and a
   count in the same way.
2. `digest_twice`: a digest reads its candidates, mails them, and only then records
   them; `ytdigestDigest` and run-now take no lease. Two that overlap
   mail the same videos. `repo/types.ts:132-133`: "a video is never sent to
   the same user twice"; `contract.test.ts:694`: "never sends the same video twice".

3. `crumb_replace`: `replaceReminders` deletes what its snapshot sees and inserts. Of two
   requests about one starter or bake, the second to commit adds its rows to
   the first's; a deleted starter keeps the reminders an edit in flight stored again.
   `repo/types.ts:85-86`: "Replaces every reminder in `group` (sent or not) with `reminders`, in one transaction."
4. `households_owner`: two members who leave at once each still see the other. The owner
   promotes a row that is gone, and nobody finds the household empty: it stays without members, or, with
   a third, without an owner. `repo/types.ts:55-56`: "deletes the household if it is now empty; promotes
   the longest-standing member if the owner left".

Exclusion of polls depends on the platform: the lease lasts ten minutes and is not
renewed, and only the cloud kills a run before that. Self-hosted, a poll that takes longer than its lease
and than `POLL_INTERVAL_MINUTES` (180 by default) has another beside it; `poll` shows that two polls at
once leave no hole of their own.

## Proofs

### Proofs: chips

`ChipsSafetyProofs` proves, for all players, games, engines that meet the
contract, ids, requests, limits and clocks:

- `AlwaysTypeOK`: types, so in particular no balance is negative;
- `AlwaysLedgerExplainsBalance`;
- `AlwaysNothingConflicts`: primary keys and `hands_one_active_idx` never
  refuse a write, the rules and the locks already prevent it;
- `AlwaysSettledForGood`: a settled hand is final.

Assumptions: the named ones on the constants (`EngineAssumption` is the
contract in `engine.ts`; among it that the stake never shrinks from a state to the next:
"total chips wagered on the hand so far"), and `DistinctIds`: no two players' clients make the
same id. They are uuids; the code checks whose hand an id is only against what the
table holds, so two players starting the same id at once would both pass
`planStart` and the later commit would update the earlier one's row.

The invariant (`IInv`) is needed because none of these is inductive: what
makes a commit safe is that the plan, made some steps earlier, still fits the
tables. Its parts: `LocksHeld` (a request that planned holds all its players'
rows, and only such a request does), `PlansFit` (for every planned
request, its ledger rows continue each of its players' ledgers from the row
the table has now, its hand is new or the player's own and active, it
leaves one active hand per game), `RowsOwned` (ids belong to the players
whose clients make them), `OneActive` and `LedgerExplainsBalance`. A commit
changes only rows of players its request holds, so the plans of all
others still fit; `CommitInv` is that argument.

`ChipsPlanProofs` shows first for each rule that what it plans fits
(`StartPlans`, `ActionPlans`, `DailyPlans`, `BailoutPlans`, `GiftPlans`,
`JackpotPlans`). `ChipsSafetyProofs` then takes the actions one by one (`NextInv`), and adds on top of `IInv`:

- `AlwaysStaleNeverActs`. What has to be kept besides (`ActsFit`): a planned
  move of a stored hand is the version after the one its request saw, and that is still
  the stored one, because the hand only changes under the player's lock.
- `AlwaysGiftsStopAtFloor`. `PlansSound`: every planned `gift_out` row leaves the
  floor or more. The plan is made on the locked balance and commits before the lock goes.
- `AlwaysNoDeadlock`, for finitely many requests. `LocksAscend`: the rows a request holds come
  before the ones it still needs, so whoever waits for a row waits for a request that is after a
  row further on, and finitely many cannot all do so; who waits for the pot waits for a request that
  has all it needs (`NoRing`).

It also proves `AlwaysImplementsBook`: `Spec => ImplementsBook` with the mapping of
`ChipsPostgres` (a balance is the row's, a hand's `net` is what its own row and its jackpot row say it
moved). `BookFits` relates each plan to the tables as they are: the balance a planned hand
leaves differs from the stored one by what the hand's planned row says minus what the stored row
says (`HandMoves`), a claim takes nothing (`ClaimGrants`), a gift moves its amount (`GiftMovesOn`). Locks
and distinct ids keep this true while others commit (`CommitFits`), so a commit is a `Play`, a
`Grant` or a `Gift` of the book (`CommitBook`), a new player a `Join`, and the rest stutters.

`ChipsAccountsProofs` proves the sums, for tables of any size: `AlwaysHandsBalance`, `AlwaysStatsCountHands`,
`AlwaysJackpotBalances`, `AlwaysGiftsBalance`, all under `DistinctIds`. A sum is the
fold of the community modules; that adding a row to a table adds its value to the sum
(whichever element the fold takes first) is induction over finite sets, done as a least
counterexample of the strict subset order, which needs no theorem with an operator parameter.
`AccountsInv` says what a planned request tells the accounts: the amounts its ledger rows
have for its hand, its gift or its claim, the change of its statistics row, what it adds to the pot. Each of these is
a difference to the row that is stored now, and the locks keep it so until the commit, which then
adds to each sum what the plan says. A hit's payout is read off the pot it has locked.

It also proves `AlwaysGiftCaps`, `AlwaysClaimedOncePerDay` and
`AlwaysStreaksPayRuns` under `DistinctIds` and `OneCalendar`: requests do not outlast the day they came in
(`~SlowRequests`), and all clients are in one zone. Finding 1 is what happens without the first; without the
second a day may come back when a player travels. `CalendarInv` says that the days of a player's row
only move on and are never ahead of the clock, that the row's count for its day is what the
gift rows of that day sum to, that the ledger has claims of that kind for no later day, and that the
streak is the run of claimed days that ends on the row's day.

`ChipsFirestoreProofs` proves every property of the `firestore` run, for any number of players, attempts and
days and any finite set of shards, and `AlwaysExplains` beside them. There are no locks to lean on, so the invariant
(`IInv` of `ChipsFirestoreInvariant`) speaks of attempts that are `Current`: all they have read is as they read it.

- `PlansFit`: such an attempt still fits the documents. Its ledger numbers follow those stored, the map it
  will write back is the player's map as it is now, its hand is new in a free game or is the stored one and active, and
  its balance differs from the stored one by what its hand, grant or gift moves. A commit either leaves
  another attempt's documents alone (`OtherFits`) or has written one that it read, and then that attempt is stale. Of a stale
  attempt nothing is known: it can only run again, or fail.
- `ActiveHandsAgree` is part of it: whether a game is free is read off the map, and the map is only as good as the last
  attempt that wrote it whole. `HitsSettled` says that a hand still active has no hit, which `CreatesSucceed` needs.
- `HitFits` has the pot an attempt read as the pot that is: a contribution is blind, so it
  makes the hit stale though it never reads what it adds to. `PotInv` then moves by what is fed and paid
  (`CommitFeeds`, `CommitPays`), summed over shards.
- `AlwaysImplementsBook` adds nothing to the invariant (`CommitBook`): an attempt that runs again after it took
  effect reads the hand or the gift it left, so it is answered and the book stutters.

No two clients need to make different ids here: an attempt reads the document of its hand and of its gift, so
another's with the same id makes it stale. `DistinctIds` is an assumption of the Postgres proofs only.

Only model-checked: `RequestsEnd` (liveness is out of TLAPS's reach here).

### Proofs: ytdigest

`LeaseProofs`, for any number of runs, any time to live and any timeout below it:
`AlwaysOneAtATime` (where timeouts are enforced) and `NobodyElseEverReleases`.
Exclusion alone is not inductive: the key could run out under
its holder. `LeaseOutlivesRun` says that what the key has left and the
holder's age add up to at least the time to live, and no holder's age passes the
timeout. That a killed function really stops is an assumption (`Enforced`).

`DigestProofs` proves `AlwaysMailedAgainHasACause` with no bounds on anything.
Its invariant: what was mailed is recorded, failed to be, or is in a digest
about to record (`MailedIsKept`); what a digest holds, as a candidate or a line, and has not yet
mailed is not recorded, and not another digest's, unless it is `doubled` (`HeldIsNew`,
`SharedIsDoubled`). A corollary a reader can draw: were digests of one user
exclusive and records never to fail, no video would be mailed twice.

It also proves `AlwaysGapsHaveACause` and `AlwaysFirstSeenIsKept` of the poll alone (`PollSpec`). A video is
`Covered` if it is stored, was skipped, or is still in the hands of a poll. `PollInv` says that what a poll
lists from is stored (`SinceIsKnown`), so that all below it is covered already, and that below every row a
poll has yet to insert everything is covered (`InsertsCovered`). Another poll beside it takes nothing
away from that, since no step uncovers a video: a poll that ends early leaves what it had in hand to `skipped`.

`AlwaysNoSilentLoss` is about `Digest`, with every step of the poll and the users beside it. A pair of user
and video is `Accounted` for if it is notified, taken by a digest that has marked its subscription, or has one of
the causes; `WindowsInv` says that behind each subscription's window all stored videos are accounted
for (`SubAccounted`), and that a digest accounts for what lies between the window it read and its
`runDate` once it has read the candidates, some of them as candidates it has yet to match
(`DueAccounted`); when it comes to mark none is left, so its UPDATE may move the window there. It needs what a
digest's rows have to do with the table's: their ids are never given out again, and a row of the same id is
still of that user and channel (`RowsOf`), whatever was edited, dropped or subscribed anew since.

The proofs use that there are users and channels at all (a digest's record names one when idle).

Only model-checked: `JobRunsAgain` and `UploadsArrive`, which are liveness.

### Proofs: crumb

`CrumbProofs` proves all of `Crumb`'s properties but the one the code breaks (`ReplacesGroup`, Finding 3), for any number
of starters, bakes, requests, dispatchers and devices, and for recipes of any length.

`PlanBake` and `ShiftRemaining` are recursive functions over the naturals. That such a function
exists at all, and what it computes, is shown by a least counterexample: partial functions that
satisfy the recursion up to n, for every n. `BakeOK` is what follows of a stored bake: steps done form a prefix, each
planned span is a span of time, consecutive open steps meet unless `strain` names why not. From
it come `AlwaysDoneInOrder`, `AlwaysOverlapHasACause`, `AlwaysNextStepFollows` and `CrumbTypeOK`,
due times included. `RecipeAssumption` says that recipes are sequences of steps, with at least one (`recipes.ts`).

`AlwaysRemindersCurrent` rests on `RemindersInv`: a request that is alone with its group, and has been since it made its
change, has read what the tables hold (`AloneSound`, `SawOwn`), sees all rows of its group in the snapshot of
its DELETE, and what it plans is what they imply; requests that met left the group `unsure`
(`MetUnsure`), and only one that is alone from its beginning takes that back. A quiet
group that is not unsure therefore has the reminders of its tables (`QuietCurrent`), minus those that were due.

`TwiceOnlyInARaceHolds` follows what was handed out: it was due (`HandedAreDue`), so a plan made now cannot
store it again (`StoredInRace`); its row is marked (`UnsentInRace`), so no other dispatch has it
(`HeldInRace`), and each dispatch pushes it once per device (`PushedInRace`), unless it is in `raced`.
`CrumbTypeOK` gives the one fact it needs about plans: that due times are times.

### Proofs: pantry

`HouseholdsProofs` proves all of `Households`' properties, for any number of users, households, invites and requests.

`InviteSingleUseHolds`: an invite being accepted is unused and accepted by one request (the row lock
together with the test after it), and no id is given out twice, or a new invite could
take the place of one in use.

`TablesInv` is behind the rest: one row per household and user, ids given out once, and requests about what there
was (`TablesOK`, `JobsOK`); a user nobody is unsure about has one request at most, and the household it will make
active is still theirs (`OneRequest`, `TheirsToHave`); whoever is left where a removal saw nobody joined
since (`LatecomersRaced`); and a household where no two removals crossed has one owner, and its only removal knows the
member's role and, once it looked, a member who remains and theirs (`Uncrossed`).

`AlwaysOneOwner` is the reason `OneOwner` says no more than it does. With two removals of the same owner in flight,
and a member who leaves and joins again between the look and the commit of one of them, a household can have two
owners; it takes more requests than the `households` run has, and came out of the proof, whose invariant could not
be kept without `crossed`. TLC confirms it on an instance made for it. It is one more consequence
of Finding 4: removals do not lock the household.

Only model-checked: nothing of pantry.

## Not modelled

- The Firestore twins of the other apps (`repo/firestore.ts`): the port is the same, so each would be a
  second refinement of what is here. Of highroller's, the quests, purchases, weekly rows and `setListed`.
- highroller's quests, shop, equipment, boards, feed and caches; `purgeSettledHands`: the properties about hands are
  stated over all settled hands, and `ChipsPostgres` keeps them.
- That each engine meets the contract `Chips` assumes; the client's side of a retry.
- ytdigest's rules and feed paging, pantry's items and lists, fretwork's tempo ladder, crate's queue: single statements
  or folds with little that interleaves.
- Sessions: how long a cached one outlives its logout is the cache's constant.
- Web clients, which are half of the repository's lines: rendering, audio, forms. The map covers
  a small part of the repository for that reason, and the parts above for the rest.

## Plan

What would come next, in order:

1. Quests, purchases, equip and listing on top of `Chips`; the purge of settled hands.
2. The sums and the calendar of `ChipsAccounts` for `ChipsFirestore` too.
3. Engines against the contract of `Chips`; `useHand` against `ChipsPostgres`.
4. Sessions, fretwork's ladder, crate's queue; the feed's paging; rule evaluation.
5. Kinds of business beside each other in `economy`, a player who changes time zone, gifts across
   midnight, a lease without an enforced timeout, rules and modes edited between digests.
