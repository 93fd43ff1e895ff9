# PoolMaster in TLA+

PoolMaster runs contests ("pools") on sport events: leagues of squads enter contests, pick
participants, watch live leaderboards, and get final places, championship finishes and emails when
the events end. The server (`packages/core-api`) is a Fastify/Prisma service over one Postgres
database, run as several identical tasks. Nearly all of its rules live in services that read rows,
decide, and write, one database call at a time; some of those writes are conditional, some are in
transactions with row locks, and some are neither. What can go wrong is therefore what happens
between two calls. The modules here make each database call an action.

- [The system](#the-system): components, state, interactions, hard behaviours
- [Modules](#modules): what is modelled, and how state and actions correspond to the code
- [Runs](#runs): what TLC checks, on which instances
- [Proofs](#proofs): what TLAPS proves, and the argument
- [Disagreements found](#disagreements-found)
- [Plan](#plan) and [what is not modelled](#what-is-not-modelled)

## The system

Paths are under `packages/core-api/src/` unless they say otherwise.

| Component | State it keeps | Operations | What must be right |
|---|---|---|---|
| Event lifecycle (`modules/events/event-lifecycle-service.ts`) | `SportEvent.status` | admin and sweep transitions, release, activation of contests | moves only as declared; one of two racing callers wins; side effects follow each move |
| Lifecycle scheduler, job lock (`modules/events/event-lifecycle-scheduler.ts`, `core/job-lock.ts`) | an advisory lock per job, held by a Postgres session | a sweep every tick on the task holding the lock | one sweep at a time; a due event starts and completes; take-over |
| Settlement (`modules/contests/contest-settlement-service.ts`) | `ContestEntryEventStanding`, `ContestEntryStanding`, `Contest.status` | settle a finished event, contest by contest | results once, when the last event ends, from the played events, and then frozen |
| Championship, cups (`modules/championship`, `modules/cups`) | league-year finishes | record a contest's finishes, rank years and cups | finishes equal final standings, written once |
| Contest management (`modules/contest-management`) | `Contest.status`, events, configuration | create, open, change events, join a released edition | no contest on events it cannot follow |
| Contests and entries (`modules/contests/service.ts`) | `ContestEntry` rows | enter, leave, delete a draft | cap and window hold under concurrency |
| Selections (`modules/selections`) | picks, predictions, draws, squares | pick, submit, draw, claim | rosters legal; the draw sees every entry; no square sold twice |
| Leaderboards and scoring (`modules/contests/*-standings.ts`, `modules/scoring-families`) | none (pure) | rank entries, sum events | ties and counting picks; the frozen total equals the live one |
| Email outbox (`modules/email`, `adapters/prisma-email-message-repository.ts`) | `EmailMessage` rows | record by key, claim, send, retry, give up | each message sent at least once, recorded once |
| Notifications (`modules/notifications`) | due times | queue reminders and notices | each notice queued once |
| Ingestion (`modules/ingestion`) | sync runs, provider config | scheduled and submitted syncs | runs do not overlap, time out, or apply old data over new |
| Leagues, squads, invitations (`modules/leagues`, `modules/squads`) | memberships, invitations | invite, accept, remove, change role | a commissioner remains; an invitation's uses are limited |
| Auth, users (`modules/auth`, `modules/users`) | refresh tokens, reset tokens | sign in, refresh, reset, deactivate | one rotation wins; a reused token ends the session |
| Billing, plans (`modules/billing`, `modules/plans`) | expansions, caps | expand a contest | a cap only rises |
| Caches (`core/read-cache.ts`, `core/request-read-memo.ts`) | computed boards, reads of one request | get, forget | bounded staleness |
| Reference data (`modules/participants`, `modules/sport-catalog`, ...) | rows | CRUD | - |

**How they interact.** Admins and commissioners call the API; score feeds call ingestion; each task's
timers run the lifecycle sweep, the email sender and the ingestion loops. All share the database, and
nothing else. Event transitions call contest management (a released edition joins template
contests), activation, and settlement in-process, after the status is written and outside any
transaction. Settlement calls the championship service and queues emails.

**Where it is hard.** (1) A service reads, then acts on what it read while others write:
settlement holds its list of contests for as long as it runs. (2) A multi-step operation fails or
its task dies half-way; what re-runs it, and what does it find? (3) Two tasks run the same job when a
lock's connection drops. (4) The last of several events to finish must settle the contest although
nobody coordinates. (5) Checks on statuses and clocks that another caller moves before the write.
`PROJECT.json` lists these as hazards, each at its line, with the properties that cover it or the
planned module that will.

## Modules

| Module | What it is |
|---|---|
| `EventStatuses` | the statuses of events and contests and the declared transitions; no state |
| `ContestSettlement` | event lifecycle, sweep and job lock, contest opening and events, settlement: one action per database call |
| `ContestResult` | what settlement promises a league, with no callers and no calls: the abstract specification |
| `EntryRoom` | one contest from draft to play: entries, picks, draws, squares, events, expansions and deletion, under its two kinds of row lock |
| `AuthSessions` | one member's refresh tokens, reset links and account, transaction by transaction, statement by statement |
| `SignIn` | what a member is promised of being signed in: the abstract specification |
| `EmailOutbox` | the outbox table, the senders of several tasks, and delivery reports |
| `MCContestSettlement`, `MCEntryRoom`, `MCAuthSessions`, `MCEmailOutbox` | small instances for TLC |
| `ContestSettlement_proofs` | type correctness of settlement, proved |
| `SettlementSafety_proofs`, `SettlementWaits_proofs`, `SettlementPromise_proofs`, `SweepLock_proofs`, `EntryRoom_proofs`, `AuthSessions_proofs`, `EmailOutbox_proofs` | an inductive invariant of each module and the properties proved from it |

### ContestSettlement

State and code:

| Variable | Code |
|---|---|
| `eventStatus`, `contestStatus`, `contestEvents` | `SportEvent.status`, `Contest.status`, `ContestSportEvent` rows |
| `frozen[c][e]` | the `ContestEntryEventStanding` rows of contest `c` for event `e`, by the version of the scores they were computed from; 0 for none |
| `total[c]` | the `ContestEntryStanding` rows of `c`, by the event scores they sum |
| `finishes[c]` | the championship finishes of `c`, by the event scores they rank |
| `mail[c]` | final results emails queued |
| `phase`, `score` | the clock against the event's schedule; the version of its recorded results |
| `lock` | the task whose session holds the sweep's advisory lock |
| `pc`, `job` | each caller's place in its handler, and its local variables: the rows it has read |

A caller is an admin's or commissioner's request (`Admins`) or a server task's sweep (`Tasks`). Its
program:

- `RequestTransition`, `RequestRelease` check what the routes check; `WriteStatus` is the conditional
  `updateMany` (`StillAt`) and goes on to the side effect of the status written (`SideEffect`).
- release: the route reads the event (`SeenReleasable`) and the transition reads it again, so of two
  releases at once the second may find it SCHEDULED, pass, and run the joins again; then `FindJoinable`,
  and for each contest read `JoinNext` and `WriteEvents`. No run has two releases overlap (the events of
  the overlapping runs start released); the theorems cover it.
- start: `Activate` reads the OPEN contests that are due by the caller's clock, `ActivateWrite`
  writes each moment's group. Late brackets (`LateCutoff`) are due only from a later round, so the
  sweep asks again for events in progress.
- finish: `ReadField`, `ReadContests`, `ReadSettledFor`, then per contest (`NextContest`):
  `ReadFrozen`/`WriteFrozen` (`upsertMany` plans on a read, then writes in a transaction), `Check`
  (all events finished, each event read once per settlement: `Recall`), `SumTotals`, `ReadTotal`,
  `WriteTotal`, `ReadFinal`, `RecordFinishes`, `Complete` (conditional on the status), `TellSettled`.
  A bracket freezes both its standings and completes; on a cancelled event it completes only. A
  contest whose rules cannot be scored (`Unscorable`) is logged and passed over.
- commissioner: `RequestOpen`/`OpenWrite`, `RequestEvents`/`WriteEvents`.
- sweep: `StartSweep` (lock and candidates), `SweepNext`, `SweepFinish`, through the same writes.
- failures: `Throw` after any call (a request ends; a sweep goes on with its next candidate; a
  failed results email is only logged), `Crash`, `DropLock`.

What is abstracted, and why it does not matter to the properties:

- Scores are versions; a stored row is the version it came from. Entries are abstracted: a contest
  has at least one submitted entry and its rows are written together, as `upsertMany` writes them.
  With no entry at all there would be no rows, and "no row" and "no result" would coincide. Rows of
  equal scores may or may not differ in `asOf` and `settledAt`, so `Plans` allows an update or none.
- Pick'em has the control of a roster contest. Contests of one settlement are taken in any order.
- A settlement's check of several reads before a write (opening, changing events) is one step; the
  window between the check and the write is kept, which is the one with a conflicting write in it.
- The request read memo is not modelled: a status write forgets the event reads of its request or
  sweep, so a settlement reads afresh. In the join of a released edition the events of the second
  contest are read from the memo; the checks there are modelled on what is current.
- The clock only moves forward: an event is not rescheduled. `autoLifecycleEnabled` is constant.
  Contest deletion, weights, draws and plan limits do not appear; template contests' rules fit
  every edition (the refusals that are modelled are those of status and start).
- Bounds: `MaxRequests`, `MaxFaults`, `MaxDrops`, `MaxScore` bound the requests, failed calls and
  crashes, lost lock connections and score corrections. `Overlap = FALSE` lets a caller start only
  while no other is at work.

### ContestResult

A contest becomes final once, when every event it covers has ended, with a score for every event
that was played and no other, with finishes from the same scores, and from then on nothing about
it changes. `ContestSettlement!Promise` maps the detailed state to it: a contest is final when
COMPLETED, and what is stored before that is invisible. `PromiseKept` says each step of the code is a
step of that specification.

### EntryRoom

A contest is one row, and its entries are rows of their own; the code locks one or the other
(`adapters/contest-row-lock.ts`) and decides on what it reads under that lock. What it checks before
(windows, the plan's cap, the squad's limit, who is dealt) is read without any lock.

| Variable | Code |
|---|---|
| `kind`, `status`, `events`, `drawn` | `ContestConfiguration.selectionType`, `Contest.status`, `ContestSportEvent` rows, `Contest.drawnAt` (for a board, its `ContestSquaresDraw`) |
| `started` | the clock against the events' schedule |
| `planCap`, `bands` | the league's plan entitlement, `ContestExpansion` rows |
| `entry[e]`, `lineup[e][v]`, `picks[e][v]`, `boxes[b]` | `ContestEntry`, `ContestEntryEvent`, `ContestEntryPick`, `ContestEntrySquare` rows |
| `lock`, `entryLock[e]` | the `FOR UPDATE` locks on the contest's row and the entry's row |
| `pc`, `req`, `seen` | each request's place, what its checks read, what it read under the lock |

A request is three steps: its checks (`Request...`, from the routes' services), its lock and reads
under it (`TakeContestLock`, `TakeEntryLock`), and its commit. The commits are `CreateEntry`,
`LeaveContest`, `RecordDraw`, `ClaimBox`, `ClearBox`, `RecordDigits`, `ReplaceSportEvents`, `Expand`
and `DeleteContest` (a commissioner's and the nightly clean-up's) under the contest's lock, each
guarded by what the transaction asks again (`Allowed`), and `ChangeEntryPick` and `SettleEntryEvent`
under the entry's. `Refuse` is a transaction that writes nothing; `Fail` is a process that dies or a deadlock's
victim. `OpenContest`, `ActivateContest`, `EventStarts` and `ChangePlan` are the rest of the program.

- `OpenContest` is the write, guarded by the status; its cutoff was checked earlier and events may have
  started since, so its guard asks only for events. `RequestEvents` is for any contest, a board's with one event.
- The read and the lock are one step: nothing that the transaction decides on is written
  by a transaction that does not take the same lock, except the status, which `MayEnter` and its
  siblings therefore read at the commit as the foreign keys and the update do.
- A delete of an entry's row, and an insert that refers to it, wait for the entry's lock
  (`Unlocked`). A pick's foreign key to its entry is what refuses a leave that would lose a pick.
- Withdrawn golfers, predictions, unlimited caps and the first period's score in the draw's window do not
  appear. The squad's limit is checked before the lock, as in the code. A leave counts the roster picks
  only.
- A submit may recreate the row of an event removed meanwhile, and a change of events may replace a
  drawn one. `RemoveEvents = FALSE` keeps commissioners to adding events; `entry_dealt` lifts it.

### AuthSessions and SignIn

| Variable | Code |
|---|---|
| `account` | `User.isActive`, or the row gone |
| `token[t]` | `RefreshToken` rows: live, revoked or deleted, `rotatedAt` (never, within the two tabs' grace, past it), `sessionId` |
| `link[l]` | `PasswordResetToken` rows |
| `memberLock`, `tokenLock`, `linkLock` | row locks, by `lockMemberRow` or by an uncommitted update |
| `req`, `step`, `chosen` | each request, the statement of its transaction it is at, the rows that statement chose |
| `ended`, `dead`, `uses` | what committed requests have promised: history, read by no action |

`Statements(op)` is the order in which each transaction takes its rows: the member first
(`adapters/member-row-lock.ts`), except that a confirmed reset claims its link before. A statement on
one row waits for it and then looks again (`RotateToken`, `ClaimLink`, `Refused`). A statement on many
(`ChooseRows`, then `ChangeTokens` or `ChangeLinks`) chooses from what is committed when it starts,
waits for those rows, and changes those that still qualify, as Postgres does at READ COMMITTED: a row
inserted in between is not seen. The commits are `IssueTokens`, `CommitRotation`, `CommitSignOut`, `CommitLink`
and `CommitDelete`; `EnableUser`/`IssueSession` write twice, and `Logout` is one statement.

- One member: nothing in these tables relates two. `change` with no token kept is a root admin's
  reset of another's password, `demote` is `setRootAdmin(false)`.
- Expiry, the nightly purge of tokens, registration, the undo of an email change, password hashes and the count of
  root admins (read before its transaction) are left out.
- The rows of one statement are locked together. Postgres locks them one by one, so that two statements
  over the same links that meet them in opposite orders, both from transactions that have not locked the
  member, could also wait for each other; as with the other circle of a reset, the database breaks it.
- A reset request also removes the account's closed links past retention. How long that is stays open:
  `CommitLink` removes any of the used and cancelled links, or none, unless somebody has one locked.
- What the code lets happen and nothing promises otherwise: a sign-in whose password was compared
  before a reset issues its session after it (so `SignedOutEverywhere` speaks of the sessions there
  were); two reset requests at once leave two live links; a kept token that another
  tab rotated meanwhile is signed out too; a sign-out of a token while it is rotated leaves the new one.

`TypeOK` also says that a live token has never been rotated: a rotation revokes the token it replaces in the
same write, and `rotatedAt` alone would let the old token be used again within its grace.

`SignIn` is the promise: a session starts once, and once it is over it never lives again. `SignInKept`
maps a session to the state of its tokens.

### EmailOutbox

| Variable | Code |
|---|---|
| `row[m]` | the `EmailMessage` of key `m`: status, attempts, whether `nextAttemptAt` has come, whether it still has content, the provider's id |
| `asked` | calls of `send` that have read the suppression list and not recorded yet |
| `suppressed`, `late` | `EmailSuppression` rows; emails past their send-by window |
| `pc`, `woken`, `batch` | each task's sender: where its pass is, `wakes` against `wakesSeen`, the rows it claimed and how each send went |
| `accepted`, `slips`, `owed` | history: how often the transport took an email; claims lost or acceptances not written down; the sender a recording woke. No action reads them but to number the provider's ids |

`AskFor`/`Record` are `SystemEmailService.send`; `Tick`, `ClearOldContent`, `ClaimDue`, `EndBatch` are a
pass of `email-sender.ts`; `GiveUp`, `Accept`, `Refuse`, `Throttle`, `MarkSent`, `MarkRetry`,
`MarkThrottled`, `FailSend` are `sendOne` with the writes of the repository, each of which names the row
and nothing else; every one of them that may fail has its failing form. `Report` is a delivery event:
the row, then for a hard bounce or a complaint the suppression (`Suppresses`), which may fail after the row
is written; SNS then sends the report again. Transient bounces change nothing and are left out.
`Tick` may come during a pass, where it counts as a wake.
`TaskStops` and `ClaimLapses` (a sender that is only slow) are the two ways a claim is lost.

- Time is a flag per row (`due`) and per window (`late`). The order of a batch is any that takes the
  time-critical first; the claim skips locked rows, so a claim is one step.
- Deletion after 13 months, the pace per second within a batch, templates, opt-outs and other reasons to
  skip (each is the `SKIPPED` of `Recorded`) are left out.

## Runs

`tlc -config <cfg> <MC module>.tla`. All runs set `CHECK_DEADLOCK FALSE`: requests run out, and a
system at rest is idle. That transactions do not block each other for good is a property of its own where it
could fail (`NoCircleWithoutReset`).

| Run | Instance | Checks |
|---|---|---|
| `settle_overlap` | two admins (symmetric), three requests, two events under way; a pool on both, open, and a draft; one score correction each, one failure or crash | `TypeOK`, `ResultsToldOnce`, `DraftHoldsNoResult`, `OnlyCompletedScored`, `ResultsWaitForEveryEvent`, `EventMovesAsDeclared`, `ContestMovesForward`, `FinishesStand` |
| `settle_bracket` | two admins (symmetric), two requests, one event under way, its later rounds still ahead; a late bracket, a pool whose rules cannot be scored; one failure or crash | `OnlyCompletedScored` |
| `settle_serial` | one admin, one task, four requests, nothing overlaps; a released event that the sweep moves and an unreleased one that admins move, a pool from a template, a late bracket, all drafts | `NothingStranded`, `PromiseKept` |
| `settle_live` | two sweeping tasks, a pool on two events; one failure or crash, one lock connection lost | `OneSweep`, `NothingStranded`, `FinishedContestCompletes`, `DueEventStarts` |
| `settle_failed` | one admin, one failure | `CompletedCountsEveryEvent`, violated |
| `settle_resent` | two admins, no failure | `CompletedIsNotRewritten`, violated |
| `settle_stranded` | two requests, no failure | `NothingStranded`, violated |
| `entry_room` | two requests at a time (symmetric) and five in all, two squads, two entries; each selection type; an event to start with and one that may be added; two golfers in the front tier, one in the back; two boxes, one each; a plan for one entry and one for two; any request may fail | `TypeOK`, `CapHonoured`, `ExpansionsRise`, `DealtToAll`, `DrawStands`, `SubmittedIsComplete`, `RostersFit`, `LineupsCoverEvents`, `BoxesHeld`, `NoPickLost` |
| `entry_opened` | a commissioner deletes a draft while it is opened | `OpenedIsKept`, violated |
| `entry_dealt` | a random draw, and a change of events that replaces one | `DrawStands`, violated |
| `sessions` | two requests at a time (symmetric) and five in all, three tokens, two links; any may fail at any statement | `TypeOK`, `OneLiveToken`, `SignedOutEverywhere`, `LinksDieWithThePassword`, `LinksWorkOnce`, `NoCircleWithoutReset`, `SignInKept` |
| `outbox` | two tasks, a secret time-critical email that may be refused and an ordinary one, to one address; one email a claim, two attempts, two requests to send, two reports, one fault | `TypeOK`, `TwiceOnlyAfterASlip`, `OutboxTellsTheTruth`, `SecretsAreCleared`, `NoWakeLost`, `ReportsStand`, `EmailsSettle` |

*Why the bounds are enough.* The hazards need two events (to disagree about which is last), two
callers (to overlap), and a third request (to re-send what the first two left). Two versions of a
score distinguish an old result from a new one, and one fault at any step is every half-done
operation. Brackets settle on one event and unscorable contests not at all, so `settle_bracket` has one
event and two requests (one settles, one re-sends or races it). In `settle_overlap` both settlements of one event, and the settlements of both events,
run at once from every relative position. In `settle_serial` four requests are enough to release,
open, finish and re-send, in every order with the sweep's own moves between them.

`entry_room` (about 338,000 distinct states) needs two requests at a time because a race is between
two, and five in all to let two entries in, deal or pick, and have a fourth and a fifth request race. A cap of
one that an expansion or a plan raises to two, a tier of one pick with two golfers for it, a salary one
golfer exceeds, and a limit of one box each put every limit one step away. `sessions` (about 195,000)
has three tokens, so that a session can be rotated while another is signed in, or rotated twice, and
two links, so that one can be confirmed while the other is open. In `outbox` (about 455,000) a claim of one email makes a pass claim
more than once, two attempts give both a retry and a last one, and one fault of any kind is
placed at every step; slips up to any number are proved, not run.

*What the passing runs show.* Whatever overlaps and fails, results are told once, drafts and cancelled
events are never scored, nothing is totalled before the last event ends, and no status moves back
(`settle_overlap`); a bracket on a cancelled event completes without a score (`settle_bracket`).
One at a time, the code is the promise (`settle_serial`). With overlapping
sweeps the last settlement still completes the contest (`settle_live`): each settlement reads the
other events' statuses after its own was written, so of two, the later sees both. The mutant that
drops that read (`RecallNothing`) leaves the contest open.

In the entry room every limit holds although each is checked before the lock as well as under it: the mutants
that drop the check under the lock, or the lock, break `CapHonoured`, `RostersFit`,
`ExpansionsRise` and `LineupsCoverEvents`. A draw that does not compare the entries it dealt with the entries there are
leaves one out (`DealtToAll`). In `sessions` the member's row lock is what makes signing out
complete: without it in front of the tokens (`StatementsUnlocked`) a refresh under way slips a new token past the
revoke, and with it after them (`StatementsTokensFirst`) two transactions wait for each other. In `outbox` an
email goes out once unless its claim was lost, and always comes to an end.

*Fairness.* `settle_live` assumes weak fairness of each caller's next call (a Node process that lives
runs its promises; the model's crashes and failed calls are still allowed) and of each task's
`StartSweep` (`setInterval` fires on a fixed period, and a task that died is restarted). A task finds the lock
free or its own infinitely often or the other task holds it and sweeps. The clock and the admins get no fairness: that an event is due
is a premise, never something that is assumed to happen. `FinishedContestCompletes` gives up when a call fails: a failed settlement is
logged, and nothing in the code runs it again by itself.

`outbox` assumes weak fairness of each task's pass (its timer calls `wake` every `TICK_MS`,
`email-sender.ts:63`, a pass is a loop that ends, and a send ends, with an error if need be) and of
`TimeComes` (waits end). A send-by window, a report and a request are never assumed to come. The faults are
bounded, the only liveness assumption about them: a transport that throttles for ever keeps an email waiting for ever, as the
code intends.

`ResultsWaitForEveryEvent` is checked where nobody changes a contest's events: with
`setContestSportEvents` racing a settlement it is false (the replacement is unconditional, see the
hazards), as are several parts of the promise once operations overlap; the three violated runs are
the ones in which the repository itself says otherwise.

## Proofs

`tlapm <module>.tla` for each of the eight proof modules.

### Settlement

`ContestSettlement_proofs`, `SettlementSafety_proofs`, `SettlementWaits_proofs`,
`SettlementPromise_proofs` and `SweepLock_proofs`. Proved for all events,
contests, admins, tasks, subsets, initial states and bounds that satisfy the four named assumptions
of `ContestSettlement` (admins and tasks are disjoint, the named sets of contests are subsets of the
contests, the initial functions are well typed and no event is finished and no contest completed to
start with, the bounds are natural numbers), with or without overlap
unless the table says otherwise.

| Theorem | States |
|---|---|
| `TypeCorrect` | `Spec => []TypeOK` |
| `ToldOnce` | `Spec => []ResultsToldOnce` |
| `DraftsHoldNoResult` | `Spec => []DraftHoldsNoResult` |
| `ScoresAreOfCompletedEvents` | `Spec => []OnlyCompletedScored` |
| `EventsMoveAsDeclared` | `Spec => EventMovesAsDeclared` |
| `ContestsMoveForward` | `Spec => ContestMovesForward` |
| `FirstFinishesStand` | `Spec => FinishesStand` |
| `ResultsWait` | `EventsStay` implies `Spec => []ResultsWaitForEveryEvent` |
| `NoneStranded` | `EventsStay` and `OpenedInTime` imply `Spec => []NothingStranded` |
| `NoneStrandedInTurn` | `OneAtATime` and `EveryContestOnEvents` imply `Spec => []NothingStranded` |
| `SettlementKeepsThePromise` | `OneAtATime` implies `Spec => PromiseKept`, the refinement of `ContestResult` |
| `OneTaskSweeps` | `Spec => []OneSweep` |

None of the safety properties is inductive: each depends on what a caller half-way through its
handler may still rely on. `SettlementInv` adds two facts to them.

- `EveryCallerSound`: at each place, what a caller read that is *still* true. A caller about to write
  a status has a declared move in hand. A caller anywhere in a settlement works for an event that is
  finished and still has the status the settlement is for, since nothing leads out of a finished
  status. A caller past the read of the contests holds only contests that are not drafts, since no
  contest becomes a draft again. A caller about to freeze standings works for a COMPLETED event, and the
  scores a caller carries from one write to the next (`Carrying`) are of completed events only.
- `OneTeller`: only the caller whose conditional write completed a contest is about to tell of it,
  and it has not been told of.

The argument that these survive the other callers is `Steady`: every step keeps finished events at
their status and drafts the only contests that may leave DRAFT (and none enters it). `SoundSteady`
shows a caller that does not move keeps its facts under any steady step; `GotoSound` and `GotoTeller`
reduce a step by one caller to that caller's new place. One lemma per group of actions
(`AskKeeps`, `SweepKeeps`, `SettleKeeps`, `WriteKeeps`, `ContestWriteKeeps`, `WorkKeeps`,
`FailKeeps`) shows `Keeps`: the step is steady and re-establishes the invariant. `InvInit`, `InvNext` and
`InvHolds` put them together. The action properties follow from `Writers`, which says which
actions change each status and the finishes, and the invariant.

`ResultsWait` assumes `EventsStay`: no contest's events are edited or joined by a release (`Editable` and
`Template` are empty), and a bracket starts on one event; without the first it is false. Its invariant, `WaitInv`, says what a
settlement's memory is worth (`Waits`): a status it remembers as finished is finished still, because `Stays`;
the list of events it read is the contest's; every contest it holds is on the event it settles; and once it
is past the check all the contest's events are over. `OnWaits` covers the steps within one contest, and
`DecidingWrites` says that only a caller past the check writes a total, a finish or a completion.

`NoneStranded` (its conditions are those of the run `settle_live`) is about who completes a contest whose
events finish at once, each settled beside the other's. `OwedInv` says that while no call has failed a
contest that is open or live on finished events is owed to someone: a caller still has it before it and
remembers none of its events as unfinished (`Owes`). Whoever writes the last event's status has read no
event before that write (`EveryCallerUnread`), so it owes every contest on the event; what it reads from
then on is finished and stays so; and it leaves a contest only when it has completed it, or somebody else
has. A settlement that finds an event unfinished owes nothing, and is not the last. `OpenedInTime` (every
contest starts open, with events) is needed: a contest opened after its event's settlement passed it over
is the finding `settle_stranded`.

For the refinement operations follow one another and none fails (`OneAtATime`, as in the run `settle_serial`),
while commissioners do edit events, releases join them and contests open late. The one caller at work may
trust what it read (`Trusts`): the statuses it remembers are those events have, its list of contests is what
is left to settle, and each place of a settlement knows how far the result has come (`Building`).
`SerialInv` adds what the rows say between settlements: frozen standings belong to events the contest
covers (`FrozenCovered`), every played event is frozen or about to be (`PlayedFrozen`), a total or a finish
is there before completion only in the hands of the settlement about to complete the contest
(`ResultsUnderWay`), and a live contest has an event to wait for or is being settled (`EndedSettled`).
The write of an event's last status is the event's end in `ContestResult`, the replacement of a contest's
events is its change of events, the conditional write that completes a contest makes its result final, and
every other step changes nothing that `ContestResult` sees: totals and finishes written shortly before are
not shown until the contest is final. `NoneStrandedInTurn` is `EndedSettled`, for contests that start with
events. With overlap or a failed call the promise is broken (the findings `settle_resent`, `settle_failed`).

`OneTaskSweeps` rests on `SweeperHolds`: while nothing failed and no connection dropped, whoever sweeps
holds the lock. It survives the start of a sweep because a task starts only under a lock that is free or its own.

### The entry room

`EntryRoom_proofs`, for all callers, squads, golfers, events, boxes, plans, bands and bounds that satisfy
`RoomAssumption` (the events, golfers and boxes are finite, an expansion buys one entry at least, ...).

| Theorem | States |
|---|---|
| `NobodyEntersPastTheCap` | `Spec => CapHonoured` |
| `BandsRise` | `Spec => []ExpansionsRise` |
| `BoxesKeepTheirLimit` | `Spec => []BoxesHeld` |
| `LeavingKeepsPicks` | `Spec => NoPickLost` |
| `EveryoneIsDealt` | `OneFirst` implies `Spec => []DealtToAll` |
| `DrawsAreFinal` | `OneFirst` implies `Spec => DrawStands` |
| `RoomTypes` | `Spec => []TypeOK` |
| `RostersStayInBounds` | `Spec => []RostersFit` |
| `SubmittedStaysComplete` | `Spec /\ [][EventsOnlyAdded]_vars => []SubmittedIsComplete` |
| `LineupsFollowEvents` | `Spec /\ [][EventsOnlyAdded]_vars => []LineupsCoverEvents` |
| `LineupsHoldWithOneToAdd` | `OneToAdd` implies `Spec => [](SubmittedIsComplete /\ LineupsCoverEvents)` |

The invariant `Base` is what a row lock is worth. `Locks`: a lock has one holder, and the entry whose
lock is held is there, since a delete waits for it. `ReadsAreSo`: what the holder of the contest's lock
read (entries, draw, events, last band, boxes) is so until it commits, since every writer of those
holds the same lock. `Asked` is what a request asks for, `Shapes` what a step needs of the types. From it each
theorem is one step: the entries counted are those the new one joins, the band compared is the last,
the boxes counted are those held. A leave is safe for another reason, that it is refused when picks
refer to the entry.

`OneFirst` says the contest starts with one event and nobody removes events. It is needed: without it
`DrawStands` is the finding `entry_dealt`, and a draw for an event that was replaced deals nobody.
`DrawInv` adds to `Base` that no request to change the events of a random draw or a board asks for others
than the one it has, and that every entry has a row for the event.

The rosters and lineups rest on the entry's own lock. `RosterInv`: every row fits (`RowsFit`), and so does
what the holder of an entry's lock read, which is what the row holds still, unless the row was emptied because
its event was taken out (`ReadsFit`). `ChangeFits` is the argument about the selection engines: a change
decided on a roster that fits leaves one that fits, also when it finds the row emptied, since a pick that is
gone cannot be deleted. It needs the newest pick of a tier, what deleting one pick leaves, and that a list
without repetitions is as long as its set (`NewestIsHeld`, `WithoutOne`, `RepeatsCount`). These, and the next
entry number of `RoomTypes`, need that a bounded set of numbers has a greatest; `LeastNatural` takes it
from the well-foundedness of `<`, in place of an induction. `RostersStayInBounds` has no hypothesis on the
events.

`LineupInv` says more: what the holder of an entry's lock read is exactly its row (`ReadsAreRows`), a pick or
a submit is for an event of the contest (`AskedOfAnEvent`), a deleted contest has no entries.
`LockedRows` shows that a transaction on the contest leaves the rows of a locked entry alone, as the
database's waits make it, `NoneSubmitted` that it submits nothing of a roster contest, and `OneRow` that a
transaction on an entry writes the one row it read. This holds while no event is taken out of the contest
(`EventsOnlyAdded`), and only then: a submit reads its lineup under the entry's lock, a commissioner's
removal of the event deletes the row under the contest's, and the submit's upsert (`settleStatus` in
`contest-entry-picks/service.ts`) makes it again, SUBMITTED and without picks, for an event the contest no
longer has. With `RemoveEvents = TRUE` TLC finds both properties violated this way. `OneToAdd` is a
condition on the constants, met by the run `entry_room`, under which no behaviour takes an event out:
commissioners only add, and have one event left to add, so all ask for the same list. With two left the later
of two writes takes the other's event out again, since each carries the whole list.

### Sign-in

`AuthSessions_proofs`, for all callers and bounds.

| Theorem | States |
|---|---|
| `TypeCorrect` | `Spec => []TypeOK` |
| `RotationsMakeOne` | `Spec => []OneLiveToken` |
| `SignOutsEndSessions` | `Spec => []SignedOutEverywhere` |
| `OldLinksAreDead` | `Spec => []LinksDieWithThePassword` |
| `LinksAreSingleUse` | `Spec => []LinksWorkOnce` |
| `DeadlocksNeedReset` | `Spec => []NoCircleWithoutReset` |
| `TokensKeepThePromise` | `Spec => SignInKept`, the refinement of `SignIn` |

The heart of `SessionsInv` is `LocksFollowSteps`: the caller that holds the member's row is the one past the
statement that takes it, and whoever has locked a token holds the member too. So while a sign-out
chooses its tokens no refresh can be about to commit, and `SignOutsReach` holds: every live token of a session
it ends is among those it chose, and then among those it has locked. Links are not under the member's lock
when they are claimed; `ChangesReach` is the same argument for them, with the claim's own lock. `DeadlocksNeedReset`
follows from the order (`WaitsEnd`): whoever waits and is no reset waits for the holder of the member's row,
who is past waiting for it, or for a link whose holder waits for nobody.
For the refinement each commit is shown to be a `Start`, an `End`, or to change no session's status.

### The outbox

`EmailOutbox_proofs`, for all tasks, emails, addresses, limits and bounds; the emails are finite.

| Theorem | States |
|---|---|
| `TypesHold` | `Spec => []TypeOK` |
| `SentOnceButForSlips` | `Spec => []TwiceOnlyAfterASlip` |
| `RowsAreTrue` | `Spec => []OutboxTellsTheTruth` |
| `NoSecretIsKept` | `Spec => []SecretsAreCleared` |
| `WakesAreKept` | `Spec => []NoWakeLost` |
| `ReportsAreFinal` | `Spec => ReportsStand` |

`OutboxInv` is an invariant of each email (`EmailInv`) and two of the senders. `Counted` bounds what was
handed over plus what may still be: the transport's acceptances, the tasks still trying and the claim
the row still allows are together at most one more than the slips, and a task holding an email has counted
an attempt (so a throttle never takes the attempts below zero, which is a part of the types). `Truthful` says that an email without
slips has one holder at most and what its row then means. `Erased` says that a sender whose copy has no content
works on a row that has none. `Owing` is the wake's argument: a sender in its last batch that was woken
looks again.

### What stays with TLC

- Liveness (`FinishedContestCompletes`, `DueEventStarts`, `EmailsSettle`): beyond the prover.
- Whether `NothingStranded` holds when operations overlap and a contest's events change meanwhile is neither
  proved nor checked.
- What a fold over a sequence computes (`Cost`, what a lineup costs) is not unfolded in any proof: the
  theorems on lineups hold whatever it returns. TLC checks it on small lineups.

## Disagreements found

1. *A failed settlement loses its event.* The event is COMPLETED before its settlement runs, and the
   contest's other event completes the contest without it (`settle_failed`).
2. *A completed contest is rewritten.* Two settlements of one event overlap; the later writes a
   corrected score over the result the earlier completed (`settle_resent`).
3. *A contest opens on a cancelled event and stays open.* The cutoff is checked before the event is
   cancelled and the contest opened after its settlement passed it over (`settle_stranded`).

4. *An opened contest is deleted.* A deletion finds a draft, the contest is opened while the deletion waits
   for its lock, and the deletion does not look again; the nightly clean-up does (`entry_opened`).
5. *A draw loses its picks.* A change of events finds no draw, the draw is recorded, and the change
   replaces the event with the picks dealt for it; the contest stays drawn (`entry_dealt`).

Seen while reading and not run as findings, because nothing in the repository promises otherwise: a
crash between `recordContest` and the completion freezes finishes computed before a later
correction; `setContestSportEvents` can add an event to a contest completed meanwhile; a release
whose join fails half-way cannot be run again. Two reset requests at once each cancel the links they see
and leave two live links until one is used, although a comment (`password-reset-service.ts:154`) says "One
live link per account": a hazard without a property.

## Plan

Done: the core settlement; the entry room with the picks, the draw and the squares board; sessions; the outbox. Every safety property,
action property and refinement that a passing run checks is also a theorem; liveness is TLC's.
Left, in this order:

1. On settlement: survivor seasons and squares settled by a game. *Prove*: how much of the promise survives overlapping
   settlements when no score is corrected between them, and `NothingStranded` where events change meanwhile.
2. `Membership`: invitations and their uses, removal and the last commissioner, team owners and the
   inactivation of a team. *Prove*: an invitation's uses are bounded, once the code decides them under a lock.
3. `IngestionRuns`: loops, locks, submitted runs, stale runs.
4. `StandingsRanking`: competition ranking, counting picks and totals as functions, against a
   reference definition. `ReadCache`: bounded staleness.
5. The composition of the entry room and settlement: entries and lineups behind the scores settlement freezes, and
   what is queued in the outbox when results are told.

## What is not modelled

User interfaces, DTO and provider conversions, rendering of emails, reference-data CRUD, platform
settings, logs, infrastructure: no protocol of their own. Within the modelled components, what is left out
is named in the section of each module. The components planned above are listed
as `not_modelled` in `PROJECT.json` until their module exists.
