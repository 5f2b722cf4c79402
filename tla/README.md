# Ownpace: TLA+ verification project

Ownpace moves an account (mail, calendars, contacts, files) from one provider to
another. It copies continuously while both systems are in use, hands the authority
over to the new one at a cutover, and can take it back. This directory models the
parts on which everything else leans:

* **the sync pass**, which copies a source that keeps changing into a target somebody
  is already using, with a ledger and cursors between passes (`DomainSync`);
* **files that move or go**, and the one operation that removes anything at the target
  (`FileMoves`);
* **the cutover**, which moves one migration from one authority to the other through
  two records that no transaction covers together (`Cutover`);
* **the budgets** many processes share: requests a second (`Throttling`) and bytes a day
  (`DownloadMeter`);
* **the scheduling** of passes in the managed edition (`Scheduling`).

Paths below are relative to the repository.

## 1. Inventory

| Part | State it keeps | Operations | What is hard | What makes it correct |
|---|---|---|---|---|
| Sync pass, `packages/core/src/domain-sync.ts` | in memory: listing, failures, keys seen, removals, cursors held back | list a collection since its cursor, decide on each item, fetch, write, record, conclude | items run concurrently; everything may change under it; it may stop or die at any await | no item and no edit is ever put where no later pass looks; nothing of the target's owner is replaced |
| End of a file pass, same file | what it saw and created, the folders it did not finish | read the bin, pair renames by bytes, count absences | it concludes from what it did not see | only what is gone is missed, and all of it |
| Item ledger, `packages/ledger/src/ledger.ts` | one row per natural key: status, source and target version, attempts, handle, moves, absences, answers | `find`, `record*`, `resolve*`, `clear*`, `apply*` | written after the target, one row at a time | it never claims more than the target holds |
| Cursor store, `packages/ledger/src/cursor-store.ts` | one position per collection | `get`, `set`, `clear` | a position read early is saved late | it retires only what is settled |
| Target writers, `packages/engines/src` | none; the server's objects and ETags | upsert (create, adopt, conditional rewrite), remove, ask | answers get lost or repeated; the owner writes too | an object the owner changed survives |
| Operator decisions, `apps/api/.../operating-routes.ts` | through the ledger | retry, accept, keep, apply, finish | arrive during a pass | an answer stands, a retry is taken up |
| Applying deletions and relocations, `packages/core/src/apply-deletion.ts` | through the ledger | gates, ask the target, remove, record; unattended after a pass | four steps, no transaction; death between removal and record | never the last copy, never the owner's |
| Cutover ledger, `cutover-state.ts`, `cutover-store.ts` | one row: state, timestamps, `copies_through_grace` | initialise, transition, save | carries facts of earlier attempts | only legal transitions; a whole grace period |
| Cutover steps, `cutover-lifecycle.ts`, `cutover-rollback.ts`, CLI, `run-cutover.ts` | none of their own | start, verify, approve, prepare, execute, complete, rollback | two records, written in turn; commands die; two may run at once | the ledger and the mapping's status say the same |
| Mapping lifecycle, `packages/shared/src/lifecycle.ts` | `mailbox_mapping.status` | Start, update, Finish | doors that read, wait and write | nothing but a rollback returns the authority |
| Limiter and rate budget, `packages/shared/src/throttling.ts`, `packages/ledger/src/pg-rate-budget.ts` | slots and a bucket in each process, one row per tenant and provider | wait for a slot, take, sleep, retry | many processes with rates of their own; they die | never more than the rate; nobody waits for ever |
| Download meter, `pg-rate-budget.ts`, `rate-budget.ts`, `imapflow-source.ts` | one daily window per endpoint | read, fetch, spend | read before, spent after | a bounded overshoot; a stop is over some day |
| Scheduling, `managed-sync-tick.ts`, `run-delta-sync.ts`, `sync-due.ts`, `failing-backoff.ts`, `platform-pause.ts` | run rows, queues, the hold | tick, start, end, hold, press | counts that are old when used; rows nobody closes | the caps, one pass per migration, each in its turn |
| Everything else | | connectors, discovery, verification, shares, billing, front ends | protocol and screen detail | see `components` in `PROJECT.json` |

How they interact: the tick (or the appliance's scheduler) starts a pass for a mapping whose
status runs passes (`runsPassesNow`, which reads the cutover's window). The pass reads cursors
and rows, calls the connectors and writers through the limiter and the meter, and writes rows and
cursors. The API's routes write the same rows and cursors and the mapping's status; apply jobs write
the rows and the target. The cutover's commands write the status and their own ledger. Nothing but
the database is shared, and no transaction spans two of these writes, so every interleaving of them
is possible.

Where the modules meet: `DomainSync` and `FileMoves` take from a cutover only who decides, which is
what `Authority` states and `Cutover` implements; a pass takes from the budgets only that a request is
answered late and that it may be told to stop (`Stop`, `HoldItem`); one pass of a migration at a time is
what the queue of `Scheduling` gives them.

The hazards, each at its line, are listed in `PROJECT.json`.

## 2. Modules

| Module | What it is |
|---|---|
| `DomainSync` | one mapping and one data type: source, target, ledger, cursors, a pass, an operator, cutovers |
| `DomainSyncProofs`, `CursorProofs`, `RemovalProofs` | types, the owner's bytes, the ledger behind the target; the inductive invariant of the cursors; removals, answers, late passes |
| `FileMoves` | the file pass with path keys, its conclusions, and the apply jobs |
| `FileMovesProofs` | types and the five safety properties |
| `Cutover` | the cutover's two records, the commands, the preparation job, the status doors |
| `Authority` | abstract: who decides, handed over, given back, closed |
| `CutoverProofs` | types, the agreement of the two records, the grace period, the refinement |
| `Throttling` | requests of several processes: slots, own bucket, shared row, retries |
| `LeakyBucket` | abstract: one bucket that leaks at a steady rate |
| `ThrottlingProofs` | types, slots, the refinement, the rate |
| `DownloadMeter`, `DownloadMeterProofs` | the daily window and its workers; its bound, and that of any day |
| `Scheduling`, `SchedulingProofs` | tick, queues, run rows, hold; types, the caps, and that no live pass is taken for dead |
| `MC*` | the instances for TLC: model values, constants that are functions, symmetry; `MCVacatedPaths` adds to `FileMoves` the history of the paths that relocations vacated |

### DomainSync

*Time.* Every change at the source takes the next stamp of one `clock`. An item's version is the
stamp of its last change (`ver`), a cursor the stamp up to which a collection was listed. That is
what the code relies on: versions are compared for equality, and a listing since a cursor names
what changed after it. `dead` is the removals a change feed can report. The recorded target version
(an ETag) is represented by the version of the bytes we left, which is equal exactly while the
object is still ours with that content.

*The pass* (`pass`, `work`). One pass per mapping runs at a time. Inside it, the items of a collection
are handled concurrently; each goes from `listed`, through the decision and the fetch, to the target
`write`, to the ledger `record`, to `out`, and any step of anybody else may come between. One action is
one such stretch between awaits:

| Code | Actions |
|---|---|
| pass start, folder loop, stop gates, unread collections | `StartPass`, `OpenFolder`, `OpenUnseeing`, `Stop`, `SkipFolder`, `UnreadFolder` |
| `classifyKnownItem` and the branches on its answer, fetch | `LookItem`, `SkipItem`, `FailUnkeyed`, `HoldItem` |
| upsert, `requestWithDavRetry` | `PutItem`, `PutItemTwice`, `PutItemLost` |
| record, failure | `RecordItem`, `FailItem`, `VanishItem` |
| cursor gate, conclusion, `resolveReportedRemovals`, held cursors | `CloseFolder`, `ConcludePass`, `ResolveRemoval`, `SaveHeldCursor`, `EndPass` |
| abort, death of the worker | `AbandonPass` |
| the operator | `RetryFailure`, `AcceptFailure`, `ExecuteCutover`, `RollBackCutover` |
| outside | `SourceCreate/Edit/Move/Remove`, `OwnerWrite/Remove` |

*Abstractions.* The decision and the fetch that follows it are one step: the fetch changes nothing,
and every order of it with the source's changes is the same as some choice of when the step is
taken. The request behind `RetryFailure` (reset the row, clear the cursors) is one step; the code
makes two transactions. Tombstoned rows are classified, but nothing here creates one: that is
`FileMoves`. `Unkeyed` items are mail keyed by its bytes: they have no version and are not edited.
`Legacy` items were copied before the ledger kept versions and handles.

### FileMoves

A file's natural key is its path, so a rename is one path that goes and one that comes. State: the
source's files and bin, the target's objects, the rows, who decides, a pass, and apply jobs.

| Code | Actions |
|---|---|
| file pass: list, look, hold, copy, fail | `StartPass`, `ListFolder`, `UnreadFolder`, `Stop`, `LeaveItem`, `LookItem`, `HoldItem`, `CopyItem`, `FailItem`, `CloseFolder`, `AbandonPass` |
| its end: authority once more, bin, pairing and counting | `Conclude`, `ReadBin`, `PassOverBin`, `DetectRow`, `EndDetection`, `EndPass` |
| `applyRelocation`, `applyDeletion`, `autoApplyRelocations` | `ApplyRelocation`, `ApplyDeletion`, `AutoApplyRelocation`; then `AskArrival`, `RemoveCopy`, `RecordRemoval`, `Die` |
| the operator keeps | `resolveMove`, `resolveDeletion` |
| outside | `SourceWrite/Rename/Remove`, `OwnerWrite/Remove`, `Cutover` |

*Abstractions.* Bytes are their own version and hash; an object is `ours` while its ETag is the one
recorded. The upsert and the record of an item are one step (the gap between them is `DomainSync`'s).
`detectPathKeyedMoves` reads the rows once and then works on them one at a time, as here; which of
several equal arrivals explains a disappearance is a choice. `fresh` stands for a detection time that is
not before the running pass. Absences count up to the two that confirm a deletion. The gates an apply
reads from the ledger are one step; the question to the target, the removal and the record are a step
each. `Overlap` says whether apply jobs, and an operator's `keep`, may come between the steps of
another; the code does not make them take turns, and what happens when they do not is in section 3.
The history variables `stable` and `lost` only serve the properties. With the real `MassMin` of 20 the
mass breaker never trips on two files: it only ever refuses, and no property rests on it. Documents paired
by their own id and names an export policy changed are left out.

### Cutover and Authority

The state is the ledger row, the mapping's status, and for each running command, job or request
(`Caller`) what it has read and where it is (`call`). `found` is a history variable: the status that
execute replaced. Each transaction is one step, as it is on the appliance's single connection;
between two of them another caller may run and the caller may die (`Die`). `execute`, `complete` and
`rollback` share their shape (`BeginStep`, `ReadStatus`, `MoveMapping`, `MarkLedger`), as `step` and
`performRollback` do; `execute` goes on to `EnterGrace` or `NotPropagated`. The verdict of the
verification gate and of the DNS check is a choice. A time of 0 is a timestamp that was never set.
The ledger is the whole migration's; a data type's own cutover is not modelled.

`OneAuthority` is the refinement: the side is read off the mapping's status, closed off the ledger, and
every step of every command, half done ones included, is a hand-over, a giving back, a closing or a
stutter.

### Throttling and LeakyBucket

A request takes a slot (`waitForSlot`), a token of its process's bucket (`acquireLocal`), a token of the
shared row (`take`, or a refusal and `sleepOn`), is sent, and gives its slot back; a throttled or broken
one pauses and starts over. Time is ticks; a token is `Second` units, so that fractions of tokens are
whole numbers of units. The row keeps the ticks since it was filled, capped where every bucket is full.
Processes store rates of their own and fill the row each at its own rate, as the SQL does. `sent` is
history: units granted, less what the operator's default rate allows in the time since. The mapping
`level <- sent` shows all of them together to be one `LeakyBucket` (`ActsAsOneBucket`).
A pause (Retry-After or backoff) may be of any length. Rates are whole numbers, at least one a second.

### DownloadMeter

Workers read the window (`Gate`), fetch (`FetchRaw`), and count afterwards (`Spend`); between the two
they may die (`Die`). `sent` is history: `sent[i]` is what the provider sent in this tick and
the `i` before it, so `sent[Day - 1]` is what it sent in the last day, wherever the windows lie.

### Scheduling

`Minute` lets a minute pass and starts a tick; `TickRead` reads the hold and the rows and finds what is
due; `TickEnqueue` counts what runs, chooses within the caps and enqueues. A pass waits in its
migration's queue until `StartRun`, and ends in `Succeed`, `FailRun` or `Kill`, which leaves its row open.
People press, pause, and hold. Ages are kept up to `Top`, from where on every gap has passed; `place[m]`
is `m`'s place in the order of the newest runs, which is all that `longestWaitingFirst` uses of them; the
order an organisation gives its own and the loop over the places are `inOrganisationOrder` and
`withinCapacity`, as in the code. A schedule, a first copy's floor and a tier's pace are one `Gap` from a pass's start.
`Later` migrations exist only where the
gap is beyond the stale window (`FREE_PASS_EVERY_MINUTES`, `pace.ts`); that assumption is needed, since
otherwise files would wait behind the same organisation's other migrations for ever. Each pass keeps, as
history, who asked for it: the tick or a person (`Origin`). A pass has a row only once it starts, so one of the
tick's becomes `unseen` when a later tick counts while its migration has no row that counts
(`counted`; in the code "WHAT THE COUNT CANNOT SEE"). `Prompt` says whether the plane starts what it could
within the minute.

## 3. Properties and runs

All passing runs are exhaustive. Bounds are constants, named in each module.

| Run | Instance | Checks |
|---|---|---|
| `one_collection` | one legacy item, one collection, clock 4, two faults, two attempts, operator between passes, `FairSpec` | types; `CursorRetiresNothing`, `CursorRetiresNoEdit`, `LedgerNeverAhead`, `OwnerBytesSurvive`, `LiveItemNotReported`, `RemovalNotSkipped`, `AnswerStands`; `EventuallySettled`, `EditsLand` |
| `two_collections` | one item, two collections, clock 4, one fault | `CursorInv` (the invariant of the proof), `RemovalNotSkipped` and `LiveItemNotReported` with moves and unfinished passes |
| `after_cutover` | two items (one unkeyed), an execute and a rollback, operator at any time, one fault | `LedgerNeverAhead`, `LatePassOnlyAdds` |
| `cutover` | one caller, two deaths, three ticks, grace of one tick | types, `CompletedIsStopped`, `WholeGracePeriod`, `RecordsAgree`, `StoppedStaysStopped`, `OneAuthority` |
| `file_moves` | two files in two folders, two contents, an operator's job and the unattended one, two changes, one fault | types, `SeenStands`, `RelocationLeavesCopy`, `OwnersCopiesStay`, `NotMissedWhileThere`, `MissingIsNoticed` |
| `throttling` | two processes (two workers and one), rates above and below the default, one slot each, one retry, two faults | types, `SlotsHeld`, `ActsAsOneBucket`, `EveryRequestEnds` |
| `download_meter` | two workers, one ceiling configured too high, messages of one or two units, windows of two ticks, one fault | types, `WindowHeld`, `TwoWindowsHeld`, `StoppedGoesOn` |
| `scheduling` | three migrations of two organisations, caps of one, one of them `Later`, a rung of spacing, one change by people | types, `CapHeld`, `LiveIsNotDead`, `EveryMigrationRuns` |

Why the bounds are enough to be interesting: three changes at the source are a creation, an edit or move,
and a removal or a change back; two faults let a failure be followed by a crash or by the failure that
reaches the limit (`MaxAttempts` is 2); two collections suffice for a move. The cutover's bounds admit a
failed or rolled back attempt followed by a complete second one, with a death in each. In `file_moves` two
changes are a rename and what undoes, obscures or follows it, over any number of passes, and the fault is
the unread folder, the held copy or the death. One slot with two workers, and a row that affords two
requests for three workers, make every wait happen; window and day of two ticks let a window end inside
any fetch. Caps of one with three migrations make the tick pass one over every time, and the one press
puts a pass of the tick behind a person's, whose end leaves it unseen. `Prompt` bounds that run (without it
TLC does not finish); the theorem on the caps holds with and without it. No counter in the code wraps on a larger
instance.

*Fairness.* Weak fairness throughout. `DomainSync`: the steps of a pass, its start included; the scheduler
starts passes as long as a migration runs passes, and a pass proceeds as long as its worker lives; deaths
and stops are faults and finitely many. `Throttling` and `DownloadMeter`: the clock, and each worker's own
next step (the event loop). `Scheduling`: the minute, the tick's steps, the start of a pass that could
start, and the end of one that runs, which `PASS_HARD_LIMIT_MS` enforces. Nothing is asked of owners and
operators. `CHECK_DEADLOCK` is never turned off.

### Disagreements between code and comments

Each of these runs shows a trace of the code against a sentence of its own comments, quoted in
`findings`.

* `failed_rewrite`: a failed rewrite is retried as a create, which adopts the old copy and records the
  new version. The edit is never carried over.
* `execute_again`: an execute that died between its writes is finished by one that finds `cutover`
  and records that nothing is copied through the grace period.
* `vacated_path_lost`: a file is renamed, another takes its old path, and the relocation is carried over. A
  pass finds the file there, clears the recorded move and dies before it copies it (a hold or a stop does the
  same); the tombstone now reads as an erasure, and the next pass looks at the file and passes it over.
* `drain_not_done`: under a hold, the count of running rows reads 0 while a pass waits in its
  migration's queue; it starts afterwards.

Met while modelling, without a run of their own (each follows from an instance of a module here that
departs from the runs in the way named):

* *A retry races a pass* (`OperatorActs = "any time"`, `CursorRetiresNothing`): a retry clears the cursors
  while a pass runs, and the pass saves its own, so the item is behind it (`operating-routes.ts:1243-1247`).
* *An unkeyed item fails* (`Unkeyed` not empty, `CursorRetiresNothing`): nothing is recorded and the cursor
  moves past it (`domain-sync.ts:2345-2350`).
* *A live item that moved is reported* (two collections): it moves right after its old collection was listed;
  this pass sees it in the new one, the next reads the old handle's removal, no longer lists the item and
  records it as deleted (`domain-sync.ts:2990-3033`). `LiveItemNotReported` is therefore about items that are
  where their row says.
* `AnswerStands` fails if the operator accepts an item that a pass is writing at that moment:
  `recordFailure` puts it back among the failures (`operating-routes.ts`: "Left behind for good: no
  further retries").
* With cutovers `CursorRetiresNoEdit` and, on two items, `CursorRetiresNothing` fail: an edit at the old
  system is left alone and the cursor moves past it, so a rollback does not carry it
  (`domain-sync.ts:968-969`: "the divergence is counted on every pass ... and a rollback (ADR-0047) carries
  the change over on its next pass").
* An item that moves while it is being rewritten fails, and the retry creates a second copy beside
  the first (`domain-sync.ts:1842-1845` rules this out for rows on the target only).
* *Both copies go* (`Overlap = TRUE`, `RelocationLeavesCopy`): a relocation asks for its arrival while a
  deletion of that arrival is about to remove it. The ledger checks the arrival again (`ledger.ts:2022-2030`:
  "both copies go. Gate 7 is meant to be the last word"), but after the removal. A `keep` that lands between
  removal and record is lost the same way (`ledger.ts:2014-2018`).
* *An erased file returns* (`FileMoves`, `ErasedStaysErased`): `detectPathKeyedMoves` may record a move on a
  row whose file is in the bin, and applying the deletion leaves it there, so the tombstone reads as a
  relocation and a file that comes back is copied (`domain-sync.ts:470`: "set only by a relocation").
* A row revived after a relocation keeps `deletionAppliedAt`, and detection passes it over from then on
  (`domain-sync.ts:1947`, `:3239`); `MissingIsNoticed` excludes such rows.
* *A preparation races an execute* (two callers, `PreparationLeavesItAlone`): a late verdict marks an
  executed cutover FAILED (`run-cutover.ts:36-37`: "refuse, and write nothing").
* With two callers `RecordsAgree` and `CompletedIsStopped` do not hold: Start
  (`apps/api/src/routes/migrations/index.ts:4170-4255`) reads `paused`, awaits, and writes `active`
  over a `cutover`; a rollback that has written its mapping half loses to a complete.
* `transitionState` and the update door read without a lock inside a transaction. The comment at
  `index.ts:3247` ("so nothing can move it in between") holds on one connection, not between two.
* `CapHeld` is about the passes of the tick that every later tick could count. The others make more passes in
  flight than the caps: a pass the tick queued behind a pressed one is in no count once that one has ended,
  so the next tick fills its place, and it starts beside the one chosen instead. `managed-sync-tick.ts:450-455`
  names the pass the plane has not started yet, and calls the second one of a migration "a spare delta and not
  one more pass in flight"; the spare, too, is one more when it starts late.
* A killed pass never counts as a failure, so a migration whose passes are always killed is not spaced.
* A stored `requestsPerSecond` below 1 makes a burst of less than one token: every request of that mapping
  waits for ever (`pg-rate-budget.ts:99-101` asks only for a positive rate).
* `throttling.ts:38-44` says a configured download ceiling "overrides the built-in for any host"; for Gmail it
  only lowers it (`rate-budget.ts:286-288`).
* `reindex.ts` keys every data type with the mail key's prefix, the passes key each with its own.

## 4. Proofs

TLAPS checks every step; nothing is assumed but the constants' types (`SyncConstants`, `FileConstants`,
`CutoverConstants`, `ThrottlingConstants`, `MeterConstants`, `SchedulingConstants`, which TLC evaluates) and
the hypotheses named here. Bounds such as `MaxFaults` are arbitrary in the proofs.

**`DomainSyncProofs`**, for all constants. `TypeCorrect`. `OwnerBytesKept`: only the three `PutItem*` write as
us; each goes through `Upsert`, whose rewrite leaves any object that does not match the recorded version and
whose create adopts what it finds. `LedgerAlwaysBehind`: the inductive `AheadInv` says that versions
recorded, listed and fetched are no newer than the source's, bytes in hand are no older than the version that
will be recorded, and the copy is at least those bytes from the put to the record.

**`CursorProofs`**: `CursorInvariant`, `CursorSafety`, `CursorCarriesEdits`, under `Quiet`: the listing gives
every key, no cutover, and the operator does not answer during a pass. The points above on a retry, an
unkeyed item and cutovers show that each condition matters. `CursorRetiresNothing` is not inductive: a cursor
about to be saved says nothing about items that are still in hand. `CursorInv` adds

* `StampsInv`: no version, cursor or position is ahead of the clock;
* `PassInv`: the pass has the authority, holds no cursor when idle, and no cursor is ahead of the
  listing it works on;
* `RetiredInv`: what a saved *or held* cursor retires is carried over (settled, and at its version);
* `WorkInv`: an item in hand is as it was listed or has changed since, and one being written is
  behind no cursor;
* `DoneInv`: in a collection whose cursor the pass may still move, an item it is done with, unchanged
  since the listing, is carried over.

`DoneInv` with all work `out` is exactly what `CloseFolder` needs to save the cursor; a failure that
is still retryable, a stop, a held item and an empty first read falsify its hypothesis, which is why
those are the guards of the cursor gate.

**`RemovalProofs`** proves the four action properties of a pass that are about what it does *not* bring over.

* `AnswersStand` assumes only that the operator answers between passes. An item being written is not answered
  (`AnswerInv`): the decision to write passed an answer over, and none arrives while an item is in hand
  (`HandInv`). The only steps that make a row `failed` are on such an item.
* `LatePassAdds` assumes nothing. A pass without the authority has no rewrite in hand and no removal collected
  (`HandInv`), and a write that is no rewrite leaves any object it meets.
* `NoLiveItemReported` and `NoRemovalSkipped`, under `Quiet`, for any number of collections. A removal names a
  handle, a row names a handle and a collection, and the pass reads arrivals and removals of different
  collections at different times; neither property is inductive. `RemovalInv` adds, to `CursorInv` and `HandInv`:
  `SourceInv` (a handle belongs to one item, and no live object has the handle of a removal), `RefInv` (the object
  behind the handle of a row, or of an item in hand, lives or lived in the collection they name), `TouchedInv` (if
  an item the pass has looked at is removed, that removal is one no listing of this pass has named), `ToldInv` (what
  the pass collected is still in front of the cursor), `ReadInv` (a removal that the listing's position passes was
  collected with it, and one that a held cursor passes is still collected or is on its row), `SeenInv` (what
  changed between the cursor and the beginning of the pass has been looked at, in every collection behind it) and
  `BeganInv`. `TouchedInv` is what lets `resolves` leave out the items seen: for those the held cursor does
  not pass the removal, so the next pass reads it again. `ReadInv` is why a cursor with removals behind it is held
  to the end of the pass, and why a pass with an unread collection saves none of those.

**`FileMovesProofs`**, for any paths, folders, contents and jobs. `FileTypes`, `OwnersCopiesAlwaysStay`
(every write goes through `upsertFile` or a conditional removal). `SeenAlwaysStands` from `SeenInv`: whoever
records a move, an absence or a bin entry does so for a row the pass has not seen.
`NeverMissedWhileThere` from `PlaceInv` (a file at its path all the time is still to be listed, listed, seen,
or in an unfinished folder) and `MissingAlwaysNoticed` from `NoticedInv` (what has left `check` is
accounted for). `RelocationAlwaysLeavesCopy` assumes `~Overlap`; its `TurnInv` and `ArrivalInv` say that one
job is under way and that, between the answer and the removal, only the target's owner can take the arrival.

**`CutoverProofs`**. `CutoverTypes`, `GraceIsWhole` for any number of callers: a row in its grace
period was stamped when it entered it (`GraceInv`). `CompletedStopped`, `RecordsAlwaysAgree`,
`StoppedIsKept`, `AuthorityKept` under `Solo`: one caller at a time, each of which may die between any two
transactions, any number of times. The inductive part is `CallInv`: what a caller has read is still so when it
writes; a caller between its two writes has left the mapping as its step wants it, and the ledger still
admits the move; COMPLETED admits none. `AuthorityKept` maps each step to one of `Authority`.

**`ThrottlingProofs`**, for any processes, workers, rates and retries. `SlotsAlwaysHeld` counts the requests on
their way through every action. `OneBucket` and `RateAlwaysHeld` rest on one inequality: what is in the row,
as any process would find it, plus what was granted beyond the default rate, never exceeds the default's
burst; a process with a lower rate only sees less.

**`DownloadMeterProofs`**: `MeterTypeOK`, `WindowAlwaysHeld`, `TwoWindowsAlwaysHeld`, for any workers, sizes,
ceilings and windows. The bound of a window counts the workers that have passed the gate: until the window
reaches the ceiling anyone may, and from then on only those that already had add a message each. For any day,
`TwoInv` accounts for every byte that came: it is counted in the open window or the one before, in the hands of
a worker, or lost to a death. What workers hold is a sum over a set, which the invariant states by its value on
every subset of the workers (`Uncounted`).

**`SchedulingProofs`**, for any migrations, organisations, gaps and caps. `SchedulingTypes`: the places stay a
numbering of the migrations (a bijection with `1..Places`), which is what makes the tick's order total.
`LiveNeverTakenForDead`: a live pass is no older than the hard limit, because the minute does not pass it, and a
row counts as open for twice that. `CapsAreHeld`, whether or not the plane is prompt: `ChosenFits` shows by
induction over the places that what `withinCapacity` takes, together with the open rows it counted, fits into
both caps. The invariant (`RoomInv`) gives every migration with a pass of the tick, running or waiting and not
unseen, one place in the caps (`Holding`). Steps of passes and people only take migrations out of `Holding`;
when the tick enqueues, each that stays in it has a row, which was counted (`RowsCounted`: a live pass is young
enough to be), and the rest are the chosen (`EnqueueRoom`). Rows and choice fit, so `Holding` does, and the
passes of the tick that run are part of it.

Induction. The library's induction theorems take an operator, which the installed provers cannot instantiate.
`SchedulingProofs` derives what it needs from the well-foundedness of `<` instead: `Induct` says that a *set*
with 0 and all successors contains `Nat`, and each use puts its claim into a set. In the same way `LoopExists`
shows that the recursive function of the loop exists, without which nothing could be said of its values.

Only model-checked, because fairness and `ENABLED` are out of the prover's reach: `EventuallySettled`,
`EditsLand`, `EveryRequestEnds`, `StoppedGoesOn`, `EveryMigrationRuns`. Every invariant and every action property
of a passing run is a theorem.

## 5. Not modelled

Connectors, payloads and key derivation (the environment of a pass), verification and confirmation
(read-only comparisons), reindexing, shares, discovery, secrets, billing, the appliance's timer and the front
ends; and, of the parts that are modelled, what `components` lists. Most of the repository's lines are screens,
routes, provider protocols, billing and tests around the core that is modelled; they keep no concurrent state
of their own, and `PROJECT.json` gives the reason for each.

## 6. Plan

Done: the six systems above, two refinements, and the proofs of section 4. Left, in this order: the
per-data-type cutover beside the whole migration's, with the reads and writes of `transitionState` as
separate steps; `RetryFailure` as its two transactions; documents paired by their own id in `FileMoves`; what
remains true of the cursors after a cutover (`CursorProofs` without the second condition of `Quiet`, for the items
that have not diverged); the confirmation passes and the share queue.
