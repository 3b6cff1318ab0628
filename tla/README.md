# NW-Kids-Checkout in TLA+

NW-Kids-Checkout puts on a screen the children whose parents have come to pick
them up. A worker copies check-outs from Planning Center into SQLite, a web
server shows them to boards that poll it, and a reader of a board confirms each
child once it has been handed over. Getting it wrong means a child who is not
called, or one who is taken for called. These modules model the parts in which
that can happen, check them on small instances with TLC, and prove what matters
most with TLAPS.

Paths below are relative to `src/`.

## 1. Inventory

| Component | State it keeps | Operations |
|---|---|---|
| **checkout-fetcher: cycles** (`internal/cmd/checkoutsfetcher/cmd.go`) | in memory: location map, per-event retry state, 64 mutex stripes, semaphore; in SQLite: `events.last_checked_out_time` (the *horizon*), `checkins` | `run`, `eventCheckoutLoop`, `processEventCheckouts`, location-map refresh |
| **checkout-fetcher: shutdown** (same file) | `sigCh`, `stopCh`, `forceExitCh`, `sigDone`, the run-time context, the grace timer | `runSignalLoop`, the selects of `run` and of the launching loop |
| **checkout-fetcher: check windows** (same file) | none: computed from `event_check_windows` and the clock | `activeEventIDs`, `mergeWindows`, `localToUTCWeekMinutes` |
| **Planning Center client** (`internal/client/planningcenter`) | none | `GetCheckoutsForEvent` pages newest first until it has passed the horizon; other calls serve administration |
| **Check-ins API** (`internal/repo/checkin`, `internal/controllers/checkinv1`) | `checkins` | list of recent check-outs, confirm, websocket, `RemoveOldCheckins` |
| **Events API** (`internal/repo/event`, `internal/controllers/eventv1`, `internal/actions/eventlocation`) | `events`, `event_check_windows`, `locations` | PATCH (read, merge, write the whole row), delete with dependents, create with locations, check-window CRUD |
| **Checkouts board** (`internal/web/static/pages/checkoutsv1/checkouts.js`) | `childrenData`, `confirmationOverrides`, the DOM of two lists, drawer state | poll every 3 s, tick every 1 s, click, PATCH, drawer, filters |
| **Manual check-ins** (`internal/repo/manualcheckin`, `internal/controllers/manualcheckinv1`, page) | `manual_checkins` | create, check out / undo, confirm, list |
| **Guest submissions** (`internal/repo/guestsubmission`, `internal/controllers/guestcheckinv1`, two pages) | `parents`, `children`, `guest_submissions`, `manual_checkins` | submit, mark entered, create missing check-ins |
| **Locations and groups** (`internal/repo/location`, `internal/controllers/locationv1`, CLI) | `locations`, `location_groups` | groups: create, rename, count uses and delete; locations: create, patch, upsert, sync |
| **Maintenance** (`internal/cmd/checkins`) | `checkins`, `manual_checkins` | delete-old, seed-preview |
| **Metrics, login, sessions, Planning Center browsing, other admin pages, plumbing** | session store, a cursor cache | read-only or thin |

How they interact. The worker, the API server and the command-line tools are
separate processes with nothing in common but one SQLite database
(`_txlock=immediate`, `busy_timeout` 5 s, `foreign_keys` on: `internal/db/db.go:78-82`),
so every SQL statement is atomic and anything done in two of them is not.
Boards talk to the server by polling and by PATCH; any number of boards and
devices confirm the same children. Planning Center is only ever asked.

What is hard in it, component by component, and what makes each correct:

- *Cycles.* Whether a check-out is ever stored hangs on one column. A cycle
  fetches each event's check-outs since the horizon, stores them one by one and
  then sets the horizon to the start of the cycle, with the whole row written
  back as it was read before the fetch. Meanwhile fetches fail, are cut short by
  the context, drop check-outs at unknown locations or fail to insert;
  administrators PATCH and delete the same row; the process is killed. Correct
  means: the horizon never passes a recent check-out that is not stored; a
  confirmation made on a board is undone only for a recent check-out; every
  cycle ends; a failing event is retried before its check-outs leave the
  lookback window; no failure of a fetch ends the worker.
- *Shutdown.* Two goroutines, a timer and a context race through six
  channels. Correct means: the database is never closed under a fetch; one
  signal is enough; a second one ends the process even if everything hangs.
- *Check windows.* Wall-clock windows in any zone become intervals of the UTC
  week. Correct means: an event is selected exactly when the wall clock says.
- *Board.* Poll answers describe the past, clicks are shown before they are
  sent, rows are matched by position and not by child, and a PATCH in flight
  writes to the row it was started from. Correct means: rows do not move or
  vanish under a reader's finger; a click stays on screen; in the end the board
  shows what the database says.
- *Manual check-ins and guest submissions.* Two administrators, retries,
  confirmations that race an undone check-out, ids that SQLite gives out again
  after delete-old. Correct means: one row per child, one administrator enters a
  submission, a request acts on the child it names; the kiosk keeps what is
  typed until it is stored, and is ready for the next family in the end.
- *Administration.* Read-modify-write of whole rows, check-then-delete without a
  transaction, syncs that run at once, ids that come back after a delete.
  Correct means: no reference to a row that is gone; one row per event; a sync
  keeps the groups administrators gave; a child's check-in stays on the board
  whatever becomes of its location.

Every hazard, at its line, is in `PROJECT.json` under `hazards`, with the
properties that guard against it or the reason why none does.

## 2. Modules

    CheckoutIngestion        abstract: nothing is left behind a horizon
          ^ refined by
    CheckoutFetcher          cycles, retries, crashes, concurrent requests
      |-- PunctualFetcher        the same under the assumption of a machine that keeps up
      |-- CheckoutFetcherProofs    theorems
      |     ^ used by PunctualFetcherProofs: theorems about PunctualFetcher
      |-- MCCheckoutFetcher, MCPunctualFetcher   values for TLC
    FetcherShutdown          signals, timer, context, drain
      |-- FetcherShutdownProofs  theorems
    CheckWindows             the algorithm, against a definition by the wall clock
      |-- CheckWindowsProofs     theorems
      |-- MCCheckWindows
    CheckoutsBoard           one board, its server and the other devices
      |-- CheckoutsBoardProofs   theorems
      |-- MCCheckoutsBoard
    Administration           groups, events, locations, windows; syncs; the worker's writes
      |-- AdministrationProofs   theorems
      |-- MCAdministration
    GuestEntries             the kiosk, the submissions, the administrators' lists
      |-- GuestEntriesProofs     theorems
      |-- MCGuestEntries
    ManualCheckins           the table, its requests, delete-old and its page
      |-- ManualCheckinsProofs   theorems
      |-- MCManualCheckins

### CheckoutFetcher

A step is one SQL statement or one exchange with Planning Center, with what the
goroutine does between it and the next folded in. `Events`, `Checkouts` and
`Locations` are sets of rows; the horizon of an event is `event[e].last`.

| Variable | In the code |
|---|---|
| `checkedOutAt` | Planning Center's record; up to `Delay` late in being shown |
| `event`, `locations`, `stored`, `confirmed` | the tables `events`, `locations`, `checkins` |
| `patches` | PATCH requests that have read the event and not yet written it |
| `up`, `expired`, `stopping` | the process, its `--runtime` context, `stopCh` |
| `locationMap`, `retry` | `Service.locationIDMap`, `Service.eventRetries` |
| `phase`, `cycleNow`, `wakeAt`, `fatal` | where `run` is, and `now`, the timer and `errs` of the cycle |
| `pc`, `job` | where the goroutine of each event is, and its locals |

| Actions | In the code |
|---|---|
| `BeginCycle`, `ListFails`, `LeaveRun`, `LeaveLaunching`, `EndCycle` | `run`, `eventCheckoutLoop` |
| `Launch`, `LoadEvent`, `LoadEventFails` | semaphore, mutex stripe, `GetEventByID`, the lower bound of the fetch |
| `Fetch`, `FetchCutShort`, `FetchServerError`, `FetchFails` | `GetCheckoutsForEvent`: everything since the horizon; the newest part of it, when the context ends between pages; what a 5xx answer leaves; an error |
| `StoreCheckin`, `LeaveUnresolved` | one check-out of the batch: inserted, or dropped / not inserted |
| `GiveUp`, `Advance`, `AdvanceFails` | what is done after the batch: retry later, or `UpdateEvent` with the new horizon |
| `RefreshLocationMap` | the five-minute refresh, one step |
| `Crash`, `Restart`, `Expire`, `Stop` | kill, a new process, the end of `--runtime`, a signal |
| `PatchRead`, `PatchWrite`, `DeleteEvent`, `SyncLocations`, `SetConfirmed` | requests to the API server |

`Faults` and `Requests` say which failures and requests an instance has.

### CheckoutIngestion

Four actions: a check-out is published, ingested, a horizon is moved to where it
leaves nothing behind, an event is removed. `CheckoutFetcher!ImplementsIngestion`
is the refinement; it says that of all the worker's steps only these are visible
to whoever relies on the tables.

### PunctualFetcher

`CheckoutFetcher` restricted to behaviours in which cycles start when their
timer fires and end within a unit of time, no process is killed and no event
fails more than `MaxStreak` times in a row. Only under such assumptions can one
say how stale the tables get: by `StalenessBound`, which is Planning Center's
lateness, an update interval and the backoffs of the longest streak
(`Retries[MaxStreak]`), each with the wait for the next cycle after it.
`LookbackAssumption` says that this fits into the lookback window.

### FetcherShutdown

`handler` is the signal goroutine, `main` the goroutine of `run`, `timer` the
grace timer, `channels` the three channels, `jobs` the number of requests each
fetch in flight still has to make. `FirstSignal`, `SecondSignal` and
`LeaveSignalLoop` are `runSignalLoop`; `LeaveAtTop`, `Launch`, `LeaveLaunching`,
`Drained`, `DrainedWithErrors`, `Wake` and `LeavePause` are `run` and the
launching loop; `sigCh` holds one signal, and a second one sent meanwhile is
lost, as in the code.

### CheckWindows

`Merge` is one turn of the loop of `mergeWindows`: it takes one of the ranges of
`rest` that start first and hands it to `Coalesce`, which appends it to `merged`
or lengthens the last range there. `sort.Slice` is not stable, so ranges that
start together come in any order. `RangesOf` is translated from
`localToUTCWeekMinutes` and the cut at the end of the UTC week; `Selected` is
what `eventCheckoutLoop` makes of the result; `Tick` is a later cycle, which
starts from the windows again. `Covers` is what a window means on the wall
clock. A zone has an offset before and after one change of its clocks. Which
instant Go's `time.Date` gives for a time that occurs twice or not at all is not
specified, so `rule` chooses.

### CheckoutsBoard

`day` is chosen at the start: which children there are and how much may happen,
so that one run asks about several small instances, each large in one direction.
`row`, `late`, `gone` are the server's side: what it would answer now, who was
checked out five minutes ago, who has left the polled window. `data`,
`override`, `hide`, `mainSig` are the page's variables; `main` and
`drawer.rows` its checkbox nodes, by position. A poll reads the database when it
is sent (`Ask`) and may be answered at any later time (`Receive`, `PollFails`).
A PATCH is sent by `Click`, reaches the server in `Apply`, may be lost in
`PatchLost`, and its continuation (`PatchDone`, `PatchFailed`) writes to the
node that was clicked: whatever child that node shows by then.

### Administration

| Variable | In the code |
|---|---|
| `home` | Planning Center: the event of each of its locations |
| `groups`, `events`, `locations`, `windows`, `checkins` | the tables `location_groups`, `events`, `locations`, `event_check_windows`, `checkins`, by id |
| `serving` | per connection: the request it is in the middle of, and what that has read |
| `day`, `asked`, `moved`, `minted` | the bounds of the behaviour and what is used of them; `minted` also numbers windows, so that two that had the same id are told apart; a row of `windows` keeps its number (`born`) for good, and which event it was inserted for (`of`) until a PUT that had looked up another number writes it |

| Actions | In the code |
|---|---|
| `CreateLocationGroup`, `UpdateLocationGroup` | one statement each |
| `CountLocations`, `CountEvents`, `DeleteLocationGroup` | `DeleteLocationGroup`: two counts, then the delete, which the foreign key of `events` may refuse |
| `ReadLocation`, `UpdateLocation`; `CreateLocation` | `PatchUpdateLocation`; POST and `location upsert` |
| `AskPlanningCenter`, `ListExisting`, `CommitSync`, `SyncFails` | `PostCreateEvent` and `CreateEventWithLocations`: the transaction is in two steps, for it writes rows back as it read them |
| `ReadEvent`, `WriteEvent`; `DeleteEvent` | `PatchUpdateEvent`; `DeleteEventWithDependents` |
| `FindEvent`, `CreateCheckWindow` | `PostCreateCheckWindow` |
| `FindWindow`, `UpdateCheckWindow`, `DeleteCheckWindow` | `PutUpdateCheckWindow`, `DeleteCheckWindow` |
| `LoadEvent`, `CreateCheckin`, `Advance` | the worker, as far as it writes these tables: a row read before a fetch and written back after it |
| `RemoveOldCheckins`, `MoveLocation` | `checkins delete-old`; a change in Planning Center |

Every step that writes waits for `Unlocked`: a sync holds SQLite's write lock
from its `BEGIN IMMEDIATE` to its commit. `NextId` gives ids out as SQLite does
without `AUTOINCREMENT`, so a request may find another row under the id it read.
`CheckoutFetcher` looks at the same rows for the sake of the horizon and keeps
their ids apart; `Administration` is about the ids and leaves the horizon out.

### GuestEntries

| Variable | In the code |
|---|---|
| `subs` | the table `guest_submissions`, oldest first: whose, and whether `entered_at` is set |
| `kiosk` | the kiosk page: the panel shown, what is typed, its button, its countdown |
| `posts` | its POSTs, from the click to the end of the handler |
| `pages` | each administrator's guest-entries page: tab, page number, what the list shows, which buttons are disabled |
| `loads`, `marks` | the GETs and PATCHes of these pages; `attached` says whether the button a handler holds is still in the document |
| `day`, `clicks`, `failures` | the bounds of the behaviour and what is used of them |

| Actions | In the code |
|---|---|
| `FillIn`, `SubmitKioskForm`, `Thank`, `SubmitFails` | `submitKioskForm` |
| `CreateSubmission`, `RefuseSubmission`, `LosePost` | the POST handler; a request or an answer that is lost |
| `Countdown`, `NewSubmission` | `startCountdown`, `showForm`, the button of the welcome panel |
| `OpenTab`, `GoToPage` | clicks that call `loadEntries` |
| `ListSubmissions`, `CountSubmissions`, `FailLoad` | `AdminListSubmissions`: the page and the total in two reads |
| `ShowEntries`, `StepBack`, `LoadFails` | the rest of `loadEntries` |
| `MarkEntered`, `Marked`, `MarkFails` | the Mark entered button |
| `ReadStatus`, `UpdateStatus`, `FailMark` | `PatchSubmissionStatus`: reads the status, then `UpdateSubmissionStatus` with its own `WHERE entered_at IS NULL` |

### ManualCheckins

| Variable | In the code |
|---|---|
| `parent` | the table `children`, by id: the parent, and so the submission, of each |
| `rows`, `minted` | the table `manual_checkins`, by id; how many `public_id`s there have been |
| `tx` | the transaction of `CreateManualCheckins` on each connection: begun, or holding the children it read as missing |
| `patches` | PATCH requests: sent, row looked up (`id`), or written and not yet answered; `node` says whether the button the page's handler holds is still in the document |
| `open`, `shown`, `busy`, `loads` | the manual check-ins page: its table, its disabled buttons, the loads under way |
| `acked` | ghost: what the server last answered the page about a row nobody else has written since |

| Actions | In the code |
|---|---|
| `CreateSubmission`, `CreateManualCheckin` | a guest family, a walk-in |
| `BeginTx`, `QueryChildren`, `InsertManualCheckins`, `Rollback` | `POST .../checkins` of a submission: the rows missing for its children |
| `PatchElsewhere`, `FindRow`, `WriteRow`, `PatchNotFound`, `PatchFails` | the two PATCH handlers: look the `public_id` up, update by row id |
| `RemoveOldManualCheckins`, `Tick` | `checkins delete-old`; a check-out grows older than the page's 12 hours |
| `OpenPage`, `Poll`, `ListManualCheckins`, `RenderManualCheckins`, `LoadFails` | the page's five-second poll, which aborts the load before |
| `Click`, `PatchDone` | its Check Out / Undo buttons |

`NextId` gives an id out again once the rows above it are deleted, as SQLite
does without `AUTOINCREMENT`, so a PATCH may find its row gone and its id on
another child's row; `WriteRow` then writes that one, as the code does.

## 3. What is checked

| Run | Question | Bounds and why they are enough |
|---|---|---|
| `fetcher_faults` | Can any failure, a stale location map or a kill at any point lose a check-out? | one event, two check-outs at two locations, so that one can be dropped or fail while the other is stored; five instants: a check-out, a failed attempt, a backoff, a second attempt, and the lookback limit |
| `fetcher_requests` | The same against PATCH, DELETE and confirmations, and a context that ends in the middle of paging; is the worker an implementation of `CheckoutIngestion`? | one PATCH overlapping one fetch is the whole race on the row; the theorems lift it to any number |
| `fetcher_stop` | Does every cycle end, and does a signal end the worker? | two events on one stripe and two places in the semaphore: the smallest instance in which goroutines wait for each other |
| `fetcher_punctual` | How long can a check-out stay unstored? Does a failed fetch end the worker? | a streak of two failures, delays of 1 and 2 against a cycle of 2, so that a backoff ends before, at and after a cycle's start; the lookback window is the shortest that `LookbackAssumption` admits |
| `fetcher_server_error` (violation) | finding 1 | |
| `shutdown_fair` | Is a graceful end always one after the drain; is one signal enough; do two end a hanging process? | two workers, three events, three signals: one handled, one waiting, one lost |
| `board` | Is an open drawer steady? Does a click hold? Does the board come to agree with the database after clicks, changes elsewhere and lost requests, hidden or not? | one of four days: three children (rows above and below one that leaves or is confirmed; two failed polls, one before and one while the drawer is open); two children clicked once each, whose rows change places under a PATCH, one request lost; one child clicked twice, changed elsewhere, hidden at times; one child clicked once while it is changed elsewhere and back and a poll fails |
| `board_double_click` (violation) | finding 2 | |
| `windows_wall_clock` | Is an event selected exactly when the wall clock says? | up to two windows between seven marks of the week, four of them on the Sunday the clocks change, which gives every way two intervals touch, overlap, nest or wrap, and ranges of equal start in either order; a zone east of UTC, and two west of it with either change of clocks |
| `administration` | Can a reference outlive its row? Can an event get two rows, or a sync undo a group? Does a board's list, by id or by name of a group, lose a child? Can a window change its event? | two connections, two events and locations of Planning Center, two ids a table, so that every id is soon used again; one of three days: groups assigned while one is deleted; windows of an event that is deleted and comes back (seven requests: two syncs, two deletions and the window's three meet); locations that move while they are synced, fetched, assigned and deleted |
| `guest_entries` | Is a submission marked once, stored once, and never cleared unstored? Does the kiosk come back, and every list settle? | one of four days: two families, three POSTs and two failures at the kiosk; two administrators on one submission with five clicks and a failure; two submissions on pages of one; one that comes in while a list is looked at |
| `manual_checkins` | Is a child ever listed twice? Does the list take a click back? | a family of two, or of one and walk-ins: three names, so that rows are deleted, put back and their ids used again; two transactions, the smallest race; three requests: opening the page and two PATCHes, or a PATCH and a transaction |

All runs set `CHECK_DEADLOCK FALSE`: counters of the bounds (the clock, clicks,
requests, signals) run out, and a process that has ended stays so.
`administration` declares handlers and group names symmetric: it checks no
liveness, and nothing orders them.

The properties, by module:

- `CheckoutFetcher`: `NoCheckoutLost`; `ConfirmationKept`; `ImplementsIngestion`;
  `FetchFailuresAreNotFatal`; `CycleEnds`; `StopEnds`. `PunctualFetcher`: `Fresh`.
- `FetcherShutdown`: `GracefulDrain`, `ShutdownCompletes`, `SecondSignalEnds`.
- `CheckoutsBoard`: `DrawerSteady`, `FirstClickHolds`, `Reconciles`.
- `Administration`: `ReferencesHold`, `OneEventPerPlanningCenterId`,
  `SyncKeepsGroups`, `StaysListed`, `MovedOnlyByReuse`.
- `GuestEntries`: `EnteredByOne`, `StoredOnce`, `TypedIsKept`, `KioskReturns`,
  `Settles`.
- `ManualCheckins`: `OneRowPerChild`, `ClickStays`.
- `CheckWindows`: `ByWallClock`, `EndsOnce`.

Each is broken by a plausible mutation of the code, named in `PROJECT.json`
under `mutants` and kept beside the definition it replaces.

### Fairness

- `CheckoutFetcher!FairSpec`: weak fairness of each goroutine's next step and of
  the end of a cycle. The Go scheduler runs every goroutine; requests to
  Planning Center end by the HTTP client's timeout and the page limit; a
  goroutine that waits for a mutex stripe gets it, for `sync.Mutex` hands over
  in order once a waiter has starved for a millisecond, so a stripe's holders,
  bounded in a cycle, let everyone through. Nothing is assumed of faults,
  signals, crashes or requests.
- `FetcherShutdown!FairSpec`: the two goroutines and the timer run. That fetches
  end is *not* part of it: `ShutdownCompletes` assumes it (`FetchesEnd`),
  `SecondSignalEnds` does without.
- `CheckoutsBoard!FairSpec`: a poll is sent and ends, a PATCH reaches the server
  or is lost and its await ends, the 15 seconds of an override pass. The first
  is an assumption the code does not enforce: `fetch` has no timeout and a poll
  that never ends blocks all later ones (hazard at `checkouts.js:1072`).
- `GuestEntries!FairSpec`: the server answers each POST, GET and PATCH or the
  request fails, the page's continuation runs, the countdown ticks. Browsers run
  what is queued and end a request whose connection is closed. Nobody is made to
  type, to click or to press the button of the welcome panel, and no request is
  made to fail.

## 4. What is proved

For all values of the constants that satisfy the named assumptions:

| Theorem | Says |
|---|---|
| `CheckoutFetcherProofs!TypeCorrect` | `Spec => []TypeOK` |
| `CheckoutFetcherProofs!FetcherInvariant` | if `"http5xx" \notin Faults`, `Spec => []FetcherInv` |
| `CheckoutFetcherProofs!NothingLost` | under the same condition, `Spec => []NoCheckoutLost` |
| `CheckoutFetcherProofs!Refinement` | under the same condition, `Spec => ImplementsIngestion` |
| `CheckoutFetcherProofs!ConfirmationsKept` | if `MaxPatches <= 1`, `Spec => ConfirmationKept` |
| `CheckoutFetcherProofs!FailuresSurvived` | `Spec => []FetchFailuresAreNotFatal` |
| `PunctualFetcherProofs!PunctualInvariant` | `PunctualSpec => []PunctualInv` |
| `PunctualFetcherProofs!StaysFresh` | `PunctualSpec => []Fresh` |
| `FetcherShutdownProofs!ShutdownTypeCorrect` | `Spec => []TypeOK` |
| `FetcherShutdownProofs!DrainsBeforeReturn` | `Spec => []GracefulDrain` |
| `CheckWindowsProofs!MergeInvariant` | `Spec => []MergeInv` |
| `CheckWindowsProofs!WallClock` | `Spec => []ByWallClock` |
| `CheckWindowsProofs!EndsAtFirst` | `Spec => []EndsOnce` |
| `CheckoutsBoardProofs!BoardInvariant` | `Spec => []BoardInv` |
| `CheckoutsBoardProofs!BoardTypes` | `Spec => []TypeOK` |
| `CheckoutsBoardProofs!FirstClick` | `Spec => []FirstClickHolds` |
| `CheckoutsBoardProofs!SteadyDrawer` | `Spec => DrawerSteady` |
| `ManualCheckinsProofs!TableInvariant` | `Spec => []TableInv` |
| `ManualCheckinsProofs!OneRow` | `Spec => []OneRowPerChild` |
| `ManualCheckinsProofs!ClickInvariant` | `Spec => []ClickInv` |
| `ManualCheckinsProofs!ClicksStay` | `Spec => ClickStays` |
| `ManualCheckinsProofs!ManualTypes` | `Spec => []TypeOK` |
| `GuestEntriesProofs!MarkedOnce` | `Spec => []EnteredByOne` |
| `GuestEntriesProofs!NoDoubleSubmission` | `Spec => []StoredOnce` |
| `GuestEntriesProofs!NothingCleared` | `Spec => TypedIsKept` |
| `GuestEntriesProofs!GuestTypes` | `Spec => []TypeOK` |
| `AdministrationProofs!NothingDangles` | `Spec => []ReferencesHold` |
| `AdministrationProofs!OneEvent` | `Spec => []OneEventPerPlanningCenterId` |
| `AdministrationProofs!GroupsSurvive` | `Spec => SyncKeepsGroups` |
| `AdministrationProofs!NobodyDropped` | `Spec => StaysListed` |
| `AdministrationProofs!NoOtherMove` | `Spec => []MovedOnlyByReuse` |
| `AdministrationProofs!AdministrationTypes` | `Spec => []TypeOK` |

Assumptions. `FetcherAssumption`, `ShutdownAssumption`, `BoardAssumption`,
`ManualAssumption`, `GuestEntriesAssumption` and `AdministrationAssumption` type
the constants, and say that the value for nothing is not a family, a group or a
row. `WindowsAssumption` also says that the clocks of a zone change by an hour
or not at all, and that two hours are less than a day. `PunctualAssumption`
leaves failed fetches and inserts as the only faults, with no requests and no
check windows, and `LookbackAssumption` is the one on the configuration:
`StalenessBound <= Lookback + Slack`. With the code's backoff (5 s, doubled to
5 min at most) and its 12 hours of lookback it allows some 140 failures in a row
when cycles follow one another within seconds; the alert in `recordRetryFailure`
is raised after five. `DelayAssumption` is
`Delay <= Slack`: Planning Center shows a check-out no later than the one second
that `getFilteredResults` allows below the horizon. Without it the promise is
false: a check-out shown later than that is already behind the horizon. That no
page is answered with a 5xx status is a hypothesis of the theorems because
finding 1 shows it is needed.

Argument for `NothingLost`. `NoCheckoutLost` is not inductive: a horizon is set
by a step long after the fetch that justifies it. `FetcherInv` adds what each
program point knows:

- *HorizonsPast*: no horizon, in the table or in the hands of a PATCH, is later
  than the start of the current cycle, and that is not later than the clock. A
  check-out still to come is therefore never behind one.
- *PatchesSafe*: the horizon a PATCH has read leaves nothing behind when it is
  written back, for as long as the event exists. Check-outs leave the table only
  with their event, and a deleted row is not written.
- *JobSafe*, for a goroutine whose context is not done. Between `LoadEvent` and
  the fetch, a missing check-out is inside the range that will be asked for, or
  older than the lookback window reaches (*GivenUp*). From the fetch on, it is in
  the batch, among the unresolved, given up, or not older than the start of the
  cycle less the slack. So when the batch is empty and nothing is unresolved,
  setting the horizon to the start of the cycle is safe; otherwise, or when the
  context is done, the code does not set it.

The proof has a step per action, most of which leave all three alone.
`Refinement` adds that a batch holds only published check-outs
(`LeftPublished`), and maps each action to one of the four abstract actions or a
stutter.

Argument for `DrainsBeforeReturn`. *DrainInv*: wherever `main` is at the top of
the loop or asleep, no fetch is in flight, for the only way out of the launching
loop is through `wg.Wait`; so too when the outcome is a graceful one, which only
a return of `run` records. Without the first part, a return from the select would
not be known to follow the drain. Of a hard or forced exit nothing is claimed
(section 5).

Argument for `StaysFresh`. *PunctualInv* gives every event a deadline: its
horizon, an update interval and the backoffs of its failures so far, each with
less than one interval of waiting. The clock does not pass it (*OnSchedule*):
while the loop sleeps, the timer fires by then; while a cycle runs, whoever was
passed over can wait one interval more, because it is not due or its backoff
ends later, and in time; a failure moves the deadline by its backoff. *AheadOf*
ties check-outs to it: what is missing is no older than the horizon but for
Planning Center's lateness, and a fetch is shown all of it, for by the deadline
the lookback window still reaches back to the horizon. Without the part on a
goroutine's batch, a new horizon would not be known to be ahead of nothing.
`RetriesAre` shows that the recursive equation of `Retries` has a solution, which
tlapm does not take for granted, and `UpTo` replaces induction: a set with 0 and
with n + 1 for each n of it has all numbers, or else a least one would be missing.

Argument for `WallClock` and `EndsAtFirst`. For one window: `localToUTCWeekMinutes`
gives the first instant at which the wall clock shows a mark, so `now` lies in
the window's ranges exactly when the wall clock of its zone lies in the window.
For the loop: *MergeInv* says that the ranges merged and those still to merge
contain `now` exactly when the windows' own ranges do, and that none of the rest
starts before the last one merged, without which `Coalesce` could close a gap.
A state is one turn of the loop, so no induction over a sequence is needed.

Arguments for the board. *BoardInv* has a part for each of the three promises.
The types need that a PATCH in flight holds the node of a row that is there or
none (*Held*), and drawing that a list shows each child once, newest first:
`Nth` enumerates a set, by the pigeonhole principle. *DrawerInv*: the rows of
an open drawer are those its signature was built from, and unless the last poll
failed all are still listed, so that an update that does not rebuild it changes
nothing.
*Followed*, for `FirstClick`: after one honest click on a child, either the
override shows the answer, and a poll in flight that agrees with it has read the
database after the change (*Carried*), or such a poll has come in and everything
agrees (*Landed*). Neither is inductive without the other, nor without *Unclicked*
and *Asked*, which tie the one PATCH under way to the click.

Argument for `OneRow`. `OneRowPerChild` is not inductive: `InsertManualCheckins`
relies on what an earlier step read. `TableInv` adds that only one transaction
is open at a time, that the children it holds as missing still have no row
(nothing else writes while it is open), and that a row's child is one that
exists, so that a new family's children have none yet. `RowsWith` then gives
each new child one row at an id of its own.

Argument for `ClicksStay`. *ClickInv*: a name is handed out once while ids come
back, so a request that found an id found that of the only row of its name, if
there is one left (*FoundInv*); what the page was told of a row is true of it
until another request writes it, and every load that has read the table read it
after that (*AckedInv*), for the page aborts the loads before the answer. Of the
page's own PATCHes at most the one that wrote last may speak for the row
(*LastInv*).

Arguments for the guests. *MarksInv*: `EnteredByOne` counts an update from the
moment it took effect, not from the moment the page is told, and a submission
once entered stays so; the handler's earlier reading of the status is not used
at all. *KioskInv*: a POST under way is the only one, is of the family whose
draft is on the form, and the button is disabled as long; the countdown runs
only under the welcome panel, where nothing is typed. The lists are no part of
either: the marks hold from lists however stale. For the types, *PagesInv* adds
that every list, load and button is of rows the table has, and keeps: none is
ever deleted.

Argument for `NothingDangles` and `OneEvent`. *AdminInv* adds to the two
properties that at most one sync holds the write lock (*SyncAlone*), and that an
event it found missing is missing until it commits. All other requests act on
what they read some time ago, and the invariant asks nothing of it: a reference
is looked up again when it is written, by the foreign key.

Argument for `GroupsSurvive`. *RowsFresh*: the rows a sync holds are, until it
commits, those of the table, since only the sync may write. The commit writes
them back unchanged.

Argument for `NobodyDropped`. An id given out to a location must be free
(`NextIdAbove`), and for that a set of ids has a greatest one. `Greatest` gets it
without induction over numbers, from the library's theorem that strict inclusion
of finite sets is well-founded: of the sets "the ids at or above i", take a
least. `CommitGroups` says what a sync does to groups: those of rows that stay
are kept, a new row has none. A list by name keeps a child whose group keeps its
name (`SameGroup`); a step that changes the name is one of the reasons.

Argument for `NoOtherMove`. *BornOnce* says that an insertion, known by its
number, has one row, and that a PUT under way that looked it up holds the event
it was inserted for, unless a PUT of another window has written the row since.
Without this, the PUT's write would not be known to keep the event. The types need *TypesInv*: what a request
holds since an earlier step came from a row, whatever became of that; a location
of Planning Center has one row, and a group its own name.

Argument for `ConfirmationsKept`. The upsert clears a confirmation only of what a
goroutine holds, which is not older than where it began to ask. *KeptInv*: from
the read of the event to the return, the horizon is not past that point
(*JobFresh*), because only the goroutine itself moves it forward. For this the
horizon a PATCH holds must not be newer than the row's (*PatchStale*), which is
so while PATCHes do not overlap: of two, the older may set the row back, a cycle
begin from there, and the newer set it forward past what is about to be stored
again. TLC finds that behaviour with `MaxPatches = 2`, so the hypothesis is needed.

Argument for `FailuresSurvived`. With no database error, deletion, kill, signal
or deadline, *Alive* is inductive: every event stays in its table, so neither
read nor update of one fails, and nothing else records a fatal error.

TLC checked `BoardInv`, `MergeInv`, `ClickInv` and `PunctualInv` before they were
proved: on the instances of `board`, `windows_wall_clock`, `manual_checkins` (6.2
million states) and `fetcher_punctual`, the last also with two events on two
stripes.

What failed proofs said about the models, each then confirmed by TLC and put
right:

- `FirstClickHolds` was false for a child that another device changes, and
  changes back, around a poll in flight: that poll agrees with the click although
  it was read before. Such clicks are not counted any more (`honest` in `Click`),
  and `board` has a day on which they happen. The code's hazard
  (`checkouts.js:1144`) is listed.
- `Fresh` was false with `<` for its bound: a streak of one reaches it exactly.
  The instance, with a streak of two, hid it. And an event may be asked for so
  late that the lookback window cuts its batch, unless the window is as long as
  `LookbackAssumption` says; the instance had taken one unit less.
- `CheckWindows` sorted with an operator that denotes nothing for ranges of equal
  start. Now both orders are tried.
- `ByWallClock` is false for a day of two hours, and `GuestEntries!TypeOK` for a
  table that can hold nothing; the assumptions now exclude both.
- `DrawerSteady` was stated with a filter on sequences; it now says of each row
  where it is.

Not proved, only model-checked: liveness (`CycleEnds`, `StopEnds`,
`ShutdownCompletes`, `SecondSignalEnds`, `Reconciles`, `KioskReturns`,
`Settles`), which needs `ENABLED`. Every safety property and every action
property of a passing run is the subject of a theorem; the properties of the two
runs that expect a violation are false.

## 5. Findings

Runs with `expect: violation`:

1. `fetcher_server_error`. `GetCheckoutsForEvent` looks at no status but 404. A
   5xx answer with a JSON body decodes to a page without data and without a next
   link; paging ends without an error and the horizon passes check-outs that
   were never seen. The comment on `errEventFetchError`
   (`internal/cmd/checkoutsfetcher/cmd.go:128-131`) promises the opposite.
2. `board_double_click`. A click in the open drawer re-renders its rows; the new
   markup has no `data-confirming`, so the guard is lost and a second click
   sends a second PATCH. `test-support/conformance/KNOWN-BEHAVIORS.md:24-25`
   promises one.

Also met while modelling, and consistent with the models, but without a run of
their own: with `stopCh` closed and the semaphore free the launching loop may
still launch a fetch (`cmd.go:614-622`, against the comment at `cmd.go:200-201`);
an old poll answer that happens to agree with a second click
drops its override (`checkouts.js:1144`, against `KNOWN-BEHAVIORS.md:73-74`); the
continuation of a PATCH may tick the box of another child's row, whose next
click then un-confirms it (`checkouts.js:790`); and children who become overdue
while the drawer is open are not added to it, although the comment at
`checkouts.js:391-392` says so.

The forced exit is not what its comments say. `shutdownGracePeriod`
(`cmd.go:38-41`), `cmd.go:200-202` and `forceExit` (`cmd.go:496-501`) describe a
drain that did not complete in the grace period, but `wg.Wait` (`cmd.go:649`) is
not interrupted when the timer fires, so `run` returns, and `forceExit` is called,
only after the drain, however long it takes. `GracefulDrain` is silent about that
outcome, so as not to certify it, and no run does: the forced exit can be reached
in `shutdown_fair`, always with no fetch in flight.

Likewise in administration: `locations.location_group_id` is a plain column, so a
PATCH of a location may name a group that is gone, or one deleted between the
counts and the delete (`location.go:140`); a child of such a location is neither
in a group nor unassigned on the board. A PUT of a window whose id was given to
another window after the look-up moves that one to its own event
(`event.go:322`; `event_test.go:489` expects the refusal that holds only for the
look-up), from where a PUT that looks it up there may move it on, so
`MovedOnlyByReuse` claims nothing of a window once moved; a PATCH of a location does the same to a row that got its id.
`DeleteEventWithDependents` also deletes check-ins of another event whose
location still carries this event's id. A location created by POST or upsert has
no event, and no sync adopts it: it is neither among those of the event nor
unknown. A check-in fetched again keeps its first `location_id`
(`checkin.go:235`). `GetLocationsForEvent` asks for one page
(`default_client.go:35`), so a sync of an event with more locations never adds
the rest, and deletes those of them it has.

And for guests: an emptied page steps back one page only, though the test names
it "steps back to the last non-empty page"; loads are not aborted, so a list asked for before a
mark may be drawn after it; page and total come from two reads and may not
agree, as in "Page 2 of 1"; text edited while a POST is under way is cleared by
its success; and every websocket connection writes the map `wsClients` without a
lock (`checkin.go:250`), though no page opens one.

## 6. Abstractions

- `CheckoutFetcher`: names, `fetched_at` and location groups are left out;
  refreshing the location map is one step; an event is not imported again after
  a delete (its row id could be reused: hazard at `db/structure.sql:29`); check
  windows are any subset of `Windowed` skipped in a cycle; a dropped check-out
  and a failed insert are both `unresolved`; one monotone clock is shared with
  Planning Center up to `Delay`; delete-old is not in this module. `MaxFailures`
  consecutive failures and more are one state: the backoff is constant by then.
- `CheckoutsBoard`: children are numbered oldest first and time is `BecomeLate`,
  `LeaveWindow` and `Lapse`, each of which may happen at any moment; the server
  answers a poll from one read; the search box and location groups are filters
  like hide-confirmed and are left out; so are the limit of 100 rows, flashing,
  focus and scroll position; `FirstClickHolds` counts clicks on rows whose box
  and label agree with what the page knows, and that the poll in flight, if any,
  does not agree with already. morphdom is external: it keeps a
  node for each position and takes off attributes the new markup lacks.
- `ManualCheckins`: a child's names are left out; `checkins_backfilled_at` is,
  too, for `CreateSubmission` always sets it; a `public_id` is always the
  server's, as the page sends none; a submission sent again by a kiosk that got
  no answer is another submission; a check-out is recent or old against the
  page's 12 hours, and delete-old takes the old or both; an expired session, the
  walk-in form and the sort order are left out; a PATCH that wrote its row but
  failed to read it back is a `PatchFails` after `WriteRow`.
- `Administration`: names, parents and the horizon are left out, and a group is
  its name; of the filters of a list, the ones on groups are modelled, and those
  on a check-in's own columns and limits are not; a request refused before it
  writes is no step; a SELECT that only makes up the answer after a write is
  folded into it; a sync's reads and writes
  each are one step, since the lock keeps every other write out; the locations
  of an event fit one page; the worker holds no more of the rows than it writes
  back; times of windows are `CheckWindows`'s.
- `GuestEntries`: what a family types is one value, not edited during its POST,
  and rows of the form are left out; an expired session leaves the page and is
  left out; the manual check-ins inserted with a submission are
  `ManualCheckins`'s; clicks and failures are bounded, `MaxLoads` bounds the
  lists under way at a time.
- `CheckWindows`: a day has four slots, an hour is one; each zone changes its
  clocks once; `ByWallClock` leaves out the repeated hour and windows that start
  or end in the skipped one, for which Go promises nothing; stored times are
  taken as parsed.

## 7. Not modelled, and the plan

1. **Proofs**: `ConfirmationKept` with overlapping PATCHes, for the rows they do
   not touch; the worker's promise of `CheckoutIngestion` up to the pages that were
   answered, with 5xx answers among them.
2. **The worker next to re-created events**: `CheckoutFetcher` with ids that come
   back, so that a fetch in flight may set the horizon of another event.
3. **Planning Center client**: its page loop by itself, and the cursor cache of
   the browsing pages.
4. **Later**: ETag answers of the check-ins list, the websocket, the board's
   location groups, starting and stopping the server.

Left out for good: metrics (read-only SQL), login and sessions (the framework's),
logging, database and server wiring (I/O), seed and development commands.
