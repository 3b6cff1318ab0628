--------------------------- MODULE CheckoutFetcher ---------------------------
(***************************************************************************)
(* The checkout-fetcher worker (internal/cmd/checkoutsfetcher/cmd.go)      *)
(* together with what it shares with the rest of the system: Planning      *)
(* Center, the events, locations and checkins tables, and the admin and    *)
(* board requests that write those tables while a fetch is in flight.      *)
(*                                                                         *)
(* Every SQL statement is one step, every HTTP exchange with Planning      *)
(* Center is one step, and everything a goroutine of the worker does       *)
(* between two of them is folded into the step before.  An event is named  *)
(* by its row in the events table; a check-out by its Planning Center id.  *)
(***************************************************************************)
EXTENDS Integers, FiniteSets

CONSTANTS
    Events,         \* rows of the events table
    Checkouts,      \* check-outs Planning Center will record
    Locations,      \* Planning Center locations
    LocationEvent,  \* the event a location belongs to
    LocationOf,     \* the location a check-out belongs to
    Stripe,         \* event id modulo eventMutexStripeCount
    Windowed,       \* events with check windows, when --use-check-windows is on
    Lookback,       \* CHECKOUT_FETCHER_LOOKBACK_TIME, as a positive length
    Slack,          \* the second getFilteredResults allows below the horizon
    Delay,          \* how late Planning Center may show a check-out
    UpdateInterval, \* --event-update-interval
    Interval,       \* --interval
    BackoffBase,    \* retryBackoffBase
    BackoffMax,     \* retryBackoffMax
    MaxWorkers,     \* capacity of the semaphore of eventCheckoutLoop
    Faults,         \* which failures the environment shows
    Requests,       \* which admin and board requests are issued
    MaxPatches,     \* bound: PATCH requests in flight at once
    MaxFailures,    \* bound: consecutive failures told apart
    MaxTime         \* bound: the last instant of the clock

FaultKinds == {"fetch", "http5xx", "create", "db", "crash", "expire", "stop"}
RequestKinds == {"patch", "delete", "sync", "confirm"}

ASSUME FetcherAssumption ==
    /\ LocationEvent \in [Locations -> Events]
    /\ LocationOf \in [Checkouts -> Locations]
    /\ Stripe \in [Events -> Nat]
    /\ Windowed \subseteq Events
    /\ {Lookback, Slack, Delay} \subseteq Nat
    /\ {UpdateInterval, Interval, BackoffBase, BackoffMax} \subseteq Nat \ {0}
    /\ {MaxWorkers, MaxFailures, MaxTime} \subseteq Nat \ {0}
    /\ MaxPatches \in Nat
    /\ Faults \subseteq FaultKinds
    /\ Requests \subseteq RequestKinds

(* The margin below the horizon covers Planning Center's own lateness.     *)
ASSUME DelayAssumption == Delay <= Slack

VARIABLES
    clock,          \* time.Now, as worker and Planning Center see it
    checkedOutAt,   \* Planning Center: 0 until the child is checked out
    event,          \* events: exists, auto_fetch, last_checked_out_time (0: NULL)
    locations,      \* locations
    stored,         \* checkins: the rows, by Planning Center id
    confirmed,      \* checkins: rows with checked_out_confirmed_at set
    patches,        \* PATCH /events/:id requests between their read and write
    up,             \* the worker process is alive
    expired,        \* its --runtime context is done
    stopping,       \* stopCh is closed: a shutdown signal arrived
    locationMap,    \* Service.locationIDMap
    retry,          \* Service.eventRetries (an absent entry is NoRetry)
    phase,          \* "cycle" inside eventCheckoutLoop, "sleep" between two
    cycleNow,       \* now, as read at the start of the cycle
    wakeAt,         \* when the timer of run fires
    fatal,          \* errs is not empty
    pc,             \* where the goroutine of an event is
    job             \* its local variables

pcVars == <<clock, checkedOutAt>>
tables == <<event, locations, stored, confirmed>>
process == <<up, expired, stopping>>
loop == <<phase, cycleNow, wakeAt>>
vars == <<clock, checkedOutAt, event, locations, stored, confirmed, patches, up,
          expired, stopping, locationMap, retry, phase, cycleNow, wakeAt, fatal, pc, job>>

-----------------------------------------------------------------------------

NoRetry == [failures |-> 0, until |-> 0]
NoJob == [since |-> 0, autoFetch |-> FALSE, left |-> {}, unresolved |-> {}]
NoRow == [exists |-> FALSE, autoFetch |-> FALSE, last |-> 0]

EventOf(c) == LocationEvent[LocationOf[c]]
Published == {c \in Checkouts : checkedOutAt[c] # 0}
Active == {e \in Events : event[e].exists /\ event[e].autoFetch}

(* UpdateEvent writes every column, last_checked_out_time unless it is zero. *)
UpdateEvent(row, autoFetch, last) ==
    [exists |-> row.exists, autoFetch |-> autoFetch,
     last |-> IF last = 0 THEN row.last ELSE last]

(* Doubling per consecutive failure, the shift capped at 8.                *)
Doublings == <<1, 2, 4, 8, 16, 32, 64, 128, 256>>
BackoffDelay(failures) ==
    LET doublings == IF failures > 9 THEN 9 ELSE failures
        delay == BackoffBase * Doublings[doublings]
    IN IF delay < BackoffMax THEN delay ELSE BackoffMax

(* Mutant of FailedOnceMore: the delay is subtracted.                      *)
FailedOnceMoreMutant(st) ==
    [failures |-> MaxFailures, until |-> cycleNow - BackoffDelay(MaxFailures)]

FailedOnceMore(st) ==
    LET failures == IF st.failures < MaxFailures THEN st.failures + 1 ELSE MaxFailures
    IN [failures |-> failures, until |-> cycleNow + BackoffDelay(failures)]

RecordRetryFailure(e) == retry' = [retry EXCEPT ![e] = FailedOnceMore(@)]
ResetRetryState(e) == retry' = [retry EXCEPT ![e] = NoRetry]

Init ==
    /\ clock = 1
    /\ checkedOutAt = [c \in Checkouts |-> 0]
    /\ event = [e \in Events |-> [exists |-> TRUE, autoFetch |-> TRUE, last |-> 0]]
    /\ locations \in SUBSET Locations
    /\ stored = {} /\ confirmed = {} /\ patches = {}
    /\ up = TRUE
    /\ expired = FALSE /\ stopping = FALSE
    /\ locationMap = locations
    /\ retry = [e \in Events |-> NoRetry]
    /\ phase = "sleep" /\ cycleNow = 0 /\ wakeAt = 0 /\ fatal = FALSE
    /\ pc = [e \in Events |-> "idle"]
    /\ job = [e \in Events |-> NoJob]

-----------------------------------------------------------------------------
(* Time and Planning Center.                                               *)

Tick ==
    /\ clock < MaxTime
    /\ clock' = clock + 1
    /\ UNCHANGED <<checkedOutAt, tables, patches, process, locationMap, retry,
                   loop, fatal, pc, job>>

(* A child is checked out: the record appears at most Delay after the time *)
(* it carries.                                                             *)
CheckOut(c) ==
    /\ checkedOutAt[c] = 0
    /\ \E t \in 1..clock :
        /\ t >= clock - Delay
        /\ checkedOutAt' = [checkedOutAt EXCEPT ![c] = t]
    /\ UNCHANGED <<clock, tables, patches, process, locationMap, retry, loop,
                   fatal, pc, job>>

-----------------------------------------------------------------------------
(* The worker process.                                                     *)

(* All of the worker's memory goes with the process.                       *)
Die ==
    /\ up' = FALSE
    /\ expired' = FALSE /\ stopping' = FALSE
    /\ locationMap' = {}
    /\ retry' = [e \in Events |-> NoRetry]
    /\ phase' = "sleep"
    /\ fatal' = FALSE
    /\ pc' = [e \in Events |-> "idle"]
    /\ job' = [e \in Events |-> NoJob]
    /\ UNCHANGED <<cycleNow, wakeAt>>

Crash ==
    /\ "crash" \in Faults
    /\ up
    /\ Die
    /\ UNCHANGED <<pcVars, tables, patches>>

(* FetchCheckouts, up to the call of run.                                  *)
Restart ==
    /\ ~up
    /\ up' = TRUE
    /\ locationMap' = locations
    /\ wakeAt' = clock
    /\ UNCHANGED <<pcVars, tables, patches, expired, stopping, retry, phase, cycleNow,
                   fatal, pc, job>>

(* The --runtime deadline of a worker that is not run as a service.        *)
Expire ==
    /\ "expire" \in Faults
    /\ up /\ ~expired
    /\ expired' = TRUE
    /\ UNCHANGED <<pcVars, tables, patches, up, stopping, locationMap, retry, loop, fatal,
                   pc, job>>

(* SIGINT or SIGTERM: runSignalLoop closes stopCh.                         *)
Stop ==
    /\ "stop" \in Faults
    /\ up /\ ~stopping
    /\ stopping' = TRUE
    /\ UNCHANGED <<pcVars, tables, patches, up, expired, locationMap, retry, loop, fatal,
                   pc, job>>

(* One turn of refreshLocationMapLoop: mark and sweep.                     *)
RefreshLocationMap ==
    /\ up /\ ~expired /\ ~stopping
    /\ locationMap # locations
    /\ locationMap' = locations
    /\ UNCHANGED <<pcVars, tables, patches, process, retry, loop, fatal, pc, job>>

-----------------------------------------------------------------------------
(* One cycle: run and eventCheckoutLoop.                                   *)

Due(e) == event[e].last = 0 \/ clock - event[e].last >= UpdateInterval

(* Retry state of events that are no longer auto-fetched.                  *)
PruneRetryStates == [e \in Events |-> IF e \in Active THEN retry[e] ELSE NoRetry]

(* Mutant of InRetryBackoff: still backed off at the instant it ends.      *)
InRetryBackoffMutant(e) == PruneRetryStates[e].until >= clock

InRetryBackoff(e) == PruneRetryStates[e].until > clock

(* List the events and select those to update.  outside are the events     *)
(* whose check windows do not cover this instant.                          *)
BeginCycle ==
    /\ up /\ ~expired /\ ~stopping /\ phase = "sleep" /\ clock >= wakeAt
    /\ \E outside \in SUBSET Windowed :
        pc' = [e \in Events |->
                 IF e \in Active \ outside /\ Due(e) /\ ~InRetryBackoff(e)
                 THEN "selected" ELSE "idle"]
    /\ retry' = PruneRetryStates
    /\ phase' = "cycle"
    /\ cycleNow' = clock
    /\ UNCHANGED <<pcVars, tables, patches, process, locationMap, wakeAt, fatal, job>>

(* ListEvents or ListCheckWindows fails: run returns the error.            *)
ListFails ==
    /\ "db" \in Faults
    /\ up /\ phase = "sleep" /\ clock >= wakeAt
    /\ Die
    /\ UNCHANGED <<pcVars, tables, patches>>

(* run is woken by the end of its context or by stopCh, and returns.       *)
LeaveRun ==
    /\ up /\ phase = "sleep"
    /\ expired \/ stopping
    /\ Die
    /\ UNCHANGED <<pcVars, tables, patches>>

InFlight == {e \in Events : pc[e] \in {"launched", "fetching", "storing"}}

(* The semaphore admits the goroutine of an event.                         *)
Launch(e) ==
    /\ pc[e] = "selected"
    /\ Cardinality(InFlight) < MaxWorkers
    /\ pc' = [pc EXCEPT ![e] = "launched"]
    /\ UNCHANGED <<pcVars, tables, patches, process, locationMap, retry, loop,
                   fatal, job>>

(* The launching loop is left at the end of the context or at a shutdown:   *)
(* the events still to be launched wait for another cycle.                 *)
LeaveLaunching ==
    /\ \E e \in Events : pc[e] = "selected"
    /\ pc' = [e \in Events |-> IF pc[e] = "selected" THEN "idle" ELSE pc[e]]
    /\ \/ expired /\ fatal' = TRUE
       \/ stopping /\ UNCHANGED fatal
    /\ UNCHANGED <<pcVars, tables, patches, process, locationMap, retry, loop, job>>

(* wg.Wait returns.  A fatal error ends the process; otherwise the timer   *)
(* is armed for the rest of the interval, or for half of it when the cycle *)
(* took longer.                                                            *)
EndCycle ==
    /\ phase = "cycle"
    /\ \A e \in Events : pc[e] = "idle"
    /\ IF fatal \/ expired \/ stopping
       THEN Die
       ELSE /\ phase' = "sleep"
            /\ wakeAt' = LET rest == cycleNow + Interval - clock
                         IN clock + IF rest > 0 THEN rest ELSE Interval \div 2
            /\ UNCHANGED <<process, locationMap, retry, cycleNow, fatal, pc, job>>
    /\ UNCHANGED <<pcVars, tables, patches>>

-----------------------------------------------------------------------------
(* One goroutine: processEventCheckouts.                                   *)

(* The goroutine returns: mutex and semaphore are released.                *)
Return(e) ==
    /\ pc' = [pc EXCEPT ![e] = "idle"]
    /\ job' = [job EXCEPT ![e] = NoJob]

(* Mutant of HoldsStripeOf: a goroutine that waits already holds the stripe. *)
HoldsStripeOfMutant(f, e) == Stripe[f] = Stripe[e] /\ pc[f] # "idle"

HoldsStripeOf(f, e) == Stripe[f] = Stripe[e] /\ pc[f] \in {"fetching", "storing"}

(* Mutant of LoadEvent: always ask for the whole lookback window.          *)
LoadEventMutant(e) ==
    /\ pc[e] = "launched"
    /\ \A f \in Events \ {e} : ~HoldsStripeOf(f, e)
    /\ event[e].exists /\ ~expired
    /\ job' = [job EXCEPT ![e].since = cycleNow - Lookback,
                         ![e].autoFetch = event[e].autoFetch]
    /\ pc' = [pc EXCEPT ![e] = "fetching"]
    /\ UNCHANGED <<pcVars, tables, patches, process, locationMap, retry, loop, fatal>>

(* Lock the stripe and re-read the event.                                  *)
LoadEvent(e) ==
    /\ pc[e] = "launched"
    /\ \A f \in Events \ {e} : ~HoldsStripeOf(f, e)
    /\ event[e].exists /\ ~expired
    /\ LET floor == cycleNow - Lookback
           since == IF event[e].last < floor THEN floor ELSE event[e].last
       IN job' = [job EXCEPT ![e] = [since |-> since, autoFetch |-> event[e].autoFetch,
                                     left |-> {}, unresolved |-> {}]]
    /\ pc' = [pc EXCEPT ![e] = "fetching"]
    /\ UNCHANGED <<pcVars, tables, patches, process, locationMap, retry, loop, fatal>>

(* The event is gone, or the read failed: an error the loop treats as fatal. *)
LoadEventFails(e) ==
    /\ pc[e] = "launched"
    /\ \A f \in Events \ {e} : ~HoldsStripeOf(f, e)
    /\ ~event[e].exists \/ expired \/ "db" \in Faults
    /\ fatal' = TRUE
    /\ Return(e)
    /\ UNCHANGED <<pcVars, tables, patches, process, locationMap, retry, loop>>

(* What GetCheckoutsForEvent asks for: newest first, down to a second      *)
(* before since.                                                           *)
InRange(e) ==
    {c \in Published : EventOf(c) = e /\ checkedOutAt[c] >= job[e].since - Slack}

Newest(batch, all) ==
    batch \subseteq all
    /\ \A c \in batch, d \in all \ batch : checkedOutAt[c] >= checkedOutAt[d]

Fetched(e, batch) ==
    /\ job' = [job EXCEPT ![e].left = batch]
    /\ pc' = [pc EXCEPT ![e] = "storing"]
    /\ UNCHANGED <<pcVars, tables, patches, process, locationMap, retry, loop, fatal>>

Fetch(e) ==
    /\ pc[e] = "fetching" /\ ~expired
    /\ Fetched(e, InRange(e))

(* The client stops paging and returns what it has, without an error, when *)
(* the context is done.                                                    *)
FetchCutShort(e) ==
    /\ pc[e] = "fetching" /\ expired
    /\ \E batch \in SUBSET InRange(e) : Newest(batch, InRange(e)) /\ Fetched(e, batch)

(* A page answered with a server error: the status is not looked at, the   *)
(* body has no data and no next link, and paging ends without an error.    *)
FetchServerError(e) ==
    /\ "http5xx" \in Faults
    /\ pc[e] = "fetching" /\ ~expired
    /\ \E batch \in SUBSET InRange(e) : Newest(batch, InRange(e)) /\ Fetched(e, batch)

(* Mutant of FetchFails: the error is not recognised as the event's own.   *)
FetchFailsMutant(e) ==
    /\ "fetch" \in Faults \/ expired
    /\ pc[e] = "fetching"
    /\ RecordRetryFailure(e)
    /\ fatal' = TRUE
    /\ Return(e)
    /\ UNCHANGED <<pcVars, tables, patches, process, locationMap, loop>>

(* A timeout, the page limit or a transport error.                         *)
FetchFails(e) ==
    /\ "fetch" \in Faults \/ expired
    /\ pc[e] = "fetching"
    /\ RecordRetryFailure(e)
    /\ Return(e)
    /\ UNCHANGED <<pcVars, tables, patches, process, locationMap, loop, fatal>>

(* CreateCheckin: an upsert that clears the confirmation of a row it meets. *)
StoreCheckin(e, c) ==
    /\ pc[e] = "storing" /\ c \in job[e].left
    /\ LocationOf[c] \in locationMap /\ ~expired
    /\ stored' = stored \cup {c}
    /\ confirmed' = confirmed \ {c}
    /\ job' = [job EXCEPT ![e].left = @ \ {c}]
    /\ UNCHANGED <<pcVars, event, locations, patches, process, locationMap, retry,
                   loop, fatal, pc>>

(* The location is not in the map, or the insert fails.                    *)
LeaveUnresolved(e, c) ==
    /\ pc[e] = "storing" /\ c \in job[e].left
    /\ LocationOf[c] \notin locationMap \/ expired \/ "create" \in Faults
    /\ job' = [job EXCEPT ![e].left = @ \ {c}, ![e].unresolved = @ \cup {c}]
    /\ UNCHANGED <<pcVars, tables, patches, process, locationMap, retry, loop,
                   fatal, pc>>

(* Some check-outs were dropped or not created: the horizon stays.         *)
GiveUp(e) ==
    /\ pc[e] = "storing" /\ job[e].left = {} /\ job[e].unresolved # {}
    /\ RecordRetryFailure(e)
    /\ Return(e)
    /\ UNCHANGED <<pcVars, tables, patches, process, locationMap, loop, fatal>>

(* Mutant of Advance: dropped check-outs do not hold the horizon back.     *)
AdvanceMutantDropped(e) ==
    /\ pc[e] = "storing" /\ job[e].left = {}
    /\ event[e].exists /\ ~expired
    /\ event' = [event EXCEPT ![e] = UpdateEvent(@, job[e].autoFetch, cycleNow)]
    /\ ResetRetryState(e)
    /\ Return(e)
    /\ UNCHANGED <<pcVars, locations, stored, confirmed, patches, process,
                   locationMap, loop, fatal>>

(* Mutant of Advance: a client that returned early, its context done, is    *)
(* taken at its word.                                                      *)
AdvanceMutantExpired(e) ==
    /\ pc[e] = "storing" /\ job[e].left = {} /\ job[e].unresolved = {}
    /\ event[e].exists
    /\ event' = [event EXCEPT ![e] = UpdateEvent(@, job[e].autoFetch, cycleNow)]
    /\ ResetRetryState(e)
    /\ Return(e)
    /\ UNCHANGED <<pcVars, locations, stored, confirmed, patches, process,
                   locationMap, loop, fatal>>

(* Mutant of Advance: the horizon is the time the work ended.              *)
AdvanceMutantStamp(e) ==
    /\ pc[e] = "storing" /\ job[e].left = {} /\ job[e].unresolved = {}
    /\ event[e].exists /\ ~expired
    /\ event' = [event EXCEPT ![e] = UpdateEvent(@, job[e].autoFetch, clock)]
    /\ ResetRetryState(e)
    /\ Return(e)
    /\ UNCHANGED <<pcVars, locations, stored, confirmed, patches, process,
                   locationMap, loop, fatal>>

(* UpdateEvent writes the horizon, and every other column back as read.    *)
Advance(e) ==
    /\ pc[e] = "storing" /\ job[e].left = {} /\ job[e].unresolved = {}
    /\ event[e].exists /\ ~expired
    /\ event' = [event EXCEPT ![e] = UpdateEvent(@, job[e].autoFetch, cycleNow)]
    /\ ResetRetryState(e)
    /\ Return(e)
    /\ UNCHANGED <<pcVars, locations, stored, confirmed, patches, process,
                   locationMap, loop, fatal>>

AdvanceFails(e) ==
    /\ pc[e] = "storing" /\ job[e].left = {} /\ job[e].unresolved = {}
    /\ ~event[e].exists \/ expired \/ "db" \in Faults
    /\ fatal' = TRUE
    /\ Return(e)
    /\ UNCHANGED <<pcVars, tables, patches, process, locationMap, retry, loop>>

-----------------------------------------------------------------------------
(* The API server, on the same database.                                   *)

workerVars == <<process, locationMap, retry, phase, cycleNow, wakeAt, fatal, pc, job>>

(* PatchUpdateEvent reads the event, changes auto_fetch (or the location   *)
(* group, not modelled) and later writes the whole row back.               *)
PatchRead(e) ==
    /\ "patch" \in Requests
    /\ event[e].exists
    /\ Cardinality(patches) < MaxPatches
    /\ \E autoFetch \in BOOLEAN :
        patches' = patches \cup
            {[event |-> e, autoFetch |-> autoFetch, last |-> event[e].last]}
    /\ UNCHANGED <<pcVars, tables, workerVars>>

PatchWrite(p) ==
    /\ p \in patches
    /\ patches' = patches \ {p}
    /\ event' = IF event[p.event].exists
                THEN [event EXCEPT ![p.event] = UpdateEvent(@, p.autoFetch, p.last)]
                ELSE event
    /\ UNCHANGED <<pcVars, locations, stored, confirmed, workerVars>>

(* DeleteEventWithDependents, one transaction.                             *)
DeleteEvent(e) ==
    /\ "delete" \in Requests
    /\ event[e].exists
    /\ event' = [event EXCEPT ![e] = NoRow]
    /\ locations' = {l \in locations : LocationEvent[l] # e}
    /\ stored' = {c \in stored : EventOf(c) # e}
    /\ confirmed' = {c \in confirmed : EventOf(c) # e}
    /\ UNCHANGED <<pcVars, patches, workerVars>>

(* CreateEventWithLocations on a known event: its locations become those   *)
(* Planning Center lists.                                                  *)
SyncLocations(e) ==
    /\ "sync" \in Requests
    /\ event[e].exists
    /\ \E listed \in SUBSET {l \in Locations : LocationEvent[l] = e} :
        locations' = {l \in locations : LocationEvent[l] # e} \cup listed
    /\ UNCHANGED <<pcVars, event, stored, confirmed, patches, workerVars>>

(* PatchCheckedOutConfirmed: SetCheckedOutConfirmedAt both ways.           *)
SetConfirmed(c) ==
    /\ "confirm" \in Requests
    /\ c \in stored
    /\ \/ confirmed' = confirmed \cup {c}
       \/ confirmed' = confirmed \ {c}
    /\ UNCHANGED <<pcVars, event, locations, stored, patches, workerVars>>

-----------------------------------------------------------------------------

JobStep(e) ==
    \/ Launch(e) \/ LoadEvent(e) \/ LoadEventFails(e)
    \/ Fetch(e) \/ FetchCutShort(e) \/ FetchServerError(e) \/ FetchFails(e)
    \/ \E c \in Checkouts : StoreCheckin(e, c) \/ LeaveUnresolved(e, c)
    \/ GiveUp(e) \/ Advance(e) \/ AdvanceFails(e)

WorkerStep ==
    \/ BeginCycle \/ ListFails \/ LeaveRun \/ LeaveLaunching \/ EndCycle
    \/ \E e \in Events : JobStep(e)

RequestStep ==
    \/ \E e \in Events : PatchRead(e) \/ DeleteEvent(e) \/ SyncLocations(e)
    \/ \E p \in patches : PatchWrite(p)
    \/ \E c \in Checkouts : SetConfirmed(c)

Next ==
    \/ Tick
    \/ \E c \in Checkouts : CheckOut(c)
    \/ Crash \/ Restart \/ Expire \/ Stop \/ RefreshLocationMap
    \/ WorkerStep
    \/ RequestStep

Spec == Init /\ [][Next]_vars

(* The Go scheduler runs every goroutine, a request to Planning Center     *)
(* ends by its HTTP timeout, and a cycle asks for each stripe a bounded    *)
(* number of times, so a goroutine waiting for one gets it.                *)
FairSpec ==
    /\ Spec
    /\ WF_vars(EndCycle) /\ WF_vars(LeaveRun)
    /\ \A e \in Events : WF_vars(Launch(e))
    /\ \A e \in Events : WF_vars(LoadEvent(e) \/ LoadEventFails(e))
    /\ \A e \in Events : WF_vars(Fetch(e) \/ FetchCutShort(e))
    /\ \A e \in Events : WF_vars(\E c \in Checkouts : StoreCheckin(e, c) \/ LeaveUnresolved(e, c))
    /\ \A e \in Events : WF_vars(GiveUp(e) \/ Advance(e) \/ AdvanceFails(e))

-----------------------------------------------------------------------------
(* Properties.                                                             *)

Row == [exists : BOOLEAN, autoFetch : BOOLEAN, last : Nat]
Retry == [failures : Nat, until : Nat]
Job == [since : Int, autoFetch : BOOLEAN, left : SUBSET Checkouts,
        unresolved : SUBSET Checkouts]
Patch == [event : Events, autoFetch : BOOLEAN, last : Nat]

(* Every variable holds values of its type.                                *)
TypeOK ==
    /\ clock \in Nat
    /\ checkedOutAt \in [Checkouts -> Nat]
    /\ event \in [Events -> Row]
    /\ locations \subseteq Locations
    /\ stored \subseteq Checkouts
    /\ confirmed \subseteq stored
    /\ patches \subseteq Patch
    /\ up \in BOOLEAN
    /\ expired \in BOOLEAN /\ stopping \in BOOLEAN
    /\ locationMap \subseteq Locations
    /\ retry \in [Events -> Retry]
    /\ phase \in {"sleep", "cycle"}
    /\ cycleNow \in Nat
    /\ wakeAt \in Nat
    /\ fatal \in BOOLEAN
    /\ pc \in [Events -> {"idle", "selected", "launched", "fetching", "storing"}]
    /\ job \in [Events -> Job]

(* A check-out is behind a horizon h when the worker, asking for check-outs *)
(* since h, will not be shown it, although it was inside the lookback       *)
(* window when the horizon was set.                                         *)
Behind(c, h) ==
    checkedOutAt[c] < h - Slack /\ checkedOutAt[c] >= h - Lookback - Slack

Missing(c) == c \in Published /\ c \notin stored

(* The worker never moves last_checked_out_time past a check-out it did not *)
(* store: whatever fails, is dropped, races with a PATCH, or dies half-way, *)
(* a check-out of an existing event that was within the lookback window is  *)
(* either a row of checkins or still ahead of the horizon, to be fetched    *)
(* again (cmd.go, processEventCheckouts: what advancing too early loses is  *)
(* never re-read).                                                          *)
NoCheckoutLost ==
    \A c \in Checkouts :
        event[EventOf(c)].exists /\ Missing(c) => ~Behind(c, event[EventOf(c)].last)

(* An operator's confirmation of a check-out is undone by the worker only   *)
(* while the check-out is not older than the event's horizon, less the      *)
(* client's second: a row the worker has moved past keeps its confirmation  *)
(* (CreateCheckin clears it on every re-fetch).                             *)
ConfirmationKept ==
    [][\A c \in confirmed :
        c \notin confirmed' /\ c \in stored' /\ (\E e \in Events : job'[e] # job[e])
        => checkedOutAt[c] >= event[EventOf(c)].last - Slack]_vars

Ingestion == INSTANCE CheckoutIngestion WITH
    Owner <- [c \in Checkouts |-> EventOf(c)],
    publishedAt <- checkedOutAt,
    ingested <- stored,
    horizon <- [e \in Events |-> event[e].last],
    live <- {e \in Events : event[e].exists}

(* The worker, with every failure it meets and every request it races with, *)
(* implements the promise of CheckoutIngestion: each of its steps publishes, *)
(* ingests, moves a horizon that leaves nothing behind, removes an event,   *)
(* or changes none of these.                                                *)
ImplementsIngestion == Ingestion!Spec

(* A fetch that fails, a dropped check-out or an insert that fails never    *)
(* takes the worker down: only a database error, the end of its run time, a *)
(* deleted event or a kill does (the comments on errEventTimeout,           *)
(* errEventFetchError and errEventDropped: non-fatal for the loop).         *)
FetchFailuresAreNotFatal ==
    Faults \cap {"db", "crash", "expire", "stop"} = {} /\ "delete" \notin Requests => up

(* Every cycle comes to an end, whatever the events share and however their *)
(* fetches end: no goroutine keeps its stripe or its place in the semaphore. *)
CycleEnds == (phase = "cycle") ~> (phase = "sleep")

(* A shutdown signal is obeyed even in the middle of a cycle: the process   *)
(* ends, its fetches drained, although nothing cancels their context.      *)
StopEnds == stopping ~> ~up
=============================================================================
