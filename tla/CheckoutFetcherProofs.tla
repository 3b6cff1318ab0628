------------------------ MODULE CheckoutFetcherProofs ------------------------
(***************************************************************************)
(* Theorems about CheckoutFetcher, for every value of its constants: its   *)
(* types, that it loses no check-out and implements CheckoutIngestion, and *)
(* what it leaves alone, which is itself when a fetch fails, and the       *)
(* confirmations that operators gave.                                      *)
(***************************************************************************)
EXTENDS CheckoutFetcher, FiniteSetTheorems, TLAPS

USE DEF pcVars, tables, process, loop, workerVars

-----------------------------------------------------------------------------
(* Types.                                                                  *)

LEMMA BackoffDelayType ==
    ASSUME NEW n \in Nat \ {0} PROVE BackoffDelay(n) \in Nat
<1>1. BackoffBase \in Nat /\ BackoffMax \in Nat
  BY FetcherAssumption
<1> DEFINE k == IF n > 9 THEN 9 ELSE n
<1>2. k \in 1..9
  OBVIOUS
<1>3. Doublings[k] \in Nat
  BY <1>2 DEF Doublings
<1>4. BackoffBase * Doublings[k] \in Nat
  BY <1>1, <1>3
<1> QED
  BY <1>1, <1>4 DEF BackoffDelay

LEMMA FailedOnceMoreType ==
    ASSUME NEW st \in Retry, cycleNow \in Nat PROVE FailedOnceMore(st) \in Retry
<1> DEFINE n == IF st.failures < MaxFailures THEN st.failures + 1 ELSE MaxFailures
<1>1. n \in Nat \ {0}
  BY FetcherAssumption DEF Retry
<1>2. BackoffDelay(n) \in Nat
  BY <1>1, BackoffDelayType
<1> QED
  BY <1>1, <1>2 DEF FailedOnceMore, Retry

LEMMA EventOfType == ASSUME NEW c \in Checkouts PROVE EventOf(c) \in Events
  BY FetcherAssumption DEF EventOf

LEMMA UpdateEventType ==
    ASSUME NEW row \in Row, NEW autoFetch \in BOOLEAN, NEW last \in Nat
    PROVE  UpdateEvent(row, autoFetch, last) \in Row
  BY DEF UpdateEvent, Row

LEMMA TypesOfAbsent == NoRetry \in Retry /\ NoJob \in Job /\ NoRow \in Row
  BY DEF NoRetry, NoJob, NoRow, Retry, Job, Row

LEMMA InitTypeOK == Init => TypeOK
<1> SUFFICES ASSUME Init PROVE TypeOK
  OBVIOUS
<1>1. [exists |-> TRUE, autoFetch |-> TRUE, last |-> 0] \in Row
  BY DEF Row
<1>2. event \in [Events -> Row]
  BY <1>1 DEF Init
<1>3. retry \in [Events -> Retry] /\ job \in [Events -> Job]
  BY TypesOfAbsent DEF Init
<1>4. checkedOutAt \in [Checkouts -> Nat]
  BY DEF Init
<1>5. pc \in [Events -> {"idle", "selected", "launched", "fetching", "storing"}]
  BY DEF Init
<1> QED
  BY <1>2, <1>3, <1>4, <1>5 DEF Init, TypeOK

(* Die is the end of LeaveRun, EndCycle and Crash.                         *)
LEMMA DieTypeOK == ASSUME TypeOK, Die, UNCHANGED <<pcVars, tables, patches>> PROVE TypeOK'
  BY TypesOfAbsent DEF TypeOK, Die

LEMMA JobStepTypeOK == ASSUME TypeOK, NEW e \in Events, JobStep(e) PROVE TypeOK'
<1> USE TypesOfAbsent
<1>r. FailedOnceMore(retry[e]) \in Retry
  BY FailedOnceMoreType DEF TypeOK
<1>1. CASE Launch(e)
  BY <1>1 DEF TypeOK, Launch
<1>2. CASE LoadEvent(e)
  <2> DEFINE since == IF event[e].last < cycleNow - Lookback
                      THEN cycleNow - Lookback ELSE event[e].last
  <2>1. since \in Int
    BY FetcherAssumption DEF TypeOK, Row
  <2>2. event[e].autoFetch \in BOOLEAN
    BY DEF TypeOK, Row
  <2> HIDE DEF since
  <2>3. [since |-> since, autoFetch |-> event[e].autoFetch, left |-> {},
         unresolved |-> {}] \in Job
    BY <2>1, <2>2 DEF Job
  <2> QED
    BY <1>2, <2>3 DEF TypeOK, LoadEvent, since
<1>3. CASE LoadEventFails(e)
  BY <1>3 DEF TypeOK, LoadEventFails, Return
<1>4. CASE Fetch(e) \/ FetchCutShort(e) \/ FetchServerError(e)
  <2>1. PICK batch \in SUBSET Checkouts : Fetched(e, batch)
    BY <1>4 DEF Fetch, FetchCutShort, FetchServerError, InRange, Published
  <2>2. [job[e] EXCEPT !.left = batch] \in Job
    BY DEF TypeOK, Job
  <2> QED
    BY <2>1, <2>2 DEF TypeOK, Fetched
<1>5. CASE FetchFails(e)
  BY <1>5, <1>r DEF TypeOK, FetchFails, RecordRetryFailure, Return
<1>6. ASSUME NEW c \in Checkouts, StoreCheckin(e, c) PROVE TypeOK'
  <2>1. [job[e] EXCEPT !.left = @ \ {c}] \in Job
    BY DEF TypeOK, Job
  <2> QED
    BY <1>6, <2>1 DEF TypeOK, StoreCheckin
<1>7. ASSUME NEW c \in Checkouts, LeaveUnresolved(e, c) PROVE TypeOK'
  <2>1. [job[e] EXCEPT !.left = @ \ {c}, !.unresolved = @ \cup {c}] \in Job
    BY DEF TypeOK, Job
  <2> QED
    BY <1>7, <2>1 DEF TypeOK, LeaveUnresolved
<1>8. CASE GiveUp(e)
  BY <1>8, <1>r DEF TypeOK, GiveUp, RecordRetryFailure, Return
<1>9. CASE Advance(e)
  <2>1. UpdateEvent(event[e], job[e].autoFetch, cycleNow) \in Row
    BY UpdateEventType DEF TypeOK, Job
  <2> QED
    BY <1>9, <2>1 DEF TypeOK, Advance, ResetRetryState, Return
<1>10. CASE AdvanceFails(e)
  BY <1>10 DEF TypeOK, AdvanceFails, Return
<1> QED
  BY <1>1, <1>2, <1>3, <1>4, <1>5, <1>6, <1>7, <1>8, <1>9, <1>10 DEF JobStep

LEMMA WorkerStepTypeOK == ASSUME TypeOK, WorkerStep PROVE TypeOK'
<1>1. CASE BeginCycle
  BY <1>1, TypesOfAbsent DEF TypeOK, BeginCycle, PruneRetryStates
<1>2. CASE LeaveRun \/ ListFails
  BY <1>2, DieTypeOK DEF LeaveRun, ListFails
<1>3. CASE EndCycle
  <2>1. CASE fatal \/ expired \/ stopping
    BY <1>3, <2>1, DieTypeOK DEF EndCycle
  <2>2. CASE ~(fatal \/ expired \/ stopping)
    <3> DEFINE rest == cycleNow + Interval - clock
    <3>1. clock + (IF rest > 0 THEN rest ELSE Interval \div 2) \in Nat
      BY FetcherAssumption DEF TypeOK
    <3> QED
      BY <1>3, <2>2, <3>1 DEF TypeOK, EndCycle
  <2> QED
    BY <2>1, <2>2
<1>4. CASE LeaveLaunching
  BY <1>4 DEF TypeOK, LeaveLaunching
<1> QED
  BY <1>1, <1>2, <1>3, <1>4, JobStepTypeOK DEF WorkerStep

LEMMA RequestStepTypeOK == ASSUME TypeOK, RequestStep PROVE TypeOK'
<1>1. ASSUME NEW e \in Events, PatchRead(e) PROVE TypeOK'
  BY <1>1 DEF TypeOK, PatchRead, Patch, Row
<1>2. ASSUME NEW e \in Events, DeleteEvent(e) PROVE TypeOK'
  BY <1>2, TypesOfAbsent DEF TypeOK, DeleteEvent
<1>3. ASSUME NEW e \in Events, SyncLocations(e) PROVE TypeOK'
  BY <1>3 DEF TypeOK, SyncLocations
<1>4. ASSUME NEW p \in patches, PatchWrite(p) PROVE TypeOK'
  <2>1. p \in Patch
    BY DEF TypeOK
  <2>2. UpdateEvent(event[p.event], p.autoFetch, p.last) \in Row
    BY <2>1, UpdateEventType DEF TypeOK, Patch
  <2>3. event' \in [Events -> Row]
    BY <1>4, <2>1, <2>2 DEF TypeOK, PatchWrite, Patch
  <2> QED
    BY <1>4, <2>3 DEF TypeOK, PatchWrite
<1>5. ASSUME NEW c \in Checkouts, SetConfirmed(c) PROVE TypeOK'
  BY <1>5 DEF TypeOK, SetConfirmed
<1> QED
  BY <1>1, <1>2, <1>3, <1>4, <1>5 DEF RequestStep

LEMMA StepTypeOK == ASSUME TypeOK, [Next]_vars PROVE TypeOK'
<1>1. CASE Tick
  BY <1>1 DEF TypeOK, Tick
<1>2. ASSUME NEW c \in Checkouts, CheckOut(c) PROVE TypeOK'
  BY <1>2 DEF TypeOK, CheckOut
<1>3. CASE Crash
  BY <1>3, DieTypeOK DEF Crash
<1>4. CASE Restart
  BY <1>4 DEF TypeOK, Restart
<1>5. CASE Expire \/ Stop
  BY <1>5 DEF TypeOK, Expire, Stop
<1>6. CASE RefreshLocationMap
  BY <1>6 DEF TypeOK, RefreshLocationMap
<1>7. CASE UNCHANGED vars
  BY <1>7 DEF TypeOK, vars
<1> QED
  BY <1>1, <1>2, <1>3, <1>4, <1>5, <1>6, <1>7, WorkerStepTypeOK, RequestStepTypeOK
  DEF Next

(* Every variable keeps its type: the backoff of a failing event, the      *)
(* timer of the loop and the horizon written by a PATCH are never          *)
(* negative.                                                               *)
THEOREM TypeCorrect == Spec => []TypeOK
<1>1. Init => TypeOK
  BY InitTypeOK
<1>2. TypeOK /\ [Next]_vars => TypeOK'
  BY StepTypeOK
<1> QED
  BY <1>1, <1>2, PTL DEF Spec

-----------------------------------------------------------------------------
(* No check-out is lost.                                                   *)

(* Horizons, in the table or in a PATCH in flight, are starts of cycles.   *)
HorizonsPast ==
    /\ cycleNow <= clock
    /\ \A e \in Events : event[e].last <= cycleNow
    /\ \A p \in patches : p.last <= cycleNow

(* A horizon that a PATCH read leaves nothing behind when it is written back. *)
PatchesSafe ==
    \A p \in patches, c \in Checkouts :
        event[p.event].exists /\ EventOf(c) = p.event /\ Missing(c) => ~Behind(c, p.last)

GivenUp(c) == checkedOutAt[c] < cycleNow - Lookback - Slack

(* While a goroutine is between reading the event and fetching, what is    *)
(* missing is in the range it will ask for; from then on, what is missing  *)
(* is still in its hands, or newer than the start of the cycle.            *)
JobSafe(e, c) ==
    /\ pc[e] = "fetching" =>
        /\ job[e].since <= cycleNow
        /\ Missing(c) => GivenUp(c) \/ checkedOutAt[c] >= job[e].since - Slack
    /\ pc[e] = "storing" /\ Missing(c) =>
        \/ c \in job[e].left \cup job[e].unresolved
        \/ GivenUp(c)
        \/ checkedOutAt[c] >= cycleNow - Slack

JobsSafe ==
    ~expired => \A c \in Checkouts : event[EventOf(c)].exists => JobSafe(EventOf(c), c)

FetcherInv == TypeOK /\ HorizonsPast /\ PatchesSafe /\ JobsSafe /\ NoCheckoutLost

Horizons == HorizonsPast /\ PatchesSafe /\ NoCheckoutLost

LEMMA ConstantTypes == Lookback \in Nat /\ Slack \in Nat /\ Delay \in Nat
  BY FetcherAssumption

LEMMA InitFetcherInv == Init => FetcherInv
<1> SUFFICES ASSUME Init PROVE FetcherInv
  OBVIOUS
<1>1. TypeOK
  BY InitTypeOK
<1>2. HorizonsPast /\ PatchesSafe
  BY DEF Init, HorizonsPast, PatchesSafe
<1>3. \A c \in Checkouts : ~Missing(c)
  BY DEF Init, Missing, Published
<1>4. NoCheckoutLost
  BY <1>3 DEF NoCheckoutLost
<1>5. JobsSafe
  BY EventOfType DEF Init, JobsSafe, JobSafe
<1> QED
  BY <1>1, <1>2, <1>4, <1>5 DEF FetcherInv

(* A step that touches no horizon and neither side of the transfer.        *)
LEMMA QuietHorizons ==
    ASSUME TypeOK, TypeOK', Horizons, clock <= clock',
           UNCHANGED <<checkedOutAt, event, stored, patches, cycleNow>>
    PROVE  Horizons'
<1>1. HorizonsPast'
  BY DEF Horizons, HorizonsPast, TypeOK
<1>2. \A c \in Checkouts : Missing(c)' <=> Missing(c)
  BY DEF Missing, Published
<1>3. PatchesSafe'
  BY <1>2 DEF Horizons, PatchesSafe, Behind
<1>4. NoCheckoutLost'
  BY <1>2 DEF Horizons, NoCheckoutLost, Behind
<1> QED
  BY <1>1, <1>3, <1>4 DEF Horizons

(* Nor are goroutines disturbed by a step that leaves them where they are. *)
LEMMA QuietJobs ==
    ASSUME TypeOK, JobsSafe, expired' = expired \/ expired',
           UNCHANGED <<checkedOutAt, event, stored, cycleNow, pc, job>>
    PROVE  JobsSafe'
  BY DEF TypeOK, JobsSafe, JobSafe, Missing, Published, GivenUp

LEMMA DieJobs == ASSUME Die PROVE JobsSafe'
  BY EventOfType DEF Die, JobsSafe, JobSafe

(* A goroutine that returned has nothing left to lose.                     *)
LEMMA ReturnJobs ==
    ASSUME TypeOK, JobsSafe, NEW e \in Events, Return(e), expired' = expired,
           UNCHANGED <<checkedOutAt, stored, cycleNow>>,
           \A f \in Events \ {e} : event'[f] = event[f]
    PROVE  JobsSafe'
<1> SUFFICES ASSUME ~expired, NEW c \in Checkouts, event'[EventOf(c)].exists
             PROVE  JobSafe(EventOf(c), c)'
  BY DEF JobsSafe, EventOf
<1>0. EventOf(c) \in Events
  BY EventOfType
<1>1. CASE EventOf(c) = e
  BY <1>1 DEF Return, JobSafe, TypeOK
<1>2. CASE EventOf(c) # e
  <2>1. JobSafe(EventOf(c), c)
    BY <1>0, <1>2 DEF JobsSafe
  <2> QED
    BY <1>0, <1>2, <2>1 DEF Return, JobSafe, Missing, Published, GivenUp, TypeOK, EventOf
<1> QED
  BY <1>1, <1>2

(* A step of one goroutine that leaves the tables alone: it is enough to   *)
(* look at its own job.                                                    *)
LEMMA OwnJob ==
    ASSUME TypeOK, JobsSafe, NEW e \in Events, expired' = expired,
           UNCHANGED <<checkedOutAt, event, stored, cycleNow>>,
           \A f \in Events \ {e} : pc'[f] = pc[f] /\ job'[f] = job[f],
           ASSUME NEW c \in Checkouts, EventOf(c) = e, event[e].exists, ~expired,
                  JobSafe(e, c)
           PROVE  JobSafe(e, c)'
    PROVE  JobsSafe'
<1> SUFFICES ASSUME ~expired, NEW c \in Checkouts, event[EventOf(c)].exists
             PROVE  JobSafe(EventOf(c), c)'
  BY DEF JobsSafe, EventOf
<1>0. EventOf(c) \in Events
  BY EventOfType
<1>1. JobSafe(EventOf(c), c)
  BY DEF JobsSafe
<1>2. CASE EventOf(c) = e
  BY <1>1, <1>2
<1>3. CASE EventOf(c) # e
  BY <1>0, <1>1, <1>3 DEF JobSafe, Missing, Published, GivenUp
<1> QED
  BY <1>2, <1>3

LEMMA LoadEventJobs ==
    ASSUME TypeOK, Horizons, JobsSafe, NEW e \in Events, LoadEvent(e)
    PROVE  JobsSafe'
<1> DEFINE floor == cycleNow - Lookback
           since == IF event[e].last < floor THEN floor ELSE event[e].last
<1>0. since \in Int /\ event[e].last <= cycleNow /\ event[e].last \in Nat
      /\ cycleNow \in Nat /\ since <= cycleNow
  BY ConstantTypes DEF TypeOK, Row, Horizons, HorizonsPast
<1>1. job'[e].since = since /\ pc'[e] = "fetching"
  BY DEF LoadEvent, TypeOK
<1>2. ASSUME NEW c \in Checkouts, EventOf(c) = e, event[e].exists, Missing(c)
      PROVE  GivenUp(c) \/ checkedOutAt[c] >= since - Slack
  <2>1. ~Behind(c, event[e].last)
    BY <1>2 DEF Horizons, NoCheckoutLost
  <2>2. checkedOutAt[c] \in Nat
    BY DEF TypeOK
  <2> QED
    BY <1>0, <2>1, <2>2, ConstantTypes DEF Behind, GivenUp
<1> HIDE DEF since
<1>3. ASSUME NEW c \in Checkouts, EventOf(c) = e, event[e].exists
      PROVE  JobSafe(e, c)'
  BY <1>0, <1>1, <1>2, <1>3 DEF JobSafe, LoadEvent, Missing, Published, GivenUp
<1> QED
  BY <1>3, OwnJob DEF LoadEvent, TypeOK

LEMMA FetchJobs ==
    ASSUME TypeOK, JobsSafe, NEW e \in Events, Fetch(e)
    PROVE  JobsSafe'
<1>1. ASSUME NEW c \in Checkouts, EventOf(c) = e, JobSafe(e, c)
      PROVE  JobSafe(e, c)'
  <2>1. Missing(c) => GivenUp(c) \/ c \in InRange(e)
    BY <1>1 DEF Fetch, JobSafe, InRange, Missing
  <2>2. pc'[e] = "storing" /\ job'[e].left = InRange(e)
    BY DEF Fetch, Fetched, TypeOK, Job
  <2> QED
    BY <2>1, <2>2 DEF Fetch, Fetched, JobSafe, Missing, Published, GivenUp
<1> QED
  BY <1>1, OwnJob DEF Fetch, Fetched, TypeOK

LEMMA StoreCheckinJobs ==
    ASSUME TypeOK, JobsSafe, NEW e \in Events, NEW d \in Checkouts, StoreCheckin(e, d)
    PROVE  JobsSafe'
<1> SUFFICES ASSUME ~expired, NEW c \in Checkouts, event[EventOf(c)].exists
             PROVE  JobSafe(EventOf(c), c)'
  BY DEF JobsSafe, EventOf, StoreCheckin
<1>0. EventOf(c) \in Events
  BY EventOfType
<1>1. JobSafe(EventOf(c), c)
  BY DEF JobsSafe
<1>2. Missing(c)' => Missing(c) /\ c # d
  BY DEF StoreCheckin, Missing, Published
<1>3. job'[EventOf(c)].since = job[EventOf(c)].since
      /\ job'[EventOf(c)].unresolved = job[EventOf(c)].unresolved
      /\ job[EventOf(c)].left \ {d} \subseteq job'[EventOf(c)].left
  BY <1>0 DEF StoreCheckin, TypeOK, Job
<1> QED
  BY <1>0, <1>1, <1>2, <1>3 DEF JobSafe, StoreCheckin, GivenUp

LEMMA LeaveUnresolvedJobs ==
    ASSUME TypeOK, JobsSafe, NEW e \in Events, NEW d \in Checkouts, LeaveUnresolved(e, d)
    PROVE  JobsSafe'
<1>1. job'[e].since = job[e].since
      /\ job[e].left \cup job[e].unresolved \subseteq job'[e].left \cup job'[e].unresolved
  BY DEF LeaveUnresolved, TypeOK, Job
<1>2. ASSUME NEW c \in Checkouts, JobSafe(e, c) PROVE JobSafe(e, c)'
  BY <1>1, <1>2 DEF JobSafe, LeaveUnresolved, Missing, Published, GivenUp
<1> QED
  BY <1>2, OwnJob DEF LeaveUnresolved, TypeOK

(* The step the invariant is for: with nothing left and nothing unresolved, *)
(* what is missing is newer than the start of the cycle or was given up.   *)
LEMMA AdvanceHorizons ==
    ASSUME TypeOK, TypeOK', Horizons, JobsSafe, NEW e \in Events, Advance(e)
    PROVE  Horizons'
<1>0. cycleNow \in Nat /\ clock \in Nat
  BY DEF TypeOK
<1>1. event'[e].last \in {event[e].last, cycleNow}
  BY DEF Advance, UpdateEvent, TypeOK
<1>2. \A f \in Events \ {e} : event'[f] = event[f]
  BY DEF Advance, TypeOK
<1>3. \A f \in Events : event'[f].exists = event[f].exists
  BY <1>2 DEF Advance, UpdateEvent, TypeOK
<1>4. \A c \in Checkouts : Missing(c)' <=> Missing(c)
  BY DEF Advance, Missing, Published
<1>5. HorizonsPast'
  <2>1. \A f \in Events : event'[f].last <= cycleNow
    BY <1>0, <1>1, <1>2 DEF Horizons, HorizonsPast
  <2> QED
    BY <2>1 DEF Horizons, HorizonsPast, Advance
<1>6. PatchesSafe'
  BY <1>3, <1>4 DEF Horizons, PatchesSafe, Behind, Advance, TypeOK, Patch, EventOf
<1>7. ASSUME NEW c \in Checkouts, EventOf(c) = e, Missing(c)
      PROVE  ~Behind(c, cycleNow)
  <2>1. JobSafe(e, c)
    BY <1>7 DEF JobsSafe, Advance
  <2>2. GivenUp(c) \/ checkedOutAt[c] >= cycleNow - Slack
    BY <1>7, <2>1 DEF JobSafe, Advance
  <2>3. checkedOutAt[c] \in Nat
    BY DEF TypeOK
  <2> QED
    BY <1>0, <2>2, <2>3, ConstantTypes DEF GivenUp, Behind
<1>8. ASSUME NEW c \in Checkouts, event'[EventOf(c)].exists, Missing(c)
      PROVE  ~Behind(c, event'[EventOf(c)].last)
  <2>1. EventOf(c) \in Events /\ event[EventOf(c)].exists
    BY <1>3, <1>8, EventOfType
  <2>2. ~Behind(c, event[EventOf(c)].last)
    BY <1>8, <2>1 DEF Horizons, NoCheckoutLost
  <2> QED
    BY <1>1, <1>2, <1>7, <1>8, <2>1, <2>2
<1>9. NoCheckoutLost'
  BY <1>4, <1>8 DEF NoCheckoutLost, Behind, Advance, EventOf
<1> QED
  BY <1>5, <1>6, <1>9 DEF Horizons

LEMMA StoreCheckinHorizons ==
    ASSUME TypeOK, TypeOK', Horizons, NEW e \in Events, NEW d \in Checkouts,
           StoreCheckin(e, d)
    PROVE  Horizons'
<1>1. \A c \in Checkouts : Missing(c)' => Missing(c)
  BY DEF StoreCheckin, Missing, Published
<1> QED
  BY <1>1 DEF StoreCheckin, Horizons, HorizonsPast, PatchesSafe, NoCheckoutLost, Behind,
              EventOf

Safe == Horizons /\ JobsSafe

LEMMA JobStepSafe ==
    ASSUME "http5xx" \notin Faults, TypeOK, TypeOK', Safe, NEW e \in Events, JobStep(e)
    PROVE  Safe'
<1> USE DEF Safe
<1>c. clock <= clock
  BY DEF TypeOK
<1>1. CASE Launch(e)
  <2>1. ASSUME NEW c \in Checkouts, JobSafe(e, c) PROVE JobSafe(e, c)'
    BY <1>1 DEF JobSafe, Launch, TypeOK
  <2>2. JobsSafe'
    BY <1>1, <2>1, OwnJob DEF Launch, TypeOK
  <2> QED
    BY <1>1, <1>c, <2>2, QuietHorizons DEF Launch
<1>2. CASE LoadEvent(e)
  BY <1>2, <1>c, LoadEventJobs, QuietHorizons DEF LoadEvent
<1>3. CASE LoadEventFails(e)
  BY <1>3, <1>c, ReturnJobs, QuietHorizons DEF LoadEventFails
<1>4. CASE Fetch(e)
  BY <1>4, <1>c, FetchJobs, QuietHorizons DEF Fetch, Fetched
<1>5. CASE FetchCutShort(e)
  BY <1>5, <1>c, QuietHorizons DEF FetchCutShort, Fetched, JobsSafe
<1>6. CASE FetchFails(e)
  BY <1>6, <1>c, ReturnJobs, QuietHorizons DEF FetchFails
<1>7. ASSUME NEW c \in Checkouts, StoreCheckin(e, c) PROVE Safe'
  BY <1>7, StoreCheckinHorizons, StoreCheckinJobs
<1>8. ASSUME NEW c \in Checkouts, LeaveUnresolved(e, c) PROVE Safe'
  BY <1>8, <1>c, LeaveUnresolvedJobs, QuietHorizons DEF LeaveUnresolved
<1>9. CASE GiveUp(e)
  BY <1>9, <1>c, ReturnJobs, QuietHorizons DEF GiveUp
<1>10. CASE Advance(e)
  <2>1. \A f \in Events \ {e} : event'[f] = event[f]
    BY <1>10 DEF Advance, TypeOK
  <2> QED
    BY <1>10, <2>1, AdvanceHorizons, ReturnJobs DEF Advance
<1>11. CASE AdvanceFails(e)
  BY <1>11, <1>c, ReturnJobs, QuietHorizons DEF AdvanceFails
<1>12. ~FetchServerError(e)
  BY DEF FetchServerError
<1> QED
  BY <1>1, <1>2, <1>3, <1>4, <1>5, <1>6, <1>7, <1>8, <1>9, <1>10, <1>11, <1>12
  DEF JobStep

LEMMA BeginCycleSafe == ASSUME TypeOK, TypeOK', Safe, BeginCycle PROVE Safe'
<1>1. HorizonsPast'
  BY DEF BeginCycle, Safe, Horizons, HorizonsPast, TypeOK, Row, Patch
<1>2. PatchesSafe' /\ NoCheckoutLost'
  BY DEF BeginCycle, Safe, Horizons, PatchesSafe, NoCheckoutLost, Behind, Missing,
         Published, EventOf
<1>3. \A e \in Events : pc'[e] \in {"selected", "idle"}
  BY DEF BeginCycle
<1>4. JobsSafe'
  BY <1>3, EventOfType DEF JobsSafe, JobSafe, EventOf
<1> QED
  BY <1>1, <1>2, <1>4 DEF Safe, Horizons

LEMMA DieSafe ==
    ASSUME TypeOK, TypeOK', Safe, Die, UNCHANGED <<pcVars, tables, patches>> PROVE Safe'
<1>1. clock <= clock' /\ cycleNow' = cycleNow
  BY DEF TypeOK, Die
<1>2. Horizons'
  BY <1>1, QuietHorizons DEF Safe
<1>3. JobsSafe'
  BY DieJobs
<1> QED
  BY <1>2, <1>3 DEF Safe

LEMMA WorkerStepSafe ==
    ASSUME "http5xx" \notin Faults, TypeOK, TypeOK', Safe, WorkerStep PROVE Safe'
<1>1. CASE LeaveRun \/ ListFails
  BY <1>1, DieSafe DEF LeaveRun, ListFails
<1>2. CASE EndCycle
  <2>1. CASE fatal \/ expired \/ stopping
    BY <1>2, <2>1, DieSafe DEF EndCycle
  <2>2. CASE ~(fatal \/ expired \/ stopping)
    BY <1>2, <2>2, QuietHorizons, QuietJobs DEF EndCycle, Safe, TypeOK
  <2> QED
    BY <2>1, <2>2
<1>3. CASE LeaveLaunching
  <2>1. clock <= clock
    BY DEF TypeOK
  <2>2. Horizons'
    BY <1>3, <2>1, QuietHorizons DEF LeaveLaunching, Safe
  <2>3. JobsSafe'
    BY <1>3, EventOfType
    DEF LeaveLaunching, Safe, JobsSafe, JobSafe, Missing, Published, GivenUp, EventOf
  <2> QED
    BY <2>2, <2>3 DEF Safe
<1> QED
  BY <1>1, <1>2, <1>3, BeginCycleSafe, JobStepSafe DEF WorkerStep

(* A check-out appears with a time no further back than Delay, and Delay   *)
(* fits in the slack below every horizon.                                  *)
LEMMA CheckOutSafe ==
    ASSUME TypeOK, TypeOK', Safe, NEW d \in Checkouts, CheckOut(d) PROVE Safe'
<1> USE ConstantTypes, DelayAssumption
<1>1. HorizonsPast'
  BY DEF CheckOut, Safe, Horizons, HorizonsPast
<1>2. checkedOutAt'[d] \in Nat /\ checkedOutAt'[d] >= cycleNow - Slack
  BY DEF CheckOut, TypeOK, Safe, Horizons, HorizonsPast
<1>3. ASSUME NEW c \in Checkouts, c # d
      PROVE  checkedOutAt'[c] = checkedOutAt[c] /\ (Missing(c)' <=> Missing(c))
  BY <1>3 DEF CheckOut, TypeOK, Missing, Published
<1>4. ASSUME NEW h \in Nat, h <= cycleNow PROVE ~Behind(d, h)'
  BY <1>2, <1>4 DEF Behind, TypeOK
<1>5. PatchesSafe'
  <2> SUFFICES ASSUME NEW p \in patches, NEW c \in Checkouts, event[p.event].exists,
                      EventOf(c) = p.event, Missing(c)'
               PROVE  ~Behind(c, p.last)'
    BY DEF PatchesSafe, CheckOut, Behind, EventOf
  <2>1. p.last \in Nat /\ p.last <= cycleNow
    BY DEF TypeOK, Patch, Safe, Horizons, HorizonsPast
  <2> QED
    BY <1>3, <1>4, <2>1 DEF Safe, Horizons, PatchesSafe, Behind
<1>6. NoCheckoutLost'
  <2> SUFFICES ASSUME NEW c \in Checkouts, event[EventOf(c)].exists, Missing(c)'
               PROVE  ~Behind(c, event[EventOf(c)].last)'
    BY DEF NoCheckoutLost, CheckOut, EventOf
  <2>1. event[EventOf(c)].last \in Nat /\ event[EventOf(c)].last <= cycleNow
    BY EventOfType DEF TypeOK, Row, Safe, Horizons, HorizonsPast
  <2>2. ~Behind(d, event[EventOf(c)].last)'
    BY <1>2, <2>1 DEF Behind, CheckOut, TypeOK, EventOf
  <2>3. CASE c # d
    BY <1>3, <2>3 DEF Safe, Horizons, NoCheckoutLost, Behind, CheckOut, EventOf
  <2> QED
    BY <2>2, <2>3
<1>7. JobsSafe'
  <2> SUFFICES ASSUME ~expired, NEW c \in Checkouts, event[EventOf(c)].exists
               PROVE  JobSafe(EventOf(c), c)'
    BY DEF JobsSafe, CheckOut, EventOf
  <2>1. JobSafe(EventOf(c), c)
    BY DEF Safe, JobsSafe
  <2>2. CASE c # d
    BY <1>3, <2>1, <2>2 DEF JobSafe, CheckOut, GivenUp, EventOf
  <2>3. CASE c = d
    <3>1. pc[EventOf(c)] = "fetching" => checkedOutAt'[c] >= job[EventOf(c)].since - Slack
      BY <1>2, <2>1, <2>3, EventOfType DEF JobSafe, TypeOK, Job
    <3> QED
      BY <1>2, <2>1, <2>3, <3>1 DEF JobSafe, CheckOut, GivenUp, EventOf
  <2> QED
    BY <2>2, <2>3
<1> QED
  BY <1>1, <1>5, <1>6, <1>7 DEF Safe, Horizons

LEMMA PatchReadSafe ==
    ASSUME TypeOK, TypeOK', Safe, NEW e \in Events, PatchRead(e) PROVE Safe'
<1>1. PICK autoFetch \in BOOLEAN :
        patches' = patches \cup {[event |-> e, autoFetch |-> autoFetch, last |-> event[e].last]}
  BY DEF PatchRead
<1>2. HorizonsPast'
  BY <1>1 DEF PatchRead, Safe, Horizons, HorizonsPast
<1>3. PatchesSafe'
  BY <1>1 DEF PatchRead, Safe, Horizons, PatchesSafe, NoCheckoutLost, Behind, Missing,
              Published, EventOf
<1>4. NoCheckoutLost'
  BY DEF PatchRead, Safe, Horizons, NoCheckoutLost, Behind, Missing, Published, EventOf
<1>5. JobsSafe'
  BY QuietJobs DEF PatchRead, Safe
<1> QED
  BY <1>2, <1>3, <1>4, <1>5 DEF Safe, Horizons

(* A step that may change an event's row and nothing else of the transfer: *)
(* the new horizon must be one that is safe to write.                      *)
LEMMA RowStepSafe ==
    ASSUME TypeOK, TypeOK', Safe, NEW e \in Events,
           patches' \subseteq patches,
           UNCHANGED <<checkedOutAt, clock, stored, expired, cycleNow, pc, job>>,
           \A f \in Events \ {e} : event'[f] = event[f],
           event'[e].exists => event[e].exists,
           event'[e].last <= cycleNow,
           ASSUME NEW c \in Checkouts, EventOf(c) = e, event'[e].exists, Missing(c)
           PROVE  ~Behind(c, event'[e].last)
    PROVE  Safe'
<1>1. \A f \in Events : event'[f].exists => event[f].exists
  OBVIOUS
<1>2. \A c \in Checkouts : Missing(c)' <=> Missing(c)
  BY DEF Missing, Published
<1>3. HorizonsPast'
  BY DEF Safe, Horizons, HorizonsPast
<1>4. PatchesSafe'
  BY <1>1, <1>2 DEF Safe, Horizons, PatchesSafe, Behind, TypeOK, Patch, EventOf
<1>5. ASSUME NEW c \in Checkouts, event'[EventOf(c)].exists, Missing(c)
      PROVE  ~Behind(c, event'[EventOf(c)].last)
  <2>1. EventOf(c) \in Events
    BY EventOfType
  <2>2. CASE EventOf(c) = e
    BY <1>5, <2>2
  <2>3. CASE EventOf(c) # e
    BY <1>5, <2>1, <2>3 DEF Safe, Horizons, NoCheckoutLost
  <2> QED
    BY <2>2, <2>3
<1>6. NoCheckoutLost'
  BY <1>2, <1>5 DEF NoCheckoutLost, Behind, EventOf
<1>7. JobsSafe'
  BY <1>1, <1>2, EventOfType DEF Safe, JobsSafe, JobSafe, GivenUp, EventOf
<1> QED
  BY <1>3, <1>4, <1>6, <1>7 DEF Safe, Horizons

LEMMA PatchWriteSafe ==
    ASSUME TypeOK, TypeOK', Safe, NEW p \in patches, PatchWrite(p) PROVE Safe'
<1> DEFINE e == p.event
<1>0. e \in Events /\ p \in Patch
  BY DEF TypeOK, Patch
<1>1. CASE event[e].exists
  <2>1. event'[e] = UpdateEvent(event[e], p.autoFetch, p.last)
        /\ \A f \in Events \ {e} : event'[f] = event[f]
    BY <1>0, <1>1 DEF PatchWrite, TypeOK
  <2>2. event'[e].exists = event[e].exists
        /\ event'[e].last \in {event[e].last, p.last}
    BY <2>1 DEF UpdateEvent
  <2>3. event'[e].last <= cycleNow
    BY <1>0, <2>2 DEF Safe, Horizons, HorizonsPast
  <2>4. ASSUME NEW c \in Checkouts, EventOf(c) = e, Missing(c)
        PROVE  ~Behind(c, event'[e].last)
    BY <1>1, <2>2, <2>4 DEF Safe, Horizons, PatchesSafe, NoCheckoutLost
  <2> HIDE DEF e
  <2> QED
    BY <1>0, <1>1, <2>1, <2>2, <2>3, <2>4, RowStepSafe DEF PatchWrite
<1>2. CASE ~event[e].exists
  <2>1. \A f \in Events : event'[f] = event[f]
    BY <1>2 DEF PatchWrite
  <2>2. event'[e].last <= cycleNow
    BY <1>0, <2>1 DEF Safe, Horizons, HorizonsPast
  <2> HIDE DEF e
  <2> QED
    BY <1>0, <1>2, <2>1, <2>2, RowStepSafe DEF PatchWrite
<1> QED
  BY <1>1, <1>2

(* Deleting an event loses its rows on purpose: nothing is asked of it     *)
(* afterwards, and nothing of another event changes.                       *)
LEMMA DeleteEventSafe ==
    ASSUME TypeOK, TypeOK', Safe, NEW e \in Events, DeleteEvent(e) PROVE Safe'
<1>1. event'[e] = NoRow /\ \A f \in Events \ {e} : event'[f] = event[f]
  BY DEF DeleteEvent, TypeOK
<1>2. \A f \in Events : event'[f].exists => f # e /\ event[f].exists
  BY <1>1 DEF NoRow
<1>3. ASSUME NEW c \in Checkouts, EventOf(c) # e
      PROVE  Missing(c)' <=> Missing(c)
  BY <1>3 DEF DeleteEvent, Missing, Published, EventOf
<1>4. HorizonsPast'
  BY <1>1 DEF DeleteEvent, NoRow, Safe, Horizons, HorizonsPast, TypeOK
<1>5. PatchesSafe'
  BY <1>2, <1>3 DEF DeleteEvent, Safe, Horizons, PatchesSafe, Behind, TypeOK, Patch, EventOf
<1>6. NoCheckoutLost'
  BY <1>1, <1>2, <1>3, EventOfType
  DEF DeleteEvent, Safe, Horizons, NoCheckoutLost, Behind, EventOf
<1>7. JobsSafe'
  BY <1>2, <1>3, EventOfType DEF DeleteEvent, Safe, JobsSafe, JobSafe, GivenUp, EventOf
<1> QED
  BY <1>4, <1>5, <1>6, <1>7 DEF Safe, Horizons

LEMMA RequestStepSafe == ASSUME TypeOK, TypeOK', Safe, RequestStep PROVE Safe'
<1>c. clock <= clock
  BY DEF TypeOK
<1>1. ASSUME NEW e \in Events, SyncLocations(e) PROVE Safe'
  BY <1>1, <1>c, QuietHorizons, QuietJobs DEF SyncLocations, Safe
<1>2. ASSUME NEW c \in Checkouts, SetConfirmed(c) PROVE Safe'
  BY <1>2, <1>c, QuietHorizons, QuietJobs DEF SetConfirmed, Safe
<1> QED
  BY <1>1, <1>2, PatchReadSafe, PatchWriteSafe, DeleteEventSafe DEF RequestStep

LEMMA StepSafe ==
    ASSUME "http5xx" \notin Faults, TypeOK, Safe, [Next]_vars PROVE TypeOK' /\ Safe'
<1>1. TypeOK'
  BY StepTypeOK
<1>c. clock <= clock /\ clock <= clock + 1
  BY DEF TypeOK
<1>2. CASE Tick
  BY <1>1, <1>2, <1>c, QuietHorizons, QuietJobs DEF Tick, Safe
<1>3. CASE Crash
  BY <1>1, <1>3, DieSafe DEF Crash
<1>4. CASE Restart
  BY <1>1, <1>4, <1>c, QuietHorizons, QuietJobs DEF Restart, Safe
<1>5. CASE Expire \/ Stop
  BY <1>1, <1>5, <1>c, QuietHorizons, QuietJobs DEF Expire, Stop, Safe
<1>6. CASE RefreshLocationMap
  BY <1>1, <1>6, <1>c, QuietHorizons, QuietJobs DEF RefreshLocationMap, Safe
<1>7. CASE UNCHANGED vars
  BY <1>1, <1>7, <1>c, QuietHorizons, QuietJobs DEF vars, Safe
<1> QED
  BY <1>1, <1>2, <1>3, <1>4, <1>5, <1>6, <1>7, CheckOutSafe, WorkerStepSafe,
     RequestStepSafe DEF Next

(* FetcherInv is inductive when every error answer is seen as an error.    *)
THEOREM FetcherInvariant ==
    ASSUME "http5xx" \notin Faults PROVE Spec => []FetcherInv
<1>1. FetcherInv <=> TypeOK /\ Safe
  BY DEF FetcherInv, Safe, Horizons
<1>2. FetcherInv /\ [Next]_vars => FetcherInv'
  BY <1>1, StepSafe DEF FetcherInv, Safe, Horizons
<1> QED
  BY <1>2, InitFetcherInv, PTL DEF Spec

(* No check-out of an existing event is lost behind its horizon, for any   *)
(* number of events, check-outs, concurrent PATCH requests and workers,    *)
(* through failed fetches, failed inserts, stale location maps, kills and  *)
(* context expiry, as long as an error answer of Planning Center is taken  *)
(* for an error (processEventCheckouts and UpdateEvent).                   *)
THEOREM NothingLost ==
    ASSUME "http5xx" \notin Faults PROVE Spec => []NoCheckoutLost
<1>1. FetcherInv => NoCheckoutLost
  BY DEF FetcherInv
<1> QED
  BY <1>1, FetcherInvariant, PTL

-----------------------------------------------------------------------------
(* CheckoutFetcher implements CheckoutIngestion.                           *)

(* What a goroutine holds was published when it was fetched.               *)
LeftPublished == \A e \in Events : job[e].left \subseteq Published

LEMMA StepLeftPublished ==
    ASSUME TypeOK, LeftPublished, [Next]_vars PROVE LeftPublished'
<1>0. NoJob.left = {}
  BY DEF NoJob
<1>1. CASE UNCHANGED <<checkedOutAt, job>>
  BY <1>1 DEF LeftPublished, Published
<1>2. ASSUME NEW c \in Checkouts, CheckOut(c) PROVE LeftPublished'
  BY <1>2 DEF CheckOut, LeftPublished, Published, TypeOK
<1>3. CASE Die
  BY <1>0, <1>3 DEF Die, LeftPublished
<1>4. ASSUME NEW e \in Events, Return(e), UNCHANGED checkedOutAt PROVE LeftPublished'
  BY <1>0, <1>4 DEF Return, LeftPublished, Published, TypeOK
<1>5. ASSUME NEW e \in Events, LoadEvent(e) PROVE LeftPublished'
  BY <1>5 DEF LoadEvent, LeftPublished, Published, TypeOK
<1>6. ASSUME NEW e \in Events, Fetch(e) \/ FetchCutShort(e) \/ FetchServerError(e)
      PROVE  LeftPublished'
  <2>1. PICK batch \in SUBSET InRange(e) : Fetched(e, batch)
    BY <1>6 DEF Fetch, FetchCutShort, FetchServerError
  <2>2. batch \subseteq Published
    BY DEF InRange
  <2> QED
    BY <2>1, <2>2 DEF Fetched, LeftPublished, Published, TypeOK, Job
<1>7. ASSUME NEW e \in Events, NEW c \in Checkouts,
             StoreCheckin(e, c) \/ LeaveUnresolved(e, c)
      PROVE  LeftPublished'
  <2>1. job'[e].left \subseteq job[e].left
        /\ \A f \in Events \ {e} : job'[f] = job[f]
    BY <1>7 DEF StoreCheckin, LeaveUnresolved, TypeOK, Job
  <2>2. UNCHANGED checkedOutAt
    BY <1>7 DEF StoreCheckin, LeaveUnresolved
  <2> QED
    BY <2>1, <2>2 DEF LeftPublished, Published
<1>8. ASSUME NEW e \in Events, JobStep(e) PROVE LeftPublished'
  <2>1. CASE Launch(e)
    BY <1>1, <2>1 DEF Launch
  <2>2. CASE LoadEventFails(e) \/ FetchFails(e) \/ GiveUp(e) \/ Advance(e) \/ AdvanceFails(e)
    BY <1>4, <2>2 DEF LoadEventFails, FetchFails, GiveUp, Advance, AdvanceFails
  <2> QED
    BY <1>5, <1>6, <1>7, <1>8, <2>1, <2>2 DEF JobStep
<1>9. CASE WorkerStep
  <2>1. CASE BeginCycle
    BY <1>1, <2>1 DEF BeginCycle
  <2>2. CASE ListFails \/ LeaveRun \/ LeaveLaunching \/ EndCycle
    BY <1>1, <1>3, <2>2 DEF ListFails, LeaveRun, LeaveLaunching, EndCycle
  <2> QED
    BY <1>8, <1>9, <2>1, <2>2 DEF WorkerStep
<1>10. CASE RequestStep
  BY <1>1, <1>10 DEF RequestStep, PatchRead, PatchWrite, DeleteEvent, SyncLocations,
                     SetConfirmed
<1> QED
  BY <1>1, <1>2, <1>3, <1>9, <1>10
  DEF Next, Tick, Crash, Restart, Expire, Stop, RefreshLocationMap, vars

RefinementInv == FetcherInv /\ LeftPublished

(* The state of the abstraction.                                           *)
Owners == [c \in Checkouts |-> EventOf(c)]
Horizon == [e \in Events |-> event[e].last]
Live == {e \in Events : event[e].exists}

LEMMA QuietIngestion ==
    ASSUME UNCHANGED <<checkedOutAt, stored, event>> PROVE UNCHANGED Ingestion!vars
  BY DEF Ingestion!vars

(* A row rewritten with a horizon that leaves nothing behind.              *)
LEMMA MovesHorizon ==
    ASSUME TypeOK, TypeOK', NoCheckoutLost', NEW e \in Events, event[e].exists,
           event'[e].exists, UNCHANGED <<checkedOutAt, stored>>,
           \A f \in Events \ {e} : event'[f] = event[f]
    PROVE  Ingestion!MoveHorizon(e)
<1>1. Live' = Live
  BY DEF Live
<1>2. event'[e].last \in Nat
  BY DEF TypeOK, Row
<1>3. Horizon' = [Horizon EXCEPT ![e] = Horizon'[e]] /\ Horizon'[e] = event'[e].last
  BY DEF Horizon
<1>4. ASSUME NEW c \in Checkouts \ stored, EventOf(c) = e, checkedOutAt[c] # 0
      PROVE  ~Ingestion!LeftBehind(checkedOutAt[c], event'[e].last)
  <2>1. Missing(c)'
    BY <1>4 DEF Missing, Published
  <2> QED
    BY <1>4, <2>1 DEF NoCheckoutLost, Behind, Ingestion!LeftBehind, EventOf
<1> QED
  BY <1>1, <1>2, <1>3, <1>4 DEF Ingestion!MoveHorizon, Live, Horizon

LEMMA AdvanceMovesHorizon ==
    ASSUME TypeOK, TypeOK', NoCheckoutLost', NEW e \in Events, Advance(e)
    PROVE  Ingestion!MoveHorizon(e)
<1>1. event'[e].exists /\ \A f \in Events \ {e} : event'[f] = event[f]
  BY DEF Advance, UpdateEvent, TypeOK
<1> QED
  BY <1>1, MovesHorizon DEF Advance

LEMMA PatchWriteMovesHorizon ==
    ASSUME TypeOK, TypeOK', NoCheckoutLost', NEW p \in patches, PatchWrite(p)
    PROVE  Ingestion!MoveHorizon(p.event) \/ UNCHANGED Ingestion!vars
<1> DEFINE e == p.event
<1>0. e \in Events
  BY DEF TypeOK, Patch
<1>1. CASE event[e].exists
  <2>1. event'[e].exists /\ \A f \in Events \ {e} : event'[f] = event[f]
    BY <1>0, <1>1 DEF PatchWrite, UpdateEvent, TypeOK
  <2>2. UNCHANGED <<checkedOutAt, stored>>
    BY DEF PatchWrite
  <2> QED
    BY <1>0, <1>1, <2>1, <2>2, MovesHorizon
<1>2. CASE ~event[e].exists
  BY <1>2, QuietIngestion DEF PatchWrite
<1> QED
  BY <1>1, <1>2

LEMMA StoreCheckinIngests ==
    ASSUME LeftPublished, NEW e \in Events, NEW c \in Checkouts, StoreCheckin(e, c)
    PROVE  Ingestion!Ingest(c)
  BY DEF LeftPublished, Published, StoreCheckin, Ingestion!Ingest

LEMMA DeleteEventRemoves ==
    ASSUME TypeOK, NEW e \in Events, DeleteEvent(e) PROVE Ingestion!Remove(e)
<1>1. event'[e] = NoRow /\ \A f \in Events \ {e} : event'[f] = event[f]
  BY DEF DeleteEvent, TypeOK
<1>2. Live' = Live \ {e}
  BY <1>1 DEF Live, NoRow
<1>3. Horizon' = [Horizon EXCEPT ![e] = 0]
  <2>1. event'[e].last = 0
    BY <1>1 DEF NoRow
  <2> QED
    BY <1>1, <2>1 DEF Horizon
<1>4. stored' = {c \in stored : Owners[c] # e}
  BY DEF DeleteEvent, Owners, TypeOK
<1> QED
  BY <1>2, <1>3, <1>4 DEF Ingestion!Remove, DeleteEvent, Live, Horizon, Owners

LEMMA CheckOutPublishes ==
    ASSUME TypeOK, TypeOK', Safe, NEW d \in Checkouts, CheckOut(d)
    PROVE  Ingestion!Publish(d)
<1> USE ConstantTypes, DelayAssumption
<1>1. checkedOutAt'[d] \in Nat \ {0} /\ checkedOutAt'[d] >= cycleNow - Slack
  BY DEF CheckOut, TypeOK, Safe, Horizons, HorizonsPast
<1>2. checkedOutAt' = [checkedOutAt EXCEPT ![d] = checkedOutAt'[d]]
  BY DEF CheckOut, TypeOK
<1>3. event[EventOf(d)].last \in Nat /\ event[EventOf(d)].last <= cycleNow
  BY EventOfType DEF TypeOK, Row, Safe, Horizons, HorizonsPast
<1>4. ~Ingestion!LeftBehind(checkedOutAt'[d], event[EventOf(d)].last)
  BY <1>1, <1>3 DEF Ingestion!LeftBehind, TypeOK
<1>5. EventOf(d) \in Events
  BY EventOfType
<1> QED
  BY <1>1, <1>2, <1>4, <1>5 DEF Ingestion!Publish, CheckOut

LEMMA JobStepIngestion ==
    ASSUME TypeOK, TypeOK', NoCheckoutLost', LeftPublished, NEW e \in Events, JobStep(e)
    PROVE  Ingestion!Next \/ UNCHANGED Ingestion!vars
<1>1. CASE Advance(e)
  BY <1>1, AdvanceMovesHorizon DEF Ingestion!Next
<1>2. ASSUME NEW c \in Checkouts, StoreCheckin(e, c) PROVE Ingestion!Next
  BY <1>2, StoreCheckinIngests DEF Ingestion!Next
<1>3. ASSUME NEW c \in Checkouts, LeaveUnresolved(e, c) PROVE UNCHANGED Ingestion!vars
  BY <1>3, QuietIngestion DEF LeaveUnresolved
<1>4. CASE Fetch(e) \/ FetchCutShort(e) \/ FetchServerError(e)
  BY <1>4, QuietIngestion DEF Fetch, FetchCutShort, FetchServerError, Fetched
<1>5. CASE Launch(e) \/ LoadEvent(e) \/ LoadEventFails(e) \/ FetchFails(e) \/ GiveUp(e)
           \/ AdvanceFails(e)
  BY <1>5, QuietIngestion
  DEF Launch, LoadEvent, LoadEventFails, FetchFails, GiveUp, AdvanceFails
<1> QED
  BY <1>1, <1>2, <1>3, <1>4, <1>5 DEF JobStep

LEMMA RequestStepIngestion ==
    ASSUME TypeOK, TypeOK', NoCheckoutLost', RequestStep
    PROVE  Ingestion!Next \/ UNCHANGED Ingestion!vars
<1>1. ASSUME NEW e \in Events, DeleteEvent(e) PROVE Ingestion!Next
  BY <1>1, DeleteEventRemoves DEF Ingestion!Next
<1>2. ASSUME NEW e \in Events, PatchRead(e) \/ SyncLocations(e)
      PROVE  UNCHANGED Ingestion!vars
  BY <1>2, QuietIngestion DEF PatchRead, SyncLocations
<1>3. ASSUME NEW p \in patches, PatchWrite(p)
      PROVE  Ingestion!Next \/ UNCHANGED Ingestion!vars
  <2>1. p.event \in Events
    BY DEF TypeOK, Patch
  <2> QED
    BY <1>3, <2>1, PatchWriteMovesHorizon DEF Ingestion!Next
<1>4. ASSUME NEW c \in Checkouts, SetConfirmed(c) PROVE UNCHANGED Ingestion!vars
  BY <1>4, QuietIngestion DEF SetConfirmed
<1> QED
  BY <1>1, <1>2, <1>3, <1>4 DEF RequestStep

LEMMA StepIngestion ==
    ASSUME RefinementInv, RefinementInv', [Next]_vars
    PROVE  [Ingestion!Next]_(Ingestion!vars)
<1> USE DEF RefinementInv, FetcherInv
<1>1. ASSUME NEW c \in Checkouts, CheckOut(c) PROVE Ingestion!Next
  BY <1>1, CheckOutPublishes DEF Ingestion!Next, Safe, Horizons
<1>2. ASSUME NEW e \in Events, JobStep(e)
      PROVE  Ingestion!Next \/ UNCHANGED Ingestion!vars
  BY <1>2, JobStepIngestion
<1>3. CASE RequestStep
  BY <1>3, RequestStepIngestion
<1>4. CASE Tick \/ Crash \/ Restart \/ Expire \/ Stop \/ RefreshLocationMap \/ UNCHANGED vars
  BY <1>4, QuietIngestion
  DEF Tick, Crash, Restart, Expire, Stop, RefreshLocationMap, vars
<1>5. CASE BeginCycle \/ ListFails \/ LeaveRun \/ LeaveLaunching \/ EndCycle
  BY <1>5, QuietIngestion DEF BeginCycle, ListFails, LeaveRun, LeaveLaunching, EndCycle
<1> QED
  BY <1>1, <1>2, <1>3, <1>4, <1>5 DEF Next, WorkerStep

(* The fetcher implements what CheckoutIngestion promises: with all its    *)
(* failures and races, the database sees only publications, ingestions,    *)
(* horizons that leave nothing behind, and deletions (cmd.go,              *)
(* processEventCheckouts).                                                 *)
THEOREM Refinement ==
    ASSUME "http5xx" \notin Faults PROVE Spec => ImplementsIngestion
<1>1. Init => Ingestion!Init
  BY DEF Init, Ingestion!Init
<1>2. Init => LeftPublished
  BY DEF Init, LeftPublished, NoJob
<1>3. TypeOK /\ LeftPublished /\ [Next]_vars => LeftPublished'
  BY StepLeftPublished
<1>4. Spec => []RefinementInv
  <2>1. FetcherInv => TypeOK
    BY DEF FetcherInv
  <2> QED
    BY <1>2, <1>3, <2>1, FetcherInvariant, PTL DEF Spec, RefinementInv
<1>5. RefinementInv /\ RefinementInv' /\ [Next]_vars => [Ingestion!Next]_(Ingestion!vars)
  BY StepIngestion
<1> QED
  BY <1>1, <1>4, <1>5, PTL DEF Spec, ImplementsIngestion, Ingestion!Spec

-----------------------------------------------------------------------------
(* A failed fetch does not end the process.                                *)

(* Only fetches and inserts fail, and no event is deleted.                 *)
Calm == Faults \cap {"db", "crash", "expire", "stop"} = {} /\ "delete" \notin Requests

Alive ==
    /\ up /\ ~expired /\ ~stopping /\ ~fatal
    /\ \A e \in Events : event[e].exists

LEMMA StaysAlive ==
    ASSUME Alive, UNCHANGED <<up, expired, stopping, fatal, event>> PROVE Alive'
  BY DEF Alive

LEMMA JobStepAlive ==
    ASSUME Calm, TypeOK, Alive, NEW e \in Events, JobStep(e) PROVE Alive'
<1> USE DEF Alive
<1>1. ~LoadEventFails(e) /\ ~AdvanceFails(e)
  BY DEF Calm, LoadEventFails, AdvanceFails
<1>2. CASE Launch(e) \/ LoadEvent(e) \/ FetchFails(e) \/ GiveUp(e)
  BY <1>2, StaysAlive DEF Launch, LoadEvent, FetchFails, GiveUp
<1>3. CASE Fetch(e) \/ FetchCutShort(e) \/ FetchServerError(e)
  BY <1>3, StaysAlive DEF Fetch, FetchCutShort, FetchServerError, Fetched
<1>4. ASSUME NEW c \in Checkouts, StoreCheckin(e, c) \/ LeaveUnresolved(e, c) PROVE Alive'
  BY <1>4, StaysAlive DEF StoreCheckin, LeaveUnresolved
<1>5. CASE Advance(e)
  <2>1. \A f \in Events : event'[f].exists = event[f].exists
    BY <1>5 DEF Advance, UpdateEvent, TypeOK
  <2> QED
    BY <1>5, <2>1 DEF Advance
<1> QED
  BY <1>1, <1>2, <1>3, <1>4, <1>5 DEF JobStep

LEMMA RequestStepAlive == ASSUME Calm, TypeOK, Alive, RequestStep PROVE Alive'
<1> USE DEF Alive
<1>1. ASSUME NEW e \in Events, PatchRead(e) \/ SyncLocations(e) PROVE Alive'
  BY <1>1, StaysAlive DEF PatchRead, SyncLocations
<1>2. ASSUME NEW p \in patches, PatchWrite(p) PROVE Alive'
  <2>1. \A f \in Events : event'[f].exists = event[f].exists
    BY <1>2 DEF PatchWrite, UpdateEvent, TypeOK, Patch
  <2> QED
    BY <1>2, <2>1 DEF PatchWrite
<1>3. ASSUME NEW c \in Checkouts, SetConfirmed(c) PROVE Alive'
  BY <1>3, StaysAlive DEF SetConfirmed
<1>4. ASSUME NEW e \in Events PROVE ~DeleteEvent(e)
  BY DEF Calm, DeleteEvent
<1> QED
  BY <1>1, <1>2, <1>3, <1>4 DEF RequestStep

LEMMA StepAlive == ASSUME Calm, TypeOK, Alive, [Next]_vars PROVE Alive'
<1> USE DEF Alive
<1>1. ~Crash /\ ~Restart /\ ~Expire /\ ~Stop /\ ~ListFails /\ ~LeaveRun
  BY DEF Calm, Crash, Restart, Expire, Stop, ListFails, LeaveRun
<1>2. CASE Tick \/ RefreshLocationMap \/ UNCHANGED vars
  BY <1>2, StaysAlive DEF Tick, RefreshLocationMap, vars
<1>3. ASSUME NEW c \in Checkouts, CheckOut(c) PROVE Alive'
  BY <1>3, StaysAlive DEF CheckOut
<1>4. CASE BeginCycle \/ LeaveLaunching \/ EndCycle
  BY <1>4, StaysAlive DEF BeginCycle, LeaveLaunching, EndCycle
<1> QED
  BY <1>1, <1>2, <1>3, <1>4, JobStepAlive, RequestStepAlive DEF Next, WorkerStep

(* Failing fetches, dropped check-outs and failing inserts never end the   *)
(* worker, for any number of events, whatever they share, and whatever     *)
(* PATCH and sync requests are under way (errEventTimeout,                 *)
(* errEventFetchError and errEventDropped in eventCheckoutLoop).           *)
THEOREM FailuresSurvived == Spec => []FetchFailuresAreNotFatal
<1>1. CASE Calm
  <2>1. Init => Alive
    BY DEF Init, Alive
  <2>2. TypeOK /\ Alive /\ [Next]_vars => Alive'
    BY <1>1, StepAlive
  <2>3. Alive => FetchFailuresAreNotFatal
    BY DEF Alive, FetchFailuresAreNotFatal
  <2> QED
    BY <2>1, <2>2, <2>3, TypeCorrect, PTL DEF Spec
<1>2. CASE ~Calm
  <2>1. FetchFailuresAreNotFatal
    BY <1>2 DEF Calm, FetchFailuresAreNotFatal
  <2> QED
    BY <2>1, PTL
<1> QED
  BY <1>1, <1>2

-----------------------------------------------------------------------------
(* Confirmations are kept.                                                 *)

(* A PATCH in flight holds a horizon that is no newer than the row's.  Two *)
(* of them could: the older one sets the row back, and the newer one then  *)
(* moves it past what a goroutine is about to store again.                 *)
PatchStale ==
    /\ patches = {} \/ \E p \in patches : patches = {p}
    /\ \A p \in patches : event[p.event].exists => p.last <= event[p.event].last

(* From the read of the event on, its horizon stays where the goroutine    *)
(* starts asking, and what it holds is what it asked for.                  *)
JobFresh(e) ==
    /\ pc[e] \in {"fetching", "storing"} => event[e].last <= job[e].since
    /\ pc[e] = "storing" =>
        \A c \in job[e].left : EventOf(c) = e /\ checkedOutAt[c] >= job[e].since - Slack

JobsFresh == \A e \in Events : JobFresh(e)

KeptInv == HorizonsPast /\ PatchStale /\ JobsFresh

LEMMA InitKept == Init => KeptInv
  BY DEF Init, KeptInv, HorizonsPast, PatchStale, JobsFresh, JobFresh

(* A step that touches no row, and starts no goroutine.                    *)
LEMMA QuietKept ==
    ASSUME TypeOK, TypeOK', KeptInv, clock <= clock',
           UNCHANGED <<checkedOutAt, event, patches, cycleNow>>,
           \A e \in Events : pc'[e] \in {"fetching", "storing"} =>
                             pc'[e] = pc[e] /\ job'[e] = job[e]
    PROVE  KeptInv'
<1>1. HorizonsPast'
  BY DEF KeptInv, HorizonsPast, TypeOK
<1>2. PatchStale'
  BY DEF KeptInv, PatchStale
<1>3. JobsFresh'
  BY DEF KeptInv, JobsFresh, JobFresh, EventOf
<1> QED
  BY <1>1, <1>2, <1>3 DEF KeptInv

(* A step of one goroutine that touches no row.                            *)
LEMMA OwnKept ==
    ASSUME TypeOK, KeptInv, NEW e \in Events,
           UNCHANGED <<clock, checkedOutAt, event, patches, cycleNow>>,
           \A f \in Events \ {e} : pc'[f] = pc[f] /\ job'[f] = job[f],
           JobFresh(e)'
    PROVE  KeptInv'
<1>1. HorizonsPast' /\ PatchStale'
  BY DEF KeptInv, HorizonsPast, PatchStale
<1>2. ASSUME NEW f \in Events \ {e} PROVE JobFresh(f)'
  BY DEF KeptInv, JobsFresh, JobFresh, EventOf
<1> QED
  BY <1>1, <1>2 DEF KeptInv, JobsFresh

LEMMA LoadEventKept ==
    ASSUME TypeOK, KeptInv, NEW e \in Events, LoadEvent(e) PROVE KeptInv'
<1> DEFINE floor == cycleNow - Lookback
           since == IF event[e].last < floor THEN floor ELSE event[e].last
<1>1. event[e].last \in Nat /\ cycleNow \in Nat
  BY DEF TypeOK, Row
<1>2. event[e].last <= since
  BY <1>1, ConstantTypes
<1>3. job'[e].since = since /\ pc'[e] = "fetching"
  BY DEF LoadEvent, TypeOK
<1> HIDE DEF since
<1>4. JobFresh(e)'
  BY <1>2, <1>3 DEF JobFresh, LoadEvent
<1> QED
  BY <1>4, OwnKept DEF LoadEvent, TypeOK

LEMMA FetchedKept ==
    ASSUME TypeOK, KeptInv, NEW e \in Events, pc[e] = "fetching",
           NEW batch \in SUBSET InRange(e), Fetched(e, batch)
    PROVE  KeptInv'
<1>1. job'[e].since = job[e].since /\ job'[e].left = batch /\ pc'[e] = "storing"
  BY DEF Fetched, TypeOK, Job
<1>2. event[e].last <= job[e].since
  BY DEF KeptInv, JobsFresh, JobFresh
<1>3. \A c \in batch : EventOf(c) = e /\ checkedOutAt[c] >= job[e].since - Slack
  BY DEF InRange
<1>4. JobFresh(e)'
  BY <1>1, <1>2, <1>3 DEF JobFresh, Fetched, EventOf
<1> QED
  BY <1>4, OwnKept DEF Fetched, TypeOK

LEMMA StoringKept ==
    ASSUME TypeOK, KeptInv, NEW e \in Events, NEW c \in Checkouts,
           StoreCheckin(e, c) \/ LeaveUnresolved(e, c)
    PROVE  KeptInv'
<1>1. job'[e].since = job[e].since /\ job'[e].left \subseteq job[e].left
      /\ UNCHANGED <<clock, checkedOutAt, event, patches, cycleNow, pc>>
      /\ \A f \in Events \ {e} : job'[f] = job[f]
  BY DEF StoreCheckin, LeaveUnresolved, TypeOK, Job
<1>2. JobFresh(e)
  BY DEF KeptInv, JobsFresh
<1>3. JobFresh(e)'
  BY <1>1, <1>2 DEF JobFresh, EventOf
<1> QED
  BY <1>1, <1>3, OwnKept

(* The new horizon is the start of the cycle: no PATCH in flight has a     *)
(* newer one.                                                              *)
LEMMA AdvanceKept ==
    ASSUME TypeOK, KeptInv, NEW e \in Events, Advance(e) PROVE KeptInv'
<1>1. event'[e].last \in {event[e].last, cycleNow} /\ event'[e].exists
      /\ \A f \in Events \ {e} : event'[f] = event[f]
  BY DEF Advance, UpdateEvent, TypeOK
<1>2. HorizonsPast'
  BY <1>1 DEF Advance, KeptInv, HorizonsPast, TypeOK
<1>3. PatchStale'
  BY <1>1 DEF Advance, KeptInv, HorizonsPast, PatchStale, TypeOK, Patch
<1>4. pc'[e] = "idle" /\ \A f \in Events \ {e} : pc'[f] = pc[f] /\ job'[f] = job[f]
  BY DEF Advance, Return, TypeOK
<1>5. JobsFresh'
  BY <1>1, <1>4 DEF Advance, KeptInv, JobsFresh, JobFresh, EventOf
<1> QED
  BY <1>2, <1>3, <1>5 DEF KeptInv

LEMMA JobStepKept ==
    ASSUME TypeOK, TypeOK', KeptInv, NEW e \in Events, JobStep(e) PROVE KeptInv'
<1>c. clock <= clock
  BY DEF TypeOK
<1>1. CASE Launch(e)
  BY <1>1, <1>c, QuietKept DEF Launch, TypeOK
<1>2. CASE LoadEventFails(e) \/ FetchFails(e) \/ GiveUp(e) \/ AdvanceFails(e)
  <2>1. Return(e) /\ UNCHANGED <<clock, checkedOutAt, event, patches, cycleNow>>
    BY <1>2 DEF LoadEventFails, FetchFails, GiveUp, AdvanceFails
  <2> QED
    BY <1>c, <2>1, QuietKept DEF Return, TypeOK
<1>3. CASE Fetch(e) \/ FetchCutShort(e) \/ FetchServerError(e)
  BY <1>3, FetchedKept DEF Fetch, FetchCutShort, FetchServerError
<1> QED
  BY <1>1, <1>2, <1>3, LoadEventKept, StoringKept, AdvanceKept DEF JobStep

(* A step that may set one row back, and end a PATCH.                      *)
LEMMA RowBackKept ==
    ASSUME TypeOK, TypeOK', KeptInv, NEW e \in Events,
           UNCHANGED <<clock, checkedOutAt, cycleNow, pc, job>>, patches' \subseteq patches,
           \A f \in Events \ {e} : event'[f] = event[f],
           event'[e].last <= event[e].last,
           PatchStale'
    PROVE  KeptInv'
<1>0. \A f \in Events : event[f].last \in Nat /\ event'[f].last \in Nat
                         /\ event'[f].last <= event[f].last
  BY DEF TypeOK, Row
<1>1. \A f \in Events : event'[f].last <= cycleNow /\ cycleNow \in Nat
  BY <1>0 DEF KeptInv, HorizonsPast, TypeOK
<1>2. \A f \in Events : JobFresh(f)'
  <2> SUFFICES ASSUME NEW f \in Events PROVE JobFresh(f)'
    OBVIOUS
  <2>1. JobFresh(f) /\ job[f].since \in Int
    BY DEF KeptInv, JobsFresh, TypeOK, Job
  <2> QED
    BY <1>0, <2>1 DEF JobFresh, EventOf
<1>3. PatchStale' /\ JobsFresh'
  BY <1>2 DEF JobsFresh
<1>4. \A p \in patches' : p.last <= cycleNow
  BY DEF KeptInv, HorizonsPast
<1> QED
  BY <1>1, <1>3, <1>4 DEF KeptInv, HorizonsPast

LEMMA PatchReadKept ==
    ASSUME MaxPatches <= 1, TypeOK, TypeOK', KeptInv, NEW e \in Events, PatchRead(e)
    PROVE  KeptInv'
<1>1. patches = {}
  <2>1. ASSUME NEW p \in patches, patches = {p} PROVE FALSE
    <3>1. Cardinality({p}) = 1
      BY FS_Singleton
    <3>2. Cardinality(patches) < MaxPatches /\ MaxPatches \in Nat
      BY FetcherAssumption DEF PatchRead
    <3> QED
      BY <2>1, <3>1, <3>2
  <2> QED
    BY <2>1 DEF KeptInv, PatchStale
<1>2. PICK autoFetch \in BOOLEAN :
        patches' = {[event |-> e, autoFetch |-> autoFetch, last |-> event[e].last]}
  BY <1>1 DEF PatchRead
<1>3. event[e].last \in Nat /\ event[e].last <= cycleNow
  BY DEF TypeOK, Row, KeptInv, HorizonsPast
<1>4. HorizonsPast'
  BY <1>2, <1>3 DEF PatchRead, KeptInv, HorizonsPast
<1>5. PatchStale'
  BY <1>2, <1>3 DEF PatchRead, PatchStale
<1>6. JobsFresh'
  BY DEF PatchRead, KeptInv, JobsFresh, JobFresh, EventOf
<1> QED
  BY <1>4, <1>5, <1>6 DEF KeptInv

LEMMA PatchWriteKept ==
    ASSUME TypeOK, TypeOK', KeptInv, NEW p \in patches, PatchWrite(p) PROVE KeptInv'
<1> DEFINE e == p.event
<1>0. e \in Events
  BY DEF TypeOK, Patch
<1>1. patches' = {}
  BY DEF PatchWrite, KeptInv, PatchStale
<1>2. PatchStale'
  BY <1>1 DEF PatchStale
<1>3. \A f \in Events \ {e} : event'[f] = event[f]
  BY <1>0 DEF PatchWrite, TypeOK
<1>4. event[e].last \in Nat
  BY <1>0 DEF TypeOK, Row
<1>5. event'[e].last <= event[e].last
  <2>1. CASE event[e].exists
    <3>1. event'[e].last \in {event[e].last, p.last} /\ p.last <= event[e].last
      BY <1>0, <2>1 DEF PatchWrite, UpdateEvent, TypeOK, KeptInv, PatchStale
    <3> QED
      BY <1>4, <3>1
  <2>2. CASE ~event[e].exists
    BY <1>4, <2>2 DEF PatchWrite
  <2> QED
    BY <2>1, <2>2
<1> HIDE DEF e
<1> QED
  BY <1>0, <1>1, <1>2, <1>3, <1>5, RowBackKept DEF PatchWrite

LEMMA DeleteEventKept ==
    ASSUME TypeOK, TypeOK', KeptInv, NEW e \in Events, DeleteEvent(e) PROVE KeptInv'
<1>1. event'[e] = NoRow /\ \A f \in Events \ {e} : event'[f] = event[f]
  BY DEF DeleteEvent, TypeOK
<1>2. event'[e].last <= event[e].last /\ ~event'[e].exists
  BY <1>1 DEF NoRow, TypeOK, Row
<1>3. patches' = patches
  BY DEF DeleteEvent
<1>4. PatchStale'
  BY <1>1, <1>2, <1>3 DEF KeptInv, PatchStale, TypeOK, Patch
<1> QED
  BY <1>1, <1>2, <1>3, <1>4, RowBackKept DEF DeleteEvent

(* The time of a check-out that appears is later than none.                *)
LEMMA CheckOutKept ==
    ASSUME TypeOK, TypeOK', KeptInv, NEW d \in Checkouts, CheckOut(d) PROVE KeptInv'
<1>1. \A c \in Checkouts : checkedOutAt'[c] >= checkedOutAt[c]
  BY DEF CheckOut, TypeOK
<1>2. HorizonsPast' /\ PatchStale'
  BY DEF CheckOut, KeptInv, HorizonsPast, PatchStale
<1>3. ASSUME NEW e \in Events PROVE JobFresh(e)'
  <2>1. JobFresh(e) /\ job[e].left \subseteq Checkouts /\ job[e].since \in Int
    BY DEF KeptInv, JobsFresh, TypeOK, Job
  <2>2. \A c \in Checkouts : checkedOutAt[c] \in Nat /\ checkedOutAt'[c] \in Nat
    BY DEF TypeOK
  <2> QED
    BY <1>1, <2>1, <2>2, ConstantTypes DEF CheckOut, JobFresh, EventOf
<1> QED
  BY <1>2, <1>3 DEF KeptInv, JobsFresh

LEMMA BeginCycleKept ==
    ASSUME TypeOK, TypeOK', KeptInv, BeginCycle PROVE KeptInv'
<1>1. HorizonsPast'
  BY DEF BeginCycle, KeptInv, HorizonsPast, TypeOK, Row, Patch
<1>2. PatchStale'
  BY DEF BeginCycle, KeptInv, PatchStale
<1>3. \A e \in Events : pc'[e] \in {"selected", "idle"}
  BY DEF BeginCycle
<1>4. JobsFresh'
  BY <1>3 DEF JobsFresh, JobFresh
<1> QED
  BY <1>1, <1>2, <1>4 DEF KeptInv

LEMMA StepKept ==
    ASSUME MaxPatches <= 1, TypeOK, KeptInv, [Next]_vars PROVE KeptInv'
<1>0. TypeOK'
  BY StepTypeOK
<1>c. clock <= clock /\ clock <= clock + 1
  BY DEF TypeOK
<1>1. CASE Tick \/ Restart \/ Expire \/ Stop \/ RefreshLocationMap \/ UNCHANGED vars
  <2>1. UNCHANGED <<checkedOutAt, event, patches, cycleNow, pc, job>> /\ clock <= clock'
    BY <1>1, <1>c DEF Tick, Restart, Expire, Stop, RefreshLocationMap, vars
  <2> QED
    BY <1>0, <2>1, QuietKept
<1>2. ASSUME Die, UNCHANGED <<pcVars, tables, patches>> PROVE KeptInv'
  BY <1>0, <1>c, <1>2, QuietKept DEF Die
<1>3. CASE LeaveLaunching
  BY <1>0, <1>c, <1>3, QuietKept DEF LeaveLaunching, TypeOK
<1>4. CASE EndCycle
  <2>1. CASE fatal \/ expired \/ stopping
    BY <1>2, <1>4, <2>1 DEF EndCycle
  <2>2. CASE ~(fatal \/ expired \/ stopping)
    BY <1>0, <1>c, <1>4, <2>2, QuietKept DEF EndCycle
  <2> QED
    BY <2>1, <2>2
<1>5. CASE Crash \/ ListFails \/ LeaveRun
  BY <1>2, <1>5 DEF Crash, ListFails, LeaveRun
<1>6. ASSUME NEW e \in Events, JobStep(e) PROVE KeptInv'
  BY <1>0, <1>6, JobStepKept
<1>7. ASSUME NEW c \in Checkouts, CheckOut(c) PROVE KeptInv'
  BY <1>0, <1>7, CheckOutKept
<1>8. CASE RequestStep
  <2>1. ASSUME NEW e \in Events, SyncLocations(e) PROVE KeptInv'
    BY <1>0, <1>c, <2>1, QuietKept DEF SyncLocations
  <2>2. ASSUME NEW c \in Checkouts, SetConfirmed(c) PROVE KeptInv'
    BY <1>0, <1>c, <2>2, QuietKept DEF SetConfirmed
  <2> QED
    BY <1>0, <1>8, <2>1, <2>2, PatchReadKept, PatchWriteKept, DeleteEventKept
    DEF RequestStep
<1> QED
  BY <1>0, <1>1, <1>3, <1>4, <1>5, <1>6, <1>7, <1>8, BeginCycleKept DEF Next, WorkerStep

(* Only the upsert of a row a goroutine holds clears a confirmation while   *)
(* a goroutine moves.                                                      *)
LEMMA OnlyStoringClears ==
    ASSUME TypeOK, [Next]_vars, NEW c \in confirmed, c \notin confirmed', c \in stored',
           NEW e \in Events, job'[e] # job[e]
    PROVE  \E f \in Events : StoreCheckin(f, c)
<1>1. ASSUME NEW d \in Checkouts, SetConfirmed(d) PROVE FALSE
  BY <1>1 DEF SetConfirmed
<1>2. ASSUME NEW f \in Events, DeleteEvent(f) PROVE FALSE
  BY <1>2 DEF DeleteEvent
<1>3. CASE UNCHANGED confirmed
  BY <1>3
<1>4. CASE RequestStep
  BY <1>1, <1>2, <1>3, <1>4 DEF RequestStep, PatchRead, PatchWrite, SyncLocations
<1>5. ASSUME NEW f \in Events, JobStep(f) PROVE \E g \in Events : StoreCheckin(g, c)
  <2>1. ASSUME NEW d \in Checkouts, StoreCheckin(f, d) PROVE StoreCheckin(f, c)
    BY <2>1 DEF StoreCheckin
  <2>2. ASSUME NEW d \in Checkouts, LeaveUnresolved(f, d) PROVE UNCHANGED confirmed
    BY <2>2 DEF LeaveUnresolved
  <2>3. CASE Fetch(f) \/ FetchCutShort(f) \/ FetchServerError(f)
    BY <1>3, <2>3 DEF Fetch, FetchCutShort, FetchServerError, Fetched
  <2>4. CASE Launch(f) \/ LoadEvent(f) \/ LoadEventFails(f) \/ FetchFails(f) \/ GiveUp(f)
             \/ Advance(f) \/ AdvanceFails(f)
    BY <1>3, <2>4
    DEF Launch, LoadEvent, LoadEventFails, FetchFails, GiveUp, Advance, AdvanceFails
  <2> QED
    BY <1>3, <1>5, <2>1, <2>2, <2>3, <2>4 DEF JobStep
<1>6. CASE BeginCycle \/ ListFails \/ LeaveRun \/ LeaveLaunching \/ EndCycle
  BY <1>3, <1>6 DEF BeginCycle, ListFails, LeaveRun, LeaveLaunching, EndCycle
<1>7. CASE Tick \/ Crash \/ Restart \/ Expire \/ Stop \/ RefreshLocationMap \/ UNCHANGED vars
  BY <1>3, <1>7 DEF Tick, Crash, Restart, Expire, Stop, RefreshLocationMap, vars
<1>8. ASSUME NEW d \in Checkouts, CheckOut(d) PROVE FALSE
  BY <1>3, <1>8 DEF CheckOut
<1> QED
  BY <1>4, <1>5, <1>6, <1>7, <1>8 DEF Next, WorkerStep

(* The worker undoes an operator's confirmation only for a check-out that   *)
(* is not behind the event's horizon, for any number of events, check-outs *)
(* and workers and through every failure, when PATCH requests do not       *)
(* overlap (CreateCheckin's upsert; LoadEvent's since).                    *)
THEOREM ConfirmationsKept ==
    ASSUME MaxPatches <= 1 PROVE Spec => ConfirmationKept
<1> DEFINE Kept ==
        \A c \in confirmed :
            c \notin confirmed' /\ c \in stored' /\ (\E e \in Events : job'[e] # job[e])
            => checkedOutAt[c] >= event[EventOf(c)].last - Slack
<1>1. TypeOK /\ KeptInv /\ [Next]_vars => KeptInv'
  BY StepKept
<1>2. ASSUME TypeOK, KeptInv, [Next]_vars PROVE Kept
  <2> SUFFICES ASSUME NEW c \in confirmed, c \notin confirmed', c \in stored',
                      NEW e \in Events, job'[e] # job[e]
               PROVE  checkedOutAt[c] >= event[EventOf(c)].last - Slack
    OBVIOUS
  <2>1. PICK f \in Events : StoreCheckin(f, c)
    BY <1>2, OnlyStoringClears
  <2>2. JobFresh(f) /\ pc[f] = "storing" /\ c \in job[f].left
    BY <1>2, <2>1 DEF StoreCheckin, KeptInv, JobsFresh
  <2>3. EventOf(c) = f /\ checkedOutAt[c] >= job[f].since - Slack
        /\ event[f].last <= job[f].since
    BY <2>2 DEF JobFresh
  <2>4. c \in Checkouts /\ checkedOutAt[c] \in Nat /\ event[f].last \in Nat
        /\ job[f].since \in Int
    BY <1>2 DEF TypeOK, Row, Job
  <2> QED
    BY <2>3, <2>4, ConstantTypes
<1>3. TypeOK /\ KeptInv /\ [Next]_vars => [Kept]_vars
  BY <1>2
<1> QED
  BY <1>1, <1>3, InitKept, TypeCorrect, PTL DEF Spec, ConfirmationKept
=============================================================================
