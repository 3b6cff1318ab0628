----------------------- MODULE PunctualFetcherProofs -----------------------
(***************************************************************************)
(* Fresh of PunctualFetcher, for any number of events, check-outs, stripes *)
(* and workers, any intervals and delays, and streaks of failures of any   *)
(* length.  Every event has a deadline, by which it is asked for: an       *)
(* update interval and the backoffs of its failures after its horizon.     *)
(***************************************************************************)
EXTENDS PunctualFetcher, CheckoutFetcherProofs, WellFoundedInduction

USE DEF pcVars, tables, process, loop, workerVars

-----------------------------------------------------------------------------
(* Retries adds up.                                                        *)

(* A set that has 0, and n + 1 with n, has all numbers up to m: else there *)
(* were a least one that it has not.                                       *)
LEMMA UpTo ==
    ASSUME NEW m \in Nat, NEW S, 0 \in S, \A n \in 0..(m - 1) : n \in S => n + 1 \in S
    PROVE  0..m \subseteq S
<1> DEFINE T == (0..m) \ S
           R == OpToRel(<, Nat)
<1> SUFFICES ASSUME T # {} PROVE FALSE
  OBVIOUS
<1>1. R = {ss \in Nat \X Nat : ss[1] < ss[2]}
  BY DEF OpToRel
<1>2. IsWellFoundedOn(R, Nat)
  BY NatLessThanWellFounded
<1>3. T \subseteq Nat
  OBVIOUS
<1> HIDE DEF R
<1>4. PICK x \in T : \A y \in T : ~ (<<y, x>> \in R)
  <2> HIDE DEF T
  <2> QED
    BY <1>2, <1>3, WFMin
<1>5. x \in 0..m /\ x \notin S /\ x # 0
  OBVIOUS
<1>6. x - 1 \in 0..(m - 1) /\ (x - 1) + 1 = x /\ x - 1 \in Nat
  BY <1>5
<1>7. x - 1 \in T
  BY <1>5, <1>6
<1>8. <<x - 1, x>> \in R
  BY <1>1, <1>5, <1>6
<1> QED
  BY <1>4, <1>7, <1>8

LEMMA DelayOfOne == ASSUME NEW n \in Nat \ {0} PROVE BackoffDelay(n) \in Nat \ {0}
<1>1. BackoffBase \in Nat \ {0} /\ BackoffMax \in Nat \ {0}
  BY FetcherAssumption
<1> DEFINE k == IF n > 9 THEN 9 ELSE n
<1>2. k \in 1..9
  OBVIOUS
<1>3. Doublings[k] \in Nat \ {0}
  BY <1>2 DEF Doublings
<1>4. BackoffBase * Doublings[k] \in Nat \ {0}
  BY <1>1, <1>3
<1> QED
  BY <1>1, <1>4 DEF BackoffDelay

LEMMA WaitType == ASSUME NEW d \in Nat \ {0} PROVE Wait(d) \in Nat \ {0}
BY FetcherAssumption DEF Wait

(* The equation has a solution on 0..m for every m.                        *)
LEMMA RetriesAre ==
    /\ MaxStreak \in Nat /\ MaxStreak < MaxFailures
    /\ \A n \in 0..MaxStreak :
          Retries[n] = IF n = 0 THEN 0 ELSE Retries[n - 1] + Wait(BackoffDelay(n))
<1>1. MaxStreak \in Nat /\ MaxStreak < MaxFailures
  BY PunctualAssumption, FetcherAssumption
<1> DEFINE w(n) == Wait(BackoffDelay(n))
           Solves(g, m) == g = [n \in 0..m |-> IF n = 0 THEN 0 ELSE g[n - 1] + w(n)]
           S == {m \in Nat : \E g : Solves(g, m)}
<1> HIDE DEF w
<1>2. 0 \in S
  <2> DEFINE g == [n \in 0..0 |-> 0]
  <2>1. Solves(g, 0)
    OBVIOUS
  <2> HIDE DEF g, Solves
  <2> QED
    BY <2>1
<1>3. ASSUME NEW m \in 0..(MaxStreak - 1), m \in S PROVE m + 1 \in S
  <2>1. PICK g : Solves(g, m)
    BY <1>3
  <2>2. /\ \A n \in 0..m : g[n] = IF n = 0 THEN 0 ELSE g[n - 1] + w(n)
    BY <2>1
  <2> DEFINE h == [n \in 0..(m + 1) |-> IF n = m + 1 THEN g[m] + w(m + 1) ELSE g[n]]
  <2>3. m \in Nat /\ m + 1 \in Nat
    BY <1>1
  <2>4. \A n \in 0..(m + 1) : h[n] = IF n = 0 THEN 0 ELSE h[n - 1] + w(n)
    <3>1. ASSUME NEW n \in 0..m PROVE h[n] = IF n = 0 THEN 0 ELSE h[n - 1] + w(n)
      <4>1. h[n] = g[n] /\ (n # 0 => h[n - 1] = g[n - 1])
        BY <2>3
      <4> HIDE DEF h
      <4> QED
        BY <2>2, <4>1
    <3>2. h[m + 1] = h[(m + 1) - 1] + w(m + 1) /\ m + 1 # 0
      BY <2>3
    <3>3. 0..(m + 1) = 0..m \cup {m + 1}
      BY <2>3
    <3> HIDE DEF h
    <3> QED
      BY <3>1, <3>2, <3>3
  <2>5. h = [n \in 0..(m + 1) |-> h[n]]
    OBVIOUS
  <2> HIDE DEF h
  <2>6. Solves(h, m + 1)
    BY <2>4, <2>5
  <2> QED
    BY <2>3, <2>6
<1>4. MaxStreak \in S
  <2> HIDE DEF S
  <2>1. 0..MaxStreak \subseteq S
    BY <1>1, <1>2, <1>3, UpTo
  <2> QED
    BY <1>1, <2>1
<1>5. PICK g : Solves(g, MaxStreak)
  BY <1>4
<1>6. Solves(Retries, MaxStreak)
  BY <1>5 DEF Retries, w
<1> QED
  BY <1>1, <1>6 DEF w

LEMMA RetriesGrow ==
    \A n \in 0..MaxStreak : Retries[n] \in Nat /\ Retries[n] <= Retries[MaxStreak]
<1> DEFINE S == {m \in Nat : m <= MaxStreak => Retries[m] \in Nat}
           T == {k \in Nat : k <= MaxStreak => Retries[MaxStreak - k] <= Retries[MaxStreak]}
<1>1. MaxStreak \in Nat
  BY RetriesAre
<1>2. \A n \in 1..MaxStreak : /\ Retries[n] = Retries[n - 1] + Wait(BackoffDelay(n))
                              /\ Wait(BackoffDelay(n)) \in Nat
  BY <1>1, RetriesAre, DelayOfOne, WaitType
<1>3. 0..MaxStreak \subseteq S
  <2>1. 0 \in S
    BY <1>1, RetriesAre
  <2>2. ASSUME NEW n \in 0..(MaxStreak - 1), n \in S PROVE n + 1 \in S
    <3>1. n \in Nat /\ n + 1 \in 1..MaxStreak /\ (n + 1) - 1 = n /\ n <= MaxStreak
      BY <1>1
    <3> QED
      BY <1>2, <2>2, <3>1
  <2> HIDE DEF S
  <2> QED
    BY <1>1, <2>1, <2>2, UpTo
<1>4. \A n \in 0..MaxStreak : Retries[n] \in Nat
  BY <1>1, <1>3
<1>5. 0..MaxStreak \subseteq T
  <2>1. 0 \in T
    BY <1>1, <1>4
  <2>2. ASSUME NEW k \in 0..(MaxStreak - 1), k \in T PROVE k + 1 \in T
    <3> DEFINE n == MaxStreak - k
    <3>1. n \in 1..MaxStreak /\ n - 1 = MaxStreak - (k + 1) /\ k + 1 \in Nat /\ k <= MaxStreak
      BY <1>1
    <3>2. n - 1 \in 0..MaxStreak /\ n \in 0..MaxStreak /\ MaxStreak \in 0..MaxStreak
      BY <1>1, <3>1
    <3>3. Retries[n] <= Retries[MaxStreak]
      BY <2>2, <3>1
    <3> HIDE DEF n
    <3>4. Retries[n - 1] <= Retries[n]
      BY <1>2, <1>4, <3>1, <3>2
    <3>5. Retries[n - 1] <= Retries[MaxStreak]
      BY <1>4, <3>2, <3>3, <3>4
    <3> QED
      BY <3>1, <3>5
  <2> HIDE DEF T
  <2> QED
    BY <1>1, <2>1, <2>2, UpTo
<1>6. ASSUME NEW n \in 0..MaxStreak PROVE Retries[n] <= Retries[MaxStreak]
  <2>1. MaxStreak - n \in 0..MaxStreak /\ MaxStreak - (MaxStreak - n) = n
    BY <1>1
  <2> QED
    BY <1>5, <2>1
<1> QED
  BY <1>4, <1>6

-----------------------------------------------------------------------------
(* The inductive invariant.                                                *)

(* Nothing but fetches and inserts fails, and nobody else writes.          *)
Steady ==
    /\ up /\ ~expired /\ ~stopping /\ ~fatal /\ patches = {}
    /\ locations = Locations /\ locationMap = Locations
    /\ \A e \in Events :
          /\ event[e].exists /\ event[e].autoFetch
          /\ pc[e] \in {"fetching", "storing"} => job[e].autoFetch

(* A cycle takes no time, and its goroutines do not outlast it.            *)
OnTime ==
    /\ clock >= 1
    /\ phase = "cycle" => cycleNow = clock
    /\ phase = "sleep" => \A e \in Events : pc[e] = "idle"

(* When e is asked for at the latest.                                      *)
Deadline(e) == event[e].last + Wait(UpdateInterval) + Retries[retry[e].failures]

(* A backoff ends so early that the next cycle is in time; an event that   *)
(* this cycle has done with, or passed over, can wait for the next one.    *)
OnSchedule(e) ==
    /\ event[e].last <= clock
    /\ retry[e].failures \in 0..MaxStreak
    /\ IF retry[e].failures = 0 THEN retry[e].until = 0
                                ELSE Wait(retry[e].until) <= Deadline(e)
    /\ clock <= Deadline(e)
    /\ phase = "sleep" => wakeAt <= Deadline(e)
    /\ phase = "cycle" /\ pc[e] = "idle" => clock + Interval <= Deadline(e)

(* A missing check-out is not older than the horizon, but for Planning     *)
(* Center's lateness; and one that the batch has not is no older than the  *)
(* horizon to come.                                                        *)
AheadOf(e) ==
    /\ pc[e] = "fetching" =>
          job[e].since \in {event[e].last, clock - Lookback}
    /\ \A c \in Checkouts : EventOf(c) = e /\ Missing(c) =>
          /\ checkedOutAt[c] >= event[e].last - Delay
          /\ pc[e] = "storing" =>
                c \in job[e].left \cup job[e].unresolved \/ checkedOutAt[c] >= clock - Delay

PunctualInv == Steady /\ OnTime /\ \A e \in Events : OnSchedule(e) /\ AheadOf(e)

(* What every proof of a step needs of the constants and of the types.     *)
LEMMA Bounds ==
    ASSUME TypeOK, PunctualInv
    PROVE  /\ {Interval, UpdateInterval} \subseteq Nat \ {0} /\ {Lookback, Slack, Delay} \subseteq Nat
           /\ Delay <= Slack /\ Wait(UpdateInterval) = UpdateInterval + Interval - 1
           /\ clock \in Nat /\ wakeAt \in Nat /\ cycleNow \in Nat
           /\ \A e \in Events :
                /\ event[e] \in Row /\ event[e].last \in Nat
                /\ retry[e].failures \in 0..MaxStreak /\ retry[e].until \in Nat
                /\ Retries[retry[e].failures] \in Nat /\ Deadline(e) \in Nat
                /\ Deadline(e) <= event[e].last + StalenessBound - Delay
           /\ \A c \in Checkouts : EventOf(c) \in Events /\ checkedOutAt[c] \in Nat
<1>1. /\ {Interval, UpdateInterval} \subseteq Nat \ {0} /\ {Lookback, Slack, Delay} \subseteq Nat
      /\ Delay <= Slack /\ Wait(UpdateInterval) = UpdateInterval + Interval - 1
      /\ clock \in Nat /\ wakeAt \in Nat /\ cycleNow \in Nat
  BY FetcherAssumption, DelayAssumption DEF TypeOK, Wait
<1>2. \A c \in Checkouts : EventOf(c) \in Events /\ checkedOutAt[c] \in Nat
  BY FetcherAssumption DEF TypeOK, EventOf
<1>3. ASSUME NEW e \in Events
      PROVE  /\ event[e] \in Row /\ event[e].last \in Nat
             /\ retry[e].failures \in 0..MaxStreak /\ retry[e].until \in Nat
             /\ Retries[retry[e].failures] \in Nat /\ Deadline(e) \in Nat
             /\ Deadline(e) <= event[e].last + StalenessBound - Delay
  <2>1. /\ event[e] \in Row /\ event[e].last \in Nat
        /\ retry[e].failures \in 0..MaxStreak /\ retry[e].until \in Nat
    BY DEF TypeOK, Row, Retry, PunctualInv, OnSchedule
  <2>2. /\ Retries[retry[e].failures] \in Nat
        /\ Retries[retry[e].failures] <= Retries[MaxStreak] /\ Retries[MaxStreak] \in Nat
    BY <2>1, RetriesAre, RetriesGrow
  <2> QED
    BY <1>1, <2>1, <2>2 DEF Deadline, StalenessBound
<1> QED
  BY <1>1, <1>2, <1>3

LEMMA PunctualStart == TypeOK /\ PunctualInit => PunctualInv
<1> SUFFICES ASSUME TypeOK, PunctualInit PROVE PunctualInv
  OBVIOUS
<1>1. Steady /\ OnTime
  BY DEF PunctualInit, Init, Steady, OnTime
<1>2. ASSUME NEW e \in Events PROVE OnSchedule(e) /\ AheadOf(e)
  <2>1. /\ event[e].last = 0 /\ retry[e] = NoRetry /\ clock = 1 /\ wakeAt = 0 /\ phase = "sleep"
        /\ pc[e] = "idle" /\ \A c \in Checkouts : checkedOutAt[c] = 0
    BY <1>2 DEF PunctualInit, Init
  <2>2. MaxStreak \in Nat /\ Retries[0] = 0
    BY RetriesAre
  <2>3. Wait(UpdateInterval) \in Nat \ {0}
    BY FetcherAssumption, WaitType
  <2>4. OnSchedule(e)
    BY <2>1, <2>2, <2>3 DEF OnSchedule, Deadline, NoRetry
  <2>5. AheadOf(e)
    BY <2>1 DEF AheadOf, Missing, Published
  <2> QED
    BY <2>4, <2>5
<1> QED
  BY <1>1, <1>2 DEF PunctualInv

(* A step that leaves alone what the schedule of e is made of.             *)
LEMMA ScheduleKept ==
    ASSUME NEW e \in Events, OnSchedule(e), clock' = clock,
           event'[e].last = event[e].last, retry'[e] = retry[e],
           phase' = phase, wakeAt' = wakeAt, pc[e] = "idle" <=> pc'[e] = "idle"
    PROVE  OnSchedule(e)'
BY DEF OnSchedule, Deadline

LEMMA AheadKept ==
    ASSUME NEW e \in Events, AheadOf(e), clock' = clock, checkedOutAt' = checkedOutAt,
           event'[e].last = event[e].last, stored \subseteq stored',
           pc'[e] = pc[e], job'[e] = job[e]
    PROVE  AheadOf(e)'
BY DEF AheadOf, Missing, Published, EventOf

-----------------------------------------------------------------------------
(* Steps of one goroutine.                                                 *)

(* The cycle, the tables but for the row of e, and what others do stay.    *)
Alone(e) ==
    /\ UNCHANGED <<clock, checkedOutAt, locations, patches, up, expired, stopping,
                   locationMap, phase, cycleNow, wakeAt, fatal>>
    /\ stored \subseteq stored' /\ phase = "cycle"
    /\ event'[e].exists /\ event'[e].autoFetch
    /\ pc'[e] \in {"fetching", "storing"} => job'[e].autoFetch
    /\ \A f \in Events : f # e =>
          /\ event'[f] = event[f] /\ retry'[f] = retry[f] /\ pc'[f] = pc[f] /\ job'[f] = job[f]

LEMMA AloneKeeps ==
    ASSUME PunctualInv, NEW e \in Events, Alone(e), OnSchedule(e)', AheadOf(e)'
    PROVE  PunctualInv'
<1>1. Steady'
  BY DEF PunctualInv, Steady, Alone
<1>2. OnTime'
  BY DEF PunctualInv, OnTime, Alone
<1>3. ASSUME NEW f \in Events, f # e PROVE OnSchedule(f)' /\ AheadOf(f)'
  <2>1. OnSchedule(f)'
    BY <1>3, ScheduleKept DEF PunctualInv, Alone
  <2>2. AheadOf(f)'
    BY <1>3, AheadKept DEF PunctualInv, Alone
  <2> QED
    BY <2>1, <2>2
<1> QED
  BY <1>1, <1>2, <1>3 DEF PunctualInv

(* One failure more puts the deadline off by its backoff.                  *)
LEMMA FailureInTime ==
    ASSUME TypeOK, PunctualInv, NEW e \in Events, phase = "cycle",
           RecordRetryFailure(e), retry'[e].failures <= MaxStreak, event' = event,
           clock' = clock, phase' = phase
    PROVE  OnSchedule(e)'
<1> DEFINE n == retry[e].failures
           d == BackoffDelay(n + 1)
<1>1. /\ n \in 0..MaxStreak /\ MaxStreak \in Nat /\ MaxStreak < MaxFailures /\ MaxFailures \in Nat
      /\ cycleNow = clock /\ clock \in Nat /\ clock <= Deadline(e) /\ event[e].last <= clock
      /\ event[e].last \in Nat /\ Interval \in Nat \ {0} /\ Wait(UpdateInterval) \in Int
      /\ Deadline(e) \in Nat
  BY Bounds, RetriesAre, FetcherAssumption DEF PunctualInv, OnSchedule, OnTime
<1>2. retry'[e] = [failures |-> n + 1, until |-> clock + d]
  BY <1>1 DEF RecordRetryFailure, FailedOnceMore, TypeOK
<1>3. n + 1 \in 0..MaxStreak /\ n + 1 \in Nat \ {0} /\ (n + 1) - 1 = n
  BY <1>1, <1>2
<1>4. d \in Nat \ {0}
  BY <1>3, DelayOfOne
<1>5. Retries[n + 1] = Retries[n] + Wait(d) /\ Retries[n] \in Nat /\ Wait(d) = d + Interval - 1
  BY <1>1, <1>3, RetriesAre, RetriesGrow DEF Wait
<1>6. Deadline(e)' = Deadline(e) + Wait(d)
  <2>1. Deadline(e)' = event[e].last + Wait(UpdateInterval) + Retries[n + 1]
    BY <1>2 DEF Deadline
  <2>2. Deadline(e) = event[e].last + Wait(UpdateInterval) + Retries[n]
    BY DEF Deadline
  <2>3. Wait(d) \in Int
    BY <1>1, <1>4, <1>5
  <2> HIDE DEF n, d
  <2> QED
    BY <1>1, <1>5, <2>1, <2>2, <2>3
<1>7. Wait(clock + d) = clock + Wait(d)
  BY <1>1, <1>4 DEF Wait
<1> HIDE DEF n, d
<1>8. Deadline(e)' >= clock + Interval /\ Deadline(e)' >= Wait(clock + d)
  BY <1>1, <1>4, <1>5, <1>6, <1>7
<1>9. /\ retry'[e].failures = n + 1 /\ retry'[e].until = clock + d /\ event'[e].last = event[e].last
      /\ retry'[e].failures \in 0..MaxStreak /\ retry'[e].failures # 0
  BY <1>2, <1>3
<1>10. Wait(retry'[e].until) <= Deadline(e)'
  BY <1>8, <1>9
<1>11. clock <= Deadline(e)' /\ clock + Interval <= Deadline(e)'
  <2>1. Deadline(e)' \in Int
    BY <1>1, <1>4, <1>5, <1>6
  <2> QED
    BY <1>1, <1>8, <2>1
<1> HIDE DEF Deadline, Wait
<1> QED
  BY <1>1, <1>9, <1>10, <1>11 DEF OnSchedule

(* What a step of the goroutine of e leaves alone, beside what it changes. *)
LEMMA QuietSchedule ==
    ASSUME PunctualInv, NEW e \in Events, clock' = clock, event' = event, retry' = retry,
           phase' = phase, wakeAt' = wakeAt, pc[e] # "idle", pc'[e] # "idle"
    PROVE  OnSchedule(e)'
BY ScheduleKept DEF PunctualInv

LEMMA LaunchKeeps ==
    ASSUME TypeOK, PunctualInv, NEW e \in Events, phase = "cycle", Launch(e) PROVE PunctualInv'
<1>1. pc[e] = "selected" /\ pc' = [pc EXCEPT ![e] = "launched"] /\ pc'[e] = "launched"
  BY DEF Launch, TypeOK
<1>2. UNCHANGED <<pcVars, tables, patches, process, locationMap, retry, loop, fatal, job>>
  BY DEF Launch
<1>3. OnSchedule(e)'
  BY <1>1, <1>2, QuietSchedule
<1>4. AheadOf(e)'
  BY <1>1, <1>2 DEF PunctualInv, AheadOf, Missing, Published, EventOf
<1>5. Alone(e)
  BY <1>1, <1>2 DEF Alone, PunctualInv, Steady, TypeOK
<1> QED
  BY <1>3, <1>4, <1>5, AloneKeeps

LEMMA LoadEventKeeps ==
    ASSUME TypeOK, PunctualInv, NEW e \in Events, phase = "cycle", LoadEvent(e)
    PROVE  PunctualInv'
<1>1. pc[e] = "launched" /\ pc' = [pc EXCEPT ![e] = "fetching"] /\ pc'[e] = "fetching"
  BY DEF LoadEvent, TypeOK
<1>2. UNCHANGED <<pcVars, tables, patches, process, locationMap, retry, loop, fatal>>
  BY DEF LoadEvent
<1>3. /\ job'[e].autoFetch = event[e].autoFetch
      /\ job'[e].since \in {event[e].last, cycleNow - Lookback}
      /\ \A f \in Events : f # e => job'[f] = job[f]
  BY DEF LoadEvent, TypeOK
<1>4. cycleNow = clock
  BY DEF PunctualInv, OnTime
<1>5. OnSchedule(e)'
  BY <1>1, <1>2, QuietSchedule
<1>6. AheadOf(e)'
  BY <1>1, <1>2, <1>3, <1>4 DEF PunctualInv, AheadOf, Missing, Published, EventOf
<1>7. Alone(e)
  BY <1>1, <1>2, <1>3 DEF Alone, PunctualInv, Steady, TypeOK
<1> QED
  BY <1>5, <1>6, <1>7, AloneKeeps

(* A fetch is shown every check-out that is missing: the horizon it asks   *)
(* from is not so old that the lookback window cuts it off.                *)
LEMMA FetchKeeps ==
    ASSUME TypeOK, PunctualInv, NEW e \in Events, phase = "cycle", Fetch(e)
    PROVE  PunctualInv'
<1>1. pc[e] = "fetching" /\ pc' = [pc EXCEPT ![e] = "storing"] /\ pc'[e] = "storing"
  BY DEF Fetch, Fetched, TypeOK
<1>2. UNCHANGED <<pcVars, tables, patches, process, locationMap, retry, loop, fatal>>
  BY DEF Fetch, Fetched
<1>3. /\ job'[e].autoFetch = job[e].autoFetch /\ job'[e].left = InRange(e)
      /\ \A f \in Events : f # e => job'[f] = job[f]
  BY DEF Fetch, Fetched, TypeOK, Job
<1>4. OnSchedule(e)'
  BY <1>1, <1>2, QuietSchedule
<1>5. /\ clock \in Nat /\ event[e].last \in Nat /\ {Lookback, Slack, Delay} \subseteq Nat
      /\ Delay <= Slack /\ Deadline(e) \in Nat
      /\ Deadline(e) <= event[e].last + StalenessBound - Delay
      /\ clock <= Deadline(e) /\ StalenessBound <= Lookback + Slack
  BY Bounds, LookbackAssumption DEF PunctualInv, OnSchedule
<1>6. StalenessBound \in Nat
  <2>1. Retries[MaxStreak] \in Nat
    BY RetriesAre, RetriesGrow
  <2> QED
    BY <2>1, Bounds DEF StalenessBound
<1>7. ASSUME NEW c \in Checkouts, EventOf(c) = e, Missing(c) PROVE c \in InRange(e)
  <2>1. checkedOutAt[c] \in Nat /\ checkedOutAt[c] >= event[e].last - Delay
    BY <1>7, Bounds DEF PunctualInv, AheadOf
  <2>2. checkedOutAt[c] >= event[e].last - Slack
    BY <1>5, <2>1
  <2>3. checkedOutAt[c] >= clock - Lookback - Slack
    <3>1. clock <= event[e].last + (Lookback + Slack) - Delay
      BY <1>5, <1>6
    <3> QED
      BY <1>5, <2>1, <3>1
  <2>4. job[e].since \in {event[e].last, clock - Lookback}
    BY <1>1 DEF PunctualInv, AheadOf
  <2>5. checkedOutAt[c] >= job[e].since - Slack
    BY <1>5, <2>2, <2>3, <2>4
  <2> QED
    BY <1>7, <2>5 DEF InRange, Missing
<1>8. AheadOf(e)'
  BY <1>1, <1>2, <1>3, <1>7 DEF PunctualInv, AheadOf, Missing, Published, EventOf
<1>9. Alone(e)
  BY <1>1, <1>2, <1>3 DEF Alone, PunctualInv, Steady, TypeOK
<1> QED
  BY <1>4, <1>8, <1>9, AloneKeeps

(* A goroutine that gives its attempt up, for the reasons there are.       *)
LEMMA FailureKeeps ==
    ASSUME TypeOK, PunctualInv, NEW e \in Events, phase = "cycle",
           RecordRetryFailure(e), retry'[e].failures <= MaxStreak, Return(e),
           UNCHANGED <<pcVars, tables, patches, process, locationMap, loop, fatal>>
    PROVE  PunctualInv'
<1>1. pc' = [pc EXCEPT ![e] = "idle"] /\ pc'[e] = "idle" /\ job' = [job EXCEPT ![e] = NoJob]
  BY DEF Return, TypeOK
<1>2. OnSchedule(e)'
  BY FailureInTime
<1>3. AheadOf(e)'
  BY <1>1 DEF PunctualInv, AheadOf, Missing, Published, EventOf
<1>4. Alone(e)
  BY <1>1 DEF Alone, PunctualInv, Steady, TypeOK, RecordRetryFailure
<1> QED
  BY <1>2, <1>3, <1>4, AloneKeeps

LEMMA StoreCheckinKeeps ==
    ASSUME TypeOK, PunctualInv, NEW e \in Events, NEW c \in Checkouts, phase = "cycle",
           StoreCheckin(e, c)
    PROVE  PunctualInv'
<1>1. pc[e] = "storing" /\ pc' = pc /\ stored' = stored \cup {c}
  BY DEF StoreCheckin
<1>2. UNCHANGED <<pcVars, event, locations, patches, process, locationMap, retry, loop, fatal>>
  BY DEF StoreCheckin
<1>3. /\ job'[e].left = job[e].left \ {c} /\ job'[e].unresolved = job[e].unresolved
      /\ job'[e].autoFetch = job[e].autoFetch
      /\ \A f \in Events : f # e => job'[f] = job[f]
  BY DEF StoreCheckin, TypeOK, Job
<1>4. OnSchedule(e)'
  BY <1>1, <1>2, QuietSchedule
<1>5. AheadOf(e)'
  BY <1>1, <1>2, <1>3 DEF PunctualInv, AheadOf, Missing, Published, EventOf
<1>6. Alone(e)
  BY <1>1, <1>2, <1>3 DEF Alone, PunctualInv, Steady
<1> QED
  BY <1>4, <1>5, <1>6, AloneKeeps

LEMMA LeaveUnresolvedKeeps ==
    ASSUME TypeOK, PunctualInv, NEW e \in Events, NEW c \in Checkouts, phase = "cycle",
           LeaveUnresolved(e, c)
    PROVE  PunctualInv'
<1>1. pc[e] = "storing" /\ pc' = pc
  BY DEF LeaveUnresolved
<1>2. UNCHANGED <<pcVars, tables, patches, process, locationMap, retry, loop, fatal>>
  BY DEF LeaveUnresolved
<1>3. /\ job'[e].left = job[e].left \ {c} /\ job'[e].unresolved = job[e].unresolved \cup {c}
      /\ job'[e].autoFetch = job[e].autoFetch
      /\ \A f \in Events : f # e => job'[f] = job[f]
  BY DEF LeaveUnresolved, TypeOK, Job
<1>4. OnSchedule(e)'
  BY <1>1, <1>2, QuietSchedule
<1>5. AheadOf(e)'
  BY <1>1, <1>2, <1>3 DEF PunctualInv, AheadOf, Missing, Published, EventOf
<1>6. Alone(e)
  BY <1>1, <1>2, <1>3 DEF Alone, PunctualInv, Steady
<1> QED
  BY <1>4, <1>5, <1>6, AloneKeeps

(* The horizon moves to now: what the batch had is stored, the rest is     *)
(* younger.                                                                *)
LEMMA AdvanceKeeps ==
    ASSUME TypeOK, PunctualInv, NEW e \in Events, phase = "cycle", Advance(e)
    PROVE  PunctualInv'
<1>1. /\ pc[e] = "storing" /\ job[e].left = {} /\ job[e].unresolved = {}
      /\ pc' = [pc EXCEPT ![e] = "idle"] /\ pc'[e] = "idle" /\ job' = [job EXCEPT ![e] = NoJob]
      /\ retry' = [retry EXCEPT ![e] = NoRetry] /\ retry'[e] = NoRetry
  BY DEF Advance, Return, ResetRetryState, TypeOK
<1>2. UNCHANGED <<pcVars, locations, stored, patches, process, locationMap, loop, fatal>>
  BY DEF Advance
<1>3. /\ cycleNow = clock /\ clock >= 1 /\ clock \in Nat /\ event[e].exists
      /\ job[e].autoFetch
  BY <1>1, Bounds DEF PunctualInv, OnTime, Steady
<1>4. event'[e].exists /\ event'[e].autoFetch /\ event'[e].last = clock
  <2>1. event'[e] = UpdateEvent(event[e], job[e].autoFetch, cycleNow)
    BY DEF Advance, TypeOK
  <2>2. /\ event'[e].exists = event[e].exists /\ event'[e].autoFetch = job[e].autoFetch
        /\ event'[e].last = IF cycleNow = 0 THEN event[e].last ELSE cycleNow
    BY <2>1 DEF UpdateEvent
  <2> QED
    BY <1>3, <2>2
<1>5. \A f \in Events : f # e => event'[f] = event[f]
  BY DEF Advance, TypeOK
<1>6. OnSchedule(e)'
  <2>1. /\ Wait(UpdateInterval) = UpdateInterval + Interval - 1
        /\ {Interval, UpdateInterval} \subseteq Nat \ {0} /\ MaxStreak \in Nat /\ Retries[0] = 0
    BY Bounds, RetriesAre
  <2>2. retry'[e].failures = 0 /\ retry'[e].until = 0 /\ event'[e].last = clock
    BY <1>1, <1>4 DEF NoRetry
  <2>3. Deadline(e)' = clock + Wait(UpdateInterval)
    BY <1>3, <2>1, <2>2 DEF Deadline
  <2>4. clock <= Deadline(e)' /\ clock + Interval <= Deadline(e)'
    BY <1>3, <2>1, <2>3
  <2> QED
    BY <1>2, <1>3, <2>1, <2>2, <2>4 DEF OnSchedule
<1>7. AheadOf(e)'
  BY <1>1, <1>2, <1>4 DEF PunctualInv, AheadOf, Missing, Published, EventOf
<1>8. Alone(e)
  BY <1>1, <1>2, <1>4, <1>5 DEF Alone, TypeOK
<1> QED
  BY <1>6, <1>7, <1>8, AloneKeeps

LEMMA JobStepKeeps ==
    ASSUME TypeOK, PunctualInv, Punctual, NEW e \in Events, JobStep(e)
    PROVE  PunctualInv'
<1>1. ~expired /\ event[e].exists /\ "db" \notin Faults /\ "http5xx" \notin Faults
  BY PunctualAssumption DEF PunctualInv, Steady
<1>2. pc[e] # "idle"
  BY DEF JobStep, Launch, LoadEvent, LoadEventFails, Fetch, FetchCutShort, FetchServerError,
         FetchFails, StoreCheckin, LeaveUnresolved, GiveUp, Advance, AdvanceFails
<1>3. phase = "cycle"
  BY <1>2 DEF PunctualInv, OnTime, TypeOK
<1>4. retry'[e].failures <= MaxStreak
  BY DEF Punctual
<1>5. CASE Launch(e)
  BY <1>3, <1>5, LaunchKeeps
<1>6. CASE LoadEvent(e)
  BY <1>3, <1>6, LoadEventKeeps
<1>7. CASE Fetch(e)
  BY <1>3, <1>7, FetchKeeps
<1>8. CASE FetchFails(e) \/ GiveUp(e)
  BY <1>3, <1>4, <1>8, FailureKeeps DEF FetchFails, GiveUp
<1>9. CASE \E c \in Checkouts : StoreCheckin(e, c) \/ LeaveUnresolved(e, c)
  BY <1>3, <1>9, StoreCheckinKeeps, LeaveUnresolvedKeeps
<1>10. CASE Advance(e)
  BY <1>3, <1>10, AdvanceKeeps
<1>11. CASE LoadEventFails(e) \/ FetchCutShort(e) \/ FetchServerError(e) \/ AdvanceFails(e)
  BY <1>1, <1>11 DEF LoadEventFails, FetchCutShort, FetchServerError, AdvanceFails
<1> QED
  BY <1>5, <1>6, <1>7, <1>8, <1>9, <1>10, <1>11 DEF JobStep

-----------------------------------------------------------------------------
(* Steps of the loop, of the clock and of Planning Center.                 *)

(* Nothing of a goroutine is left to be said while none runs.              *)
LEMMA AheadIdle ==
    ASSUME PunctualInv, NEW e \in Events, event' = event, stored' = stored,
           checkedOutAt' = checkedOutAt, pc'[e] \notin {"fetching", "storing"}
    PROVE  AheadOf(e)'
BY DEF PunctualInv, AheadOf, Missing, Published, EventOf

(* The clock waits for the cycle that is due, and the next is due in time. *)
LEMMA TickKeeps == ASSUME TypeOK, PunctualInv, Tick, Punctual PROVE PunctualInv'
<1>1. clock' = clock + 1 /\ clock \in Nat /\ wakeAt \in Nat /\ phase = "sleep" /\ clock < wakeAt
  BY Bounds DEF Tick, Punctual
<1>2. UNCHANGED <<checkedOutAt, tables, patches, process, locationMap, retry, loop, fatal, pc, job>>
  BY DEF Tick
<1>3. Steady' /\ OnTime'
  BY <1>1, <1>2 DEF PunctualInv, Steady, OnTime
<1>4. ASSUME NEW e \in Events PROVE OnSchedule(e)' /\ AheadOf(e)'
  <2>1. Deadline(e)' = Deadline(e) /\ retry'[e] = retry[e] /\ event'[e] = event[e]
    BY <1>2 DEF Deadline
  <2>2. Deadline(e) \in Nat /\ wakeAt <= Deadline(e) /\ event[e].last <= clock /\ event[e].last \in Nat
    BY <1>1, Bounds DEF PunctualInv, OnSchedule
  <2>3. clock + 1 <= Deadline(e) /\ event[e].last <= clock + 1
    BY <1>1, <2>2
  <2>4. OnSchedule(e)'
    BY <1>1, <1>2, <2>1, <2>2, <2>3 DEF PunctualInv, OnSchedule
  <2>5. pc'[e] = "idle"
    BY <1>1, <1>2 DEF PunctualInv, OnTime
  <2>6. AheadOf(e)'
    BY <1>2, <2>5, AheadIdle
  <2> QED
    BY <2>4, <2>6
<1> QED
  BY <1>3, <1>4 DEF PunctualInv

LEMMA CheckOutKeeps ==
    ASSUME TypeOK, PunctualInv, NEW c \in Checkouts, CheckOut(c) PROVE PunctualInv'
<1>1. UNCHANGED <<clock, tables, patches, process, locationMap, retry, loop, fatal, pc, job>>
  BY DEF CheckOut
<1>2. PICK t \in 1..clock : t >= clock - Delay /\ checkedOutAt' = [checkedOutAt EXCEPT ![c] = t]
  BY DEF CheckOut
<1>3. /\ checkedOutAt'[c] = t /\ t \in Nat /\ checkedOutAt[c] = 0
      /\ \A d \in Checkouts : d # c => checkedOutAt'[d] = checkedOutAt[d]
  BY <1>2, Bounds DEF TypeOK, CheckOut
<1>4. Steady' /\ OnTime'
  BY <1>1 DEF PunctualInv, Steady, OnTime
<1>5. ASSUME NEW e \in Events PROVE OnSchedule(e)' /\ AheadOf(e)'
  <2>1. OnSchedule(e)'
    BY <1>1, ScheduleKept DEF PunctualInv
  <2>2. event[e].last <= clock /\ event[e].last \in Nat /\ Delay \in Nat /\ clock \in Nat
    BY Bounds DEF PunctualInv, OnSchedule
  <2>3. t >= event[e].last - Delay /\ t >= clock - Delay
    BY <1>2, <1>3, <2>2
  <2>4. AheadOf(e)'
    BY <1>1, <1>3, <2>3 DEF PunctualInv, AheadOf, Missing, Published, EventOf
  <2> QED
    BY <2>1, <2>4
<1> QED
  BY <1>4, <1>5 DEF PunctualInv

(* An event that the cycle passes over is asked for soon enough by the     *)
(* next: it is not due yet, or its backoff is still running.               *)
LEMMA BeginCycleKeeps == ASSUME TypeOK, PunctualInv, BeginCycle PROVE PunctualInv'
<1>1. /\ UNCHANGED <<pcVars, tables, patches, process, locationMap, wakeAt, fatal, job>>
      /\ phase = "sleep" /\ phase' = "cycle" /\ cycleNow' = clock
  BY DEF BeginCycle
<1>2. Active = Events
  BY DEF PunctualInv, Steady, Active
<1>3. PruneRetryStates = retry /\ retry' = retry
  BY <1>2 DEF PruneRetryStates, BeginCycle, TypeOK
<1>4. pc' = [e \in Events |-> IF Due(e) /\ ~(retry[e].until > clock) THEN "selected" ELSE "idle"]
  BY <1>2, <1>3, PunctualAssumption DEF BeginCycle, InRetryBackoff
<1>5. Steady' /\ OnTime'
  BY <1>1, <1>4 DEF PunctualInv, Steady, OnTime
<1>6. ASSUME NEW e \in Events PROVE OnSchedule(e)' /\ AheadOf(e)'
  <2>1. Deadline(e)' = Deadline(e) /\ retry'[e] = retry[e] /\ event'[e] = event[e]
    BY <1>1, <1>3 DEF Deadline
  <2>2. /\ clock \in Nat /\ event[e].last \in Nat /\ Deadline(e) \in Nat
        /\ {Interval, UpdateInterval} \subseteq Nat \ {0} /\ retry[e].until \in Nat
        /\ retry[e].failures \in 0..MaxStreak /\ Retries[retry[e].failures] \in Nat
        /\ Wait(UpdateInterval) = UpdateInterval + Interval - 1
    BY Bounds
  <2>3. ASSUME pc'[e] = "idle" PROVE clock + Interval <= Deadline(e)
    <3>1. CASE ~ Due(e)
      <4>1. clock - event[e].last < UpdateInterval
        BY <2>2, <3>1 DEF Due
      <4> QED
        BY <2>2, <4>1 DEF Deadline
    <3>2. CASE retry[e].until > clock
      <4>1. Wait(retry[e].until) <= Deadline(e)
        BY <2>2, <3>2 DEF PunctualInv, OnSchedule
      <4>2. Wait(retry[e].until) = retry[e].until + Interval - 1
        BY DEF Wait
      <4> HIDE DEF Deadline
      <4> QED
        BY <2>2, <3>2, <4>1, <4>2
    <3> QED
      BY <1>4, <2>3, <3>1, <3>2
  <2>4. OnSchedule(e)'
    BY <1>1, <2>1, <2>3 DEF PunctualInv, OnSchedule
  <2>5. pc'[e] \notin {"fetching", "storing"}
    BY <1>4
  <2>6. AheadOf(e)'
    BY <1>1, <2>5, AheadIdle
  <2> QED
    BY <2>4, <2>6
<1> QED
  BY <1>5, <1>6 DEF PunctualInv

(* The cycle took no time: the timer is armed for the whole interval.      *)
LEMMA EndCycleKeeps == ASSUME TypeOK, PunctualInv, EndCycle PROVE PunctualInv'
<1>1. /\ phase = "cycle" /\ cycleNow = clock /\ clock \in Nat /\ Interval \in Nat \ {0}
      /\ \A e \in Events : pc[e] = "idle"
  BY Bounds DEF EndCycle, PunctualInv, OnTime
<1>2. /\ UNCHANGED <<pcVars, tables, patches, process, locationMap, retry, cycleNow, fatal, pc, job>>
      /\ phase' = "sleep"
      /\ wakeAt' = LET rest == cycleNow + Interval - clock
                   IN clock + IF rest > 0 THEN rest ELSE Interval \div 2
  BY DEF EndCycle, PunctualInv, Steady
<1>3. cycleNow + Interval - clock = Interval
  BY <1>1
<1>4. wakeAt' = clock + Interval
  BY <1>1, <1>2, <1>3
<1>5. Steady' /\ OnTime'
  BY <1>1, <1>2 DEF PunctualInv, Steady, OnTime
<1>6. ASSUME NEW e \in Events PROVE OnSchedule(e)' /\ AheadOf(e)'
  <2>1. Deadline(e)' = Deadline(e) /\ retry'[e] = retry[e] /\ event'[e] = event[e]
    BY <1>2 DEF Deadline
  <2>2. OnSchedule(e)'
    BY <1>1, <1>2, <1>4, <2>1 DEF PunctualInv, OnSchedule
  <2>3. AheadOf(e)'
    BY <1>1, <1>2, AheadIdle
  <2> QED
    BY <2>2, <2>3
<1> QED
  BY <1>5, <1>6 DEF PunctualInv

LEMMA StutterKeeps == ASSUME PunctualInv, UNCHANGED vars PROVE PunctualInv'
<1>1. Steady' /\ OnTime'
  BY DEF PunctualInv, Steady, OnTime, vars
<1>2. ASSUME NEW e \in Events PROVE OnSchedule(e)' /\ AheadOf(e)'
  BY ScheduleKept, AheadKept DEF PunctualInv, vars
<1> QED
  BY <1>1, <1>2 DEF PunctualInv

LEMMA StepKeeps == ASSUME TypeOK, PunctualInv, [Next /\ Punctual]_vars PROVE PunctualInv'
<1>1. /\ up /\ ~expired /\ ~stopping /\ patches = {} /\ locationMap = locations
      /\ Requests = {} /\ Faults \cap {"crash", "expire", "stop", "db"} = {}
  BY PunctualAssumption DEF PunctualInv, Steady
<1>2. CASE UNCHANGED vars
  BY <1>2, StutterKeeps
<1>3. CASE Tick /\ Punctual
  BY <1>3, TickKeeps
<1>4. CASE \E c \in Checkouts : CheckOut(c)
  BY <1>4, CheckOutKeeps
<1>5. CASE Crash \/ Restart \/ Expire \/ Stop \/ RefreshLocationMap
  BY <1>1, <1>5 DEF Crash, Restart, Expire, Stop, RefreshLocationMap
<1>6. CASE BeginCycle
  BY <1>6, BeginCycleKeeps
<1>7. CASE ListFails \/ LeaveRun \/ LeaveLaunching
  BY <1>1, <1>7 DEF ListFails, LeaveRun, LeaveLaunching
<1>8. CASE EndCycle
  BY <1>8, EndCycleKeeps
<1>9. CASE (\E e \in Events : JobStep(e)) /\ Punctual
  BY <1>9, JobStepKeeps
<1>10. CASE RequestStep
  BY <1>1, <1>10 DEF RequestStep, PatchRead, DeleteEvent, SyncLocations, SetConfirmed
<1> QED
  BY <1>2, <1>3, <1>4, <1>5, <1>6, <1>7, <1>8, <1>9, <1>10 DEF Next, WorkerStep

-----------------------------------------------------------------------------

(* A worker that keeps up is a worker: its variables have their types.     *)
LEMMA PunctualTypes == PunctualSpec => []TypeOK
<1>1. PunctualInit => Init
  BY DEF PunctualInit
<1>2. [Next /\ Punctual]_vars => [Next]_vars
  OBVIOUS
<1> QED
  BY <1>1, <1>2, TypeCorrect, PTL DEF PunctualSpec, Spec

(* Every event keeps the schedule that its failures and intervals give it, *)
(* whatever the number of events that share the workers and the stripes    *)
(* (cmd.go, eventCheckoutLoop and recordRetryFailure).                     *)
THEOREM PunctualInvariant == PunctualSpec => []PunctualInv
<1>1. TypeOK /\ PunctualInit => PunctualInv
  BY PunctualStart
<1>2. TypeOK /\ PunctualInv /\ [Next /\ Punctual]_vars => PunctualInv'
  BY StepKeeps
<1> QED
  BY <1>1, <1>2, PunctualTypes, PTL DEF PunctualSpec

(* The retry and backoff schedule bounds how long a check-out can stay     *)
(* unstored, so that none ages out of the lookback window (cmd.go,         *)
(* recordRetryFailure): between two cycles, what is missing is younger     *)
(* than the deadline of its event allows.                                  *)
THEOREM StaysFresh == PunctualSpec => []Fresh
<1>1. ASSUME TypeOK, PunctualInv, NEW c \in Checkouts, phase = "sleep", clock < wakeAt, Missing(c)
      PROVE  clock + 1 - checkedOutAt[c] <= StalenessBound
  <2> DEFINE e == EventOf(c)
  <2>1. e \in Events /\ checkedOutAt[c] \in Nat /\ clock \in Nat /\ wakeAt \in Nat /\ Delay \in Nat
    BY <1>1, Bounds
  <2>2. /\ event[e].last \in Nat /\ Deadline(e) \in Nat
        /\ Deadline(e) <= event[e].last + StalenessBound - Delay
    BY <1>1, <2>1, Bounds
  <2>3. wakeAt <= Deadline(e) /\ checkedOutAt[c] >= event[e].last - Delay
    BY <1>1, <2>1 DEF PunctualInv, OnSchedule, AheadOf
  <2>4. StalenessBound \in Nat
    BY <1>1, RetriesAre, RetriesGrow, Bounds DEF StalenessBound
  <2> HIDE DEF e
  <2> QED
    BY <1>1, <2>1, <2>2, <2>3, <2>4
<1>2. TypeOK /\ PunctualInv => Fresh
  BY <1>1 DEF Fresh
<1> QED
  BY <1>2, PunctualTypes, PunctualInvariant, PTL
=============================================================================
