---------------------------- MODULE CheckWindows ----------------------------
(***************************************************************************)
(* Which events the checkout-fetcher looks at when --use-check-windows is  *)
(* on: activeEventIDs, mergeWindows and localToUTCWeekMinutes of           *)
(* internal/cmd/checkoutsfetcher/cmd.go.  A check window is given in the   *)
(* wall clock of its time zone; the code maps it to minutes of the UTC     *)
(* week that now falls in.  Here time is counted in slots, Day of them to  *)
(* a day, from a Monday 00:00 UTC, and a time zone is the offset it has    *)
(* before and after one change of its clocks.                              *)
(* The loop that merges the ranges is the state machine: a step takes one  *)
(* of the ranges that start first.                                         *)
(***************************************************************************)
EXTENDS Integers, Sequences

CONSTANTS
    Day,        \* slots of a day
    Hour,       \* slots the clocks are moved by
    Zones,      \* time zones: [before, after, at]
    Marks,      \* slots of the local week at which windows start and end
    MaxWindows, \* bound: windows of the event
    From, Until \* bound: the instants looked at

Week == 7 * Day

ASSUME WindowsAssumption ==
    /\ {Day, Hour} \subseteq Nat \ {0} /\ 2 * Hour < Day
    /\ Marks \subseteq 0..Week - 1
    /\ MaxWindows \in Nat /\ From \in Nat /\ Until \in Nat
    /\ Zones \subseteq [before : Int, after : Int, at : Int]
    /\ \A z \in Zones : z.after - z.before \in {-Hour, 0, Hour}

VARIABLES
    now,        \* time.Now
    windows,    \* event_check_windows of one event
    rule        \* which of two instants time.Date gives for a wall clock
                \* that occurs twice or not at all: Go leaves it open
VARIABLES
    rest,       \* mergeWindows: the ranges not yet merged,
    merged      \* and merged

vars == <<now, windows, rule, rest, merged>>

CheckWindow == [start : Marks, end : Marks, zone : Zones]

-----------------------------------------------------------------------------
(* Go's time package.                                                      *)

Local(z, t) == t + IF t < z.at THEN z.before ELSE z.after

(* time.Date: the instant at which the clocks of z show l.                 *)
Date(z, l) ==
    LET early == l - z.before
        late == l - z.after
    IN CASE early < z.at /\ late < z.at -> early
         [] early >= z.at /\ late >= z.at -> late
         [] OTHER -> IF rule = "before" THEN early ELSE late

-----------------------------------------------------------------------------
(* localToUTCWeekMinutes.                                                  *)

WeekStart(t) == t - (t % Week)

(* Mutant: whichever occurrence time.Date gave.                            *)
FirstOccurrenceMutant(z, t) == t

(* Of a wall clock that occurs twice, the first occurrence.                *)
FirstOccurrence(z, t) ==
    IF Local(z, t - Hour) % Day = Local(z, t) % Day THEN t - Hour ELSE t

LocalToUTCWeek(z, mark) ==
    LET target == Date(z, WeekStart(Local(z, now)) + mark)
    IN FirstOccurrence(z, target) - WeekStart(now)

(* mergeWindows: a window whose end comes before its start is cut in two   *)
(* at the end of the UTC week.                                             *)
RangesOf(w) ==
    LET s == LocalToUTCWeek(w.zone, w.start)
        e == LocalToUTCWeek(w.zone, w.end)
    IN IF s <= e THEN {[start |-> s, end |-> e]}
       ELSE {[start |-> s, end |-> Week], [start |-> 0, end |-> e]}

Ranges == UNION {RangesOf(w) : w \in windows}

(* Mutant: a range inside the previous one shortens it.                    *)
CoalesceMutant(r) ==
    IF merged = <<>> \/ merged[Len(merged)].end < r.start THEN Append(merged, r)
    ELSE [merged EXCEPT ![Len(merged)].end = r.end]

Coalesce(r) ==
    IF merged = <<>> \/ merged[Len(merged)].end < r.start THEN Append(merged, r)
    ELSE IF r.end > merged[Len(merged)].end
         THEN [merged EXCEPT ![Len(merged)].end = r.end]
         ELSE merged

(* sort.Slice is not stable: the order of equal starts is arbitrary.       *)
Merge ==
    \E r \in rest :
        /\ \A s \in rest : r.start <= s.start
        /\ merged' = Coalesce(r)
        /\ rest' = rest \ {r}
        /\ UNCHANGED <<now, windows, rule>>

(* activeEventIDs, once all are merged.                                    *)
Contains(r) == r.start <= now % Week /\ now % Week < r.end

ActiveNow == \E i \in DOMAIN merged : Contains(merged[i])

(* eventCheckoutLoop: an event without windows is never skipped.           *)
Selected == windows = {} \/ ActiveNow

-----------------------------------------------------------------------------
Init ==
    /\ now = From
    /\ \E n \in 0..MaxWindows : \E f \in [1..n -> CheckWindow] :
          windows = {f[i] : i \in 1..n}
    /\ rule \in {"before", "after"}
    /\ rest = Ranges /\ merged = <<>>

(* A later cycle, which starts from the windows again.                     *)
Tick ==
    /\ rest = {} /\ now < Until
    /\ now' = now + 1
    /\ UNCHANGED <<windows, rule>>
    /\ rest' = Ranges' /\ merged' = <<>>

Next == Merge \/ Tick

Spec == Init /\ [][Next]_vars

-----------------------------------------------------------------------------
(* What a check window means, by the wall clock of its zone.               *)

Covers(w, local) ==
    LET x == local % Week
    IN IF w.start <= w.end THEN w.start <= x /\ x < w.end
       ELSE x >= w.start \/ x < w.end

(* The wall clock l of zone z occurs twice, or not at all.                 *)
Twice(z, l) == l - z.before < z.at /\ l - z.after >= z.at
Never(z, l) == l - z.before >= z.at /\ l - z.after < z.at

(* At this instant the window means one thing: the hour is not a repeated  *)
(* one, and neither end of the window falls this week into the hour the    *)
(* clocks skip.                                                            *)
Clear(w) ==
    LET local == Local(w.zone, now)
        start == WeekStart(local)
    IN /\ ~Twice(w.zone, local)
       /\ ~Never(w.zone, start + w.start) /\ ~Never(w.zone, start + w.end)

(* An event is looked at exactly when the wall clock of one of its windows *)
(* says so, whatever the offset, wherever the windows lie in the week,     *)
(* overlap, touch or wrap around its end, and across a change of the       *)
(* clocks: a missed window is an hour in which no child is called.         *)
ByWallClock ==
    rest = {} /\ (\A w \in windows : Clear(w)) =>
        (Selected <=> windows = {} \/ \E w \in windows : Covers(w, Local(w.zone, now)))

(* A window that ends in the repeated hour ends at its first occurrence,   *)
(* whichever of the two time.Date picks (the comment on the ambiguous wall *)
(* clock in localToUTCWeekMinutes).                                        *)
EndsOnce ==
    \A w \in windows :
        LET end == WeekStart(Local(w.zone, now)) + w.end
        IN rest = {} /\ windows = {w} /\ w.start < w.end /\ Twice(w.zone, end)
           /\ now >= end - w.zone.before
           => ~Selected
=============================================================================
