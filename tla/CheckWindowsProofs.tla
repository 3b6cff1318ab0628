------------------------- MODULE CheckWindowsProofs -------------------------
(***************************************************************************)
(* ByWallClock and EndsOnce of CheckWindows, for any zones whose clocks    *)
(* change by an hour at most, any number of windows between any marks of   *)
(* the week, and any instant.                                              *)
(*                                                                         *)
(* The first section is about one window: its ranges contain now exactly   *)
(* when it covers the wall clock.  The second is about the loop: merging   *)
(* neither adds an instant nor drops one, in whichever order ranges that   *)
(* start together are taken.                                               *)
(***************************************************************************)
EXTENDS CheckWindows, TLAPS

-----------------------------------------------------------------------------
(* Days and weeks.                                                         *)

(* A wall clock moved by less than a day is another one.                   *)
LEMMA OtherTimeOfDay ==
    ASSUME NEW t \in Int, NEW k \in 1..(Day - 1)
    PROVE  (t + k) % Day # t % Day
<1>1. Day \in Nat \ {0}
  BY WindowsAssumption
<1> SUFFICES ASSUME (t + k) % Day = t % Day PROVE FALSE
  OBVIOUS
<1> DEFINE p == t \div Day
           q == (t + k) \div Day
<1>2. p \in Int /\ q \in Int /\ t = Day * p + (t % Day) /\ t + k = Day * q + ((t + k) % Day)
  BY <1>1
<1>3. Day * q - Day * p = k
  BY <1>1, <1>2
<1>4. Day * (q - p) = k
  BY <1>1, <1>2, <1>3
<1> HIDE DEF p, q
<1>5. q - p <= 0 => Day * (q - p) <= 0
  BY <1>1, <1>2
<1>6. q - p >= 1 => Day * (q - p) >= Day
  BY <1>1, <1>2
<1>7. q - p \in Int /\ (q - p <= 0 \/ q - p >= 1)
  BY <1>2
<1> QED
  BY <1>1, <1>4, <1>5, <1>6, <1>7

LEMMA WeekType == Week \in Nat \ {0}
BY WindowsAssumption DEF Week

LEMMA InWeek ==
    ASSUME NEW t \in Int
    PROVE  /\ t % Week \in 0..(Week - 1)
           /\ WeekStart(t) \in Int /\ t = WeekStart(t) + (t % Week)
BY WeekType DEF WeekStart

-----------------------------------------------------------------------------
(* Time zones.                                                             *)

ZoneTypes(z) ==
    /\ z.before \in Int /\ z.after \in Int /\ z.at \in Int
    /\ z.after - z.before \in {-Hour, 0, Hour}

LEMMA ZoneTyped == ASSUME NEW z \in Zones PROVE ZoneTypes(z)
BY WindowsAssumption DEF ZoneTypes

(* The first instant at which the clocks of z show l, which they do.       *)
First(z, l) == IF l - z.before < z.at THEN l - z.before ELSE l - z.after

(* Whichever occurrence time.Date gives, FirstOccurrence is the first.     *)
LEMMA FirstFound ==
    ASSUME NEW z \in Zones, NEW l \in Int, ~Never(z, l)
    PROVE  /\ FirstOccurrence(z, Date(z, l)) = First(z, l)
           /\ First(z, l) \in Int
<1> DEFINE early == l - z.before
           late == l - z.after
<1>1. /\ Hour \in 1..(Day - 1) /\ 2 * Hour \in 1..(Day - 1) /\ Day \in Nat \ {0}
      /\ z.before \in Int /\ z.after \in Int /\ z.at \in Int
      /\ z.after - z.before \in {-Hour, 0, Hour}
      /\ early \in Int /\ late \in Int
  BY ZoneTyped, WindowsAssumption DEF ZoneTypes
<1>2. early < z.at \/ late >= z.at
  BY <1>1 DEF Never
<1> HIDE DEF early, late
<1>3. /\ early = l - z.before /\ late = l - z.after
      /\ First(z, l) = IF early < z.at THEN early ELSE late
      /\ Date(z, l) = IF early < z.at /\ late < z.at THEN early
                      ELSE IF early >= z.at /\ late >= z.at THEN late
                      ELSE IF rule = "before" THEN early ELSE late
  BY <1>1 DEF First, Date, early, late
<1>4. (l - Hour) % Day # l % Day /\ (l - 2 * Hour) % Day # l % Day
  <2>1. l - Hour \in Int /\ l - 2 * Hour \in Int
    BY <1>1
  <2>2. (l - Hour + Hour) % Day # (l - Hour) % Day
    BY <1>1, <2>1, OtherTimeOfDay
  <2>3. (l - 2 * Hour + 2 * Hour) % Day # (l - 2 * Hour) % Day
    BY <1>1, <2>1, OtherTimeOfDay
  <2>4. l - Hour + Hour = l /\ l - 2 * Hour + 2 * Hour = l
    BY <1>1
  <2> QED
    BY <2>2, <2>3, <2>4
<1>5. ASSUME early < z.at PROVE FirstOccurrence(z, early) = early
  <2>1. Local(z, early - Hour) = l - Hour /\ Local(z, early) = l
    BY <1>1, <1>3, <1>5 DEF Local
  <2> QED
    BY <1>4, <2>1 DEF FirstOccurrence
<1>6. ASSUME early < z.at, late >= z.at PROVE FirstOccurrence(z, late) = early
  <2>1. late - Hour = early
    BY <1>1, <1>3, <1>6
  <2>2. Local(z, late - Hour) = l /\ Local(z, late) = l
    BY <1>1, <1>3, <1>6, <2>1 DEF Local
  <2> QED
    BY <2>1, <2>2 DEF FirstOccurrence
<1>7. ASSUME early >= z.at, late >= z.at PROVE FirstOccurrence(z, late) = late
  <2>1. Local(z, late) = l
    BY <1>1, <1>3, <1>7 DEF Local
  <2>2. Local(z, late - Hour) \in {l - Hour, l - 2 * Hour}
    BY <1>1, <1>3, <1>7 DEF Local
  <2> QED
    BY <1>4, <2>1, <2>2 DEF FirstOccurrence
<1>8. Date(z, l) \in {early, late} /\ early \in Int /\ late \in Int
  BY <1>1, <1>3
<1>9. CASE early < z.at /\ late < z.at
  BY <1>3, <1>5, <1>8, <1>9
<1>10. CASE early < z.at /\ late >= z.at
  BY <1>3, <1>5, <1>6, <1>8, <1>10
<1>11. CASE early >= z.at /\ late >= z.at
  <2>1. ~(early < z.at)
    BY <1>1, <1>11
  <2> QED
    BY <1>3, <1>7, <1>8, <1>11, <2>1
<1> QED
  BY <1>1, <1>2, <1>9, <1>10, <1>11

(* Later on the wall clock is later.                                       *)
LEMMA FirstLater ==
    ASSUME NEW z \in Zones, NEW l \in Int, NEW k \in Int, ~Never(z, l), ~Never(z, k)
    PROVE  First(z, l) <= First(z, k) <=> l <= k
BY ZoneTyped, WindowsAssumption DEF First, Never, ZoneTypes

(* Outside the repeated hour the first occurrence of l is past when the    *)
(* clocks have reached l.                                                  *)
LEMMA FirstPast ==
    ASSUME NEW z \in Zones, NEW l \in Int, ~Never(z, l), NEW t \in Int,
           ~Twice(z, Local(z, t))
    PROVE  First(z, l) <= t <=> l <= Local(z, t)
BY ZoneTyped, WindowsAssumption DEF First, Never, Twice, Local, ZoneTypes

-----------------------------------------------------------------------------
(* One window.                                                             *)

Instants == now \in Nat /\ windows \subseteq CheckWindow

(* Now is between the ends of w, or not, or w wraps around.                *)
Between(w) ==
    LET start == First(w.zone, WeekStart(Local(w.zone, now)) + w.start)
        end == First(w.zone, WeekStart(Local(w.zone, now)) + w.end)
    IN IF start <= end THEN start <= now /\ now < end ELSE start <= now \/ now < end

LEMMA WindowTyped ==
    ASSUME Instants, NEW w \in windows
    PROVE  /\ w.zone \in Zones /\ w.start \in 0..(Week - 1) /\ w.end \in 0..(Week - 1)
           /\ Local(w.zone, now) \in Int
           /\ WeekStart(Local(w.zone, now)) \in Int
<1>1. w.zone \in Zones /\ w.start \in Marks /\ w.end \in Marks
  BY DEF Instants, CheckWindow
<1>2. Local(w.zone, now) \in Int
  BY <1>1, ZoneTyped DEF Local, ZoneTypes, Instants
<1> QED
  BY <1>1, <1>2, InWeek, WindowsAssumption

LEMMA RangesContain ==
    ASSUME Instants, NEW w \in windows,
           ~Never(w.zone, WeekStart(Local(w.zone, now)) + w.start),
           ~Never(w.zone, WeekStart(Local(w.zone, now)) + w.end)
    PROVE  (\E r \in RangesOf(w) : Contains(r)) <=> Between(w)
<1> DEFINE ls == WeekStart(Local(w.zone, now)) + w.start
           le == WeekStart(Local(w.zone, now)) + w.end
           s == First(w.zone, ls)
           e == First(w.zone, le)
           base == WeekStart(now)
<1>1. w.zone \in Zones /\ ls \in Int /\ le \in Int /\ Week \in Nat \ {0}
  BY WindowTyped, WeekType
<1>2. /\ LocalToUTCWeek(w.zone, w.start) = s - base
      /\ LocalToUTCWeek(w.zone, w.end) = e - base
      /\ s \in Int /\ e \in Int
  BY <1>1, FirstFound DEF LocalToUTCWeek
<1>3. base \in Int /\ now \in Int /\ now % Week = now - base /\ now % Week \in 0..(Week - 1)
  <2>1. now \in Int
    BY DEF Instants
  <2> QED
    BY <2>1, InWeek, WeekType
<1>4. Between(w) = IF s <= e THEN s <= now /\ now < e ELSE s <= now \/ now < e
  BY DEF Between
<1> HIDE DEF ls, le, s, e, base
<1>5. CASE s <= e
  <2>1. RangesOf(w) = {[start |-> s - base, end |-> e - base]}
    BY <1>2, <1>3, <1>5 DEF RangesOf
  <2>2. Contains([start |-> s - base, end |-> e - base]) <=> s <= now /\ now < e
    BY <1>2, <1>3 DEF Contains
  <2> QED
    BY <1>4, <1>5, <2>1, <2>2
<1>6. CASE ~(s <= e)
  <2>1. RangesOf(w) = {[start |-> s - base, end |-> Week], [start |-> 0, end |-> e - base]}
    BY <1>2, <1>3, <1>6 DEF RangesOf
  <2>2. Contains([start |-> s - base, end |-> Week]) <=> s <= now
    BY <1>1, <1>2, <1>3 DEF Contains
  <2>3. Contains([start |-> 0, end |-> e - base]) <=> now < e
    BY <1>2, <1>3 DEF Contains
  <2> QED
    BY <1>4, <1>6, <2>1, <2>2, <2>3
<1> QED
  BY <1>5, <1>6

LEMMA WindowCovers ==
    ASSUME Instants, NEW w \in windows, Clear(w)
    PROVE  (\E r \in RangesOf(w) : Contains(r)) <=> Covers(w, Local(w.zone, now))
<1> DEFINE local == Local(w.zone, now)
           week == WeekStart(local)
<1>1. /\ w.zone \in Zones /\ w.start \in Int /\ w.end \in Int
      /\ local \in Int /\ week \in Int /\ now \in Int
      /\ week + w.start \in Int /\ week + w.end \in Int
  BY WindowTyped DEF Instants
<1>2. local % Week = local - week
  BY <1>1, InWeek
<1>3. /\ ~Twice(w.zone, local)
      /\ ~Never(w.zone, week + w.start) /\ ~Never(w.zone, week + w.end)
  BY DEF Clear
<1>4. Between(w) <=> Covers(w, local)
  <2> DEFINE s == First(w.zone, week + w.start)
             e == First(w.zone, week + w.end)
  <2>1. s <= e <=> week + w.start <= week + w.end
    BY <1>1, <1>3, FirstLater
  <2>2. s <= now <=> week + w.start <= local
    BY <1>1, <1>3, FirstPast
  <2>3. e <= now <=> week + w.end <= local
    BY <1>1, <1>3, FirstPast
  <2>4. s \in Int /\ e \in Int
    BY <1>1, <1>3, FirstFound
  <2>5. Between(w) <=> IF s <= e THEN s <= now /\ now < e ELSE s <= now \/ now < e
    BY DEF Between
  <2>6. Covers(w, local) <=> IF w.start <= w.end THEN w.start <= local - week /\ local - week < w.end
                             ELSE local - week >= w.start \/ local - week < w.end
    BY <1>2 DEF Covers
  <2> HIDE DEF s, e, local, week
  <2> QED
    BY <1>1, <2>1, <2>2, <2>3, <2>4, <2>5, <2>6
<1> QED
  BY <1>3, <1>4, RangesContain

(* The repeated hour: a window that ends in it has ended once it has been  *)
(* reached, for both ends of the window lie at first occurrences.          *)
LEMMA WindowEnds ==
    ASSUME Instants, NEW w \in windows, w.start < w.end,
           Twice(w.zone, WeekStart(Local(w.zone, now)) + w.end),
           now >= (WeekStart(Local(w.zone, now)) + w.end) - w.zone.before
    PROVE  ~\E r \in RangesOf(w) : Contains(r)
<1> DEFINE z == w.zone
           week == WeekStart(Local(z, now))
           ls == week + w.start
           le == week + w.end
<1>1. /\ z \in Zones /\ week \in Int /\ w.start \in Int /\ w.end \in Int /\ now \in Int
      /\ Twice(z, le) /\ now >= le - z.before
  BY WindowTyped, WeekType DEF Instants
<1>2. ls \in Int /\ le \in Int /\ ls < le
  BY <1>1
<1> HIDE DEF ls, le
<1>3. /\ ~Never(z, ls) /\ ~Never(z, le)
      /\ First(z, ls) <= First(z, le) /\ First(z, le) = le - z.before
  BY <1>1, <1>2, ZoneTyped, WindowsAssumption DEF First, Never, Twice, ZoneTypes
<1>4. First(z, le) \in Int
  BY <1>1, <1>2, <1>3, FirstFound
<1>5. ~(First(z, ls) <= now /\ now < First(z, le))
  BY <1>1, <1>3, <1>4
<1>6. ~Between(w)
  BY <1>3, <1>5 DEF Between, ls, le
<1> QED
  BY <1>3, <1>6, RangesContain DEF ls, le

-----------------------------------------------------------------------------
(* The loop.                                                               *)

RangeType == [start : Int, end : Int]

(* Merged are ranges that start no later than those of rest; they and rest *)
(* contain now if and only if the windows' ranges do.                      *)
MergeInv ==
    /\ Instants
    /\ merged \in Seq(RangeType) /\ rest \subseteq RangeType
    /\ merged # <<>> => \A r \in rest : merged[Len(merged)].start <= r.start
    /\ (\E r \in Ranges : Contains(r)) <=> ActiveNow \/ \E r \in rest : Contains(r)

LEMMA RangesTyped == Instants => Ranges \subseteq RangeType
<1> SUFFICES ASSUME Instants, NEW w \in windows PROVE RangesOf(w) \subseteq RangeType
  BY DEF Ranges
<1>1. /\ w.zone \in Zones /\ w.start \in Int /\ w.end \in Int
      /\ now \in Int /\ WeekStart(now) \in Int /\ Week \in Int
      /\ WeekStart(Local(w.zone, now)) \in Int
  BY WindowTyped, WeekType, InWeek DEF Instants
<1>2. ASSUME NEW l \in Int PROVE FirstOccurrence(w.zone, Date(w.zone, l)) \in Int
  <2>1. Date(w.zone, l) \in Int
    BY <1>1, ZoneTyped DEF Date, ZoneTypes
  <2> QED
    BY <2>1, WindowsAssumption DEF FirstOccurrence
<1>3. \A m \in {w.start, w.end} : LocalToUTCWeek(w.zone, m) \in Int
  BY <1>1, <1>2 DEF LocalToUTCWeek
<1> QED
  BY <1>1, <1>3 DEF RangesOf, RangeType

LEMMA RangesStayTyped == (Instants => Ranges \subseteq RangeType)'
BY RangesTyped, PTL

(* A range that starts in the last one, or touches it, is where the longer *)
(* of the two ends.                                                        *)
LEMMA CoalesceKeeps ==
    ASSUME MergeInv, NEW r \in RangeType,
           merged # <<>> => merged[Len(merged)].start <= r.start
    PROVE  /\ Coalesce(r) \in Seq(RangeType) /\ Coalesce(r) # <<>>
           /\ Coalesce(r)[Len(Coalesce(r))].start <= r.start
           /\ (\E i \in DOMAIN Coalesce(r) : Contains(Coalesce(r)[i])) <=> ActiveNow \/ Contains(r)
<1> DEFINE n == Len(merged)
           last == merged[n]
           new == Coalesce(r)
<1>1. merged \in Seq(RangeType) /\ n \in Nat /\ r.start \in Int /\ r.end \in Int
  BY DEF MergeInv, RangeType
<1>2. CASE merged = <<>> \/ last.end < r.start
  <2>1. new = Append(merged, r)
    BY <1>2 DEF Coalesce
  <2>2. /\ new \in Seq(RangeType) /\ Len(new) = n + 1 /\ new[n + 1] = r
        /\ \A i \in 1..n : new[i] = merged[i]
    BY <1>1, <2>1
  <2> HIDE DEF new, n
  <2>3. DOMAIN merged = 1..n /\ DOMAIN new = 1..(n + 1)
    BY <1>1, <2>2 DEF n
  <2>4. 1..(n + 1) = 1..n \cup {n + 1}
    BY <1>1
  <2>5. new # <<>> /\ new[Len(new)].start <= r.start
    BY <1>1, <2>2
  <2>6. (\E i \in DOMAIN new : Contains(new[i])) <=> ActiveNow \/ Contains(r)
    BY <2>2, <2>3, <2>4 DEF ActiveNow
  <2> QED
    BY <2>2, <2>5, <2>6 DEF new
<1>3. CASE merged # <<>> /\ ~(last.end < r.start)
  <2>1. n >= 1 /\ last \in RangeType
    BY <1>1, <1>3
  <2>2. last.start \in Int /\ last.end \in Int /\ last.start <= r.start /\ r.start <= last.end
    BY <1>1, <1>3, <2>1 DEF RangeType
  <2> DEFINE longer == [start |-> last.start, end |-> IF r.end > last.end THEN r.end ELSE last.end]
  <2>3. new = [merged EXCEPT ![n] = longer]
    <3>1. CASE r.end > last.end
      <4>1. [last EXCEPT !.end = r.end] = longer
        BY <2>1, <3>1 DEF RangeType
      <4> HIDE DEF longer
      <4> QED
        BY <1>1, <1>3, <3>1, <4>1 DEF Coalesce
    <3>2. CASE ~(r.end > last.end)
      <4>1. last = longer
        BY <2>1, <3>2 DEF RangeType
      <4>2. [merged EXCEPT ![n] = last] = merged
        BY <1>1, <2>1
      <4> HIDE DEF longer, last
      <4>3. new = merged
        BY <1>3, <3>2 DEF Coalesce, last
      <4> QED
        BY <4>1, <4>2, <4>3
    <3> QED
      BY <3>1, <3>2
  <2>4. /\ longer \in RangeType /\ longer.start = last.start
        /\ Contains(longer) <=> Contains(last) \/ Contains(r)
    <3>1. longer \in RangeType
      BY <1>1, <2>2 DEF RangeType
    <3>2. now % Week \in Int
      BY InWeek DEF MergeInv, Instants
    <3> QED
      BY <1>1, <2>2, <3>1, <3>2 DEF Contains
  <2> HIDE DEF longer, new, last
  <2>5. /\ new \in Seq(RangeType) /\ Len(new) = n /\ new[n] = longer
        /\ \A i \in 1..n : i # n => new[i] = merged[i]
    BY <1>1, <2>1, <2>3, <2>4
  <2>6. DOMAIN merged = 1..n /\ DOMAIN new = 1..n /\ n \in 1..n
    BY <1>1, <2>1, <2>5
  <2>7. new # <<>> /\ new[Len(new)].start <= r.start
    BY <2>1, <2>2, <2>4, <2>5
  <2>8. (\E i \in DOMAIN new : Contains(new[i])) <=> ActiveNow \/ Contains(r)
    BY <2>4, <2>5, <2>6 DEF ActiveNow, last
  <2> QED
    BY <2>5, <2>7, <2>8 DEF new
<1> QED
  BY <1>2, <1>3

LEMMA MergeInit == Init => MergeInv
<1> SUFFICES ASSUME Init PROVE MergeInv
  OBVIOUS
<1>1. Instants
  BY WindowsAssumption DEF Init, Instants
<1> QED
  BY <1>1, RangesTyped DEF Init, MergeInv, ActiveNow

LEMMA MergeNext == MergeInv /\ [Next]_vars => MergeInv'
<1> SUFFICES ASSUME MergeInv, [Next]_vars PROVE MergeInv'
  OBVIOUS
<1>1. ASSUME NEW r \in rest, \A s \in rest : r.start <= s.start,
             merged' = Coalesce(r), rest' = rest \ {r}, UNCHANGED <<now, windows, rule>>
      PROVE  MergeInv'
  <2>1. Instants' /\ Ranges' = Ranges /\ \A s : Contains(s)' <=> Contains(s)
    BY <1>1 DEF MergeInv, Instants, Ranges, RangesOf, LocalToUTCWeek, Date, FirstOccurrence,
                Contains
  <2>2. r \in RangeType
    BY DEF MergeInv
  <2>3. /\ merged' \in Seq(RangeType) /\ merged' # <<>>
        /\ merged'[Len(merged')].start <= r.start
        /\ (\E i \in DOMAIN merged' : Contains(merged'[i])) <=> ActiveNow \/ Contains(r)
    BY <1>1, <2>2, CoalesceKeeps DEF MergeInv
  <2>4. ActiveNow' <=> ActiveNow \/ Contains(r)
    BY <2>1, <2>3 DEF ActiveNow
  <2>5. \A s \in rest' : merged'[Len(merged')].start <= s.start
    <3>1. merged'[Len(merged')] \in RangeType
      BY <2>3
    <3>2. merged'[Len(merged')].start \in Int /\ \A s \in rest : s.start \in Int
      BY <3>1 DEF MergeInv, RangeType
    <3> QED
      BY <1>1, <2>3, <3>2
  <2> QED
    BY <1>1, <2>1, <2>3, <2>4, <2>5 DEF MergeInv
<1>2. CASE Tick
  <2>1. Instants'
    BY <1>2 DEF Tick, MergeInv, Instants
  <2>2. Ranges' \subseteq RangeType
    BY <2>1, RangesStayTyped
  <2> QED
    BY <1>2, <2>1, <2>2 DEF Tick, MergeInv, ActiveNow
<1>3. CASE UNCHANGED vars
  BY <1>3 DEF vars, MergeInv, Instants, Ranges, RangesOf, LocalToUTCWeek, Date, FirstOccurrence,
              ActiveNow, Contains
<1> QED
  BY <1>1, <1>2, <1>3 DEF Next, Merge

(* At every point of the loop of mergeWindows, the ranges merged and those *)
(* still to be merged cover the instants of the windows and no others.     *)
THEOREM MergeInvariant == Spec => []MergeInv
BY MergeInit, MergeNext, PTL DEF Spec

(* An event is looked at exactly when the wall clock of one of its windows *)
(* says so (activeEventIDs, mergeWindows, localToUTCWeekMinutes), in any   *)
(* zones, for any number of windows, and whichever of the ranges that      *)
(* start together sort.Slice puts first.                                   *)
THEOREM WallClock == Spec => []ByWallClock
<1>1. MergeInv => ByWallClock
  <2> SUFFICES ASSUME MergeInv, rest = {}, \A w \in windows : Clear(w)
               PROVE  Selected <=> windows = {} \/ \E w \in windows : Covers(w, Local(w.zone, now))
    BY DEF ByWallClock
  <2>1. ActiveNow <=> \E r \in Ranges : Contains(r)
    BY DEF MergeInv
  <2>2. (\E r \in Ranges : Contains(r)) <=> \E w \in windows : \E r \in RangesOf(w) : Contains(r)
    BY DEF Ranges
  <2>3. \A w \in windows :
          (\E r \in RangesOf(w) : Contains(r)) <=> Covers(w, Local(w.zone, now))
    BY WindowCovers DEF MergeInv
  <2> QED
    BY <2>1, <2>2, <2>3 DEF Selected
<1> QED
  BY <1>1, MergeInvariant, PTL

(* A window that ends in the repeated hour ends at its first occurrence,   *)
(* whichever of the two time.Date gives, in any zone                       *)
(* (localToUTCWeekMinutes).                                                *)
THEOREM EndsAtFirst == Spec => []EndsOnce
<1>1. MergeInv => EndsOnce
  <2> DEFINE end(w) == WeekStart(Local(w.zone, now)) + w.end
  <2> SUFFICES ASSUME MergeInv, NEW w \in windows, rest = {}, windows = {w}, w.start < w.end,
                      Twice(w.zone, end(w)), now >= end(w) - w.zone.before
               PROVE  ~Selected
    BY DEF EndsOnce
  <2>1. ActiveNow <=> \E r \in RangesOf(w) : Contains(r)
    BY DEF MergeInv, Ranges
  <2>2. ~\E r \in RangesOf(w) : Contains(r)
    BY WindowEnds DEF MergeInv
  <2> QED
    BY <2>1, <2>2 DEF Selected
<1> QED
  BY <1>1, MergeInvariant, PTL

=============================================================================
