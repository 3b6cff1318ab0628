------------------------ MODULE AdministrationProofs ------------------------
(***************************************************************************)
(* Administration's invariants and what a step of it may never do, for any *)
(* number of events, locations, groups, windows and connections.  Most     *)
(* requests act on what they read some time ago; the invariant says what   *)
(* the database still holds them to when they write: a reference is looked *)
(* up again, and a sync that found no event of its Planning Center id is   *)
(* alone with the tables until it has inserted one.                        *)
(***************************************************************************)
EXTENDS Administration, TLAPS, FiniteSetTheorems

EventType == [pc : PcEvents \cup {None}, group : Nat]
WindowType == [event : Nat, born : Nat, of : Nat]

TablesTyped ==
    /\ groups \in [Ids -> GroupNames \cup {None}]
    /\ events \in [Ids -> EventType]
    /\ windows \in [Ids -> WindowType]
    /\ \A e \in EventIds : events[e].pc # None
    /\ minted \in Nat

(* What is known of a request under way.                                   *)
Known(r) ==
    /\ DOMAIN r = DOMAIN Idle
    /\ r.group \in Nat /\ r.event \in Nat /\ r.born \in Nat
    /\ r.kind \in {"sync", "syncing"} => r.pc \in PcEvents

ServingKnown ==
    /\ serving = [h \in Handlers |-> serving[h]]
    /\ \A h \in Handlers : Known(serving[h])

(* A sync that holds the write lock is alone, and what it found missing is.*)
SyncAlone ==
    \A h, k \in Handlers :
        /\ serving[h].kind = "syncing" /\ serving[k].kind = "syncing" => h = k
        /\ serving[h].kind = "syncing" /\ serving[h].new => EventsOf(serving[h].pc) = {}

AdminInv ==
    TablesTyped /\ ServingKnown /\ SyncAlone /\ ReferencesHold /\ OneEventPerPlanningCenterId

-----------------------------------------------------------------------------
LEMMA AdminInit == Init => AdminInv
<1> SUFFICES ASSUME Init PROVE AdminInv
  OBVIOUS
<1> USE DEF Init
<1>1. EventIds = {} /\ WindowIds = {}
  BY DEF EventIds, WindowIds
<1>2. TablesTyped
  BY <1>1 DEF TablesTyped, EventType, WindowType, NoEvent, NoWindow
<1>3. ServingKnown /\ SyncAlone
  BY DEF ServingKnown, Known, SyncAlone, Idle
<1>4. ReferencesHold /\ OneEventPerPlanningCenterId
  BY <1>1 DEF ReferencesHold, OneEventPerPlanningCenterId
<1> QED
  BY <1>2, <1>3, <1>4 DEF AdminInv

(* Half of the steps leave groups, events and windows alone.  The request  *)
(* they begin, or end, is not a sync that holds the lock.                  *)
LEMMA ServingKeeps ==
    ASSUME AdminInv, UNCHANGED <<groups, events, windows, minted>>,
           NEW h \in Handlers, NEW r, serving' = [serving EXCEPT ![h] = r],
           Known(r), r.kind # "syncing"
    PROVE  AdminInv'
<1> USE DEF AdminInv
<1>1. TablesTyped' /\ ReferencesHold' /\ OneEventPerPlanningCenterId'
  BY DEF TablesTyped, ReferencesHold, OneEventPerPlanningCenterId, EventIds, WindowIds, GroupIds
<1>2. serving' = [k \in Handlers |-> IF k = h THEN r ELSE serving[k]]
  BY DEF ServingKnown
<1>3. ServingKnown'
  BY <1>2 DEF ServingKnown
<1>4. \A p : EventsOf(p)' = EventsOf(p)
  BY DEF EventsOf, EventIds
<1>5. SyncAlone'
  BY <1>2, <1>4 DEF SyncAlone
<1> QED
  BY <1>1, <1>3, <1>5

(* A request that writes while no sync holds the lock: what it writes has  *)
(* to be right, the syncs are not concerned.                               *)
LEMMA WriteKeeps ==
    ASSUME AdminInv, Unlocked,
           \/ serving' = serving
           \/ \E h \in Handlers : serving' = [serving EXCEPT ![h] = Idle],
           TablesTyped', ReferencesHold', OneEventPerPlanningCenterId'
    PROVE  AdminInv'
<1> USE DEF AdminInv
<1>1. Known(Idle) /\ Idle.kind = "idle"
  BY DEF Known, Idle
<1>2. \A k \in Handlers : serving'[k] \in {serving[k], Idle}
  BY DEF ServingKnown
<1>3. serving' = [k \in Handlers |-> serving'[k]]
  BY DEF ServingKnown
<1>4. ServingKnown'
  BY <1>1, <1>2, <1>3 DEF ServingKnown
<1>5. \A k \in Handlers : serving'[k].kind # "syncing"
  BY <1>1, <1>2 DEF Unlocked
<1>6. SyncAlone'
  BY <1>5 DEF SyncAlone
<1> QED
  BY <1>4, <1>6

(* Giving an event a group, or leaving its group alone, but only a group   *)
(* there is (UpdateEvent, by a PATCH or by the worker).                    *)
LEMMA UpdateEventKeeps ==
    ASSUME AdminInv, NEW e, NEW g \in Nat, UpdateEvent(e, g), UNCHANGED <<groups, windows, minted>>
    PROVE  TablesTyped' /\ ReferencesHold' /\ OneEventPerPlanningCenterId'
<1> USE DEF AdminInv
<1>1. CASE e \in EventIds /\ g \in GroupIds \cup {0}
  <2>1. /\ events' = [events EXCEPT ![e].group = g]
        /\ e \in Ids /\ events[e].pc # None
    BY <1>1 DEF UpdateEvent, EventIds, TablesTyped
  <2>2. /\ events' \in [Ids -> EventType]
        /\ \A f \in Ids : events'[f].pc = events[f].pc /\ (f # e => events'[f] = events[f])
        /\ events'[e].group = g
    BY <2>1 DEF TablesTyped, EventType
  <2>3. EventIds' = EventIds
    BY <2>1, <2>2 DEF EventIds, NoEvent
  <2>4. GroupIds' = GroupIds /\ WindowIds' = WindowIds
    BY DEF GroupIds, WindowIds
  <2>5. TablesTyped'
    BY <2>2, <2>3 DEF TablesTyped, EventIds
  <2>6. ReferencesHold'
    BY <1>1, <2>2, <2>3, <2>4 DEF ReferencesHold, EventIds
  <2>7. OneEventPerPlanningCenterId'
    BY <2>2, <2>3 DEF OneEventPerPlanningCenterId, EventIds
  <2> QED
    BY <2>5, <2>6, <2>7
<1>2. CASE ~(e \in EventIds /\ g \in GroupIds \cup {0})
  <2>1. events' = events
    BY <1>2 DEF UpdateEvent
  <2> QED
    BY <2>1 DEF TablesTyped, ReferencesHold, OneEventPerPlanningCenterId,
                EventIds, WindowIds, GroupIds
<1> QED
  BY <1>1, <1>2

-----------------------------------------------------------------------------
(* Location groups: none is deleted that an event refers to.               *)
LEMMA GroupsKeep ==
    ASSUME AdminInv, NEW n \in GroupNames,
           CreateLocationGroup(n) \/ \E g \in Ids : UpdateLocationGroup(g, n)
    PROVE  AdminInv'
<1> USE DEF AdminInv
<1>1. PICK g \in Ids : groups' = [groups EXCEPT ![g] = n]
  BY DEF CreateLocationGroup, UpdateLocationGroup
<1>2. UNCHANGED <<events, windows, minted, serving>> /\ Unlocked
  BY DEF CreateLocationGroup, UpdateLocationGroup
<1>3. n # None
  BY AdministrationAssumption
<1>4. groups' \in [Ids -> GroupNames \cup {None}] /\ GroupIds \subseteq GroupIds'
  BY <1>1, <1>3 DEF TablesTyped, GroupIds
<1>5. TablesTyped' /\ ReferencesHold' /\ OneEventPerPlanningCenterId'
  BY <1>2, <1>4 DEF TablesTyped, ReferencesHold, OneEventPerPlanningCenterId, EventIds, WindowIds
<1> QED
  BY <1>2, <1>5, WriteKeeps

LEMMA DeleteGroupKeeps ==
    ASSUME AdminInv, NEW h \in Handlers, Groups(h)
    PROVE  AdminInv'
<1> USE DEF AdminInv
<1>1. ASSUME NEW g \in Ids, CountLocations(h, g) PROVE AdminInv'
  <2>1. Known([Idle EXCEPT !.kind = "deleteGroup", !.id = g])
    BY DEF Known, Idle
  <2> QED
    BY <1>1, <2>1, ServingKeeps DEF CountLocations, Begins, tables, Idle
<1>2. CASE CountEvents(h)
  <2>1. PICK r \in {Idle, [Idle EXCEPT !.kind = "counted", !.id = serving[h].id]} :
          serving' = [serving EXCEPT ![h] = r]
    BY <1>2 DEF CountEvents
  <2>2. \A i : LET c == [Idle EXCEPT !.kind = "counted", !.id = i]
               IN  Known(c) /\ c.kind # "syncing"
    BY DEF Known, Idle
  <2>3. Known(Idle) /\ Idle.kind # "syncing"
    BY DEF Known, Idle
  <2>4. Known(r) /\ r.kind # "syncing"
    BY <2>2, <2>3
  <2> QED
    BY <1>2, <2>1, <2>4, ServingKeeps DEF CountEvents, tables
<1>3. CASE DeleteLocationGroup(h)
  <2> DEFINE g == serving[h].id
  <2>1. /\ UNCHANGED <<events, windows, minted>> /\ Unlocked
        /\ serving' = [serving EXCEPT ![h] = Idle]
        /\ groups' = IF Referenced(g) THEN groups ELSE [groups EXCEPT ![g] = None]
    BY <1>3 DEF DeleteLocationGroup, Ends
  <2>2. groups' \in [Ids -> GroupNames \cup {None}]
    BY <2>1 DEF TablesTyped
  <2>3. \A e \in EventIds : events[e].group \in GroupIds' \cup {0}
    BY <2>1 DEF Referenced, ReferencesHold, GroupIds, TablesTyped
  <2>4. TablesTyped' /\ ReferencesHold' /\ OneEventPerPlanningCenterId'
    BY <2>1, <2>2, <2>3
       DEF TablesTyped, ReferencesHold, OneEventPerPlanningCenterId, EventIds, WindowIds
  <2> QED
    BY <2>1, <2>4, WriteKeeps
<1> QED
  BY <1>1, <1>2, <1>3 DEF Groups

(* Locations are no one's reference here.                                  *)
LEMMA LocationsKeep ==
    ASSUME AdminInv, NEW h \in Handlers, Locations(h)
    PROVE  AdminInv'
<1>1. ASSUME NEW l \in Ids, NEW g \in Ids \cup {0}, ReadLocation(h, l, g) PROVE AdminInv'
  <2> DEFINE r == [Idle EXCEPT !.kind = "patchLocation", !.id = l,
                               !.rows[l] = [locations[l] EXCEPT !.group = g]]
  <2>1. Known(r) /\ r.kind # "syncing"
    BY DEF Known, Idle
  <2>2. serving' = [serving EXCEPT ![h] = r] /\ UNCHANGED tables
    BY <1>1 DEF ReadLocation, Begins
  <2> HIDE DEF r
  <2> QED
    BY <2>1, <2>2, ServingKeeps DEF tables
<1>2. CASE UpdateLocation(h)
  <2>1. Known(Idle) /\ Idle.kind # "syncing"
    BY DEF Known, Idle
  <2> QED
    BY <1>2, <2>1, ServingKeeps DEF UpdateLocation, Ends
<1> QED
  BY <1>1, <1>2 DEF Locations

-----------------------------------------------------------------------------
(* Syncs: the lock is taken by one at a time, and an event is inserted     *)
(* only while there is none of its Planning Center id.                     *)
LEMMA SyncsKeep ==
    ASSUME AdminInv, NEW h \in Handlers, Syncs(h)
    PROVE  AdminInv'
<1> USE DEF AdminInv
<1>0. Known(Idle) /\ Idle.kind # "syncing"
  BY DEF Known, Idle
<1>1. ASSUME NEW p \in PcEvents, AskPlanningCenter(h, p) PROVE AdminInv'
  <2> DEFINE r == [Idle EXCEPT !.kind = "sync", !.pc = p,
                               !.rooms = {q \in PcLocations : home[q] = p}]
  <2>1. Known(r) /\ r.kind # "syncing"
    BY DEF Known, Idle
  <2>2. serving' = [serving EXCEPT ![h] = r] /\ UNCHANGED tables
    BY <1>1 DEF AskPlanningCenter, Begins
  <2> HIDE DEF r
  <2> QED
    BY <2>1, <2>2, ServingKeeps DEF tables
<1>2. CASE ListExisting(h)
  <2> DEFINE r == serving'[h]
  <2>1. /\ UNCHANGED <<groups, events, windows, minted>>
        /\ \A k \in Handlers : serving[k].kind # "syncing"
        /\ serving[h].kind = "sync"
    BY <1>2 DEF ListExisting, MayBegin, Unlocked, tables
  <2>2. /\ \A k \in Handlers \ {h} : serving'[k] = serving[k]
        /\ serving' = [k \in Handlers |-> serving'[k]]
        /\ r.kind = "syncing" /\ r.pc = serving[h].pc /\ r.new = (EventsOf(r.pc) = {})
        /\ DOMAIN r = DOMAIN Idle
        /\ r.group = serving[h].group /\ r.event = serving[h].event /\ r.born = serving[h].born
    BY <1>2 DEF ListExisting, ServingKnown, Known, Idle
  <2>3. TablesTyped' /\ ReferencesHold' /\ OneEventPerPlanningCenterId'
    BY <2>1 DEF TablesTyped, ReferencesHold, OneEventPerPlanningCenterId,
                EventIds, WindowIds, GroupIds
  <2>4. ServingKnown'
    BY <2>1, <2>2 DEF ServingKnown, Known
  <2>5. \A p : EventsOf(p)' = EventsOf(p)
    BY <2>1 DEF EventsOf, EventIds
  <2> HIDE DEF r
  <2>6. SyncAlone'
    <3>1. \A k \in Handlers : serving'[k].kind = "syncing" => k = h
      BY <2>1, <2>2
    <3>2. serving'[h].new = (EventsOf(serving'[h].pc) = {})
      BY <2>2 DEF r
    <3> QED
      BY <2>5, <3>1, <3>2 DEF SyncAlone
  <2> QED
    BY <2>3, <2>4, <2>6
<1>3. CASE CommitSync(h)
  <2> DEFINE r == serving[h]
  <2>1. /\ r.kind = "syncing" /\ serving' = [serving EXCEPT ![h] = Idle]
        /\ UNCHANGED <<groups, windows, minted>>
        /\ r.new => r.id \in Ids
        /\ events' = IF r.new THEN [events EXCEPT ![r.id] = [pc |-> r.pc, group |-> 0]]
                     ELSE events
    BY <1>3 DEF CommitSync, Ends
  <2>2. CASE ~r.new
    BY <1>0, <2>1, <2>2, ServingKeeps
  <2>3. CASE r.new
    <3>1. r.pc \in PcEvents /\ r.pc # None
      BY <2>1, AdministrationAssumption DEF ServingKnown, Known
    <3>2. \A e \in EventIds : events[e].pc # r.pc
      BY <2>1, <2>3 DEF SyncAlone, EventsOf
    <3> DEFINE row == [pc |-> r.pc, group |-> 0]
               id == r.id
    <3>3. row \in EventType /\ row # NoEvent /\ row.pc = r.pc /\ row.group = 0
      BY <3>1 DEF EventType, NoEvent
    <3>4. events' = [events EXCEPT ![id] = row] /\ id \in Ids
      BY <2>1, <2>3
    <3> HIDE DEF row, id
    <3>5. /\ events' \in [Ids -> EventType] /\ events'[id] = row
          /\ \A f \in Ids \ {id} : events'[f] = events[f]
      BY <3>3, <3>4 DEF TablesTyped
    <3>6. EventIds' = EventIds \cup {id}
      BY <3>3, <3>4, <3>5 DEF EventIds
    <3>7. TablesTyped'
      BY <2>1, <3>1, <3>3, <3>4, <3>5, <3>6 DEF TablesTyped
    <3>8. ReferencesHold'
      BY <2>1, <3>3, <3>4, <3>5, <3>6 DEF ReferencesHold, WindowIds, GroupIds
    <3>9. OneEventPerPlanningCenterId'
      BY <3>2, <3>3, <3>4, <3>5, <3>6 DEF OneEventPerPlanningCenterId, EventIds
    <3>10. /\ serving' = [k \in Handlers |-> serving'[k]]
           /\ \A k \in Handlers : serving'[k] \in {serving[k], Idle}
           /\ \A k \in Handlers : serving'[k].kind # "syncing"
      BY <1>0, <2>1 DEF ServingKnown, SyncAlone
    <3>11. ServingKnown' /\ SyncAlone'
      BY <1>0, <3>10 DEF ServingKnown, SyncAlone
    <3> QED
      BY <3>7, <3>8, <3>9, <3>11
  <2> QED
    BY <2>2, <2>3
<1>4. CASE SyncFails(h)
  BY <1>0, <1>4, ServingKeeps DEF SyncFails, Ends, tables
<1> QED
  BY <1>1, <1>2, <1>3, <1>4 DEF Syncs
-----------------------------------------------------------------------------
(* PATCH of an event.                                                      *)
LEMMA EventsKeep ==
    ASSUME AdminInv, NEW h \in Handlers, Events(h)
    PROVE  AdminInv'
<1> USE DEF AdminInv
<1>1. ASSUME NEW e \in EventIds, NEW g \in Ids \cup {0}, ReadEvent(h, e, g) PROVE AdminInv'
  <2> DEFINE r == [Idle EXCEPT !.kind = "patchEvent", !.id = e, !.group = g]
  <2>1. Known(r) /\ r.kind # "syncing"
    BY AdministrationAssumption DEF Known, Idle, Ids
  <2>2. serving' = [serving EXCEPT ![h] = r] /\ UNCHANGED tables
    BY <1>1 DEF ReadEvent, Begins
  <2> HIDE DEF r
  <2> QED
    BY <2>1, <2>2, ServingKeeps DEF tables
<1>2. CASE WriteEvent(h)
  <2>1. /\ Unlocked /\ serving' = [serving EXCEPT ![h] = Idle]
        /\ UpdateEvent(serving[h].id, serving[h].group)
        /\ UNCHANGED <<groups, windows, minted>>
    BY <1>2 DEF WriteEvent, Ends
  <2>2. serving[h].group \in Nat
    BY DEF ServingKnown, Known
  <2> QED
    BY <2>1, <2>2, UpdateEventKeeps, WriteKeeps
<1> QED
  BY <1>1, <1>2 DEF Events

(* An event is deleted with its windows.                                   *)
LEMMA DeleteEventKeeps ==
    ASSUME AdminInv, NEW e \in Ids, DeleteEvent(e)
    PROVE  AdminInv'
<1> USE DEF AdminInv
<1>1. /\ UNCHANGED <<groups, minted, serving>> /\ Unlocked
      /\ events' = [events EXCEPT ![e] = NoEvent]
      /\ windows' = [w \in Ids |-> IF windows[w].event = e THEN NoWindow ELSE windows[w]]
  BY DEF DeleteEvent
<1>2. NoEvent \in EventType /\ NoWindow \in WindowType
  BY DEF NoEvent, NoWindow, EventType, WindowType
<1>3. events' \in [Ids -> EventType] /\ windows' \in [Ids -> WindowType]
  BY <1>1, <1>2 DEF TablesTyped
<1>4. EventIds' = EventIds \ {e} /\ \A f \in EventIds' : events'[f] = events[f]
  BY <1>1 DEF EventIds, TablesTyped
<1>5. /\ WindowIds' \subseteq WindowIds
      /\ \A w \in WindowIds' : windows'[w] = windows[w] /\ windows[w].event # e
  BY <1>1 DEF WindowIds
<1>6. TablesTyped'
  BY <1>1, <1>3, <1>4 DEF TablesTyped
<1>7. ReferencesHold'
  BY <1>1, <1>4, <1>5 DEF ReferencesHold, GroupIds
<1>8. OneEventPerPlanningCenterId'
  BY <1>4 DEF OneEventPerPlanningCenterId
<1> QED
  BY <1>1, <1>6, <1>7, <1>8, WriteKeeps

(* Check windows: one is written only with an event there is.              *)
LEMMA WindowsKeep ==
    ASSUME AdminInv, NEW h \in Handlers, Windows(h)
    PROVE  AdminInv'
<1> USE DEF AdminInv
<1>0. serving[h].event \in Nat /\ serving[h].born \in Nat
  BY DEF ServingKnown, Known
<1>1. ASSUME NEW e \in Ids, FindEvent(h, e) PROVE AdminInv'
  <2> DEFINE r == [Idle EXCEPT !.kind = "postWindow", !.event = e]
  <2>1. Known(r) /\ r.kind # "syncing"
    BY AdministrationAssumption DEF Known, Idle, Ids
  <2>2. serving' = [serving EXCEPT ![h] = r] /\ UNCHANGED tables
    BY <1>1 DEF FindEvent, Begins
  <2> HIDE DEF r
  <2> QED
    BY <2>1, <2>2, ServingKeeps DEF tables
<1>2. ASSUME NEW e \in Ids, NEW w \in Ids, NEW kind \in {"putWindow", "deleteWindow"},
             FindWindow(h, e, w, kind)
      PROVE  AdminInv'
  <2> DEFINE r == [Idle EXCEPT !.kind = kind, !.event = e, !.id = w, !.born = windows[w].born]
  <2>1. windows[w].born \in Nat /\ e \in Nat
    BY AdministrationAssumption DEF TablesTyped, WindowType, Ids
  <2>2. Known(r) /\ r.kind # "syncing"
    BY <2>1 DEF Known, Idle
  <2>3. serving' = [serving EXCEPT ![h] = r] /\ UNCHANGED tables
    BY <1>2 DEF FindWindow, Begins
  <2> HIDE DEF r
  <2> QED
    BY <2>2, <2>3, ServingKeeps DEF tables
<1>3. ASSUME UNCHANGED <<groups, events>>, Unlocked, serving' = [serving EXCEPT ![h] = Idle],
             minted' \in Nat, NEW w, NEW row \in WindowType,
             row = NoWindow \/ row.event \in EventIds,
             windows' = [windows EXCEPT ![w] = row]
      PROVE  AdminInv'
  <2>1. EventIds' = EventIds /\ GroupIds' = GroupIds
    BY <1>3 DEF EventIds, GroupIds
  <2>2. windows' \in [Ids -> WindowType]
    BY <1>3 DEF TablesTyped
  <2>3. \A v \in WindowIds' : windows'[v].event \in EventIds
    BY <1>3, <2>2 DEF WindowIds, ReferencesHold, TablesTyped
  <2>4. TablesTyped' /\ ReferencesHold' /\ OneEventPerPlanningCenterId'
    BY <1>3, <2>1, <2>2, <2>3 DEF TablesTyped, ReferencesHold, OneEventPerPlanningCenterId
  <2> QED
    BY <1>3, <2>4, WriteKeeps
<1>4. ASSUME UNCHANGED <<groups, events, windows, minted>>, Unlocked,
             serving' = [serving EXCEPT ![h] = Idle]
      PROVE  AdminInv'
  <2>1. Known(Idle) /\ Idle.kind # "syncing"
    BY DEF Known, Idle
  <2> QED
    BY <1>4, <2>1, ServingKeeps
<1>5. CASE CreateCheckWindow(h)
  <2> DEFINE row == [event |-> serving[h].event, born |-> minted + 1, of |-> serving[h].event]
  <2>1. row \in WindowType /\ minted + 1 \in Nat /\ row.event = serving[h].event
    BY <1>0 DEF WindowType, TablesTyped
  <2>2. /\ UNCHANGED <<groups, events>> /\ Unlocked /\ serving' = [serving EXCEPT ![h] = Idle]
        /\ IF Insertable(serving[h].event)
           THEN windows' = [windows EXCEPT ![NextId(WindowIds)] = row] /\ minted' = minted + 1
           ELSE UNCHANGED <<windows, minted>>
    BY <1>5 DEF CreateCheckWindow, Ends
  <2> HIDE DEF row
  <2> QED
    BY <1>3, <1>4, <2>1, <2>2 DEF Insertable
<1>6. CASE UpdateCheckWindow(h)
  <2> DEFINE r == serving[h]
             row == Rewritten(windows[r.id], r)
  <2>1. minted \in Nat /\ row.event = r.event
    BY DEF TablesTyped, Rewritten
  <2>2. /\ UNCHANGED <<groups, events, minted>> /\ Unlocked
        /\ serving' = [serving EXCEPT ![h] = Idle]
        /\ windows' = IF r.id \in WindowIds /\ Insertable(r.event)
                      THEN [windows EXCEPT ![r.id] = row] ELSE windows
    BY <1>6 DEF UpdateCheckWindow, Ends
  <2>3. CASE r.id \in WindowIds /\ Insertable(r.event)
    <3>1. row \in WindowType
      BY <1>0, <2>3 DEF WindowType, TablesTyped, WindowIds, Rewritten
    <3> HIDE DEF row
    <3> QED
      BY <1>3, <2>1, <2>2, <2>3, <3>1 DEF Insertable
  <2>4. CASE ~(r.id \in WindowIds /\ Insertable(r.event))
    BY <1>4, <2>2, <2>4
  <2> QED
    BY <2>3, <2>4
<1>7. CASE DeleteCheckWindow(h)
  <2>1. NoWindow \in WindowType /\ minted \in Nat
    BY DEF NoWindow, WindowType, TablesTyped
  <2>2. /\ UNCHANGED <<groups, events, minted>> /\ Unlocked
        /\ serving' = [serving EXCEPT ![h] = Idle]
        /\ windows' = [windows EXCEPT ![serving[h].id] = NoWindow]
    BY <1>7 DEF DeleteCheckWindow, Ends
  <2> QED
    BY <1>3, <2>1, <2>2
<1> QED
  BY <1>1, <1>2, <1>5, <1>6, <1>7 DEF Windows

(* The worker: it advances an event's horizon with the group it read.      *)
LEMMA FetchesKeep ==
    ASSUME AdminInv, NEW h \in Handlers, Fetches(h)
    PROVE  AdminInv'
<1> USE DEF AdminInv
<1>1. ASSUME NEW e \in Ids, LoadEvent(h, e) PROVE AdminInv'
  <2> DEFINE r == [Idle EXCEPT !.kind = "fetch", !.id = e, !.pc = events[e].pc,
                     !.group = events[e].group,
                     !.rows = [l \in Ids |-> [NoLocation EXCEPT !.pc = locations[l].pc]]]
  <2>1. events[e].group \in Nat
    BY DEF TablesTyped, EventType
  <2>2. Known(r) /\ r.kind # "syncing"
    BY <2>1 DEF Known, Idle
  <2>3. serving' = [serving EXCEPT ![h] = r] /\ UNCHANGED tables
    BY <1>1 DEF LoadEvent, Begins
  <2> HIDE DEF r
  <2> QED
    BY <2>2, <2>3, ServingKeeps DEF tables
<1>2. ASSUME NEW c \in Children, CreateCheckin(h, c) PROVE AdminInv'
  <2>1. UNCHANGED <<groups, events, windows, minted, serving>> /\ Unlocked
    BY <1>2 DEF CreateCheckin
  <2>2. TablesTyped' /\ ReferencesHold' /\ OneEventPerPlanningCenterId'
    BY <2>1 DEF TablesTyped, ReferencesHold, OneEventPerPlanningCenterId,
                EventIds, WindowIds, GroupIds
  <2> QED
    BY <2>1, <2>2, WriteKeeps
<1>3. CASE Advance(h)
  <2>1. /\ Unlocked /\ serving' = [serving EXCEPT ![h] = Idle]
        /\ UpdateEvent(serving[h].id, serving[h].group) \/ UNCHANGED events
        /\ UNCHANGED <<groups, windows, minted>>
    BY <1>3 DEF Advance, Ends
  <2>2. serving[h].group \in Nat
    BY DEF ServingKnown, Known
  <2>3. CASE UpdateEvent(serving[h].id, serving[h].group)
    BY <2>1, <2>2, <2>3, UpdateEventKeeps, WriteKeeps
  <2>4. CASE UNCHANGED events
    <3>1. TablesTyped' /\ ReferencesHold' /\ OneEventPerPlanningCenterId'
      BY <2>1, <2>4 DEF TablesTyped, ReferencesHold, OneEventPerPlanningCenterId,
                        EventIds, WindowIds, GroupIds
    <3> QED
      BY <2>1, <3>1, WriteKeeps
  <2> QED
    BY <2>1, <2>3, <2>4
<1> QED
  BY <1>1, <1>2, <1>3 DEF Fetches

-----------------------------------------------------------------------------
LEMMA AdminNext == AdminInv /\ [Next]_vars => AdminInv'
<1> SUFFICES ASSUME AdminInv, [Next]_vars PROVE AdminInv'
  OBVIOUS
<1>1. ASSUME UNCHANGED <<groups, events, windows, minted, serving>> PROVE AdminInv'
  BY <1>1 DEF AdminInv, TablesTyped, ServingKnown, SyncAlone, ReferencesHold,
              OneEventPerPlanningCenterId, EventsOf, EventIds, WindowIds, GroupIds
<1>2. ASSUME NEW q \in PcLocations, NEW p \in PcEvents, MoveLocation(q, p) PROVE AdminInv'
  BY <1>1, <1>2 DEF MoveLocation, tables
<1>3. ASSUME NEW n \in GroupNames,
             CreateLocationGroup(n) \/ \E g \in Ids : UpdateLocationGroup(g, n)
      PROVE  AdminInv'
  BY <1>3, GroupsKeep
<1>4. ASSUME NEW q \in PcLocations, CreateLocation(q) PROVE AdminInv'
  BY <1>1, <1>4 DEF CreateLocation
<1>5. ASSUME NEW e \in Ids, DeleteEvent(e) PROVE AdminInv'
  BY <1>5, DeleteEventKeeps
<1>6. ASSUME NEW S \in SUBSET Stored, RemoveOldCheckins(S) PROVE AdminInv'
  BY <1>1, <1>6 DEF RemoveOldCheckins
<1>7. ASSUME NEW h \in Handlers,
             Groups(h) \/ Locations(h) \/ Syncs(h) \/ Events(h) \/ Windows(h) \/ Fetches(h)
      PROVE  AdminInv'
  BY <1>7, DeleteGroupKeeps, LocationsKeep, SyncsKeep, EventsKeep, WindowsKeep, FetchesKeep
<1>8. CASE UNCHANGED vars
  BY <1>1, <1>8 DEF vars, tables
<1> QED
  BY <1>2, <1>3, <1>4, <1>5, <1>6, <1>7, <1>8 DEF Next

LEMMA Administered == Spec => []AdminInv
BY AdminInit, AdminNext, PTL DEF Spec

(* An event's group and a window's event exist, whatever is deleted while  *)
(* a request is between its look-up and its write (foreign_keys).          *)
THEOREM NothingDangles == Spec => []ReferencesHold
<1>1. AdminInv => ReferencesHold
  BY DEF AdminInv
<1> QED
  BY <1>1, Administered, PTL

(* An event of Planning Center has one row, however many syncs meet: the   *)
(* transaction takes the write lock before it looks for the event.         *)
THEOREM OneEvent == Spec => []OneEventPerPlanningCenterId
<1>1. AdminInv => OneEventPerPlanningCenterId
  BY DEF AdminInv
<1> QED
  BY <1>1, Administered, PTL
-----------------------------------------------------------------------------
(* What the write lock is for: what a sync has read of the locations of    *)
(* its event still is in the table.                                        *)
RowsFresh ==
    \A h \in Handlers : serving[h].kind = "syncing" =>
        \A l \in Ids : serving[h].rows[l] # NoLocation => serving[h].rows[l] = locations[l]

(* A handler that holds the lock only goes on with its own two steps, and  *)
(* the locations are written by it or by no one.                           *)
LEMMA LockRespected ==
    ASSUME AdminInv, Next
    PROVE  /\ locations' = locations \/ \A k \in Handlers : serving'[k].kind # "syncing"
           /\ \A k \in Handlers :
                serving'[k].kind = "syncing" => serving'[k] = serving[k] \/ ListExisting(k)
           /\ \A k \in Handlers :
                serving[k].kind = "syncing" /\ serving'[k] # serving[k] =>
                    CommitSync(k) \/ SyncFails(k)
<1> DEFINE Goal == /\ locations' = locations \/ \A k \in Handlers : serving'[k].kind # "syncing"
                   /\ \A k \in Handlers :
                        serving'[k].kind = "syncing" => serving'[k] = serving[k] \/ ListExisting(k)
                   /\ \A k \in Handlers :
                        serving[k].kind = "syncing" /\ serving'[k] # serving[k] =>
                            CommitSync(k) \/ SyncFails(k)
<1> USE DEF AdminInv
<1>1. ASSUME serving' = serving, locations' = locations \/ Unlocked PROVE Goal
  BY <1>1 DEF Unlocked
<1>2. ASSUME NEW h \in Handlers, NEW r, serving' = [serving EXCEPT ![h] = r], r.kind # "syncing",
             serving[h].kind # "syncing", locations' = locations \/ Unlocked
      PROVE  Goal
  <2>1. \A k \in Handlers : k # h => serving'[k] = serving[k]
    BY <1>2 DEF ServingKnown
  <2>2. serving'[h] = r
    BY <1>2 DEF ServingKnown
  <2> QED
    BY <1>2, <2>1, <2>2 DEF Unlocked
<1>3. Idle.kind = "idle"
  BY DEF Idle
<1>4. ASSUME NEW q \in PcLocations, NEW p \in PcEvents, MoveLocation(q, p) PROVE Goal
  BY <1>1, <1>4 DEF MoveLocation, tables
<1>5. ASSUME NEW n \in GroupNames,
             CreateLocationGroup(n) \/ \E g \in Ids : UpdateLocationGroup(g, n)
      PROVE  Goal
  BY <1>1, <1>5 DEF CreateLocationGroup, UpdateLocationGroup
<1>6. ASSUME NEW q \in PcLocations, CreateLocation(q) PROVE Goal
  BY <1>1, <1>6 DEF CreateLocation
<1>7. ASSUME NEW e \in Ids, DeleteEvent(e) PROVE Goal
  BY <1>1, <1>7 DEF DeleteEvent
<1>8. ASSUME NEW S \in SUBSET Stored, RemoveOldCheckins(S) PROVE Goal
  BY <1>1, <1>8 DEF RemoveOldCheckins
<1>9. ASSUME NEW h \in Handlers, Groups(h) PROVE Goal
  <2>1. ASSUME NEW r, r.kind # "syncing", serving' = [serving EXCEPT ![h] = r],
               serving[h].kind # "syncing", locations' = locations
        PROVE  Goal
    BY <1>2, <2>1
  <2>2. \A i : /\ [Idle EXCEPT !.kind = "deleteGroup", !.id = i].kind = "deleteGroup"
               /\ [Idle EXCEPT !.kind = "counted", !.id = i].kind = "counted"
    BY DEF Idle
  <2>3. CASE \E g \in Ids : CountLocations(h, g)
    <3>1. PICK g \in Ids : CountLocations(h, g)
      BY <2>3
    <3>2. /\ serving' = [serving EXCEPT ![h] = [Idle EXCEPT !.kind = "deleteGroup", !.id = g]]
          /\ serving[h] = Idle /\ locations' = locations
      BY <3>1 DEF CountLocations, Begins, tables
    <3> QED
      BY <1>3, <2>1, <2>2, <3>2
  <2>4. CASE CountEvents(h)
    <3>1. /\ \/ serving' = [serving EXCEPT ![h] = Idle]
             \/ serving' = [serving EXCEPT ![h] =
                              [Idle EXCEPT !.kind = "counted", !.id = serving[h].id]]
          /\ serving[h].kind = "deleteGroup" /\ locations' = locations
      BY <2>4 DEF CountEvents, tables
    <3> QED
      BY <1>3, <2>1, <2>2, <3>1
  <2>5. CASE DeleteLocationGroup(h)
    BY <1>3, <2>1, <2>5 DEF DeleteLocationGroup, Ends
  <2> QED
    BY <1>9, <2>3, <2>4, <2>5 DEF Groups
<1>10. ASSUME NEW h \in Handlers, Locations(h) PROVE Goal
  <2>1. ASSUME NEW l \in Ids, NEW g \in Ids \cup {0}, ReadLocation(h, l, g) PROVE Goal
    <3> DEFINE r == [Idle EXCEPT !.kind = "patchLocation", !.id = l,
                                 !.rows[l] = [locations[l] EXCEPT !.group = g]]
    <3>1. r.kind # "syncing"
      BY DEF Idle
    <3>2. /\ serving' = [serving EXCEPT ![h] = r]
          /\ serving[h] = Idle /\ locations' = locations
      BY <2>1 DEF ReadLocation, Begins, tables
    <3> HIDE DEF r
    <3> QED
      BY <1>2, <1>3, <3>1, <3>2
  <2>2. CASE UpdateLocation(h)
    BY <1>2, <1>3, <2>2 DEF UpdateLocation, Ends
  <2> QED
    BY <1>10, <2>1, <2>2 DEF Locations
<1>11. ASSUME NEW h \in Handlers, Syncs(h) PROVE Goal
  <2>1. ASSUME NEW p \in PcEvents, AskPlanningCenter(h, p) PROVE Goal
    <3> DEFINE r == [Idle EXCEPT !.kind = "sync", !.pc = p,
                                 !.rooms = {q \in PcLocations : home[q] = p}]
    <3>1. r.kind # "syncing"
      BY DEF Idle
    <3>2. /\ serving' = [serving EXCEPT ![h] = r]
          /\ serving[h] = Idle /\ locations' = locations
      BY <2>1 DEF AskPlanningCenter, Begins, tables
    <3> HIDE DEF r
    <3> QED
      BY <1>2, <1>3, <3>1, <3>2
  <2>2. CASE ListExisting(h)
    <3>1. /\ serving[h].kind = "sync" /\ locations' = locations
          /\ \A k \in Handlers : k # h => serving'[k] = serving[k]
      BY <2>2 DEF ListExisting, ServingKnown, tables
    <3> QED
      BY <2>2, <3>1
  <2>3. CASE CommitSync(h)
    <3>1. /\ serving[h].kind = "syncing"
          /\ \A k \in Handlers : serving'[k] = IF k = h THEN Idle ELSE serving[k]
      BY <2>3 DEF CommitSync, Ends, ServingKnown
    <3>2. \A k \in Handlers : serving'[k].kind # "syncing"
      BY <1>3, <3>1 DEF SyncAlone
    <3> QED
      BY <2>3, <3>1, <3>2
  <2>4. CASE SyncFails(h)
    <3>1. /\ locations' = locations
          /\ \A k \in Handlers : serving'[k] = IF k = h THEN Idle ELSE serving[k]
      BY <2>4 DEF SyncFails, Ends, ServingKnown, tables
    <3> QED
      BY <1>3, <2>4, <3>1
  <2> QED
    BY <1>11, <2>1, <2>2, <2>3, <2>4 DEF Syncs
<1>12. ASSUME NEW h \in Handlers, Events(h) PROVE Goal
  <2>1. \E r : /\ serving' = [serving EXCEPT ![h] = r] /\ r.kind # "syncing"
               /\ serving[h].kind # "syncing" /\ locations' = locations
    BY <1>3, <1>12 DEF Events, ReadEvent, WriteEvent, Begins, Ends, tables, Idle
  <2> QED
    BY <1>2, <2>1
<1>13. ASSUME NEW h \in Handlers, Windows(h) PROVE Goal
  <2>1. \E r : /\ serving' = [serving EXCEPT ![h] = r] /\ r.kind # "syncing"
               /\ serving[h].kind # "syncing" /\ locations' = locations
    BY <1>3, <1>13 DEF Windows, FindEvent, CreateCheckWindow, FindWindow, UpdateCheckWindow,
                       DeleteCheckWindow, Begins, Ends, tables, Idle
  <2> QED
    BY <1>2, <2>1
<1>14. ASSUME NEW h \in Handlers, Fetches(h) PROVE Goal
  <2>1. CASE \E c \in Children : CreateCheckin(h, c)
    BY <1>1, <2>1 DEF CreateCheckin
  <2>2. CASE (\E e \in Ids : LoadEvent(h, e)) \/ Advance(h)
    <3>1. \E r : /\ serving' = [serving EXCEPT ![h] = r] /\ r.kind # "syncing"
                 /\ serving[h].kind # "syncing" /\ locations' = locations
      BY <1>3, <2>2 DEF LoadEvent, Advance, Begins, Ends, tables, Idle
    <3> QED
      BY <1>2, <3>1
  <2> QED
    BY <1>14, <2>1, <2>2 DEF Fetches
<1> QED
  BY <1>4, <1>5, <1>6, <1>7, <1>8, <1>9, <1>10, <1>11, <1>12, <1>13, <1>14 DEF Next

LEMMA RowsNext == AdminInv /\ RowsFresh /\ [Next]_vars => RowsFresh'
<1> SUFFICES ASSUME AdminInv, RowsFresh, [Next]_vars PROVE RowsFresh'
  OBVIOUS
<1>1. CASE UNCHANGED vars
  BY <1>1 DEF vars, tables, RowsFresh
<1>2. CASE Next
  <2> SUFFICES ASSUME NEW k \in Handlers, serving'[k].kind = "syncing",
                      NEW l \in Ids, serving'[k].rows[l] # NoLocation
               PROVE  serving'[k].rows[l] = locations'[l]
    BY DEF RowsFresh
  <2>1. locations' = locations /\ (serving'[k] = serving[k] \/ ListExisting(k))
    BY <1>2, LockRespected
  <2>2. CASE serving'[k] = serving[k]
    BY <2>1, <2>2 DEF RowsFresh
  <2>3. CASE ListExisting(k)
    <3> DEFINE found == EventsOf(serving[k].pc)
               e == IF found = {} THEN NextId(EventIds) ELSE CHOOSE f \in found : TRUE
               seen == [m \in Ids |-> IF locations[m].event = e THEN locations[m] ELSE NoLocation]
    <3>1. serving' = [serving EXCEPT ![k] =
                        [serving[k] EXCEPT !.kind = "syncing", !.id = e, !.new = (found = {}),
                                           !.rows = seen]]
      BY <2>3 DEF ListExisting
    <3>2. seen[l] \in {locations[l], NoLocation}
      OBVIOUS
    <3> HIDE DEF found, e, seen
    <3>3. DOMAIN serving[k] = DOMAIN Idle /\ serving = [h \in Handlers |-> serving[h]]
      BY DEF AdminInv, ServingKnown, Known
    <3>4. serving'[k].rows = seen
      BY <3>1, <3>3 DEF Idle
    <3> QED
      BY <2>1, <3>2, <3>4
  <2> QED
    BY <2>1, <2>2, <2>3
<1> QED
  BY <1>1, <1>2

(* What a sync writes to the locations: new rows, each for a location of   *)
(* Planning Center that had none, and for the rest what is there or nothing*)
LEMMA CommitLocations ==
    ASSUME RowsFresh, NEW h \in Handlers, CommitSync(h)
    PROVE  \E places, at :
              /\ locations' = [l \in Ids |-> locations'[l]]
              /\ \A l, k \in places : at[l] = at[k] => l = k
              /\ \A l \in Ids \cap places :
                   /\ locations'[l] = [pc |-> at[l], event |-> serving[h].id, group |-> 0]
                   /\ locations'[l].pc = at[l]
                   /\ at[l] \in serving[h].rooms /\ RowOf(at[l]) = {}
              /\ \A l \in Ids \ places : locations'[l] \in {NoLocation, locations[l]}
<1> DEFINE r == serving[h]
           existing == {m \in Ids : r.rows[m] # NoLocation}
           kept == {m \in existing : r.rows[m].pc \in r.rooms}
           known == {r.rows[m].pc : m \in existing}
           new == {q \in r.rooms \ known : RowOf(q) = {}}
           next == NextId(LocationIds)
           places == next .. next + Cardinality(new) - 1
<1>1. PICK at \in [places -> new] :
        /\ \A l, k \in places : at[l] = at[k] => l = k
        /\ locations' =
             [m \in Ids |->
                IF m \in places
                THEN [pc |-> at[m], event |-> r.id, group |-> 0]
                ELSE IF m \in kept THEN Refreshed(r.rows[m])
                ELSE IF m \in existing THEN NoLocation ELSE locations[m]]
  BY DEF CommitSync
<1>2. r.kind = "syncing"
  BY DEF CommitSync
<1> HIDE DEF places
<1>3. \A l \in places : at[l] \in r.rooms /\ RowOf(at[l]) = {}
  BY <1>1
<1>4. \A l \in Ids \cap places :
        locations'[l] = [pc |-> at[l], event |-> serving[h].id, group |-> 0]
  BY <1>1
<1>5. \A l \in Ids \ places : locations'[l] \in {NoLocation, locations[l]}
  <2> SUFFICES ASSUME NEW l \in Ids \ places PROVE locations'[l] \in {NoLocation, locations[l]}
    OBVIOUS
  <2>1. r.rows[l] \in {NoLocation, locations[l]}
    BY <1>2 DEF RowsFresh
  <2> QED
    BY <1>1, <2>1 DEF Refreshed
<1>6. locations' = [l \in Ids |-> locations'[l]]
  BY <1>1
<1>7. ASSUME NEW l \in Ids \cap places PROVE locations'[l].pc = at[l]
  <2> DEFINE row == [pc |-> at[l], event |-> serving[h].id, group |-> 0]
  <2>1. row.pc = at[l]
    OBVIOUS
  <2>2. locations'[l] = row
    BY <1>4
  <2> QED
    BY <2>1, <2>2
<1>8. \A l, k \in places : at[l] = at[k] => l = k
  BY <1>1
<1> HIDE DEF r, new
<1>9. \A l \in Ids \cap places :
        /\ locations'[l] = [pc |-> at[l], event |-> serving[h].id, group |-> 0]
        /\ locations'[l].pc = at[l]
        /\ at[l] \in serving[h].rooms /\ RowOf(at[l]) = {}
  <2> SUFFICES ASSUME NEW l \in Ids \cap places
               PROVE  /\ locations'[l] = [pc |-> at[l], event |-> serving[h].id, group |-> 0]
                      /\ locations'[l].pc = at[l]
                      /\ at[l] \in serving[h].rooms /\ RowOf(at[l]) = {}
    OBVIOUS
  <2>1. at[l] \in serving[h].rooms /\ RowOf(at[l]) = {}
    BY <1>3 DEF r
  <2>2. locations'[l].pc = at[l]
    BY <1>7
  <2>3. locations'[l] = [pc |-> at[l], event |-> serving[h].id, group |-> 0]
    BY <1>4
  <2> QED
    BY <2>1, <2>2, <2>3
<1> QED
  BY <1>5, <1>6, <1>8, <1>9, Zenon

(* A sync leaves every location in the group it has when the sync commits, *)
(* not merely in the one the sync read: under the lock they are the same   *)
(* (CreateEventWithLocations).                                             *)
THEOREM GroupsSurvive == Spec => SyncKeepsGroups
<1> DEFINE Kept == \A h \in Handlers : serving[h].kind = "syncing" /\ serving'[h] = Idle =>
                     \A l \in LocationIds \cap LocationIds' : locations'[l].pc = locations[l].pc =>
                         locations'[l].group = locations[l].group
<1>1. Init => RowsFresh
  BY DEF Init, RowsFresh, Idle
<1>2. Spec => []RowsFresh
  BY <1>1, RowsNext, Administered, PTL DEF Spec
<1>3. AdminInv /\ RowsFresh /\ [Next]_vars => [Kept]_vars
  <2> SUFFICES ASSUME AdminInv, RowsFresh, Next, NEW h \in Handlers,
                      serving[h].kind = "syncing", serving'[h] = Idle,
                      NEW l \in LocationIds \cap LocationIds', locations'[l].pc = locations[l].pc
               PROVE  locations'[l].group = locations[l].group
    OBVIOUS
  <2>1. CommitSync(h) \/ SyncFails(h)
    <3>1. serving'[h] # serving[h]
      BY DEF Idle
    <3> QED
      BY <3>1, LockRespected
  <2>2. CASE SyncFails(h)
    BY <2>2 DEF SyncFails, tables
  <2>3. CASE CommitSync(h)
    <3>1. PICK places, at :
            /\ locations' = [m \in Ids |-> locations'[m]]
            /\ \A m, k \in places : at[m] = at[k] => m = k
            /\ \A m \in Ids \cap places :
                 /\ locations'[m] = [pc |-> at[m], event |-> serving[h].id, group |-> 0]
                 /\ locations'[m].pc = at[m]
                 /\ at[m] \in serving[h].rooms /\ RowOf(at[m]) = {}
            /\ \A m \in Ids \ places : locations'[m] \in {NoLocation, locations[m]}
      BY <2>3, CommitLocations
    <3>2. l \in Ids /\ locations[l] # NoLocation /\ locations'[l] # NoLocation
      BY DEF LocationIds
    <3>3. l \notin places
      BY <3>1, <3>2 DEF RowOf
    <3> QED
      BY <3>1, <3>2, <3>3
  <2> QED
    BY <2>1, <2>2, <2>3
<1>4. Spec => [][Kept]_vars
  BY <1>2, <1>3, Administered, PTL DEF Spec
<1> QED
  BY <1>4 DEF SyncKeepsGroups

-----------------------------------------------------------------------------
(* What a step may never do, and what a request holds: both rest on an id  *)
(* being free when it is given out, so on NextId being above every id of   *)
(* the table.                                                              *)

(* A set of ids has a greatest one: where the ids at or above it, as a set,*)
(* are fewest.                                                             *)
LEMMA Greatest ==
    ASSUME NEW S, S \subseteq Ids, S # {}
    PROVE  \E i \in S : \A j \in S : j <= i
<1> DEFINE Above(i) == {j \in S : i <= j}
           T == {Above(i) : i \in S}
<1>1. IsFiniteSet(S)
  <2>1. MaxIds \in Int
    BY AdministrationAssumption
  <2>2. IsFiniteSet(Ids)
    BY <2>1, FS_Interval DEF Ids
  <2> QED
    BY <2>2, FS_Subset
<1>2. T \subseteq FiniteSubsetsOf(S)
  <2>1. \A i \in S : Above(i) \in SUBSET S
    OBVIOUS
  <2>2. \A i \in S : IsFiniteSet(Above(i))
    BY <1>1, <2>1, FS_Subset
  <2> QED
    BY <2>1, <2>2 DEF FiniteSubsetsOf
<1>3. T # {}
  OBVIOUS
<1>4. PICK t \in T : \A u \in T : ~ (<<u, t>> \in StrictSubsetOrdering(S))
  <2> HIDE DEF T
  <2> QED
    BY <1>2, <1>3, FS_StrictSubsetOrderingWellFounded, WFMin
<1>5. PICK i \in S : t = Above(i)
  OBVIOUS
<1>6. \A j \in S : i \in Int /\ j \in Int
  BY DEF Ids
<1>7. ASSUME NEW j \in S, i < j PROVE FALSE
  <2>1. \A k \in S : j <= k => i <= k
    BY <1>6, <1>7
  <2>2. i <= i /\ ~(j <= i)
    BY <1>6, <1>7
  <2>3. Above(j) \subseteq Above(i) /\ Above(i) # Above(j)
    BY <2>1, <2>2
  <2>4. <<Above(j), Above(i)>> \in StrictSubsetOrdering(S)
    BY <2>3 DEF StrictSubsetOrdering
  <2> QED
    BY <1>4, <1>5, <2>4
<1> QED
  BY <1>6, <1>7

(* The next id is above all ids of the table.                              *)
LEMMA NextIdAbove ==
    ASSUME NEW S, S \subseteq Ids
    PROVE  NextId(S) \in Nat /\ \A i \in S : i < NextId(S)
<1>1. CASE S = {}
  BY <1>1 DEF NextId
<1>2. CASE S # {}
  <2> DEFINE m == CHOOSE i \in S : \A j \in S : j <= i
  <2>1. m \in S /\ \A j \in S : j <= m
    BY <1>2, Greatest
  <2>2. NextId(S) = 1 + m
    BY <1>2 DEF NextId
  <2>3. \A i \in S : i \in Nat
    BY DEF Ids
  <2> HIDE DEF m
  <2> QED
    BY <2>1, <2>2, <2>3
<1> QED
  BY <1>1, <1>2

-----------------------------------------------------------------------------
(* Windows.  An insertion is known by its number, which no other row has;  *)
(* a PUT under way that looked it up holds its event.                      *)
Putting == {h \in Handlers : serving[h].kind = "putWindow"}

BornOnce ==
    /\ \A w \in WindowIds : windows[w].born <= minted
    /\ \A h \in Putting : serving[h].born <= minted
    /\ \A v, w \in WindowIds : windows[v].born = windows[w].born => v = w
    /\ \A h \in Putting, w \in WindowIds :
         serving[h].born = windows[w].born => windows[w].of \in {serving[h].event, 0}
    /\ MovedOnlyByReuse

(* Most steps leave the windows alone and begin no PUT.                    *)
LEMMA WindowSteps ==
    ASSUME AdminInv, Next
    PROVE  \/ /\ windows' = windows /\ minted' = minted
              /\ \A k \in Handlers : serving'[k].kind = "putWindow" => serving'[k] = serving[k]
           \/ \E e \in Ids : DeleteEvent(e)
           \/ \E h \in Handlers :
                \/ \E e, w \in Ids : FindWindow(h, e, w, "putWindow")
                \/ CreateCheckWindow(h) \/ UpdateCheckWindow(h) \/ DeleteCheckWindow(h)
<1> DEFINE Quiet == /\ windows' = windows /\ minted' = minted
                    /\ \A k \in Handlers :
                         serving'[k].kind = "putWindow" => serving'[k] = serving[k]
           Loud == \/ \E e \in Ids : DeleteEvent(e)
                   \/ \E h \in Handlers :
                        \/ \E e, w \in Ids : FindWindow(h, e, w, "putWindow")
                        \/ CreateCheckWindow(h) \/ UpdateCheckWindow(h) \/ DeleteCheckWindow(h)
<1> SUFFICES Quiet \/ Loud
  OBVIOUS
<1>1. ASSUME serving' = serving, windows' = windows, minted' = minted PROVE Quiet
  BY <1>1
<1>2. ASSUME NEW h \in Handlers, NEW r, serving' = [serving EXCEPT ![h] = r],
             r.kind # "putWindow", windows' = windows, minted' = minted
      PROVE  Quiet
  <2>1. \A k \in Handlers : k # h => serving'[k] = serving[k]
    BY <1>2 DEF AdminInv, ServingKnown
  <2>2. serving'[h] = r
    BY <1>2 DEF AdminInv, ServingKnown
  <2> QED
    BY <1>2, <2>1, <2>2
<1>3. Idle.kind = "idle"
  BY DEF Idle
<1>4. CASE \E q \in PcLocations, p \in PcEvents : MoveLocation(q, p)
  BY <1>1, <1>4 DEF MoveLocation, tables
<1>5. CASE \E n \in GroupNames : CreateLocationGroup(n) \/ \E g \in Ids : UpdateLocationGroup(g, n)
  BY <1>1, <1>5 DEF CreateLocationGroup, UpdateLocationGroup
<1>6. CASE \E q \in PcLocations : CreateLocation(q)
  BY <1>1, <1>6 DEF CreateLocation
<1>7. CASE \E S \in SUBSET Stored : RemoveOldCheckins(S)
  BY <1>1, <1>7 DEF RemoveOldCheckins
<1>8. ASSUME NEW h \in Handlers, Groups(h) PROVE Quiet
  <2>1. \A i : /\ [Idle EXCEPT !.kind = "deleteGroup", !.id = i].kind = "deleteGroup"
               /\ [Idle EXCEPT !.kind = "counted", !.id = i].kind = "counted"
    BY DEF Idle
  <2>2. ASSUME NEW g \in Ids, CountLocations(h, g) PROVE Quiet
    <3>1. /\ serving' = [serving EXCEPT ![h] = [Idle EXCEPT !.kind = "deleteGroup", !.id = g]]
          /\ windows' = windows /\ minted' = minted
      BY <2>2 DEF CountLocations, Begins, tables
    <3> QED
      BY <1>2, <2>1, <3>1
  <2>3. CASE CountEvents(h)
    <3>1. /\ \/ serving' = [serving EXCEPT ![h] = Idle]
             \/ serving' = [serving EXCEPT ![h] =
                              [Idle EXCEPT !.kind = "counted", !.id = serving[h].id]]
          /\ windows' = windows /\ minted' = minted
      BY <2>3 DEF CountEvents, tables
    <3> QED
      BY <1>2, <1>3, <2>1, <3>1
  <2>4. CASE DeleteLocationGroup(h)
    BY <1>2, <1>3, <2>4 DEF DeleteLocationGroup, Ends
  <2> QED
    BY <1>8, <2>2, <2>3, <2>4 DEF Groups
<1>9. ASSUME NEW h \in Handlers, Locations(h) PROVE Quiet
  <2>1. ASSUME NEW l \in Ids, NEW g \in Ids \cup {0}, ReadLocation(h, l, g) PROVE Quiet
    <3> DEFINE r == [Idle EXCEPT !.kind = "patchLocation", !.id = l,
                                 !.rows[l] = [locations[l] EXCEPT !.group = g]]
    <3>1. r.kind # "putWindow"
      BY DEF Idle
    <3>2. serving' = [serving EXCEPT ![h] = r] /\ windows' = windows /\ minted' = minted
      BY <2>1 DEF ReadLocation, Begins, tables
    <3> HIDE DEF r
    <3> QED
      BY <1>2, <3>1, <3>2
  <2>2. CASE UpdateLocation(h)
    BY <1>2, <1>3, <2>2 DEF UpdateLocation, Ends
  <2> QED
    BY <1>9, <2>1, <2>2 DEF Locations
<1>10. ASSUME NEW h \in Handlers, Syncs(h) PROVE Quiet
  <2>1. ASSUME NEW p \in PcEvents, AskPlanningCenter(h, p) PROVE Quiet
    <3> DEFINE r == [Idle EXCEPT !.kind = "sync", !.pc = p,
                                 !.rooms = {q \in PcLocations : home[q] = p}]
    <3>1. r.kind # "putWindow"
      BY DEF Idle
    <3>2. serving' = [serving EXCEPT ![h] = r] /\ windows' = windows /\ minted' = minted
      BY <2>1 DEF AskPlanningCenter, Begins, tables
    <3> HIDE DEF r
    <3> QED
      BY <1>2, <3>1, <3>2
  <2>2. CASE ListExisting(h)
    <3> DEFINE r == serving'[h]
    <3>1. r.kind = "syncing" /\ serving' = [serving EXCEPT ![h] = r]
      BY <2>2 DEF ListExisting, AdminInv, ServingKnown, Known, Idle
    <3>2. windows' = windows /\ minted' = minted
      BY <2>2 DEF ListExisting, tables
    <3> QED
      BY <1>2, <3>1, <3>2
  <2>3. CASE CommitSync(h) \/ SyncFails(h)
    BY <1>2, <1>3, <2>3 DEF CommitSync, SyncFails, Ends, tables
  <2> QED
    BY <1>10, <2>1, <2>2, <2>3 DEF Syncs
<1>11. ASSUME NEW h \in Handlers, Events(h) PROVE Quiet
  <2>1. PICK r : /\ serving' = [serving EXCEPT ![h] = r] /\ r.kind # "putWindow"
                 /\ windows' = windows /\ minted' = minted
    BY <1>3, <1>11 DEF Events, ReadEvent, WriteEvent, Begins, Ends, tables, Idle
  <2> QED
    BY <1>2, <2>1
<1>12. ASSUME NEW h \in Handlers, Windows(h) PROVE Quiet \/ Loud
  <2>1. ASSUME NEW e \in Ids, FindEvent(h, e) PROVE Quiet
    <3> DEFINE r == [Idle EXCEPT !.kind = "postWindow", !.event = e]
    <3>1. r.kind # "putWindow"
      BY DEF Idle
    <3>2. serving' = [serving EXCEPT ![h] = r] /\ windows' = windows /\ minted' = minted
      BY <2>1 DEF FindEvent, Begins, tables
    <3> HIDE DEF r
    <3> QED
      BY <1>2, <3>1, <3>2
  <2>2. ASSUME NEW e \in Ids, NEW w \in Ids, FindWindow(h, e, w, "deleteWindow") PROVE Quiet
    <3> DEFINE r == [Idle EXCEPT !.kind = "deleteWindow", !.event = e, !.id = w,
                                 !.born = windows[w].born]
    <3>1. r.kind # "putWindow"
      BY DEF Idle
    <3>2. serving' = [serving EXCEPT ![h] = r] /\ windows' = windows /\ minted' = minted
      BY <2>2 DEF FindWindow, Begins, tables
    <3> HIDE DEF r
    <3> QED
      BY <1>2, <3>1, <3>2
  <2> QED
    BY <1>12, <2>1, <2>2 DEF Windows
<1>13. ASSUME NEW h \in Handlers, Fetches(h) PROVE Quiet
  <2>1. CASE \E c \in Children : CreateCheckin(h, c)
    BY <1>1, <2>1 DEF CreateCheckin
  <2>2. CASE (\E e \in Ids : LoadEvent(h, e)) \/ Advance(h)
    <3>1. PICK r : /\ serving' = [serving EXCEPT ![h] = r] /\ r.kind # "putWindow"
                   /\ windows' = windows /\ minted' = minted
      BY <1>3, <2>2 DEF LoadEvent, Advance, Begins, Ends, tables, Idle
    <3> QED
      BY <1>2, <3>1
  <2> QED
    BY <1>13, <2>1, <2>2 DEF Fetches
<1> QED
  BY <1>4, <1>5, <1>6, <1>7, <1>8, <1>9, <1>10, <1>11, <1>12, <1>13 DEF Next

LEMMA BornNext == AdminInv /\ BornOnce /\ [Next]_vars => BornOnce'
<1> SUFFICES ASSUME AdminInv, BornOnce, [Next]_vars PROVE BornOnce'
  OBVIOUS
<1> DEFINE Goal == BornOnce'
<1>1. /\ minted \in Nat /\ windows = [w \in Ids |-> windows[w]]
      /\ serving = [h \in Handlers |-> serving[h]]
      /\ \A w \in Ids : windows[w].born \in Nat
  BY DEF AdminInv, TablesTyped, ServingKnown, WindowType
<1>2. ASSUME minted' = minted,
             \A w \in WindowIds' : w \in WindowIds /\ windows'[w] = windows[w],
             \A k \in Putting' : k \in Putting /\ serving'[k] = serving[k]
      PROVE  Goal
  BY <1>2 DEF BornOnce, Putting, MovedOnlyByReuse
<1>3. CASE UNCHANGED vars
  BY <1>2, <1>3 DEF vars, tables, WindowIds, Putting
<1>4. ASSUME windows' = windows, minted' = minted,
             \A k \in Handlers : serving'[k].kind = "putWindow" => serving'[k] = serving[k]
      PROVE  Goal
  BY <1>2, <1>4 DEF WindowIds, Putting
<1>5. ASSUME NEW e \in Ids, DeleteEvent(e) PROVE Goal
  <2>1. /\ windows' = [w \in Ids |-> IF windows[w].event = e THEN NoWindow ELSE windows[w]]
        /\ minted' = minted /\ serving' = serving
    BY <1>5 DEF DeleteEvent
  <2>2. \A w \in WindowIds' : w \in WindowIds /\ windows'[w] = windows[w]
    BY <2>1 DEF WindowIds
  <2> QED
    BY <1>2, <2>1, <2>2 DEF Putting
<1>6. ASSUME NEW h \in Handlers, NEW e \in Ids, NEW v \in Ids, FindWindow(h, e, v, "putWindow")
      PROVE  Goal
  <2>1. /\ windows' = windows /\ minted' = minted
        /\ v \in WindowIds /\ windows[v].event = e
        /\ serving' = [serving EXCEPT ![h] =
                         [Idle EXCEPT !.kind = "putWindow", !.event = e, !.id = v,
                                      !.born = windows[v].born]]
    BY <1>6 DEF FindWindow, WindowOf, Begins, tables
  <2>2. /\ serving'[h].born = windows[v].born /\ serving'[h].event = windows[v].event
        /\ \A k \in Handlers : k # h => serving'[k] = serving[k]
    BY <1>1, <2>1 DEF Idle
  <2>3. WindowIds' = WindowIds /\ \A k \in Putting' : k = h \/ k \in Putting
    BY <2>1, <2>2 DEF WindowIds, Putting
  <2>4. \A w \in WindowIds :
           serving'[h].born = windows[w].born => windows[w].of \in {serving'[h].event, 0}
    BY <2>1, <2>2 DEF BornOnce, MovedOnlyByReuse
  <2>5. \A k \in Putting' : /\ serving'[k].born <= minted
                            /\ \A w \in WindowIds : serving'[k].born = windows[w].born =>
                                  windows[w].of \in {serving'[k].event, 0}
    BY <2>1, <2>2, <2>3, <2>4 DEF BornOnce, Putting
  <2> QED
    BY <2>1, <2>3, <2>5 DEF BornOnce, MovedOnlyByReuse
<1>7. ASSUME NEW h \in Handlers, CreateCheckWindow(h) PROVE Goal
  <2> DEFINE v == NextId(WindowIds)
             e == serving[h].event
             row == [event |-> e, born |-> minted + 1, of |-> e]
  <2>1. v \in Ids /\ serving' = [serving EXCEPT ![h] = Idle]
    BY <1>7 DEF CreateCheckWindow, Ends
  <2>2. \A k \in Putting' : k \in Putting /\ serving'[k] = serving[k]
    BY <1>1, <2>1 DEF Putting, Idle
  <2>3. CASE windows' = windows /\ minted' = minted
    BY <1>2, <2>2, <2>3 DEF WindowIds
  <2>4. CASE windows' = [windows EXCEPT ![v] = row] /\ minted' = minted + 1
    <3>1. row.born = minted + 1 /\ row.of = row.event
      OBVIOUS
    <3> HIDE DEF v, row
    <3>2. \A w \in WindowIds' : IF w = v THEN windows'[w] = row
                                ELSE w \in WindowIds /\ windows'[w] = windows[w]
      BY <1>1, <2>1, <2>4 DEF WindowIds
    <3>3. \A w \in WindowIds' : w # v => windows'[w].born <= minted /\ windows'[w].born \in Nat
      BY <1>1, <3>2 DEF BornOnce, WindowIds
    <3>4. \A k \in Putting' : serving'[k].born <= minted /\ serving'[k].born \in Nat
      BY <2>2 DEF BornOnce, AdminInv, ServingKnown, Known, Putting
    <3>5. /\ \A w \in WindowIds' : windows'[w].born <= minted'
          /\ \A k \in Putting' : serving'[k].born <= minted'
      BY <1>1, <2>4, <3>1, <3>2, <3>3, <3>4
    <3>6. ASSUME NEW u \in WindowIds', NEW w \in WindowIds', windows'[u].born = windows'[w].born
          PROVE  u = w
      BY <1>1, <3>1, <3>2, <3>3, <3>6 DEF BornOnce
    <3>7. ASSUME NEW k \in Putting', NEW w \in WindowIds', serving'[k].born = windows'[w].born
          PROVE  windows'[w].of \in {serving'[k].event, 0}
      BY <1>1, <2>2, <3>1, <3>2, <3>4, <3>7 DEF BornOnce
    <3>8. MovedOnlyByReuse'
      BY <3>1, <3>2 DEF BornOnce, MovedOnlyByReuse
    <3> QED
      BY <3>5, <3>6, <3>7, <3>8 DEF BornOnce
  <2> QED
    BY <1>7, <2>3, <2>4 DEF CreateCheckWindow
<1>8. ASSUME NEW h \in Handlers, UpdateCheckWindow(h) PROVE Goal
  <2> DEFINE v == serving[h].id
             row == Rewritten(windows[v], serving[h])
  <2>1. /\ h \in Putting /\ minted' = minted /\ serving' = [serving EXCEPT ![h] = Idle]
        /\ \/ windows' = windows
           \/ v \in WindowIds /\ windows' = [windows EXCEPT ![v] = row]
    BY <1>8 DEF UpdateCheckWindow, Ends, Putting
  <2>2. \A k \in Putting' : k \in Putting /\ serving'[k] = serving[k]
    BY <1>1, <2>1 DEF Putting, Idle
  <2>3. CASE windows' = windows
    BY <1>2, <2>1, <2>2, <2>3 DEF WindowIds
  <2>4. CASE v \in WindowIds /\ windows' = [windows EXCEPT ![v] = row]
    <3>1. /\ row.event = serving[h].event /\ row.born = windows[v].born
          /\ row.of = IF serving[h].born = windows[v].born THEN windows[v].of ELSE 0
      BY DEF Rewritten
    <3> HIDE DEF v, row
    <3>2. row.of \in {windows[v].of, 0} /\ row.of \in {row.event, 0}
      BY <2>1, <2>4, <3>1 DEF BornOnce
    <3>3. \A w \in WindowIds' : /\ w \in WindowIds
                                /\ windows'[w] = IF w = v THEN row ELSE windows[w]
      BY <1>1, <2>4 DEF WindowIds
    <3>4. \A w \in WindowIds' : /\ w \in WindowIds /\ windows'[w].born = windows[w].born
                                /\ windows'[w].of \in {windows[w].of, 0}
      BY <3>1, <3>2, <3>3
    <3>5. MovedOnlyByReuse'
      BY <3>2, <3>3 DEF BornOnce, MovedOnlyByReuse
    <3>6. ASSUME NEW k \in Putting', NEW w \in WindowIds', serving'[k].born = windows'[w].born
          PROVE  windows'[w].of \in {serving'[k].event, 0}
      BY <2>2, <3>4, <3>6 DEF BornOnce
    <3> QED
      BY <2>1, <2>2, <3>4, <3>5, <3>6 DEF BornOnce
  <2> QED
    BY <2>1, <2>3, <2>4
<1>9. ASSUME NEW h \in Handlers, DeleteCheckWindow(h) PROVE Goal
  <2>1. /\ minted' = minted /\ serving' = [serving EXCEPT ![h] = Idle]
        /\ windows' = [windows EXCEPT ![serving[h].id] = NoWindow]
    BY <1>9 DEF DeleteCheckWindow, Ends
  <2>2. \A k \in Putting' : k \in Putting /\ serving'[k] = serving[k]
    BY <1>1, <2>1 DEF Putting, Idle
  <2>3. \A w \in WindowIds' : w \in WindowIds /\ windows'[w] = windows[w]
    BY <1>1, <2>1 DEF WindowIds
  <2> QED
    BY <1>2, <2>1, <2>2, <2>3
<1> QED
  BY <1>3, <1>4, <1>5, <1>6, <1>7, <1>8, <1>9, WindowSteps

(* Until a PUT that had looked up another window writes it, a window stays *)
(* one of the event it was inserted for (PutUpdateCheckWindow).            *)
THEOREM NoOtherMove == Spec => []MovedOnlyByReuse
<1>1. Init => BornOnce
  BY DEF Init, BornOnce, WindowIds, Putting, Idle, MovedOnlyByReuse
<1>2. BornOnce => MovedOnlyByReuse
  BY DEF BornOnce
<1> QED
  BY <1>1, <1>2, BornNext, Administered, PTL DEF Spec
-----------------------------------------------------------------------------
(* The lists of the board.  The tables are functions of their ids.         *)
Tabled ==
    /\ locations = [l \in Ids |-> locations[l]]
    /\ checkins = [c \in Children |-> checkins[c]]

(* Which steps write locations or check-ins.                               *)
LEMMA ListSteps ==
    ASSUME Next
    PROVE  \/ UNCHANGED <<locations, checkins>>
           \/ \E q \in PcLocations : CreateLocation(q)
           \/ \E e \in Ids : DeleteEvent(e)
           \/ \E S \in SUBSET Stored : RemoveOldCheckins(S)
           \/ \E h \in Handlers :
                \/ UpdateLocation(h) \/ CommitSync(h)
                \/ \E c \in Children : CreateCheckin(h, c)
<1> DEFINE Still == UNCHANGED <<locations, checkins>>
<1>1. ASSUME NEW q \in PcLocations, NEW p \in PcEvents, MoveLocation(q, p) PROVE Still
  BY <1>1 DEF MoveLocation, tables
<1>2. ASSUME NEW n \in GroupNames, CreateLocationGroup(n) \/ \E g \in Ids : UpdateLocationGroup(g, n)
      PROVE  Still
  BY <1>2 DEF CreateLocationGroup, UpdateLocationGroup
<1>3. ASSUME NEW h \in Handlers, Groups(h) PROVE Still
  BY <1>3 DEF Groups, CountLocations, CountEvents, DeleteLocationGroup, tables
<1>4. ASSUME NEW h \in Handlers, Locations(h) PROVE Still \/ UpdateLocation(h)
  BY <1>4 DEF Locations, ReadLocation, tables
<1>5. ASSUME NEW h \in Handlers, Syncs(h) PROVE Still \/ CommitSync(h)
  BY <1>5 DEF Syncs, AskPlanningCenter, ListExisting, SyncFails, tables
<1>6. ASSUME NEW h \in Handlers, Events(h) PROVE Still
  BY <1>6 DEF Events, ReadEvent, WriteEvent, tables
<1>7. ASSUME NEW h \in Handlers, Windows(h) PROVE Still
  BY <1>7 DEF Windows, FindEvent, CreateCheckWindow, FindWindow, UpdateCheckWindow,
              DeleteCheckWindow, tables
<1>8. ASSUME NEW h \in Handlers, Fetches(h) PROVE Still \/ \E c \in Children : CreateCheckin(h, c)
  BY <1>8 DEF Fetches, LoadEvent, Advance, tables
<1> QED
  BY <1>1, <1>2, <1>3, <1>4, <1>5, <1>6, <1>7, <1>8 DEF Next

LEMMA TabledNext == Tabled /\ [Next]_vars => Tabled'
<1> SUFFICES ASSUME Tabled, Next PROVE Tabled'
  BY DEF vars, tables, Tabled
<1>1. CASE UNCHANGED <<locations, checkins>>
  BY <1>1 DEF Tabled
<1>2. ASSUME NEW q \in PcLocations, CreateLocation(q) PROVE Tabled'
  BY <1>2 DEF CreateLocation, Tabled
<1>3. ASSUME NEW e \in Ids, DeleteEvent(e) PROVE Tabled'
  BY <1>3 DEF DeleteEvent, Tabled
<1>4. ASSUME NEW S \in SUBSET Stored, RemoveOldCheckins(S) PROVE Tabled'
  BY <1>4 DEF RemoveOldCheckins, Tabled
<1>5. ASSUME NEW h \in Handlers, UpdateLocation(h) PROVE Tabled'
  BY <1>5 DEF UpdateLocation, Tabled
<1>6. ASSUME NEW h \in Handlers, CommitSync(h) PROVE Tabled'
  BY <1>6 DEF CommitSync, Tabled
<1>7. ASSUME NEW h \in Handlers, NEW c \in Children, CreateCheckin(h, c) PROVE Tabled'
  BY <1>7 DEF CreateCheckin, Tabled
<1> QED
  BY <1>1, <1>2, <1>3, <1>4, <1>5, <1>6, <1>7, ListSteps

(* A child whose check-in stays where it is, at a location whose group does*)
(* not change, stays in every list it is in, provided the group also keeps *)
(* its name if the list asks for one.                                      *)
LEMMA SameGroup ==
    ASSUME NEW c \in Children, checkins'[c] # NoCheckin,
           checkins'[c].location = checkins[c].location,
           LET l == checkins[c].location IN
               \/ l \in LocationIds /\ l \in LocationIds' /\ locations'[l].group = locations[l].group
               \/ l \notin LocationIds /\ (l \in LocationIds' => locations'[l].group = 0),
           NEW wanted, NEW unassigned, NEW name,
           name # None => groups'[GroupOf(c)] = groups[GroupOf(c)],
           c \in ListCheckins(wanted, unassigned, name)
    PROVE  c \in ListCheckins(wanted, unassigned, name)'
<1>1. GroupOf(c)' = GroupOf(c)
  BY DEF GroupOf
<1>2. c \in Joined'
  BY DEF Joined, Stored
<1>3. ASSUME name # None, Named(GroupOf(c), name)
      PROVE  Named(GroupOf(c), name)'
  <2>1. GroupOf(c) \in GroupIds /\ groups[GroupOf(c)] = name
    BY <1>3 DEF Named
  <2>2. groups'[GroupOf(c)] = groups[GroupOf(c)]
    BY <1>3
  <2>3. GroupOf(c) \in Ids /\ groups'[GroupOf(c)] # None
    BY <2>1, <2>2 DEF GroupIds
  <2> QED
    BY <1>1, <2>1, <2>2, <2>3 DEF Named, GroupIds
<1> QED
  BY <1>1, <1>2, <1>3 DEF ListCheckins

(* What a sync writes leaves the group of every location that stays, and   *)
(* gives none to a new one; new ones get ids that are free.                *)
LEMMA CommitGroups ==
    ASSUME RowsFresh, NEW h \in Handlers, CommitSync(h), NEW l \in LocationIds'
    PROVE  IF l \in LocationIds THEN locations'[l].group = locations[l].group
           ELSE locations'[l].group = 0
<1> DEFINE r == serving[h]
           existing == {m \in Ids : r.rows[m] # NoLocation}
           kept == {m \in existing : r.rows[m].pc \in r.rooms}
           known == {r.rows[m].pc : m \in existing}
           new == {q \in r.rooms \ known : RowOf(q) = {}}
           next == NextId(LocationIds)
           places == next .. next + Cardinality(new) - 1
<1>1. PICK at :
        locations' =
             [m \in Ids |->
                IF m \in places
                THEN [pc |-> at[m], event |-> r.id, group |-> 0]
                ELSE IF m \in kept THEN Refreshed(r.rows[m])
                ELSE IF m \in existing THEN NoLocation ELSE locations[m]]
  BY DEF CommitSync
<1>2. r.kind = "syncing"
  BY DEF CommitSync
<1>3. l \in Ids /\ locations'[l] # NoLocation
  BY DEF LocationIds
<1>4. LocationIds \cap places = {}
  <2>1. next \in Nat /\ \A k \in LocationIds : k < next /\ k \in Nat
    BY NextIdAbove DEF LocationIds, Ids
  <2> HIDE DEF next, new
  <2>2. \A k \in places : next <= k
    OBVIOUS
  <2> QED
    BY <2>1, <2>2
<1> HIDE DEF places
<1>5. CASE l \in places
  BY <1>1, <1>3, <1>4, <1>5
<1>6. CASE l \notin places
  <2>1. r.rows[l] \in {NoLocation, locations[l]}
    BY <1>2, <1>3 DEF RowsFresh
  <2>2. locations'[l] = locations[l]
    BY <1>1, <1>3, <1>6, <2>1 DEF Refreshed
  <2> QED
    BY <1>3, <2>2 DEF LocationIds
<1> QED
  BY <1>5, <1>6

(* A child leaves the list of a board only with its check-in, because its  *)
(* location is patched or deleted, or, from a list asked for by the name of*)
(* a group, because that group is renamed or deleted: an id given out again*)
(* drops nobody from a list (ListCheckins).                                *)
THEOREM NobodyDropped == Spec => StaysListed
<1> DEFINE Reason(c, name) ==
             LET l == checkins[c].location IN
             \/ l \in LocationIds \ LocationIds'
             \/ \E h \in Handlers : /\ serving[h].kind = "patchLocation" /\ serving'[h] = Idle
                                    /\ serving[h].id = l
             \/ \E e \in EventIds \ EventIds' : e = checkins[c].event \/ l \in LocationsOf(e)
             \/ checkins'[c] = NoCheckin /\ UNCHANGED <<groups, events, locations, windows>>
             \/ name # None /\ groups'[GroupOf(c)] # groups[GroupOf(c)]
           Stays == \A c \in Children, wanted \in SUBSET Ids, unassigned \in BOOLEAN,
                       name \in GroupNames \cup {None} :
                      c \in ListCheckins(wanted, unassigned, name)
                            \ ListCheckins(wanted, unassigned, name)' =>
                        Reason(c, name)
<1>1. Init => RowsFresh /\ Tabled
  BY DEF Init, RowsFresh, Idle, Tabled
<1>2. Spec => [](RowsFresh /\ Tabled)
  BY <1>1, RowsNext, TabledNext, Administered, PTL DEF Spec
<1>3. AdminInv /\ RowsFresh /\ Tabled /\ [Next]_vars => [Stays]_vars
  <2> SUFFICES ASSUME AdminInv, RowsFresh, Tabled, Next,
                      NEW c \in Children, NEW wanted \in SUBSET Ids, NEW unassigned \in BOOLEAN,
                      NEW name \in GroupNames \cup {None},
                      c \in ListCheckins(wanted, unassigned, name),
                      c \notin ListCheckins(wanted, unassigned, name)',
                      name # None => groups'[GroupOf(c)] = groups[GroupOf(c)]
               PROVE  Reason(c, name)
    OBVIOUS
  <2> DEFINE l == checkins[c].location
  <2>1. checkins[c] # NoCheckin
    BY DEF ListCheckins, Joined, Stored
  <2>2. ASSUME checkins'[c] # NoCheckin, checkins'[c].location = l
        PROVE  \/ l \in LocationIds \ LocationIds'
               \/ l \in LocationIds \cap LocationIds' /\ locations'[l].group # locations[l].group
               \/ l \in LocationIds' \ LocationIds /\ locations'[l].group # 0
    BY <2>2, SameGroup
  <2>3. CASE UNCHANGED <<locations, checkins>>
    BY <2>1, <2>2, <2>3 DEF LocationIds
  <2>4. ASSUME NEW q \in PcLocations, CreateLocation(q) PROVE Reason(c, name)
    <3> DEFINE k == NextId(LocationIds)
               row == [NoLocation EXCEPT !.pc = q]
    <3>1. k \in Ids /\ locations' = [locations EXCEPT ![k] = row] /\ checkins' = checkins
      BY <2>4 DEF CreateLocation
    <3>2. row.group = 0
      BY DEF NoLocation
    <3>3. k \notin LocationIds
      BY NextIdAbove DEF LocationIds, Ids
    <3> HIDE DEF row, k
    <3> QED
      BY <2>1, <2>2, <3>1, <3>2, <3>3 DEF LocationIds, Tabled
  <2>5. ASSUME NEW e \in Ids, DeleteEvent(e) PROVE Reason(c, name)
    <3>1. /\ e \in EventIds /\ events' = [events EXCEPT ![e] = NoEvent]
          /\ checkins' = [d \in Children |->
                            IF checkins[d].event = e \/ checkins[d].location \in LocationsOf(e)
                            THEN NoCheckin ELSE checkins[d]]
          /\ locations' = [k \in Ids |-> IF k \in LocationsOf(e) THEN NoLocation ELSE locations[k]]
      BY <2>5 DEF DeleteEvent
    <3>2. e \in EventIds \ EventIds'
      BY <3>1 DEF EventIds, AdminInv, TablesTyped
    <3>3. CASE checkins[c].event = e \/ l \in LocationsOf(e)
      BY <3>2, <3>3
    <3>4. CASE ~(checkins[c].event = e \/ l \in LocationsOf(e))
      BY <2>1, <2>2, <3>1, <3>4 DEF LocationIds
    <3> QED
      BY <3>3, <3>4
  <2>6. ASSUME NEW S \in SUBSET Stored, RemoveOldCheckins(S) PROVE Reason(c, name)
    <3>1. /\ checkins' = [d \in Children |-> IF d \in S THEN NoCheckin ELSE checkins[d]]
          /\ UNCHANGED <<groups, events, locations, windows>>
      BY <2>6 DEF RemoveOldCheckins
    <3> QED
      BY <2>1, <2>2, <3>1 DEF LocationIds
  <2>7. ASSUME NEW h \in Handlers, UpdateLocation(h) PROVE Reason(c, name)
    <3> DEFINE k == serving[h].id
    <3>1. /\ serving[h].kind = "patchLocation" /\ serving' = [serving EXCEPT ![h] = Idle]
          /\ checkins' = checkins
          /\ \/ locations' = locations
             \/ k \in LocationIds /\ \E row : locations' = [locations EXCEPT ![k] = row]
      BY <2>7 DEF UpdateLocation, Ends
    <3>2. serving'[h] = Idle
      BY <3>1 DEF AdminInv, ServingKnown
    <3>3. CASE k = l
      BY <3>1, <3>2, <3>3
    <3>4. CASE k # l
      BY <2>1, <2>2, <3>1, <3>4 DEF LocationIds, Tabled
    <3> QED
      BY <3>3, <3>4
  <2>8. ASSUME NEW h \in Handlers, CommitSync(h) PROVE Reason(c, name)
    <3>1. checkins' = checkins
      BY <2>8 DEF CommitSync
    <3> QED
      BY <2>1, <2>2, <2>8, <3>1, CommitGroups
  <2>9. ASSUME NEW h \in Handlers, NEW d \in Children, CreateCheckin(h, d) PROVE Reason(c, name)
    <3>1. /\ UNCHANGED <<groups, events, locations, windows>>
          /\ \E k \in Ids :
                checkins' = [checkins EXCEPT ![d] =
                               [location |-> Place(d, k), event |-> serving[h].id]]
      BY <2>9 DEF CreateCheckin
    <3>2. c \in Stored
      BY DEF ListCheckins, Joined
    <3>3. checkins'[c].location = l
      BY <3>1, <3>2 DEF Tabled, Place
    <3>4. CASE checkins'[c] = NoCheckin
      BY <3>1, <3>4
    <3>5. CASE checkins'[c] # NoCheckin
      BY <2>2, <3>1, <3>3, <3>5 DEF LocationIds
    <3> QED
      BY <3>4, <3>5
  <2> QED
    BY <2>3, <2>4, <2>5, <2>6, <2>7, <2>8, <2>9, ListSteps
<1>4. Spec => [][Stays]_vars
  BY <1>2, <1>3, Administered, PTL DEF Spec
<1> QED
  BY <1>4 DEF StaysListed

-----------------------------------------------------------------------------
(* Types.  An id read from a table is one of its ids, and a row held by a  *)
(* request is one the table could hold.                                    *)
RowTyped == [pc : PcLocations \cup {None}, event : 0..MaxIds, group : 0..MaxIds]

RequestType(m) ==
    [kind : {"idle", "deleteGroup", "counted", "patchLocation", "sync", "syncing",
             "patchEvent", "postWindow", "putWindow", "deleteWindow", "fetch"},
     id : 0..MaxIds + 1, event : 0..MaxIds, group : 0..MaxIds, born : 0..m,
     pc : PcEvents \cup {None}, new : BOOLEAN, rooms : SUBSET PcLocations,
     rows : [Ids -> RowTyped]]

(* What the kind of a request says of what it holds.                       *)
Holds(r) ==
    /\ r.kind = "syncing" => r.new \/ r.id \in Ids
    /\ r.kind = "patchLocation" => r.id \in Ids /\ r.rows[r.id].pc # None
    /\ r.kind = "fetch" => r.id \in Ids
    /\ r.kind = "putWindow" => r.born # 0

DayTyped ==
    /\ day \in Days /\ home \in [PcLocations -> PcEvents]
    /\ asked \in 0..day.requests /\ moved \in 0..day.moves

GroupsTyped ==
    /\ groups \in [Ids -> GroupNames \cup {None}]
    /\ \A g, f \in GroupIds : groups[g] = groups[f] => g = f

EventsTyped ==
    /\ events \in [Ids -> [pc : PcEvents \cup {None}, group : 0..MaxIds]]
    /\ \A e \in EventIds : events[e].pc # None

(* A location of Planning Center has one row.                              *)
LocationsTyped ==
    /\ locations \in [Ids -> RowTyped]
    /\ \A l, k \in LocationIds :
         locations[l].pc # None /\ (locations[l].pc = locations[k].pc => l = k)

WindowsTyped ==
    /\ minted \in Nat
    /\ windows \in [Ids -> [event : 0..MaxIds, born : 0..minted, of : 0..MaxIds]]
    /\ \A w \in WindowIds : windows[w].event # 0 /\ windows[w].born # 0

CheckinsTyped ==
    /\ checkins \in [Children -> [location : 0..MaxIds, event : 0..MaxIds]]
    /\ \A c \in Stored : checkins[c].location # 0 /\ checkins[c].event # 0

RequestsTyped(m) ==
    /\ serving \in [Handlers -> RequestType(m)]
    /\ \A h \in Handlers : Holds(serving[h])

TypesInv ==
    /\ DayTyped /\ GroupsTyped /\ EventsTyped /\ LocationsTyped /\ WindowsTyped
    /\ CheckinsTyped /\ RequestsTyped(minted)

LEMMA NextIdWithin ==
    ASSUME NEW S, S \subseteq Ids
    PROVE  NextId(S) \in 1..(MaxIds + 1)
<1>1. MaxIds \in Nat
  BY AdministrationAssumption
<1>2. CASE S = {}
  BY <1>1, <1>2 DEF NextId
<1>3. CASE S # {}
  <2> DEFINE m == CHOOSE i \in S : \A j \in S : j <= i
  <2>1. m \in S
    BY <1>3, Greatest
  <2>2. NextId(S) = 1 + m
    BY <1>3 DEF NextId
  <2>3. m \in 1..MaxIds
    BY <2>1 DEF Ids
  <2> HIDE DEF m
  <2> QED
    BY <1>1, <2>2, <2>3
<1> QED
  BY <1>2, <1>3

LEMMA IdleTyped ==
    ASSUME NEW m \in Nat
    PROVE  Idle \in RequestType(m) /\ Holds(Idle) /\ NoLocation \in RowTyped
<1>1. MaxIds \in Nat /\ 0 \in 0..MaxIds /\ 0 \in 0..MaxIds + 1 /\ 0 \in 0..m
  BY AdministrationAssumption
<1>2. NoLocation \in RowTyped
  BY <1>1 DEF NoLocation, RowTyped
<1>3. [l \in Ids |-> NoLocation] \in [Ids -> RowTyped]
  BY <1>2
<1> QED
  BY <1>1, <1>2, <1>3 DEF Idle, RequestType, Holds

LEMMA TypesInit == Init => TypesInv
<1> SUFFICES ASSUME Init PROVE TypesInv
  OBVIOUS
<1> USE DEF Init
<1>1. MaxIds \in Nat /\ 0 \in 0..MaxIds
  BY AdministrationAssumption
<1>2. DayTyped
  BY AdministrationAssumption DEF DayTyped
<1>3. GroupsTyped /\ EventsTyped
  BY <1>1 DEF GroupsTyped, EventsTyped, GroupIds, EventIds, NoEvent
<1>4. LocationsTyped /\ RequestsTyped(minted)
  BY IdleTyped DEF LocationsTyped, LocationIds, RequestsTyped
<1>5. WindowsTyped /\ CheckinsTyped
  BY <1>1 DEF WindowsTyped, WindowIds, NoWindow, CheckinsTyped, Stored, NoCheckin
<1> QED
  BY <1>2, <1>3, <1>4, <1>5 DEF TypesInv

(* The bounds of the day, and Planning Center.                             *)
LEMMA DayKept ==
    ASSUME DayTyped, [Next]_vars
    PROVE  DayTyped'
<1>1. day.requests \in Nat /\ day.moves \in Nat
  BY AdministrationAssumption DEF DayTyped
<1>2. ASSUME UNCHANGED <<day, home, moved>>,
             asked' = asked \/ (asked < day.requests /\ asked' = asked + 1)
      PROVE  DayTyped'
  BY <1>1, <1>2 DEF DayTyped
<1>3. CASE \E q \in PcLocations, p \in PcEvents : MoveLocation(q, p)
  BY <1>1, <1>3 DEF MoveLocation, DayTyped
<1>4. CASE \E n \in GroupNames : CreateLocationGroup(n) \/ \E g \in Ids : UpdateLocationGroup(g, n)
  BY <1>2, <1>4 DEF CreateLocationGroup, UpdateLocationGroup, Asks
<1>5. CASE (\E q \in PcLocations : CreateLocation(q)) \/ \E e \in Ids : DeleteEvent(e)
  BY <1>2, <1>5 DEF CreateLocation, DeleteEvent, Asks
<1>6. CASE \E S \in SUBSET Stored : RemoveOldCheckins(S)
  BY <1>2, <1>6 DEF RemoveOldCheckins, Asks
<1>7. ASSUME NEW h \in Handlers, Groups(h) \/ Locations(h) PROVE DayTyped'
  BY <1>2, <1>7 DEF Groups, CountLocations, CountEvents, DeleteLocationGroup, Locations,
                    ReadLocation, UpdateLocation, Begins, Ends, Asks
<1>8. ASSUME NEW h \in Handlers, Syncs(h) \/ Events(h) PROVE DayTyped'
  BY <1>2, <1>8 DEF Syncs, AskPlanningCenter, ListExisting, CommitSync, SyncFails,
                    Events, ReadEvent, WriteEvent, Begins, Ends, Asks
<1>9. ASSUME NEW h \in Handlers, Windows(h) \/ Fetches(h) PROVE DayTyped'
  BY <1>2, <1>9 DEF Windows, FindEvent, CreateCheckWindow, FindWindow, UpdateCheckWindow,
                    DeleteCheckWindow, Fetches, LoadEvent, CreateCheckin, Advance,
                    Begins, Ends, Asks
<1>10. CASE UNCHANGED vars
  BY <1>2, <1>10 DEF vars
<1> QED
  BY <1>3, <1>4, <1>5, <1>6, <1>7, <1>8, <1>9, <1>10 DEF Next

(* Which steps write groups or events.                                     *)
LEMMA EventSteps ==
    ASSUME Next
    PROVE  \/ UNCHANGED <<groups, events>>
           \/ /\ events' = events
              /\ \E n \in GroupNames :
                    CreateLocationGroup(n) \/ \E g \in Ids : UpdateLocationGroup(g, n)
           \/ events' = events /\ \E h \in Handlers : DeleteLocationGroup(h)
           \/ groups' = groups /\ \E e \in Ids : DeleteEvent(e)
           \/ groups' = groups /\ \E h \in Handlers :
                CommitSync(h) \/ UpdateEvent(serving[h].id, serving[h].group)
<1> DEFINE Still == UNCHANGED <<groups, events>>
<1>1. CASE \E q \in PcLocations, p \in PcEvents : MoveLocation(q, p)
  BY <1>1 DEF MoveLocation, tables
<1>2. CASE \E n \in GroupNames : CreateLocationGroup(n) \/ \E g \in Ids : UpdateLocationGroup(g, n)
  BY <1>2 DEF CreateLocationGroup, UpdateLocationGroup
<1>3. CASE (\E q \in PcLocations : CreateLocation(q)) \/ \E S \in SUBSET Stored : RemoveOldCheckins(S)
  BY <1>3 DEF CreateLocation, RemoveOldCheckins
<1>4. CASE \E e \in Ids : DeleteEvent(e)
  BY <1>4 DEF DeleteEvent
<1>5. ASSUME NEW h \in Handlers, Groups(h)
      PROVE  Still \/ (events' = events /\ DeleteLocationGroup(h))
  BY <1>5 DEF Groups, CountLocations, CountEvents, DeleteLocationGroup, tables
<1>6. ASSUME NEW h \in Handlers, Locations(h) PROVE Still
  BY <1>6 DEF Locations, ReadLocation, UpdateLocation, tables
<1>7. ASSUME NEW h \in Handlers, Syncs(h) PROVE Still \/ (groups' = groups /\ CommitSync(h))
  BY <1>7 DEF Syncs, AskPlanningCenter, ListExisting, CommitSync, SyncFails, tables
<1>8. ASSUME NEW h \in Handlers, Events(h)
      PROVE  Still \/ (groups' = groups /\ UpdateEvent(serving[h].id, serving[h].group))
  BY <1>8 DEF Events, ReadEvent, WriteEvent, tables
<1>9. ASSUME NEW h \in Handlers, Windows(h) PROVE Still
  BY <1>9 DEF Windows, FindEvent, CreateCheckWindow, FindWindow, UpdateCheckWindow,
              DeleteCheckWindow, tables
<1>10. ASSUME NEW h \in Handlers, Fetches(h)
       PROVE  Still \/ (groups' = groups /\ UpdateEvent(serving[h].id, serving[h].group))
  BY <1>10 DEF Fetches, LoadEvent, CreateCheckin, Advance, tables
<1> QED
  BY <1>1, <1>2, <1>3, <1>4, <1>5, <1>6, <1>7, <1>8, <1>9, <1>10 DEF Next

LEMMA GroupsKept ==
    ASSUME GroupsTyped, [Next]_vars
    PROVE  GroupsTyped'
<1>1. CASE groups' = groups
  BY <1>1 DEF GroupsTyped, GroupIds
<1>2. ASSUME NEW g, NEW n \in GroupNames, groups' = [groups EXCEPT ![g] = n],
             \A f \in Ids : groups[f] # n
      PROVE  GroupsTyped'
  <2>1. n # None
    BY AdministrationAssumption
  <2> QED
    BY <1>2, <2>1 DEF GroupsTyped, GroupIds
<1>3. ASSUME NEW h \in Handlers, DeleteLocationGroup(h) PROVE GroupsTyped'
  BY <1>3 DEF DeleteLocationGroup, GroupsTyped, GroupIds
<1>4. ASSUME NEW n \in GroupNames,
             CreateLocationGroup(n) \/ \E g \in Ids : UpdateLocationGroup(g, n)
      PROVE  GroupsTyped'
  <2>1. \E g : groups' = [groups EXCEPT ![g] = n] /\ \A f \in Ids : groups[f] # n
    BY <1>4 DEF CreateLocationGroup, UpdateLocationGroup
  <2> QED
    BY <1>2, <2>1
<1> QED
  BY <1>1, <1>3, <1>4, EventSteps DEF vars, tables

LEMMA EventsKept ==
    ASSUME EventsTyped, ServingKnown, RequestsTyped(minted), [Next]_vars
    PROVE  EventsTyped'
<1> DEFINE Row == [pc : PcEvents \cup {None}, group : 0..MaxIds]
<1>1. CASE events' = events
  BY <1>1 DEF EventsTyped, EventIds
<1>2. MaxIds \in Nat /\ 0 \in 0..MaxIds
  BY AdministrationAssumption
<1>3. ASSUME NEW e \in Ids, DeleteEvent(e) PROVE EventsTyped'
  <2>1. NoEvent \in Row
    BY <1>2 DEF NoEvent
  <2> QED
    BY <1>3, <2>1 DEF DeleteEvent, EventsTyped, EventIds
<1>4. ASSUME NEW h \in Handlers, CommitSync(h) PROVE EventsTyped'
  <2> DEFINE row == [pc |-> serving[h].pc, group |-> 0]
  <2>1. events' = events \/ events' = [events EXCEPT ![serving[h].id] = row]
    BY <1>4 DEF CommitSync
  <2>2. serving[h].pc \in PcEvents
    BY <1>4 DEF CommitSync, ServingKnown, Known
  <2>3. row \in Row /\ row.pc # None
    BY <1>2, <2>2, AdministrationAssumption
  <2> HIDE DEF row
  <2> QED
    BY <2>1, <2>3 DEF EventsTyped, EventIds
<1>5. ASSUME NEW h \in Handlers, UpdateEvent(serving[h].id, serving[h].group) PROVE EventsTyped'
  <2> DEFINE e == serving[h].id
             g == serving[h].group
  <2>1. g \in 0..MaxIds
    BY DEF RequestsTyped, RequestType
  <2>2. events' = events \/ (e \in EventIds /\ events' = [events EXCEPT ![e].group = g])
    BY <1>5 DEF UpdateEvent
  <2> HIDE DEF e, g
  <2>3. CASE e \in EventIds /\ events' = [events EXCEPT ![e].group = g]
    <3>1. events' \in [Ids -> Row] /\ \A f \in Ids : events'[f].pc = events[f].pc
      BY <2>1, <2>3 DEF EventsTyped
    <3>2. \A f \in Ids : f # e => events'[f] = events[f]
      BY <2>3 DEF EventsTyped
    <3>3. events[e].pc # None
      BY <2>3 DEF EventsTyped
    <3> QED
      BY <3>1, <3>2, <3>3 DEF EventsTyped, EventIds
  <2> QED
    BY <1>1, <2>2, <2>3
<1> QED
  BY <1>1, <1>3, <1>4, <1>5, EventSteps DEF vars, tables

(* One row for each location of Planning Center, by the unique index that  *)
(* UpdateLocation runs into and by what CommitSync finds missing.          *)
LEMMA LocationsKept ==
    ASSUME LocationsTyped, RowsFresh, RequestsTyped(minted), [Next]_vars
    PROVE  LocationsTyped'
<1>1. CASE locations' = locations
  BY <1>1 DEF LocationsTyped, LocationIds
<1>2. NoLocation \in RowTyped /\ MaxIds \in Nat /\ 0 \in 0..MaxIds
  BY AdministrationAssumption, IdleTyped
<1>3. ASSUME NEW l \in Ids, NEW row \in RowTyped, row.pc # None,
             \A k \in LocationIds : locations[k].pc = row.pc => k = l,
             locations' = [locations EXCEPT ![l] = row]
      PROVE  LocationsTyped'
  <2>1. locations' \in [Ids -> RowTyped]
    BY <1>3 DEF LocationsTyped
  <2>2. \A k \in Ids : locations'[k] = IF k = l THEN row ELSE locations[k]
    BY <1>3 DEF LocationsTyped
  <2> QED
    BY <1>3, <2>1, <2>2 DEF LocationsTyped, LocationIds
<1>4. ASSUME locations' = [l \in Ids |-> locations'[l]],
             \A l \in Ids : locations'[l] \in {locations[l], NoLocation}
      PROVE  LocationsTyped'
  BY <1>2, <1>4 DEF LocationsTyped, LocationIds
<1>5. ASSUME NEW q \in PcLocations, CreateLocation(q) PROVE LocationsTyped'
  <2> DEFINE row == [NoLocation EXCEPT !.pc = q]
  <2>1. row \in RowTyped /\ row.pc = q /\ q # None
    BY <1>2, AdministrationAssumption DEF NoLocation, RowTyped
  <2>2. /\ RowOf(q) = {} /\ NextId(LocationIds) \in Ids
        /\ locations' = [locations EXCEPT ![NextId(LocationIds)] = row]
    BY <1>5 DEF CreateLocation
  <2> HIDE DEF row
  <2>3. \A k \in LocationIds : locations[k].pc # q
    BY <2>2 DEF RowOf
  <2> QED
    BY <1>3, <2>1, <2>2, <2>3
<1>6. ASSUME NEW e \in Ids, DeleteEvent(e) PROVE LocationsTyped'
  <2>1. locations' = [l \in Ids |-> IF l \in LocationsOf(e) THEN NoLocation ELSE locations[l]]
    BY <1>6 DEF DeleteEvent
  <2> QED
    BY <1>4, <2>1
<1>7. ASSUME NEW h \in Handlers, UpdateLocation(h) PROVE LocationsTyped'
  <2> DEFINE l == serving[h].id
             row == serving[h].rows[l]
  <2>1. serving[h].kind = "patchLocation"
    BY <1>7 DEF UpdateLocation
  <2>2. l \in Ids /\ row \in RowTyped /\ row.pc # None
    BY <2>1 DEF RequestsTyped, RequestType, Holds
  <2>3. \/ locations' = locations
        \/ ~Clashes(row, l) /\ locations' = [locations EXCEPT ![l] = row]
    BY <1>7 DEF UpdateLocation
  <2>4. ~Clashes(row, l) => \A k \in LocationIds : locations[k].pc = row.pc => k = l
    BY DEF Clashes
  <2> HIDE DEF l, row
  <2> QED
    BY <1>1, <1>3, <2>2, <2>3, <2>4
<1>8. ASSUME NEW h \in Handlers, CommitSync(h) PROVE LocationsTyped'
  <2> DEFINE s == serving[h]
  <2>1. s.kind = "syncing" /\ (s.new => s.id \in Ids)
    BY <1>8 DEF CommitSync
  <2>2. s.id \in 0..MaxIds /\ s.rooms \subseteq PcLocations
    BY <1>2, <2>1 DEF RequestsTyped, RequestType, Holds, Ids
  <2>3. PICK places, at :
          /\ locations' = [l \in Ids |-> locations'[l]]
          /\ \A l, k \in places : at[l] = at[k] => l = k
          /\ \A l \in Ids \cap places :
               /\ locations'[l] = [pc |-> at[l], event |-> s.id, group |-> 0]
               /\ locations'[l].pc = at[l]
               /\ at[l] \in s.rooms /\ RowOf(at[l]) = {}
          /\ \A l \in Ids \ places : locations'[l] \in {NoLocation, locations[l]}
    BY <1>8, CommitLocations
  <2> HIDE DEF s
  <2>4. ASSUME NEW l \in Ids \cap places
        PROVE  /\ locations'[l] \in RowTyped /\ locations'[l].pc = at[l] /\ at[l] # None
               /\ \A k \in LocationIds : locations[k].pc # at[l]
    <3>1. /\ locations'[l] = [pc |-> at[l], event |-> s.id, group |-> 0]
          /\ locations'[l].pc = at[l]
          /\ at[l] \in PcLocations /\ RowOf(at[l]) = {}
      BY <2>2, <2>3
    <3>2. locations'[l] \in RowTyped
      BY <1>2, <2>2, <3>1 DEF RowTyped
    <3> QED
      BY <3>1, <3>2, AdministrationAssumption DEF RowOf
  <2>5. ASSUME NEW l \in Ids \ places
        PROVE  /\ locations'[l] \in RowTyped
               /\ locations'[l] # NoLocation => l \in LocationIds /\ locations'[l] = locations[l]
    BY <1>2, <2>3 DEF LocationsTyped, LocationIds
  <2>6. locations' \in [Ids -> RowTyped]
    BY <2>3, <2>4, <2>5
  <2>7. \A l \in LocationIds' : l \in Ids /\ locations'[l] # NoLocation
    BY DEF LocationIds
  <2>8. \A l \in LocationIds' : locations'[l].pc # None
    BY <2>4, <2>5, <2>7 DEF LocationsTyped
  <2>9. ASSUME NEW l \in LocationIds', NEW k \in LocationIds', locations'[l].pc = locations'[k].pc
        PROVE  l = k
    <3>1. CASE l \in places /\ k \in places
      BY <2>3, <2>4, <2>7, <2>9, <3>1
    <3>2. CASE l \in places /\ k \notin places
      BY <2>4, <2>5, <2>7, <2>9, <3>2
    <3>3. CASE l \notin places /\ k \in places
      BY <2>4, <2>5, <2>7, <2>9, <3>3
    <3>4. CASE l \notin places /\ k \notin places
      BY <2>5, <2>7, <2>9, <3>4 DEF LocationsTyped
    <3> QED
      BY <3>1, <3>2, <3>3, <3>4
  <2> QED
    BY <2>6, <2>8, <2>9 DEF LocationsTyped
<1>9. ASSUME (\E S \in SUBSET Stored : RemoveOldCheckins(S))
             \/ \E h \in Handlers, c \in Children : CreateCheckin(h, c)
      PROVE  LocationsTyped'
  BY <1>1, <1>9 DEF RemoveOldCheckins, CreateCheckin
<1> QED
  BY <1>1, <1>5, <1>6, <1>7, <1>8, <1>9, ListSteps DEF vars, tables

LEMMA CheckinsKept ==
    ASSUME CheckinsTyped, RequestsTyped(minted), [Next]_vars
    PROVE  CheckinsTyped'
<1>1. CASE checkins' = checkins
  BY <1>1 DEF CheckinsTyped, Stored
<1>2. MaxIds \in Nat /\ 0 \in 0..MaxIds
  BY AdministrationAssumption
<1>3. ASSUME checkins' = [c \in Children |-> checkins'[c]],
             \A c \in Children : checkins'[c] \in {checkins[c], NoCheckin}
      PROVE  CheckinsTyped'
  BY <1>2, <1>3 DEF CheckinsTyped, Stored, NoCheckin
<1>4. ASSUME NEW e \in Ids, DeleteEvent(e) PROVE CheckinsTyped'
  <2>1. checkins' = [c \in Children |->
                        IF checkins[c].event = e \/ checkins[c].location \in LocationsOf(e)
                        THEN NoCheckin ELSE checkins[c]]
    BY <1>4 DEF DeleteEvent
  <2> QED
    BY <1>3, <2>1
<1>5. ASSUME NEW S \in SUBSET Stored, RemoveOldCheckins(S) PROVE CheckinsTyped'
  <2>1. checkins' = [c \in Children |-> IF c \in S THEN NoCheckin ELSE checkins[c]]
    BY <1>5 DEF RemoveOldCheckins
  <2> QED
    BY <1>3, <2>1
<1>6. ASSUME NEW h \in Handlers, NEW c \in Children, CreateCheckin(h, c) PROVE CheckinsTyped'
  <2>1. PICK l \in Ids :
          checkins' = [checkins EXCEPT ![c] = [location |-> Place(c, l), event |-> serving[h].id]]
    BY <1>6 DEF CreateCheckin
  <2>2. serving[h].id \in Ids
    BY <1>6 DEF CreateCheckin, RequestsTyped, Holds
  <2>3. Place(c, l) \in 0..MaxIds /\ Place(c, l) # 0
    BY <1>2 DEF Place, CheckinsTyped, Ids
  <2>4. serving[h].id \in 0..MaxIds /\ serving[h].id # 0
    BY <1>2, <2>2 DEF Ids
  <2> DEFINE new == [location |-> Place(c, l), event |-> serving[h].id]
  <2>5. new \in [location : 0..MaxIds, event : 0..MaxIds] /\ new.location # 0 /\ new.event # 0
    BY <2>3, <2>4
  <2> HIDE DEF new
  <2>6. checkins' = [checkins EXCEPT ![c] = new]
    BY <2>1 DEF new
  <2> QED
    BY <2>5, <2>6 DEF CheckinsTyped, Stored
<1>7. ASSUME (\E q \in PcLocations : CreateLocation(q))
             \/ \E h \in Handlers : UpdateLocation(h) \/ CommitSync(h)
      PROVE  checkins' = checkins
  BY <1>7 DEF CreateLocation, UpdateLocation, CommitSync
<1> QED
  BY <1>1, <1>4, <1>5, <1>6, <1>7, ListSteps DEF vars, tables

LEMMA WindowsKept ==
    ASSUME AdminInv, WindowsTyped, RequestsTyped(minted), [Next]_vars
    PROVE  WindowsTyped' /\ minted <= minted'
<1>1. minted \in Nat /\ MaxIds \in Nat /\ 0 \in 0..MaxIds /\ 0 \in 0..minted
  BY AdministrationAssumption DEF WindowsTyped
<1>2. CASE windows' = windows /\ minted' = minted
  BY <1>1, <1>2 DEF WindowsTyped, WindowIds
<1>3. ASSUME minted' = minted, windows' = [w \in Ids |-> windows'[w]],
             \A w \in Ids : windows'[w] \in {windows[w], NoWindow}
      PROVE  WindowsTyped' /\ minted <= minted'
  BY <1>1, <1>3 DEF WindowsTyped, WindowIds, NoWindow
<1>4. ASSUME NEW w \in Ids, NEW row, row.event \in EventIds, row.born \in 1..minted',
             row.of \in 0..MaxIds, row = [event |-> row.event, born |-> row.born, of |-> row.of],
             minted' \in {minted, minted + 1}, windows' = [windows EXCEPT ![w] = row]
      PROVE  WindowsTyped' /\ minted <= minted'
  <2>1. minted' \in Nat /\ minted <= minted' /\ 0..minted \subseteq 0..minted'
    BY <1>1, <1>4
  <2>2. /\ row.event \in 0..MaxIds /\ row.event # 0
        /\ row.born \in 0..minted' /\ row.born # 0
    BY <1>1, <1>4, <2>1 DEF EventIds, Ids
  <2>3. row \in [event : 0..MaxIds, born : 0..minted', of : 0..MaxIds]
    BY <1>4, <2>2
  <2>4. windows \in [Ids -> [event : 0..MaxIds, born : 0..minted', of : 0..MaxIds]]
    BY <2>1 DEF WindowsTyped
  <2>5. windows' \in [Ids -> [event : 0..MaxIds, born : 0..minted', of : 0..MaxIds]]
    BY <1>4, <2>3, <2>4
  <2>6. \A v \in Ids : windows'[v] = IF v = w THEN row ELSE windows[v]
    BY <1>4 DEF WindowsTyped
  <2> QED
    BY <2>1, <2>2, <2>5, <2>6 DEF WindowsTyped, WindowIds
<1>5. ASSUME NEW e \in Ids, DeleteEvent(e) PROVE WindowsTyped' /\ minted <= minted'
  <2>1. /\ windows' = [w \in Ids |-> IF windows[w].event = e THEN NoWindow ELSE windows[w]]
        /\ minted' = minted
    BY <1>5 DEF DeleteEvent
  <2> QED
    BY <1>3, <2>1
<1>6. ASSUME NEW h \in Handlers, CreateCheckWindow(h) PROVE WindowsTyped' /\ minted <= minted'
  <2> DEFINE e == serving[h].event
             row == [event |-> e, born |-> minted + 1, of |-> e]
  <2>1. \/ windows' = windows /\ minted' = minted
        \/ /\ windows' = [windows EXCEPT ![NextId(WindowIds)] = row] /\ minted' = minted + 1
           /\ NextId(WindowIds) \in Ids /\ e \in EventIds
    BY <1>6 DEF CreateCheckWindow, Insertable
  <2>2. /\ row.event = e /\ row.born = minted + 1 /\ row.of = e
        /\ row = [event |-> row.event, born |-> row.born, of |-> row.of]
    OBVIOUS
  <2>3. e \in EventIds => e \in 0..MaxIds
    BY <1>1 DEF EventIds, Ids
  <2> HIDE DEF row, e
  <2> QED
    BY <1>1, <1>2, <1>4, <2>1, <2>2, <2>3
<1>7. ASSUME NEW h \in Handlers, UpdateCheckWindow(h) PROVE WindowsTyped' /\ minted <= minted'
  <2> DEFINE v == serving[h].id
             old == windows[v]
             row == Rewritten(old, serving[h])
  <2>1. /\ \/ windows' = windows
           \/ /\ windows' = [windows EXCEPT ![v] = row]
              /\ v \in WindowIds /\ serving[h].event \in EventIds
        /\ minted' = minted
    BY <1>7 DEF UpdateCheckWindow, Insertable
  <2>2. /\ row.event = serving[h].event /\ row.born = old.born /\ row.of \in {old.of, 0}
        /\ row = [event |-> row.event, born |-> row.born, of |-> row.of]
    BY DEF Rewritten
  <2> HIDE DEF row
  <2>3. v \in WindowIds => v \in Ids /\ old.born \in 1..minted /\ old.of \in 0..MaxIds
    BY <1>1 DEF WindowsTyped, WindowIds
  <2> HIDE DEF v, old
  <2> QED
    BY <1>1, <1>2, <1>4, <2>1, <2>2, <2>3
<1>8. ASSUME NEW h \in Handlers, DeleteCheckWindow(h) PROVE WindowsTyped' /\ minted <= minted'
  <2>1. windows' = [windows EXCEPT ![serving[h].id] = NoWindow] /\ minted' = minted
    BY <1>8 DEF DeleteCheckWindow
  <2>2. windows' = [w \in Ids |-> windows'[w]] /\ \A w \in Ids : windows'[w] \in {windows[w], NoWindow}
    BY <2>1 DEF WindowsTyped
  <2> QED
    BY <1>3, <2>1, <2>2
<1>9. ASSUME NEW h \in Handlers, NEW e \in Ids, NEW w \in Ids, FindWindow(h, e, w, "putWindow")
      PROVE  WindowsTyped' /\ minted <= minted'
  BY <1>2, <1>9 DEF FindWindow, tables
<1> QED
  BY <1>2, <1>5, <1>6, <1>7, <1>8, <1>9, WindowSteps DEF vars, tables

(* What requests hold, of the windows there were before the step.          *)
LEMMA RequestsKept ==
    ASSUME TypesInv, ServingKnown, Next
    PROVE  /\ serving' \in [Handlers -> RequestType(minted)]
           /\ \A h \in Handlers : Holds(serving'[h])
<1> DEFINE m == minted
           Typed == /\ serving' \in [Handlers -> RequestType(m)]
                    /\ \A h \in Handlers : Holds(serving'[h])
<1>1. /\ m \in Nat /\ MaxIds \in Nat /\ 0 \in 0..MaxIds /\ 0 \in 0..m
      /\ serving \in [Handlers -> RequestType(m)] /\ \A h \in Handlers : Holds(serving[h])
      /\ Ids \subseteq 0..MaxIds /\ Ids \cup {0} = 0..MaxIds /\ 0..MaxIds \subseteq 0..MaxIds + 1
      /\ Ids \subseteq 0..MaxIds + 1
  BY AdministrationAssumption DEF TypesInv, WindowsTyped, RequestsTyped, Ids
<1>2. Idle \in RequestType(m) /\ Holds(Idle) /\ NoLocation \in RowTyped
  BY <1>1, IdleTyped
<1> HIDE DEF m
<1>3. ASSUME NEW h \in Handlers, NEW r \in RequestType(m), Holds(r),
             serving' = [serving EXCEPT ![h] = r]
      PROVE  Typed
  BY <1>1, <1>3
<1>4. ASSUME serving' = serving PROVE Typed
  BY <1>1, <1>4
<1>5. ASSUME NEW h \in Handlers, serving' = [serving EXCEPT ![h] = Idle] PROVE Typed
  BY <1>2, <1>3, <1>5
<1> HIDE DEF Typed
<1>6. ASSUME NEW h \in Handlers, NEW r \in RequestType(m),
             r.kind \in {"deleteGroup", "counted", "patchEvent", "postWindow", "putWindow",
                         "deleteWindow"},
             r.kind = "putWindow" => r.born # 0,
             serving' = [serving EXCEPT ![h] = r]
      PROVE  Typed
  BY <1>3, <1>6 DEF Holds
<1>8. ASSUME NEW h \in Handlers, Groups(h) PROVE Typed
  <2>1. ASSUME NEW g \in Ids, CountLocations(h, g) PROVE Typed
    <3> DEFINE r == [Idle EXCEPT !.kind = "deleteGroup", !.id = g]
    <3>1. serving' = [serving EXCEPT ![h] = r]
      BY <2>1 DEF CountLocations, Begins
    <3>2. r \in RequestType(m) /\ r.kind = "deleteGroup"
      BY <1>1, <1>2 DEF RequestType
    <3> HIDE DEF r
    <3> QED
      BY <1>6, <3>1, <3>2
  <2>2. CASE CountEvents(h)
    <3> DEFINE r == [Idle EXCEPT !.kind = "counted", !.id = serving[h].id]
    <3>1. \/ serving' = [serving EXCEPT ![h] = Idle]
          \/ serving' = [serving EXCEPT ![h] = r]
      BY <2>2 DEF CountEvents
    <3>2. serving[h].id \in 0..MaxIds + 1
      BY <1>1 DEF RequestType
    <3>3. r \in RequestType(m) /\ r.kind = "counted"
      BY <1>2, <3>2 DEF RequestType
    <3> HIDE DEF r
    <3> QED
      BY <1>5, <1>6, <3>1, <3>3
  <2>3. CASE DeleteLocationGroup(h)
    BY <1>5, <2>3 DEF DeleteLocationGroup, Ends
  <2> QED
    BY <1>8, <2>1, <2>2, <2>3 DEF Groups
<1>9. ASSUME NEW h \in Handlers, Locations(h) PROVE Typed
  <2>1. ASSUME NEW l \in Ids, NEW g \in Ids \cup {0}, ReadLocation(h, l, g) PROVE Typed
    <3> DEFINE row == [locations[l] EXCEPT !.group = g]
               rs == [[k \in Ids |-> NoLocation] EXCEPT ![l] = row]
               r == [Idle EXCEPT !.kind = "patchLocation", !.id = l, !.rows = rs]
    <3>1. l \in LocationIds /\ serving' = [serving EXCEPT ![h] = r]
      BY <2>1 DEF ReadLocation, Begins, Idle
    <3>2. row \in RowTyped /\ row.pc # None
      BY <1>1, <3>1 DEF TypesInv, LocationsTyped, RowTyped
    <3> HIDE DEF row
    <3>3. rs \in [Ids -> RowTyped] /\ rs[l] = row
      BY <1>2, <3>2
    <3> HIDE DEF rs
    <3>4. r \in RequestType(m) /\ r.kind = "patchLocation" /\ r.id = l /\ r.rows = rs
      BY <1>1, <1>2, <3>3 DEF RequestType
    <3> HIDE DEF r
    <3>5. Holds(r)
      BY <3>2, <3>3, <3>4 DEF Holds
    <3> QED
      BY <1>3, <3>1, <3>4, <3>5
  <2>2. CASE UpdateLocation(h)
    BY <1>5, <2>2 DEF UpdateLocation, Ends
  <2> QED
    BY <1>9, <2>1, <2>2 DEF Locations
<1>10. ASSUME NEW h \in Handlers, Syncs(h) PROVE Typed
  <2>1. ASSUME NEW p \in PcEvents, AskPlanningCenter(h, p) PROVE Typed
    <3> DEFINE rooms == {q \in PcLocations : home[q] = p}
               r == [Idle EXCEPT !.kind = "sync", !.pc = p, !.rooms = rooms]
    <3>1. serving' = [serving EXCEPT ![h] = r]
      BY <2>1 DEF AskPlanningCenter, Begins
    <3>2. rooms \in SUBSET PcLocations
      OBVIOUS
    <3> HIDE DEF rooms
    <3>3. r \in RequestType(m) /\ r.kind = "sync"
      BY <1>2, <3>2 DEF RequestType
    <3> HIDE DEF r
    <3>4. Holds(r)
      BY <3>3 DEF Holds
    <3> QED
      BY <1>3, <3>1, <3>3, <3>4
  <2>2. CASE ListExisting(h)
    <3> DEFINE found == EventsOf(serving[h].pc)
               e == IF found = {} THEN NextId(EventIds) ELSE CHOOSE f \in found : TRUE
               seen == [l \in Ids |-> IF locations[l].event = e THEN locations[l] ELSE NoLocation]
               r == [serving[h] EXCEPT !.kind = "syncing", !.id = e, !.new = (found = {}),
                                       !.rows = seen]
    <3>1. serving' = [serving EXCEPT ![h] = r]
      BY <2>2 DEF ListExisting
    <3>2. e \in 0..MaxIds + 1 /\ (found # {} => e \in Ids)
      <4>1. found = {} => e \in 1..(MaxIds + 1)
        BY NextIdWithin DEF EventIds
      <4>2. found # {} => e \in Ids
        BY DEF EventsOf, EventIds
      <4> QED
        BY <1>1, <4>1, <4>2
    <3> HIDE DEF e
    <3>3. seen \in [Ids -> RowTyped]
      BY <1>2 DEF TypesInv, LocationsTyped
    <3> HIDE DEF seen
    <3> DEFINE isNew == (found = {})
    <3>4. isNew \in BOOLEAN
      OBVIOUS
    <3>5. r = [serving[h] EXCEPT !.kind = "syncing", !.id = e, !.new = isNew, !.rows = seen]
      OBVIOUS
    <3>6. serving[h] \in RequestType(m)
      BY <1>1
    <3>7. isNew \/ e \in Ids
      BY <3>2
    <3> HIDE DEF isNew, r, found
    <3>8. /\ r \in RequestType(m) /\ r.kind = "syncing" /\ r.id = e /\ r.new = isNew
      BY <3>2, <3>3, <3>4, <3>5, <3>6 DEF RequestType
    <3>9. Holds(r)
      BY <3>7, <3>8 DEF Holds
    <3> QED
      BY <1>3, <3>1, <3>8, <3>9
  <2>3. CASE CommitSync(h) \/ SyncFails(h)
    BY <1>5, <2>3 DEF CommitSync, SyncFails, Ends
  <2> QED
    BY <1>10, <2>1, <2>2, <2>3 DEF Syncs
<1>11. ASSUME NEW h \in Handlers, Events(h) PROVE Typed
  <2>1. ASSUME NEW e \in EventIds, NEW g \in Ids \cup {0}, ReadEvent(h, e, g) PROVE Typed
    <3> DEFINE r == [Idle EXCEPT !.kind = "patchEvent", !.id = e, !.group = g]
    <3>1. serving' = [serving EXCEPT ![h] = r]
      BY <2>1 DEF ReadEvent, Begins
    <3>2. e \in 0..MaxIds + 1 /\ g \in 0..MaxIds
      BY <1>1 DEF EventIds
    <3>3. r \in RequestType(m) /\ r.kind = "patchEvent"
      BY <1>2, <3>2 DEF RequestType
    <3> HIDE DEF r
    <3> QED
      BY <1>6, <3>1, <3>3
  <2>2. CASE WriteEvent(h)
    BY <1>5, <2>2 DEF WriteEvent, Ends
  <2> QED
    BY <1>11, <2>1, <2>2 DEF Events
<1>12. ASSUME NEW h \in Handlers, Windows(h)
       PROVE  Typed
  <2>1. ASSUME NEW e \in Ids, FindEvent(h, e) PROVE Typed
    <3> DEFINE r == [Idle EXCEPT !.kind = "postWindow", !.event = e]
    <3>1. serving' = [serving EXCEPT ![h] = r]
      BY <2>1 DEF FindEvent, Begins
    <3>2. r \in RequestType(m) /\ r.kind = "postWindow"
      BY <1>1, <1>2 DEF RequestType
    <3> HIDE DEF r
    <3> QED
      BY <1>6, <3>1, <3>2
  <2>2. ASSUME NEW e \in Ids, NEW w \in Ids, NEW k \in {"putWindow", "deleteWindow"},
               FindWindow(h, e, w, k)
        PROVE  Typed
    <3> DEFINE b == windows[w].born
           r == [Idle EXCEPT !.kind = k, !.event = e, !.id = w, !.born = b]
    <3>1. serving' = [serving EXCEPT ![h] = r]
      BY <2>2 DEF FindWindow, Begins
    <3>2. b \in 0..m /\ b # 0
      BY <2>2 DEF FindWindow, WindowOf, TypesInv, WindowsTyped, WindowIds, m
    <3> HIDE DEF b
    <3>3. r \in RequestType(m) /\ r.kind = k /\ r.born = b
      BY <1>1, <1>2, <3>2 DEF RequestType
    <3> HIDE DEF r
    <3> QED
      BY <1>6, <3>1, <3>2, <3>3
  <2>3. CASE CreateCheckWindow(h) \/ UpdateCheckWindow(h) \/ DeleteCheckWindow(h)
    BY <1>5, <2>3 DEF CreateCheckWindow, UpdateCheckWindow, DeleteCheckWindow, Ends
  <2> QED
    BY <1>12, <2>1, <2>2, <2>3 DEF Windows
<1>13. ASSUME NEW h \in Handlers, Fetches(h) PROVE Typed
  <2>1. ASSUME NEW e \in Ids, LoadEvent(h, e) PROVE Typed
    <3> DEFINE g == events[e].group
               p == events[e].pc
               rs == [l \in Ids |-> [NoLocation EXCEPT !.pc = locations[l].pc]]
               r == [Idle EXCEPT !.kind = "fetch", !.id = e, !.pc = p, !.group = g, !.rows = rs]
    <3>1. serving' = [serving EXCEPT ![h] = r]
      BY <2>1 DEF LoadEvent, Begins
    <3>2. g \in 0..MaxIds /\ p \in PcEvents \cup {None}
      BY DEF TypesInv, EventsTyped
    <3>3. rs \in [Ids -> RowTyped]
      <4>1. \A l \in Ids : locations[l].pc \in PcLocations \cup {None}
        BY DEF TypesInv, LocationsTyped, RowTyped
      <4>2. \A x \in PcLocations \cup {None} : [NoLocation EXCEPT !.pc = x] \in RowTyped
        BY <1>2 DEF RowTyped
      <4> QED
        BY <4>1, <4>2
    <3> HIDE DEF g, p, rs
    <3>4. r \in RequestType(m) /\ r.kind = "fetch" /\ r.id = e
      BY <1>1, <1>2, <3>2, <3>3 DEF RequestType
    <3> HIDE DEF r
    <3>5. Holds(r)
      BY <3>4 DEF Holds
    <3> QED
      BY <1>3, <3>1, <3>4, <3>5
  <2>2. CASE \E c \in Children : CreateCheckin(h, c)
    BY <1>4, <2>2 DEF CreateCheckin
  <2>3. CASE Advance(h)
    BY <1>5, <2>3 DEF Advance, Ends
  <2> QED
    BY <1>13, <2>1, <2>2, <2>3 DEF Fetches
<1>14. ASSUME \/ \E q \in PcLocations, p \in PcEvents : MoveLocation(q, p)
              \/ \E n \in GroupNames :
                    CreateLocationGroup(n) \/ \E g \in Ids : UpdateLocationGroup(g, n)
              \/ \E q \in PcLocations : CreateLocation(q)
              \/ \E e \in Ids : DeleteEvent(e)
              \/ \E S \in SUBSET Stored : RemoveOldCheckins(S)
       PROVE  Typed
  BY <1>4, <1>14 DEF MoveLocation, CreateLocationGroup, UpdateLocationGroup, CreateLocation,
                     DeleteEvent, RemoveOldCheckins
<1> QED
  BY <1>8, <1>9, <1>10, <1>11, <1>12, <1>13, <1>14 DEF Next, Typed, m

LEMMA TypesNext == AdminInv /\ RowsFresh /\ TypesInv /\ [Next]_vars => TypesInv'
<1> SUFFICES ASSUME AdminInv, RowsFresh, TypesInv, [Next]_vars PROVE TypesInv'
  OBVIOUS
<1> USE DEF TypesInv
<1>1. DayTyped' /\ GroupsTyped'
  BY DayKept, GroupsKept
<1>2. EventsTyped' /\ LocationsTyped' /\ CheckinsTyped'
  BY EventsKept, LocationsKept, CheckinsKept DEF AdminInv
<1>3. WindowsTyped' /\ minted <= minted'
  BY WindowsKept
<1>4. /\ serving' \in [Handlers -> RequestType(minted)]
      /\ \A h \in Handlers : Holds(serving'[h])
  <2>1. CASE Next
    BY <2>1, RequestsKept DEF AdminInv
  <2>2. CASE UNCHANGED vars
    BY <2>2 DEF vars, RequestsTyped
  <2> QED
    BY <2>1, <2>2
<1>5. RequestType(minted) \subseteq RequestType(minted')
  <2>1. minted \in Nat /\ minted' \in Nat
    BY <1>3 DEF WindowsTyped
  <2>2. 0..minted \subseteq 0..minted'
    BY <1>3, <2>1
  <2> QED
    BY <2>2 DEF RequestType
<1>6. RequestsTyped(minted)'
  BY <1>4, <1>5 DEF RequestsTyped
<1> QED
  BY <1>1, <1>2, <1>3, <1>6

(* Every variable keeps its type: a location of Planning Center has one    *)
(* row, a group its own name, and what a request holds is an id, a row or  *)
(* a number that its table could hold, however long ago it was read.       *)
THEOREM AdministrationTypes == Spec => []TypeOK
<1>1. TypesInv => TypeOK
  BY DEF TypesInv, DayTyped, GroupsTyped, EventsTyped, LocationsTyped, WindowsTyped,
         CheckinsTyped, RequestsTyped, RequestType, RowTyped, TypeOK
<1>2. Init => RowsFresh /\ TypesInv
  BY TypesInit DEF Init, RowsFresh, Idle
<1> QED
  BY <1>1, <1>2, RowsNext, TypesNext, Administered, PTL DEF Spec

=============================================================================
