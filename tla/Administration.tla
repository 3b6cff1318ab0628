--------------------------- MODULE Administration ---------------------------
(***************************************************************************)
(* What administrators do to the tables the worker and the boards rely on: *)
(* location groups, events, locations and check windows, each served by    *)
(* handlers of the API server that read a row, decide, and write in        *)
(* another statement, next to syncs with Planning Center, deletions, and   *)
(* the worker, which keeps rows of its own over a fetch.                   *)
(*                                                                         *)
(* A step is one SQL statement on its own connection, or a transaction;    *)
(* the sync is in two, for it writes what it has read.  A request that is  *)
(* refused before it writes anything is not a step.  Ids come from INTEGER *)
(* PRIMARY KEYs without AUTOINCREMENT: the next one is one above the       *)
(* largest in the table, so that an id comes back once the rows above it   *)
(* are gone.                                                               *)
(***************************************************************************)
EXTENDS Integers, FiniteSets

CONSTANTS
    PcEvents,       \* events in Planning Center
    PcLocations,    \* its locations
    Children,       \* children checked out there
    RoomOf,         \* the location of each
    GroupNames,     \* names of location groups
    Handlers,       \* connections for what takes more than one step
    None,           \* no name, event or location
    MaxIds,         \* bound: rows of a table at a time
    Days            \* bounds: what a behaviour may hold, one record for each

(* On a day only requests of some kinds are made, at most requests in all, *)
(* and Planning Center moves locations at most moves times.                *)
Kinds == {"group", "patchLocation", "patchEvent", "sync", "upsert", "deleteEvent",
          "window", "fetch", "deleteOld"}

ASSUME AdministrationAssumption ==
    /\ RoomOf \in [Children -> PcLocations]
    /\ None \notin PcEvents \cup PcLocations \cup GroupNames
    /\ MaxIds \in Nat
    /\ Days \subseteq [kinds : SUBSET Kinds, requests : Nat, moves : Nat]

VARIABLES
    day,        \* the bounds of this behaviour
    home,       \* Planning Center: the event of each location
    groups,     \* location_groups: the names, by id
    events,     \* events, by id
    locations,  \* locations, by id
    windows,    \* event_check_windows, by id
    checkins,   \* checkins: the location_id and event_id of each child
    serving,    \* what each handler is in the middle of
    asked,      \* requests made so far
    moved,      \* locations moved so far
    minted      \* windows inserted so far

tables == <<groups, events, locations, windows, checkins, minted>>
vars == <<day, home, tables, serving, asked, moved>>

Ids == 1..MaxIds
(* location_group_id and event_id are 0 where the column is NULL or 0.     *)
NoEvent == [pc |-> None, group |-> 0]
NoLocation == [pc |-> None, event |-> 0, group |-> 0]
NoWindow == [event |-> 0, born |-> 0, of |-> 0]
NoCheckin == [location |-> 0, event |-> 0]

GroupIds == {g \in Ids : groups[g] # None}
EventIds == {e \in Ids : events[e] # NoEvent}
LocationIds == {l \in Ids : locations[l] # NoLocation}
WindowIds == {w \in Ids : windows[w] # NoWindow}

(* SQLite's next rowid for a table with the rows S.                        *)
NextId(S) == IF S = {} THEN 1 ELSE 1 + CHOOSE i \in S : \A j \in S : j <= i

(* GetEventByPlanningCenterID: the column is indexed but not unique.       *)
EventsOf(p) == {e \in EventIds : events[e].pc = p}

LocationsOf(e) == {l \in LocationIds : locations[l].event = e}

(* planning_center_id is unique in locations.                              *)
RowOf(q) == {l \in LocationIds : locations[l].pc = q}

-----------------------------------------------------------------------------
(* The list of check-ins, as the board is given it.                        *)

Stored == {c \in Children : checkins[c] # NoCheckin}

(* LEFT JOIN locations: a check-in whose location is gone stays, without a *)
(* group.                                                                  *)
Joined == Stored

GroupOf(c) ==
    LET l == checkins[c].location
    IN IF l \in LocationIds THEN locations[l].group ELSE 0

(* JOIN location_groups, WHERE its name is the one asked for: a location   *)
(* whose group is gone, or that has none, is not joined.                   *)
Named(g, name) == g \in GroupIds /\ groups[g] = name

(* ListCheckins with what buildFilter says of groups: those asked for by   *)
(* id and, with include_unassigned, what has none; neither is no filter.   *)
(* A group asked for by name, if any, is one more condition.  The other    *)
(* filters look at a check-in's own columns, and are left out with limits. *)
ListCheckins(wanted, unassigned, name) ==
    {c \in Joined :
        /\ \/ wanted = {} /\ ~unassigned
           \/ GroupOf(c) \in wanted
           \/ unassigned /\ GroupOf(c) = 0
        /\ name = None \/ Named(GroupOf(c), name)}

-----------------------------------------------------------------------------
(* What a handler has read, in fields most kinds of request leave blank.   *)
Idle ==
    [kind |-> "idle", id |-> 0, event |-> 0, group |-> 0, born |-> 0, pc |-> None,
     new |-> FALSE, rooms |-> {}, rows |-> [l \in Ids |-> NoLocation]]

(* The write lock: a sync holds it from BEGIN IMMEDIATE to its commit, and *)
(* every other write waits.                                                *)
Unlocked == \A h \in Handlers : serving[h].kind # "syncing"

(* A request arrives.                                                      *)
Asks(kind) ==
    /\ kind \in day.kinds /\ asked < day.requests
    /\ asked' = asked + 1
    /\ UNCHANGED <<day, home, moved>>

(* It takes up a free handler, which has read something and goes on later. *)
Begins(h, kind, r) ==
    /\ Asks(kind)
    /\ serving[h] = Idle
    /\ serving' = [serving EXCEPT ![h] = r]

(* A handler's last step: the answer.                                      *)
Ends(h) ==
    /\ serving' = [serving EXCEPT ![h] = Idle]
    /\ UNCHANGED <<day, home, asked, moved>>

-----------------------------------------------------------------------------
(* Every variable holds values of its type; a location of Planning Center  *)
(* has one row, a group its own name, and a window is one inserted.        *)
TypeOK ==
    LET Rows == [pc : PcLocations \cup {None}, event : 0..MaxIds, group : 0..MaxIds] IN
    /\ day \in Days
    /\ home \in [PcLocations -> PcEvents]
    /\ groups \in [Ids -> GroupNames \cup {None}]
    /\ \A g, f \in GroupIds : groups[g] = groups[f] => g = f
    /\ events \in [Ids -> [pc : PcEvents \cup {None}, group : 0..MaxIds]]
    /\ \A e \in EventIds : events[e].pc # None
    /\ locations \in [Ids -> Rows]
    /\ \A l, k \in LocationIds : locations[l].pc # None /\ (locations[l].pc = locations[k].pc => l = k)
    /\ windows \in [Ids -> [event : 0..MaxIds, born : 0..minted, of : 0..MaxIds]]
    /\ \A w \in WindowIds : windows[w].event # 0 /\ windows[w].born # 0
    /\ checkins \in [Children -> [location : 0..MaxIds, event : 0..MaxIds]]
    /\ \A c \in Stored : checkins[c].location # 0 /\ checkins[c].event # 0
    /\ serving \in [Handlers ->
         [kind : {"idle", "deleteGroup", "counted", "patchLocation", "sync", "syncing",
                  "patchEvent", "postWindow", "putWindow", "deleteWindow", "fetch"},
          id : 0..MaxIds + 1, event : 0..MaxIds, group : 0..MaxIds, born : 0..minted,
          pc : PcEvents \cup {None}, new : BOOLEAN, rooms : SUBSET PcLocations,
          rows : [Ids -> Rows]]]
    /\ minted \in Nat
    /\ asked \in 0..day.requests /\ moved \in 0..day.moves

-----------------------------------------------------------------------------
(* Planning Center.                                                        *)

MoveLocation(q, p) ==
    /\ moved < day.moves /\ home[q] # p
    /\ home' = [home EXCEPT ![q] = p]
    /\ moved' = moved + 1
    /\ UNCHANGED <<day, tables, serving, asked>>

-----------------------------------------------------------------------------
(* Location groups.                                                        *)

(* CreateLocationGroup with a new name; an existing one changes nothing.   *)
CreateLocationGroup(n) ==
    /\ Asks("group") /\ Unlocked
    /\ \A g \in Ids : groups[g] # n
    /\ NextId(GroupIds) \in Ids
    /\ groups' = [groups EXCEPT ![NextId(GroupIds)] = n]
    /\ UNCHANGED <<events, locations, windows, checkins, minted, serving>>

(* UpdateLocationGroup, unless another group has the name.                 *)
UpdateLocationGroup(g, n) ==
    /\ Asks("group") /\ Unlocked
    /\ g \in GroupIds /\ \A f \in Ids : groups[f] # n
    /\ groups' = [groups EXCEPT ![g] = n]
    /\ UNCHANGED <<events, locations, windows, checkins, minted, serving>>

(* DeleteLocationGroup: no location uses the group.                        *)
CountLocations(h, g) ==
    /\ g \in GroupIds
    /\ \A l \in LocationIds : locations[l].group # g
    /\ Begins(h, "group", [Idle EXCEPT !.kind = "deleteGroup", !.id = g])
    /\ UNCHANGED tables

(* Nor, a statement later, does an event; one that does ends the request.  *)
CountEvents(h) ==
    LET g == serving[h].id IN
    /\ serving[h].kind = "deleteGroup"
    /\ serving' = [serving EXCEPT ![h] =
                    IF \E e \in EventIds : events[e].group = g THEN Idle
                    ELSE [Idle EXCEPT !.kind = "counted", !.id = g]]
    /\ UNCHANGED <<day, home, tables, asked, moved>>

(* Mutant: foreign_keys is off.                                            *)
ReferencedMutant(g) == FALSE

(* events.location_group_id REFERENCES location_groups; that of locations  *)
(* is a plain column.                                                      *)
Referenced(g) == \E e \in EventIds : events[e].group = g

DeleteLocationGroup(h) ==
    LET g == serving[h].id IN
    /\ serving[h].kind = "counted"
    /\ Unlocked
    /\ Ends(h)
    /\ groups' = IF Referenced(g) THEN groups ELSE [groups EXCEPT ![g] = None]
    /\ UNCHANGED <<events, locations, windows, checkins, minted>>

-----------------------------------------------------------------------------
(* Locations.                                                              *)

(* PatchUpdateLocation reads the row and puts the group of the request in  *)
(* it, whether or not there is such a group: a page may show one that is   *)
(* gone.                                                                   *)
ReadLocation(h, l, g) ==
    /\ l \in LocationIds
    /\ Begins(h, "patchLocation",
              [Idle EXCEPT !.kind = "patchLocation", !.id = l,
                           !.rows[l] = [locations[l] EXCEPT !.group = g]])
    /\ UNCHANGED tables

(* Mutant: planning_center_id is not unique.                               *)
ClashesMutant(row, l) == FALSE

(* Another row has the planning_center_id.                                 *)
Clashes(row, l) == \E k \in LocationIds \ {l} : locations[k].pc = row.pc

(* UpdateLocation writes all of it to whatever row has the id by now, or   *)
(* is an error.                                                            *)
UpdateLocation(h) ==
    LET l == serving[h].id
        row == serving[h].rows[l]
    IN
    /\ serving[h].kind = "patchLocation"
    /\ Unlocked
    /\ Ends(h)
    /\ locations' = IF l \in LocationIds /\ ~Clashes(row, l)
                    THEN [locations EXCEPT ![l] = row] ELSE locations
    /\ UNCHANGED <<groups, events, windows, checkins, minted>>

(* CreateLocation, by POST /locations or by location upsert: a new row of  *)
(* no event; a known planning_center_id only has its name updated.         *)
CreateLocation(q) ==
    /\ Asks("upsert") /\ Unlocked
    /\ RowOf(q) = {}
    /\ NextId(LocationIds) \in Ids
    /\ locations' = [locations EXCEPT ![NextId(LocationIds)] =
                        [NoLocation EXCEPT !.pc = q]]
    /\ UNCHANGED <<groups, events, windows, checkins, minted, serving>>

-----------------------------------------------------------------------------
(* Events.                                                                 *)

(* PostCreateEvent asks Planning Center for the event and its locations.   *)
AskPlanningCenter(h, p) ==
    /\ Begins(h, "sync", [Idle EXCEPT !.kind = "sync", !.pc = p,
                                       !.rooms = {q \in PcLocations : home[q] = p}])
    /\ UNCHANGED tables

(* Mutant: a transaction that takes no lock when it begins.                *)
MayBeginMutant == TRUE

MayBegin == Unlocked

(* CreateEventWithLocations: BEGIN IMMEDIATE, the event is looked up, or    *)
(* gets the next id, and the locations that carry its id are read.         *)
ListExisting(h) ==
    LET r == serving[h]
        found == EventsOf(r.pc)
        e == IF found = {} THEN NextId(EventIds) ELSE CHOOSE e \in found : TRUE
    IN
    /\ r.kind = "sync"
    /\ MayBegin
    /\ serving' = [serving EXCEPT ![h] =
                    [r EXCEPT !.kind = "syncing", !.id = e, !.new = (found = {}),
                              !.rows = [l \in Ids |-> IF locations[l].event = e
                                                      THEN locations[l] ELSE NoLocation]]]
    /\ UNCHANGED <<day, home, tables, asked, moved>>

(* Mutant: the row is written as Planning Center describes it.             *)
RefreshedMutant(row) == [row EXCEPT !.group = 0]

(* UpdateLocation with the row as read, but for its name and parent.       *)
Refreshed(row) == row

(* The event is inserted if it is new.  Locations of the event that        *)
(* Planning Center still lists are written back, unknown ones inserted,    *)
(* those known under another event left with it, and those no longer       *)
(* listed deleted, last of all.                                            *)
CommitSync(h) ==
    LET r == serving[h]
        existing == {l \in Ids : r.rows[l] # NoLocation}
        kept == {l \in existing : r.rows[l].pc \in r.rooms}
        known == {r.rows[l].pc : l \in existing}
        new == {q \in r.rooms \ known : RowOf(q) = {}}
        next == NextId(LocationIds)
        places == next .. next + Cardinality(new) - 1
    IN
    /\ r.kind = "syncing"
    /\ Ends(h)
    /\ kept \subseteq LocationIds
    /\ places \subseteq Ids /\ (r.new => r.id \in Ids)
    /\ \E at \in [places -> new] :
        /\ \A l, k \in places : at[l] = at[k] => l = k
        /\ locations' =
            [l \in Ids |->
                IF l \in places
                THEN [pc |-> at[l], event |-> r.id, group |-> 0]
                ELSE IF l \in kept THEN Refreshed(r.rows[l])
                ELSE IF l \in existing THEN NoLocation ELSE locations[l]]
    /\ events' = IF r.new THEN [events EXCEPT ![r.id] = [pc |-> r.pc, group |-> 0]]
                 ELSE events
    /\ UNCHANGED <<groups, windows, checkins, minted>>

(* A name that another event has, an error, an expired context: Rollback,  *)
(* or no transaction at all.                                               *)
SyncFails(h) ==
    /\ serving[h].kind \in {"sync", "syncing"}
    /\ Ends(h)
    /\ UNCHANGED tables

(* PatchUpdateEvent reads the row; the request sets its group to g, of      *)
(* which there may be none, or auto_fetch and leaves the group as it is.   *)
ReadEvent(h, e, g) ==
    /\ e \in EventIds
    /\ Begins(h, "patchEvent", [Idle EXCEPT !.kind = "patchEvent", !.id = e, !.group = g])
    /\ UNCHANGED tables

(* UpdateEvent writes the group as read, or as asked for, and everything   *)
(* but planning_center_id: to whatever row has the id by now, unless the   *)
(* group is gone, which foreign_keys does not let pass.                    *)
UpdateEvent(e, g) ==
    events' = IF e \in EventIds /\ g \in GroupIds \cup {0}
              THEN [events EXCEPT ![e].group = g] ELSE events

WriteEvent(h) ==
    /\ serving[h].kind = "patchEvent"
    /\ Unlocked
    /\ Ends(h)
    /\ UpdateEvent(serving[h].id, serving[h].group)
    /\ UNCHANGED <<groups, locations, windows, checkins, minted>>

(* DeleteEventWithDependents: check windows, check-ins of the event or at  *)
(* a location that carries its id, those locations and the event.          *)
DeleteEvent(e) ==
    /\ Asks("deleteEvent") /\ Unlocked
    /\ e \in EventIds
    /\ windows' = [w \in Ids |-> IF windows[w].event = e THEN NoWindow ELSE windows[w]]
    /\ checkins' = [c \in Children |->
                        IF checkins[c].event = e \/ checkins[c].location \in LocationsOf(e)
                        THEN NoCheckin ELSE checkins[c]]
    /\ locations' = [l \in Ids |->
                        IF l \in LocationsOf(e) THEN NoLocation ELSE locations[l]]
    /\ events' = [events EXCEPT ![e] = NoEvent]
    /\ UNCHANGED <<groups, minted, serving>>

-----------------------------------------------------------------------------
(* Check windows.                                                          *)

(* PostCreateCheckWindow looks for the event,                              *)
FindEvent(h, e) ==
    /\ e \in EventIds
    /\ Begins(h, "window", [Idle EXCEPT !.kind = "postWindow", !.event = e])
    /\ UNCHANGED tables

(* Mutant: foreign_keys is off.                                            *)
InsertableMutant(e) == TRUE

(* event_check_windows.event_id REFERENCES events.                         *)
Insertable(e) == e \in EventIds

(* and inserts a window for its id, unless there is no event of that id.   *)
(* Beside the row, a window keeps which insertion it is from (born) and    *)
(* for which event (of).                                                   *)
CreateCheckWindow(h) ==
    LET w == NextId(WindowIds) IN
    /\ serving[h].kind = "postWindow"
    /\ Unlocked /\ w \in Ids
    /\ Ends(h)
    /\ IF Insertable(serving[h].event)
       THEN /\ windows' = [windows EXCEPT ![w] = [event |-> serving[h].event,
                                                  born |-> minted + 1,
                                                  of |-> serving[h].event]]
            /\ minted' = minted + 1
       ELSE UNCHANGED <<windows, minted>>
    /\ UNCHANGED <<groups, events, locations, checkins>>

(* Mutant: PUT and DELETE take a window by its id alone.                   *)
WindowOfMutant(e, w) == w \in WindowIds

(* The window is there and is one of the event in the URL.                 *)
WindowOf(e, w) == w \in WindowIds /\ windows[w].event = e

(* PutUpdateCheckWindow and DeleteCheckWindow read the window,             *)
FindWindow(h, e, w, kind) ==
    /\ WindowOf(e, w)
    /\ Begins(h, "window", [Idle EXCEPT !.kind = kind, !.event = e, !.id = w,
                                         !.born = windows[w].born])
    /\ UNCHANGED tables

(* The row a PUT leaves: the window is still the one inserted, and its     *)
(* history forgets for which event once a PUT of another has written it.   *)
Rewritten(row, r) ==
    [event |-> r.event, born |-> row.born, of |-> IF r.born = row.born THEN row.of ELSE 0]

(* write all of it, the event of the URL included,                         *)
UpdateCheckWindow(h) ==
    LET r == serving[h] IN
    /\ r.kind = "putWindow"
    /\ Unlocked
    /\ Ends(h)
    /\ windows' = IF r.id \in WindowIds /\ Insertable(r.event)
                  THEN [windows EXCEPT ![r.id] = Rewritten(windows[r.id], r)] ELSE windows
    /\ UNCHANGED <<groups, events, locations, checkins, minted>>

(* or delete it: in either case whatever window has the id by now.         *)
DeleteCheckWindow(h) ==
    LET r == serving[h] IN
    /\ r.kind = "deleteWindow"
    /\ Unlocked
    /\ Ends(h)
    /\ windows' = [windows EXCEPT ![r.id] = NoWindow]
    /\ UNCHANGED <<groups, events, locations, checkins, minted>>

-----------------------------------------------------------------------------
(* The worker.                                                             *)

(* It reads the row of an event and has read the ids of all locations.     *)
LoadEvent(h, e) ==
    /\ e \in EventIds
    /\ \A k \in Handlers : <<serving[k].kind, serving[k].id>> # <<"fetch", e>>
    /\ Begins(h, "fetch",
              [Idle EXCEPT !.kind = "fetch", !.id = e, !.pc = events[e].pc,
                           !.group = events[e].group,
                           !.rows = [l \in Ids |-> [NoLocation EXCEPT !.pc = locations[l].pc]]])
    /\ UNCHANGED tables

(* Mutant: location_id is one of the columns written on a conflict.        *)
PlaceMutant(c, l) == l

(* A child stored before keeps its location_id.                            *)
Place(c, l) == IF c \in Stored THEN checkins[c].location ELSE l

(* A child of the event is stored at the location it knows by the room.    *)
CreateCheckin(h, c) ==
    LET r == serving[h] IN
    /\ r.kind = "fetch"
    /\ Unlocked
    /\ home[RoomOf[c]] = r.pc
    /\ \E l \in Ids :
        /\ r.rows[l].pc = RoomOf[c]
        /\ checkins' = [checkins EXCEPT ![c] = [location |-> Place(c, l), event |-> r.id]]
    /\ UNCHANGED <<day, home, groups, events, locations, windows, minted, serving, asked, moved>>

(* The horizon is advanced with the rest of the row as it was read; or the *)
(* fetch fails, and the row is left alone.                                 *)
Advance(h) ==
    /\ serving[h].kind = "fetch"
    /\ Unlocked
    /\ Ends(h)
    /\ \/ UpdateEvent(serving[h].id, serving[h].group)
       \/ UNCHANGED events
    /\ UNCHANGED <<groups, locations, windows, checkins, minted>>

(* RemoveOldCheckins: those checked out before a moment that is past.      *)
RemoveOldCheckins(S) ==
    /\ Asks("deleteOld") /\ Unlocked
    /\ checkins' = [c \in Children |-> IF c \in S THEN NoCheckin ELSE checkins[c]]
    /\ UNCHANGED <<groups, events, locations, windows, minted, serving>>

-----------------------------------------------------------------------------
Init ==
    /\ day \in Days
    /\ home \in [PcLocations -> PcEvents]
    /\ groups = [g \in Ids |-> None]
    /\ events = [e \in Ids |-> NoEvent]
    /\ locations = [l \in Ids |-> NoLocation]
    /\ windows = [w \in Ids |-> NoWindow]
    /\ checkins = [c \in Children |-> NoCheckin]
    /\ serving = [h \in Handlers |-> Idle]
    /\ asked = 0 /\ moved = 0 /\ minted = 0

Groups(h) ==
    \/ \E g \in Ids : CountLocations(h, g)
    \/ CountEvents(h) \/ DeleteLocationGroup(h)

Locations(h) ==
    \/ \E l \in Ids, g \in Ids \cup {0} : ReadLocation(h, l, g)
    \/ UpdateLocation(h)

Syncs(h) ==
    \/ \E p \in PcEvents : AskPlanningCenter(h, p)
    \/ ListExisting(h) \/ CommitSync(h) \/ SyncFails(h)

Events(h) ==
    \/ \E e \in EventIds, g \in Ids \cup {0} : ReadEvent(h, e, g)
    \/ WriteEvent(h)

Windows(h) ==
    \/ \E e \in Ids : FindEvent(h, e)
    \/ CreateCheckWindow(h)
    \/ \E e, w \in Ids, kind \in {"putWindow", "deleteWindow"} : FindWindow(h, e, w, kind)
    \/ UpdateCheckWindow(h) \/ DeleteCheckWindow(h)

Fetches(h) ==
    \/ \E e \in Ids : LoadEvent(h, e)
    \/ \E c \in Children : CreateCheckin(h, c)
    \/ Advance(h)

Next ==
    \/ \E q \in PcLocations, p \in PcEvents : MoveLocation(q, p)
    \/ \E n \in GroupNames : CreateLocationGroup(n) \/ \E g \in Ids : UpdateLocationGroup(g, n)
    \/ \E q \in PcLocations : CreateLocation(q)
    \/ \E e \in Ids : DeleteEvent(e)
    \/ \E S \in SUBSET Stored : RemoveOldCheckins(S)
    \/ \E h \in Handlers :
        Groups(h) \/ Locations(h) \/ Syncs(h) \/ Events(h) \/ Windows(h) \/ Fetches(h)

Spec == Init /\ [][Next]_vars

-----------------------------------------------------------------------------
(* An event's group and a window's event are in their tables, whatever      *)
(* requests meet: a group given to an event between the counts and the     *)
(* delete, an event deleted between the look-up and the insert, a row      *)
(* written back as it was read long ago (foreign_keys, db.go:78-82).       *)
ReferencesHold ==
    /\ \A e \in EventIds : events[e].group \in GroupIds \cup {0}
    /\ \A w \in WindowIds : windows[w].event \in EventIds

(* However many administrators sync an event at once, it has one row: two  *)
(* would be fetched twice, each against windows and a horizon of its own   *)
(* (CreateEventWithLocations; the schema has no unique index for it).      *)
OneEventPerPlanningCenterId ==
    \A e, f \in EventIds : events[e].pc = events[f].pc => e = f

(* A sync never takes a location out of the group an administrator put it  *)
(* in, even one assigned while the sync was under way (create.go:66-72).   *)
SyncKeepsGroups ==
    [][\A h \in Handlers : serving[h].kind = "syncing" /\ serving'[h] = Idle =>
        \A l \in LocationIds \cap LocationIds' : locations'[l].pc = locations[l].pc =>
            locations'[l].group = locations[l].group]_vars

(* A child leaves the list of a board, whatever groups that asks for, only *)
(* if its location is patched or deleted, or its check-in removed: with an *)
(* event, its own or its location's, or as an old one; from a list by the  *)
(* name of a group, also if its group is given another name or deleted.    *)
(* Not by a rename or a delete from any other list, nor because its        *)
(* location is synced, a new location or group is given the id of one that *)
(* is gone, or the child is fetched again (ListCheckins).                  *)
StaysListed ==
    [][\A c \in Children, wanted \in SUBSET Ids, unassigned \in BOOLEAN,
          name \in GroupNames \cup {None} :
        c \in ListCheckins(wanted, unassigned, name) \ ListCheckins(wanted, unassigned, name)' =>
            LET l == checkins[c].location IN
            \/ l \in LocationIds \ LocationIds'
            \/ \E h \in Handlers : /\ serving[h].kind = "patchLocation" /\ serving'[h] = Idle
                                   /\ serving[h].id = l
            \/ \E e \in EventIds \ EventIds' : e = checkins[c].event \/ l \in LocationsOf(e)
            \/ checkins'[c] = NoCheckin /\ UNCHANGED <<groups, events, locations, windows>>
            \/ name # None /\ groups'[GroupOf(c)] # groups[GroupOf(c)]]_vars

(* Until a PUT that had looked up another window under its id writes it, a *)
(* window is one of the event it was inserted for: the look-up refuses a   *)
(* window of another event than the URL's (PutUpdateCheckWindow), and only *)
(* an id given out again between look-up and write gets round it.          *)
MovedOnlyByReuse ==
    \A w \in WindowIds : windows[w].of \in {windows[w].event, 0}
=============================================================================
