-------------------------- MODULE MCAdministration --------------------------
(* Instances of Administration for TLC.                                    *)
EXTENDS Administration, TLC

CONSTANTS p1, p2, q1, q2, c1, n1, n2

Room == (c1 :> q1)

(* Groups given to events and locations while one is being deleted.        *)
GroupDay == [kinds |-> {"group", "patchLocation", "patchEvent", "sync"},
             requests |-> 6, moves |-> 0]

(* Windows of two events, one of which is deleted and comes back.          *)
WindowDay == [kinds |-> {"window", "sync", "deleteEvent"}, requests |-> 7, moves |-> 0]

(* Locations that move while they are synced, fetched and assigned.        *)
SyncDay == [kinds |-> {"group", "patchLocation", "sync", "upsert", "deleteEvent",
                       "fetch", "deleteOld"},
            requests |-> 6, moves |-> 1]

AllDays == {GroupDay, WindowDay, SyncDay}
HandlerSymmetry == Permutations(Handlers) \cup Permutations(GroupNames)
=============================================================================
