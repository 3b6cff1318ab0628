-------------------------- MODULE MCCheckoutsBoard --------------------------
(* Instances of CheckoutsBoard for TLC.                                    *)
EXTENDS CheckoutsBoard

(* Three children in the drawer, confirmed and unconfirmed on other        *)
(* devices, becoming late, leaving the window, with two failed polls.      *)
DrawerDay == [kids |-> 3, hiding |-> FALSE, clicks |-> 0, changes |-> 3, failures |-> 2]

(* Two children, each clicked once, whose rows change places under a PATCH *)
(* in flight; one request lost.                                            *)
ClicksDay == [kids |-> 2, hiding |-> FALSE, clicks |-> 1, changes |-> 0, failures |-> 1]

(* One child clicked twice and changed elsewhere, one request lost, with   *)
(* confirmed children hidden at times.                                     *)
HidingDay == [kids |-> 1, hiding |-> TRUE, clicks |-> 2, changes |-> 1, failures |-> 1]

(* One child changed and changed back elsewhere around a click and the     *)
(* polls in flight.                                                        *)
CrossedDay == [kids |-> 1, hiding |-> FALSE, clicks |-> 1, changes |-> 2, failures |-> 1]

(* A double click in the drawer.                                           *)
DoubleClickDay == [kids |-> 1, hiding |-> FALSE, clicks |-> 2, changes |-> 0, failures |-> 0]

AllDays == {DrawerDay, ClicksDay, HidingDay, CrossedDay}
DoubleClick == {DoubleClickDay}
=============================================================================
