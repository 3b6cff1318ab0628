--------------------------- MODULE MCGuestEntries ---------------------------
(* Instances of GuestEntries for TLC.                                      *)
EXTENDS GuestEntries

(* Two families at the kiosk, two failures.                                *)
KioskDay == [entries |-> 0, posts |-> 3, clicks |-> 0, failures |-> 2]

(* One submission, marked by two administrators who turn back to it.       *)
MarksDay == [entries |-> 1, posts |-> 0, clicks |-> 5, failures |-> 1]

(* Two, on pages of one, marked while pages are turned.                  *)
PagesDay == [entries |-> 2, posts |-> 0, clicks |-> 4, failures |-> 0]

(* One that comes in while the list is looked at.                          *)
BusyDay == [entries |-> 1, posts |-> 1, clicks |-> 3, failures |-> 0]

AllDays == {KioskDay, MarksDay, PagesDay, BusyDay}
=============================================================================
