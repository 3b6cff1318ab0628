--------------------------- MODULE CheckoutsBoard ---------------------------
(***************************************************************************)
(* One checkouts board (internal/web/static/pages/checkoutsv1/checkouts.js)*)
(* against the server it polls: the main list, the overdue drawer, the     *)
(* optimistic confirmation of a row and the PATCH behind it, while other   *)
(* devices confirm the same children.                                      *)
(*                                                                         *)
(* A step is one run of an event handler, a timer callback or the          *)
(* continuation of a fetch, and one SQL statement on the server.  Children *)
(* are numbered in the order they were checked out, so that a list, newest *)
(* first, shows them in descending order.  A row of either list carries no *)
(* id and morphdom matches rows by position: the checkbox node at position *)
(* p stays the same node whatever child it comes to show, and a PATCH in   *)
(* flight holds on to the node that was clicked.                           *)
(***************************************************************************)
EXTENDS Integers, Sequences, FiniteSets

CONSTANTS
    N,              \* children, numbered in the order they are checked out
    Days            \* bounds: what a behaviour may hold, one record for each

(* On a day, the children 1..kids are checked out, each checkbox is clicked *)
(* at most clicks times, other devices change confirmations at most changes *)
(* times, at most failures requests are refused or lost, and the reader     *)
(* toggles "hide confirmed" if hiding.                                      *)
ASSUME BoardAssumption ==
    /\ N \in Nat \ {0}
    /\ Days \subseteq [kids : 1..N, hiding : BOOLEAN, clicks : Nat, changes : Nat,
                      failures : Nat]

VARIABLES
    day,        \* the bounds of this behaviour
    row,        \* server: what the checkouts query says of each child
    late,       \* children 1..late were checked out five minutes ago
    gone,       \* children 1..gone have left the polled window
    data,       \* childrenData, as a function like row
    pollFailed, \* lastPollFailed
    override,   \* confirmationOverrides
    poll,       \* the poll in flight and its answer
    hide,       \* hideConfirmed
    mainSig,    \* lastListSignature
    main,       \* the checkbox nodes of the main list
    drawer,     \* the overdue sheet
    badge,      \* the overdue badge is visible
    patches,    \* confirmCheckedOut calls in flight
    clicks, changes, failures,  \* counters of the bounds
    wanted      \* the change the last click asked for, while it must hold

server == <<row, late, gone>>
screen == <<mainSig, main, drawer, badge>>
bounds == <<day, clicks, changes, failures>>
vars == <<server, data, pollFailed, override, poll, hide, screen, patches,
          bounds, wanted>>

Children == 1..N
States == {"absent", "open", "confirmed"}
Flags == {"open", "confirmed"}
Flip(f) == IF f = "open" THEN "confirmed" ELSE "open"
Nobody == [c \in Children |-> "absent"]

-----------------------------------------------------------------------------
(* What the page computes from childrenData d and the overrides o.         *)

Listed(d) == {c \in Children : d[c] # "absent"}

(* isChildConfirmed.                                                       *)
Shown(c, d, o) == IF o[c] = "none" THEN d[c] ELSE o[c]

(* getOverdueChildren.                                                     *)
Overdue(d, o) == {c \in Listed(d) : c <= late /\ Shown(c, d, o) = "open"}

(* getVisibleChildren: the filter reads the polled flag, not the override. *)
Visible(d, h) == {c \in Listed(d) : h => d[c] = "open"}

(* Newest first: the child at position p of a list of the children of S.   *)
Nth(S, p) == CHOOSE c \in S : Cardinality({k \in S : k > c}) = p - 1

(* The markup of a list, a node per child: data-confirming is not part of  *)
(* it, so a morph takes it off every row.                                  *)
Rows(S, flag) ==
    [p \in 1..Cardinality(S) |->
        LET c == Nth(S, p)
        IN [child |-> c, box |-> flag[c], label |-> flag[c], busy |-> FALSE]]

(* syncConfirmedStates, for one list.                                      *)
Synced(rows, d, o) ==
    [p \in DOMAIN rows |->
        LET c == rows[p].child
        IN IF c \in Listed(d)
           THEN [rows[p] EXCEPT !.box = Shown(c, d, o), !.label = Shown(c, d, o)]
           ELSE rows[p]]

(* Mutant: the rendered ids are replaced only along with the rows.         *)
DrawerWithMutant(w, S, d, o) ==
    LET flag == [c \in Children |-> Shown(c, d, o)]
        sig == {<<c, flag[c]>> : c \in S}
    IN IF sig = w.sig THEN w
       ELSE [w EXCEPT !.rendered = S, !.sig = sig, !.rows = Rows(S, flag)]

(* renderOverdueSheet: the rendered ids are replaced whether or not the    *)
(* signature makes it rebuild the rows.                                    *)
DrawerWith(w, S, d, o) ==
    LET flag == [c \in Children |-> Shown(c, d, o)]
        sig == {<<c, flag[c]>> : c \in S}
    IN [w EXCEPT !.rendered = S,
                 !.sig = sig,
                 !.rows = IF sig = w.sig THEN @ ELSE Rows(S, flag)]

(* updateOverdueUI: an open drawer keeps the children it shows until they  *)
(* leave the payload, and takes in no other; a failed poll freezes it.     *)
DrawerUpdated(w, d, o, failed) ==
    IF ~w.open \/ failed THEN w
    ELSE LET frozen == Overdue(d, o) \cap w.rendered
             kept == ((w.retained \cup w.rendered) \ frozen) \cap Listed(d)
         IN [DrawerWith(w, frozen \cup kept, d, o) EXCEPT !.retained = kept]

(* Mutant: a node that left the document is still taken for a row.         *)
DetachedMutant(P, list, n) == P

(* morphChildren keeps the first n nodes of a list; a PATCH whose node     *)
(* leaves the document goes on writing to the detached node.               *)
Detached(P, list, n) ==
    {IF q.list = list /\ q.node > n THEN [q EXCEPT !.list = "none", !.node = 0]
                                    ELSE q : q \in P}

-----------------------------------------------------------------------------
(* Every variable holds values of its type; an open PATCH holds a node that *)
(* is on screen or none, and a child is in the drawer at most once.        *)
TypeOK ==
    LET Nodes == [child : Children, box : Flags, label : Flags, busy : BOOLEAN]
        Lists == UNION {[1..n -> Nodes] : n \in 0..N}
        Places == ({"main", "drawer"} \X Children) \cup {<<"none", 0>>}
    IN
    /\ day \in Days
    /\ row \in [Children -> States]
    /\ gone \in 0..N /\ late \in gone..N
    /\ data \in [Children -> States]
    /\ pollFailed \in BOOLEAN
    /\ override \in [Children -> Flags \cup {"none"}]
    /\ poll \in [waiting : BOOLEAN, answer : [Children -> States]]
    /\ hide \in BOOLEAN
    /\ mainSig \in [drawn : BOOLEAN, hide : BOOLEAN, kids : SUBSET Children]
    /\ Len(main) <= N /\ \A p \in DOMAIN main : main[p] \in Nodes
    /\ drawer.open \in BOOLEAN
    /\ drawer.sig \subseteq Children \X Flags
    /\ drawer.rendered \subseteq Children /\ drawer.retained \subseteq Children
    /\ Len(drawer.rows) <= N /\ \A p \in DOMAIN drawer.rows : drawer.rows[p] \in Nodes
    /\ \A c \in Children : Cardinality({s \in drawer.sig : s[1] = c}) <= 1
    /\ badge \in BOOLEAN
    /\ \A q \in patches :
        /\ q.id \in Nat /\ q.child \in Children /\ {q.value, q.prev} \subseteq Flags
        /\ <<q.list, q.node>> \in Places
        /\ q.list = "main" => q.node \in DOMAIN main
        /\ q.list = "drawer" => q.node \in DOMAIN drawer.rows
        /\ q.stage \in {"sent", "applied", "failed"}
    /\ clicks \in [Children -> 0..day.clicks]
    /\ changes \in 0..day.changes /\ failures \in 0..day.failures
    /\ wanted \in [Children -> Flags \cup {"none"}]

Init ==
    /\ day \in Days
    /\ row = Nobody /\ late = 0 /\ gone = 0
    /\ data = Nobody /\ pollFailed = FALSE
    /\ override = [c \in Children |-> "none"]
    /\ poll = [waiting |-> FALSE, answer |-> Nobody]
    /\ hide = FALSE
    /\ mainSig = [drawn |-> FALSE, hide |-> FALSE, kids |-> {}]
    /\ main = <<>>
    /\ drawer = [open |-> FALSE, rows |-> <<>>, sig |-> {}, rendered |-> {},
                 retained |-> {}]
    /\ badge = FALSE
    /\ patches = {}
    /\ clicks = [c \in Children |-> 0] /\ changes = 0 /\ failures = 0
    /\ wanted = [c \in Children |-> "none"]

-----------------------------------------------------------------------------
(* The rest of the world: check-outs, time and other devices.              *)

(* The fetcher, or a manual check-out, lists c: possibly long after the    *)
(* moment it was checked out, but not once that left the polled window.    *)
List(c) ==
    /\ row[c] = "absent" /\ c \in gone + 1 .. day.kids
    /\ row' = [row EXCEPT ![c] = "open"]
    /\ UNCHANGED <<late, gone, data, pollFailed, override, poll, hide, screen,
                   patches, bounds, wanted>>

BecomeLate ==
    /\ late < day.kids
    /\ late' = late + 1
    /\ UNCHANGED <<row, gone, data, pollFailed, override, poll, hide, screen,
                   patches, bounds, wanted>>

(* The oldest child still listed falls below checked_out_after.            *)
LeaveWindow ==
    /\ gone < late
    /\ gone' = gone + 1
    /\ row' = [row EXCEPT ![gone + 1] = "absent"]
    /\ UNCHANGED <<late, data, pollFailed, override, poll, hide, screen, patches,
                   bounds, wanted>>

(* Another board confirms c, or takes its confirmation back.               *)
OtherDevice(c) ==
    /\ row[c] # "absent" /\ changes < day.changes
    /\ row' = [row EXCEPT ![c] = Flip(@)]
    /\ changes' = changes + 1
    /\ wanted' = [wanted EXCEPT ![c] = "none"]
    /\ UNCHANGED <<late, gone, data, pollFailed, override, poll, hide, screen,
                   patches, day, clicks, failures>>

-----------------------------------------------------------------------------
(* Drawing.                                                                *)

(* updateOverdueUI on the drawer w: the badge counts the overdue children  *)
(* whether or not the drawer is open.                                      *)
UpdateOverdueUI(w, d, o, failed) ==
    /\ badge' = (Overdue(d, o) # {})
    /\ drawer' = DrawerUpdated(w, d, o, failed)

(* Mutant: the lists are brought in line only when the list is rebuilt.    *)
UpdateUIMutant(d, o, h, failed) ==
    LET sig == [drawn |-> TRUE, hide |-> h, kids |-> Visible(d, h)]
    IN /\ mainSig' = sig
       /\ main' = IF sig = mainSig THEN main ELSE Synced(Rows(sig.kids, d), d, o)
       /\ UpdateOverdueUI(drawer, d, o, failed)
       /\ patches' = Detached(Detached(patches, "main", Len(main')),
                              "drawer", Len(drawer'.rows))

(* updateUI: the main list is rebuilt from the polled flags only when its  *)
(* signature changes; then both lists are brought in line with the         *)
(* overrides, and the drawer is updated.                                   *)
UpdateUI(d, o, h, failed) ==
    LET sig == [drawn |-> TRUE, hide |-> h, kids |-> Visible(d, h)]
        drawn == IF sig = mainSig THEN main ELSE Rows(sig.kids, d)
        w == [drawer EXCEPT !.rows = Synced(@, d, o)]
    IN /\ mainSig' = sig
       /\ main' = Synced(drawn, d, o)
       /\ UpdateOverdueUI(w, d, o, failed)
       /\ patches' = Detached(Detached(patches, "main", Len(drawn)),
                              "drawer", Len(drawer'.rows))

-----------------------------------------------------------------------------
(* fetchChildrenData, every three seconds unless one is in flight.         *)

(* GET /v1/checkins/checkouts/ is sent and reads the database; the answer   *)
(* may arrive much later, and no other poll starts before it does.         *)
Sent == ~poll.waiting /\ poll' = [waiting |-> TRUE, answer |-> row]

Ask ==
    /\ Sent
    /\ UNCHANGED <<server, data, pollFailed, override, hide, screen, patches,
                   bounds, wanted>>

(* Mutant: any answer that lists the child drops its override.             *)
ReconciledMutant(o, d) ==
    [c \in Children |-> IF d[c] # "absent" THEN "none" ELSE o[c]]

(* An override the answer agrees with has done its work and is dropped.    *)
Reconciled(o, d) ==
    [c \in Children |-> IF o[c] = d[c] THEN "none" ELSE o[c]]

(* The poll in flight ends: with an answer or an error.                    *)
Answered == poll.waiting /\ poll' = [waiting |-> FALSE, answer |-> Nobody]

Receive ==
    /\ Answered
    /\ data' = poll.answer
    /\ pollFailed' = FALSE
    /\ override' = Reconciled(override, poll.answer)
    /\ UpdateUI(data', override', hide, FALSE)
    /\ UNCHANGED <<server, hide, bounds, wanted>>

(* Any error empties childrenData and puts a message in the main list; the *)
(* drawer and the badge are left to the next tick.                         *)
PollFails ==
    /\ Answered /\ failures < day.failures
    /\ failures' = failures + 1
    /\ data' = Nobody
    /\ pollFailed' = TRUE
    /\ mainSig' = [drawn |-> FALSE, hide |-> FALSE, kids |-> {}]
    /\ main' = <<>>
    /\ patches' = Detached(patches, "main", 0)
    /\ UNCHANGED <<server, override, hide, drawer, badge, day, clicks, changes,
                   wanted>>

(* updateAllTimes, every second.                                           *)
Tick ==
    /\ UpdateOverdueUI(drawer, data, override, pollFailed)
    /\ patches' = Detached(patches, "drawer", Len(drawer'.rows))
    /\ UNCHANGED <<server, data, pollFailed, override, poll, hide, mainSig, main,
                   bounds, wanted>>

(* Mutant: an override never times out.                                    *)
TimedOutMutant(c) ==
    /\ wanted[c] # "none"
    /\ wanted' = [wanted EXCEPT ![c] = "none"]
    /\ UNCHANGED override

(* CONFIRM_OVERRIDE_TTL_MS after the click; the entry is deleted when it   *)
(* is next read, and until then nothing reads it.                          *)
TimedOut(c) ==
    /\ override[c] # "none" \/ wanted[c] # "none"
    /\ override' = [override EXCEPT ![c] = "none"]
    /\ wanted' = [wanted EXCEPT ![c] = "none"]

Lapse(c) ==
    /\ TimedOut(c)
    /\ UNCHANGED <<server, data, pollFailed, poll, hide, screen, patches, bounds>>

-----------------------------------------------------------------------------
(* The reader.                                                             *)

ToggleHide ==
    /\ day.hiding /\ ~drawer.open
    /\ hide' = ~hide
    /\ UpdateUI(data, override, hide', pollFailed)
    /\ UNCHANGED <<server, data, pollFailed, override, poll, bounds, wanted>>

OpenDrawer ==
    /\ ~drawer.open /\ badge
    /\ drawer' = [DrawerWith(drawer, Overdue(data, override), data, override)
                    EXCEPT !.open = TRUE, !.retained = {}]
    /\ patches' = Detached(patches, "drawer", Len(drawer'.rows))
    /\ UNCHANGED <<server, data, pollFailed, override, poll, hide, mainSig, main,
                   badge, bounds, wanted>>

CloseDrawer ==
    /\ drawer.open
    /\ drawer' = [drawer EXCEPT !.open = FALSE, !.rendered = {}, !.retained = {}]
    /\ UNCHANGED <<server, data, pollFailed, override, poll, hide, mainSig, main,
                   badge, patches, bounds, wanted>>

NewId == CHOOSE i \in 1..(Cardinality(patches) + 1) : \A q \in patches : q.id # i

(* The change handler on the node at position p: the browser has flipped   *)
(* the box; the label follows it; a node already confirming sends nothing. *)
(* The open drawer makes the main list inert.                              *)
Click(p) ==
    LET rows == IF drawer.open THEN drawer.rows ELSE main
        node == rows[p]
        c == node.child
        v == Flip(node.box)
        honest == v # node.label /\ v # Shown(c, data, override) /\ v # poll.answer[c]
        wasOverdue == c \in Overdue(data, override)
        clicked == [rows EXCEPT ![p] = [node EXCEPT !.box = v, !.label = v,
                                                    !.busy = TRUE]]
        w == IF drawer.open THEN [drawer EXCEPT !.rows = clicked] ELSE drawer
        sent == IF node.busy THEN {}
                ELSE {[id |-> NewId, child |-> c, value |-> v, prev |-> node.label,
                       list |-> IF drawer.open THEN "drawer" ELSE "main",
                       node |-> p, stage |-> "sent"]}
    IN /\ clicks[c] < day.clicks
       /\ clicks' = [clicks EXCEPT ![c] = @ + 1]
       /\ override' = IF node.busy THEN override ELSE [override EXCEPT ![c] = v]
       /\ wanted' = IF node.busy THEN wanted
                    ELSE [wanted EXCEPT ![c] = IF honest THEN v ELSE "none"]
       /\ main' = IF drawer.open THEN main ELSE clicked
       /\ IF v = "open" \/ wasOverdue
          THEN UpdateOverdueUI(w, data, override', pollFailed)
          ELSE drawer' = w /\ UNCHANGED badge
       /\ patches' = Detached(patches \cup sent, "drawer", Len(drawer'.rows))
       /\ UNCHANGED <<server, data, pollFailed, poll, hide, mainSig, day,
                     changes, failures>>

-----------------------------------------------------------------------------
(* The PATCH behind a click, and the continuation that awaits it.          *)

Staged(q, s) == (patches \ {q}) \cup {[q EXCEPT !.stage = s]}

(* The request reaches the server.                                         *)
Arrived(q) == q.stage = "sent" /\ patches' = Staged(q, "applied")

(* SetCheckedOutConfirmedAt.                                               *)
Apply(q) ==
    /\ Arrived(q)
    /\ row' = [row EXCEPT ![q.child] = IF @ = "absent" THEN @ ELSE q.value]
    /\ UNCHANGED <<late, gone, data, pollFailed, override, poll, hide, screen,
                   bounds, wanted>>

(* The request is refused or lost, or its answer is.                       *)
PatchLost(q) ==
    /\ q.stage # "failed" /\ failures < day.failures
    /\ failures' = failures + 1
    /\ patches' = Staged(q, "failed")
    /\ UNCHANGED <<server, data, pollFailed, override, poll, hide, screen,
                   day, clicks, changes, wanted>>

(* The await ends.                                                         *)
Returned(q) == q.stage # "sent" /\ patches' = patches \ {q}

(* The clicked node is written by reference: whatever child its row shows  *)
(* by now, and to no effect if it left the document.                       *)
Settle(q, box, relabelled) ==
    LET settled(n) == [n EXCEPT !.box = box, !.busy = FALSE,
                                !.label = IF relabelled THEN box ELSE @]
    IN
    /\ Returned(q)
    /\ main' = IF q.list = "main" THEN [main EXCEPT ![q.node] = settled(@)] ELSE main
    /\ drawer' = IF q.list = "drawer"
                 THEN [drawer EXCEPT !.rows[q.node] = settled(@)] ELSE drawer
    /\ UNCHANGED <<server, data, pollFailed, poll, hide, mainSig, badge, bounds>>

PatchDone(q) ==
    /\ q.stage = "applied"
    /\ Settle(q, q.value, FALSE)
    /\ UNCHANGED <<override, wanted>>

PatchFailed(q) ==
    /\ q.stage = "failed"
    /\ Settle(q, q.prev, TRUE)
    /\ override' = [override EXCEPT ![q.child] = "none"]
    /\ wanted' = [wanted EXCEPT ![q.child] = "none"]

-----------------------------------------------------------------------------
World == \/ \E c \in Children : List(c) \/ OtherDevice(c) \/ Lapse(c)
         \/ BecomeLate \/ LeaveWindow

Polling == Ask \/ Receive \/ PollFails \/ Tick

Reader == \/ ToggleHide \/ OpenDrawer \/ CloseDrawer
          \/ \E p \in DOMAIN (IF drawer.open THEN drawer.rows ELSE main) : Click(p)

Confirming == \E q \in patches :
                Apply(q) \/ PatchLost(q) \/ PatchDone(q) \/ PatchFailed(q)

Next == World \/ Polling \/ Reader \/ Confirming

Spec == Init /\ [][Next]_vars

(* The timers of the page run and the server answers what it is asked, a   *)
(* confirmation is settled in the end, and the TTL of an override passes.  *)
FairSpec ==
    /\ Spec
    /\ WF_poll(Sent \/ Answered)
    /\ WF_patches(\E q \in patches : Arrived(q) \/ Returned(q))
    /\ WF_<<override, wanted>>(\E c \in Children : TimedOut(c))

-----------------------------------------------------------------------------
Names(rows) == [p \in DOMAIN rows |-> rows[p].child]

Shows(rows) == {rows[p].child : p \in DOMAIN rows}

(* While the drawer is open no row enters it, none changes place and none  *)
(* leaves it, except a child a successful poll no longer lists: whatever   *)
(* is confirmed here or elsewhere, becomes overdue or fails to load        *)
(* (updateOverdueUI, and the comment above drawerRenderedIds).  No child    *)
(* is shown twice: of two new rows, the old ones are in the same order.    *)
DrawerSteady ==
    [][drawer.open /\ drawer'.open =>
        LET stays(c) == pollFailed' \/ c \in Listed(data')
            old == Names(drawer.rows)
            new == Names(drawer'.rows)
        IN /\ Shows(drawer'.rows) = {c \in Shows(drawer.rows) : stays(c)}
           /\ \A i, j \in DOMAIN new : \A k, l \in DOMAIN old :
                i < j /\ new[i] = old[k] /\ new[j] = old[l] => k < l]_vars

(* A reader who has clicked a child's checkbox once goes on seeing that    *)
(* answer, whatever polls were in flight, until the PATCH fails, another   *)
(* device changes the child or 15 seconds pass (confirmationOverrides).    *)
(* A click that asks for what the poll then in flight has read is not      *)
(* held: that answer drops the override, and if the database was changed   *)
(* back before the click, the next one may show the child as it was.       *)
FirstClickHolds ==
    \A c \in Listed(data) :
        clicks[c] = 1 /\ wanted[c] # "none" => Shown(c, data, override) = wanted[c]

(* A child's confirmation has at most one PATCH in flight from this board: *)
(* KNOWN-BEHAVIORS.md, "Double-clicking a confirmation sends one PATCH".   *)
OnePatchInFlight ==
    \A q, r \in patches : q.child = r.child => q = r

(* Every row on screen says what the database says, and the list misses    *)
(* nobody.                                                                 *)
Agreed ==
    LET true(n) == n.box = row[n.child] /\ n.label = row[n.child]
    IN /\ Shows(main) = Visible(row, hide)
       /\ \A p \in DOMAIN main : true(main[p])
       /\ drawer.open => \A p \in DOMAIN drawer.rows : true(drawer.rows[p])

(* Once clicks and failures are over, the board comes to agree with the    *)
(* database and stays so: no override, stale node or late answer keeps a   *)
(* wrong row (fetchChildrenData, syncConfirmedStates).                     *)
Reconciles == <>[]Agreed
=============================================================================
