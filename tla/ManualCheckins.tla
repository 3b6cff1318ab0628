--------------------------- MODULE ManualCheckins ---------------------------
(***************************************************************************)
(* The manual_checkins table and everything that reads or writes it: guest *)
(* submissions, which bring a row for each child, the request that puts    *)
(* missing rows back, walk-ins, the two PATCH handlers, checkins delete-old*)
(* run from another process, and the manual check-ins page, which polls the*)
(* table every five seconds and checks children out.                       *)
(*                                                                         *)
(* A step is one SQL statement on its own connection, one handler or       *)
(* continuation of the page, or one statement of the only transaction that *)
(* decides from what it reads.  A row is known to clients by its public_id *)
(* and to SQL by its id: an INTEGER PRIMARY KEY without AUTOINCREMENT, so  *)
(* that an id comes back once the rows above it are deleted.               *)
(***************************************************************************)
EXTENDS Integers, Sequences, FiniteSets

CONSTANTS
    Admins,         \* connections that serve CreateSubmissionCheckins
    MaxKids,        \* bound: children of one submission
    MaxFamilies,    \* bound: submissions
    MaxNames,       \* bound: rows ever created
    MaxRequests     \* bound: requests but the polls, opening the page included

ASSUME ManualAssumption ==
    {MaxKids, MaxFamilies, MaxNames, MaxRequests} \subseteq Nat

VARIABLES
    parent,     \* children: the submission of each, by child id
    rows,       \* manual_checkins, by id
    minted,     \* public ids handed out
    tx,         \* CreateManualCheckins on each connection
    patches,    \* PATCH requests not yet answered
    open,       \* the page has been opened
    shown,      \* what the page's table says of each public id
    busy,       \* public ids whose button is disabled
    loads,      \* loads of the page not aborted and not over
    asked,      \* requests made so far
    acked       \* what the server last told the page of its own PATCH

table == <<parent, rows, minted>>
page == <<open, shown, busy, loads>>
vars == <<table, tx, patches, page, asked, acked>>

Names == 1..MaxNames
Ids == 1..MaxNames      \* never more ids than rows created
Outs == {"no", "recent", "old"}     \* checked_out_at against 12 hours ago
Badges == {"none", "in", "out"}
Row(n, c, when) == [name |-> n, child |-> c, out |-> when, confirmed |-> FALSE]
Vacant == Row(0, 0, "no")
Blank == [n \in Names |-> "none"]
Idle == [at |-> "idle", family |-> 0, todo |-> {}]

Children == DOMAIN parent
Families == {parent[c] : c \in Children}
Present == {i \in Ids : rows[i] # Vacant}

(* childWithoutManualCheckinExpr, for the children of submission s.        *)
Missing(s) == {c \in Children : parent[c] = s /\ \A i \in Ids : rows[i].child # c}

(* SQLite's next rowid: one above the largest in the table.                *)
NextId ==
    IF Present = {} THEN 1
    ELSE 1 + CHOOSE i \in Present : \A j \in Present : j <= i

(* The rows with one more for each child of S, in the order of their ids,  *)
(* pending and unconfirmed.                                                *)
RowsWith(S) ==
    LET place(c) == Cardinality({d \in S : d < c})
    IN [i \in Ids |->
           IF \E c \in S : i = NextId + place(c)
           THEN LET c == CHOOSE c \in S : i = NextId + place(c)
                IN Row(minted + 1 + place(c), c, "no")
           ELSE rows[i]]

(* _txlock=immediate: a transaction takes the write lock when it begins,   *)
(* and every other write waits for it.                                     *)
Unlocked == \A a \in Admins : tx[a] = Idle

-----------------------------------------------------------------------------
(* Every variable holds values of its type; a disabled button is on        *)
(* screen; ids and public ids in use have been handed out, the latter once.*)
TypeOK ==
    /\ parent \in Seq(1..MaxFamilies)
    /\ minted \in 0..MaxNames
    /\ rows \in [Ids -> [name : 0..minted, child : 0..Len(parent),
                         out : Outs, confirmed : BOOLEAN]]
    /\ \A i \in Ids : (rows[i].name = 0) <=> (rows[i] = Vacant)
    /\ \A i, j \in Present : rows[i].name = rows[j].name => i = j
    /\ \A i \in Present : i <= minted
    /\ tx \in [Admins -> [at : {"idle", "begun", "queried"},
                          family : 0..MaxFamilies, todo : SUBSET Children]]
    /\ \A p \in patches :
        /\ p.num \in 1..MaxRequests /\ p.name \in 1..minted
        /\ p.op \in {"out", "in", "confirm", "unconfirm"}
        /\ p.at \in {"sent", "found", "written"} /\ p.id \in 0..minted
        /\ {p.page, p.node, p.last} \subseteq BOOLEAN
    /\ open \in BOOLEAN
    /\ shown \in [Names -> Badges]
    /\ busy \subseteq {n \in Names : shown[n] # "none"}
    /\ \A l \in loads : l.at \in {"sent", "read"} /\ l.answer \in [Names -> Badges]
    /\ asked \in 0..MaxRequests
    /\ acked \in [Names -> Badges]

Init ==
    /\ parent = <<>>
    /\ rows = [i \in Ids |-> Vacant]
    /\ minted = 0
    /\ tx = [a \in Admins |-> Idle]
    /\ patches = {}
    /\ open = FALSE /\ shown = Blank /\ busy = {} /\ loads = {}
    /\ asked = 0
    /\ acked = Blank

Ask == asked < MaxRequests /\ asked' = asked + 1

-----------------------------------------------------------------------------
(* Rows are created.                                                       *)

(* CreateSubmission, a transaction of inserts alone: the parent, its       *)
(* children and a row for each.  One that fails leaves nothing.            *)
CreateSubmission(n) ==
    LET s == IF parent = <<>> THEN 1 ELSE parent[Len(parent)] + 1
        new == Len(parent) + 1 .. Len(parent) + n
    IN
    /\ Unlocked
    /\ s <= MaxFamilies /\ minted + n <= MaxNames
    /\ parent' = parent \o [k \in 1..n |-> s]
    /\ rows' = RowsWith(new)
    /\ minted' = minted + n
    /\ UNCHANGED <<tx, patches, page, asked, acked>>

(* CreateManualCheckin: a walk-in, of no known child, who may be checked   *)
(* out on the spot.                                                        *)
CreateManualCheckin(out) ==
    /\ Unlocked
    /\ minted < MaxNames
    /\ minted' = minted + 1
    /\ LET when == IF out THEN "recent" ELSE "no"
       IN rows' = [rows EXCEPT ![NextId] = Row(minted + 1, 0, when)]
    /\ UNCHANGED <<parent, tx, patches, page, asked, acked>>

(* Mutant: a transaction that takes no lock when it begins.                *)
BeginTxMutant(a, s) ==
    /\ tx[a] = Idle
    /\ s \in Families
    /\ Ask
    /\ tx' = [tx EXCEPT ![a] = [Idle EXCEPT !.at = "begun", !.family = s]]
    /\ UNCHANGED <<table, patches, page, acked>>

(* CreateManualCheckins: BeginTx, and the submission is found.             *)
BeginTx(a, s) ==
    /\ Unlocked
    /\ s \in Families
    /\ Ask
    /\ tx' = [tx EXCEPT ![a] = [Idle EXCEPT !.at = "begun", !.family = s]]
    /\ UNCHANGED <<table, patches, page, acked>>

(* insertManualCheckins reads the children that have no row.               *)
QueryChildren(a) ==
    /\ tx[a].at = "begun"
    /\ tx' = [tx EXCEPT ![a].at = "queried", ![a].todo = Missing(tx[a].family)]
    /\ UNCHANGED <<table, patches, page, asked, acked>>

(* It inserts a row for each, and the transaction commits.                 *)
InsertManualCheckins(a) ==
    /\ tx[a].at = "queried"
    /\ minted + Cardinality(tx[a].todo) <= MaxNames
    /\ rows' = RowsWith(tx[a].todo)
    /\ minted' = minted + Cardinality(tx[a].todo)
    /\ tx' = [tx EXCEPT ![a] = Idle]
    /\ UNCHANGED <<parent, patches, page, asked, acked>>

(* An error or an expired context: the deferred Rollback.                  *)
Rollback(a) ==
    /\ tx[a] # Idle
    /\ tx' = [tx EXCEPT ![a] = Idle]
    /\ UNCHANGED <<table, patches, page, asked, acked>>

-----------------------------------------------------------------------------
(* Rows are checked out, confirmed and deleted.                            *)

(* num tells apart requests that ask the same of the same row at once.     *)
Request(n, op, fromPage) ==
    LET alike == {p \in patches : <<p.name, p.op, p.page>> = <<n, op, fromPage>>}
    IN
    [num |-> CHOOSE k \in 1..MaxRequests : \A p \in alike : p.num # k,
     name |-> n, op |-> op, at |-> "sent", id |-> 0,
     page |-> fromPage, node |-> fromPage, last |-> FALSE]

Move(p, q) == patches' = (patches \ {p}) \cup {q}

(* A PATCH from another device: a check-out or its undoing from a second   *)
(* manual check-ins page, a confirmation or its undoing from a board.      *)
PatchElsewhere(n, op) ==
    /\ Ask
    /\ n <= minted
    /\ patches' = patches \cup {Request(n, op, FALSE)}
    /\ UNCHANGED <<table, tx, page, acked>>

(* PatchManualCheckedOut and PatchManualCheckedOutConfirmed look the       *)
(* public id up and keep the row's id.                                     *)
FindRow(p) ==
    /\ p.at = "sent"
    /\ \E i \in Present :
        /\ rows[i].name = p.name
        /\ Move(p, [p EXCEPT !.at = "found", !.id = i])
    /\ UNCHANGED <<table, tx, page, asked, acked>>

(* SetManualCheckedOutAt and SetManualCheckedOutConfirmedAt.               *)
Patched(row, op) ==
    CASE op = "out" -> [row EXCEPT !.out = "recent"]
      [] op = "in" -> [row EXCEPT !.out = "no", !.confirmed = FALSE]
      [] op = "confirm" -> [row EXCEPT !.confirmed = TRUE]
      [] op = "unconfirm" -> [row EXCEPT !.confirmed = FALSE]

(* The UPDATE by id, and the row read back for the answer.  From here on   *)
(* an earlier PATCH of the row is no longer the last to have written it.   *)
WriteRow(p) ==
    LET hit == rows[p.id].name
        moves == p.op \in {"out", "in"}
    IN
    /\ p.at = "found" /\ p.id \in Present
    /\ Unlocked
    /\ rows' = [rows EXCEPT ![p.id] = Patched(@, p.op)]
    /\ patches' = {IF moves /\ q.name = hit THEN [q EXCEPT !.last = FALSE] ELSE q :
                      q \in patches \ {p}}
                  \cup (IF p.page THEN {[p EXCEPT !.at = "written", !.last = TRUE]}
                                  ELSE {})
    /\ acked' = IF moves THEN [acked EXCEPT ![hit] = "none"] ELSE acked
    /\ UNCHANGED <<parent, minted, tx, page, asked>>

(* The page's handler catches the error and gives the button it holds back,*)
(* which does nothing once the table was drawn again.                      *)
PatchRejected(p) ==
    /\ patches' = patches \ {p}
    /\ busy' = IF p.node THEN busy \ {p.name} ELSE busy
    /\ UNCHANGED <<table, tx, open, shown, loads, asked, acked>>

(* 404: no row of that name, or none any more of that id.                  *)
PatchNotFound(p) ==
    /\ \/ p.at = "sent" /\ \A i \in Ids : rows[i].name # p.name
       \/ p.at = "found" /\ p.id \notin Present
    /\ PatchRejected(p)

(* A 500, a lock waited for in vain, or an answer lost on its way.         *)
PatchFails(p) == PatchRejected(p)

(* checkins delete-old: RemoveOldManualCheckins deletes what was checked   *)
(* out before a limit, which --age puts 7 days ago or as late as now.      *)
RemoveOldManualCheckins(limit) ==
    LET older == IF limit = "now" THEN {"recent", "old"} ELSE {"old"}
    IN
    /\ Unlocked
    /\ \E i \in Present : rows[i].out \in older
    /\ rows' = [i \in Ids |-> IF rows[i].out \in older THEN Vacant ELSE rows[i]]
    /\ UNCHANGED <<parent, minted, tx, patches, page, asked, acked>>

(* Time passes until no row was checked out in the page's last 12 hours.   *)
Tick ==
    /\ \E i \in Present : rows[i].out = "recent"
    /\ rows' = [i \in Ids |-> IF rows[i].out = "recent"
                              THEN [rows[i] EXCEPT !.out = "old"] ELSE rows[i]]
    /\ UNCHANGED <<parent, minted, tx, patches, page, asked, acked>>

-----------------------------------------------------------------------------
(* The manual check-ins page.                                              *)

(* GetManualCheckins, asked for include_unchecked and the last 12 hours.   *)
Listing ==
    [n \in Names |->
        IF \E i \in Present : rows[i].name = n /\ rows[i].out = "no" THEN "in"
        ELSE IF \E i \in Present : rows[i].name = n /\ rows[i].out = "recent" THEN "out"
        ELSE "none"]

NewLoad == [at |-> "sent", answer |-> Blank]

(* Mutant: the load under way is left to finish.                           *)
LoadsMutant == loads \cup {NewLoad}

(* loadManualCheckins aborts the load under way and starts its own.        *)
LoadsAnew == {NewLoad}

(* DOMContentLoaded.                                                       *)
OpenPage ==
    /\ ~open
    /\ Ask
    /\ open' = TRUE
    /\ loads' = LoadsAnew
    /\ UNCHANGED <<table, tx, patches, shown, busy, acked>>

(* setInterval, every five seconds.  A walk-in saved on the page loads the *)
(* table too.                                                              *)
Poll ==
    /\ open
    /\ loads' = LoadsAnew
    /\ UNCHANGED <<table, tx, patches, open, shown, busy, asked, acked>>

ListManualCheckins ==
    /\ \E l \in loads :
        /\ l.at = "sent"
        /\ loads' = (loads \ {l}) \cup {[at |-> "read", answer |-> Listing]}
    /\ UNCHANGED <<table, tx, patches, open, shown, busy, asked, acked>>

(* Mutant: the rows are drawn anew but their buttons stay as they are.     *)
DrawMutant(badges) ==
    /\ shown' = badges
    /\ UNCHANGED <<busy, patches>>

(* The table is emptied and built again, with new buttons.                 *)
Draw(badges) ==
    /\ shown' = badges
    /\ busy' = {}
    /\ patches' = {[p EXCEPT !.node = FALSE] : p \in patches}

RenderManualCheckins ==
    /\ \E l \in loads :
        /\ l.at = "read"
        /\ loads' = loads \ {l}
        /\ Draw(l.answer)
    /\ UNCHANGED <<table, tx, open, asked, acked>>

(* Any error but an abort empties the table.                               *)
LoadFails ==
    /\ \E l \in loads : loads' = loads \ {l}
    /\ Draw(Blank)
    /\ UNCHANGED <<table, tx, open, asked, acked>>

(* A click on the button of n, unless it is disabled.                      *)
Click(n) ==
    /\ Ask
    /\ shown[n] # "none" /\ n \notin busy
    /\ busy' = busy \cup {n}
    /\ patches' = patches \cup {Request(n, IF shown[n] = "in" THEN "out" ELSE "in", TRUE)}
    /\ UNCHANGED <<table, tx, open, shown, loads, acked>>

(* The PATCH is answered, and the table loaded anew.                       *)
PatchDone(p) ==
    /\ p.at = "written"
    /\ patches' = patches \ {p}
    /\ loads' = LoadsAnew
    /\ acked' = IF p.last THEN [acked EXCEPT ![p.name] = p.op] ELSE acked
    /\ UNCHANGED <<table, tx, open, shown, busy, asked>>

-----------------------------------------------------------------------------
Writes ==
    \/ \E n \in 1..MaxKids : CreateSubmission(n)
    \/ \E out \in BOOLEAN : CreateManualCheckin(out)
    \/ \E a \in Admins :
        \/ \E s \in Families : BeginTx(a, s)
        \/ QueryChildren(a)
        \/ InsertManualCheckins(a)
        \/ Rollback(a)
    \/ \E limit \in {"days ago", "now"} : RemoveOldManualCheckins(limit)
    \/ Tick

Requests ==
    \/ \E n \in Names : \E op \in {"out", "in", "confirm", "unconfirm"} :
        PatchElsewhere(n, op)
    \/ \E p \in patches :
        \/ FindRow(p)
        \/ WriteRow(p)
        \/ PatchNotFound(p)
        \/ PatchFails(p)
        \/ PatchDone(p)

Page ==
    \/ OpenPage
    \/ Poll
    \/ ListManualCheckins
    \/ RenderManualCheckins
    \/ LoadFails
    \/ \E n \in Names : Click(n)

Next == Writes \/ Requests \/ Page

Spec == Init /\ [][Next]_vars

-----------------------------------------------------------------------------
(* No child is on the list twice, however many requests to put missing     *)
(* rows back (CreateManualCheckins) run at once, and whatever delete-old   *)
(* removed between two of them.                                            *)
OneRowPerChild ==
    \A i, j \in Present : rows[i].child = rows[j].child /\ rows[i].child # 0 => i = j

(* Once the server has told the page of a check-out or an undoing, no load *)
(* rendered later (loadManualCheckins) shows the row as it was before,     *)
(* unless another request has written the row since.                       *)
ClickStays ==
    [][\A n \in Names : shown'[n] # shown[n] /\ acked[n] # "none"
                           => shown'[n] \in {"none", acked[n]}]_vars
=============================================================================
