---------------------------- MODULE GuestEntries ----------------------------
(***************************************************************************)
(* A guest family fills in the form of the kiosk, which posts it and       *)
(* thanks them until a countdown, or the next family, brings the form back.*)
(* Administrators list the submissions by page and mark those they have    *)
(* entered in Planning Center.  Both pages wait for requests with nothing  *)
(* but a disabled button to stop a second click, and the server takes each *)
(* request in statements other requests come between.                      *)
(*                                                                         *)
(* What a family types is one value, its name, and it types nothing more   *)
(* while its POST is under way: that would be cleared with the rest.  The  *)
(* manual check-ins inserted with a submission are ManualCheckins.  An     *)
(* expired session leaves the page and is left out.                        *)
(***************************************************************************)
EXTENDS Integers, FiniteSets

CONSTANTS
    Families,
    Admins,         \* open guest-entries pages
    None,
    PageSize,       \* adminGuestPageSize
    MaxSubs,        \* bound: rows of guest_submissions
    MaxPosts,       \* bound: POSTs of the kiosk
    MaxMarks,       \* bound: PATCHes of submissions
    MaxLoads,       \* bound: lists under way at a time
    Days            \* bounds: what a behaviour may hold, one record for each

ASSUME GuestEntriesAssumption ==
    /\ Families # {} /\ None \notin Families
    /\ PageSize \in Nat \ {0}
    /\ MaxSubs \in Nat \ {0}
    /\ MaxPosts \in Nat /\ MaxMarks \in Nat /\ MaxLoads \in Nat
    /\ Days \subseteq [entries : 0..MaxSubs, posts : Nat, clicks : Nat, failures : Nat]

VARIABLES
    day,        \* the bounds of this behaviour: submissions there are at first,
                \* POSTs, clicks of administrators, requests that fail
    subs,       \* guest_submissions, the oldest first
    kiosk,      \* the kiosk: panel shown, what is typed, button, countdown
    posts,      \* its POSTs
    pages,      \* the page of each administrator
    loads,      \* lists under way
    marks,      \* PATCHes of submissions
    clicks,     \* clicks so far
    failures    \* failures so far

guests == <<kiosk, posts>>
admins == <<pages, loads, marks, clicks>>
vars == <<day, subs, guests, admins, failures>>

Subs == 1..MaxSubs
PostIds == 1..MaxPosts
MarkIds == 1..MaxMarks
LoadIds == 1..MaxLoads
Buckets == {"needs-entry", "entered"}

NoSub == [family |-> None, entered |-> FALSE]
NoPost == [family |-> None, stage |-> "free", open |-> FALSE]
NoMark == [admin |-> None, sub |-> 0, stage |-> "free", open |-> FALSE, attached |-> FALSE]
NoLoad == [admin |-> None, bucket |-> "entered", number |-> 0, attempt |-> 0,
           stage |-> "free", items |-> {}, last |-> 0]

Rows == {s \in Subs : subs[s] # NoSub}

(* The first place not taken, of a table or of the bookkeeping here.       *)
IsNext(i, taken) == i \notin taken /\ \A j \in 1..i-1 : j \in taken

-----------------------------------------------------------------------------
(* What the list of the administrators shows.                              *)

(* statusPredicate: entered_at IS NULL, or not.                            *)
InBucket(b) == {s \in Rows : subs[s].entered = (b = "entered")}

(* Submissions before s in the list: the newer ones.                       *)
Before(s, b) == Cardinality({t \in InBucket(b) : t > s})

(* LIMIT PageSize OFFSET (n - 1) * PageSize.                               *)
ItemsOf(b, n) == {s \in InBucket(b) : Before(s, b) \div PageSize = n - 1}

TotalPages(b) == (Cardinality(InBucket(b)) + PageSize - 1) \div PageSize

-----------------------------------------------------------------------------
(* Every variable holds values of its type.                                *)
TypeOK ==
    /\ day \in Days
    /\ subs \in [Subs -> [family : Families \cup {None}, entered : BOOLEAN]]
    /\ kiosk \in [panel : {"form", "welcome"}, draft : Families \cup {None},
                  disabled : BOOLEAN, ticking : BOOLEAN]
    /\ posts \in [PostIds -> [family : Families \cup {None}, open : BOOLEAN,
                              stage : {"free", "sent", "stored", "thanked", "refused", "lost"}]]
    /\ kiosk.disabled = (\E p \in PostIds : posts[p].open)
    /\ pages \in [Admins ->
         [tab : Buckets, number : [Buckets -> 0..MaxSubs],
          what : [Buckets -> {"closed", "loading", "none", "failed", "cards"}],
          items : [Buckets -> SUBSET Rows], off : SUBSET Rows,
          last : [Buckets -> 0..MaxSubs]]]
    /\ loads \in [LoadIds ->
         [admin : Admins \cup {None}, bucket : Buckets, number : 0..MaxSubs, attempt : 0..1,
          stage : {"free", "asked", "listed", "counted", "failed"},
          items : SUBSET Rows, last : 0..MaxSubs]]
    /\ marks \in [MarkIds ->
         [admin : Admins \cup {None}, sub : Rows \cup {0}, open : BOOLEAN, attached : BOOLEAN,
          stage : {"free", "asked", "checked", "updated", "ok", "refused", "failed"}]]
    /\ clicks \in 0..day.clicks /\ failures \in 0..day.failures

-----------------------------------------------------------------------------
(* The kiosk.                                                              *)

ResetForm(k) == [k EXCEPT !.draft = None]

(* Mutant: the countdown goes on.                                          *)
ShowFormMutant(k) == [k EXCEPT !.panel = "form"]

ShowForm(k) == [k EXCEPT !.panel = "form", !.ticking = FALSE]

ShowWelcome(k) == [k EXCEPT !.panel = "welcome", !.ticking = TRUE]

(* A family types; once thanked it goes.                                   *)
FillIn(f) ==
    /\ day.posts > 0
    /\ kiosk.panel = "form" /\ kiosk.draft = None
    /\ \A p \in PostIds : posts[p].family = f => posts[p].stage # "thanked"
    /\ kiosk' = [kiosk EXCEPT !.draft = f]
    /\ UNCHANGED <<day, subs, posts, admins, failures>>

(* Mutant: the handler does not look at its button.                        *)
MaySubmitMutant == TRUE

MaySubmit == ~kiosk.disabled

(* submitKioskForm, with a form that validateForm lets pass.               *)
SubmitKioskForm(p) ==
    /\ MaySubmit
    /\ kiosk.panel = "form" /\ kiosk.draft # None
    /\ p <= day.posts /\ IsNext(p, {q \in PostIds : posts[q] # NoPost})
    /\ posts' = [posts EXCEPT ![p] = [family |-> kiosk.draft, stage |-> "sent", open |-> TRUE]]
    /\ kiosk' = [kiosk EXCEPT !.disabled = TRUE]
    /\ UNCHANGED <<day, subs, admins, failures>>

(* CreateSubmission: everything is inserted in one transaction.            *)
CreateSubmission(p) ==
    /\ posts[p].stage = "sent"
    /\ posts' = [posts EXCEPT ![p].stage = "stored"]
    /\ \E s \in Subs :
        /\ IsNext(s, Rows)
        /\ subs' = [subs EXCEPT ![s].family = posts[p].family]
    /\ UNCHANGED <<day, kiosk, admins, failures>>

(* validateCreateSubmissionPayload finds something the form let pass.      *)
RefuseSubmission(p) ==
    /\ posts[p].stage = "sent"
    /\ posts' = [posts EXCEPT ![p].stage = "refused"]
    /\ UNCHANGED <<day, subs, kiosk, admins, failures>>

Fails == failures < day.failures /\ failures' = failures + 1

(* The POST fails, or its answer is lost.                                  *)
LosePost(p) ==
    /\ Fails
    /\ posts[p].stage \in {"sent", "stored"}
    /\ posts' = [posts EXCEPT ![p].stage = "lost"]
    /\ UNCHANGED <<day, subs, kiosk, admins>>

(* The form is cleared, the family thanked, the button enabled.            *)
Thank(p) ==
    /\ posts[p].stage = "stored"
    /\ posts' = [posts EXCEPT ![p].stage = "thanked", ![p].open = FALSE]
    /\ kiosk' = [ShowWelcome(ResetForm(kiosk)) EXCEPT !.disabled = FALSE]
    /\ UNCHANGED <<day, subs, admins, failures>>

(* Mutant: the button is enabled only after a success.                     *)
EnabledMutant(k) == k

(* finally { submitButton.disabled = false }                               *)
Enabled(k) == [k EXCEPT !.disabled = FALSE]

(* The error is shown, what is typed stays.                                *)
SubmitFails(p) ==
    /\ posts[p].open /\ posts[p].stage \in {"refused", "lost"}
    /\ posts' = [posts EXCEPT ![p].open = FALSE]
    /\ kiosk' = Enabled(kiosk)
    /\ UNCHANGED <<day, subs, admins, failures>>

(* Ten seconds of startCountdown.                                          *)
Countdown ==
    /\ kiosk.ticking
    /\ kiosk' = ShowForm(ResetForm([kiosk EXCEPT !.ticking = FALSE]))
    /\ UNCHANGED <<day, subs, posts, admins, failures>>

(* The button of the welcome panel.                                        *)
NewSubmission ==
    /\ kiosk.panel = "welcome"
    /\ kiosk' = ShowForm(ResetForm(kiosk))
    /\ UNCHANGED <<day, subs, posts, admins, failures>>

-----------------------------------------------------------------------------
(* The guest-entries page.                                                 *)

Clicks ==
    /\ clicks < day.clicks /\ clicks' = clicks + 1

(* loadEntries: the list is emptied, its buttons with it, and the page     *)
(* asked for; no other load is aborted, and a load may start while others  *)
(* are under way.                                                          *)
LoadEntries(a, b, page, attempt, i) ==
    /\ IsNext(i, {j \in LoadIds : loads[j] # NoLoad})
    /\ pages' = [pages EXCEPT ![a] =
                    [page EXCEPT !.what[b] = "loading", !.items[b] = {},
                                 !.off = IF b = "needs-entry" THEN {} ELSE @]]
    /\ loads' = [loads EXCEPT ![i] =
                    [NoLoad EXCEPT !.admin = a, !.bucket = b, !.attempt = attempt, !.stage = "asked",
                                   !.number = IF page.number[b] = 0 THEN 1 ELSE page.number[b]]]

(* The buttons a load of b takes off the page are in nobody's document.    *)
Detached(a, b) ==
    [m \in MarkIds |-> IF marks[m].admin = a /\ b = "needs-entry"
                       THEN [marks[m] EXCEPT !.attached = FALSE] ELSE marks[m]]

(* The page is opened on the first tab, or a tab is chosen.                *)
OpenTab(a, b, i) ==
    /\ Clicks
    /\ pages[a].what["needs-entry"] = "closed" => b = "needs-entry"
    /\ LoadEntries(a, b, [pages[a] EXCEPT !.tab = b], 0, i)
    /\ marks' = Detached(a, b)
    /\ UNCHANGED <<day, subs, guests, failures>>

(* The bar stays as the last list drew it while the next one is loaded.    *)
GoToPage(a, n, i) ==
    LET b == pages[a].tab IN
    /\ Clicks
    /\ n \in 1..pages[a].last[b]
    /\ LoadEntries(a, b, [pages[a] EXCEPT !.number[b] = n], 0, i)
    /\ marks' = Detached(a, b)
    /\ UNCHANGED <<day, subs, guests, failures>>

(* AdminListSubmissions lists, and counts in another statement.            *)
ListSubmissions(i) ==
    /\ loads[i].stage = "asked"
    /\ loads' = [loads EXCEPT ![i].stage = "listed",
                              ![i].items = ItemsOf(loads[i].bucket, loads[i].number)]
    /\ UNCHANGED <<day, subs, guests, pages, marks, clicks, failures>>

CountSubmissions(i) ==
    /\ loads[i].stage = "listed"
    /\ loads' = [loads EXCEPT ![i].stage = "counted", ![i].last = TotalPages(loads[i].bucket)]
    /\ UNCHANGED <<day, subs, guests, pages, marks, clicks, failures>>

FailLoad(i) ==
    /\ Fails
    /\ loads[i].stage \in {"asked", "listed", "counted"}
    /\ loads' = [loads EXCEPT ![i].stage = "failed"]
    /\ UNCHANGED <<day, subs, guests, pages, marks, clicks>>

(* Mutant: any empty page steps back, as often as it takes.                *)
StepsBackMutant(r) == r.items = {} /\ r.number >= 1

(* An empty page that is not the first is given up once for the one before.*)
StepsBack(r) == r.items = {} /\ r.number > 1 /\ r.attempt < 1

(* The answer is drawn, whatever was drawn since it was asked for.         *)
ShowEntries(i) ==
    LET r == loads[i]
        what == IF r.items = {} THEN "none" ELSE "cards"
    IN
    /\ r.stage = "counted"
    /\ ~StepsBack(r)
    /\ loads' = [loads EXCEPT ![i] = NoLoad]
    /\ pages' = [pages EXCEPT
                    ![r.admin].what[r.bucket] = what,
                    ![r.admin].items[r.bucket] = r.items,
                    ![r.admin].off = IF r.bucket = "needs-entry" THEN {} ELSE @,
                    ![r.admin].last[r.bucket] = IF what = "none" THEN 0 ELSE r.last]
    /\ marks' = Detached(r.admin, r.bucket)
    /\ UNCHANGED <<day, subs, guests, clicks, failures>>

(* pageState is set back and the page before is loaded, in the same place  *)
(* of the bookkeeping.                                                     *)
StepBack(i) ==
    LET r == loads[i] IN
    /\ r.stage = "counted"
    /\ StepsBack(r)
    /\ loads' = [loads EXCEPT ![i] =
                    [r EXCEPT !.number = IF @ - 1 = 0 THEN 1 ELSE @ - 1,
                              !.attempt = 1, !.stage = "asked", !.last = 0]]
    /\ pages' = [pages EXCEPT
                    ![r.admin].number[r.bucket] = r.number - 1,
                    ![r.admin].what[r.bucket] = "loading",
                    ![r.admin].items[r.bucket] = {},
                    ![r.admin].off = IF r.bucket = "needs-entry" THEN {} ELSE @]
    /\ marks' = Detached(r.admin, r.bucket)
    /\ UNCHANGED <<day, subs, guests, clicks, failures>>

(* The list is emptied and the error shown.                                *)
LoadFails(i) ==
    LET r == loads[i] IN
    /\ r.stage = "failed"
    /\ loads' = [loads EXCEPT ![i] = NoLoad]
    /\ pages' = [pages EXCEPT ![r.admin].what[r.bucket] = "failed",
                              ![r.admin].items[r.bucket] = {},
                              ![r.admin].off = IF r.bucket = "needs-entry" THEN {} ELSE @]
    /\ marks' = Detached(r.admin, r.bucket)
    /\ UNCHANGED <<day, subs, guests, clicks, failures>>

(* An enabled Mark entered is clicked, and disabled.                       *)
MarkEntered(a, s, m) ==
    /\ Clicks
    /\ pages[a].tab = "needs-entry"
    /\ s \in pages[a].items["needs-entry"] \ pages[a].off
    /\ IsNext(m, {n \in MarkIds : marks[n] # NoMark})
    /\ pages' = [pages EXCEPT ![a].off = @ \cup {s}]
    /\ marks' = [marks EXCEPT ![m] = [admin |-> a, sub |-> s, stage |-> "asked",
                                      open |-> TRUE, attached |-> TRUE]]
    /\ UNCHANGED <<day, subs, guests, loads, failures>>

(* PatchSubmissionStatus reads the status: only what is pending can be     *)
(* entered.                                                                *)
ReadStatus(m) ==
    /\ marks[m].stage = "asked"
    /\ marks' = [marks EXCEPT ![m].stage =
                    IF subs[marks[m].sub].entered THEN "refused" ELSE "checked"]
    /\ UNCHANGED <<day, subs, guests, pages, loads, clicks, failures>>

(* Mutant: the update does not look at entered_at again.                   *)
UpdatableMutant(s) == TRUE

(* WHERE entered_at IS NULL                                                *)
Updatable(s) == ~subs[s].entered

(* UpdateSubmissionStatus: no row updated is ErrConflict.                  *)
UpdateStatus(m) ==
    LET s == marks[m].sub IN
    /\ marks[m].stage = "checked"
    /\ subs' = IF Updatable(s) THEN [subs EXCEPT ![s].entered = TRUE] ELSE subs
    /\ marks' = [marks EXCEPT ![m].stage = IF Updatable(s) THEN "updated" ELSE "refused"]
    /\ UNCHANGED <<day, guests, pages, loads, clicks, failures>>

(* The request fails before or after the update, as when the list that     *)
(* makes up its answer is an error, or the answer is lost.                 *)
FailMark(m) ==
    /\ Fails
    /\ marks[m].stage \in {"asked", "checked", "updated"}
    /\ marks' = [marks EXCEPT ![m].stage = "failed"]
    /\ UNCHANGED <<day, subs, guests, pages, loads, clicks>>

(* The tab that is active by now is loaded.                                *)
Marked(m, i) ==
    LET a == marks[m].admin IN
    /\ marks[m].stage = "updated"
    /\ LoadEntries(a, pages[a].tab, pages[a], 0, i)
    /\ marks' = [Detached(a, pages[a].tab) EXCEPT
                    ![m].stage = "ok", ![m].open = FALSE, ![m].attached = FALSE]
    /\ UNCHANGED <<day, subs, guests, clicks, failures>>

(* The error is shown, and the button enabled, if it is still there.       *)
MarkFails(m) ==
    /\ marks[m].open /\ marks[m].stage \in {"refused", "failed"}
    /\ marks' = [marks EXCEPT ![m].open = FALSE, ![m].attached = FALSE]
    /\ pages' = IF marks[m].attached
                THEN [pages EXCEPT ![marks[m].admin].off = @ \ {marks[m].sub}] ELSE pages
    /\ UNCHANGED <<day, subs, guests, loads, clicks, failures>>

-----------------------------------------------------------------------------
Init ==
    /\ day \in Days
    /\ subs = [s \in Subs |-> IF s <= day.entries
                             THEN [NoSub EXCEPT !.family = CHOOSE f \in Families : TRUE]
                             ELSE NoSub]
    /\ kiosk = [panel |-> "form", draft |-> None, disabled |-> FALSE, ticking |-> FALSE]
    /\ posts = [p \in PostIds |-> NoPost]
    /\ pages = [a \in Admins |->
                  [tab |-> "needs-entry", number |-> [b \in Buckets |-> 1],
                   what |-> [b \in Buckets |-> "closed"], items |-> [b \in Buckets |-> {}],
                   off |-> {}, last |-> [b \in Buckets |-> 0]]]
    /\ loads = [i \in LoadIds |-> NoLoad]
    /\ marks = [m \in MarkIds |-> NoMark]
    /\ clicks = 0 /\ failures = 0

PostSteps(p) == CreateSubmission(p) \/ RefuseSubmission(p) \/ Thank(p) \/ SubmitFails(p)

LoadSteps(i) ==
    ListSubmissions(i) \/ CountSubmissions(i) \/ ShowEntries(i) \/ StepBack(i) \/ LoadFails(i)

MarkSteps(m) ==
    \/ ReadStatus(m) \/ UpdateStatus(m) \/ MarkFails(m)
    \/ \E i \in LoadIds : Marked(m, i)

Next ==
    \/ \E f \in Families : FillIn(f)
    \/ \E p \in PostIds : SubmitKioskForm(p) \/ PostSteps(p) \/ LosePost(p)
    \/ Countdown \/ NewSubmission
    \/ \E a \in Admins, i \in LoadIds :
        \/ \E b \in Buckets : OpenTab(a, b, i)
        \/ \E n \in 1..MaxSubs : GoToPage(a, n, i)
    \/ \E i \in LoadIds : LoadSteps(i) \/ FailLoad(i)
    \/ \E a \in Admins, s \in Subs, m \in MarkIds : MarkEntered(a, s, m)
    \/ \E m \in MarkIds : MarkSteps(m) \/ FailMark(m)

Spec == Init /\ [][Next]_vars

(* The server answers, sooner or later, and pages handle the answer; the   *)
(* countdown ticks.  Nothing makes a family or an administrator click.     *)
FairSpec ==
    /\ Spec
    /\ WF_vars(Countdown)
    /\ \A p \in PostIds : WF_vars(PostSteps(p))
    /\ \A i \in LoadIds : WF_vars(LoadSteps(i))
    /\ \A m \in MarkIds : WF_vars(MarkSteps(m))

-----------------------------------------------------------------------------
(* However many administrators mark a submission, from however stale a     *)
(* list, one at most is told that it is entered now, and so it is.  Both   *)
(* may enter the family in Planning Center; only one is told to have been  *)
(* the one (UpdateSubmissionStatus).                                       *)
EnteredByOne ==
    \A m, n \in MarkIds :
        /\ marks[m].stage = "ok" => subs[marks[m].sub].entered
        /\ marks[m].stage = "ok" /\ marks[n].stage = "ok" /\ marks[m].sub = marks[n].sub => m = n

(* A family is stored again only after it was shown an error: never by a   *)
(* second press while the first POST is under way (submitKioskForm).       *)
StoredOnce ==
    \A p, q \in PostIds :
        p # q /\ posts[p].family = posts[q].family =>
            {posts[p].stage, posts[q].stage} \cap {"free", "refused", "lost"} # {}

(* What a family types is only ever cleared after it was stored: not by    *)
(* the countdown of the family before, however soon it starts, and not by  *)
(* an error (showForm, submitKioskForm).                                   *)
TypedIsKept ==
    [][kiosk.draft # None /\ kiosk'.draft # kiosk.draft =>
        \E p \in PostIds : posts[p].family = kiosk.draft /\ posts'[p].stage = "thanked"]_vars

(* The kiosk is never left thanking a family that is gone, nor with a      *)
(* button nobody can press.                                                *)
KioskReturns ==
    kiosk.panel = "welcome" \/ kiosk.disabled ~> kiosk.panel = "form" /\ ~kiosk.disabled

(* Loading... does not stay: every list is drawn or an error shown in the  *)
(* end, an empty page that steps back included (loadEntries).              *)
Settles ==
    \A a \in Admins, b \in Buckets : pages[a].what[b] = "loading" ~> pages[a].what[b] # "loading"
=============================================================================
