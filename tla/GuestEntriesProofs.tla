------------------------- MODULE GuestEntriesProofs -------------------------
(***************************************************************************)
(* What GuestEntries promises of marks and of the kiosk, for any number of *)
(* families, administrators, submissions, requests and failures.  The two  *)
(* halves have an inductive invariant each: the marks need only know which *)
(* submissions are entered, the kiosk only its POSTs.  The types follow    *)
(* from both, with an invariant about the administrators' pages besides.   *)
(***************************************************************************)
EXTENDS GuestEntries, FiniteSetTheorems, TLAPS

MarkStages == {"free", "asked", "checked", "updated", "ok", "refused", "failed"}

MarksTyped ==
    /\ subs \in [Subs -> [family : Families \cup {None}, entered : BOOLEAN]]
    /\ marks \in [MarkIds -> [admin : Admins \cup {None}, sub : Subs \cup {0}, open : BOOLEAN,
                              attached : BOOLEAN, stage : MarkStages]]
    /\ \A m \in MarkIds : marks[m].stage # "free" => marks[m].sub \in Subs

(* An update that took effect is the only one, whether or not it has been  *)
(* answered.                                                               *)
Took(m) == marks[m].stage \in {"updated", "ok"}
TookOnce ==
    \A m, n \in MarkIds :
        /\ Took(m) => subs[marks[m].sub].entered
        /\ Took(m) /\ Took(n) /\ marks[m].sub = marks[n].sub => m = n

MarksInv == MarksTyped /\ TookOnce

(* The kiosk: at most one POST is open, of what is typed, and the button   *)
(* is disabled meanwhile; the countdown runs only where nothing is typed.  *)
PostStages == {"free", "sent", "stored", "thanked", "refused", "lost"}
KioskTyped ==
    /\ kiosk \in [panel : {"form", "welcome"}, draft : Families \cup {None},
                  disabled : BOOLEAN, ticking : BOOLEAN]
    /\ posts \in [PostIds -> [family : Families \cup {None}, stage : PostStages, open : BOOLEAN]]
    /\ \A p \in PostIds : posts[p].stage # "free" => posts[p].family \in Families

OneOpen ==
    /\ kiosk.ticking => kiosk.panel = "welcome"
    /\ kiosk.panel = "welcome" => kiosk.draft = None
    /\ \A p \in PostIds :
        /\ posts[p].open => kiosk.disabled /\ posts[p].family = kiosk.draft /\ kiosk.draft \in Families
        /\ posts[p].stage \in {"sent", "stored"} => posts[p].open
        /\ posts[p].stage = "thanked" => posts[p].family # kiosk.draft
        /\ posts[p].stage = "free" => ~posts[p].open
    /\ \A p, q \in PostIds : posts[p].open /\ posts[q].open => p = q

KioskInv == KioskTyped /\ OneOpen /\ StoredOnce

-----------------------------------------------------------------------------
LEMMA MarksInit == Init => MarksInv
<1> SUFFICES ASSUME Init PROVE MarksInv
  OBVIOUS
<1> DEFINE first == CHOOSE f \in Families : TRUE
<1>1. first \in Families
  BY GuestEntriesAssumption
<1>2. subs = [s \in Subs |-> IF s <= day.entries THEN [NoSub EXCEPT !.family = first] ELSE NoSub]
  BY DEF Init
<1>3. marks = [m \in MarkIds |-> NoMark]
  BY DEF Init
<1> HIDE DEF first
<1>4. MarksTyped
  <2>1. \A s \in Subs :
          subs[s] \in {[family |-> first, entered |-> FALSE], [family |-> None, entered |-> FALSE]}
    BY <1>2 DEF NoSub
  <2>2. subs \in [Subs -> [family : Families \cup {None}, entered : BOOLEAN]]
    <3> DEFINE Row == [family : Families \cup {None}, entered : BOOLEAN]
    <3>1. [family |-> first, entered |-> FALSE] \in Row /\ [family |-> None, entered |-> FALSE] \in Row
      BY <1>1
    <3> HIDE DEF Row
    <3>2. \A s \in Subs : subs[s] \in Row
      BY <2>1, <3>1
    <3>3. subs = [s \in Subs |-> subs[s]]
      BY <1>2
    <3>4. subs \in [Subs -> Row]
      BY <3>2, <3>3
    <3> QED
      BY <3>4 DEF Row
  <2>3. marks \in [MarkIds -> [admin : Admins \cup {None}, sub : Subs \cup {0}, open : BOOLEAN,
                              attached : BOOLEAN, stage : MarkStages]]
    BY <1>3 DEF MarkStages, NoMark
  <2>4. \A m \in MarkIds : marks[m].stage = "free"
    BY <1>3 DEF NoMark
  <2> QED
    BY <2>2, <2>3, <2>4 DEF MarksTyped
<1>5. \A m \in MarkIds : ~Took(m)
  BY <1>3 DEF Took, NoMark
<1>6. TookOnce
  BY <1>5 DEF TookOnce
<1> QED
  BY <1>4, <1>6 DEF MarksInv

(* Taking buttons off a page changes neither stage nor submission.         *)
LEMMA DetachedKeeps ==
    ASSUME MarksTyped, NEW a, NEW b
    PROVE  /\ Detached(a, b) \in [MarkIds -> [admin : Admins \cup {None}, sub : Subs \cup {0},
                                              open : BOOLEAN, attached : BOOLEAN, stage : MarkStages]]
           /\ \A m \in MarkIds : /\ Detached(a, b)[m].stage = marks[m].stage
                                 /\ Detached(a, b)[m].sub = marks[m].sub
BY DEF MarksTyped, Detached

(* A step that leaves submissions, stages and what is marked alone.        *)
LEMMA MarksKept ==
    ASSUME MarksInv, subs' = subs,
           marks' \in [MarkIds -> [admin : Admins \cup {None}, sub : Subs \cup {0}, open : BOOLEAN,
                                   attached : BOOLEAN, stage : MarkStages]],
           \A m \in MarkIds : marks'[m].stage = marks[m].stage /\ marks'[m].sub = marks[m].sub
    PROVE  MarksInv'
BY DEF MarksInv, MarksTyped, TookOnce, Took

(* A submission comes in.                                                  *)
LEMMA SubmissionKeepsMarks ==
    ASSUME MarksInv, KioskInv, NEW p \in PostIds, CreateSubmission(p)
    PROVE  MarksInv'
<1> USE DEF MarksInv
<1>1. PICK s \in Subs : subs' = [subs EXCEPT ![s].family = posts[p].family]
  BY DEF CreateSubmission
<1>2. posts[p].family \in Families \cup {None}
  BY DEF KioskInv, KioskTyped
<1>3. UNCHANGED marks
  BY DEF CreateSubmission, admins
<1>4. /\ subs' \in [Subs -> [family : Families \cup {None}, entered : BOOLEAN]]
      /\ \A t \in Subs : subs'[t].entered = subs[t].entered
  BY <1>1, <1>2 DEF MarksTyped
<1>5. MarksTyped'
  BY <1>3, <1>4 DEF MarksTyped
<1>6. \A m \in MarkIds : Took(m) => marks[m].sub \in Subs
  BY DEF MarksTyped, Took
<1>7. TookOnce'
  BY <1>3, <1>4, <1>6 DEF TookOnce, Took
<1> QED
  BY <1>5, <1>7

(* The steps of a PATCH: only an update that finds the row pending takes.  *)
LEMMA MarkStepKeeps ==
    ASSUME MarksInv, NEW m \in MarkIds, MarkSteps(m) \/ FailMark(m)
    PROVE  MarksInv'
<1> USE DEF MarksInv
<1>1. ASSUME subs' = subs,
             NEW st \in MarkStages \ {"free", "updated", "ok"},
             marks' = [marks EXCEPT ![m].stage = st], marks[m].stage # "free"
      PROVE  MarksInv'
  <2>1. MarksTyped'
    BY <1>1 DEF MarksTyped
  <2>2. TookOnce'
    BY <1>1 DEF MarksTyped, TookOnce, Took
  <2> QED
    BY <2>1, <2>2
<1>2. CASE ReadStatus(m)
  <2>1. \E st \in {"refused", "checked"} : marks' = [marks EXCEPT ![m].stage = st]
    BY <1>2 DEF ReadStatus
  <2> QED
    BY <1>1, <1>2, <2>1 DEF ReadStatus, MarkStages
<1>3. CASE UpdateStatus(m)
  <2> DEFINE s == marks[m].sub
  <2>1. s \in Subs /\ marks[m].stage = "checked"
    BY <1>3 DEF UpdateStatus, MarksTyped
  <2>2. CASE ~Updatable(s)
    <3>1. subs' = subs /\ marks' = [marks EXCEPT ![m].stage = "refused"]
      BY <1>3, <2>2 DEF UpdateStatus
    <3> QED
      BY <1>1, <2>1, <3>1 DEF MarkStages
  <2>3. CASE Updatable(s)
    <3>1. /\ subs' = [subs EXCEPT ![s].entered = TRUE]
          /\ marks' = [marks EXCEPT ![m].stage = "updated"]
      BY <1>3, <2>3 DEF UpdateStatus
    <3>2. ~subs[s].entered
      BY <2>3 DEF Updatable
    <3>3. \A n \in MarkIds : Took(n) => marks[n].sub # s
      BY <3>2 DEF TookOnce
    <3>4. MarksTyped'
      BY <2>1, <3>1 DEF MarksTyped, MarkStages
    <3>5. \A n \in MarkIds : /\ n # m => marks'[n] = marks[n]
                             /\ marks'[n].sub = marks[n].sub
      BY <3>1 DEF MarksTyped
    <3>6. /\ subs'[s].entered
          /\ \A t \in Subs : subs[t].entered => subs'[t].entered
      BY <2>1, <3>1 DEF MarksTyped
    <3>7. \A n \in MarkIds : Took(n) => marks[n].sub \in Subs
      BY DEF MarksTyped, Took
    <3>8. TookOnce'
      <4> SUFFICES ASSUME NEW i \in MarkIds, NEW j \in MarkIds
                   PROVE  /\ Took(i)' => subs'[marks'[i].sub].entered
                          /\ Took(i)' /\ Took(j)' /\ marks'[i].sub = marks'[j].sub => i = j
        BY DEF TookOnce
      <4>1. i # m => (Took(i)' <=> Took(i))
        BY <3>5 DEF Took
      <4>2. j # m => (Took(j)' <=> Took(j))
        BY <3>5 DEF Took
      <4> QED
        BY <3>3, <3>5, <3>6, <3>7, <4>1, <4>2 DEF TookOnce
    <3> QED
      BY <3>4, <3>8
  <2> QED
    BY <2>2, <2>3
<1>4. CASE FailMark(m)
  BY <1>1, <1>4 DEF FailMark, MarkStages
<1>5. CASE \E i \in LoadIds : Marked(m, i)
  <2> DEFINE a == marks[m].admin
             d == Detached(a, pages[a].tab)
  <2>1. /\ marks[m].stage = "updated" /\ subs' = subs
        /\ marks' = [d EXCEPT ![m].stage = "ok", ![m].open = FALSE, ![m].attached = FALSE]
    BY <1>5 DEF Marked
  <2>2. /\ d \in [MarkIds -> [admin : Admins \cup {None}, sub : Subs \cup {0},
                              open : BOOLEAN, attached : BOOLEAN, stage : MarkStages]]
        /\ \A n \in MarkIds : d[n].stage = marks[n].stage /\ d[n].sub = marks[n].sub
    BY DetachedKeeps
  <2> HIDE DEF d
  <2>3. marks' \in [MarkIds -> [admin : Admins \cup {None}, sub : Subs \cup {0},
                                open : BOOLEAN, attached : BOOLEAN, stage : MarkStages]]
    BY <2>1, <2>2 DEF MarkStages
  <2>4. \A n \in MarkIds : marks'[n].sub = marks[n].sub /\ (n # m => marks'[n].stage = marks[n].stage)
    BY <2>1, <2>2
  <2>5. marks'[m].stage = "ok"
    BY <2>1, <2>2
  <2>6. MarksTyped'
    BY <2>1, <2>3, <2>4, <2>5 DEF MarksTyped
  <2>7. \A n \in MarkIds : Took(n)' <=> Took(n)
    BY <2>1, <2>4, <2>5 DEF Took
  <2>8. TookOnce'
    BY <2>1, <2>4, <2>7 DEF TookOnce
  <2> QED
    BY <2>6, <2>8
<1>6. CASE MarkFails(m)
  BY <1>6, MarksKept DEF MarkFails, MarksTyped
<1> QED
  BY <1>2, <1>3, <1>4, <1>5, <1>6 DEF MarkSteps

(* The steps of the page that mark nothing.                                *)
LEMMA PageKeepsMarks ==
    ASSUME MarksInv, NEW i \in LoadIds,
           \/ \E a \in Admins : \/ \E b \in Buckets : OpenTab(a, b, i)
                                \/ \E n \in 1..MaxSubs : GoToPage(a, n, i)
           \/ LoadSteps(i) \/ FailLoad(i)
    PROVE  MarksInv'
<1>1. subs' = subs /\ (marks' = marks \/ \E a, b : marks' = Detached(a, b))
  BY DEF OpenTab, GoToPage, LoadSteps, ListSubmissions, CountSubmissions, ShowEntries,
         StepBack, LoadFails, FailLoad
<1> QED
  BY <1>1, DetachedKeeps, MarksKept DEF MarksInv, MarksTyped

LEMMA MarkEnteredKeeps ==
    ASSUME MarksInv, NEW a \in Admins, NEW s \in Subs, NEW m \in MarkIds, MarkEntered(a, s, m)
    PROVE  MarksInv'
<1> USE DEF MarksInv
<1>1. /\ subs' = subs
      /\ marks' = [marks EXCEPT ![m] = [admin |-> a, sub |-> s, stage |-> "asked",
                                        open |-> TRUE, attached |-> TRUE]]
  BY DEF MarkEntered
<1>2. MarksTyped'
  BY <1>1 DEF MarksTyped, MarkStages
<1>3. TookOnce'
  BY <1>1 DEF MarksTyped, TookOnce, Took
<1> QED
  BY <1>2, <1>3

-----------------------------------------------------------------------------
LEMMA KioskInit == Init => KioskInv
<1> SUFFICES ASSUME Init PROVE KioskInv
  OBVIOUS
<1> USE DEF Init, NoPost
<1>1. KioskTyped
  BY DEF KioskTyped, PostStages
<1>2. OneOpen
  BY DEF OneOpen
<1>3. StoredOnce
  BY DEF StoredOnce
<1> QED
  BY <1>1, <1>2, <1>3 DEF KioskInv

(* What happens on the panel alone keeps the invariant.                    *)
LEMMA PanelKeeps ==
    ASSUME KioskInv, \/ \E f \in Families : FillIn(f)
                     \/ Countdown \/ NewSubmission
    PROVE  KioskInv'
<1> USE DEF KioskInv
<1>1. posts' = posts
  BY DEF FillIn, Countdown, NewSubmission
<1>2. StoredOnce'
  BY <1>1 DEF StoredOnce
<1>3. CASE \E f \in Families : FillIn(f)
  <2>1. PICK f \in Families : FillIn(f)
    BY <1>3
  <2>2. kiosk' = [kiosk EXCEPT !.draft = f] /\ kiosk.panel = "form" /\ kiosk.draft = None
    BY <2>1 DEF FillIn
  <2>3. KioskTyped'
    BY <1>1, <2>2 DEF KioskTyped
  <2>4. \A p \in PostIds : ~posts[p].open
    BY <2>2, GuestEntriesAssumption DEF OneOpen
  <2>5. \A p \in PostIds : posts[p].stage = "thanked" => posts[p].family # f
    BY <2>1 DEF FillIn
  <2>6. OneOpen'
    BY <1>1, <2>2, <2>4, <2>5 DEF OneOpen, KioskTyped
  <2> QED
    BY <1>2, <2>3, <2>6
<1>4. CASE Countdown \/ NewSubmission
  <2>1. /\ kiosk.panel = "welcome"
        /\ kiosk' = [kiosk EXCEPT !.panel = "form", !.ticking = FALSE, !.draft = None]
    BY <1>4 DEF Countdown, NewSubmission, ShowForm, ResetForm, OneOpen, KioskTyped
  <2>2. kiosk.draft = None /\ \A p \in PostIds : ~posts[p].open
    BY <2>1, GuestEntriesAssumption DEF OneOpen
  <2>3. KioskTyped'
    BY <1>1, <2>1 DEF KioskTyped
  <2>4. OneOpen'
    BY <1>1, <2>1, <2>2, <2>3 DEF OneOpen, KioskTyped
  <2> QED
    BY <1>2, <2>3, <2>4
<1> QED
  BY <1>3, <1>4

(* A POST is only sent when none is open, of a family not yet thanked.     *)
LEMMA SubmitKeeps ==
    ASSUME KioskInv, NEW p \in PostIds, SubmitKioskForm(p)
    PROVE  KioskInv'
<1> USE DEF KioskInv
<1> DEFINE sent == [family |-> kiosk.draft, stage |-> "sent", open |-> TRUE]
<1>1. /\ ~kiosk.disabled /\ kiosk.panel = "form" /\ kiosk.draft # None
      /\ posts' = [posts EXCEPT ![p] = sent]
      /\ kiosk' = [kiosk EXCEPT !.disabled = TRUE]
  BY DEF SubmitKioskForm, MaySubmit
<1>2. kiosk.draft \in Families
  BY <1>1 DEF KioskTyped
<1>3. KioskTyped'
  BY <1>1, <1>2 DEF KioskTyped, PostStages
<1>4. \A q \in PostIds : ~posts[q].open
  BY <1>1 DEF OneOpen
<1>5. posts'[p] = sent /\ \A q \in PostIds \ {p} : posts'[q] = posts[q]
  BY <1>1 DEF KioskTyped
<1>6. /\ kiosk'.draft = kiosk.draft /\ kiosk'.panel = kiosk.panel
      /\ kiosk'.ticking = kiosk.ticking /\ kiosk'.disabled
  BY <1>1 DEF KioskTyped
<1>7. OneOpen'
  BY <1>2, <1>4, <1>5, <1>6 DEF OneOpen
<1>8. \A q \in PostIds \ {p} :
        posts[q].family = kiosk.draft => posts[q].stage \in {"free", "refused", "lost"}
  BY <1>4 DEF OneOpen, KioskTyped, PostStages
<1>9. StoredOnce'
  <2> SUFFICES ASSUME NEW q \in PostIds, NEW r \in PostIds, q # r,
                      posts'[q].family = posts'[r].family
               PROVE  {posts'[q].stage, posts'[r].stage} \cap {"free", "refused", "lost"} # {}
    BY DEF StoredOnce
  <2>1. CASE q # p /\ r # p
    BY <1>5, <2>1 DEF StoredOnce
  <2>2. CASE q = p
    <3>1. posts[r].family = kiosk.draft /\ posts'[r] = posts[r]
      BY <1>5, <2>2
    <3> QED
      BY <1>8, <2>2, <3>1
  <2>3. CASE r = p
    <3>1. posts[q].family = kiosk.draft /\ posts'[q] = posts[q]
      BY <1>5, <2>3
    <3> QED
      BY <1>8, <2>3, <3>1
  <2> QED
    BY <2>1, <2>2, <2>3
<1> QED
  BY <1>3, <1>7, <1>9

(* The end of a POST's stay at the server.                                 *)
LEMMA ServeKeeps ==
    ASSUME KioskInv, NEW p \in PostIds,
           CreateSubmission(p) \/ RefuseSubmission(p) \/ LosePost(p)
    PROVE  KioskInv'
<1> USE DEF KioskInv
<1>1. PICK st \in {"stored", "refused", "lost"} :
        /\ posts' = [posts EXCEPT ![p].stage = st]
        /\ posts[p].stage \in {"sent", "stored"} /\ kiosk' = kiosk
  BY DEF CreateSubmission, RefuseSubmission, LosePost, admins
<1>2. KioskTyped'
  BY <1>1 DEF KioskTyped, PostStages
<1>3. \A q \in PostIds : /\ posts'[q].family = posts[q].family /\ posts'[q].open = posts[q].open
                         /\ q # p => posts'[q] = posts[q]
  BY <1>1 DEF KioskTyped
<1>4. posts'[p].stage = st /\ posts[p].open
  BY <1>1 DEF KioskTyped, OneOpen
<1>5. OneOpen'
  BY <1>1, <1>3, <1>4 DEF OneOpen
<1>6. StoredOnce'
  BY <1>1, <1>3, <1>4 DEF StoredOnce
<1> QED
  BY <1>2, <1>5, <1>6

(* The answer closes the only open POST; a success clears what it carried. *)
LEMMA AnswerKeeps ==
    ASSUME KioskInv, NEW p \in PostIds, Thank(p) \/ SubmitFails(p)
    PROVE  KioskInv'
<1> USE DEF KioskInv
<1>1. posts[p].open
  BY DEF Thank, SubmitFails, OneOpen
<1>2. \A q \in PostIds \ {p} : ~posts[q].open
  BY <1>1 DEF OneOpen
<1>3. posts[p].family = kiosk.draft /\ kiosk.draft \in Families
  BY <1>1 DEF OneOpen
<1>4. CASE Thank(p)
  <2>1. /\ posts' = [posts EXCEPT ![p].stage = "thanked", ![p].open = FALSE]
        /\ kiosk' = [kiosk EXCEPT !.draft = None, !.panel = "welcome", !.ticking = TRUE,
                                  !.disabled = FALSE]
        /\ posts[p].stage = "stored"
    BY <1>4 DEF Thank, ShowWelcome, ResetForm, KioskTyped
  <2>2. KioskTyped'
    BY <2>1 DEF KioskTyped, PostStages
  <2>3. /\ posts'[p].stage = "thanked" /\ ~posts'[p].open
        /\ posts'[p].family = posts[p].family
        /\ \A q \in PostIds \ {p} : posts'[q] = posts[q]
    BY <2>1 DEF KioskTyped
  <2>4. \A q \in PostIds : ~posts'[q].open
    BY <1>2, <2>3
  <2>5. \A q \in PostIds : /\ posts'[q].stage \notin {"sent", "stored"}
                           /\ posts'[q].stage = "thanked" => posts'[q].family # None
    BY <1>2, <2>2, <2>3, GuestEntriesAssumption DEF OneOpen, KioskTyped
  <2>6. OneOpen'
    BY <2>1, <2>4, <2>5 DEF OneOpen, KioskTyped
  <2>7. StoredOnce'
    <3>1. \A q \in PostIds :
            posts'[q].stage \in {"free", "refused", "lost"} <=>
            posts[q].stage \in {"free", "refused", "lost"}
      BY <2>1, <2>3
    <3>2. \A q \in PostIds : posts'[q].family = posts[q].family
      BY <2>3
    <3> QED
      BY <3>1, <3>2 DEF StoredOnce
  <2> QED
    BY <2>2, <2>6, <2>7
<1>5. CASE SubmitFails(p)
  <2>1. /\ posts' = [posts EXCEPT ![p].open = FALSE]
        /\ kiosk' = [kiosk EXCEPT !.disabled = FALSE]
        /\ posts[p].stage \in {"refused", "lost"}
    BY <1>5 DEF SubmitFails, Enabled
  <2>2. KioskTyped'
    BY <2>1 DEF KioskTyped
  <2>3. \A q \in PostIds : /\ posts'[q].stage = posts[q].stage /\ posts'[q].family = posts[q].family
                           /\ ~posts'[q].open
    BY <1>2, <2>1 DEF KioskTyped
  <2>4. \A q \in PostIds : posts[q].stage \notin {"sent", "stored"}
    BY <1>2, <2>1 DEF OneOpen
  <2>5. OneOpen'
    BY <2>1, <2>3, <2>4 DEF OneOpen, KioskTyped
  <2>6. StoredOnce'
    BY <2>3 DEF StoredOnce
  <2> QED
    BY <2>2, <2>5, <2>6
<1> QED
  BY <1>4, <1>5

-----------------------------------------------------------------------------
GuestInv == MarksInv /\ KioskInv

LEMMA GuestNext == GuestInv /\ [Next]_vars => GuestInv'
<1> SUFFICES ASSUME GuestInv, [Next]_vars PROVE GuestInv'
  OBVIOUS
<1> USE DEF GuestInv
<1>1. ASSUME UNCHANGED <<subs, marks>> PROVE MarksInv'
  BY <1>1 DEF MarksInv, MarksTyped, TookOnce, Took
<1>2. ASSUME UNCHANGED guests PROVE KioskInv'
  BY <1>2 DEF guests, KioskInv, KioskTyped, OneOpen, StoredOnce
<1>3. CASE (\E f \in Families : FillIn(f)) \/ Countdown \/ NewSubmission
  <2>1. UNCHANGED <<subs, marks>>
    BY <1>3 DEF FillIn, Countdown, NewSubmission, admins
  <2> QED
    BY <1>1, <1>3, <2>1, PanelKeeps
<1>4. CASE \E p \in PostIds : SubmitKioskForm(p) \/ PostSteps(p) \/ LosePost(p)
  <2>1. PICK p \in PostIds : SubmitKioskForm(p) \/ PostSteps(p) \/ LosePost(p)
    BY <1>4
  <2>2. CreateSubmission(p) \/ UNCHANGED <<subs, marks>>
    BY <2>1 DEF SubmitKioskForm, PostSteps, RefuseSubmission, LosePost, Thank, SubmitFails, admins
  <2> QED
    BY <1>1, <2>1, <2>2, SubmissionKeepsMarks, SubmitKeeps, ServeKeeps, AnswerKeeps DEF PostSteps
<1>5. CASE \E a \in Admins, i \in LoadIds :
              \/ \E b \in Buckets : OpenTab(a, b, i)
              \/ \E n \in 1..MaxSubs : GoToPage(a, n, i)
  <2>1. UNCHANGED guests
    BY <1>5 DEF OpenTab, GoToPage
  <2> QED
    BY <1>2, <1>5, <2>1, PageKeepsMarks
<1>6. CASE \E i \in LoadIds : LoadSteps(i) \/ FailLoad(i)
  <2>1. UNCHANGED guests
    BY <1>6 DEF LoadSteps, ListSubmissions, CountSubmissions, ShowEntries, StepBack,
                LoadFails, FailLoad
  <2> QED
    BY <1>2, <1>6, <2>1, PageKeepsMarks
<1>7. CASE \E a \in Admins, s \in Subs, m \in MarkIds : MarkEntered(a, s, m)
  <2>1. UNCHANGED guests
    BY <1>7 DEF MarkEntered
  <2> QED
    BY <1>2, <1>7, <2>1, MarkEnteredKeeps
<1>8. CASE \E m \in MarkIds : MarkSteps(m) \/ FailMark(m)
  <2>1. UNCHANGED guests
    BY <1>8 DEF MarkSteps, ReadStatus, UpdateStatus, MarkFails, Marked, FailMark
  <2> QED
    BY <1>2, <1>8, <2>1, MarkStepKeeps
<1>9. CASE UNCHANGED vars
  BY <1>1, <1>2, <1>9 DEF vars, admins
<1> QED
  BY <1>3, <1>4, <1>5, <1>6, <1>7, <1>8, <1>9 DEF Next

LEMMA Guests == Spec => []GuestInv
<1>1. Init => GuestInv
  BY MarksInit, KioskInit DEF GuestInv
<1> QED
  BY <1>1, GuestNext, PTL DEF Spec

(* However many mark a submission at once, one at most is told so, and the *)
(* submission is entered (UpdateSubmissionStatus).                         *)
THEOREM MarkedOnce == Spec => []EnteredByOne
<1>1. GuestInv => EnteredByOne
  BY DEF GuestInv, MarksInv, TookOnce, Took, EnteredByOne
<1> QED
  BY <1>1, Guests, PTL

(* The kiosk stores a family twice only after it showed an error           *)
(* (submitKioskForm).                                                      *)
THEOREM NoDoubleSubmission == Spec => []StoredOnce
<1>1. GuestInv => StoredOnce
  BY DEF GuestInv, KioskInv
<1> QED
  BY <1>1, Guests, PTL

(* Nothing the kiosk does on its own clears what a family types, but for   *)
(* the answer that stored it (startCountdown, submitKioskForm).            *)
THEOREM NothingCleared == Spec => TypedIsKept
<1> DEFINE Kept == kiosk.draft # None /\ kiosk'.draft # kiosk.draft =>
                     \E p \in PostIds : posts[p].family = kiosk.draft /\ posts'[p].stage = "thanked"
<1>1. GuestInv /\ [Next]_vars => [Kept]_vars
  <2> SUFFICES ASSUME GuestInv, Next, kiosk.draft # None, kiosk'.draft # kiosk.draft
               PROVE  \E p \in PostIds : posts[p].family = kiosk.draft /\ posts'[p].stage = "thanked"
    OBVIOUS
  <2> USE DEF GuestInv, KioskInv
  <2>1. kiosk.panel # "welcome" /\ ~kiosk.ticking
    BY DEF OneOpen, KioskTyped
  <2>2. \A f \in Families : ~FillIn(f)
    BY DEF FillIn
  <2>3. ~Countdown /\ ~NewSubmission
    BY <2>1 DEF Countdown, NewSubmission
  <2>4. \A p \in PostIds : ~SubmitKioskForm(p) /\ ~SubmitFails(p)
    BY DEF SubmitKioskForm, SubmitFails, Enabled, KioskTyped
  <2>5. kiosk' # kiosk
    OBVIOUS
  <2>6. PICK p \in PostIds : Thank(p)
    BY <2>2, <2>3, <2>4, <2>5
       DEF Next, PostSteps, CreateSubmission, RefuseSubmission, LosePost, OpenTab, GoToPage,
           LoadSteps, ListSubmissions, CountSubmissions, ShowEntries, StepBack, LoadFails,
           FailLoad, MarkEntered, MarkSteps, ReadStatus, UpdateStatus, Marked, MarkFails,
           FailMark, guests, vars
  <2>7. posts[p].family = kiosk.draft
    BY <2>6 DEF Thank, OneOpen
  <2>8. posts'[p].stage = "thanked"
    BY <2>6 DEF Thank, KioskTyped
  <2> QED
    BY <2>7, <2>8
<1>2. Spec => [][Kept]_vars
  BY <1>1, Guests, PTL DEF Spec
<1> QED
  BY <1>2 DEF TypedIsKept

-----------------------------------------------------------------------------
(* Types.  What a page, a list or a mark holds of submissions is in the    *)
(* table, which only grows, and a page number is one of the list's.        *)

PageType(R) ==
    [tab : Buckets, number : [Buckets -> 0..MaxSubs],
     what : [Buckets -> {"closed", "loading", "none", "failed", "cards"}],
     items : [Buckets -> SUBSET R], off : SUBSET R, last : [Buckets -> 0..MaxSubs]]

LoadType(R) ==
    [admin : Admins \cup {None}, bucket : Buckets, number : 0..MaxSubs, attempt : 0..1,
     stage : {"free", "asked", "listed", "counted", "failed"},
     items : SUBSET R, last : 0..MaxSubs]

MarkType(R) ==
    [admin : Admins \cup {None}, sub : R \cup {0}, open : BOOLEAN, attached : BOOLEAN,
     stage : MarkStages]

PagesTyped(R) ==
    /\ pages \in [Admins -> PageType(R)]
    /\ loads \in [LoadIds -> LoadType(R)]
    /\ \A i \in LoadIds : loads[i].stage # "free" => loads[i].admin \in Admins

MarksHeld(R) ==
    /\ marks \in [MarkIds -> MarkType(R)]
    /\ \A m \in MarkIds : marks[m].stage # "free" => marks[m].admin \in Admins /\ marks[m].sub \in R

DayTyped == day \in Days /\ clicks \in 0..day.clicks /\ failures \in 0..day.failures

PagesInv == PagesTyped(Rows) /\ MarksHeld(Rows) /\ DayTyped

(* The button waits for a POST.                                            *)
Waits == kiosk.disabled => \E p \in PostIds : posts[p].open

(* No page has a number above that of the submissions.                     *)
LEMMA TotalPagesBound ==
    ASSUME NEW b
    PROVE  TotalPages(b) \in 0..MaxSubs
<1> DEFINE n == Cardinality(InBucket(b))
<1>1. MaxSubs \in Nat /\ PageSize \in Nat /\ PageSize >= 1
  BY GuestEntriesAssumption
<1>2. n \in 0..MaxSubs
  <2>1. IsFiniteSet(1..MaxSubs) /\ Cardinality(1..MaxSubs) = MaxSubs
    BY <1>1, FS_Interval
  <2>2. InBucket(b) \subseteq 1..MaxSubs
    BY DEF InBucket, Rows, Subs
  <2>3. IsFiniteSet(InBucket(b)) /\ n <= MaxSubs
    BY <2>1, <2>2, FS_Subset
  <2>4. n \in Nat
    BY <2>3, FS_CardinalityType
  <2> QED
    BY <1>1, <2>3, <2>4
<1> HIDE DEF n
<1>3. ASSUME NEW x \in Nat, NEW k \in Nat, k >= 1, NEW m \in Nat, x <= m
      PROVE  (x + k - 1) \div k \in 0..m
  <2> DEFINE q == (x + k - 1) \div k
  <2>1. q \in Int /\ k * q <= x + k - 1 /\ q >= 0
    BY <1>3
  <2>2. ASSUME q >= x + 1 PROVE FALSE
    <3>1. k * q >= k * (x + 1)
      BY <1>3, <2>1, <2>2
    <3>2. k * (x + 1) = k * x + k /\ k * x >= x
      BY <1>3
    <3> QED
      BY <1>3, <2>1, <3>1, <3>2
  <2> QED
    BY <1>3, <2>1, <2>2
<1>4. TotalPages(b) = (n + PageSize - 1) \div PageSize
  BY DEF TotalPages, n
<1> QED
  BY <1>1, <1>2, <1>3, <1>4

(* What is typed over fewer submissions is typed over more.                *)
LEMMA TypesGrow ==
    ASSUME NEW R, NEW S, R \subseteq S, PagesTyped(R), MarksHeld(R)
    PROVE  PagesTyped(S) /\ MarksHeld(S)
<1>1. PageType(R) \subseteq PageType(S)
  BY DEF PageType
<1>2. LoadType(R) \subseteq LoadType(S)
  BY DEF LoadType
<1>3. MarkType(R) \subseteq MarkType(S)
  BY DEF MarkType
<1> QED
  BY <1>1, <1>2, <1>3 DEF PagesTyped, MarksHeld

LEMMA PagesInit == Init => PagesInv /\ Waits
<1> SUFFICES ASSUME Init PROVE PagesInv /\ Waits
  OBVIOUS
<1>1. MaxSubs \in Nat /\ 0 \in 0..MaxSubs /\ 1 \in 0..MaxSubs
  BY GuestEntriesAssumption
<1>2. NoLoad \in LoadType(Rows) /\ NoLoad.stage = "free"
  BY <1>1 DEF NoLoad, LoadType, Buckets
<1>3. NoMark \in MarkType(Rows) /\ NoMark.stage = "free"
  BY DEF NoMark, MarkType, MarkStages
<1>4. pages \in [Admins -> PageType(Rows)]
  <2>1. [tab |-> "needs-entry", number |-> [b \in Buckets |-> 1],
         what |-> [b \in Buckets |-> "closed"], items |-> [b \in Buckets |-> {}],
         off |-> {}, last |-> [b \in Buckets |-> 0]] \in PageType(Rows)
    BY <1>1 DEF PageType, Buckets
  <2> QED
    BY <2>1 DEF Init
<1>5. PagesTyped(Rows) /\ MarksHeld(Rows)
  BY <1>2, <1>3, <1>4 DEF Init, PagesTyped, MarksHeld
<1>6. DayTyped
  BY GuestEntriesAssumption DEF Init, DayTyped
<1>7. Waits
  BY DEF Init, Waits
<1> QED
  BY <1>5, <1>6, <1>7 DEF PagesInv

(* The bounds of the day.                                                  *)
LEMMA DayKept ==
    ASSUME DayTyped, day' = day, clicks' = clicks \/ Clicks, failures' = failures \/ Fails
    PROVE  DayTyped'
<1>1. day \in Days /\ day.clicks \in Nat /\ day.failures \in Nat
  BY GuestEntriesAssumption DEF DayTyped
<1> QED
  BY <1>1 DEF DayTyped, Clicks, Fails

(* Every step but CreateSubmission and UpdateStatus leaves the table alone,*)
(* and these two take nothing out of it.                                   *)
LEMMA RowsGrow ==
    ASSUME GuestInv, [Next]_vars
    PROVE  Rows \subseteq Rows'
<1> USE DEF GuestInv, MarksInv, MarksTyped
<1>1. CASE subs' = subs
  BY <1>1 DEF Rows
<1>2. ASSUME NEW p \in PostIds, CreateSubmission(p) PROVE Rows \subseteq Rows'
  <2>1. PICK s \in Subs : IsNext(s, Rows) /\ subs' = [subs EXCEPT ![s].family = posts[p].family]
    BY <1>2 DEF CreateSubmission
  <2>2. s \notin Rows
    BY <2>1 DEF IsNext
  <2> QED
    BY <2>1, <2>2 DEF Rows
<1>3. ASSUME NEW m \in MarkIds, UpdateStatus(m) PROVE Rows \subseteq Rows'
  <2>1. \A s \in Subs : subs'[s] = subs[s] \/ subs'[s] = [subs[s] EXCEPT !.entered = TRUE]
    BY <1>3 DEF UpdateStatus
  <2>2. ASSUME NEW s \in Rows PROVE subs'[s] # NoSub
    <3>1. s \in Subs /\ subs[s] # NoSub
      BY DEF Rows
    <3>2. CASE subs'[s] = [subs[s] EXCEPT !.entered = TRUE]
      <4>1. subs'[s].entered = TRUE /\ NoSub.entered = FALSE
        BY <3>1, <3>2 DEF NoSub
      <4> QED
        BY <4>1
    <3> QED
      BY <2>1, <3>1, <3>2
  <2> QED
    BY <2>2 DEF Rows
<1>4. \/ subs' = subs
      \/ \E p \in PostIds : CreateSubmission(p)
      \/ \E m \in MarkIds : UpdateStatus(m)
  BY DEF Next, PostSteps, FillIn, Countdown, NewSubmission, SubmitKioskForm, RefuseSubmission,
         LosePost, Thank, SubmitFails, OpenTab, GoToPage,
         LoadSteps, ListSubmissions, CountSubmissions, ShowEntries, StepBack, LoadFails,
         FailLoad, MarkEntered, MarkSteps, ReadStatus, Marked, MarkFails, FailMark, vars
<1> QED
  BY <1>1, <1>2, <1>3, <1>4

(* A load starts on a page that is typed (loadEntries).                    *)
LEMMA LoadStarts ==
    ASSUME NEW R, PagesTyped(R), NEW a \in Admins, NEW b \in Buckets, NEW page \in PageType(R),
           NEW k \in 0..1, NEW i \in LoadIds, LoadEntries(a, b, page, k, i)
    PROVE  PagesTyped(R)'
<1> DEFINE shown == [page EXCEPT !.what[b] = "loading", !.items[b] = {},
                                 !.off = IF b = "needs-entry" THEN {} ELSE @]
           load == [NoLoad EXCEPT !.admin = a, !.bucket = b, !.attempt = k, !.stage = "asked",
                                  !.number = IF page.number[b] = 0 THEN 1 ELSE page.number[b]]
<1>1. pages' = [pages EXCEPT ![a] = shown] /\ loads' = [loads EXCEPT ![i] = load]
  BY DEF LoadEntries
<1>2. shown \in PageType(R)
  BY DEF PageType
<1>3. load \in LoadType(R) /\ load.admin \in Admins
  <2>1. MaxSubs \in Nat /\ 1 \in 0..MaxSubs /\ 0 \in 0..MaxSubs
    BY GuestEntriesAssumption
  <2>2. page.number[b] \in 0..MaxSubs
    BY DEF PageType
  <2> QED
    BY <2>1, <2>2 DEF LoadType, NoLoad
<1> HIDE DEF shown, load
<1> QED
  BY <1>1, <1>2, <1>3 DEF PagesTyped

LEMMA DetachedHeld ==
    ASSUME NEW R, MarksHeld(R), NEW a, NEW b, marks' = Detached(a, b)
    PROVE  MarksHeld(R)'
BY DEF MarksHeld, MarkType, Detached

(* An administrator turns a page, or a list moves on.                      *)
LEMMA ListsKeep ==
    ASSUME PagesInv, NEW i \in LoadIds,
           \/ \E a \in Admins : \/ \E b \in Buckets : OpenTab(a, b, i)
                                \/ \E n \in 1..MaxSubs : GoToPage(a, n, i)
           \/ LoadSteps(i) \/ FailLoad(i)
    PROVE  PagesTyped(Rows)' /\ MarksHeld(Rows)' /\ DayTyped'
<1> DEFINE R == Rows
<1> USE DEF PagesInv
<1>0. R' = R
  <2>1. subs' = subs
    BY DEF OpenTab, GoToPage, LoadSteps, ListSubmissions, CountSubmissions, ShowEntries,
           StepBack, LoadFails, FailLoad
  <2> QED
    BY <2>1 DEF Rows
<1>1. PagesTyped(R) /\ MarksHeld(R)
  OBVIOUS
<1>2. MarksHeld(R)'
  <2>1. marks' = marks \/ \E a, b : marks' = Detached(a, b)
    BY DEF OpenTab, GoToPage, LoadSteps, ListSubmissions, CountSubmissions, ShowEntries,
           StepBack, LoadFails, FailLoad
  <2> HIDE DEF R
  <2> QED
    BY <1>0, <1>1, <2>1, DetachedHeld DEF MarksHeld
<1>3. DayTyped'
  BY DayKept DEF OpenTab, GoToPage, LoadSteps, ListSubmissions, CountSubmissions, ShowEntries,
           StepBack, LoadFails, FailLoad
<1>4. \A b, n : ItemsOf(b, n) \subseteq R
  BY DEF ItemsOf, InBucket
<1> HIDE DEF R
<1>5. PagesTyped(R)'
  <2>1. CASE \E a \in Admins, b \in Buckets : OpenTab(a, b, i)
    <3>1. PICK a \in Admins, b \in Buckets : OpenTab(a, b, i)
      BY <2>1
    <3>2. [pages[a] EXCEPT !.tab = b] \in PageType(R)
      BY <1>1 DEF PagesTyped, PageType
    <3>3. LoadEntries(a, b, [pages[a] EXCEPT !.tab = b], 0, i)
      BY <3>1 DEF OpenTab
    <3> QED
      BY <1>0, <1>1, <3>2, <3>3, LoadStarts
  <2>2. CASE \E a \in Admins, n \in 1..MaxSubs : GoToPage(a, n, i)
    <3>1. PICK a \in Admins, n \in 1..MaxSubs : GoToPage(a, n, i)
      BY <2>2
    <3> DEFINE b == pages[a].tab
    <3>2. b \in Buckets /\ n \in 0..MaxSubs /\ pages[a] \in PageType(R)
      BY <1>1, GuestEntriesAssumption DEF PagesTyped, PageType
    <3>3. LoadEntries(a, b, [pages[a] EXCEPT !.number[b] = n], 0, i)
      BY <3>1 DEF GoToPage
    <3> HIDE DEF b
    <3>4. [pages[a] EXCEPT !.number[b] = n] \in PageType(R)
      BY <3>2 DEF PageType
    <3> QED
      BY <1>0, <1>1, <3>2, <3>3, <3>4, LoadStarts
  <2>3. ASSUME NEW r \in LoadType(R), r.stage # "free" => r.admin \in Admins,
               loads' = [loads EXCEPT ![i] = r], pages' = pages
        PROVE  PagesTyped(R)'
    BY <1>0, <1>1, <2>3 DEF PagesTyped
  <2>4. loads[i] \in LoadType(R) /\ (loads[i].stage # "free" => loads[i].admin \in Admins)
    BY <1>1 DEF PagesTyped
  <2>5. CASE ListSubmissions(i)
    <3> DEFINE r == [loads[i] EXCEPT !.stage = "listed",
                                     !.items = ItemsOf(loads[i].bucket, loads[i].number)]
    <3>1. loads' = [loads EXCEPT ![i] = r] /\ pages' = pages /\ loads[i].stage = "asked"
      BY <1>1, <2>5 DEF ListSubmissions, PagesTyped
    <3>2. r \in LoadType(R) /\ r.admin \in Admins
      BY <1>4, <2>4, <3>1 DEF LoadType
    <3> HIDE DEF r
    <3> QED
      BY <2>3, <3>1, <3>2
  <2>6. CASE CountSubmissions(i)
    <3> DEFINE r == [loads[i] EXCEPT !.stage = "counted", !.last = TotalPages(loads[i].bucket)]
    <3>1. loads' = [loads EXCEPT ![i] = r] /\ pages' = pages /\ loads[i].stage = "listed"
      BY <1>1, <2>6 DEF CountSubmissions, PagesTyped
    <3>2. TotalPages(loads[i].bucket) \in 0..MaxSubs
      BY TotalPagesBound
    <3>3. r \in LoadType(R) /\ r.admin \in Admins
      BY <2>4, <3>1, <3>2 DEF LoadType
    <3> HIDE DEF r
    <3> QED
      BY <2>3, <3>1, <3>3
  <2>7. CASE FailLoad(i)
    <3> DEFINE r == [loads[i] EXCEPT !.stage = "failed"]
    <3>1. loads' = [loads EXCEPT ![i] = r] /\ pages' = pages /\ loads[i].stage # "free"
      BY <1>1, <2>7 DEF FailLoad, PagesTyped
    <3>2. r \in LoadType(R) /\ r.admin \in Admins
      BY <2>4, <3>1 DEF LoadType
    <3> HIDE DEF r
    <3> QED
      BY <2>3, <3>1, <3>2
  <2>8. ASSUME NEW a \in Admins, NEW page \in PageType(R), NEW r \in LoadType(R),
               r.stage # "free" => r.admin \in Admins,
               loads' = [loads EXCEPT ![i] = r], pages' = [pages EXCEPT ![a] = page]
        PROVE  PagesTyped(R)'
    BY <1>0, <1>1, <2>8 DEF PagesTyped
  <2>9. /\ 0 \in 0..MaxSubs /\ 1 \in 0..MaxSubs
        /\ NoLoad \in LoadType(R) /\ NoLoad.stage = "free"
    BY GuestEntriesAssumption DEF NoLoad, LoadType, Buckets
  <2> DEFINE a == loads[i].admin
             b == loads[i].bucket
  <2>10. /\ loads[i].stage # "free" => a \in Admins /\ pages[a] \in PageType(R)
         /\ b \in Buckets /\ loads[i].items \subseteq R /\ loads[i].last \in 0..MaxSubs
         /\ loads[i].number \in 0..MaxSubs
    BY <1>1, <2>4 DEF LoadType, PagesTyped
  <2>11. CASE ShowEntries(i)
    <3> DEFINE what == IF loads[i].items = {} THEN "none" ELSE "cards"
               page == [pages[a] EXCEPT !.what[b] = what, !.items[b] = loads[i].items,
                                        !.off = IF b = "needs-entry" THEN {} ELSE @,
                                        !.last[b] = IF what = "none" THEN 0 ELSE loads[i].last]
    <3>1. loads[i].stage = "counted" /\ loads' = [loads EXCEPT ![i] = NoLoad]
      BY <2>11 DEF ShowEntries
    <3>2. pages' = [pages EXCEPT ![a] = page]
      BY <1>1, <2>10, <2>11, <3>1 DEF ShowEntries, PagesTyped, PageType
    <3>3. page \in PageType(R)
      BY <2>9, <2>10, <3>1 DEF PageType
    <3> HIDE DEF page
    <3> QED
      BY <2>8, <2>9, <2>10, <3>1, <3>2, <3>3
  <2>12. CASE StepBack(i)
    <3> DEFINE n == loads[i].number
               r == [loads[i] EXCEPT !.number = IF n - 1 = 0 THEN 1 ELSE n - 1,
                                     !.attempt = 1, !.stage = "asked", !.last = 0]
               page == [pages[a] EXCEPT !.number[b] = n - 1, !.what[b] = "loading",
                                        !.items[b] = {},
                                        !.off = IF b = "needs-entry" THEN {} ELSE @]
    <3>1. loads[i].stage = "counted" /\ n > 1
      BY <2>12 DEF StepBack, StepsBack
    <3>2. loads' = [loads EXCEPT ![i] = r]
      BY <1>1, <2>12 DEF StepBack, PagesTyped
    <3>3. pages' = [pages EXCEPT ![a] = page]
      BY <1>1, <2>10, <2>12, <3>1 DEF StepBack, PagesTyped, PageType
    <3>4. n - 1 \in 0..MaxSubs
      BY <2>10, <3>1, GuestEntriesAssumption
    <3>5. r \in LoadType(R) /\ r.admin \in Admins
      <4> DEFINE back == IF n - 1 = 0 THEN 1 ELSE n - 1
      <4>1. back \in 0..MaxSubs /\ 1 \in 0..1
        BY <2>9, <3>4
      <4> HIDE DEF n, back
      <4>2. r = [loads[i] EXCEPT !.number = back, !.attempt = 1, !.stage = "asked", !.last = 0]
        BY DEF back
      <4> QED
        BY <2>4, <2>9, <3>1, <4>1, <4>2 DEF LoadType
    <3>6. page \in PageType(R)
      BY <2>10, <3>1, <3>4 DEF PageType
    <3> HIDE DEF page, r
    <3> QED
      BY <2>8, <2>10, <3>1, <3>2, <3>3, <3>5, <3>6
  <2>13. CASE LoadFails(i)
    <3> DEFINE page == [pages[a] EXCEPT !.what[b] = "failed", !.items[b] = {},
                                        !.off = IF b = "needs-entry" THEN {} ELSE @]
    <3>1. loads[i].stage = "failed" /\ loads' = [loads EXCEPT ![i] = NoLoad]
      BY <2>13 DEF LoadFails
    <3>2. pages' = [pages EXCEPT ![a] = page]
      BY <1>1, <2>10, <2>13, <3>1 DEF LoadFails, PagesTyped, PageType
    <3>3. page \in PageType(R)
      BY <2>10, <3>1 DEF PageType
    <3> HIDE DEF page
    <3> QED
      BY <2>8, <2>9, <2>10, <3>1, <3>2, <3>3
  <2> QED
    BY <2>1, <2>2, <2>5, <2>6, <2>7, <2>11, <2>12, <2>13 DEF LoadSteps
<1> QED
  BY <1>2, <1>3, <1>5 DEF R

(* A submission is marked, or its PATCH moves on, in a table grown to S.   *)
LEMMA MarkingKeeps ==
    ASSUME NEW S, PagesTyped(S), MarksHeld(S), DayTyped,
           \/ \E a \in Admins, s \in S, m \in MarkIds : MarkEntered(a, s, m)
           \/ \E m \in MarkIds : MarkSteps(m) \/ FailMark(m)
    PROVE  PagesTyped(S)' /\ MarksHeld(S)' /\ DayTyped'
<1>1. DayTyped'
  BY DayKept DEF MarkEntered, MarkSteps, ReadStatus, UpdateStatus, MarkFails, Marked, FailMark
<1>2. ASSUME NEW m \in MarkIds, NEW st \in MarkStages \ {"free"}, marks[m].stage # "free",
             marks' = [marks EXCEPT ![m].stage = st], UNCHANGED <<pages, loads>>
      PROVE  PagesTyped(S)' /\ MarksHeld(S)'
  BY <1>2 DEF PagesTyped, MarksHeld, MarkType
<1>3. CASE \E a \in Admins, s \in S, m \in MarkIds : MarkEntered(a, s, m)
  <2>1. PICK a \in Admins, s \in S, m \in MarkIds : MarkEntered(a, s, m)
    BY <1>3
  <2>2. MarksHeld(S)'
    BY <2>1 DEF MarkEntered, MarksHeld, MarkType, MarkStages
  <2>3. PagesTyped(S)'
    BY <2>1 DEF MarkEntered, PagesTyped, PageType
  <2> QED
    BY <1>1, <2>2, <2>3
<1>4. CASE \E m \in MarkIds : ReadStatus(m) \/ UpdateStatus(m) \/ FailMark(m)
  <2>1. \E m \in MarkIds, st \in MarkStages \ {"free"} :
          /\ marks[m].stage # "free"
          /\ marks' = [marks EXCEPT ![m].stage = st] /\ UNCHANGED <<pages, loads>>
    BY <1>4 DEF ReadStatus, UpdateStatus, FailMark, MarkStages
  <2> QED
    BY <1>1, <1>2, <2>1
<1>5. CASE \E m \in MarkIds : MarkFails(m)
  <2>1. PICK m \in MarkIds : MarkFails(m)
    BY <1>5
  <2>2. MarksHeld(S)'
    BY <2>1 DEF MarkFails, MarksHeld, MarkType
  <2>3. PagesTyped(S)'
    <3>1. /\ loads' = loads /\ marks[m].admin \in Admins
          /\ \/ pages' = pages
             \/ pages' = [pages EXCEPT ![marks[m].admin].off = @ \ {marks[m].sub}]
      BY <2>1 DEF MarkFails, MarksHeld
    <3> DEFINE a == marks[m].admin
               page == [pages[a] EXCEPT !.off = @ \ {marks[m].sub}]
    <3>2. pages' = pages \/ pages' = [pages EXCEPT ![a] = page]
      BY <3>1 DEF PagesTyped
    <3>3. page \in PageType(S)
      <4>1. pages[a] \in PageType(S)
        BY <3>1 DEF PagesTyped
      <4> HIDE DEF a
      <4>2. ASSUME NEW x \in PageType(S), NEW s
            PROVE  [x EXCEPT !.off = @ \ {s}] \in PageType(S)
        BY DEF PageType
      <4> QED
        BY <4>1, <4>2
    <3> HIDE DEF a, page
    <3> QED
      BY <3>1, <3>2, <3>3 DEF PagesTyped, a
  <2> QED
    BY <1>1, <2>2, <2>3
<1>6. CASE \E m \in MarkIds, i \in LoadIds : Marked(m, i)
  <2>1. PICK m \in MarkIds, i \in LoadIds : Marked(m, i)
    BY <1>6
  <2> DEFINE a == marks[m].admin
  <2>2. /\ marks[m].stage = "updated"
        /\ LoadEntries(a, pages[a].tab, pages[a], 0, i)
        /\ marks' = [Detached(a, pages[a].tab) EXCEPT
                        ![m].stage = "ok", ![m].open = FALSE, ![m].attached = FALSE]
    BY <2>1 DEF Marked
  <2>3. a \in Admins /\ pages[a] \in PageType(S) /\ pages[a].tab \in Buckets
    BY <2>2 DEF MarksHeld, PagesTyped, PageType
  <2>4. PagesTyped(S)'
    BY <2>2, <2>3, LoadStarts
  <2> DEFINE D == Detached(a, pages[a].tab)
  <2>5. /\ D \in [MarkIds -> MarkType(S)]
        /\ \A n \in MarkIds : D[n].stage # "free" => D[n].admin \in Admins /\ D[n].sub \in S
        /\ D[m].stage = "updated"
    BY <2>2 DEF MarksHeld, MarkType, Detached
  <2> HIDE DEF D
  <2>6. marks' = [D EXCEPT ![m].stage = "ok", ![m].open = FALSE, ![m].attached = FALSE]
    BY <2>2 DEF D
  <2>7. MarksHeld(S)'
    <3> DEFINE ok == [D[m] EXCEPT !.stage = "ok", !.open = FALSE, !.attached = FALSE]
    <3>1. marks' = [D EXCEPT ![m] = ok]
      BY <2>5, <2>6
    <3>2. ok \in MarkType(S) /\ ok.admin \in Admins /\ ok.sub \in S
      BY <2>5 DEF MarkType, MarkStages
    <3> HIDE DEF ok
    <3> QED
      BY <2>5, <3>1, <3>2 DEF MarksHeld
  <2> QED
    BY <1>1, <2>4, <2>7
<1> QED
  BY <1>3, <1>4, <1>5, <1>6 DEF MarkSteps

LEMMA PagesNext == GuestInv /\ PagesInv /\ [Next]_vars => PagesInv'
<1> SUFFICES ASSUME GuestInv, PagesInv, [Next]_vars PROVE PagesInv'
  OBVIOUS
<1> DEFINE S == Rows'
<1>1. PagesTyped(S) /\ MarksHeld(S) /\ DayTyped
  BY RowsGrow, TypesGrow DEF PagesInv
<1>2. CASE \E i \in LoadIds :
             \/ \E a \in Admins : \/ \E b \in Buckets : OpenTab(a, b, i)
                                  \/ \E n \in 1..MaxSubs : GoToPage(a, n, i)
             \/ LoadSteps(i) \/ FailLoad(i)
  BY <1>2, ListsKeep DEF PagesInv
<1>3. ASSUME UNCHANGED <<day, pages, loads, marks, clicks>>, failures' = failures \/ Fails
      PROVE  PagesInv'
  <2>1. DayTyped'
    BY <1>1, <1>3, DayKept
  <2>2. PagesTyped(Rows)' /\ MarksHeld(Rows)'
    BY <1>1, <1>3 DEF PagesTyped, MarksHeld
  <2> QED
    BY <2>1, <2>2 DEF PagesInv
<1>4. CASE \/ \E a \in Admins, s \in Subs, m \in MarkIds : MarkEntered(a, s, m)
           \/ \E m \in MarkIds : MarkSteps(m) \/ FailMark(m)
  <2>1. \/ \E a \in Admins, s \in S, m \in MarkIds : MarkEntered(a, s, m)
        \/ \E m \in MarkIds : MarkSteps(m) \/ FailMark(m)
    BY <1>1, <1>4 DEF MarkEntered, PagesTyped, PageType, Buckets
  <2>2. PagesTyped(S) /\ MarksHeld(S) /\ DayTyped
    BY <1>1
  <2> HIDE DEF S
  <2> QED
    BY <2>1, <2>2, MarkingKeeps DEF PagesInv, S
<1>5. CASE \/ \E f \in Families : FillIn(f)
           \/ \E p \in PostIds : SubmitKioskForm(p) \/ PostSteps(p) \/ LosePost(p)
           \/ Countdown \/ NewSubmission
           \/ UNCHANGED vars
  <2>1. UNCHANGED <<day, pages, loads, marks, clicks>> /\ (failures' = failures \/ Fails)
    BY <1>5 DEF FillIn, Countdown, NewSubmission, SubmitKioskForm, PostSteps, CreateSubmission,
                RefuseSubmission, LosePost, Thank, SubmitFails, admins, vars
  <2> QED
    BY <1>3, <2>1
<1> QED
  BY <1>2, <1>4, <1>5 DEF Next

LEMMA WaitsNext == GuestInv /\ Waits /\ [Next]_vars => Waits'
<1> SUFFICES ASSUME GuestInv, Waits, [Next]_vars PROVE Waits'
  OBVIOUS
<1> USE DEF GuestInv, KioskInv, KioskTyped
<1>1. CASE UNCHANGED guests
  BY <1>1 DEF guests, Waits
<1>2. CASE (\E f \in Families : FillIn(f)) \/ Countdown \/ NewSubmission
  <2>1. posts' = posts /\ kiosk'.disabled = kiosk.disabled
    BY <1>2 DEF FillIn, Countdown, NewSubmission, ShowForm, ResetForm
  <2> QED
    BY <2>1 DEF Waits
<1>3. CASE \E p \in PostIds : SubmitKioskForm(p)
  <2>1. PICK p \in PostIds : SubmitKioskForm(p)
    BY <1>3
  <2>2. posts'[p].open
    BY <2>1 DEF SubmitKioskForm
  <2> QED
    BY <2>2 DEF Waits
<1>4. CASE \E p \in PostIds : CreateSubmission(p) \/ RefuseSubmission(p) \/ LosePost(p)
  <2>1. \A q \in PostIds : posts'[q].open = posts[q].open
    BY <1>4 DEF CreateSubmission, RefuseSubmission, LosePost
  <2>2. kiosk' = kiosk
    BY <1>4 DEF CreateSubmission, RefuseSubmission, LosePost
  <2> QED
    BY <2>1, <2>2 DEF Waits
<1>5. CASE \E p \in PostIds : Thank(p) \/ SubmitFails(p)
  <2>1. ~kiosk'.disabled
    BY <1>5 DEF Thank, SubmitFails, Enabled, ShowWelcome, ResetForm
  <2> QED
    BY <2>1 DEF Waits
<1> QED
  BY <1>1, <1>2, <1>3, <1>4, <1>5
     DEF Next, PostSteps, OpenTab, GoToPage, LoadSteps, ListSubmissions, CountSubmissions,
         ShowEntries, StepBack, LoadFails, FailLoad, MarkEntered, MarkSteps, ReadStatus,
         UpdateStatus, Marked, MarkFails, FailMark, vars

(* Every variable keeps its type: no page shows, and no request is about,  *)
(* a submission that is not there, no page number is above the last one,   *)
(* and the kiosk's button is disabled exactly while a POST is open.        *)
THEOREM GuestTypes == Spec => []TypeOK
<1>1. GuestInv /\ PagesInv /\ Waits => TypeOK
  <2> SUFFICES ASSUME GuestInv, PagesInv, Waits PROVE TypeOK
    OBVIOUS
  <2>1. pages \in [Admins ->
         [tab : Buckets, number : [Buckets -> 0..MaxSubs],
          what : [Buckets -> {"closed", "loading", "none", "failed", "cards"}],
          items : [Buckets -> SUBSET Rows], off : SUBSET Rows,
          last : [Buckets -> 0..MaxSubs]]]
    BY DEF PagesInv, PagesTyped, PageType
  <2>2. loads \in [LoadIds ->
         [admin : Admins \cup {None}, bucket : Buckets, number : 0..MaxSubs, attempt : 0..1,
          stage : {"free", "asked", "listed", "counted", "failed"},
          items : SUBSET Rows, last : 0..MaxSubs]]
    BY DEF PagesInv, PagesTyped, LoadType
  <2>3. marks \in [MarkIds ->
         [admin : Admins \cup {None}, sub : Rows \cup {0}, open : BOOLEAN, attached : BOOLEAN,
          stage : {"free", "asked", "checked", "updated", "ok", "refused", "failed"}]]
    BY DEF PagesInv, MarksHeld, MarkType, MarkStages
  <2>4. /\ kiosk \in [panel : {"form", "welcome"}, draft : Families \cup {None},
                      disabled : BOOLEAN, ticking : BOOLEAN]
        /\ posts \in [PostIds -> [family : Families \cup {None}, open : BOOLEAN,
                                  stage : PostStages]]
    BY DEF GuestInv, KioskInv, KioskTyped
  <2>5. kiosk.disabled = (\E p \in PostIds : posts[p].open)
    <3>1. kiosk.disabled \in BOOLEAN
      BY <2>4
    <3>2. kiosk.disabled <=> \E p \in PostIds : posts[p].open
      BY DEF GuestInv, KioskInv, OneOpen, Waits
    <3> QED
      BY <3>1, <3>2
  <2>6. subs \in [Subs -> [family : Families \cup {None}, entered : BOOLEAN]]
    BY DEF GuestInv, MarksInv, MarksTyped
  <2> QED
    BY <2>1, <2>2, <2>3, <2>4, <2>5, <2>6 DEF TypeOK, PostStages, PagesInv, DayTyped
<1>2. Init => PagesInv /\ Waits
  BY PagesInit
<1> QED
  BY <1>1, <1>2, PagesNext, WaitsNext, Guests, PTL DEF Spec

=============================================================================
