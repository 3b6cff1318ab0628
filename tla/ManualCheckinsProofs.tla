------------------------ MODULE ManualCheckinsProofs ------------------------
(***************************************************************************)
(* OneRowPerChild, ClickStays and the types of ManualCheckins, for any     *)
(* number of connections, families, rows and requests.  OneRowPerChild has *)
(* an invariant about the one transaction that decides from what it read:  *)
(* while it is open no other is, and what it read to be missing still is.  *)
(* ClickStays has one about names: of all the requests that name a row, at *)
(* most the page's own PATCH can still change what the page shows of it.   *)
(***************************************************************************)
EXTENDS ManualCheckins, FiniteSetTheorems, WellFoundedInduction, TLAPS

RowType == [name : Nat, child : Nat, out : Outs, confirmed : BOOLEAN]

(* The types the argument needs: a row's child is known.                   *)
ChildrenKnown ==
    /\ parent \in Seq(Nat) /\ minted \in Nat
    /\ rows \in [Ids -> RowType]
    /\ \A i \in Ids : rows[i].child \in 0..Len(parent)

(* A transaction that is open is alone, and the children it will insert    *)
(* are known and have no row.                                              *)
TransactionAlone ==
    /\ tx \in [Admins -> [at : {"idle", "begun", "queried"}, family : Nat,
                          todo : SUBSET Nat]]
    /\ \A a, b \in Admins : tx[a] # Idle /\ tx[b] # Idle => a = b
    /\ \A a \in Admins : \A c \in tx[a].todo :
        c \in 1..Len(parent) /\ \A i \in Ids : rows[i].child # c

Ops == {"out", "in", "confirm", "unconfirm"}
PatchesKnown == \A p \in patches : "op" \in DOMAIN p /\ p.op \in Ops

(* OneRowPerChild over all ids, vacant ones included.                      *)
ChildrenDistinct ==
    \A i, j \in Ids : rows[i].child = rows[j].child /\ rows[i].child # 0 => i = j

TableInv == ChildrenKnown /\ TransactionAlone /\ PatchesKnown /\ ChildrenDistinct

(* Every row of RowsWith(S) is a row of rows, or belongs to a child of S   *)
(* and sits at that child's place, so that no other row does.              *)
LEMMA RowsWithChildren ==
    ASSUME NEW S \in SUBSET Nat, IsFiniteSet(S), ChildrenKnown, NEW i \in Ids
    PROVE  \/ RowsWith(S)[i] = rows[i]
           \/ /\ RowsWith(S)[i] \in RowType
              /\ RowsWith(S)[i].child \in S
              /\ i = NextId + Cardinality({d \in S : d < RowsWith(S)[i].child})
<1> DEFINE place(c) == Cardinality({d \in S : d < c})
           new == CHOOSE c \in S : i = NextId + place(c)
<1>1. CASE \E c \in S : i = NextId + place(c)
  <2>1. new \in S /\ i = NextId + place(new)
    BY <1>1
  <2>2. RowsWith(S)[i] = Row(minted + 1 + place(new), new, "no")
    BY <1>1 DEF RowsWith
  <2>3. place(new) \in Nat
    BY FS_Subset, FS_CardinalityType
  <2> HIDE DEF new, place
  <2>4. RowsWith(S)[i] \in RowType
    BY <2>1, <2>2, <2>3 DEF ChildrenKnown, Row, RowType, Outs
  <2>5. RowsWith(S)[i].child = new
    BY <2>2 DEF Row
  <2> USE DEF place
  <2> QED
    BY <2>1, <2>2, <2>4, <2>5
<1>2. CASE ~ \E c \in S : i = NextId + place(c)
  BY <1>2 DEF RowsWith
<1> QED
  BY <1>1, <1>2

(* Giving rows to children that have none leaves every child with one.     *)
LEMMA RowsWithDistinct ==
    ASSUME NEW S \in SUBSET Nat, IsFiniteSet(S), ChildrenKnown, ChildrenDistinct,
           \A c \in S : \A i \in Ids : rows[i].child # c
    PROVE  \A i, j \in Ids :
              /\ RowsWith(S)[i].child = RowsWith(S)[j].child
              /\ RowsWith(S)[i].child # 0
              => i = j
<1> SUFFICES ASSUME NEW i \in Ids, NEW j \in Ids,
                    RowsWith(S)[i].child = RowsWith(S)[j].child,
                    RowsWith(S)[i].child # 0
             PROVE  i = j
  OBVIOUS
<1> DEFINE R == RowsWith(S)
           here(k) == NextId + Cardinality({d \in S : d < R[k].child})
<1>1. \A k \in Ids : R[k] = rows[k] \/ (R[k].child \in S /\ k = here(k))
  BY RowsWithChildren
<1>2. here(i) = here(j)
  OBVIOUS
<1> HIDE DEF R, here
<1>3. R[i].child = R[j].child /\ R[i].child # 0
  BY DEF R
<1>4. CASE R[i] = rows[i] /\ R[j] = rows[j]
  BY <1>3, <1>4 DEF ChildrenDistinct
<1>5. CASE R[i].child \in S /\ R[j].child \in S
  <2>1. R[i] # rows[i] /\ R[j] # rows[j]
    BY <1>5
  <2> QED
    BY <1>1, <1>2, <2>1
<1> QED
  BY <1>1, <1>3, <1>4, <1>5

(* The children in RowsWith(S) are those of rows and those of S.           *)
LEMMA RowsWithKnown ==
    ASSUME NEW S \in SUBSET Nat, IsFiniteSet(S), ChildrenKnown
    PROVE  /\ RowsWith(S) \in [Ids -> RowType]
           /\ \A i \in Ids : RowsWith(S)[i].child \in S \cup 0..Len(parent)
<1>1. \A i \in Ids :
        /\ RowsWith(S)[i] \in RowType
        /\ RowsWith(S)[i].child \in S \cup 0..Len(parent)
  BY RowsWithChildren DEF ChildrenKnown
<1>2. RowsWith(S) = [i \in Ids |-> RowsWith(S)[i]]
  BY DEF RowsWith
<1> QED
  BY <1>1, <1>2

-----------------------------------------------------------------------------
(* The empty table satisfies the invariant.                                *)
LEMMA TableInit == Init => TableInv
<1> SUFFICES ASSUME Init PROVE TableInv
  OBVIOUS
<1> USE DEF Init, Vacant, Row, Idle
<1>1. ChildrenKnown
  BY DEF ChildrenKnown, RowType, Outs
<1>2. TransactionAlone
  BY DEF TransactionAlone
<1>3. PatchesKnown /\ ChildrenDistinct
  BY DEF PatchesKnown, ChildrenDistinct
<1> QED
  BY <1>1, <1>2, <1>3 DEF TableInv

(* A step that leaves the children of the rows and the transactions alone. *)
LEMMA ChildrenKept ==
    ASSUME TableInv, UNCHANGED <<parent, minted, tx>>, PatchesKnown',
           rows' \in [Ids -> RowType],
           \A i \in Ids : rows'[i].child = rows[i].child \/ rows'[i].child = 0
    PROVE  TableInv'
<1> USE DEF TableInv
<1>1. ChildrenKnown'
  BY DEF ChildrenKnown
<1>2. TransactionAlone'
  <2>1. \A a \in Admins : \A c \in tx[a].todo : \A i \in Ids : rows'[i].child # c
    BY DEF TransactionAlone, ChildrenKnown
  <2> QED
    BY <2>1 DEF TransactionAlone
<1>3. ChildrenDistinct'
  BY DEF ChildrenDistinct
<1> QED
  BY <1>1, <1>2, <1>3

(* A submission's children are new: no row is of theirs (CreateSubmission).*)
LEMMA SubmissionKeeps ==
    ASSUME TableInv, NEW n \in 1..MaxKids, CreateSubmission(n)
    PROVE  TableInv'
<1> DEFINE new == Len(parent) + 1 .. Len(parent) + n
           s == IF parent = <<>> THEN 1 ELSE parent[Len(parent)] + 1
<1> USE DEF TableInv
<1>1. n \in Nat /\ Len(parent) \in Nat
  BY ManualAssumption DEF ChildrenKnown
<1>2. new \in SUBSET Nat /\ IsFiniteSet(new)
  <2>1. new \subseteq Nat
    BY <1>1
  <2>2. Len(parent) + 1 \in Int /\ Len(parent) + n \in Int
    BY <1>1
  <2> QED
    BY <2>1, <2>2, FS_Interval
<1>3. \A c \in new : \A i \in Ids : rows[i].child # c
  BY <1>1 DEF ChildrenKnown
<1>4. /\ rows' = RowsWith(new) /\ minted' = minted + n
      /\ UNCHANGED <<tx, patches>>
      /\ parent' = parent \o [k \in 1..n |-> s]
      /\ Unlocked
  BY DEF CreateSubmission
<1>5. /\ parent' \in Seq(Nat) /\ minted' \in Nat
      /\ Len(parent') = Len(parent) + n
  <2>1. s \in Nat
    BY DEF ChildrenKnown
  <2> HIDE DEF s
  <2>2. [k \in 1..n |-> s] \in Seq(Nat) /\ Len([k \in 1..n |-> s]) = n
    BY <1>1, <2>1
  <2> QED
    BY <1>1, <1>4, <2>2 DEF ChildrenKnown
<1>6. \A c \in new : c \in 0..Len(parent')
  BY <1>1, <1>5
<1> HIDE DEF new, s
<1>7. ChildrenKnown'
  <2>1. /\ rows' \in [Ids -> RowType]
        /\ \A i \in Ids : rows'[i].child \in new \cup 0..Len(parent)
    BY <1>2, <1>4, RowsWithKnown
  <2>2. 0..Len(parent) \subseteq 0..Len(parent')
    BY <1>1, <1>5
  <2> QED
    BY <1>5, <1>6, <2>1, <2>2 DEF ChildrenKnown
<1>8. ChildrenDistinct'
  BY <1>2, <1>3, <1>4, RowsWithDistinct DEF ChildrenDistinct
<1>9. TransactionAlone'
  BY <1>4 DEF TransactionAlone, Unlocked, Idle
<1>10. PatchesKnown'
  BY <1>4 DEF PatchesKnown
<1> QED
  BY <1>7, <1>8, <1>9, <1>10 DEF TableInv

(* What a transaction read to be missing still is when it inserts.         *)
LEMMA InsertKeeps ==
    ASSUME TableInv, NEW a \in Admins, InsertManualCheckins(a)
    PROVE  TableInv'
<1> DEFINE todo == tx[a].todo
<1> USE DEF TableInv
<1>1. /\ rows' = RowsWith(todo) /\ minted' = minted + Cardinality(todo)
      /\ tx' = [tx EXCEPT ![a] = Idle] /\ tx[a].at = "queried"
      /\ UNCHANGED <<parent, patches>>
  BY DEF InsertManualCheckins
<1>2. Len(parent) \in Nat
  BY DEF ChildrenKnown
<1>3. \A c \in todo : c \in 1..Len(parent) /\ \A i \in Ids : rows[i].child # c
  BY DEF TransactionAlone
<1>4. todo \in SUBSET Nat /\ IsFiniteSet(todo) /\ Cardinality(todo) \in Nat
  <2>1. IsFiniteSet(1..Len(parent))
    BY <1>2, FS_Interval
  <2>2. IsFiniteSet(todo)
    BY <1>3, <2>1, FS_Subset
  <2> QED
    BY <1>2, <1>3, <2>2, FS_CardinalityType
<1>5. \A b \in Admins : tx'[b] = Idle
  <2>1. \A b \in Admins : b # a => tx[b] = Idle
    BY <1>1 DEF TransactionAlone, Idle
  <2> QED
    BY <1>1, <2>1 DEF TransactionAlone
<1> HIDE DEF todo
<1>6. ChildrenKnown'
  <2>1. /\ rows' \in [Ids -> RowType]
        /\ \A i \in Ids : rows'[i].child \in todo \cup 0..Len(parent)
    BY <1>1, <1>4, RowsWithKnown
  <2>2. \A i \in Ids : rows'[i].child \in 0..Len(parent)
    BY <1>2, <1>3, <2>1
  <2>3. minted' \in Nat /\ parent' = parent /\ parent \in Seq(Nat)
    BY <1>1, <1>4 DEF ChildrenKnown
  <2> QED
    BY <2>1, <2>2, <2>3 DEF ChildrenKnown
<1>7. ChildrenDistinct'
  BY <1>1, <1>3, <1>4, RowsWithDistinct DEF ChildrenDistinct
<1>8. TransactionAlone'
  <2>1. tx' \in [Admins -> [at : {"idle", "begun", "queried"}, family : Nat,
                            todo : SUBSET Nat]]
    BY <1>1 DEF TransactionAlone, Idle
  <2> QED
    BY <1>5, <2>1 DEF TransactionAlone, Idle
<1>9. PatchesKnown'
  BY <1>1 DEF PatchesKnown
<1> QED
  BY <1>6, <1>7, <1>8, <1>9

(* Beginning, reading and rolling back leave the table alone.              *)
LEMMA TransactionKeeps ==
    ASSUME TableInv, NEW a \in Admins,
           \/ \E s \in Families : BeginTx(a, s)
           \/ QueryChildren(a)
           \/ Rollback(a)
    PROVE  TableInv'
<1> USE DEF TableInv
<1>1. UNCHANGED <<table, patches>>
  BY DEF BeginTx, QueryChildren, Rollback
<1>2. ChildrenKnown' /\ ChildrenDistinct' /\ PatchesKnown'
  BY <1>1 DEF table, ChildrenKnown, ChildrenDistinct, PatchesKnown
<1>3. CASE \E s \in Families : BeginTx(a, s)
  <2>1. PICK s \in Families : BeginTx(a, s)
    BY <1>3
  <2>2. s \in Nat
    BY DEF Families, Children, ChildrenKnown
  <2>3. TransactionAlone'
    BY <1>1, <2>1, <2>2 DEF BeginTx, TransactionAlone, Unlocked, Idle, table
  <2> QED
    BY <1>2, <2>3
<1>4. CASE QueryChildren(a)
  <2>1. Missing(tx[a].family) \in SUBSET Nat
    BY DEF Missing, Children, ChildrenKnown
  <2>2. \A c \in Missing(tx[a].family) :
          c \in 1..Len(parent) /\ \A i \in Ids : rows[i].child # c
    BY DEF Missing, Children, ChildrenKnown
  <2>3. tx[a] # Idle
    BY <1>4 DEF QueryChildren, Idle
  <2>4. TransactionAlone'
    BY <1>1, <1>4, <2>1, <2>2, <2>3 DEF QueryChildren, TransactionAlone, table
  <2> QED
    BY <1>2, <2>4
<1>5. CASE Rollback(a)
  <2>1. TransactionAlone'
    BY <1>1, <1>5 DEF Rollback, TransactionAlone, Idle, table
  <2> QED
    BY <1>2, <2>1
<1> QED
  BY <1>3, <1>4, <1>5

(* The steps of a PATCH never change whose row a row is.                   *)
LEMMA PatchKeeps ==
    ASSUME TableInv, NEW p \in patches,
           \/ FindRow(p)
           \/ WriteRow(p)
           \/ PatchNotFound(p)
           \/ PatchFails(p)
           \/ PatchDone(p)
    PROVE  TableInv'
<1> USE DEF TableInv
<1>1. CASE WriteRow(p)
  <2>1. /\ rows' = [rows EXCEPT ![p.id] = Patched(rows[p.id], p.op)]
        /\ p.id \in Ids
        /\ UNCHANGED <<parent, minted, tx>>
    BY <1>1 DEF WriteRow, Present
  <2>2. PatchesKnown'
    <3>1. ASSUME NEW q \in patches'
          PROVE  \/ \E r \in patches : q = r \/ q = [r EXCEPT !.last = FALSE]
                 \/ q = [p EXCEPT !.at = "written", !.last = TRUE]
      BY <1>1 DEF WriteRow
    <3>2. "op" \in DOMAIN p /\ p.op \in Ops
      BY DEF PatchesKnown
    <3>3. LET q == [p EXCEPT !.at = "written", !.last = TRUE]
          IN  "op" \in DOMAIN q /\ q.op = p.op
      BY <3>2
    <3>4. \A r \in patches : LET q == [r EXCEPT !.last = FALSE]
                             IN  "op" \in DOMAIN q /\ q.op \in Ops
      BY DEF PatchesKnown
    <3> QED
      BY <3>1, <3>2, <3>3, <3>4 DEF PatchesKnown
  <2>3. /\ Patched(rows[p.id], p.op) \in RowType
        /\ Patched(rows[p.id], p.op).child = rows[p.id].child
    <3>1. rows[p.id] \in RowType /\ p.op \in Ops
      BY <2>1 DEF ChildrenKnown, PatchesKnown
    <3> QED
      BY <3>1 DEF Patched, RowType, Outs, Ops
  <2>4. rows' \in [Ids -> RowType] /\ \A i \in Ids : rows'[i].child = rows[i].child
    BY <2>1, <2>3 DEF ChildrenKnown
  <2> QED
    BY <2>1, <2>2, <2>4, ChildrenKept
<1>2. CASE FindRow(p)
  <2>1. PatchesKnown'
    BY <1>2 DEF FindRow, Move, PatchesKnown
  <2> QED
    BY <1>2, <2>1, ChildrenKept DEF FindRow, table, ChildrenKnown
<1>3. CASE PatchNotFound(p) \/ PatchFails(p) \/ PatchDone(p)
  <2>1. patches' = patches \ {p} /\ UNCHANGED <<table, tx>>
    BY <1>3 DEF PatchNotFound, PatchFails, PatchRejected, PatchDone
  <2> QED
    BY <2>1, ChildrenKept DEF table, PatchesKnown, ChildrenKnown
<1> QED
  BY <1>1, <1>2, <1>3

(* The operation a request carries, whoever sends it.                      *)
LEMMA RequestOp ==
    ASSUME NEW n, NEW op, NEW fromPage \in BOOLEAN
    PROVE  /\ "op" \in DOMAIN Request(n, op, fromPage)
           /\ Request(n, op, fromPage).op = op
BY DEF Request

(* A PATCH sent by another device is one of the four.                      *)
LEMMA ElsewherePatches ==
    ASSUME PatchesKnown, NEW n \in Names, NEW op \in Ops, PatchElsewhere(n, op)
    PROVE  PatchesKnown'
<1>1. patches' = patches \cup {Request(n, op, FALSE)}
  BY DEF PatchElsewhere
<1> QED
  BY <1>1, RequestOp DEF PatchesKnown

(* A step of the page draws the table anew, sends a PATCH or does neither. *)
LEMMA PagePatches ==
    ASSUME Page, PatchesKnown
    PROVE  PatchesKnown'
<1>1. \/ patches' = patches
      \/ patches' = {[p EXCEPT !.node = FALSE] : p \in patches}
      \/ \E n \in Names : \E op \in Ops :
            patches' = patches \cup {Request(n, op, TRUE)}
  BY DEF Page, OpenPage, Poll, ListManualCheckins, RenderManualCheckins, LoadFails,
         Click, Draw, Ops
<1>2. CASE patches' = {[p EXCEPT !.node = FALSE] : p \in patches}
  <2>1. \A p \in patches : LET q == [p EXCEPT !.node = FALSE]
                           IN  "op" \in DOMAIN q /\ q.op \in Ops
    BY DEF PatchesKnown
  <2> QED
    BY <1>2, <2>1 DEF PatchesKnown
<1>3. CASE \E n \in Names : \E op \in Ops :
             patches' = patches \cup {Request(n, op, TRUE)}
  BY <1>3, RequestOp DEF PatchesKnown
<1> QED
  BY <1>1, <1>2, <1>3 DEF PatchesKnown

(* A walk-in's row is of no child (CreateManualCheckin).                   *)
LEMMA WalkinKeeps ==
    ASSUME TableInv, NEW w \in Outs,
           rows' = [rows EXCEPT ![NextId] = Row(minted + 1, 0, w)],
           minted' = minted + 1,
           UNCHANGED <<parent, tx, patches>>
    PROVE  TableInv'
<1> USE DEF TableInv
<1>1. Row(minted + 1, 0, w) \in RowType /\ Row(minted + 1, 0, w).child = 0
  BY DEF Row, RowType, ChildrenKnown
<1>2. /\ rows' \in [Ids -> RowType]
      /\ \A i \in Ids : rows'[i].child = rows[i].child \/ rows'[i].child = 0
  BY <1>1 DEF ChildrenKnown
<1>3. ChildrenKnown'
  <2>1. Len(parent) \in Nat
    BY DEF ChildrenKnown
  <2> QED
    BY <1>2, <2>1 DEF ChildrenKnown
<1>4. TransactionAlone'
  <2>1. \A c : c \in 1..Len(parent) => c # 0
    BY DEF ChildrenKnown
  <2>2. \A a \in Admins : \A c \in tx[a].todo : \A i \in Ids : rows'[i].child # c
    BY <1>2, <2>1 DEF TransactionAlone
  <2> QED
    BY <2>2 DEF TransactionAlone
<1>5. ChildrenDistinct' /\ PatchesKnown'
  BY <1>2 DEF ChildrenDistinct, PatchesKnown
<1> QED
  BY <1>3, <1>4, <1>5

(* The steps that ask, poll, draw, delete or let time pass.                *)
LEMMA OthersKeep ==
    ASSUME TableInv,
           \/ \E out \in BOOLEAN : CreateManualCheckin(out)
           \/ \E limit \in {"days ago", "now"} : RemoveOldManualCheckins(limit)
           \/ Tick
           \/ \E n \in Names : \E op \in Ops : PatchElsewhere(n, op)
           \/ Page
           \/ UNCHANGED vars
    PROVE  TableInv'
<1> USE DEF TableInv
<1>1. CASE \E out \in BOOLEAN : CreateManualCheckin(out)
  <2>1. PICK w \in Outs :
          /\ rows' = [rows EXCEPT ![NextId] = Row(minted + 1, 0, w)]
          /\ minted' = minted + 1
          /\ UNCHANGED <<parent, tx, patches>>
    BY <1>1 DEF CreateManualCheckin, Outs
  <2> QED
    BY <2>1, WalkinKeeps
<1>2. CASE \E limit \in {"days ago", "now"} : RemoveOldManualCheckins(limit)
  <2>1. UNCHANGED <<parent, minted, tx, patches>>
    BY <1>2 DEF RemoveOldManualCheckins
  <2>2. rows' = [i \in Ids |-> rows'[i]]
    BY <1>2 DEF RemoveOldManualCheckins
  <2>3. \A i \in Ids : rows'[i] = rows[i] \/ rows'[i] = Vacant
    BY <1>2 DEF RemoveOldManualCheckins
  <2>4. Vacant \in RowType /\ Vacant.child = 0
    BY DEF Vacant, Row, RowType, Outs
  <2> QED
    BY <2>1, <2>2, <2>3, <2>4, ChildrenKept DEF ChildrenKnown, PatchesKnown
<1>3. CASE Tick
  <2>1. UNCHANGED <<parent, minted, tx, patches>>
    BY <1>3 DEF Tick
  <2>2. rows' = [i \in Ids |-> rows'[i]]
    BY <1>3 DEF Tick
  <2>3. \A i \in Ids : rows'[i] \in RowType /\ rows'[i].child = rows[i].child
    BY <1>3 DEF Tick, ChildrenKnown, RowType, Outs
  <2> QED
    BY <2>1, <2>2, <2>3, ChildrenKept DEF PatchesKnown
<1>4. CASE \E n \in Names : \E op \in Ops : PatchElsewhere(n, op)
  <2>1. PatchesKnown'
    BY <1>4, ElsewherePatches
  <2> QED
    BY <1>4, <2>1, ChildrenKept DEF PatchElsewhere, table, ChildrenKnown
<1>5. CASE Page
  <2>1. UNCHANGED <<table, tx>>
    BY <1>5 DEF Page, OpenPage, Poll, ListManualCheckins, RenderManualCheckins,
                LoadFails, Click
  <2>2. PatchesKnown'
    BY <1>5, PagePatches
  <2> QED
    BY <2>1, <2>2, ChildrenKept DEF table, ChildrenKnown
<1>6. CASE UNCHANGED vars
  BY <1>6, ChildrenKept DEF vars, table, ChildrenKnown, PatchesKnown
<1> QED
  BY <1>1, <1>2, <1>3, <1>4, <1>5, <1>6

-----------------------------------------------------------------------------
(* The invariant of the table, for every value of the constants.           *)
THEOREM TableInvariant == Spec => []TableInv
<1>1. Init => TableInv
  BY TableInit
<1>2. TableInv /\ [Next]_vars => TableInv'
  <2> SUFFICES ASSUME TableInv, [Next]_vars PROVE TableInv'
    OBVIOUS
  <2>1. CASE Writes
    BY <2>1, SubmissionKeeps, InsertKeeps, TransactionKeeps, OthersKeep DEF Writes
  <2>2. CASE Requests
    BY <2>2, PatchKeeps, OthersKeep DEF Requests, Ops
  <2> QED
    BY <2>1, <2>2, OthersKeep DEF Next
<1> QED
  BY <1>1, <1>2, PTL DEF Spec

(* However many CreateSubmissionCheckins requests and delete-old runs      *)
(* overlap, no child has two rows.                                         *)
THEOREM OneRow == Spec => []OneRowPerChild
<1>1. TableInv => OneRowPerChild
  BY DEF TableInv, ChildrenDistinct, OneRowPerChild, Present
<1> QED
  BY <1>1, TableInvariant, PTL

-----------------------------------------------------------------------------
(* Ids and names.  A name is handed out once; an id in use is no larger    *)
(* than the number of names, though ids come back.                         *)

NamedType(m) == [name : 0..m, child : Nat, out : Outs, confirmed : BOOLEAN]

Named(r, m) ==
    /\ r \in [Ids -> NamedType(m)]
    /\ \A i \in Ids : r[i].name = 0 <=> r[i] = Vacant
    /\ \A i, j \in Ids : r[i].name = r[j].name /\ r[i].name # 0 => i = j
    /\ \A i \in Ids : r[i].name # 0 => i <= m

NamesInv == minted \in 0..MaxNames /\ Named(rows, minted)

(* A set of positive numbers that is bounded has a greatest.               *)
LEMMA Greatest ==
    ASSUME NEW m \in Nat, NEW S, S \subseteq 1..m, S # {}
    PROVE  \E i \in S : \A j \in S : j <= i
<1> DEFINE R == OpToRel(<, Nat)
           T == {m - i : i \in S}
<1>1. R = {ss \in Nat \X Nat : ss[1] < ss[2]}
  BY DEF OpToRel
<1>0. \A i \in S : i \in Nat /\ m - i \in Nat
  OBVIOUS
<1>2. T \subseteq Nat /\ T # {}
  <2>1. T \subseteq Nat
    BY <1>0
  <2>2. \A i \in S : m - i \in T
    OBVIOUS
  <2> QED
    BY <2>1, <2>2
<1>3. IsWellFoundedOn(R, Nat)
  BY NatLessThanWellFounded
<1> HIDE DEF R
<1>4. PICK x \in T : \A y \in T : ~ (<<y, x>> \in R)
  <2> HIDE DEF T
  <2> QED
    BY <1>2, <1>3, WFMin
<1>5. PICK i \in S : x = m - i
  OBVIOUS
<1>6. ASSUME NEW j \in S, j > i PROVE FALSE
  <2>1. m - j \in T
    OBVIOUS
  <2>3. i \in Nat /\ j \in Nat /\ m - j \in Nat /\ m - i \in Nat
    BY <1>0
  <2>4. m - j < m - i
    BY <1>6, <2>3
  <2>2. <<m - j, m - i>> \in R
    BY <1>1, <2>3, <2>4
  <2> QED
    BY <1>4, <1>5, <2>1, <2>2
<1> QED
  BY <1>0, <1>6

LEMMA NextIdBound ==
    ASSUME NamesInv
    PROVE  NextId \in 1..(minted + 1)
<1>1. minted \in Nat /\ MaxNames \in Nat /\ minted <= MaxNames
  BY ManualAssumption DEF NamesInv
<1>2. CASE Present = {}
  BY <1>1, <1>2 DEF NextId
<1>3. CASE Present # {}
  <2>1. \A i \in Present : i \in 1..minted
    BY <1>1 DEF Present, NamesInv, Named, Ids
  <2>2. \E i \in Present : \A j \in Present : j <= i
    BY <1>1, <1>3, <2>1, Greatest
  <2> DEFINE top == CHOOSE i \in Present : \A j \in Present : j <= i
  <2>3. top \in Present
    BY <2>2
  <2>4. NextId = 1 + top
    BY <1>3 DEF NextId
  <2> HIDE DEF top
  <2> QED
    BY <1>1, <2>1, <2>3, <2>4
<1> QED
  BY <1>2, <1>3

(* A row of RowsWith(S) is as it was, or new: then its name and its id     *)
(* follow from each other.                                                 *)
LEMMA RowsWithNames ==
    ASSUME NEW S \in SUBSET Nat, IsFiniteSet(S), NamesInv, NEW i \in Ids
    PROVE  \/ RowsWith(S)[i] = rows[i]
           \/ \E k \in 0..(Cardinality(S) - 1) : \E c \in S :
                RowsWith(S)[i] = Row(minted + 1 + k, c, "no") /\ i = NextId + k
<1> DEFINE place(c) == Cardinality({d \in S : d < c})
           new == CHOOSE c \in S : i = NextId + place(c)
<1>1. CASE \E c \in S : i = NextId + place(c)
  <2>1. new \in S /\ i = NextId + place(new)
    BY <1>1
  <2>2. RowsWith(S)[i] = Row(minted + 1 + place(new), new, "no")
    BY <1>1 DEF RowsWith
  <2> HIDE DEF new
  <2>3. place(new) \in 0..(Cardinality(S) - 1)
    <3> DEFINE B == {d \in S : d < new}
    <3>1. B \subseteq S \ {new}
      BY <2>1
    <3>2. Cardinality(S) \in Nat
      BY FS_CardinalityType
    <3>3. IsFiniteSet(S \ {new}) /\ Cardinality(S \ {new}) = Cardinality(S) - 1
      BY <2>1, FS_RemoveElement
    <3> HIDE DEF B
    <3>4. IsFiniteSet(B) /\ Cardinality(B) <= Cardinality(S) - 1
      BY <3>1, <3>3, FS_Subset
    <3>5. Cardinality(B) \in Nat
      BY <3>4, FS_CardinalityType
    <3>6. Cardinality(B) \in 0..(Cardinality(S) - 1)
      BY <3>2, <3>4, <3>5
    <3> QED
      BY <3>6 DEF B
  <2> HIDE DEF place
  <2> QED
    BY <2>1, <2>2, <2>3
<1>2. CASE ~ \E c \in S : i = NextId + place(c)
  BY <1>2 DEF RowsWith
<1> QED
  BY <1>1, <1>2

LEMMA RowsWithNamed ==
    ASSUME NEW S \in SUBSET Nat, IsFiniteSet(S), NamesInv,
           minted + Cardinality(S) <= MaxNames
    PROVE  /\ Named(RowsWith(S), minted + Cardinality(S))
           /\ \A i \in Ids : \/ RowsWith(S)[i] = rows[i]
                             \/ RowsWith(S)[i].name > minted
<1> DEFINE R == RowsWith(S)
           n == Cardinality(S)
           m == minted + n
           fresh(i) == \E k \in 0..(n - 1) : \E c \in S :
                         R[i] = Row(minted + 1 + k, c, "no") /\ i = NextId + k
<1>1. minted \in Nat /\ n \in Nat /\ m \in Nat /\ m <= MaxNames /\ MaxNames \in Nat
  BY FS_CardinalityType, ManualAssumption DEF NamesInv
<1>2. NextId \in 1..(minted + 1)
  BY NextIdBound
<1>3. \A i \in Ids : R[i] = rows[i] \/ fresh(i)
  BY RowsWithNames
<1>4. R = [i \in Ids |-> R[i]]
  BY DEF RowsWith
<1> HIDE DEF R, n
<1>5. ASSUME NEW i \in Ids, fresh(i)
      PROVE  /\ R[i] \in NamedType(m) /\ R[i] # Vacant
             /\ R[i].name > minted /\ i <= m
             /\ R[i].name = minted + 1 + i - NextId
  <2>1. PICK k \in 0..(n - 1), c \in S : R[i] = Row(minted + 1 + k, c, "no") /\ i = NextId + k
    BY <1>5
  <2>2. minted + 1 + k \in 0..m /\ c \in Nat /\ minted + 1 + k > minted
    BY <1>1, <2>1
  <2>3. R[i].name = minted + 1 + k
    BY <2>1 DEF Row
  <2>4. R[i] \in NamedType(m)
    BY <2>1, <2>2 DEF Row, NamedType, Outs
  <2>5. Vacant.name = 0
    BY DEF Vacant, Row
  <2>6. i <= m /\ minted + 1 + k = minted + 1 + i - NextId
    BY <1>1, <1>2, <2>1
  <2> QED
    BY <1>1, <2>2, <2>3, <2>4, <2>5, <2>6
<1>6. ASSUME NEW i \in Ids, R[i] = rows[i]
      PROVE  /\ R[i] \in NamedType(m) /\ R[i].name \in 0..minted
             /\ R[i].name = 0 <=> R[i] = Vacant
             /\ R[i].name # 0 => i <= m
  <2>1. rows[i] \in NamedType(minted) /\ (rows[i].name # 0 => i <= minted)
        /\ (rows[i].name = 0 <=> rows[i] = Vacant)
    BY DEF NamesInv, Named
  <2>2. i \in Int
    BY DEF Ids
  <2> QED
    BY <1>1, <1>6, <2>1, <2>2 DEF NamedType
<1> HIDE DEF fresh
<1>7. R \in [Ids -> NamedType(m)]
  BY <1>3, <1>4, <1>5, <1>6
<1>8. \A i \in Ids : (R[i].name = 0 <=> R[i] = Vacant) /\ (R[i].name # 0 => i <= m)
  BY <1>1, <1>3, <1>5, <1>6
<1>9. ASSUME NEW i \in Ids, NEW j \in Ids, R[i].name = R[j].name, R[i].name # 0
      PROVE  i = j
  <2>1. CASE R[i] = rows[i] /\ R[j] = rows[j]
    BY <1>9, <2>1 DEF NamesInv, Named
  <2>2. CASE fresh(i) /\ fresh(j)
    <3>1. i \in Int /\ j \in Int
      BY DEF Ids
    <3> QED
      BY <1>1, <1>2, <1>5, <1>9, <2>2, <3>1
  <2>3. CASE fresh(i) /\ R[j] = rows[j]
    BY <1>1, <1>5, <1>6, <1>9, <2>3
  <2>4. CASE R[i] = rows[i] /\ fresh(j)
    BY <1>1, <1>5, <1>6, <1>9, <2>4
  <2> QED
    BY <1>3, <2>1, <2>2, <2>3, <2>4
<1>10. Named(R, m)
  BY <1>7, <1>8, <1>9 DEF Named
<1>11. \A i \in Ids : R[i] = rows[i] \/ R[i].name > minted
  BY <1>3, <1>5
<1> QED
  BY <1>10, <1>11 DEF R, n


-----------------------------------------------------------------------------
(* Requests, the page and what it was told.                                *)

PatchType == [num : Nat, name : Nat, op : Ops, at : {"sent", "found", "written"},
              id : Nat, page : BOOLEAN, node : BOOLEAN, last : BOOLEAN]

CallOK(p) ==
    /\ p \in PatchType
    /\ p.num \in 1..MaxRequests /\ p.name \in 1..minted /\ p.id \in 0..minted
    /\ p.page => p.op \in {"out", "in"}
    /\ p.at = "written" => p.page
    /\ p.last => p.at = "written"

CallsInv ==
    /\ asked \in 0..MaxRequests
    /\ IsFiniteSet(patches) /\ Cardinality(patches) <= asked
    /\ \A p \in patches : CallOK(p)

LoadType == [at : {"sent", "read"}, answer : [Names -> Badges]]

PageInv ==
    /\ open \in BOOLEAN
    /\ shown \in [Names -> Badges]
    /\ busy \subseteq {n \in Names : shown[n] # "none"}
    /\ loads \subseteq LoadType
    /\ acked \in [Names -> Badges]
    /\ \A n \in Names : shown[n] # "none" => n <= minted
    /\ \A l \in loads : \A n \in Names : l.answer[n] # "none" => n <= minted

(* A row of which the request op was the last to move it.                  *)
Agrees(when, op) == IF op = "out" THEN when # "no" ELSE when = "no"

(* An id found is that of the only row of its name, if there is one left.  *)
FoundInv ==
    \A p \in patches : p.at = "found" =>
        \A i \in Ids : rows[i].name = p.name => i = p.id

LastInv ==
    \A p \in patches : p.last =>
        \A i \in Ids : rows[i].name = p.name => Agrees(rows[i].out, p.op)

(* What the page was told is true of the row while no one else has written *)
(* it, and every load that has read the table read it after that.          *)
AckedInv ==
    \A n \in Names : acked[n] # "none" =>
        /\ n <= minted
        /\ \A i \in Ids : rows[i].name = n => Agrees(rows[i].out, acked[n])
        /\ \A l \in loads : l.at = "read" => l.answer[n] \in {"none", acked[n]}

FamiliesInv ==
    /\ parent \in Seq(1..MaxFamilies)
    /\ tx \in [Admins -> [at : {"idle", "begun", "queried"}, family : 0..MaxFamilies,
                          todo : SUBSET Nat]]

ClickInv == /\ NamesInv /\ CallsInv /\ PageInv /\ FoundInv /\ LastInv /\ AckedInv
            /\ FamiliesInv

ShownStep == \A n \in Names : shown'[n] # shown[n] /\ acked[n] # "none"
                                => shown'[n] \in {"none", acked[n]}

(* A step of the table that writes no row for a request.                   *)
LEMMA RowsAged ==
    ASSUME ClickInv, NamesInv', minted <= minted', FamiliesInv',
           UNCHANGED <<patches, page, asked, acked>>,
           \A i \in Ids :
              \/ rows'[i].name = 0 \/ rows'[i].name > minted
              \/ /\ rows'[i].name = rows[i].name
                 /\ rows'[i].out = rows[i].out \/ (rows[i].out = "recent" /\ rows'[i].out = "old")
    PROVE  ClickInv' /\ ShownStep
<1> USE DEF ClickInv, page
<1>1. minted \in Nat /\ minted' \in Nat
  BY DEF NamesInv
<1>2. CallsInv'
  <2>1. \A p \in patches : CallOK(p)'
    BY <1>1 DEF CallsInv, CallOK
  <2> QED
    BY <2>1 DEF CallsInv
<1>3. PageInv' /\ ShownStep
  BY <1>1 DEF PageInv, ShownStep, Names
<1>4. \A p \in patches : p.name \in 1..minted
  BY DEF CallsInv, CallOK
<1>5. \A i \in Ids : \A n \in 1..minted : rows'[i].name = n =>
         /\ rows[i].name = n
         /\ rows'[i].out = rows[i].out \/ (rows[i].out = "recent" /\ rows'[i].out = "old")
  BY <1>1
<1>6. FoundInv' /\ LastInv'
  BY <1>4, <1>5 DEF FoundInv, LastInv, Agrees
<1>7. AckedInv'
  <2>1. Names \subseteq Nat /\ 0 \notin Names
    BY DEF Names
  <2> QED
    BY <1>1, <1>5, <2>1 DEF AckedInv, Agrees, Names
<1> QED
  BY <1>2, <1>3, <1>6, <1>7

LEMMA FamiliesKept ==
    ASSUME FamiliesInv, UNCHANGED parent,
           tx' = tx \/ \E a \in Admins : tx' = [tx EXCEPT ![a] = Idle]
    PROVE  FamiliesInv'
<1>1. 0 \in 0..MaxFamilies
  BY ManualAssumption
<1> QED
  BY <1>1 DEF FamiliesInv, Idle

LEMMA SubmissionShown ==
    ASSUME TableInv, ClickInv, NEW n \in 1..MaxKids, CreateSubmission(n)
    PROVE  ClickInv' /\ ShownStep
<1> DEFINE new == Len(parent) + 1 .. Len(parent) + n
           s == IF parent = <<>> THEN 1 ELSE parent[Len(parent)] + 1
<1>1. n \in Nat /\ Len(parent) \in Nat /\ parent \in Seq(1..MaxFamilies)
      /\ MaxFamilies \in Nat
  BY ManualAssumption DEF ClickInv, FamiliesInv
<1>2. new \in SUBSET Nat /\ IsFiniteSet(new) /\ Cardinality(new) = n
  <2>1. new \subseteq Nat
    BY <1>1
  <2>2. Len(parent) + 1 \in Int /\ Len(parent) + n \in Int
    BY <1>1
  <2>3. IsFiniteSet(new) /\ Cardinality(new) = IF Len(parent) + 1 > Len(parent) + n THEN 0
                             ELSE (Len(parent) + n) - (Len(parent) + 1) + 1
    BY <2>2, FS_Interval
  <2> HIDE DEF new
  <2>4. Cardinality(new) = n
    BY <1>1, <2>3
  <2> QED
    BY <2>1, <2>3, <2>4
<1>3. /\ rows' = RowsWith(new) /\ minted' = minted + n /\ minted + n <= MaxNames
      /\ UNCHANGED <<tx, patches, page, asked, acked>>
      /\ parent' = parent \o [k \in 1..n |-> s] /\ s <= MaxFamilies
  BY DEF CreateSubmission
<1>4. s \in 1..MaxFamilies
  BY <1>1, <1>3
<1> HIDE DEF new, s
<1>5. FamiliesInv'
  <2>1. [k \in 1..n |-> s] \in Seq(1..MaxFamilies)
    BY <1>1, <1>4
  <2>2. parent' \in Seq(1..MaxFamilies)
    BY <1>1, <1>3, <2>1
  <2> QED
    BY <1>3, <2>2 DEF ClickInv, FamiliesInv
<1>6. /\ Named(RowsWith(new), minted + n)
      /\ \A i \in Ids : RowsWith(new)[i] = rows[i] \/ RowsWith(new)[i].name > minted
  BY <1>2, <1>3, RowsWithNamed DEF ClickInv
<1>7. NamesInv' /\ minted <= minted'
  BY <1>1, <1>3, <1>6, ManualAssumption DEF ClickInv, NamesInv
<1> QED
  BY <1>3, <1>5, <1>6, <1>7, RowsAged

LEMMA InsertShown ==
    ASSUME TableInv, ClickInv, NEW a \in Admins, InsertManualCheckins(a)
    PROVE  ClickInv' /\ ShownStep
<1> DEFINE todo == tx[a].todo
<1>1. /\ rows' = RowsWith(todo) /\ minted' = minted + Cardinality(todo)
      /\ minted + Cardinality(todo) <= MaxNames
      /\ tx' = [tx EXCEPT ![a] = Idle]
      /\ UNCHANGED <<parent, patches, page, asked, acked>>
  BY DEF InsertManualCheckins
<1>2. todo \in SUBSET Nat /\ IsFiniteSet(todo) /\ Cardinality(todo) \in Nat
  <2>1. Len(parent) \in Nat
    BY DEF TableInv, ChildrenKnown
  <2>2. IsFiniteSet(1..Len(parent)) /\ 1..Len(parent) \subseteq Nat
    BY <2>1, FS_Interval
  <2>3. todo \in SUBSET (1..Len(parent))
    BY DEF TableInv, TransactionAlone
  <2> HIDE DEF todo
  <2> QED
    BY <2>2, <2>3, FS_Subset, FS_CardinalityType
<1> HIDE DEF todo
<1>3. FamiliesInv'
  BY <1>1, FamiliesKept DEF ClickInv
<1>4. /\ Named(RowsWith(todo), minted + Cardinality(todo))
      /\ \A i \in Ids : RowsWith(todo)[i] = rows[i] \/ RowsWith(todo)[i].name > minted
  BY <1>1, <1>2, RowsWithNamed DEF ClickInv
<1>5. NamesInv' /\ minted <= minted'
  BY <1>1, <1>2, <1>4, ManualAssumption DEF ClickInv, NamesInv
<1> QED
  BY <1>1, <1>3, <1>4, <1>5, RowsAged

LEMMA WalkinShown ==
    ASSUME ClickInv, NEW out \in BOOLEAN, CreateManualCheckin(out)
    PROVE  ClickInv' /\ ShownStep
<1> DEFINE new == Row(minted + 1, 0, IF out THEN "recent" ELSE "no")
<1>1. /\ minted < MaxNames /\ minted' = minted + 1
      /\ rows' = [rows EXCEPT ![NextId] = new]
      /\ UNCHANGED <<parent, tx, patches, page, asked, acked>>
  BY DEF CreateManualCheckin
<1>2. minted \in Nat /\ MaxNames \in Nat /\ NextId \in 1..(minted + 1)
  BY ManualAssumption, NextIdBound DEF ClickInv, NamesInv
<1>3. new \in NamedType(minted + 1) /\ new # Vacant /\ new.name = minted + 1
  <2>1. new.name = minted + 1 /\ Vacant.name = 0
    BY DEF Row, Vacant
  <2> QED
    BY <1>2, <2>1 DEF Row, NamedType, Outs
<1> HIDE DEF new
<1>4. Named(rows, minted)
  BY DEF ClickInv, NamesInv
<1>5. \A i \in Ids : rows'[i] = IF i = NextId THEN new ELSE rows[i]
  BY <1>1, <1>4 DEF Named
<1>6. \A i \in Ids : rows[i] \in NamedType(minted) /\ rows[i].name \in 0..minted
                     /\ rows[i] \in NamedType(minted + 1)
  BY <1>2, <1>4 DEF Named, NamedType
<1>7. Named(rows', minted')
  <2>1. rows' \in [Ids -> NamedType(minted + 1)]
    BY <1>1, <1>3, <1>4, <1>5, <1>6 DEF Named
  <2>2. \A i \in Ids : rows'[i].name = 0 <=> rows'[i] = Vacant
    BY <1>2, <1>3, <1>4, <1>5 DEF Named
  <2>3. \A i, j \in Ids : rows'[i].name = rows'[j].name /\ rows'[i].name # 0 => i = j
    BY <1>2, <1>3, <1>4, <1>5, <1>6 DEF Named
  <2>4. \A i \in Ids : rows'[i].name # 0 => i <= minted + 1
    BY <1>2, <1>4, <1>5 DEF Named, Ids
  <2> QED
    BY <1>1, <2>1, <2>2, <2>3, <2>4 DEF Named
<1>8. NamesInv' /\ minted <= minted'
  BY <1>1, <1>2, <1>7 DEF NamesInv
<1>9. FamiliesInv'
  BY <1>1, FamiliesKept DEF ClickInv
<1>10. \A i \in Ids : rows'[i] = rows[i] \/ rows'[i].name > minted
  BY <1>2, <1>3, <1>5
<1> QED
  BY <1>1, <1>8, <1>9, <1>10, RowsAged

LEMMA RowsThinned ==
    ASSUME ClickInv, UNCHANGED <<parent, minted, tx, patches, page, asked, acked>>,
           rows' = [i \in Ids |-> rows'[i]],
           \A i \in Ids : \/ rows'[i] \in {rows[i], Vacant}
                          \/ rows[i].out = "recent" /\ rows'[i] = [rows[i] EXCEPT !.out = "old"]
    PROVE  ClickInv' /\ ShownStep
<1>1. minted \in Nat /\ Named(rows, minted)
  BY DEF ClickInv, NamesInv
<1>2. /\ Vacant \in NamedType(minted) /\ Vacant.name = 0 /\ Vacant.out = "no"
  BY <1>1 DEF Vacant, Row, NamedType, Outs
<1>3. ASSUME NEW i \in Ids
      PROVE  /\ rows'[i] \in NamedType(minted)
             /\ rows'[i].name = 0 <=> rows'[i] = Vacant
             /\ \/ rows'[i].name = 0
                \/ /\ rows'[i].name = rows[i].name
                   /\ rows'[i].out = rows[i].out \/ (rows[i].out = "recent" /\ rows'[i].out = "old")
  <2>1. rows[i] \in NamedType(minted) /\ (rows[i].name = 0 <=> rows[i] = Vacant)
    BY <1>1 DEF Named
  <2>2. CASE rows'[i] \in {rows[i], Vacant}
    BY <1>2, <2>1, <2>2
  <2>3. CASE rows[i].out = "recent" /\ rows'[i] = [rows[i] EXCEPT !.out = "old"]
    <3>1. /\ rows'[i] \in NamedType(minted) /\ rows'[i].name = rows[i].name
          /\ rows'[i].out = "old" /\ rows[i].out = "recent"
      BY <2>1, <2>3 DEF NamedType, Outs
    <3> QED
      BY <1>2, <2>1, <3>1
  <2> QED
    BY <2>2, <2>3
<1>4. Named(rows', minted)
  <2>1. rows' \in [Ids -> NamedType(minted)]
    BY <1>3
  <2>2. \A i \in Ids : rows'[i].name # 0 => i <= minted
    BY <1>1, <1>3 DEF Named
  <2>3. \A i, j \in Ids : rows'[i].name = rows'[j].name /\ rows'[i].name # 0 => i = j
    BY <1>1, <1>3 DEF Named
  <2> QED
    BY <1>3, <2>1, <2>2, <2>3 DEF Named
<1>5. NamesInv' /\ minted <= minted'
  BY <1>1, <1>4 DEF ClickInv, NamesInv
<1>6. FamiliesInv'
  BY FamiliesKept DEF ClickInv
<1> QED
  BY <1>3, <1>5, <1>6, RowsAged

LEMMA DeletionShown ==
    ASSUME ClickInv,
           \/ \E limit \in {"days ago", "now"} : RemoveOldManualCheckins(limit)
           \/ Tick
    PROVE  ClickInv' /\ ShownStep
<1>1. CASE \E limit \in {"days ago", "now"} : RemoveOldManualCheckins(limit)
  <2>1. rows' = [i \in Ids |-> rows'[i]] /\ \A i \in Ids : rows'[i] \in {rows[i], Vacant}
    BY <1>1 DEF RemoveOldManualCheckins
  <2> QED
    BY <1>1, <2>1, RowsThinned DEF RemoveOldManualCheckins
<1>2. CASE Tick
  <2>1. /\ rows' = [i \in Ids |-> rows'[i]]
        /\ \A i \in Ids : \/ rows'[i] = rows[i]
                          \/ rows[i].out = "recent" /\ rows'[i] = [rows[i] EXCEPT !.out = "old"]
    BY <1>2 DEF Tick
  <2> QED
    BY <1>2, <2>1, RowsThinned DEF Tick
<1> QED
  BY <1>1, <1>2

-----------------------------------------------------------------------------
(* A step that leaves the rows, the requests and the page alone.           *)
LEMMA TransactionShown ==
    ASSUME TableInv, ClickInv, NEW a \in Admins,
           \/ \E s \in Families : BeginTx(a, s)
           \/ QueryChildren(a)
           \/ Rollback(a)
    PROVE  ClickInv' /\ ShownStep
<1> USE DEF ClickInv
<1>1. UNCHANGED <<parent, rows, minted, patches, open, shown, busy, loads, acked>>
  BY DEF BeginTx, QueryChildren, Rollback, table, page
<1>2. /\ asked' \in 0..MaxRequests /\ Cardinality(patches) <= asked'
  <2>1. Cardinality(patches) \in Nat /\ MaxRequests \in Nat
    BY FS_CardinalityType, ManualAssumption DEF CallsInv
  <2>2. asked' = asked \/ (asked < MaxRequests /\ asked' = asked + 1)
    BY DEF BeginTx, QueryChildren, Rollback, Ask
  <2> QED
    BY <2>1, <2>2 DEF CallsInv
<1>3. CallsInv'
  BY <1>1, <1>2 DEF CallsInv, CallOK
<1>4. NamesInv' /\ PageInv' /\ FoundInv' /\ LastInv' /\ AckedInv' /\ ShownStep
  BY <1>1 DEF NamesInv, PageInv, FoundInv, LastInv, AckedInv, ShownStep
<1>5. FamiliesInv'
  <2>1. CASE \E s \in Families : BeginTx(a, s)
    <3>1. PICK s \in Families : BeginTx(a, s)
      BY <2>1
    <3>2. PICK c \in DOMAIN parent : s = parent[c]
      BY DEF Families, Children
    <3>4. s \in 1..MaxFamilies
      <4> DEFINE S == 1..MaxFamilies
      <4>1. parent \in Seq(S)
        BY DEF FamiliesInv
      <4> HIDE DEF S
      <4>2. parent[c] \in S
        BY <4>1
      <4> QED
        BY <3>2, <4>2 DEF S
    <3>3. s \in 0..MaxFamilies
      BY <3>4, ManualAssumption
    <3> QED
      BY <1>1, <3>1, <3>3 DEF BeginTx, FamiliesInv, Idle
  <2>2. CASE QueryChildren(a)
    <3>1. Missing(tx[a].family) \in SUBSET Nat
      BY DEF Missing, Children, FamiliesInv
    <3> QED
      BY <1>1, <2>2, <3>1 DEF QueryChildren, FamiliesInv
  <2>3. CASE Rollback(a)
    BY <1>1, <2>3, FamiliesKept DEF Rollback
  <2> QED
    BY <2>1, <2>2, <2>3
<1> QED
  BY <1>3, <1>4, <1>5

(* No more requests are open than were made: one more has a number free.   *)
LEMMA RequestFresh ==
    ASSUME CallsInv, asked < MaxRequests, NEW n \in 1..minted, minted \in Nat,
           NEW op \in Ops, NEW fromPage \in BOOLEAN, fromPage => op \in {"out", "in"}
    PROVE  LET r == Request(n, op, fromPage)
           IN CallOK(r) /\ r.at = "sent" /\ ~r.last
<1> DEFINE alike == {p \in patches : <<p.name, p.op, p.page>> = <<n, op, fromPage>>}
           S == 1..MaxRequests
           k == CHOOSE i \in S : \A p \in alike : p.num # i
<1>1. MaxRequests \in Nat /\ IsFiniteSet(S) /\ Cardinality(S) = MaxRequests
  BY ManualAssumption, FS_Interval
<1>2. IsFiniteSet(alike) /\ Cardinality(alike) < Cardinality(S)
  <2>1. IsFiniteSet(patches) /\ Cardinality(patches) <= asked /\ asked \in Nat
    BY DEF CallsInv
  <2>2. alike \in SUBSET patches
    OBVIOUS
  <2> HIDE DEF alike, S
  <2>3. IsFiniteSet(alike) /\ Cardinality(alike) <= Cardinality(patches)
    BY <2>1, <2>2, FS_Subset
  <2>4. Cardinality(alike) \in Nat /\ Cardinality(patches) \in Nat
    BY <2>1, <2>3, FS_CardinalityType
  <2> QED
    BY <1>1, <2>1, <2>3, <2>4
<1>3. \E i \in S : \A p \in alike : p.num # i
  <2> SUFFICES ASSUME \A i \in S : \E p \in alike : p.num = i
               PROVE  FALSE
    OBVIOUS
  <2> HIDE DEF S, alike
  <2> DEFINE f == [i \in S |-> CHOOSE p \in alike : p.num = i]
  <2>1. \A i \in S : f[i] \in alike /\ f[i].num = i
    OBVIOUS
  <2>2. f \in [S -> alike]
    BY <2>1
  <2> HIDE DEF f
  <2>3. PICK i, j \in S : i # j /\ f[i] = f[j]
    BY <1>1, <1>2, <2>2, FS_PigeonHole
  <2> QED
    BY <2>1, <2>3
<1>4. k \in S
  BY <1>3
<1>5. Request(n, op, fromPage)
        = [num |-> k, name |-> n, op |-> op, at |-> "sent", id |-> 0,
           page |-> fromPage, node |-> fromPage, last |-> FALSE]
  BY DEF Request
<1> HIDE DEF k
<1>6. k \in Nat /\ n \in Nat /\ k \in 1..MaxRequests
  BY <1>1, <1>4
<1> HIDE DEF S, alike
<1> QED
  BY <1>5, <1>6 DEF CallOK, PatchType, Ops

(* A request is sent: by another device, or by a click on the page.        *)
LEMMA RequestSent ==
    ASSUME ClickInv, Ask, NEW n \in 1..minted, NEW op \in Ops, NEW fromPage \in BOOLEAN,
           fromPage => op \in {"out", "in"},
           patches' = patches \cup {Request(n, op, fromPage)},
           UNCHANGED <<parent, rows, minted, tx, open, shown, loads, acked>>,
           busy' \subseteq {x \in Names : shown[x] # "none"}
    PROVE  ClickInv' /\ ShownStep
<1> USE DEF ClickInv
<1> DEFINE r == Request(n, op, fromPage)
<1>1. asked < MaxRequests /\ asked' = asked + 1 /\ asked \in Nat /\ MaxRequests \in Nat
  BY ManualAssumption DEF Ask, CallsInv
<1>2. CallOK(r) /\ r.at = "sent" /\ ~r.last
  BY <1>1, RequestFresh DEF NamesInv
<1> HIDE DEF r
<1>3. patches' = patches \cup {r}
  BY DEF r
<1>4. IsFiniteSet(patches') /\ Cardinality(patches') <= asked'
  <2>1. IsFiniteSet(patches) /\ Cardinality(patches) \in Nat /\ Cardinality(patches) <= asked
    BY FS_CardinalityType DEF CallsInv
  <2>2. /\ IsFiniteSet(patches \cup {r})
        /\ Cardinality(patches \cup {r}) =
             IF r \in patches THEN Cardinality(patches) ELSE Cardinality(patches) + 1
    BY <2>1, FS_AddElement
  <2>3. Cardinality(patches \cup {r}) <= asked + 1
    BY <1>1, <2>1, <2>2
  <2> QED
    BY <1>1, <1>3, <2>2, <2>3
<1>5. CallsInv'
  BY <1>1, <1>2, <1>3, <1>4 DEF CallsInv, CallOK
<1>6. PageInv' /\ ShownStep
  BY DEF PageInv, ShownStep
<1>7. FoundInv' /\ LastInv'
  BY <1>2, <1>3 DEF FoundInv, LastInv
<1>8. NamesInv' /\ AckedInv' /\ FamiliesInv'
  BY DEF NamesInv, AckedInv, FamiliesInv
<1> QED
  BY <1>5, <1>6, <1>7, <1>8

LEMMA ElsewhereShown ==
    ASSUME ClickInv, NEW n \in Names, NEW op \in Ops, PatchElsewhere(n, op)
    PROVE  ClickInv' /\ ShownStep
<1>1. n \in 1..minted
  BY DEF PatchElsewhere, Names, ClickInv, NamesInv
<1> QED
  BY <1>1, RequestSent DEF PatchElsewhere, table, page, ClickInv, PageInv

-----------------------------------------------------------------------------
(* A request moves on.                                                     *)

(* The image of a finite set is no larger.                                 *)
LEMMA Images ==
    ASSUME NEW P, IsFiniteSet(P), NEW Q, NEW f \in [P -> Q], Q = {f[x] : x \in P}
    PROVE  IsFiniteSet(Q) /\ Cardinality(Q) <= Cardinality(P)
<1>1. \A y \in Q : \E x \in P : f[x] = y
  OBVIOUS
<1>2. f \in Surjection(P, Q)
  BY <1>1 DEF Surjection
<1> QED
  BY <1>2, FS_Surjection

LEMMA MovedCalls ==
    ASSUME IsFiniteSet(patches), NEW p \in patches, NEW q
    PROVE  /\ IsFiniteSet(patches \ {p}) /\ IsFiniteSet((patches \ {p}) \cup {q})
           /\ Cardinality(patches \ {p}) <= Cardinality(patches)
           /\ Cardinality((patches \ {p}) \cup {q}) <= Cardinality(patches)
<1> DEFINE R == patches \ {p}
<1>1. Cardinality(patches) \in Nat
  BY FS_CardinalityType
<1>2. IsFiniteSet(R) /\ Cardinality(R) = Cardinality(patches) - 1
  BY FS_RemoveElement
<1> HIDE DEF R
<1>3. IsFiniteSet(R \cup {q}) /\ Cardinality(R \cup {q})
                = IF q \in R THEN Cardinality(R) ELSE Cardinality(R) + 1
  BY <1>2, FS_AddElement
<1>4. Cardinality(R) <= Cardinality(patches) /\ Cardinality(R \cup {q}) <= Cardinality(patches)
  BY <1>1, <1>2, <1>3
<1> QED
  BY <1>2, <1>3, <1>4 DEF R

LEMMA FindShown ==
    ASSUME ClickInv, NEW p \in patches, FindRow(p)
    PROVE  ClickInv' /\ ShownStep
<1> USE DEF ClickInv
<1>1. PICK i \in Present : /\ rows[i].name = p.name
                           /\ patches' = (patches \ {p}) \cup {[p EXCEPT !.at = "found", !.id = i]}
  BY DEF FindRow, Move
<1> DEFINE q == [p EXCEPT !.at = "found", !.id = i]
<1>2. UNCHANGED <<parent, rows, minted, tx, open, shown, busy, loads, asked, acked>>
  BY DEF FindRow, table, page
<1>3. CallOK(p) /\ p.at = "sent"
  BY DEF CallsInv, FindRow
<1>4. i \in Ids /\ i \in 0..minted /\ i \in Nat /\ p.name # 0
  BY <1>1, <1>3 DEF Present, NamesInv, Named, Ids, CallOK
<1>5. /\ CallOK(q) /\ ~q.last /\ q.name = p.name /\ q.id = i
  BY <1>3, <1>4 DEF CallOK, PatchType
<1>6. patches' = (patches \ {p}) \cup {q}
  BY <1>1
<1> HIDE DEF q
<1>7. CallsInv'
  <2>1. IsFiniteSet(patches') /\ Cardinality(patches') <= Cardinality(patches)
    BY <1>6, MovedCalls DEF CallsInv
  <2>2. Cardinality(patches) \in Nat /\ Cardinality(patches') \in Nat
    BY <2>1, FS_CardinalityType DEF CallsInv
  <2> QED
    BY <1>2, <1>5, <1>6, <2>1, <2>2 DEF CallsInv, CallOK
<1>8. FoundInv'
  <2>1. \A j \in Ids : rows[j].name = q.name => j = q.id
    BY <1>1, <1>4, <1>5 DEF NamesInv, Named
  <2> QED
    BY <1>2, <1>6, <2>1 DEF FoundInv
<1>9. LastInv'
  BY <1>2, <1>5, <1>6 DEF LastInv
<1>10. NamesInv' /\ PageInv' /\ AckedInv' /\ FamiliesInv' /\ ShownStep
  BY <1>2 DEF NamesInv, PageInv, AckedInv, FamiliesInv, ShownStep
<1> QED
  BY <1>7, <1>8, <1>9, <1>10

(* A request is over, with the page told of it or not.                     *)
LEMMA CallOver ==
    ASSUME ClickInv, NEW p \in patches, patches' = patches \ {p},
           UNCHANGED <<parent, rows, minted, tx, asked>>, PageInv', AckedInv', ShownStep
    PROVE  ClickInv' /\ ShownStep
<1> USE DEF ClickInv
<1>1. CallsInv'
  <2>1. IsFiniteSet(patches') /\ Cardinality(patches') <= Cardinality(patches)
    BY MovedCalls DEF CallsInv
  <2>2. Cardinality(patches) \in Nat /\ Cardinality(patches') \in Nat
    BY <2>1, FS_CardinalityType DEF CallsInv
  <2> QED
    BY <2>1, <2>2 DEF CallsInv, CallOK
<1>2. FoundInv' /\ LastInv'
  BY DEF FoundInv, LastInv
<1>3. NamesInv' /\ FamiliesInv'
  BY DEF NamesInv, FamiliesInv
<1> QED
  BY <1>1, <1>2, <1>3

LEMMA RejectedShown ==
    ASSUME ClickInv, NEW p \in patches, PatchNotFound(p) \/ PatchFails(p)
    PROVE  ClickInv' /\ ShownStep
<1>1. /\ patches' = patches \ {p} /\ busy' \subseteq busy
      /\ UNCHANGED <<parent, rows, minted, tx, asked, open, shown, loads, acked>>
  BY DEF PatchNotFound, PatchFails, PatchRejected, table
<1>2. PageInv' /\ AckedInv' /\ ShownStep
  BY <1>1 DEF ClickInv, PageInv, AckedInv, ShownStep
<1> QED
  BY <1>1, <1>2, CallOver

(* The page is told, and forgets what it read before (PatchDone).          *)
LEMMA DoneShown ==
    ASSUME ClickInv, NEW p \in patches, PatchDone(p)
    PROVE  ClickInv' /\ ShownStep
<1> USE DEF ClickInv
<1>1. /\ patches' = patches \ {p} /\ loads' = {NewLoad}
      /\ acked' = IF p.last THEN [acked EXCEPT ![p.name] = p.op] ELSE acked
      /\ UNCHANGED <<parent, rows, minted, tx, asked, open, shown, busy>>
      /\ p.at = "written"
  BY DEF PatchDone, LoadsAnew, table
<1>2. /\ p.op \in {"out", "in"} /\ p.name \in Names /\ p.name <= minted
      /\ minted \in Nat /\ MaxNames \in Nat /\ minted <= MaxNames
  BY <1>1, ManualAssumption DEF CallsInv, CallOK, PatchType, NamesInv, Names
<1>3. /\ NewLoad \in LoadType /\ NewLoad.at = "sent"
      /\ \A n \in Names : NewLoad.answer[n] = "none"
  BY DEF NewLoad, LoadType, Blank, Badges
<1>4. /\ acked' \in [Names -> Badges]
      /\ \A n \in Names : acked'[n] = IF p.last /\ n = p.name THEN p.op ELSE acked[n]
  BY <1>1, <1>2 DEF PageInv, Badges
<1>5. PageInv' /\ ShownStep
  BY <1>1, <1>3, <1>4 DEF PageInv, ShownStep
<1>6. AckedInv'
  <2> SUFFICES ASSUME NEW n \in Names, acked'[n] # "none"
               PROVE  /\ n <= minted
                      /\ \A i \in Ids : rows[i].name = n => Agrees(rows[i].out, acked'[n])
    BY <1>1, <1>3 DEF AckedInv
  <2>1. CASE p.last /\ n = p.name
    BY <1>2, <1>4, <2>1 DEF LastInv
  <2>2. CASE ~(p.last /\ n = p.name)
    BY <1>4, <2>2 DEF AckedInv
  <2> QED
    BY <2>1, <2>2
<1> QED
  BY <1>1, <1>5, <1>6, CallOver

(* The request is written: from here on it is the last to have moved the   *)
(* row at its id, which need not be of the name it was sent for, as ids    *)
(* come back.                                                              *)
LEMMA WriteShown ==
    ASSUME ClickInv, NEW p \in patches, WriteRow(p)
    PROVE  ClickInv' /\ ShownStep
<1> USE DEF ClickInv
<1> DEFINE hit == rows[p.id].name
           moves == p.op \in {"out", "in"}
           new == Patched(rows[p.id], p.op)
           told(q) == IF moves /\ q.name = hit THEN [q EXCEPT !.last = FALSE] ELSE q
           rest == {told(q) : q \in patches \ {p}}
           done == [p EXCEPT !.at = "written", !.last = TRUE]
<1>1. /\ p.at = "found" /\ p.id \in Ids /\ hit # 0
      /\ rows' = [rows EXCEPT ![p.id] = new]
      /\ patches' = rest \cup (IF p.page THEN {done} ELSE {})
      /\ acked' = IF moves THEN [acked EXCEPT ![hit] = "none"] ELSE acked
      /\ UNCHANGED <<parent, minted, tx, open, shown, busy, loads, asked>>
  BY DEF WriteRow, page, Present, NamesInv, Named
<1>2. CallOK(p)
  BY DEF CallsInv
<1>3. /\ minted \in Nat /\ Named(rows, minted) /\ minted <= MaxNames
  BY ManualAssumption DEF NamesInv
<1>4. rows[p.id] \in NamedType(minted) /\ hit \in 1..minted /\ hit \in Names
  BY <1>1, <1>3, ManualAssumption DEF Named, NamedType, Names
<1>5. /\ new \in NamedType(minted) /\ new.name = hit /\ new # Vacant
      /\ p.op \in {"confirm", "unconfirm"} => new.out = rows[p.id].out
      /\ moves => Agrees(new.out, p.op)
      /\ ~moves => p.op \in {"confirm", "unconfirm"}
  <2>1. p.op \in Ops
    BY <1>2 DEF CallOK, PatchType
  <2>2. new \in NamedType(minted) /\ new.name = hit
    BY <1>4, <2>1 DEF Patched, NamedType, Ops, Outs
  <2>3. Vacant.name = 0
    BY DEF Vacant, Row
  <2>4. /\ p.op \in {"confirm", "unconfirm"} => new.out = rows[p.id].out
        /\ moves => Agrees(new.out, p.op)
    BY <1>4, <2>1 DEF Patched, NamedType, Ops, Agrees
  <2> QED
    BY <1>1, <2>1, <2>2, <2>3, <2>4 DEF Ops
<1> HIDE DEF new
<1>6. \A i \in Ids : /\ rows'[i] = IF i = p.id THEN new ELSE rows[i]
                     /\ rows'[i].name = rows[i].name
  BY <1>1, <1>3, <1>5 DEF Named
<1>7. NamesInv'
  <2>1. rows' \in [Ids -> NamedType(minted)]
    BY <1>1, <1>3, <1>5 DEF Named
  <2>2. \A i \in Ids : rows'[i].name = 0 <=> rows'[i] = Vacant
    BY <1>1, <1>3, <1>5, <1>6 DEF Named
  <2>3. Named(rows', minted)
    BY <1>3, <1>6, <2>1, <2>2 DEF Named
  <2> QED
    BY <1>1, <2>3 DEF NamesInv
<1>8. \A q \in patches \ {p} :
        /\ CallOK(told(q)) /\ told(q).at = q.at /\ told(q).name = q.name
        /\ told(q).id = q.id /\ told(q).op = q.op
        /\ told(q).last => q.last /\ ~(moves /\ q.name = hit)
  BY DEF CallsInv, CallOK, PatchType
<1>9. p.page => /\ CallOK(done) /\ done.at = "written" /\ done.name = p.name
                /\ done.op = p.op /\ moves
  BY <1>2 DEF CallOK, PatchType
<1>10. IsFiniteSet(patches') /\ Cardinality(patches') <= asked'
  <2> DEFINE P == patches \ {p}
             f == [q \in P |-> told(q)]
  <2>1. f \in [P -> rest] /\ rest = {f[q] : q \in P}
    OBVIOUS
  <2>2. /\ IsFiniteSet(P) /\ Cardinality(P) = Cardinality(patches) - 1
        /\ Cardinality(patches) \in Nat /\ Cardinality(patches) <= asked
    BY FS_RemoveElement, FS_CardinalityType DEF CallsInv
  <2> HIDE DEF P, f, rest, done
  <2>3. IsFiniteSet(rest) /\ Cardinality(rest) <= Cardinality(P)
    BY <2>1, <2>2, Images
  <2>4. Cardinality(rest) \in Nat /\ Cardinality(P) \in Nat
    BY <2>2, <2>3, FS_CardinalityType
  <2>5. IsFiniteSet(rest \cup {done})
        /\ Cardinality(rest \cup {done})
             = IF done \in rest THEN Cardinality(rest) ELSE Cardinality(rest) + 1
    BY <2>3, FS_AddElement
  <2>6. asked' = asked /\ asked \in Nat
    BY <1>1 DEF CallsInv
  <2>7. CASE p.page
    <3>1. patches' = rest \cup {done}
      BY <1>1, <2>7
    <3> QED
      BY <2>2, <2>3, <2>4, <2>5, <2>6, <3>1
  <2>8. CASE ~p.page
    <3>1. patches' = rest
      BY <1>1, <2>8
    <3> QED
      BY <2>2, <2>3, <2>4, <2>6, <3>1
  <2> QED
    BY <2>7, <2>8
<1> HIDE DEF done, told
<1>11. \A q \in patches' : \/ \E r \in patches \ {p} : q = told(r)
                           \/ p.page /\ q = done
  BY <1>1
<1> HIDE DEF rest
<1>12. CallsInv'
  <2>1. \A q \in patches' : CallOK(q)
    BY <1>8, <1>9, <1>11
  <2> QED
    BY <1>1, <1>10, <2>1 DEF CallsInv, CallOK
<1>13. FoundInv'
  BY <1>6, <1>8, <1>9, <1>11 DEF FoundInv
<1>14. LastInv'
  <2> SUFFICES ASSUME NEW q \in patches', q.last, NEW i \in Ids, rows[i].name = q.name
               PROVE  Agrees(rows'[i].out, q.op)
    BY <1>6 DEF LastInv
  <2>1. CASE \E r \in patches \ {p} : q = told(r)
    <3>1. PICK r \in patches \ {p} : q = told(r)
      BY <2>1
    <3>2. Agrees(rows[i].out, r.op) /\ q.op = r.op /\ q.name = r.name
          /\ ~(moves /\ r.name = hit)
      BY <1>8, <3>1 DEF LastInv
    <3>3. i = p.id => rows'[i].out = rows[i].out
      BY <1>5, <1>6, <3>2
    <3> QED
      BY <1>6, <3>2, <3>3
  <2>2. CASE p.page /\ q = done
    <3>1. q.name = p.name /\ q.op = p.op /\ moves
      BY <1>9, <2>2
    <3>2. i = p.id
      BY <1>1, <3>1 DEF FoundInv
    <3> QED
      BY <1>5, <1>6, <3>1, <3>2
  <2> QED
    BY <1>11, <2>1, <2>2
<1>15. /\ acked' \in [Names -> Badges]
       /\ \A n \in Names : acked'[n] = IF moves /\ n = hit THEN "none" ELSE acked[n]
  BY <1>1, <1>4 DEF PageInv, Badges
<1>16. PageInv' /\ ShownStep
  BY <1>1, <1>15 DEF PageInv, ShownStep
<1>17. AckedInv'
  <2> SUFFICES ASSUME NEW n \in Names, acked'[n] # "none"
               PROVE  /\ n <= minted
                      /\ \A i \in Ids : rows[i].name = n => Agrees(rows'[i].out, acked[n])
                      /\ \A l \in loads : l.at = "read" => l.answer[n] \in {"none", acked[n]}
    BY <1>1, <1>6, <1>15 DEF AckedInv
  <2>1. acked[n] # "none" /\ ~(moves /\ n = hit)
    BY <1>15
  <2>2. ASSUME NEW i \in Ids, rows[i].name = n
        PROVE  rows'[i].out = rows[i].out
    BY <1>5, <1>6, <2>1, <2>2
  <2> QED
    BY <2>1, <2>2 DEF AckedInv
<1>18. FamiliesInv'
  BY <1>1 DEF FamiliesInv
<1> QED
  BY <1>7, <1>12, <1>13, <1>14, <1>16, <1>17, <1>18

-----------------------------------------------------------------------------
(* The page.                                                               *)

(* A load is started, and whatever was on its way is aborted.              *)
LEMMA AnewShown ==
    ASSUME ClickInv, OpenPage \/ Poll
    PROVE  ClickInv' /\ ShownStep
<1> USE DEF ClickInv
<1>1. /\ loads' = {NewLoad} /\ open' \in BOOLEAN
      /\ asked' = asked \/ (asked < MaxRequests /\ asked' = asked + 1)
      /\ UNCHANGED <<parent, rows, minted, tx, patches, shown, busy, acked>>
  BY DEF OpenPage, Poll, LoadsAnew, table, Ask, PageInv
<1>2. /\ NewLoad \in LoadType /\ NewLoad.at = "sent"
      /\ \A n \in Names : NewLoad.answer[n] = "none"
  BY DEF NewLoad, LoadType, Blank, Badges
<1>3. PageInv' /\ ShownStep
  BY <1>1, <1>2 DEF PageInv, ShownStep
<1>4. AckedInv'
  BY <1>1, <1>2 DEF AckedInv
<1>5. CallsInv'
  <2>1. Cardinality(patches) \in Nat /\ MaxRequests \in Nat
    BY FS_CardinalityType, ManualAssumption DEF CallsInv
  <2>2. asked' \in 0..MaxRequests /\ Cardinality(patches) <= asked'
    BY <1>1, <2>1 DEF CallsInv
  <2> QED
    BY <1>1, <2>2 DEF CallsInv, CallOK
<1>6. NamesInv' /\ FoundInv' /\ LastInv' /\ FamiliesInv'
  BY <1>1 DEF NamesInv, FoundInv, LastInv, FamiliesInv
<1> QED
  BY <1>3, <1>4, <1>5, <1>6

(* What the table says of a row is what the page was told of it.           *)
LEMMA ListShown ==
    ASSUME ClickInv, ListManualCheckins
    PROVE  ClickInv' /\ ShownStep
<1> USE DEF ClickInv
<1> DEFINE read == [at |-> "read", answer |-> Listing]
<1>1. /\ \E l \in loads : loads' = (loads \ {l}) \cup {read}
      /\ UNCHANGED <<parent, rows, minted, tx, patches, open, shown, busy, asked, acked>>
  BY DEF ListManualCheckins, table
<1>2. Listing \in [Names -> Badges]
  BY DEF Listing, Badges
<1>3. read \in LoadType /\ read.at = "read" /\ read.answer = Listing
  BY <1>2 DEF LoadType
<1> HIDE DEF read
<1>4. ASSUME NEW n \in Names, Listing[n] # "none"
      PROVE  \E i \in Present : /\ rows[i].name = n
                                /\ Listing[n] = "in" => rows[i].out = "no"
                                /\ Listing[n] = "out" => rows[i].out = "recent"
                                /\ Listing[n] \in {"in", "out"}
  BY <1>4 DEF Listing
<1>5. \A n \in Names : Listing[n] # "none" => n <= minted
  BY <1>4 DEF NamesInv, Named, NamedType, Present
<1>6. ASSUME NEW n \in Names, acked[n] # "none"
      PROVE  Listing[n] \in {"none", acked[n]}
  <2> SUFFICES ASSUME Listing[n] # "none" PROVE Listing[n] = acked[n]
    OBVIOUS
  <2>1. PICK i \in Present : /\ rows[i].name = n
                             /\ Listing[n] = "in" => rows[i].out = "no"
                             /\ Listing[n] = "out" => rows[i].out = "recent"
                             /\ Listing[n] \in {"in", "out"}
    BY <1>4
  <2>2. Agrees(rows[i].out, acked[n]) /\ acked[n] \in {"in", "out"}
    BY <1>6, <2>1 DEF AckedInv, Present, PageInv, Badges
  <2> QED
    BY <2>1, <2>2 DEF Agrees
<1>7. PageInv' /\ ShownStep
  BY <1>1, <1>3, <1>5 DEF PageInv, ShownStep
<1>8. AckedInv'
  BY <1>1, <1>3, <1>6 DEF AckedInv
<1>9. NamesInv' /\ CallsInv' /\ FoundInv' /\ LastInv' /\ FamiliesInv'
  BY <1>1 DEF NamesInv, CallsInv, CallOK, FoundInv, LastInv, FamiliesInv
<1> QED
  BY <1>7, <1>8, <1>9

(* The table is drawn, of what a load read or of nothing.                  *)
LEMMA DrawShown ==
    ASSUME ClickInv, RenderManualCheckins \/ LoadFails
    PROVE  ClickInv' /\ ShownStep
<1> USE DEF ClickInv
<1>1. PICK l \in loads :
        /\ loads' = loads \ {l} /\ busy' = {}
        /\ patches' = {[p EXCEPT !.node = FALSE] : p \in patches}
        /\ (l.at = "read" /\ shown' = l.answer) \/ shown' = Blank
        /\ UNCHANGED <<parent, rows, minted, tx, open, asked, acked>>
  BY DEF RenderManualCheckins, LoadFails, Draw, table
<1>2. Blank \in [Names -> Badges] /\ \A n \in Names : Blank[n] = "none"
  BY DEF Blank, Badges
<1>3. PageInv'
  BY <1>1, <1>2 DEF PageInv, LoadType
<1>4. ShownStep
  BY <1>1, <1>2 DEF ShownStep, AckedInv
<1>5. AckedInv'
  BY <1>1 DEF AckedInv
<1> DEFINE f == [p \in patches |-> [p EXCEPT !.node = FALSE]]
<1>6. IsFiniteSet(patches') /\ Cardinality(patches') <= asked'
  <2>1. f \in [patches -> patches'] /\ patches' = {f[p] : p \in patches}
    BY <1>1
  <2>2. IsFiniteSet(patches') /\ Cardinality(patches') <= Cardinality(patches)
    <3> HIDE DEF f
    <3> QED
      BY <2>1, Images DEF CallsInv
  <2>3. Cardinality(patches) \in Nat /\ Cardinality(patches') \in Nat
    BY <2>2, FS_CardinalityType DEF CallsInv
  <2> QED
    BY <1>1, <2>2, <2>3 DEF CallsInv
<1>7. \A q \in patches' : \E p \in patches :
        /\ CallOK(p) /\ CallOK(q) /\ q.at = p.at /\ q.name = p.name
        /\ q.id = p.id /\ q.op = p.op /\ q.last = p.last
  <2>1. \A p \in patches : CallOK(p)
    BY DEF CallsInv
  <2>2. ASSUME NEW p \in patches, NEW q, q = [p EXCEPT !.node = FALSE]
        PROVE  /\ CallOK(q) /\ q.at = p.at /\ q.name = p.name
               /\ q.id = p.id /\ q.op = p.op /\ q.last = p.last
    BY <2>1, <2>2 DEF CallOK, PatchType
  <2> QED
    BY <1>1, <2>1, <2>2
<1>8. CallsInv'
  <2>1. \A q \in patches' : CallOK(q)
    BY <1>7
  <2> QED
    BY <1>1, <1>6, <2>1 DEF CallsInv, CallOK
<1>9. FoundInv' /\ LastInv'
  BY <1>1, <1>7 DEF FoundInv, LastInv
<1>10. NamesInv' /\ FamiliesInv'
  BY <1>1 DEF NamesInv, FamiliesInv
<1> QED
  BY <1>3, <1>4, <1>5, <1>8, <1>9, <1>10

(* A button can be clicked for a row the page shows.                       *)
LEMMA ClickShown ==
    ASSUME ClickInv, NEW n \in Names, Click(n)
    PROVE  ClickInv' /\ ShownStep
<1> DEFINE op == IF shown[n] = "in" THEN "out" ELSE "in"
<1>1. op \in {"out", "in"} /\ op \in Ops
  BY DEF Ops
<1>2. n \in 1..minted
  BY DEF Click, ClickInv, PageInv, Names, NamesInv
<1>3. /\ patches' = patches \cup {Request(n, op, TRUE)} /\ Ask
      /\ busy' \subseteq {x \in Names : shown[x] # "none"}
      /\ UNCHANGED <<parent, rows, minted, tx, open, shown, loads, acked>>
  BY DEF Click, table, ClickInv, PageInv
<1> HIDE DEF op
<1> QED
  BY <1>1, <1>2, <1>3, RequestSent

-----------------------------------------------------------------------------
LEMMA ClickInit == Init => ClickInv
<1> SUFFICES ASSUME Init PROVE ClickInv
  OBVIOUS
<1> USE DEF Init, Vacant, Row, Idle, Blank, ManualAssumption
<1>1. /\ 0 \in 0..MaxNames /\ 0 \in 0..MaxRequests /\ 0 \in 0..MaxFamilies
      /\ IsFiniteSet({}) /\ Cardinality({}) = 0
  BY ManualAssumption, FS_EmptySet
<1>2. NamesInv
  BY <1>1 DEF NamesInv, Named, NamedType, Outs
<1>3. CallsInv /\ FoundInv /\ LastInv
  BY <1>1 DEF CallsInv, FoundInv, LastInv
<1>4. PageInv /\ AckedInv
  BY DEF PageInv, AckedInv, Badges
<1>5. FamiliesInv
  BY <1>1 DEF FamiliesInv
<1> QED
  BY <1>2, <1>3, <1>4, <1>5 DEF ClickInv

LEMMA StutterShown ==
    ASSUME ClickInv, UNCHANGED vars
    PROVE  ClickInv' /\ ShownStep
<1>1. UNCHANGED <<parent, rows, minted, tx, patches, open, shown, busy, loads, asked, acked>>
  BY DEF vars, table, page
<1> QED
  BY <1>1 DEF ClickInv, NamesInv, CallsInv, CallOK, PageInv, FoundInv, LastInv, AckedInv,
              FamiliesInv, ShownStep

LEMMA StepShown ==
    ASSUME TableInv, ClickInv, [Next]_vars
    PROVE  ClickInv' /\ ShownStep
<1>1. CASE Writes
  BY <1>1, SubmissionShown, WalkinShown, TransactionShown, InsertShown, DeletionShown
     DEF Writes
<1>2. CASE Requests
  BY <1>2, ElsewhereShown, FindShown, WriteShown, RejectedShown, DoneShown
     DEF Requests, Ops
<1>3. CASE Page
  BY <1>3, AnewShown, ListShown, DrawShown, ClickShown DEF Page
<1> QED
  BY <1>1, <1>2, <1>3, StutterShown DEF Next

(* The invariant of the page and its requests, for every value of the      *)
(* constants.                                                              *)
THEOREM ClickInvariant == Spec => []ClickInv
<1>1. ClickInv /\ TableInv /\ [Next]_vars => ClickInv'
  BY StepShown
<1> QED
  BY <1>1, ClickInit, TableInvariant, PTL DEF Spec

(* What the page was told of its own PATCH is not taken back by a load     *)
(* (loadManualCheckins), whatever else is on its way.                      *)
THEOREM ClicksStay == Spec => ClickStays
<1>1. TableInv /\ ClickInv /\ [Next]_vars
        => [\A n \in Names : shown'[n] # shown[n] /\ acked[n] # "none"
                               => shown'[n] \in {"none", acked[n]}]_vars
  BY StepShown DEF ShownStep
<1> QED
  BY <1>1, TableInvariant, ClickInvariant, PTL DEF Spec, ClickStays

(* Every variable keeps its type; ids and names in use were handed out.    *)
THEOREM ManualTypes == Spec => []TypeOK
<1>1. TableInv /\ ClickInv => TypeOK
  <2> SUFFICES ASSUME TableInv, ClickInv PROVE TypeOK
    OBVIOUS
  <2> USE DEF ClickInv
  <2>1. /\ rows \in [Ids -> [name : 0..minted, child : 0..Len(parent),
                             out : Outs, confirmed : BOOLEAN]]
        /\ \A i \in Ids : (rows[i].name = 0) <=> (rows[i] = Vacant)
        /\ \A i, j \in Present : rows[i].name = rows[j].name => i = j
        /\ \A i \in Present : i <= minted
    <3>1. \A i \in Ids : rows[i].child \in 0..Len(parent)
      BY DEF TableInv, ChildrenKnown
    <3>2. Named(rows, minted)
      BY DEF NamesInv
    <3>3. rows \in [Ids -> [name : 0..minted, child : 0..Len(parent),
                            out : Outs, confirmed : BOOLEAN]]
      BY <3>1, <3>2 DEF Named, NamedType
    <3> QED
      BY <3>2, <3>3 DEF Named, Present
  <2>2. tx \in [Admins -> [at : {"idle", "begun", "queried"},
                           family : 0..MaxFamilies, todo : SUBSET Children]]
    <3>1. Children = 1..Len(parent)
      BY DEF Children, FamiliesInv
    <3>2. \A a \in Admins : tx[a].todo \subseteq Children
      BY <3>1 DEF TableInv, TransactionAlone
    <3> QED
      BY <3>2 DEF FamiliesInv
  <2>3. \A p \in patches :
          /\ p.num \in 1..MaxRequests /\ p.name \in 1..minted
          /\ p.op \in {"out", "in", "confirm", "unconfirm"}
          /\ p.at \in {"sent", "found", "written"} /\ p.id \in 0..minted
          /\ {p.page, p.node, p.last} \subseteq BOOLEAN
    BY DEF CallsInv, CallOK, PatchType, Ops
  <2>4. \A l \in loads : l.at \in {"sent", "read"} /\ l.answer \in [Names -> Badges]
    BY DEF PageInv, LoadType
  <2> QED
    BY <2>1, <2>2, <2>3, <2>4 DEF TypeOK, FamiliesInv, NamesInv, CallsInv, PageInv
<1> QED
  BY <1>1, TableInvariant, ClickInvariant, PTL

=============================================================================
