------------------------ MODULE CheckoutsBoardProofs ------------------------
(***************************************************************************)
(* What CheckoutsBoard promises of one board, for any number of children,  *)
(* clicks, polls, failures and changes on other devices: its variables     *)
(* keep their types, a first click stays on screen (FirstClickHolds) and   *)
(* an open drawer holds its rows steady (DrawerSteady).                    *)
(*                                                                         *)
(* The first section counts: that Nth enumerates a set, newest first,      *)
(* rests on the pigeonhole principle alone.  The second says what drawing  *)
(* does to a list, the others take the inductive invariant BoardInv part   *)
(* by part.                                                                *)
(***************************************************************************)
EXTENDS CheckoutsBoard, FiniteSetTheorems, TLAPS

-----------------------------------------------------------------------------
(* Counting.                                                               *)

Above(S, c) == {k \in S : k > c}

LEMMA FiniteChildren ==
    ASSUME NEW S, S \subseteq Children
    PROVE  IsFiniteSet(S) /\ Cardinality(S) \in Nat /\ Cardinality(S) <= N
<1>1. N \in Nat
  BY BoardAssumption
<1>2. IsFiniteSet(1..N) /\ Cardinality(1..N) = N
  BY <1>1, FS_Interval
<1>3. IsFiniteSet(S) /\ Cardinality(S) <= N
  BY <1>2, FS_Subset DEF Children
<1> QED
  BY <1>1, <1>3, FS_CardinalityType

(* Of two members, the larger has fewer members above it.                  *)
LEMMA FewerAbove ==
    ASSUME NEW S, S \subseteq Children, NEW a \in S, NEW b \in S, a < b
    PROVE  Cardinality(Above(S, b)) < Cardinality(Above(S, a))
<1> DEFINE A == Above(S, a)
           B == Above(S, b)
<1>1. S \subseteq Int
  BY BoardAssumption DEF Children
<1>2. B \subseteq A /\ b \in A /\ b \notin B
  <2>1. a \in Int /\ b \in Int /\ \A k \in S : k \in Int
    BY <1>1
  <2>2. \A k \in S : k > b => k > a
    BY <2>1
  <2>3. b > a /\ ~(b > b)
    BY <2>1
  <2> QED
    BY <2>2, <2>3 DEF Above
<1>3. A \subseteq Children
  BY DEF Above
<1>4. IsFiniteSet(A) /\ Cardinality(A) \in Nat
  BY <1>3, FiniteChildren
<1>5. IsFiniteSet(B) /\ Cardinality(B) \in Nat
  BY <1>2, <1>3, FiniteChildren
<1> HIDE DEF A, B
<1>6. B \in SUBSET A /\ A # B
  BY <1>2
<1>7. Cardinality(B) <= Cardinality(A) /\ Cardinality(A) # Cardinality(B)
  BY <1>4, <1>6, FS_Subset
<1>8. Cardinality(B) < Cardinality(A)
  BY <1>4, <1>5, <1>7
<1> QED
  BY <1>8 DEF A, B

LEMMA AboveBound ==
    ASSUME NEW S, S \subseteq Children, NEW c \in S
    PROVE  Cardinality(Above(S, c)) \in 0..(Cardinality(S) - 1)
<1> DEFINE A == Above(S, c)
<1>1. S \subseteq Int
  BY BoardAssumption DEF Children
<1>2. A \subseteq S \ {c} /\ A \subseteq Children
  <2>1. ~(c > c)
    BY <1>1
  <2> QED
    BY <2>1 DEF Above
<1>3. IsFiniteSet(A) /\ Cardinality(A) \in Nat
  BY <1>2, FiniteChildren
<1>4. IsFiniteSet(S) /\ Cardinality(S) \in Nat
  BY FiniteChildren
<1>5. IsFiniteSet(S \ {c}) /\ Cardinality(S \ {c}) = Cardinality(S) - 1
  BY <1>4, FS_RemoveElement
<1> HIDE DEF A
<1>6. Cardinality(A) <= Cardinality(S) - 1
  BY <1>2, <1>5, FS_Subset
<1>7. Cardinality(A) \in 0..(Cardinality(S) - 1)
  BY <1>3, <1>4, <1>6
<1> QED
  BY <1>7 DEF A

(* There is an nth newest child: otherwise the counts of the children      *)
(* above each would be too few to tell them apart.                         *)
LEMMA NthIs ==
    ASSUME NEW S, S \subseteq Children, NEW p \in 1..Cardinality(S)
    PROVE  Nth(S, p) \in S /\ Cardinality(Above(S, Nth(S, p))) = p - 1
<1> DEFINE n == Cardinality(S)
<1>1. IsFiniteSet(S) /\ n \in Nat
  BY FiniteChildren
<1>2. S \subseteq Int
  BY BoardAssumption DEF Children
<1>3. \E c \in S : Cardinality(Above(S, c)) = p - 1
  <2> SUFFICES ASSUME \A c \in S : Cardinality(Above(S, c)) # p - 1
               PROVE  FALSE
    OBVIOUS
  <2> DEFINE T == (0..(n - 1)) \ {p - 1}
             f == [c \in S |-> Cardinality(Above(S, c))]
  <2> HIDE DEF n
  <2>1. IsFiniteSet(0..(n - 1)) /\ Cardinality(0..(n - 1)) = n
    BY <1>1, FS_Interval
  <2>2. p - 1 \in 0..(n - 1)
    BY <1>1 DEF n
  <2>3. IsFiniteSet(T) /\ Cardinality(T) = n - 1
    BY <2>1, <2>2, FS_RemoveElement
  <2>4. f \in [S -> T]
    BY AboveBound DEF n
  <2>5. Cardinality(T) < Cardinality(S)
    BY <1>1, <2>3 DEF n
  <2> HIDE DEF T
  <2>6. PICK x, y \in S : x # y /\ f[x] = f[y]
    <3> HIDE DEF f
    <3> QED
      BY <1>1, <2>3, <2>4, <2>5, FS_PigeonHole
  <2>7. f[x] \in T /\ T \subseteq Int
    BY <2>4 DEF T
  <2>8. x < y \/ y < x
    BY <1>2, <2>6
  <2>9. f[x] < f[y] \/ f[y] < f[x]
    BY <2>8, FewerAbove
  <2> HIDE DEF f
  <2>10. f[x] \in Int /\ f[x] = f[y]
    BY <2>6, <2>7
  <2> QED
    BY <2>9, <2>10
<1> QED
  BY <1>3 DEF Nth, Above

LEMMA NthDescends ==
    ASSUME NEW S, S \subseteq Children, NEW p \in 1..Cardinality(S),
           NEW q \in 1..Cardinality(S), p < q
    PROVE  Nth(S, p) > Nth(S, q)
<1> DEFINE a == Nth(S, p)
           b == Nth(S, q)
<1>1. a \in S /\ b \in S
  BY NthIs
<1>2. Cardinality(Above(S, a)) = p - 1 /\ Cardinality(Above(S, b)) = q - 1
  BY NthIs
<1> HIDE DEF a, b
<1>0. S \subseteq Int
  BY BoardAssumption DEF Children
<1>3. a \in Int /\ b \in Int
  BY <1>0, <1>1
<1>4. ASSUME a < b PROVE FALSE
  BY <1>1, <1>2, <1>4, FewerAbove
<1>5. a # b
  BY <1>2
<1> QED
  BY <1>3, <1>4, <1>5 DEF a, b

LEMMA NthCovers ==
    ASSUME NEW S, S \subseteq Children, NEW c \in S
    PROVE  \E p \in 1..Cardinality(S) : Nth(S, p) = c
<1> DEFINE p == Cardinality(Above(S, c)) + 1
           d == Nth(S, p)
<1>1. Cardinality(S) \in Nat
  BY FiniteChildren
<1>2. Cardinality(Above(S, c)) \in 0..(Cardinality(S) - 1)
  BY AboveBound
<1>3. p \in 1..Cardinality(S) /\ Cardinality(Above(S, c)) = p - 1
  BY <1>1, <1>2
<1> HIDE DEF p
<1>4. d \in S /\ Cardinality(Above(S, d)) = p - 1
  BY <1>3, NthIs
<1> HIDE DEF d
<1>0. S \subseteq Int
  BY BoardAssumption DEF Children
<1>5. c \in Int /\ d \in Int
  BY <1>0, <1>4
<1>6. ~(c < d) /\ ~(d < c)
  BY <1>2, <1>3, <1>4, FewerAbove
<1>7. c = d
  BY <1>5, <1>6
<1> QED
  BY <1>3, <1>7 DEF d

-----------------------------------------------------------------------------
(* Drawing.                                                                *)

Node == [child : Children, box : Flags, label : Flags, busy : BOOLEAN]

Drawers == [open : BOOLEAN, rows : Seq(Node), sig : SUBSET (Children \X Flags),
            rendered : SUBSET Children, retained : SUBSET Children]

Calls == [id : Nat, child : Children, value : Flags, prev : Flags,
          list : {"main", "drawer", "none"}, node : 0..N,
          stage : {"sent", "applied", "failed"}]

Overrides == [Children -> Flags \cup {"none"}]

Descending(rows) ==
    \A i, j \in DOMAIN rows : i < j => rows[i].child > rows[j].child

(* A drawer whose rows are those its signature was built from, newest      *)
(* first, and which shows, while open, exactly the ids it calls rendered.  *)
DrawerOK(w) ==
    /\ w \in Drawers /\ Len(w.rows) <= N
    /\ Shows(w.rows) = {s[1] : s \in w.sig}
    /\ \A s, t \in w.sig : s[1] = t[1] => s = t
    /\ Descending(w.rows)
    /\ w.open => w.rendered = Shows(w.rows)
    /\ w.retained \subseteq w.rendered

(* Every PATCH of P holds a node of a list of m or k rows, or none.        *)
Held(P, m, k) ==
    \A q \in P : \/ q.list = "main" /\ q.node \in 1..m
                 \/ q.list = "drawer" /\ q.node \in 1..k
                 \/ q.list = "none" /\ q.node = 0

LEMMA ShownFlag ==
    ASSUME NEW d \in [Children -> States], NEW o \in Overrides, NEW c \in Listed(d)
    PROVE  d[c] \in Flags /\ Shown(c, d, o) \in Flags
BY DEF Listed, Shown, States, Flags, Overrides

LEMMA RowsDrawn ==
    ASSUME NEW S, S \subseteq Children, NEW flag, \A c \in S : flag[c] \in Flags
    PROVE  /\ Rows(S, flag) \in Seq(Node) /\ Len(Rows(S, flag)) <= N
           /\ Shows(Rows(S, flag)) = S
           /\ Descending(Rows(S, flag))
<1> DEFINE n == Cardinality(S)
           r == Rows(S, flag)
<1>1. n \in Nat /\ n <= N
  BY FiniteChildren
<1> HIDE DEF n
<1>2. r = [p \in 1..n |-> [child |-> Nth(S, p), box |-> flag[Nth(S, p)],
                           label |-> flag[Nth(S, p)], busy |-> FALSE]]
  BY DEF Rows, n
<1>3. \A p \in 1..n : Nth(S, p) \in S
  BY NthIs DEF n
<1> HIDE DEF r
<1>4. \A p \in 1..n : r[p] \in Node /\ r[p].child = Nth(S, p)
  BY <1>2, <1>3 DEF Node
<1>5. DOMAIN r = 1..n
  BY <1>2
<1>6. r \in [1..n -> Node]
  BY <1>2, <1>4, <1>5
<1>7. r \in Seq(Node) /\ Len(r) = n
  BY <1>1, <1>6
<1>8. Shows(r) = S
  <2>1. Shows(r) \subseteq S
    BY <1>3, <1>4, <1>5 DEF Shows
  <2>2. ASSUME NEW c \in S PROVE c \in Shows(r)
    <3>1. PICK p \in 1..n : Nth(S, p) = c
      BY NthCovers DEF n
    <3> QED
      BY <1>4, <1>5, <3>1 DEF Shows
  <2> QED
    BY <2>1, <2>2
<1>9. Descending(r)
  <2>1. \A i, j \in 1..n : i < j => Nth(S, i) > Nth(S, j)
    BY NthDescends DEF n
  <2> QED
    BY <1>4, <1>5, <2>1 DEF Descending
<1> QED
  BY <1>1, <1>7, <1>8, <1>9 DEF r

LEMMA SyncedKeeps ==
    ASSUME NEW rows \in Seq(Node), NEW d \in [Children -> States], NEW o \in Overrides
    PROVE  /\ Synced(rows, d, o) \in Seq(Node)
           /\ Len(Synced(rows, d, o)) = Len(rows)
           /\ DOMAIN Synced(rows, d, o) = DOMAIN rows
           /\ \A p \in DOMAIN rows : Synced(rows, d, o)[p].child = rows[p].child
<1> DEFINE s == Synced(rows, d, o)
<1>1. DOMAIN rows = 1..Len(rows) /\ Len(rows) \in Nat
  OBVIOUS
<1>2. ASSUME NEW p \in DOMAIN rows
      PROVE  s[p] \in Node /\ s[p].child = rows[p].child
  <2>1. rows[p] \in Node
    BY <1>1
  <2>2. CASE rows[p].child \in Listed(d)
    <3> DEFINE b == Shown(rows[p].child, d, o)
    <3>1. b \in Flags
      BY <2>2, ShownFlag
    <3>2. s[p] = [rows[p] EXCEPT !.box = b, !.label = b]
      BY <2>2 DEF Synced
    <3> HIDE DEF b, s
    <3> QED
      BY <2>1, <3>1, <3>2 DEF Node
  <2>3. CASE rows[p].child \notin Listed(d)
    BY <2>1, <2>3 DEF Synced
  <2> QED
    BY <2>2, <2>3
<1>3. DOMAIN s = DOMAIN rows
  BY DEF Synced
<1>4. s = [p \in DOMAIN rows |-> s[p]]
  BY DEF Synced
<1> HIDE DEF s
<1>5. s \in [1..Len(rows) -> Node]
  BY <1>1, <1>2, <1>3, <1>4
<1>6. s \in Seq(Node) /\ Len(s) = Len(rows)
  BY <1>1, <1>5
<1> QED
  BY <1>2, <1>3, <1>6 DEF s

(* Rows that show the same children, in the same places.                   *)
LEMMA SameNames ==
    ASSUME NEW r, NEW s, DOMAIN s = DOMAIN r, \A p \in DOMAIN r : s[p].child = r[p].child
    PROVE  Shows(s) = Shows(r) /\ (Descending(r) => Descending(s))
BY DEF Shows, Descending

LEMMA DrawerSynced ==
    ASSUME NEW w, DrawerOK(w), NEW d \in [Children -> States], NEW o \in Overrides
    PROVE  LET v == [w EXCEPT !.rows = Synced(@, d, o)]
           IN /\ DrawerOK(v)
              /\ v.open = w.open /\ v.rendered = w.rendered
              /\ Len(v.rows) = Len(w.rows)
              /\ Shows(v.rows) = Shows(w.rows)
<1> DEFINE s == Synced(w.rows, d, o)
           v == [w EXCEPT !.rows = s]
<1>1. w \in Drawers /\ w.rows \in Seq(Node)
  BY DEF DrawerOK, Drawers
<1>2. /\ s \in Seq(Node) /\ Len(s) = Len(w.rows) /\ DOMAIN s = DOMAIN w.rows
      /\ \A p \in DOMAIN w.rows : s[p].child = w.rows[p].child
  BY <1>1, SyncedKeeps
<1>3. Shows(s) = Shows(w.rows) /\ Descending(s)
  BY <1>2, SameNames DEF DrawerOK
<1> HIDE DEF s
<1>4. /\ v \in Drawers /\ v.rows = s /\ v.open = w.open /\ v.sig = w.sig
      /\ v.rendered = w.rendered /\ v.retained = w.retained
  BY <1>1, <1>2 DEF Drawers
<1> HIDE DEF v
<1>5. DrawerOK(v)
  BY <1>2, <1>3, <1>4 DEF DrawerOK
<1> QED
  BY <1>2, <1>3, <1>4, <1>5 DEF v, s

(* The drawer v is w showing the children of S.                            *)
DrawnFrom(v, w, S) ==
    /\ v \in Drawers /\ Len(v.rows) <= N
    /\ Shows(v.rows) = S /\ Shows(v.rows) = {s[1] : s \in v.sig}
    /\ \A s, t \in v.sig : s[1] = t[1] => s = t
    /\ Descending(v.rows)
    /\ v.open = w.open /\ v.rendered = S

LEMMA DrawerDrawn ==
    ASSUME NEW w, DrawerOK(w), NEW d \in [Children -> States], NEW o \in Overrides,
           NEW S, S \subseteq Listed(d)
    PROVE  DrawnFrom(DrawerWith(w, S, d, o), w, S)
<1> DEFINE flag == [c \in Children |-> Shown(c, d, o)]
           sig == {<<c, flag[c]>> : c \in S}
           rows == IF sig = w.sig THEN w.rows ELSE Rows(S, flag)
           v == [w EXCEPT !.rendered = S, !.sig = sig, !.rows = rows]
<1>1. S \subseteq Children /\ \A c \in S : flag[c] \in Flags
  BY ShownFlag DEF Listed
<1> HIDE DEF flag
<1>2. sig \subseteq Children \X Flags /\ S = {s[1] : s \in sig}
  <2>1. \A c \in S : <<c, flag[c]>> \in Children \X Flags /\ <<c, flag[c]>>[1] = c
    BY <1>1
  <2>2. \A s \in sig : s \in Children \X Flags /\ s[1] \in S
    BY <2>1
  <2>3. \A c \in S : \E s \in sig : s[1] = c
    BY <2>1
  <2> HIDE DEF sig
  <2> QED
    BY <2>2, <2>3
<1>3. \A s, t \in sig : s[1] = t[1] => s = t
  OBVIOUS
<1> HIDE DEF sig
<1>4. w \in Drawers /\ Len(w.rows) <= N /\ Descending(w.rows) /\ w.rows \in Seq(Node)
  BY DEF DrawerOK, Drawers
<1>5. rows \in Seq(Node) /\ Len(rows) <= N /\ Descending(rows) /\ Shows(rows) = S
  <2>1. CASE sig = w.sig
    BY <1>2, <1>4, <2>1 DEF DrawerOK
  <2>2. CASE sig # w.sig
    BY <1>1, <2>2, RowsDrawn
  <2> QED
    BY <2>1, <2>2
<1> HIDE DEF rows
<1>6. /\ v \in Drawers /\ v.rows = rows /\ v.sig = sig /\ v.rendered = S
      /\ v.open = w.open /\ v.retained = w.retained
  BY <1>1, <1>2, <1>4, <1>5 DEF Drawers
<1>7. v = DrawerWith(w, S, d, o)
  BY <1>4 DEF DrawerWith, v, rows, sig, flag, Drawers
<1> HIDE DEF v
<1>8. DrawnFrom(v, w, S)
  BY <1>2, <1>3, <1>5, <1>6 DEF DrawnFrom
<1> QED
  BY <1>7, <1>8

(* An open drawer after a successful poll: what it showed and is listed.   *)
LEMMA DrawerKept ==
    ASSUME NEW w, DrawerOK(w), NEW d \in [Children -> States], NEW o \in Overrides,
           NEW failed \in BOOLEAN
    PROVE  LET v == DrawerUpdated(w, d, o, failed)
           IN /\ DrawerOK(v) /\ v.open = w.open
              /\ ~w.open \/ failed => v = w
              /\ w.open /\ ~failed => /\ v.rendered = Shows(w.rows) \cap Listed(d)
                                      /\ Shows(v.rows) = Shows(w.rows) \cap Listed(d)
<1>1. CASE ~w.open \/ failed
  BY <1>1 DEF DrawerUpdated, DrawerOK
<1>2. CASE w.open /\ ~failed
  <2> DEFINE frozen == Overdue(d, o) \cap w.rendered
             kept == ((w.retained \cup w.rendered) \ frozen) \cap Listed(d)
             S == frozen \cup kept
             u == DrawerWith(w, S, d, o)
             v == [u EXCEPT !.retained = kept]
  <2>1. frozen \cup kept = w.rendered \cap Listed(d)
    BY DEF Overdue, DrawerOK
  <2>2. w.rendered = Shows(w.rows)
    BY <1>2 DEF DrawerOK
  <2>3. kept \subseteq frozen \cup kept /\ kept \subseteq Children
    BY DEF Listed
  <2>4. DrawerUpdated(w, d, o, failed) = v
    BY <1>2 DEF DrawerUpdated
  <2> HIDE DEF frozen
  <2>5. S \subseteq Listed(d) /\ kept \subseteq S /\ S = w.rendered \cap Listed(d)
    BY <2>1
  <2> HIDE DEF S, kept
  <2>6. DrawnFrom(u, w, S)
    BY <2>5, DrawerDrawn
  <2> HIDE DEF u
  <2>7. /\ v \in Drawers /\ v.rows = u.rows /\ v.sig = u.sig /\ v.open = u.open
        /\ v.rendered = u.rendered /\ v.retained = kept
    BY <2>3, <2>6 DEF Drawers, DrawnFrom
  <2> HIDE DEF v
  <2>8. DrawerOK(v)
    BY <2>5, <2>6, <2>7 DEF DrawerOK, DrawnFrom
  <2> QED
    BY <1>2, <2>2, <2>4, <2>5, <2>6, <2>7, <2>8 DEF DrawnFrom
<1> QED
  BY <1>1, <1>2

LEMMA CutCall ==
    ASSUME NEW q \in Calls
    PROVE  LET r == [q EXCEPT !.list = "none", !.node = 0]
           IN /\ r \in Calls /\ r.child = q.child /\ r.value = q.value
              /\ r.list = "none" /\ r.node = 0
<1>1. 0 \in 0..N
  BY BoardAssumption
<1> QED
  BY <1>1 DEF Calls

LEMMA DetachedCalls ==
    ASSUME NEW P, P \subseteq Calls, IsFiniteSet(P), NEW list \in {"main", "drawer"},
           NEW n \in 0..N, NEW m \in Nat, NEW k \in Nat, Held(P, m, k)
    PROVE  LET D == Detached(P, list, n)
           IN /\ D \subseteq Calls /\ IsFiniteSet(D)
              /\ list = "main" => Held(D, n, k)
              /\ list = "drawer" => Held(D, m, n)
              /\ \A q \in D : \E r \in P : r.child = q.child /\ r.value = q.value
<1> DEFINE cut(q) == IF q.list = list /\ q.node > n
                     THEN [q EXCEPT !.list = "none", !.node = 0] ELSE q
           D == Detached(P, list, n)
           f == [q \in P |-> cut(q)]
<1>1. N \in Nat
  BY BoardAssumption
<1>2. ASSUME NEW q \in P
      PROVE  /\ cut(q) \in Calls /\ cut(q).child = q.child /\ cut(q).value = q.value
             /\ list = "main" => Held({cut(q)}, n, k)
             /\ list = "drawer" => Held({cut(q)}, m, n)
  <2>1. q \in Calls
    OBVIOUS
  <2>2. CASE q.list = list /\ q.node > n
    <3>1. cut(q) = [q EXCEPT !.list = "none", !.node = 0]
      BY <2>2
    <3> HIDE DEF cut
    <3>2. /\ cut(q) \in Calls /\ cut(q).child = q.child /\ cut(q).value = q.value
          /\ cut(q).list = "none" /\ cut(q).node = 0
      BY <2>1, <3>1, CutCall
    <3> QED
      BY <3>2 DEF Held
  <2>3. CASE ~(q.list = list /\ q.node > n)
    <3>1. cut(q) = q
      BY <2>3
    <3> HIDE DEF cut
    <3> QED
      BY <1>1, <2>1, <2>3, <3>1 DEF Calls, Held
  <2> QED
    BY <2>2, <2>3
<1>3. D = {cut(q) : q \in P}
  BY DEF Detached
<1> HIDE DEF cut, D
<1>4. IsFiniteSet(D)
  <2>1. f \in Surjection(P, D)
    BY <1>3 DEF Surjection
  <2> HIDE DEF f
  <2> QED
    BY <2>1, FS_Surjection
<1>5. ASSUME NEW q \in D
      PROVE  /\ q \in Calls
             /\ list = "main" => Held({q}, n, k)
             /\ list = "drawer" => Held({q}, m, n)
             /\ \E r \in P : r.child = q.child /\ r.value = q.value
  BY <1>2, <1>3
<1>6. list = "main" => Held(D, n, k)
  BY <1>5 DEF Held
<1>7. list = "drawer" => Held(D, m, n)
  BY <1>5 DEF Held
<1> QED
  BY <1>4, <1>5, <1>6, <1>7 DEF D

-----------------------------------------------------------------------------
(* The inductive invariant.                                                *)

WorldTyped ==
    /\ day \in Days
    /\ row \in [Children -> States]
    /\ gone \in 0..N /\ late \in gone..N
    /\ changes \in 0..day.changes /\ failures \in 0..day.failures

PageTyped ==
    /\ data \in [Children -> States]
    /\ pollFailed \in BOOLEAN
    /\ poll \in [waiting : BOOLEAN, answer : [Children -> States]]
    /\ hide \in BOOLEAN /\ badge \in BOOLEAN
    /\ mainSig \in [drawn : BOOLEAN, hide : BOOLEAN, kids : SUBSET Children]

ReaderTyped ==
    /\ override \in Overrides /\ wanted \in Overrides
    /\ clicks \in [Children -> 0..day.clicks]

MainTyped == main \in Seq(Node) /\ Len(main) <= N

CallsTyped ==
    /\ patches \in SUBSET Calls /\ IsFiniteSet(patches)
    /\ Held(patches, Len(main), Len(drawer.rows))

DrawerInv ==
    /\ DrawerOK(drawer)
    /\ drawer.open /\ ~pollFailed => drawer.rendered \subseteq Listed(data)

(* A child no check-out was recorded of is nowhere on the board.           *)
Unlisted(c) == row[c] = "absent" /\ c > gone

Known ==
    \A c \in Children : Unlisted(c) =>
        /\ data[c] = "absent" /\ poll.answer[c] = "absent" /\ clicks[c] = 0
        /\ c \notin Shows(main) \cup Shows(drawer.rows)

Unclicked ==
    \A c \in Children : clicks[c] = 0 =>
        /\ override[c] = "none" /\ wanted[c] = "none"
        /\ \A q \in patches : q.child # c

(* The reader has clicked c once, and the answer must hold.                *)
Awaited(c) == clicks[c] = 1 /\ wanted[c] # "none"

(* The one PATCH behind a first click asks for what the reader wants.      *)
Asked ==
    \A q \in patches : Awaited(q.child) => q.value = wanted[q.child]

(* The override shows the answer, and a poll that agrees with it has read  *)
(* the database after it was changed; or such a poll has been answered.    *)
Carried(c) ==
    /\ override[c] = wanted[c]
    /\ poll.answer[c] = wanted[c] => row[c] \in {wanted[c], "absent"}

Landed(c) ==
    /\ override[c] = "none"
    /\ {data[c], row[c], poll.answer[c]} \subseteq {wanted[c], "absent"}

Followed == \A c \in Children : Awaited(c) => Carried(c) \/ Landed(c)

BoardInv == /\ WorldTyped /\ PageTyped /\ ReaderTyped /\ MainTyped /\ CallsTyped
            /\ DrawerInv /\ Known /\ Unclicked /\ Asked /\ Followed

(* What a step may do to the drawer: nothing to the children it shows,     *)
(* unless they left a successful poll, or it is opened or closed.          *)
DrawerSame ==
    /\ drawer'.open = drawer.open /\ drawer'.rendered = drawer.rendered
    /\ Shows(drawer'.rows) = Shows(drawer.rows)
    /\ pollFailed' \/ ~drawer.open \/ UNCHANGED <<data, pollFailed>>

DrawerThinned ==
    /\ drawer.open /\ drawer'.open /\ ~pollFailed'
    /\ drawer'.rendered = Shows(drawer.rows) \cap Listed(data')
    /\ Shows(drawer'.rows) = Shows(drawer.rows) \cap Listed(data')

DrawerSwitched ==
    /\ drawer'.open # drawer.open
    /\ drawer'.open => drawer'.rendered \subseteq Listed(data')

DrawerMoves == DrawerOK(drawer') /\ (DrawerSame \/ DrawerThinned \/ DrawerSwitched)

LEMMA MovedDrawer ==
    ASSUME DrawerInv, DrawerMoves
    PROVE  DrawerInv'
BY DEF DrawerInv, DrawerMoves, DrawerSame, DrawerThinned, DrawerSwitched, DrawerOK, Listed

(* No row may come to be out of order.                                     *)
LEMMA SteadyOrder ==
    ASSUME NEW r \in Seq(Node), NEW s \in Seq(Node), Descending(r), Descending(s)
    PROVE  \A i, j \in DOMAIN Names(s) : \A k, l \in DOMAIN Names(r) :
             i < j /\ Names(s)[i] = Names(r)[k] /\ Names(s)[j] = Names(r)[l] => k < l
<1> SUFFICES ASSUME NEW i \in DOMAIN s, NEW j \in DOMAIN s,
                    NEW k \in DOMAIN r, NEW l \in DOMAIN r,
                    i < j, s[i].child = r[k].child, s[j].child = r[l].child
             PROVE  k < l
  BY DEF Names
<1>1. s[i].child > s[j].child
  BY DEF Descending
<1>2. k \in Nat /\ l \in Nat
  OBVIOUS
<1>3. l < k => r[l].child > r[k].child
  BY DEF Descending
<1>0. Children \subseteq Int
  BY BoardAssumption DEF Children
<1>4. s[i].child \in Int /\ s[j].child \in Int
  <2>1. s[i] \in Node /\ s[j] \in Node
    OBVIOUS
  <2> QED
    BY <1>0, <2>1 DEF Node
<1>5. k # l /\ ~(l < k)
  BY <1>1, <1>3, <1>4
<1> QED
  BY <1>2, <1>5

SteadyStep ==
    drawer.open /\ drawer'.open =>
        LET stays(c) == pollFailed' \/ c \in Listed(data')
            old == Names(drawer.rows)
            new == Names(drawer'.rows)
        IN /\ Shows(drawer'.rows) = {c \in Shows(drawer.rows) : stays(c)}
           /\ \A i, j \in DOMAIN new : \A k, l \in DOMAIN old :
                i < j /\ new[i] = old[k] /\ new[j] = old[l] => k < l

LEMMA MovedSteady ==
    ASSUME DrawerInv, DrawerMoves
    PROVE  SteadyStep
<1> SUFFICES ASSUME drawer.open, drawer'.open
             PROVE  /\ Shows(drawer'.rows) = {c \in Shows(drawer.rows) : pollFailed' \/ c \in Listed(data')}
                    /\ \A i, j \in DOMAIN Names(drawer'.rows) : \A k, l \in DOMAIN Names(drawer.rows) :
                        /\ i < j /\ Names(drawer'.rows)[i] = Names(drawer.rows)[k]
                        /\ Names(drawer'.rows)[j] = Names(drawer.rows)[l]
                        => k < l
  BY DEF SteadyStep
<1>1. /\ drawer.rows \in Seq(Node) /\ Descending(drawer.rows)
      /\ drawer'.rows \in Seq(Node) /\ Descending(drawer'.rows)
  BY DEF DrawerInv, DrawerMoves, DrawerOK, Drawers
<1>2. Shows(drawer'.rows) = {c \in Shows(drawer.rows) : pollFailed' \/ c \in Listed(data')}
  <2>1. drawer.rendered = Shows(drawer.rows) /\ (pollFailed \/ drawer.rendered \subseteq Listed(data))
    BY DEF DrawerInv, DrawerOK
  <2>2. CASE DrawerSame
    BY <2>1, <2>2 DEF DrawerSame, Listed
  <2>3. CASE DrawerThinned
    BY <2>3 DEF DrawerThinned
  <2>4. ~DrawerSwitched
    BY <2>1 DEF DrawerSwitched, DrawerInv, DrawerMoves, DrawerOK, Drawers
  <2> QED
    BY <2>2, <2>3, <2>4 DEF DrawerMoves
<1> QED
  BY <1>1, <1>2, SteadyOrder

-----------------------------------------------------------------------------
(* The steps of the world, and of a poll that is sent.                     *)

LEMMA DayTyped ==
    ASSUME NEW d \in Days
    PROVE  /\ d.kids \in Nat /\ d.kids <= N /\ N \in Nat
           /\ d.clicks \in Nat /\ d.changes \in Nat /\ d.failures \in Nat
<1>1. N \in Nat
  BY BoardAssumption
<1>2. d \in [kids : 1..N, hiding : BOOLEAN, clicks : Nat, changes : Nat, failures : Nat]
  BY BoardAssumption
<1> QED
  BY <1>1, <1>2

(* Nothing is drawn and no PATCH moves.                                    *)
LEMMA Undrawn ==
    ASSUME MainTyped, CallsTyped, DrawerInv,
           UNCHANGED <<data, pollFailed, main, drawer, patches>>
    PROVE  MainTyped' /\ CallsTyped' /\ DrawerMoves
BY DEF MainTyped, CallsTyped, DrawerInv, DrawerMoves, DrawerSame

LEMMA ListStep ==
    ASSUME BoardInv, NEW c \in Children, List(c)
    PROVE  BoardInv' /\ DrawerMoves
<1> USE DEF BoardInv
<1>1. /\ row[c] = "absent" /\ c > gone /\ c \in Children
      /\ row' = [row EXCEPT ![c] = "open"]
      /\ UNCHANGED <<day, late, gone, data, pollFailed, override, poll, hide, mainSig, main,
                     drawer, badge, patches, clicks, changes, failures, wanted>>
  <2>1. gone \in Int /\ day.kids \in Int
    BY DayTyped DEF WorldTyped
  <2>2. c \in (gone + 1)..day.kids
    BY DEF List
  <2>3. c > gone
    BY <2>1, <2>2
  <2> QED
    BY <2>3 DEF List, screen, bounds
<1>2. MainTyped' /\ CallsTyped' /\ DrawerMoves
  BY <1>1, Undrawn
<1>3. (WorldTyped /\ PageTyped /\ ReaderTyped)'
  BY <1>1 DEF WorldTyped, PageTyped, ReaderTyped, States
<1>4. Known'
  BY <1>1 DEF Known, Unlisted, WorldTyped
<1>5. Unclicked' /\ Asked'
  BY <1>1 DEF Unclicked, Asked, Awaited
<1>6. Followed'
  BY <1>1 DEF Followed, Awaited, Carried, Landed, Known, Unlisted, WorldTyped
<1> QED
  BY <1>2, <1>3, <1>4, <1>5, <1>6, MovedDrawer

LEMMA OtherDeviceStep ==
    ASSUME BoardInv, NEW c \in Children, OtherDevice(c)
    PROVE  BoardInv' /\ DrawerMoves
<1> USE DEF BoardInv
<1>1. /\ row[c] # "absent" /\ changes < day.changes
      /\ row' = [row EXCEPT ![c] = Flip(@)]
      /\ changes' = changes + 1
      /\ wanted' = [wanted EXCEPT ![c] = "none"]
      /\ UNCHANGED <<day, late, gone, data, pollFailed, override, poll, hide, mainSig, main,
                     drawer, badge, patches, clicks, failures>>
  BY DEF OtherDevice, screen
<1>2. MainTyped' /\ CallsTyped' /\ DrawerMoves
  BY <1>1, Undrawn
<1>3. (WorldTyped /\ PageTyped /\ ReaderTyped)'
  BY <1>1, DayTyped DEF WorldTyped, PageTyped, ReaderTyped, States, Flip, Overrides
<1>4. Known'
  BY <1>1 DEF Known, Unlisted, WorldTyped, Flip
<1>5. Unclicked' /\ Asked'
  BY <1>1 DEF Unclicked, Asked, Awaited, ReaderTyped, Overrides
<1>6. Followed'
  BY <1>1 DEF Followed, Awaited, Carried, Landed, WorldTyped, ReaderTyped, Overrides
<1> QED
  BY <1>2, <1>3, <1>4, <1>5, <1>6, MovedDrawer

LEMMA TimeStep ==
    ASSUME BoardInv, BecomeLate \/ LeaveWindow
    PROVE  BoardInv' /\ DrawerMoves
<1> USE DEF BoardInv
<1>1. UNCHANGED <<day, data, pollFailed, override, poll, hide, mainSig, main, drawer, badge,
                  patches, clicks, changes, failures, wanted>>
  BY DEF BecomeLate, LeaveWindow, screen, bounds
<1>2. MainTyped' /\ CallsTyped' /\ DrawerMoves
  BY <1>1, Undrawn
<1>3. (PageTyped /\ ReaderTyped)'
  BY <1>1 DEF PageTyped, ReaderTyped
<1>4. /\ WorldTyped'
      /\ \A c \in Children : Unlisted(c)' => Unlisted(c)
      /\ \A c \in Children : row'[c] \in {row[c], "absent"}
  <2>1. CASE BecomeLate
    BY <1>1, <2>1, DayTyped DEF BecomeLate, WorldTyped, Unlisted
  <2>2. CASE LeaveWindow
    <3>1. gone \in Nat /\ late \in Int /\ gone < late /\ late <= N /\ N \in Nat
      BY <2>2, DayTyped DEF LeaveWindow, WorldTyped
    <3>2. /\ row \in [Children -> States] /\ late' = late
          /\ row' = [row EXCEPT ![gone + 1] = "absent"] /\ gone' = gone + 1
      BY <2>2 DEF LeaveWindow, WorldTyped
    <3>3. gone' \in 0..N /\ late' \in gone'..N
      BY <3>1, <3>2
    <3>4. /\ row' \in [Children -> States]
          /\ \A c \in Children : row'[c] = IF c = gone + 1 THEN "absent" ELSE row[c]
      BY <3>2 DEF States
    <3>5. WorldTyped'
      BY <1>1, <3>3, <3>4 DEF WorldTyped
    <3>6. Children \subseteq Int
      BY BoardAssumption DEF Children
    <3>7. ASSUME NEW c \in Children, Unlisted(c)' PROVE Unlisted(c)
      <4>1. row'[c] = "absent" /\ c > gone + 1
        BY <3>2, <3>7 DEF Unlisted
      <4>2. c \in Int
        BY <3>6
      <4>3. c # gone + 1 /\ c > gone
        BY <3>1, <4>1, <4>2
      <4> QED
        BY <3>4, <4>1, <4>3 DEF Unlisted
    <3> QED
      BY <3>4, <3>5, <3>7
  <2> QED
    BY <2>1, <2>2
<1>5. Known'
  BY <1>1, <1>4 DEF Known
<1>6. Unclicked' /\ Asked'
  BY <1>1 DEF Unclicked, Asked, Awaited
<1>7. Followed'
  BY <1>1, <1>4 DEF Followed, Awaited, Carried, Landed
<1> QED
  BY <1>2, <1>3, <1>4, <1>5, <1>6, <1>7, MovedDrawer

LEMMA AskStep ==
    ASSUME BoardInv, Ask
    PROVE  BoardInv' /\ DrawerMoves
<1> USE DEF BoardInv
<1>1. /\ poll' = [waiting |-> TRUE, answer |-> row]
      /\ UNCHANGED <<day, row, late, gone, data, pollFailed, override, hide, mainSig, main,
                     drawer, badge, patches, clicks, changes, failures, wanted>>
  BY DEF Ask, Sent, server, screen, bounds
<1>2. MainTyped' /\ CallsTyped' /\ DrawerMoves
  BY <1>1, Undrawn
<1>3. (WorldTyped /\ PageTyped /\ ReaderTyped)'
  BY <1>1 DEF WorldTyped, PageTyped, ReaderTyped
<1>4. Known'
  BY <1>1 DEF Known, Unlisted
<1>5. Unclicked' /\ Asked'
  BY <1>1 DEF Unclicked, Asked, Awaited
<1>6. Followed'
  BY <1>1 DEF Followed, Awaited, Carried, Landed
<1> QED
  BY <1>2, <1>3, <1>4, <1>5, <1>6, MovedDrawer

LEMMA LapseStep ==
    ASSUME BoardInv, NEW c \in Children, Lapse(c)
    PROVE  BoardInv' /\ DrawerMoves
<1> USE DEF BoardInv
<1>1. /\ override' = [override EXCEPT ![c] = "none"]
      /\ wanted' = [wanted EXCEPT ![c] = "none"]
      /\ UNCHANGED <<day, row, late, gone, data, pollFailed, poll, hide, mainSig, main,
                     drawer, badge, patches, clicks, changes, failures>>
  BY DEF Lapse, TimedOut, server, screen, bounds
<1>2. MainTyped' /\ CallsTyped' /\ DrawerMoves
  BY <1>1, Undrawn
<1>3. (WorldTyped /\ PageTyped /\ ReaderTyped)'
  BY <1>1 DEF WorldTyped, PageTyped, ReaderTyped, Overrides
<1>4. Known'
  BY <1>1 DEF Known, Unlisted
<1>5. Unclicked' /\ Asked'
  BY <1>1 DEF Unclicked, Asked, Awaited, ReaderTyped, Overrides
<1>6. Followed'
  BY <1>1 DEF Followed, Awaited, Carried, Landed, ReaderTyped, Overrides
<1> QED
  BY <1>2, <1>3, <1>4, <1>5, <1>6, MovedDrawer

-----------------------------------------------------------------------------
(* The steps that draw.                                                    *)

(* The PATCHes of P are among those of Q, up to where they are and stand.  *)
From(P, Q) == \A q \in P : \E r \in Q : r.child = q.child /\ r.value = q.value

LEMMA VisibleListed ==
    ASSUME NEW d, NEW h
    PROVE  Visible(d, h) \subseteq Listed(d) /\ Listed(d) \subseteq Children
BY DEF Visible, Listed

(* updateOverdueUI, with data and lastPollFailed as they are after the step. *)
LEMMA OverdueDrawn ==
    ASSUME DrawerInv, data' \in [Children -> States], pollFailed' \in BOOLEAN,
           NEW o \in Overrides, NEW w, DrawerOK(w), w.open = drawer.open,
           w.rendered = drawer.rendered, Shows(w.rows) = Shows(drawer.rows),
           UpdateOverdueUI(w, data', o, pollFailed')
    PROVE  /\ DrawerMoves /\ badge' \in BOOLEAN
           /\ Shows(drawer'.rows) \subseteq Shows(drawer.rows)
<1> DEFINE v == DrawerUpdated(w, data', o, pollFailed')
<1>1. /\ DrawerOK(v) /\ v.open = w.open
      /\ ~w.open \/ pollFailed' => v = w
      /\ w.open /\ ~pollFailed' => /\ v.rendered = Shows(w.rows) \cap Listed(data')
                                   /\ Shows(v.rows) = Shows(w.rows) \cap Listed(data')
  BY DrawerKept
<1>2. drawer' = v /\ badge' \in BOOLEAN
  BY DEF UpdateOverdueUI
<1> HIDE DEF v
<1>3. CASE ~w.open \/ pollFailed'
  BY <1>1, <1>2, <1>3 DEF DrawerMoves, DrawerSame
<1>4. CASE w.open /\ ~pollFailed'
  BY <1>1, <1>2, <1>4 DEF DrawerMoves, DrawerThinned
<1> QED
  BY <1>3, <1>4

LEMMA UIDrawn ==
    ASSUME MainTyped, CallsTyped, DrawerInv,
           data' \in [Children -> States], pollFailed' \in BOOLEAN,
           NEW o \in Overrides, NEW h \in BOOLEAN,
           UpdateUI(data', o, h, pollFailed')
    PROVE  /\ MainTyped' /\ CallsTyped' /\ DrawerMoves /\ badge' \in BOOLEAN
           /\ mainSig' \in [drawn : BOOLEAN, hide : BOOLEAN, kids : SUBSET Children]
           /\ Shows(main') \subseteq Shows(main) \cup Listed(data')
           /\ Shows(drawer'.rows) \subseteq Shows(drawer.rows)
           /\ From(patches', patches)
<1> DEFINE d == data'
           sig == [drawn |-> TRUE, hide |-> h, kids |-> Visible(d, h)]
           drawn == IF sig = mainSig THEN main ELSE Rows(sig.kids, d)
           w == [drawer EXCEPT !.rows = Synced(@, d, o)]
           P == Detached(patches, "main", Len(drawn))
<1>1. /\ mainSig' = sig /\ main' = Synced(drawn, d, o)
      /\ UpdateOverdueUI(w, d, o, pollFailed')
      /\ patches' = Detached(P, "drawer", Len(drawer'.rows))
  BY DEF UpdateUI
<1>2. sig \in [drawn : BOOLEAN, hide : BOOLEAN, kids : SUBSET Children]
  BY VisibleListed
<1>3. /\ DrawerOK(w) /\ w.open = drawer.open /\ w.rendered = drawer.rendered
      /\ Shows(w.rows) = Shows(drawer.rows)
  BY DrawerSynced DEF DrawerInv
<1> HIDE DEF w
<1>4. /\ DrawerMoves /\ badge' \in BOOLEAN
      /\ Shows(drawer'.rows) \subseteq Shows(drawer.rows)
  BY <1>1, <1>3, OverdueDrawn
<1>5. drawn \in Seq(Node) /\ Len(drawn) <= N /\ Shows(drawn) \subseteq Shows(main) \cup Listed(d)
  <2>1. CASE sig = mainSig
    BY <2>1 DEF MainTyped
  <2>2. CASE sig # mainSig
    <3>1. drawn = Rows(Visible(d, h), d)
      BY <2>2
    <3>2. Visible(d, h) \subseteq Listed(d) /\ Listed(d) \subseteq Children
      BY VisibleListed
    <3>3. \A c \in Visible(d, h) : d[c] \in Flags
      BY <3>2 DEF Listed, States, Flags
    <3> HIDE DEF d, drawn
    <3> QED
      BY <3>1, <3>2, <3>3, RowsDrawn
  <2> QED
    BY <2>1, <2>2
<1> HIDE DEF drawn, sig, P
<1>6. /\ main' \in Seq(Node) /\ Len(main') = Len(drawn)
      /\ Shows(main') = Shows(drawn)
  BY <1>1, <1>5, SyncedKeeps, SameNames
<1>7. MainTyped'
  BY <1>5, <1>6 DEF MainTyped
<1>8. /\ Len(drawn) \in 0..N /\ Len(main) \in Nat /\ Len(drawer.rows) \in Nat
      /\ Len(drawer'.rows) \in 0..N
  BY <1>4, <1>5, BoardAssumption DEF MainTyped, DrawerInv, DrawerMoves, DrawerOK, Drawers
<1>9. /\ P \subseteq Calls /\ IsFiniteSet(P) /\ Held(P, Len(drawn), Len(drawer.rows))
      /\ From(P, patches)
  BY <1>8, DetachedCalls DEF CallsTyped, P, From
<1>10. /\ patches' \subseteq Calls /\ IsFiniteSet(patches')
       /\ Held(patches', Len(drawn), Len(drawer'.rows)) /\ From(patches', P)
  BY <1>1, <1>8, <1>9, DetachedCalls DEF From
<1>11. CallsTyped'
  BY <1>6, <1>10 DEF CallsTyped
<1>12. From(patches', patches)
  BY <1>9, <1>10 DEF From
<1> QED
  BY <1>1, <1>2, <1>4, <1>5, <1>6, <1>7, <1>11, <1>12 DEF sig

(* The PATCHes in flight concern no other clicks than before.              *)
LEMMA ClicksKept ==
    ASSUME Unclicked, Asked, From(patches', patches), UNCHANGED <<clicks, wanted>>,
           \A c \in Children : override'[c] \in {override[c], "none"}
    PROVE  Unclicked' /\ Asked'
<1>1. Asked'
  BY DEF Asked, Awaited, From
<1>2. Unclicked'
  BY DEF Unclicked, From
<1> QED
  BY <1>1, <1>2

LEMMA ReceiveStep ==
    ASSUME BoardInv, Receive
    PROVE  BoardInv' /\ DrawerMoves
<1> USE DEF BoardInv
<1>1. /\ data' = poll.answer /\ pollFailed' = FALSE
      /\ poll' = [waiting |-> FALSE, answer |-> Nobody]
      /\ override' = Reconciled(override, poll.answer)
      /\ UpdateUI(data', override', hide, pollFailed')
      /\ UNCHANGED <<day, row, late, gone, hide, clicks, changes, failures, wanted>>
  BY DEF Receive, Answered, server, bounds
<1>2. /\ data' \in [Children -> States] /\ pollFailed' \in BOOLEAN /\ hide \in BOOLEAN
      /\ poll' \in [waiting : BOOLEAN, answer : [Children -> States]]
      /\ poll'.answer = Nobody
  BY <1>1 DEF PageTyped, Nobody, States
<1>3. /\ override' \in Overrides
      /\ \A c \in Children : override'[c] = IF override[c] = poll.answer[c] THEN "none" ELSE override[c]
  BY <1>1 DEF Reconciled, ReaderTyped, Overrides
<1>4. /\ MainTyped' /\ CallsTyped' /\ DrawerMoves /\ badge' \in BOOLEAN
      /\ mainSig' \in [drawn : BOOLEAN, hide : BOOLEAN, kids : SUBSET Children]
      /\ Shows(main') \subseteq Shows(main) \cup Listed(data')
      /\ Shows(drawer'.rows) \subseteq Shows(drawer.rows)
      /\ From(patches', patches)
  BY <1>1, <1>2, <1>3, UIDrawn
<1>5. (WorldTyped /\ PageTyped /\ ReaderTyped)'
  BY <1>1, <1>2, <1>3, <1>4 DEF WorldTyped, PageTyped, ReaderTyped
<1>6. Known'
  <2> SUFFICES ASSUME NEW c \in Children, Unlisted(c)
               PROVE  /\ data'[c] = "absent" /\ poll'.answer[c] = "absent" /\ clicks'[c] = 0
                      /\ c \notin Shows(main') \cup Shows(drawer'.rows)
    BY <1>1 DEF Known, Unlisted
  <2>1. /\ poll.answer[c] = "absent" /\ clicks[c] = 0
        /\ c \notin Shows(main) \cup Shows(drawer.rows)
    BY DEF Known
  <2> QED
    BY <1>1, <1>2, <1>4, <2>1 DEF Nobody, Listed
<1>7. Unclicked' /\ Asked'
  BY <1>1, <1>3, <1>4, ClicksKept
<1>8. Followed'
  <2> SUFFICES ASSUME NEW c \in Children, Awaited(c)
               PROVE  (Carried(c) \/ Landed(c))'
    BY <1>1 DEF Followed, Awaited
  <2>1. poll'.answer[c] = "absent" /\ wanted'[c] = wanted[c] /\ row'[c] = row[c]
    BY <1>1, <1>2 DEF Nobody
  <2>2. wanted[c] \in Flags
    BY DEF Awaited, ReaderTyped, Overrides
  <2>3. CASE Carried(c) /\ poll.answer[c] = wanted[c]
    BY <1>1, <1>3, <2>1, <2>2, <2>3 DEF Carried, Landed
  <2>4. CASE Carried(c) /\ poll.answer[c] # wanted[c]
    BY <1>1, <1>3, <2>1, <2>2, <2>4 DEF Carried, Flags
  <2>5. CASE Landed(c)
    BY <1>1, <1>3, <2>1, <2>2, <2>5 DEF Landed
  <2> QED
    BY <2>3, <2>4, <2>5 DEF Followed
<1> QED
  BY <1>4, <1>5, <1>6, <1>7, <1>8, MovedDrawer

(* A step that only draws: what is known, shown and asked stays.           *)
LEMMA OnlyDrawn ==
    ASSUME BoardInv,
           UNCHANGED <<day, row, late, gone, data, pollFailed, override, poll, clicks,
                       changes, failures, wanted>>,
           hide' \in BOOLEAN, badge' \in BOOLEAN,
           mainSig' \in [drawn : BOOLEAN, hide : BOOLEAN, kids : SUBSET Children],
           MainTyped', CallsTyped', DrawerMoves, From(patches', patches),
           Shows(main') \subseteq Shows(main) \cup Listed(data),
           Shows(drawer'.rows) \subseteq Shows(drawer.rows) \cup Listed(data)
    PROVE  BoardInv'
<1> USE DEF BoardInv
<1>1. (WorldTyped /\ PageTyped /\ ReaderTyped)'
  BY DEF WorldTyped, PageTyped, ReaderTyped
<1>2. Known'
  BY DEF Known, Unlisted, Listed
<1>3. Unclicked' /\ Asked'
  BY ClicksKept DEF Unclicked
<1>4. Followed'
  BY DEF Followed, Awaited, Carried, Landed
<1> QED
  BY <1>1, <1>2, <1>3, <1>4, MovedDrawer

LEMMA PollFailsStep ==
    ASSUME BoardInv, PollFails
    PROVE  BoardInv' /\ DrawerMoves
<1> USE DEF BoardInv
<1>1. /\ failures < day.failures /\ failures' = failures + 1
      /\ data' = Nobody /\ pollFailed' = TRUE
      /\ poll' = [waiting |-> FALSE, answer |-> Nobody]
      /\ mainSig' = [drawn |-> FALSE, hide |-> FALSE, kids |-> {}]
      /\ main' = <<>> /\ patches' = Detached(patches, "main", 0)
      /\ UNCHANGED <<day, row, late, gone, override, hide, drawer, badge, clicks, changes, wanted>>
  BY DEF PollFails, Answered, server
<1>2. (WorldTyped /\ PageTyped /\ ReaderTyped)'
  BY <1>1, DayTyped DEF WorldTyped, PageTyped, ReaderTyped, Nobody, States
<1>3. MainTyped' /\ Shows(main') = {} /\ Len(main') = 0
  BY <1>1, BoardAssumption DEF MainTyped, Shows
<1>4. DrawerMoves
  BY <1>1 DEF DrawerInv, DrawerMoves, DrawerSame
<1>5. CallsTyped' /\ From(patches', patches)
  <2>1. Len(main) \in Nat /\ Len(drawer.rows) \in Nat /\ 0 \in 0..N
    BY BoardAssumption DEF MainTyped, DrawerInv, DrawerOK, Drawers
  <2>2. /\ patches' \subseteq Calls /\ IsFiniteSet(patches')
        /\ Held(patches', 0, Len(drawer.rows)) /\ From(patches', patches)
    BY <1>1, <2>1, DetachedCalls DEF CallsTyped, From
  <2> QED
    BY <1>1, <1>3, <2>2 DEF CallsTyped
<1>6. Known'
  BY <1>1, <1>3 DEF Known, Unlisted, Nobody
<1>7. Unclicked' /\ Asked'
  BY <1>1, <1>5, ClicksKept
<1>8. Followed'
  <2>1. \A c \in Children : data'[c] = "absent" /\ poll'.answer[c] = "absent"
    BY <1>1 DEF Nobody
  <2>2. \A c \in Children : Awaited(c) => wanted[c] # "absent"
    BY DEF Awaited, ReaderTyped, Overrides, Flags
  <2> QED
    BY <1>1, <2>1, <2>2 DEF Followed, Awaited, Carried, Landed
<1> QED
  BY <1>2, <1>3, <1>4, <1>5, <1>6, <1>7, <1>8, MovedDrawer

LEMMA DrawerCallsKept ==
    ASSUME MainTyped, CallsTyped, DrawerInv, DrawerOK(drawer'), main' = main,
           patches' = Detached(patches, "drawer", Len(drawer'.rows))
    PROVE  MainTyped' /\ CallsTyped' /\ From(patches', patches)
<1>1. Len(main) \in Nat /\ Len(drawer.rows) \in Nat /\ Len(drawer'.rows) \in 0..N
  BY BoardAssumption DEF MainTyped, DrawerInv, DrawerOK, Drawers
<1>2. /\ patches' \subseteq Calls /\ IsFiniteSet(patches')
      /\ Held(patches', Len(main), Len(drawer'.rows)) /\ From(patches', patches)
  BY <1>1, DetachedCalls DEF CallsTyped, From
<1> QED
  BY <1>2 DEF CallsTyped, MainTyped

LEMMA TickStep ==
    ASSUME BoardInv, Tick
    PROVE  BoardInv' /\ DrawerMoves
<1> USE DEF BoardInv
<1>1. /\ UpdateOverdueUI(drawer, data', override, pollFailed')
      /\ patches' = Detached(patches, "drawer", Len(drawer'.rows))
      /\ UNCHANGED <<day, row, late, gone, data, pollFailed, override, poll, hide, mainSig,
                     main, clicks, changes, failures, wanted>>
  BY DEF Tick, server, bounds
<1>2. DrawerMoves /\ badge' \in BOOLEAN /\ Shows(drawer'.rows) \subseteq Shows(drawer.rows)
  BY <1>1, OverdueDrawn DEF PageTyped, ReaderTyped, DrawerInv
<1>3. MainTyped' /\ CallsTyped' /\ From(patches', patches)
  BY <1>1, <1>2, DrawerCallsKept DEF DrawerMoves
<1> QED
  BY <1>1, <1>2, <1>3, OnlyDrawn DEF PageTyped

LEMMA ToggleHideStep ==
    ASSUME BoardInv, ToggleHide
    PROVE  BoardInv' /\ DrawerMoves
<1> USE DEF BoardInv
<1>1. /\ hide' = ~hide
      /\ UpdateUI(data', override, hide', pollFailed')
      /\ UNCHANGED <<day, row, late, gone, data, pollFailed, override, poll, clicks, changes,
                     failures, wanted>>
  BY DEF ToggleHide, server, bounds
<1>2. hide' \in BOOLEAN /\ data' \in [Children -> States] /\ pollFailed' \in BOOLEAN
  BY <1>1 DEF PageTyped
<1>3. override \in Overrides
  BY DEF ReaderTyped
<1>4. /\ MainTyped' /\ CallsTyped' /\ DrawerMoves /\ badge' \in BOOLEAN
      /\ mainSig' \in [drawn : BOOLEAN, hide : BOOLEAN, kids : SUBSET Children]
      /\ Shows(main') \subseteq Shows(main) \cup Listed(data')
      /\ Shows(drawer'.rows) \subseteq Shows(drawer.rows)
      /\ From(patches', patches)
  BY <1>1, <1>2, <1>3, UIDrawn
<1> QED
  BY <1>1, <1>2, <1>4, OnlyDrawn

LEMMA OpenDrawerStep ==
    ASSUME BoardInv, OpenDrawer
    PROVE  BoardInv' /\ DrawerMoves
<1> USE DEF BoardInv
<1> DEFINE S == Overdue(data, override)
           v == DrawerWith(drawer, S, data, override)
<1>1. /\ ~drawer.open
      /\ drawer' = [v EXCEPT !.open = TRUE, !.retained = {}]
      /\ patches' = Detached(patches, "drawer", Len(drawer'.rows))
      /\ UNCHANGED <<day, row, late, gone, data, pollFailed, override, poll, hide, mainSig,
                     main, badge, clicks, changes, failures, wanted>>
  BY DEF OpenDrawer, server, bounds
<1>2. S \subseteq Listed(data)
  BY DEF Overdue
<1> HIDE DEF S
<1>3. DrawnFrom(v, drawer, S)
  BY <1>2, DrawerDrawn DEF DrawerInv, PageTyped, ReaderTyped
<1> HIDE DEF v
<1>4. /\ drawer' \in Drawers /\ drawer'.open = TRUE /\ drawer'.retained = {}
      /\ drawer'.rows = v.rows /\ drawer'.sig = v.sig /\ drawer'.rendered = S
  BY <1>1, <1>3 DEF DrawnFrom, Drawers
<1>5. DrawerOK(drawer') /\ Shows(drawer'.rows) = S
  BY <1>3, <1>4 DEF DrawerOK, DrawnFrom
<1>6. DrawerMoves
  BY <1>1, <1>2, <1>4, <1>5 DEF DrawerMoves, DrawerSwitched
<1>7. MainTyped' /\ CallsTyped' /\ From(patches', patches)
  BY <1>1, <1>5, DrawerCallsKept
<1>8. Shows(main') \subseteq Shows(main) \cup Listed(data)
  BY <1>1
<1>9. Shows(drawer'.rows) \subseteq Shows(drawer.rows) \cup Listed(data)
  BY <1>2, <1>5
<1>10. hide' \in BOOLEAN /\ badge' \in BOOLEAN
       /\ mainSig' \in [drawn : BOOLEAN, hide : BOOLEAN, kids : SUBSET Children]
  BY <1>1 DEF PageTyped
<1> QED
  BY <1>1, <1>6, <1>7, <1>8, <1>9, <1>10, OnlyDrawn

LEMMA CloseDrawerStep ==
    ASSUME BoardInv, CloseDrawer
    PROVE  BoardInv' /\ DrawerMoves
<1> USE DEF BoardInv
<1>1. /\ drawer.open
      /\ drawer' = [drawer EXCEPT !.open = FALSE, !.rendered = {}, !.retained = {}]
      /\ UNCHANGED <<day, row, late, gone, data, pollFailed, override, poll, hide, mainSig,
                     main, badge, patches, clicks, changes, failures, wanted>>
  BY DEF CloseDrawer, server, bounds
<1>2. /\ drawer' \in Drawers /\ drawer'.open = FALSE /\ drawer'.rendered = {}
      /\ drawer'.retained = {} /\ drawer'.rows = drawer.rows /\ drawer'.sig = drawer.sig
  BY <1>1 DEF DrawerInv, DrawerOK, Drawers
<1>3. DrawerOK(drawer')
  BY <1>2 DEF DrawerInv, DrawerOK
<1>4. DrawerMoves
  BY <1>1, <1>2, <1>3 DEF DrawerMoves, DrawerSwitched
<1>5. MainTyped' /\ CallsTyped' /\ From(patches', patches)
  BY <1>1, <1>2 DEF MainTyped, CallsTyped, From
<1>6. /\ Shows(main') \subseteq Shows(main) \cup Listed(data)
      /\ Shows(drawer'.rows) \subseteq Shows(drawer.rows) \cup Listed(data)
  BY <1>1, <1>2
<1>7. hide' \in BOOLEAN /\ badge' \in BOOLEAN
      /\ mainSig' \in [drawn : BOOLEAN, hide : BOOLEAN, kids : SUBSET Children]
  BY <1>1 DEF PageTyped
<1> QED
  BY <1>1, <1>4, <1>5, <1>6, <1>7, OnlyDrawn

-----------------------------------------------------------------------------
(* The steps of a PATCH and of its continuation.                           *)

LEMMA StagedCalls ==
    ASSUME CallsTyped, NEW q \in patches, NEW s \in {"sent", "applied", "failed"},
           patches' = Staged(q, s), UNCHANGED <<main, drawer>>
    PROVE  CallsTyped' /\ From(patches', patches)
<1> DEFINE r == [q EXCEPT !.stage = s]
<1>1. q \in Calls
  BY DEF CallsTyped
<1>2. /\ r \in Calls /\ r.child = q.child /\ r.value = q.value
      /\ r.list = q.list /\ r.node = q.node
  BY <1>1 DEF Calls
<1>3. patches' = (patches \ {q}) \cup {r}
  BY DEF Staged
<1> HIDE DEF r
<1>4. patches' \subseteq Calls /\ From(patches', patches)
  BY <1>2, <1>3 DEF CallsTyped, From
<1>5. IsFiniteSet(patches')
  <2> DEFINE R == patches \ {q}
  <2>1. IsFiniteSet(R)
    BY FS_RemoveElement DEF CallsTyped
  <2>2. patches' = R \cup {r}
    BY <1>3
  <2> HIDE DEF R
  <2> QED
    BY <2>1, <2>2, FS_AddElement
<1>6. Held(patches', Len(main), Len(drawer.rows))
  BY <1>2, <1>3 DEF CallsTyped, Held
<1> QED
  BY <1>4, <1>5, <1>6 DEF CallsTyped

LEMMA ApplyStep ==
    ASSUME BoardInv, NEW q \in patches, Apply(q)
    PROVE  BoardInv' /\ DrawerMoves
<1> USE DEF BoardInv
<1> DEFINE c == q.child
<1>1. /\ patches' = Staged(q, "applied")
      /\ row' = [row EXCEPT ![c] = IF @ = "absent" THEN @ ELSE q.value]
      /\ UNCHANGED <<day, late, gone, data, pollFailed, override, poll, hide, mainSig, main,
                     drawer, badge, clicks, changes, failures, wanted>>
  BY DEF Apply, Arrived, screen, bounds
<1>2. c \in Children /\ q.value \in Flags
  BY DEF CallsTyped, Calls
<1>3. CallsTyped' /\ From(patches', patches)
  BY <1>1, StagedCalls
<1>4. MainTyped' /\ DrawerMoves
  BY <1>1 DEF MainTyped, DrawerInv, DrawerMoves, DrawerSame
<1>5. /\ row' \in [Children -> States]
      /\ \A x \in Children : row'[x] = IF x = c /\ row[x] # "absent" THEN q.value ELSE row[x]
  BY <1>1, <1>2 DEF WorldTyped, States, Flags
<1> HIDE DEF c
<1>6. (WorldTyped /\ PageTyped /\ ReaderTyped)'
  BY <1>1, <1>5 DEF WorldTyped, PageTyped, ReaderTyped
<1>7. Known'
  BY <1>1, <1>2, <1>5 DEF Known, Unlisted, Flags
<1>8. Unclicked' /\ Asked'
  BY <1>1, <1>3, ClicksKept
<1>9. Followed'
  <2>1. Awaited(c) => q.value = wanted[c]
    BY DEF Asked, c
  <2> QED
    BY <1>1, <1>5, <2>1 DEF Followed, Awaited, Carried, Landed
<1> QED
  BY <1>3, <1>4, <1>6, <1>7, <1>8, <1>9, MovedDrawer

LEMMA PatchLostStep ==
    ASSUME BoardInv, NEW q \in patches, PatchLost(q)
    PROVE  BoardInv' /\ DrawerMoves
<1> USE DEF BoardInv
<1>1. /\ failures < day.failures /\ failures' = failures + 1
      /\ patches' = Staged(q, "failed")
      /\ UNCHANGED <<day, row, late, gone, data, pollFailed, override, poll, hide, mainSig,
                     main, drawer, badge, clicks, changes, wanted>>
  BY DEF PatchLost, screen, server
<1>2. CallsTyped' /\ From(patches', patches)
  BY <1>1, StagedCalls
<1>3. MainTyped' /\ DrawerMoves
  BY <1>1 DEF MainTyped, DrawerInv, DrawerMoves, DrawerSame
<1>4. (WorldTyped /\ PageTyped /\ ReaderTyped)'
  BY <1>1, DayTyped DEF WorldTyped, PageTyped, ReaderTyped
<1>5. Known'
  BY <1>1 DEF Known, Unlisted
<1>6. Unclicked' /\ Asked'
  BY <1>1, <1>2, ClicksKept DEF Unclicked
<1>7. Followed'
  BY <1>1 DEF Followed, Awaited, Carried, Landed
<1> QED
  BY <1>2, <1>3, <1>4, <1>5, <1>6, <1>7, MovedDrawer

(* A node is written in place: its row shows the same child.               *)
LEMMA NodeWritten ==
    ASSUME NEW rows \in Seq(Node), NEW p \in 1..Len(rows), NEW n \in Node,
           n.child = rows[p].child
    PROVE  LET r == [rows EXCEPT ![p] = n]
           IN /\ r \in Seq(Node) /\ Len(r) = Len(rows)
              /\ Shows(r) = Shows(rows)
              /\ Descending(rows) => Descending(r)
<1> DEFINE r == [rows EXCEPT ![p] = n]
<1>1. r \in Seq(Node) /\ Len(r) = Len(rows) /\ DOMAIN r = DOMAIN rows
  OBVIOUS
<1>2. \A i \in DOMAIN rows : r[i].child = rows[i].child
  OBVIOUS
<1> HIDE DEF r
<1> QED
  BY <1>1, <1>2, SameNames DEF r

(* The same of a drawer one of whose nodes is written.                     *)
LEMMA DrawerWritten ==
    ASSUME NEW w, DrawerOK(w), NEW p \in 1..Len(w.rows), NEW n \in Node,
           n.child = w.rows[p].child
    PROVE  LET v == [w EXCEPT !.rows = [w.rows EXCEPT ![p] = n]]
           IN /\ DrawerOK(v)
              /\ v.open = w.open /\ v.rendered = w.rendered
              /\ Len(v.rows) = Len(w.rows) /\ Shows(v.rows) = Shows(w.rows)
<1> DEFINE r == [w.rows EXCEPT ![p] = n]
           v == [w EXCEPT !.rows = r]
<1>1. w \in Drawers /\ w.rows \in Seq(Node) /\ Descending(w.rows)
  BY DEF DrawerOK, Drawers
<1>2. r \in Seq(Node) /\ Len(r) = Len(w.rows) /\ Shows(r) = Shows(w.rows) /\ Descending(r)
  BY <1>1, NodeWritten
<1> HIDE DEF r
<1>3. /\ v \in Drawers /\ v.rows = r /\ v.open = w.open /\ v.sig = w.sig
      /\ v.rendered = w.rendered /\ v.retained = w.retained
  BY <1>1, <1>2 DEF Drawers
<1> HIDE DEF v
<1>4. DrawerOK(v)
  BY <1>2, <1>3 DEF DrawerOK
<1> QED
  BY <1>2, <1>3, <1>4 DEF v, r

LEMMA SettleStep ==
    ASSUME BoardInv, NEW q \in patches, NEW box \in Flags, NEW relabelled \in BOOLEAN,
           Settle(q, box, relabelled)
    PROVE  /\ MainTyped' /\ CallsTyped' /\ DrawerMoves /\ From(patches', patches)
           /\ Shows(main') = Shows(main) /\ Shows(drawer'.rows) = Shows(drawer.rows)
<1> USE DEF BoardInv
<1> DEFINE settled(n) == [n EXCEPT !.box = box, !.busy = FALSE,
                                   !.label = IF relabelled THEN box ELSE @]
<1>1. /\ patches' = patches \ {q}
      /\ main' = IF q.list = "main" THEN [main EXCEPT ![q.node] = settled(main[q.node])] ELSE main
      /\ drawer' = IF q.list = "drawer"
                   THEN [drawer EXCEPT !.rows = [drawer.rows EXCEPT ![q.node] = settled(drawer.rows[q.node])]]
                   ELSE drawer
      /\ UNCHANGED <<data, pollFailed>>
  BY DEF Settle, Returned
<1>2. \A n \in Node : settled(n) \in Node /\ settled(n).child = n.child
  BY DEF Node
<1> HIDE DEF settled
<1>3. /\ main \in Seq(Node) /\ Len(main) <= N
      /\ DrawerOK(drawer) /\ drawer.rows \in Seq(Node)
  BY DEF MainTyped, DrawerInv, DrawerOK, Drawers
<1>4. q.list = "main" => q.node \in 1..Len(main)
  BY DEF CallsTyped, Held
<1>5. q.list = "drawer" => q.node \in 1..Len(drawer.rows)
  BY DEF CallsTyped, Held
<1>6. main' \in Seq(Node) /\ Len(main') = Len(main) /\ Shows(main') = Shows(main)
  <2>1. CASE q.list = "main"
    <3>1. main[q.node] \in Node
      BY <1>3, <1>4, <2>1
    <3> QED
      BY <1>1, <1>2, <1>3, <1>4, <2>1, <3>1, NodeWritten
  <2>2. CASE q.list # "main"
    BY <1>1, <1>3, <2>2
  <2> QED
    BY <2>1, <2>2
<1>7. /\ DrawerOK(drawer') /\ drawer'.open = drawer.open /\ drawer'.rendered = drawer.rendered
      /\ Len(drawer'.rows) = Len(drawer.rows) /\ Shows(drawer'.rows) = Shows(drawer.rows)
  <2>1. CASE q.list = "drawer"
    <3>1. drawer.rows[q.node] \in Node
      BY <1>3, <1>5, <2>1
    <3> QED
      BY <1>1, <1>2, <1>3, <1>5, <2>1, <3>1, DrawerWritten
  <2>2. CASE q.list # "drawer"
    BY <1>1, <1>3, <2>2
  <2> QED
    BY <2>1, <2>2
<1>8. DrawerMoves
  BY <1>1, <1>7 DEF DrawerMoves, DrawerSame
<1>9. CallsTyped'
  <2>1. IsFiniteSet(patches')
    BY <1>1, FS_RemoveElement DEF CallsTyped
  <2> QED
    BY <1>1, <1>6, <1>7, <2>1 DEF CallsTyped, Held
<1>10. From(patches', patches)
  BY <1>1 DEF From
<1> QED
  BY <1>3, <1>6, <1>7, <1>8, <1>9, <1>10 DEF MainTyped

LEMMA PatchDoneStep ==
    ASSUME BoardInv, NEW q \in patches, PatchDone(q)
    PROVE  BoardInv' /\ DrawerMoves
<1>1. Settle(q, q.value, FALSE) /\ q.value \in Flags
  BY DEF PatchDone, BoardInv, CallsTyped, Calls
<1>2. UNCHANGED <<day, row, late, gone, data, pollFailed, override, poll, hide, mainSig,
                  badge, clicks, changes, failures, wanted>>
  BY DEF PatchDone, Settle, server, bounds
<1>3. /\ MainTyped' /\ CallsTyped' /\ DrawerMoves /\ From(patches', patches)
      /\ Shows(main') = Shows(main) /\ Shows(drawer'.rows) = Shows(drawer.rows)
  BY <1>1, SettleStep
<1>4. hide' \in BOOLEAN /\ badge' \in BOOLEAN
      /\ mainSig' \in [drawn : BOOLEAN, hide : BOOLEAN, kids : SUBSET Children]
  BY <1>2 DEF BoardInv, PageTyped
<1> QED
  BY <1>2, <1>3, <1>4, OnlyDrawn

LEMMA PatchFailedStep ==
    ASSUME BoardInv, NEW q \in patches, PatchFailed(q)
    PROVE  BoardInv' /\ DrawerMoves
<1> DEFINE c == q.child
<1>1. Settle(q, q.prev, TRUE) /\ q.prev \in Flags /\ c \in Children
  BY DEF PatchFailed, BoardInv, CallsTyped, Calls
<1>2. /\ override' = [override EXCEPT ![c] = "none"]
      /\ wanted' = [wanted EXCEPT ![c] = "none"]
      /\ UNCHANGED <<day, row, late, gone, data, pollFailed, poll, hide, mainSig,
                     badge, clicks, changes, failures>>
  BY DEF PatchFailed, Settle, server, bounds
<1>3. /\ MainTyped' /\ CallsTyped' /\ DrawerMoves /\ From(patches', patches)
      /\ Shows(main') = Shows(main) /\ Shows(drawer'.rows) = Shows(drawer.rows)
  BY <1>1, SettleStep
<1> HIDE DEF c
<1> USE DEF BoardInv
<1>4. (WorldTyped /\ PageTyped /\ ReaderTyped)'
  BY <1>2 DEF WorldTyped, PageTyped, ReaderTyped, Overrides
<1>5. Known'
  BY <1>2, <1>3 DEF Known, Unlisted
<1>6. Unclicked' /\ Asked'
  BY <1>2, <1>3 DEF Unclicked, Asked, Awaited, From, ReaderTyped, Overrides, CallsTyped, Calls
<1>7. Followed'
  BY <1>2 DEF Followed, Awaited, Carried, Landed, ReaderTyped, Overrides
<1> QED
  BY <1>3, <1>4, <1>5, <1>6, <1>7, MovedDrawer

-----------------------------------------------------------------------------
(* The click.                                                              *)

(* Among one more ids than there are PATCHes, one is free.                 *)
LEMMA FreshId ==
    ASSUME IsFiniteSet(patches)
    PROVE  NewId \in Nat /\ \A q \in patches : q.id # NewId
<1> DEFINE n == Cardinality(patches)
<1>1. n \in Nat
  BY FS_CardinalityType
<1>2. \E i \in 1..(n + 1) : \A q \in patches : q.id # i
  <2> SUFFICES ASSUME \A i \in 1..(n + 1) : \E q \in patches : q.id = i
               PROVE  FALSE
    OBVIOUS
  <2> DEFINE f == [i \in 1..(n + 1) |-> CHOOSE q \in patches : q.id = i]
             S == 1..(n + 1)
  <2>1. \A i \in S : f[i] \in patches /\ f[i].id = i
    OBVIOUS
  <2>2. f \in [S -> patches]
    BY <2>1
  <2> HIDE DEF f, n
  <2>3. IsFiniteSet(S) /\ Cardinality(S) = n + 1
    BY <1>1, FS_Interval
  <2>4. n < n + 1
    BY <1>1
  <2> HIDE DEF S
  <2>5. Cardinality(patches) < Cardinality(S)
    BY <2>3, <2>4 DEF n
  <2>6. PICK i, j \in S : i # j /\ f[i] = f[j]
    BY <2>2, <2>3, <2>5, FS_PigeonHole
  <2> QED
    BY <2>1, <2>6
<1>3. NewId \in 1..(n + 1) /\ \A q \in patches : q.id # NewId
  BY <1>2 DEF NewId
<1> QED
  BY <1>1, <1>3

LEMMA ClickStep ==
    ASSUME BoardInv, NEW p \in DOMAIN (IF drawer.open THEN drawer.rows ELSE main), Click(p)
    PROVE  BoardInv' /\ DrawerMoves
<1> USE DEF BoardInv
<1> DEFINE rows == IF drawer.open THEN drawer.rows ELSE main
           node == rows[p]
           c == node.child
           v == Flip(node.box)
           honest == v # node.label /\ v # Shown(c, data, override) /\ v # poll.answer[c]
           struck == [node EXCEPT !.box = v, !.label = v, !.busy = TRUE]
           clicked == [rows EXCEPT ![p] = struck]
           w == IF drawer.open THEN [drawer EXCEPT !.rows = clicked] ELSE drawer
           call == [id |-> NewId, child |-> c, value |-> v, prev |-> node.label,
                    list |-> IF drawer.open THEN "drawer" ELSE "main",
                    node |-> p, stage |-> "sent"]
           sent == IF node.busy THEN {} ELSE {call}
           P == patches \cup sent
<1>1. /\ clicks[c] < day.clicks /\ clicks' = [clicks EXCEPT ![c] = @ + 1]
      /\ override' = IF node.busy THEN override ELSE [override EXCEPT ![c] = v]
      /\ wanted' = IF node.busy THEN wanted
                   ELSE [wanted EXCEPT ![c] = IF honest THEN v ELSE "none"]
      /\ main' = IF drawer.open THEN main ELSE clicked
      /\ UpdateOverdueUI(w, data, override', pollFailed) \/ (drawer' = w /\ UNCHANGED badge)
      /\ patches' = Detached(P, "drawer", Len(drawer'.rows))
      /\ UNCHANGED <<day, row, late, gone, data, pollFailed, poll, hide, mainSig, changes, failures>>
  BY DEF Click, server
<1>2. /\ main \in Seq(Node) /\ Len(main) <= N
      /\ drawer \in Drawers /\ DrawerOK(drawer) /\ drawer.rows \in Seq(Node)
      /\ Len(drawer.rows) <= N /\ drawer.open \in BOOLEAN
      /\ N \in Nat /\ Len(main) \in Nat /\ Len(drawer.rows) \in Nat
  BY BoardAssumption DEF MainTyped, DrawerInv, DrawerOK, Drawers
<1>3. rows \in Seq(Node) /\ p \in 1..Len(rows) /\ node \in Node /\ Len(rows) <= N
  BY <1>2
<1>4. c \in Children /\ node.label \in Flags /\ v \in Flags /\ struck \in Node /\ struck.child = c
  BY <1>3 DEF Node, Flip, Flags
<1>5. c \in Shows(IF drawer.open THEN drawer.rows ELSE main)
  BY <1>3 DEF Shows
<1> HIDE DEF v, honest, struck
<1>6. override' \in Overrides /\ wanted' \in Overrides /\ clicks' \in [Children -> 0..day.clicks]
  BY <1>1, <1>4, DayTyped DEF ReaderTyped, WorldTyped, Overrides
<1>7. (WorldTyped /\ ReaderTyped)'
  BY <1>1, <1>6 DEF WorldTyped, ReaderTyped
<1>8. main' \in Seq(Node) /\ Len(main') = Len(main) /\ Shows(main') = Shows(main)
  <2>1. CASE drawer.open
    BY <1>1, <1>2, <2>1
  <2>2. CASE ~drawer.open
    <3>1. main' = [main EXCEPT ![p] = struck] /\ p \in 1..Len(main) /\ struck.child = main[p].child
      BY <1>1, <1>3, <1>4, <2>2
    <3> QED
      BY <1>2, <1>4, <3>1, NodeWritten
  <2> QED
    BY <2>1, <2>2
<1>9. /\ DrawerOK(w) /\ w.open = drawer.open /\ w.rendered = drawer.rendered
      /\ Len(w.rows) = Len(drawer.rows) /\ Shows(w.rows) = Shows(drawer.rows)
  <2>1. CASE drawer.open
    <3>1. /\ w = [drawer EXCEPT !.rows = [drawer.rows EXCEPT ![p] = struck]]
          /\ p \in 1..Len(drawer.rows) /\ struck.child = drawer.rows[p].child
      BY <1>3, <1>4, <2>1
    <3> HIDE DEF w
    <3> QED
      BY <1>2, <1>4, <3>1, DrawerWritten
  <2>2. CASE ~drawer.open
    BY <1>2, <2>2
  <2> QED
    BY <2>1, <2>2
<1> HIDE DEF w
<1>10. DrawerMoves /\ badge' \in BOOLEAN /\ Shows(drawer'.rows) \subseteq Shows(drawer.rows)
  <2>1. CASE UpdateOverdueUI(w, data', override', pollFailed')
    BY <1>1, <1>6, <1>9, <2>1, OverdueDrawn DEF PageTyped
  <2>2. CASE drawer' = w /\ UNCHANGED badge
    BY <1>1, <1>9, <2>2 DEF DrawerMoves, DrawerSame, PageTyped
  <2> QED
    BY <1>1, <2>1, <2>2
<1>11. (PageTyped /\ MainTyped)'
  BY <1>1, <1>2, <1>8, <1>10 DEF PageTyped, MainTyped
<1>12. call \in Calls /\ Held({call}, Len(main), Len(drawer.rows)) /\ call.child = c /\ call.value = v
  <2>1. NewId \in Nat /\ p \in 0..N
    BY <1>2, <1>3, FreshId DEF CallsTyped
  <2> QED
    BY <1>2, <1>3, <1>4, <2>1 DEF Calls, Held
<1> HIDE DEF call
<1>13. /\ P \subseteq Calls /\ IsFiniteSet(P) /\ Held(P, Len(main), Len(drawer.rows))
  <2>1. CASE node.busy
    BY <2>1 DEF CallsTyped
  <2>2. CASE ~node.busy
    <3>1. P = patches \cup {call}
      BY <2>2
    <3> HIDE DEF P
    <3> QED
      BY <1>12, <3>1, FS_AddElement DEF CallsTyped, Held
  <2> QED
    BY <2>1, <2>2
<1>14. Len(drawer'.rows) \in 0..N
  BY <1>2, <1>10 DEF DrawerMoves, DrawerOK, Drawers
<1>15. /\ patches' \subseteq Calls /\ IsFiniteSet(patches')
       /\ Held(patches', Len(main), Len(drawer'.rows)) /\ From(patches', P)
  <2> HIDE DEF P
  <2> QED
    BY <1>1, <1>2, <1>13, <1>14, DetachedCalls DEF From
<1>16. CallsTyped'
  BY <1>8, <1>15 DEF CallsTyped
<1>17. Known'
  <2>1. ~Unlisted(c)
    BY <1>4, <1>5 DEF Known
  <2>2. \A x \in Children : x # c => clicks'[x] = clicks[x]
    BY <1>1, <1>4 DEF ReaderTyped
  <2> QED
    BY <1>1, <1>8, <1>10, <2>1, <2>2 DEF Known, Unlisted
<1>18. /\ \A x \in Children : x # c => /\ clicks'[x] = clicks[x] /\ override'[x] = override[x]
                                       /\ wanted'[x] = wanted[x]
       /\ clicks'[c] = clicks[c] + 1 /\ clicks[c] \in Nat
       /\ node.busy => wanted'[c] = wanted[c]
       /\ ~node.busy => /\ override'[c] = v
                        /\ wanted'[c] = IF honest THEN v ELSE "none"
  BY <1>1, <1>4, DayTyped DEF ReaderTyped, WorldTyped, Overrides
<1>19. \A q \in patches' : q.child \in Children /\ (\/ \E r \in patches : r.child = q.child /\ r.value = q.value
                                                    \/ ~node.busy /\ q.child = c /\ q.value = v)
  BY <1>12, <1>15 DEF From, Calls
<1> HIDE DEF P, sent, rows, node, c, clicked
<1>20. Unclicked'
  <2> SUFFICES ASSUME NEW x \in Children, clicks'[x] = 0
               PROVE  /\ override'[x] = "none" /\ wanted'[x] = "none"
                      /\ \A q \in patches' : q.child # x
    BY DEF Unclicked
  <2>1. x # c
    BY <1>18
  <2> QED
    BY <1>18, <1>19, <2>1 DEF Unclicked
<1>21. ASSUME clicks'[c] = 1, wanted'[c] # "none"
       PROVE  /\ ~node.busy /\ honest /\ wanted'[c] = v /\ override'[c] = v
              /\ \A q \in patches : q.child # c
  <2>1. clicks[c] = 0
    BY <1>18, <1>21
  <2>2. wanted[c] = "none" /\ \A q \in patches : q.child # c
    BY <1>4, <2>1 DEF Unclicked
  <2> QED
    BY <1>18, <1>21, <2>2
<1>22. Asked'
  <2> SUFFICES ASSUME NEW q \in patches', clicks'[q.child] = 1, wanted'[q.child] # "none"
               PROVE  q.value = wanted'[q.child]
    BY DEF Asked, Awaited
  <2>1. CASE q.child = c
    BY <1>19, <1>21, <2>1
  <2>2. CASE q.child # c
    BY <1>18, <1>19, <2>2 DEF Asked, Awaited
  <2> QED
    BY <2>1, <2>2
<1>23. Followed'
  <2> SUFFICES ASSUME NEW x \in Children, (Awaited(x))'
               PROVE  (Carried(x) \/ Landed(x))'
    BY DEF Followed
  <2>1. CASE x = c
    BY <1>1, <1>21, <2>1 DEF Awaited, Carried, honest
  <2>2. CASE x # c
    BY <1>1, <1>18, <2>2 DEF Followed, Awaited, Carried, Landed
  <2> QED
    BY <2>1, <2>2
<1> QED
  BY <1>7, <1>10, <1>11, <1>16, <1>17, <1>20, <1>22, <1>23, MovedDrawer

-----------------------------------------------------------------------------
(* The theorems.                                                           *)

LEMMA BoardInit == Init => BoardInv
<1> SUFFICES ASSUME Init PROVE BoardInv
  OBVIOUS
<1> USE DEF Init
<1>1. Nobody \in [Children -> States] /\ \A c \in Children : Nobody[c] = "absent"
  BY DEF Nobody, States
<1>2. WorldTyped
  BY <1>1, DayTyped DEF WorldTyped
<1>3. PageTyped
  BY <1>1 DEF PageTyped
<1>4. ReaderTyped
  BY DayTyped DEF ReaderTyped, Overrides
<1>5. MainTyped /\ Shows(main) = {}
  BY BoardAssumption DEF MainTyped, Shows
<1>6. CallsTyped
  BY FS_EmptySet DEF CallsTyped, Held
<1>7. DrawerInv /\ Shows(drawer.rows) = {}
  <2>1. drawer.rows = << >> /\ Shows(drawer.rows) = {}
    BY DEF Shows
  <2>2. drawer \in Drawers /\ Len(drawer.rows) <= N
    BY BoardAssumption DEF Drawers
  <2>3. Descending(drawer.rows)
    BY <2>1 DEF Descending
  <2> QED
    BY <2>1, <2>2, <2>3 DEF DrawerInv, DrawerOK
<1>8. Known
  BY <1>1, <1>5, <1>7 DEF Known
<1>9. Unclicked /\ Asked /\ Followed
  BY DEF Unclicked, Asked, Followed, Awaited
<1> QED
  BY <1>2, <1>3, <1>4, <1>5, <1>6, <1>7, <1>8, <1>9 DEF BoardInv

LEMMA BoardStep ==
    ASSUME BoardInv, Next
    PROVE  BoardInv' /\ DrawerMoves
<1>1. CASE World
  BY <1>1, ListStep, OtherDeviceStep, LapseStep, TimeStep DEF World
<1>2. CASE Polling
  BY <1>2, AskStep, ReceiveStep, PollFailsStep, TickStep DEF Polling
<1>3. CASE Reader
  BY <1>3, ToggleHideStep, OpenDrawerStep, CloseDrawerStep, ClickStep DEF Reader
<1>4. CASE Confirming
  BY <1>4, ApplyStep, PatchLostStep, PatchDoneStep, PatchFailedStep DEF Confirming
<1> QED
  BY <1>1, <1>2, <1>3, <1>4 DEF Next

LEMMA BoardStutters ==
    ASSUME BoardInv, UNCHANGED vars
    PROVE  BoardInv'
<1>1. UNCHANGED <<day, row, late, gone, data, pollFailed, override, poll, hide, mainSig, main,
                  drawer, badge, patches, clicks, changes, failures, wanted>>
  BY DEF vars, server, screen, bounds
<1> QED
  BY <1>1 DEF BoardInv, WorldTyped, PageTyped, ReaderTyped, MainTyped, CallsTyped, DrawerInv,
              Known, Unlisted, Unclicked, Asked, Followed, Awaited, Carried, Landed

THEOREM BoardInvariant == Spec => []BoardInv
<1>1. BoardInv /\ [Next]_vars => BoardInv'
  BY BoardStep, BoardStutters
<1> QED
  BY <1>1, BoardInit, PTL DEF Spec

LEMMA AtMostOne ==
    ASSUME NEW T, \A s, t \in T : s = t
    PROVE  Cardinality(T) <= 1
<1>1. CASE T = {}
  BY <1>1, FS_EmptySet
<1>2. CASE T # {}
  <2>1. PICK s : T = {s}
    BY <1>2
  <2> QED
    BY <2>1, FS_Singleton
<1> QED
  BY <1>1, <1>2

LEMMA InvTyped == BoardInv => TypeOK
<1> SUFFICES ASSUME BoardInv PROVE TypeOK
  OBVIOUS
<1> USE DEF BoardInv
<1>1. N \in Nat /\ 1..N = Children
  BY BoardAssumption DEF Children
<1>2. /\ main \in Seq(Node) /\ Len(main) <= N /\ Len(main) \in Nat
      /\ drawer \in Drawers /\ drawer.rows \in Seq(Node)
      /\ Len(drawer.rows) <= N /\ Len(drawer.rows) \in Nat
  BY DEF MainTyped, DrawerInv, DrawerOK, Drawers
<1>3. \A p \in DOMAIN main : main[p] \in Node
  BY <1>2
<1>4. \A p \in DOMAIN drawer.rows : drawer.rows[p] \in Node
  BY <1>2
<1>5. ASSUME NEW c \in Children
      PROVE  Cardinality({s \in drawer.sig : s[1] = c}) <= 1
  <2>1. \A s, t \in {s \in drawer.sig : s[1] = c} : s = t
    BY DEF DrawerInv, DrawerOK
  <2> QED
    BY <2>1, AtMostOne
<1>6. ASSUME NEW q \in patches
      PROVE  /\ q.id \in Nat /\ q.child \in Children /\ {q.value, q.prev} \subseteq Flags
             /\ <<q.list, q.node>> \in ({"main", "drawer"} \X Children) \cup {<<"none", 0>>}
             /\ q.list = "main" => q.node \in DOMAIN main
             /\ q.list = "drawer" => q.node \in DOMAIN drawer.rows
             /\ q.stage \in {"sent", "applied", "failed"}
  <2>1. q \in Calls
    BY DEF CallsTyped
  <2>2. \/ q.list = "main" /\ q.node \in 1..Len(main)
        \/ q.list = "drawer" /\ q.node \in 1..Len(drawer.rows)
        \/ q.list = "none" /\ q.node = 0
    BY DEF CallsTyped, Held
  <2>3. 1..Len(main) \subseteq Children /\ 1..Len(drawer.rows) \subseteq Children
    BY <1>1, <1>2
  <2>4. DOMAIN main = 1..Len(main) /\ DOMAIN drawer.rows = 1..Len(drawer.rows)
    BY <1>2
  <2>5. <<q.list, q.node>> \in ({"main", "drawer"} \X Children) \cup {<<"none", 0>>}
    BY <2>2, <2>3
  <2>6. /\ q.list = "main" => q.node \in DOMAIN main
        /\ q.list = "drawer" => q.node \in DOMAIN drawer.rows
    BY <2>2, <2>4
  <2> QED
    BY <2>1, <2>5, <2>6 DEF Calls
<1>7. /\ drawer.open \in BOOLEAN /\ drawer.sig \subseteq Children \X Flags
      /\ drawer.rendered \subseteq Children /\ drawer.retained \subseteq Children
  BY <1>2 DEF Drawers
<1> QED
  BY <1>2, <1>3, <1>4, <1>5, <1>6, <1>7
     DEF TypeOK, WorldTyped, PageTyped, ReaderTyped, Overrides, Node

(* Every variable of the board keeps its type, a PATCH in flight the node  *)
(* of a row on screen or none, and the drawer a child at most once, however *)
(* rows are rebuilt, detached and written under it (checkouts.js).         *)
THEOREM BoardTypes == Spec => []TypeOK
<1> QED
  BY BoardInvariant, InvTyped, PTL

LEMMA InvHolds == BoardInv => FirstClickHolds
<1> SUFFICES ASSUME BoardInv, NEW c \in Listed(data), Awaited(c)
             PROVE  Shown(c, data, override) = wanted[c]
  BY DEF FirstClickHolds, Awaited
<1>1. c \in Children /\ data[c] # "absent"
  BY DEF Listed
<1>2. Carried(c) \/ Landed(c)
  BY <1>1 DEF BoardInv, Followed
<1> QED
  BY <1>1, <1>2 DEF Carried, Landed, Shown, Awaited

(* Whatever polls are in flight at a first click, are asked or fail after  *)
(* it, and whenever its PATCH arrives, the reader goes on seeing the       *)
(* answer of that click, on any number of children (confirmationOverrides  *)
(* and the reconciliation in fetchChildrenData).                           *)
THEOREM FirstClick == Spec => []FirstClickHolds
<1> QED
  BY BoardInvariant, InvHolds, PTL

(* No step brings a row into an open drawer, moves one or takes one out    *)
(* that a successful poll still lists (updateOverdueUI).                   *)
THEOREM SteadyDrawer == Spec => DrawerSteady
<1>1. BoardInv /\ [Next]_vars => [SteadyStep]_vars
  BY BoardStep, MovedSteady DEF BoardInv
<1> QED
  BY <1>1, BoardInvariant, PTL DEF Spec, DrawerSteady, SteadyStep

=============================================================================
