---------------------------- MODULE EditingProofs ----------------------------
(***************************************************************************)
(* TLAPS proofs about the two parts whose rows are edited from several     *)
(* sides: Todos, for any lists, items, callers and teams, and Embedding,   *)
(* for any entries, texts, providers and dimensions.                       *)
(***************************************************************************)
EXTENDS Todos, Embedding, FiniteSetTheorems, SequenceTheorems, WellFoundedInduction, TLAPS

(***************************************************************************)
(* Inductive invariant of Todos: besides its types, what a handler holds   *)
(* is about rows whose ids were handed out, and what it is going to write  *)
(* are fields of an item.                                                  *)
(***************************************************************************)
TodoTables ==
  /\ list \in [Lists -> ListRows \cup {Unborn, Gone}]
  /\ item \in [Items -> ItemRows \cup {Unborn, Gone}]
  /\ \A i \in LiveItems : /\ item[i].list \in LiveLists
                          /\ item[i].completed <=> item[i].status = "done"

ItemOps == {"target", "write", "complete", "delete", "reorder"}
ListOps == {"editList", "deleteList", "insert"}

\* What is known of a request, and of the rows it is about.
Holding(q) ==
  /\ q.op \in ItemOps => q.item \in Items
  /\ q.op \in {"target", "write"} => q.read \in ItemRows
  /\ q.op \in ListOps => q.list \in Lists
  /\ q.op \in {"editList", "make"} => q.name \in Names
  /\ q.op = "insert" => q.team \in Teams
  /\ q.op = "write" => q.set \in Patches \cup [list : Lists, team : Teams]
  /\ q.op = "reorder" => q.after \in Items \cup {Top}
Handed(q) ==
  /\ q.op \in ItemOps => item[q.item] # Unborn
  /\ q.op \in ListOps => list[q.list] # Unborn

TodoInv ==
  /\ TodoTables
  /\ req = [c \in Callers |-> req[c]]
  /\ \A c \in Callers : Holding(req[c]) /\ Handed(req[c])

\* No id is ever unborn again.
IdsStay ==
  /\ \A i \in Items : item[i] # Unborn => item'[i] # Unborn
  /\ \A l \in Lists : list[l] # Unborn => list'[l] # Unborn
-----------------------------------------------------------------------------
(* The tables. *)

LEMMA RowsAreRows ==
  /\ Unborn \notin ItemRows /\ Gone \notin ItemRows /\ Unborn \notin ListRows /\ Gone \notin ListRows
  /\ Gone # Unborn
<1>1. DOMAIN Unborn = {"state"} /\ DOMAIN Gone = {"state"} /\ Unborn.state = "unborn" /\ Gone.state = "gone"
  BY DEF Unborn, Gone
<1>2. \A r \in ItemRows : "pos" \in DOMAIN r
  BY DEF ItemRows
<1>3. \A r \in ListRows : "name" \in DOMAIN r
  BY DEF ListRows
<1> QED BY <1>1, <1>2, <1>3

LEMMA ItemWritten ==
  ASSUME TodoTables, UNCHANGED list, NEW i \in Items, NEW row \in ItemRows, row.list \in LiveLists,
         row.completed <=> row.status = "done", item' = [item EXCEPT ![i] = row]
  PROVE  TodoTables' /\ IdsStay
<1>1. item' \in [Items -> ItemRows \cup {Unborn, Gone}] /\ item'[i] = row /\ \A j \in Items \ {i} : item'[j] = item[j]
  BY DEF TodoTables
<1>2. LiveLists' = LiveLists
  BY DEF LiveLists
<1>3. \A j \in LiveItems' : j = i \/ j \in LiveItems
  BY <1>1 DEF LiveItems
<1> QED BY <1>1, <1>2, <1>3, RowsAreRows DEF TodoTables, IdsStay, LiveItems

LEMMA ItemDeleted ==
  ASSUME TodoTables, UNCHANGED list, NEW i \in Items, item' = [item EXCEPT ![i] = Gone]
  PROVE  TodoTables' /\ IdsStay
<1>1. item' \in [Items -> ItemRows \cup {Unborn, Gone}] /\ item'[i] = Gone /\ \A j \in Items \ {i} : item'[j] = item[j]
  BY DEF TodoTables
<1>2. LiveLists' = LiveLists
  BY DEF LiveLists
<1>3. \A j \in LiveItems' : j # i /\ j \in LiveItems
  BY <1>1, RowsAreRows DEF LiveItems
<1> QED BY <1>1, <1>2, <1>3, RowsAreRows DEF TodoTables, IdsStay, LiveItems

LEMMA ListWritten ==
  ASSUME TodoTables, UNCHANGED item, NEW l \in Lists, NEW row \in ListRows, list' = [list EXCEPT ![l] = row]
  PROVE  TodoTables' /\ IdsStay
<1>1. list' \in [Lists -> ListRows \cup {Unborn, Gone}] /\ list'[l] = row /\ \A k \in Lists \ {l} : list'[k] = list[k]
  BY DEF TodoTables
<1>2. LiveLists \subseteq LiveLists' /\ LiveItems' = LiveItems
  BY <1>1 DEF LiveLists, LiveItems
<1> QED BY <1>1, <1>2, RowsAreRows DEF TodoTables, IdsStay

LEMMA ListDeleted ==
  ASSUME TodoTables, NEW l \in Lists, list' = [list EXCEPT ![l] = Gone],
         item' = [i \in Items |-> IF i \in ItemsOf(l) THEN Gone ELSE item[i]]
  PROVE  TodoTables' /\ IdsStay
<1>1. list' \in [Lists -> ListRows \cup {Unborn, Gone}] /\ list'[l] = Gone /\ \A k \in Lists \ {l} : list'[k] = list[k]
  BY DEF TodoTables
<1>2. /\ item' \in [Items -> ItemRows \cup {Unborn, Gone}]
      /\ \A i \in Items : item'[i] = IF i \in ItemsOf(l) THEN Gone ELSE item[i]
  BY DEF TodoTables
<1>3. \A i \in LiveItems' : i \in LiveItems /\ item'[i] = item[i] /\ item[i].list # l
  BY <1>2, RowsAreRows DEF LiveItems, ItemsOf
<1>4. \A k \in LiveLists : k # l => k \in LiveLists'
  BY <1>1 DEF LiveLists
<1> QED BY <1>1, <1>2, <1>3, <1>4, RowsAreRows DEF TodoTables, IdsStay, LiveItems
-----------------------------------------------------------------------------
(* A list in order, with an item put behind another. *)

LEMMA Listed ==
  ASSUME NEW S, IsFiniteSet(S), NEW s \in SetToSeqs(S)
  PROVE  /\ s \in Seq(S) /\ Len(s) = Cardinality(S) /\ Cardinality(S) \in Nat
         /\ \A j, k \in 1..Len(s) : s[j] = s[k] => j = k
         /\ \A x \in S : \E k \in 1..Len(s) : s[k] = x
<1> DEFINE D == 1..Cardinality(S)
<1>1. s \in [D -> S] /\ \A i, j \in D : i # j => s[i] # s[j]
  BY DEF SetToSeqs
<1>2. Cardinality(S) \in Nat
  BY FS_CardinalityType
<1>3. IsFiniteSet(D) /\ Cardinality(D) = Cardinality(S)
  BY <1>2, FS_Interval
<1>4. s \in Seq(S) /\ Len(s) = Cardinality(S)
  BY <1>1, <1>2
<1> HIDE DEF D
<1>5. s \in Injection(D, S)
  BY <1>1 DEF Injection, IsInjective
<1>6. s \in Surjection(D, S)
  BY <1>3, <1>5, FS_Injection
<1>7. \A x \in S : \E k \in D : s[k] = x
  BY <1>6 DEF Surjection
<1> QED BY <1>1, <1>2, <1>4, <1>7 DEF D

LEMMA Inserted ==
  ASSUME NEW S, NEW s \in Seq(S), NEW p \in 0..Len(s), NEW x
  PROVE  /\ InsertAt(s, p + 1, x) \in Seq(S \cup {x}) /\ Len(InsertAt(s, p + 1, x)) = Len(s) + 1
         /\ \A k \in 1..p : InsertAt(s, p + 1, x)[k] = s[k]
         /\ InsertAt(s, p + 1, x)[p + 1] = x
         /\ \A k \in (p + 1)..Len(s) : InsertAt(s, p + 1, x)[k + 1] = s[k]
<1> DEFINE a == SubSeq(s, 1, p)  b == SubSeq(s, p + 1, Len(s))  T == S \cup {x}
<1>1. InsertAt(s, p + 1, x) = a \o <<x>> \o b
  <2>1. InsertAt(s, p + 1, x) = SubSeq(s, 1, (p + 1) - 1) \o <<x>> \o SubSeq(s, p + 1, Len(s))
    BY DEF InsertAt
  <2>2. (p + 1) - 1 = p
    OBVIOUS
  <2> QED BY <2>1, <2>2
<1>2. a \in Seq(T) /\ Len(a) = p /\ \A k \in 1..p : a[k] = s[k]
  BY SubSeqProperties, SeqMonotonic
<1>3. b \in Seq(T) /\ Len(b) = Len(s) - p /\ \A k \in 1..(Len(s) - p) : b[k] = s[p + k]
  BY SubSeqProperties, SeqMonotonic
<1> DEFINE u == <<x>>
<1>4. u \in Seq(T) /\ Len(u) = 1 /\ u[1] = x
  OBVIOUS
<1>5. p \in Nat /\ Len(s) \in Nat /\ p <= Len(s)
  OBVIOUS
<1> HIDE DEF a, b, T, u
<1> DEFINE c == a \o u
<1>6. c \in Seq(T) /\ Len(c) = p + 1 /\ \A k \in 1..(p + 1) : c[k] = IF k <= p THEN a[k] ELSE u[k - p]
  <2>1. /\ c \in Seq(T) /\ Len(c) = Len(a) + Len(u)
        /\ \A k \in 1..(Len(a) + Len(u)) : c[k] = IF k <= Len(a) THEN a[k] ELSE u[k - Len(a)]
    BY <1>2, <1>4, ConcatProperties
  <2> HIDE DEF c
  <2> QED BY <1>2, <1>4, <2>1
<1>7. (\A k \in 1..p : c[k] = s[k]) /\ c[p + 1] = x
  <2> HIDE DEF c
  <2>1. p + 1 \in 1..(p + 1) /\ (p + 1) - p = 1 /\ ~(p + 1 <= p)
    BY <1>5
  <2>2. \A k \in 1..p : k \in 1..(p + 1) /\ k <= p
    BY <1>5
  <2> QED BY <1>2, <1>4, <1>6, <2>1, <2>2
<1> HIDE DEF c
<1> DEFINE w == c \o b
<1>8. w \in Seq(T) /\ Len(w) = Len(s) + 1
      /\ \A k \in 1..(Len(s) + 1) : w[k] = IF k <= p + 1 THEN c[k] ELSE b[k - (p + 1)]
  <2>1. (p + 1) + (Len(s) - p) = Len(s) + 1
    BY <1>5
  <2>2. /\ w \in Seq(T) /\ Len(w) = Len(c) + Len(b)
        /\ \A k \in 1..(Len(c) + Len(b)) : w[k] = IF k <= Len(c) THEN c[k] ELSE b[k - Len(c)]
    BY <1>3, <1>6, ConcatProperties
  <2> HIDE DEF w
  <2> QED BY <1>3, <1>6, <2>1, <2>2
<1>9. InsertAt(s, p + 1, x) = w
  BY <1>1 DEF c, u
<1> HIDE DEF w
<1>10. \A k \in 1..p : w[k] = s[k]
  <2> TAKE k \in 1..p
  <2>1. k \in 1..(Len(s) + 1) /\ k <= p + 1
    BY <1>5
  <2> QED BY <1>7, <1>8, <2>1
<1>11. w[p + 1] = x
  <2>1. p + 1 \in 1..(Len(s) + 1) /\ p + 1 <= p + 1
    BY <1>5
  <2> QED BY <1>7, <1>8, <2>1
<1>12. \A k \in (p + 1)..Len(s) : w[k + 1] = s[k]
  <2> TAKE k \in (p + 1)..Len(s)
  <2>1. /\ k + 1 \in 1..(Len(s) + 1) /\ ~(k + 1 <= p + 1) /\ (k + 1) - (p + 1) = k - p
        /\ k - p \in 1..(Len(s) - p) /\ p + (k - p) = k
    BY <1>5
  <2>2. w[k + 1] = b[k - p]
    BY <1>8, <2>1
  <2>3. b[k - p] = s[p + (k - p)]
    BY <1>3, <2>1
  <2> QED BY <2>1, <2>2, <2>3
<1> QED BY <1>8, <1>9, <1>10, <1>11, <1>12 DEF T

\* A bounded set of numbers has a greatest one.
LEMMA MaxIs ==
  ASSUME NEW n \in Nat, NEW S \in SUBSET (0..n), S # {}
  PROVE  Max(S) \in S /\ \A y \in S : Max(S) >= y
<1> DEFINE R == {e \in Nat \X Nat : e[1] < e[2]}  B == {m \in Nat : \A y \in S : m >= y}
<1>1. IsWellFoundedOn(R, Nat)
  BY NatLessThanWellFounded DEF OpToRel
<1>2. n \in B /\ B \subseteq Nat
  OBVIOUS
<1> HIDE DEF R
<1>3. PICK m \in B : \A k \in B : <<k, m>> \notin R
  <2> HIDE DEF B
  <2> QED BY <1>1, <1>2, WFMin
<1>4. m \in S
  <2>1. CASE m = 0
    <3>1. PICK y \in S : TRUE
      OBVIOUS
    <3>2. y \in 0..n /\ m >= y
      BY <1>3, <3>1
    <3>3. y = m
      BY <2>1, <3>2
    <3> QED BY <3>3
  <2>2. CASE m # 0
    <3>1. m - 1 \in Nat /\ <<m - 1, m>> \in R
      BY <2>2 DEF R
    <3>2. m - 1 \notin B
      BY <1>3, <3>1
    <3> QED BY <1>3, <3>1, <3>2
  <2> QED BY <2>1, <2>2
<1>5. m \in S /\ \A y \in S : m >= y
  BY <1>3, <1>4
<1> HIDE DEF B
<1> QED BY <1>5 DEF Max

LEMMA LastPosition ==
  ASSUME TodoTables, NEW l
  PROVE  LastPos(l) \in 0..MaxPos
<1> DEFINE P == {item[i].pos : i \in ItemsOf(l)}
<1>1. CASE ItemsOf(l) = {}
  BY <1>1, BoundAssumption DEF LastPos
<1>2. CASE ItemsOf(l) # {}
  <2>1. P \in SUBSET (0..MaxPos) /\ P # {}
    BY <1>2, BoundAssumption DEF ItemsOf, LiveItems, ItemRows
  <2>2. Max(P) \in P
    <3> HIDE DEF P
    <3> QED BY <2>1, MaxIs, BoundAssumption
  <2>3. LastPos(l) = Max(P)
    BY <1>2 DEF LastPos
  <2> HIDE DEF P
  <2> QED BY <2>1, <2>2, <2>3
<1> QED BY <1>1, <1>2

\* Where an element is in a sequence of distinct ones.
At(s, x) == CHOOSE k \in 1..Len(s) : s[k] = x

\* s lists S; w lists i with it, i behind `after' or first, the others in the order of s.
InPlace(S, i, s, after, w) ==
  /\ ToSet(w) = S \cup {i} /\ Len(w) = Cardinality(S \cup {i}) /\ Len(w) \in Nat
  /\ \A k \in 1..Len(w) : At(w, w[k]) = k
  /\ \A x \in S \cup {i} : At(w, x) \in 1..Len(w) /\ w[At(w, x)] = x
  /\ At(w, i) = IF after \in S THEN At(w, after) + 1 ELSE 1
  /\ \A x \in S : At(s, x) \in 1..Len(s) /\ s[At(s, x)] = x
  /\ \A x, y \in S : At(s, x) < At(s, y) => At(w, x) < At(w, y)

LEMMA Placed ==
  ASSUME NEW S, IsFiniteSet(S), NEW i, i \notin S, NEW s \in SetToSeqs(S), NEW after,
         NEW w, w = PlaceAfter(s, i, after)
  PROVE  InPlace(S, i, s, after, w)
<1> DEFINE n == Len(s)  p == IF after \in ToSet(s) THEN At(s, after) ELSE 0
<1>1. /\ s \in Seq(S) /\ n = Cardinality(S) /\ n \in Nat
      /\ \A j, k \in 1..n : s[j] = s[k] => j = k
      /\ \A x \in S : \E k \in 1..n : s[k] = x
  BY Listed
<1>2. ToSet(s) = S
  BY <1>1 DEF ToSet
<1>3. \A x \in S : At(s, x) \in 1..n /\ s[At(s, x)] = x
  BY <1>1 DEF At
<1>4. p \in 0..n /\ (after \in S => s[p] = after /\ p >= 1) /\ (after \notin S => p = 0)
  BY <1>1, <1>2, <1>3
<1>5. w = InsertAt(s, p + 1, i)
  BY DEF PlaceAfter, At
<1> HIDE DEF p, n
<1>6. /\ w \in Seq(S \cup {i}) /\ Len(w) = n + 1
      /\ \A k \in 1..p : w[k] = s[k]
      /\ w[p + 1] = i
      /\ \A k \in (p + 1)..n : w[k + 1] = s[k]
  BY <1>1, <1>4, <1>5, Inserted DEF n
<1>7. Cardinality(S \cup {i}) = n + 1
  BY <1>1, FS_AddElement
<1> DEFINE moved(k) == IF k <= p THEN k ELSE k + 1
<1>8. \A k \in 1..n : moved(k) \in 1..(n + 1) /\ moved(k) # p + 1 /\ w[moved(k)] = s[k]
  <2> TAKE k \in 1..n
  <2>1. CASE k <= p
    <3>1. k \in 1..p
      BY <2>1, <1>4, <1>1
    <3> QED BY <3>1, <2>1, <1>6, <1>4, <1>1
  <2>2. CASE ~(k <= p)
    <3>1. k \in (p + 1)..n
      BY <2>2, <1>4, <1>1
    <3> QED BY <3>1, <2>2, <1>6, <1>4, <1>1
  <2> QED BY <2>1, <2>2
<1>9. \A m \in 1..(n + 1) : m = p + 1 \/ \E k \in 1..n : m = moved(k)
  <2> TAKE m \in 1..(n + 1)
  <2>1. CASE m <= p
    BY <2>1, <1>1, <1>4
  <2>2. CASE m > p + 1
    <3>1. m - 1 \in 1..n /\ moved(m - 1) = m
      BY <2>2, <1>1, <1>4
    <3> QED BY <3>1
  <2> QED BY <2>1, <2>2, <1>1, <1>4
<1>10. \A j, k \in 1..n : j < k => moved(j) < moved(k)
  BY <1>1, <1>4
<1>11. \A k \in 1..n : s[k] \in S
  BY <1>1 DEF n
<1> HIDE DEF moved
<1>12. \A j, k \in 1..(n + 1) : w[j] = w[k] => j = k
  <2> TAKE j, k \in 1..(n + 1)
  <2> HAVE w[j] = w[k]
  <2>1. CASE j = p + 1 /\ k = p + 1
    BY <2>1
  <2>2. CASE j = p + 1 /\ k # p + 1
    BY <2>2, <1>6, <1>8, <1>9, <1>11
  <2>3. CASE j # p + 1 /\ k = p + 1
    BY <2>3, <1>6, <1>8, <1>9, <1>11
  <2>4. CASE j # p + 1 /\ k # p + 1
    <3>1. PICK a \in 1..n : j = moved(a)
      BY <2>4, <1>9
    <3>2. PICK b \in 1..n : k = moved(b)
      BY <2>4, <1>9
    <3>3. s[a] = s[b]
      BY <3>1, <3>2, <1>8
    <3> QED BY <3>1, <3>2, <3>3, <1>1
  <2> QED BY <2>1, <2>2, <2>3, <2>4
<1>13. \A k \in 1..Len(w) : At(w, w[k]) = k
  BY <1>6, <1>12 DEF At
<1>14. \A x \in S : At(w, x) = moved(At(s, x))
  BY <1>3, <1>8, <1>13, <1>6
<1>15. At(w, i) = p + 1
  BY <1>13, <1>6, <1>4, <1>1
<1>16. \A x \in S \cup {i} : At(w, x) \in 1..Len(w) /\ w[At(w, x)] = x
  <2>1. p + 1 \in 1..Len(w) /\ w[p + 1] = i
    BY <1>1, <1>4, <1>6
  <2>2. \A x \in S : At(w, x) \in 1..Len(w) /\ w[At(w, x)] = x
    BY <1>3, <1>6, <1>8, <1>14
  <2> QED BY <1>15, <2>1, <2>2
<1>17. ToSet(w) = S \cup {i}
  BY <1>16, <1>6 DEF ToSet
<1>18. At(w, i) = IF after \in S THEN At(w, after) + 1 ELSE 1
  <2>1. CASE after \in S
    <3>1. At(s, after) = p
      BY <2>1, <1>2 DEF p
    <3>2. At(w, after) = p
      BY <3>1, <2>1, <1>14, <1>4, <1>1 DEF moved
    <3> QED BY <3>2, <2>1, <1>15
  <2>2. CASE after \notin S
    BY <2>2, <1>15, <1>4
  <2> QED BY <2>1, <2>2
<1>19. \A x, y \in S : At(s, x) < At(s, y) => At(w, x) < At(w, y)
  BY <1>3, <1>10, <1>14
<1> QED BY <1>1, <1>3, <1>6, <1>7, <1>13, <1>16, <1>17, <1>18, <1>19 DEF n, InPlace

\* What a committed reorder leaves behind, in terms of the tables before it.
Reordered(i, after) ==
  \A l \in {item[i].list} :
    /\ item' \in [Items -> ItemRows \cup {Unborn, Gone}]
    /\ \A j \in Items \ ItemsOf(l) : item'[j] = item[j]
    /\ \A j \in ItemsOf(l) : /\ item'[j] \in ItemRows /\ item'[j].list = l
                             /\ item'[j].status = item[j].status /\ item'[j].completed = item[j].completed
    /\ {item'[j].pos : j \in ItemsOf(l)} = 1..Cardinality(ItemsOf(l))
    /\ item'[i].pos = IF after \in ItemsOf(l) \ {i} THEN item'[after].pos + 1 ELSE 1
    /\ \A j, k \in ItemsOf(l) \ {i} : item[j].pos < item[k].pos => item'[j].pos < item'[k].pos

LEMMA Renumbered ==
  ASSUME TodoTables, NEW i \in LiveItems, NEW after,
         NEW s \in InOrder(ItemsOf(item[i].list) \ {i}), Renumber(PlaceAfter(s, i, after))
  PROVE  Reordered(i, after)
<1> DEFINE l == item[i].list  I == ItemsOf(l)  S == I \ {i}  w == PlaceAfter(s, i, after)
<1>1. I \subseteq LiveItems /\ I \subseteq Items /\ IsFiniteSet(I) /\ i \in I /\ Cardinality(I) <= MaxPos
  <2>1. I \subseteq LiveItems /\ I \subseteq Items /\ i \in I
    BY DEF ItemsOf, LiveItems
  <2>2. IsFiniteSet(I) /\ Cardinality(I) <= Cardinality(Items) /\ Cardinality(I) \in Nat /\ Cardinality(Items) \in Nat
    BY <2>1, FS_Subset, FS_CardinalityType, BoundAssumption
  <2> QED BY <2>1, <2>2, BoundAssumption
<1>2. IsFiniteSet(S) /\ i \notin S /\ S \cup {i} = I
  <2>1. S \in SUBSET I
    OBVIOUS
  <2>2. IsFiniteSet(S)
    BY <1>1, <2>1, FS_Subset
  <2> QED BY <1>1, <2>2
<1>3. s \in SetToSeqs(S) /\ \A j, k \in 1..Len(s) : j < k => item[s[j]].pos <= item[s[k]].pos
  BY DEF InOrder
<1>4. \A j \in I : item[j] \in ItemRows
  BY <1>1 DEF LiveItems
<1> HIDE DEF I, S, w
<1>5. /\ ToSet(w) = I /\ Len(w) = Cardinality(I) /\ Len(w) \in Nat
      /\ \A k \in 1..Len(w) : At(w, w[k]) = k
      /\ \A x \in I : At(w, x) \in 1..Len(w) /\ w[At(w, x)] = x
      /\ At(w, i) = IF after \in S THEN At(w, after) + 1 ELSE 1
      /\ \A x \in S : At(s, x) \in 1..Len(s) /\ s[At(s, x)] = x
      /\ \A x, y \in S : At(s, x) < At(s, y) => At(w, x) < At(w, y)
  <2>1. w = PlaceAfter(s, i, after)
    BY DEF w
  <2>2. IsFiniteSet(S) /\ i \notin S /\ s \in SetToSeqs(S)
    BY <1>2, <1>3
  <2>3. InPlace(S, i, s, after, w)
    BY <2>1, <2>2, Placed
  <2> QED BY <1>2, <2>3 DEF InPlace
<1>6. item' = [j \in Items |-> IF j \in I THEN [item[j] EXCEPT !.pos = At(w, j)] ELSE item[j]]
  BY <1>5 DEF Renumber, At, w
<1>7. \A j \in I : At(w, j) \in 1..MaxPos
  BY <1>1, <1>5, BoundAssumption
<1>8. \A j \in I : /\ item'[j] \in ItemRows /\ item'[j].list = item[j].list /\ item'[j].pos = At(w, j)
                   /\ item'[j].status = item[j].status /\ item'[j].completed = item[j].completed
  <2> TAKE j \in I
  <2>1. item'[j] = [item[j] EXCEPT !.pos = At(w, j)]
    BY <1>1, <1>6
  <2>2. item[j] \in [list : Lists, team : Teams, status : {"open", "done"}, completed : BOOLEAN, pos : 1..MaxPos]
    BY <1>4 DEF ItemRows
  <2>3. item'[j] = [list |-> item[j].list, team |-> item[j].team, status |-> item[j].status,
                    completed |-> item[j].completed, pos |-> At(w, j)]
    BY <2>1, <2>2
  <2> QED BY <1>7, <2>2, <2>3 DEF ItemRows
<1>9. \A j \in Items \ I : item'[j] = item[j]
  BY <1>6
<1>10. \A j \in I : item[j].list = l
  BY DEF I, ItemsOf
<1>11. item' \in [Items -> ItemRows \cup {Unborn, Gone}]
  <2>1. \A j \in Items : item'[j] \in ItemRows \cup {Unborn, Gone}
    BY <1>8, <1>9 DEF TodoTables
  <2>2. item' = [j \in Items |-> item'[j]]
    BY <1>6
  <2> QED BY <2>1, <2>2
<1>12. {item'[j].pos : j \in I} = 1..Cardinality(I)
  <2>1. ASSUME NEW j \in I PROVE item'[j].pos \in 1..Cardinality(I)
    BY <1>5, <1>8
  <2>2. ASSUME NEW k \in 1..Cardinality(I) PROVE \E j \in I : item'[j].pos = k
    <3>1. w[k] \in I
      BY <1>5 DEF ToSet
    <3>2. item'[w[k]].pos = k
      BY <1>5, <1>8, <3>1
    <3> QED BY <3>1, <3>2
  <2> QED BY <2>1, <2>2
<1>13. item'[i].pos = IF after \in S THEN item'[after].pos + 1 ELSE 1
  BY <1>1, <1>2, <1>5, <1>8
<1>14. ASSUME NEW j \in S, NEW k \in S, item[j].pos < item[k].pos PROVE item'[j].pos < item'[k].pos
  <2> DEFINE a == At(s, j)  b == At(s, k)
  <2>1. a \in 1..Len(s) /\ b \in 1..Len(s) /\ s[a] = j /\ s[b] = k
    BY <1>5
  <2>2. item[j].pos \in Nat /\ item[k].pos \in Nat
    BY <1>2, <1>4 DEF ItemRows
  <2>3. Len(s) \in Nat
    BY <1>2, <1>3, Listed
  <2> HIDE DEF a, b
  <2>4. a < b
    <3>1. CASE b < a
      BY <1>3, <1>14, <2>1, <2>2, <3>1
    <3>2. CASE a = b
      BY <1>14, <2>1, <2>2, <3>2
    <3> QED BY <2>1, <2>3, <3>1, <3>2
  <2>5. At(w, j) < At(w, k)
    BY <1>5, <2>4 DEF a, b
  <2> QED BY <1>2, <1>8, <2>5
<1> QED BY <1>8, <1>9, <1>10, <1>11, <1>12, <1>13, <1>14 DEF Reordered, I, S

LEMMA ReorderKeepsTables ==
  ASSUME TodoTables, UNCHANGED list, NEW i \in LiveItems, NEW after, Reordered(i, after)
  PROVE  /\ TodoTables' /\ IdsStay
         /\ {j \in LiveItems' : item'[j].list = item[i].list} = ItemsOf(item[i].list)
<1> DEFINE l == item[i].list  I == ItemsOf(l)
<1>1. LiveLists' = LiveLists
  BY DEF LiveLists
<1>2. I \subseteq Items /\ \A j \in I : j \in LiveItems /\ item[j].list = l
  BY DEF ItemsOf, LiveItems
<1>3. /\ item' \in [Items -> ItemRows \cup {Unborn, Gone}]
      /\ \A j \in Items \ I : item'[j] = item[j]
      /\ \A j \in I : /\ item'[j] \in ItemRows /\ item'[j].list = l
                      /\ item'[j].status = item[j].status /\ item'[j].completed = item[j].completed
  BY DEF Reordered
<1> HIDE DEF I
<1>4. LiveItems' = LiveItems
  BY <1>2, <1>3 DEF LiveItems
<1>5. TodoTables'
  <2>1. UNCHANGED list /\ list \in [Lists -> ListRows \cup {Unborn, Gone}]
    BY DEF TodoTables
  <2>2. ASSUME NEW j \in LiveItems
        PROVE  item'[j].list \in LiveLists /\ (item'[j].completed <=> item'[j].status = "done")
    <3>1. /\ item[j].list \in LiveLists /\ (item[j].completed <=> item[j].status = "done")
          /\ j \in Items
      BY DEF TodoTables, LiveItems
    <3>2. CASE j \in I
      BY <1>2, <1>3, <3>1, <3>2
    <3>3. CASE j \notin I
      BY <1>3, <3>1, <3>3
    <3> QED BY <3>2, <3>3
  <2> QED BY <1>1, <1>3, <1>4, <2>1, <2>2 DEF TodoTables
<1>6. IdsStay
  BY <1>2, <1>3, RowsAreRows DEF IdsStay, LiveItems
<1>7. {j \in LiveItems : item'[j].list = l} = ItemsOf(l)
  <2>1. i \in I /\ LiveItems \subseteq Items
    BY DEF I, ItemsOf, LiveItems
  <2>2. \A j \in LiveItems : j \in I <=> item[j].list = l
    BY DEF I, ItemsOf
  <2> QED BY <1>3, <2>1, <2>2 DEF I, ItemsOf
<1> QED BY <1>4, <1>5, <1>6, <1>7
-----------------------------------------------------------------------------
(* The invariant. *)

\* A request is still about rows that have been there after the step.
Later(q) ==
  /\ q.op \in ItemOps => item'[q.item] # Unborn
  /\ q.op \in ListOps => list'[q.list] # Unborn

LEMMA Tables ==
  ASSUME TodoTables, UNCHANGED <<list, item>>
  PROVE  TodoTables' /\ IdsStay
BY DEF TodoTables, IdsStay, LiveItems, LiveLists

LEMMA Requested ==
  ASSUME TodoInv, TodoTables', IdsStay, NEW c \in Callers,
         req' = [req EXCEPT ![c] = req'[c]], Holding(req'[c]), Later(req'[c])
  PROVE  TodoInv'
<1>1. req' = [d \in Callers |-> req'[d]] /\ \A d \in Callers : d # c => req'[d] = req[d]
  BY DEF TodoInv
<1>2. ASSUME NEW d \in Callers PROVE Holding(req'[d]) /\ Handed(req[d])' 
  <2>1. CASE d = c
    BY <2>1 DEF Handed, Later
  <2>2. CASE d # c
    <3>1. req'[d] = req[d] /\ Holding(req[d]) /\ Handed(req[d])
      BY <1>1, <2>2 DEF TodoInv
    <3>2. Handed(req[d])'
      BY <3>1 DEF Handed, Holding, IdsStay
    <3> QED BY <3>1, <3>2
  <2> QED BY <2>1, <2>2
<1> QED BY <1>1, <1>2 DEF TodoInv

LEMMA Answered ==
  ASSUME TodoInv, TodoTables', IdsStay, NEW c \in Callers, Answers(c)
  PROVE  TodoInv'
<1>1. req'[c] = Idle /\ req' = [req EXCEPT ![c] = req'[c]]
  BY DEF Answers, Keeps, TodoInv
<1>2. Holding(Idle) /\ Later(Idle)
  BY DEF Idle, Holding, Later, ItemOps, ListOps
<1> QED BY <1>1, <1>2, Requested

LEMMA Begun ==
  ASSUME TodoInv, UNCHANGED <<list, item>>, NEW c \in Callers,
         req' = [req EXCEPT ![c] = req'[c]], Holding(req'[c]), Handed(req'[c])
  PROVE  TodoInv'
<1>1. TodoTables' /\ IdsStay
  BY Tables DEF TodoInv
<1>2. Later(req'[c])
  BY DEF Later, Handed
<1> QED BY <1>1, <1>2, Requested

LEMMA Live ==
  /\ \A i \in LiveItems : i \in Items /\ item[i] \in ItemRows /\ item[i] # Unborn
  /\ \A l \in LiveLists : l \in Lists /\ list[l] \in ListRows /\ list[l] # Unborn /\ list[l].team \in Teams
BY RowsAreRows DEF LiveItems, LiveLists, ListRows

LEMMA ReadListKeeps ==
  ASSUME TodoInv, NEW c \in Callers, NEW l, NEW n \in Names, ReadList(c, l, n)
  PROVE  TodoInv'
<1> DEFINE q == [op |-> "editList", list |-> l, name |-> n]
<1>1. UNCHANGED <<list, item>> /\ req' = [req EXCEPT ![c] = q]
  BY DEF ReadList, Keeps
<1>2. l \in Lists /\ list[l] # Unborn
  BY Live DEF ReadList, CanSeeList, CanSeeItem, TodoInv
<1>3. Holding(q) /\ Handed(q)
  BY <1>2 DEF Holding, Handed, ItemOps, ListOps
<1> HIDE DEF q
<1>4. req'[c] = q
  BY <1>1 DEF TodoInv
<1> QED BY <1>1, <1>3, <1>4, Begun

LEMMA ReadListToDeleteKeeps ==
  ASSUME TodoInv, NEW c \in Callers, NEW l, ReadListToDelete(c, l)
  PROVE  TodoInv'
<1> DEFINE q == [op |-> "deleteList", list |-> l]
<1>1. UNCHANGED <<list, item>> /\ req' = [req EXCEPT ![c] = q]
  BY DEF ReadListToDelete, Keeps
<1>2. l \in Lists /\ list[l] # Unborn
  BY Live DEF ReadListToDelete, CanSeeList, CanSeeItem, TodoInv
<1>3. Holding(q) /\ Handed(q)
  BY <1>2 DEF Holding, Handed, ItemOps, ListOps
<1> HIDE DEF q
<1>4. req'[c] = q
  BY <1>1 DEF TodoInv
<1> QED BY <1>1, <1>3, <1>4, Begun

LEMMA AddToKeeps ==
  ASSUME TodoInv, NEW c \in Callers, NEW l, AddTo(c, l)
  PROVE  TodoInv'
<1> DEFINE q == [op |-> "insert", list |-> l, team |-> list[l].team]
<1>1. UNCHANGED <<list, item>> /\ req' = [req EXCEPT ![c] = q]
  BY DEF AddTo, Keeps
<1>2. l \in Lists /\ list[l] # Unborn /\ list[l].team \in Teams
  BY Live DEF AddTo, CanSeeList, CanSeeItem, TodoInv
<1>3. Holding(q) /\ Handed(q)
  BY <1>2 DEF Holding, Handed, ItemOps, ListOps
<1> HIDE DEF q
<1>4. req'[c] = q
  BY <1>1 DEF TodoInv
<1> QED BY <1>1, <1>3, <1>4, Begun

LEMMA ResolveMissingKeeps ==
  ASSUME TodoInv, NEW c \in Callers, NEW n \in Names, ResolveMissing(c, n)
  PROVE  TodoInv'
<1> DEFINE q == [op |-> "make", name |-> n]
<1>1. UNCHANGED <<list, item>> /\ req' = [req EXCEPT ![c] = q]
  BY DEF ResolveMissing, Keeps
<1>2. n \in Names
  BY Live DEF ResolveMissing, CanSeeList, CanSeeItem, TodoInv
<1>3. Holding(q) /\ Handed(q)
  BY <1>2 DEF Holding, Handed, ItemOps, ListOps
<1> HIDE DEF q
<1>4. req'[c] = q
  BY <1>1 DEF TodoInv
<1> QED BY <1>1, <1>3, <1>4, Begun

LEMMA ReadTodoKeeps ==
  ASSUME TodoInv, NEW c \in Callers, NEW i, NEW p \in Patches, ReadTodo(c, i, p)
  PROVE  TodoInv'
<1> DEFINE q == [op |-> "write", item |-> i, read |-> item[i], set |-> p]
<1>1. UNCHANGED <<list, item>> /\ req' = [req EXCEPT ![c] = q]
  BY DEF ReadTodo, Keeps
<1>2. i \in Items /\ item[i] # Unborn /\ item[i] \in ItemRows
  BY Live DEF ReadTodo, CanSeeList, CanSeeItem, TodoInv
<1>3. Holding(q) /\ Handed(q)
  BY <1>2 DEF Holding, Handed, ItemOps, ListOps
<1> HIDE DEF q
<1>4. req'[c] = q
  BY <1>1 DEF TodoInv
<1> QED BY <1>1, <1>3, <1>4, Begun

LEMMA ReadTodoToMoveKeeps ==
  ASSUME TodoInv, NEW c \in Callers, NEW i, ReadTodoToMove(c, i)
  PROVE  TodoInv'
<1> DEFINE q == [op |-> "target", item |-> i, read |-> item[i]]
<1>1. UNCHANGED <<list, item>> /\ req' = [req EXCEPT ![c] = q]
  BY DEF ReadTodoToMove, Keeps
<1>2. i \in Items /\ item[i] # Unborn /\ item[i] \in ItemRows
  BY Live DEF ReadTodoToMove, CanSeeList, CanSeeItem, TodoInv
<1>3. Holding(q) /\ Handed(q)
  BY <1>2 DEF Holding, Handed, ItemOps, ListOps
<1> HIDE DEF q
<1>4. req'[c] = q
  BY <1>1 DEF TodoInv
<1> QED BY <1>1, <1>3, <1>4, Begun

LEMMA ReadTodoToCompleteKeeps ==
  ASSUME TodoInv, NEW c \in Callers, NEW i, ReadTodoToComplete(c, i)
  PROVE  TodoInv'
<1> DEFINE q == [op |-> "complete", item |-> i]
<1>1. UNCHANGED <<list, item>> /\ req' = [req EXCEPT ![c] = q]
  BY DEF ReadTodoToComplete, Keeps
<1>2. i \in Items /\ item[i] # Unborn
  BY Live DEF ReadTodoToComplete, CanSeeList, CanSeeItem, TodoInv
<1>3. Holding(q) /\ Handed(q)
  BY <1>2 DEF Holding, Handed, ItemOps, ListOps
<1> HIDE DEF q
<1>4. req'[c] = q
  BY <1>1 DEF TodoInv
<1> QED BY <1>1, <1>3, <1>4, Begun

LEMMA ReadTodoToDeleteKeeps ==
  ASSUME TodoInv, NEW c \in Callers, NEW i, ReadTodoToDelete(c, i)
  PROVE  TodoInv'
<1> DEFINE q == [op |-> "delete", item |-> i]
<1>1. UNCHANGED <<list, item>> /\ req' = [req EXCEPT ![c] = q]
  BY DEF ReadTodoToDelete, Keeps
<1>2. i \in Items /\ item[i] # Unborn
  BY Live DEF ReadTodoToDelete, CanSeeList, CanSeeItem, TodoInv
<1>3. Holding(q) /\ Handed(q)
  BY <1>2 DEF Holding, Handed, ItemOps, ListOps
<1> HIDE DEF q
<1>4. req'[c] = q
  BY <1>1 DEF TodoInv
<1> QED BY <1>1, <1>3, <1>4, Begun

LEMMA ReadTodoToReorderKeeps ==
  ASSUME TodoInv, NEW c \in Callers, NEW i, NEW after \in Items \cup {Top}, ReadTodoToReorder(c, i, after)
  PROVE  TodoInv'
<1> DEFINE q == [op |-> "reorder", item |-> i, after |-> after]
<1>1. UNCHANGED <<list, item>> /\ req' = [req EXCEPT ![c] = q]
  BY DEF ReadTodoToReorder, Keeps
<1>2. i \in Items /\ item[i] # Unborn
  BY Live DEF ReadTodoToReorder, CanSeeList, CanSeeItem, TodoInv
<1>3. Holding(q) /\ Handed(q)
  BY <1>2 DEF Holding, Handed, ItemOps, ListOps
<1> HIDE DEF q
<1>4. req'[c] = q
  BY <1>1 DEF TodoInv
<1> QED BY <1>1, <1>3, <1>4, Begun

\* What is held by the request that makes this step.
LEMMA Held ==
  ASSUME TodoInv, NEW c \in Callers
  PROVE  /\ Holds(c, "write") \/ Holds(c, "target") => req[c].item \in Items /\ req[c].read \in ItemRows
         /\ req[c].op \in ItemOps => req[c].item \in Items /\ item[req[c].item] # Unborn
         /\ req[c].op \in ListOps => req[c].list \in Lists /\ list[req[c].list] # Unborn
         /\ Holds(c, "editList") \/ Holds(c, "make") => req[c].name \in Names
         /\ Holds(c, "insert") => req[c].team \in Teams
         /\ Holds(c, "write") => req[c].set \in Patches \cup [list : Lists, team : Teams]
         /\ Holds(c, "reorder") => req[c].after \in Items \cup {Top}
BY DEF TodoInv, Holding, Handed, Holds, ItemOps

LEMMA Inserting ==
  ASSUME TodoInv, NEW c \in Callers, NEW l, NEW n \in Names, l \in Lists, InsertList(c, l, n), UNCHANGED item
  PROVE  TodoTables' /\ IdsStay /\ list'[l] \in ListRows
<1>1. [team |-> Home[c], name |-> n] \in ListRows
  BY CallersAssumption DEF ListRows
<1>2. list'[l] = [team |-> Home[c], name |-> n]
  BY DEF InsertList, TodoInv, TodoTables
<1> QED BY <1>1, <1>2, ListWritten DEF InsertList, TodoInv

LEMMA CreateListKeeps ==
  ASSUME TodoInv, NEW c \in Callers, NEW l \in Lists, NEW n \in Names, CreateList(c, l, n)
  PROVE  TodoInv'
<1>1. TodoTables' /\ IdsStay
  BY Inserting DEF CreateList
<1>2. ASSUME NEW d \in Callers PROVE Holding(req'[d]) /\ Handed(req[d])'
  <2>1. req'[d] = req[d] /\ Holding(req[d]) /\ Handed(req[d])
    BY DEF CreateList, TodoInv
  <2> QED BY <1>1, <2>1 DEF Handed, Holding, IdsStay
<1> QED BY <1>1, <1>2 DEF CreateList, TodoInv

LEMMA MakeListKeeps ==
  ASSUME TodoInv, NEW c \in Callers, NEW l \in Lists, MakeList(c, l)
  PROVE  TodoInv'
<1> DEFINE q == [op |-> "insert", list |-> l, team |-> Home[c]]
<1>1. req' = [req EXCEPT ![c] = q] /\ req[c].name \in Names
  BY Held DEF MakeList, Keeps
<1>2. TodoTables' /\ IdsStay /\ list'[l] \in ListRows
  BY <1>1, Inserting DEF MakeList
<1>3. Holding(q) /\ Later(q)
  BY <1>2, CallersAssumption, RowsAreRows DEF Holding, Later, ItemOps, ListOps
<1> HIDE DEF q
<1>4. req'[c] = q
  BY <1>1 DEF TodoInv
<1> QED BY <1>1, <1>2, <1>3, <1>4, Requested

LEMMA ResolveFoundKeeps ==
  ASSUME TodoInv, NEW c \in Callers, NEW n \in Names, ResolveFound(c, n)
  PROVE  TodoInv'
<1>1. PICK l \in Named(c, n) : Keeps(c, [op |-> "insert", list |-> l, team |-> Home[c]])
  BY DEF ResolveFound
<1> DEFINE q == [op |-> "insert", list |-> l, team |-> Home[c]]
<1>2. UNCHANGED <<list, item>> /\ req' = [req EXCEPT ![c] = q]
  BY <1>1 DEF ResolveFound, Keeps
<1>3. l \in Lists /\ list[l] # Unborn
  BY Live DEF Named
<1>4. Holding(q) /\ Handed(q)
  BY <1>3, CallersAssumption DEF Holding, Handed, ItemOps, ListOps
<1> HIDE DEF q
<1>5. req'[c] = q
  BY <1>2 DEF TodoInv
<1> QED BY <1>2, <1>4, <1>5, Begun

LEMMA ReadTargetKeeps ==
  ASSUME TodoInv, NEW c \in Callers, NEW l, ReadTarget(c, l)
  PROVE  TodoInv'
<1> DEFINE q == [op |-> "write", item |-> req[c].item, read |-> req[c].read,
                 set |-> [list |-> l, team |-> list[l].team]]
<1>1. UNCHANGED <<list, item>> /\ req' = [req EXCEPT ![c] = q]
  BY DEF ReadTarget, Keeps
<1>2. /\ l \in Lists /\ list[l].team \in Teams
      /\ req[c].item \in Items /\ item[req[c].item] # Unborn /\ req[c].read \in ItemRows
  BY Live, Held DEF ReadTarget, CanSeeList, Holds, ItemOps
<1>3. Holding(q) /\ Handed(q)
  BY <1>2 DEF Holding, Handed, ItemOps, ListOps
<1> HIDE DEF q
<1>4. req'[c] = q
  BY <1>1 DEF TodoInv
<1> QED BY <1>1, <1>3, <1>4, Begun

LEMMA UpdateListKeeps ==
  ASSUME TodoInv, NEW c \in Callers, UpdateList(c)
  PROVE  TodoInv'
<1> DEFINE l == req[c].list  n == req[c].name
<1>1. Answers(c) /\ UNCHANGED item /\ n \in Names
  BY Held DEF UpdateList
<1>2. CASE l \in LiveLists
  <2>1. l \in Lists /\ list[l] \in [team : Teams, name : Names]
    BY <1>2, Live DEF ListRows
  <2>2. [list[l] EXCEPT !.name = n] = [team |-> list[l].team, name |-> n]
    BY <2>1
  <2>3. [list[l] EXCEPT !.name = n] \in ListRows
    BY <1>1, <2>1, <2>2 DEF ListRows
  <2>4. list' = [list EXCEPT ![l] = [list[l] EXCEPT !.name = n]]
    BY <1>2, <2>1 DEF UpdateList
  <2>5. TodoTables' /\ IdsStay
    BY <1>1, <2>1, <2>3, <2>4, ListWritten DEF TodoInv
  <2> QED BY <1>1, <2>5, Answered
<1>3. CASE l \notin LiveLists
  BY <1>1, <1>3, Tables, Answered DEF UpdateList, TodoInv
<1> QED BY <1>2, <1>3

LEMMA DeleteListKeeps ==
  ASSUME TodoInv, NEW c \in Callers, DeleteList(c)
  PROVE  TodoInv'
<1>1. req[c].list \in Lists
  BY Held DEF DeleteList, Holds, ListOps
<1>2. TodoTables' /\ IdsStay
  BY <1>1, ListDeleted DEF DeleteList, TodoInv
<1> QED BY <1>2, Answered DEF DeleteList

LEMMA CreateTodoKeeps ==
  ASSUME TodoInv, NEW c \in Callers, NEW i \in Items, NEW s \in {"open", "done"}, CreateTodo(c, i, s)
  PROVE  TodoInv'
<1> DEFINE l == req[c].list
           row == [list |-> l, team |-> req[c].team, status |-> s, completed |-> s = "done",
                   pos |-> LastPos(l) + 1]
<1>1. /\ l \in LiveLists /\ l \in Lists /\ req[c].team \in Teams
      /\ LastPos(l) \in 0..MaxPos /\ LastPos(l) < MaxPos
  BY Held, Live, LastPosition DEF CreateTodo, TodoInv
<1>2. row \in ItemRows
  BY <1>1, BoundAssumption DEF ItemRows
<1>3. row.list = l /\ (row.completed <=> row.status = "done")
  OBVIOUS
<1>4. item' = [item EXCEPT ![i] = row] /\ UNCHANGED list /\ Answers(c)
  BY DEF CreateTodo
<1> HIDE DEF row
<1>5. TodoTables' /\ IdsStay
  BY <1>1, <1>2, <1>3, <1>4, ItemWritten DEF TodoInv
<1> QED BY <1>4, <1>5, Answered

LEMMA UpdateTodoKeeps ==
  ASSUME TodoInv, NEW c \in Callers, UpdateTodo(c)
  PROVE  TodoInv'
<1> DEFINE i == req[c].item  new == Overlay(req[c].set, req[c].read)
           row == [list |-> new.list, team |-> item[i].team, status |-> new.status,
                   completed |-> new.status = "done", pos |-> new.pos]
<1>1. Answers(c) /\ UNCHANGED list
  BY DEF UpdateTodo
<1>2. CASE i \in LiveItems /\ new.list \in LiveLists
  <2>1. i \in Items /\ item[i].team \in Teams
    BY <1>2, Live DEF ItemRows
  <2>2. new.status \in {"open", "done"} /\ new.pos \in 1..MaxPos
    <3>1. /\ req[c].read \in [list : Lists, team : Teams, status : {"open", "done"},
                              completed : BOOLEAN, pos : 1..MaxPos]
          /\ req[c].set \in [{"status"} -> {"open", "done"}] \cup [{"pos"} -> 1..MaxPos]
                            \cup [list : Lists, team : Teams]
      BY Held DEF UpdateTodo, ItemRows, Patches
    <3> QED BY <3>1 DEF Overlay
  <2>3. row \in ItemRows
    BY <1>2, <2>1, <2>2, Live DEF ItemRows
  <2>4. row.list = new.list /\ (row.completed <=> row.status = "done")
    OBVIOUS
  <2>5. item' = [item EXCEPT ![i] = row]
    BY <1>2 DEF UpdateTodo
  <2> HIDE DEF row
  <2>6. TodoTables' /\ IdsStay
    BY <1>1, <1>2, <2>1, <2>3, <2>4, <2>5, ItemWritten DEF TodoInv
  <2> QED BY <1>1, <2>6, Answered
<1>3. CASE ~(i \in LiveItems /\ new.list \in LiveLists)
  <2>1. UNCHANGED <<list, item>>
    BY <1>3 DEF UpdateTodo
  <2> QED BY <1>1, <2>1, Tables, Answered DEF TodoInv
<1> QED BY <1>2, <1>3

LEMMA CompleteTodoKeeps ==
  ASSUME TodoInv, NEW c \in Callers, CompleteTodo(c)
  PROVE  TodoInv'
<1> DEFINE i == req[c].item
           row == [list |-> item[i].list, team |-> item[i].team, status |-> "done", completed |-> TRUE,
                   pos |-> item[i].pos]
<1>1. Answers(c) /\ UNCHANGED list
  BY DEF CompleteTodo
<1>2. CASE i \in LiveItems
  <2>1. i \in Items /\ item[i].list \in LiveLists
        /\ item[i] \in [list : Lists, team : Teams, status : {"open", "done"}, completed : BOOLEAN, pos : 1..MaxPos]
    BY <1>2, Live DEF ItemRows, TodoInv, TodoTables
  <2> DEFINE undone == [list |-> item[i].list, team |-> item[i].team, status |-> "done",
                        completed |-> item[i].completed, pos |-> item[i].pos]
  <2>2. [[item[i] EXCEPT !.status = "done"] EXCEPT !.completed = TRUE] = row
    <3>1. [item[i] EXCEPT !.status = "done"] = undone
      BY <2>1
    <3>2. \A yes : [undone EXCEPT !.completed = yes] =
            [list |-> item[i].list, team |-> item[i].team, status |-> "done", completed |-> yes, pos |-> item[i].pos]
      OBVIOUS
    <3>3. [undone EXCEPT !.completed = TRUE] = row
      BY <3>2, Zenon
    <3> HIDE DEF undone
    <3> QED BY <3>1, <3>3
  <2>3. item' = [item EXCEPT ![i] = row]
    <3>1. item' = [item EXCEPT ![i].status = "done", ![i].completed = TRUE]
      BY <1>2 DEF CompleteTodo
    <3>2. item' = [item EXCEPT ![i] = [[item[i] EXCEPT !.status = "done"] EXCEPT !.completed = TRUE]]
      BY <3>1, <2>1 DEF TodoInv, TodoTables
    <3> QED BY <2>2, <3>2
  <2>4. row \in ItemRows /\ row.list = item[i].list /\ (row.completed <=> row.status = "done")
    BY <2>1 DEF ItemRows
  <2> HIDE DEF row
  <2>5. TodoTables' /\ IdsStay
    BY <1>1, <2>1, <2>3, <2>4, ItemWritten DEF TodoInv
  <2> QED BY <1>1, <2>5, Answered
<1>3. CASE i \notin LiveItems
  <2>1. UNCHANGED <<list, item>>
    BY <1>3 DEF CompleteTodo
  <2> QED BY <1>1, <2>1, Tables, Answered DEF TodoInv
<1> QED BY <1>2, <1>3

LEMMA DeleteTodoKeeps ==
  ASSUME TodoInv, NEW c \in Callers, DeleteTodo(c)
  PROVE  TodoInv'
<1>1. req[c].item \in Items
  BY Held DEF DeleteTodo, Holds, ItemOps
<1>2. TodoTables' /\ IdsStay
  BY <1>1, ItemDeleted DEF DeleteTodo, TodoInv
<1> QED BY <1>2, Answered DEF DeleteTodo

LEMMA ReorderSteps ==
  ASSUME TodoInv, NEW c \in Callers, ReorderTodo(c)
  PROVE  IF ReorderFinds(c) THEN req[c].item \in LiveItems /\ Reordered(req[c].item, req[c].after)
         ELSE UNCHANGED item
<1>1. CASE ReorderFinds(c)
  <2> DEFINE i == req[c].item  after == req[c].after
  <2>1. i \in LiveItems
    BY <1>1 DEF ReorderFinds
  <2>2. PICK s \in InOrder(ItemsOf(item[i].list) \ {i}) : Renumber(PlaceAfter(s, i, after))
    BY <1>1 DEF ReorderTodo
  <2>3. TodoTables
    BY DEF TodoInv
  <2> HIDE DEF i, after
  <2>4. Reordered(i, after)
    BY <2>1, <2>2, <2>3, Renumbered
  <2> QED BY <1>1, <2>1, <2>4 DEF i, after
<1>2. CASE ~ReorderFinds(c)
  BY <1>2 DEF ReorderTodo
<1> QED BY <1>1, <1>2

LEMMA ReorderTodoKeeps ==
  ASSUME TodoInv, NEW c \in Callers, ReorderTodo(c)
  PROVE  TodoInv'
<1>1. Answers(c) /\ UNCHANGED list /\ TodoTables
  BY DEF ReorderTodo, TodoInv
<1>2. TodoTables' /\ IdsStay
  <2>1. CASE ReorderFinds(c)
    BY <1>1, <2>1, ReorderSteps, ReorderKeepsTables
  <2>2. CASE ~ReorderFinds(c)
    BY <1>1, <2>2, ReorderSteps, Tables
  <2> QED BY <2>1, <2>2
<1> QED BY <1>1, <1>2, Answered

LEMMA TodoInitHolds == TodoInit => TodoInv
<1> SUFFICES ASSUME TodoInit PROVE TodoInv
  OBVIOUS
<1>1. LiveItems = {}
  BY RowsAreRows DEF TodoInit, LiveItems
<1>2. TodoTables
  BY <1>1 DEF TodoInit, TodoTables
<1>3. Holding(Idle) /\ Handed(Idle)
  BY DEF Idle, Holding, Handed, ItemOps, ListOps
<1> QED BY <1>2, <1>3 DEF TodoInit, TodoInv

LEMMA TodoStep == TodoInv /\ [TodoNext]_todoVars => TodoInv'
<1> SUFFICES ASSUME TodoInv, [TodoNext]_todoVars PROVE TodoInv'
  OBVIOUS
<1>1. CASE UNCHANGED todoVars
  <2>1. TodoTables' /\ IdsStay
    BY <1>1, Tables DEF TodoInv, todoVars
  <2>2. req' = req
    BY <1>1 DEF todoVars
  <2> QED BY <2>1, <2>2 DEF TodoInv, Holding, Handed, IdsStay
<1>2. ASSUME NEW c \in Callers, NEW l \in Lists, NEW n \in Names, CreateList(c, l, n) \/ ReadList(c, l, n)
      PROVE  TodoInv'
  BY <1>2, CreateListKeeps, ReadListKeeps
<1>3. ASSUME NEW c \in Callers, UpdateList(c) \/ DeleteList(c) \/ UpdateTodo(c) \/ CompleteTodo(c)
                                \/ DeleteTodo(c) \/ ReorderTodo(c)
      PROVE  TodoInv'
  BY <1>3, UpdateListKeeps, DeleteListKeeps, UpdateTodoKeeps, CompleteTodoKeeps, DeleteTodoKeeps, ReorderTodoKeeps
<1>4. ASSUME NEW c \in Callers, NEW l, RejectItem(c) \/ TargetRefused(c, l)
      PROVE  TodoInv'
  <2>1. UNCHANGED <<list, item>> /\ Answers(c)
    BY <1>4 DEF RejectItem, TargetRefused
  <2>2. TodoTables' /\ IdsStay
    BY <2>1, Tables DEF TodoInv
  <2> QED BY <2>1, <2>2, Answered
<1>5. ASSUME NEW c \in Callers, NEW l \in Lists,
             ReadListToDelete(c, l) \/ AddTo(c, l) \/ MakeList(c, l) \/ ReadTarget(c, l)
      PROVE  TodoInv'
  BY <1>5, ReadListToDeleteKeeps, AddToKeeps, MakeListKeeps, ReadTargetKeeps
<1>6. ASSUME NEW c \in Callers, NEW n \in Names, ResolveFound(c, n) \/ ResolveMissing(c, n)
      PROVE  TodoInv'
  BY <1>6, ResolveFoundKeeps, ResolveMissingKeeps
<1>7. ASSUME NEW c \in Callers, NEW i \in Items, NEW s \in {"open", "done"}, CreateTodo(c, i, s)
      PROVE  TodoInv'
  BY <1>7, CreateTodoKeeps
<1>8. ASSUME NEW c \in Callers, NEW i \in Items, NEW p \in Patches, ReadTodo(c, i, p)
      PROVE  TodoInv'
  BY <1>8, ReadTodoKeeps
<1>9. ASSUME NEW c \in Callers, NEW i \in Items,
             ReadTodoToMove(c, i) \/ ReadTodoToComplete(c, i) \/ ReadTodoToDelete(c, i)
      PROVE  TodoInv'
  BY <1>9, ReadTodoToMoveKeeps, ReadTodoToCompleteKeeps, ReadTodoToDeleteKeeps
<1>10. ASSUME NEW c \in Callers, NEW i \in Items, NEW a \in Items \cup {Top}, ReadTodoToReorder(c, i, a)
       PROVE  TodoInv'
  BY <1>10, ReadTodoToReorderKeeps
<1> QED BY <1>1, <1>2, <1>3, <1>4, <1>5, <1>6, <1>7, <1>8, <1>9, <1>10 DEF TodoNext

(* Whatever requests interleave, the tables refer to rows there are and the *)
(* requests in progress to rows that have been (todos_sqlite.go).           *)
THEOREM TodosInvariant == TodoSpec => []TodoInv
<1>1. TodoInit => TodoInv
  BY TodoInitHolds
<1>2. TodoInv /\ [TodoNext]_todoVars => TodoInv'
  BY TodoStep
<1> QED BY <1>1, <1>2, PTL DEF TodoSpec

(* Every item lies in a list that exists and is done exactly when it has a  *)
(* completion time, whatever creations, moves and stale write-backs race   *)
(* the deletion of their list.                                             *)
THEOREM TodosTyped == TodoSpec => []TodoTypeOK
<1>1. TodoInv => TodoTypeOK
  <2> SUFFICES ASSUME TodoInv PROVE TodoTypeOK
    OBVIOUS
  <2>1. TodoTables
    BY DEF TodoInv
  <2>2. ASSUME NEW c \in Callers
        PROVE  /\ req[c].op \in {"target", "write", "complete", "delete", "reorder"} =>
                    item[req[c].item] # Unborn
               /\ req[c].op \in {"target", "write"} => req[c].read \in ItemRows
               /\ req[c].op \in {"editList", "deleteList", "insert"} => list[req[c].list] # Unborn
    BY DEF TodoInv, Holding, Handed, ItemOps, ListOps
  <2> QED BY <2>1, <2>2 DEF TodoTypeOK, TodoTables
<1> QED BY <1>1, TodosInvariant, PTL
-----------------------------------------------------------------------------
(* Reordering. *)

\* Only a reorder answers a request to reorder.
LEMMA OnlyReorder ==
  ASSUME TodoInv, [TodoNext]_todoVars, NEW c \in Callers, Holds(c, "reorder"), req'[c] = Idle
  PROVE  ReorderTodo(c)
<1>1. req[c].op = "reorder" /\ req[c] # Idle /\ req'[c] # req[c] /\ req = [d \in Callers |-> req[d]]
  BY DEF Holds, Idle, TodoInv
<1>2. ASSUME NEW d \in Callers, NEW q, req' = [req EXCEPT ![d] = q] PROVE d = c
  BY <1>1, <1>2
<1>3. ~UNCHANGED req
  BY <1>1
<1>4. ASSUME NEW d \in Callers, UpdateList(d) \/ DeleteList(d) \/ RejectItem(d) \/ UpdateTodo(d)
                                \/ CompleteTodo(d) \/ DeleteTodo(d)
      PROVE  FALSE
  <2>1. d = c
    BY <1>2, <1>4 DEF UpdateList, DeleteList, RejectItem, UpdateTodo, CompleteTodo, DeleteTodo, Answers, Keeps
  <2> QED BY <1>1, <1>4, <2>1
          DEF UpdateList, DeleteList, RejectItem, UpdateTodo, CompleteTodo, DeleteTodo, Holds
<1>5. ASSUME NEW d \in Callers, NEW l, NEW n, CreateList(d, l, n) PROVE FALSE
  BY <1>3, <1>5 DEF CreateList
<1>6. ASSUME NEW d \in Callers, NEW l, NEW n,
             \/ ReadList(d, l, n) \/ ReadListToDelete(d, l) \/ AddTo(d, l) \/ MakeList(d, l)
             \/ ReadTarget(d, l) \/ TargetRefused(d, l) \/ ResolveFound(d, n) \/ ResolveMissing(d, n)
      PROVE  FALSE
  <2>1. d = c
    BY <1>2, <1>6 DEF ReadList, ReadListToDelete, AddTo, MakeList, ReadTarget, TargetRefused,
       ResolveFound, ResolveMissing, Answers, Keeps
  <2> QED BY <1>1, <1>6, <2>1 DEF ReadList, ReadListToDelete, AddTo, MakeList, ReadTarget, TargetRefused,
          ResolveFound, ResolveMissing, Holds, Asks
<1>7. ASSUME NEW d \in Callers, NEW i, NEW s, NEW p, NEW a,
             \/ CreateTodo(d, i, s) \/ ReadTodo(d, i, p) \/ ReadTodoToMove(d, i)
             \/ ReadTodoToComplete(d, i) \/ ReadTodoToDelete(d, i) \/ ReadTodoToReorder(d, i, a)
      PROVE  FALSE
  <2>1. d = c
    BY <1>2, <1>7 DEF CreateTodo, ReadTodo, ReadTodoToMove, ReadTodoToComplete, ReadTodoToDelete,
       ReadTodoToReorder, Answers, Keeps
  <2> QED BY <1>1, <1>7, <2>1 DEF CreateTodo, ReadTodo, ReadTodoToMove, ReadTodoToComplete,
          ReadTodoToDelete, ReadTodoToReorder, Holds, Asks
<1>8. ASSUME NEW d \in Callers, ReorderTodo(d) PROVE ReorderTodo(c)
  <2>1. d = c
    BY <1>2, <1>8 DEF ReorderTodo, Answers, Keeps
  <2> QED BY <1>8, <2>1
<1>9. TodoNext
  BY <1>3 DEF todoVars
<1> QED BY <1>4, <1>5, <1>6, <1>7, <1>8, <1>9 DEF TodoNext

LEMMA ReorderIsExact ==
  ASSUME TodoInv, NEW c \in Callers, ReorderTodo(c)
  PROVE  IF ~ReorderFinds(c) THEN item' = item
         ELSE \A i \in {req[c].item}, after \in {req[c].after}, l \in {item[req[c].item].list} :
                /\ Dense(l)'
                /\ item'[i].pos = IF after \in {Top, i} THEN 1 ELSE item'[after].pos + 1
                /\ \A j, k \in ItemsOf(l) \ {i} :
                     item[j].pos < item[k].pos => item'[j].pos < item'[k].pos
                /\ \A j \in Items \ ItemsOf(l) : item'[j] = item[j]
<1>1. CASE ~ReorderFinds(c)
  BY <1>1, ReorderSteps
<1>2. CASE ReorderFinds(c)
  <2> SUFFICES ASSUME NEW i, NEW after, NEW l,
                      i = req[c].item, after = req[c].after, l = item[req[c].item].list
               PROVE  /\ Dense(l)'
                      /\ item'[i].pos = IF after \in {Top, i} THEN 1 ELSE item'[after].pos + 1
                      /\ \A j, k \in ItemsOf(l) \ {i} :
                           item[j].pos < item[k].pos => item'[j].pos < item'[k].pos
                      /\ \A j \in Items \ ItemsOf(l) : item'[j] = item[j]
    BY <1>2
  <2>1. i \in LiveItems /\ l = item[i].list /\ Reordered(i, after)
    BY <1>2, ReorderSteps
  <2>2. {j \in LiveItems' : item'[j].list = l} = ItemsOf(l)
    BY <2>1, ReorderKeepsTables DEF ReorderTodo, TodoInv
  <2>3. /\ {item'[j].pos : j \in ItemsOf(l)} = 1..Cardinality(ItemsOf(l))
        /\ item'[i].pos = IF after \in ItemsOf(l) \ {i} THEN item'[after].pos + 1 ELSE 1
        /\ \A j, k \in ItemsOf(l) \ {i} : item[j].pos < item[k].pos => item'[j].pos < item'[k].pos
        /\ \A j \in Items \ ItemsOf(l) : item'[j] = item[j]
    BY <2>1 DEF Reordered
  <2>4. after \in ItemsOf(l) \ {i} <=> after \notin {Top, i}
    <3>1. after = Top \/ (after \in LiveItems /\ item[after].list = l)
      BY <1>2 DEF ReorderFinds
    <3>2. Top \notin ItemsOf(l)
      BY TopAssumption DEF ItemsOf, LiveItems
    <3> QED BY <3>1, <3>2 DEF ItemsOf
  <2>5. Dense(l)'
    <3>1. Dense(l)' <=> {item'[j].pos : j \in {k \in LiveItems' : item'[k].list = l}}
                           = 1..Cardinality({k \in LiveItems' : item'[k].list = l})
      BY DEF Dense, ItemsOf
    <3> QED BY <2>2, <2>3, <3>1
  <2> QED BY <2>3, <2>4, <2>5
<1> QED BY <1>1, <1>2

(* A reorder that commits puts the list at positions 1..N, the item behind  *)
(* the one named and the others in an order their old positions allow; one *)
(* whose items no longer share a list changes nothing (todos.go:136-139).   *)
THEOREM TodosReorderPlaces == TodoSpec => ReorderPlaces
<1>1. TodoInv /\ [TodoNext]_todoVars
        => [\A c \in Callers : (Holds(c, "reorder") /\ req'[c] = Idle) =>
              IF ~ReorderFinds(c) THEN item' = item
              ELSE \A i \in {req[c].item}, after \in {req[c].after}, l \in {item[req[c].item].list} :
                     /\ Dense(l)'
                     /\ item'[i].pos = IF after \in {Top, i} THEN 1 ELSE item'[after].pos + 1
                     /\ \A j, k \in ItemsOf(l) \ {i} :
                          item[j].pos < item[k].pos => item'[j].pos < item'[k].pos
                     /\ \A j \in Items \ ItemsOf(l) : item'[j] = item[j]]_todoVars
  BY OnlyReorder, ReorderIsExact
<1> QED BY <1>1, TodosInvariant, PTL DEF TodoSpec, ReorderPlaces

(***************************************************************************)
(* Inductive invariant of Embedding.  What is held across an embedding     *)
(* call -- a caller's index, a page of the run -- is the cut of a text its *)
(* entry has had; and a vector on its way in, or stored, was made by an    *)
(* embedder with a dimension.                                              *)
(***************************************************************************)
Configs == [choice : Providers, dim : Dims]
Settings == Chunkings \cup {Unsplit}
Entry == [id : EntryIds, text : Texts]

IndexOf(index, text) ==
  /\ index = [chunks |-> index.chunks, cut |-> index.cut, vector |-> index.vector]
  /\ Tiles(index.chunks, text, index.cut)
  /\ index.vector = NoVector \/ (index.vector.by \in Providers /\ index.vector.dim \in Nat)

RowOK(id) ==
  /\ rows[id] = [text |-> rows[id].text, chunks |-> rows[id].chunks,
                 cut |-> rows[id].cut, vector |-> rows[id].vector]
  /\ IF id \in Stored
     THEN /\ rows[id].text \in had[id]
          /\ \E text \in had[id] : Tiles(rows[id].chunks, text, rows[id].cut)
          /\ rows[id].vector = NoVector \/ (rows[id].vector.by \in Providers /\ rows[id].vector.dim = dimCol)
     ELSE rows[id] = NoRow

Sheets ==
  /\ listing \in Seq(EntryIds) /\ \A j, k \in 1..Len(listing) : listing[j] = listing[k] => j = k
  /\ rows = [id \in EntryIds |-> rows[id]] /\ had \in [EntryIds -> SUBSET Texts]
  /\ \A id \in EntryIds : RowOK(id)

AdminOK ==
  /\ admin.pc = "config" => admin.choice \in Providers /\ admin.read \in Configs
  /\ admin.pc = "settings" => admin.read \in Settings

CallerOK ==
  /\ caller.pc \in {"store", "replace"} => caller.id \in EntryIds /\ IndexOf(caller.index, caller.text)
  /\ caller.pc = "store" => had[caller.id] = {} /\ caller.text \in Texts
  /\ caller.pc = "replace" => caller.text \in had[caller.id]

\* A run, whatever else happens.
JobOK ==
  /\ job = [pc |-> job.pc, read |-> job.read, by |-> job.by, dim |-> job.dim, offset |-> job.offset,
            page |-> job.page, full |-> job.full, index |-> job.index, skipped |-> job.skipped,
            start |-> job.start, quiet |-> job.quiet]
  /\ job.pc = "idle" => job = NoJob
  /\ job.pc # "idle" => job.read \in Configs
  /\ job.pc \notin {"idle", "resolve"} => job.by \in Providers /\ job.by.gives > 0 /\ job.dim \in Dims \ {0}
  /\ job.pc \notin {"embed", "replace"} => job.page = <<>>
  /\ job.pc \in {"idle", "resolve", "rebuild", "remember", "persist"} => job.offset = 0
  /\ job.offset \in 0..Cardinality(EntryIds)
  /\ job.page \in Seq(Entry) /\ \A k \in 1..Len(job.page) : job.page[k].text \in had[job.page[k].id]
  /\ job.pc = "replace" => /\ job.page # <<>> /\ IndexOf(job.index, job.page[1].text)
                           /\ job.index.vector = Vector(job.by)
  /\ job.skipped \subseteq EntryIds /\ job.start \subseteq EntryIds

\* A run that nobody but callers storing entries has interfered with.
Done(id) == id \in job.skipped \/ Current(id)
InPage(id) == \E k \in 1..Len(job.page) : job.page[k].id = id
QuietOK ==
  job.quiet =>
    /\ job.start \subseteq Stored
    /\ job.pc = "resolve" => config = job.read
    /\ job.pc \notin {"idle", "resolve"} => job.dim = job.by.gives
    /\ \A k \in 1..Len(job.page) : /\ job.page[k].id \in Stored
                                   /\ rows[job.page[k].id].text = job.page[k].text
    /\ job.pc \in {"list", "embed", "replace"} =>
         \A k \in 1..Len(listing) : listing[k] \in job.start /\ k <= job.offset =>
                                      Done(listing[k]) \/ InPage(listing[k])
    /\ job.pc \in {"embed", "replace"} /\ ~job.full =>
         \A id \in job.start : Done(id) \/ InPage(id)
    /\ job.pc = "report" => \A id \in job.start : Done(id)

Basic == config \in Configs /\ saved \in Settings /\ {dimMem, dimCol} \subseteq Dims \ {0}
         /\ changes \in 0..MaxChanges

EmbInv == Basic /\ Sheets /\ AdminOK /\ CallerOK /\ JobOK /\ QuietOK
-----------------------------------------------------------------------------
(* Configurations, vectors and cuts. *)

LEMMA Constants ==
  /\ PageSize \in Nat \ {0} /\ EnvDim \in Dims \ {0} /\ Dims \subseteq Nat /\ MaxChanges \in Nat
  /\ \A c \in Providers : /\ c.known \in Dims /\ c.gives \in Dims /\ c # None
                          /\ c.known > 0 /\ c.gives > 0 => c.known = c.gives
  /\ Cardinality(EntryIds) \in Nat
<1>1. Cardinality(EntryIds) \in Nat
  BY FS_CardinalityType, EmbeddingAssumption
<1> QED BY <1>1, EmbeddingAssumption, KnownAssumption DEF Dims

LEMMA CutsUsed == Settings \subseteq Configurations /\ (saved \in Settings => ChunkConfig \in Used)
BY EmbeddingAssumption DEF Settings, Unsplit, Configurations, ChunkConfig, Used

LEMMA Vectors ==
  ASSUME NEW c \in Providers
  PROVE  Vector(c) = NoVector \/ (Vector(c).by \in Providers /\ Vector(c).dim \in Nat)
BY Constants DEF Vector

LEMMA Indexes ==
  ASSUME NEW text \in Texts, NEW cfg \in Used, NEW vector,
         vector = NoVector \/ (vector.by \in Providers /\ vector.dim \in Nat)
  PROVE  IndexOf(Indexed(text, cfg, vector), text) /\ Indexed(text, cfg, vector).vector = vector
<1> DEFINE index == Indexed(text, cfg, vector)
<1>1. index = [chunks |-> Chunk(text, cfg), cut |-> cfg, vector |-> vector]
  BY DEF Indexed
<1>2. index.chunks = Chunk(text, cfg) /\ index.cut = cfg /\ index.vector = vector
  BY <1>1
<1>3. Tiles(index.chunks, text, index.cut)
  BY <1>2, ChunkerAssumption
<1>4. index = [chunks |-> index.chunks, cut |-> index.cut, vector |-> index.vector]
  BY <1>1
<1> HIDE DEF index
<1>5. IndexOf(index, text) /\ index.vector = vector
  BY <1>2, <1>3, <1>4 DEF IndexOf
<1> QED BY <1>5 DEF index

\* The chunks, cut and vector of a row are those of the index it was given.
LEMMA RowIs ==
  ASSUME NEW text, NEW index
  PROVE  /\ Row(text, index) = [text |-> Row(text, index).text, chunks |-> Row(text, index).chunks,
                                cut |-> Row(text, index).cut, vector |-> Row(text, index).vector]
         /\ Row(text, index).text = text /\ Row(text, index).chunks = index.chunks
         /\ Row(text, index).cut = index.cut /\ Row(text, index).vector = index.vector
BY DEF Row

\* What is accepted fits the columns.
LEMMA Fits ==
  ASSUME NEW index, NEW text, IndexOf(index, text), Accepted(index.vector)
  PROVE  index.vector = NoVector \/ (index.vector.by \in Providers /\ index.vector.dim = dimCol)
BY Constants DEF IndexOf, Accepted

LEMMA StoredIs == Stored = {listing[k] : k \in DOMAIN listing}
BY DEF Stored, Range

LEMMA Listing ==
  ASSUME Sheets
  PROVE  /\ Len(listing) \in Nat /\ listing \in [1..Len(listing) -> EntryIds]
         /\ Stored = {listing[k] : k \in 1..Len(listing)} /\ Stored \subseteq EntryIds
         /\ Len(listing) = Cardinality(Stored) /\ Len(listing) <= Cardinality(EntryIds)
<1> DEFINE D == 1..Len(listing)
<1>1. /\ Len(listing) \in Nat /\ listing \in [D -> EntryIds] /\ DOMAIN listing = D
      /\ \A j, k \in D : listing[j] = listing[k] => j = k
  BY DEF Sheets
<1>2. Stored = {listing[k] : k \in D} /\ Stored \subseteq EntryIds
  BY <1>1, StoredIs
<1>3. IsFiniteSet(D) /\ Cardinality(D) = Len(listing)
  BY <1>1, FS_Interval
<1>4. listing \in [D -> Stored]
  BY <1>1, <1>2
<1> HIDE DEF D
<1>5. listing \in Surjection(D, Stored) /\ listing \in Injection(D, Stored)
  BY <1>1, <1>2, <1>4 DEF Surjection, Injection, IsInjective
<1>6. IsFiniteSet(Stored) /\ Cardinality(Stored) = Cardinality(D)
  BY <1>3, <1>5, FS_Surjection
<1>7. Cardinality(Stored) <= Cardinality(EntryIds)
  BY <1>2, FS_Subset, EmbeddingAssumption
<1> QED BY <1>1, <1>2, <1>3, <1>6, <1>7 DEF D
-----------------------------------------------------------------------------
(* The tables of entries. *)

HadGrows == \A id \in EntryIds : had[id] \subseteq had'[id]

LEMMA Unstored ==
  ASSUME Sheets, NEW id \in EntryIds, had[id] = {}
  PROVE  id \notin Stored /\ rows[id] = NoRow
BY DEF Sheets, RowOK

LEMMA SheetsKept ==
  ASSUME Sheets, UNCHANGED <<dimCol, listing, rows, had>>
  PROVE  Sheets' /\ HadGrows /\ Stored' = Stored
<1>1. Stored' = Stored
  BY DEF Stored
<1> QED BY <1>1 DEF Sheets, HadGrows, RowOK

LEMMA EntryAdded ==
  ASSUME Sheets, UNCHANGED dimCol, NEW id \in EntryIds, NEW text \in Texts, NEW index,
         had[id] = {}, IndexOf(index, text), Accepted(index.vector),
         listing' = <<id>> \o listing, rows' = [rows EXCEPT ![id] = Row(text, index)],
         had' = [had EXCEPT ![id] = {text}]
  PROVE  /\ Sheets' /\ HadGrows /\ Stored' = Stored \cup {id}
         /\ Len(listing') = Len(listing) + 1 /\ listing'[1] = id
         /\ \A k \in 2..Len(listing') : k - 1 \in 1..Len(listing) /\ listing'[k] = listing[k - 1]
<1>1. id \notin Stored
  BY Unstored
<1>2. Len(listing) \in Nat /\ Stored = {listing[k] : k \in 1..Len(listing)} /\ listing \in Seq(EntryIds)
  BY Listing DEF Sheets
<1> DEFINE one == <<id>>
<1>3. one \in Seq(EntryIds) /\ Len(one) = 1 /\ one[1] = id
  OBVIOUS
<1> HIDE DEF one
<1>4. /\ listing' \in Seq(EntryIds) /\ Len(listing') = Len(listing) + 1
      /\ \A k \in 1..(Len(listing) + 1) : listing'[k] = IF k <= 1 THEN one[k] ELSE listing[k - 1]
  <2>1. /\ one \o listing \in Seq(EntryIds) /\ Len(one \o listing) = Len(one) + Len(listing)
        /\ \A k \in 1..(Len(one) + Len(listing)) :
             (one \o listing)[k] = IF k <= Len(one) THEN one[k] ELSE listing[k - Len(one)]
    BY <1>2, <1>3, ConcatProperties
  <2>2. listing' = one \o listing /\ 1 + Len(listing) = Len(listing) + 1
    BY <1>2 DEF one
  <2> QED BY <1>3, <2>1, <2>2
<1>5. listing'[1] = id /\ \A k \in 2..Len(listing') : k - 1 \in 1..Len(listing) /\ listing'[k] = listing[k - 1]
  BY <1>2, <1>3, <1>4
<1>6. \A j, k \in 1..Len(listing') : listing'[j] = listing'[k] => j = k
  <2>1. \A k \in 2..Len(listing') : listing'[k] \in Stored
    BY <1>2, <1>5
  <2>2. \A j \in 1..Len(listing') : j = 1 \/ j \in 2..Len(listing')
    BY <1>2, <1>4
  <2>3. ASSUME NEW j \in 2..Len(listing'), NEW k \in 2..Len(listing'), listing'[j] = listing'[k] PROVE j = k
    <3>1. j - 1 = k - 1
      BY <1>5, <2>3 DEF Sheets
    <3> QED BY <3>1
  <2> QED BY <1>1, <1>5, <2>1, <2>2, <2>3
<1>7. Stored' = Stored \cup {id}
  <2>1. Stored' = {listing'[k] : k \in 1..Len(listing')}
    <3>1. DOMAIN listing' = 1..Len(listing')
      BY <1>4
    <3>2. Stored' = {listing'[k] : k \in DOMAIN listing'}
      BY DEF Stored, Range
    <3> QED BY <3>1, <3>2
  <2>2. \A k \in 1..Len(listing) : k + 1 \in 2..Len(listing') /\ listing'[k + 1] = listing[k]
    BY <1>2, <1>4, <1>5
  <2>3. \A k \in 1..Len(listing') : k = 1 \/ k \in 2..Len(listing')
    BY <1>2, <1>4
  <2>4. 1 \in 1..Len(listing') /\ \A k \in 2..Len(listing') : k \in 1..Len(listing')
    BY <1>2, <1>4
  <2> QED BY <1>2, <1>5, <2>1, <2>2, <2>3, <2>4
<1>8. /\ rows' = [x \in EntryIds |-> rows'[x]] /\ rows'[id] = Row(text, index)
      /\ had' \in [EntryIds -> SUBSET Texts] /\ had'[id] = {text}
      /\ \A x \in EntryIds \ {id} : rows'[x] = rows[x] /\ had'[x] = had[x]
  BY DEF Sheets
<1>9. ASSUME NEW x \in EntryIds PROVE RowOK(x)'
  <2>1. CASE x = id
    <3>1. id \in Stored'
      BY <1>7
    <3>2. index.vector = NoVector \/ (index.vector.by \in Providers /\ index.vector.dim = dimCol')
      BY Fits
    <3>3. Tiles(index.chunks, text, index.cut)
      BY DEF IndexOf
    <3> QED BY <1>8, <2>1, <3>1, <3>2, <3>3, RowIs DEF RowOK
  <2>2. CASE x # id
    <3>1. x \in Stored' <=> x \in Stored
      BY <1>7, <2>2
    <3> QED BY <1>8, <2>2, <3>1 DEF RowOK, Sheets
  <2> QED BY <2>1, <2>2
<1>10. HadGrows
  BY <1>8 DEF HadGrows
<1> QED BY <1>4, <1>5, <1>6, <1>7, <1>8, <1>9, <1>10 DEF Sheets

LEMMA EntryEdited ==
  ASSUME Sheets, UNCHANGED <<dimCol, listing>>, NEW id \in Stored, NEW text \in Texts,
         rows' = [rows EXCEPT ![id].text = text], had' = [had EXCEPT ![id] = @ \cup {text}]
  PROVE  Sheets' /\ HadGrows /\ Stored' = Stored /\ text \in had'[id]
<1>1. Stored' = Stored /\ id \in EntryIds
  BY Listing DEF Stored
<1>2. rows[id] = [text |-> rows[id].text, chunks |-> rows[id].chunks, cut |-> rows[id].cut, vector |-> rows[id].vector]
  BY <1>1 DEF Sheets, RowOK
<1>3. /\ rows' = [x \in EntryIds |-> rows'[x]] /\ had' \in [EntryIds -> SUBSET Texts]
      /\ rows'[id] = [rows[id] EXCEPT !.text = text] /\ had'[id] = had[id] \cup {text}
      /\ \A x \in EntryIds \ {id} : rows'[x] = rows[x] /\ had'[x] = had[x]
  BY <1>1 DEF Sheets
<1>4. rows'[id] = [text |-> text, chunks |-> rows[id].chunks, cut |-> rows[id].cut, vector |-> rows[id].vector]
  BY <1>2, <1>3
<1>5. /\ rows'[id].text = text /\ rows'[id].chunks = rows[id].chunks
      /\ rows'[id].cut = rows[id].cut /\ rows'[id].vector = rows[id].vector
  BY <1>4
<1>6. RowOK(id)'
  <2>1. /\ \E t \in had[id] : Tiles(rows[id].chunks, t, rows[id].cut)
        /\ rows[id].vector = NoVector \/ (rows[id].vector.by \in Providers /\ rows[id].vector.dim = dimCol)
    BY <1>1 DEF Sheets, RowOK
  <2>2. rows'[id] = [text |-> rows'[id].text, chunks |-> rows'[id].chunks,
                     cut |-> rows'[id].cut, vector |-> rows'[id].vector]
    BY <1>4, <1>5
  <2> QED BY <1>1, <1>3, <1>5, <2>1, <2>2 DEF RowOK
<1>7. ASSUME NEW x \in EntryIds, x # id PROVE RowOK(x)'
  BY <1>1, <1>3, <1>7 DEF RowOK, Sheets
<1>8. HadGrows
  BY <1>1, <1>3 DEF HadGrows
<1> QED BY <1>1, <1>3, <1>6, <1>7, <1>8 DEF Sheets

LEMMA ChunksReplaced ==
  ASSUME Sheets, UNCHANGED <<dimCol, listing, had>>, NEW id \in EntryIds, NEW index, NEW text \in had[id],
         IndexOf(index, text), ReplaceEntryChunks(id, index)
  PROVE  /\ Sheets' /\ HadGrows /\ Stored' = Stored
         /\ \A x \in EntryIds \ {id} : rows'[x] = rows[x]
         /\ rows'[id].text = rows[id].text
         /\ IF Replaces(id, index)
            THEN /\ rows'[id].chunks = index.chunks
                 /\ rows'[id].cut = index.cut /\ rows'[id].vector = index.vector
            ELSE rows' = rows
<1>1. Stored' = Stored /\ HadGrows
  BY DEF Stored, HadGrows
<1>2. CASE ~Replaces(id, index)
  <2>1. rows' = rows
    BY <1>2 DEF ReplaceEntryChunks
  <2> QED BY <1>1, <1>2, <2>1, SheetsKept
<1>3. CASE Replaces(id, index)
  <2>1. id \in Stored /\ Accepted(index.vector)
    BY <1>3 DEF Replaces
  <2>2. /\ rows' = [x \in EntryIds |-> rows'[x]] /\ rows'[id] = Row(rows[id].text, index)
        /\ \A x \in EntryIds \ {id} : rows'[x] = rows[x]
    BY <1>3 DEF Sheets, ReplaceEntryChunks
  <2>3. /\ rows'[id].text = rows[id].text /\ rows'[id].chunks = index.chunks
        /\ rows'[id].cut = index.cut /\ rows'[id].vector = index.vector
        /\ rows'[id] = [text |-> rows'[id].text, chunks |-> rows'[id].chunks,
                        cut |-> rows'[id].cut, vector |-> rows'[id].vector]
    BY <2>2, RowIs
  <2>4. RowOK(id)'
    <3>1. index.vector = NoVector \/ (index.vector.by \in Providers /\ index.vector.dim = dimCol')
      BY <2>1, Fits
    <3>2. rows[id].text \in had[id] /\ Tiles(index.chunks, text, index.cut)
      BY <2>1 DEF Sheets, RowOK, IndexOf
    <3>3. text \in had'[id] /\ rows[id].text \in had'[id] /\ id \in Stored'
      BY <1>1, <2>1, <3>2
    <3> QED BY <2>3, <3>1, <3>2, <3>3 DEF RowOK
  <2>5. ASSUME NEW x \in EntryIds, x # id PROVE RowOK(x)'
    BY <1>1, <2>2, <2>5 DEF RowOK, Sheets
  <2> QED BY <1>1, <1>3, <2>2, <2>3, <2>4, <2>5 DEF Sheets
<1> QED BY <1>2, <1>3

LEMMA EntryRemoved ==
  ASSUME Sheets, UNCHANGED <<dimCol, had>>, NEW i \in DOMAIN listing,
         listing' = RemoveAt(listing, i), rows' = [rows EXCEPT ![listing[i]] = NoRow]
  PROVE  Sheets' /\ HadGrows
<1> DEFINE id == listing[i]  n == Len(listing)
<1>1. /\ n \in Nat /\ listing \in Seq(EntryIds) /\ Stored = {listing[k] : k \in 1..n} /\ i \in 1..n
      /\ \A j, k \in 1..n : listing[j] = listing[k] => j = k
      /\ \A k \in 1..n : listing[k] \in EntryIds
  BY Listing DEF Sheets
<1> DEFINE a == SubSeq(listing, 1, i - 1)  b == SubSeq(listing, i + 1, n)
<1>2. a \in Seq(EntryIds) /\ Len(a) = i - 1 /\ \A k \in 1..(i - 1) : a[k] = listing[k]
  <2>1. 1 \in Int /\ i - 1 \in Int /\ \A k \in 1..(i - 1) : listing[k] \in EntryIds
    BY <1>1
  <2>2. /\ a \in Seq(EntryIds) /\ Len(a) = IF 1 <= i - 1 THEN (i - 1) - 1 + 1 ELSE 0
        /\ \A k \in 1..((i - 1) - 1 + 1) : a[k] = listing[1 + k - 1]
    BY <2>1, SubSeqProperties
  <2> HIDE DEF a
  <2> QED BY <1>1, <2>2
<1>3. b \in Seq(EntryIds) /\ Len(b) = n - i /\ \A k \in 1..(n - i) : b[k] = listing[i + k]
  <2>1. i + 1 \in Int /\ n \in Int /\ \A k \in (i + 1)..n : listing[k] \in EntryIds
    BY <1>1
  <2>2. /\ b \in Seq(EntryIds) /\ Len(b) = IF i + 1 <= n THEN n - (i + 1) + 1 ELSE 0
        /\ \A k \in 1..(n - (i + 1) + 1) : b[k] = listing[(i + 1) + k - 1]
    BY <2>1, SubSeqProperties
  <2> HIDE DEF b
  <2>3. /\ n - (i + 1) + 1 = n - i /\ (IF i + 1 <= n THEN n - (i + 1) + 1 ELSE 0) = n - i
        /\ \A k \in 1..(n - i) : (i + 1) + k - 1 = i + k
    BY <1>1
  <2> QED BY <2>2, <2>3
<1> HIDE DEF a, b
<1>4. /\ listing' \in Seq(EntryIds) /\ Len(listing') = n - 1
      /\ \A k \in 1..(n - 1) : listing'[k] = IF k <= i - 1 THEN a[k] ELSE b[k - (i - 1)]
  <2>1. /\ a \o b \in Seq(EntryIds) /\ Len(a \o b) = Len(a) + Len(b)
        /\ \A k \in 1..(Len(a) + Len(b)) : (a \o b)[k] = IF k <= Len(a) THEN a[k] ELSE b[k - Len(a)]
    BY <1>2, <1>3, ConcatProperties
  <2>2. listing' = a \o b /\ (i - 1) + (n - i) = n - 1
    BY <1>1 DEF a, b, RemoveAt
  <2> QED BY <1>2, <1>3, <2>1, <2>2
<1> DEFINE old(k) == IF k <= i - 1 THEN k ELSE k + 1
<1>5. \A k \in 1..(n - 1) : old(k) \in 1..n /\ old(k) # i /\ listing'[k] = listing[old(k)]
  <2> TAKE k \in 1..(n - 1)
  <2>1. CASE k <= i - 1
    BY <1>1, <1>2, <1>4, <2>1
  <2>2. CASE ~(k <= i - 1)
    <3>1. k - (i - 1) \in 1..(n - i) /\ i + (k - (i - 1)) = k + 1 /\ old(k) = k + 1
          /\ k + 1 \in 1..n /\ k + 1 # i
      BY <1>1, <2>2
    <3>2. listing'[k] = b[k - (i - 1)]
      BY <1>4, <2>2
    <3>3. b[k - (i - 1)] = listing[i + (k - (i - 1))]
      BY <1>3, <3>1
    <3> QED BY <3>1, <3>2, <3>3
  <2> QED BY <2>1, <2>2
<1>6. \A j, k \in 1..(n - 1) : old(j) = old(k) => j = k
  BY <1>1
<1>7. \A m \in 1..n : m = i \/ \E k \in 1..(n - 1) : old(k) = m
  <2> TAKE m \in 1..n
  <2>1. CASE m < i
    <3>1. m \in 1..(n - 1) /\ old(m) = m
      BY <1>1, <2>1
    <3> QED BY <3>1
  <2>2. CASE m > i
    <3>1. m - 1 \in 1..(n - 1) /\ old(m - 1) = m
      BY <1>1, <2>2
    <3> QED BY <3>1
  <2> QED BY <1>1, <2>1, <2>2
<1> HIDE DEF old
<1>8. Stored' = Stored \ {id}
  <2>1. Stored' = {listing'[k] : k \in 1..(n - 1)}
    <3>1. DOMAIN listing' = 1..(n - 1)
      BY <1>4
    <3>2. Stored' = {listing'[k] : k \in DOMAIN listing'}
      BY DEF Stored, Range
    <3> QED BY <3>1, <3>2
  <2>2. \A k \in 1..(n - 1) : listing'[k] \in Stored \ {id}
    BY <1>1, <1>5
  <2>3. \A x \in Stored \ {id} : \E k \in 1..(n - 1) : listing'[k] = x
    <3> TAKE x \in Stored \ {id}
    <3>1. PICK m \in 1..n : listing[m] = x
      BY <1>1
    <3>2. PICK k \in 1..(n - 1) : old(k) = m
      BY <1>7, <3>1
    <3> QED BY <1>5, <3>1, <3>2
  <2> QED BY <2>1, <2>2, <2>3
<1>9. \A j, k \in 1..Len(listing') : listing'[j] = listing'[k] => j = k
  <2> TAKE j, k \in 1..Len(listing')
  <2>1. j \in 1..(n - 1) /\ k \in 1..(n - 1)
    BY <1>4
  <2>2. /\ listing'[j] = listing[old(j)] /\ listing'[k] = listing[old(k)]
        /\ old(j) \in 1..n /\ old(k) \in 1..n
    BY <1>5, <2>1
  <2>3. listing'[j] = listing'[k] => old(j) = old(k)
    BY <1>1, <2>2
  <2> QED BY <1>6, <2>1, <2>3
<1>10. /\ id \in EntryIds /\ rows' = [x \in EntryIds |-> rows'[x]] /\ rows'[id] = NoRow
       /\ \A x \in EntryIds \ {id} : rows'[x] = rows[x]
  BY <1>1 DEF Sheets
<1>11. ASSUME NEW x \in EntryIds PROVE RowOK(x)'
  <2>1. CASE x = id
    BY <1>8, <1>10, <2>1 DEF RowOK, NoRow
  <2>2. CASE x # id
    BY <1>8, <1>10, <2>2 DEF RowOK, Sheets
  <2> QED BY <2>1, <2>2
<1>12. had' \in [EntryIds -> SUBSET Texts] /\ HadGrows
  BY DEF HadGrows, Sheets
<1> QED BY <1>4, <1>9, <1>10, <1>11, <1>12 DEF Sheets

LEMMA ColumnsRebuilt ==
  ASSUME Sheets, UNCHANGED <<listing, had>>, rows' = [id \in EntryIds |-> [rows[id] EXCEPT !.vector = NoVector]]
  PROVE  Sheets' /\ HadGrows /\ Stored' = Stored
<1>1. Stored' = Stored /\ HadGrows
  BY DEF Stored, HadGrows
<1>2. ASSUME NEW id \in EntryIds PROVE RowOK(id)'
  <2>1. rows[id] = [text |-> rows[id].text, chunks |-> rows[id].chunks, cut |-> rows[id].cut, vector |-> rows[id].vector]
    BY DEF Sheets, RowOK
  <2>2. rows'[id] = [text |-> rows[id].text, chunks |-> rows[id].chunks, cut |-> rows[id].cut, vector |-> NoVector]
    BY <2>1
  <2>3. /\ rows'[id].text = rows[id].text /\ rows'[id].chunks = rows[id].chunks
        /\ rows'[id].cut = rows[id].cut /\ rows'[id].vector = NoVector
    BY <2>2
  <2>4. rows[id] = NoRow => rows'[id] = NoRow
    BY <2>2 DEF NoRow
  <2>5. rows'[id] = [text |-> rows'[id].text, chunks |-> rows'[id].chunks,
                     cut |-> rows'[id].cut, vector |-> rows'[id].vector]
    BY <2>2, <2>3
  <2> QED BY <1>1, <2>3, <2>4, <2>5 DEF RowOK, Sheets
<1> QED BY <1>1, <1>2 DEF Sheets
-----------------------------------------------------------------------------
(* What the run and a caller hold, across the steps of others. *)

LEMMA Pages ==
  ASSUME JobOK, NEW k \in 1..Len(job.page)
  PROVE  job.page[k] \in Entry /\ job.page[k].id \in EntryIds /\ job.page[k].text \in Texts
<1>1. job.page[k] \in Entry
  BY DEF JobOK
<1> QED BY <1>1 DEF Entry

LEMMA JobKept ==
  ASSUME JobOK, HadGrows, UNCHANGED job
  PROVE  JobOK'
<1>1. \A k \in 1..Len(job.page) : job.page[k].id \in EntryIds
  BY Pages
<1>2. \A k \in 1..Len(job.page) : job.page[k].text \in had'[job.page[k].id]
  BY <1>1 DEF JobOK, HadGrows
<1> QED BY <1>2 DEF JobOK

LEMMA CallerKept ==
  ASSUME CallerOK, HadGrows, UNCHANGED caller, caller.pc = "store" => UNCHANGED had
  PROVE  CallerOK'
BY DEF CallerOK, HadGrows

LEMMA NobodyCalls == CallerOK /\ HadGrows /\ caller' = NoCaller => CallerOK'
BY DEF CallerOK, NoCaller

LEMMA NoRun == job' = NoJob => JobOK' /\ QuietOK'
<1> SUFFICES ASSUME job' = NoJob PROVE JobOK' /\ QuietOK'
  OBVIOUS
<1>1. /\ job'.pc = "idle" /\ job'.page = <<>> /\ job'.offset = 0 /\ job'.skipped = {} /\ job'.start = {}
      /\ job' = [pc |-> job'.pc, read |-> job'.read, by |-> job'.by, dim |-> job'.dim, offset |-> job'.offset,
                 page |-> job'.page, full |-> job'.full, index |-> job'.index, skipped |-> job'.skipped,
                 start |-> job'.start, quiet |-> job'.quiet]
  BY DEF NoJob
<1>2. job'.page \in Seq(Entry) /\ Len(job'.page) = 0 /\ 0 \in 0..Cardinality(EntryIds)
  BY <1>1, Constants
<1>3. ~\E k : k \in 1..Len(job'.page)
  BY <1>2
<1> QED BY <1>1, <1>2, <1>3 DEF JobOK, QuietOK

LEMMA Disturbed ==
  ASSUME JobOK, HadGrows, Disturb
  PROVE  JobOK' /\ QuietOK'
<1>1. CASE job.pc = "idle"
  <2>1. job' = NoJob
    BY <1>1 DEF Disturb, JobOK
  <2> QED BY <2>1, NoRun
<1>2. CASE job.pc # "idle"
  <2>1. job' = [job EXCEPT !.quiet = FALSE]
    BY <1>2 DEF Disturb
  <2>2. job' = [pc |-> job.pc, read |-> job.read, by |-> job.by, dim |-> job.dim, offset |-> job.offset,
                page |-> job.page, full |-> job.full, index |-> job.index, skipped |-> job.skipped,
                start |-> job.start, quiet |-> FALSE]
    BY <2>1 DEF JobOK
  <2>3. /\ job'.pc = job.pc /\ job'.read = job.read /\ job'.by = job.by /\ job'.dim = job.dim
        /\ job'.offset = job.offset /\ job'.page = job.page /\ job'.full = job.full
        /\ job'.index = job.index /\ job'.skipped = job.skipped /\ job'.start = job.start
        /\ job'.quiet = FALSE
    BY <2>2
  <2>4. job' = [pc |-> job'.pc, read |-> job'.read, by |-> job'.by, dim |-> job'.dim, offset |-> job'.offset,
                page |-> job'.page, full |-> job'.full, index |-> job'.index, skipped |-> job'.skipped,
                start |-> job'.start, quiet |-> job'.quiet]
    BY <2>2, <2>3
  <2>5. \A k \in 1..Len(job.page) : job.page[k].text \in had'[job.page[k].id]
    BY Pages DEF JobOK, HadGrows
  <2>6. JobOK'
    BY <1>2, <2>3, <2>4, <2>5 DEF JobOK
  <2> QED BY <2>3, <2>6 DEF QuietOK
<1> QED BY <1>1, <1>2

LEMMA QuietKept ==
  ASSUME QuietOK, UNCHANGED <<job, listing, rows>>, job.pc = "resolve" => config' = config
  PROVE  QuietOK'
<1>1. Stored' = Stored /\ \A id : (Current(id)' <=> Current(id)) /\ (InPage(id)' <=> InPage(id))
  BY DEF Stored, Current, InPage
<1> QED BY <1>1 DEF QuietOK, Done

LEMMA QuietAfterStore ==
  ASSUME Sheets, QuietOK, UNCHANGED <<job, config>>, NEW id \in EntryIds \ Stored,
         Stored' = Stored \cup {id}, \A x \in EntryIds \ {id} : rows'[x] = rows[x],
         Len(listing') = Len(listing) + 1, listing'[1] = id,
         \A k \in 2..Len(listing') : k - 1 \in 1..Len(listing) /\ listing'[k] = listing[k - 1],
         JobOK
  PROVE  QuietOK'
<1> SUFFICES ASSUME job.quiet PROVE QuietOK'
  BY DEF QuietOK
<1>1. Stored \subseteq EntryIds /\ Len(listing) \in Nat /\ job.offset \in Nat
  BY Listing, Constants DEF JobOK
<1>2. job.start \subseteq Stored
  BY DEF QuietOK
<1>3. \A x \in Stored : (Current(x)' <=> Current(x)) /\ (InPage(x)' <=> InPage(x)) /\ (Done(x)' <=> Done(x))
  BY <1>1 DEF Current, InPage, Done
<1>4. \A k \in 1..Len(job.page) : job.page[k].id \in Stored /\ rows'[job.page[k].id].text = job.page[k].text
  BY <1>1 DEF QuietOK
<1>5. ASSUME job.pc \in {"list", "embed", "replace"}, NEW k \in 1..Len(listing'),
             listing'[k] \in job.start, k <= job.offset
      PROVE  Done(listing[k])' \/ InPage(listing[k])'
  <2>1. k # 1
    BY <1>2, <1>5
  <2>2. k \in 2..Len(listing')
    BY <1>1, <2>1
  <2>3. k - 1 \in 1..Len(listing) /\ listing'[k] = listing[k - 1] /\ k - 1 <= job.offset
    BY <1>1, <1>5, <2>2
  <2>4. Done(listing[k - 1]) \/ InPage(listing[k - 1])
    BY <1>5, <2>3 DEF QuietOK
  <2>5. listing[k - 1] \in Stored
    BY <1>2, <1>5, <2>3
  <2>6. PICK x \in Stored : x = listing'[k] /\ (Done(x) \/ InPage(x))
    BY <2>3, <2>4, <2>5
  <2>7. Done(x)' \/ InPage(x)'
    BY <1>3, <2>6
  <2>8. (Done(x)' <=> Done(listing[k])') /\ (InPage(x)' <=> InPage(listing[k])')
    BY <2>6 DEF Done, Current, InPage
  <2> QED BY <2>7, <2>8
<1>6. job.pc \in {"embed", "replace"} /\ ~job.full => \A x \in job.start : Done(x)' \/ InPage(x)'
  BY <1>2, <1>3 DEF QuietOK
<1>7. job.pc = "report" => \A x \in job.start : Done(x)'
  BY <1>2, <1>3 DEF QuietOK
<1> QED BY <1>1, <1>2, <1>4, <1>5, <1>6, <1>7 DEF QuietOK
-----------------------------------------------------------------------------
(* The steps of administrators and callers. *)

LEMMA Requests ==
  ASSUME Basic, Request
  PROVE  changes' \in 0..MaxChanges
BY Constants DEF Basic, Request

LEMMA SettingsStep ==
  ASSUME EmbInv, UNCHANGED <<config, dimMem, dimCol, listing, rows, had, job, caller>>,
         saved' \in Settings, changes' \in 0..MaxChanges, AdminOK'
  PROVE  EmbInv'
<1>1. Basic' /\ Sheets' /\ HadGrows
  BY SheetsKept DEF EmbInv, Basic
<1> QED BY <1>1, CallerKept, JobKept, QuietKept DEF EmbInv

LEMMA ReadConfigKeeps == EmbInv /\ ReadConfig => EmbInv'
<1> SUFFICES ASSUME EmbInv, ReadConfig PROVE EmbInv'
  OBVIOUS
<1>1. PICK c \in Providers : admin' = [pc |-> "config", choice |-> c, read |-> config]
  BY DEF ReadConfig
<1>2. AdminOK'
  BY <1>1 DEF AdminOK, EmbInv, Basic
<1>3. changes' \in 0..MaxChanges
  BY Requests DEF ReadConfig, EmbInv
<1> QED BY <1>2, <1>3, SettingsStep DEF ReadConfig, tableVars, EmbInv, Basic

LEMMA WriteConfigKeeps == EmbInv /\ WriteConfig => EmbInv'
<1> SUFFICES ASSUME EmbInv, WriteConfig PROVE EmbInv'
  OBVIOUS
<1>1. admin.choice \in Providers /\ admin.read \in Configs
  BY DEF WriteConfig, EmbInv, AdminOK
<1>2. config' \in Configs
  BY <1>1 DEF WriteConfig, Configs
<1>3. AdminOK'
  BY DEF WriteConfig, NoAdmin, AdminOK
<1>4. Basic' /\ Sheets' /\ HadGrows
  BY <1>2, SheetsKept DEF WriteConfig, EmbInv, Basic
<1>5. JobOK' /\ QuietOK'
  BY <1>4, Disturbed DEF WriteConfig, EmbInv
<1> QED BY <1>3, <1>4, <1>5, CallerKept DEF WriteConfig, EmbInv

LEMMA PutSettingsKeeps == EmbInv /\ PutSettings => EmbInv'
<1> SUFFICES ASSUME EmbInv, PutSettings PROVE EmbInv'
  OBVIOUS
<1>1. saved' \in Settings /\ AdminOK'
  BY DEF PutSettings, Settings, AdminOK, EmbInv
<1>2. changes' \in 0..MaxChanges
  BY Requests DEF PutSettings, EmbInv
<1> QED BY <1>1, <1>2, SettingsStep DEF PutSettings

LEMMA ReadSettingsKeeps == EmbInv /\ ReadSettings => EmbInv'
<1> SUFFICES ASSUME EmbInv, ReadSettings PROVE EmbInv'
  OBVIOUS
<1>1. saved' \in Settings /\ AdminOK'
  BY DEF ReadSettings, tableVars, AdminOK, EmbInv, Basic
<1>2. changes' \in 0..MaxChanges
  BY Requests DEF ReadSettings, EmbInv
<1> QED BY <1>1, <1>2, SettingsStep DEF ReadSettings, tableVars

LEMMA ImportEnvKeeps == EmbInv /\ ImportEnv => EmbInv'
<1> SUFFICES ASSUME EmbInv, ImportEnv PROVE EmbInv'
  OBVIOUS
<1>1. saved' \in Settings /\ AdminOK'
  BY DEF ImportEnv, NoAdmin, AdminOK, EmbInv
<1> QED BY <1>1, SettingsStep DEF ImportEnv, EmbInv, Basic

\* What a caller gets from the configuration of the moment.
LEMMA Embeds ==
  ASSUME EmbInv, NEW text \in Texts
  PROVE  /\ IndexOf(Indexed(text, ChunkConfig, Vector(config.choice)), text)
         /\ IndexOf(Indexed(text, ChunkConfig, NoVector), text)
         /\ IndexOf(Indexed(text, Unsplit, NoVector), text)
<1>1. ChunkConfig \in Used /\ Unsplit \in Used /\ config.choice \in Providers
  BY CutsUsed DEF EmbInv, Basic, Used, Configs
<1> QED BY <1>1, Indexes, Vectors

LEMMA BeginStoreKeeps == EmbInv /\ BeginStore => EmbInv'
<1> SUFFICES ASSUME EmbInv, BeginStore PROVE EmbInv'
  OBVIOUS
<1>1. PICK id \in EntryIds, text \in Texts :
        /\ had[id] = {}
        /\ \E index \in {Indexed(text, ChunkConfig, Vector(config.choice)),
                         Indexed(text, ChunkConfig, NoVector), Indexed(text, Unsplit, NoVector)} :
             caller' = [pc |-> "store", id |-> id, text |-> text, index |-> index]
  BY DEF BeginStore
<1>2. PICK index : /\ IndexOf(index, text)
                   /\ caller' = [pc |-> "store", id |-> id, text |-> text, index |-> index]
  BY <1>1, Embeds
<1>3. UNCHANGED had
  BY DEF BeginStore, tableVars
<1>4. caller'.pc = "store" /\ caller'.id = id /\ caller'.text = text /\ caller'.index = index
  BY <1>2
<1>5. CallerOK'
  BY <1>1, <1>2, <1>3, <1>4 DEF CallerOK, IndexOf
<1>6. Sheets' /\ HadGrows
  BY SheetsKept DEF BeginStore, tableVars, EmbInv
<1>7. Basic'
  BY Requests DEF BeginStore, tableVars, EmbInv, Basic
<1>8. AdminOK' /\ JobOK' /\ QuietOK'
  BY <1>6, JobKept, QuietKept DEF BeginStore, tableVars, EmbInv, AdminOK
<1> QED BY <1>5, <1>6, <1>7, <1>8 DEF EmbInv

LEMMA StoreEntryChunkedKeeps == EmbInv /\ StoreEntryChunked => EmbInv'
<1> SUFFICES ASSUME EmbInv, StoreEntryChunked PROVE EmbInv'
  OBVIOUS
<1> DEFINE id == caller.id  text == caller.text  index == caller.index
<1>1. id \in EntryIds /\ text \in Texts /\ had[id] = {} /\ IndexOf(index, text)
  BY DEF StoreEntryChunked, EmbInv, CallerOK
<1>2. Basic' /\ AdminOK' /\ UNCHANGED <<config, dimCol, job>> /\ caller' = NoCaller
  BY DEF StoreEntryChunked, EmbInv, Basic, AdminOK
<1>3. CASE ~Accepted(index.vector)
  <2>1. UNCHANGED <<listing, rows, had>>
    BY <1>3 DEF StoreEntryChunked
  <2>2. Sheets' /\ HadGrows
    BY <1>2, <2>1, SheetsKept DEF EmbInv
  <2> QED BY <1>2, <2>1, <2>2, NobodyCalls, JobKept, QuietKept DEF EmbInv
<1>4. CASE Accepted(index.vector)
  <2> HIDE DEF id, text, index
  <2>1. /\ listing' = <<id>> \o listing /\ rows' = [rows EXCEPT ![id] = Row(text, index)]
        /\ had' = [had EXCEPT ![id] = {text}]
    BY <1>4 DEF StoreEntryChunked, id, text, index
  <2>2. /\ Sheets' /\ HadGrows /\ Stored' = Stored \cup {id}
        /\ Len(listing') = Len(listing) + 1 /\ listing'[1] = id
        /\ \A k \in 2..Len(listing') : k - 1 \in 1..Len(listing) /\ listing'[k] = listing[k - 1]
    BY <1>1, <1>2, <1>4, <2>1, EntryAdded DEF EmbInv
  <2>3. id \in EntryIds \ Stored /\ \A x \in EntryIds \ {id} : rows'[x] = rows[x]
    BY <1>1, <2>1, Unstored DEF EmbInv, Sheets
  <2>4. QuietOK'
    BY <1>2, <2>2, <2>3, QuietAfterStore DEF EmbInv
  <2> QED BY <1>2, <2>2, <2>4, NobodyCalls, JobKept DEF EmbInv
<1> QED BY <1>3, <1>4

LEMMA UpdateEntryKeeps == EmbInv /\ UpdateEntry => EmbInv'
<1> SUFFICES ASSUME EmbInv, UpdateEntry PROVE EmbInv'
  OBVIOUS
<1>1. PICK id \in Stored, text \in Texts :
        /\ rows' = [rows EXCEPT ![id].text = text] /\ had' = [had EXCEPT ![id] = @ \cup {text}]
        /\ \/ caller' = NoCaller
           \/ caller' = [pc |-> "replace", id |-> id, text |-> text,
                         index |-> Indexed(text, ChunkConfig, Vector(config.choice))]
  BY DEF UpdateEntry
<1>2. Sheets' /\ HadGrows /\ text \in had'[id]
  BY <1>1, EntryEdited DEF UpdateEntry, EmbInv
<1>3. CallerOK'
  <2>1. CASE caller' = NoCaller
    BY <1>2, <2>1, NobodyCalls DEF EmbInv
  <2>2. CASE caller' = [pc |-> "replace", id |-> id, text |-> text,
                        index |-> Indexed(text, ChunkConfig, Vector(config.choice))]
    <3> DEFINE index == Indexed(text, ChunkConfig, Vector(config.choice))
    <3>1. IndexOf(index, text) /\ id \in EntryIds
      BY Embeds, Listing DEF EmbInv
    <3> HIDE DEF index
    <3>2. caller' = [pc |-> "replace", id |-> id, text |-> text, index |-> index]
      BY <2>2 DEF index
    <3>3. caller'.pc = "replace" /\ caller'.id = id /\ caller'.text = text /\ caller'.index = index
      BY <3>2
    <3> QED BY <1>2, <3>1, <3>3 DEF CallerOK, IndexOf
  <2> QED BY <1>1, <2>1, <2>2
<1>4. Basic' /\ AdminOK'
  BY Requests DEF UpdateEntry, EmbInv, Basic, AdminOK
<1>5. JobOK' /\ QuietOK'
  BY <1>2, Disturbed DEF UpdateEntry, EmbInv
<1> QED BY <1>2, <1>3, <1>4, <1>5 DEF EmbInv

LEMMA EditChunksKeeps == EmbInv /\ EditChunks => EmbInv'
<1> SUFFICES ASSUME EmbInv, EditChunks PROVE EmbInv'
  OBVIOUS
<1>1. caller.id \in EntryIds /\ caller.text \in had[caller.id] /\ IndexOf(caller.index, caller.text)
  BY DEF EditChunks, EmbInv, CallerOK
<1>2. Sheets' /\ HadGrows
  BY <1>1, ChunksReplaced DEF EditChunks, EmbInv
<1>3. Basic' /\ AdminOK' /\ CallerOK'
  BY <1>2, NobodyCalls DEF EditChunks, EmbInv, Basic, AdminOK
<1> QED BY <1>2, <1>3, Disturbed DEF EditChunks, EmbInv

LEMMA DeleteEntryKeeps == EmbInv /\ DeleteEntry => EmbInv'
<1> SUFFICES ASSUME EmbInv, DeleteEntry PROVE EmbInv'
  OBVIOUS
<1>1. Sheets' /\ HadGrows
  BY EntryRemoved DEF DeleteEntry, EmbInv
<1>2. Basic' /\ AdminOK' /\ CallerOK'
  BY <1>1, Requests, CallerKept DEF DeleteEntry, EmbInv, Basic, AdminOK
<1> QED BY <1>1, <1>2, Disturbed DEF DeleteEntry, EmbInv

LEMMA RestartKeeps == EmbInv /\ Restart => EmbInv'
<1> SUFFICES ASSUME EmbInv, Restart PROVE EmbInv'
  OBVIOUS
<1>1. Sheets' /\ HadGrows
  BY SheetsKept DEF Restart, EmbInv
<1>2. Basic' /\ AdminOK' /\ CallerOK'
  BY <1>1, Requests, Constants, NobodyCalls DEF Restart, EmbInv, Basic, AdminOK, NoAdmin
<1> QED BY <1>1, <1>2, NoRun DEF Restart, EmbInv
-----------------------------------------------------------------------------
(* The steps of the run. *)

LEMMA RunStep ==
  ASSUME EmbInv, Sheets', HadGrows, UNCHANGED <<saved, had, admin, caller, changes>>,
         config' \in Configs, dimMem' \in Dims \ {0}, dimCol' \in Dims \ {0}, JobOK', QuietOK'
  PROVE  EmbInv'
BY CallerKept DEF EmbInv, Basic, AdminOK

\* A run that only goes on.
LEMMA Stepped ==
  ASSUME JobOK, NEW p, Step(p)
  PROVE  /\ job' = [pc |-> job'.pc, read |-> job'.read, by |-> job'.by, dim |-> job'.dim, offset |-> job'.offset,
                    page |-> job'.page, full |-> job'.full, index |-> job'.index, skipped |-> job'.skipped,
                    start |-> job'.start, quiet |-> job'.quiet]
         /\ job'.pc = p /\ job'.read = job.read /\ job'.by = job.by /\ job'.dim = job.dim
         /\ job'.offset = job.offset /\ job'.page = job.page /\ job'.full = job.full
         /\ job'.index = job.index /\ job'.skipped = job.skipped /\ job'.start = job.start
         /\ job'.quiet = job.quiet
<1>1. job' = [pc |-> p, read |-> job.read, by |-> job.by, dim |-> job.dim, offset |-> job.offset,
              page |-> job.page, full |-> job.full, index |-> job.index, skipped |-> job.skipped,
              start |-> job.start, quiet |-> job.quiet]
  BY DEF JobOK, Step
<1> QED BY <1>1

LEMMA SameCover ==
  ASSUME UNCHANGED rows, job'.by = job.by, job'.dim = job.dim, job'.skipped = job.skipped, job'.page = job.page
  PROVE  \A x : (Done(x)' <=> Done(x)) /\ (InPage(x)' <=> InPage(x))
BY DEF Done, InPage, Current

LEMMA LoadConfigKeeps == EmbInv /\ LoadConfig => EmbInv'
<1> SUFFICES ASSUME EmbInv, LoadConfig PROVE EmbInv'
  OBVIOUS
<1>1. job' = [pc |-> "resolve", read |-> config, by |-> None, dim |-> 0, offset |-> 0, page |-> <<>>,
              full |-> FALSE, index |-> None, skipped |-> {}, start |-> Stored, quiet |-> TRUE]
  BY DEF LoadConfig, NoJob
<1>2. /\ job'.pc = "resolve" /\ job'.read = config /\ job'.offset = 0 /\ job'.page = <<>>
      /\ job'.skipped = {} /\ job'.start = Stored
  BY <1>1
<1>3. job' = [pc |-> job'.pc, read |-> job'.read, by |-> job'.by, dim |-> job'.dim, offset |-> job'.offset,
              page |-> job'.page, full |-> job'.full, index |-> job'.index, skipped |-> job'.skipped,
              start |-> job'.start, quiet |-> job'.quiet]
  BY <1>1
<1>4. Sheets' /\ HadGrows /\ Stored' = Stored /\ Stored \subseteq EntryIds
  BY SheetsKept, Listing DEF LoadConfig, tableVars, EmbInv
<1>5. job'.page \in Seq(Entry) /\ ~\E k : k \in 1..Len(job'.page)
  <2>1. Len(job'.page) = 0 /\ job'.page \in Seq(Entry)
    BY <1>2
  <2> QED BY <2>1
<1>6. JobOK'
  <2>1. 0 \in 0..Cardinality(EntryIds)
    BY Constants
  <2> QED BY <1>2, <1>3, <1>4, <1>5, <2>1 DEF JobOK, EmbInv, Basic
<1>7. QuietOK'
  BY <1>2, <1>4, <1>5 DEF QuietOK, LoadConfig, tableVars
<1>8. Basic' /\ AdminOK' /\ CallerOK'
  BY <1>4, Requests, CallerKept DEF LoadConfig, tableVars, EmbInv, Basic, AdminOK
<1> QED BY <1>4, <1>6, <1>7, <1>8 DEF EmbInv

LEMMA ResolveEmbedderKeeps == EmbInv /\ ResolveEmbedder => EmbInv'
<1> SUFFICES ASSUME EmbInv, ResolveEmbedder PROVE EmbInv'
  OBVIOUS
<1> DEFINE by == config.choice  dim == Target(job.read, by)
           p == IF dim = job.read.dim THEN "list" ELSE "rebuild"
<1>1. /\ UNCHANGED tableVars /\ UNCHANGED <<admin, caller, changes>>
      /\ Sheets' /\ HadGrows /\ Stored' = Stored
  BY SheetsKept DEF ResolveEmbedder, JobStep, tableVars, EmbInv
<1>2. job.pc = "resolve" /\ job.read \in Configs /\ by \in Providers /\ job.page = <<>> /\ job.offset = 0
  BY DEF ResolveEmbedder, EmbInv, JobOK, Basic, Configs
<1>3. dim \in Dims /\ job.read.choice \in Providers
  BY <1>2, Constants DEF Target, Configs, Dims
<1>4. CASE by.gives = 0 \/ dim = 0
  <2>1. job' = NoJob
    BY <1>4 DEF ResolveEmbedder
  <2> QED BY <1>1, <2>1, NoRun, RunStep DEF tableVars, EmbInv, Basic
<1>5. CASE ~(by.gives = 0 \/ dim = 0)
  <2> HIDE DEF by, dim, p
  <2>1. job' = [job EXCEPT !.by = by, !.dim = dim, !.pc = p]
    BY <1>5 DEF ResolveEmbedder, by, dim, p
  <2>2. job' = [pc |-> p, read |-> job.read, by |-> by, dim |-> dim, offset |-> job.offset,
                page |-> job.page, full |-> job.full, index |-> job.index, skipped |-> job.skipped,
                start |-> job.start, quiet |-> job.quiet]
    BY <2>1 DEF EmbInv, JobOK
  <2>3. /\ job'.pc = p /\ job'.read = job.read /\ job'.by = by /\ job'.dim = dim /\ job'.offset = job.offset
        /\ job'.page = job.page /\ job'.skipped = job.skipped /\ job'.start = job.start /\ job'.quiet = job.quiet
    BY <2>2
  <2>4. job' = [pc |-> job'.pc, read |-> job'.read, by |-> job'.by, dim |-> job'.dim, offset |-> job'.offset,
                page |-> job'.page, full |-> job'.full, index |-> job'.index, skipped |-> job'.skipped,
                start |-> job'.start, quiet |-> job'.quiet]
    BY <2>2, <2>3
  <2>5. p \in {"list", "rebuild"} /\ by.gives > 0 /\ dim \in Dims \ {0} /\ dim \in Nat
    BY <1>2, <1>3, <1>5, Constants DEF p
  <2>6. Len(job.page) = 0 /\ ~\E k : k \in 1..Len(job.page)
    <3>1. Len(job.page) = 0
      BY <1>2
    <3> QED BY <3>1
  <2>7. JobOK'
    BY <1>2, <2>3, <2>4, <2>5, <2>6 DEF JobOK, EmbInv
  <2>8. job.quiet => dim = by.gives
    <3>1. job.quiet => by = job.read.choice
      BY <1>2 DEF EmbInv, QuietOK, by
    <3>2. dim = by.known \/ dim = by.gives \/ by # job.read.choice
      BY <1>5, <1>3 DEF dim, Target
    <3>3. by.known = dim /\ by = job.read.choice => by.known = by.gives
      BY <1>2, <2>5, Constants
    <3> QED BY <3>1, <3>2, <3>3
  <2>9. QuietOK'
    <3>1. job.quiet => job.start \subseteq Stored
      BY DEF EmbInv, QuietOK
    <3>2. \A k \in 1..Len(listing') : ~(k <= job'.offset)
      BY <1>2, <2>3
    <3> QED BY <1>1, <2>3, <2>5, <2>6, <2>8, <3>1, <3>2 DEF QuietOK
  <2> QED BY <1>1, <2>7, <2>9, RunStep DEF tableVars, EmbInv, Basic
<1> QED BY <1>4, <1>5

\* The steps between the choice of a dimension and the first page.
LEMMA BeforePages ==
  ASSUME EmbInv, job.pc \in {"rebuild", "remember", "persist"}, NEW p \in {"remember", "persist", "list"}, Step(p),
         Stored' = Stored, HadGrows
  PROVE  JobOK' /\ QuietOK'
<1>1. JobOK /\ QuietOK
  BY DEF EmbInv
<1>2. /\ job' = [pc |-> job'.pc, read |-> job'.read, by |-> job'.by, dim |-> job'.dim, offset |-> job'.offset,
                 page |-> job'.page, full |-> job'.full, index |-> job'.index, skipped |-> job'.skipped,
                 start |-> job'.start, quiet |-> job'.quiet]
      /\ job'.pc = p /\ job'.read = job.read /\ job'.by = job.by /\ job'.dim = job.dim
      /\ job'.offset = job.offset /\ job'.page = job.page /\ job'.full = job.full
      /\ job'.index = job.index /\ job'.skipped = job.skipped /\ job'.start = job.start
      /\ job'.quiet = job.quiet
  BY <1>1, Stepped
<1>3. job.page = <<>> /\ job.offset = 0
  BY <1>1 DEF JobOK
<1>4. Len(job.page) = 0
  BY <1>3
<1>5. ~\E k : k \in 1..Len(job.page)
  BY <1>4
<1>6. JobOK'
  BY <1>1, <1>2, <1>5 DEF JobOK
<1>7. \A k \in 1..Len(listing') : ~(k <= job'.offset)
  BY <1>2, <1>3
<1>8. QuietOK'
  BY <1>1, <1>2, <1>5, <1>7 DEF QuietOK
<1> QED BY <1>6, <1>8

LEMMA RebuildKeeps == EmbInv /\ (RebuildEmbeddingColumns \/ RememberDimension \/ PutEmbeddingConfig) => EmbInv'
<1> SUFFICES ASSUME EmbInv, RebuildEmbeddingColumns \/ RememberDimension \/ PutEmbeddingConfig PROVE EmbInv'
  OBVIOUS
<1>1. job.pc \in {"rebuild", "remember", "persist"} /\ job.dim \in Dims \ {0} /\ job.read \in Configs
  BY DEF RebuildEmbeddingColumns, RememberDimension, PutEmbeddingConfig, EmbInv, JobOK
<1>2. UNCHANGED <<saved, had, admin, caller, changes>>
  BY DEF RebuildEmbeddingColumns, RememberDimension, PutEmbeddingConfig, JobStep
<1>3. CASE RebuildEmbeddingColumns
  <2>1. Sheets' /\ HadGrows /\ Stored' = Stored
    BY <1>3, ColumnsRebuilt DEF RebuildEmbeddingColumns, EmbInv
  <2>2. JobOK' /\ QuietOK'
    BY <1>1, <1>3, <2>1, BeforePages DEF RebuildEmbeddingColumns
  <2> QED BY <1>1, <1>2, <1>3, <2>1, <2>2, RunStep DEF RebuildEmbeddingColumns, EmbInv, Basic
<1>4. CASE RememberDimension
  <2>1. Sheets' /\ HadGrows /\ Stored' = Stored
    BY <1>4, SheetsKept DEF RememberDimension, EmbInv
  <2>2. JobOK' /\ QuietOK'
    BY <1>1, <1>4, <2>1, BeforePages DEF RememberDimension
  <2> QED BY <1>1, <1>2, <1>4, <2>1, <2>2, RunStep DEF RememberDimension, EmbInv, Basic
<1>5. CASE PutEmbeddingConfig
  <2>1. Sheets' /\ HadGrows /\ Stored' = Stored
    BY <1>5, SheetsKept DEF PutEmbeddingConfig, EmbInv
  <2>2. JobOK' /\ QuietOK'
    BY <1>1, <1>5, <2>1, BeforePages DEF PutEmbeddingConfig
  <2>3. config' \in Configs
    BY <1>1, <1>5 DEF PutEmbeddingConfig, Configs
  <2> QED BY <1>1, <1>2, <1>5, <2>1, <2>2, <2>3, RunStep DEF PutEmbeddingConfig, EmbInv, Basic
<1> QED BY <1>3, <1>4, <1>5

\* Steps of the run that leave every table alone.
LEMMA ReadStep ==
  ASSUME EmbInv, UNCHANGED <<tableVars, admin, caller, changes>>, JobOK', QuietOK'
  PROVE  EmbInv'
BY SheetsKept, RunStep DEF tableVars, EmbInv, Basic

LEMMA EndKeeps == EmbInv /\ (Report \/ Abandon) => EmbInv'
BY NoRun, ReadStep DEF Report, Abandon, JobStep

LEMMA NextPageKeeps == EmbInv /\ NextPage => EmbInv'
<1> SUFFICES ASSUME EmbInv, NextPage PROVE EmbInv'
  OBVIOUS
<1> DEFINE p == IF job.full THEN "list" ELSE "report"
<1>1. JobOK /\ QuietOK /\ job.pc = "embed" /\ job.page = <<>> /\ UNCHANGED <<tableVars, admin, caller, changes>>
  BY DEF EmbInv, NextPage, JobStep
<1>2. Step(p)
  BY DEF NextPage
<1> HIDE DEF p
<1>3. /\ job' = [pc |-> job'.pc, read |-> job'.read, by |-> job'.by, dim |-> job'.dim, offset |-> job'.offset,
                 page |-> job'.page, full |-> job'.full, index |-> job'.index, skipped |-> job'.skipped,
                 start |-> job'.start, quiet |-> job'.quiet]
      /\ job'.pc = p /\ job'.read = job.read /\ job'.by = job.by /\ job'.dim = job.dim
      /\ job'.offset = job.offset /\ job'.page = job.page /\ job'.full = job.full
      /\ job'.index = job.index /\ job'.skipped = job.skipped /\ job'.start = job.start
      /\ job'.quiet = job.quiet
  BY <1>1, <1>2, Stepped
<1>4. p \in {"list", "report"} /\ (p = "report" => ~job.full)
  BY DEF p
<1>5. UNCHANGED <<listing, rows, had>> /\ Stored' = Stored
  BY <1>1 DEF tableVars, Stored
<1>6. ~\E k : k \in 1..Len(job.page)
  <2>1. Len(job.page) = 0
    BY <1>1
  <2> QED BY <2>1
<1>7. JobOK'
  BY <1>1, <1>3, <1>4, <1>5 DEF JobOK
<1>8. QuietOK'
  <2> SUFFICES ASSUME job.quiet PROVE QuietOK'
    BY <1>3 DEF QuietOK
  <2>1. \A x : (Done(x)' <=> Done(x)) /\ (InPage(x)' <=> InPage(x)) /\ ~InPage(x)
    BY <1>3, <1>5, <1>6, SameCover DEF InPage
  <2>2. \A k \in 1..Len(listing) : listing[k] \in job.start /\ k <= job.offset => Done(listing[k])
    BY <1>1, <2>1 DEF QuietOK
  <2>3. p = "report" => \A x \in job.start : Done(x)'
    BY <1>1, <1>4, <2>1 DEF QuietOK
  <2>4. \A k \in 1..Len(listing') : listing[k] \in job'.start /\ k <= job'.offset => Done(listing[k])'
    BY <1>3, <1>5, <2>1, <2>2
  <2> QED BY <1>1, <1>3, <1>4, <1>5, <1>6, <2>3, <2>4 DEF QuietOK
<1> QED BY <1>1, <1>7, <1>8, ReadStep

\* The first entry of a page and the others.
LEMMA PageSplit ==
  ASSUME JobOK, job.page # <<>>
  PROVE  /\ Head(job.page) = job.page[1] /\ job.page[1] \in Entry /\ 1 \in 1..Len(job.page)
         /\ Tail(job.page) \in Seq(Entry) /\ Len(job.page) \in Nat
         /\ \A k \in 1..Len(Tail(job.page)) : k + 1 \in 1..Len(job.page) /\ Tail(job.page)[k] = job.page[k + 1]
         /\ \A k \in 1..Len(job.page) : k = 1 \/ (k - 1 \in 1..Len(Tail(job.page))
                                                  /\ Tail(job.page)[k - 1] = job.page[k])
<1>1. job.page \in Seq(Entry) /\ Len(job.page) \in Nat /\ Len(job.page) >= 1 /\ Head(job.page) = job.page[1]
  BY DEF JobOK
<1> DEFINE t == Tail(job.page)
<1>2. t \in Seq(Entry) /\ Len(t) = Len(job.page) - 1 /\ \A k \in 1..Len(t) : t[k] = job.page[k + 1]
  BY <1>1, HeadTailProperties
<1> HIDE DEF t
<1>3. 1 \in 1..Len(job.page) /\ job.page[1] \in Entry
  BY <1>1
<1>4. \A k \in 1..Len(t) : k + 1 \in 1..Len(job.page)
  BY <1>1, <1>2
<1>5. ASSUME NEW k \in 1..Len(job.page), k # 1
      PROVE  k - 1 \in 1..Len(t) /\ t[k - 1] = job.page[k]
  <2>1. k - 1 \in 1..Len(t) /\ (k - 1) + 1 = k
    BY <1>1, <1>2, <1>5
  <2> QED BY <1>2, <2>1
<1> QED BY <1>1, <1>2, <1>3, <1>4, <1>5 DEF t

\* Once the first entry of the page is dealt with, the run goes on with the others.
LEMMA PageShrinks ==
  ASSUME EmbInv, job.pc \in {"embed", "replace"}, job.page # <<>>, Sheets', HadGrows, Stored' = Stored,
         UNCHANGED listing, \A x \in EntryIds : rows'[x].text = rows[x].text,
         \A x \in EntryIds \ {job.page[1].id} : rows'[x] = rows[x],
         NEW skipped \in SUBSET EntryIds, job.skipped \subseteq skipped, NEW index,
         job' = [pc |-> "embed", read |-> job.read, by |-> job.by, dim |-> job.dim, offset |-> job.offset,
                 page |-> Tail(job.page), full |-> job.full, index |-> index, skipped |-> skipped,
                 start |-> job.start, quiet |-> job.quiet],
         job.quiet => \A x \in {job.page[1].id} : x \in skipped \/ Current(x)'
  PROVE  JobOK' /\ QuietOK'
<1> DEFINE t == Tail(job.page)  first == job.page[1].id
<1>1. JobOK /\ QuietOK
  BY DEF EmbInv
<1>2. /\ job'.pc = "embed" /\ job'.read = job.read /\ job'.by = job.by /\ job'.dim = job.dim
      /\ job'.offset = job.offset /\ job'.page = t /\ job'.full = job.full
      /\ job'.skipped = skipped /\ job'.start = job.start /\ job'.quiet = job.quiet
      /\ job' = [pc |-> job'.pc, read |-> job'.read, by |-> job'.by, dim |-> job'.dim, offset |-> job'.offset,
                 page |-> job'.page, full |-> job'.full, index |-> job'.index, skipped |-> job'.skipped,
                 start |-> job'.start, quiet |-> job'.quiet]
  OBVIOUS
<1>3. /\ t \in Seq(Entry) /\ first \in EntryIds
      /\ \A k \in 1..Len(t) : k + 1 \in 1..Len(job.page) /\ t[k] = job.page[k + 1]
      /\ \A k \in 1..Len(job.page) : k = 1 \/ (k - 1 \in 1..Len(t) /\ t[k - 1] = job.page[k])
  <2>1. 1 \in 1..Len(job.page)
    BY <1>1, PageSplit
  <2>2. first \in EntryIds
    BY <1>1, <2>1, Pages
  <2> QED BY <1>1, <2>2, PageSplit
<1> HIDE DEF t, first
<1>4. \A k \in 1..Len(t) : t[k].id \in EntryIds /\ t[k].text \in had'[t[k].id]
  <2> TAKE k \in 1..Len(t)
  <2>1. PICK m \in 1..Len(job.page) : t[k] = job.page[m]
    BY <1>3
  <2>2. job.page[m].id \in EntryIds /\ job.page[m].text \in had[job.page[m].id]
    BY <1>1, Pages DEF JobOK
  <2> QED BY <2>1, <2>2 DEF HadGrows
<1>5. JobOK'
  BY <1>1, <1>2, <1>3, <1>4 DEF JobOK
<1>6. QuietOK'
  <2> SUFFICES ASSUME job.quiet PROVE QuietOK'
    BY <1>2 DEF QuietOK
  <2>1. \A x \in {first} : x \in skipped \/ Current(x)'
    BY DEF first
  <2>2. ASSUME NEW x \in EntryIds, Done(x) PROVE Done(x)'
    <3>1. CASE x = first
      BY <1>2, <2>1, <3>1 DEF Done, Current
    <3>2. CASE x # first
      BY <1>2, <2>2, <3>2 DEF Done, Current, first
    <3> QED BY <3>1, <3>2
  <2>3. ASSUME NEW x \in EntryIds, InPage(x) PROVE Done(x)' \/ InPage(x)'
    <3>1. PICK k \in 1..Len(job.page) : job.page[k].id = x
      BY <2>3 DEF InPage
    <3>2. CASE k = 1
      BY <1>2, <2>1, <3>1, <3>2 DEF Done, Current, first
    <3>3. CASE k # 1
      BY <1>2, <1>3, <3>1, <3>3 DEF InPage
    <3> QED BY <3>2, <3>3
  <2>4. ASSUME NEW x \in EntryIds, Done(x) \/ InPage(x) PROVE Done(x)' \/ InPage(x)'
    BY <2>2, <2>3, <2>4
  <2>5. job.start \subseteq EntryIds /\ \A k \in 1..Len(listing) : listing[k] \in EntryIds
    BY <1>1, Listing DEF JobOK, EmbInv
  <2>6. \A k \in 1..Len(t) : t[k].id \in Stored /\ rows'[t[k].id].text = t[k].text
    <3> TAKE k \in 1..Len(t)
    <3>1. PICK m \in 1..Len(job.page) : t[k] = job.page[m]
      BY <1>3
    <3>2. job.page[m].id \in Stored /\ rows[job.page[m].id].text = job.page[m].text
      BY <1>1 DEF QuietOK
    <3> QED BY <1>4, <3>1, <3>2
  <2>7. ASSUME NEW k \in 1..Len(listing'), listing[k] \in job'.start, k <= job'.offset
        PROVE  Done(listing[k])' \/ InPage(listing[k])'
    <3>1. k \in 1..Len(listing) /\ listing[k] \in EntryIds
      BY <2>5, <2>7
    <3>2. Done(listing[k]) \/ InPage(listing[k])
      BY <1>1, <1>2, <2>7, <3>1 DEF QuietOK
    <3>3. PICK x \in EntryIds : x = listing[k] /\ (Done(x) \/ InPage(x)) /\ x = listing'[k]
      BY <3>1, <3>2
    <3>4. Done(x)' \/ InPage(x)'
      BY <2>4, <3>3
    <3>5. (Done(x)' <=> Done(listing[k])') /\ (InPage(x)' <=> InPage(listing[k])')
      BY <3>3 DEF Done, InPage, Current
    <3> QED BY <3>4, <3>5
  <2>8. ~job.full => \A x \in job.start : Done(x)' \/ InPage(x)'
    BY <1>1, <2>4, <2>5 DEF QuietOK
  <2> QED BY <1>1, <1>2, <2>6, <2>7, <2>8 DEF QuietOK
<1> QED BY <1>5, <1>6

LEMMA EmbedEntryKeeps == EmbInv /\ EmbedEntry => EmbInv'
<1> SUFFICES ASSUME EmbInv, EmbedEntry PROVE EmbInv'
  OBVIOUS
<1>1. JobOK /\ QuietOK /\ job.pc = "embed" /\ job.page # <<>> /\ UNCHANGED <<tableVars, admin, caller, changes>>
  BY DEF EmbInv, EmbedEntry, JobStep
<1>2. UNCHANGED <<listing, rows, had>> /\ Sheets' /\ HadGrows /\ Stored' = Stored
  BY <1>1, SheetsKept DEF tableVars, EmbInv
<1>3. Head(job.page) = job.page[1] /\ 1 \in 1..Len(job.page) /\ job.page[1].id \in EntryIds /\ job.page[1].text \in Texts
  BY <1>1, PageSplit, Pages
<1> DEFINE index == Indexed(job.page[1].text, ChunkConfig, Vector(job.by))
           skipped == job.skipped \cup {job.page[1].id}
<1>4. CASE job' = [job EXCEPT !.pc = "replace", !.index = Indexed(Head(job.page).text, ChunkConfig, Vector(job.by))]
  <2>1. IndexOf(index, job.page[1].text) /\ index.vector = Vector(job.by)
    <3>1. ChunkConfig \in Used /\ job.by \in Providers
      BY <1>1, CutsUsed DEF EmbInv, Basic, JobOK
    <3> QED BY <1>3, <3>1, Vectors, Indexes
  <2>2. job' = [job EXCEPT !.pc = "replace", !.index = index]
    BY <1>3, <1>4
  <2> HIDE DEF index
  <2>3. job' = [pc |-> "replace", read |-> job.read, by |-> job.by, dim |-> job.dim, offset |-> job.offset,
                page |-> job.page, full |-> job.full, index |-> index, skipped |-> job.skipped,
                start |-> job.start, quiet |-> job.quiet]
    BY <1>1, <2>2 DEF JobOK
  <2>4. /\ job'.pc = "replace" /\ job'.read = job.read /\ job'.by = job.by /\ job'.dim = job.dim
        /\ job'.offset = job.offset /\ job'.page = job.page /\ job'.full = job.full
        /\ job'.index = index /\ job'.skipped = job.skipped /\ job'.start = job.start
        /\ job'.quiet = job.quiet
        /\ job' = [pc |-> job'.pc, read |-> job'.read, by |-> job'.by, dim |-> job'.dim, offset |-> job'.offset,
                   page |-> job'.page, full |-> job'.full, index |-> job'.index, skipped |-> job'.skipped,
                   start |-> job'.start, quiet |-> job'.quiet]
    BY <2>3
  <2>5. JobOK'
    BY <1>1, <1>2, <2>1, <2>4 DEF JobOK, IndexOf
  <2>6. \A x : (Done(x)' <=> Done(x)) /\ (InPage(x)' <=> InPage(x))
    BY <1>2, <2>4, SameCover
  <2>7. QuietOK'
    <3> SUFFICES ASSUME job.quiet PROVE QuietOK'
      BY <2>4 DEF QuietOK
    <3>1. ASSUME NEW k \in 1..Len(listing'), listing[k] \in job'.start, k <= job'.offset
          PROVE  Done(listing[k])' \/ InPage(listing[k])'
      <4>1. Done(listing[k]) \/ InPage(listing[k])
        BY <1>1, <1>2, <2>4, <3>1 DEF QuietOK
      <4>2. PICK x : x = listing[k] /\ x = listing'[k] /\ (Done(x) \/ InPage(x))
        BY <1>2, <4>1
      <4>3. (Done(x)' <=> Done(listing[k])') /\ (InPage(x)' <=> InPage(listing[k])')
        BY <4>2 DEF Done, InPage, Current
      <4> QED BY <2>6, <4>2, <4>3
    <3>2. ~job.full => \A x \in job.start : Done(x)' \/ InPage(x)'
      BY <1>1, <2>6 DEF QuietOK
    <3> QED BY <1>1, <1>2, <2>4, <3>1, <3>2 DEF QuietOK
  <2> QED BY <1>1, <2>5, <2>7, ReadStep
<1>5. CASE job' = [job EXCEPT !.skipped = @ \cup {Head(job.page).id}, !.page = Tail(@)]
  <2> HIDE DEF skipped
  <2>1. job' = [job EXCEPT !.skipped = skipped, !.page = Tail(job.page)]
    BY <1>3, <1>5 DEF skipped, JobOK
  <2>2. job' = [pc |-> "embed", read |-> job.read, by |-> job.by, dim |-> job.dim, offset |-> job.offset,
                page |-> Tail(job.page), full |-> job.full, index |-> job.index, skipped |-> skipped,
                start |-> job.start, quiet |-> job.quiet]
    BY <1>1, <2>1 DEF JobOK
  <2>3. skipped \in SUBSET EntryIds /\ job.skipped \subseteq skipped /\ job.page[1].id \in skipped
    BY <1>1, <1>3 DEF JobOK, skipped
  <2>4. JobOK' /\ QuietOK'
    BY <1>1, <1>2, <2>2, <2>3, PageShrinks
  <2> QED BY <1>1, <2>4, ReadStep
<1> QED BY <1>4, <1>5 DEF EmbedEntry

LEMMA ReplaceChunksKeeps == EmbInv /\ ReplaceChunks => EmbInv'
<1> SUFFICES ASSUME EmbInv, ReplaceChunks PROVE EmbInv'
  OBVIOUS
<1> DEFINE id == job.page[1].id
           skipped == IF Replaces(id, job.index) THEN job.skipped ELSE job.skipped \cup {id}
<1>1. /\ JobOK /\ QuietOK /\ job.pc = "replace" /\ job.page # <<>>
      /\ IndexOf(job.index, job.page[1].text) /\ job.index.vector = Vector(job.by)
      /\ UNCHANGED <<config, saved, dimMem, dimCol, listing, had, admin, caller, changes>>
  BY DEF EmbInv, ReplaceChunks, JobStep, JobOK
<1>2. /\ Head(job.page) = job.page[1] /\ 1 \in 1..Len(job.page) /\ id \in EntryIds
      /\ job.page[1].text \in had[id]
  BY <1>1, PageSplit, Pages DEF JobOK
<1>3. ReplaceEntryChunks(id, job.index)
  BY <1>2 DEF ReplaceChunks
<1>4. /\ Sheets' /\ HadGrows /\ Stored' = Stored
      /\ \A x \in EntryIds \ {id} : rows'[x] = rows[x]
      /\ rows'[id].text = rows[id].text
      /\ IF Replaces(id, job.index)
         THEN /\ rows'[id].chunks = job.index.chunks
              /\ rows'[id].cut = job.index.cut /\ rows'[id].vector = job.index.vector
         ELSE rows' = rows
  BY <1>1, <1>2, <1>3, ChunksReplaced DEF EmbInv
<1>5. job' = [job EXCEPT !.pc = "embed", !.page = Tail(job.page), !.index = None, !.skipped = skipped]
  BY <1>2 DEF ReplaceChunks, JobOK
<1> HIDE DEF skipped
<1>6. job' = [pc |-> "embed", read |-> job.read, by |-> job.by, dim |-> job.dim, offset |-> job.offset,
              page |-> Tail(job.page), full |-> job.full, index |-> None, skipped |-> skipped,
              start |-> job.start, quiet |-> job.quiet]
  BY <1>1, <1>5 DEF JobOK
<1>7. skipped \in SUBSET EntryIds /\ job.skipped \subseteq skipped /\ (~Replaces(id, job.index) => id \in skipped)
  BY <1>1, <1>2 DEF JobOK, skipped
<1>8. ASSUME job.quiet, Replaces(id, job.index), NEW x \in {id} PROVE Current(x)'
  <2>1. job.dim = job.by.gives /\ rows[id].text = job.page[1].text /\ job.by.gives > 0 /\ job.by \in Providers
    BY <1>1, <1>2, <1>8 DEF QuietOK, JobOK
  <2>2. rows'[x].vector = [by |-> job.by, dim |-> job.dim]
    BY <1>1, <1>4, <1>8, <2>1 DEF Vector
  <2>3. Tiles(rows'[x].chunks, rows'[x].text, rows'[x].cut)
    BY <1>1, <1>4, <1>8, <2>1 DEF IndexOf
  <2>4. job'.by = job.by /\ job'.dim = job.dim
    BY <1>6
  <2> QED BY <2>2, <2>3, <2>4 DEF Current
<1>9. job.quiet => \A x \in {id} : x \in skipped \/ Current(x)'
  BY <1>7, <1>8
<1>10. \A x \in EntryIds : rows'[x].text = rows[x].text
  BY <1>4
<1> HIDE DEF id
<1>11. JobOK' /\ QuietOK'
  BY <1>1, <1>4, <1>6, <1>7, <1>9, <1>10, PageShrinks DEF id
<1> QED BY <1>1, <1>4, <1>11, RunStep DEF EmbInv, Basic

\* What is known of the entries ids, the page after the offset o that ends at the
\* place m of the listing.
PageIs(o, m, ids) ==
  /\ m \in Nat /\ m <= Len(listing) /\ Len(listing) \in Nat
  /\ ids = <<>> => Len(listing) <= o
  /\ ids # <<>> => /\ o + Len(ids) = m /\ Len(ids) \in Nat /\ DOMAIN ids = 1..Len(ids)
                   /\ Len(ids) # PageSize => m = Len(listing)
                   /\ \A k \in 1..Len(ids) : ids[k] \in Stored
                   /\ \A k \in (o + 1)..m : k - o \in 1..Len(ids) /\ ids[k - o] = listing[k]

\* A page of the entries after an offset.
LEMMA PageOf ==
  ASSUME Sheets, NEW o \in Nat, NEW m, NEW ids,
         m = (IF o + PageSize > Len(listing) THEN Len(listing) ELSE o + PageSize),
         ids = SubSeq(listing, o + 1, m)
  PROVE  PageIs(o, m, ids)
<1>1. /\ Len(listing) \in Nat /\ PageSize \in Nat \ {0} /\ Stored = {listing[k] : k \in 1..Len(listing)}
      /\ \A k \in 1..Len(listing) : listing[k] \in EntryIds /\ listing[k] \in Stored
  BY Listing, Constants
<1>2. m \in Nat /\ m <= Len(listing) /\ (m # Len(listing) => m = o + PageSize)
  BY <1>1
<1>3. \A k \in (o + 1)..m : k \in 1..Len(listing)
  BY <1>1, <1>2
<1>4. /\ ids \in Seq(Stored) /\ Len(ids) = IF o + 1 <= m THEN m - (o + 1) + 1 ELSE 0
      /\ \A k \in 1..(m - (o + 1) + 1) : ids[k] = listing[(o + 1) + k - 1]
  <2>1. o + 1 \in Int /\ m \in Int /\ \A k \in (o + 1)..m : listing[k] \in Stored
    BY <1>1, <1>2, <1>3
  <2> QED BY <2>1, SubSeqProperties
<1>5. CASE o + 1 <= m
  <2>1. Len(ids) = m - o /\ m - (o + 1) + 1 = m - o /\ ids # <<>> /\ DOMAIN ids = 1..Len(ids) /\ Len(ids) \in Nat
    <3>1. m - (o + 1) + 1 = m - o /\ m - o \in Nat /\ m - o > 0
      BY <1>2, <1>5
    <3>2. Len(ids) = m - o
      BY <1>4, <1>5, <3>1
    <3>3. ids \in Seq(Stored)
      BY <1>4
    <3> HIDE DEF Stored
    <3>4. DOMAIN ids = 1..Len(ids)
      BY <3>3
    <3>5. ids # <<>>
      BY <3>1, <3>2, <3>3
    <3> QED BY <3>1, <3>2, <3>4, <3>5
  <2>2. \A k \in 1..(m - o) : ids[k] = listing[(o + 1) + k - 1] /\ ids[k] \in Stored
    BY <1>4, <2>1
  <2>3. ASSUME NEW k \in (o + 1)..m PROVE k - o \in 1..Len(ids) /\ ids[k - o] = listing[k]
    <3>1. k - o \in 1..(m - o) /\ (o + 1) + (k - o) - 1 = k
      BY <1>2
    <3> QED BY <2>1, <2>2, <3>1
  <2>4. o + Len(ids) = m /\ (Len(ids) # PageSize => m = Len(listing))
    <3>1. Len(ids) = m - o
      BY <2>1
    <3>2. o + (m - o) = m /\ (m - o = PageSize <=> m = o + PageSize)
      BY <1>1, <1>2
    <3> HIDE DEF Stored
    <3> QED BY <1>2, <3>1, <3>2, Zenon
  <2> QED BY <1>1, <1>2, <2>1, <2>2, <2>3, <2>4 DEF PageIs
<1>6. CASE ~(o + 1 <= m)
  <2>1. ids = <<>>
    BY <1>4, <1>6
  <2>2. Len(listing) <= o
    BY <1>1, <1>2, <1>6
  <2> QED BY <1>1, <1>2, <2>1, <2>2 DEF PageIs
<1> QED BY <1>5, <1>6

LEMMA ListEntriesKeeps == EmbInv /\ ListEntries => EmbInv'
<1> SUFFICES ASSUME EmbInv, ListEntries PROVE EmbInv'
  OBVIOUS
<1> DEFINE o == job.offset
           m == IF o + PageSize > Len(listing) THEN Len(listing) ELSE o + PageSize
           ids == SubSeq(listing, o + 1, m)
<1>1. /\ JobOK /\ QuietOK /\ Sheets /\ job.pc = "list" /\ job.page = <<>> /\ o \in Nat
      /\ UNCHANGED <<tableVars, admin, caller, changes>>
  BY Constants DEF EmbInv, ListEntries, JobStep, JobOK
<1>2. UNCHANGED <<listing, rows, had>> /\ Stored' = Stored
  BY <1>1 DEF tableVars, Stored
<1>3. /\ m \in Nat /\ m <= Len(listing) /\ Len(listing) \in Nat
      /\ ids = <<>> => Len(listing) <= o
      /\ ids # <<>> => /\ o + Len(ids) = m /\ Len(ids) \in Nat /\ DOMAIN ids = 1..Len(ids)
                       /\ Len(ids) # PageSize => m = Len(listing)
                       /\ \A k \in 1..Len(ids) : ids[k] \in Stored
                       /\ \A k \in (o + 1)..m : k - o \in 1..Len(ids) /\ ids[k - o] = listing[k]
  <2>1. o \in Nat /\ m = (IF o + PageSize > Len(listing) THEN Len(listing) ELSE o + PageSize)
        /\ ids = SubSeq(listing, o + 1, m) /\ Sheets
    BY <1>1
  <2> HIDE DEF o, m, ids
  <2>2. PageIs(o, m, ids)
    BY <2>1, PageOf
  <2> QED BY <2>2 DEF PageIs
<1> DEFINE page == [i \in DOMAIN ids |-> [id |-> ids[i], text |-> rows[ids[i]].text]]
           full == Len(ids) = PageSize
<1>4. job' = IF ids = <<>> THEN [job EXCEPT !.pc = "report"]
             ELSE [job EXCEPT !.pc = "embed", !.full = full, !.page = page, !.offset = @ + Len(ids)]
  BY DEF ListEntries
<1>5. Stored \subseteq EntryIds /\ Stored = {listing[k] : k \in 1..Len(listing)} /\ Len(listing) <= Cardinality(EntryIds)
  BY <1>1, Listing
<1>6. ~\E k : k \in 1..Len(job.page)
  <2>1. Len(job.page) = 0
    BY <1>1
  <2> QED BY <2>1
<1>7. job.quiet => \A k \in 1..Len(listing) : listing[k] \in job.start /\ k <= o => Done(listing[k])
  BY <1>1, <1>6 DEF QuietOK, InPage
<1> HIDE DEF m, ids
<1>8. CASE ids = <<>>
  <2>1. Step("report")
    BY <1>4, <1>8 DEF Step
  <2>2. /\ job' = [pc |-> job'.pc, read |-> job'.read, by |-> job'.by, dim |-> job'.dim, offset |-> job'.offset,
                   page |-> job'.page, full |-> job'.full, index |-> job'.index, skipped |-> job'.skipped,
                   start |-> job'.start, quiet |-> job'.quiet]
        /\ job'.pc = "report" /\ job'.read = job.read /\ job'.by = job.by /\ job'.dim = job.dim
        /\ job'.offset = job.offset /\ job'.page = job.page /\ job'.full = job.full
        /\ job'.index = job.index /\ job'.skipped = job.skipped /\ job'.start = job.start
        /\ job'.quiet = job.quiet
    BY <1>1, <2>1, Stepped
  <2>3. JobOK'
    BY <1>1, <1>2, <2>2 DEF JobOK
  <2>4. ASSUME job.quiet, NEW x \in job.start PROVE Done(x)'
    <3>1. PICK k \in 1..Len(listing) : listing[k] = x
      BY <1>1, <1>5, <2>4 DEF QuietOK
    <3>2. k <= o
      BY <1>1, <1>3, <1>8
    <3>3. Done(x)
      BY <1>7, <2>4, <3>1, <3>2
    <3> QED BY <1>2, <2>2, <3>3, SameCover
  <2>5. QuietOK'
    BY <1>1, <1>2, <1>6, <2>2, <2>4 DEF QuietOK
  <2> QED BY <1>1, <2>3, <2>5, ReadStep
<1>9. CASE ids # <<>>
  <2>1. /\ o + Len(ids) = m /\ Len(ids) \in Nat /\ DOMAIN ids = 1..Len(ids)
        /\ Len(ids) # PageSize => m = Len(listing)
        /\ \A k \in 1..Len(ids) : ids[k] \in Stored
        /\ \A k \in (o + 1)..m : k - o \in 1..Len(ids) /\ ids[k - o] = listing[k]
    BY <1>3, <1>9
  <2>2. /\ DOMAIN page = 1..Len(ids)
        /\ \A k \in 1..Len(ids) : page[k] = [id |-> ids[k], text |-> rows[ids[k]].text]
    BY <2>1
  <2>3. ASSUME NEW k \in 1..Len(ids)
        PROVE  /\ page[k].id = ids[k] /\ page[k].text = rows[ids[k]].text
               /\ page[k].text \in had[page[k].id] /\ page[k] \in Entry
    <3>1. page[k] = [id |-> ids[k], text |-> rows[ids[k]].text]
      BY <2>2
    <3>2. ids[k] \in EntryIds /\ rows[ids[k]].text \in had[ids[k]] /\ had[ids[k]] \in SUBSET Texts
      BY <1>1, <1>5, <2>1 DEF Sheets, RowOK
    <3> HIDE DEF page
    <3> QED BY <3>1, <3>2 DEF Entry
  <2>4. page \in Seq(Entry) /\ Len(page) = Len(ids)
    <3>1. page = [k \in 1..Len(ids) |-> page[k]]
      BY <2>1
    <3> HIDE DEF page
    <3> QED BY <2>1, <2>3, <3>1
  <2> HIDE DEF page, full
  <2>5. job' = [job EXCEPT !.pc = "embed", !.full = full, !.page = page, !.offset = m]
    BY <1>1, <1>4, <1>9, <2>1 DEF JobOK
  <2>6. job' = [pc |-> "embed", read |-> job.read, by |-> job.by, dim |-> job.dim, offset |-> m,
                page |-> page, full |-> full, index |-> job.index, skipped |-> job.skipped,
                start |-> job.start, quiet |-> job.quiet]
    BY <1>1, <2>5 DEF JobOK
  <2>7. /\ job' = [pc |-> job'.pc, read |-> job'.read, by |-> job'.by, dim |-> job'.dim, offset |-> job'.offset,
                   page |-> job'.page, full |-> job'.full, index |-> job'.index, skipped |-> job'.skipped,
                   start |-> job'.start, quiet |-> job'.quiet]
        /\ job'.pc = "embed" /\ job'.read = job.read /\ job'.by = job.by /\ job'.dim = job.dim
        /\ job'.offset = m /\ job'.page = page /\ job'.full = full
        /\ job'.skipped = job.skipped /\ job'.start = job.start /\ job'.quiet = job.quiet
    BY <2>6
  <2>8. m \in 0..Cardinality(EntryIds)
    BY <1>3, <1>5, Constants
  <2>9. JobOK'
    BY <1>1, <1>2, <2>3, <2>4, <2>7, <2>8 DEF JobOK
  <2>10. ASSUME job.quiet, NEW k \in 1..Len(listing), listing[k] \in job.start, k <= m,
                NEW x, x = listing[k]
         PROVE  Done(x)' \/ InPage(x)'
    <3>1. CASE k <= o
      <4>1. Done(x)
        BY <1>7, <2>10, <3>1
      <4> QED BY <1>2, <2>7, <4>1 DEF Done, Current
    <3>2. CASE ~(k <= o)
      <4>1. k - o \in 1..Len(ids) /\ ids[k - o] = x
        BY <1>1, <1>3, <2>1, <2>10, <3>2
      <4>2. page[k - o].id = x
        BY <2>3, <4>1
      <4> QED BY <2>4, <2>7, <4>1, <4>2 DEF InPage
    <3> QED BY <3>1, <3>2
  <2>11. ASSUME NEW k \in 1..Len(listing'), job'.quiet, listing[k] \in job'.start, k <= job'.offset
         PROVE  Done(listing[k])' \/ InPage(listing[k])'
    <3>1. PICK x : x = listing[k] /\ x = listing'[k]
      BY <1>2
    <3>2. Done(x)' \/ InPage(x)'
      BY <1>2, <2>7, <2>10, <2>11, <3>1
    <3>3. (Done(x)' <=> Done(listing[k])') /\ (InPage(x)' <=> InPage(listing[k])')
      BY <3>1 DEF Done, InPage, Current
    <3> QED BY <3>2, <3>3
  <2>12. ASSUME job.quiet, ~full, NEW x \in job.start PROVE Done(x)' \/ InPage(x)'
    <3>1. PICK k \in 1..Len(listing) : listing[k] = x
      BY <1>1, <1>5, <2>12 DEF QuietOK
    <3>2. k <= m
      BY <1>3, <2>1, <2>12 DEF full
    <3> QED BY <2>10, <2>12, <3>1, <3>2
  <2>13. QuietOK'
    <3>1. job.quiet => job.start \subseteq Stored /\ job.dim = job.by.gives
      BY <1>1 DEF QuietOK
    <3>2. \A k \in 1..Len(page) : page[k].id \in Stored /\ rows[page[k].id].text = page[k].text
      BY <2>1, <2>3, <2>4
    <3> QED BY <1>2, <2>7, <2>11, <2>12, <3>1, <3>2 DEF QuietOK
  <2> QED BY <1>1, <2>9, <2>13, ReadStep
<1> QED BY <1>8, <1>9

LEMMA EmbInitHolds == Init => EmbInv
<1> SUFFICES ASSUME Init PROVE EmbInv
  OBVIOUS
<1>1. listing \in Seq(EntryIds) /\ Len(listing) = 0 /\ Stored = {}
  BY DEF Init, Stored, Range
<1>2. ~\E k : k \in 1..Len(listing)
  BY <1>1
<1>3. rows = [id \in EntryIds |-> rows[id]] /\ had \in [EntryIds -> SUBSET Texts] /\ \A id \in EntryIds : rows[id] = NoRow
  BY DEF Init
<1>4. \A id \in EntryIds : RowOK(id)
  BY <1>1, <1>3 DEF RowOK, NoRow
<1>5. Sheets
  BY <1>1, <1>2, <1>3, <1>4 DEF Sheets
<1>6. Basic
  BY Constants DEF Init, Basic, Configs, Settings
<1>7. AdminOK /\ CallerOK
  BY DEF Init, NoAdmin, NoCaller, AdminOK, CallerOK
<1>8. JobOK /\ QuietOK
  <2>1. job = NoJob
    BY DEF Init
  <2>2. /\ job.pc = "idle" /\ job.page = <<>> /\ job.offset = 0 /\ job.skipped = {} /\ job.start = {}
        /\ job = [pc |-> job.pc, read |-> job.read, by |-> job.by, dim |-> job.dim, offset |-> job.offset,
                  page |-> job.page, full |-> job.full, index |-> job.index, skipped |-> job.skipped,
                  start |-> job.start, quiet |-> job.quiet]
    BY <2>1 DEF NoJob
  <2>3. job.page \in Seq(Entry) /\ Len(job.page) = 0 /\ 0 \in 0..Cardinality(EntryIds)
    BY <2>2, Constants
  <2>4. ~\E k : k \in 1..Len(job.page)
    BY <2>3
  <2> QED BY <2>1, <2>2, <2>3, <2>4 DEF JobOK, QuietOK
<1> QED BY <1>5, <1>6, <1>7, <1>8 DEF EmbInv

LEMMA EmbStep == EmbInv /\ [Next]_vars => EmbInv'
<1> SUFFICES ASSUME EmbInv, [Next]_vars PROVE EmbInv'
  OBVIOUS
<1>1. CASE Next
  BY <1>1, ReadConfigKeeps, WriteConfigKeeps, PutSettingsKeeps, ReadSettingsKeeps, ImportEnvKeeps, BeginStoreKeeps,
     StoreEntryChunkedKeeps, UpdateEntryKeeps, EditChunksKeeps, DeleteEntryKeeps, LoadConfigKeeps,
     ResolveEmbedderKeeps, RebuildKeeps, ListEntriesKeeps, NextPageKeeps, EmbedEntryKeeps, ReplaceChunksKeeps,
     EndKeeps, RestartKeeps DEF Next
<1>2. CASE UNCHANGED vars
  <2>1. UNCHANGED <<tableVars, admin, caller, changes>> /\ UNCHANGED job /\ UNCHANGED <<listing, rows, had, config, dimCol>>
    BY <1>2 DEF vars, tableVars
  <2>2. HadGrows
    BY <2>1, SheetsKept DEF EmbInv
  <2>3. JobOK' /\ QuietOK'
    BY <2>1, <2>2, JobKept, QuietKept DEF EmbInv
  <2> QED BY <2>1, <2>3, ReadStep
<1> QED BY <1>1, <1>2

(* The inductive invariant: whatever is held across embedding calls is the  *)
(* cut of a text its entry has had, and a run that nobody interfered with  *)
(* has dealt with every entry up to its offset.                            *)
THEOREM EmbeddingInvariant == Spec => []EmbInv
<1>1. Init => EmbInv
  BY EmbInitHolds
<1>2. EmbInv /\ [Next]_vars => EmbInv'
  BY EmbStep
<1> QED BY <1>1, <1>2, PTL DEF Spec

(* Stored vectors always have the dimension of the columns, those of the    *)
(* untyped table too, although the configuration, the field in memory and  *)
(* the columns change in three steps (sqlite.go, embedding_handlers.go).    *)
THEOREM EmbeddingTyped == Spec => []TypeOK
<1>1. EmbInv => TypeOK
  BY Listing DEF EmbInv, Basic, Sheets, JobOK, RowOK, TypeOK, Configs, Settings
<1> QED BY <1>1, EmbeddingInvariant, PTL

(* An entry's chunks are those of one text it has had, whatever stores,     *)
(* edits, settings and re-embed runs interleave.                           *)
THEOREM EmbeddingChunksTile == Spec => []ChunksTile
<1>1. EmbInv => ChunksTile
  BY Listing DEF EmbInv, Sheets, RowOK, ChunksTile
<1> QED BY <1>1, EmbeddingInvariant, PTL

(* When nobody but callers storing entries interfered, an entry that was    *)
(* there when a run began is skipped or indexed by the run's embedder at    *)
(* its dimension when the run reports.                                      *)
THEOREM EmbeddingReportTrue == Spec => ReportTrue
<1>1. EmbInv /\ [Next]_vars => [Report /\ job.quiet => \A id \in job.start : id \in job.skipped \/ Current(id)]_vars
  BY DEF EmbInv, QuietOK, Done, Report
<1> QED BY <1>1, EmbeddingInvariant, PTL DEF Spec, ReportTrue

(* All of this from any database that fits the invariant, one in use with   *)
(* entries stored, embedded and edited before included, and not only from  *)
(* an empty one.                                                           *)
THEOREM EmbeddingInUse == EmbInv /\ [][Next]_vars => [](TypeOK /\ ChunksTile) /\ ReportTrue
<1>1. EmbInv /\ [Next]_vars => EmbInv'
  BY EmbStep
<1>2. EmbInv => TypeOK /\ ChunksTile
  BY Listing DEF EmbInv, Basic, Sheets, JobOK, RowOK, TypeOK, Configs, Settings, ChunksTile
<1>3. EmbInv /\ [Next]_vars => [Report /\ job.quiet => \A id \in job.start : id \in job.skipped \/ Current(id)]_vars
  BY DEF EmbInv, QuietOK, Done, Report
<1> QED BY <1>1, <1>2, <1>3, PTL DEF ReportTrue
=============================================================================
