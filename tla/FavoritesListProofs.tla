------------------------- MODULE FavoritesListProofs -------------------------
(***************************************************************************)
(* The list of favourites, for any favourites, any stores, any number of   *)
(* reads in flight and any bound on the deletions in flight: types, the    *)
(* table that follows the array, and rows that show the favourites.        *)
(***************************************************************************)
EXTENDS FavoritesList, FiniteSetTheorems, SequenceTheorems, TLAPS

(***************************************************************************)
(* Sequences without operators of their own in the library's theorems      *)
(***************************************************************************)
LEMMA LeastNumber ==
  ASSUME NEW S, S \subseteq Nat, S # {}
  PROVE  Min(S) \in S
<1>1. PICK x \in S : \A y \in S : ~(<<y, x>> \in OpToRel(<, Nat))
  BY NatLessThanWellFounded, WFMin
<1>2. \A y \in S : x <= y
  <2> TAKE y \in S
  <2>1. <<y, x>> \in Nat \X Nat
    OBVIOUS
  <2>2. ~(y < x)
    BY <1>1, <2>1 DEF OpToRel
  <2> QED BY <2>2
<1> QED BY <1>2 DEF Min

\* RowOfId and RowOfText give a row that fits, or 0 if there is none.
LEMMA RowOfIdFinds ==
  ASSUME NEW rows \in Seq(Docs), NEW d
  PROVE  \/ /\ RowOfId(rows, d) \in DOMAIN rows
            /\ rows[RowOfId(rows, d)].id = d.id
         \/ /\ RowOfId(rows, d) = 0
            /\ \A n \in DOMAIN rows : rows[n].id # d.id
<1> DEFINE I == {i \in 1..Len(rows) : rows[i].id = d.id}
<1>1. DOMAIN rows = 1..Len(rows) /\ Len(rows) \in Nat
  OBVIOUS
<1>2. RowOfId(rows, d) = IF I # {} THEN Min(I) ELSE 0
  BY DEF RowOfId, SelectInSeq
<1>3. I # {} => Min(I) \in I
  <2>1. I \subseteq Nat
    OBVIOUS
  <2> HIDE DEF I
  <2> QED BY <2>1, LeastNumber
<1> QED BY <1>1, <1>2, <1>3

LEMMA RowOfTextFinds ==
  ASSUME NEW rows \in Seq(Docs), NEW d
  PROVE  \/ /\ RowOfText(rows, d) \in DOMAIN rows
            /\ rows[RowOfText(rows, d)].origin = d.origin
         \/ /\ RowOfText(rows, d) = 0
            /\ \A n \in DOMAIN rows : rows[n].origin # d.origin
<1> DEFINE I == {i \in 1..Len(rows) : rows[i].origin = d.origin}
<1>1. DOMAIN rows = 1..Len(rows) /\ Len(rows) \in Nat
  OBVIOUS
<1>2. RowOfText(rows, d) = IF I # {} THEN Min(I) ELSE 0
  BY DEF RowOfText, SelectInSeq
<1>3. I # {} => Min(I) \in I
  <2>1. I \subseteq Nat
    OBVIOUS
  <2> HIDE DEF I
  <2> QED BY <2>1, LeastNumber
<1> QED BY <1>1, <1>2, <1>3

\* RemoveAt takes one entry out and keeps the others in their order.
LEMMA RemoveAtEntries ==
  ASSUME NEW S, NEW q \in Seq(S), NEW n \in DOMAIN q
  PROVE  /\ RemoveAt(q, n) \in Seq(S) /\ Len(RemoveAt(q, n)) = Len(q) - 1
         /\ \A j \in DOMAIN RemoveAt(q, n) :
              RemoveAt(q, n)[j] = IF j < n THEN q[j] ELSE q[j + 1]
<1> DEFINE u == SubSeq(q, 1, n - 1)
           v == SubSeq(q, n + 1, Len(q))
<1>1. Len(q) \in Nat /\ n \in 1..Len(q)
  OBVIOUS
<1>2. /\ u \in Seq(S) /\ Len(u) = n - 1
      /\ v \in Seq(S) /\ Len(v) = Len(q) - n
      /\ \A j \in 1..(n - 1) : u[j] = q[j]
      /\ \A j \in 1..(Len(q) - n) : v[j] = q[j + n]
  BY <1>1
<1>3. RemoveAt(q, n) = u \o v
  BY DEF RemoveAt
<1> HIDE DEF u, v
<1>4. /\ u \o v \in Seq(S) /\ Len(u \o v) = Len(u) + Len(v)
      /\ \A i \in 1..(Len(u) + Len(v)) :
           (u \o v)[i] = IF i <= Len(u) THEN u[i] ELSE v[i - Len(u)]
  BY <1>2, ConcatProperties
<1>5. DOMAIN (u \o v) = 1..(Len(q) - 1) /\ Len(u \o v) = Len(q) - 1
  BY <1>1, <1>2, <1>4
<1>6. ASSUME NEW j \in 1..(Len(q) - 1)
      PROVE  (u \o v)[j] = IF j < n THEN q[j] ELSE q[j + 1]
  <2>0. Len(u) = n - 1 /\ Len(u) + Len(v) = Len(q) - 1
    BY <1>1, <1>2
  <2>1. (u \o v)[j] = IF j <= n - 1 THEN u[j] ELSE v[j - (n - 1)]
    <3>1. (u \o v)[j] = IF j <= Len(u) THEN u[j] ELSE v[j - Len(u)]
      BY <1>4, <2>0, Zenon
    <3> QED BY <2>0, <3>1, Zenon
  <2>2. CASE j < n
    <3>1. j \in 1..(n - 1) /\ j <= n - 1
      BY <1>1, <2>2
    <3> QED BY <1>2, <2>1, <2>2, <3>1
  <2>3. CASE ~(j < n)
    <3>1. /\ j - (n - 1) \in 1..(Len(q) - n) /\ ~(j <= n - 1)
          /\ (j - (n - 1)) + n = j + 1
      BY <1>1, <2>3
    <3> QED BY <1>2, <2>1, <2>3, <3>1
  <2> QED BY <2>2, <2>3
<1> QED BY <1>3, <1>4, <1>5, <1>6

\* What is left: the entries but for the one taken out, none lost.
LEMMA RemoveAtKeeps ==
  ASSUME NEW S, NEW q \in Seq(S), NEW n \in DOMAIN q
  PROVE  /\ \A j \in DOMAIN RemoveAt(q, n) :
              \E k \in DOMAIN q : k # n /\ RemoveAt(q, n)[j] = q[k]
         /\ \A k \in DOMAIN q :
              k # n => \E j \in DOMAIN RemoveAt(q, n) : RemoveAt(q, n)[j] = q[k]
<1> DEFINE r == RemoveAt(q, n)
<1>1. Len(q) \in Nat /\ n \in 1..Len(q) /\ DOMAIN q = 1..Len(q)
  OBVIOUS
<1>2. /\ r \in Seq(S) /\ Len(r) = Len(q) - 1
      /\ \A j \in DOMAIN r : r[j] = IF j < n THEN q[j] ELSE q[j + 1]
  BY RemoveAtEntries
<1>3. DOMAIN r = 1..(Len(q) - 1)
  BY <1>2
<1> HIDE DEF r
<1>4. ASSUME NEW j \in DOMAIN r
      PROVE  \E k \in DOMAIN q : k # n /\ r[j] = q[k]
  <2>1. CASE j < n
    BY <1>1, <1>2, <1>3, <2>1
  <2>2. CASE ~(j < n)
    <3>1. j + 1 \in DOMAIN q /\ j + 1 # n
      BY <1>1, <1>3, <2>2
    <3> QED BY <1>2, <2>2, <3>1
  <2> QED BY <2>1, <2>2
<1>5. ASSUME NEW k \in DOMAIN q, k # n
      PROVE  \E j \in DOMAIN r : r[j] = q[k]
  <2>1. CASE k < n
    BY <1>1, <1>2, <1>3, <2>1
  <2>2. CASE ~(k < n)
    <3>1. k - 1 \in DOMAIN r /\ ~(k - 1 < n) /\ (k - 1) + 1 = k
      BY <1>1, <1>3, <1>5, <2>2
    <3> QED BY <1>2, <3>1
  <2> QED BY <2>1, <2>2
<1> QED BY <1>4, <1>5 DEF r

LEMMA RemoveAtOrdered ==
  ASSUME NEW option, NEW q \in Seq(Docs), NEW n \in DOMAIN q, Ordered(option, q)
  PROVE  Ordered(option, RemoveAt(q, n))
<1> DEFINE r == RemoveAt(q, n)
<1>1. Len(q) \in Nat /\ n \in 1..Len(q) /\ DOMAIN q = 1..Len(q)
  OBVIOUS
<1>2. /\ r \in Seq(Docs) /\ Len(r) = Len(q) - 1
      /\ \A j \in DOMAIN r : r[j] = IF j < n THEN q[j] ELSE q[j + 1]
  BY RemoveAtEntries
<1>3. DOMAIN r = 1..(Len(q) - 1)
  BY <1>2
<1> HIDE DEF r
<1>4. SUFFICES ASSUME NEW i \in DOMAIN r, NEW j \in DOMAIN r, i < j
               PROVE  Before(option, r[i], r[j])
  BY DEF Ordered, r
<1>5. PICK k \in DOMAIN q, l \in DOMAIN q : k < l /\ r[i] = q[k] /\ r[j] = q[l]
  <2> DEFINE k == IF i < n THEN i ELSE i + 1
             l == IF j < n THEN j ELSE j + 1
  <2>1. k \in DOMAIN q /\ l \in DOMAIN q /\ k < l
    BY <1>1, <1>3, <1>4
  <2>2. r[i] = q[k] /\ r[j] = q[l]
    BY <1>2
  <2> QED BY <2>1, <2>2
<1> QED BY <1>5 DEF Ordered

\* The array that SetToSeq makes of a set, and the sorted arrays of it.
LEMMA SetToSeqHolds ==
  ASSUME NEW S, IsFiniteSet(S)
  PROVE  /\ SetToSeq(S) \in Seq(S)
         /\ ToSet(SetToSeq(S)) = S
<1> DEFINE c == Cardinality(S)
           f == SetToSeq(S)
<1>1. c \in Nat /\ ExistsBijection(1..c, S)
  BY FS_CardinalityType
<1>2. PICK b \in Bijection(1..c, S) : TRUE
  BY <1>1 DEF ExistsBijection
<1>3. b \in [1..c -> S] /\ IsInjective(b)
  BY <1>2 DEF Bijection, Injection
<1>4. f \in [1..c -> S] /\ IsInjective(f)
  BY <1>3 DEF SetToSeq
<1> HIDE DEF f
<1>5. f \in Injection(1..c, S)
  BY <1>4 DEF Injection
<1>6. Cardinality(1..c) = c
  BY <1>1, FS_Interval
<1>7. f \in Surjection(1..c, S)
  BY <1>5, <1>6, FS_Injection
<1>8. ToSet(f) = S
  BY <1>4, <1>7 DEF Surjection, ToSet
<1>9. f \in Seq(S)
  BY <1>1, <1>4
<1> QED BY <1>8, <1>9 DEF f

LEMMA SetToSeqsHold ==
  ASSUME NEW S, IsFiniteSet(S), NEW q \in SetToSeqs(S)
  PROVE  q \in Seq(S) /\ ToSet(q) = S
<1> DEFINE c == Cardinality(S)
<1>1. c \in Nat
  BY FS_CardinalityType
<1>2. q \in [1..c -> S] /\ \A i, j \in 1..c : i # j => q[i] # q[j]
  BY DEF SetToSeqs
<1>3. q \in Injection(1..c, S)
  BY <1>2 DEF Injection, IsInjective
<1>4. Cardinality(1..c) = c
  BY <1>1, FS_Interval
<1>5. q \in Surjection(1..c, S)
  BY <1>3, <1>4, FS_Injection
<1>6. ToSet(q) = S
  BY <1>2, <1>5 DEF Surjection, ToSet
<1> QED BY <1>1, <1>2, <1>6

\* Sorting keeps favourites only, and one of each proverb.
LEMMA SortedHolds ==
  ASSUME NEW option, NEW S \in SUBSET Docs, NEW q \in Sorted(option, S)
  PROVE  /\ q \in Seq(Docs) /\ Ordered(option, q)
         /\ ToSet(q) \subseteq S
         /\ \A d \in S : \E e \in ToSet(q) : e.origin = d.origin
<1>1. PICK T \in (IF option = "date" THEN {S} ELSE OnePerText(S)) : q \in SetToSeqs(T)
  BY DEF Sorted
<1>2. Ordered(option, q)
  BY DEF Sorted
<1>3. /\ T \subseteq S
      /\ \A d \in S : \E e \in T : e.origin = d.origin
  <2>1. CASE option = "date"
    BY <1>1, <2>1
  <2>2. CASE option # "date"
    <3>1. /\ T \in SUBSET S
          /\ \A d \in S : \E e \in T : \A f \in T : f.origin = d.origin <=> f = e
      BY <1>1, <2>2 DEF OnePerText
    <3> QED BY <3>1
  <2> QED BY <2>1, <2>2
<1>4. T \subseteq Docs /\ IsFiniteSet(T)
  BY <1>3, FavoritesListAssumption, FS_Subset DEF FavoritesListAssumption
<1>5. q \in Seq(T) /\ ToSet(q) = T
  BY <1>1, <1>4, SetToSeqsHold
<1>6. q \in Seq(Docs)
  BY <1>4, <1>5, SeqMonotonic
<1> QED BY <1>2, <1>3, <1>5, <1>6

\* In order means without repetitions.
LEMMA OrderedDistinct ==
  ASSUME NEW option, NEW q \in Seq(Docs), Ordered(option, q),
         NEW i \in DOMAIN q, NEW j \in DOMAIN q, i # j
  PROVE  q[i] # q[j]
<1>1. DOMAIN q = 1..Len(q) /\ q[i] \in Docs /\ q[j] \in Docs
  OBVIOUS
<1>2. i < j \/ j < i
  BY <1>1
<1>3. Before(option, q[i], q[j]) \/ Before(option, q[j], q[i])
  BY <1>2 DEF Ordered
<1>4. /\ q[i].id \in Nat /\ q[i].origin \in Nat
      /\ q[j].id \in Nat /\ q[j].origin \in Nat
  BY <1>1, FavoritesListAssumption DEF FavoritesListAssumption
<1> QED BY <1>3, <1>4 DEF Before

(***************************************************************************)
(* What each change of the list keeps                                      *)
(***************************************************************************)
\* A list that shows its array in order.
Good(v, option) ==
  v \in Lists /\ v.trap = "none" /\ v.cells = v.rows /\ Ordered(option, v.rows)

\* The rows are all of S; every proverb of S has a row.
Within(rows, S) == \A n \in DOMAIN rows : rows[n] \in S
Covers(rows, S) == \A d \in S : \E n \in DOMAIN rows : rows[n].origin = d.origin

LEMMA WithinSet ==
  ASSUME NEW rows, NEW S
  PROVE  Within(rows, S) <=> ToSet(rows) \subseteq S
BY DEF Within, ToSet

LEMMA TouchableWithin ==
  ASSUME NEW v, NEW S
  PROVE  Touchable(v, S) <=> (v.realm => Within(v.rows, S))
BY WithinSet DEF Touchable

Trapped(v) == [v EXCEPT !.trap = "realm"]

LEMMA TrappedList ==
  ASSUME NEW v \in Lists
  PROVE  /\ Trapped(v) \in Lists /\ Trapped(v).trap = "realm"
         /\ Trapped(v).rows = v.rows /\ Trapped(v).cells = v.cells
         /\ Trapped(v).realm = v.realm
BY DEF Trapped, Lists

LEMMA SortedGood ==
  ASSUME NEW v \in Lists, v.trap = "none", NEW option, NEW objects,
         Touchable(v, objects), NEW w \in SortedAndReloaded(v, option, objects)
  PROVE  /\ Good(w, option) /\ w.realm = v.realm
         /\ Within(w.rows, ToSet(v.rows)) /\ Covers(w.rows, ToSet(v.rows))
<1>1. v.rows \in Seq(Docs) /\ ToSet(v.rows) \in SUBSET Docs
  BY DEF Lists, ToSet
<1>2. PICK q \in Sorted(option, ToSet(v.rows)) : w = [v EXCEPT !.rows = q, !.cells = q]
  BY DEF SortedAndReloaded
<1>3. /\ q \in Seq(Docs) /\ Ordered(option, q) /\ ToSet(q) \subseteq ToSet(v.rows)
      /\ \A d \in ToSet(v.rows) : \E e \in ToSet(q) : e.origin = d.origin
  BY <1>1, SortedHolds
<1>4. w \in Lists /\ w.rows = q /\ w.cells = q /\ w.realm = v.realm /\ w.trap = v.trap
  BY <1>2, <1>3 DEF Lists
<1>5. Within(q, ToSet(v.rows))
  BY <1>3, WithinSet
<1>6. Covers(q, ToSet(v.rows))
  <2>1. SUFFICES ASSUME NEW d \in ToSet(v.rows)
                 PROVE  \E n \in DOMAIN q : q[n].origin = d.origin
    BY DEF Covers
  <2>2. PICK e \in ToSet(q) : e.origin = d.origin
    BY <1>3
  <2> QED BY <2>2 DEF ToSet
<1> QED BY <1>3, <1>4, <1>5, <1>6 DEF Good

\* A read of nothing, and one of an unreadable list.
LEMMA UpdatedGood ==
  ASSUME where \in {"local", "remote", "none"},
         NEW v, Good(v, sortOption), NEW objects \in SUBSET Docs,
         where = "none" => Touchable(v, objects),
         NEW u \in Updated(v, objects)
  PROVE  /\ Good(u.list, sortOption)
         /\ where = "remote" => u.list = v /\ u.asks
         /\ where # "remote" => ~u.asks
         /\ where = "local" =>
              u.list.realm /\ Within(u.list.rows, objects) /\ Covers(u.list.rows, objects)
         /\ where = "none" =>
              u.list.realm = v.realm /\ Within(u.list.rows, ToSet(v.rows))
<1>1. v \in Lists /\ v.trap = "none"
  BY DEF Good
<1>2. CASE where = "remote"
  <2>1. u = [list |-> v, asks |-> TRUE]
    BY <1>2 DEF Updated
  <2> QED BY <1>2, <2>1
<1>3. CASE where = "local"
  <2> DEFINE q == SetToSeq(objects)
             x == [v EXCEPT !.rows = q, !.realm = TRUE]
  <2>1. IsFiniteSet(objects)
    BY FavoritesListAssumption, FS_Subset DEF FavoritesListAssumption
  <2>2. q \in Seq(Docs) /\ ToSet(q) = objects
    BY <2>1, SetToSeqHolds, SeqMonotonic
  <2>3. PICK w \in SortedAndReloaded(x, sortOption, objects) : u = [list |-> w, asks |-> FALSE]
    BY <1>3 DEF Updated
  <2>4. /\ x \in Lists /\ x.trap = "none" /\ x.realm = TRUE
        /\ x.rows = q
    BY <1>1, <2>2 DEF Lists
  <2> HIDE DEF x
  <2>5. Touchable(x, objects)
    BY <2>2, <2>4 DEF Touchable
  <2>6. /\ Good(w, sortOption) /\ w.realm = x.realm
        /\ Within(w.rows, ToSet(x.rows)) /\ Covers(w.rows, ToSet(x.rows))
    BY <2>3, <2>4, <2>5, SortedGood
  <2>7. ToSet(x.rows) = objects /\ w.realm = TRUE
    BY <2>2, <2>4, <2>6
  <2> QED BY <1>3, <2>3, <2>6, <2>7
<1>4. CASE where = "none"
  <2>1. PICK w \in SortedAndReloaded(v, sortOption, objects) : u = [list |-> w, asks |-> FALSE]
    BY <1>4 DEF Updated
  <2>2. Touchable(v, objects)
    BY <1>4
  <2>3. /\ Good(w, sortOption) /\ w.realm = v.realm
        /\ Within(w.rows, ToSet(v.rows))
    BY <1>1, <2>1, <2>2, SortedGood
  <2> QED BY <1>4, <2>1, <2>3
<1> QED BY <1>2, <1>3, <1>4

LEMMA UpdatedTrapped ==
  ASSUME NEW v, NEW objects, where = "none", ~Touchable(v, objects),
         NEW u \in Updated(v, objects)
  PROVE  u.list = Trapped(v) /\ ~u.asks
BY DEF Updated, SortedAndReloaded, Trapped

\* Array and table lose the same row.
LEMMA RemovedGood ==
  ASSUME NEW v, NEW option, Good(v, option), NEW n \in DOMAIN v.rows
  PROVE  /\ Good(Removed(v, n, n), option) /\ Removed(v, n, n).realm = v.realm
         /\ Removed(v, n, n).rows = RemoveAt(v.rows, n)
<1> DEFINE q == RemoveAt(v.rows, n)
           x == [v EXCEPT !.rows = q]
           y == [x EXCEPT !.cells = RemoveAt(@, n)]
<1>1. /\ v \in Lists /\ v.trap = "none" /\ v.cells = v.rows /\ v.rows \in Seq(Docs)
      /\ Ordered(option, v.rows)
  BY DEF Good, Lists
<1>2. Len(v.rows) \in Nat /\ n \in 1..Len(v.rows) /\ ~(n > Len(v.rows))
  BY <1>1
<1>3. q \in Seq(Docs) /\ Len(q) = Len(v.rows) - 1 /\ Ordered(option, q)
  BY <1>1, RemoveAtEntries, RemoveAtOrdered
<1> HIDE DEF q
<1>4. /\ x \in Lists /\ x.rows = q /\ x.cells = v.rows /\ x.trap = "none"
      /\ x.realm = v.realm
  BY <1>1, <1>3 DEF Lists
<1>5. RowRemoved(v, n) = x
  BY <1>2 DEF RowRemoved, q
<1> HIDE DEF x
<1>6. RemoveAt(x.cells, n) = q
  BY <1>4 DEF q
<1>7. y \in Lists /\ y.rows = q /\ y.cells = q /\ y.trap = "none" /\ y.realm = v.realm
  BY <1>3, <1>4, <1>6 DEF Lists
<1>8. ~(n > Len(x.cells) \/ Len(x.cells) # Len(x.rows) + 1)
  BY <1>2, <1>3, <1>4
<1>9. CellRemoved(x, n) = y
  BY <1>4, <1>8 DEF CellRemoved
<1> HIDE DEF y
<1>10. Removed(v, n, n) = y
  BY <1>5, <1>9 DEF Removed
<1> QED BY <1>3, <1>7, <1>10 DEF Good, q

\* Whatever is removed from a list, a list remains, or the trap is its own.
LEMMA CellRemovedTyped ==
  ASSUME NEW v \in Lists, v.trap # "realm", NEW row \in Nat \ {0}
  PROVE  /\ CellRemoved(v, row) \in Lists /\ CellRemoved(v, row).trap # "realm"
         /\ CellRemoved(v, row).realm = v.realm
<1>1. CASE v.trap # "none"
  BY <1>1 DEF CellRemoved
<1>2. CASE v.trap = "none" /\ (row > Len(v.cells) \/ Len(v.cells) # Len(v.rows) + 1)
  <2>1. CellRemoved(v, row) = [v EXCEPT !.trap = "table"]
    BY <1>2 DEF CellRemoved
  <2> QED BY <2>1 DEF Lists
<1>3. CASE v.trap = "none" /\ ~(row > Len(v.cells) \/ Len(v.cells) # Len(v.rows) + 1)
  <2>1. CellRemoved(v, row) = [v EXCEPT !.cells = RemoveAt(v.cells, row)]
    BY <1>3 DEF CellRemoved
  <2>2. v.cells \in Seq(Docs) /\ row \in DOMAIN v.cells
    BY <1>3 DEF Lists
  <2>3. RemoveAt(v.cells, row) \in Seq(Docs)
    BY <2>2, RemoveAtEntries
  <2> QED BY <1>3, <2>1, <2>3 DEF Lists
<1> QED BY <1>1, <1>2, <1>3

LEMMA RemovedTyped ==
  ASSUME NEW v \in Lists, v.trap # "realm", NEW index \in Nat \ {0}, NEW row \in Nat \ {0}
  PROVE  /\ Removed(v, index, row) \in Lists /\ Removed(v, index, row).trap # "realm"
         /\ Removed(v, index, row).realm = v.realm
<1>1. /\ RowRemoved(v, index) \in Lists /\ RowRemoved(v, index).trap # "realm"
      /\ RowRemoved(v, index).realm = v.realm
  <2>1. CASE index > Len(v.rows)
    <3>1. RowRemoved(v, index) = [v EXCEPT !.trap = "index"]
      BY <2>1 DEF RowRemoved
    <3> QED BY <3>1 DEF Lists
  <2>2. CASE ~(index > Len(v.rows))
    <3>1. RowRemoved(v, index) = [v EXCEPT !.rows = RemoveAt(v.rows, index)]
      BY <2>2 DEF RowRemoved
    <3>2. v.rows \in Seq(Docs) /\ index \in DOMAIN v.rows
      BY <2>2 DEF Lists
    <3>3. RemoveAt(v.rows, index) \in Seq(Docs)
      BY <3>2, RemoveAtEntries
    <3> QED BY <3>1, <3>3 DEF Lists
  <2> QED BY <2>1, <2>2
<1> QED BY <1>1, CellRemovedTyped DEF Removed

(***************************************************************************)
(* The inductive invariant.  Once a row was taken for another (left or     *)
(* moved is among the excuses) nothing is claimed of the list but types.   *)
(***************************************************************************)
Intact == excuses \cap {"left", "moved"} = {}
Quiet  == \A r \in Reads : reads[r].stage = "idle"
OnTop  == screen \in {"list", "details"}

\* The table has the rows of the array, and they are in order.
ListInv == Intact =>
  /\ list.cells = list.rows /\ list.trap \in {"none", "realm"}
  /\ list.trap = "none" => Ordered(sortOption, list.rows)

\* Realm objects that are shown are there, unless the favourites moved.
TrapInv == list.trap = "realm" => "switched" \in excuses
RealmInv == Intact /\ "switched" \notin excuses =>
  /\ Touchable(list, local)
  /\ details.realm => details.doc \in local

\* What was looked up is where it was found, unless the array changed since.
Placed(c, rows) ==
  c.row # 0 /\ ~c.moved => c.row \in DOMAIN rows /\ rows[c.row] = c.doc
Found(w) == w.row # 0 /\ ~w.moved => w.index = w.row

SwipeInv ==
  /\ swiped # NoCell => swiped.row # 0 /\ screen = "list"
  /\ Intact /\ swiped # NoCell => Placed(swiped, list.rows)

DeletionInv == Intact =>
  \A n \in DOMAIN deletions : Placed(deletions[n], list.rows) /\ Found(deletions[n])

NewInv == screen = "new" => list = NewList /\ deletions = << >> /\ Quiet

\* What the rows are to the favourites while nothing has gone wrong.
Still == where # "remote" => deletions = << >> /\ Quiet

LocalShown == where = "local" /\ OnTop =>
  list.realm /\ Within(list.rows, local) /\ Covers(list.rows, local)

NoneShown == where = "none" /\ OnTop => list.rows = << >> /\ ~list.realm

RemoteShown == where = "remote" /\ OnTop =>
  /\ ~list.realm /\ Within(list.rows, server)
  /\ Quiet => Covers(list.rows, Seen)

RemoteDetails == where = "remote" /\ screen = "details" =>
  ~details.realm /\ details.doc \in server

\* No other document holds the proverb of one that is being deleted.
OnlyCopy == \A n \in DOMAIN deletions : \A e \in server :
  e.origin = deletions[n].doc.origin =>
    \/ e = deletions[n].doc
    \/ deletions[n].row # 0 /\ deletions[n].doc \notin server

FaithInv == excuses = {} =>
  Still /\ LocalShown /\ NoneShown /\ RemoteShown /\ RemoteDetails /\ OnlyCopy

Inv == /\ FavoritesListTypeOK /\ ListInv /\ TrapInv /\ RealmInv
       /\ SwipeInv /\ DeletionInv /\ NewInv /\ FaithInv

(***************************************************************************)
(* Lemmas about what most steps do                                         *)
(***************************************************************************)
LEMMA AliveList ==
  ASSUME Inv, Alive
  PROVE  /\ Intact /\ Good(list, sortOption)
         /\ list \in Lists /\ list.rows \in Seq(Docs) /\ list.cells = list.rows
         /\ list.realm \in BOOLEAN /\ ToSet(list.rows) \subseteq Docs
BY DEF Inv, Alive, Intact, ListInv, Good, FavoritesListTypeOK, Lists, ToSet

LEMMA AskIsPending ==
  ASSUME reads \in [Reads -> ReadRecords], Ask
  PROVE  reads' \in [Reads -> ReadRecords] /\ ~Quiet'
<1>1. PICK r \in Reads : reads' = [reads EXCEPT ![r] = [NoRead EXCEPT !.stage = "asked"]]
  BY DEF Ask
<1>2. [NoRead EXCEPT !.stage = "asked"] = [stage |-> "asked", docs |-> {}]
  BY DEF NoRead
<1>3. [stage |-> "asked", docs |-> {}] \in ReadRecords
  BY DEF ReadRecords
<1>4. reads' \in [Reads -> ReadRecords] /\ reads'[r].stage = "asked"
  BY <1>1, <1>2, <1>3
<1> QED BY <1>4 DEF Quiet

\* Deletions keep what they are about; their rows are right or out of date.
LEMMA MovedDeletions ==
  ASSUME NEW pending \in Seq(DeletionRecords), deletions' = Moved(pending)
  PROVE  /\ deletions' \in Seq(DeletionRecords) /\ Len(deletions') = Len(pending)
         /\ DOMAIN deletions' = DOMAIN pending
         /\ \A n \in DOMAIN pending :
              /\ deletions'[n].doc = pending[n].doc /\ deletions'[n].row = pending[n].row
              /\ Placed(pending[n], list.rows) => Placed(deletions'[n], list'.rows)
              /\ Found(pending[n]) => Found(deletions'[n])
<1> DEFINE marked == [n \in DOMAIN pending |-> [pending[n] EXCEPT !.moved = TRUE]]
<1>1. DOMAIN pending = 1..Len(pending) /\ Len(pending) \in Nat
  OBVIOUS
<1>2. CASE list'.rows = list.rows
  <2>1. deletions' = pending
    BY <1>2 DEF Moved
  <2> QED BY <1>1, <1>2, <2>1
<1>3. CASE list'.rows # list.rows
  <2>1. deletions' = marked
    BY <1>3 DEF Moved
  <2>2. \A n \in DOMAIN pending :
          /\ marked[n] \in DeletionRecords /\ marked[n].doc = pending[n].doc
          /\ marked[n].row = pending[n].row /\ marked[n].moved = TRUE
    <3> TAKE n \in DOMAIN pending
    <3>1. pending[n] \in DeletionRecords
      OBVIOUS
    <3> QED BY <3>1 DEF DeletionRecords
  <2>3. DOMAIN marked = 1..Len(pending) /\ marked \in [1..Len(pending) -> DeletionRecords]
    BY <1>1, <2>2
  <2> HIDE DEF marked
  <2>4. marked \in Seq(DeletionRecords) /\ Len(marked) = Len(pending)
    BY <1>1, <2>3
  <2>5. \A n \in DOMAIN pending : Placed(marked[n], list'.rows) /\ Found(marked[n])
    BY <2>2 DEF Placed, Found
  <2> QED BY <1>1, <2>1, <2>2, <2>3, <2>4, <2>5, Zenon
<1> QED BY <1>2, <1>3

LEMMA SwipeKeptPlaced ==
  ASSUME swiped \in Cells \cup {NoCell}, SwipeKept,
         swiped # NoCell => swiped.row # 0,
         swiped # NoCell => Placed(swiped, list.rows)
  PROVE  /\ swiped' \in Cells \cup {NoCell}
         /\ swiped' # NoCell => swiped # NoCell /\ swiped'.row # 0
         /\ swiped' # NoCell => Placed(swiped', list'.rows)
<1>1. CASE swiped = NoCell \/ list'.rows = list.rows
  BY <1>1 DEF SwipeKept
<1>2. CASE swiped # NoCell /\ list'.rows # list.rows
  <2>1. swiped \in Cells /\ swiped' = [swiped EXCEPT !.moved = TRUE]
    BY <1>2 DEF SwipeKept
  <2>2. swiped' \in Cells /\ swiped'.row = swiped.row /\ swiped'.moved = TRUE
    BY <2>1 DEF Cells
  <2> QED BY <1>2, <2>2 DEF Placed
<1> QED BY <1>1, <1>2

LEMMA SwipeResetPlaced ==
  ASSUME SwipeReset
  PROVE  swiped' \in Cells \cup {NoCell} /\ SwipeInv'
BY DEF SwipeReset, SwipeInv

LEMMA ExcusedGrows ==
  ASSUME NEW S, excuses \in SUBSET ExcuseKinds, S \subseteq ExcuseKinds, Excused(S)
  PROVE  /\ excuses' \in SUBSET ExcuseKinds
         /\ "switched" \in excuses => "switched" \in excuses'
         /\ Intact' => Intact
         /\ excuses' = {} => excuses = {} /\ S = {}
BY DEF Excused, Intact

\* Three ways a step can leave the list.
LEMMA GoodListInv ==
  ASSUME Good(list', sortOption')
  PROVE  list' \in Lists /\ ListInv' /\ TrapInv'
BY DEF Good, ListInv, TrapInv

LEMMA TrappedListInv ==
  ASSUME list \in Lists, list.cells = list.rows, list' = Trapped(list),
         "switched" \in excuses'
  PROVE  list' \in Lists /\ ListInv' /\ TrapInv' /\ RealmInv' /\ FaithInv'
<1>1. /\ list' \in Lists /\ list'.trap = "realm"
      /\ list'.rows = list.rows /\ list'.cells = list.cells
  BY TrappedList
<1> QED BY <1>1 DEF ListInv, TrapInv, RealmInv, FaithInv

LEMMA GivenUpInv ==
  ASSUME ~Intact', list'.trap # "realm"
  PROVE  ListInv' /\ TrapInv' /\ RealmInv' /\ DeletionInv' /\ FaithInv'
<1>1. excuses' # {}
  BY DEF Intact
<1> QED BY <1>1 DEF ListInv, TrapInv, RealmInv, DeletionInv, FaithInv

\* A list is readable after it was read anew.
LEMMA UpdatedTouchable ==
  ASSUME where \in {"local", "remote", "none"},
         NEW v, Good(v, sortOption), NEW objects \in SUBSET Docs,
         Touchable(v, objects), NEW u \in Updated(v, objects)
  PROVE  Touchable(u.list, objects)
<1>1. /\ where = "remote" => u.list = v
      /\ where = "local" => Within(u.list.rows, objects)
      /\ where = "none" => u.list.realm = v.realm /\ Within(u.list.rows, ToSet(v.rows))
  BY UpdatedGood
<1>2. CASE where = "none"
  <2>1. Within(u.list.rows, ToSet(v.rows)) /\ u.list.realm = v.realm
    BY <1>1, <1>2
  <2>2. v.realm => ToSet(v.rows) \subseteq objects
    BY DEF Touchable
  <2> QED BY <2>1, <2>2, TouchableWithin DEF Within
<1>3. CASE where = "local"
  BY <1>1, <1>3, TouchableWithin
<1> QED BY <1>1, <1>2, <1>3

LEMMA WithinNothing ==
  ASSUME NEW rows \in Seq(Docs), Within(rows, {})
  PROVE  rows = << >>
<1>1. \A n \in DOMAIN rows : FALSE
  BY DEF Within
<1>2. DOMAIN rows = 1..Len(rows) /\ Len(rows) \in Nat
  BY LenProperties
<1>3. ~(1 \in 1..Len(rows))
  BY <1>1, <1>2, Zenon
<1>4. Len(rows) = 0
  BY <1>2, <1>3
<1> QED BY <1>4, EmptySeq

\* A new list is in order, and of no store.
LEMMA NewListGood ==
  /\ \A option : Good(NewList, option)
  /\ \A S : Touchable(NewList, S)
  /\ NewList.rows = << >> /\ ~NewList.realm /\ ToSet(NewList.rows) = {}
<1>1. NewList \in Lists
  BY EmptySeq DEF NewList, Lists
<1>2. /\ NewList.trap = "none" /\ NewList.cells = NewList.rows
      /\ NewList.rows = << >> /\ NewList.realm = FALSE
  BY DEF NewList
<1>3. \A option : Ordered(option, << >>)
  BY DEF Ordered
<1>4. ToSet(<< >>) = {}
  BY DEF ToSet
<1> QED BY <1>1, <1>2, <1>3, <1>4 DEF Good, Touchable

(***************************************************************************)
(* The steps                                                               *)
(***************************************************************************)
LEMMA OpenInv ==
  ASSUME Inv, Open
  PROVE  Inv'
<1>1. /\ FavoritesListTypeOK /\ local \in SUBSET Docs /\ excuses \in SUBSET ExcuseKinds
      /\ where \in {"local", "remote", "none"} /\ reads \in [Reads -> ReadRecords]
  BY DEF Inv, FavoritesListTypeOK
<1>2. /\ screen = "new" /\ screen' = "list" /\ swiped' = NoCell
      /\ deletions = << >> /\ Quiet /\ details = NoDetails
      /\ UNCHANGED <<where, local, server, sortOption, details, deletions, excuses>>
  BY <1>1 DEF Open, Inv, NewInv, SwipeReset, FavoritesListTypeOK
<1>3. PICK u \in Updated(NewList, local) :
        /\ list' = u.list
        /\ IF u.asks THEN Ask ELSE UNCHANGED reads
  BY DEF Open
<1>4. /\ Good(list', sortOption)
      /\ where = "remote" => list' = NewList /\ u.asks
      /\ where # "remote" => ~u.asks
      /\ where = "local" => list'.realm /\ Within(list'.rows, local) /\ Covers(list'.rows, local)
      /\ where = "none" => list'.realm = NewList.realm /\ Within(list'.rows, ToSet(NewList.rows))
  BY <1>1, <1>3, NewListGood, UpdatedGood
<1>5. Touchable(list', local)
  BY <1>1, <1>3, NewListGood, UpdatedTouchable
<1>6. list' \in Lists /\ ListInv' /\ TrapInv'
  BY <1>2, <1>4, GoodListInv
<1>7. reads' \in [Reads -> ReadRecords]
  BY <1>1, <1>3, AskIsPending
<1>8. FavoritesListTypeOK'
  BY <1>1, <1>2, <1>6, <1>7 DEF FavoritesListTypeOK
<1>9. RealmInv'
  BY <1>2, <1>5 DEF RealmInv, NoDetails
<1>10. SwipeInv' /\ DeletionInv' /\ NewInv'
  BY <1>2 DEF SwipeInv, DeletionInv, NewInv
<1>11. Still'
  BY <1>2, <1>3, <1>4 DEF Still, Quiet
<1>12. LocalShown'
  BY <1>2, <1>4 DEF LocalShown
<1>13. NoneShown'
  <2>1. SUFFICES ASSUME where = "none" PROVE list'.rows = << >> /\ ~list'.realm
    BY <1>2 DEF NoneShown
  <2>2. ~list'.realm /\ Within(list'.rows, {}) /\ list'.rows \in Seq(Docs)
    BY <1>4, <1>6, <2>1, NewListGood DEF Lists
  <2> QED BY <2>2, WithinNothing
<1>14. RemoteShown'
  <2>1. SUFFICES ASSUME where = "remote"
                 PROVE  ~list'.realm /\ Within(list'.rows, server') /\ ~Quiet'
    BY <1>2 DEF RemoteShown
  <2>2. list' = NewList /\ ~Quiet'
    BY <1>1, <1>3, <1>4, <2>1, AskIsPending
  <2> QED BY <2>2, NewListGood DEF Within
<1>15. RemoteDetails' /\ OnlyCopy'
  BY <1>2 DEF RemoteDetails, OnlyCopy
<1> QED BY <1>6, <1>8, <1>9, <1>10, <1>11, <1>12, <1>13, <1>14, <1>15 DEF Inv, FaithInv

LEMMA RefreshInv ==
  ASSUME Inv, Refresh
  PROVE  Inv'
<1>1. /\ FavoritesListTypeOK /\ local \in SUBSET Docs /\ excuses \in SUBSET ExcuseKinds
      /\ where \in {"local", "remote", "none"} /\ reads \in [Reads -> ReadRecords]
      /\ swiped \in Cells \cup {NoCell} /\ deletions \in Seq(DeletionRecords)
  BY DEF Inv, FavoritesListTypeOK
<1>2. /\ Intact /\ Good(list, sortOption) /\ list \in Lists /\ list.rows \in Seq(Docs)
      /\ list.cells = list.rows
  BY AliveList DEF Refresh
<1>3. /\ screen = "list" /\ details = NoDetails /\ deletions' = Moved(deletions)
      /\ UNCHANGED <<where, local, server, screen, sortOption, details, excuses>>
  BY <1>1 DEF Refresh, UpdateData, FavoritesListTypeOK
<1>4. PICK u \in Updated(list, local) :
        /\ list' = u.list
        /\ IF u.asks THEN Ask /\ SwipeKept ELSE UNCHANGED reads /\ SwipeReset
  BY DEF Refresh, UpdateData
<1>5. reads' \in [Reads -> ReadRecords]
  BY <1>1, <1>4, AskIsPending
<1>6. swiped' \in Cells \cup {NoCell} /\ SwipeInv'
  <2>1. CASE u.asks
    BY <1>1, <1>2, <1>3, <1>4, <2>1, SwipeKeptPlaced DEF SwipeInv, Inv
  <2>2. CASE ~u.asks
    BY <1>4, <2>2, SwipeResetPlaced
  <2> QED BY <2>1, <2>2
<1>7. /\ deletions' \in Seq(DeletionRecords) /\ Len(deletions') = Len(deletions)
      /\ DOMAIN deletions' = DOMAIN deletions
      /\ \A n \in DOMAIN deletions :
           /\ deletions'[n].doc = deletions[n].doc /\ deletions'[n].row = deletions[n].row
           /\ Placed(deletions[n], list.rows) => Placed(deletions'[n], list'.rows)
           /\ Found(deletions[n]) => Found(deletions'[n])
  BY <1>1, <1>3, MovedDeletions
<1>8. DeletionInv'
  BY <1>2, <1>7 DEF Inv, DeletionInv
<1>9. list' \in Lists => FavoritesListTypeOK'
  BY <1>1, <1>3, <1>5, <1>6, <1>7 DEF FavoritesListTypeOK
<1>10. NewInv'
  BY <1>3 DEF NewInv
<1>11. CASE where = "none" /\ ~Touchable(list, local)
  <2>1. list' = Trapped(list)
    BY <1>4, <1>11, UpdatedTrapped
  <2>2. "switched" \in excuses
    BY <1>2, <1>11 DEF Inv, RealmInv
  <2>3. list' \in Lists /\ ListInv' /\ TrapInv' /\ RealmInv' /\ FaithInv'
    BY <1>2, <1>3, <2>1, <2>2, TrappedListInv
  <2> QED BY <1>6, <1>8, <1>9, <1>10, <2>3 DEF Inv
<1>12. CASE where # "none" \/ Touchable(list, local)
  <2>1. /\ Good(list', sortOption)
        /\ where = "remote" => list' = list /\ u.asks
        /\ where # "remote" => ~u.asks
        /\ where = "local" =>
             list'.realm /\ Within(list'.rows, local) /\ Covers(list'.rows, local)
        /\ where = "none" => list'.realm = list.realm /\ Within(list'.rows, ToSet(list.rows))
    BY <1>1, <1>2, <1>4, <1>12, UpdatedGood
  <2>2. list' \in Lists /\ ListInv' /\ TrapInv'
    BY <1>3, <2>1, GoodListInv
  <2>3. Touchable(list, local) => Touchable(list', local)
    BY <1>1, <1>2, <1>4, UpdatedTouchable
  <2>4. RealmInv'
    BY <1>3, <2>3 DEF Inv, RealmInv, Intact
  <2>5. FaithInv'
    <3>1. SUFFICES ASSUME excuses' = {}
                   PROVE  /\ Still' /\ LocalShown' /\ NoneShown'
                          /\ RemoteShown' /\ RemoteDetails' /\ OnlyCopy'
      BY DEF FaithInv
    <3>2. Still /\ NoneShown /\ RemoteShown /\ OnlyCopy
      BY <1>3, <3>1 DEF Inv, FaithInv
    <3>3. Still'
      <4>1. SUFFICES ASSUME where # "remote" PROVE deletions' = << >> /\ Quiet'
        BY <1>3 DEF Still
      <4>2. deletions = << >> /\ Quiet /\ reads' = reads
        BY <1>4, <2>1, <3>2, <4>1 DEF Still
      <4> QED BY <1>7, <4>2 DEF Quiet
    <3>4. LocalShown'
      BY <1>3, <2>1 DEF LocalShown
    <3>5. NoneShown'
      <4>1. SUFFICES ASSUME where = "none" PROVE list'.rows = << >> /\ ~list'.realm
        BY <1>3 DEF NoneShown
      <4>2. list.rows = << >> /\ ~list.realm
        BY <1>3, <3>2, <4>1 DEF NoneShown, OnTop
      <4>3. ToSet(list.rows) = {}
        BY <4>2 DEF ToSet
      <4>4. ~list'.realm /\ Within(list'.rows, {}) /\ list'.rows \in Seq(Docs)
        BY <2>1, <2>2, <4>1, <4>2, <4>3 DEF Lists
      <4> QED BY <4>4, WithinNothing
    <3>6. RemoteShown'
      <4>1. SUFFICES ASSUME where = "remote"
                     PROVE  ~list'.realm /\ Within(list'.rows, server') /\ ~Quiet'
        BY <1>3 DEF RemoteShown
      <4>2. list' = list /\ ~Quiet'
        BY <1>1, <1>4, <2>1, <4>1, AskIsPending
      <4> QED BY <1>3, <3>2, <4>1, <4>2 DEF RemoteShown, OnTop
    <3>7. RemoteDetails'
      BY <1>3 DEF RemoteDetails
    <3>8. OnlyCopy'
      BY <1>3, <1>7, <3>2 DEF OnlyCopy
    <3> QED BY <3>3, <3>4, <3>5, <3>6, <3>7, <3>8
  <2> QED BY <1>6, <1>8, <1>9, <1>10, <2>2, <2>4, <2>5 DEF Inv
<1> QED BY <1>11, <1>12

LEMMA AnswerReadInv ==
  ASSUME Inv, NEW r \in Reads, AnswerRead(r)
  PROVE  Inv'
<1>1. /\ reads[r].stage = "asked" /\ reads' = [reads EXCEPT ![r] = [stage |-> "found", docs |-> Seen]]
      /\ UNCHANGED <<where, local, server, screen, sortOption, list, swiped, details,
                     deletions, excuses>>
  BY DEF AnswerRead
<1>2. FavoritesListTypeOK /\ server \in SUBSET Docs /\ reads \in [Reads -> ReadRecords]
  BY DEF Inv, FavoritesListTypeOK
<1>3. [stage |-> "found", docs |-> Seen] \in ReadRecords
  BY <1>2 DEF ReadRecords, Seen
<1>4. reads' \in [Reads -> ReadRecords] /\ reads'[r].stage = "found"
  BY <1>1, <1>2, <1>3
<1>5. ~Quiet /\ ~Quiet'
  BY <1>1, <1>4 DEF Quiet
<1>6. FavoritesListTypeOK'
  BY <1>1, <1>2, <1>4 DEF FavoritesListTypeOK
<1>7. ListInv' /\ TrapInv' /\ RealmInv' /\ SwipeInv' /\ DeletionInv'
  BY <1>1 DEF Inv, ListInv, TrapInv, RealmInv, SwipeInv, DeletionInv, Intact
<1>8. NewInv'
  BY <1>1, <1>5 DEF Inv, NewInv
<1>9. FaithInv'
  <2>1. SUFFICES ASSUME excuses = {}
                 PROVE  /\ Still' /\ LocalShown' /\ NoneShown'
                        /\ RemoteShown' /\ RemoteDetails' /\ OnlyCopy'
    BY <1>1 DEF FaithInv
  <2>2. /\ Still /\ LocalShown /\ NoneShown /\ RemoteShown /\ RemoteDetails /\ OnlyCopy
    BY <2>1 DEF Inv, FaithInv
  <2>3. Still' /\ RemoteShown'
    BY <1>1, <1>5, <2>2 DEF Still, RemoteShown, OnTop
  <2>4. LocalShown' /\ NoneShown' /\ RemoteDetails' /\ OnlyCopy'
    BY <1>1, <2>2 DEF LocalShown, NoneShown, RemoteDetails, OnlyCopy, OnTop
  <2> QED BY <2>3, <2>4
<1> QED BY <1>6, <1>7, <1>8, <1>9 DEF Inv

LEMMA SwipeStepInv ==
  ASSUME Inv, NEW n, Swipe(n)
  PROVE  Inv'
<1>1. /\ n \in DOMAIN list.cells /\ screen = "list"
      /\ swiped' = [doc |-> list.rows[n], row |-> n, moved |-> FALSE]
      /\ UNCHANGED <<where, local, server, screen, sortOption, list, details, deletions,
                     reads, excuses>>
  BY DEF Swipe
<1>2. /\ FavoritesListTypeOK /\ list.rows \in Seq(Docs) /\ list.cells = list.rows
  BY AliveList DEF Swipe, Inv
<1>3. n \in DOMAIN list.rows /\ list.rows[n] \in Docs /\ n \in Nat /\ n # 0
  BY <1>1, <1>2
<1>4. /\ swiped' \in Cells /\ swiped'.row = n /\ swiped'.doc = list.rows[n]
  BY <1>1, <1>3 DEF Cells
<1>5. FavoritesListTypeOK'
  BY <1>1, <1>2, <1>4 DEF FavoritesListTypeOK
<1>6. SwipeInv'
  BY <1>1, <1>3, <1>4 DEF SwipeInv, Placed
<1>7. ListInv' /\ TrapInv' /\ RealmInv' /\ DeletionInv' /\ NewInv'
  BY <1>1 DEF Inv, ListInv, TrapInv, RealmInv, DeletionInv, NewInv, Intact, Quiet
<1>8. FaithInv'
  BY <1>1 DEF Inv, FaithInv, Still, LocalShown, NoneShown, RemoteShown, RemoteDetails,
              OnlyCopy, OnTop, Quiet, Seen
<1> QED BY <1>5, <1>6, <1>7, <1>8 DEF Inv

LEMMA TouchDeletedInv ==
  ASSUME Inv, TouchDeleted
  PROVE  Inv'
<1>1. /\ list' = Trapped(list)
      /\ UNCHANGED <<where, local, server, screen, sortOption, swiped, details,
                     deletions, reads, excuses>>
  BY DEF TouchDeleted, Trapped
<1>2. /\ FavoritesListTypeOK /\ Intact /\ list \in Lists /\ list.cells = list.rows
  BY AliveList DEF TouchDeleted, Inv
<1>3. "switched" \in excuses
  BY <1>2 DEF TouchDeleted, Inv, RealmInv
<1>4. list' \in Lists /\ ListInv' /\ TrapInv' /\ RealmInv' /\ FaithInv'
  BY <1>1, <1>2, <1>3, TrappedListInv
<1>5. list'.rows = list.rows
  BY <1>1, <1>2, TrappedList
<1>6. FavoritesListTypeOK'
  BY <1>1, <1>2, <1>4 DEF FavoritesListTypeOK
<1>7. SwipeInv' /\ DeletionInv'
  BY <1>1, <1>5 DEF Inv, SwipeInv, DeletionInv, Intact
<1>8. NewInv'
  BY <1>1 DEF TouchDeleted, NewInv
<1> QED BY <1>4, <1>6, <1>7, <1>8 DEF Inv

LEMMA OpenDetailsInv ==
  ASSUME Inv, NEW n, OpenDetails(n)
  PROVE  Inv'
<1>1. /\ n \in DOMAIN list.rows /\ Touchable(list, local)
      /\ screen = "list" /\ screen' = "details"
      /\ details' = [doc |-> list.rows[n], realm |-> list.realm]
      /\ swiped' = NoCell
      /\ UNCHANGED <<where, local, server, sortOption, list, deletions, reads, excuses>>
  BY DEF OpenDetails, SwipeReset
<1>2. /\ FavoritesListTypeOK /\ list.rows \in Seq(Docs) /\ list.realm \in BOOLEAN
  BY AliveList DEF OpenDetails, Inv
<1>3. /\ details' \in Details /\ details'.doc = list.rows[n] /\ details'.realm = list.realm
  BY <1>1, <1>2 DEF Details
<1>4. FavoritesListTypeOK'
  BY <1>1, <1>2, <1>3 DEF FavoritesListTypeOK
<1>5. RealmInv'
  <2>1. list.realm => list.rows[n] \in local
    BY <1>1, TouchableWithin DEF Within
  <2> QED BY <1>1, <1>3, <2>1 DEF RealmInv
<1>6. ListInv' /\ TrapInv' /\ SwipeInv' /\ DeletionInv' /\ NewInv'
  BY <1>1 DEF Inv, ListInv, TrapInv, SwipeInv, DeletionInv, NewInv, Intact, Quiet
<1>7. FaithInv'
  <2>1. SUFFICES ASSUME excuses = {}
                 PROVE  /\ Still' /\ LocalShown' /\ NoneShown'
                        /\ RemoteShown' /\ RemoteDetails' /\ OnlyCopy'
    BY <1>1 DEF FaithInv
  <2>2. /\ Still /\ LocalShown /\ NoneShown /\ RemoteShown /\ OnlyCopy /\ OnTop
    BY <1>1, <2>1 DEF Inv, FaithInv, OnTop
  <2>3. Still' /\ LocalShown' /\ NoneShown' /\ OnlyCopy'
    BY <1>1, <2>2 DEF Still, LocalShown, NoneShown, OnlyCopy, Quiet
  <2>4. RemoteShown'
    BY <1>1, <2>2 DEF RemoteShown, Quiet, Seen
  <2>5. RemoteDetails'
    BY <1>1, <1>3, <2>2 DEF RemoteShown, RemoteDetails, Within
  <2> QED BY <2>3, <2>4, <2>5
<1> QED BY <1>4, <1>5, <1>6, <1>7 DEF Inv

LEMMA BackInv ==
  ASSUME Inv, Back
  PROVE  Inv'
<1>1. /\ screen \in {"list", "details"}
      /\ screen' = IF screen = "details" THEN "list" ELSE "popped"
      /\ list' = IF screen = "list" /\ Gone THEN NewList ELSE list
      /\ details' = NoDetails /\ swiped' = NoCell
      /\ UNCHANGED <<where, local, server, sortOption, deletions, reads, excuses>>
  BY DEF Back, SwipeReset
<1>2. FavoritesListTypeOK /\ Intact /\ Good(list, sortOption)
  BY AliveList DEF Back, Inv
<1>3. Good(list', sortOption')
  BY <1>1, <1>2, NewListGood
<1>4. list' \in Lists /\ ListInv' /\ TrapInv'
  BY <1>3, GoodListInv
<1>5. FavoritesListTypeOK'
  BY <1>1, <1>2, <1>4 DEF FavoritesListTypeOK
<1>6. RealmInv'
  <2>1. SUFFICES ASSUME "switched" \notin excuses PROVE Touchable(list', local)
    BY <1>1 DEF RealmInv, NoDetails
  <2>2. Touchable(list, local)
    BY <1>2, <2>1 DEF Inv, RealmInv
  <2> QED BY <1>1, <2>2, NewListGood
<1>7. SwipeInv' /\ NewInv'
  BY <1>1 DEF SwipeInv, NewInv
<1>8. DeletionInv'
  <2>1. CASE screen = "list" /\ Gone
    BY <1>1, <2>1 DEF Gone, DeletionInv, Placed, Found
  <2>2. CASE ~(screen = "list" /\ Gone)
    BY <1>1, <2>2 DEF Inv, DeletionInv, Intact
  <2> QED BY <2>1, <2>2
<1>9. FaithInv'
  <2>1. SUFFICES ASSUME excuses = {}
                 PROVE  /\ Still' /\ LocalShown' /\ NoneShown'
                        /\ RemoteShown' /\ RemoteDetails' /\ OnlyCopy'
    BY <1>1 DEF FaithInv
  <2>2. /\ Still /\ LocalShown /\ NoneShown /\ RemoteShown /\ OnlyCopy /\ OnTop
    BY <1>1, <2>1 DEF Inv, FaithInv, OnTop
  <2>3. Still' /\ OnlyCopy' /\ RemoteDetails'
    BY <1>1, <2>2 DEF Still, OnlyCopy, RemoteDetails, Quiet
  <2>4. OnTop' => list' = list
    BY <1>1 DEF OnTop
  <2>5. LocalShown' /\ NoneShown'
    BY <1>1, <2>2, <2>4 DEF LocalShown, NoneShown
  <2>6. RemoteShown'
    BY <1>1, <2>2, <2>4 DEF RemoteShown, Quiet, Seen
  <2> QED BY <2>3, <2>5, <2>6
<1> QED BY <1>4, <1>5, <1>6, <1>7, <1>8, <1>9 DEF Inv

\* The favourites move, or a late save adds to them: an excuse is noted.
LEMMA BehindInv ==
  ASSUME Inv, Alive,
         Switch \/ \E d \in Docs : SaveArrives(d)
  PROVE  Inv'
<1>1. /\ UNCHANGED <<screen, sortOption, list, swiped, details, deletions, reads>>
      /\ \/ Excused({"switched"})
         \/ Excused({"parted"}) /\ local' = local
  BY DEF Switch, SaveArrives
<1>2. /\ FavoritesListTypeOK /\ Intact
      /\ local \in SUBSET Docs /\ server \in SUBSET Docs /\ excuses \in SUBSET ExcuseKinds
  BY AliveList DEF Inv, FavoritesListTypeOK
<1>3. /\ where' \in {"local", "remote", "none"}
      /\ local' \in SUBSET Docs /\ server' \in SUBSET Docs
  BY <1>2 DEF Switch, SaveArrives, Inv, FavoritesListTypeOK
<1>4. excuses' \in SUBSET ExcuseKinds /\ excuses' # {} /\ Intact'
  BY <1>1, <1>2 DEF Excused, ExcuseKinds, Intact
<1>5. FavoritesListTypeOK'
  BY <1>1, <1>2, <1>3, <1>4 DEF FavoritesListTypeOK
<1>6. TrapInv' /\ RealmInv'
  <2>1. CASE "switched" \in excuses'
    BY <2>1 DEF TrapInv, RealmInv
  <2>2. CASE "switched" \notin excuses'
    BY <1>1, <1>2, <2>2 DEF Excused, Inv, TrapInv, RealmInv
  <2> QED BY <2>1, <2>2
<1>7. ListInv' /\ SwipeInv' /\ DeletionInv' /\ NewInv'
  BY <1>1, <1>2 DEF Inv, ListInv, SwipeInv, DeletionInv, NewInv, Quiet
<1>8. FaithInv'
  BY <1>4 DEF FaithInv
<1> QED BY <1>5, <1>6, <1>7, <1>8 DEF Inv

LEMMA WithinChain ==
  ASSUME NEW p, NEW q, NEW S, Within(p, ToSet(q)), Within(q, S)
  PROVE  Within(p, S)
BY WithinSet DEF Within

LEMMA CoversChain ==
  ASSUME NEW p, NEW q, NEW S, Covers(p, ToSet(q)), Covers(q, S)
  PROVE  Covers(p, S)
<1>1. SUFFICES ASSUME NEW d \in S
               PROVE  \E n \in DOMAIN p : p[n].origin = d.origin
  BY DEF Covers
<1>2. PICK m \in DOMAIN q : q[m].origin = d.origin
  BY DEF Covers
<1>3. q[m] \in ToSet(q)
  BY DEF ToSet
<1> QED BY <1>2, <1>3 DEF Covers

\* Marking deletions changes nothing about the documents they hide.
LEMMA MovedSeen ==
  ASSUME deletions \in Seq(DeletionRecords), deletions' = Moved(deletions), server' = server
  PROVE  Seen' = Seen /\ (OnlyCopy => OnlyCopy')
<1>1. /\ DOMAIN deletions' = DOMAIN deletions
      /\ \A n \in DOMAIN deletions :
           deletions'[n].doc = deletions[n].doc /\ deletions'[n].row = deletions[n].row
  BY MovedDeletions
<1>2. {deletions'[n].doc : n \in DOMAIN deletions'} = {deletions[n].doc : n \in DOMAIN deletions}
  BY <1>1
<1> QED BY <1>1, <1>2 DEF Seen, OnlyCopy

LEMMA ChangeSortInv ==
  ASSUME Inv, ChangeSort
  PROVE  Inv'
<1>1. /\ screen = "list" /\ details = NoDetails /\ deletions' = Moved(deletions)
      /\ sortOption' \in {"alphabet", "date"}
      /\ list' \in SortedAndReloaded(list, sortOption', local)
      /\ swiped' = NoCell
      /\ UNCHANGED <<where, local, server, screen, details, reads, excuses>>
  BY DEF ChangeSort, SwipeReset, Inv, FavoritesListTypeOK
<1>2. /\ FavoritesListTypeOK /\ deletions \in Seq(DeletionRecords) /\ Intact
      /\ Good(list, sortOption) /\ list \in Lists /\ list.cells = list.rows
  BY AliveList DEF ChangeSort, Inv, FavoritesListTypeOK
<1>3. /\ deletions' \in Seq(DeletionRecords) /\ Len(deletions') = Len(deletions)
      /\ DOMAIN deletions' = DOMAIN deletions
      /\ \A n \in DOMAIN deletions :
           /\ deletions'[n].doc = deletions[n].doc /\ deletions'[n].row = deletions[n].row
           /\ Placed(deletions[n], list.rows) => Placed(deletions'[n], list'.rows)
           /\ Found(deletions[n]) => Found(deletions'[n])
  BY <1>1, <1>2, MovedDeletions
<1>4. DeletionInv' /\ SwipeInv' /\ NewInv'
  BY <1>1, <1>2, <1>3 DEF Inv, DeletionInv, SwipeInv, NewInv
<1>5. list' \in Lists => FavoritesListTypeOK'
  BY <1>1, <1>2, <1>3 DEF FavoritesListTypeOK
<1>6. CASE ~Touchable(list, local)
  <2>1. list' = Trapped(list)
    BY <1>1, <1>6 DEF SortedAndReloaded, Trapped
  <2>2. "switched" \in excuses'
    BY <1>1, <1>2, <1>6 DEF Inv, RealmInv
  <2>3. list' \in Lists /\ ListInv' /\ TrapInv' /\ RealmInv' /\ FaithInv'
    BY <1>2, <2>1, <2>2, TrappedListInv
  <2> QED BY <1>4, <1>5, <2>3 DEF Inv
<1>7. CASE Touchable(list, local)
  <2>1. /\ Good(list', sortOption') /\ list'.realm = list.realm
        /\ Within(list'.rows, ToSet(list.rows)) /\ Covers(list'.rows, ToSet(list.rows))
    BY <1>1, <1>2, <1>7, SortedGood DEF Good
  <2>2. list' \in Lists /\ ListInv' /\ TrapInv'
    BY <2>1, GoodListInv
  <2>3. Touchable(list', local)
    BY <1>7, <2>1, TouchableWithin, WithinChain
  <2>4. RealmInv'
    BY <1>1, <2>3 DEF RealmInv, NoDetails
  <2>5. FaithInv'
    <3>1. SUFFICES ASSUME excuses = {}
                   PROVE  /\ Still' /\ LocalShown' /\ NoneShown'
                          /\ RemoteShown' /\ RemoteDetails' /\ OnlyCopy'
      BY <1>1 DEF FaithInv
    <3>2. Still /\ LocalShown /\ NoneShown /\ RemoteShown /\ OnlyCopy /\ OnTop
      BY <1>1, <3>1 DEF Inv, FaithInv, OnTop
    <3>3. OnlyCopy' /\ Seen' = Seen
      BY <1>1, <1>2, <3>2, MovedSeen
    <3>4. Still'
      BY <1>1, <1>3, <3>2 DEF Still, Quiet
    <3>5. RemoteDetails'
      BY <1>1 DEF RemoteDetails
    <3>6. LocalShown'
      BY <1>1, <2>1, <3>2, WithinChain, CoversChain DEF LocalShown
    <3>7. NoneShown'
      <4>1. SUFFICES ASSUME where = "none" PROVE list'.rows = << >> /\ ~list'.realm
        BY <1>1 DEF NoneShown
      <4>2. list.rows = << >> /\ ~list.realm
        BY <3>2, <4>1 DEF NoneShown
      <4>3. ToSet(list.rows) = {}
        BY <4>2 DEF ToSet
      <4>4. ~list'.realm /\ Within(list'.rows, {}) /\ list'.rows \in Seq(Docs)
        BY <2>1, <2>2, <4>2, <4>3 DEF Lists
      <4> QED BY <4>4, WithinNothing
    <3>8. RemoteShown'
      <4>1. SUFFICES ASSUME where = "remote"
                     PROVE  /\ ~list'.realm /\ Within(list'.rows, server)
                            /\ Quiet => Covers(list'.rows, Seen)
        BY <1>1, <3>3 DEF RemoteShown, Quiet
      <4>2. ~list.realm /\ Within(list.rows, server) /\ (Quiet => Covers(list.rows, Seen))
        BY <3>2, <4>1 DEF RemoteShown
      <4> QED BY <2>1, <4>2, WithinChain, CoversChain
    <3> QED BY <3>3, <3>4, <3>5, <3>6, <3>7, <3>8
  <2> QED BY <1>4, <1>5, <2>2, <2>4, <2>5 DEF Inv
<1> QED BY <1>6, <1>7

LEMMA DeliverReadInv ==
  ASSUME Inv, NEW r \in Reads, DeliverRead(r)
  PROVE  Inv'
<1> DEFINE found == reads[r].stage = "found"
           docs == reads[r].docs
           x == [list EXCEPT !.rows = SetToSeq(docs), !.realm = FALSE]
           S == IF ~found THEN {"parted"}
                ELSE IF where # "remote" \/ docs # Seen THEN {"parted"} ELSE {}
<1>1. /\ reads[r].stage \in {"asked", "found"}
      /\ list' \in SortedAndReloaded(IF found THEN x ELSE list, sortOption, local)
      /\ Excused(S) /\ reads' = [reads EXCEPT ![r] = NoRead]
      /\ deletions' = Moved(deletions) /\ swiped' = NoCell
      /\ UNCHANGED <<where, local, server, screen, sortOption, details>>
  BY DEF DeliverRead, SwipeReset
<1>2. /\ FavoritesListTypeOK /\ deletions \in Seq(DeletionRecords) /\ Intact
      /\ reads \in [Reads -> ReadRecords] /\ excuses \in SUBSET ExcuseKinds
      /\ Good(list, sortOption) /\ list \in Lists /\ list.cells = list.rows
  BY AliveList DEF DeliverRead, Inv, FavoritesListTypeOK
<1>3. /\ deletions' \in Seq(DeletionRecords) /\ Len(deletions') = Len(deletions)
      /\ DOMAIN deletions' = DOMAIN deletions
      /\ \A n \in DOMAIN deletions :
           /\ Placed(deletions[n], list.rows) => Placed(deletions'[n], list'.rows)
           /\ Found(deletions[n]) => Found(deletions'[n])
  BY <1>1, <1>2, MovedDeletions
<1>4. /\ excuses' \in SUBSET ExcuseKinds
      /\ "switched" \in excuses => "switched" \in excuses'
      /\ excuses' = {} => excuses = {} /\ S = {}
  BY <1>1, <1>2, ExcusedGrows DEF ExcuseKinds
<1>5. reads' \in [Reads -> ReadRecords]
  BY <1>1, <1>2 DEF NoRead, ReadRecords
<1>6. DeletionInv' /\ SwipeInv'
  BY <1>1, <1>2, <1>3 DEF Inv, DeletionInv, SwipeInv
<1>7. NewInv'
  BY <1>1 DEF Inv, NewInv, Quiet
<1>8. list' \in Lists => FavoritesListTypeOK'
  BY <1>1, <1>2, <1>3, <1>4, <1>5 DEF FavoritesListTypeOK
<1>9. CASE ~found
  <2>1. list' \in SortedAndReloaded(list, sortOption, local) /\ S = {"parted"}
    BY <1>1, <1>9
  <2>2. CASE ~Touchable(list, local)
    <3>1. list' = Trapped(list)
      BY <2>1, <2>2 DEF SortedAndReloaded, Trapped
    <3>2. "switched" \in excuses'
      BY <1>2, <1>4, <2>2 DEF Inv, RealmInv
    <3>3. list' \in Lists /\ ListInv' /\ TrapInv' /\ RealmInv' /\ FaithInv'
      BY <1>2, <3>1, <3>2, TrappedListInv
    <3> QED BY <1>6, <1>7, <1>8, <3>3 DEF Inv
  <2>3. CASE Touchable(list, local)
    <3>1. /\ Good(list', sortOption') /\ list'.realm = list.realm
          /\ Within(list'.rows, ToSet(list.rows))
      BY <1>1, <1>2, <2>1, <2>3, SortedGood DEF Good
    <3>2. list' \in Lists /\ ListInv' /\ TrapInv'
      BY <3>1, GoodListInv
    <3>3. Touchable(list', local)
      BY <2>3, <3>1, TouchableWithin, WithinChain
    <3>4. RealmInv'
      BY <1>1, <1>2, <1>4, <3>3 DEF Inv, RealmInv
    <3>5. FaithInv'
      BY <1>4, <2>1 DEF FaithInv
    <3> QED BY <1>6, <1>7, <1>8, <3>2, <3>4, <3>5 DEF Inv
  <2> QED BY <2>2, <2>3
<1>10. CASE found
  <2>1. list' \in SortedAndReloaded(x, sortOption, local)
    BY <1>1, <1>10
  <2>2. docs \in SUBSET Docs /\ IsFiniteSet(docs)
    <3>1. docs \in SUBSET Docs
      BY <1>2 DEF ReadRecords
    <3> QED BY <3>1, FavoritesListAssumption, FS_Subset DEF FavoritesListAssumption
  <2>3. SetToSeq(docs) \in Seq(Docs) /\ ToSet(SetToSeq(docs)) = docs
    BY <2>2, SetToSeqHolds, SeqMonotonic
  <2>4. /\ x \in Lists /\ x.trap = "none" /\ x.realm = FALSE
        /\ x.rows = SetToSeq(docs)
    BY <1>2, <2>3 DEF Lists, Good
  <2> HIDE DEF x
  <2>5. Touchable(x, local)
    BY <2>4 DEF Touchable
  <2>6. /\ Good(list', sortOption) /\ list'.realm = x.realm
        /\ Within(list'.rows, ToSet(x.rows)) /\ Covers(list'.rows, ToSet(x.rows))
    BY <2>1, <2>4, <2>5, SortedGood
  <2>7. /\ Good(list', sortOption') /\ list'.realm = FALSE
        /\ Within(list'.rows, docs) /\ Covers(list'.rows, docs)
    BY <1>1, <2>3, <2>4, <2>6
  <2>8. list' \in Lists /\ ListInv' /\ TrapInv'
    BY <2>7, GoodListInv
  <2>9. RealmInv'
    BY <1>1, <1>2, <1>4, <2>7 DEF Inv, RealmInv, Touchable
  <2>10. FaithInv'
    <3>1. SUFFICES ASSUME excuses' = {}
                   PROVE  /\ Still' /\ LocalShown' /\ NoneShown'
                          /\ RemoteShown' /\ RemoteDetails' /\ OnlyCopy'
      BY DEF FaithInv
    <3>2. excuses = {} /\ where = "remote" /\ docs = Seen
      BY <1>4, <1>10, <3>1
    <3>3. OnlyCopy /\ RemoteDetails
      BY <3>2 DEF Inv, FaithInv
    <3>4. OnlyCopy' /\ Seen' = Seen
      BY <1>1, <1>2, <3>3, MovedSeen
    <3>5. Still' /\ LocalShown' /\ NoneShown'
      BY <1>1, <3>2 DEF Still, LocalShown, NoneShown
    <3>6. RemoteDetails'
      BY <1>1, <3>3 DEF RemoteDetails
    <3>7. RemoteShown'
      <4>1. Within(list'.rows, server)
        BY <2>7, <3>2 DEF Within, Seen
      <4> QED BY <1>1, <2>7, <3>2, <3>4, <4>1 DEF RemoteShown
    <3> QED BY <3>4, <3>5, <3>6, <3>7
  <2> QED BY <1>6, <1>7, <1>8, <2>8, <2>9, <2>10 DEF Inv
<1> QED BY <1>9, <1>10

(***************************************************************************)
(* Deleting                                                                *)
(***************************************************************************)
\* A favourite whose row is known is found there, and there only.
LEMMA RowOfIdPlaced ==
  ASSUME NEW v, NEW option, Good(v, option), NEW n \in DOMAIN v.rows
  PROVE  RowOfId(v.rows, v.rows[n]) = n
<1> DEFINE k == RowOfId(v.rows, v.rows[n])
<1>1. v.rows \in Seq(Docs) /\ Ordered(option, v.rows)
  BY DEF Good, Lists
<1>2. k \in DOMAIN v.rows /\ v.rows[k].id = v.rows[n].id
  BY <1>1, RowOfIdFinds
<1> HIDE DEF k
<1>3. v.rows[k] \in Docs /\ v.rows[n] \in Docs
  BY <1>1, <1>2
<1>4. v.rows[k] = v.rows[n]
  BY <1>2, <1>3, FavoritesListAssumption DEF FavoritesListAssumption
<1>5. k = n
  BY <1>1, <1>2, <1>4, OrderedDistinct
<1> QED BY <1>5 DEF k

\* The rows without one of them.
LEMMA RemovedWithin ==
  ASSUME NEW v, NEW option, Good(v, option), NEW n \in DOMAIN v.rows,
         NEW S, Within(v.rows, S)
  PROVE  Within(RemoveAt(v.rows, n), S \ {v.rows[n]})
<1>1. v.rows \in Seq(Docs) /\ Ordered(option, v.rows)
  BY DEF Good, Lists
<1>2. SUFFICES ASSUME NEW j \in DOMAIN RemoveAt(v.rows, n)
               PROVE  RemoveAt(v.rows, n)[j] \in S \ {v.rows[n]}
  BY DEF Within
<1>3. PICK k \in DOMAIN v.rows : k # n /\ RemoveAt(v.rows, n)[j] = v.rows[k]
  BY <1>1, RemoveAtKeeps
<1>4. v.rows[k] # v.rows[n]
  BY <1>1, <1>3, OrderedDistinct
<1> QED BY <1>3, <1>4 DEF Within

LEMMA RemovedCovers ==
  ASSUME NEW q \in Seq(Docs), NEW n \in DOMAIN q, NEW S, Covers(q, S),
         NEW T, T \subseteq S, \A d \in T : d.origin # q[n].origin
  PROVE  Covers(RemoveAt(q, n), T)
<1>1. SUFFICES ASSUME NEW d \in T
               PROVE  \E j \in DOMAIN RemoveAt(q, n) : RemoveAt(q, n)[j].origin = d.origin
  BY DEF Covers
<1>2. PICK k \in DOMAIN q : q[k].origin = d.origin
  BY DEF Covers
<1>3. k # n
  BY <1>2
<1>4. PICK j \in DOMAIN RemoveAt(q, n) : RemoveAt(q, n)[j] = q[k]
  BY <1>3, RemoveAtKeeps
<1> QED BY <1>2, <1>4

LEMMA AppendEntries ==
  ASSUME NEW S, NEW q \in Seq(S), NEW w \in S
  PROVE  /\ Append(q, w) \in Seq(S) /\ Len(Append(q, w)) = Len(q) + 1
         /\ \A n \in DOMAIN Append(q, w) :
              \/ n \in DOMAIN q /\ Append(q, w)[n] = q[n]
              \/ Append(q, w)[n] = w
         /\ \A n \in DOMAIN q : n \in DOMAIN Append(q, w) /\ Append(q, w)[n] = q[n]
<1>1. DOMAIN q = 1..Len(q) /\ Len(q) \in Nat
  OBVIOUS
<1>2. /\ Append(q, w) \in Seq(S) /\ Len(Append(q, w)) = Len(q) + 1
      /\ \A n \in 1..Len(q) : Append(q, w)[n] = q[n]
      /\ Append(q, w)[Len(q) + 1] = w
  BY AppendProperties
<1>3. DOMAIN Append(q, w) = 1..(Len(q) + 1)
  BY <1>2
<1>4. \A n \in 1..(Len(q) + 1) : n \in 1..Len(q) \/ n = Len(q) + 1
  BY <1>1
<1>5. \A n \in 1..Len(q) : n \in 1..(Len(q) + 1)
  BY <1>1
<1> QED BY <1>1, <1>2, <1>3, <1>4, <1>5

\* With no twin in the collection a document is the only one of its proverb.
LEMMA NoTwin ==
  ASSUME OnlyCopy, where = "remote", NEW d \in server, Twin(d) = {},
         NEW e \in server, e.origin = d.origin
  PROVE  e = d
<1>1. Kept = Seen
  BY DEF Kept
<1>2. \A f \in Seen : f.origin = d.origin => f = d
  BY <1>1 DEF Twin
<1>3. CASE e \in Seen
  BY <1>2, <1>3
<1>4. CASE e \notin Seen
  <2>1. PICK m \in DOMAIN deletions : e = deletions[m].doc
    BY <1>4 DEF Seen
  <2> QED BY <2>1 DEF OnlyCopy
<1> QED BY <1>3, <1>4

LEMMA TwinExcuse ==
  ASSUME NEW d
  PROVE  Twin(d) \subseteq {"parted"} /\ Twin(d) \subseteq ExcuseKinds
BY DEF Twin, ExcuseKinds

\* A remote favourite is to be deleted: one more deletion is in flight.
LEMMA AppendDeletionInv ==
  ASSUME Inv, Alive, OnTop, where = "remote",
         NEW w \in DeletionRecords,
         Placed(w, list.rows), Found(w),
         w.row = 0 /\ excuses = {} => w.doc \in server,
         Len(deletions) < MaxDeletions,
         deletions' = Append(deletions, w), Excused(Twin(w.doc)),
         swiped' = NoCell \/ swiped' = swiped,
         UNCHANGED <<where, local, server, screen, sortOption, list, details, reads>>
  PROVE  Inv'
<1>1. /\ FavoritesListTypeOK /\ deletions \in Seq(DeletionRecords) /\ Intact
      /\ excuses \in SUBSET ExcuseKinds
  BY AliveList DEF Inv, FavoritesListTypeOK
<1>2. /\ deletions' \in Seq(DeletionRecords) /\ Len(deletions') = Len(deletions) + 1
      /\ \A n \in DOMAIN deletions' :
           \/ n \in DOMAIN deletions /\ deletions'[n] = deletions[n]
           \/ deletions'[n] = w
      /\ \A n \in DOMAIN deletions : n \in DOMAIN deletions' /\ deletions'[n] = deletions[n]
  <2> DEFINE q == Append(deletions, w)
  <2>1. /\ q \in Seq(DeletionRecords) /\ Len(q) = Len(deletions) + 1
        /\ \A n \in DOMAIN q :
             \/ n \in DOMAIN deletions /\ q[n] = deletions[n]
             \/ q[n] = w
        /\ \A n \in DOMAIN deletions : n \in DOMAIN q /\ q[n] = deletions[n]
    BY <1>1, AppendEntries
  <2>2. deletions' = q
    OBVIOUS
  <2> HIDE DEF q
  <2> QED BY <2>1, <2>2, Zenon
<1>3. /\ excuses' \in SUBSET ExcuseKinds
      /\ "switched" \in excuses => "switched" \in excuses'
      /\ excuses' = {} => excuses = {} /\ Twin(w.doc) = {}
  BY <1>1, ExcusedGrows, TwinExcuse
<1>4. Len(deletions') <= MaxDeletions
  BY <1>1, <1>2, FavoritesListAssumption DEF FavoritesListAssumption
<1>5. FavoritesListTypeOK'
  BY <1>1, <1>2, <1>3, <1>4 DEF FavoritesListTypeOK
<1>6. ListInv' /\ TrapInv' /\ RealmInv' /\ SwipeInv' /\ NewInv'
  BY <1>1, <1>3 DEF Inv, ListInv, TrapInv, RealmInv, SwipeInv, NewInv, OnTop
<1>7. DeletionInv'
  BY <1>1, <1>2 DEF Inv, DeletionInv
<1>8. FaithInv'
  <2>1. SUFFICES ASSUME excuses' = {}
                 PROVE  /\ Still' /\ LocalShown' /\ NoneShown'
                        /\ RemoteShown' /\ RemoteDetails' /\ OnlyCopy'
    BY DEF FaithInv
  <2>2. /\ excuses = {} /\ Twin(w.doc) = {}
        /\ RemoteShown /\ RemoteDetails /\ OnlyCopy
    BY <1>3, <2>1 DEF Inv, FaithInv
  <2>3. Still' /\ LocalShown' /\ NoneShown'
    BY DEF Still, LocalShown, NoneShown
  <2>4. RemoteDetails'
    BY <2>2 DEF RemoteDetails
  <2>5. Seen' \subseteq Seen
    BY <1>2 DEF Seen
  <2>6. RemoteShown'
    BY <2>2, <2>5 DEF RemoteShown, Covers, Quiet, OnTop
  <2>7. OnlyCopy'
    <3>1. SUFFICES ASSUME NEW n \in DOMAIN deletions', NEW e \in server,
                          e.origin = deletions'[n].doc.origin
                   PROVE  \/ e = deletions'[n].doc
                          \/ deletions'[n].row # 0 /\ deletions'[n].doc \notin server
      BY DEF OnlyCopy
    <3>2. CASE n \in DOMAIN deletions /\ deletions'[n] = deletions[n]
      BY <2>2, <3>1, <3>2 DEF OnlyCopy
    <3>3. CASE deletions'[n] = w
      <4>1. CASE w.doc \in server
        BY <2>2, <3>1, <3>3, <4>1, NoTwin
      <4>2. CASE w.doc \notin server
        BY <2>2, <3>3, <4>2
      <4> QED BY <4>1, <4>2
    <3> QED BY <1>2, <3>2, <3>3
  <2> QED BY <2>3, <2>4, <2>6, <2>7
<1> QED BY <1>5, <1>6, <1>7, <1>8 DEF Inv

LEMMA DeleteRemoteDetailsInv ==
  ASSUME Inv, DeleteRemoteDetails
  PROVE  Inv'
<1> DEFINE w == [doc |-> details.doc, index |-> 0, row |-> 0, moved |-> FALSE]
<1>1. /\ Alive /\ screen = "details" /\ where = "remote"
      /\ Len(deletions) < MaxDeletions
      /\ deletions' = Append(deletions, w) /\ Excused(Twin(details.doc))
      /\ UNCHANGED <<where, local, server, screen, sortOption, list, swiped, details, reads>>
  BY DEF DeleteRemoteDetails
<1>2. details.doc \in Docs
  BY <1>1 DEF Inv, FavoritesListTypeOK, Details
<1>3. w \in DeletionRecords /\ w.row = 0 /\ w.doc = details.doc
  BY <1>2 DEF DeletionRecords
<1>4. excuses = {} => w.doc \in server
  BY <1>1, <1>3 DEF Inv, FaithInv, RemoteDetails
<1> HIDE DEF w
<1>5. Placed(w, list.rows) /\ Found(w)
  BY <1>3 DEF Placed, Found
<1>6. OnTop /\ Excused(Twin(w.doc))
  BY <1>1, <1>3 DEF OnTop
<1> QED BY <1>1, <1>3, <1>4, <1>5, <1>6, AppendDeletionInv

\* A row goes from array and table: what is left shows what is left.
LEMMA DeleteRowInv ==
  ASSUME Inv, Alive, screen = "list", swiped # NoCell,
         list.realm \/ where = "local",
         DeleteRowNow(RowOfId(list.rows, swiped.doc)), swiped' = NoCell,
         UNCHANGED <<where, screen, sortOption, details, reads>>
  PROVE  Inv'
<1> DEFINE d == swiped.doc
           index == RowOfId(list.rows, d)
           row == swiped.row
           S == (IF swiped.moved THEN {"moved"} ELSE {}) \cup Twin(d)
<1>1. /\ FavoritesListTypeOK /\ deletions \in Seq(DeletionRecords) /\ Intact
      /\ excuses \in SUBSET ExcuseKinds /\ swiped \in Cells /\ details = NoDetails
      /\ local \in SUBSET Docs /\ where \in {"local", "remote", "none"}
      /\ Good(list, sortOption) /\ list \in Lists /\ list.cells = list.rows
      /\ list.rows \in Seq(Docs) /\ list.trap = "none"
  BY AliveList DEF Inv, FavoritesListTypeOK, Good
<1>2. /\ list' = IF Touchable(list, local)
                 THEN IF index = 0 THEN CellRemoved(list, row)
                      ELSE Removed(list, index, row)
                 ELSE Trapped(list)
      /\ local' = IF list'.trap # "realm" /\ list.realm /\ where = "local"
                  THEN local \ {d} ELSE local
      /\ Excused(S) /\ deletions' = Moved(deletions) /\ server' = server
  BY DEF DeleteRowNow, Trapped
<1>3. /\ deletions' \in Seq(DeletionRecords) /\ Len(deletions') = Len(deletions)
      /\ DOMAIN deletions' = DOMAIN deletions
      /\ \A n \in DOMAIN deletions :
           /\ Placed(deletions[n], list.rows) => Placed(deletions'[n], list'.rows)
           /\ Found(deletions[n]) => Found(deletions'[n])
  BY <1>1, <1>2, MovedDeletions
<1>4. S \subseteq ExcuseKinds
  BY TwinExcuse DEF ExcuseKinds
<1>5. /\ excuses' \in SUBSET ExcuseKinds
      /\ "switched" \in excuses => "switched" \in excuses'
      /\ excuses' = {} => excuses = {} /\ S = {}
  BY <1>1, <1>2, <1>4, ExcusedGrows
<1>6. DeletionInv' /\ SwipeInv' /\ NewInv'
  BY <1>1, <1>3 DEF Inv, DeletionInv, SwipeInv, NewInv
<1>7. list' \in Lists => FavoritesListTypeOK'
  BY <1>1, <1>2, <1>3, <1>5 DEF FavoritesListTypeOK
<1>8. row \in Nat \ {0}
  BY <1>1 DEF Inv, SwipeInv, Cells
<1>9. index \in Nat
  BY <1>1, RowOfIdFinds
<1> HIDE DEF S, index
<1>10. CASE ~Touchable(list, local)
  <2>1. list' = Trapped(list)
    BY <1>2, <1>10
  <2>2. "switched" \in excuses'
    BY <1>1, <1>5, <1>10 DEF Inv, RealmInv
  <2>3. list' \in Lists /\ ListInv' /\ TrapInv' /\ RealmInv' /\ FaithInv'
    BY <1>1, <2>1, <2>2, TrappedListInv
  <2> QED BY <1>6, <1>7, <2>3 DEF Inv
<1>11. CASE Touchable(list, local) /\ swiped.moved
  <2>1. list' \in Lists /\ list'.trap # "realm"
    <3>1. CASE index = 0
      BY <1>1, <1>2, <1>8, <1>11, <3>1, CellRemovedTyped
    <3>2. CASE index # 0
      BY <1>1, <1>2, <1>8, <1>9, <1>11, <3>2, RemovedTyped
    <3> QED BY <3>1, <3>2
  <2>2. ~Intact'
    BY <1>2, <1>11 DEF Excused, Intact, S
  <2>3. ListInv' /\ TrapInv' /\ RealmInv' /\ FaithInv'
    BY <2>1, <2>2, GivenUpInv
  <2> QED BY <1>6, <1>7, <2>1, <2>3 DEF Inv
<1>12. CASE Touchable(list, local) /\ ~swiped.moved
  <2>1. row \in DOMAIN list.rows /\ list.rows[row] = d
    BY <1>1, <1>8, <1>12 DEF Inv, SwipeInv, Placed
  <2>2. index = row
    BY <1>1, <2>1, RowOfIdPlaced DEF index
  <2>3. list' = Removed(list, row, row)
    BY <1>2, <1>8, <1>12, <2>2
  <2>4. /\ Good(list', sortOption') /\ list'.realm = list.realm
        /\ list'.rows = RemoveAt(list.rows, row)
    BY <1>1, <2>1, <2>3, RemovedGood
  <2>5. list' \in Lists /\ ListInv' /\ TrapInv'
    BY <2>4, GoodListInv
  <2>6. ASSUME NEW T, Within(list.rows, T)
        PROVE  Within(list'.rows, T \ {d})
    <3>1. Within(RemoveAt(list.rows, row), T \ {list.rows[row]})
      BY <1>1, <2>1, <2>6, RemovedWithin
    <3> QED BY <2>1, <2>4, <3>1, Zenon
  <2>7. list'.trap = "none" /\ local' = IF list.realm /\ where = "local" THEN local \ {d} ELSE local
    BY <1>2, <2>4 DEF Good
  <2>8. RealmInv'
    <3>1. list.realm => Within(list'.rows, local \ {d})
      BY <1>12, <2>6, TouchableWithin
    <3>2. list'.realm => Within(list'.rows, local')
      BY <2>4, <2>7, <3>1 DEF Within
    <3> QED BY <1>1, <3>2, TouchableWithin DEF RealmInv, NoDetails
  <2>9. FaithInv'
    <3>1. SUFFICES ASSUME excuses' = {}
                   PROVE  /\ Still' /\ LocalShown' /\ NoneShown'
                          /\ RemoteShown' /\ RemoteDetails' /\ OnlyCopy'
      BY DEF FaithInv
    <3>2. /\ excuses = {} /\ Twin(d) = {}
      BY <1>5, <3>1 DEF S
    <3>3. Still /\ LocalShown /\ NoneShown /\ RemoteShown /\ OnTop
      BY <3>2 DEF Inv, FaithInv, OnTop
    <3>4. where = "local"
      <4>1. CASE where = "remote"
        BY <3>3, <4>1 DEF RemoteShown
      <4>2. CASE where = "none"
        BY <3>3, <4>2 DEF NoneShown
      <4> QED BY <1>1, <4>1, <4>2
    <3>5. list.realm /\ Within(list.rows, local) /\ Covers(list.rows, local)
      BY <3>3, <3>4 DEF LocalShown
    <3>6. local' = local \ {d}
      BY <2>7, <3>4, <3>5
    <3>7. \A e \in local' : e.origin # list.rows[row].origin
      BY <2>1, <3>2, <3>4, <3>6 DEF Twin, Kept
    <3>8. LocalShown'
      <4>1. Within(list'.rows, local')
        BY <2>6, <3>5, <3>6
      <4>2. local' \subseteq local
        BY <3>6
      <4>3. Covers(list'.rows, local')
        BY <1>1, <2>1, <2>4, <3>5, <3>7, <4>2, RemovedCovers
      <4> QED BY <2>4, <3>5, <4>1, <4>3 DEF LocalShown
    <3>9. deletions = << >> /\ Quiet
      BY <3>3, <3>4 DEF Still
    <3>10. deletions' = << >>
      BY <1>3, <3>9
    <3>11. Still' /\ OnlyCopy'
      BY <3>9, <3>10 DEF Still, OnlyCopy, Quiet
    <3>12. NoneShown' /\ RemoteShown' /\ RemoteDetails'
      BY <3>4 DEF NoneShown, RemoteShown, RemoteDetails
    <3> QED BY <3>8, <3>11, <3>12
  <2> QED BY <1>6, <1>7, <2>5, <2>8, <2>9 DEF Inv
<1> QED BY <1>10, <1>11, <1>12

LEMMA PushSwipedInv ==
  ASSUME Inv, PushSwiped
  PROVE  Inv'
<1> DEFINE index == RowOfId(list.rows, swiped.doc)
           w == [doc |-> swiped.doc, index |-> index, row |-> swiped.row,
                 moved |-> swiped.moved]
<1>1. /\ Alive /\ screen = "list" /\ swiped # NoCell /\ swiped' = NoCell
      /\ UNCHANGED <<where, screen, sortOption, details, reads>>
  BY DEF PushSwiped, SwipeReset
<1>2. /\ FavoritesListTypeOK /\ swiped \in Cells /\ list.rows \in Seq(Docs)
      /\ Intact /\ Good(list, sortOption)
  BY <1>1, AliveList DEF Inv, FavoritesListTypeOK
<1>3. CASE /\ where = "remote" /\ ~list.realm
           /\ Len(deletions) < MaxDeletions
           /\ deletions' = Append(deletions, w)
           /\ Excused(Twin(swiped.doc))
           /\ UNCHANGED <<local, server, list>>
  <2>1. index \in Nat
    BY <1>2, RowOfIdFinds
  <2> HIDE DEF index
  <2>2. /\ w \in DeletionRecords /\ w.doc = swiped.doc /\ w.index = index
        /\ w.row = swiped.row /\ w.moved = swiped.moved
    BY <1>2, <2>1 DEF Cells, DeletionRecords
  <2>3. Placed(swiped, list.rows) /\ swiped.row # 0
    BY <1>1, <1>2 DEF Inv, SwipeInv
  <2> HIDE DEF w
  <2>4. Placed(w, list.rows) /\ w.row # 0
    BY <2>2, <2>3 DEF Placed
  <2>5. Found(w)
    <3>1. SUFFICES ASSUME ~swiped.moved PROVE index = swiped.row
      BY <2>2 DEF Found
    <3>2. swiped.row \in DOMAIN list.rows /\ list.rows[swiped.row] = swiped.doc
      BY <2>3, <3>1 DEF Placed
    <3> QED BY <1>2, <3>2, RowOfIdPlaced DEF index
  <2>6. OnTop /\ Excused(Twin(w.doc)) /\ (w.row = 0 /\ excuses = {} => w.doc \in server)
    BY <1>1, <1>3, <2>2, <2>4 DEF OnTop
  <2> QED BY <1>1, <1>3, <2>2, <2>4, <2>5, <2>6, AppendDeletionInv
<1>4. CASE (list.realm \/ where = "local") /\ DeleteRowNow(index)
  BY <1>1, <1>4, DeleteRowInv
<1>5. CASE UNCHANGED <<local, server, list, deletions, excuses>>
  <2>1. FavoritesListTypeOK' /\ SwipeInv' /\ NewInv'
    BY <1>1, <1>2, <1>5 DEF FavoritesListTypeOK, SwipeInv, NewInv
  <2>2. ListInv' /\ TrapInv' /\ RealmInv' /\ DeletionInv'
    BY <1>1, <1>5 DEF Inv, ListInv, TrapInv, RealmInv, DeletionInv, Intact
  <2>3. FaithInv'
    BY <1>1, <1>5 DEF Inv, FaithInv, Still, LocalShown, NoneShown, RemoteShown,
                      RemoteDetails, OnlyCopy, OnTop, Quiet, Seen
  <2> QED BY <2>1, <2>2, <2>3 DEF Inv
<1> QED BY <1>3, <1>4, <1>5 DEF PushSwiped

LEMMA DeleteLocalDetailsInv ==
  ASSUME Inv, DeleteLocalDetails
  PROVE  Inv'
<1> DEFINE d == details.doc
           n == RowOfText(list.rows, d)
<1>1. /\ screen = "details" /\ details.realm /\ where = "local" /\ d \in local
      /\ local' = local \ {d} /\ screen' = "list" /\ details' = NoDetails
      /\ Excused(Twin(d)) /\ deletions' = Moved(deletions)
      /\ UNCHANGED <<where, server, sortOption, swiped>>
  BY DEF DeleteLocalDetails, PopDetails
<1>2. PICK u \in AfterDidDelete(list, d, local') :
        /\ list' = u.list
        /\ IF u.asks THEN Ask ELSE UNCHANGED reads
  BY DEF DeleteLocalDetails
<1>3. /\ FavoritesListTypeOK /\ deletions \in Seq(DeletionRecords) /\ Intact
      /\ excuses \in SUBSET ExcuseKinds /\ local' \in SUBSET Docs
      /\ reads \in [Reads -> ReadRecords] /\ swiped = NoCell
      /\ Good(list, sortOption) /\ list.rows \in Seq(Docs)
  BY <1>1, AliveList DEF DeleteLocalDetails, Inv, FavoritesListTypeOK, SwipeInv
<1>4. \/ u \in Updated(list, local')
      \/ /\ ~list.realm /\ n # 0
         /\ u = [list |-> Removed(list, n, n), asks |-> FALSE]
  BY <1>1, <1>2 DEF AfterDidDelete
<1>5. /\ Good(list', sortOption') /\ ~u.asks /\ Touchable(list', local')
      /\ list.realm => /\ list'.realm /\ Within(list'.rows, local')
                       /\ Covers(list'.rows, local')
  <2>1. CASE u \in Updated(list, local')
    <3>1. /\ Good(u.list, sortOption) /\ ~u.asks
          /\ u.list.realm /\ Within(u.list.rows, local') /\ Covers(u.list.rows, local')
      BY <1>1, <1>3, <2>1, UpdatedGood
    <3> QED BY <1>1, <1>2, <3>1, TouchableWithin
  <2>2. CASE /\ ~list.realm /\ n # 0
             /\ u = [list |-> Removed(list, n, n), asks |-> FALSE]
    <3>1. n \in DOMAIN list.rows
      BY <1>3, <2>2, RowOfTextFinds
    <3>2. Good(Removed(list, n, n), sortOption) /\ Removed(list, n, n).realm = list.realm
      BY <1>3, <3>1, RemovedGood
    <3>3. list' = Removed(list, n, n) /\ ~u.asks
      BY <1>2, <2>2
    <3> QED BY <1>1, <2>2, <3>2, <3>3 DEF Touchable
  <2> QED BY <1>4, <2>1, <2>2
<1>6. list' \in Lists /\ ListInv' /\ TrapInv'
  BY <1>5, GoodListInv
<1>7. reads' = reads
  BY <1>2, <1>5
<1>8. /\ deletions' \in Seq(DeletionRecords) /\ Len(deletions') = Len(deletions)
      /\ DOMAIN deletions' = DOMAIN deletions
      /\ \A m \in DOMAIN deletions :
           /\ Placed(deletions[m], list.rows) => Placed(deletions'[m], list'.rows)
           /\ Found(deletions[m]) => Found(deletions'[m])
  BY <1>1, <1>3, MovedDeletions
<1>9. /\ excuses' \in SUBSET ExcuseKinds
      /\ "switched" \in excuses => "switched" \in excuses'
      /\ excuses' = {} => excuses = {}
  BY <1>1, <1>3, TwinExcuse, ExcusedGrows
<1>10. FavoritesListTypeOK'
  BY <1>1, <1>3, <1>6, <1>7, <1>8, <1>9 DEF FavoritesListTypeOK
<1>11. RealmInv'
  BY <1>1, <1>5 DEF RealmInv, NoDetails
<1>12. SwipeInv' /\ DeletionInv' /\ NewInv'
  BY <1>1, <1>3, <1>8 DEF Inv, SwipeInv, DeletionInv, NewInv
<1>13. FaithInv'
  <2>1. SUFFICES ASSUME excuses' = {}
                 PROVE  /\ Still' /\ LocalShown' /\ NoneShown'
                        /\ RemoteShown' /\ RemoteDetails' /\ OnlyCopy'
    BY DEF FaithInv
  <2>2. Still /\ LocalShown
    BY <1>9, <2>1 DEF Inv, FaithInv
  <2>3. list.realm /\ deletions = << >> /\ Quiet
    BY <1>1, <2>2 DEF Still, LocalShown, OnTop
  <2>4. deletions' = << >> /\ Quiet'
    BY <1>7, <1>8, <2>3 DEF Quiet
  <2>5. Still' /\ OnlyCopy'
    BY <2>4 DEF Still, OnlyCopy
  <2>6. LocalShown'
    BY <1>5, <2>3 DEF LocalShown
  <2>7. NoneShown' /\ RemoteShown' /\ RemoteDetails'
    BY <1>1 DEF NoneShown, RemoteShown, RemoteDetails
  <2> QED BY <2>5, <2>6, <2>7
<1> QED BY <1>6, <1>10, <1>11, <1>12, <1>13 DEF Inv

\* The notification leaves a readable list, or traps on Realm's objects.
LEMMA AfterDidDeleteList ==
  ASSUME Inv, Alive, NEW d, NEW u \in AfterDidDelete(list, d, local)
  PROVE  \/ /\ u.list = Trapped(list) /\ ~u.asks /\ "switched" \in excuses
         \/ /\ Good(u.list, sortOption)
            /\ Touchable(list, local) => Touchable(u.list, local)
<1> DEFINE n == RowOfText(list.rows, d)
<1>1. /\ Intact /\ Good(list, sortOption) /\ list.rows \in Seq(Docs)
      /\ where \in {"local", "remote", "none"} /\ local \in SUBSET Docs
  BY AliveList DEF Inv, FavoritesListTypeOK
<1>2. \/ u = [list |-> list, asks |-> FALSE]
      \/ u \in Updated(list, local)
      \/ /\ ~list.realm /\ n # 0
         /\ u = [list |-> Removed(list, n, n), asks |-> FALSE]
  BY DEF AfterDidDelete
<1>3. CASE u = [list |-> list, asks |-> FALSE]
  BY <1>1, <1>3
<1>4. CASE u \in Updated(list, local)
  <2>1. CASE where = "none" /\ ~Touchable(list, local)
    <3>1. u.list = Trapped(list) /\ ~u.asks
      BY <1>4, <2>1, UpdatedTrapped
    <3>2. "switched" \in excuses
      BY <1>1, <2>1 DEF Inv, RealmInv
    <3> QED BY <3>1, <3>2
  <2>2. CASE where # "none" \/ Touchable(list, local)
    <3>1. Good(u.list, sortOption)
      BY <1>1, <1>4, <2>2, UpdatedGood
    <3>2. Touchable(list, local) => Touchable(u.list, local)
      BY <1>1, <1>4, UpdatedTouchable
    <3> QED BY <3>1, <3>2
  <2> QED BY <2>1, <2>2
<1>5. CASE /\ ~list.realm /\ n # 0
           /\ u = [list |-> Removed(list, n, n), asks |-> FALSE]
  <2>1. n \in DOMAIN list.rows
    BY <1>1, <1>5, RowOfTextFinds
  <2>2. Good(Removed(list, n, n), sortOption) /\ Removed(list, n, n).realm = list.realm
    BY <1>1, <2>1, RemovedGood
  <2>3. u.list = Removed(list, n, n)
    BY <1>5
  <2> QED BY <1>5, <2>2, <2>3 DEF Touchable
<1> QED BY <1>2, <1>3, <1>4, <1>5

LEMMA AfterDeletionTyped ==
  ASSUME NEW v \in Lists, v.trap = "none", NEW w \in DeletionRecords
  PROVE  AfterDeletion(v, w) \in Lists /\ AfterDeletion(v, w).trap # "realm"
<1>1. w.row \in Nat /\ w.index \in Nat
  BY DEF DeletionRecords
<1>2. CASE w.row = 0
  BY <1>2 DEF AfterDeletion
<1>3. CASE w.row # 0 /\ w.index = 0
  <2>1. AfterDeletion(v, w) = CellRemoved(v, w.row)
    BY <1>3 DEF AfterDeletion
  <2> QED BY <1>1, <1>3, <2>1, CellRemovedTyped
<1>4. CASE w.row # 0 /\ w.index # 0
  <2>1. AfterDeletion(v, w) = Removed(v, w.index, w.row)
    BY <1>4 DEF AfterDeletion
  <2> QED BY <1>1, <1>4, <2>1, RemovedTyped
<1> QED BY <1>2, <1>3, <1>4

\* The tail of a queue holds its later entries, one place earlier.
LEMMA TailKeeps ==
  ASSUME NEW S, NEW q \in Seq(S), q # << >>
  PROVE  /\ Tail(q) \in Seq(S) /\ Len(Tail(q)) = Len(q) - 1
         /\ 1 \in DOMAIN q /\ Head(q) = q[1] /\ Head(q) \in S
         /\ \A n \in DOMAIN Tail(q) : \E m \in DOMAIN q : m # 1 /\ Tail(q)[n] = q[m]
         /\ \A m \in DOMAIN q : m # 1 => \E n \in DOMAIN Tail(q) : Tail(q)[n] = q[m]
<1>1. Len(q) \in Nat /\ DOMAIN q = 1..Len(q) /\ Len(q) # 0
  BY LenProperties, EmptySeq
<1>2. /\ Tail(q) \in Seq(S) /\ Head(q) = q[1] /\ Head(q) \in S
      /\ Len(Tail(q)) = Len(q) - 1
      /\ \A n \in 1..Len(Tail(q)) : Tail(q)[n] = q[n + 1]
  BY HeadTailProperties
<1>3. DOMAIN Tail(q) = 1..Len(Tail(q))
  BY <1>2, LenProperties
<1>4. ASSUME NEW k \in Nat, k # 0
      PROVE  /\ 1 \in 1..k
             /\ \A n \in 1..(k - 1) : n + 1 \in 1..k /\ n + 1 # 1
             /\ \A m \in 1..k : m # 1 => m - 1 \in 1..(k - 1) /\ (m - 1) + 1 = m
  BY <1>4
<1>5. 1 \in DOMAIN q
  BY <1>1, <1>4
<1>6. \A n \in DOMAIN Tail(q) : \E m \in DOMAIN q : m # 1 /\ Tail(q)[n] = q[m]
  BY <1>1, <1>2, <1>3, <1>4
<1>7. ASSUME NEW m \in DOMAIN q, m # 1
      PROVE  \E n \in DOMAIN Tail(q) : Tail(q)[n] = q[m]
  <2>1. m - 1 \in DOMAIN Tail(q) /\ (m - 1) + 1 = m
    BY <1>1, <1>2, <1>3, <1>4, <1>7
  <2>2. Tail(q)[m - 1] = q[(m - 1) + 1]
    BY <1>2, <1>3, <2>1
  <2> QED BY <2>1, <2>2
<1> QED BY <1>2, <1>5, <1>6, <1>7

\* The document goes, and so does the deletion that hid it.
LEMMA SettledSeen ==
  ASSUME deletions \in Seq(DeletionRecords), deletions # << >>,
         deletions' = Moved(Tail(deletions)),
         server' = server \ {deletions[1].doc}
  PROVE  Seen' = Seen /\ (OnlyCopy => OnlyCopy')
<1> DEFINE q == Tail(deletions)
<1>1. /\ q \in Seq(DeletionRecords) /\ 1 \in DOMAIN deletions
      /\ \A n \in DOMAIN q : \E m \in DOMAIN deletions : m # 1 /\ q[n] = deletions[m]
      /\ \A m \in DOMAIN deletions : m # 1 => \E n \in DOMAIN q : q[n] = deletions[m]
  BY TailKeeps
<1>2. deletions' = Moved(q)
  OBVIOUS
<1> HIDE DEF q
<1>3. /\ DOMAIN deletions' = DOMAIN q
      /\ \A n \in DOMAIN q : deletions'[n].doc = q[n].doc /\ deletions'[n].row = q[n].row
  BY <1>1, <1>2, MovedDeletions
<1>4. \A n \in DOMAIN deletions' : \E m \in DOMAIN deletions :
        /\ deletions'[n].doc = deletions[m].doc /\ deletions'[n].row = deletions[m].row
  BY <1>1, <1>3
<1>5. \A m \in DOMAIN deletions : m # 1 =>
        \E n \in DOMAIN deletions' : deletions'[n].doc = deletions[m].doc
  BY <1>1, <1>3
<1>6. ASSUME NEW e \in Seen' PROVE e \in Seen
  <2>1. /\ e \in server /\ e # deletions[1].doc
        /\ \A n \in DOMAIN deletions' : e # deletions'[n].doc
    BY <1>6 DEF Seen
  <2>2. \A m \in DOMAIN deletions : e # deletions[m].doc
    BY <1>5, <2>1
  <2> QED BY <2>1, <2>2 DEF Seen
<1>7. ASSUME NEW e \in Seen PROVE e \in Seen'
  <2>1. e \in server /\ \A m \in DOMAIN deletions : e # deletions[m].doc
    BY <1>7 DEF Seen
  <2>2. \A n \in DOMAIN deletions' : e # deletions'[n].doc
    BY <1>4, <2>1
  <2> QED BY <1>1, <2>1, <2>2 DEF Seen
<1>8. ASSUME OnlyCopy PROVE OnlyCopy'
  <2>1. SUFFICES ASSUME NEW n \in DOMAIN deletions', NEW e \in server',
                        e.origin = deletions'[n].doc.origin
                 PROVE  \/ e = deletions'[n].doc
                        \/ deletions'[n].row # 0 /\ deletions'[n].doc \notin server'
    BY DEF OnlyCopy
  <2>2. PICK m \in DOMAIN deletions :
          deletions'[n].doc = deletions[m].doc /\ deletions'[n].row = deletions[m].row
    BY <1>4
  <2>3. e \in server
    OBVIOUS
  <2> QED BY <1>8, <2>1, <2>2, <2>3 DEF OnlyCopy
<1> QED BY <1>6, <1>7, <1>8

\* A completion that finds its list as it left it removes the row it looked up.
LEMMA AfterDeletionPlaced ==
  ASSUME NEW v, NEW option, Good(v, option), NEW w, w.row # 0, ~w.moved,
         Placed(w, v.rows), Found(w)
  PROVE  /\ w.row \in DOMAIN v.rows /\ v.rows[w.row] = w.doc
         /\ AfterDeletion(v, w) = Removed(v, w.row, w.row)
<1>1. w.row \in DOMAIN v.rows /\ v.rows[w.row] = w.doc /\ w.index = w.row
  BY DEF Placed, Found
<1>2. v.trap = "none"
  BY DEF Good
<1> QED BY <1>1, <1>2 DEF AfterDeletion

LEMMA SettleDeletionInv ==
  ASSUME Inv, NEW ok \in BOOLEAN, SettleDeletion(ok)
  PROVE  Inv'
<1>1. PICK w : w = Head(deletions)
  OBVIOUS
<1> DEFINE S == (IF w.row # 0 /\ w.moved THEN {"moved"} ELSE {})
                \cup (IF w.row # 0 /\ ok /\ screen # "list" THEN {"left"} ELSE {})
                \cup (IF w.row = 0 /\ ok /\ screen = "list" THEN {"parted"} ELSE {})
                \cup (IF ok THEN {} ELSE {"parted"})
<1>2. /\ Alive /\ deletions # << >> /\ Excused(S)
      /\ server' = IF ok THEN server \ {w.doc} ELSE server
      /\ deletions' = Moved(Tail(deletions)) /\ SwipeKept
      /\ UNCHANGED <<where, local, sortOption>>
  BY <1>1 DEF SettleDeletion
<1>3. PICK v, asks :
        /\ IF ok THEN [list |-> v, asks |-> asks] \in AfterDidDelete(list, w.doc, local)
                 ELSE v = list /\ asks = FALSE
        /\ list' = AfterDeletion(v, w)
        /\ IF asks THEN Ask ELSE UNCHANGED reads
  <2>1. CASE ok
    <3>1. PICK u \in AfterDidDelete(list, w.doc, local) :
            list' = AfterDeletion(u.list, w) /\ IF u.asks THEN Ask ELSE UNCHANGED reads
      BY <1>1, <2>1 DEF SettleDeletion
    <3>2. u = [list |-> u.list, asks |-> u.asks]
      BY DEF AfterDidDelete, Updated
    <3> QED BY <2>1, <3>1, <3>2
  <2>2. CASE ~ok
    BY <1>1, <2>2 DEF SettleDeletion
  <2> QED BY <2>1, <2>2
<1>4. /\ screen' = IF ok /\ screen = "details" THEN "list" ELSE screen
      /\ details' = IF ok THEN NoDetails ELSE details
  BY DEF SettleDeletion, PopDetails
<1>5. /\ FavoritesListTypeOK /\ deletions \in Seq(DeletionRecords) /\ Intact
      /\ excuses \in SUBSET ExcuseKinds /\ swiped \in Cells \cup {NoCell}
      /\ reads \in [Reads -> ReadRecords]
      /\ where \in {"local", "remote", "none"} /\ local \in SUBSET Docs
      /\ Good(list, sortOption) /\ list \in Lists /\ list.rows \in Seq(Docs)
      /\ list.cells = list.rows
  BY <1>2, AliveList DEF Inv, FavoritesListTypeOK
<1>6. /\ Tail(deletions) \in Seq(DeletionRecords)
      /\ Len(Tail(deletions)) = Len(deletions) - 1
      /\ 1 \in DOMAIN deletions /\ w = deletions[1] /\ w \in DeletionRecords
      /\ \A n \in DOMAIN Tail(deletions) :
           \E m \in DOMAIN deletions : m # 1 /\ Tail(deletions)[n] = deletions[m]
  BY <1>1, <1>2, <1>5, TailKeeps
<1>7. /\ deletions' \in Seq(DeletionRecords) /\ Len(deletions') = Len(Tail(deletions))
      /\ DOMAIN deletions' = DOMAIN Tail(deletions)
      /\ \A n \in DOMAIN Tail(deletions) :
           /\ Placed(Tail(deletions)[n], list.rows) => Placed(deletions'[n], list'.rows)
           /\ Found(Tail(deletions)[n]) => Found(deletions'[n])
  BY <1>2, <1>6, MovedDeletions
<1>8. /\ swiped' \in Cells \cup {NoCell}
      /\ swiped' # NoCell => swiped # NoCell /\ swiped'.row # 0
      /\ swiped' # NoCell => Placed(swiped', list'.rows)
  BY <1>2, <1>5, SwipeKeptPlaced DEF Inv, SwipeInv
<1>9. SwipeInv'
  BY <1>4, <1>8 DEF Inv, SwipeInv
<1>10. Placed(w, list.rows) /\ Found(w) /\ DeletionInv'
  BY <1>5, <1>6, <1>7 DEF Inv, DeletionInv
<1>11. NewInv'
  BY <1>2, <1>4 DEF Inv, NewInv
<1>12. S \subseteq ExcuseKinds
  BY DEF ExcuseKinds
<1>13. /\ excuses' \in SUBSET ExcuseKinds
       /\ "switched" \in excuses => "switched" \in excuses'
       /\ excuses' = {} => excuses = {} /\ S = {}
  BY <1>2, <1>5, <1>12, ExcusedGrows
<1>14. reads' \in [Reads -> ReadRecords]
  BY <1>3, <1>5, AskIsPending
<1>15. Len(deletions') <= MaxDeletions
  <2>1. Len(deletions) \in Nat /\ Len(deletions) <= MaxDeletions
    BY <1>5 DEF FavoritesListTypeOK
  <2>2. Len(deletions') = Len(deletions) - 1
    BY <1>6, <1>7
  <2> QED BY <2>1, <2>2, FavoritesListAssumption DEF FavoritesListAssumption
<1>16. /\ server' \in SUBSET Docs /\ screen' \in {"new", "list", "details", "popped"}
       /\ details' \in IF screen' = "details" THEN Details ELSE {NoDetails}
  BY <1>2, <1>4, <1>5 DEF FavoritesListTypeOK
<1>17. list' \in Lists => FavoritesListTypeOK'
  BY <1>2, <1>5, <1>7, <1>8, <1>13, <1>14, <1>15, <1>16 DEF FavoritesListTypeOK
<1>18. \/ v = Trapped(list) /\ "switched" \in excuses
       \/ Good(v, sortOption) /\ (Touchable(list, local) => Touchable(v, local))
  <2>1. CASE ok
    BY <1>2, <1>3, <2>1, AfterDidDeleteList
  <2>2. CASE ~ok
    BY <1>3, <1>5, <2>2
  <2> QED BY <2>1, <2>2
<1> HIDE DEF S
<1>19. CASE v = Trapped(list) /\ "switched" \in excuses
  <2>1. v.trap = "realm"
    BY <1>5, <1>19, TrappedList
  <2>2. list' = Trapped(list)
    BY <1>3, <1>19, <2>1 DEF AfterDeletion
  <2>3. list' \in Lists /\ ListInv' /\ TrapInv' /\ RealmInv' /\ FaithInv'
    BY <1>5, <1>13, <1>19, <2>2, TrappedListInv
  <2> QED BY <1>9, <1>10, <1>11, <1>17, <2>3 DEF Inv
<1>20. CASE /\ Good(v, sortOption) /\ (Touchable(list, local) => Touchable(v, local))
            /\ w.row # 0 /\ (w.moved \/ (ok /\ screen # "list"))
  <2>1. v \in Lists /\ v.trap = "none"
    BY <1>20 DEF Good
  <2>2. list' \in Lists /\ list'.trap # "realm"
    BY <1>3, <1>6, <2>1, AfterDeletionTyped
  <2>3. ~Intact'
    BY <1>2, <1>20 DEF Excused, Intact, S
  <2>4. ListInv' /\ TrapInv' /\ RealmInv' /\ FaithInv'
    BY <2>2, <2>3, GivenUpInv
  <2> QED BY <1>9, <1>10, <1>11, <1>17, <2>2, <2>4 DEF Inv
<1>21. CASE /\ Good(v, sortOption) /\ (Touchable(list, local) => Touchable(v, local))
            /\ w.row # 0 /\ ~w.moved /\ (ok => screen = "list")
  <2>1. v = list /\ asks = FALSE
    <3>1. CASE ok
      BY <1>3, <1>21, <3>1 DEF AfterDidDelete
    <3>2. CASE ~ok
      BY <1>3, <3>2
    <3> QED BY <3>1, <3>2
  <2>2. /\ w.row \in DOMAIN list.rows /\ list.rows[w.row] = w.doc
        /\ list' = Removed(list, w.row, w.row)
    BY <1>3, <1>5, <1>10, <1>21, <2>1, AfterDeletionPlaced
  <2>3. /\ Good(list', sortOption') /\ list'.realm = list.realm
        /\ list'.rows = RemoveAt(list.rows, w.row)
    BY <1>2, <1>5, <2>2, RemovedGood
  <2>4. list' \in Lists /\ ListInv' /\ TrapInv'
    BY <2>3, GoodListInv
  <2>5. ASSUME NEW T, Within(list.rows, T)
        PROVE  Within(list'.rows, T \ {w.doc})
    <3>1. Within(RemoveAt(list.rows, w.row), T \ {list.rows[w.row]})
      BY <1>5, <2>2, <2>5, RemovedWithin
    <3> QED BY <2>2, <2>3, <3>1, Zenon
  <2>6. RealmInv'
    <3>1. list.realm /\ Within(list.rows, local) => Within(list'.rows, local)
      BY <2>5 DEF Within
    <3>2. Touchable(list, local) => Touchable(list', local)
      BY <2>3, <3>1, TouchableWithin
    <3>3. details'.realm => details.realm /\ details'.doc = details.doc
      BY <1>4 DEF NoDetails
    <3> QED BY <1>2, <1>5, <1>13, <3>2, <3>3 DEF Inv, RealmInv
  <2>7. FaithInv'
    <3>1. SUFFICES ASSUME excuses' = {}
                   PROVE  /\ Still' /\ LocalShown' /\ NoneShown'
                          /\ RemoteShown' /\ RemoteDetails' /\ OnlyCopy'
      BY DEF FaithInv
    <3>2. excuses = {} /\ ok /\ screen = "list"
      BY <1>13, <1>21, <3>1 DEF S
    <3>3. Still /\ RemoteShown /\ OnlyCopy /\ OnTop
      BY <3>2 DEF Inv, FaithInv, OnTop
    <3>4. where = "remote"
      BY <1>2, <3>3 DEF Still
    <3>5. server' = server \ {w.doc} /\ screen' = "list" /\ reads' = reads
      BY <1>2, <1>3, <1>4, <2>1, <3>2
    <3>6. Seen' = Seen /\ OnlyCopy'
      BY <1>2, <1>5, <1>6, <3>3, <3>5, SettledSeen
    <3>7. /\ ~list.realm /\ Within(list.rows, server)
          /\ Quiet => Covers(list.rows, Seen)
      BY <3>3, <3>4 DEF RemoteShown
    <3>8. w.doc \in server
      BY <2>2, <3>7 DEF Within
    <3>9. \A e \in Seen : e.origin # list.rows[w.row].origin
      <4>1. SUFFICES ASSUME NEW e \in Seen, e.origin = w.doc.origin PROVE FALSE
        BY <2>2
      <4>2. e \in server /\ e # w.doc
        BY <1>6 DEF Seen
      <4> QED BY <1>6, <3>3, <3>8, <4>1, <4>2 DEF OnlyCopy
    <3>10. Quiet => Covers(list'.rows, Seen)
      BY <1>5, <2>2, <2>3, <3>7, <3>9, RemovedCovers
    <3>11. Within(list'.rows, server')
      BY <2>5, <3>5, <3>7
    <3>12. RemoteShown'
      BY <1>2, <2>3, <3>5, <3>6, <3>7, <3>10, <3>11 DEF RemoteShown, Quiet
    <3>13. Still' /\ LocalShown' /\ NoneShown' /\ RemoteDetails'
      BY <1>2, <3>4, <3>5 DEF Still, LocalShown, NoneShown, RemoteDetails
    <3> QED BY <3>6, <3>12, <3>13
  <2> QED BY <1>9, <1>10, <1>11, <1>17, <2>4, <2>6, <2>7 DEF Inv
<1>22. CASE /\ Good(v, sortOption) /\ (Touchable(list, local) => Touchable(v, local))
            /\ w.row = 0
  <2>1. list' = v
    BY <1>3, <1>22 DEF AfterDeletion
  <2>2. list' \in Lists /\ ListInv' /\ TrapInv'
    BY <1>2, <1>22, <2>1, GoodListInv
  <2>3. RealmInv'
    <3>1. details'.realm => details.realm /\ details'.doc = details.doc
      BY <1>4 DEF NoDetails
    <3> QED BY <1>2, <1>5, <1>13, <1>22, <2>1, <3>1 DEF Inv, RealmInv
  <2>4. FaithInv'
    <3>1. SUFFICES ASSUME excuses' = {}
                   PROVE  /\ Still' /\ LocalShown' /\ NoneShown'
                          /\ RemoteShown' /\ RemoteDetails' /\ OnlyCopy'
      BY DEF FaithInv
    <3>2. excuses = {} /\ ok /\ screen # "list"
      BY <1>13, <1>22, <3>1 DEF S
    <3>3. Still /\ RemoteShown /\ OnlyCopy
      BY <3>2 DEF Inv, FaithInv
    <3>4. where = "remote"
      BY <1>2, <3>3 DEF Still
    <3>5. server' = server \ {w.doc} /\ screen' # "details"
      BY <1>2, <1>4, <3>2
    <3>6. Seen' = Seen /\ OnlyCopy'
      BY <1>2, <1>5, <1>6, <3>3, <3>5, SettledSeen
    <3>7. Still' /\ LocalShown' /\ NoneShown' /\ RemoteDetails'
      BY <1>2, <3>4, <3>5 DEF Still, LocalShown, NoneShown, RemoteDetails
    <3>8. RemoteShown'
      <4>1. SUFFICES ASSUME OnTop'
                     PROVE  /\ ~list'.realm /\ Within(list'.rows, server')
                            /\ Quiet' => Covers(list'.rows, Seen)
        BY <3>6 DEF RemoteShown
      <4>2. screen = "details" /\ OnTop
        BY <1>4, <3>2, <4>1 DEF OnTop
      <4>3. /\ ~list.realm /\ Within(list.rows, server)
            /\ Quiet => Covers(list.rows, Seen)
        BY <3>3, <3>4, <4>2 DEF RemoteShown
      <4>4. \A e \in server : e.origin = w.doc.origin => e = w.doc
        BY <1>6, <1>22, <3>3 DEF OnlyCopy
      <4> DEFINE n == RowOfText(list.rows, w.doc)
      <4>5. \/ n = 0 /\ [list |-> v, asks |-> asks] \in Updated(list, local)
            \/ n # 0 /\ v = Removed(list, n, n) /\ asks = FALSE
        BY <1>3, <3>2, <4>2, <4>3 DEF AfterDidDelete
      <4>6. CASE n = 0 /\ [list |-> v, asks |-> asks] \in Updated(list, local)
        <5>1. v = list /\ asks = TRUE
          BY <3>4, <4>6 DEF Updated
        <5>2. ~Quiet'
          BY <1>3, <1>5, <5>1, AskIsPending
        <5>3. \A m \in DOMAIN list.rows : list.rows[m] # w.doc
          BY <1>5, <4>6, RowOfTextFinds
        <5>4. Within(list.rows, server')
          BY <3>5, <4>3, <5>3 DEF Within
        <5> QED BY <2>1, <4>3, <5>1, <5>2, <5>4
      <4>7. CASE n # 0 /\ v = Removed(list, n, n) /\ asks = FALSE
        <5>1. n \in DOMAIN list.rows /\ list.rows[n].origin = w.doc.origin
          BY <1>5, <4>7, RowOfTextFinds
        <5>2. list.rows[n] = w.doc
          BY <4>3, <4>4, <5>1 DEF Within
        <5> HIDE DEF n
        <5>3. list'.realm = list.realm /\ list'.rows = RemoveAt(list.rows, n)
          BY <1>5, <2>1, <4>7, <5>1, RemovedGood
        <5>4. Within(list'.rows, server')
          <6>1. Within(RemoveAt(list.rows, n), server \ {list.rows[n]})
            BY <1>5, <4>3, <5>1, RemovedWithin
          <6> QED BY <3>5, <5>2, <5>3, <6>1, Zenon
        <5>5. \A e \in Seen : e.origin # list.rows[n].origin
          <6>1. SUFFICES ASSUME NEW e \in Seen, e.origin = w.doc.origin PROVE FALSE
            BY <5>2
          <6>2. e \in server /\ e # w.doc
            BY <1>6 DEF Seen
          <6> QED BY <4>4, <6>1, <6>2
        <5>6. Quiet => Covers(list'.rows, Seen)
          BY <1>5, <4>3, <5>1, <5>3, <5>5, RemovedCovers
        <5>7. Quiet' => Quiet
          BY <1>3, <4>7 DEF Quiet
        <5> QED BY <4>3, <5>3, <5>4, <5>6, <5>7
      <4> QED BY <4>5, <4>6, <4>7
    <3> QED BY <3>6, <3>7, <3>8
  <2> QED BY <1>9, <1>10, <1>11, <1>17, <2>2, <2>3, <2>4 DEF Inv
<1>23. CASE Good(v, sortOption) /\ (Touchable(list, local) => Touchable(v, local))
  <2>1. \/ w.row # 0 /\ (w.moved \/ (ok /\ screen # "list"))
        \/ w.row # 0 /\ ~w.moved /\ (ok => screen = "list")
        \/ w.row = 0
    OBVIOUS
  <2> QED BY <1>20, <1>21, <1>22, <1>23, <2>1, Zenon
<1> QED BY <1>18, <1>19, <1>23, Zenon

(***************************************************************************)
(* The theorems                                                            *)
(***************************************************************************)
LEMMA InitInv ==
  ASSUME Init
  PROVE  Inv
<1>1. /\ where \in {"local", "remote", "none"}
      /\ local \in SUBSET Docs /\ server \in SUBSET Docs
      /\ screen = "new" /\ sortOption = "alphabet"
      /\ list = NewList /\ swiped = NoCell /\ details = NoDetails
      /\ deletions = << >> /\ reads = [r \in Reads |-> NoRead] /\ excuses = {}
  BY FavoritesListAssumption DEF Init, FavoritesListAssumption
<1>2. Good(list, sortOption) /\ Touchable(list, local)
  BY <1>1, NewListGood
<1>3. NoRead \in ReadRecords /\ NoRead.stage = "idle"
  BY DEF NoRead, ReadRecords
<1>4. reads \in [Reads -> ReadRecords] /\ Quiet
  BY <1>1, <1>3 DEF Quiet
<1>5. deletions \in Seq(DeletionRecords) /\ Len(deletions) = 0
  BY <1>1, EmptySeq
<1>6. Len(deletions) <= MaxDeletions
  BY <1>5, FavoritesListAssumption DEF FavoritesListAssumption
<1>7. FavoritesListTypeOK
  BY <1>1, <1>2, <1>4, <1>5, <1>6 DEF FavoritesListTypeOK, Good
<1>8. ListInv /\ TrapInv
  BY <1>2 DEF ListInv, TrapInv, Good
<1>9. RealmInv /\ SwipeInv /\ DeletionInv /\ NewInv
  BY <1>1, <1>2, <1>4 DEF RealmInv, SwipeInv, DeletionInv, NewInv, NoDetails
<1>10. FaithInv
  BY <1>1, <1>4 DEF FaithInv, Still, LocalShown, NoneShown, RemoteShown, RemoteDetails,
                    OnlyCopy, OnTop
<1> QED BY <1>7, <1>8, <1>9, <1>10 DEF Inv

LEMMA StutterInv ==
  ASSUME Inv, UNCHANGED vars
  PROVE  Inv'
<1>1. UNCHANGED <<where, local, server, screen, sortOption, list, swiped, details,
                  deletions, reads, excuses>>
  BY DEF vars
<1>2. FavoritesListTypeOK'
  BY <1>1 DEF Inv, FavoritesListTypeOK
<1>3. ListInv' /\ TrapInv' /\ RealmInv' /\ SwipeInv' /\ DeletionInv' /\ NewInv'
  BY <1>1 DEF Inv, ListInv, TrapInv, RealmInv, SwipeInv, DeletionInv, NewInv, Intact, Quiet
<1>4. FaithInv'
  BY <1>1 DEF Inv, FaithInv, Still, LocalShown, NoneShown, RemoteShown, RemoteDetails,
              OnlyCopy, OnTop, Quiet, Seen
<1> QED BY <1>2, <1>3, <1>4 DEF Inv

LEMMA NextInv ==
  ASSUME Inv, [Next]_vars
  PROVE  Inv'
<1>1. CASE Open
  BY <1>1, OpenInv
<1>2. CASE Refresh
  BY <1>2, RefreshInv
<1>3. CASE ChangeSort
  BY <1>3, ChangeSortInv
<1>4. CASE TouchDeleted
  BY <1>4, TouchDeletedInv
<1>5. CASE Back
  BY <1>5, BackInv
<1>6. CASE Switch \/ \E d \in Docs : SaveArrives(d)
  <2>1. Alive
    BY <1>6 DEF Switch, SaveArrives
  <2> QED BY <1>6, <2>1, BehindInv
<1>7. ASSUME NEW r \in Reads, AnswerRead(r) \/ DeliverRead(r)
      PROVE  Inv'
  BY <1>7, AnswerReadInv, DeliverReadInv
<1>8. ASSUME NEW n \in 1..Cardinality(Docs), Swipe(n) \/ OpenDetails(n)
      PROVE  Inv'
  BY <1>8, SwipeStepInv, OpenDetailsInv
<1>9. CASE PushSwiped
  BY <1>9, PushSwipedInv
<1>10. CASE DeleteLocalDetails
  BY <1>10, DeleteLocalDetailsInv
<1>11. CASE DeleteRemoteDetails
  BY <1>11, DeleteRemoteDetailsInv
<1>12. ASSUME NEW ok \in BOOLEAN, SettleDeletion(ok)
       PROVE  Inv'
  BY <1>12, SettleDeletionInv
<1>13. CASE UNCHANGED vars
  BY <1>13, StutterInv
<1> QED BY <1>1, <1>2, <1>3, <1>4, <1>5, <1>6, <1>7, <1>8, <1>9, <1>10, <1>11, <1>12,
           <1>13 DEF Next

\* The inductive invariant holds in every reachable state of the list.
THEOREM FavoritesListInductive == Spec => []Inv
<1>1. Init => Inv
  BY InitInv
<1>2. Inv /\ [Next]_vars => Inv'
  BY NextInv
<1> QED BY <1>1, <1>2, PTL DEF Spec

\* The list, its screens and everything in flight keep their types, whatever
\* is asked, answered or refused and in whatever order.
THEOREM FavoritesListTypes == Spec => []FavoritesListTypeOK
<1>1. Inv => FavoritesListTypeOK
  BY DEF Inv
<1> QED BY <1>1, FavoritesListInductive, PTL

\* Array and table stay one list and nothing traps, unless a swiped deletion
\* was answered for a list that had been left or had changed, or the favourites
\* moved to another store.
THEOREM TableAlwaysFollowsArray == Spec => []TableFollowsArray
<1>1. Inv => TableFollowsArray
  BY DEF Inv, ListInv, TrapInv, TableFollowsArray, Intact
<1> QED BY <1>1, FavoritesListInductive, PTL

\* A quiet list that nothing has gone wrong with shows favourites only, each
\* proverb among them, in the order chosen.
THEOREM ListShowsFavorites == Spec => []RowsShowFavorites
<1>1. Inv => RowsShowFavorites
  <2>1. SUFFICES ASSUME Inv, screen = "list", deletions = << >>,
                        \A r \in Reads : reads[r].stage = "idle", excuses = {}
                 PROVE  /\ ToSet(list.rows) \subseteq Kept
                        /\ \A d \in Kept : \E e \in ToSet(list.rows) : e.origin = d.origin
                        /\ \A n \in 1..(Len(list.rows) - 1) :
                             Before(sortOption, list.rows[n], list.rows[n + 1])
    BY DEF RowsShowFavorites
  <2>2. /\ LocalShown /\ NoneShown /\ RemoteShown /\ OnTop /\ Quiet /\ Intact
        /\ where \in {"local", "remote", "none"} /\ list \in Lists
    BY <2>1 DEF Inv, FaithInv, OnTop, Quiet, Intact, FavoritesListTypeOK
  <2>3. Within(list.rows, Kept) /\ Covers(list.rows, Kept)
    <3>1. CASE where = "local"
      BY <2>2, <3>1 DEF LocalShown, Kept
    <3>2. CASE where = "remote"
      <4>1. Seen = server /\ Kept = Seen
        BY <2>1, <3>2 DEF Seen, Kept
      <4> QED BY <2>2, <3>2, <4>1 DEF RemoteShown
    <3>3. CASE where = "none"
      <4>1. Kept = {} /\ list.rows = << >>
        BY <2>2, <3>3 DEF NoneShown, Kept
      <4> QED BY <4>1 DEF Within, Covers
    <3> QED BY <2>2, <3>1, <3>2, <3>3
  <2>4. ToSet(list.rows) \subseteq Kept
    BY <2>3, WithinSet
  <2>5. \A d \in Kept : \E e \in ToSet(list.rows) : e.origin = d.origin
    BY <2>3 DEF Covers, ToSet
  <2>6. list.trap = "none" /\ Ordered(sortOption, list.rows)
    BY <2>1, <2>2 DEF Inv, ListInv, TrapInv
  <2>7. \A n \in 1..(Len(list.rows) - 1) :
          n \in DOMAIN list.rows /\ n + 1 \in DOMAIN list.rows /\ n < n + 1
    <3>1. list.rows \in Seq(Docs)
      BY <2>2 DEF Lists
    <3> QED BY <3>1
  <2>8. \A n \in 1..(Len(list.rows) - 1) : Before(sortOption, list.rows[n], list.rows[n + 1])
    BY <2>6, <2>7 DEF Ordered
  <2> QED BY <2>4, <2>5, <2>8
<1> QED BY <1>1, FavoritesListInductive, PTL
=============================================================================
