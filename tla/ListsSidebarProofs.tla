------------------------- MODULE ListsSidebarProofs -------------------------
(***************************************************************************)
(* What ListsSidebar promises for all dashboards, lists and kinds, and any *)
(* number of requests, moves, failures and writes by others: every list    *)
(* stays with its dashboard, every order sent is whole, and the trash view *)
(* settles on the trash of the dashboard on screen.                        *)
(***************************************************************************)
EXTENDS ListsSidebar, TLAPS, FiniteSetTheorems, SequenceTheorems

-----------------------------------------------------------------------------
(* Orders of finite sets.                                                    *)
StrictOrder(S, before) ==
  /\ \A x \in S : before[x] \subseteq S /\ x \notin before[x]
  /\ \A x \in S : \A y \in before[x] : before[y] \subseteq before[x]
  /\ \A x, y \in S : x = y \/ x \in before[y] \/ y \in before[x]

(* InOrder puts each member behind those before it, and at no other place.   *)
LEMMA Ranks ==
  ASSUME NEW S, IsFiniteSet(S), NEW before, StrictOrder(S, before)
  PROVE  /\ Cardinality(S) \in Nat
         /\ \A x \in S : Cardinality(before[x]) \in 0..(Cardinality(S) - 1)
         /\ \A x, y \in S : Cardinality(before[x]) = Cardinality(before[y]) => x = y
         /\ InOrder(S, before) \in [1..Cardinality(S) -> S]
         /\ \A k \in 1..Cardinality(S) : Cardinality(before[InOrder(S, before)[k]]) = k - 1
<1> DEFINE n == Cardinality(S)
           rank == [x \in S |-> Cardinality(before[x])]
           s == InOrder(S, before)
<1>1. n \in Nat
  BY FS_CardinalityType
<1>2. ASSUME NEW x \in S
      PROVE  IsFiniteSet(before[x]) /\ Cardinality(before[x]) \in 0..(n - 1)
  <2>1. before[x] \in SUBSET S /\ before[x] # S
    BY DEF StrictOrder
  <2>2. IsFiniteSet(before[x]) /\ Cardinality(before[x]) <= n /\ Cardinality(before[x]) # n
    BY <2>1, FS_Subset
  <2>3. Cardinality(before[x]) \in Nat
    BY <2>2, FS_CardinalityType
  <2>4. QED BY <1>1, <2>2, <2>3
<1>3. ASSUME NEW x \in S, NEW y \in before[x]
      PROVE  Cardinality(before[y]) < Cardinality(before[x])
  <2>1. y \in S /\ before[y] \in SUBSET before[x] /\ before[y] # before[x]
    BY DEF StrictOrder
  <2>2. Cardinality(before[y]) <= Cardinality(before[x])
        /\ Cardinality(before[y]) # Cardinality(before[x])
    BY <1>2, <2>1, FS_Subset
  <2>3. Cardinality(before[y]) \in Int /\ Cardinality(before[x]) \in Int
    BY <1>2, <2>1
  <2>4. QED BY <2>2, <2>3
<1>4. ASSUME NEW x \in S, NEW y \in S, Cardinality(before[x]) = Cardinality(before[y]) PROVE x = y
  <2>1. Cardinality(before[x]) \in Int /\ Cardinality(before[y]) \in Int
    BY <1>2
  <2>2. x \notin before[y] /\ y \notin before[x]
    BY <1>3, <1>4, <2>1
  <2>3. QED BY <2>2 DEF StrictOrder
<1>5. \A k \in 0..(n - 1) : \E x \in S : rank[x] = k
  <2>1. rank \in Injection(S, 0..(n - 1))
    BY <1>2, <1>4 DEF Injection, IsInjective
  <2>2. IsFiniteSet(0..(n - 1)) /\ Cardinality(0..(n - 1)) = Cardinality(S)
    <3>1. 0 \in Int /\ n - 1 \in Int
      BY <1>1
    <3>2. /\ IsFiniteSet(0..(n - 1))
          /\ Cardinality(0..(n - 1)) = IF 0 > n - 1 THEN 0 ELSE (n - 1) - 0 + 1
      BY <3>1, FS_Interval
    <3>3. QED BY <1>1, <3>2
  <2> HIDE DEF n, rank
  <2>3. rank \in Surjection(S, 0..(n - 1))
    BY <2>1, <2>2, FS_Injection
  <2>4. QED BY <2>3 DEF Surjection
<1>6. ASSUME NEW k \in 1..n PROVE s[k] \in S /\ Cardinality(before[s[k]]) = k - 1
  <2>1. \E x \in S : Cardinality(before[x]) = k - 1
    BY <1>1, <1>5
  <2>2. s[k] = CHOOSE x \in S : Cardinality(before[x]) = k - 1
    BY DEF InOrder
  <2>3. QED BY <2>1, <2>2
<1>7. s \in [1..n -> S]
  <2>1. s = [k \in 1..n |-> CHOOSE x \in S : Cardinality(before[x]) = k - 1]
    BY DEF InOrder
  <2>2. \A k \in 1..n : s[k] \in S
    BY <1>6
  <2> HIDE DEF n
  <2>3. QED BY <2>1, <2>2
<1>8. QED BY <1>1, <1>2, <1>4, <1>6, <1>7

(* Positions are ordered by <.                                               *)
LEMMA PlacesOrdered ==
  ASSUME NEW n \in Nat, NEW at \in SUBSET (1..n)
  PROVE  IsFiniteSet(at) /\ StrictOrder(at, [k \in at |-> {j \in at : j < k}])
<1> DEFINE before == [k \in at |-> {j \in at : j < k}]
<1>1. IsFiniteSet(1..n)
  BY FS_Interval, 1 \in Int, n \in Int
<1>2. IsFiniteSet(at)
  BY <1>1, FS_Subset
<1>3. \A k \in at : before[k] = {j \in at : j < k}
  OBVIOUS
<1> HIDE DEF before
<1>4. \A x \in at : before[x] \subseteq at /\ x \notin before[x]
  BY <1>3
<1>5. \A x \in at : \A y \in before[x] : before[y] \subseteq before[x]
  <2>1. \A x, y, z \in at : x < y /\ y < z => x < z
    OBVIOUS
  <2>2. \A x \in at : \A y \in before[x] : y \in at /\ y < x
    BY <1>3
  <2>3. ASSUME NEW x \in at, NEW y \in before[x], NEW z \in before[y] PROVE z \in before[x]
    <3>1. y \in at /\ z \in at /\ z < y /\ y < x
      BY <2>2, <2>3
    <3>2. QED BY <1>3, <2>1, <3>1
  <2>4. QED BY <2>3
<1>6. \A x, y \in at : x = y \/ x \in before[y] \/ y \in before[x]
  <2>1. \A x, y \in at : x = y \/ x < y \/ y < x
    OBVIOUS
  <2>2. QED BY <1>3, <2>1
<1>7. StrictOrder(at, before)
  BY <1>4, <1>5, <1>6 DEF StrictOrder
<1>8. QED BY <1>2, <1>7 DEF before

(* Some member is first, and so a set of positions has both its ends.        *)
LEMMA FirstOf ==
  ASSUME NEW S, IsFiniteSet(S), S # {}, NEW before, StrictOrder(S, before)
  PROVE  \E x \in S : before[x] = {}
<1>1. Cardinality(S) \in Nat /\ Cardinality(S) # 0
  BY FS_CardinalityType, FS_EmptySet
<1>2. PICK x \in S : Cardinality(before[x]) = 0
  <2>1. 1 \in 1..Cardinality(S)
    BY <1>1
  <2>2. InOrder(S, before)[1] \in S /\ Cardinality(before[InOrder(S, before)[1]]) = 1 - 1
    BY <2>1, Ranks
  <2>3. QED BY <2>2
<1>3. IsFiniteSet(before[x])
  BY FS_Subset DEF StrictOrder
<1>4. QED BY <1>2, <1>3, FS_EmptySet

(* Positions have both ends, the first of which IndexOf takes.               *)
LEMMA EndsOf ==
  ASSUME NEW n \in Nat, NEW S \in SUBSET (1..n), S # {}
  PROVE  Min(S) \in S /\ Max(S) \in S
<1>1. IsFiniteSet(S)
  BY PlacesOrdered
<1>2. PICK a \in S : [k \in S |-> {j \in S : j < k}][a] = {}
  BY <1>1, PlacesOrdered, FirstOf
<1>3. \A y \in S : a <= y
  BY <1>2
<1> DEFINE after == [k \in S |-> {j \in S : j > k}]
<1>4. \A k \in S : after[k] = {j \in S : j > k}
  OBVIOUS
<1>5. PICK z \in S : after[z] = {}
  <2> HIDE DEF after
  <2>1. \A x \in S : after[x] \subseteq S /\ x \notin after[x]
    BY <1>4
  <2>2. \A x \in S : \A y \in after[x] : after[y] \subseteq after[x]
    <3>1. \A x, y, z \in S : x > y /\ y > z => x > z
      OBVIOUS
    <3>2. QED BY <1>4, <3>1
  <2>3. \A x, y \in S : x = y \/ x \in after[y] \/ y \in after[x]
    <3>1. \A x, y \in S : x = y \/ x > y \/ y > x
      OBVIOUS
    <3>2. QED BY <1>4, <3>1
  <2>4. StrictOrder(S, after)
    BY <2>1, <2>2, <2>3 DEF StrictOrder
  <2>5. QED BY <1>1, <2>4, FirstOf
<1>6. \A y \in S : z >= y
  BY <1>4, <1>5
<1>7. QED BY <1>3, <1>6 DEF Min, Max

(* A filter keeps rows of the sequence.                                      *)
LEMMA KeptSound ==
  ASSUME NEW R, NEW rows \in Seq(R), NEW at \in SUBSET (1..Len(rows))
  PROVE  /\ Kept(rows, at) \in Seq(R)
         /\ \A n \in 1..Len(Kept(rows, at)) : \E k \in at : Kept(rows, at)[n] = rows[k]
<1> DEFINE before == [k \in at |-> {j \in at : j < k}]
           places == InOrder(at, before)
           n == Cardinality(at)
<1>1. n \in Nat /\ places \in [1..n -> at]
  <2>1. IsFiniteSet(at) /\ StrictOrder(at, before)
    BY PlacesOrdered, LenProperties
  <2> HIDE DEF before
  <2>2. QED BY <2>1, Ranks
<1>2. Kept(rows, at) = [k \in 1..n |-> rows[places[k]]]
  BY DEF Kept
<1> HIDE DEF n, places, before
<1>3. \A k \in 1..n : rows[places[k]] \in R
  BY <1>1, ElementOfSeq
<1>4. Kept(rows, at) \in Seq(R) /\ Len(Kept(rows, at)) = n
  BY <1>1, <1>2, <1>3
<1>5. QED BY <1>1, <1>2, <1>4

(* A filter that passes everything changes nothing.                          *)
LEMMA KeptAll ==
  ASSUME NEW R, NEW rows \in Seq(R)
  PROVE  Kept(rows, 1..Len(rows)) = rows
<1> DEFINE at == 1..Len(rows)
           before == [k \in at |-> {j \in at : j < k}]
           places == InOrder(at, before)
<1>1. Len(rows) \in Nat /\ at \in SUBSET (1..Len(rows)) /\ rows \in [at -> R]
  BY LenProperties
<1>2. Cardinality(at) = Len(rows)
  <2>1. 1 \in Int /\ Len(rows) \in Int
    BY <1>1
  <2>2. Cardinality(1..Len(rows)) = IF 1 > Len(rows) THEN 0 ELSE Len(rows) - 1 + 1
    BY <2>1, FS_Interval
  <2>3. QED BY <1>1, <2>2
<1>3. places \in [at -> at] /\ \A k \in at : Cardinality(before[places[k]]) = k - 1
  <2>1. IsFiniteSet(at) /\ StrictOrder(at, before)
    BY <1>1, PlacesOrdered
  <2> HIDE DEF before
  <2>2. /\ InOrder(at, before) \in [1..Cardinality(at) -> at]
        /\ \A k \in 1..Cardinality(at) : Cardinality(before[InOrder(at, before)[k]]) = k - 1
    BY <2>1, Ranks
  <2>3. QED BY <1>2, <2>2
<1>4. ASSUME NEW k \in at PROVE places[k] = k
  <2>0. \A j \in at : before[j] = {i \in at : i < j}
    OBVIOUS
  <2> HIDE DEF before, places
  <2>1. PICK p \in 1..Len(rows) : p = places[k]
    BY <1>3
  <2>2. before[p] = 1..(p - 1)
    <3>1. before[p] = {i \in at : i < p}
      BY <2>0
    <3>2. QED BY <1>1, <3>1
  <2>3. Cardinality(1..(p - 1)) = p - 1
    <3>1. p \in Int /\ p - 1 \in Int /\ p >= 1
      BY <1>1
    <3>2. Cardinality(1..(p - 1)) = IF 1 > p - 1 THEN 0 ELSE (p - 1) - 1 + 1
      BY <3>1, FS_Interval
    <3>3. QED BY <3>1, <3>2
  <2>4. p - 1 = k - 1
    BY <1>3, <2>1, <2>2, <2>3
  <2>5. QED BY <1>1, <2>1, <2>4
<1>5. Kept(rows, at) = [k \in at |-> rows[places[k]]]
  BY <1>2 DEF Kept
<1>6. QED BY <1>1, <1>4, <1>5

-----------------------------------------------------------------------------
(* The lists on the server and the rows made of them.                        *)
ListType == [at : {"live", "trash", "gone"}, renamed : BOOLEAN, ord : Int]
ListsTyped == DOMAIN lists \subseteq Ids /\ lists \in [DOMAIN lists -> ListType]
AtHome(rows, d) == \A k \in 1..Len(rows) : Home[rows[k].id] = d

(* A dashboard's live lists are finitely many, ordered as list_lists does.   *)
LEMMA LiveOrdered ==
  ASSUME ListsTyped, NEW d
  PROVE  /\ IsFiniteSet(LiveIn(d)) /\ LiveIn(d) \subseteq Ids
         /\ StrictOrder(LiveIn(d), [i \in LiveIn(d) |-> Before(d, i)])
<1> DEFINE live == LiveIn(d)
           before == [i \in live |-> Before(d, i)]
<1>1. live \in SUBSET Ids /\ Len(Home) \in Nat
  BY ListsSidebarAssumption, LenProperties DEF ListsTyped, LiveIn
<1>2. IsFiniteSet(live)
  <2>1. IsFiniteSet(Ids)
    BY <1>1, FS_Interval DEF Ids
  <2>2. QED BY <1>1, <2>1, FS_Subset
<1>3. \A i \in live : lists[i].ord \in Int /\ i \in Int
  BY <1>1 DEF ListsTyped, ListType, LiveIn, Ids
<1>4. \A i \in live : before[i] = {j \in live : lists[j].ord < lists[i].ord
                                               \/ (lists[j].ord = lists[i].ord /\ j < i)}
  BY DEF Before
<1> HIDE DEF live, before
<1>5. \A x \in live : before[x] \subseteq live /\ x \notin before[x]
  BY <1>3, <1>4
<1>6. \A x \in live : \A y \in before[x] : before[y] \subseteq before[x]
  <2>1. ASSUME NEW x \in live, NEW y \in before[x], NEW z \in before[y] PROVE z \in before[x]
    <3>1. y \in live /\ z \in live
      BY <1>4, <2>1
    <3>2. /\ lists[y].ord < lists[x].ord \/ (lists[y].ord = lists[x].ord /\ y < x)
          /\ lists[z].ord < lists[y].ord \/ (lists[z].ord = lists[y].ord /\ z < y)
      BY <1>4, <2>1, <3>1
    <3>3. lists[z].ord < lists[x].ord \/ (lists[z].ord = lists[x].ord /\ z < x)
      BY <1>3, <3>1, <3>2
    <3>4. QED BY <1>4, <3>1, <3>3
  <2>2. QED BY <2>1
<1>7. \A x, y \in live : x = y \/ x \in before[y] \/ y \in before[x]
  <2>1. \A x, y \in live : \/ x = y
                           \/ lists[x].ord < lists[y].ord
                           \/ lists[x].ord = lists[y].ord /\ x < y
                           \/ lists[y].ord < lists[x].ord
                           \/ lists[y].ord = lists[x].ord /\ y < x
    BY <1>3
  <2>2. QED BY <1>4, <2>1
<1>8. StrictOrder(live, before)
  BY <1>5, <1>6, <1>7 DEF StrictOrder
<1>9. QED BY <1>1, <1>2, <1>8 DEF live, before

(* A GET of the summaries returns rows of live lists of the dashboard.       *)
LEMMA ServerRowsSound ==
  ASSUME ListsTyped, NEW d
  PROVE  ServerRows(d) \in Seq(RowType) /\ AtHome(ServerRows(d), d)
<1> DEFINE live == LiveIn(d)
           before == [i \in live |-> Before(d, i)]
           ids == InOrder(live, before)
           n == Cardinality(live)
<1>1. n \in Nat /\ ids \in [1..n -> live]
  <2>1. IsFiniteSet(live) /\ StrictOrder(live, before)
    BY LiveOrdered
  <2> HIDE DEF live, before
  <2>2. QED BY <2>1, Ranks
<1>2. \A i \in live : i \in Ids /\ Home[i] = d /\ Row(i) \in RowType /\ Row(i).id = i
  BY DEF ListsTyped, ListType, LiveIn, Row, RowIn, RowType
<1>3. ServerRows(d) = [k \in 1..n |-> Row(ids[k])]
  BY DEF ServerRows
<1> HIDE DEF n, ids
<1>4. \A k \in 1..n : Row(ids[k]) \in RowType /\ Home[Row(ids[k]).id] = d
  BY <1>1, <1>2
<1>5. ServerRows(d) \in Seq(RowType) /\ Len(ServerRows(d)) = n
  BY <1>1, <1>3, <1>4
<1>6. QED BY <1>3, <1>4, <1>5 DEF AtHome

(* A filter and a patch of rows are rows, of the same dashboards.            *)
LEMMA DropSound ==
  ASSUME NEW rows \in Seq(RowType), NEW i
  PROVE  /\ Drop(rows, i) \in Seq(RowType)
         /\ \A d : AtHome(rows, d) => AtHome(Drop(rows, i), d)
<1> DEFINE at == {k \in 1..Len(rows) : rows[k].id # i}
<1>1. /\ Kept(rows, at) \in Seq(RowType)
      /\ \A n \in 1..Len(Kept(rows, at)) : \E k \in at : Kept(rows, at)[n] = rows[k]
  <2>1. at \in SUBSET (1..Len(rows))
    OBVIOUS
  <2> HIDE DEF at
  <2>2. QED BY <2>1, KeptSound
<1>2. QED BY <1>1 DEF Drop, AtHome

(* A patch of one row, by a row of the same list.                            *)
LEMMA PatchedSound ==
  ASSUME NEW rows \in Seq(RowType), NEW i, NEW now \in RowType, now.id = i
  PROVE  /\ Patched(rows, i, now) \in Seq(RowType)
         /\ \A d : AtHome(rows, d) => AtHome(Patched(rows, i, now), d)
<1>1. Len(rows) \in Nat /\ \A k \in 1..Len(rows) : rows[k] \in RowType
  BY LenProperties, ElementOfSeq
<1>2. Patched(rows, i, now) \in Seq(RowType) /\ Len(Patched(rows, i, now)) = Len(rows)
  BY <1>1 DEF Patched
<1>3. QED BY <1>2 DEF Patched, AtHome

(* So is a row added at the end.                                             *)
LEMMA AddedSound ==
  ASSUME NEW rows \in Seq(RowType), NEW more \in Seq(RowType)
  PROVE  /\ rows \o more \in Seq(RowType)
         /\ \A d : AtHome(rows, d) /\ AtHome(more, d) => AtHome(rows \o more, d)
<1>1. /\ rows \o more \in Seq(RowType) /\ Len(rows \o more) = Len(rows) + Len(more)
      /\ \A k \in 1..(Len(rows) + Len(more)) :
           (rows \o more)[k] = IF k <= Len(rows) THEN rows[k] ELSE more[k - Len(rows)]
  BY ConcatProperties
<1>2. Len(rows) \in Nat /\ Len(more) \in Nat
  BY LenProperties
<1>3. QED BY <1>1, <1>2 DEF AtHome

(* And the same rows in another order.                                       *)
LEMMA OrderedSound ==
  ASSUME NEW rows \in Seq(RowType), NEW ids \in Seq(Ids), SameIds(rows, ids)
  PROVE  /\ orderByIds(rows, ids) \in Seq(RowType)
         /\ \A d : AtHome(rows, d) => AtHome(orderByIds(rows, ids), d)
<1>1. Len(ids) \in Nat /\ DOMAIN ids = 1..Len(ids) /\ DOMAIN rows = 1..Len(rows)
  BY LenProperties
<1>2. ASSUME NEW k \in 1..Len(ids)
      PROVE  \E l \in 1..Len(rows) : orderByIds(rows, ids)[k] = rows[l]
  <2>1. ids[k] \in Range(IdsOf(rows))
    BY <1>1, <1>2 DEF SameIds, Range
  <2>2. PICK l \in 1..Len(rows) : ids[k] = rows[l].id
    BY <2>1 DEF Range, IdsOf
  <2>3. \E x \in Range(rows) : x.id = ids[k]
    BY <1>1, <2>2 DEF Range
  <2>4. orderByIds(rows, ids)[k] \in Range(rows)
    BY <1>2, <2>3 DEF orderByIds, RowWith
  <2>5. QED BY <1>1, <2>4 DEF Range
<1>3. \A k \in 1..Len(ids) : orderByIds(rows, ids)[k] \in RowType
  BY <1>2, ElementOfSeq
<1>4. orderByIds(rows, ids) \in Seq(RowType) /\ Len(orderByIds(rows, ids)) = Len(ids)
  BY <1>1, <1>3 DEF orderByIds
<1>5. QED BY <1>2, <1>4 DEF AtHome

-----------------------------------------------------------------------------
(* Sequences: removal, insertion, and the move that a drag is.               *)
LEMMA RemovedSound ==
  ASSUME NEW T, NEW s \in Seq(T), NEW p \in 1..Len(s)
  PROVE  /\ RemoveAt(s, p) \in Seq(T) /\ Len(RemoveAt(s, p)) = Len(s) - 1
         /\ \A j \in 1..(Len(s) - 1) : RemoveAt(s, p)[j] = IF j < p THEN s[j] ELSE s[j + 1]
<1> DEFINE u == SubSeq(s, 1, p - 1)
           w == SubSeq(s, p + 1, Len(s))
<1>1. Len(s) \in Nat /\ p \in 1..Len(s) /\ \A j \in 1..Len(s) : s[j] \in T
  BY LenProperties, ElementOfSeq
<1>2. /\ u \in Seq(T) /\ Len(u) = p - 1
      /\ \A j \in 1..(p - 1) : u[j] = s[j]
  <2>1. 1 \in Int /\ p - 1 \in Int /\ \A j \in 1..(p - 1) : s[j] \in T
    BY <1>1
  <2>2. /\ u \in Seq(T) /\ Len(u) = IF 1 <= p - 1 THEN (p - 1) - 1 + 1 ELSE 0
        /\ \A j \in 1..((p - 1) - 1 + 1) : u[j] = s[1 + j - 1]
    BY <2>1, SubSeqProperties
  <2> HIDE DEF u
  <2>3. QED BY <1>1, <2>2
<1>3. /\ w \in Seq(T) /\ Len(w) = Len(s) - p
      /\ \A j \in 1..(Len(s) - p) : w[j] = s[p + j]
  <2>1. p + 1 \in Int /\ Len(s) \in Int /\ \A j \in (p + 1)..Len(s) : s[j] \in T
    BY <1>1
  <2>2. /\ w \in Seq(T) /\ Len(w) = IF p + 1 <= Len(s) THEN Len(s) - (p + 1) + 1 ELSE 0
        /\ \A j \in 1..(Len(s) - (p + 1) + 1) : w[j] = s[(p + 1) + j - 1]
    BY <2>1, SubSeqProperties
  <2> HIDE DEF w
  <2>3. QED BY <1>1, <2>2
<1>4. /\ u \o w \in Seq(T) /\ Len(u \o w) = Len(u) + Len(w)
      /\ \A j \in 1..(Len(u) + Len(w)) : (u \o w)[j] = IF j <= Len(u) THEN u[j] ELSE w[j - Len(u)]
  BY <1>2, <1>3, ConcatProperties
<1>5. RemoveAt(s, p) = u \o w
  BY DEF RemoveAt
<1> HIDE DEF u, w
<1>6. ASSUME NEW j \in 1..(Len(s) - 1)
      PROVE  (u \o w)[j] = IF j < p THEN s[j] ELSE s[j + 1]
  <2>1. CASE j < p
    BY <1>1, <1>2, <1>3, <1>4, <2>1
  <2>2. CASE ~(j < p)
    <3>1. (u \o w)[j] = w[j - (p - 1)] /\ j - (p - 1) \in 1..(Len(s) - p)
      BY <1>1, <1>2, <1>3, <1>4, <2>2
    <3>2. w[j - (p - 1)] = s[p + (j - (p - 1))] /\ p + (j - (p - 1)) = j + 1
      BY <1>1, <1>3, <3>1
    <3>3. QED BY <2>2, <3>1, <3>2
  <2>3. QED BY <2>1, <2>2
<1>7. Len(u \o w) = Len(s) - 1
  BY <1>1, <1>2, <1>3, <1>4
<1>8. QED BY <1>4, <1>5, <1>6, <1>7

(* An insertion.                                                             *)
LEMMA InsertedSound ==
  ASSUME NEW T, NEW s \in Seq(T), NEW q \in 1..(Len(s) + 1), NEW e \in T
  PROVE  /\ InsertAt(s, q, e) \in Seq(T) /\ Len(InsertAt(s, q, e)) = Len(s) + 1
         /\ \A j \in 1..(Len(s) + 1) :
              InsertAt(s, q, e)[j] = IF j < q THEN s[j] ELSE IF j = q THEN e ELSE s[j - 1]
<1> DEFINE u == SubSeq(s, 1, q - 1)
           w == SubSeq(s, q, Len(s))
           x == u \o <<e>>
<1>1. Len(s) \in Nat /\ q \in 1..(Len(s) + 1) /\ \A j \in 1..Len(s) : s[j] \in T
  BY LenProperties, ElementOfSeq
<1>2. /\ u \in Seq(T) /\ Len(u) = q - 1
      /\ \A j \in 1..(q - 1) : u[j] = s[j]
  <2>1. 1 \in Int /\ q - 1 \in Int /\ \A j \in 1..(q - 1) : s[j] \in T
    BY <1>1
  <2>2. /\ u \in Seq(T) /\ Len(u) = IF 1 <= q - 1 THEN (q - 1) - 1 + 1 ELSE 0
        /\ \A j \in 1..((q - 1) - 1 + 1) : u[j] = s[1 + j - 1]
    BY <2>1, SubSeqProperties
  <2> HIDE DEF u
  <2>3. QED BY <1>1, <2>2
<1>3. /\ w \in Seq(T) /\ Len(w) = Len(s) - q + 1
      /\ \A j \in 1..(Len(s) - q + 1) : w[j] = s[q + j - 1]
  <2>1. q \in Int /\ Len(s) \in Int /\ \A j \in q..Len(s) : s[j] \in T
    BY <1>1
  <2>2. /\ w \in Seq(T) /\ Len(w) = IF q <= Len(s) THEN Len(s) - q + 1 ELSE 0
        /\ \A j \in 1..(Len(s) - q + 1) : w[j] = s[q + j - 1]
    BY <2>1, SubSeqProperties
  <2> HIDE DEF w
  <2>3. QED BY <1>1, <2>2
<1>4. /\ x \in Seq(T) /\ Len(x) = q
      /\ \A j \in 1..q : x[j] = IF j < q THEN s[j] ELSE e
  <2>1. <<e>> \in Seq(T) /\ Len(<<e>>) = 1 /\ <<e>>[1] = e
    OBVIOUS
  <2>2. /\ x \in Seq(T) /\ Len(x) = Len(u) + 1
        /\ \A j \in 1..(Len(u) + 1) : x[j] = IF j <= Len(u) THEN u[j] ELSE <<e>>[j - Len(u)]
    BY <1>2, <2>1, ConcatProperties
  <2> HIDE DEF u, x
  <2>3. QED BY <1>1, <1>2, <2>1, <2>2
<1>5. InsertAt(s, q, e) = x \o w
  BY DEF InsertAt
<1> HIDE DEF u, w, x
<1>6. /\ x \o w \in Seq(T) /\ Len(x \o w) = Len(x) + Len(w)
      /\ \A j \in 1..(Len(x) + Len(w)) : (x \o w)[j] = IF j <= Len(x) THEN x[j] ELSE w[j - Len(x)]
  BY <1>3, <1>4, ConcatProperties
<1>7. \A j \in 1..(Len(s) + 1) :
        (x \o w)[j] = IF j < q THEN s[j] ELSE IF j = q THEN e ELSE s[j - 1]
  BY <1>1, <1>3, <1>4, <1>6
<1>8. QED BY <1>1, <1>3, <1>4, <1>5, <1>6, <1>7

(* A drag keeps every element, and doubles none.                             *)
LEMMA MovedSound ==
  ASSUME NEW T, NEW s \in Seq(T), NEW p \in 1..Len(s), NEW q \in 1..Len(s)
  PROVE  LET v == InsertAt(RemoveAt(s, p), q, s[p])
         IN /\ v \in Seq(T) /\ Len(v) = Len(s) /\ Range(v) = Range(s)
            /\ IsInjective(s) => IsInjective(v)
<1> DEFINE r == RemoveAt(s, p)
           v == InsertAt(r, q, s[p])
           from(j) == IF j = q THEN p
                      ELSE IF j < q THEN (IF j < p THEN j ELSE j + 1)
                      ELSE (IF j - 1 < p THEN j - 1 ELSE j)
           to(i) == IF i = p THEN q
                    ELSE IF i < p THEN (IF i < q THEN i ELSE i + 1)
                    ELSE (IF i - 1 < q THEN i - 1 ELSE i)
<1>1. Len(s) \in Nat /\ p \in 1..Len(s) /\ q \in 1..Len(s) /\ s[p] \in T /\ DOMAIN s = 1..Len(s)
  BY LenProperties, ElementOfSeq
<1>2. /\ r \in Seq(T) /\ Len(r) = Len(s) - 1
      /\ \A j \in 1..(Len(s) - 1) : r[j] = IF j < p THEN s[j] ELSE s[j + 1]
  BY RemovedSound
<1> HIDE DEF r
<1>3. /\ v \in Seq(T) /\ Len(v) = Len(r) + 1
      /\ \A j \in 1..(Len(r) + 1) : v[j] = IF j < q THEN r[j] ELSE IF j = q THEN s[p] ELSE r[j - 1]
  <2>1. q \in 1..(Len(r) + 1)
    BY <1>1, <1>2
  <2>2. QED BY <1>1, <1>2, <2>1, InsertedSound
<1>4. DOMAIN v = 1..Len(s) /\ Len(v) = Len(s)
  BY <1>1, <1>2, <1>3, LenProperties
<1> HIDE DEF v
<1>5. ASSUME NEW j \in 1..Len(s)
      PROVE  from(j) \in 1..Len(s) /\ v[j] = s[from(j)] /\ to(from(j)) = j
  <2>1. from(j) \in 1..Len(s) /\ to(from(j)) = j
    BY <1>1
  <2>2. CASE j = q
    BY <1>1, <1>2, <1>3, <2>2
  <2>3. CASE j < q
    BY <1>1, <1>2, <1>3, <2>3
  <2>4. CASE j > q
    <3>1. v[j] = r[j - 1] /\ j - 1 \in 1..(Len(s) - 1)
      BY <1>1, <1>2, <1>3, <2>4
    <3>2. r[j - 1] = IF j - 1 < p THEN s[j - 1] ELSE s[j]
      BY <1>1, <1>2, <3>1
    <3>3. QED BY <2>4, <3>1, <3>2
  <2>5. QED BY <1>1, <2>1, <2>2, <2>3, <2>4
<1>6. \A i \in 1..Len(s) : to(i) \in 1..Len(s) /\ from(to(i)) = i
  BY <1>1
<1>7. \A i, j \in 1..Len(s) : from(i) = from(j) => i = j
  BY <1>5
<1> HIDE DEF from, to
<1>8. Range(v) = Range(s)
  <2>1. ASSUME NEW j \in 1..Len(s) PROVE v[j] \in {s[i] : i \in 1..Len(s)}
    BY <1>5
  <2>2. ASSUME NEW i \in 1..Len(s) PROVE s[i] \in {v[j] : j \in 1..Len(s)}
    <3>1. to(i) \in 1..Len(s) /\ v[to(i)] = s[from(to(i))] /\ from(to(i)) = i
      BY <1>5, <1>6
    <3>2. v[to(i)] = s[i]
      BY <3>1
    <3>3. QED BY <3>1, <3>2
  <2>3. QED BY <1>1, <1>4, <2>1, <2>2 DEF Range
<1>9. IsInjective(s) => IsInjective(v)
  BY <1>1, <1>4, <1>5, <1>7 DEF IsInjective
<1>10. QED BY <1>3, <1>4, <1>8, <1>9 DEF v, r

-----------------------------------------------------------------------------
(* The inductive invariant.                                                  *)
Kinds == {"create", "rename", "delete", "undo", "restore", "purge", "order"}
SomeId == Ids \cup {None}
Values == Seq(Ids) \cup BOOLEAN \cup {None}

(* A transaction that has read names a list, which a create has dated where  *)
(* its form was open; an order names those it has locked.                    *)
TransactionType ==
  [c : Int, kind : Kinds, id : SomeId, dash : Dashboards, value : Values, status : {"loaded"}]
Reading(t) == /\ t.kind # "order" => t.id \in Ids
              /\ t.kind = "create" => Home[t.id] = t.dash
              /\ t.kind = "rename" => t.value = TRUE
              /\ t.kind = "order" => t.id = None /\ t.value \in Seq(Ids)

(* What the server has, and the log of what it did.                          *)
ServerSound == /\ ListsTyped
               /\ begun \in 0..Len(Home)
               /\ log \in Seq([id : SomeId, dash : Dashboards])
               /\ \A t \in others : t \in TransactionType /\ Reading(t)

(* What each sidebar shows, or is about to show, is its dashboard's, unless  *)
(* the gap says otherwise of the former.                                     *)
EntryType ==
  [known : BOOLEAN, has : BOOLEAN, rows : Seq(RowType), stale : BOOLEAN, error : BOOLEAN,
   get : {"none", "sent", "answered"}, got : Seq(RowType), asOf : Nat]
CacheTyped(c) == c \in [Dashboards -> EntryType]
GapNames == {"lateGet", "doubled", "crossed", "partial", "unanswered", "rolledback", "stray", "last",
             "purged"}
GapsTyped(g) == g \in [Dashboards -> SUBSET GapNames]
HomeAt(c, g, d) == AtHome(c[d].got, d) /\ ("stray" \in g[d] \/ AtHome(c[d].rows, d))
CachesSound == /\ CacheTyped(cache) /\ GapsTyped(gaps)
               /\ \A d \in Dashboards : HomeAt(cache, gaps, d)

LoadType == [dash : Dashboards, rows : SUBSET Ids, status : {"sent", "answered"}, asOf : Nat]
TrashSound ==
  /\ tray \in [open : BOOLEAN, rows : SUBSET Ids, empty : BOOLEAN, loading : BOOLEAN]
  /\ tray.empty => tray.rows = {}
  /\ loads \in Seq(LoadType)

ViewType ==
  [dash : Dashboards, filter : {"all"} \cup Range(Kind), list : SomeId,
   form : {"closed", "open", "sent"}, submitted : Int, row : SomeId,
   mode : {"idle", "rename", "delete"}, asking : SomeId]
SpentType == [calls : Int, switches : Int, foreign : Int, faults : Int]
ScreenSound ==
  /\ view \in ViewType
  /\ busy \in [restoring : SomeId, purging : SomeId]
  /\ spent \in SpentType

(* A request names what it is about; its answer is the row of that list, and *)
(* a created list is where its form was open.  What an order would roll back *)
(* to is at home, unless it was drawn on rows that were not.                 *)
CallType ==
  [c : Int, kind : Kinds, id : SomeId, value : Values, n : Nat,
   status : {"sent", "loaded", "done", "refused", "broken"}, dash : Dashboards, origin : Dashboards,
   empty : BOOLEAN, list : SomeId, reply : Seq(RowType), from : Seq(RowType), to : Seq(RowType),
   seen : SUBSET Nat, over : BOOLEAN, stray : BOOLEAN, live : BOOLEAN]
Whole(m) == /\ m.value \in Seq(Ids)
            /\ Len(m.value) = Len(m.from) /\ Range(m.value) = Range(IdsOf(m.from))
            /\ IsInjective(IdsOf(m.from)) => IsInjective(m.value)
            /\ m.stray \/ AtHome(m.from, m.dash)
Answered(m) == /\ m.id \in Ids
               /\ Len(m.reply) = 1 /\ m.reply[1].id = m.id
               /\ m.kind = "create" => Home[m.id] = m.dash
CallSound(m) == /\ m \in CallType
                /\ m.origin = m.dash
                /\ m.kind \notin {"create", "order"} => m.id \in Ids
                /\ m.kind = "rename" => m.value = TRUE
                /\ m.kind = "order" => m.id = None /\ Whole(m)
                /\ m.status = "loaded" => Reading(m)
                /\ m.status \in {"sent", "loaded"} => m.n = 0
                /\ m.status = "done" /\ m.kind # "order" => Answered(m)

OfferType == [id : Ids, dash : Dashboards, empty : BOOLEAN]
FrameType == [n : Nat, kind : Kinds, id : SomeId, dash : Dashboards, value : Values]
FrameSound(f) == f.kind = "order" => f.value \in Seq(Ids)
TrafficSound == /\ \A m \in calls : CallSound(m)
                /\ offers \subseteq OfferType
                /\ inbox \in Seq(FrameType)
                /\ \A k \in 1..Len(inbox) : FrameSound(inbox[k])

SidebarInv == ServerSound /\ CachesSound /\ TrashSound /\ ScreenSound /\ TrafficSound

-----------------------------------------------------------------------------
(* The summaries caches.                                                     *)

(* Two caches with the same rows in them.                                    *)
SameRows(c, n) ==
  \A d \in Dashboards : n[d].rows = c[d].rows /\ n[d].got = c[d].got

(* Sending a request changes no rows.                                        *)
LEMMA FetchSound ==
  ASSUME NEW c, CacheTyped(c), NEW d \in Dashboards
  PROVE  CacheTyped(Fetch(d, c)) /\ SameRows(c, Fetch(d, c))
<1>1. c[d] \in EntryType
  BY DEF CacheTyped
<1>2. CASE c[d].get # "none"
  BY <1>2 DEF Fetch, SameRows
<1>3. CASE c[d].get = "none"
  <2> DEFINE e == [c[d] EXCEPT !.get = "sent", !.stale = FALSE, !.error = FALSE]
  <2>1. e \in EntryType /\ e.rows = c[d].rows /\ e.got = c[d].got
    BY <1>1 DEF EntryType
  <2>2. Fetch(d, c) = [c EXCEPT ![d] = e]
    BY <1>3 DEF Fetch
  <2> HIDE DEF e
  <2>3. QED BY <2>1, <2>2 DEF CacheTyped, SameRows
<1>4. QED BY <1>2, <1>3

(* Nor does a mark.                                                          *)
LEMMA InvalidateSound ==
  ASSUME NEW c, CacheTyped(c), NEW d \in Dashboards
  PROVE  CacheTyped(Invalidate(d, c)) /\ SameRows(c, Invalidate(d, c))
<1>1. CASE ~c[d].known
  BY <1>1 DEF Invalidate, SameRows
<1>2. CASE c[d].known /\ d = view.dash /\ c[d].get = "none"
  BY <1>2, FetchSound DEF Invalidate
<1>3. CASE c[d].known /\ ~(d = view.dash /\ c[d].get = "none")
  <2> DEFINE e == [c[d] EXCEPT !.stale = TRUE]
  <2>1. e \in EntryType /\ e.rows = c[d].rows /\ e.got = c[d].got
    BY DEF CacheTyped, EntryType
  <2>2. Invalidate(d, c) = [c EXCEPT ![d] = e]
    BY <1>3 DEF Invalidate
  <2> HIDE DEF e
  <2>3. QED BY <2>1, <2>2 DEF CacheTyped, SameRows
<1>4. QED BY <1>1, <1>2, <1>3

(* Nor does coming on screen.                                                *)
LEMMA MountSound ==
  ASSUME NEW c, CacheTyped(c), NEW d \in Dashboards
  PROVE  CacheTyped(Mount(d, c)) /\ SameRows(c, Mount(d, c))
<1> DEFINE e == [c[d] EXCEPT !.known = TRUE]
           n == [c EXCEPT ![d] = e]
<1>1. e \in EntryType /\ e.rows = c[d].rows /\ e.got = c[d].got
  BY DEF CacheTyped, EntryType
<1> HIDE DEF e
<1>2. CacheTyped(n) /\ SameRows(c, n)
  BY <1>1 DEF CacheTyped, SameRows
<1>3. Mount(d, c) = IF ~c[d].has \/ c[d].stale THEN Fetch(d, n) ELSE c
  BY DEF Mount, e
<1> HIDE DEF n
<1>4. CacheTyped(Fetch(d, n)) /\ SameRows(n, Fetch(d, n))
  BY <1>2, FetchSound
<1>5. QED BY <1>2, <1>3, <1>4 DEF SameRows

(* The same rows are as much at home, and gaps only excuse more.             *)
LEMMA SameRowsHome ==
  ASSUME CachesSound, CacheTyped(cache'), SameRows(cache, cache'), GapsTyped(gaps'),
         \A d \in Dashboards : "stray" \in gaps[d] => "stray" \in gaps'[d]
  PROVE  CachesSound'
BY DEF CachesSound, HomeAt, SameRows, CacheTyped, GapsTyped, AtHome

(* Gaps that are added excuse what those of before did.                      *)
LEMMA GapsGrow ==
  ASSUME GapsTyped(gaps), NEW d, NEW more \in SUBSET GapNames,
         gaps' = [gaps EXCEPT ![d] = gaps[d] \cup more]
  PROVE  GapsTyped(gaps') /\ \A e \in Dashboards : "stray" \in gaps[e] => "stray" \in gaps'[e]
BY DEF GapsTyped

(* New rows for some dashboards.                                             *)
LEMMA RowsHome ==
  ASSUME CachesSound, CacheTyped(cache'), GapsTyped(gaps'),
         \A d \in Dashboards : "stray" \in gaps[d] => "stray" \in gaps'[d],
         \A d \in Dashboards :
           /\ cache'[d].got = cache[d].got
           /\ "stray" \notin gaps'[d] =>
                (AtHome(cache[d].rows, d) => AtHome(cache'[d].rows, d))
  PROVE  CachesSound'
<1>1. ASSUME NEW d \in Dashboards PROVE HomeAt(cache', gaps', d)
  <2>1. AtHome(cache[d].got, d) /\ ("stray" \in gaps[d] \/ AtHome(cache[d].rows, d))
    BY DEF CachesSound, HomeAt
  <2>2. AtHome(cache'[d].got, d)
    BY <2>1 DEF AtHome
  <2>3. QED BY <2>1, <2>2 DEF HomeAt
<1>2. QED BY <1>1 DEF CachesSound, HomeAt, AtHome

-----------------------------------------------------------------------------
(* The actions.                                                              *)

(* The server, when a step leaves it alone, stays as sound as it was.        *)
LEMMA QuietServer ==
  ASSUME ServerSound, UNCHANGED server PROVE ServerSound'
BY DEF ServerSound, ListsTyped, server
(* So do the sidebars.                                                       *)
LEMMA QuietCaches ==
  ASSUME CachesSound, UNCHANGED <<cache, gaps>> PROVE CachesSound'
BY DEF CachesSound, HomeAt, AtHome, CacheTyped, GapsTyped
(* So does the trash view.                                                   *)
LEMMA QuietTrash ==
  ASSUME TrashSound, UNCHANGED <<tray, loads>> PROVE TrashSound'
BY DEF TrashSound
(* So do what is on screen and the events counted.                           *)
LEMMA QuietScreen ==
  ASSUME ScreenSound, UNCHANGED <<view, busy, spent>> PROVE ScreenSound'
BY DEF ScreenSound
(* So do requests, offers and frames.                                        *)
LEMMA QuietTraffic ==
  ASSUME TrafficSound, UNCHANGED <<calls, offers, inbox>> PROVE TrafficSound'
BY DEF TrafficSound

(* Counting an event.                                                        *)
LEMMA SpendTyped ==
  ASSUME ScreenSound, NEW event \in {"calls", "switches", "foreign", "faults"}, NEW most,
         Spend(event, most)
  PROVE  spent' \in SpentType
BY DEF ScreenSound, Spend, SpentType

(* Steps that only concern the screen.                                       *)
LEMMA ViewOnly ==
  ASSUME SidebarInv, UNCHANGED <<server, cache, gaps, tray, loads, calls, offers, inbox>>,
         ScreenSound'
  PROVE  SidebarInv'
BY QuietServer, QuietCaches, QuietTrash, QuietTraffic DEF SidebarInv

(* Filters, forms and row controls.                                          *)
LEMMA ViewSteps ==
  ASSUME SidebarInv,
         \/ \E f \in {"all"} \cup Range(Kind) : FilterTypes(f)
         \/ \E i \in Ids : \/ onSelect(i) \/ AskPurge(i)
                           \/ OpenControl(i, "rename") \/ OpenControl(i, "delete")
         \/ ToggleCreate \/ CloseCreate \/ CloseControl \/ CancelPurge
  PROVE  SidebarInv'
<1>1. UNCHANGED <<server, cache, gaps, tray, loads, calls, offers, inbox, busy, spent>>
  BY DEF FilterTypes, onSelect, AskPurge, OpenControl, ToggleCreate, CloseCreate, CloseControl,
         CancelPurge, ViewStep, server
<1>2. view \in ViewType
  BY DEF SidebarInv, ScreenSound
<1>3. view' \in ViewType
  <2>1. CASE \E f \in {"all"} \cup Range(Kind) : FilterTypes(f)
    BY <1>2, <2>1 DEF FilterTypes, ViewStep, ViewType
  <2>2. CASE \E i \in Ids : onSelect(i) \/ AskPurge(i)
    BY <1>2, <2>2 DEF onSelect, AskPurge, ViewStep, SomeId, ViewType
  <2>3. CASE \E i \in Ids : OpenControl(i, "rename") \/ OpenControl(i, "delete")
    <3>1. PICK i \in Ids, mode \in {"rename", "delete"} :
            view' = [view EXCEPT !.row = i, !.mode = mode]
      BY <2>3 DEF OpenControl, ViewStep
    <3>2. QED BY <1>2, <3>1 DEF SomeId, ViewType
  <2>4. CASE ToggleCreate \/ CloseCreate
    <3>1. \/ view' = [view EXCEPT !.form = "open"]
          \/ view' = [view EXCEPT !.form = "closed"]
      BY <2>4 DEF ToggleCreate, CloseCreate, ViewStep
    <3>2. QED BY <1>2, <3>1 DEF ViewType
  <2>5. CASE CloseControl \/ CancelPurge
    BY <1>2, <2>5 DEF CloseControl, CancelPurge, ViewStep, SomeId, ViewType
  <2>6. QED BY <2>1, <2>2, <2>3, <2>4, <2>5
<1>4. ScreenSound'
  BY <1>1, <1>3 DEF SidebarInv, ScreenSound
<1>5. QED BY <1>1, <1>4, ViewOnly

(* Requests for the summaries.                                               *)
LEMMA CacheOnly ==
  ASSUME SidebarInv, UNCHANGED <<server, tray, loads, view, busy, calls, offers, inbox>>,
         spent' \in SpentType,
         CachesSound'
  PROVE  SidebarInv'
<1>1. ScreenSound'
  BY DEF SidebarInv, ScreenSound
<1>2. QED BY <1>1, QuietServer, QuietTrash, QuietTraffic DEF SidebarInv

(* One sidebar changes, with its gaps.                                       *)
LEMMA OneSidebar ==
  ASSUME CachesSound, NEW d \in Dashboards, NEW e \in EntryType, cache' = [cache EXCEPT ![d] = e],
         GapsTyped(gaps'), \A b \in Dashboards : b # d => gaps'[b] = gaps[b],
         AtHome(e.got, d), "stray" \in gaps'[d] \/ AtHome(e.rows, d)
  PROVE  CachesSound'
<1>1. CacheTyped(cache) /\ CacheTyped(cache')
  BY DEF CachesSound, CacheTyped
<1>2. ASSUME NEW b \in Dashboards PROVE HomeAt(cache', gaps', b)
  <2>1. HomeAt(cache, gaps, b)
    BY DEF CachesSound
  <2>2. CASE b = d
    <3>1. cache'[b] = e
      BY <1>1, <2>2 DEF CacheTyped
    <3>2. QED BY <2>2, <3>1 DEF HomeAt
  <2>3. CASE b # d
    <3>1. cache'[b] = cache[b] /\ gaps'[b] = gaps[b]
      BY <1>1, <2>3 DEF CacheTyped
    <3>2. QED BY <2>1, <3>1 DEF HomeAt
  <2>4. QED BY <2>2, <2>3
<1>3. QED BY <1>1, <1>2 DEF CachesSound, HomeAt, AtHome

(* Requests under way may all be marked as overtaken by an answer.           *)
LEMMA MarkedSound ==
  ASSUME TrafficSound, NEW d, UNCHANGED <<offers, inbox>>,
         calls' = {[m EXCEPT !.over = @ \/ m.dash = d] : m \in calls}
  PROVE  TrafficSound'
<1>1. ASSUME NEW m \in calls, NEW b \in BOOLEAN PROVE CallSound([m EXCEPT !.over = b])
  <2> DEFINE n == [m EXCEPT !.over = b]
  <2>1. CallSound(m)
    BY DEF TrafficSound
  <2>2. /\ n \in CallType /\ n.origin = m.origin /\ n.dash = m.dash /\ n.kind = m.kind
        /\ n.id = m.id /\ n.value = m.value /\ n.status = m.status /\ n.from = m.from
        /\ n.stray = m.stray /\ n.reply = m.reply /\ n.n = m.n
    BY <2>1 DEF CallSound, CallType
  <2> HIDE DEF n
  <2>3. CallSound(n)
    BY <2>1, <2>2 DEF CallSound, Whole, Reading, Answered
  <2>4. QED BY <2>3 DEF n
<1>2. ASSUME NEW n \in calls' PROVE CallSound(n)
  <2>1. PICK m \in calls : n = [m EXCEPT !.over = m.over \/ m.dash = d]
    OBVIOUS
  <2>2. PICK b \in BOOLEAN : b = (m.over \/ m.dash = d)
    OBVIOUS
  <2>3. QED BY <1>1, <2>1, <2>2
<1>3. QED BY <1>2 DEF TrafficSound

(* A request for the summaries is answered, arrives or fails.                *)
LEMMA GetSteps ==
  ASSUME SidebarInv, NEW d \in Dashboards, AnswerGet(d) \/ ResolveGet(d) \/ FailGet(d)
  PROVE  SidebarInv'
<1>1. /\ CachesSound /\ GapsTyped(gaps) /\ cache[d] \in EntryType
      /\ Len(log) \in Nat /\ ScreenSound
      /\ spent \in SpentType
  BY LenProperties DEF SidebarInv, CachesSound, CacheTyped, ServerSound, ScreenSound
<1>2. AtHome(cache[d].got, d) /\ ("stray" \in gaps[d] \/ AtHome(cache[d].rows, d))
      /\ AtHome(<<>>, d) /\ <<>> \in Seq(RowType)
  BY <1>1 DEF CachesSound, HomeAt, AtHome
<1>3. CASE AnswerGet(d)
  <2> DEFINE rows == ServerRows(d)
             e == [cache[d] EXCEPT !.get = "answered", !.got = rows, !.asOf = Len(log)]
  <2>1. rows \in Seq(RowType) /\ AtHome(rows, d)
    BY ServerRowsSound DEF SidebarInv, ServerSound
  <2>2. cache' = [cache EXCEPT ![d] = e] /\ gaps' = gaps
    BY <1>3 DEF AnswerGet
  <2> HIDE DEF rows
  <2>3. e \in EntryType /\ e.rows = cache[d].rows /\ e.got = rows
    BY <1>1, <2>1 DEF EntryType
  <2> HIDE DEF e
  <2>4. CachesSound'
    BY <1>1, <1>2, <2>1, <2>2, <2>3, OneSidebar
  <2>5. QED BY <1>1, <1>3, <2>4, CacheOnly DEF AnswerGet
<1>4. CASE ResolveGet(d)
  <2> DEFINE e == [cache[d] EXCEPT !.has = TRUE, !.rows = cache[d].got, !.error = FALSE,
                                   !.get = "none", !.got = <<>>, !.asOf = 0]
  <2>1. e \in EntryType /\ e.rows = cache[d].got /\ e.got = <<>>
    BY <1>1, <1>2 DEF EntryType
  <2>2. cache' = [cache EXCEPT ![d] = e]
    BY <1>4 DEF ResolveGet
  <2>3. \/ gaps' = [gaps EXCEPT ![d] = {"lateGet"}]
        \/ gaps' = [gaps EXCEPT ![d] = {}]
    BY <1>4 DEF ResolveGet
  <2>4. GapsTyped(gaps') /\ \A b \in Dashboards : b # d => gaps'[b] = gaps[b]
    <3>1. PICK g \in SUBSET GapNames : gaps' = [gaps EXCEPT ![d] = g]
      BY <2>3, {"lateGet"} \in SUBSET GapNames, {} \in SUBSET GapNames DEF GapNames
    <3>2. QED BY <1>1, <3>1 DEF GapsTyped
  <2> HIDE DEF e
  <2>5. CachesSound'
    BY <1>1, <1>2, <2>1, <2>2, <2>4, OneSidebar
  <2>6. TrafficSound'
    BY <1>4, MarkedSound DEF ResolveGet, SidebarInv
  <2>7. QED BY <1>4, <2>5, <2>6, QuietServer, QuietTrash, QuietScreen DEF ResolveGet, SidebarInv
<1>5. CASE FailGet(d)
  <2> DEFINE e == [cache[d] EXCEPT !.error = TRUE, !.get = "none", !.got = <<>>, !.asOf = 0]
  <2>1. e \in EntryType /\ e.rows = cache[d].rows /\ e.got = <<>>
    BY <1>1, <1>2 DEF EntryType
  <2>2. cache' = [cache EXCEPT ![d] = e] /\ gaps' = gaps
    BY <1>5 DEF FailGet
  <2> HIDE DEF e
  <2>3. CachesSound'
    BY <1>1, <1>2, <2>1, <2>2, OneSidebar
  <2>4. spent' \in SpentType
    BY <1>1, <1>5, SpendTyped DEF FailGet, Fault
  <2>5. QED BY <1>5, <2>3, <2>4, CacheOnly DEF FailGet
<1>6. QED BY <1>3, <1>4, <1>5

(* "Try again".                                                              *)
LEMMA RefetchStep ==
  ASSUME SidebarInv, refetchLists PROVE SidebarInv'
<1>1. /\ CachesSound /\ CacheTyped(cache) /\ GapsTyped(gaps) /\ view.dash \in Dashboards
      /\ spent \in SpentType
  BY DEF SidebarInv, CachesSound, ScreenSound, ViewType
<1>2. cache' = Fetch(view.dash, cache) /\ UNCHANGED gaps
  BY DEF refetchLists
<1>3. CacheTyped(cache') /\ SameRows(cache, cache')
  BY <1>1, <1>2, FetchSound
<1>4. CachesSound'
  BY <1>1, <1>2, <1>3, SameRowsHome
<1>5. QED BY <1>1, <1>4, CacheOnly DEF refetchLists

-----------------------------------------------------------------------------
(* The trash view, and moving about.                                         *)

(* A new request for a trash.                                                *)
LEMMA LoadSound ==
  ASSUME TrashSound, NEW d \in Dashboards,
         loads' = Append(loads, [dash |-> d, rows |-> {}, status |-> "sent", asOf |-> 0]),
         tray' = [tray EXCEPT !.loading = TRUE] \/ tray' = [tray EXCEPT !.open = TRUE, !.loading = TRUE]
  PROVE  TrashSound'
<1>1. [dash |-> d, rows |-> {}, status |-> "sent", asOf |-> 0] \in LoadType
  BY DEF LoadType
<1>2. loads' \in Seq(LoadType)
  BY <1>1, AppendProperties DEF TrashSound
<1>3. /\ tray' \in [open : BOOLEAN, rows : SUBSET Ids, empty : BOOLEAN, loading : BOOLEAN]
      /\ tray'.empty => tray'.rows = {}
  BY DEF TrashSound
<1>4. QED BY <1>2, <1>3 DEF TrashSound

(* The answers: the rows are ids whatever the request was for.               *)
LEMMA TrashSteps ==
  ASSUME SidebarInv, NEW k \in 1..Len(loads), AnswerTrash(k) \/ ResolveTrash(k) \/ FailTrash(k)
  PROVE  SidebarInv'
<1>1. /\ loads \in Seq(LoadType) /\ loads[k] \in LoadType /\ Len(log) \in Nat
      /\ tray \in [open : BOOLEAN, rows : SUBSET Ids, empty : BOOLEAN, loading : BOOLEAN]
      /\ tray.empty => tray.rows = {}
  BY ElementOfSeq, LenProperties DEF SidebarInv, TrashSound, ServerSound
<1>2. CASE AnswerTrash(k)
  <2> DEFINE trash == ServerTrash(loads[k].dash)
             e == [loads[k] EXCEPT !.rows = trash, !.status = "answered", !.asOf = Len(log)]
  <2>1. trash \in SUBSET Ids
    BY DEF SidebarInv, ServerSound, ListsTyped, ServerTrash
  <2>2. loads' = [loads EXCEPT ![k] = e]
    BY <1>2 DEF AnswerTrash
  <2> HIDE DEF trash
  <2>3. e \in LoadType
    BY <1>1, <2>1 DEF LoadType
  <2> HIDE DEF e
  <2>4. loads' \in Seq(LoadType)
    BY <1>1, <2>2, <2>3, ExceptSeq
  <2>5. TrashSound'
    BY <1>1, <1>2, <2>4 DEF TrashSound, AnswerTrash
  <2>6. QED BY <1>2, <2>5, QuietServer, QuietCaches, QuietScreen, QuietTraffic
            DEF SidebarInv, AnswerTrash
<1>3. CASE ResolveTrash(k)
  <2>1. loads' \in Seq(LoadType)
    BY <1>1, <1>3, RemovedSound DEF ResolveTrash
  <2>2. /\ tray' \in [open : BOOLEAN, rows : SUBSET Ids, empty : BOOLEAN, loading : BOOLEAN]
        /\ tray'.empty = FALSE
    BY <1>1, <1>3 DEF ResolveTrash, LoadType
  <2>3. TrashSound'
    BY <2>1, <2>2 DEF TrashSound
  <2>4. QED BY <1>3, <2>3, QuietServer, QuietCaches, QuietScreen, QuietTraffic
            DEF SidebarInv, ResolveTrash
<1>4. CASE FailTrash(k)
  <2>1. loads' \in Seq(LoadType)
    BY <1>1, <1>4, RemovedSound DEF FailTrash
  <2>2. /\ tray' \in [open : BOOLEAN, rows : SUBSET Ids, empty : BOOLEAN, loading : BOOLEAN]
        /\ tray'.rows = {}
    BY <1>1, <1>4 DEF FailTrash
  <2>3. TrashSound'
    BY <2>1, <2>2 DEF TrashSound
  <2>4. ScreenSound'
    BY <1>4, SpendTyped DEF SidebarInv, ScreenSound, FailTrash, Fault
  <2>5. QED BY <1>4, <2>3, <2>4, QuietServer, QuietCaches, QuietTraffic DEF SidebarInv, FailTrash
<1>5. QED BY <1>2, <1>3, <1>4

(* The user moves to another dashboard or view.                              *)
LEMMA MoveSteps ==
  ASSUME SidebarInv,
         (\E d \in Dashboards : SelectDashboard(d)) \/ OpenTrash \/ OpenActive
  PROVE  SidebarInv'
<1>1. /\ view \in ViewType /\ busy \in [restoring : SomeId, purging : SomeId] /\ None \in SomeId
      /\ view.dash \in Dashboards /\ TrashSound
      /\ CachesSound /\ CacheTyped(cache) /\ GapsTyped(gaps) /\ ScreenSound
  BY DEF SidebarInv, ScreenSound, CachesSound, ViewType, SomeId
<1>2. spent' \in SpentType /\ UNCHANGED <<server, gaps, busy, calls, offers, inbox>>
  <2>1. Switching /\ UNCHANGED <<server, gaps, busy, calls, offers, inbox>>
    BY DEF SelectDashboard, OpenTrash, OpenActive
  <2>2. QED BY <1>1, <2>1, SpendTyped DEF Switching
<1>3. ServerSound' /\ TrafficSound'
  BY <1>2, QuietServer, QuietTraffic DEF SidebarInv
<1>4. ASSUME NEW d \in Dashboards, SelectDashboard(d) PROVE SidebarInv'
  <2>1. view' = [view EXCEPT !.dash = d, !.list = None, !.form = "closed", !.row = None, !.mode = "idle"]
    BY <1>4 DEF SelectDashboard
  <2>2. view' \in ViewType
    BY <1>1, <2>1 DEF ViewType
  <2>3. CacheTyped(cache') /\ SameRows(cache, cache')
    BY <1>1, <1>4, MountSound DEF SelectDashboard
  <2>4. CachesSound'
    BY <1>1, <1>2, <2>3, SameRowsHome
  <2>5. loadTrash(d) \/ UNCHANGED <<tray, loads>>
    BY <1>4 DEF SelectDashboard
  <2>6. TrashSound'
    BY <1>1, <2>5, LoadSound, QuietTrash DEF loadTrash
  <2>7. ScreenSound'
    BY <1>1, <1>2, <2>2 DEF ScreenSound
  <2>8. QED BY <1>3, <2>4, <2>6, <2>7 DEF SidebarInv
<1>5. CASE OpenTrash
  <2>1. view' \in ViewType
    BY <1>1, <1>5 DEF OpenTrash, ViewType
  <2>2. TrashSound'
    BY <1>1, <1>5, LoadSound DEF OpenTrash
  <2>3. ScreenSound'
    BY <1>1, <1>2, <2>1 DEF ScreenSound
  <2>4. QED BY <1>1, <1>3, <1>5, <2>2, <2>3, QuietCaches DEF SidebarInv, OpenTrash
<1>6. CASE OpenActive
  <2>1. TrashSound'
    BY <1>1, <1>6 DEF TrashSound, OpenActive
  <2>2. ScreenSound'
    BY <1>1, <1>2, <1>6 DEF ScreenSound, OpenActive
  <2>3. QED BY <1>1, <1>3, <1>6, <2>1, <2>2, QuietCaches DEF SidebarInv, OpenActive
<1>7. QED BY <1>4, <1>5, <1>6

-----------------------------------------------------------------------------
(* The requests.                                                             *)

(* A request as a handler makes it, before it says more of it.               *)
LEMMA CallTyped ==
  ASSUME SidebarInv, NEW kind \in Kinds, NEW i \in SomeId, NEW value \in Values
  PROVE  Call(kind, i, value) \in CallType
<1>1. /\ spent.calls + 1 \in Int /\ view.dash \in Dashboards /\ view.list \in SomeId
      /\ tray.empty \in BOOLEAN
  BY DEF SidebarInv, ScreenSound, TrashSound, ViewType, SpentType
<1>2. <<>> \in Seq(RowType) /\ {} \in SUBSET Nat /\ 0 \in Nat
  OBVIOUS
<1>3. QED BY <1>1, <1>2 DEF Call, CallType

(* A request for one list, or for a new one.                                 *)
LEMMA PlainCall ==
  ASSUME SidebarInv, NEW kind \in Kinds \ {"order"}, NEW i \in SomeId, NEW value \in Values,
         kind # "create" => i \in Ids, kind = "rename" => value = TRUE
  PROVE  CallSound(Call(kind, i, value))
<1> DEFINE m == Call(kind, i, value)
<1>1. m \in CallType
  BY CallTyped
<1>2. /\ m.origin = m.dash /\ m.kind = kind /\ m.id = i /\ m.value = value
      /\ m.status = "sent" /\ m.n = 0
  BY DEF Call
<1> HIDE DEF m
<1>3. CallSound(m)
  BY <1>1, <1>2 DEF CallSound
<1>4. QED BY <1>3 DEF m

(* Sending it.                                                               *)
LEMMA SentSound ==
  ASSUME TrafficSound, NEW m, CallSound(m), calls' = calls \cup {m}, UNCHANGED inbox,
         offers' \subseteq offers
  PROVE  TrafficSound'
<1>1. \A k \in calls' : CallSound(k)
  BY DEF TrafficSound
<1>2. QED BY <1>1 DEF TrafficSound

(* A handler that sends it and only changes the screen.                      *)
LEMMA SendOnly ==
  ASSUME SidebarInv, UNCHANGED <<server, cache, tray, loads, inbox, gaps>>, offers' \subseteq offers,
         view' \in ViewType, busy' \in [restoring : SomeId, purging : SomeId],
         NEW m, CallSound(m), Send(m)
  PROVE  SidebarInv'
<1>1. TrafficSound'
  BY SentSound DEF Send, SidebarInv
<1>2. ScreenSound'
  BY SpendTyped DEF Send, SidebarInv, ScreenSound
<1>3. QED BY <1>1, <1>2, QuietServer, QuietCaches, QuietTrash DEF SidebarInv

(* A row on screen is a list's.                                              *)
LEMMA ListedIsList ==
  ASSUME SidebarInv, NEW i, Listed(i)
  PROVE  i \in Ids
<1>1. cache[view.dash].rows \in Seq(RowType)
  BY DEF SidebarInv, CachesSound, CacheTyped, EntryType, ScreenSound, ViewType
<1>2. PICK k \in 1..Len(cache[view.dash].rows) : i = cache[view.dash].rows[k].id
  BY DEF Listed, Holds, Range, IdsOf
<1>3. cache[view.dash].rows[k] \in RowType
  BY <1>1, ElementOfSeq
<1>4. QED BY <1>2, <1>3 DEF RowType

(* The handlers that send a request about one list.                          *)
LEMMA SendSteps ==
  ASSUME SidebarInv,
         \/ handleCreate \/ handleRenameList \/ handleDeleteList \/ handlePurgeList
         \/ \E i \in Ids : handleRestoreList(i)
         \/ \E o \in offers : handleUndoDeleteList(o) \/ Dismissed(o)
  PROVE  SidebarInv'
<1>1. /\ view \in ViewType /\ busy \in [restoring : SomeId, purging : SomeId]
      /\ None \in SomeId /\ Ids \subseteq SomeId /\ None \in Values /\ TRUE \in Values
      /\ offers \subseteq OfferType /\ spent.calls + 1 \in Int /\ view.asking \in SomeId
  BY DEF SidebarInv, ScreenSound, TrafficSound, SomeId, Values, SpentType, ViewType
<1>2. CASE handleCreate
  <2>1. CallSound(Call("create", None, None)) /\ Send(Call("create", None, None))
    BY <1>1, <1>2, PlainCall DEF Kinds, handleCreate
  <2>2. view' = [view EXCEPT !.form = "sent", !.submitted = spent.calls + 1]
    BY <1>2 DEF handleCreate
  <2>3. view' \in ViewType
    BY <1>1, <2>2 DEF ViewType
  <2>4. QED BY <1>1, <1>2, <2>1, <2>3, SendOnly DEF handleCreate
<1>3. CASE handleRenameList
  <2>1. view.row \in Ids
    BY <1>3, ListedIsList DEF handleRenameList
  <2>2. CallSound(Call("rename", view.row, TRUE))
    BY <1>1, <2>1, PlainCall DEF Kinds
  <2>3. QED BY <1>1, <1>3, <2>2, SendOnly DEF handleRenameList
<1>4. CASE handleDeleteList
  <2>1. view.row \in Ids
    BY <1>4, ListedIsList DEF handleDeleteList
  <2>2. CallSound(Call("delete", view.row, None))
    BY <1>1, <2>1, PlainCall DEF Kinds
  <2>3. view' \in ViewType
    BY <1>1, <1>4 DEF handleDeleteList, ViewType
  <2>4. QED BY <1>1, <1>4, <2>2, <2>3, SendOnly DEF handleDeleteList
<1>5. CASE handlePurgeList
  <2>1. view.asking \in Ids
    BY <1>1, <1>5 DEF handlePurgeList, SomeId
  <2>2. CallSound(Call("purge", view.asking, None))
    BY <1>1, <2>1, PlainCall DEF Kinds
  <2>3. view' \in ViewType
    BY <1>1, <1>5 DEF handlePurgeList, ViewType
  <2>4. busy' \in [restoring : SomeId, purging : SomeId]
    BY <1>1, <1>5 DEF handlePurgeList
  <2>5. QED BY <1>1, <1>5, <2>2, <2>3, <2>4, SendOnly DEF handlePurgeList
<1>6. ASSUME NEW i \in Ids, handleRestoreList(i) PROVE SidebarInv'
  <2>1. CallSound(Call("restore", i, None))
    BY <1>1, <1>6, PlainCall DEF Kinds
  <2>2. busy' \in [restoring : SomeId, purging : SomeId]
    BY <1>1, <1>6 DEF handleRestoreList
  <2>3. QED BY <1>1, <1>6, <2>1, <2>2, SendOnly DEF handleRestoreList
<1>7. ASSUME NEW o \in offers, handleUndoDeleteList(o) PROVE SidebarInv'
  <2> DEFINE call == Call("undo", o.id, None)
             m == [call EXCEPT !.dash = UndoDash(o), !.origin = o.dash, !.empty = o.empty]
  <2>1. o \in OfferType
    BY <1>1, <1>7
  <2>2. o.id \in Ids /\ o.dash \in Dashboards /\ o.empty \in BOOLEAN /\ UndoDash(o) = o.dash
    BY <2>1 DEF OfferType, UndoDash
  <2>3. call \in CallType /\ call.kind = "undo" /\ call.id = o.id /\ call.status = "sent" /\ call.n = 0
    BY <1>1, <2>2, CallTyped DEF Kinds, Call
  <2>4. Send(m)
    BY <1>7 DEF handleUndoDeleteList
  <2> HIDE DEF call
  <2>5. m \in CallType /\ m.origin = m.dash /\ m.kind = "undo" /\ m.id = o.id /\ m.status = "sent"
       /\ m.n = 0
    BY <2>2, <2>3 DEF CallType
  <2> HIDE DEF m
  <2>6. CallSound(m)
    BY <2>2, <2>5 DEF CallSound
  <2>7. QED BY <1>1, <1>7, <2>4, <2>6, SendOnly DEF handleUndoDeleteList
<1>8. ASSUME NEW o \in offers, Dismissed(o) PROVE SidebarInv'
  <2>1. TrafficSound'
    BY <1>8 DEF Dismissed, SidebarInv, TrafficSound
  <2>2. QED BY <1>8, <2>1, QuietServer, QuietCaches, QuietTrash, QuietScreen
            DEF SidebarInv, Dismissed
<1>9. QED BY <1>2, <1>3, <1>4, <1>5, <1>6, <1>7, <1>8

-----------------------------------------------------------------------------
(* The drag.                                                                 *)

(* The first place of an element.                                            *)
LEMMA PlaceOf ==
  ASSUME NEW T, NEW s \in Seq(T), NEW i \in Range(s)
  PROVE  IndexOf(s, i) \in 1..Len(s) /\ s[IndexOf(s, i)] = i
<1> DEFINE places == {k \in 1..Len(s) : s[k] = i}
<1>1. places \in SUBSET (1..Len(s)) /\ places # {} /\ Len(s) \in Nat
  BY LenProperties DEF Range
<1>2. IndexOf(s, i) = Min(places)
  BY <1>1 DEF IndexOf
<1>3. Min(places) \in places
  <2> HIDE DEF places
  <2>1. QED BY <1>1, EndsOf
<1>4. QED BY <1>2, <1>3

(* The ids of rows.                                                          *)
LEMMA IdsTyped ==
  ASSUME NEW rows \in Seq(RowType)
  PROVE  IdsOf(rows) \in Seq(Ids) /\ Len(IdsOf(rows)) = Len(rows)
<1>1. Len(rows) \in Nat /\ \A k \in 1..Len(rows) : rows[k] \in RowType
  BY LenProperties, ElementOfSeq
<1>2. \A k \in 1..Len(rows) : rows[k].id \in Ids
  BY <1>1 DEF RowType
<1>3. QED BY <1>1, <1>2 DEF IdsOf

(* What a drag sends and shows: it only moves one id to the place of another. *)
LEMMA DragSound ==
  ASSUME SidebarInv, NEW a \in Ids, NEW b \in Ids, reorderLists(a, b)
  PROVE  \E order \in Seq(Ids), after \in Seq(RowType) :
           LET rows == cache[view.dash].rows
           IN /\ Len(order) = Len(rows) /\ Range(order) = Range(IdsOf(rows))
              /\ IsInjective(IdsOf(rows)) => IsInjective(order)
              /\ \A d : AtHome(rows, d) => AtHome(after, d)
              /\ Send([Call("order", None, order) EXCEPT
                         !.from = rows, !.to = after, !.seen = Seen,
                         !.stray = "stray" \in gaps[view.dash]])
              /\ cache' = [cache EXCEPT ![view.dash].rows = after]
<1> DEFINE rows == cache[view.dash].rows
           ids == IdsOf(rows)
           order == reorderIds(ids, a, b)
           after == IF SameIds(rows, order) THEN orderByIds(rows, order) ELSE rows
<1>1. rows \in Seq(RowType)
  BY DEF SidebarInv, CachesSound, CacheTyped, EntryType, ScreenSound, ViewType
<1>2. ids \in Seq(Ids) /\ Len(ids) = Len(rows)
  BY <1>1, IdsTyped
<1>3. IdsOf(Kept(rows, {k \in 1..Len(rows) : Filtered(rows[k].id)})) = ids
  <2>1. {k \in 1..Len(rows) : Filtered(rows[k].id)} = 1..Len(rows)
    BY DEF reorderLists, canReorderLists, Filtered
  <2>2. Kept(rows, 1..Len(rows)) = rows
    BY <1>1, KeptAll
  <2>3. QED BY <2>1, <2>2
<1>4. /\ Listed(a) /\ Listed(b)
      /\ Send([Call("order", None, order) EXCEPT
                 !.from = rows, !.to = after, !.seen = Seen,
                 !.stray = "stray" \in gaps[view.dash]])
      /\ cache' = [cache EXCEPT ![view.dash].rows = after]
  BY <1>3 DEF reorderLists
<1>5. a \in Range(ids) /\ b \in Range(ids)
  BY <1>4 DEF Listed, Holds
<1>6. /\ IndexOf(ids, a) \in 1..Len(ids) /\ ids[IndexOf(ids, a)] = a
      /\ IndexOf(ids, b) \in 1..Len(ids)
  <2> HIDE DEF ids
  <2>1. QED BY <1>2, <1>5, PlaceOf
<1> HIDE DEF ids
<1>7. /\ order \in Seq(Ids) /\ Len(order) = Len(ids) /\ Range(order) = Range(ids)
      /\ IsInjective(ids) => IsInjective(order)
  BY <1>2, <1>6, MovedSound DEF reorderIds
<1> HIDE DEF order
<1>8. after \in Seq(RowType) /\ \A d : AtHome(rows, d) => AtHome(after, d)
  BY <1>1, <1>7, OrderedSound
<1> HIDE DEF after, rows
<1>9. QED BY <1>2, <1>4, <1>7, <1>8 DEF rows, ids

(* The drag keeps the sidebar where it was, and its order is whole.          *)
LEMMA ReorderStep ==
  ASSUME SidebarInv, NEW a \in Ids, NEW b \in Ids, reorderLists(a, b)
  PROVE  SidebarInv'
<1> DEFINE d == view.dash
           rows == cache[d].rows
<1>1. /\ CachesSound /\ GapsTyped(gaps) /\ d \in Dashboards /\ cache[d] \in EntryType
      /\ rows \in Seq(RowType) /\ AtHome(cache[d].got, d) /\ ("stray" \in gaps[d] \/ AtHome(rows, d))
      /\ ScreenSound /\ Seen \in SUBSET Nat /\ None \in SomeId
  <2>1. Len(log) \in Nat
    BY LenProperties DEF SidebarInv, ServerSound
  <2>2. Seen \in SUBSET Nat
    BY <2>1 DEF Seen
  <2>3. QED BY <2>2 DEF SidebarInv, ScreenSound, CachesSound, CacheTyped, HomeAt, EntryType, ViewType,
                           SomeId
<1>2. PICK order \in Seq(Ids), after \in Seq(RowType) :
        /\ Len(order) = Len(rows) /\ Range(order) = Range(IdsOf(rows))
        /\ IsInjective(IdsOf(rows)) => IsInjective(order)
        /\ \A e : AtHome(rows, e) => AtHome(after, e)
        /\ Send([Call("order", None, order) EXCEPT
                   !.from = rows, !.to = after, !.seen = Seen,
                   !.stray = "stray" \in gaps[d]])
        /\ cache' = [cache EXCEPT ![d].rows = after]
  BY DragSound
<1> DEFINE call == Call("order", None, order)
           stray == "stray" \in gaps[d]
           m == [call EXCEPT !.from = rows, !.to = after, !.seen = Seen, !.stray = stray]
<1>3. call \in CallType /\ call.kind = "order" /\ call.value = order /\ call.status = "sent"
      /\ call.dash = d /\ call.origin = d /\ call.id = None /\ call.n = 0
  BY <1>1, CallTyped DEF Kinds, Values, Call
<1>4. Send(m)
  BY <1>2
<1> HIDE DEF call
<1>5. stray \in BOOLEAN /\ (stray \/ AtHome(rows, d))
  BY <1>1
<1> HIDE DEF stray, rows
<1>6. /\ m \in CallType /\ m.kind = "order" /\ m.value = order /\ m.status = "sent"
      /\ m.dash = d /\ m.origin = d /\ m.id = None /\ m.from = rows /\ m.stray = stray
      /\ m.n = 0
  BY <1>1, <1>2, <1>3, <1>5 DEF CallType
<1> HIDE DEF m
<1>7. CallSound(m)
  BY <1>2, <1>5, <1>6 DEF CallSound, Whole
<1>8. UNCHANGED <<server, tray, loads, view, busy, offers, inbox, gaps>>
  BY DEF reorderLists
<1>9. TrafficSound'
  BY <1>4, <1>7, <1>8, SentSound DEF Send, SidebarInv
<1>10. CachesSound'
  <2> DEFINE e == [cache[d] EXCEPT !.rows = after]
  <2>1. cache' = [cache EXCEPT ![d] = e]
    BY <1>2
  <2>2. e \in EntryType /\ e.rows = after /\ e.got = cache[d].got
    BY <1>1, <1>2 DEF EntryType
  <2> HIDE DEF e
  <2>3. "stray" \in gaps[d] \/ AtHome(after, d)
    BY <1>1, <1>2 DEF rows
  <2>4. GapsTyped(gaps') /\ gaps' = gaps
    BY <1>1, <1>8 DEF GapsTyped
  <2> HIDE DEF d
  <2>5. QED BY <1>1, <2>1, <2>2, <2>3, <2>4, OneSidebar
<1>11. ScreenSound'
  BY <1>1, <1>4, <1>8, SpendTyped DEF Send, ScreenSound
<1>12. QED BY <1>8, <1>9, <1>10, <1>11, QuietServer, QuietTrash DEF SidebarInv

-----------------------------------------------------------------------------
(* The server.                                                               *)

(* Some member is last.                                                      *)
LEMMA LastOf ==
  ASSUME NEW S, IsFiniteSet(S), S # {}, NEW before, StrictOrder(S, before)
  PROVE  \E x \in S : \A y \in S : y = x \/ y \in before[x]
<1>1. Cardinality(S) \in Nat /\ Cardinality(S) # 0
  BY FS_CardinalityType, FS_EmptySet
<1>2. PICK x \in S : Cardinality(before[x]) = Cardinality(S) - 1
  <2>1. Cardinality(S) \in 1..Cardinality(S)
    BY <1>1
  <2> DEFINE z == InOrder(S, before)[Cardinality(S)]
  <2>2. z \in S /\ Cardinality(before[z]) = Cardinality(S) - 1
    BY <2>1, Ranks
  <2>3. QED BY <2>2
<1>3. IsFiniteSet(S \ {x}) /\ Cardinality(S \ {x}) = Cardinality(S) - 1
  BY FS_RemoveElement
<1>4. before[x] \in SUBSET (S \ {x})
  BY DEF StrictOrder
<1>5. before[x] = S \ {x}
  BY <1>2, <1>3, <1>4, FS_Subset
<1>6. QED BY <1>5

(* The sort_order of a created list is one past the last.                    *)
LEMMA NextOrderTyped ==
  ASSUME ListsTyped, NEW d
  PROVE  NextOrder(d) \in Int
<1> DEFINE live == LiveIn(d)
           before == [i \in live |-> Before(d, i)]
           ords == {0} \cup {lists[i].ord : i \in live}
<1>1. \A i \in live : lists[i].ord \in Int
  BY DEF ListsTyped, ListType, LiveIn
<1>2. \E m \in ords : \A i \in live : lists[i].ord <= m
  <2>1. CASE live = {}
    BY <2>1
  <2>2. CASE live # {}
    <3>1. PICK x \in live : \A y \in live : y = x \/ y \in before[x]
      <4>1. IsFiniteSet(live) /\ StrictOrder(live, before)
        BY LiveOrdered
      <4> HIDE DEF live, before
      <4>2. QED BY <2>2, <4>1, LastOf
    <3>2. \A y \in live : lists[y].ord <= lists[x].ord
      BY <1>1, <3>1 DEF Before
    <3>3. QED BY <3>2
  <2>3. QED BY <2>1, <2>2
<1>3. ords \subseteq Int
  BY <1>1
<1>4. NextOrder(d) = LET top == CHOOSE m \in ords : \A i \in live : lists[i].ord <= m
                     IN IF top = 0 THEN 0 ELSE top + 1
  BY DEF NextOrder
<1> HIDE DEF live, ords
<1>5. (CHOOSE m \in ords : \A i \in live : lists[i].ord <= m) \in Int
  BY <1>2, <1>3
<1>6. QED BY <1>4, <1>5

(* The place an order gives to a list.                                       *)
LEMMA LastPlaceTyped ==
  ASSUME NEW T, NEW s \in Seq(T), NEW i
  PROVE  SelectLastInSeq(s, LAMBDA j : j = i) \in Int
<1> DEFINE places == {k \in 1..Len(s) : s[k] = i}
<1>1. places \in SUBSET (1..Len(s)) /\ Len(s) \in Nat
  BY LenProperties
<1>2. SelectLastInSeq(s, LAMBDA j : j = i) = IF places # {} THEN Max(places) ELSE 0
  BY DEF SelectLastInSeq
<1> HIDE DEF places
<1>3. places # {} => Max(places) \in places
  BY <1>1, EndsOf
<1>4. QED BY <1>1, <1>2, <1>3

(* A write that lands leaves lists, the one it was about among them.         *)
LEMMA WrittenSound ==
  ASSUME ListsTyped, NEW kind \in Kinds, NEW i, NEW d, NEW value,
         kind = "rename" => value = TRUE, kind = "order" => value \in Seq(Ids),
         kind # "order" => i \in Ids, kind \notin {"create", "order"} => i \in DOMAIN lists,
         lists' = Written(kind, i, d, value)
  PROVE  /\ ListsTyped'
         /\ kind # "order" => i \in Ids /\ RowIn(lists', i) \in RowType
<1>1. \A j \in DOMAIN lists : lists[j] \in ListType /\ j \in Ids
  BY DEF ListsTyped
<1>2. CASE kind = "create"
  <2> DEFINE new == [at |-> "live", renamed |-> FALSE, ord |-> NextOrder(d)]
  <2>1. new \in ListType
    BY NextOrderTyped DEF ListType
  <2>2. lists' = [j \in DOMAIN lists \cup {i} |-> IF j \in DOMAIN lists THEN lists[j] ELSE new]
    BY <1>2 DEF Written
  <2> HIDE DEF new
  <2>3. i \in Ids
    BY <1>2
  <2>4. ListsTyped' /\ i \in DOMAIN lists'
    BY <1>1, <2>1, <2>2, <2>3 DEF ListsTyped
  <2>5. lists'[i] \in ListType
    BY <2>4 DEF ListsTyped
  <2>6. QED BY <2>3, <2>4, <2>5 DEF RowIn, RowType, ListType
<1>3. CASE kind = "order"
  <2> DEFINE place(j) == SelectLastInSeq(value, LAMBDA k : k = j)
             row(j) == [lists[j] EXCEPT !.ord = place(j) - 1]
  <2>1. lists' = [j \in DOMAIN lists |-> IF j \in Range(value) THEN row(j) ELSE lists[j]]
    BY <1>3 DEF Written
  <2>2. \A j : place(j) \in Int
    BY <1>3, LastPlaceTyped
  <2> HIDE DEF place
  <2>3. \A j \in DOMAIN lists : row(j) \in ListType
    BY <1>1, <2>2 DEF ListType
  <2> HIDE DEF row
  <2>4. QED BY <1>1, <1>3, <2>1, <2>3 DEF ListsTyped
<1>4. CASE kind \notin {"create", "order"}
  <2>1. i \in DOMAIN lists /\ i \in Ids /\ lists[i] \in ListType
    BY <1>1, <1>4
  <2>2. PICK e \in ListType : lists' = [lists EXCEPT ![i] = e]
    <3>1. CASE kind = "rename"
      <4> DEFINE e == [lists[i] EXCEPT !.renamed = value]
      <4>1. lists' = [lists EXCEPT ![i] = e]
        BY <3>1 DEF Written
      <4>2. e \in ListType
        BY <2>1, <3>1 DEF ListType
      <4>3. QED BY <4>1, <4>2
    <3>2. CASE kind # "rename"
      <4> DEFINE e == [lists[i] EXCEPT !.at = At(kind)]
      <4>1. lists' = [lists EXCEPT ![i] = e]
        BY <1>4, <3>2 DEF Written
      <4>2. At(kind) \in {"live", "trash", "gone"}
        BY <1>4, <3>2 DEF At, Restores, Kinds
      <4>3. e \in ListType
        BY <2>1, <4>2 DEF ListType
      <4>4. QED BY <4>1, <4>3
    <3>3. QED BY <3>1, <3>2
  <2>3. ListsTyped' /\ i \in DOMAIN lists' /\ lists'[i] \in ListType
    BY <1>1, <2>1, <2>2 DEF ListsTyped
  <2>4. QED BY <2>1, <2>3 DEF RowIn, RowType, ListType
<1>5. QED BY <1>2, <1>3, <1>4

(* A request that the server has gone on with.                               *)
LEMMA GoneOn ==
  ASSUME TrafficSound, NEW m, NEW n, CallSound(n), calls' = (calls \ {m}) \cup {n},
         UNCHANGED <<offers, inbox>>
  PROVE  TrafficSound'
<1>1. \A k \in calls' : CallSound(k)
  BY DEF TrafficSound
<1>2. QED BY <1>1 DEF TrafficSound

(* What a transaction that lands does.                                       *)
LEMMA LandsSound ==
  ASSUME ServerSound, NEW t, t.kind \in Kinds, t.dash \in Dashboards, Reading(t), Lands(t),
         others' \subseteq others
  PROVE  /\ ServerSound' /\ Len(log)' = Len(log) + 1 /\ Len(log) \in Nat
         /\ t.kind # "order" => t.id \in Ids /\ RowIn(lists', t.id) \in RowType
<1> DEFINE kind == t.kind
           i == t.id
           d == t.dash
           value == t.value
<1>1. kind \in Kinds /\ d \in Dashboards
  OBVIOUS
<1>2. /\ lists' = Written(kind, i, d, value) /\ begun' = begun
      /\ log' = Append(log, [id |-> i, dash |-> HomeOf(t)])
      /\ kind \notin {"create", "order"} => i \in DOMAIN lists
  BY <1>1 DEF Lands
<1>3. /\ kind # "order" => i \in Ids
      /\ kind = "rename" => value = TRUE
      /\ kind = "order" => i = None /\ value \in Seq(Ids)
  BY <1>1 DEF Reading
<1>4. ListsTyped' /\ (kind # "order" => i \in Ids /\ RowIn(lists', i) \in RowType)
  BY <1>2, <1>3, WrittenSound DEF ServerSound
<1>5. [id |-> i, dash |-> HomeOf(t)] \in [id : SomeId, dash : Dashboards]
  <2>1. i \in SomeId
    BY <1>3 DEF SomeId
  <2>2. i \in Ids => Home[i] \in Dashboards
    BY ListsSidebarAssumption, ElementOfSeq DEF Ids
  <2>3. HomeOf(t) \in Dashboards
    BY <1>1, <2>1, <2>2 DEF HomeOf, SomeId
  <2>4. QED BY <2>1, <2>3
<1>6. /\ log' \in Seq([id : SomeId, dash : Dashboards]) /\ Len(log)' = Len(log) + 1
      /\ Len(log) \in Nat
  <2>1. log \in Seq([id : SomeId, dash : Dashboards])
    BY DEF ServerSound
  <2>2. QED BY <1>2, <1>5, <2>1, AppendProperties, LenProperties
<1>7. ServerSound'
  BY <1>2, <1>4, <1>6 DEF ServerSound
<1>8. QED BY <1>1, <1>4, <1>6, <1>7

(* A transaction begins, and has read.                                       *)
LEMMA LoadsSound ==
  ASSUME ServerSound, NEW t, t.kind \in Kinds, t.id \in SomeId, Loads(t),
         t.kind \notin {"create", "order"} => t.id \in Ids
  PROVE  /\ lists' = lists /\ log' = log /\ begun' \in 0..Len(Home)
         /\ t.kind = "create" => begun + 1 \in Ids /\ Home[begun + 1] = t.dash
<1>1. Len(Home) \in Nat /\ begun \in 0..Len(Home)
  BY ListsSidebarAssumption, LenProperties DEF ServerSound
<1>2. t.kind = "create" => begun < Len(Home) /\ Home[begun + 1] = t.dash
  BY DEF Loads
<1>3. begun' = IF t.kind = "create" THEN begun + 1 ELSE begun
  BY DEF Loads
<1>4. begun' \in 0..Len(Home) /\ (t.kind = "create" => begun + 1 \in Ids)
  BY <1>1, <1>2, <1>3 DEF Ids
<1>5. QED BY <1>2, <1>4 DEF Loads

(* The server begins with a request.                                         *)
LEMMA LoadStep ==
  ASSUME SidebarInv, NEW m \in calls, Load(m)
  PROVE  SidebarInv'
<1>1. /\ CallSound(m) /\ m \in CallType /\ ServerSound /\ m.status = "sent"
      /\ m.kind \in Kinds /\ m.id \in SomeId /\ Loads(m)
  BY DEF SidebarInv, TrafficSound, CallSound, CallType, Load
<1>2. PICK i : i = IF m.kind = "create" THEN begun + 1 ELSE m.id
  OBVIOUS
<1>3. /\ lists' = lists /\ log' = log /\ begun' \in 0..Len(Home)
      /\ m.kind = "create" => i \in Ids /\ Home[i] = m.dash
  <2>1. m.kind \notin {"create", "order"} => m.id \in Ids
    BY <1>1 DEF CallSound
  <2>2. QED BY <1>1, <1>2, <2>1, LoadsSound
<1> DEFINE n == [m EXCEPT !.status = "loaded", !.id = i]
<1>4. calls' = (calls \ {m}) \cup {n} /\ others' = others
  BY <1>2 DEF Load, Read
<1>5. i \in SomeId
  BY <1>1, <1>2, <1>3 DEF SomeId
<1>6. /\ n \in CallType /\ n.id = i /\ n.status = "loaded" /\ n.n = m.n
      /\ n.kind = m.kind /\ n.dash = m.dash /\ n.origin = m.origin /\ n.value = m.value
      /\ n.from = m.from /\ n.stray = m.stray
  BY <1>1, <1>5 DEF CallType
<1> HIDE DEF n
<1>7. CallSound(n)
  <2>1. Whole(m) => Whole(n) /\ n.value \in Seq(Ids)
    BY <1>6 DEF Whole
  <2>2. m.kind # "create" => i = m.id
    BY <1>2
  <2>3. Reading(n)
    BY <1>1, <1>3, <1>6, <2>1, <2>2 DEF CallSound, Reading
  <2>4. QED BY <1>1, <1>3, <1>6, <2>1, <2>2, <2>3 DEF CallSound
<1>8. UNCHANGED <<cache, tray, loads, view, busy, offers, inbox, gaps, spent>>
  BY DEF Load
<1>9. TrafficSound'
  BY <1>4, <1>7, <1>8, GoneOn DEF SidebarInv
<1>10. ServerSound'
  BY <1>1, <1>3, <1>4 DEF ServerSound, ListsTyped
<1>11. QED BY <1>8, <1>9, <1>10, QuietCaches, QuietTrash, QuietScreen DEF SidebarInv

(* It commits: the answer is the row of the list.                            *)
LEMMA CommitStep ==
  ASSUME SidebarInv, NEW m \in calls, Commit(m)
  PROVE  SidebarInv'
<1>1. /\ CallSound(m) /\ m \in CallType /\ ServerSound /\ Reading(m)
      /\ m.kind \in Kinds /\ m.dash \in Dashboards /\ Lands(m)
  BY DEF SidebarInv, TrafficSound, CallSound, CallType, Commit
<1>2. /\ UNCHANGED <<others, cache, tray, loads, view, busy, offers, inbox, gaps, spent>>
      /\ calls' = (calls \ {m}) \cup {[m EXCEPT !.n = Len(log) + 1, !.status = "done",
                    !.live = PurgesLive(m),
                    !.reply = IF m.kind = "order" THEN <<>> ELSE <<RowIn(lists', m.id)>>]}
  BY DEF Commit
<1>3. /\ ServerSound' /\ Len(log) + 1 \in Nat
      /\ m.kind # "order" => m.id \in Ids /\ RowIn(lists', m.id) \in RowType
  BY <1>1, <1>2, LandsSound
<1>4. PICK reply \in Seq(RowType) :
        /\ reply = IF m.kind = "order" THEN <<>> ELSE <<RowIn(lists', m.id)>>
        /\ m.kind # "order" => Len(reply) = 1 /\ reply[1].id = m.id
  <2>1. CASE m.kind = "order"
    <3>1. <<>> \in Seq(RowType)
      OBVIOUS
    <3>2. QED BY <2>1, <3>1
  <2>2. CASE m.kind # "order"
    <3>1. PICK x \in RowType : x = RowIn(lists', m.id)
      BY <1>3, <2>2
    <3>2. x.id = m.id
      BY <3>1 DEF RowIn
    <3>3. <<x>> \in Seq(RowType) /\ Len(<<x>>) = 1 /\ <<x>>[1] = x
      OBVIOUS
    <3>4. QED BY <2>2, <3>1, <3>2, <3>3
  <2>3. QED BY <2>1, <2>2
<1>5. PICK live \in BOOLEAN : live = PurgesLive(m)
  BY DEF PurgesLive
<1> DEFINE n == [m EXCEPT !.n = Len(log) + 1, !.status = "done", !.live = live, !.reply = reply]
<1>6. calls' = (calls \ {m}) \cup {n}
  BY <1>2, <1>4, <1>5
<1>7. /\ n \in CallType /\ n.id = m.id /\ n.status = "done" /\ n.reply = reply
      /\ n.kind = m.kind /\ n.dash = m.dash /\ n.origin = m.origin /\ n.value = m.value
      /\ n.from = m.from /\ n.stray = m.stray
  BY <1>1, <1>3, <1>4, <1>5 DEF CallType
<1> HIDE DEF n
<1>8. CallSound(n)
  <2>1. Whole(m) => Whole(n)
    BY <1>7 DEF Whole
  <2>2. m.kind # "order" => Answered(n)
    BY <1>1, <1>3, <1>4, <1>7 DEF Answered, Reading
  <2>3. QED BY <1>1, <1>7, <2>1, <2>2 DEF CallSound
<1>9. TrafficSound'
  BY <1>2, <1>6, <1>8, GoneOn DEF SidebarInv
<1>10. QED BY <1>2, <1>3, <1>9, QuietCaches, QuietTrash, QuietScreen DEF SidebarInv

(* It refuses one, has lost its list, or the request breaks on the way.      *)
LEMMA RefuseSteps ==
  ASSUME SidebarInv, NEW m \in calls, Refuse(m) \/ Lose(m) \/ Break(m)
  PROVE  SidebarInv'
<1>1. PICK status \in {"refused", "broken"} :
        calls' = (calls \ {m}) \cup {[m EXCEPT !.status = status]}
  BY DEF Refuse, Lose, Break
<1> DEFINE n == [m EXCEPT !.status = status]
<1>2. CallSound(m) /\ m \in CallType
  BY DEF SidebarInv, TrafficSound, CallSound
<1>3. /\ n \in CallType /\ n.status = status
      /\ n.kind = m.kind /\ n.id = m.id /\ n.dash = m.dash /\ n.origin = m.origin
      /\ n.value = m.value /\ n.from = m.from /\ n.stray = m.stray
  BY <1>1, <1>2 DEF CallType
<1>4. calls' = (calls \ {m}) \cup {n}
  BY <1>1
<1> HIDE DEF n
<1>5. CallSound(n)
  BY <1>2, <1>3 DEF CallSound, Whole
<1>6. TrafficSound'
  BY <1>4, <1>5, GoneOn DEF SidebarInv, Refuse, Lose, Break
<1>7. ScreenSound'
  BY QuietScreen, SpendTyped DEF SidebarInv, ScreenSound, Refuse, Lose, Break, Fault
<1>8. QED BY <1>6, <1>7, QuietServer, QuietCaches, QuietTrash DEF SidebarInv, Refuse, Lose, Break

(* The gap of something that happened.                                       *)
LEMMA GapGrows ==
  ASSUME GapsTyped(gaps), NEW d, NEW g \in GapNames, NEW happened \in BOOLEAN,
         gaps' = GapIn(d, g, happened)
  PROVE  GapsTyped(gaps') /\ \A e \in Dashboards : "stray" \in gaps[e] => "stray" \in gaps'[e]
<1>1. PICK more \in SUBSET GapNames : more = IF happened THEN {g} ELSE {}
  OBVIOUS
<1>2. gaps' = [gaps EXCEPT ![d] = gaps[d] \cup more]
  BY <1>1 DEF GapIn
<1>3. QED BY <1>2, GapsGrow

(* The sidebars show what they did, and a gap may have come.                 *)
LEMMA GapOnly ==
  ASSUME CachesSound, UNCHANGED cache, NEW d, NEW g \in GapNames, NEW happened \in BOOLEAN,
         gaps' = GapIn(d, g, happened)
  PROVE  CachesSound'
<1>1. CacheTyped(cache) /\ GapsTyped(gaps)
  BY DEF CachesSound
<1>2. CacheTyped(cache') /\ SameRows(cache, cache')
  BY <1>1 DEF CacheTyped, SameRows
<1>3. GapsTyped(gaps') /\ \A e \in Dashboards : "stray" \in gaps[e] => "stray" \in gaps'[e]
  BY <1>1, GapGrows
<1>4. QED BY <1>1, <1>2, <1>3, SameRowsHome

(* Somebody else's write begins.                                             *)
LEMMA ForeignStep ==
  ASSUME SidebarInv, NEW op, NEW kind \in Kinds, NEW i \in SomeId, NEW d \in Dashboards,
         NEW value \in Values, kind \notin {"create", "order"} => i \in Ids,
         kind = "rename" => value = TRUE,
         kind = "order" => value \in Seq(Ids) /\ i = None,
         Foreign(op, kind, i, d, value)
  PROVE  SidebarInv'
<1> DEFINE t == [c |-> spent.foreign + 1, kind |-> kind, id |-> i, dash |-> d, value |-> value,
                 status |-> "sent"]
<1>1. /\ Spend("foreign", MaxForeign) /\ Loads(t) /\ others' = others \cup {Read(t)}
      /\ UNCHANGED <<cache, tray, loads, view, busy, calls, offers, inbox, gaps>>
  BY DEF Foreign
<1>2. /\ t.kind = kind /\ t.id = i /\ t.dash = d /\ t.value = value
      /\ t.c = spent.foreign + 1
      /\ t = [c |-> t.c, kind |-> t.kind, id |-> t.id, dash |-> t.dash, value |-> t.value,
              status |-> "sent"]
  OBVIOUS
<1>3. ServerSound /\ ScreenSound /\ spent.foreign + 1 \in Int
  BY DEF SidebarInv, ScreenSound, SpentType
<1> HIDE DEF t
<1>4. /\ lists' = lists /\ log' = log /\ begun' \in 0..Len(Home)
      /\ kind = "create" => begun + 1 \in Ids /\ Home[begun + 1] = d
  BY <1>1, <1>2, <1>3, LoadsSound
<1>5. PICK j : j = IF kind = "create" THEN begun + 1 ELSE i
  OBVIOUS
<1>6. j \in SomeId
  BY <1>4, <1>5 DEF SomeId
<1>7. PICK x : x = Read(t)
  OBVIOUS
<1>8. x = [c |-> t.c, kind |-> kind, id |-> j, dash |-> d, value |-> value, status |-> "loaded"]
  <2>1. x = [t EXCEPT !.status = "loaded", !.id = j]
    BY <1>2, <1>5, <1>7 DEF Read
  <2>2. QED BY <1>2, <2>1
<1>9. x \in TransactionType /\ Reading(x)
  <2>1. x \in TransactionType
    BY <1>2, <1>3, <1>6, <1>8 DEF TransactionType
  <2>2. x.kind = kind /\ x.id = j /\ x.dash = d /\ x.value = value
    BY <1>8
  <2>3. kind # "order" => j \in Ids
    BY <1>4, <1>5
  <2>4. QED BY <1>4, <1>5, <2>1, <2>2, <2>3 DEF Reading
<1>10. ServerSound'
  BY <1>1, <1>3, <1>4, <1>7, <1>9 DEF ServerSound, ListsTyped
<1>11. ScreenSound'
  BY <1>1, <1>3, SpendTyped DEF ScreenSound
<1>12. QED BY <1>1, <1>10, <1>11, QuietCaches, QuietTrash, QuietTraffic DEF SidebarInv

(* Each of them, and the whole order turned round.                           *)
LEMMA TheirSteps ==
  ASSUME SidebarInv, NEW d \in Dashboards, Theirs(d)
  PROVE  SidebarInv'
<1>1. /\ None \in Values /\ TRUE \in Values /\ Seq(Ids) \subseteq Values
      /\ None \in SomeId /\ Ids \subseteq SomeId /\ DOMAIN lists \subseteq Ids
  BY DEF Values, SomeId, SidebarInv, ServerSound, ListsTyped
<1>2. CASE Foreign("added", "create", None, d, None)
  BY <1>1, <1>2, ForeignStep DEF Kinds
<1>3. ASSUME NEW i \in DOMAIN lists, NEW kind \in {"delete", "restore", "purge"},
             Foreign("moved", kind, i, d, None)
      PROVE  SidebarInv'
  BY <1>1, <1>3, ForeignStep DEF Kinds
<1>4. ASSUME NEW i \in DOMAIN lists, Foreign("renamed", "rename", i, d, TRUE) PROVE SidebarInv'
  BY <1>1, <1>4, ForeignStep DEF Kinds
<1>5. CASE Foreign("ordered", "order", None, d, Reverse(IdsOf(ServerRows(d))))
  <2>1. PICK ids : ids = Reverse(IdsOf(ServerRows(d)))
    OBVIOUS
  <2>2. IdsOf(ServerRows(d)) \in Seq(Ids)
    BY ServerRowsSound, IdsTyped DEF SidebarInv, ServerSound
  <2>3. ids \in Seq(Ids)
    <3> DEFINE s == IdsOf(ServerRows(d))
    <3>1. Len(s) \in Nat /\ \A k \in 1..Len(s) : s[k] \in Ids
      BY <2>2, LenProperties, ElementOfSeq
    <3>2. ids = [k \in 1..Len(s) |-> s[(Len(s) - k) + 1]]
      BY <2>1 DEF Reverse
    <3> HIDE DEF s
    <3>3. \A k \in 1..Len(s) : s[(Len(s) - k) + 1] \in Ids
      BY <3>1
    <3>4. QED BY <3>1, <3>2, <3>3
  <2>4. Foreign("ordered", "order", None, d, ids)
    BY <1>5, <2>1
  <2>5. QED BY <1>1, <2>3, <2>4, ForeignStep DEF Kinds
<1>6. QED BY <1>2, <1>3, <1>4, <1>5 DEF Theirs

(* Its end: it commits, and a frame tells of it, or its list is gone.        *)
LEMMA ForeignCommitStep ==
  ASSUME SidebarInv, NEW t \in others, ForeignCommit(t)
  PROVE  SidebarInv'
<1>1. /\ ServerSound /\ TrafficSound /\ t \in TransactionType /\ Reading(t) /\ Lands(t)
      /\ t.kind \in Kinds /\ t.dash \in Dashboards /\ t.id \in SomeId /\ t.value \in Values
  BY DEF SidebarInv, ServerSound, TransactionType, ForeignCommit
<1>2. /\ others' = others \ {t} /\ gaps' = GapIn(t.dash, "purged", PurgesLive(t))
      /\ UNCHANGED <<cache, tray, loads, view, busy, calls, offers, spent>>
  BY DEF ForeignCommit
<1>3. ServerSound' /\ Len(log) + 1 \in Nat
  BY <1>1, <1>2, LandsSound
<1>4. TrafficSound'
  <2> DEFINE f == [n |-> Len(log) + 1, kind |-> t.kind, id |-> t.id, dash |-> t.dash,
                   value |-> t.value]
  <2>1. f \in FrameType /\ f.kind = t.kind /\ f.value = t.value
    BY <1>1, <1>3 DEF FrameType
  <2>2. inbox' = inbox \/ inbox' = Append(inbox, f)
    BY DEF ForeignCommit
  <2> HIDE DEF f
  <2>3. inbox \in Seq(FrameType) /\ \A k \in 1..Len(inbox) : FrameSound(inbox[k])
    BY <1>1 DEF TrafficSound
  <2>4. inbox' \in Seq(FrameType) /\ \A k \in 1..Len(inbox') : FrameSound(inbox'[k])
    <3>1. CASE inbox' = inbox
      BY <2>3, <3>1
    <3>2. CASE inbox' = Append(inbox, f)
      <4>1. /\ inbox' \in Seq(FrameType) /\ Len(inbox') = Len(inbox) + 1
            /\ \A k \in 1..Len(inbox) : inbox'[k] = inbox[k]
            /\ inbox'[Len(inbox) + 1] = f
        BY <2>1, <2>3, <3>2, AppendProperties
      <4>2. FrameSound(f)
        BY <1>1, <2>1 DEF FrameSound, Reading
      <4>3. Len(inbox) \in Nat
        BY <2>3, LenProperties
      <4>4. \A k \in 1..Len(inbox') : FrameSound(inbox'[k])
        BY <2>3, <4>1, <4>2, <4>3
      <4>5. QED BY <4>1, <4>4
    <3>3. QED BY <2>2, <3>1, <3>2
  <2>5. QED BY <1>1, <1>2, <2>4 DEF TrafficSound
<1>5. CachesSound'
  <2>1. PICK happened \in BOOLEAN : happened = PurgesLive(t)
    BY DEF PurgesLive
  <2>2. gaps' = GapIn(t.dash, "purged", happened)
    BY <1>2, <2>1
  <2>3. QED BY <1>2, <2>2, GapOnly DEF SidebarInv, GapNames
<1>6. QED BY <1>2, <1>3, <1>4, <1>5, QuietTrash, QuietScreen DEF SidebarInv
(* Nothing is left of it.                                                    *)
LEMMA ForeignLoseStep ==
  ASSUME SidebarInv, NEW t \in others, ForeignLose(t)
  PROVE  SidebarInv'
<1>1. ServerSound'
  BY DEF SidebarInv, ServerSound, ListsTyped, ForeignLose
<1>2. QED BY <1>1, QuietCaches, QuietTrash, QuietScreen, QuietTraffic DEF SidebarInv, ForeignLose

-----------------------------------------------------------------------------
(* The answers.                                                              *)

(* A request answered leaves the others as they were.                        *)
LEMMA AnsweredTraffic ==
  ASSUME TrafficSound, calls' \subseteq calls, offers' \subseteq OfferType, UNCHANGED inbox
  PROVE  TrafficSound'
BY DEF TrafficSound

NewRows(d, x) == [cache EXCEPT ![d].rows = x]

(* New rows for one dashboard's cache.                                       *)
LEMMA OneTyped ==
  ASSUME CacheTyped(cache), NEW d \in Dashboards, NEW x \in Seq(RowType)
  PROVE  /\ CacheTyped(NewRows(d, x))
         /\ \A b \in Dashboards :
              /\ NewRows(d, x)[b].got = cache[b].got
              /\ NewRows(d, x)[b].rows = IF b = d THEN x ELSE cache[b].rows
<1> DEFINE e == [cache[d] EXCEPT !.rows = x]
<1>1. e \in EntryType /\ e.rows = x /\ e.got = cache[d].got
  BY DEF CacheTyped, EntryType
<1>2. NewRows(d, x) = [cache EXCEPT ![d] = e]
  BY DEF NewRows
<1> HIDE DEF e
<1>3. QED BY <1>1, <1>2 DEF CacheTyped

AllNewRows(rows) == [d \in Dashboards |-> [cache[d] EXCEPT !.rows = rows[d]]]

(* New rows for all of them.                                                 *)
LEMMA AllTyped ==
  ASSUME CacheTyped(cache), NEW rows \in [Dashboards -> Seq(RowType)]
  PROVE  /\ CacheTyped(AllNewRows(rows))
         /\ \A d \in Dashboards : /\ AllNewRows(rows)[d].got = cache[d].got
                                  /\ AllNewRows(rows)[d].rows = rows[d]
<1> DEFINE n == AllNewRows(rows)
<1>1. ASSUME NEW d \in Dashboards
      PROVE  n[d] \in EntryType /\ n[d].got = cache[d].got /\ n[d].rows = rows[d]
  <2> DEFINE e == [cache[d] EXCEPT !.rows = rows[d]]
  <2>1. e \in EntryType /\ e.got = cache[d].got /\ e.rows = rows[d]
    BY DEF CacheTyped, EntryType
  <2>2. n[d] = e
    BY DEF AllNewRows
  <2> HIDE DEF n, e
  <2>3. QED BY <2>1, <2>2
<1>2. n = [d \in Dashboards |-> n[d]]
  BY DEF AllNewRows
<1> HIDE DEF n
<1>3. CacheTyped(n)
  BY <1>1, <1>2 DEF CacheTyped
<1>4. QED BY <1>1, <1>3 DEF n

(* What an answer has to say about its list.                                 *)
LEMMA AnswerHas ==
  ASSUME SidebarInv, NEW m \in calls, m.status = "done", m.kind # "order"
  PROVE  /\ m.id \in Ids /\ m.reply \in Seq(RowType)
         /\ m.reply[1] \in RowType /\ m.reply[1].id = m.id
         /\ \A d : Home[m.id] = d => AtHome(m.reply, d)
<1>1. m \in CallType /\ Answered(m)
  BY DEF SidebarInv, TrafficSound, CallSound
<1>2. m.reply \in Seq(RowType) /\ Len(m.reply) = 1 /\ m.reply[1].id = m.id /\ m.id \in Ids
  BY <1>1 DEF CallType, Answered
<1>3. m.reply[1] \in RowType
  BY <1>2, ElementOfSeq
<1>4. \A k \in 1..Len(m.reply) : k = 1
  BY <1>2
<1>5. QED BY <1>2, <1>3, <1>4 DEF AtHome

(* A created list belongs where its form was open.                           *)
LEMMA CreatedStep ==
  ASSUME SidebarInv, NEW m \in calls, applyCreatedList(m)
  PROVE  SidebarInv'
<1> DEFINE d == m.dash
           rows == cache[d].rows \o m.reply
           e == [cache[d] EXCEPT !.has = TRUE, !.rows = rows]
<1>1. m.status = "done" /\ m.kind = "create" /\ calls' = calls \ {m}
  BY DEF applyCreatedList, Done
<1>2. /\ CachesSound /\ GapsTyped(gaps) /\ d \in Dashboards /\ cache[d] \in EntryType
      /\ m.reply \in Seq(RowType) /\ AtHome(m.reply, d) /\ m.id \in SomeId
      /\ AtHome(cache[d].got, d) /\ ("stray" \in gaps[d] \/ AtHome(cache[d].rows, d))
  <2>1. m \in CallType /\ Answered(m)
    BY <1>1 DEF SidebarInv, TrafficSound, CallSound
  <2>2. m.dash \in Dashboards /\ Home[m.id] = m.dash
    BY <1>1, <2>1 DEF CallType, Answered
  <2>3. m.reply \in Seq(RowType) /\ AtHome(m.reply, d) /\ m.id \in Ids
    BY <1>1, <2>2, AnswerHas
  <2>4. QED BY <2>2, <2>3 DEF SidebarInv, CachesSound, CacheTyped, HomeAt, SomeId
<1>3. rows \in Seq(RowType) /\ (AtHome(cache[d].rows, d) => AtHome(rows, d))
  BY <1>2, AddedSound DEF EntryType
<1>4. cache' = [cache EXCEPT ![d] = e]
  BY DEF applyCreatedList
<1> HIDE DEF rows
<1>5. e \in EntryType /\ e.rows = rows /\ e.got = cache[d].got
  BY <1>2, <1>3 DEF EntryType
<1> HIDE DEF e
<1>6. PICK more \in SUBSET GapNames : gaps' = [gaps EXCEPT ![d] = gaps[d] \cup more]
  <2> DEFINE gap(g, happened) == IF happened THEN {g} ELSE {}
             a == gap("doubled", Holds(cache[d].rows, m.id))
             b == gap("crossed", Overtaken(m.n))
             l == gap("last", BeforeShown(m))
             c == gap("partial", ~cache[d].has /\ cache[d].get = "none")
  <2>1. gaps' = [gaps EXCEPT ![d] = (((gaps[d] \cup a) \cup b) \cup l) \cup c]
    BY DEF applyCreatedList
  <2>2. /\ a \in SUBSET GapNames /\ b \in SUBSET GapNames
        /\ l \in SUBSET GapNames /\ c \in SUBSET GapNames
    BY DEF GapNames
  <2> HIDE DEF a, b, l, c
  <2>3. (((gaps[d] \cup a) \cup b) \cup l) \cup c = gaps[d] \cup (a \cup b \cup l \cup c)
    OBVIOUS
  <2>4. a \cup b \cup l \cup c \in SUBSET GapNames
    BY <2>2
  <2>5. QED BY <2>1, <2>3, <2>4
<1>7. /\ GapsTyped(gaps') /\ \A b \in Dashboards : "stray" \in gaps[b] => "stray" \in gaps'[b]
      /\ \A b \in Dashboards : b # d => gaps'[b] = gaps[b]
  BY <1>2, <1>6, GapsGrow DEF GapsTyped
<1> HIDE DEF d
<1>8. CachesSound'
  BY <1>2, <1>3, <1>4, <1>5, <1>7, OneSidebar
<1>9. ScreenSound'
  <2>1. view' = [view EXCEPT !.form = "closed", !.list = m.id]
    BY DEF applyCreatedList
  <2>2. view' \in ViewType
    BY <1>2, <2>1 DEF SidebarInv, ScreenSound, ViewType
  <2>3. QED BY <2>2 DEF SidebarInv, ScreenSound, applyCreatedList
<1>10. TrafficSound'
  BY <1>1, AnsweredTraffic DEF SidebarInv, TrafficSound, applyCreatedList
<1>11. QED BY <1>8, <1>9, <1>10, QuietServer, QuietTrash DEF SidebarInv, applyCreatedList

(* A rename reaches every cached row of the list.                            *)
LEMMA RenamedStep ==
  ASSUME SidebarInv, NEW m \in calls, updateListName(m)
  PROVE  SidebarInv'
<1>1. m.status = "done" /\ m.kind = "rename" /\ calls' = calls \ {m}
  BY DEF updateListName, Done
<1>2. /\ CachesSound /\ CacheTyped(cache) /\ GapsTyped(gaps)
      /\ m.reply[1] \in RowType /\ m.reply[1].id = m.id
  BY <1>1, AnswerHas DEF SidebarInv, CachesSound
<1>3. PICK rows : rows = [d \in Dashboards |-> Patched(cache[d].rows, m.id, m.reply[1])]
  OBVIOUS
<1>4. \A d \in Dashboards : /\ rows[d] \in Seq(RowType)
                            /\ AtHome(cache[d].rows, d) => AtHome(rows[d], d)
  BY <1>2, <1>3, PatchedSound DEF CacheTyped, EntryType
<1>5. cache' = AllNewRows(rows)
  BY <1>3 DEF updateListName, patchListSummaryById, AllNewRows
<1>6. /\ CacheTyped(cache')
      /\ \A d \in Dashboards : cache'[d].got = cache[d].got /\ cache'[d].rows = rows[d]
  <2>1. rows \in [Dashboards -> Seq(RowType)]
    BY <1>3, <1>4
  <2>2. QED BY <1>2, <1>5, <2>1, AllTyped
<1>7. GapsTyped(gaps') /\ \A e \in Dashboards : "stray" \in gaps[e] => "stray" \in gaps'[e]
  <2>1. gaps' = GapIn(Home[m.id], "crossed", Overtaken(m.n))
    BY DEF updateListName
  <2>2. Overtaken(m.n) \in BOOLEAN
    BY DEF Overtaken
  <2>3. QED BY <1>2, <2>1, <2>2, GapGrows DEF GapNames
<1>8. CachesSound'
  BY <1>2, <1>4, <1>6, <1>7, RowsHome
<1>9. ScreenSound'
  <2>1. view' = view \/ view' = [view EXCEPT !.row = None, !.mode = "idle"]
    BY DEF updateListName
  <2>2. view' \in ViewType
    BY <2>1 DEF SidebarInv, ScreenSound, ViewType, SomeId
  <2>3. QED BY <2>2 DEF SidebarInv, ScreenSound, updateListName
<1>10. TrafficSound'
  BY <1>1, AnsweredTraffic DEF SidebarInv, TrafficSound, updateListName
<1>11. QED BY <1>8, <1>9, <1>10, QuietServer, QuietTrash DEF SidebarInv, updateListName

(* A deleted list leaves every cache.                                        *)
LEMMA RemovedRows ==
  ASSUME CachesSound, NEW i, cache' = removeListFromCaches(i), GapsTyped(gaps'),
         \A d \in Dashboards : "stray" \in gaps[d] => "stray" \in gaps'[d]
  PROVE  CachesSound'
<1>1. PICK rows : rows = [d \in Dashboards |-> Drop(cache[d].rows, i)]
  OBVIOUS
<1>2. \A d \in Dashboards : /\ rows[d] \in Seq(RowType)
                            /\ AtHome(cache[d].rows, d) => AtHome(rows[d], d)
  BY <1>1, DropSound DEF CachesSound, CacheTyped, EntryType
<1>3. /\ CacheTyped(cache')
      /\ \A d \in Dashboards : cache'[d].got = cache[d].got /\ cache'[d].rows = rows[d]
  <2>1. rows \in [Dashboards -> Seq(RowType)]
    BY <1>1, <1>2
  <2>2. cache' = AllNewRows(rows)
    BY <1>1 DEF removeListFromCaches, AllNewRows
  <2>3. QED BY <2>1, <2>2, AllTyped DEF CachesSound
<1>4. QED BY <1>2, <1>3, RowsHome

(* deleteList, and the reload, the navigation and the offer after it.        *)
LEMMA DeletedStep ==
  ASSUME SidebarInv, NEW m \in calls, deleteList(m)
  PROVE  SidebarInv'
<1>1. m.status = "done" /\ m.kind = "delete" /\ calls' = calls \ {m} /\ m \in CallType
  BY DEF deleteList, Done, SidebarInv, TrafficSound, CallSound
<1>2. /\ CachesSound /\ GapsTyped(gaps) /\ TrashSound /\ m.id \in Ids
      /\ m.dash \in Dashboards /\ m.empty \in BOOLEAN
  BY <1>1, AnswerHas DEF SidebarInv, CachesSound, CallType
<1>3. GapsTyped(gaps') /\ \A e \in Dashboards : "stray" \in gaps[e] => "stray" \in gaps'[e]
  <2>1. gaps' = GapIn(Home[m.id], "crossed", Overtaken(m.n))
    BY DEF deleteList
  <2>2. Overtaken(m.n) \in BOOLEAN
    BY DEF Overtaken
  <2>3. QED BY <1>2, <2>1, <2>2, GapGrows DEF GapNames
<1>4. CachesSound'
  BY <1>2, <1>3, RemovedRows DEF deleteList
<1>5. TrashSound'
  <2>1. loadTrash(m.dash) \/ UNCHANGED <<tray, loads>>
    BY DEF deleteList
  <2>2. QED BY <1>2, <2>1, LoadSound, QuietTrash DEF loadTrash
<1>6. ScreenSound'
  <2>1. view' = view \/ view' = [view EXCEPT !.list = None]
    BY DEF deleteList
  <2>2. view' \in ViewType
    BY <2>1 DEF SidebarInv, ScreenSound, ViewType, SomeId
  <2>3. QED BY <2>2 DEF SidebarInv, ScreenSound, deleteList
<1>7. TrafficSound'
  <2>1. offers' = offers \cup {[id |-> m.id, dash |-> m.dash, empty |-> m.empty]}
    BY DEF deleteList
  <2>2. offers' \subseteq OfferType
    BY <1>2, <2>1 DEF SidebarInv, TrafficSound, OfferType
  <2>3. QED BY <1>1, <2>2, AnsweredTraffic DEF SidebarInv, deleteList
<1>8. QED BY <1>4, <1>5, <1>6, <1>7, QuietServer DEF SidebarInv, deleteList

(* A restored list goes where it came from, or the gap says that it did not. *)
LEMMA RestoredSound ==
  ASSUME SidebarInv, NEW m \in calls, m.status = "done", m.kind \in {"undo", "restore"},
         cache' = Restored(m), gaps' = RestoreGaps(m)
  PROVE  CachesSound'
<1> DEFINE d == m.dash
           was == cache[d].rows
           kept == Drop(was, m.id)
<1>1. m \in CallType /\ m.origin = m.dash
  BY DEF SidebarInv, TrafficSound, CallSound
<1>2. /\ CachesSound /\ CacheTyped(cache) /\ GapsTyped(gaps) /\ d \in Dashboards
      /\ was \in Seq(RowType) /\ m.reply \in Seq(RowType)
      /\ Home[m.id] = d => AtHome(m.reply, d)
  BY <1>1, AnswerHas DEF SidebarInv, CachesSound, CacheTyped, EntryType, CallType
<1>3. kept \in Seq(RowType) /\ \A e : AtHome(was, e) => AtHome(kept, e)
  BY <1>2, DropSound
<1>4. Restored(m) = [cache EXCEPT ![d].rows = IF cache[d].has THEN kept \o m.reply ELSE was]
  BY DEF Restored
<1> HIDE DEF kept, was
<1>5. /\ kept \o m.reply \in Seq(RowType)
      /\ AtHome(was, d) /\ Home[m.id] = d => AtHome(kept \o m.reply, d)
  BY <1>2, <1>3, AddedSound
<1>6. PICK x \in Seq(RowType) : /\ cache' = NewRows(d, x)
                                /\ AtHome(was, d) /\ Home[m.id] = d => AtHome(x, d)
  BY <1>2, <1>4, <1>5 DEF NewRows
<1>7. /\ CacheTyped(cache')
      /\ \A b \in Dashboards : /\ cache'[b].got = cache[b].got
                               /\ cache'[b].rows = IF b = d THEN x ELSE cache[b].rows
  <2> HIDE DEF d
  <2>1. QED BY <1>2, <1>6, OneTyped
<1>8. /\ GapsTyped(gaps') /\ \A b \in Dashboards : gaps[b] \subseteq gaps'[b]
      /\ Home[m.id] # d => "stray" \in gaps'[d]
  <2>1. gaps' = [b \in Dashboards |-> gaps[b]
           \cup (IF b = m.dash /\ Overtaken(m.n) THEN {"crossed"} ELSE {})
           \cup (IF Home[m.id] # m.origin /\ b \in {m.dash, Home[m.id]} THEN {"stray"} ELSE {})
           \cup (IF b = m.dash /\ BeforeShown(m) THEN {"last"} ELSE {})]
    BY DEF RestoreGaps
  <2>2. \A b \in Dashboards : gaps'[b] \subseteq gaps[b] \cup {"crossed", "stray", "last"}
    BY <2>1
  <2>3. GapsTyped(gaps')
    BY <1>2, <2>1, <2>2 DEF GapsTyped, GapNames
  <2>4. QED BY <1>1, <1>2, <2>1, <2>3
<1>9. ASSUME NEW b \in Dashboards
      PROVE  "stray" \notin gaps'[b] => (AtHome(cache[b].rows, b) => AtHome(cache'[b].rows, b))
  <2>1. CASE b = d
    BY <1>6, <1>7, <1>8, <2>1 DEF was
  <2>2. CASE b # d
    BY <1>7, <2>2
  <2>3. QED BY <2>1, <2>2
<1>10. QED BY <1>2, <1>7, <1>8, <1>9, RowsHome

(* Both ways of restoring.                                                   *)
LEMMA RestoredSteps ==
  ASSUME SidebarInv, NEW m \in calls, undoRestored(m) \/ restoreList(m)
  PROVE  SidebarInv'
<1>1. /\ m.status = "done" /\ m.kind \in {"undo", "restore"} /\ calls' = calls \ {m}
      /\ cache' = Restored(m) /\ gaps' = RestoreGaps(m)
      /\ UNCHANGED <<server, view, offers, inbox, spent>>
  BY DEF undoRestored, restoreList, Done
<1>2. m.dash \in Dashboards
  BY DEF SidebarInv, TrafficSound, CallSound, CallType
<1>3. CachesSound'
  BY <1>1, RestoredSound
<1>4. TrafficSound'
  BY <1>1, AnsweredTraffic DEF SidebarInv, TrafficSound
<1>5. TrashSound'
  <2>1. CASE undoRestored(m)
    <3>1. loadTrash(m.dash) \/ UNCHANGED <<tray, loads>>
      BY <2>1 DEF undoRestored
    <3>2. QED BY <1>2, <3>1, LoadSound, QuietTrash DEF loadTrash, SidebarInv
  <2>2. CASE restoreList(m)
    BY <2>2 DEF restoreList, LeftInTrash, SidebarInv, TrashSound
  <2>3. QED BY <2>1, <2>2
<1>6. ScreenSound'
  <2>1. busy' = busy \/ busy' = [busy EXCEPT !.restoring = None]
    BY DEF undoRestored, restoreList
  <2>2. QED BY <1>1, <2>1 DEF SidebarInv, ScreenSound, SomeId
<1>7. QED BY <1>1, <1>3, <1>4, <1>5, <1>6, QuietServer DEF SidebarInv

(* A purge, and an order that was taken.                                     *)
LEMMA PurgedStep ==
  ASSUME SidebarInv, NEW m \in calls, purged(m)
  PROVE  SidebarInv'
<1>1. TrashSound'
  BY DEF purged, LeftInTrash, SidebarInv, TrashSound
<1>2. ScreenSound'
  BY DEF purged, SidebarInv, ScreenSound, SomeId
<1>3. TrafficSound'
  BY AnsweredTraffic DEF SidebarInv, TrafficSound, purged, Done
<1>4. CachesSound'
  <2>1. m.live \in BOOLEAN
    BY DEF SidebarInv, TrafficSound, CallSound, CallType
  <2>2. UNCHANGED cache /\ gaps' = GapIn(Home[m.id], "purged", m.live)
    BY DEF purged
  <2>3. QED BY <2>1, <2>2, GapOnly DEF SidebarInv, GapNames
<1>5. QED BY <1>1, <1>2, <1>3, <1>4, QuietServer DEF SidebarInv, purged

(* The answer to an order changes no rows.                                   *)
LEMMA ReorderedStep ==
  ASSUME SidebarInv, NEW m \in calls, reordered(m)
  PROVE  SidebarInv'
<1>1. CachesSound /\ CacheTyped(cache) /\ GapsTyped(gaps)
  BY DEF SidebarInv, CachesSound
<1>2. PICK happened \in BOOLEAN : gaps' = GapIn(m.dash, "crossed", happened)
  <2> DEFINE h == IF IdsOf(cache[m.dash].rows) = m.value THEN Overtaken(m.n)
                  ELSE ~Overtaken(m.n) /\ \A c \in calls : c.kind = "order" => c.n \in 1..m.n
  <2>1. gaps' = GapIn(m.dash, "crossed", h)
    BY DEF reordered
  <2>2. h \in BOOLEAN
    BY DEF Overtaken
  <2> HIDE DEF h
  <2>3. QED BY <2>1, <2>2
<1>3. GapsTyped(gaps') /\ \A e \in Dashboards : "stray" \in gaps[e] => "stray" \in gaps'[e]
  BY <1>1, <1>2, GapGrows DEF GapNames
<1>4. cache' = cache
  BY DEF reordered
<1>5. CacheTyped(cache') /\ SameRows(cache, cache')
  BY <1>1, <1>4 DEF CacheTyped, SameRows
<1>6. CachesSound'
  BY <1>1, <1>3, <1>5, SameRowsHome
<1>7. TrafficSound'
  BY AnsweredTraffic DEF SidebarInv, TrafficSound, reordered, Done
<1>8. QED BY <1>6, <1>7, QuietServer, QuietTrash, QuietScreen DEF SidebarInv, reordered

(* A failure puts back what an order was drawn on, and the gap it had.       *)
LEMMA FailedCaches ==
  ASSUME SidebarInv, NEW m \in calls, Fail(m)
  PROVE  CachesSound'
<1> DEFINE d == m.dash
           x == IF m.kind = "order" THEN m.from ELSE cache[d].rows
           back == NewRows(d, x)
<1>1. m \in CallType /\ (m.kind = "order" => m.stray \/ AtHome(m.from, d))
  BY DEF SidebarInv, TrafficSound, CallSound, Whole
<1>2. /\ CachesSound /\ CacheTyped(cache) /\ GapsTyped(gaps) /\ d \in Dashboards
      /\ x \in Seq(RowType)
  BY <1>1 DEF SidebarInv, CachesSound, CacheTyped, EntryType, CallType
<1>3. cache' = Invalidate(d, back) \/ cache' = back
  BY DEF Fail, NewRows
<1> HIDE DEF d, x
<1>4. /\ CacheTyped(back)
      /\ \A b \in Dashboards : /\ back[b].got = cache[b].got
                               /\ back[b].rows = IF b = d THEN x ELSE cache[b].rows
  BY <1>2, OneTyped
<1> HIDE DEF back
<1>5. CacheTyped(cache') /\ SameRows(back, cache')
  <2>1. CASE cache' = Invalidate(d, back)
    BY <1>2, <1>4, <2>1, InvalidateSound
  <2>2. CASE cache' = back
    BY <1>4, <2>2 DEF SameRows, CacheTyped
  <2>3. QED BY <1>3, <2>1, <2>2
<1>6. /\ GapsTyped(gaps') /\ \A b \in Dashboards : gaps[b] \subseteq gaps'[b]
      /\ m.kind = "order" /\ m.stray => "stray" \in gaps'[d]
  <2>1. gaps' = [b \in Dashboards |-> gaps[b]
           \cup (IF m.n # 0 /\ b \in {m.dash, HomeOf(m)} THEN {"unanswered"} ELSE {})
           \cup (IF b = m.dash /\ m.kind = "order" /\ (m.over \/ Seen # m.seen \/ cache[m.dash].rows # m.to)
                 THEN {"rolledback"} ELSE {})
           \cup (IF b = m.dash /\ m.kind = "order" /\ m.stray THEN {"stray"} ELSE {})]
    BY DEF Fail
  <2>2. \A b \in Dashboards : gaps'[b] \subseteq gaps[b] \cup {"unanswered", "rolledback", "stray"}
    BY <2>1
  <2>3. GapsTyped(gaps')
    BY <1>2, <2>1, <2>2 DEF GapsTyped, GapNames
  <2>4. QED BY <1>2, <2>1, <2>3 DEF d
<1>7. ASSUME NEW b \in Dashboards
      PROVE  /\ cache'[b].got = cache[b].got
             /\ "stray" \notin gaps'[b] =>
                  (AtHome(cache[b].rows, b) => AtHome(cache'[b].rows, b))
  <2>1. cache'[b].got = cache[b].got /\ cache'[b].rows = IF b = d THEN x ELSE cache[b].rows
    BY <1>4, <1>5 DEF SameRows
  <2>2. CASE b = d /\ m.kind = "order"
    <3>1. cache'[b].rows = m.from /\ ("stray" \notin gaps'[b] => AtHome(m.from, b))
      BY <1>1, <1>6, <2>1, <2>2 DEF x
    <3>2. QED BY <2>1, <3>1
  <2>3. CASE ~(b = d /\ m.kind = "order")
    <3>1. cache'[b].rows = cache[b].rows
      BY <2>1, <2>3 DEF x
    <3>2. QED BY <2>1, <3>1
  <2>4. QED BY <2>2, <2>3
<1>8. QED BY <1>2, <1>5, <1>6, <1>7, RowsHome

(* The rest of a failure.                                                    *)
LEMMA FailStep ==
  ASSUME SidebarInv, NEW m \in calls, Fail(m)
  PROVE  SidebarInv'
<1>1. CachesSound'
  BY FailedCaches
<1>2. ScreenSound'
  <2>1. view' = view \/ view' = [view EXCEPT !.form = "open"]
    BY DEF Fail
  <2>2. view' \in ViewType
    BY <2>1 DEF SidebarInv, ScreenSound, ViewType
  <2>3. busy' \in [restoring : SomeId, purging : SomeId]
    BY DEF Fail, SidebarInv, ScreenSound, SomeId
  <2>4. QED BY <2>2, <2>3 DEF SidebarInv, ScreenSound, Fail
<1>3. TrafficSound'
  BY AnsweredTraffic DEF SidebarInv, TrafficSound, Fail
<1>4. QED BY <1>1, <1>2, <1>3, QuietServer, QuietTrash DEF SidebarInv, Fail

(* A frame takes rows away, puts them in another order, or marks them.       *)
LEMMA FrameStep ==
  ASSUME SidebarInv, handleListResourceEvent
  PROVE  SidebarInv'
<1>1. /\ inbox \in Seq(FrameType) /\ inbox # <<>> /\ inbox' = Tail(inbox)
      /\ \A k \in 1..Len(inbox) : FrameSound(inbox[k])
  BY DEF handleListResourceEvent, SidebarInv, TrafficSound
<1>2. /\ Len(inbox) \in Nat /\ Len(inbox) # 0
      /\ Tail(inbox) \in Seq(FrameType) /\ Len(Tail(inbox)) = Len(inbox) - 1
      /\ \A k \in 1..Len(Tail(inbox)) : Tail(inbox)[k] = inbox[k + 1]
  BY <1>1, LenProperties, EmptySeq, HeadTailProperties
<1>3. PICK f : f = Head(inbox)
  OBVIOUS
<1>4. f \in FrameType /\ FrameSound(f) /\ f.dash \in Dashboards
  <2>1. f = inbox[1] /\ 1 \in 1..Len(inbox)
    BY <1>1, <1>2, <1>3, HeadTailProperties
  <2>2. f \in FrameType
    BY <1>1, <2>1, ElementOfSeq
  <2>3. QED BY <1>1, <2>1, <2>2 DEF FrameType
<1>5. /\ CachesSound /\ CacheTyped(cache) /\ GapsTyped(gaps)
      /\ cache[f.dash] \in EntryType /\ cache[f.dash].rows \in Seq(RowType)
  BY <1>4 DEF SidebarInv, CachesSound, CacheTyped, EntryType
<1>6. GapsTyped(gaps') /\ \A e \in Dashboards : "stray" \in gaps[e] => "stray" \in gaps'[e]
  <2>1. gaps' = GapIn(f.dash, "crossed", Overtaken(f.n) /\ cache'[f.dash].rows # cache[f.dash].rows)
    BY <1>3 DEF handleListResourceEvent
  <2>2. PICK h \in BOOLEAN : h = (Overtaken(f.n) /\ cache'[f.dash].rows # cache[f.dash].rows)
    BY DEF Overtaken
  <2>3. gaps' = GapIn(f.dash, "crossed", h)
    BY <2>1, <2>2
  <2>4. QED BY <1>5, <2>3, GapGrows DEF GapNames
<1>7. CachesSound'
  <2> DEFINE rows == orderByIds(cache[f.dash].rows, f.value)
  <2>1. \/ cache' = removeListFromCaches(f.id)
        \/ /\ f.kind = "order" /\ SameIds(cache[f.dash].rows, f.value)
           /\ cache' = NewRows(f.dash, rows)
        \/ cache' = Invalidate(f.dash, cache)
    BY <1>3 DEF handleListResourceEvent, NewRows
  <2>2. CASE cache' = removeListFromCaches(f.id)
    BY <1>5, <1>6, <2>2, RemovedRows
  <2>3. CASE /\ f.kind = "order" /\ SameIds(cache[f.dash].rows, f.value)
             /\ cache' = NewRows(f.dash, rows)
    <3>1. f.value \in Seq(Ids)
      BY <1>4, <2>3 DEF FrameSound
    <3>2. rows \in Seq(RowType) /\ \A d : AtHome(cache[f.dash].rows, d) => AtHome(rows, d)
      BY <1>5, <2>3, <3>1, OrderedSound
    <3> HIDE DEF rows
    <3>3. /\ CacheTyped(cache')
          /\ \A b \in Dashboards :
               /\ cache'[b].got = cache[b].got
               /\ cache'[b].rows = IF b = f.dash THEN rows ELSE cache[b].rows
      BY <1>4, <1>5, <2>3, <3>2, OneTyped
    <3>4. \A b \in Dashboards : AtHome(cache[b].rows, b) => AtHome(cache'[b].rows, b)
      BY <3>2, <3>3
    <3>5. QED BY <1>5, <1>6, <3>3, <3>4, RowsHome
  <2>4. CASE cache' = Invalidate(f.dash, cache)
    <3>1. CacheTyped(cache') /\ SameRows(cache, cache')
      BY <1>4, <1>5, <2>4, InvalidateSound
    <3>2. QED BY <1>5, <1>6, <3>1, SameRowsHome
  <2>5. QED BY <2>1, <2>2, <2>3, <2>4
<1>8. UNCHANGED <<server, tray, loads, view, busy, calls, offers, spent>>
  BY DEF handleListResourceEvent
<1>9. TrafficSound'
  <2>1. \A k \in 1..Len(inbox') : FrameSound(inbox'[k])
    <3>1. \A k \in 1..Len(Tail(inbox)) : k + 1 \in 1..Len(inbox)
      BY <1>2
    <3>2. QED BY <1>1, <1>2, <3>1
  <2>2. QED BY <1>1, <1>2, <1>8, <2>1 DEF SidebarInv, TrafficSound
<1>10. QED BY <1>7, <1>8, <1>9, QuietServer, QuietTrash, QuietScreen DEF SidebarInv

-----------------------------------------------------------------------------
(* The invariant holds at the start and is kept.                             *)

(* It all starts empty, but for the lists on the server.                     *)
LEMMA SidebarStarts ==
  ASSUME Init PROVE SidebarInv
<1>1. ServerSound
  <2> DEFINE ord(i) == Cardinality({j \in 1..(i - 1) : Home[j] = Home[i]})
  <2>1. Len(Home) \in Nat /\ Exist0 \in 0..Len(Home)
    BY ListsSidebarAssumption, LenProperties
  <2>2. ASSUME NEW i \in 1..Exist0 PROVE ord(i) \in Int
    <3>1. 1 \in Int /\ i - 1 \in Int
      BY <2>1
    <3>2. IsFiniteSet(1..(i - 1))
      BY <3>1, FS_Interval
    <3>3. IsFiniteSet({j \in 1..(i - 1) : Home[j] = Home[i]})
      BY <3>2, FS_Subset
    <3>4. QED BY <3>3, FS_CardinalityType
  <2>3. lists = [i \in 1..Exist0 |->
                   [at |-> IF i \in Trashed0 THEN "trash" ELSE "live", renamed |-> FALSE,
                    ord |-> ord(i)]]
    BY DEF Init
  <2> HIDE DEF ord
  <2>4. ListsTyped
    BY <2>1, <2>2, <2>3 DEF ListsTyped, ListType, Ids
  <2>5. log \in Seq([id : SomeId, dash : Dashboards])
    BY DEF Init
  <2>6. begun \in 0..Len(Home) /\ others = {}
    BY <2>1 DEF Init
  <2>7. QED BY <2>4, <2>5, <2>6 DEF ServerSound
<1>2. PICK d \in Dashboards :
        /\ view = [dash |-> d, filter |-> "all", list |-> None, form |-> "closed",
                   submitted |-> 0, row |-> None, mode |-> "idle", asking |-> None]
        /\ cache = [e \in Dashboards |->
                      IF e = d THEN [NewEntry EXCEPT !.known = TRUE, !.get = "sent"] ELSE NewEntry]
  BY DEF Init
<1>3. CachesSound
  <2> DEFINE new == [NewEntry EXCEPT !.known = TRUE, !.get = "sent"]
  <2>1. <<>> \in Seq(RowType) /\ \A e : AtHome(<<>>, e)
    BY DEF AtHome
  <2>2. NewEntry \in EntryType /\ NewEntry.rows = <<>> /\ NewEntry.got = <<>>
    BY <2>1 DEF NewEntry, EntryType
  <2>3. new \in EntryType /\ new.rows = <<>> /\ new.got = <<>>
    BY <2>2 DEF EntryType
  <2> HIDE DEF new
  <2>4. cache = [e \in Dashboards |-> IF e = d THEN new ELSE NewEntry]
    BY <1>2 DEF new
  <2>5. CacheTyped(cache) /\ \A e \in Dashboards : cache[e].rows = <<>> /\ cache[e].got = <<>>
    BY <2>2, <2>3, <2>4 DEF CacheTyped
  <2>6. GapsTyped(gaps)
    BY DEF Init, GapsTyped
  <2>7. QED BY <2>1, <2>5, <2>6 DEF CachesSound, HomeAt
<1>4. TrashSound
  BY DEF Init, TrashSound
<1>5. ScreenSound
  <2>1. view \in ViewType
    BY <1>2 DEF ViewType, SomeId
  <2>2. QED BY <2>1 DEF Init, ScreenSound, SpentType, SomeId
<1>6. TrafficSound
  BY DEF Init, TrafficSound
<1>7. QED BY <1>1, <1>3, <1>4, <1>5, <1>6 DEF SidebarInv

(* Every step keeps it so.                                                   *)
LEMMA SidebarStays ==
  ASSUME SidebarInv, [Next]_vars PROVE SidebarInv'
<1>1. CASE \E d \in Dashboards : AnswerGet(d) \/ ResolveGet(d) \/ FailGet(d)
  BY <1>1, GetSteps
<1>2. CASE \E d \in Dashboards : Theirs(d)
  BY <1>2, TheirSteps
<1>3. CASE (\E d \in Dashboards : SelectDashboard(d)) \/ OpenTrash \/ OpenActive
  BY <1>3, MoveSteps
<1>4. CASE refetchLists
  BY <1>4, RefetchStep
<1>5. CASE \E k \in 1..Len(loads) : AnswerTrash(k) \/ ResolveTrash(k) \/ FailTrash(k)
  BY <1>5, TrashSteps
<1>6. CASE \/ \E f \in {"all"} \cup Range(Kind) : FilterTypes(f)
           \/ \E i \in Ids : \/ onSelect(i) \/ AskPurge(i)
                             \/ OpenControl(i, "rename") \/ OpenControl(i, "delete")
           \/ ToggleCreate \/ CloseCreate \/ CloseControl \/ CancelPurge
  BY <1>6, ViewSteps
<1>7. CASE \/ handleCreate \/ handleRenameList \/ handleDeleteList \/ handlePurgeList
           \/ \E i \in Ids : handleRestoreList(i)
           \/ \E o \in offers : handleUndoDeleteList(o) \/ Dismissed(o)
  BY <1>7, SendSteps
<1>8. CASE \E a, b \in Ids : reorderLists(a, b)
  BY <1>8, ReorderStep
<1>9. CASE \E m \in calls : Load(m) \/ Commit(m) \/ Lose(m) \/ Refuse(m) \/ Break(m) \/ Fail(m)
  BY <1>9, LoadStep, CommitStep, RefuseSteps, FailStep
<1>10. CASE \E m \in calls : \/ applyCreatedList(m) \/ updateListName(m) \/ deleteList(m)
                             \/ undoRestored(m) \/ restoreList(m) \/ purged(m) \/ reordered(m)
  BY <1>10, CreatedStep, RenamedStep, DeletedStep, RestoredSteps, PurgedStep, ReorderedStep
<1>11. CASE handleListResourceEvent
  BY <1>11, FrameStep
<1>12. CASE \E t \in others : ForeignCommit(t) \/ ForeignLose(t)
  BY <1>12, ForeignCommitStep, ForeignLoseStep
<1>13. CASE UNCHANGED vars
  BY <1>13, QuietServer, QuietCaches, QuietTrash, QuietScreen, QuietTraffic DEF SidebarInv, vars, server
<1>14. QED BY <1>1, <1>2, <1>3, <1>4, <1>5, <1>6, <1>7, <1>8, <1>9, <1>10, <1>11, <1>12, <1>13 DEF Next

(* What it promises of the program.                                          *)
LEMMA SidebarEnough ==
  ASSUME SidebarInv PROVE SidebarSound
<1>1. TypeOK
  BY DEF TypeOK, SidebarInv, ServerSound, ListsTyped, CachesSound, CacheTyped, EntryType, TrashSound,
         ScreenSound, ViewType, SomeId
<1>2. ASSUME NEW d \in Dashboards, "stray" \notin gaps[d], NEW x \in Range(cache[d].rows)
      PROVE  Home[x.id] = d
  <2>1. cache[d].rows \in Seq(RowType) /\ AtHome(cache[d].rows, d)
    BY <1>2 DEF SidebarInv, CachesSound, CacheTyped, EntryType, HomeAt
  <2>2. PICK k \in 1..Len(cache[d].rows) : x = cache[d].rows[k]
    BY <1>2, <2>1, LenProperties DEF Range
  <2>3. QED BY <2>1, <2>2 DEF AtHome
<1>3. OrdersAreWhole
  BY DEF OrdersAreWhole, SidebarInv, TrafficSound, CallSound, Whole
<1>4. QED BY <1>1, <1>2, <1>3 DEF SidebarSound, ListsStayHome

-----------------------------------------------------------------------------
(* The trash view.                                                           *)

(* What becomes of a list that the trash view shows and the server has not   *)
(* in the trash, or the other way round: a request that moved it is still to *)
(* be answered.  A load has missed a write, or that request's.               *)
Moving == Restores \cup {"delete", "purge"}
Moves(c, i) == c.n # 0 /\ c.id = i /\ c.kind \in Moving
Apart(S, T) == (S \ T) \cup (T \ S)
TrashOf == [d \in Dashboards |-> ServerTrash(d)]

(* Where the lists are, and what has been written of them.                   *)
store == <<lists, log>>
CallsKnown == \A c \in calls : /\ c.n <= Len(log)
                               /\ c.status = "done" /\ c.kind = "purge" =>
                                    c.id \in DOMAIN lists /\ lists[c.id].at = "gone"
LoadTrue(e, trash, last, cs) ==
  e.status = "answered" =>
    /\ e.asOf <= last
    /\ \A i \in Apart(e.rows, trash[e.dash]) :
         \E n \in (e.asOf + 1)..last : \A c \in cs : c.n = n => Moves(c, i)
LoadsTrue == \A k \in 1..Len(loads) : LoadTrue(loads[k], TrashOf, Len(log), calls)
TrayTrue ==
  tray.open /\ loads = <<>> /\ trayGaps = {} =>
    /\ ~tray.empty
    /\ \A i \in Apart(tray.rows, ServerTrash(view.dash)) : \E c \in calls : Moves(c, i)
TrashInv == CallsKnown /\ LoadsTrue /\ TrayTrue

(* Two states of a request that ask and did the same.                        *)
Alike(c, b) == b.n = c.n /\ b.id = c.id /\ b.kind = c.kind

(* Fewer claims on the log, in a longer one.                                 *)
LEMMA LoadKept ==
  ASSUME NEW e \in LoadType, NEW trash, NEW last \in Nat, NEW more \in Nat, last <= more,
         NEW cs, NEW bs, LoadTrue(e, trash, last, cs),
         \A b \in bs : (\E c \in cs : Alike(c, b)) \/ b.n = 0 \/ b.n > last
  PROVE  LoadTrue(e, trash, more, bs)
<1>1. ASSUME NEW i \in Apart(e.rows, trash[e.dash]), e.status = "answered"
      PROVE  \E n \in (e.asOf + 1)..more : \A b \in bs : b.n = n => Moves(b, i)
  <2>1. PICK n \in (e.asOf + 1)..last : \A c \in cs : c.n = n => Moves(c, i)
    BY <1>1 DEF LoadTrue
  <2>2. e.asOf \in Nat
    BY DEF LoadType
  <2>3. n \in (e.asOf + 1)..more /\ n # 0 /\ n <= last /\ n \in Nat
    BY <2>2
  <2>4. ASSUME NEW b \in bs, b.n = n PROVE Moves(b, i)
    <3>1. PICK c \in cs : Alike(c, b)
      BY <2>3, <2>4
    <3>2. QED BY <2>1, <2>4, <3>1 DEF Alike, Moves
  <2>5. QED BY <2>3, <2>4
<1>2. e.status = "answered" => e.asOf <= more
  BY DEF LoadTrue, LoadType
<1>3. QED BY <1>1, <1>2 DEF LoadTrue

(* Steps that leave the server alone, and whose requests are those of before *)
(* or new ones.                                                              *)
LEMMA CallsGoOn ==
  ASSUME SidebarInv, TrashInv, UNCHANGED store,
         \A b \in calls' : \/ \E c \in calls : Alike(c, b) /\ (b.status = "done" => c.status = "done")
                           \/ b.n = 0 /\ b.status # "done"
  PROVE  /\ CallsKnown' /\ TrashOf' = TrashOf /\ Len(log)' = Len(log)
         /\ \A e \in LoadType : LoadTrue(e, TrashOf, Len(log), calls)
                                  => LoadTrue(e, TrashOf, Len(log), calls')
<1>1. lists' = lists /\ log' = log /\ Len(log) \in Nat
  BY LenProperties DEF store, SidebarInv, ServerSound
<1>2. TrashOf' = TrashOf /\ Len(log)' = Len(log)
  BY <1>1 DEF TrashOf, ServerTrash
<1>3. CallsKnown'
  <2>1. ASSUME NEW b \in calls'
        PROVE  /\ b.n <= Len(log)
               /\ b.status = "done" /\ b.kind = "purge" =>
                    b.id \in DOMAIN lists /\ lists[b.id].at = "gone"
    <3>1. CASE \E c \in calls : Alike(c, b) /\ (b.status = "done" => c.status = "done")
      BY <3>1 DEF Alike, TrashInv, CallsKnown
    <3>2. CASE b.n = 0 /\ b.status # "done"
      BY <1>1, <3>2
    <3>3. QED BY <2>1, <3>1, <3>2
  <2>2. QED BY <1>1, <2>1 DEF CallsKnown
<1>4. \A b \in calls' : (\E c \in calls : Alike(c, b)) \/ b.n = 0 \/ b.n > Len(log)
  OBVIOUS
<1>5. ASSUME NEW e \in LoadType, LoadTrue(e, TrashOf, Len(log), calls)
      PROVE  LoadTrue(e, TrashOf, Len(log), calls')
  <2> DEFINE trash == TrashOf
             last == Len(log)
  <2>1. last \in Nat /\ last <= last /\ LoadTrue(e, trash, last, calls)
    BY <1>1, <1>5
  <2>2. \A b \in calls' : (\E c \in calls : Alike(c, b)) \/ b.n = 0 \/ b.n > last
    BY <1>4
  <2>3. PICK bs : bs = calls'
    OBVIOUS
  <2> HIDE DEF trash, last
  <2>4. LoadTrue(e, trash, last, bs)
    BY <2>1, <2>2, <2>3, LoadKept
  <2>5. QED BY <2>3, <2>4 DEF trash, last
<1>6. QED BY <1>2, <1>3, <1>5

(* Loads of before, and new ones not yet answered.                           *)
LEMMA LoadsGoOn ==
  ASSUME SidebarInv, TrashInv, UNCHANGED store,
         \A b \in calls' : \/ \E c \in calls : Alike(c, b) /\ (b.status = "done" => c.status = "done")
                           \/ b.n = 0 /\ b.status # "done",
         loads' = loads \/ \E d \in Dashboards :
           loads' = Append(loads, [dash |-> d, rows |-> {}, status |-> "sent", asOf |-> 0])
  PROVE  CallsKnown' /\ LoadsTrue'
<1>1. /\ CallsKnown' /\ TrashOf' = TrashOf /\ Len(log)' = Len(log)
      /\ \A e \in LoadType : LoadTrue(e, TrashOf, Len(log), calls)
                               => LoadTrue(e, TrashOf, Len(log), calls')
  BY CallsGoOn
<1>2. loads \in Seq(LoadType) /\ Len(loads) \in Nat /\ \A k \in 1..Len(loads) : loads[k] \in LoadType
  BY LenProperties, ElementOfSeq DEF SidebarInv, TrashSound
<1>3. \A k \in 1..Len(loads) : LoadTrue(loads[k], TrashOf, Len(log), calls')
  BY <1>1, <1>2 DEF TrashInv, LoadsTrue
<1>4. \A k \in 1..Len(loads') : LoadTrue(loads'[k], TrashOf, Len(log), calls')
  <2>1. CASE loads' = loads
    BY <1>3, <2>1
  <2>2. ASSUME NEW d \in Dashboards,
               loads' = Append(loads, [dash |-> d, rows |-> {}, status |-> "sent", asOf |-> 0])
        PROVE  \A k \in 1..Len(loads') : LoadTrue(loads'[k], TrashOf, Len(log), calls')
    <3> DEFINE e == [dash |-> d, rows |-> {}, status |-> "sent", asOf |-> 0]
    <3>1. /\ Len(loads') = Len(loads) + 1 /\ loads'[Len(loads) + 1] = e
          /\ \A k \in 1..Len(loads) : loads'[k] = loads[k]
      BY <1>2, <2>2
    <3>2. LoadTrue(e, TrashOf, Len(log), calls')
      BY DEF LoadTrue
    <3> HIDE DEF e
    <3>3. \A k \in 1..Len(loads') : k \in 1..Len(loads) \/ k = Len(loads) + 1
      BY <1>2, <3>1
    <3>4. QED BY <1>3, <3>1, <3>2, <3>3
  <2>3. QED BY <2>1, <2>2
<1>5. LoadsTrue'
  BY <1>1, <1>4 DEF LoadsTrue
<1>6. QED BY <1>1, <1>5

(* The trash view as it was, and nothing answered that it waits for.         *)
LEMMA TrayGoesOn ==
  ASSUME TrashInv, UNCHANGED <<store, loads>>, trayGaps \subseteq trayGaps',
         \/ ~tray'.open
         \/ /\ tray'.open = tray.open /\ tray'.rows = tray.rows /\ tray'.empty = tray.empty
            /\ view'.dash = view.dash,
         \A c \in calls : \/ c.n = 0 \/ c.kind \notin Moving
                          \/ tray.empty \/ trayGaps' # {}
                          \/ \E b \in calls' : Alike(c, b)
  PROVE  TrayTrue'
<1>1. SUFFICES ASSUME tray'.open, loads' = <<>>, trayGaps' = {}
               PROVE  /\ ~tray'.empty
                      /\ \A i \in Apart(tray'.rows, ServerTrash(view.dash)') :
                           \E b \in calls' : Moves(b, i)
  BY DEF TrayTrue
<1>2. /\ tray.open /\ loads = <<>> /\ trayGaps = {}
      /\ tray'.rows = tray.rows /\ tray'.empty = tray.empty /\ view'.dash = view.dash
  BY <1>1
<1>3. lists' = lists
  BY DEF store
<1>4. ServerTrash(view.dash)' = ServerTrash(view.dash)
  BY <1>2, <1>3 DEF ServerTrash
<1>5. ASSUME NEW i \in Apart(tray.rows, ServerTrash(view.dash)) PROVE \E b \in calls' : Moves(b, i)
  <2>1. PICK c \in calls : Moves(c, i)
    BY <1>2, <1>5 DEF TrashInv, TrayTrue
  <2>2. PICK b \in calls' : Alike(c, b)
    BY <1>1, <1>2, <2>1 DEF Moves, TrashInv, TrayTrue
  <2>3. QED BY <2>1, <2>2 DEF Alike, Moves
<1>6. QED BY <1>2, <1>4, <1>5 DEF TrashInv, TrayTrue

(* All of it together.                                                       *)
LEMMA TrashGoesOn ==
  ASSUME SidebarInv, TrashInv, UNCHANGED <<store, loads>>, trayGaps \subseteq trayGaps',
         \/ ~tray'.open
         \/ /\ tray'.open = tray.open /\ tray'.rows = tray.rows /\ tray'.empty = tray.empty
            /\ view'.dash = view.dash,
         \A b \in calls' : \/ \E c \in calls : Alike(c, b) /\ (b.status = "done" => c.status = "done")
                           \/ b.n = 0 /\ b.status # "done",
         \A c \in calls : \/ c.n = 0 \/ c.kind \notin Moving
                          \/ tray.empty \/ trayGaps' # {}
                          \/ \E b \in calls' : Alike(c, b)
  PROVE  TrashInv'
BY LoadsGoOn, TrayGoesOn DEF TrashInv

(* A load under way decides what will be shown, so nothing is claimed now.   *)
LEMMA LoadStarts ==
  ASSUME SidebarInv, TrashInv, UNCHANGED store, NEW d \in Dashboards,
         loads' = Append(loads, [dash |-> d, rows |-> {}, status |-> "sent", asOf |-> 0]),
         calls' \subseteq calls
  PROVE  TrashInv'
<1>1. CallsKnown' /\ LoadsTrue'
  BY LoadsGoOn DEF Alike
<1>2. loads' # <<>>
  BY LenProperties, AppendProperties DEF SidebarInv, TrashSound
<1>3. TrayTrue'
  BY <1>2 DEF TrayTrue
<1>4. QED BY <1>1, <1>3 DEF TrashInv

(* What a write does to where the lists are.                                 *)
LEMMA WrittenMoves ==
  ASSUME ListsTyped, NEW kind \in Kinds, NEW i, NEW d, NEW value,
         kind \notin {"create", "order"} => i \in DOMAIN lists,
         kind \in Restores \cup {"delete"} => lists[i].at # "gone",
         lists' = Written(kind, i, d, value)
  PROVE  /\ DOMAIN lists \subseteq DOMAIN lists'
         /\ \A j \in DOMAIN lists : \/ lists'[j].at = lists[j].at
                                    \/ j = i /\ kind \in Moving /\ lists[j].at # "gone"
         /\ \A j \in DOMAIN lists' : j \in DOMAIN lists \/ lists'[j].at = "live"
         /\ kind = "purge" => i \in DOMAIN lists /\ lists'[i].at = "gone"
<1>1. \A j \in DOMAIN lists : lists[j] \in ListType
  BY DEF ListsTyped
<1>2. CASE kind = "create"
  <2> DEFINE new == [at |-> "live", renamed |-> FALSE, ord |-> NextOrder(d)]
  <2>1. lists' = [j \in DOMAIN lists \cup {i} |-> IF j \in DOMAIN lists THEN lists[j] ELSE new]
    BY <1>2 DEF Written
  <2>2. new.at = "live"
    OBVIOUS
  <2> HIDE DEF new
  <2>3. QED BY <1>2, <2>1, <2>2
<1>3. CASE kind = "order"
  <2> DEFINE row(j) == [lists[j] EXCEPT !.ord = SelectLastInSeq(value, LAMBDA n : n = j) - 1]
  <2>1. lists' = [j \in DOMAIN lists |-> IF j \in Range(value) THEN row(j) ELSE lists[j]]
    BY <1>3 DEF Written
  <2>2. \A j \in DOMAIN lists : row(j).at = lists[j].at
    BY <1>1 DEF ListType
  <2> HIDE DEF row
  <2>3. DOMAIN lists' = DOMAIN lists /\ \A j \in DOMAIN lists : lists'[j].at = lists[j].at
    BY <2>1, <2>2
  <2>4. QED BY <1>3, <2>3
<1>4. CASE kind = "rename"
  <2>1. lists' = [lists EXCEPT ![i] = [lists[i] EXCEPT !.renamed = value]] /\ i \in DOMAIN lists
    BY <1>4 DEF Written
  <2>2. [lists[i] EXCEPT !.renamed = value].at = lists[i].at
    BY <1>1, <2>1 DEF ListType
  <2>3. DOMAIN lists' = DOMAIN lists /\ \A j \in DOMAIN lists : lists'[j].at = lists[j].at
    BY <2>1, <2>2
  <2>4. QED BY <1>4, <2>3
<1>5. CASE kind \in Moving
  <2>1. kind \notin {"create", "order", "rename"}
    BY <1>5 DEF Moving, Restores
  <2>2. /\ lists' = [lists EXCEPT ![i] = [lists[i] EXCEPT !.at = At(kind)]]
        /\ i \in DOMAIN lists
    BY <2>1 DEF Written
  <2>3. \/ lists[i].at # "gone"
        \/ kind = "purge" /\ lists[i].at = "gone"
    BY <1>5 DEF Moving
  <2>4. kind = "purge" => At(kind) = "gone"
    BY DEF At, Restores
  <2>5. [lists[i] EXCEPT !.at = At(kind)].at = At(kind)
    BY <1>1, <2>2 DEF ListType
  <2>6. /\ DOMAIN lists' = DOMAIN lists /\ lists'[i].at = At(kind)
        /\ \A j \in DOMAIN lists : j # i => lists'[j].at = lists[j].at
    BY <2>2, <2>5
  <2>7. QED BY <1>5, <2>2, <2>3, <2>4, <2>6
<1>6. QED BY <1>2, <1>3, <1>4, <1>5 DEF Kinds, Moving, Restores

(* A write puts one list into a trash or takes it out, if it moves any.      *)
LEMMA TrashMoved ==
  ASSUME NEW i, NEW moves \in BOOLEAN, DOMAIN lists \subseteq DOMAIN lists',
         \A j \in DOMAIN lists : lists'[j].at = lists[j].at \/ (j = i /\ moves),
         \A j \in DOMAIN lists' : j \in DOMAIN lists \/ lists'[j].at = "live"
  PROVE  \A d \in Dashboards : \A j : j \in Apart(ServerTrash(d), ServerTrash(d)') => j = i /\ moves
<1>1. ASSUME NEW d \in Dashboards, NEW j, j \in Apart(ServerTrash(d), ServerTrash(d)')
      PROVE  j = i /\ moves
  <2>1. CASE j \in DOMAIN lists
    BY <1>1, <2>1 DEF Apart, ServerTrash
  <2>2. CASE j \notin DOMAIN lists
    <3>1. j \in DOMAIN lists' /\ lists'[j].at = "trash"
      BY <1>1, <2>2 DEF Apart, ServerTrash
    <3>2. QED BY <2>2, <3>1
  <2>3. QED BY <2>1, <2>2
<1>2. QED BY <1>1

(* What a load says after one more write, by nobody or by a request.         *)
LEMMA LoadMoved ==
  ASSUME NEW e \in LoadType, NEW old, NEW new, NEW last \in Nat, NEW cs, NEW bs,
         LoadTrue(e, old, last, cs),
         \A b \in bs : (\E c \in cs : Alike(c, b)) \/ b.n = 0 \/ b.n > last,
         \A i \in Apart(old[e.dash], new[e.dash]) : \A b \in bs : b.n = last + 1 => Moves(b, i)
  PROVE  LoadTrue(e, new, last + 1, bs)
<1>1. SUFFICES ASSUME e.status = "answered" PROVE LoadTrue(e, new, last + 1, bs)
  BY DEF LoadTrue
<1>2. last + 1 \in Nat /\ last <= last + 1 /\ e.asOf \in Nat /\ e.asOf <= last
  BY <1>1 DEF LoadTrue, LoadType
<1>3. LoadTrue(e, old, last + 1, bs)
  <2>1. PICK more \in Nat : more = last + 1
    BY <1>2
  <2>2. last <= more
    BY <2>1
  <2>3. LoadTrue(e, old, more, bs)
    BY <2>2, LoadKept
  <2>4. QED BY <2>1, <2>3
<1>4. ASSUME NEW i \in Apart(e.rows, new[e.dash])
      PROVE  \E n \in (e.asOf + 1)..(last + 1) : \A b \in bs : b.n = n => Moves(b, i)
  <2>1. CASE i \in Apart(e.rows, old[e.dash])
    BY <1>1, <1>3, <2>1 DEF LoadTrue
  <2>2. CASE i \in Apart(old[e.dash], new[e.dash])
    <3>1. last + 1 \in (e.asOf + 1)..(last + 1)
      BY <1>2
    <3>2. QED BY <2>2, <3>1
  <2>3. QED BY <1>4, <2>1, <2>2 DEF Apart
<1>5. QED BY <1>2, <1>4 DEF LoadTrue

(* The loads under a write.                                                  *)
LEMMA LoadsMoved ==
  ASSUME SidebarInv, TrashInv, UNCHANGED loads, Len(log)' = Len(log) + 1,
         \A b \in calls' : (\E c \in calls : Alike(c, b)) \/ b.n = 0 \/ b.n > Len(log),
         \A d \in Dashboards : \A i \in Apart(ServerTrash(d), ServerTrash(d)') :
           \A b \in calls' : b.n = Len(log) + 1 => Moves(b, i)
  PROVE  LoadsTrue'
<1>1. /\ Len(log) \in Nat /\ Len(loads) \in Nat
      /\ \A k \in 1..Len(loads) : loads[k] \in LoadType
  BY LenProperties, ElementOfSeq DEF SidebarInv, ServerSound, TrashSound
<1>2. PICK last \in Nat : last = Len(log)
  BY <1>1
<1>3. PICK old, new, bs : old = TrashOf /\ new = TrashOf' /\ bs = calls'
  OBVIOUS
<1>4. \A b \in bs : (\E c \in calls : Alike(c, b)) \/ b.n = 0 \/ b.n > last
  BY <1>2, <1>3
<1>5. \A d \in Dashboards : \A i \in Apart(old[d], new[d]) :
        \A b \in bs : b.n = last + 1 => Moves(b, i)
  <2>1. \A d \in Dashboards : old[d] = ServerTrash(d) /\ new[d] = ServerTrash(d)'
    BY <1>3 DEF TrashOf
  <2>2. QED BY <1>2, <1>3, <2>1
<1>6. ASSUME NEW k \in 1..Len(loads) PROVE LoadTrue(loads[k], new, last + 1, bs)
  <2>1. PICK e \in LoadType : e = loads[k]
    BY <1>1
  <2>2. LoadTrue(e, old, last, calls) /\ e.dash \in Dashboards
    BY <1>2, <1>3, <2>1 DEF TrashInv, LoadsTrue, LoadType
  <2>3. \A i \in Apart(old[e.dash], new[e.dash]) : \A b \in bs : b.n = last + 1 => Moves(b, i)
    BY <1>5, <2>2
  <2>4. LoadTrue(e, new, last + 1, bs)
    BY <1>4, <2>2, <2>3, LoadMoved
  <2>5. QED BY <2>1, <2>4
<1>7. loads' = loads /\ Len(log)' = last + 1
  BY <1>2
<1>8. QED BY <1>3, <1>6, <1>7 DEF LoadsTrue

(* A request granted.                                                        *)
LEMMA CommitTrash ==
  ASSUME SidebarInv, TrashInv, NEW m \in calls, Commit(m)
  PROVE  TrashInv'
<1> DEFINE i == m.id
           reply == IF m.kind = "order" THEN <<>> ELSE <<RowIn(lists', m.id)>>
           n == [m EXCEPT !.n = Len(log) + 1, !.status = "done", !.live = PurgesLive(m), !.reply = reply]
<1>1. /\ m \in CallType /\ m.n = 0 /\ ListsTyped
      /\ log \in Seq([id : SomeId, dash : Dashboards]) /\ Len(log) \in Nat
  BY LenProperties DEF SidebarInv, TrafficSound, CallSound, ServerSound, Commit
<1>2. /\ lists' = Written(m.kind, i, m.dash, m.value)
      /\ m.kind \notin {"create", "order"} => i \in DOMAIN lists
      /\ m.kind \in Restores \cup {"delete"} => lists[i].at # "gone"
      /\ log' = Append(log, [id |-> i, dash |-> HomeOf(m)])
      /\ calls' = (calls \ {m}) \cup {n}
      /\ UNCHANGED <<tray, loads, view, trayGaps>>
  BY DEF Commit, Lands, Stale, Restores
<1>3. /\ n.id = i /\ n.n = Len(log) + 1 /\ n.kind = m.kind /\ n.status = "done" /\ m.kind \in Kinds
  BY <1>1 DEF CallType
<1> HIDE DEF n
<1>4. /\ DOMAIN lists \subseteq DOMAIN lists'
      /\ \A j \in DOMAIN lists : \/ lists'[j].at = lists[j].at
                                 \/ j = i /\ m.kind \in Moving /\ lists[j].at # "gone"
      /\ \A j \in DOMAIN lists' : j \in DOMAIN lists \/ lists'[j].at = "live"
      /\ m.kind = "purge" => i \in DOMAIN lists /\ lists'[i].at = "gone"
  BY <1>1, <1>2, <1>3, WrittenMoves
<1>5. Len(log)' = Len(log) + 1
  BY <1>2
<1>6. \A d \in Dashboards : \A j \in Apart(ServerTrash(d), ServerTrash(d)') : Moves(n, j)
  <2>1. \A d \in Dashboards : \A j : j \in Apart(ServerTrash(d), ServerTrash(d)')
                                       => j = i /\ m.kind \in Moving
    <3> DEFINE moves == m.kind \in Moving
    <3>1. moves \in BOOLEAN
      OBVIOUS
    <3>2. \A j \in DOMAIN lists : lists'[j].at = lists[j].at \/ (j = i /\ moves)
      BY <1>4
    <3>3. QED BY <1>4, <3>1, <3>2, TrashMoved
  <2>2. n.n # 0
    BY <1>1, <1>3
  <2>3. QED BY <1>3, <2>1, <2>2 DEF Moves
<1>7. CallsKnown'
  <2>1. ASSUME NEW b \in calls'
        PROVE  /\ b.n <= Len(log)'
               /\ b.status = "done" /\ b.kind = "purge" =>
                    b.id \in DOMAIN lists' /\ lists'[b.id].at = "gone"
    <3>1. CASE b = n
      BY <1>1, <1>3, <1>4, <1>5, <3>1
    <3>2. CASE b \in calls
      <4>1. b.n \in Nat
        BY <3>2 DEF SidebarInv, TrafficSound, CallSound, CallType
      <4>2. /\ b.n <= Len(log)
            /\ b.status = "done" /\ b.kind = "purge" =>
                    b.id \in DOMAIN lists /\ lists[b.id].at = "gone"
        BY <3>2 DEF TrashInv, CallsKnown
      <4>3. QED BY <1>1, <1>4, <1>5, <4>1, <4>2
    <3>3. QED BY <1>2, <3>1, <3>2
  <2>2. QED BY <2>1 DEF CallsKnown
<1>8. LoadsTrue'
  <2>1. \A c \in calls : c.n <= Len(log) /\ c.n \in Nat
    BY DEF SidebarInv, TrafficSound, CallSound, CallType, TrashInv, CallsKnown
  <2>2. \A b \in calls' : (\E c \in calls : Alike(c, b)) \/ b.n = 0 \/ b.n > Len(log)
    BY <1>1, <1>2, <1>3 DEF Alike
  <2>3. \A b \in calls' : b.n = Len(log) + 1 => b = n
    BY <1>1, <1>2, <2>1
  <2>4. \A d \in Dashboards : \A j \in Apart(ServerTrash(d), ServerTrash(d)') :
          \A b \in calls' : b.n = Len(log) + 1 => Moves(b, j)
    BY <1>6, <2>3
  <2>5. QED BY <1>2, <1>5, <2>2, <2>4, LoadsMoved
<1>9. TrayTrue'
  <2>1. SUFFICES ASSUME tray.open, loads = <<>>, trayGaps = {}
                 PROVE  /\ ~tray.empty
                        /\ \A j \in Apart(tray.rows, ServerTrash(view.dash)') :
                             \E b \in calls' : Moves(b, j)
    BY <1>2 DEF TrayTrue, ServerTrash
  <2>2. ~tray.empty /\ \A j \in Apart(tray.rows, ServerTrash(view.dash)) : \E c \in calls : Moves(c, j)
    BY <2>1 DEF TrashInv, TrayTrue
  <2>3. ASSUME NEW j \in Apart(tray.rows, ServerTrash(view.dash)') PROVE \E b \in calls' : Moves(b, j)
    <3>1. CASE j \in Apart(tray.rows, ServerTrash(view.dash))
      <4>1. PICK c \in calls : Moves(c, j)
        BY <2>2, <3>1
      <4>2. c # m
        BY <1>1, <4>1 DEF Moves
      <4>3. QED BY <1>2, <4>1, <4>2
    <3>2. CASE j \in Apart(ServerTrash(view.dash), ServerTrash(view.dash)')
      <4>1. PICK d \in Dashboards : d = view.dash
        BY DEF SidebarInv, ScreenSound, ViewType
      <4>2. ServerTrash(view.dash)' = ServerTrash(d)'
        BY <1>2, <4>1 DEF ServerTrash
      <4>3. j \in Apart(ServerTrash(d), ServerTrash(d)')
        BY <3>2, <4>1, <4>2
      <4>4. Moves(n, j)
        BY <1>6, <4>3
      <4>5. QED BY <1>2, <4>4
    <3>3. QED BY <2>3, <3>1, <3>2 DEF Apart
  <2>4. QED BY <2>2, <2>3
<1>10. QED BY <1>7, <1>8, <1>9 DEF TrashInv

(* Somebody else's write: the view is known to miss it.                      *)
LEMMA ForeignTrash ==
  ASSUME SidebarInv, TrashInv, NEW t \in others, ForeignCommit(t)
  PROVE  TrashInv'
<1>1. ListsTyped /\ log \in Seq([id : SomeId, dash : Dashboards]) /\ Len(log) \in Nat /\ t.kind \in Kinds
  BY LenProperties DEF SidebarInv, ServerSound, TransactionType
<1>2. /\ lists' = Written(t.kind, t.id, t.dash, t.value)
      /\ t.kind \notin {"create", "order"} => t.id \in DOMAIN lists
      /\ t.kind \in Restores \cup {"delete"} => lists[t.id].at # "gone"
      /\ log' = Append(log, [id |-> t.id, dash |-> HomeOf(t)]) /\ trayGaps' # {}
      /\ UNCHANGED <<loads, calls>>
  BY DEF ForeignCommit, Lands, Stale, Restores
<1>3. /\ DOMAIN lists \subseteq DOMAIN lists'
      /\ \A j \in DOMAIN lists : \/ lists'[j].at = lists[j].at
                                 \/ j = t.id /\ t.kind \in Moving /\ lists[j].at # "gone"
      /\ \A j \in DOMAIN lists' : j \in DOMAIN lists \/ lists'[j].at = "live"
  BY <1>1, <1>2, WrittenMoves
<1>4. Len(log)' = Len(log) + 1
  BY <1>2
<1>5. \A c \in calls : /\ c.n \in Nat /\ c.n <= Len(log)
                       /\ c.status = "done" /\ c.kind = "purge" =>
                            c.id \in DOMAIN lists /\ lists[c.id].at = "gone"
  BY DEF SidebarInv, TrafficSound, CallSound, CallType, TrashInv, CallsKnown
<1>6. CallsKnown'
  <2>1. ASSUME NEW c \in calls
        PROVE  /\ c.n <= Len(log)'
               /\ c.status = "done" /\ c.kind = "purge" =>
                    c.id \in DOMAIN lists' /\ lists'[c.id].at = "gone"
    BY <1>1, <1>3, <1>4, <1>5
  <2>2. QED BY <1>2, <2>1 DEF CallsKnown
<1>7. LoadsTrue'
  <2>1. \A b \in calls' : \E c \in calls : Alike(c, b)
    BY <1>2 DEF Alike
  <2>2. \A b \in calls' : b.n # Len(log) + 1
    BY <1>1, <1>2, <1>5
  <2>3. QED BY <1>2, <1>4, <2>1, <2>2, LoadsMoved
<1>8. TrayTrue'
  BY <1>2 DEF TrayTrue
<1>9. QED BY <1>6, <1>7, <1>8 DEF TrashInv

(* Steps that leave the requests alone.                                      *)
LEMMA TrashStill ==
  ASSUME SidebarInv, TrashInv, UNCHANGED <<store, loads, calls>>, trayGaps \subseteq trayGaps',
         \/ ~tray'.open
         \/ /\ tray'.open = tray.open /\ tray'.rows = tray.rows /\ tray'.empty = tray.empty
            /\ view'.dash = view.dash
  PROVE  TrashInv'
<1>1. \A c \in calls : Alike(c, c)
  BY DEF Alike
<1>2. QED BY <1>1, TrashGoesOn

(* A new request waits to be granted.                                        *)
LEMMA TrashAsked ==
  ASSUME SidebarInv, TrashInv, UNCHANGED <<store, loads, tray, trayGaps>>, view'.dash = view.dash,
         NEW m, m.n = 0, m.status = "sent", calls' = calls \cup {m}
  PROVE  TrashInv'
<1>1. \A c \in calls : Alike(c, c) /\ c \in calls'
  BY DEF Alike
<1>2. \A b \in calls' : b \in calls \/ (b.n = 0 /\ b.status # "done")
  OBVIOUS
<1>3. QED BY <1>1, <1>2, TrashGoesOn

(* A request answered that the trash view does not wait for, or the view is  *)
(* known to miss what it did.                                                *)
LEMMA TrashAnswered ==
  ASSUME SidebarInv, TrashInv, UNCHANGED <<store, loads, tray>>, view'.dash = view.dash,
         trayGaps \subseteq trayGaps', NEW m \in calls, calls' = calls \ {m},
         m.n = 0 \/ m.kind \notin Moving \/ tray.empty \/ trayGaps' # {}
  PROVE  TrashInv'
<1>1. \A c \in calls : Alike(c, c) /\ (c \in calls' \/ c = m)
  BY DEF Alike
<1>2. \A b \in calls' : b \in calls
  OBVIOUS
<1>3. QED BY <1>1, <1>2, TrashGoesOn

(* The caches, the stream and the screen.                                    *)
LEMMA TrashAside ==
  ASSUME SidebarInv, TrashInv,
         \/ \E d \in Dashboards : AnswerGet(d) \/ ResolveGet(d) \/ FailGet(d)
         \/ refetchLists \/ OpenActive \/ handleListResourceEvent \/ UNCHANGED vars
         \/ \E o \in offers : Dismissed(o)
         \/ \E f \in {"all"} \cup Range(Kind) : FilterTypes(f)
         \/ \E i \in Ids : \/ onSelect(i) \/ AskPurge(i)
                           \/ OpenControl(i, "rename") \/ OpenControl(i, "delete")
         \/ ToggleCreate \/ CloseCreate \/ CloseControl \/ CancelPurge
  PROVE  TrashInv'
<1>1. view \in ViewType /\ \A c \in calls : c \in CallType
  BY DEF SidebarInv, ScreenSound, TrafficSound, CallSound
<1>2. ASSUME NEW d \in Dashboards, AnswerGet(d) \/ FailGet(d) PROVE TrashInv'
  BY <1>2, TrashStill DEF AnswerGet, FailGet, server, store
<1>3. ASSUME NEW d \in Dashboards, ResolveGet(d) PROVE TrashInv'
  <2> DEFINE now(c) == [c EXCEPT !.over = @ \/ c.dash = d]
  <2>1. calls' = {now(c) : c \in calls}
    BY <1>3 DEF ResolveGet
  <2>2. \A c \in calls : Alike(c, now(c)) /\ now(c).status = c.status
    BY <1>1 DEF CallType, Alike
  <2> HIDE DEF now
  <2>3. \A b \in calls' : \E c \in calls : Alike(c, b) /\ (b.status = "done" => c.status = "done")
    BY <2>1, <2>2
  <2>4. \A c \in calls : \E b \in calls' : Alike(c, b)
    BY <2>1, <2>2
  <2>5. UNCHANGED <<store, loads, tray, view, trayGaps>>
    BY <1>3 DEF ResolveGet, server, store
  <2>6. QED BY <2>3, <2>4, <2>5, TrashGoesOn
<1>4. CASE refetchLists \/ handleListResourceEvent \/ UNCHANGED vars
  BY <1>4, TrashStill DEF refetchLists, handleListResourceEvent, vars, server, store
<1>5. CASE OpenActive
  <2>1. tray'.open = FALSE
    BY <1>5 DEF OpenActive, SidebarInv, TrashSound
  <2>2. QED BY <1>5, <2>1, TrashStill DEF OpenActive, server, store
<1>6. ASSUME NEW o \in offers, Dismissed(o) PROVE TrashInv'
  BY <1>6, TrashStill DEF Dismissed, server, store
<1>7. ASSUME NEW next, ViewStep(next), next.dash = view.dash PROVE TrashInv'
  BY <1>7, TrashStill DEF ViewStep, server, store
<1>8. ASSUME NEW f \in {"all"} \cup Range(Kind), FilterTypes(f) PROVE TrashInv'
  BY <1>1, <1>7, <1>8 DEF FilterTypes, ViewType
<1>9. ASSUME NEW i \in Ids, onSelect(i) \/ AskPurge(i) PROVE TrashInv'
  BY <1>1, <1>7, <1>9 DEF onSelect, AskPurge, ViewType
<1>10. ASSUME NEW i \in Ids, OpenControl(i, "rename") \/ OpenControl(i, "delete") PROVE TrashInv'
  BY <1>1, <1>7, <1>10 DEF OpenControl, ViewType
<1>11. CASE ToggleCreate \/ CloseCreate
  BY <1>1, <1>7, <1>11 DEF ToggleCreate, CloseCreate, ViewType
<1>12. CASE CloseControl \/ CancelPurge
  BY <1>1, <1>7, <1>12 DEF CloseControl, CancelPurge, ViewType
<1>13. QED BY <1>2, <1>3, <1>4, <1>5, <1>6, <1>8, <1>9, <1>10, <1>11, <1>12

(* The requests sent.                                                        *)
LEMMA TrashSent ==
  ASSUME SidebarInv, TrashInv,
         \/ handleCreate \/ handleRenameList \/ handleDeleteList \/ handlePurgeList
         \/ \E i \in Ids : handleRestoreList(i)
         \/ \E o \in offers : handleUndoDeleteList(o)
         \/ \E a, b \in Ids : reorderLists(a, b)
  PROVE  TrashInv'
<1>1. view \in ViewType
  BY DEF SidebarInv, ScreenSound
<1>2. UNCHANGED <<store, loads, tray, trayGaps>> /\ view'.dash = view.dash
  <2>1. CASE handleCreate \/ handleDeleteList \/ handlePurgeList
    BY <1>1, <2>1 DEF handleCreate, handleDeleteList, handlePurgeList, ViewType, server, store
  <2>2. CASE handleRenameList \/ \E i \in Ids : handleRestoreList(i)
    BY <2>2 DEF handleRenameList, handleRestoreList, server, store
  <2>3. CASE \/ \E o \in offers : handleUndoDeleteList(o)
             \/ \E a, b \in Ids : reorderLists(a, b)
    BY <2>3 DEF handleUndoDeleteList, reorderLists, server, store
  <2>4. QED BY <2>1, <2>2, <2>3
<1>3. \E m : m.n = 0 /\ m.status = "sent" /\ calls' = calls \cup {m}
  <2>1. ASSUME NEW kind, NEW i, NEW value, Send(Call(kind, i, value))
        PROVE  \E m : m.n = 0 /\ m.status = "sent" /\ calls' = calls \cup {m}
    <3>1. Call(kind, i, value).n = 0 /\ Call(kind, i, value).status = "sent"
      BY DEF Call
    <3>2. QED BY <2>1, <3>1 DEF Send
  <2>2. CASE handleCreate \/ handleRenameList \/ handleDeleteList \/ handlePurgeList
    BY <2>1, <2>2 DEF handleCreate, handleRenameList, handleDeleteList, handlePurgeList
  <2>3. CASE \E i \in Ids : handleRestoreList(i)
    BY <2>1, <2>3 DEF handleRestoreList
  <2>4. ASSUME NEW o \in offers, handleUndoDeleteList(o)
        PROVE  \E m : m.n = 0 /\ m.status = "sent" /\ calls' = calls \cup {m}
    <3> DEFINE m == [Call("undo", o.id, None) EXCEPT
                       !.dash = UndoDash(o), !.origin = o.dash, !.empty = o.empty]
    <3>1. m.n = 0 /\ m.status = "sent"
      BY DEF Call
    <3>2. QED BY <2>4, <3>1 DEF handleUndoDeleteList, Send
  <2>5. ASSUME NEW a \in Ids, NEW b \in Ids, reorderLists(a, b)
        PROVE  \E m : m.n = 0 /\ m.status = "sent" /\ calls' = calls \cup {m}
    <3> DEFINE rows == cache[view.dash].rows
               ids == IdsOf(Kept(rows, {k \in 1..Len(rows) : Filtered(rows[k].id)}))
               order == reorderIds(ids, a, b)
               after == IF SameIds(rows, order) THEN orderByIds(rows, order) ELSE rows
               m == [Call("order", None, order) EXCEPT
                       !.from = rows, !.to = after, !.seen = Seen, !.stray = "stray" \in gaps[view.dash]]
    <3>1. Send(m)
      BY <2>5 DEF reorderLists
    <3>2. m.n = 0 /\ m.status = "sent"
      BY DEF Call
    <3>3. QED BY <3>1, <3>2 DEF Send
  <2>6. QED BY <2>2, <2>3, <2>4, <2>5
<1>4. QED BY <1>2, <1>3, TrashAsked

(* The trash is asked for.                                                   *)
LEMMA TrashLoads ==
  ASSUME SidebarInv, TrashInv, (\E d \in Dashboards : SelectDashboard(d)) \/ OpenTrash
  PROVE  TrashInv'
<1>1. ASSUME NEW d \in Dashboards, SelectDashboard(d) PROVE TrashInv'
  <2>1. CASE tray.open
    BY <1>1, <2>1, LoadStarts DEF SelectDashboard, loadTrash, server, store
  <2>2. CASE ~tray.open
    BY <1>1, <2>2, TrashStill DEF SelectDashboard, server, store
  <2>3. QED BY <2>1, <2>2
<1>2. CASE OpenTrash
  <2>1. PICK d \in Dashboards : d = view.dash
    BY DEF SidebarInv, ScreenSound, ViewType
  <2>2. QED BY <1>2, <2>1, LoadStarts DEF OpenTrash, server, store
<1>3. QED BY <1>1, <1>2

(* Its answer is true when it is given, and once it is shown nothing has     *)
(* happened since that no answer will tell of.                               *)
LEMMA TrashArrives ==
  ASSUME SidebarInv, TrashInv, NEW k \in 1..Len(loads),
         AnswerTrash(k) \/ ResolveTrash(k) \/ FailTrash(k)
  PROVE  TrashInv'
<1>1. /\ loads \in Seq(LoadType) /\ Len(loads) \in Nat /\ Len(log) \in Nat
      /\ \A j \in 1..Len(loads) : loads[j] \in LoadType
      /\ tray \in [open : BOOLEAN, rows : SUBSET Ids, empty : BOOLEAN, loading : BOOLEAN]
  BY ElementOfSeq, LenProperties DEF SidebarInv, TrashSound, ServerSound
<1>2. UNCHANGED <<store, calls, view>>
  BY DEF AnswerTrash, ResolveTrash, FailTrash, server, store
<1>3. CallsKnown' /\ TrashOf' = TrashOf /\ Len(log)' = Len(log)
  <2>1. \A c \in calls' : c \in calls /\ Alike(c, c)
    BY <1>2 DEF Alike
  <2>2. QED BY <1>2, <2>1, CallsGoOn
<1>4. (\A j \in 1..Len(loads') : LoadTrue(loads'[j], TrashOf, Len(log), calls)) => LoadsTrue'
  BY <1>2, <1>3 DEF LoadsTrue
<1>5. CASE AnswerTrash(k)
  <2> DEFINE trash == ServerTrash(loads[k].dash)
             e == [loads[k] EXCEPT !.rows = trash, !.status = "answered", !.asOf = Len(log)]
  <2>1. loads' = [loads EXCEPT ![k] = e]
    BY <1>5 DEF AnswerTrash
  <2>2. e.rows = TrashOf[e.dash] /\ e.asOf = Len(log)
    BY <1>1 DEF LoadType, TrashOf
  <2> HIDE DEF e
  <2>3. LoadTrue(e, TrashOf, Len(log), calls)
    BY <1>1, <2>2 DEF LoadTrue, Apart
  <2>4. Len(loads') = Len(loads) /\ \A j \in 1..Len(loads) : loads'[j] = IF j = k THEN e ELSE loads[j]
    BY <1>1, <2>1
  <2>5. LoadsTrue'
    BY <1>4, <2>3, <2>4 DEF TrashInv, LoadsTrue
  <2>6. loads' # <<>>
    BY <1>1, <2>4
  <2>7. QED BY <1>3, <2>5, <2>6 DEF TrashInv, TrayTrue
<1>6. CASE ResolveTrash(k) \/ FailTrash(k)
  <2>1. loads' = RemoveAt(loads, k)
    BY <1>6 DEF ResolveTrash, FailTrash
  <2>2. /\ Len(loads') = Len(loads) - 1
        /\ \A j \in 1..(Len(loads) - 1) : loads'[j] = loads[j] \/ loads'[j] = loads[j + 1]
    BY <1>1, <2>1, RemovedSound
  <2>3. \A j \in 1..(Len(loads) - 1) : j \in 1..Len(loads) /\ j + 1 \in 1..Len(loads)
    BY <1>1
  <2>4. LoadsTrue'
    BY <1>4, <2>2, <2>3 DEF TrashInv, LoadsTrue
  <2>5. CASE FailTrash(k)
    BY <1>3, <2>4, <2>5 DEF TrashInv, TrayTrue, FailTrash
  <2>6. CASE ResolveTrash(k) /\ trayGaps' # {}
    BY <1>3, <2>4, <2>6 DEF TrashInv, TrayTrue
  <2>7. CASE ResolveTrash(k) /\ trayGaps' = {}
    <3>1. /\ loads[k].status = "answered" /\ ~LateTrash(k)
          /\ tray'.rows = loads[k].rows /\ tray'.empty = FALSE
      BY <1>1, <2>7 DEF ResolveTrash
    <3>2. /\ loads[k].dash = view.dash
          /\ \A n \in (loads[k].asOf + 1)..Len(log) : \E c \in calls : c.n = n
      BY <3>1 DEF LateTrash
    <3>3. TrashOf[loads[k].dash] = ServerTrash(view.dash)
      BY <1>1, <3>2 DEF TrashOf, LoadType
    <3>4. ASSUME NEW i \in Apart(loads[k].rows, ServerTrash(view.dash))
          PROVE  \E c \in calls : Moves(c, i)
      <4>1. PICK n \in (loads[k].asOf + 1)..Len(log) : \A c \in calls : c.n = n => Moves(c, i)
        BY <3>1, <3>3, <3>4 DEF TrashInv, LoadsTrue, LoadTrue
      <4>2. QED BY <3>2, <4>1
    <3>5. ServerTrash(view.dash)' = ServerTrash(view.dash)
      BY <1>2 DEF ServerTrash, store
    <3>6. TrayTrue'
      BY <1>2, <3>1, <3>4, <3>5 DEF TrayTrue
    <3>7. QED BY <1>3, <2>4, <3>6 DEF TrashInv
  <2>8. QED BY <1>6, <2>5, <2>6, <2>7
<1>7. QED BY <1>5, <1>6

(* The requests refused, and those that break.                               *)
LEMMA TrashRefused ==
  ASSUME SidebarInv, TrashInv, NEW m \in calls, Lose(m) \/ Refuse(m) \/ Break(m) PROVE TrashInv'
<1>1. PICK status \in {"refused", "broken"} :
        calls' = (calls \ {m}) \cup {[m EXCEPT !.status = status]}
  BY DEF Lose, Refuse, Break
<1> DEFINE n == [m EXCEPT !.status = status]
<1>2. m \in CallType
  BY DEF SidebarInv, TrafficSound, CallSound
<1>3. n.status # "done" /\ Alike(m, n)
  BY <1>1, <1>2 DEF CallType, Alike
<1>4. calls' = (calls \ {m}) \cup {n}
  BY <1>1
<1> HIDE DEF n
<1>5. \A c \in calls : Alike(c, c)
  BY DEF Alike
<1>6. \A b \in calls' : \E c \in calls : Alike(c, b) /\ (b.status = "done" => c.status = "done")
  BY <1>3, <1>4, <1>5
<1>7. \A c \in calls : \E b \in calls' : Alike(c, b)
  BY <1>3, <1>4, <1>5
<1>8. UNCHANGED <<store, loads, tray, view, trayGaps>>
  BY DEF Lose, Refuse, Break, server, store
<1>9. QED BY <1>6, <1>7, <1>8, TrashGoesOn

(* A request that has read, and the transactions of other people until they  *)
(* commit.                                                                   *)
LEMMA TrashReads ==
  ASSUME SidebarInv, TrashInv,
         \/ \E m \in calls : Load(m)
         \/ \E d \in Dashboards : Theirs(d)
         \/ \E t \in others : ForeignLose(t)
  PROVE  TrashInv'
<1>1. ASSUME NEW m \in calls, Load(m) PROVE TrashInv'
  <2>1. PICK n : n = Read(m)
    OBVIOUS
  <2>2. m \in CallType /\ m.n = 0
    BY <1>1 DEF SidebarInv, TrafficSound, CallSound, Load
  <2>3. n.n = 0 /\ n.status # "done"
    BY <2>1, <2>2 DEF Read, CallType
  <2>4. calls' = (calls \ {m}) \cup {n} /\ UNCHANGED <<store, loads, tray, view, trayGaps>>
    BY <1>1, <2>1 DEF Load, Loads, store
  <2>5. \A c \in calls : Alike(c, c)
    BY DEF Alike
  <2>6. \A b \in calls' : \/ \E c \in calls : Alike(c, b) /\ (b.status = "done" => c.status = "done")
                          \/ b.n = 0 /\ b.status # "done"
    BY <2>3, <2>4, <2>5
  <2>7. \A c \in calls : c.n = 0 \/ \E b \in calls' : Alike(c, b)
    BY <2>2, <2>4, <2>5
  <2>8. QED BY <2>4, <2>6, <2>7, TrashGoesOn
<1>2. ASSUME NEW op, NEW kind, NEW i, NEW d, NEW value, Foreign(op, kind, i, d, value) PROVE TrashInv'
  BY <1>2, TrashStill DEF Foreign, Loads, store
<1>3. ASSUME NEW d, Theirs(d) PROVE TrashInv'
  BY <1>2, <1>3 DEF Theirs
<1>4. ASSUME NEW t \in others, ForeignLose(t) PROVE TrashInv'
  BY <1>4, TrashStill DEF ForeignLose, store
<1>5. QED BY <1>1, <1>3, <1>4

(* A row taken out of the view, by the answer of the request that did it.    *)
LEMMA TrashTakenOut ==
  ASSUME SidebarInv, TrashInv, UNCHANGED <<store, loads, view>>, trayGaps \subseteq trayGaps',
         NEW m \in calls, calls' = calls \ {m},
         tray' = [tray EXCEPT !.rows = tray.rows \ {m.id}],
         lists[m.id].at # "trash" \/ trayGaps' # {}
  PROVE  TrashInv'
<1>1. CallsKnown' /\ LoadsTrue'
  <2>1. \A b \in calls' : b \in calls /\ Alike(b, b)
    BY DEF Alike
  <2>2. QED BY <2>1, LoadsGoOn
<1>2. /\ tray'.open = tray.open /\ tray'.rows = tray.rows \ {m.id} /\ tray'.empty = tray.empty
  BY DEF SidebarInv, TrashSound
<1>3. ServerTrash(view.dash)' = ServerTrash(view.dash)
  BY DEF ServerTrash, store
<1>4. TrayTrue'
  <2>1. SUFFICES ASSUME tray.open, loads = <<>>, trayGaps' = {}
                 PROVE  /\ ~tray.empty
                        /\ \A i \in Apart(tray.rows \ {m.id}, ServerTrash(view.dash)) :
                             \E c \in calls' : Moves(c, i)
    BY <1>2, <1>3 DEF TrayTrue
  <2>2. ~tray.empty /\ \A i \in Apart(tray.rows, ServerTrash(view.dash)) : \E c \in calls : Moves(c, i)
    BY <2>1 DEF TrashInv, TrayTrue
  <2>3. m.id \notin ServerTrash(view.dash)
    BY <2>1 DEF ServerTrash
  <2>4. ASSUME NEW i \in Apart(tray.rows \ {m.id}, ServerTrash(view.dash))
        PROVE  \E c \in calls' : Moves(c, i)
    <3>1. i # m.id /\ i \in Apart(tray.rows, ServerTrash(view.dash))
      BY <2>3, <2>4 DEF Apart
    <3>2. PICK c \in calls : Moves(c, i)
      BY <2>2, <3>1
    <3>3. c # m
      BY <3>1, <3>2 DEF Moves
    <3>4. QED BY <3>2, <3>3
  <2>5. QED BY <2>2, <2>4
<1>5. QED BY <1>1, <1>4 DEF TrashInv

(* The answers: the view is loaded again, corrected, or known to be behind.  *)
LEMMA TrashTold ==
  ASSUME SidebarInv, TrashInv, NEW m \in calls,
         \/ applyCreatedList(m) \/ updateListName(m) \/ deleteList(m)
         \/ undoRestored(m) \/ restoreList(m) \/ purged(m) \/ reordered(m) \/ Fail(m)
  PROVE  TrashInv'
<1>1. m \in CallType /\ m.dash \in Dashboards /\ view \in ViewType
  BY DEF SidebarInv, TrafficSound, CallSound, CallType, ScreenSound
<1>2. CASE applyCreatedList(m) \/ updateListName(m) \/ reordered(m)
  <2>1. m.kind \notin Moving /\ calls' = calls \ {m} /\ UNCHANGED <<store, loads, tray, trayGaps>>
    BY <1>2 DEF applyCreatedList, updateListName, reordered, Done, Moving, Restores, server, store
  <2>2. view'.dash = view.dash
    BY <1>1, <1>2 DEF applyCreatedList, updateListName, reordered, ViewType
  <2>3. QED BY <2>1, <2>2, TrashAnswered
<1>3. CASE deleteList(m) \/ undoRestored(m)
  <2>1. /\ calls' = calls \ {m} /\ UNCHANGED store
        /\ trayGaps' = IF m.empty /\ ~tray.empty THEN trayGaps \cup {"unseen"} ELSE trayGaps
    BY <1>3 DEF deleteList, undoRestored, Done, server, store
  <2>2. view'.dash = view.dash
    BY <1>1, <1>3 DEF deleteList, undoRestored, ViewType
  <2>3. CASE m.empty
    BY <1>3, <2>1, <2>2, <2>3, TrashAnswered DEF deleteList, undoRestored
  <2>4. CASE ~m.empty
    <3>1. loads' = Append(loads, [dash |-> m.dash, rows |-> {}, status |-> "sent", asOf |-> 0])
      BY <1>3, <2>4 DEF deleteList, undoRestored, loadTrash
    <3>2. QED BY <1>1, <2>1, <3>1, LoadStarts
  <2>5. QED BY <2>3, <2>4
<1>4. CASE restoreList(m)
  BY <1>4, TrashTakenOut DEF restoreList, Done, LeftInTrash, server, store
<1>5. CASE purged(m)
  <2>1. lists[m.id].at # "trash"
    BY <1>5 DEF purged, Done, TrashInv, CallsKnown
  <2>2. QED BY <1>5, <2>1, TrashTakenOut DEF purged, Done, LeftInTrash, server, store
<1>6. CASE Fail(m)
  <2>1. /\ calls' = calls \ {m} /\ UNCHANGED <<store, loads, tray>>
        /\ trayGaps' = IF m.n # 0 \/ m.kind \in Restores \cup {"purge"}
                       THEN trayGaps \cup {"refused"} ELSE trayGaps
    BY <1>6 DEF Fail, server, store
  <2>2. view'.dash = view.dash
    BY <1>1, <1>6 DEF Fail, ViewType
  <2>3. QED BY <2>1, <2>2, TrashAnswered
<1>7. QED BY <1>2, <1>3, <1>4, <1>5, <1>6

(* Every step keeps the trash view as true as that.                          *)
LEMMA TrashStays ==
  ASSUME SidebarInv, TrashInv, [Next]_vars PROVE TrashInv'
<1>1. CASE \/ \E d \in Dashboards : AnswerGet(d) \/ ResolveGet(d) \/ FailGet(d)
           \/ refetchLists \/ OpenActive \/ handleListResourceEvent \/ UNCHANGED vars
           \/ \E o \in offers : Dismissed(o)
           \/ \E f \in {"all"} \cup Range(Kind) : FilterTypes(f)
           \/ \E i \in Ids : \/ onSelect(i) \/ AskPurge(i)
                             \/ OpenControl(i, "rename") \/ OpenControl(i, "delete")
           \/ ToggleCreate \/ CloseCreate \/ CloseControl \/ CancelPurge
  BY <1>1, TrashAside
<1>2. CASE \/ handleCreate \/ handleRenameList \/ handleDeleteList \/ handlePurgeList
           \/ \E i \in Ids : handleRestoreList(i)
           \/ \E o \in offers : handleUndoDeleteList(o)
           \/ \E a, b \in Ids : reorderLists(a, b)
  BY <1>2, TrashSent
<1>3. CASE (\E d \in Dashboards : SelectDashboard(d)) \/ OpenTrash
  BY <1>3, TrashLoads
<1>4. CASE \E k \in 1..Len(loads) : AnswerTrash(k) \/ ResolveTrash(k) \/ FailTrash(k)
  BY <1>4, TrashArrives
<1>5. CASE \E m \in calls : Commit(m) \/ Lose(m) \/ Refuse(m) \/ Break(m)
  BY <1>5, CommitTrash, TrashRefused
<1>6. CASE \E m \in calls : \/ applyCreatedList(m) \/ updateListName(m) \/ deleteList(m)
                            \/ undoRestored(m) \/ restoreList(m) \/ purged(m) \/ reordered(m)
                            \/ Fail(m)
  BY <1>6, TrashTold
<1>7. CASE \/ \E m \in calls : Load(m)
           \/ \E d \in Dashboards : Theirs(d)
           \/ \E t \in others : ForeignLose(t)
  BY <1>7, TrashReads
<1>8. CASE \E t \in others : ForeignCommit(t)
  BY <1>8, ForeignTrash
<1>9. QED BY <1>1, <1>2, <1>3, <1>4, <1>5, <1>6, <1>7, <1>8 DEF Next

(* It starts with nothing asked for and the trash closed.                    *)
LEMMA TrashStarts ==
  ASSUME Init PROVE TrashInv
<1>1. loads = <<>> /\ Len(loads) = 0 /\ calls = {} /\ ~tray.open
  BY DEF Init
<1>2. QED BY <1>1 DEF TrashInv, CallsKnown, LoadsTrue, TrayTrue

(* With no request under way, nothing excuses a difference.                  *)
LEMMA TrashEnough ==
  ASSUME TrashInv PROVE TrashSettles
<1>1. SUFFICES ASSUME QuietLive, loads = <<>>, tray.open, trayGaps = {}
               PROVE  tray.rows = ServerTrash(view.dash)
  BY DEF TrashSettles
<1>2. Apart(tray.rows, ServerTrash(view.dash)) = {}
  BY <1>1 DEF TrashInv, TrayTrue, QuietLive
<1>3. QED BY <1>2 DEF Apart

-----------------------------------------------------------------------------
(* The theorems.                                                             *)

(* Whatever this tab deletes, restores and purges, loads and shows, and in   *)
(* whatever order the answers come: once they have come, the trash view is   *)
(* the trash of the dashboard on screen, up to the named gaps.               *)
THEOREM TrashViewSettles == Spec => []TrashSettles
<1>1. Init => SidebarInv /\ TrashInv
  BY SidebarStarts, TrashStarts
<1>2. (SidebarInv /\ TrashInv) /\ [Next]_vars => (SidebarInv /\ TrashInv)'
  BY SidebarStays, TrashStays
<1>3. SidebarInv /\ TrashInv => TrashSettles
  BY TrashEnough
<1>4. QED BY <1>1, <1>2, <1>3, PTL DEF Spec

(* Wherever the user moves, whatever fails and whatever others write: no     *)
(* sidebar shows a list of another dashboard, but for the one restored from  *)
(* another's trash, and no order leaves out or doubles a list this tab shows. *)
THEOREM ListsStayWithTheirDashboard == Spec => []SidebarSound
<1>1. Init => SidebarInv
  BY SidebarStarts
<1>2. SidebarInv /\ [Next]_vars => SidebarInv'
  BY SidebarStays
<1>3. SidebarInv => SidebarSound
  BY SidebarEnough
<1>4. QED BY <1>1, <1>2, <1>3, PTL DEF Spec
=============================================================================
