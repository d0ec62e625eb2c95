------------------------------ MODULE ListRows ------------------------------
(***************************************************************************)
(* Rows with an id, as the queries of routers/lists.py return them and the *)
(* caches of resources/listData.ts hold them: sorted, filtered, and put in *)
(* the order of a list of ids, which a drag draws (SortableList.tsx).      *)
(***************************************************************************)
EXTENDS Integers, FiniteSets, Sequences, SequencesExt

(* ORDER BY: the members of S so that those of before[x] come before x.      *)
InOrder(S, before) ==
  [k \in 1..Cardinality(S) |-> CHOOSE x \in S : Cardinality(before[x]) = k - 1]

(* filter: the rows at these places.                                         *)
Kept(rows, at) ==
  LET places == InOrder(at, [k \in at |-> {j \in at : j < k}])
  IN [n \in 1..Cardinality(at) |-> rows[places[n]]]
Drop(rows, i) == Kept(rows, {k \in 1..Len(rows) : rows[k].id # i})

IdsOf(rows) == [i \in 1..Len(rows) |-> rows[i].id]
Holds(rows, i) == i \in Range(IdsOf(rows))
RowWith(rows, i) == CHOOSE x \in Range(rows) : x.id = i

(* orderByIds gives up on another length, a duplicate or an unknown id.      *)
SameIds(rows, ids) ==
  Len(ids) = Len(rows) /\ IsInjective(ids) /\ Range(ids) = Range(IdsOf(rows))
orderByIds(rows, ids) == [k \in 1..Len(ids) |-> RowWith(rows, ids[k])]

IndexOf(ids, id) ==
  LET at == {k \in 1..Len(ids) : ids[k] = id} IN IF at # {} THEN Min(at) ELSE 0
reorderIds(ids, active, over) ==
  InsertAt(RemoveAt(ids, IndexOf(ids, active)), IndexOf(ids, over), active)
=============================================================================
