-------------------------- MODULE OccurrenceStore --------------------------
(***************************************************************************)
(* The occurrence cache (resources/occurrenceStore.ts): one entry per      *)
(* dashboard, indexed by the intervals it has loaded, so that a window     *)
(* fetches only the gaps.  An entry is a record and an operation of the    *)
(* store an operator on it; the readers on screen, and so the windows W    *)
(* they watch, belong to the module that composes the store with them.     *)
(*                                                                         *)
(* Time is counted in days.  The windows asked for in one tick reach       *)
(* loadWindow together, as the batch its microtask would flush.            *)
(***************************************************************************)
EXTENDS Integers, FiniteSets, Sequences, SequencesExt, FiniteSetsExt, TLC

CONSTANT MaxSpan       \* MAX_COVERED_DAYS, and the server's limit on a window

ASSUME MaxSpanAssumption == MaxSpan \in Nat \ {0}

Between(a, b) == [start |-> a, end |-> b]
Width(i) == i.end - i.start
DaysOf(i) == i.start..(i.end - 1)
DaysIn(intervals) == UNION {DaysOf(i) : i \in intervals}
(* The smallest interval around a set of them.                               *)
SpanOf(intervals) == Between(Min({i.start : i \in intervals}), Max({i.end : i \in intervals}))

overlaps(a, b) == a.start < b.end /\ b.start < a.end

AbsorbOverlapping(acc, i) ==                                   \* `<` for `<=`
  IF i.end <= acc.current.start \/ i.start >= acc.current.end
  THEN [acc EXCEPT !.merged = Append(@, i)]
  ELSE [acc EXCEPT !.current = SpanOf({@, i})]
Absorb(acc, i) ==
  IF i.end < acc.current.start \/ i.start > acc.current.end
  THEN [acc EXCEPT !.merged = Append(@, i)]
  ELSE [acc EXCEPT !.current = SpanOf({@, i})]
ByStart(a, b) == a.start < b.start
addInterval(covered, next) ==
  LET acc == FoldLeft(Absorb, [merged |-> <<>>, current |-> next], covered)
  IN SortSeq(Append(acc.merged, acc.current), ByStart)

(* The end of the first covered interval is taken for the end of them all.   *)
gapsAfterFirst(covered, wanted) ==
  LET cursor == IF covered # <<>> /\ Head(covered).start <= wanted.start
                THEN Max({wanted.start, Head(covered).end}) ELSE wanted.start
  IN IF cursor < wanted.end THEN <<Between(cursor, wanted.end)>> ELSE <<>>
gapsIn(covered, wanted) ==
  LET Past(acc, i) ==
        IF i.end <= acc.cursor \/ i.start >= wanted.end \/ acc.cursor >= wanted.end THEN acc
        ELSE [gaps |-> IF i.start > acc.cursor
                       THEN Append(acc.gaps, Between(acc.cursor, Min({i.start, wanted.end})))
                       ELSE acc.gaps,
              cursor |-> Max({acc.cursor, i.end})]
      acc == FoldLeft(Past, [gaps |-> <<>>, cursor |-> wanted.start], covered)
  IN IF acc.cursor < wanted.end THEN Append(acc.gaps, Between(acc.cursor, wanted.end)) ELSE acc.gaps
coveredSpan(covered) == FoldLeft(LAMBDA total, i : total + Width(i), 0, covered)

(* trim: the intervals nearest to `keep` whose widths fit, the first always. *)
Retained(covered, keep) ==
  LET distance(i) == Max({0, keep.start - i.end, i.start - keep.end})
      nearer(a, b) == \/ distance(a) < distance(b)
                      \/ distance(a) = distance(b) /\ ByStart(a, b)
      Pick(acc, i) ==
        IF acc.span + Width(i) > MaxSpan /\ acc.kept # <<>> THEN acc
        ELSE [kept |-> Append(acc.kept, i), span |-> acc.span + Width(i)]
      acc == FoldLeft(Pick, [kept |-> <<>>, span |-> 0], SortSeq(covered, nearer))
  IN SortSeq(acc.kept, ByStart)
trim(e, keep) ==
  IF coveredSpan(e.covered) <= MaxSpan THEN e
  ELSE LET retained == Retained(e.covered, keep)
       IN [e EXCEPT !.covered = retained,
                    !.byKey = {o \in @ : \E i \in Range(retained) : overlaps(i, o.at)}]

-----------------------------------------------------------------------------
(* byKey is the set of occurrences held, one for each occurrenceKey; shown,  *)
(* loaded, loading and error are the published state.  A request is named by *)
(* its interval: inFlight has those under way, and a load is the set of them *)
(* it waits for.  told and gaps record what this entry has been told of, and *)
(* what went wrong for it.                                                   *)
NewEntry == [byKey |-> {}, covered |-> <<>>, inFlight |-> {}, loads |-> {},
             shown |-> {}, loaded |-> FALSE, loading |-> FALSE, error |-> FALSE,
             told |-> 0, gaps |-> {}]

occurrenceKey(o) == <<o.id, o.at.start>>
Covered(e) == DaysIn(Range(e.covered))
Uncovered(e, W) == DaysIn(W) \ Covered(e)
Gap(e, g, happened) == IF happened THEN [e EXCEPT !.gaps = @ \cup {g}] ELSE e

(* fetchInterval: a request for the same interval is joined, whatever it has *)
(* been served.                                                              *)
fetchIntervals(e, intervals) == e.inFlight \cup intervals

(* A load clears the error; where a watched day outside it is not covered,   *)
(* that day now passes for one without events.                               *)
runLoad(e, wanted, W) ==
  LET gaps == Range(gapsIn(e.covered, wanted))
  IN IF gaps = {} THEN e
     ELSE Gap([e EXCEPT !.inFlight = fetchIntervals(e, gaps),
                        !.loads = @ \cup {gaps},
                        !.loading = e.byKey = {},
                        !.error = FALSE],
              "masked", e.error /\ Uncovered(e, W) \ DaysOf(wanted) # {})

loadWindow(e, batch, W) ==
  LET span == SpanOf(batch)
  IN IF Width(span) > MaxSpan
     THEN FoldSet(LAMBDA i, acc : runLoad(acc, i, W), e, batch)
     ELSE runLoad(e, span, W)

(* A reader's effect: its window is registered (it is in W) and loaded.      *)
useOccurrences(e, batch, W) == IF batch = {} THEN e ELSE loadWindow(e, batch, W)
refetch(e, wanted, W) == loadWindow([e EXCEPT !.covered = <<>>], {wanted}, W)

watchedInterval(W) ==
  IF W = {} \/ Width(SpanOf(W)) > MaxSpan THEN {} ELSE {SpanOf(W)}
(* invalidateOccurrences, after a change the server numbered `at`.           *)
reload(e, W, at) ==
  useOccurrences([e EXCEPT !.covered = <<>>, !.told = Max({@, at})], watchedInterval(W), W)

-----------------------------------------------------------------------------
(* Without dropping what it overlaps.                                       *)
ReconcileAdding(e, i, found) ==
  LET keys == {occurrenceKey(o) : o \in found}
  IN trim([e EXCEPT !.byKey = {o \in @ : occurrenceKey(o) \notin keys} \cup found,
                    !.covered = addInterval(@, i)], i)
(* The answer of a request: it replaces everything it overlaps.              *)
Reconcile(e, i, found) ==
  LET kept == {o \in e.byKey : ~overlaps(o.at, i)}
      keys == {occurrenceKey(o) : o \in found}
  IN trim([e EXCEPT !.byKey = {o \in kept : occurrenceKey(o) \notin keys} \cup found,
                    !.covered = addInterval(@, i)], i)

(* runLoad after its await: the loads this answer was the last of publish.   *)
Finished(e, W) ==
  Gap([e EXCEPT !.shown = e.byKey, !.loaded = TRUE, !.loading = FALSE, !.error = FALSE],
      "masked", e.error /\ Uncovered(e, W) # {})
Landed(e, r, W) ==
  LET held == Reconcile(e, r.key, r.found)
      left == [held EXCEPT !.inFlight = @ \ {r.key}, !.loads = {l \ {r.key} : l \in @} \ {{}}]
      told == Gap(Gap(left, "late", r.asOf < e.told),
                  "evicted", (DaysIn(W) \cap Covered(e)) \ Covered(left) # {})
  IN IF {r.key} \in e.loads THEN Finished(told, W) ELSE told

(* A failure gone wrong: the dashboard stays loading.                        *)
FailedLoading(e, r) ==
  LET hit == {l \in e.loads : r.key \in l}
  IN [e EXCEPT !.inFlight = @ \ {r.key}, !.loads = @ \ hit, !.error = @ \/ hit # {}]
(* Promise.all rejects with the first failure; the other requests go on.     *)
Failed(e, r) ==
  LET hit == {l \in e.loads : r.key \in l}
      left == [e EXCEPT !.inFlight = @ \ {r.key}, !.loads = @ \ hit]
  IN IF hit # {} THEN [left EXCEPT !.loading = FALSE, !.error = TRUE] ELSE left

(* useOccurrences: what a reader of window w is given.                       *)
dataIn(e, w) == {o \in e.shown : overlaps(o.at, w)}
=============================================================================
