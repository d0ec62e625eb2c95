---------------------------- MODULE DayCoverage ----------------------------
(***************************************************************************)
(* What the occurrence cache promises about the days of each dashboard it  *)
(* holds: a day that is held is not asked for again, an answer makes its   *)
(* days held, a failure makes none, and what is given up to stay within    *)
(* the cap is never what has just come in.  The detailed cache             *)
(* (OccurrenceStore, CalendarPage) keeps intervals instead of days.        *)
(***************************************************************************)
EXTENDS Integers, FiniteSets

CONSTANTS Dashboards,
          Cap          \* the days a dashboard may hold

VARIABLES days,        \* the days held, per dashboard
          asked        \* the sets of days asked for and not answered

vars == <<days, asked>>

(* Without a hole between its first and its last day.                        *)
OneRun(s) == \A a, b \in s : (a..b) \subseteq s

Init == /\ days = [d \in Dashboards |-> {}]
        /\ \A d \in Dashboards : \A r \in asked[d] : r # {} /\ OneRun(r)

(* Ask for days that are not held; everything held may be forgotten first.   *)
Ask(d) ==
  /\ days'[d] \in {days[d], {}}
  /\ asked[d] \subseteq asked'[d]
  /\ \A r \in asked'[d] \ asked[d] : r # {} /\ OneRun(r) /\ r \cap days'[d] = {}
  /\ \A r, s \in asked'[d] \ asked[d] : r = s \/ r \cap s = {}

Land(d) ==
  \E r \in asked[d] :
    /\ asked'[d] = asked[d] \ {r}
    /\ r \subseteq days'[d]
    /\ days'[d] \subseteq days[d] \cup r
    /\ Cardinality(days[d] \cup r) <= Cap => days'[d] = days[d] \cup r
    /\ Cardinality(days'[d]) <= Cap \/ OneRun(days'[d])

Fail(d) == /\ \E r \in asked[d] : asked'[d] = asked[d] \ {r}
           /\ days'[d] = days[d]

Next == \A d \in Dashboards : Ask(d) \/ Land(d) \/ Fail(d)

Spec == Init /\ [][Next]_vars
=============================================================================
