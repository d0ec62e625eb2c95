---------------------------- MODULE ScopedQuery -----------------------------
(***************************************************************************)
(* The client's query cache (frontend/src/resources/scopedQuery.ts) as the *)
(* list resources use it (resources/listData.ts): one createScopedQuery    *)
(* cache, the components mounted on it, the requests in flight, and the    *)
(* SSE frames and mutation responses that patch or invalidate it.          *)
(*                                                                         *)
(* JavaScript runs to completion, so an action is one task: a render with  *)
(* its effects, an event handler, or the settling of a promise.  What an   *)
(* entry's data reflects is the set of writes contained in it: a GET       *)
(* returns every write committed when the server reads, a patch adds one.  *)
(* A response that settles into an entry no longer in the map is lost with *)
(* that entry, so only the requests of entries in the map are kept.  The   *)
(* stream stays open; SseReconnect is about what happens when it does not. *)
(***************************************************************************)
EXTENDS Integers, Sequences, FiniteSets

CONSTANTS
  Keys,             \* scopes, by their key
  NewKeys,          \* scopes of lists that do not exist until this tab creates them
  MaxCachedScopes,  \* maxCachedScopes
  MaxWrites,        \* bound on the writes to the lists behind the keys
  MaxSessions       \* bound on the sign-ins of this tab, each by another user

ASSUME ScopedQueryAssumption == /\ NewKeys \subseteq Keys
                                /\ MaxCachedScopes \in Nat
                                /\ MaxWrites \in Nat
                                /\ MaxSessions \in Nat \ {0}

VARIABLES
  session,    \* number of the current sign-in
  cache,      \* the Map: the keys held, older[k]: those inserted before k, and the entry of each
  mounted,    \* keys with a mounted component
  listening,  \* keys whose entry in the Map has a listener
  writes,     \* the writes drawn so far: the key each concerns, and whether it is this tab's
  committed,  \* writes the server has committed
  inbox,      \* frames of other tabs' writes on the stream
  mutations,  \* this tab's mutations awaiting their response
  excused     \* history: excused[g]: writes missing from the cache through gap g

vars == <<session, cache, mounted, listening, writes, committed, inbox, mutations, excused>>

Writes == 1..MaxWrites
(* EMPTY_STATE in a new entry; get is inFlight: none, sent, or answered with *)
(* the writes in got.  fetchedIn is history: the session whose GET brought   *)
(* the data, 0 if none did.                                                  *)
NewEntry == [has |-> FALSE, seen |-> {}, loading |-> FALSE, error |-> FALSE, stale |-> FALSE,
             get |-> "none", got |-> {}, getIn |-> 0, fetchedIn |-> 0]

Entries == cache.held
Entry(k) == cache.entry[k]
WritesTo(k) == {v \in committed : writes[v].key = k}
Exists(k) == k \notin NewKeys \/ WritesTo(k) # {}

(* The gaps: how cached data can lack a write and nothing records it.        *)
(*   overwritten  a GET the server answered before the write settled after   *)
(*                the write had been applied, or a seed replaced the entry   *)
(*   rolledback   a failed reorder put back the items it had started from    *)
(*   unanswered   the response to this tab's own write was lost              *)
Gaps == {"overwritten", "rolledback", "unanswered"}
Missing(k) == IF Entry(k).has THEN WritesTo(k) \ Entry(k).seen ELSE {}
Excuse(g, S) ==
  excused' = [h \in Gaps |-> (excused[h] \cup (IF g = h THEN S ELSE {}))
                             \cap UNION {Missing(k)' : k \in Keys}]
ExcuseNothing == Excuse("none", {})

-----------------------------------------------------------------------------
(* The operations of the cache, each from a cache to the cache it leaves.    *)
Has(c, k) == k \in c.held
PinnedByListeners(c, k) == k \in listening
Pinned(c, k) == k \in listening \/ c.entry[k].get # "none"

(* The coldest entries nothing pins, as many as exceed the cap.              *)
EvictColdEntries(c) ==
  LET cold == {k \in c.held : ~Pinned(c, k)}
      evicted == {k \in cold : Cardinality(cold \cap c.older[k])
                                 < Cardinality(c.held) - MaxCachedScopes}
  IN [held |-> c.held \ evicted,
      older |-> [k \in Keys |-> IF k \in evicted THEN {} ELSE c.older[k] \ evicted],
      entry |-> [k \in Keys |-> IF k \in evicted THEN NewEntry ELSE c.entry[k]]]

EnsureEntry(c, k) ==
  IF Has(c, k) THEN c
  ELSE EvictColdEntries([c EXCEPT !.held = @ \cup {k}, !.older[k] = c.held])

(* The entries of S are re-inserted, in the order they had.                  *)
Moved(c, S) == [k \in Keys |-> IF k \in S THEN (c.held \ S) \cup (c.older[k] \cap S)
                               ELSE c.older[k] \ S]
Touch(c, k) == [c EXCEPT !.older = Moved(c, {k})]

(* Every caller fetches in the background exactly when it holds data.  The   *)
(* request of an entry that was evicted at its insertion reaches nobody.     *)
Asked(e) ==
  IF e.get # "none" THEN e
  ELSE [e EXCEPT !.loading = IF e.has THEN @ /\ ~e.error ELSE TRUE,
                 !.error = FALSE, !.stale = FALSE, !.get = "sent", !.getIn = session]

Fetch(c, k) ==
  LET d == EnsureEntry(c, k)
  IN IF Has(d, k) THEN [Touch(d, k) EXCEPT !.entry[k] = Asked(@)] ELSE d

Stale(e) == [e EXCEPT !.stale = TRUE]

InvalidateQuietly(c, k) ==
  IF Has(c, k) /\ k \in listening THEN Fetch(c, k) ELSE c

Invalidate(c, k) ==
  LET d == [c EXCEPT !.entry[k] = Stale(@)]
  IN IF ~Has(c, k) THEN c
     ELSE IF k \in listening THEN Fetch(d, k)
     ELSE d

(* One after the other, in the order of a snapshot: whoever listens is       *)
(* fetched and moves behind the rest.                                        *)
InvalidateAll(c) ==
  [c EXCEPT !.older = Moved(c, listening),
            !.entry = [k \in Keys |-> IF ~Has(c, k) THEN c.entry[k]
                                      ELSE IF k \in listening THEN Asked(Stale(c.entry[k]))
                                      ELSE Stale(c.entry[k])]]

(* patchListDetailById and the updaters of the summaries cache: a patch of   *)
(* what is loaded, a row added to whatever there is, a removal.              *)
Patch(c, k, v) ==
  IF ~c.entry[k].has THEN c
  ELSE [c EXCEPT !.entry[k] = [@ EXCEPT !.seen = c.entry[k].seen \cup {v}, !.loading = FALSE]]

AppendRow(c, k, v) ==
  IF ~Has(c, k) THEN c
  ELSE [c EXCEPT !.entry[k] = [@ EXCEPT !.has = TRUE, !.seen = c.entry[k].seen \cup {v}]]

RemoveList(c, k) ==
  IF ~Has(c, k) THEN c
  ELSE [c EXCEPT !.entry[k] = [@ EXCEPT !.has = FALSE, !.seen = {}, !.loading = FALSE,
                                         !.error = TRUE, !.fetchedIn = 0]]

Seed(c, k, v) ==
  LET d == EnsureEntry(c, k)
  IN IF ~Has(d, k) THEN d
     ELSE [d EXCEPT !.entry[k] = [@ EXCEPT !.has = TRUE, !.seen = {v}, !.loading = FALSE,
                                            !.error = FALSE, !.stale = FALSE, !.fetchedIn = 0]]

-----------------------------------------------------------------------------
EmptyCache == [held |-> {}, older |-> [k \in Keys |-> {}],
               entry |-> [k \in Keys |-> NewEntry]]

Init ==
  /\ session = 1
  /\ cache = EmptyCache
  /\ mounted = {}
  /\ listening = {}
  /\ writes = <<>>
  /\ committed = {}
  /\ inbox = <<>>
  /\ mutations = {}
  /\ excused = [g \in Gaps |-> {}]

(* useQuery: render, subscribe, then the effect that fetches what is absent  *)
(* or stale.  A listener set on an evicted entry hears nothing.              *)
Mount(k) ==
  LET c == EnsureEntry(cache, k)
  IN /\ k \notin mounted
     /\ Exists(k)
     /\ mounted' = mounted \cup {k}
     /\ listening' = IF Has(c, k) THEN listening \cup {k} ELSE listening
     /\ cache' = IF ~c.entry[k].has \/ c.entry[k].stale THEN Fetch(c, k) ELSE c
     /\ UNCHANGED <<session, writes, committed, inbox, mutations>>
     /\ ExcuseNothing

Unmount(k) ==
  /\ k \in mounted
  /\ mounted' = mounted \ {k}
  /\ listening' = listening \ {k}
  /\ UNCHANGED <<session, cache, writes, committed, inbox, mutations, excused>>

(* refetch, behind every "Try again".                                        *)
Refetch(k) ==
  /\ k \in mounted
  /\ cache' = Fetch(cache, k)
  /\ cache' # cache
  /\ UNCHANGED <<session, mounted, listening, writes, committed, inbox, mutations>>
  /\ ExcuseNothing

(* The server reads, then the response settles the promise.                  *)
Answer(k) ==
  /\ Entry(k).get = "sent"
  /\ cache' = [cache EXCEPT !.entry[k] = [@ EXCEPT !.get = "answered", !.got = WritesTo(k)]]
  /\ UNCHANGED <<session, mounted, listening, writes, committed, inbox, mutations, excused>>

Pending(v) == v \in {inbox[i].v : i \in 1..Len(inbox)} \/ v \in {m.v : m \in mutations}

Resolve(k) ==
  /\ Entry(k).get = "answered"
  /\ cache' = [cache EXCEPT !.entry[k] =
                 [@ EXCEPT !.has = TRUE, !.seen = Entry(k).got, !.loading = FALSE, !.error = FALSE,
                           !.get = "none", !.got = {}, !.getIn = 0,
                           !.fetchedIn = Entry(k).getIn]]
  /\ UNCHANGED <<session, mounted, listening, writes, committed, inbox, mutations>>
  /\ Excuse("overwritten", {v \in WritesTo(k) : ~Pending(v)})

Reject(k) ==
  /\ Entry(k).get # "none"
  /\ cache' = [cache EXCEPT !.entry[k] =
                 [@ EXCEPT !.loading = FALSE, !.error = TRUE,
                           !.get = "none", !.got = {}, !.getIn = 0]]
  /\ UNCHANGED <<session, mounted, listening, writes, committed, inbox, mutations, excused>>

-----------------------------------------------------------------------------
(* Somebody else writes; the commit is broadcast to this tab.                *)
FrameKinds == {"patch", "refetch", "remove"}

ForeignWrite(k, kind) ==
  LET v == Len(writes) + 1
  IN /\ v <= MaxWrites
     /\ Exists(k)
     /\ writes' = Append(writes, [key |-> k, own |-> FALSE])
     /\ committed' = committed \cup {v}
     /\ inbox' = Append(inbox, [v |-> v, kind |-> kind])
     /\ UNCHANGED <<session, cache, mounted, listening, mutations>>
     /\ ExcuseNothing

(* handleListResourceEvent.  A patch of an entry without data, or one whose  *)
(* item is not in the data, invalidates instead.                             *)
DeliverFrame ==
  /\ inbox # <<>>
  /\ LET f == Head(inbox)
         k == writes[f.v].key
         c == EnsureEntry(cache, k)
     IN \/ /\ f.kind = "patch"
           /\ c.entry[k].has
           /\ cache' = Patch(c, k, f.v)
        \/ f.kind = "patch" /\ cache' = Invalidate(c, k)
        \/ f.kind = "refetch" /\ cache' = Invalidate(cache, k)
        \/ f.kind = "remove" /\ cache' = RemoveList(cache, k)
  /\ inbox' = Tail(inbox)
  /\ UNCHANGED <<session, mounted, listening, writes, committed, mutations>>
  /\ ExcuseNothing

Resync ==
  /\ cache' = InvalidateAll(cache)
  /\ cache' # cache
  /\ UNCHANGED <<session, mounted, listening, writes, committed, inbox, mutations>>
  /\ ExcuseNothing

-----------------------------------------------------------------------------
(* This tab's mutations: sent, then committed or refused, then answered.     *)
(*   patch    updateListName, addListItem, updateListItem, deleteListItem    *)
(*   append   createList, as the summaries cache sees it                     *)
(*   seed     createList, as the detail cache sees it                        *)
(*   remove   deleteList                                                     *)
(*   reorder  reorderListItems, reorderLists: applied before it is sent      *)
MutationKinds == {"patch", "append", "seed", "remove", "reorder"}

Mutate(k, kind) ==
  LET v == Len(writes) + 1
  IN /\ v <= MaxWrites
     /\ IF kind = "seed" THEN k \in NewKeys /\ \A u \in 1..Len(writes) : writes[u].key # k
        ELSE Exists(k)
     /\ kind = "reorder" => k \in mounted /\ Entry(k).has
     /\ writes' = Append(writes, [key |-> k, own |-> TRUE])
     /\ mutations' = mutations \cup
          {[v |-> v, kind |-> kind, in |-> session, previous |-> Entry(k).seen]}
     /\ cache' = IF kind = "reorder" THEN Patch(cache, k, v) ELSE cache
     /\ UNCHANGED <<session, mounted, listening, committed, inbox, excused>>

(* The echo of an own write is ignored; after a sign-in by somebody else it  *)
(* is no longer an own write.                                                *)
EchoKind(kind) ==
  IF kind \in {"patch", "reorder"} THEN "patch"
  ELSE IF kind = "remove" THEN "remove" ELSE "refetch"

CommitMutation(m) ==
  /\ m.v \notin committed
  /\ committed' = committed \cup {m.v}
  /\ inbox' = IF m.in = session THEN inbox
              ELSE Append(inbox, [v |-> m.v, kind |-> EchoKind(m.kind)])
  /\ UNCHANGED <<session, cache, mounted, listening, writes, mutations>>
  /\ ExcuseNothing

Respond(m) ==
  LET k == writes[m.v].key
  IN /\ m.v \in committed
     /\ mutations' = mutations \ {m}
     /\ cache' = IF m.kind = "patch" THEN Patch(cache, k, m.v)
                 ELSE IF m.kind = "append" THEN AppendRow(cache, k, m.v)
                 ELSE IF m.kind = "seed" THEN Seed(cache, k, m.v)
                 ELSE IF m.kind = "remove" THEN RemoveList(cache, k)
                 ELSE cache
     /\ UNCHANGED <<session, mounted, listening, writes, committed, inbox>>
     /\ Excuse("overwritten",
               IF m.kind = "seed" THEN {v \in WritesTo(k) : ~Pending(v)}
               ELSE IF m.kind = "reorder" THEN {m.v} ELSE {})

(* The catch of a mutation: refused, or committed with its response lost.  A *)
(* refused reorder goes back to its snapshot, and on a 409 refetches.        *)
RollBack(c, k, m) ==
  IF m.kind = "reorder" /\ c.entry[k].has
  THEN [c EXCEPT !.entry[k] = [@ EXCEPT !.seen = m.previous, !.loading = FALSE]]
  ELSE c

Fail(m, conflict) ==
  LET k == writes[m.v].key
      c == RollBack(cache, k, m)
  IN /\ conflict => m.kind = "reorder" /\ m.v \notin committed
     /\ mutations' = mutations \ {m}
     /\ cache' = IF conflict THEN Invalidate(c, k) ELSE c
     /\ UNCHANGED <<session, mounted, listening, writes, committed, inbox>>
     /\ excused' = [g \in Gaps |->
                      (excused[g] \cup (IF g = "unanswered" THEN {m.v}
                                        ELSE IF g = "rolledback" /\ m.kind = "reorder"
                                        THEN WritesTo(k) ELSE {}))
                      \cap UNION {Missing(j)' : j \in Keys}]

-----------------------------------------------------------------------------
ResetInPlace ==
  /\ session < MaxSessions
  /\ session' = session + 1
  /\ cache' = [cache EXCEPT !.entry = [k \in Keys |->
                 [NewEntry EXCEPT !.get = Entry(k).get, !.got = Entry(k).got,
                                  !.getIn = Entry(k).getIn]]]
  /\ mounted' = {}
  /\ listening' = {}
  /\ inbox' = <<>>
  /\ UNCHANGED <<writes, committed, mutations>>
  /\ ExcuseNothing

(* resetSessionData at an auth boundary: the Map is cleared, the components  *)
(* of the old session unmount, its stream closes.                            *)
Reset ==
  /\ session < MaxSessions
  /\ session' = session + 1
  /\ cache' = EmptyCache
  /\ mounted' = {}
  /\ listening' = {}
  /\ inbox' = <<>>
  /\ UNCHANGED <<writes, committed, mutations>>
  /\ ExcuseNothing

Next ==
  \/ \E k \in Keys : \/ Mount(k) \/ Unmount(k) \/ Refetch(k)
                     \/ Answer(k) \/ Resolve(k) \/ Reject(k)
                     \/ \E kind \in FrameKinds : ForeignWrite(k, kind)
                     \/ \E kind \in MutationKinds : Mutate(k, kind)
  \/ \E m \in mutations : \/ CommitMutation(m) \/ Respond(m)
                          \/ \E conflict \in BOOLEAN : Fail(m, conflict)
  \/ DeliverFrame
  \/ Resync
  \/ Reset

Spec == Init /\ [][Next]_vars

-----------------------------------------------------------------------------
EntryType ==
  [has : BOOLEAN, seen : SUBSET Writes, loading : BOOLEAN, error : BOOLEAN, stale : BOOLEAN,
   get : {"none", "sent", "answered"}, got : SUBSET Writes, getIn : 0..MaxSessions,
   fetchedIn : 0..MaxSessions]

(* The entries inserted before k: for the keys held a strict total order.    *)
OrderSound(k) ==
  /\ cache.older[k] \subseteq Entries
  /\ k \notin Entries => cache.older[k] = {}
  /\ \A j \in cache.older[k] : j # k /\ cache.older[j] \subseteq cache.older[k]
  /\ k \in Entries => \A j \in Entries : j = k \/ j \in cache.older[k] \/ k \in cache.older[j]

TypeOK ==
  /\ session \in 1..MaxSessions
  /\ cache.entry \in [Keys -> EntryType] /\ cache.older \in [Keys -> SUBSET Keys]
  /\ Entries \subseteq Keys
  /\ \A k \in Keys : OrderSound(k)
  /\ \A k \in Keys \ Entries : Entry(k) = NewEntry
  /\ listening \subseteq mounted /\ mounted \subseteq Keys
  /\ listening \subseteq Entries
  /\ committed \subseteq 1..Len(writes)
  /\ excused \in [Gaps -> SUBSET Writes]

(* A response never outlives its session: cached data a GET brought is the   *)
(* current user's, whatever was in flight at the boundary (reset drops the   *)
(* entries, so old responses settle into objects nobody reads).              *)
FetchIsolation == \A k \in Keys : Entry(k).fetchedIn \in {0, session}

(* A spinner ends: an entry shows loading only while a request is in flight, *)
(* whatever patched, invalidated or failed it meanwhile.                     *)
SpinnerEnds == \A k \in Keys : Entry(k).loading => Entry(k).get # "none"

(* Nothing that happens to the cache, short of a session boundary, takes     *)
(* away an entry a component listens to or a request will settle into.       *)
PinnedSurvive ==
  [][session' = session =>
       \A k \in Entries : (k \in listening \/ Entry(k).get # "none") => k \in Entries']_vars

(* Settled(k): no frame, mutation or request concerning k is under way.      *)
Settled(k) ==
  /\ Entry(k).get = "none"
  /\ \A v \in 1..Len(writes) : writes[v].key = k => ~Pending(v)

(* "Neither applied nor recorded" (handleListResourceEvent) happens only in  *)
(* the named gaps: settled data is complete, or marked stale or failed.      *)
LossesRecorded ==
  \A k \in Keys :
    Settled(k) /\ ~Entry(k).stale /\ ~Entry(k).error
    => Missing(k) \subseteq UNION {excused[g] : g \in Gaps}

(* The cache of createScopedQuery holds one entry per key, shows nobody the  *)
(* rows another session fetched, and shows a spinner only for a request that *)
(* is really under way.                                                      *)
CacheSound == TypeOK /\ FetchIsolation /\ SpinnerEnds
=============================================================================
