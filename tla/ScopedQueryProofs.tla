------------------------- MODULE ScopedQueryProofs --------------------------
(***************************************************************************)
(* What ScopedQuery promises for all sets of keys, every cap and any number*)
(* of writes and sessions: the invariants and the action property of its   *)
(* run, as theorems.                                                       *)
(***************************************************************************)
EXTENDS ScopedQuery, TLAPS

(* The records of what is under way.                                         *)
WriteRecords == [key : Keys, own : BOOLEAN]
Frames == [v : Writes, kind : FrameKinds]
Mutations == [v : Writes, kind : MutationKinds, in : 1..MaxSessions, previous : SUBSET Writes]

Drawn == 1..Len(writes)
Traffic == /\ writes \in Seq(WriteRecords) /\ Len(writes) <= MaxWrites
           /\ inbox \in Seq(Frames) /\ \A i \in 1..Len(inbox) : inbox[i].v \in Drawn
           /\ mutations \subseteq Mutations /\ \A m \in mutations : m.v \in Drawn

(* An entry something will fetch: a request, a mark or an error is on it.    *)
Repaired(e) == e.get # "none" \/ e.stale \/ e.error

(* What an entry of this session says.                                       *)
EntrySound(e) == /\ e \in EntryType
                 /\ e.get # "none" => e.getIn = session
                 /\ e.fetchedIn \in {0, session}
                 /\ e.loading => e.get # "none"

(* The Map: its order, and the entries of the keys it holds.                 *)
OrderedAt(c, k) ==
  /\ c.older[k] \subseteq c.held
  /\ k \notin c.held => c.older[k] = {}
  /\ \A j \in c.older[k] : j # k /\ c.older[j] \subseteq c.older[k]
  /\ k \in c.held => \A j \in c.held : j = k \/ j \in c.older[k] \/ k \in c.older[j]
HeldAt(c, k) == /\ EntrySound(c.entry[k])
                /\ k \notin c.held => c.entry[k] = NewEntry
MapShape(c) == /\ c \in [held : SUBSET Keys, older : [Keys -> SUBSET Keys],
                         entry : [Keys -> EntryType]]
               /\ \A k \in Keys : OrderedAt(c, k)
MapSound(c) == MapShape(c) /\ \A k \in Keys : HeldAt(c, k)

(* A held entry without data will get some.                                  *)
Awaited(c, k) == k \in c.held /\ ~c.entry[k].has => Repaired(c.entry[k])

(* A write that data lacks is on its way, or in a named gap.                 *)
Excused(v) == \E g \in Gaps : v \in excused[g]
Accounted(k) ==
  ~Repaired(Entry(k)) => \A v \in Missing(k) : Pending(v) \/ Excused(v)

QInv == /\ session \in 1..MaxSessions
        /\ MapSound(cache)
        /\ listening \subseteq mounted /\ mounted \subseteq Keys
        /\ listening \subseteq Entries
        /\ Traffic
        /\ committed \subseteq Drawn
        /\ excused \in [Gaps -> SUBSET Writes]
        /\ \A k \in Keys : Awaited(cache, k)
        /\ \A k \in Keys : Accounted(k)

-----------------------------------------------------------------------------
(* Lemmas about the operations of the cache.                                 *)

(* A new entry says nothing.                                                 *)
LEMMA NewEntrySound ==
  ASSUME session \in 1..MaxSessions
  PROVE  EntrySound(NewEntry) /\ ~NewEntry.has /\ NewEntry.get = "none"
BY ScopedQueryAssumption DEF EntrySound, EntryType, NewEntry

(* An entry that was fetched has a request of this session.                  *)
LEMMA AskedSound ==
  ASSUME session \in 1..MaxSessions, NEW e, EntrySound(e)
  PROVE  /\ EntrySound(Asked(e)) /\ Asked(e).get # "none" /\ Repaired(Asked(e))
         /\ Asked(e).has = e.has /\ Asked(e).seen = e.seen
<1>1. CASE e.get # "none"
  BY <1>1 DEF Asked, Repaired
<1>2. CASE e.get = "none"
  <2>1. e \in EntryType
    BY DEF EntrySound
  <2>2. /\ Asked(e).has = e.has /\ Asked(e).seen = e.seen /\ Asked(e).error = FALSE
        /\ Asked(e).stale = FALSE /\ Asked(e).get = "sent" /\ Asked(e).getIn = session
        /\ Asked(e).got = e.got /\ Asked(e).fetchedIn = e.fetchedIn
    BY <1>2, <2>1 DEF Asked, EntryType
  <2>3. Asked(e) \in EntryType
    <3>1. (IF e.has THEN e.loading /\ ~e.error ELSE TRUE) \in BOOLEAN
      BY <2>1 DEF EntryType
    <3>2. session \in 0..MaxSessions
      BY ScopedQueryAssumption
    <3>3. ASSUME NEW b \in BOOLEAN, NEW s \in 0..MaxSessions
          PROVE  [e EXCEPT !.loading = b, !.error = FALSE, !.stale = FALSE, !.get = "sent",
                           !.getIn = s] \in EntryType
      BY <2>1 DEF EntryType
    <3>4. QED BY <1>2, <3>1, <3>2, <3>3 DEF Asked
  <2>4. QED BY <2>2, <2>3 DEF EntrySound, Repaired
<1>3. QED BY <1>1, <1>2

(* A stale entry will be fetched by its next reader.                         *)
LEMMA StaleSound ==
  ASSUME NEW e, EntrySound(e)
  PROVE  /\ EntrySound(Stale(e)) /\ Repaired(Stale(e))
         /\ Stale(e).has = e.has /\ Stale(e).seen = e.seen /\ Stale(e).get = e.get
BY DEF EntrySound, EntryType, Stale, Repaired

(* Moving some entries behind the others leaves the order one.               *)
LEMMA MovedOrdered ==
  ASSUME NEW c, MapShape(c), NEW S \in SUBSET c.held
  PROVE  /\ Moved(c, S) \in [Keys -> SUBSET Keys]
         /\ \A k \in Keys : OrderedAt([held |-> c.held, older |-> Moved(c, S)], k)
<1> DEFINE M == Moved(c, S)
<1>1. /\ c.held \subseteq Keys /\ c.older \in [Keys -> SUBSET Keys]
      /\ \A k \in Keys : OrderedAt(c, k)
  BY DEF MapShape
<1>2. /\ \A k \in S : M[k] = (c.held \ S) \cup (c.older[k] \cap S)
      /\ \A k \in Keys \ S : M[k] = c.older[k] \ S
      /\ M \in [Keys -> SUBSET Keys]
  BY <1>1 DEF Moved
<1>3. ASSUME NEW k \in Keys PROVE OrderedAt([held |-> c.held, older |-> M], k)
  <2>1. M[k] \subseteq c.held /\ (k \notin c.held => M[k] = {})
    BY <1>1, <1>2 DEF OrderedAt
  <2>2. ASSUME NEW j \in M[k] PROVE j # k /\ M[j] \subseteq M[k]
    <3>1. j \in Keys /\ j \in c.held
      BY <1>1, <2>1
    <3>2. CASE k \in S /\ j \in S
      BY <1>1, <1>2, <3>1, <3>2 DEF OrderedAt
    <3>3. CASE k \in S /\ j \notin S
      BY <1>1, <1>2, <3>1, <3>3 DEF OrderedAt
    <3>4. CASE k \notin S
      BY <1>1, <1>2, <3>1, <3>4 DEF OrderedAt
    <3>5. QED BY <3>2, <3>3, <3>4
  <2>3. k \in c.held => \A j \in c.held : j = k \/ j \in M[k] \/ k \in M[j]
    BY <1>1, <1>2 DEF OrderedAt
  <2>4. QED BY <2>1, <2>2, <2>3 DEF OrderedAt
<1>4. QED BY <1>2, <1>3

(* What an operation on k leaves of the other entries: a pinned entry stays  *)
(* in the Map, every other one stays as it was or is dropped whole.          *)
PinnedStay(c, d) == \A j \in c.held : Pinned(c, j) => j \in d.held
KeptAt(c, d, j) == \/ d.entry[j] = c.entry[j] /\ (j \in d.held => j \in c.held)
                   \/ j \notin d.held /\ d.entry[j] = NewEntry
OthersKept(c, d, k) == PinnedStay(c, d) /\ \A j \in Keys \ {k} : KeptAt(c, d, j)

(* The Map without some of its keys.                                         *)
Without(c, S) == [held |-> c.held \ S,
                  older |-> [k \in Keys |-> IF k \in S THEN {} ELSE c.older[k] \ S],
                  entry |-> [k \in Keys |-> IF k \in S THEN NewEntry ELSE c.entry[k]]]

(* evictColdEntries drops entries that nothing pins, and keeps the order.    *)
LEMMA EvictSound ==
  ASSUME session \in 1..MaxSessions, NEW c, MapSound(c)
  PROVE  LET d == EvictColdEntries(c)
         IN /\ MapSound(d) /\ PinnedStay(c, d) /\ d.held \subseteq c.held
            /\ \A j \in Keys : d.entry[j] = IF j \in c.held \ d.held THEN NewEntry ELSE c.entry[j]
<1>1. PICK S \in SUBSET {k \in c.held : ~Pinned(c, k)} : EvictColdEntries(c) = Without(c, S)
  BY DEF EvictColdEntries, Without
<1> DEFINE d == Without(c, S)
<1>2. /\ c.held \subseteq Keys /\ c.older \in [Keys -> SUBSET Keys]
      /\ c.entry \in [Keys -> EntryType]
      /\ \A k \in Keys : OrderedAt(c, k) /\ HeldAt(c, k)
  BY DEF MapSound, MapShape
<1>3. /\ d.held = c.held \ S
      /\ \A k \in Keys : /\ d.older[k] = IF k \in S THEN {} ELSE c.older[k] \ S
                         /\ d.entry[k] = IF k \in S THEN NewEntry ELSE c.entry[k]
  BY DEF Without
<1>4. d \in [held : SUBSET Keys, older : [Keys -> SUBSET Keys], entry : [Keys -> EntryType]]
  <2>1. NewEntry \in EntryType
    BY NewEntrySound DEF EntrySound
  <2>2. [k \in Keys |-> IF k \in S THEN {} ELSE c.older[k] \ S] \in [Keys -> SUBSET Keys]
    BY <1>2
  <2>3. [k \in Keys |-> IF k \in S THEN NewEntry ELSE c.entry[k]] \in [Keys -> EntryType]
    BY <1>2, <2>1
  <2>4. c.held \ S \in SUBSET Keys
    BY <1>2
  <2>5. QED BY <2>2, <2>3, <2>4 DEF Without
<1>5. ASSUME NEW k \in Keys PROVE OrderedAt(d, k)
  <2>1. CASE k \in S
    BY <1>3, <2>1 DEF OrderedAt
  <2>2. CASE k \notin S
    <3> HIDE DEF d
    <3>1. OrderedAt(c, k) /\ d.older[k] = c.older[k] \ S /\ d.held = c.held \ S /\ k \notin S
      BY <1>2, <1>3, <2>2
    <3>2. d.older[k] \subseteq d.held /\ (k \notin d.held => d.older[k] = {})
      BY <3>1 DEF OrderedAt
    <3>3. ASSUME NEW j \in d.older[k] PROVE j # k /\ d.older[j] \subseteq d.older[k]
      <4>1. j \in Keys /\ j \in c.older[k] /\ j \notin S
        BY <1>2, <3>1, <3>2
      <4>2. d.older[j] = c.older[j] \ S
        BY <1>3, <4>1
      <4>3. QED BY <3>1, <4>1, <4>2 DEF OrderedAt
    <3>4. ASSUME NEW j \in d.held PROVE k \in d.held => j = k \/ j \in d.older[k] \/ k \in d.older[j]
      <4>1. j \in Keys /\ j \in c.held /\ j \notin S
        BY <1>2, <3>1
      <4>2. d.older[j] = c.older[j] \ S
        BY <1>3, <4>1
      <4>3. QED BY <3>1, <4>1, <4>2 DEF OrderedAt
    <3>5. QED BY <3>2, <3>3, <3>4 DEF OrderedAt
  <2>3. QED BY <2>1, <2>2
<1>6. ASSUME NEW k \in Keys PROVE HeldAt(d, k)
  BY <1>2, <1>3, NewEntrySound DEF HeldAt
<1>7. MapSound(d)
  BY <1>4, <1>5, <1>6 DEF MapSound, MapShape
<1>8. /\ PinnedStay(c, d) /\ d.held \subseteq c.held
      /\ \A j \in Keys : d.entry[j] = IF j \in c.held \ d.held THEN NewEntry ELSE c.entry[j]
  BY <1>3 DEF PinnedStay
<1> HIDE DEF d
<1>9. EvictColdEntries(c) = d
  BY <1>1 DEF d
<1>10. QED BY <1>7, <1>8, <1>9

(* ensureEntry inserts a key last, and may drop it at once.                  *)
LEMMA EnsureSound ==
  ASSUME session \in 1..MaxSessions, NEW c, MapSound(c), NEW k \in Keys
  PROVE  LET d == EnsureEntry(c, k)
         IN /\ MapSound(d) /\ PinnedStay(c, d) /\ d.held \subseteq c.held \cup {k}
            /\ k \in c.held => d = c
            /\ \A j \in Keys : KeptAt(c, d, j) \/ (j = k /\ d.entry[k] = c.entry[k])
<1>1. CASE k \in c.held
  BY <1>1 DEF EnsureEntry, Has, PinnedStay, KeptAt
<1>2. CASE k \notin c.held
  <2> DEFINE i == [c EXCEPT !.held = @ \cup {k}, !.older[k] = c.held]
             d == EvictColdEntries(i)
  <2>1. /\ c.held \subseteq Keys /\ c.older \in [Keys -> SUBSET Keys]
        /\ c \in [held : SUBSET Keys, older : [Keys -> SUBSET Keys], entry : [Keys -> EntryType]]
        /\ \A j \in Keys : OrderedAt(c, j) /\ HeldAt(c, j)
    BY DEF MapSound, MapShape
  <2>2. /\ i.held = c.held \cup {k} /\ i.entry = c.entry
        /\ i.older = [c.older EXCEPT ![k] = c.held]
        /\ i \in [held : SUBSET Keys, older : [Keys -> SUBSET Keys], entry : [Keys -> EntryType]]
    <3>1. i.held = c.held \cup {k} /\ i.entry = c.entry /\ i.older = [c.older EXCEPT ![k] = c.held]
      BY <2>1
    <3>2. c.held \cup {k} \in SUBSET Keys /\ [c.older EXCEPT ![k] = c.held] \in [Keys -> SUBSET Keys]
      BY <2>1
    <3>3. ASSUME NEW H \in SUBSET Keys, NEW O \in [Keys -> SUBSET Keys]
          PROVE  [c EXCEPT !.held = H, !.older = O]
                   \in [held : SUBSET Keys, older : [Keys -> SUBSET Keys], entry : [Keys -> EntryType]]
      BY <2>1
    <3>4. i = [c EXCEPT !.held = c.held \cup {k}, !.older = [c.older EXCEPT ![k] = c.held]]
      BY <2>1
    <3>5. QED BY <3>1, <3>2, <3>3, <3>4
  <2>3. ASSUME NEW j \in Keys PROVE OrderedAt(i, j)
    BY <1>2, <2>1, <2>2 DEF OrderedAt
  <2>4. ASSUME NEW j \in Keys PROVE HeldAt(i, j)
    BY <2>1, <2>2 DEF HeldAt
  <2>5. MapSound(i)
    BY <2>2, <2>3, <2>4 DEF MapSound, MapShape
  <2>6. /\ MapSound(d) /\ PinnedStay(i, d) /\ d.held \subseteq i.held
        /\ \A j \in Keys : d.entry[j] = IF j \in i.held \ d.held THEN NewEntry ELSE i.entry[j]
    BY <2>5, EvictSound
  <2>7. EnsureEntry(c, k) = d
    BY <1>2 DEF EnsureEntry, Has
  <2> HIDE DEF d, i
  <2>8. PinnedStay(c, d)
    BY <2>2, <2>6 DEF PinnedStay, Pinned
  <2>9. c.entry[k] = NewEntry
    BY <1>2, <2>1 DEF HeldAt
  <2>10. \A j \in Keys : KeptAt(c, d, j) \/ (j = k /\ d.entry[k] = c.entry[k])
    BY <2>1, <2>2, <2>6, <2>9 DEF KeptAt, HeldAt
  <2>11. QED BY <1>2, <2>2, <2>6, <2>7, <2>8, <2>10
<1>3. QED BY <1>1, <1>2

(* Putting a sound entry in the place of a held one.                         *)
LEMMA SetEntry ==
  ASSUME NEW c, MapSound(c), NEW k \in c.held, NEW e, EntrySound(e)
  PROVE  LET d == [c EXCEPT !.entry[k] = e]
         IN /\ MapSound(d) /\ d.held = c.held /\ k \in Keys
            /\ d.entry[k] = e /\ \A j \in Keys \ {k} : d.entry[j] = c.entry[j]
<1> DEFINE d == [c EXCEPT !.entry[k] = e]
<1>1. /\ c \in [held : SUBSET Keys, older : [Keys -> SUBSET Keys], entry : [Keys -> EntryType]]
      /\ k \in Keys /\ \A j \in Keys : OrderedAt(c, j) /\ HeldAt(c, j)
  BY DEF MapSound, MapShape
<1>2. e \in EntryType
  BY DEF EntrySound
<1>3. [c.entry EXCEPT ![k] = e] \in [Keys -> EntryType]
  BY <1>1, <1>2
<1>4. ASSUME NEW E \in [Keys -> EntryType]
      PROVE  [c EXCEPT !.entry = E]
               \in [held : SUBSET Keys, older : [Keys -> SUBSET Keys], entry : [Keys -> EntryType]]
  BY <1>1
<1>5. d = [c EXCEPT !.entry = [c.entry EXCEPT ![k] = e]]
  BY <1>1
<1>6. /\ d.held = c.held /\ d.older = c.older /\ d.entry = [c.entry EXCEPT ![k] = e]
      /\ d \in [held : SUBSET Keys, older : [Keys -> SUBSET Keys], entry : [Keys -> EntryType]]
  BY <1>1, <1>3, <1>4, <1>5
<1> HIDE DEF d
<1>7. d.entry[k] = e /\ \A j \in Keys \ {k} : d.entry[j] = c.entry[j]
  BY <1>1, <1>6
<1>8. \A j \in Keys : OrderedAt(d, j)
  BY <1>1, <1>6 DEF OrderedAt
<1>9. \A j \in Keys : HeldAt(d, j)
  BY <1>1, <1>6, <1>7 DEF HeldAt
<1>10. MapSound(d)
  BY <1>6, <1>8, <1>9 DEF MapSound, MapShape
<1>11. QED BY <1>1, <1>6, <1>7, <1>10 DEF d

(* touch and the order of a refetch move entries, and nothing else.          *)
LEMMA MoveSound ==
  ASSUME NEW c, MapSound(c), NEW S \in SUBSET c.held
  PROVE  LET d == [c EXCEPT !.older = Moved(c, S)]
         IN MapSound(d) /\ d.held = c.held /\ d.entry = c.entry
<1> DEFINE d == [c EXCEPT !.older = Moved(c, S)]
<1>1. /\ c \in [held : SUBSET Keys, older : [Keys -> SUBSET Keys], entry : [Keys -> EntryType]]
      /\ MapShape(c) /\ \A j \in Keys : HeldAt(c, j)
  BY DEF MapSound, MapShape
<1>2. /\ Moved(c, S) \in [Keys -> SUBSET Keys]
      /\ \A j \in Keys : OrderedAt([held |-> c.held, older |-> Moved(c, S)], j)
  BY <1>1, MovedOrdered
<1>3. /\ d.held = c.held /\ d.entry = c.entry /\ d.older = Moved(c, S)
      /\ d \in [held : SUBSET Keys, older : [Keys -> SUBSET Keys], entry : [Keys -> EntryType]]
  BY <1>1, <1>2
<1> HIDE DEF d
<1>4. \A j \in Keys : OrderedAt(d, j) /\ HeldAt(d, j)
  BY <1>1, <1>2, <1>3 DEF OrderedAt, HeldAt
<1>5. QED BY <1>3, <1>4 DEF d, MapSound, MapShape

(* fetch leaves the entry with a request, or drops it at once.               *)
LEMMA FetchSound ==
  ASSUME session \in 1..MaxSessions, NEW c, MapSound(c), NEW k \in Keys
  PROVE  LET d == Fetch(c, k)
         IN /\ MapSound(d) /\ OthersKept(c, d, k) /\ d.held \subseteq c.held \cup {k}
            /\ k \in d.held => d.entry[k] = Asked(c.entry[k]) /\ Repaired(d.entry[k])
            /\ k \in c.held => k \in d.held
<1> DEFINE n == EnsureEntry(c, k)
           t == Touch(n, k)
           d == Fetch(c, k)
<1>1. /\ MapSound(n) /\ PinnedStay(c, n) /\ n.held \subseteq c.held \cup {k}
      /\ \A j \in Keys : KeptAt(c, n, j) \/ (j = k /\ n.entry[k] = c.entry[k])
      /\ k \in c.held => n = c
  BY EnsureSound
<1>2. CASE k \notin n.held
  <2>1. d = n
    BY <1>2 DEF Fetch, Has
  <2>2. QED BY <1>1, <1>2, <2>1 DEF OthersKept
<1>3. CASE k \in n.held
  <2>1. MapSound(t) /\ t.held = n.held /\ t.entry = n.entry
    BY <1>1, <1>3, MoveSound DEF Touch
  <2>2. n.entry[k] = c.entry[k] /\ EntrySound(c.entry[k])
    BY <1>1, <1>3 DEF KeptAt, MapSound, HeldAt
  <2>3. EntrySound(Asked(c.entry[k])) /\ Repaired(Asked(c.entry[k]))
    BY <2>2, AskedSound
  <2>4. d = [t EXCEPT !.entry[k] = Asked(c.entry[k])]
    BY <1>3, <2>1, <2>2 DEF Fetch, Has
  <2> HIDE DEF t, n, d
  <2>5. /\ MapSound(d) /\ d.held = t.held /\ d.entry[k] = Asked(c.entry[k])
        /\ \A j \in Keys \ {k} : d.entry[j] = t.entry[j]
    BY <1>3, <2>1, <2>3, <2>4, SetEntry
  <2>6. PinnedStay(c, d)
    BY <1>1, <2>1, <2>5 DEF PinnedStay
  <2>7. \A j \in Keys \ {k} : KeptAt(c, d, j)
    BY <1>1, <2>1, <2>5 DEF KeptAt
  <2>8. QED BY <1>1, <2>1, <2>3, <2>5, <2>6, <2>7 DEF OthersKept, d
<1>4. QED BY <1>2, <1>3

(* invalidateWhere for one entry: it is marked or fetched.                   *)
LEMMA InvalidateSound ==
  ASSUME session \in 1..MaxSessions, NEW c, MapSound(c), NEW k \in Keys
  PROVE  LET d == Invalidate(c, k)
         IN /\ MapSound(d) /\ OthersKept(c, d, k) /\ d.held \subseteq c.held
            /\ k \in d.held => Repaired(d.entry[k])
<1> DEFINE s == [c EXCEPT !.entry[k] = Stale(@)]
           d == Invalidate(c, k)
<1>1. CASE k \notin c.held
  <2>1. d = c
    BY <1>1 DEF Invalidate, Has
  <2>2. QED BY <1>1, <2>1 DEF OthersKept, PinnedStay, KeptAt
<1>2. CASE k \in c.held
  <2>1. EntrySound(c.entry[k])
    BY DEF MapSound, HeldAt
  <2>2. EntrySound(Stale(c.entry[k])) /\ Repaired(Stale(c.entry[k]))
        /\ Stale(c.entry[k]).get = c.entry[k].get
    BY <2>1, StaleSound
  <2>3. s = [c EXCEPT !.entry[k] = Stale(c.entry[k])]
    OBVIOUS
  <2> HIDE DEF s
  <2>4. /\ MapSound(s) /\ s.held = c.held /\ s.entry[k] = Stale(c.entry[k])
        /\ \A j \in Keys \ {k} : s.entry[j] = c.entry[j]
    BY <1>2, <2>2, <2>3, SetEntry
  <2>5. \A j \in Keys : Pinned(c, j) <=> Pinned(s, j)
    BY <2>2, <2>4 DEF Pinned
  <2>6. CASE k \notin listening
    <3>1. d = s
      BY <1>2, <2>6 DEF Invalidate, Has, s
    <3>2. QED BY <2>2, <2>4, <3>1 DEF OthersKept, PinnedStay, KeptAt
  <2>7. CASE k \in listening
    <3>1. d = Fetch(s, k)
      BY <1>2, <2>7 DEF Invalidate, Has, s
    <3>2. /\ MapSound(d) /\ OthersKept(s, d, k) /\ d.held \subseteq s.held \cup {k}
          /\ k \in d.held => Repaired(d.entry[k])
      BY <2>4, <3>1, FetchSound
    <3> HIDE DEF d
    <3>3. c.held \subseteq Keys
      BY DEF MapSound, MapShape
    <3>4. OthersKept(c, d, k)
      BY <2>4, <2>5, <3>2, <3>3 DEF OthersKept, PinnedStay, KeptAt
    <3>5. QED BY <1>2, <2>4, <3>2, <3>4 DEF d
  <2>8. QED BY <2>6, <2>7
<1>3. QED BY <1>1, <1>2

(* invalidateWhere for all of them: every entry held is marked or fetched.   *)
LEMMA InvalidateAllSound ==
  ASSUME session \in 1..MaxSessions, NEW c, MapSound(c), listening \subseteq c.held
  PROVE  LET d == InvalidateAll(c)
         IN /\ MapSound(d) /\ d.held = c.held
            /\ \A j \in c.held : Repaired(d.entry[j])
            /\ \A j \in Keys \ c.held : d.entry[j] = NewEntry
<1> DEFINE m == [c EXCEPT !.older = Moved(c, listening)]
           E == [k \in Keys |-> IF ~Has(c, k) THEN c.entry[k]
                                ELSE IF k \in listening THEN Asked(Stale(c.entry[k]))
                                ELSE Stale(c.entry[k])]
           d == InvalidateAll(c)
<1>1. /\ c \in [held : SUBSET Keys, older : [Keys -> SUBSET Keys], entry : [Keys -> EntryType]]
      /\ \A j \in Keys : HeldAt(c, j)
  BY DEF MapSound, MapShape
<1>2. MapSound(m) /\ m.held = c.held /\ m.entry = c.entry
  BY MoveSound
<1>3. ASSUME NEW j \in Keys
      PROVE  /\ EntrySound(E[j]) /\ (j \in c.held => Repaired(E[j]))
             /\ j \notin c.held => E[j] = NewEntry
  <2>1. EntrySound(c.entry[j]) /\ (j \notin c.held => c.entry[j] = NewEntry)
    BY <1>1 DEF HeldAt
  <2>2. EntrySound(Stale(c.entry[j])) /\ Repaired(Stale(c.entry[j]))
    BY <2>1, StaleSound
  <2>3. EntrySound(Asked(Stale(c.entry[j]))) /\ Repaired(Asked(Stale(c.entry[j])))
    BY <2>2, AskedSound
  <2>4. QED BY <2>1, <2>2, <2>3 DEF Has
<1>4. E \in [Keys -> EntryType]
  BY <1>3 DEF EntrySound
<1>5. d = [m EXCEPT !.entry = E]
  BY <1>1 DEF InvalidateAll
<1>6. /\ d.held = c.held /\ d.older = m.older /\ d.entry = E
      /\ d \in [held : SUBSET Keys, older : [Keys -> SUBSET Keys], entry : [Keys -> EntryType]]
  <2>1. m \in [held : SUBSET Keys, older : [Keys -> SUBSET Keys], entry : [Keys -> EntryType]]
    BY <1>2 DEF MapSound, MapShape
  <2> HIDE DEF d, m, E
  <2>2. QED BY <1>2, <1>4, <1>5, <2>1
<1> HIDE DEF d, m, E
<1>7. \A j \in Keys : OrderedAt(d, j)
  BY <1>2, <1>6 DEF OrderedAt, MapSound, MapShape
<1>8. \A j \in Keys : HeldAt(d, j)
  BY <1>3, <1>6 DEF HeldAt
<1>9. c.held \subseteq Keys
  BY <1>1
<1>10. QED BY <1>3, <1>6, <1>7, <1>8, <1>9 DEF d, MapSound, MapShape

(* An operation that changes nothing but the entry of k.                     *)
Edited(c, d, k) == MapSound(d) /\ d.held = c.held /\ OthersKept(c, d, k)

(* What it says of the entry besides its data.                               *)
SameMarks(e, f) == f.get = e.get /\ f.stale = e.stale /\ f.error = e.error

(* The entry of a held key is replaced.                                      *)
LEMMA EditEntry ==
  ASSUME NEW c, MapSound(c), NEW k \in c.held, NEW e, EntrySound(e)
  PROVE  LET d == [c EXCEPT !.entry[k] = e] IN Edited(c, d, k) /\ d.entry[k] = e
<1> DEFINE d == [c EXCEPT !.entry[k] = e]
<1>1. /\ MapSound(d) /\ d.held = c.held /\ k \in Keys /\ d.entry[k] = e
      /\ \A j \in Keys \ {k} : d.entry[j] = c.entry[j]
  BY SetEntry
<1> HIDE DEF d
<1>2. QED BY <1>1 DEF Edited, OthersKept, PinnedStay, KeptAt, d

(* No edit is one, too.                                                      *)
LEMMA EditNothing ==
  ASSUME NEW c, MapSound(c), NEW k \in Keys
  PROVE  Edited(c, c, k)
BY DEF Edited, OthersKept, PinnedStay, KeptAt

(* A key that is not held has an entry that says nothing.                    *)
LEMMA HeldFields ==
  ASSUME session \in 1..MaxSessions, NEW c, MapSound(c), NEW k \in Keys
  PROVE  /\ EntrySound(c.entry[k]) /\ c.entry[k] \in EntryType /\ c.held \subseteq Keys
         /\ c \in [held : SUBSET Keys, older : [Keys -> SUBSET Keys], entry : [Keys -> EntryType]]
         /\ k \notin c.held => c.entry[k] = NewEntry /\ ~c.entry[k].has /\ c.entry[k].get = "none"
BY NewEntrySound DEF MapSound, MapShape, HeldAt, EntrySound

(* A patch adds a write to what is loaded.                                   *)
LEMMA PatchSound ==
  ASSUME session \in 1..MaxSessions, NEW c, MapSound(c), NEW k \in Keys, NEW v \in Writes
  PROVE  LET d == Patch(c, k, v)
             e == c.entry[k]
             f == d.entry[k]
         IN /\ Edited(c, d, k) /\ SameMarks(e, f) /\ f.has = e.has
            /\ f.seen = IF e.has THEN e.seen \cup {v} ELSE e.seen
<1> DEFINE e == c.entry[k]
           p == [e EXCEPT !.seen = @ \cup {v}, !.loading = FALSE]
           d == Patch(c, k, v)
<1>1. CASE ~e.has
  BY <1>1, EditNothing DEF Patch, SameMarks
<1>2. CASE e.has
  <2>1. k \in c.held /\ EntrySound(e) /\ e \in EntryType
    BY <1>2, HeldFields
  <2>2. /\ EntrySound(p) /\ p.has = e.has /\ p.seen = e.seen \cup {v} /\ SameMarks(e, p)
    BY <2>1 DEF EntrySound, EntryType, SameMarks
  <2>3. d = [c EXCEPT !.entry[k] = p]
    BY <1>2 DEF Patch
  <2> HIDE DEF p, e
  <2>4. Edited(c, d, k) /\ d.entry[k] = p
    BY <2>1, <2>2, <2>3, EditEntry
  <2>5. QED BY <1>2, <2>2, <2>4 DEF e
<1>3. QED BY <1>1, <1>2

(* A row is added to whatever there is.                                      *)
LEMMA AppendSound ==
  ASSUME session \in 1..MaxSessions, NEW c, MapSound(c), NEW k \in Keys, NEW v \in Writes
  PROVE  LET d == AppendRow(c, k, v)
             e == c.entry[k]
             f == d.entry[k]
         IN /\ Edited(c, d, k) /\ SameMarks(e, f)
            /\ k \in c.held => f.has /\ f.seen = e.seen \cup {v}
<1> DEFINE e == c.entry[k]
           p == [e EXCEPT !.has = TRUE, !.seen = @ \cup {v}]
           d == AppendRow(c, k, v)
<1>1. CASE k \notin c.held
  BY <1>1, EditNothing DEF AppendRow, Has, SameMarks
<1>2. CASE k \in c.held
  <2>1. EntrySound(e) /\ e \in EntryType
    BY HeldFields
  <2>2. EntrySound(p) /\ p.has /\ p.seen = e.seen \cup {v} /\ SameMarks(e, p)
    BY <2>1 DEF EntrySound, EntryType, SameMarks
  <2>3. d = [c EXCEPT !.entry[k] = p]
    BY <1>2 DEF AppendRow, Has
  <2> HIDE DEF p, e
  <2>4. Edited(c, d, k) /\ d.entry[k] = p
    BY <1>2, <2>2, <2>3, EditEntry
  <2>5. QED BY <1>2, <2>2, <2>4 DEF e
<1>3. QED BY <1>1, <1>2

(* A removal takes the data and leaves an error.                             *)
LEMMA RemoveSound ==
  ASSUME session \in 1..MaxSessions, NEW c, MapSound(c), NEW k \in Keys
  PROVE  LET d == RemoveList(c, k)
             f == d.entry[k]
         IN /\ Edited(c, d, k) /\ ~f.has /\ (k \in c.held => Repaired(f))
<1> DEFINE e == c.entry[k]
           p == [e EXCEPT !.has = FALSE, !.seen = {}, !.loading = FALSE, !.error = TRUE,
                          !.fetchedIn = 0]
           d == RemoveList(c, k)
<1>1. CASE k \notin c.held
  BY <1>1, EditNothing, HeldFields DEF RemoveList, Has
<1>2. CASE k \in c.held
  <2>1. EntrySound(e) /\ e \in EntryType
    BY HeldFields
  <2>2. EntrySound(p) /\ ~p.has /\ Repaired(p)
    <3>1. 0 \in 0..MaxSessions
      BY ScopedQueryAssumption
    <3>2. QED BY <2>1, <3>1 DEF EntrySound, EntryType, Repaired
  <2>3. d = [c EXCEPT !.entry[k] = p]
    BY <1>2, HeldFields DEF RemoveList, Has
  <2> HIDE DEF p, e
  <2>4. Edited(c, d, k) /\ d.entry[k] = p
    BY <1>2, <2>2, <2>3, EditEntry
  <2>5. QED BY <2>2, <2>4
<1>3. QED BY <1>1, <1>2

(* A seed puts the created list in place of whatever there is.               *)
LEMMA SeedSound ==
  ASSUME session \in 1..MaxSessions, NEW c, MapSound(c), NEW k \in Keys, NEW v \in Writes
  PROVE  LET d == Seed(c, k, v)
         IN /\ MapSound(d) /\ OthersKept(c, d, k) /\ d.held \subseteq c.held \cup {k}
            /\ k \in d.held => d.entry[k].has /\ d.entry[k].seen = {v}
<1> DEFINE n == EnsureEntry(c, k)
           e == n.entry[k]
           p == [e EXCEPT !.has = TRUE, !.seen = {v}, !.loading = FALSE,
                          !.error = FALSE, !.stale = FALSE, !.fetchedIn = 0]
           d == Seed(c, k, v)
<1>1. /\ MapSound(n) /\ PinnedStay(c, n) /\ n.held \subseteq c.held \cup {k}
      /\ \A j \in Keys : KeptAt(c, n, j) \/ (j = k /\ n.entry[k] = c.entry[k])
  BY EnsureSound
<1>2. CASE k \notin n.held
  <2>1. d = n
    BY <1>2 DEF Seed, Has
  <2>2. QED BY <1>1, <1>2, <2>1 DEF OthersKept
<1>3. CASE k \in n.held
  <2> HIDE DEF n
  <2>1. EntrySound(e) /\ e \in EntryType
    BY <1>1, HeldFields
  <2>2. EntrySound(p) /\ p.has /\ p.seen = {v}
    <3>1. 0 \in 0..MaxSessions
      BY ScopedQueryAssumption
    <3> HIDE DEF e
    <3>2. QED BY <2>1, <3>1 DEF EntrySound, EntryType
  <2>3. d = [n EXCEPT !.entry[k] = p]
    BY <1>3 DEF Seed, Has, n
  <2> HIDE DEF p, e, d
  <2>4. Edited(n, d, k) /\ d.entry[k] = p
    BY <1>1, <1>3, <2>2, <2>3, EditEntry
  <2>5. OthersKept(c, d, k)
    BY <1>1, <2>4 DEF Edited, OthersKept, PinnedStay, KeptAt, Pinned
  <2>6. QED BY <1>1, <2>2, <2>4, <2>5 DEF Edited, d
<1>4. QED BY <1>2, <1>3

(* A refused reorder puts the snapshot back, nothing else does.              *)
LEMMA RollBackSound ==
  ASSUME session \in 1..MaxSessions, NEW c, MapSound(c), NEW k \in Keys, NEW m \in Mutations
  PROVE  LET d == RollBack(c, k, m)
             e == c.entry[k]
             f == d.entry[k]
         IN /\ Edited(c, d, k) /\ SameMarks(e, f) /\ f.has = e.has
            /\ m.kind # "reorder" => f.seen = e.seen
<1> DEFINE e == c.entry[k]
           p == [e EXCEPT !.seen = m.previous, !.loading = FALSE]
           d == RollBack(c, k, m)
<1>1. CASE ~(m.kind = "reorder" /\ e.has)
  BY <1>1, EditNothing DEF RollBack, SameMarks
<1>2. CASE m.kind = "reorder" /\ e.has
  <2>1. k \in c.held /\ EntrySound(e) /\ e \in EntryType
    BY <1>2, HeldFields
  <2>2. EntrySound(p) /\ p.has = e.has /\ SameMarks(e, p)
    BY <2>1 DEF EntrySound, EntryType, SameMarks, Mutations
  <2>3. d = [c EXCEPT !.entry[k] = p]
    BY <1>2 DEF RollBack
  <2> HIDE DEF p, e
  <2>4. Edited(c, d, k) /\ d.entry[k] = p
    BY <2>1, <2>2, <2>3, EditEntry
  <2>5. QED BY <1>2, <2>2, <2>4 DEF e
<1>3. QED BY <1>1, <1>2

-----------------------------------------------------------------------------
(* Lemmas about the record of losses.                                        *)

(* An excuse lasts as long as the write is missing.                          *)
ExcusesLast == /\ excused' \in [Gaps -> SUBSET Writes]
               /\ \A k \in Keys : \A v \in Missing(k)' : Excused(v) => Excused(v)'

(* Nothing is missing that was not committed.                                *)
LEMMA MissingCommitted ==
  ASSUME NEW k \in Keys
  PROVE  Missing(k) \subseteq WritesTo(k) /\ WritesTo(k) \subseteq committed
BY DEF Missing, WritesTo

(* Every write drawn is one of Writes.                                       *)
LEMMA DrawnWrites ==
  ASSUME Traffic
  PROVE  Len(writes) \in 0..MaxWrites /\ Drawn \subseteq Writes
BY ScopedQueryAssumption DEF Traffic, Drawn, Writes

(* Excuse adds to one gap, and forgets only what is no longer missing.       *)
LEMMA ExcuseSound ==
  ASSUME excused \in [Gaps -> SUBSET Writes], Drawn' \subseteq Writes, committed' \subseteq Drawn',
         NEW g, NEW S, Excuse(g, S)
  PROVE  /\ ExcusesLast
         /\ g \in Gaps => \A k \in Keys : \A v \in Missing(k)' : v \in S => Excused(v)'
<1>1. \A k \in Keys : Missing(k)' \subseteq Writes
  BY DEF Missing, WritesTo
<1>2. /\ excused' \in [Gaps -> SUBSET Writes]
      /\ \A h \in Gaps : excused'[h] = (excused[h] \cup (IF g = h THEN S ELSE {}))
                                         \cap UNION {Missing(k)' : k \in Keys}
  BY <1>1 DEF Excuse
<1>3. QED BY <1>2 DEF ExcusesLast, Excused

(* So does a step that leaves the record alone.                              *)
LEMMA QuietSound ==
  ASSUME excused \in [Gaps -> SUBSET Writes], UNCHANGED excused
  PROVE  ExcusesLast
BY DEF ExcusesLast, Excused

(* A step that commits nothing.                                              *)
SameWrites == committed' \subseteq Drawn' /\ \A k \in Keys : WritesTo(k)' = WritesTo(k)

(* As one that draws nothing, too.                                           *)
LEMMA QuietWrites ==
  ASSUME QInv, UNCHANGED <<writes, committed>>
  PROVE  SameWrites
BY DEF QInv, SameWrites, WritesTo, Drawn

(* A step that changes the entry of k, and of the others drops some.         *)
LEMMA CacheStep ==
  ASSUME QInv, NEW k \in Keys, MapSound(cache'), OthersKept(cache, cache', k),
         Awaited(cache', k), Traffic', ExcusesLast, SameWrites, UNCHANGED session,
         listening' \subseteq listening \cup {k}, k \in listening' => k \in cache'.held,
         listening' \subseteq mounted', mounted' \subseteq Keys,
         \A v \in Writes : Pending(v) /\ writes[v].key # k => Pending(v)',
         Accounted(k)'
  PROVE  QInv' /\ PinnedStay(cache, cache')
<1>1. session' \in 1..MaxSessions /\ committed' \subseteq Drawn'
  BY DEF QInv, SameWrites
<1>2. MapSound(cache)'
  BY DEF MapSound, MapShape, OrderedAt, HeldAt, EntrySound
<1>3. listening' \subseteq Entries'
  BY DEF QInv, Entries, OthersKept, PinnedStay, Pinned
<1>4. ASSUME NEW j \in Keys PROVE Awaited(cache, j)'
  <2>1. CASE j = k
    BY <2>1 DEF Awaited, Repaired
  <2>2. CASE j # k
    BY <2>2 DEF QInv, Awaited, Repaired, OthersKept, KeptAt
  <2>3. QED BY <2>1, <2>2
<1>5. ASSUME NEW j \in Keys, j # k PROVE Accounted(j)'
  <2>1. SUFFICES ASSUME ~Repaired(Entry(j)'), NEW v \in Missing(j)'
                 PROVE  Pending(v)' \/ Excused(v)'
    BY DEF Accounted, Repaired
  <2>2. CASE cache'.entry[j] = cache.entry[j]
    <3>0. Entry(j)' = Entry(j) /\ WritesTo(j)' = WritesTo(j)
      BY <2>2 DEF Entry, SameWrites
    <3>1. ~Repaired(Entry(j)) /\ v \in Missing(j)
      BY <2>1, <3>0 DEF Missing
    <3>2. Pending(v) \/ Excused(v)
      BY <3>1 DEF QInv, Accounted
    <3>3. writes[v].key = j /\ v \in Writes
      <4>1. v \in committed /\ writes[v].key = j
        BY <3>1, MissingCommitted DEF WritesTo
      <4>2. QED BY <4>1, DrawnWrites DEF QInv
    <3>4. QED BY <1>5, <2>1, <3>2, <3>3 DEF ExcusesLast
  <2>3. CASE cache'.entry[j] = NewEntry
    BY <2>1, <2>3 DEF Entry, Missing, NewEntry
  <2>4. QED BY <1>5, <2>2, <2>3 DEF OthersKept, KeptAt
<1>6. excused' \in [Gaps -> SUBSET Writes]
  BY DEF ExcusesLast
<1>7. PinnedStay(cache, cache')
  BY DEF OthersKept
<1>8. QED BY <1>1, <1>2, <1>3, <1>4, <1>5, <1>6, <1>7 DEF QInv

(* What comes after ensureEntry sees what was there before it.               *)
LEMMA EnsureThen ==
  ASSUME session \in 1..MaxSessions, NEW c, MapSound(c), NEW k \in Keys, NEW d,
         OthersKept(EnsureEntry(c, k), d, k), d.held \subseteq EnsureEntry(c, k).held \cup {k}
  PROVE  OthersKept(c, d, k)
<1> DEFINE n == EnsureEntry(c, k)
<1>1. /\ MapSound(n) /\ PinnedStay(c, n) /\ n.held \subseteq c.held \cup {k}
      /\ k \in c.held => n = c
      /\ \A j \in Keys : KeptAt(c, n, j) \/ (j = k /\ n.entry[k] = c.entry[k])
  BY EnsureSound
<1>2. OthersKept(n, d, k) /\ d.held \subseteq n.held \cup {k}
  OBVIOUS
<1>3. c.held \subseteq Keys
  BY DEF MapSound, MapShape
<1> HIDE DEF n
<1>4. CASE k \in c.held
  BY <1>1, <1>2, <1>4
<1>5. CASE k \notin c.held
  BY <1>1, <1>2, <1>3, <1>5 DEF OthersKept, PinnedStay, KeptAt, Pinned
<1>6. QED BY <1>4, <1>5

(* Data is not what ensureEntry brings.                                      *)
LEMMA LoadedHeld ==
  ASSUME session \in 1..MaxSessions, NEW c, MapSound(c), NEW k \in Keys,
         EnsureEntry(c, k).entry[k].has
  PROVE  EnsureEntry(c, k) = c /\ k \in c.held
<1> DEFINE n == EnsureEntry(c, k)
<1>1. /\ MapSound(n)
      /\ k \in c.held => n = c
      /\ \A j \in Keys : KeptAt(c, n, j) \/ (j = k /\ n.entry[k] = c.entry[k])
  BY EnsureSound
<1> HIDE DEF n
<1>2. n.entry[k].has
  BY DEF n
<1>3. k \in n.held
  BY <1>1, <1>2, HeldFields
<1>4. c.entry[k].has
  BY <1>1, <1>2, <1>3 DEF KeptAt
<1>5. k \in c.held
  BY <1>4, HeldFields
<1>6. QED BY <1>1, <1>5 DEF n

(* An entry with a mark, or none at all, is awaited and accounted for.       *)
LEMMA RepairedSuffices ==
  ASSUME session \in 1..MaxSessions, NEW k \in Keys, MapSound(cache'),
         k \in cache'.held => Repaired(cache'.entry[k])
  PROVE  Awaited(cache', k) /\ Accounted(k)'
<1>1. k \notin cache'.held => ~cache'.entry[k].has
  BY HeldFields
<1>2. Entry(k)' = cache'.entry[k]
  BY DEF Entry
<1>3. ~cache'.entry[k].has => Missing(k)' = {}
  BY <1>2 DEF Missing
<1>4. Repaired(cache'.entry[k]) => Repaired(Entry(k))'
  BY <1>2 DEF Repaired
<1>5. QED BY <1>1, <1>3, <1>4 DEF Awaited, Accounted

(* Whatever lacks no more than before, with the same marks, is accounted for.*)
LEMMA SameSuffices ==
  ASSUME QInv, NEW k \in Keys, SameWrites, ExcusesLast,
         LET e == cache.entry[k]
             f == cache'.entry[k]
         IN f.has /\ ~Repaired(f) => e.has /\ ~Repaired(e) /\ e.seen \subseteq f.seen,
         \A v \in Missing(k)' : Pending(v) => Pending(v)' \/ Excused(v)'
  PROVE  Accounted(k)'
<1>1. /\ Entry(k)' = cache'.entry[k] /\ Entry(k) = cache.entry[k] /\ WritesTo(k)' = WritesTo(k)
      /\ Repaired(Entry(k))' <=> Repaired(cache'.entry[k])
  BY DEF Entry, SameWrites, Repaired
<1>2. SUFFICES ASSUME ~Repaired(cache'.entry[k]), NEW v \in Missing(k)'
               PROVE  Pending(v)' \/ Excused(v)'
  BY <1>1 DEF Accounted
<1>3. cache'.entry[k].has /\ v \in WritesTo(k) /\ v \notin cache'.entry[k].seen
  BY <1>1, <1>2 DEF Missing
<1>4. ~Repaired(Entry(k)) /\ v \in Missing(k)
  BY <1>1, <1>2, <1>3 DEF Missing
<1>5. Pending(v) \/ Excused(v)
  BY <1>4 DEF QInv, Accounted
<1>6. QED BY <1>2, <1>5 DEF ExcusesLast

-----------------------------------------------------------------------------
(* The actions.                                                              *)

(* Steps that leave the traffic alone keep what is pending.                  *)
LEMMA QuietTraffic ==
  ASSUME Traffic, UNCHANGED <<writes, inbox, mutations>>
  PROVE  Traffic' /\ \A v : Pending(v) <=> Pending(v)'
<1>1. Traffic'
  BY DEF Traffic, Drawn
<1>2. \A v : Pending(v) <=> Pending(v)'
  BY DEF Pending
<1>3. QED BY <1>1, <1>2

(* The fields of the invariant that most steps need.                         *)
LEMMA QFields ==
  ASSUME QInv
  PROVE  /\ session \in 1..MaxSessions /\ MapSound(cache) /\ Traffic
         /\ listening \subseteq mounted /\ mounted \subseteq Keys /\ listening \subseteq cache.held
         /\ Drawn \subseteq Writes /\ committed \subseteq Drawn
         /\ excused \in [Gaps -> SUBSET Writes]
         /\ \A k \in Keys : Awaited(cache, k) /\ Accounted(k)
BY DrawnWrites DEF QInv, Entries

(* Excuse, for steps that draw and commit nothing.                           *)
LEMMA ExcuseHolds ==
  ASSUME QInv, UNCHANGED <<writes, committed>>, NEW g, NEW S, Excuse(g, S)
  PROVE  /\ ExcusesLast
         /\ g \in Gaps => \A k \in Keys : \A v \in Missing(k)' : v \in S => Excused(v)'
<1>1. Drawn' \subseteq Writes /\ committed' \subseteq Drawn' /\ excused \in [Gaps -> SUBSET Writes]
  BY QFields DEF Drawn
<1>2. QED BY <1>1, ExcuseSound

(* A component mounts: its entry is ensured, and fetched when it must be.    *)
LEMMA MountStep ==
  ASSUME QInv, NEW k \in Keys, Mount(k)
  PROVE  QInv' /\ PinnedStay(cache, cache')
<1> DEFINE n == EnsureEntry(cache, k)
<1>1. /\ session \in 1..MaxSessions /\ MapSound(cache) /\ Traffic /\ mounted \subseteq Keys
      /\ listening \subseteq mounted
  BY QFields
<1>2. UNCHANGED <<session, writes, committed, inbox, mutations>> /\ mounted' = mounted \cup {k}
  BY DEF Mount
<1>3. Traffic' /\ \A v : Pending(v) <=> Pending(v)'
  BY <1>1, <1>2, QuietTraffic
<1>4. ExcusesLast
  BY <1>2, ExcuseHolds DEF Mount, ExcuseNothing
<1>5. /\ MapSound(n)
      /\ k \in cache.held => n = cache
      /\ \A j \in Keys : KeptAt(cache, n, j) \/ (j = k /\ n.entry[k] = cache.entry[k])
      /\ PinnedStay(cache, n)
  BY <1>1, EnsureSound
<1>6. /\ listening' = IF k \in n.held THEN listening \cup {k} ELSE listening
      /\ listening' \subseteq listening \cup {k} /\ listening' \subseteq mounted'
      /\ mounted' \subseteq Keys
  BY <1>1, <1>2 DEF Mount, Has
<1>7. CASE ~n.entry[k].has \/ n.entry[k].stale
  <2>1. cache' = Fetch(n, k)
    BY <1>7 DEF Mount
  <2>2. /\ MapSound(cache') /\ OthersKept(n, cache', k) /\ cache'.held \subseteq n.held \cup {k}
        /\ k \in cache'.held => Repaired(cache'.entry[k])
    BY <1>1, <1>5, <2>1, FetchSound
  <2>3. OthersKept(cache, cache', k)
    BY <1>1, <2>2, EnsureThen
  <2>4. Awaited(cache', k) /\ Accounted(k)'
    BY <1>1, <2>2, RepairedSuffices
  <2>5. k \in n.held => k \in cache'.held
    BY <1>1, <1>5, <2>1, FetchSound
  <2> HIDE DEF n
  <2>6. k \in listening' => k \in cache'.held
    <3>2. k \in listening => k \in n.held
      BY <1>5, QFields DEF PinnedStay, Pinned
    <3>3. QED BY <1>6, <2>5, <3>2
  <2>7. QED BY <1>1, <1>2, <1>3, <1>4, <1>6, <2>2, <2>3, <2>4, <2>6, QuietWrites, CacheStep
<1>8. CASE n.entry[k].has /\ ~n.entry[k].stale
  <2>2. cache' = n
    BY <1>8 DEF Mount
  <2>3. k \in cache.held /\ n = cache
    BY <1>1, <1>8, LoadedHeld
  <2>4. cache' = cache
    BY <2>2, <2>3
  <2>5. OthersKept(cache, cache', k)
    BY <2>4 DEF OthersKept, PinnedStay, KeptAt
  <2>6. Awaited(cache', k)
    BY <2>4, QFields
  <2>7. Accounted(k)'
    <3>1. cache'.entry[k] = cache.entry[k] /\ \A v \in Missing(k)' : Pending(v) => Pending(v)'
      BY <1>3, <2>4
    <3>2. QED BY <1>2, <1>4, <3>1, QuietWrites, SameSuffices
  <2> HIDE DEF n
  <2>8. k \in listening' => k \in cache'.held
    BY <2>3, <2>4
  <2>9. QED BY <1>1, <1>2, <1>3, <1>4, <1>6, <2>4, <2>5, <2>6, <2>7, <2>8, QuietWrites, CacheStep
<1>9. QED BY <1>7, <1>8

(* A component unmounts.                                                     *)
LEMMA UnmountStep ==
  ASSUME QInv, NEW k \in Keys, Unmount(k)
  PROVE  QInv' /\ PinnedStay(cache, cache')
<1>1. /\ UNCHANGED <<session, cache, writes, committed, inbox, mutations, excused>>
      /\ mounted' = mounted \ {k} /\ listening' = listening \ {k}
  BY DEF Unmount
<1>2. /\ session \in 1..MaxSessions /\ MapSound(cache) /\ Traffic /\ mounted \subseteq Keys
      /\ listening \subseteq mounted /\ excused \in [Gaps -> SUBSET Writes]
  BY QFields
<1>3. Traffic' /\ \A v : Pending(v) <=> Pending(v)'
  BY <1>1, <1>2, QuietTraffic
<1>4. ExcusesLast
  BY <1>1, <1>2, QuietSound
<1>5. OthersKept(cache, cache', k)
  BY <1>1 DEF OthersKept, PinnedStay, KeptAt
<1>6. Awaited(cache', k) /\ Accounted(k)'
  <2>1. /\ cache'.entry[k] = cache.entry[k] /\ Awaited(cache, k)
        /\ \A v \in Missing(k)' : Pending(v) => Pending(v)'
    BY <1>1, <1>3, QFields
  <2>2. Accounted(k)'
    BY <1>1, <1>4, <2>1, QuietWrites, SameSuffices
  <2>3. QED BY <1>1, <2>1, <2>2
<1>7. QED BY <1>1, <1>2, <1>3, <1>4, <1>5, <1>6, QuietWrites, CacheStep

(* Steps that leave the components and the traffic alone, and treat one      *)
(* entry.                                                                    *)
LEMMA EntryStep ==
  ASSUME QInv, NEW k \in Keys, MapSound(cache'), OthersKept(cache, cache', k),
         UNCHANGED <<session, mounted, listening, writes, committed, inbox, mutations>>,
         ExcusesLast, Awaited(cache', k), Accounted(k)'
  PROVE  QInv' /\ PinnedStay(cache, cache')
<1>1. /\ Traffic /\ mounted \subseteq Keys /\ listening \subseteq mounted
      /\ listening \subseteq cache.held
  BY QFields
<1>2. Traffic' /\ \A v : Pending(v) <=> Pending(v)'
  BY <1>1, QuietTraffic
<1>3. k \in listening' => k \in cache'.held
  BY <1>1 DEF OthersKept, PinnedStay, Pinned
<1>4. listening' \subseteq listening \cup {k} /\ listening' \subseteq mounted' /\ mounted' \subseteq Keys
  BY <1>1
<1>5. QED BY <1>1, <1>2, <1>3, <1>4, QuietWrites, CacheStep

(* "Try again" and every other refetch.                                      *)
LEMMA RefetchStep ==
  ASSUME QInv, NEW k \in Keys, Refetch(k)
  PROVE  QInv' /\ PinnedStay(cache, cache')
<1>1. /\ cache' = Fetch(cache, k)
      /\ UNCHANGED <<session, mounted, listening, writes, committed, inbox, mutations>>
  BY DEF Refetch
<1>2. session \in 1..MaxSessions /\ MapSound(cache)
  BY QFields
<1>3. /\ MapSound(cache') /\ OthersKept(cache, cache', k)
      /\ k \in cache'.held => Repaired(cache'.entry[k])
  BY <1>1, <1>2, FetchSound
<1>4. ExcusesLast
  BY <1>1, ExcuseHolds DEF Refetch, ExcuseNothing
<1>5. Awaited(cache', k) /\ Accounted(k)'
  BY <1>2, <1>3, RepairedSuffices
<1>6. QED BY <1>1, <1>3, <1>4, <1>5, EntryStep

(* An entry with a request in flight is held.                                *)
LEMMA FlightHeld ==
  ASSUME QInv, NEW k \in Keys, Entry(k).get # "none"
  PROVE  /\ k \in cache.held /\ Entry(k) = cache.entry[k]
         /\ EntrySound(cache.entry[k]) /\ cache.entry[k] \in EntryType
         /\ cache.entry[k].getIn = session /\ MapSound(cache)
BY QFields, HeldFields DEF Entry, EntrySound

(* The server reads.                                                         *)
LEMMA AnswerStep ==
  ASSUME QInv, NEW k \in Keys, Answer(k)
  PROVE  QInv' /\ PinnedStay(cache, cache')
<1> DEFINE e == cache.entry[k]
           p == [e EXCEPT !.get = "answered", !.got = WritesTo(k)]
<1>1. /\ UNCHANGED <<session, mounted, listening, writes, committed, inbox, mutations, excused>>
      /\ Entry(k).get = "sent"
  BY DEF Answer
<1>2. /\ k \in cache.held /\ EntrySound(e) /\ e \in EntryType /\ e.get = "sent" /\ MapSound(cache)
      /\ session \in 1..MaxSessions /\ WritesTo(k) \subseteq Writes
      /\ excused \in [Gaps -> SUBSET Writes]
  BY <1>1, FlightHeld, QFields, MissingCommitted
<1>3. cache' = [cache EXCEPT !.entry[k] = p]
  BY DEF Answer
<1>4. EntrySound(p) /\ Repaired(p)
  BY <1>2 DEF EntrySound, EntryType, Repaired
<1> HIDE DEF p, e
<1>5. Edited(cache, cache', k) /\ cache'.entry[k] = p
  BY <1>2, <1>3, <1>4, EditEntry
<1>6. Awaited(cache', k) /\ Accounted(k)'
  BY <1>2, <1>4, <1>5, RepairedSuffices DEF Edited
<1>7. ExcusesLast
  BY <1>1, <1>2, QuietSound
<1>8. QED BY <1>1, <1>5, <1>6, <1>7, EntryStep DEF Edited

(* The response arrives: the data is what the server read, and what it had   *)
(* not read is pending or in the gap.                                        *)
LEMMA ResolveStep ==
  ASSUME QInv, NEW k \in Keys, Resolve(k)
  PROVE  QInv' /\ PinnedStay(cache, cache')
<1> DEFINE e == cache.entry[k]
           p == [e EXCEPT !.has = TRUE, !.seen = e.got, !.loading = FALSE, !.error = FALSE,
                          !.get = "none", !.got = {}, !.getIn = 0, !.fetchedIn = e.getIn]
           S == {v \in WritesTo(k) : ~Pending(v)}
<1>1. /\ UNCHANGED <<session, mounted, listening, writes, committed, inbox, mutations>>
      /\ Entry(k).get = "answered" /\ Excuse("overwritten", S)
  BY DEF Resolve
<1>2. /\ k \in cache.held /\ EntrySound(e) /\ e \in EntryType /\ e.getIn = session
      /\ MapSound(cache) /\ session \in 1..MaxSessions /\ Entry(k) = e /\ Traffic
  BY <1>1, FlightHeld, QFields
<1>3. cache' = [cache EXCEPT !.entry[k] = p]
  BY <1>2 DEF Resolve
<1>4. EntrySound(p) /\ p.has
  <2>1. 0 \in 0..MaxSessions
    BY ScopedQueryAssumption
  <2> HIDE DEF e
  <2>2. QED BY <1>2, <2>1 DEF EntrySound, EntryType
<1> HIDE DEF p, e
<1>5. Edited(cache, cache', k) /\ cache'.entry[k] = p
  BY <1>2, <1>3, <1>4, EditEntry
<1>6. /\ ExcusesLast
      /\ \A v \in Missing(k)' : v \in S => Excused(v)'
  BY <1>1, ExcuseHolds DEF Gaps
<1>7. \A v \in Missing(k)' : Pending(v)' \/ Excused(v)'
  <2>1. \A v : Pending(v) <=> Pending(v)'
    BY <1>1, <1>2, QuietTraffic
  <2>2. Missing(k)' \subseteq WritesTo(k)
    BY <1>1 DEF Missing, WritesTo
  <2>3. QED BY <1>6, <2>1, <2>2
<1>8. Awaited(cache', k) /\ Accounted(k)'
  BY <1>4, <1>5, <1>7 DEF Awaited, Accounted
<1>9. QED BY <1>1, <1>5, <1>6, <1>8, EntryStep DEF Edited

(* The request fails.                                                        *)
LEMMA RejectStep ==
  ASSUME QInv, NEW k \in Keys, Reject(k)
  PROVE  QInv' /\ PinnedStay(cache, cache')
<1> DEFINE e == cache.entry[k]
           p == [e EXCEPT !.loading = FALSE, !.error = TRUE,
                          !.get = "none", !.got = {}, !.getIn = 0]
<1>1. /\ UNCHANGED <<session, mounted, listening, writes, committed, inbox, mutations, excused>>
      /\ Entry(k).get # "none"
  BY DEF Reject
<1>2. /\ k \in cache.held /\ EntrySound(e) /\ e \in EntryType /\ MapSound(cache)
      /\ session \in 1..MaxSessions /\ excused \in [Gaps -> SUBSET Writes]
  BY <1>1, FlightHeld, QFields
<1>3. cache' = [cache EXCEPT !.entry[k] = p]
  BY DEF Reject
<1>4. EntrySound(p) /\ Repaired(p)
  <2>1. 0 \in 0..MaxSessions
    BY ScopedQueryAssumption
  <2> HIDE DEF e
  <2>2. QED BY <1>2, <2>1 DEF EntrySound, EntryType, Repaired
<1> HIDE DEF p, e
<1>5. Edited(cache, cache', k) /\ cache'.entry[k] = p
  BY <1>2, <1>3, <1>4, EditEntry
<1>6. Awaited(cache', k) /\ Accounted(k)'
  BY <1>2, <1>4, <1>5, RepairedSuffices DEF Edited
<1>7. ExcusesLast
  BY <1>1, <1>2, QuietSound
<1>8. QED BY <1>1, <1>5, <1>6, <1>7, EntryStep DEF Edited

(* A write is drawn.                                                         *)
LEMMA DrawWrite ==
  ASSUME Traffic, NEW r \in WriteRecords, writes' = Append(writes, r), Len(writes) + 1 <= MaxWrites
  PROVE  /\ writes' \in Seq(WriteRecords) /\ Len(writes') <= MaxWrites
         /\ Len(writes) + 1 \in Writes /\ Len(writes) + 1 \notin Drawn
         /\ Drawn' = Drawn \cup {Len(writes) + 1} /\ Drawn' \subseteq Writes
         /\ \A u \in Drawn : writes'[u] = writes[u]
         /\ writes'[Len(writes) + 1] = r
<1>1. writes \in Seq(WriteRecords) /\ Len(writes) \in Nat
  BY DEF Traffic
<1>2. Len(writes') = Len(writes) + 1 /\ writes' \in Seq(WriteRecords)
  BY <1>1
<1>3. Drawn' = Drawn \cup {Len(writes) + 1} /\ Len(writes) + 1 \notin Drawn
  BY <1>1, <1>2 DEF Drawn
<1>4. Drawn' \subseteq Writes /\ Len(writes) + 1 \in Writes
  BY <1>1, <1>2, ScopedQueryAssumption DEF Drawn, Writes
<1>5. (\A u \in Drawn : writes'[u] = writes[u]) /\ writes'[Len(writes) + 1] = r
  BY <1>1 DEF Drawn
<1>6. QED BY <1>2, <1>3, <1>4, <1>5

(* A frame is added to the stream.                                           *)
LEMMA FrameAdded ==
  ASSUME inbox \in Seq(Frames), NEW f \in Frames, inbox' = Append(inbox, f)
  PROVE  /\ inbox' \in Seq(Frames) /\ Len(inbox') = Len(inbox) + 1 /\ Len(inbox) \in Nat
         /\ \A i \in 1..Len(inbox) : i \in 1..Len(inbox') /\ inbox'[i] = inbox[i]
         /\ inbox'[Len(inbox) + 1] = f
         /\ \A i \in 1..Len(inbox') : i \in 1..Len(inbox) \/ inbox'[i] = f
OBVIOUS

(* Somebody else's write is pending until its frame arrives.                 *)
LEMMA ForeignWriteStep ==
  ASSUME QInv, NEW k \in Keys, NEW type \in FrameKinds, ForeignWrite(k, type)
  PROVE  QInv' /\ PinnedStay(cache, cache')
<1>0. PICK n : n = Len(writes) + 1
  OBVIOUS
<1> DEFINE r == [key |-> k, own |-> FALSE]
           f == [v |-> n, kind |-> type]
<1>1. /\ n <= MaxWrites /\ writes' = Append(writes, r) /\ committed' = committed \cup {n}
      /\ inbox' = Append(inbox, f) /\ UNCHANGED <<session, cache, mounted, listening, mutations>>
      /\ Excuse("none", {})
  BY <1>0 DEF ForeignWrite, ExcuseNothing
<1>2. /\ Traffic /\ committed \subseteq Drawn /\ excused \in [Gaps -> SUBSET Writes]
      /\ inbox \in Seq(Frames) /\ mutations \subseteq Mutations
      /\ \A i \in 1..Len(inbox) : inbox[i].v \in Drawn
      /\ \A m \in mutations : m.v \in Drawn
  BY QFields DEF Traffic
<1>3. r \in WriteRecords
  BY DEF WriteRecords
<1>4. /\ writes' \in Seq(WriteRecords) /\ Len(writes') <= MaxWrites /\ n \in Writes /\ n \notin Drawn
      /\ Drawn' = Drawn \cup {n} /\ Drawn' \subseteq Writes
      /\ \A u \in Drawn : writes'[u] = writes[u]
  BY <1>0, <1>1, <1>2, <1>3, DrawWrite
<1> HIDE DEF r
<1>5. f \in Frames
  BY <1>4 DEF Frames
<1>6. /\ inbox' \in Seq(Frames) /\ Len(inbox') = Len(inbox) + 1 /\ Len(inbox) \in Nat
      /\ \A i \in 1..Len(inbox) : i \in 1..Len(inbox') /\ inbox'[i] = inbox[i]
      /\ inbox'[Len(inbox) + 1] = f
      /\ \A i \in 1..Len(inbox') : i \in 1..Len(inbox) \/ inbox'[i] = f
  BY <1>1, <1>2, <1>5, FrameAdded
<1>7. Traffic'
  <2>1. \A i \in 1..Len(inbox') : inbox'[i].v \in Drawn'
    BY <1>2, <1>4, <1>6
  <2>2. \A m \in mutations' : m.v \in Drawn'
    BY <1>1, <1>2, <1>4
  <2>3. QED BY <1>1, <1>2, <1>4, <1>6, <2>1, <2>2 DEF Traffic
<1>8. committed' \subseteq Drawn'
  BY <1>1, <1>2, <1>4
<1>9. ExcusesLast
  BY <1>1, <1>2, <1>4, <1>8, ExcuseSound
<1>10. Pending(n)'
  <2>1. Len(inbox) + 1 \in 1..Len(inbox') /\ inbox'[Len(inbox) + 1].v = n
    BY <1>6
  <2>2. QED BY <2>1 DEF Pending
<1>11. \A v : Pending(v) => Pending(v)'
  BY <1>1, <1>6 DEF Pending
<1>12. MapSound(cache)'
  BY <1>1, QFields DEF MapSound, MapShape, OrderedAt, HeldAt, EntrySound
<1>13. ASSUME NEW j \in Keys PROVE Accounted(j)'
  <2>1. SUFFICES ASSUME ~Repaired(Entry(j)'), NEW v \in Missing(j)'
                 PROVE  Pending(v)' \/ Excused(v)'
    BY DEF Accounted, Repaired
  <2>2. CASE v = n
    BY <1>10, <2>2
  <2>3. CASE v # n
    <3>1. Entry(j)' = Entry(j)
      BY <1>1 DEF Entry
    <3>2. Entry(j)'.has /\ v \in committed' /\ writes'[v].key = j /\ v \notin Entry(j)'.seen
      BY DEF Missing, WritesTo
    <3>3. v \in committed /\ v \in Drawn /\ writes[v].key = j
      BY <1>1, <1>2, <1>4, <2>3, <3>2
    <3>4. v \in Missing(j) /\ ~Repaired(Entry(j))
      BY <2>1, <3>1, <3>2, <3>3 DEF Missing, WritesTo
    <3>5. Pending(v) \/ Excused(v)
      BY <3>4, QFields DEF Accounted
    <3>6. QED BY <1>9, <1>11, <3>5 DEF ExcusesLast
  <2>4. QED BY <2>2, <2>3
<1>14. PinnedStay(cache, cache')
  BY <1>1 DEF PinnedStay
<1>15. QED
  BY <1>1, <1>7, <1>8, <1>9, <1>12, <1>13, <1>14 DEF QInv, ExcusesLast, Awaited, Entries, Repaired

(* A mutation is sent; a reorder is applied at once.                         *)
LEMMA MutateStep ==
  ASSUME QInv, NEW k \in Keys, NEW type \in MutationKinds, Mutate(k, type)
  PROVE  QInv' /\ PinnedStay(cache, cache')
<1>0. PICK n : n = Len(writes) + 1
  OBVIOUS
<1> DEFINE r == [key |-> k, own |-> TRUE]
           m == [v |-> n, kind |-> type, in |-> session, previous |-> Entry(k).seen]
<1>1. /\ n <= MaxWrites /\ writes' = Append(writes, r) /\ mutations' = mutations \cup {m}
      /\ cache' = IF type = "reorder" THEN Patch(cache, k, n) ELSE cache
      /\ UNCHANGED <<session, mounted, listening, committed, inbox, excused>>
  BY <1>0 DEF Mutate
<1>2. /\ Traffic /\ committed \subseteq Drawn /\ excused \in [Gaps -> SUBSET Writes]
      /\ inbox \in Seq(Frames) /\ mutations \subseteq Mutations
      /\ \A i \in 1..Len(inbox) : inbox[i].v \in Drawn
      /\ \A l \in mutations : l.v \in Drawn
      /\ session \in 1..MaxSessions /\ MapSound(cache)
      /\ mounted \subseteq Keys /\ listening \subseteq mounted /\ listening \subseteq cache.held
  BY QFields DEF Traffic
<1>3. r \in WriteRecords
  BY DEF WriteRecords
<1>4. /\ writes' \in Seq(WriteRecords) /\ Len(writes') <= MaxWrites /\ n \in Writes /\ n \notin Drawn
      /\ Drawn' = Drawn \cup {n} /\ Drawn' \subseteq Writes
      /\ \A u \in Drawn : writes'[u] = writes[u]
  BY <1>0, <1>1, <1>2, <1>3, DrawWrite
<1> HIDE DEF r
<1>5. m \in Mutations
  <2>1. Entry(k).seen \in SUBSET Writes
    BY <1>2, HeldFields DEF Entry, EntryType
  <2>2. QED BY <1>2, <1>4, <2>1 DEF Mutations
<1>6. Traffic'
  <2>1. \A i \in 1..Len(inbox') : inbox'[i].v \in Drawn'
    BY <1>1, <1>2, <1>4
  <2>2. \A l \in mutations' : l.v \in Drawn'
    BY <1>1, <1>2, <1>4
  <2>3. mutations' \subseteq Mutations
    BY <1>1, <1>2, <1>5
  <2>4. QED BY <1>1, <1>2, <1>4, <2>1, <2>2, <2>3 DEF Traffic
<1>7. \A v : Pending(v) => Pending(v)'
  BY <1>1 DEF Pending
<1>8. ExcusesLast
  BY <1>1, <1>2, QuietSound
<1>9. SameWrites
  BY <1>1, <1>2, <1>4 DEF SameWrites, WritesTo
<1> HIDE DEF m
<1>10. /\ Edited(cache, cache', k) /\ SameMarks(cache.entry[k], cache'.entry[k])
       /\ cache'.entry[k].has = cache.entry[k].has
       /\ cache.entry[k].seen \subseteq cache'.entry[k].seen
  <2>1. CASE type = "reorder"
    <3>1. cache' = Patch(cache, k, n)
      BY <1>1, <2>1
    <3>2. /\ Edited(cache, cache', k) /\ SameMarks(cache.entry[k], cache'.entry[k])
          /\ cache'.entry[k].has = cache.entry[k].has
          /\ cache'.entry[k].seen = IF cache.entry[k].has THEN cache.entry[k].seen \cup {n}
                                    ELSE cache.entry[k].seen
      BY <1>2, <1>4, <3>1, PatchSound
    <3>3. cache.entry[k].seen \subseteq cache'.entry[k].seen
      BY <3>2
    <3>4. QED BY <3>2, <3>3
  <2>2. CASE type # "reorder"
    BY <1>1, <1>2, <2>2, EditNothing DEF SameMarks
  <2>3. QED BY <2>1, <2>2
<1>11. Repaired(cache.entry[k]) <=> Repaired(cache'.entry[k])
  BY <1>10 DEF Repaired, SameMarks
<1>12. Accounted(k)'
  BY <1>7, <1>8, <1>9, <1>10, <1>11, SameSuffices
<1>13. Awaited(cache', k)
  BY <1>10, <1>11, QFields DEF Awaited, Edited
<1>14. /\ listening' \subseteq listening \cup {k} /\ listening' \subseteq mounted' /\ mounted' \subseteq Keys
       /\ k \in listening' => k \in cache'.held
  BY <1>1, <1>2, <1>10 DEF Edited
<1>15. MapSound(cache') /\ OthersKept(cache, cache', k) /\ UNCHANGED session
  BY <1>1, <1>10 DEF Edited
<1>16. QED BY <1>6, <1>7, <1>8, <1>9, <1>12, <1>13, <1>14, <1>15, CacheStep

(* A mutation commits: it is pending until its response arrives.             *)
LEMMA CommitStep ==
  ASSUME QInv, NEW m \in mutations, CommitMutation(m)
  PROVE  QInv' /\ PinnedStay(cache, cache')
<1>0. PICK n : n = m.v
  OBVIOUS
<1> DEFINE f == [v |-> n, kind |-> EchoKind(m.kind)]
<1>1. /\ committed' = committed \cup {n} /\ inbox' \in {inbox, Append(inbox, f)}
      /\ UNCHANGED <<session, cache, mounted, listening, writes, mutations>>
      /\ Excuse("none", {})
  BY <1>0 DEF CommitMutation, ExcuseNothing
<1>2. /\ Traffic /\ committed \subseteq Drawn /\ excused \in [Gaps -> SUBSET Writes]
      /\ inbox \in Seq(Frames) /\ mutations \subseteq Mutations /\ Drawn \subseteq Writes
      /\ \A i \in 1..Len(inbox) : inbox[i].v \in Drawn
      /\ \A l \in mutations : l.v \in Drawn
  BY QFields DEF Traffic
<1>3. f \in Frames /\ n \in Drawn
  BY <1>0, <1>2 DEF Frames, Mutations, EchoKind, FrameKinds
<1> HIDE DEF f
<1>4. /\ inbox' \in Seq(Frames)
      /\ \A i \in 1..Len(inbox) : i \in 1..Len(inbox') /\ inbox'[i] = inbox[i]
      /\ \A i \in 1..Len(inbox') : (i \in 1..Len(inbox) /\ inbox'[i] = inbox[i]) \/ inbox'[i] = f
  <2>1. CASE inbox' = inbox
    BY <1>2, <2>1
  <2>2. CASE inbox' = Append(inbox, f)
    BY <1>2, <1>3, <2>2, FrameAdded
  <2>3. QED BY <1>1, <2>1, <2>2
<1>5. Drawn' = Drawn /\ committed' \subseteq Drawn'
  BY <1>1, <1>2, <1>3 DEF Drawn
<1>6. Traffic'
  <2>1. \A i \in 1..Len(inbox') : inbox'[i].v \in Drawn'
    BY <1>2, <1>3, <1>4, <1>5 DEF f
  <2>2. QED BY <1>1, <1>2, <1>4, <1>5, <2>1 DEF Traffic
<1>7. ExcusesLast
  BY <1>1, <1>2, <1>5, ExcuseSound
<1>8. \A v : Pending(v) => Pending(v)'
  BY <1>1, <1>4 DEF Pending
<1>9. Pending(n)'
  BY <1>0, <1>1 DEF Pending
<1>10. MapSound(cache)'
  BY <1>1, QFields DEF MapSound, MapShape, OrderedAt, HeldAt, EntrySound
<1>11. ASSUME NEW j \in Keys PROVE Accounted(j)'
  <2>1. SUFFICES ASSUME ~Repaired(Entry(j)'), NEW v \in Missing(j)'
                 PROVE  Pending(v)' \/ Excused(v)'
    BY DEF Accounted, Repaired
  <2>2. CASE v = n
    BY <1>9, <2>2
  <2>3. CASE v # n
    <3>1. Entry(j)' = Entry(j)
      BY <1>1 DEF Entry
    <3>2. Entry(j)'.has /\ v \in committed' /\ writes'[v].key = j /\ v \notin Entry(j)'.seen
      BY DEF Missing, WritesTo
    <3>3. v \in Missing(j) /\ ~Repaired(Entry(j))
      BY <1>1, <2>1, <2>3, <3>1, <3>2 DEF Missing, WritesTo
    <3>4. Pending(v) \/ Excused(v)
      BY <3>3, QFields DEF Accounted
    <3>5. QED BY <1>7, <1>8, <3>4 DEF ExcusesLast
  <2>4. QED BY <2>2, <2>3
<1>12. PinnedStay(cache, cache')
  BY <1>1 DEF PinnedStay
<1>13. QED
  BY <1>1, <1>5, <1>6, <1>7, <1>10, <1>11, <1>12 DEF QInv, ExcusesLast, Awaited, Entries, Repaired

(* Once a frame is off the stream, what is pending is what was, but for the  *)
(* write it told of.                                                         *)
LEMMA FrameTaken ==
  ASSUME Traffic, inbox # <<>>, inbox' = Tail(inbox), UNCHANGED <<writes, mutations>>
  PROVE  /\ Head(inbox) \in Frames /\ Head(inbox).v \in Drawn
         /\ writes[Head(inbox).v].key \in Keys
         /\ Traffic'
         /\ \A v : v # Head(inbox).v /\ Pending(v) => Pending(v)'
<1>1. /\ inbox \in Seq(Frames) /\ Len(inbox) \in Nat \ {0} /\ Head(inbox) = inbox[1]
      /\ 1 \in 1..Len(inbox) /\ writes \in Seq(WriteRecords)
      /\ \A i \in 1..Len(inbox) : inbox[i].v \in Drawn
  BY DEF Traffic
<1>2. /\ inbox' \in Seq(Frames) /\ Len(inbox') = Len(inbox) - 1
      /\ \A i \in 1..Len(inbox') : i + 1 \in 1..Len(inbox) /\ inbox'[i] = inbox[i + 1]
      /\ \A i \in 2..Len(inbox) : i - 1 \in 1..Len(inbox') /\ inbox'[i - 1] = inbox[i]
  BY <1>1
<1>3. Head(inbox) \in Frames /\ Head(inbox).v \in Drawn
  BY <1>1
<1>4. writes[Head(inbox).v].key \in Keys
  <2>1. writes[Head(inbox).v] \in WriteRecords
    BY <1>1, <1>3 DEF Drawn
  <2>2. QED BY <2>1 DEF WriteRecords
<1>5. Traffic'
  <2>1. Drawn' = Drawn
    BY DEF Drawn
  <2>2. \A i \in 1..Len(inbox') : inbox'[i].v \in Drawn'
    BY <1>1, <1>2, <2>1
  <2>3. QED BY <1>2, <2>1, <2>2 DEF Traffic
<1>6. ASSUME NEW v, v # Head(inbox).v, Pending(v) PROVE Pending(v)'
  <2>1. CASE v \in {m.v : m \in mutations}
    BY <2>1 DEF Pending
  <2>2. CASE v \in {inbox[i].v : i \in 1..Len(inbox)}
    <3>1. PICK i \in 1..Len(inbox) : v = inbox[i].v
      BY <2>2
    <3>2. i \in 2..Len(inbox)
      BY <1>1, <1>6, <3>1
    <3>3. QED BY <1>2, <3>1, <3>2 DEF Pending
  <2>3. QED BY <1>6, <2>1, <2>2 DEF Pending
<1>7. QED BY <1>3, <1>4, <1>5, <1>6

(* A patched entry lacks one write less.                                     *)
LEMMA PatchSuffices ==
  ASSUME QInv, NEW k \in Keys, NEW n \in Writes, SameWrites, ExcusesLast,
         cache' = Patch(cache, k, n), \A v : v # n /\ Pending(v) => Pending(v)'
  PROVE  Edited(cache, cache', k) /\ Awaited(cache', k) /\ Accounted(k)'
<1>1. session \in 1..MaxSessions /\ MapSound(cache) /\ Awaited(cache, k)
  BY QFields
<1>2. /\ Edited(cache, cache', k) /\ SameMarks(cache.entry[k], cache'.entry[k])
      /\ cache'.entry[k].has = cache.entry[k].has
      /\ cache'.entry[k].seen = IF cache.entry[k].has THEN cache.entry[k].seen \cup {n}
                                ELSE cache.entry[k].seen
  BY <1>1, PatchSound
<1>3. /\ Repaired(cache.entry[k]) <=> Repaired(cache'.entry[k])
      /\ cache.entry[k].seen \subseteq cache'.entry[k].seen
  BY <1>2 DEF Repaired, SameMarks
<1>4. \A v \in Missing(k)' : v # n
  BY <1>2 DEF Missing, Entry
<1>5. Accounted(k)'
  BY <1>2, <1>3, <1>4, SameSuffices
<1>6. Awaited(cache', k)
  BY <1>1, <1>2, <1>3 DEF Awaited, Edited
<1>7. QED BY <1>2, <1>5, <1>6

(* A frame is handled: its write is patched in, or the entry is fetched,     *)
(* marked or failed.                                                         *)
LEMMA DeliverStep ==
  ASSUME QInv, DeliverFrame
  PROVE  QInv' /\ PinnedStay(cache, cache')
<1>0. PICK f : f = Head(inbox)
  OBVIOUS
<1>1. PICK k : k = writes[f.v].key
  OBVIOUS
<1> DEFINE n == EnsureEntry(cache, k)
<1>2. /\ inbox # <<>> /\ inbox' = Tail(inbox)
      /\ UNCHANGED <<session, mounted, listening, writes, committed, mutations>>
      /\ \/ n.entry[k].has /\ cache' = Patch(n, k, f.v)
         \/ cache' = Invalidate(n, k)
         \/ cache' = Invalidate(cache, k)
         \/ cache' = RemoveList(cache, k)
      /\ Excuse("none", {})
  <2>1. \/ n.entry[k].has /\ cache' = Patch(n, k, f.v)
        \/ cache' = Invalidate(n, k)
        \/ cache' = Invalidate(cache, k)
        \/ cache' = RemoveList(cache, k)
    <3> DEFINE h == Head(inbox)
               l == writes[h.v].key
    <3>1. \/ /\ EnsureEntry(cache, l).entry[l].has
             /\ cache' = Patch(EnsureEntry(cache, l), l, h.v)
          \/ cache' = Invalidate(EnsureEntry(cache, l), l)
          \/ cache' = Invalidate(cache, l)
          \/ cache' = RemoveList(cache, l)
      BY Zenon DEF DeliverFrame
    <3> HIDE DEF l
    <3>2. l = k /\ h = f
      BY <1>0, <1>1 DEF l
    <3>3. QED BY <3>1, <3>2
  <2>2. /\ inbox # <<>> /\ inbox' = Tail(inbox) /\ Excuse("none", {})
        /\ UNCHANGED <<session, mounted, listening, writes, committed, mutations>>
    BY DEF DeliverFrame, ExcuseNothing
  <2>3. QED BY <2>1, <2>2
<1>3. /\ session \in 1..MaxSessions /\ MapSound(cache) /\ Traffic /\ mounted \subseteq Keys
      /\ listening \subseteq mounted /\ listening \subseteq cache.held /\ Drawn \subseteq Writes
  BY QFields
<1>4. /\ f \in Frames /\ f.v \in Drawn /\ k \in Keys /\ Traffic'
      /\ \A v : v # f.v /\ Pending(v) => Pending(v)'
  BY <1>0, <1>1, <1>2, <1>3, FrameTaken
<1>5. SameWrites /\ ExcusesLast
  BY <1>2, QuietWrites, ExcuseHolds
<1>6. /\ MapSound(cache') /\ OthersKept(cache, cache', k)
      /\ Awaited(cache', k) /\ Accounted(k)'
  <2>1. CASE n.entry[k].has /\ cache' = Patch(n, k, f.v)
    <3>1. cache' = Patch(cache, k, f.v)
      BY <1>3, <1>4, <2>1, LoadedHeld
    <3>2. QED BY <1>3, <1>4, <1>5, <3>1, PatchSuffices DEF Edited
  <2>2. CASE cache' = Invalidate(n, k)
    <3>1. MapSound(n)
      BY <1>3, <1>4, EnsureSound
    <3>2. /\ MapSound(cache') /\ OthersKept(n, cache', k) /\ cache'.held \subseteq n.held
          /\ k \in cache'.held => Repaired(cache'.entry[k])
      BY <1>3, <1>4, <2>2, <3>1, InvalidateSound
    <3>3. OthersKept(cache, cache', k)
      BY <1>3, <1>4, <3>2, EnsureThen
    <3>4. QED BY <1>3, <1>4, <3>2, <3>3, RepairedSuffices
  <2>3. CASE cache' = Invalidate(cache, k)
    <3>1. /\ MapSound(cache') /\ OthersKept(cache, cache', k)
          /\ k \in cache'.held => Repaired(cache'.entry[k])
      BY <1>3, <1>4, <2>3, InvalidateSound
    <3>2. QED BY <1>3, <1>4, <3>1, RepairedSuffices
  <2>4. CASE cache' = RemoveList(cache, k)
    <3>1. Edited(cache, cache', k) /\ (k \in cache.held => Repaired(cache'.entry[k]))
      BY <1>3, <1>4, <2>4, RemoveSound
    <3>2. QED BY <1>3, <1>4, <3>1, RepairedSuffices DEF Edited
  <2>5. QED BY <1>2, <2>1, <2>2, <2>3, <2>4
<1>7. \A v \in Writes : Pending(v) /\ writes[v].key # k => Pending(v)'
  BY <1>1, <1>4
<1>8. k \in listening' => k \in cache'.held
  BY <1>2, <1>3, <1>6 DEF OthersKept, PinnedStay, Pinned
<1>9. listening' \subseteq listening \cup {k} /\ listening' \subseteq mounted' /\ mounted' \subseteq Keys
  BY <1>2, <1>3
<1>10. UNCHANGED session
  BY <1>2
<1>11. QED BY <1>4, <1>5, <1>6, <1>7, <1>8, <1>9, <1>10, CacheStep

(* A resync marks or fetches everything.                                     *)
LEMMA ResyncStep ==
  ASSUME QInv, Resync
  PROVE  QInv' /\ PinnedStay(cache, cache')
<1>1. /\ cache' = InvalidateAll(cache) /\ Excuse("none", {})
      /\ UNCHANGED <<session, mounted, listening, writes, committed, inbox, mutations>>
  BY DEF Resync, ExcuseNothing
<1>2. /\ session \in 1..MaxSessions /\ MapSound(cache) /\ Traffic /\ listening \subseteq cache.held
      /\ mounted \subseteq Keys /\ listening \subseteq mounted
  BY QFields
<1>3. /\ MapSound(cache') /\ cache'.held = cache.held
      /\ \A j \in cache.held : Repaired(cache'.entry[j])
  BY <1>1, <1>2, InvalidateAllSound
<1>4. ASSUME NEW j \in Keys PROVE Awaited(cache', j) /\ Accounted(j)'
  <2>1. j \in cache'.held => Repaired(cache'.entry[j])
    BY <1>3
  <2>2. QED BY <1>2, <1>3, <2>1, RepairedSuffices
<1>5. Traffic'
  BY <1>1, <1>2, QuietTraffic
<1>6. ExcusesLast /\ SameWrites
  BY <1>1, ExcuseHolds, QuietWrites
<1>7. MapSound(cache)'
  BY <1>1, <1>3 DEF MapSound, MapShape, OrderedAt, HeldAt, EntrySound
<1>8. \A j \in Keys : Awaited(cache, j)' /\ Accounted(j)'
  BY <1>4 DEF Awaited, Repaired
<1>9. listening' \subseteq Entries' /\ listening' \subseteq mounted' /\ mounted' \subseteq Keys
  BY <1>1, <1>2, <1>3 DEF Entries
<1>10. session' \in 1..MaxSessions /\ committed' \subseteq Drawn' /\ excused' \in [Gaps -> SUBSET Writes]
  BY <1>1, <1>2, <1>6 DEF ExcusesLast, SameWrites
<1>11. PinnedStay(cache, cache')
  BY <1>3 DEF PinnedStay
<1>12. QED BY <1>5, <1>7, <1>8, <1>9, <1>10, <1>11 DEF QInv

(* A session begins with an empty cache.                                     *)
LEMMA ResetStep ==
  ASSUME QInv, Reset
  PROVE  QInv'
<1>1. /\ session < MaxSessions /\ session' = session + 1 /\ cache' = EmptyCache
      /\ mounted' = {} /\ listening' = {} /\ inbox' = <<>>
      /\ UNCHANGED <<writes, committed, mutations>> /\ Excuse("none", {})
  BY DEF Reset, ExcuseNothing
<1>2. session \in 1..MaxSessions /\ Traffic
  BY QFields
<1>3. session' \in 1..MaxSessions
  BY <1>1, <1>2, ScopedQueryAssumption
<1>4. EntrySound(NewEntry)' /\ NewEntry \in EntryType /\ ~NewEntry.has
  BY <1>3, ScopedQueryAssumption DEF EntrySound, EntryType, NewEntry
<1>5. /\ cache' \in [held : SUBSET Keys, older : [Keys -> SUBSET Keys], entry : [Keys -> EntryType]]
      /\ cache'.held = {} /\ \A k \in Keys : cache'.older[k] = {} /\ cache'.entry[k] = NewEntry
  BY <1>1, <1>4 DEF EmptyCache
<1>6. MapSound(cache)'
  BY <1>4, <1>5 DEF MapSound, MapShape, OrderedAt, HeldAt, EntrySound
<1>7. Traffic'
  BY <1>1, <1>2 DEF Traffic, Drawn
<1>8. ExcusesLast /\ SameWrites
  BY <1>1, ExcuseHolds, QuietWrites
<1>9. ASSUME NEW k \in Keys PROVE Awaited(cache, k)' /\ Accounted(k)'
  BY <1>4, <1>5 DEF Awaited, Accounted, Missing, Entry
<1>10. QED BY <1>1, <1>3, <1>6, <1>7, <1>8, <1>9 DEF QInv, ExcusesLast, SameWrites, Entries

(* Once a mutation is answered, what is pending is what was, but for its     *)
(* write.                                                                    *)
LEMMA MutationTaken ==
  ASSUME Traffic, NEW m \in mutations, mutations' = mutations \ {m}, UNCHANGED <<writes, inbox>>
  PROVE  /\ m \in Mutations /\ m.v \in Drawn /\ writes[m.v].key \in Keys
         /\ Traffic'
         /\ \A v : v # m.v /\ Pending(v) => Pending(v)'
<1>1. m \in Mutations /\ m.v \in Drawn /\ writes \in Seq(WriteRecords)
  BY DEF Traffic
<1>2. writes[m.v].key \in Keys
  <2>1. writes[m.v] \in WriteRecords
    BY <1>1 DEF Drawn
  <2>2. QED BY <2>1 DEF WriteRecords
<1>3. Traffic'
  BY DEF Traffic, Drawn
<1>4. \A v : v # m.v /\ Pending(v) => Pending(v)'
  BY DEF Pending
<1>5. QED BY <1>1, <1>2, <1>3, <1>4

(* What the response of a mutation, or its failure, shares with the others.  *)
LEMMA AnsweredStep ==
  ASSUME QInv, NEW m \in mutations, mutations' = mutations \ {m},
         UNCHANGED <<session, mounted, listening, writes, committed, inbox>>,
         NEW k, k = writes[m.v].key, ExcusesLast,
         MapSound(cache'), OthersKept(cache, cache', k), Awaited(cache', k), Accounted(k)'
  PROVE  QInv' /\ PinnedStay(cache, cache')
<1>1. /\ Traffic /\ mounted \subseteq Keys /\ listening \subseteq mounted
      /\ listening \subseteq cache.held
  BY QFields
<1>2. /\ m.v \in Drawn /\ k \in Keys /\ Traffic'
      /\ \A v : v # m.v /\ Pending(v) => Pending(v)'
  BY <1>1, MutationTaken
<1>3. SameWrites
  BY QuietWrites
<1>4. \A v \in Writes : Pending(v) /\ writes[v].key # k => Pending(v)'
  BY <1>2
<1>5. k \in listening' => k \in cache'.held
  BY <1>1 DEF OthersKept, PinnedStay, Pinned
<1>6. listening' \subseteq listening \cup {k} /\ listening' \subseteq mounted' /\ mounted' \subseteq Keys
  BY <1>1
<1>7. QED BY <1>2, <1>3, <1>4, <1>5, <1>6, CacheStep

(* The response of a create adds its row to whatever the summaries hold.     *)
LEMMA AppendSuffices ==
  ASSUME QInv, NEW k \in Keys, NEW n \in Writes, SameWrites, ExcusesLast,
         cache' = AppendRow(cache, k, n), \A v : v # n /\ Pending(v) => Pending(v)'
  PROVE  Edited(cache, cache', k) /\ Awaited(cache', k) /\ Accounted(k)'
<1>1. session \in 1..MaxSessions /\ MapSound(cache) /\ Awaited(cache, k)
  BY QFields
<1>2. /\ Edited(cache, cache', k) /\ SameMarks(cache.entry[k], cache'.entry[k])
      /\ k \in cache.held => cache'.entry[k].has /\ cache'.entry[k].seen = cache.entry[k].seen \cup {n}
  BY <1>1, AppendSound
<1>3. Repaired(cache.entry[k]) <=> Repaired(cache'.entry[k])
  BY <1>2 DEF Repaired, SameMarks
<1>4. k \notin cache.held => ~cache'.entry[k].has
  BY <1>1, <1>2, HeldFields DEF Edited
<1>5. \A v \in Missing(k)' : v # n
  BY <1>2, <1>4 DEF Missing, Entry
<1>6. cache'.entry[k].has /\ ~Repaired(cache'.entry[k]) =>
        /\ cache.entry[k].has /\ ~Repaired(cache.entry[k])
        /\ cache.entry[k].seen \subseteq cache'.entry[k].seen
  BY <1>1, <1>2, <1>3, <1>4 DEF Awaited
<1>7. Accounted(k)'
  BY <1>5, <1>6, SameSuffices
<1>8. Awaited(cache', k)
  BY <1>2 DEF Awaited, Edited
<1>9. QED BY <1>2, <1>7, <1>8

(* The response of a create seeds the detail; what the seed lacks and nobody *)
(* will bring is in the gap.                                                 *)
LEMMA SeedSuffices ==
  ASSUME QInv, NEW k \in Keys, NEW n \in Writes, SameWrites, ExcusesLast,
         cache' = Seed(cache, k, n), \A v : v # n /\ Pending(v) => Pending(v)',
         \A v \in Missing(k)' : v \in {w \in WritesTo(k) : ~Pending(w)} => Excused(v)'
  PROVE  MapSound(cache') /\ OthersKept(cache, cache', k) /\ Awaited(cache', k) /\ Accounted(k)'
<1>1. session \in 1..MaxSessions /\ MapSound(cache)
  BY QFields
<1>2. /\ MapSound(cache') /\ OthersKept(cache, cache', k)
      /\ k \in cache'.held => cache'.entry[k].has /\ cache'.entry[k].seen = {n}
  BY <1>1, SeedSound
<1>3. k \notin cache'.held => ~cache'.entry[k].has
  BY <1>1, <1>2, HeldFields
<1>4. ASSUME NEW v \in Missing(k)' PROVE Pending(v)' \/ Excused(v)'
  <2>1. v # n
    BY <1>2, <1>3 DEF Missing, Entry
  <2>2. v \in WritesTo(k)
    BY DEF Missing, SameWrites
  <2>3. QED BY <2>1, <2>2
<1>5. Accounted(k)'
  BY <1>4 DEF Accounted
<1>6. Awaited(cache', k)
  BY <1>2 DEF Awaited
<1>7. QED BY <1>2, <1>5, <1>6

(* A mutation is answered.                                                   *)
LEMMA RespondStep ==
  ASSUME QInv, NEW m \in mutations, Respond(m)
  PROVE  QInv' /\ PinnedStay(cache, cache')
<1>0. PICK k : k = writes[m.v].key
  OBVIOUS
<1> DEFINE S == IF m.kind = "seed" THEN {v \in WritesTo(k) : ~Pending(v)}
                ELSE IF m.kind = "reorder" THEN {m.v} ELSE {}
<1>1. /\ mutations' = mutations \ {m}
      /\ UNCHANGED <<session, mounted, listening, writes, committed, inbox>>
      /\ Excuse("overwritten", S)
      /\ m.kind = "patch" => cache' = Patch(cache, k, m.v)
      /\ m.kind = "append" => cache' = AppendRow(cache, k, m.v)
      /\ m.kind = "seed" => cache' = Seed(cache, k, m.v)
      /\ m.kind = "remove" => cache' = RemoveList(cache, k)
      /\ m.kind = "reorder" => cache' = cache
  BY <1>0 DEF Respond
<1>2. /\ session \in 1..MaxSessions /\ MapSound(cache) /\ Traffic /\ Drawn \subseteq Writes
      /\ \A j \in Keys : Awaited(cache, j)
  BY QFields
<1>3. /\ m \in Mutations /\ m.v \in Drawn /\ k \in Keys
      /\ \A v : v # m.v /\ Pending(v) => Pending(v)'
  BY <1>0, <1>1, <1>2, MutationTaken
<1>4. SameWrites
  BY <1>1, QuietWrites
<1>5. /\ ExcusesLast
      /\ \A v \in Missing(k)' : v \in S => Excused(v)'
  BY <1>1, <1>3, ExcuseHolds DEF Gaps
<1>6. m.v \in Writes
  BY <1>2, <1>3
<1>7. /\ MapSound(cache') /\ OthersKept(cache, cache', k)
      /\ Awaited(cache', k) /\ Accounted(k)'
  <2>1. CASE m.kind = "patch"
    BY <1>1, <1>3, <1>4, <1>5, <1>6, <2>1, PatchSuffices DEF Edited
  <2>2. CASE m.kind = "append"
    BY <1>1, <1>3, <1>4, <1>5, <1>6, <2>2, AppendSuffices DEF Edited
  <2>3. CASE m.kind = "seed"
    <3>1. \A v \in Missing(k)' : v \in {w \in WritesTo(k) : ~Pending(w)} => Excused(v)'
      BY <1>5, <2>3
    <3>2. cache' = Seed(cache, k, m.v)
      BY <1>1, <2>3
    <3>3. QED BY <1>3, <1>4, <1>5, <1>6, <3>1, <3>2, SeedSuffices
  <2>4. CASE m.kind = "remove"
    <3>1. Edited(cache, cache', k) /\ (k \in cache.held => Repaired(cache'.entry[k]))
      BY <1>1, <1>2, <1>3, <2>4, RemoveSound
    <3>2. QED BY <1>2, <1>3, <3>1, RepairedSuffices DEF Edited
  <2>5. CASE m.kind = "reorder"
    <3>1. cache' = cache /\ Edited(cache, cache', k)
      BY <1>1, <1>2, <1>3, <2>5, EditNothing
    <3>2. \A v \in Missing(k)' : Pending(v) => Pending(v)' \/ Excused(v)'
      BY <1>3, <1>5, <2>5
    <3>3. cache'.entry[k] = cache.entry[k]
      BY <3>1
    <3>4. Accounted(k)'
      BY <1>3, <1>4, <1>5, <3>2, <3>3, SameSuffices
    <3>5. QED BY <1>2, <1>3, <3>1, <3>4 DEF Edited
  <2>6. QED BY <1>3, <2>1, <2>2, <2>3, <2>4, <2>5 DEF Mutations, MutationKinds
<1> HIDE DEF S
<1>8. QED BY <1>0, <1>1, <1>5, <1>7, AnsweredStep

(* The excuses of a failed mutation.                                         *)
LEMMA FailExcuses ==
  ASSUME QInv, UNCHANGED <<writes, committed>>, NEW m \in mutations, NEW conflict, Fail(m, conflict)
  PROVE  /\ ExcusesLast
         /\ \A k \in Keys : m.v \in Missing(k)' => Excused(m.v)'
         /\ m.kind = "reorder" => \A k \in Keys : \A v \in Missing(k)' :
                                    v \in WritesTo(writes[m.v].key) => Excused(v)'
<1> DEFINE X(g) == IF g = "unanswered" THEN {m.v}
                   ELSE IF g = "rolledback" /\ m.kind = "reorder"
                   THEN WritesTo(writes[m.v].key) ELSE {}
<1>1. excused' = [g \in Gaps |-> (excused[g] \cup X(g)) \cap UNION {Missing(j)' : j \in Keys}]
  BY DEF Fail
<1>2. \A j \in Keys : Missing(j)' \subseteq Writes
  BY QFields DEF Missing, WritesTo
<1>3. /\ excused' \in [Gaps -> SUBSET Writes]
      /\ \A g \in Gaps : excused'[g] = (excused[g] \cup X(g)) \cap UNION {Missing(j)' : j \in Keys}
  BY <1>1, <1>2
<1>4. ExcusesLast
  BY <1>3 DEF ExcusesLast, Excused
<1>5. "unanswered" \in Gaps /\ "rolledback" \in Gaps
  BY DEF Gaps
<1>6. \A k \in Keys : m.v \in Missing(k)' => Excused(m.v)'
  BY <1>3, <1>5 DEF Excused
<1>7. m.kind = "reorder" => \A k \in Keys : \A v \in Missing(k)' :
                              v \in WritesTo(writes[m.v].key) => Excused(v)'
  BY <1>3, <1>5 DEF Excused
<1>8. QED BY <1>4, <1>6, <1>7

(* A mutation fails: its write is in a gap if it was committed after all,    *)
(* and whatever a roll-back took with it.                                    *)
LEMMA FailStep ==
  ASSUME QInv, NEW m \in mutations, NEW conflict \in BOOLEAN, Fail(m, conflict)
  PROVE  QInv' /\ PinnedStay(cache, cache')
<1>0. PICK k : k = writes[m.v].key
  OBVIOUS
<1> DEFINE c == RollBack(cache, k, m)
<1>1. /\ mutations' = mutations \ {m}
      /\ UNCHANGED <<session, mounted, listening, writes, committed, inbox>>
      /\ cache' = IF conflict THEN Invalidate(c, k) ELSE c
  BY <1>0 DEF Fail
<1>2. /\ session \in 1..MaxSessions /\ MapSound(cache) /\ Traffic
      /\ \A j \in Keys : Awaited(cache, j)
  BY QFields
<1>3. /\ m \in Mutations /\ k \in Keys
      /\ \A v : v # m.v /\ Pending(v) => Pending(v)'
  BY <1>0, <1>1, <1>2, MutationTaken
<1>4. SameWrites
  BY <1>1, QuietWrites
<1>5. /\ ExcusesLast
      /\ m.v \in Missing(k)' => Excused(m.v)'
      /\ m.kind = "reorder" => \A v \in Missing(k)' : v \in WritesTo(k) => Excused(v)'
  BY <1>0, <1>1, <1>3, FailExcuses
<1>6. /\ Edited(cache, c, k) /\ SameMarks(cache.entry[k], c.entry[k])
      /\ c.entry[k].has = cache.entry[k].has
      /\ m.kind # "reorder" => c.entry[k].seen = cache.entry[k].seen
  BY <1>2, <1>3, RollBackSound
<1> HIDE DEF c
<1>7. /\ MapSound(cache') /\ OthersKept(cache, cache', k)
      /\ Awaited(cache', k) /\ Accounted(k)'
  <2>1. CASE conflict
    <3>1. MapSound(c)
      BY <1>6 DEF Edited
    <3>2. /\ MapSound(cache') /\ OthersKept(c, cache', k)
          /\ k \in cache'.held => Repaired(cache'.entry[k])
      BY <1>1, <1>2, <1>3, <2>1, <3>1, InvalidateSound
    <3>3. cache.held \subseteq Keys
      BY <1>2 DEF MapSound, MapShape
    <3>4. OthersKept(cache, cache', k)
      BY <1>6, <3>2, <3>3 DEF Edited, OthersKept, PinnedStay, KeptAt, Pinned, SameMarks
    <3>5. QED BY <1>2, <1>3, <3>2, <3>4, RepairedSuffices
  <2>2. CASE ~conflict
    <3>1. cache' = c
      BY <1>1, <2>2
    <3>2. Repaired(cache.entry[k]) <=> Repaired(cache'.entry[k])
      BY <1>6, <3>1 DEF Repaired, SameMarks
    <3>3. Awaited(cache', k)
      BY <1>2, <1>3, <1>6, <3>1, <3>2 DEF Awaited, Edited
    <3>4. Accounted(k)'
      <4>1. CASE m.kind = "reorder"
        <5>1. Missing(k)' \subseteq WritesTo(k)
          BY <1>3, <1>4 DEF Missing, SameWrites
        <5>2. QED BY <1>5, <4>1, <5>1 DEF Accounted
      <4>2. CASE m.kind # "reorder"
        <5>1. cache'.entry[k].seen = cache.entry[k].seen /\ cache'.entry[k].has = cache.entry[k].has
          BY <1>6, <3>1, <4>2
        <5>2. \A v \in Missing(k)' : Pending(v) => Pending(v)' \/ Excused(v)'
          BY <1>3, <1>5
        <5>3. QED BY <1>3, <1>4, <1>5, <3>2, <5>1, <5>2, SameSuffices
      <4>3. QED BY <4>1, <4>2
    <3>5. QED BY <1>6, <3>1, <3>3, <3>4 DEF Edited
  <2>3. QED BY <2>1, <2>2
<1>8. QED BY <1>0, <1>1, <1>5, <1>7, AnsweredStep

-----------------------------------------------------------------------------
(* The theorems.                                                             *)

(* The invariant holds of the empty cache.                                   *)
LEMMA InitQInv == Init => QInv
<1>1. SUFFICES ASSUME Init PROVE QInv
  OBVIOUS
<1>2. /\ session = 1 /\ cache = EmptyCache /\ mounted = {} /\ listening = {} /\ writes = <<>>
      /\ committed = {} /\ inbox = <<>> /\ mutations = {} /\ excused = [g \in Gaps |-> {}]
  BY <1>1 DEF Init
<1>3. session \in 1..MaxSessions
  BY <1>2, ScopedQueryAssumption
<1>4. EntrySound(NewEntry) /\ NewEntry \in EntryType /\ ~NewEntry.has
  BY <1>3, NewEntrySound DEF EntrySound
<1>5. /\ cache \in [held : SUBSET Keys, older : [Keys -> SUBSET Keys], entry : [Keys -> EntryType]]
      /\ cache.held = {} /\ \A k \in Keys : cache.older[k] = {} /\ cache.entry[k] = NewEntry
  BY <1>2, <1>4 DEF EmptyCache
<1>6. MapSound(cache)
  BY <1>4, <1>5 DEF MapSound, MapShape, OrderedAt, HeldAt
<1>7. Traffic
  BY <1>2, ScopedQueryAssumption DEF Traffic, Drawn
<1>8. \A k \in Keys : Awaited(cache, k) /\ Accounted(k)
  BY <1>4, <1>5 DEF Awaited, Accounted, Missing, Entry
<1>9. QED BY <1>2, <1>3, <1>6, <1>7, <1>8 DEF QInv

(* Every step preserves the invariant, and within a session what is pinned.  *)
LEMMA QInvStep ==
  QInv /\ [Next]_vars => QInv' /\ (session' = session => PinnedStay(cache, cache'))
<1>1. SUFFICES ASSUME QInv, [Next]_vars
               PROVE  QInv' /\ (session' = session => PinnedStay(cache, cache'))
  OBVIOUS
<1>2. CASE UNCHANGED vars
  <2>1. QInv'
    BY <1>1, <1>2 DEF QInv, vars, MapSound, MapShape, OrderedAt, HeldAt, EntrySound, Entries,
       Traffic, Drawn, Awaited, Repaired, Accounted, Missing, WritesTo, Entry, Pending, Excused
  <2>2. PinnedStay(cache, cache')
    BY <1>2 DEF PinnedStay, vars
  <2>3. QED BY <2>1, <2>2
<1>3. CASE Next
  <2>1. CASE \E k \in Keys : Mount(k)
    BY <1>1, <2>1, MountStep
  <2>2. CASE \E k \in Keys : Unmount(k)
    BY <1>1, <2>2, UnmountStep
  <2>3. CASE \E k \in Keys : Refetch(k)
    BY <1>1, <2>3, RefetchStep
  <2>4. CASE \E k \in Keys : Answer(k)
    BY <1>1, <2>4, AnswerStep
  <2>5. CASE \E k \in Keys : Resolve(k)
    BY <1>1, <2>5, ResolveStep
  <2>6. CASE \E k \in Keys : Reject(k)
    BY <1>1, <2>6, RejectStep
  <2>7. CASE \E k \in Keys : \E kind \in FrameKinds : ForeignWrite(k, kind)
    BY <1>1, <2>7, ForeignWriteStep
  <2>8. CASE \E k \in Keys : \E kind \in MutationKinds : Mutate(k, kind)
    BY <1>1, <2>8, MutateStep
  <2>9. CASE \E m \in mutations : CommitMutation(m)
    BY <1>1, <2>9, CommitStep
  <2>10. CASE \E m \in mutations : Respond(m)
    BY <1>1, <2>10, RespondStep
  <2>11. CASE \E m \in mutations : \E conflict \in BOOLEAN : Fail(m, conflict)
    BY <1>1, <2>11, FailStep
  <2>12. CASE DeliverFrame
    BY <1>1, <2>12, DeliverStep
  <2>13. CASE Resync
    BY <1>1, <2>13, ResyncStep
  <2>14. CASE Reset
    <3>1. session' # session
      BY <1>1, <2>14, QFields DEF Reset
    <3>2. QED BY <1>1, <2>14, <3>1, ResetStep
  <2>15. QED
    BY <1>3, <2>1, <2>2, <2>3, <2>4, <2>5, <2>6, <2>7, <2>8, <2>9, <2>10, <2>11, <2>12, <2>13,
       <2>14 DEF Next
<1>4. QED BY <1>1, <1>2, <1>3

(* The invariant is one of the specification.                                *)
LEMMA QInvAlways == Spec => []QInv
BY InitQInv, QInvStep, PTL DEF Spec

(* The cache holds one entry per key in a total order of insertion, shows    *)
(* nobody the rows another session fetched (scopedQuery.ts, reset), and      *)
(* shows a spinner only for a request that is under way.                     *)
THEOREM CacheStaysSound == Spec => []CacheSound
<1>1. ASSUME QInv PROVE CacheSound
  <2>1. \A k \in Keys : OrderSound(k)
    BY <1>1 DEF QInv, MapSound, MapShape, OrderedAt, OrderSound, Entries
  <2>2. cache.entry \in [Keys -> EntryType] /\ cache.older \in [Keys -> SUBSET Keys]
        /\ Entries \subseteq Keys
    BY <1>1 DEF QInv, MapSound, MapShape, Entries
  <2>3. \A k \in Keys : EntrySound(Entry(k)) /\ (k \notin Entries => Entry(k) = NewEntry)
    BY <1>1 DEF QInv, MapSound, HeldAt, Entry, Entries
  <2>4. TypeOK
    BY <1>1, <2>1, <2>2, <2>3 DEF TypeOK, QInv, Drawn
  <2>5. FetchIsolation /\ SpinnerEnds
    BY <2>3 DEF FetchIsolation, SpinnerEnds, EntrySound
  <2>6. QED BY <2>4, <2>5 DEF CacheSound
<1>2. QED BY <1>1, QInvAlways, PTL

(* "Neither applied nor recorded" (listData.ts, handleListResourceEvent)     *)
(* happens only in the named gaps: settled data that is neither stale nor    *)
(* failed has every committed write that no gap names.                       *)
THEOREM LossesStayRecorded == Spec => []LossesRecorded
<1>1. ASSUME QInv PROVE LossesRecorded
  <2>1. SUFFICES ASSUME NEW k \in Keys, Settled(k), ~Entry(k).stale, ~Entry(k).error,
                        NEW v \in Missing(k)
                 PROVE  v \in UNION {excused[g] : g \in Gaps}
    BY DEF LossesRecorded
  <2>2. ~Repaired(Entry(k))
    BY <2>1 DEF Settled, Repaired
  <2>3. Pending(v) \/ Excused(v)
    BY <1>1, <2>2 DEF QInv, Accounted
  <2>4. v \in Drawn /\ writes[v].key = k
    BY <1>1, MissingCommitted DEF QInv, WritesTo
  <2>5. ~Pending(v)
    BY <2>1, <2>4 DEF Settled, Drawn
  <2>6. QED BY <2>3, <2>5 DEF Excused
<1>2. QED BY <1>1, QInvAlways, PTL

(* evictColdEntries, or anything else short of a session boundary, takes     *)
(* away no entry that has a listener or a request in flight.                 *)
THEOREM PinnedAlwaysSurvive == Spec => PinnedSurvive
<1>1. QInv /\ [Next]_vars =>
        [session' = session =>
           \A k \in Entries : (k \in listening \/ Entry(k).get # "none") => k \in Entries']_vars
  BY QInvStep DEF PinnedStay, Pinned, Entries, Entry
<1>2. QED BY <1>1, QInvAlways, PTL DEF Spec, PinnedSurvive
=============================================================================
