-------------------------- MODULE SseFanoutProofs ---------------------------
(***************************************************************************)
(* What SseFanout promises for every set of workers, every number of       *)
(* frames, every stream length and every batch size: its deliveries are    *)
(* sound and its losses are the named ones.                                *)
(***************************************************************************)
EXTENDS SseFanout, TLAPS, SequenceTheorems, FiniteSetTheorems, WellFoundedInduction

(* The id a reader has got to: the last entry it was handed or, as long as   *)
(* it was handed none, the one its "$" stood for.                            *)
Position(w) == IF lastId[w] = Dollar THEN cursor[w] ELSE lastId[w]

(* _fan_out_loop asks for what follows the last entry it was handed.         *)
ReadersResume ==
  \A w \in Workers : /\ reader[w] = "blocked" => cursor[w] = Position(w)
                     /\ cursor[w] <= Position(w)

(* A frame a client lacks is still on its way to the stream, has fallen into *)
(* a gap, or waits in the stream ahead of its worker's reader.               *)
Coming(w, n) == \E v \in Workers : v # w /\ n \in pending[v]
Fallen(w, n) == \E r \in Gaps : n \in lost[r][w]
Waiting(w, n) ==
  \E k \in 1..Len(entries) :
    Position(w) < k /\ entries[k].frame = n /\ entries[k].origin # w
MissingAccounted ==
  \A w \in Workers : \A n \in missing[w] : Coming(w, n) \/ Fallen(w, n) \/ Waiting(w, n)

(* A frame a client was sent was read from the stream, or is the worker's    *)
(* own, which no entry of a sibling carries.                                 *)
ReadBy(w, n) == \E k \in 1..Len(entries) : k <= Position(w) /\ entries[k].frame = n
OwnOnly(w, n) ==
  /\ \A v \in Workers : v # w => n \notin pending[v]
  /\ \A k \in 1..Len(entries) : entries[k].frame = n => entries[k].origin = w
SentTraced == \A w \in Workers : \A n \in got[w] : ReadBy(w, n) \/ OwnOnly(w, n)

FanoutInv == /\ TypeOK
             /\ ReadersResume
             /\ MissingAccounted
             /\ SentTraced
             /\ NoDoubleDelivery

-----------------------------------------------------------------------------
(* A bounded set of numbers has a largest one: the largest frame of a batch, *)
(* which a client keeps as its Last-Event-ID.                                *)
LEMMA LargestExists ==
  ASSUME NEW b \in Nat, NEW S \in SUBSET (0..b), S # {}
  PROVE  \E m \in S : \A n \in S : n <= m
<1> DEFINE Above(x) == {y \in S : y > x}
           Family == {Above(x) : x \in S}
           R == StrictSubsetOrdering(S)
<1>1. IsFiniteSet(S)
  <2>1. 0 \in Int /\ b \in Int
    OBVIOUS
  <2>2. IsFiniteSet(0..b)
    BY <2>1, FS_Interval
  <2>3. QED BY <2>2, FS_Subset
<1>2. IsWellFoundedOn(R, SUBSET S)
  BY <1>1, FS_FiniteSubsetsOfFinite, FS_StrictSubsetOrderingWellFounded, Zenon
<1>3. Family \subseteq SUBSET S /\ Family # {}
  OBVIOUS
<1>4. PICK F \in Family : \A G \in Family : <<G, F>> \notin R
  <2> HIDE DEF Family, R
  <2>1. QED BY <1>2, <1>3, WFMin, Zenon
<1>5. PICK x \in S : F = Above(x)
  OBVIOUS
<1>6. ASSUME NEW y \in S, y > x PROVE FALSE
  <2>1. y \in Above(x) /\ y \notin Above(y)
    BY <1>6
  <2>2. Above(y) \subseteq Above(x)
    <3>1. x \in Int /\ y \in Int /\ \A z \in S : z \in Int
      OBVIOUS
    <3>2. ASSUME NEW z \in S, z > y PROVE z > x
      BY <1>6, <3>1, <3>2
    <3>3. QED BY <3>2
  <2>3. ASSUME NEW A \in SUBSET S, NEW B \in SUBSET S, A \subseteq B, A # B
        PROVE  <<A, B>> \in R
    <3>1. /\ <<A, B>> \in (SUBSET S) \X (SUBSET S)
          /\ <<A, B>>[1] = A /\ <<A, B>>[2] = B
      OBVIOUS
    <3>2. QED BY <2>3, <3>1, Zenon DEF StrictSubsetOrdering
  <2>4. Above(y) \in SUBSET S /\ Above(x) \in SUBSET S /\ Above(y) # Above(x)
    BY <2>1
  <2>5. <<Above(y), Above(x)>> \in R
    <3> HIDE DEF Above, R
    <3>1. QED BY <2>2, <2>3, <2>4
  <2>6. QED BY <1>4, <1>5, <2>5
<1>7. QED BY <1>6

(* A set with more than one element has two.                                 *)
LEMMA TwoElements ==
  ASSUME NEW S, IsFiniteSet(S), Cardinality(S) > 1
  PROVE  \E j, k \in S : j # k
<1>1. S # {}
  BY FS_EmptySet
<1>2. PICK x \in S : TRUE
  BY <1>1
<1>3. S # {x}
  BY FS_Singleton
<1>4. QED BY <1>2, <1>3

(* What XREAD returns: entries after the cursor, all of them up to some id.  *)
LEMMA BatchFacts ==
  ASSUME TypeOK, NEW w \in Workers
  PROVE  /\ Batch(w) \subseteq 1..Len(entries)
         /\ \A k \in Batch(w) : cursor[w] < k
         /\ Batch(w) # {} => \E k \in Batch(w) : \A j \in Batch(w) : j <= k
         /\ \A k \in 1..Len(entries) : \/ k <= cursor[w]
                                       \/ k < first
                                       \/ k \in Batch(w)
                                       \/ Batch(w) # {} /\ \A j \in Batch(w) : j < k
<1>1. /\ Len(entries) \in Nat /\ cursor[w] \in Nat /\ first \in Nat \ {0}
      /\ ReadCount \in Nat \ {0} /\ cursor[w] <= Len(entries)
  BY FanoutAssumption DEF TypeOK
<1> DEFINE from == Larger(cursor[w] + 1, first)
           to == Smaller(Len(entries), from + ReadCount - 1)
<1>2. /\ from \in Nat \ {0} /\ from > cursor[w] /\ from >= first
      /\ from = cursor[w] + 1 \/ from = first
  BY <1>1 DEF Larger
<1>3. Batch(w) = from..to /\ to \in Int /\ to <= Len(entries)
      /\ (to = Len(entries) \/ to >= from)
  BY <1>1, <1>2 DEF Batch, Smaller
<1> HIDE DEF from, to
<1>4. Batch(w) # {} => to \in Batch(w) /\ \A j \in Batch(w) : j <= to
  BY <1>2, <1>3
<1>5. Batch(w) \subseteq 1..Len(entries) /\ \A k \in Batch(w) : cursor[w] < k
  BY <1>1, <1>2, <1>3
<1>6. ASSUME NEW k \in 1..Len(entries), k > cursor[w], k >= first, k \notin Batch(w)
      PROVE  Batch(w) # {} /\ \A j \in Batch(w) : j < k
  <2>1. from <= k /\ k > to
    BY <1>1, <1>2, <1>3, <1>6
  <2>2. to >= from
    BY <1>1, <1>2, <1>3, <2>1
  <2>3. from \in Batch(w)
    BY <1>2, <1>3, <2>2
  <2>4. \A j \in Batch(w) : j <= to /\ j \in Int
    BY <1>2, <1>3
  <2>5. \A j \in Batch(w) : j < k
    BY <1>3, <2>1, <2>4
  <2>6. QED BY <2>3, <2>5
<1>7. QED BY <1>1, <1>4, <1>5, <1>6

(* XADD appends: what the stream held keeps its id.                          *)
LEMMA AddedFacts ==
  ASSUME TypeOK, NEW w \in Workers, NEW n \in pending[w], NEW copies \in {1, 2},
         Added(w, n, copies)
  PROVE  /\ entries' \in Seq([frame : 1..head, origin : Workers])
         /\ Len(entries') = Len(entries) + copies
         /\ \A k \in 1..Len(entries) : entries'[k] = entries[k]
         /\ \A k \in 1..Len(entries') :
              k > Len(entries) => entries'[k] = [frame |-> n, origin |-> w]
<1> DEFINE E == [frame : 1..head, origin : Workers]
           more == [i \in 1..copies |-> [frame |-> n, origin |-> w]]
<1>1. entries \in Seq(E) /\ [frame |-> n, origin |-> w] \in E /\ copies \in Nat
  BY DEF TypeOK
<1>2. more \in Seq(E) /\ Len(more) = copies
      /\ \A i \in 1..copies : more[i] = [frame |-> n, origin |-> w]
  <2>1. more \in [1..copies -> E] /\ DOMAIN more = 1..copies
    BY <1>1
  <2>2. more \in Seq(E)
    BY <1>1, <2>1, SeqDef
  <2>3. Len(more) \in Nat /\ 1..Len(more) = 1..copies
    BY <2>1, <2>2, LenProperties
  <2>4. Len(more) = copies
    BY <1>1, <2>3
  <2>5. QED BY <2>2, <2>4
<1>3. entries' = entries \o more
  BY DEF Added
<1> HIDE DEF E, more
<1>4. QED
  <2>1. /\ entries' \in Seq(E) /\ Len(entries') = Len(entries) + copies
        /\ \A i \in 1..Len(entries) + copies :
             entries'[i] = IF i <= Len(entries) THEN entries[i] ELSE more[i - Len(entries)]
    BY <1>1, <1>2, <1>3, ConcatProperties
  <2>2. Len(entries) \in Nat
    BY <1>1
  <2>3. ASSUME NEW k \in 1..Len(entries') PROVE k > Len(entries) => k - Len(entries) \in 1..copies
    BY <1>1, <2>1, <2>2
  <2>4. \A k \in 1..Len(entries') :
              k > Len(entries) => entries'[k] = [frame |-> n, origin |-> w]
    BY <1>1, <1>2, <2>1, <2>2, <2>3
  <2>5. \A k \in 1..Len(entries) : entries'[k] = entries[k]
    BY <1>1, <2>1, <2>2
  <2>6. QED BY <2>1, <2>4, <2>5 DEF E

-----------------------------------------------------------------------------
(* Each kind of step keeps the types.  Write is commit_and_broadcast.        *)
LEMMA WriteType ==
  ASSUME TypeOK, NEW w \in Workers, Write(w)
  PROVE  TypeOK'
<1>1. head \in Nat /\ head' = head + 1 /\ head' \in 0..MaxFrames /\ 1..head \subseteq 1..head'
      /\ head' \in 1..head'
  BY FanoutAssumption DEF TypeOK, Write
<1>2. entries' = entries /\ entries \in Seq([frame : 1..head', origin : Workers])
  <2>1. [frame : 1..head, origin : Workers] \subseteq [frame : 1..head', origin : Workers]
    BY <1>1
  <2>2. entries \in Seq([frame : 1..head, origin : Workers])
    BY DEF TypeOK
  <2>3. entries \in Seq([frame : 1..head', origin : Workers])
    BY <2>1, <2>2, SeqMonotonic, Zenon
  <2>4. QED BY <2>3 DEF Write
<1>3. mark' \in [Workers -> 0..head']
  BY <1>1 DEF TypeOK, Write, Larger
<1>4. pending' \in [Workers -> SUBSET (1..head')]
  BY <1>1 DEF TypeOK, Write
<1>5. missing' \in [Workers -> SUBSET (1..head')] /\ got' \in [Workers -> SUBSET (1..head')]
      /\ twice' \in [Workers -> SUBSET (1..head')]
  BY <1>1 DEF TypeOK, Write
<1>6. QED
  BY <1>1, <1>2, <1>3, <1>4, <1>5 DEF TypeOK, Write, readerVars

(* publish, whichever way the XADD ends, keeps the types.                    *)
LEMMA PublishType ==
  ASSUME TypeOK, NEW w \in Workers, Publish(w)
  PROVE  TypeOK'
<1>1. PICK n \in pending[w] :
        \/ PublishSkip(w, n) \/ PublishFail(w, n) \/ PublishOk(w, n)
        \/ PublishTwice(w, n) \/ PublishUnacknowledged(w, n)
  BY DEF Publish
<1>2. CASE PublishSkip(w, n) \/ PublishFail(w, n)
  <2>1. /\ UNCHANGED <<head, entries, first, lastId, reader, cursor, degraded, mark, missing, got,
                       twice>>
        /\ pending' = [pending EXCEPT ![w] = @ \ {n}]
        /\ backoff' = backoff \/ backoff' = [backoff EXCEPT ![w] = TRUE]
    BY <1>2 DEF PublishSkip, PublishFail, readerVars, clientVars
  <2>2. backoff' \in [Workers -> BOOLEAN]
    BY <2>1 DEF TypeOK
  <2>3. pending' \in [Workers -> SUBSET (1..head')]
    BY <2>1 DEF TypeOK
  <2>4. QED BY <2>1, <2>2, <2>3 DEF TypeOK
<1>3. ASSUME NEW copies \in {1, 2}, Added(w, n, copies), backoff' \in [Workers -> BOOLEAN]
      PROVE  TypeOK'
  <2>1. entries' \in Seq([frame : 1..head, origin : Workers])
        /\ Len(entries') = Len(entries) + copies
    BY <1>3, AddedFacts
  <2>2. Len(entries) \in Nat /\ first \in Nat /\ StreamMaxLen \in Nat \ {0} /\ copies \in Nat
    BY FanoutAssumption DEF TypeOK
  <2>3. first' \in 1..(Len(entries') + 1)
    BY <1>3, <2>1, <2>2 DEF Added, Larger, TypeOK
  <2>4. pending' \in [Workers -> SUBSET (1..head)]
    BY <1>3 DEF Added, TypeOK
  <2>5. /\ {Dollar} \cup 1..Len(entries) \subseteq {Dollar} \cup 1..Len(entries')
        /\ 0..Len(entries) \subseteq 0..Len(entries')
    BY <2>1, <2>2
  <2>6. lastId' \in [Workers -> {Dollar} \cup 1..Len(entries')]
        /\ cursor' \in [Workers -> 0..Len(entries')]
    BY <1>3, <2>5 DEF Added, TypeOK, readerVars
  <2>7. QED BY <1>3, <2>1, <2>3, <2>4, <2>6 DEF Added, TypeOK, readerVars, clientVars
<1>4. CASE PublishOk(w, n) \/ PublishTwice(w, n) \/ PublishUnacknowledged(w, n)
  <2>1. backoff' \in [Workers -> BOOLEAN]
    BY <1>4 DEF TypeOK, PublishOk, PublishTwice, PublishUnacknowledged
  <2>2. QED BY <1>3, <1>4, <2>1 DEF PublishOk, PublishTwice, PublishUnacknowledged
<1>5. QED BY <1>1, <1>2, <1>4

(* The entries of the stream carry committed frames of workers.              *)
LEMMA EntryFacts ==
  ASSUME TypeOK, NEW k \in 1..Len(entries)
  PROVE  entries[k].frame \in 1..head /\ entries[k].origin \in Workers
<1>1. entries \in Seq([frame : 1..head, origin : Workers])
  BY DEF TypeOK
<1>2. entries[k] \in [frame : 1..head, origin : Workers]
  BY <1>1, ElementOfSeq, Zenon
<1>3. QED BY <1>2

(* What a returning XREAD does to its worker's variables.                    *)
LEMMA ReturnFacts ==
  ASSUME TypeOK, NEW w \in Workers, XReadReturns(w)
  PROVE  /\ FramesOf(Foreign(w, Batch(w))) \subseteq 1..head
         /\ \/ lastId'[w] = lastId[w] /\ Batch(w) = {}
            \/ lastId'[w] \in Batch(w) /\ \A j \in Batch(w) : j <= lastId'[w]
         /\ mark'[w] \in 0..head
<1> DEFINE frames == FramesOf(Foreign(w, Batch(w)))
<1>1. frames \subseteq 1..head
  <2>1. \A k \in 1..Len(entries) : entries[k].frame \in 1..head
    BY EntryFacts
  <2>2. QED BY <2>1, BatchFacts DEF FramesOf, Foreign
<1>2. lastId'[w] = IF Batch(w) = {} THEN lastId[w]
                   ELSE CHOOSE k \in Batch(w) : \A j \in Batch(w) : j <= k
  BY DEF XReadReturns, TypeOK
<1>3. Batch(w) # {} => lastId'[w] \in Batch(w) /\ \A j \in Batch(w) : j <= lastId'[w]
  BY <1>2, BatchFacts, Zenon
<1> DEFINE all == frames \cup {mark[w]}
<1>4. mark'[w] = CHOOSE m \in all : \A n \in all : n <= m
  BY DEF XReadReturns, TypeOK
<1>5. all \in SUBSET (0..head) /\ all # {} /\ head \in Nat
  BY <1>1 DEF TypeOK
<1> HIDE DEF all
<1>6. \E m \in all : \A n \in all : n <= m
  BY <1>5, LargestExists
<1>7. mark'[w] \in all
  BY <1>4, <1>6, Zenon
<1>8. QED BY <1>1, <1>2, <1>3, <1>5, <1>7

(* The reader's steps keep the types.                                        *)
LEMMA ReaderType ==
  ASSUME TypeOK, NEW w \in Workers,
         XRead(w) \/ XReadReturns(w) \/ ReadFails(w) \/ Recycle(w) \/ BackoffEnds(w)
  PROVE  TypeOK'
<1>1. Len(entries) \in Nat /\ head \in Nat
  BY DEF TypeOK
<1>2. CASE XRead(w)
  <2> DEFINE to == IF lastId[w] = Dollar THEN Len(entries) ELSE lastId[w]
  <2>1. to \in 0..Len(entries)
    BY <1>1 DEF TypeOK
  <2>2. cursor' \in [Workers -> 0..Len(entries)]
    <3>1. cursor' = [cursor EXCEPT ![w] = to]
      BY <1>2 DEF XRead
    <3> HIDE DEF to
    <3>2. QED BY <2>1, <3>1 DEF TypeOK
  <2>3. QED BY <1>2, <2>2 DEF XRead, TypeOK, clientVars
<1>3. CASE XReadReturns(w)
  <2>1. /\ FramesOf(Foreign(w, Batch(w))) \subseteq 1..head
        /\ lastId'[w] \in {Dollar} \cup 1..Len(entries)
        /\ mark'[w] \in 0..head
    BY <1>3, ReturnFacts, BatchFacts DEF TypeOK
  <2>2. lastId' \in [Workers -> {Dollar} \cup 1..Len(entries)] /\ mark' \in [Workers -> 0..head]
    BY <1>3, <2>1 DEF XReadReturns, TypeOK
  <2>3. missing' \in [Workers -> SUBSET (1..head)]
    BY <1>3, <2>1 DEF XReadReturns, TypeOK
  <2>4. got' \in [Workers -> SUBSET (1..head)]
    BY <1>3, <2>1 DEF XReadReturns, TypeOK
  <2>5. twice' \in [Workers -> SUBSET (1..head)]
    BY <1>3, <2>1 DEF XReadReturns, TypeOK
  <2>6. QED BY <1>3, <2>2, <2>3, <2>4, <2>5 DEF XReadReturns, TypeOK
<1>4. CASE ReadFails(w)
  BY <1>4 DEF ReadFails, TypeOK, clientVars
<1>5. CASE Recycle(w)
  <2>1. mark' \in [Workers -> 0..head] /\ missing' \in [Workers -> SUBSET (1..head)]
    BY <1>1, <1>5 DEF Recycle, TypeOK
  <2>2. QED BY <1>5, <2>1 DEF Recycle, TypeOK, readerVars
<1>6. CASE BackoffEnds(w)
  BY <1>6 DEF BackoffEnds, TypeOK, readerVars, clientVars
<1>7. QED BY <1>2, <1>3, <1>4, <1>5, <1>6

(* The types hold in every reachable state.                                  *)
THEOREM FanoutTypeCorrect == Spec => []TypeOK
<1>1. Init => TypeOK
  BY FanoutAssumption DEF Init, TypeOK
<1>2. TypeOK /\ [Next]_vars => TypeOK'
  <2>1. CASE UNCHANGED vars
    BY <2>1 DEF TypeOK, vars
  <2>2. QED BY <2>1, WriteType, PublishType, ReaderType DEF Next
<1>3. QED BY <1>1, <1>2, PTL DEF Spec

-----------------------------------------------------------------------------
(* A reader's position is the id of an entry that was added, or 0.           *)
LEMMA PositionType ==
  ASSUME TypeOK, NEW w \in Workers
  PROVE  Position(w) \in 0..Len(entries) /\ cursor[w] \in 0..Len(entries) /\ Len(entries) \in Nat
BY DEF TypeOK, Position

(* Readers only move forward, and the entries before them stay.              *)
Forward(w) == Position(w) <= Position(w)'
EntriesKept == /\ Len(entries) <= Len(entries')
               /\ \A k \in 1..Len(entries) : entries'[k] = entries[k]

(* Publishing leaves the readers where they are.                             *)
LEMMA PublishKinds ==
  ASSUME TypeOK, NEW w \in Workers, Publish(w)
  PROVE  \E n \in pending[w] :
           /\ pending' = [pending EXCEPT ![w] = @ \ {n}]
           /\ UNCHANGED <<head, lastId, reader, cursor, degraded, mark, twice, got, missing>>
           /\ \/ /\ UNCHANGED entries
                 /\ \A r \in Gaps : \A v \in Workers :
                      lost'[r][v] = (lost[r][v] \cup (IF r = "unpublished" /\ v # w THEN {n} ELSE {}))
                                       \cap missing'[v]
              \/ UNCHANGED lost /\ (Added(w, n, 1) \/ Added(w, n, 2))
<1>1. PICK n \in pending[w] :
        \/ PublishSkip(w, n) \/ PublishFail(w, n) \/ PublishOk(w, n)
        \/ PublishTwice(w, n) \/ PublishUnacknowledged(w, n)
  BY DEF Publish
<1>2. CASE PublishSkip(w, n) \/ PublishFail(w, n)
  <2>1. \A r \in Gaps : \A v \in Workers :
          lost'[r][v] = (lost[r][v] \cup (IF r = "unpublished" /\ v # w THEN {n} ELSE {}))
                           \cap missing'[v]
    BY <1>2 DEF PublishSkip, PublishFail, Unpublished, Lose
  <2>2. /\ pending' = [pending EXCEPT ![w] = @ \ {n}]
        /\ UNCHANGED <<head, entries, lastId, reader, cursor, degraded, mark, twice, got, missing>>
    BY <1>2 DEF PublishSkip, PublishFail, readerVars, clientVars
  <2>3. QED BY <2>1, <2>2
<1>3. ASSUME NEW copies \in {1, 2}, Added(w, n, copies)
      PROVE  /\ pending' = [pending EXCEPT ![w] = @ \ {n}]
             /\ UNCHANGED <<head, lastId, reader, cursor, degraded, mark, twice, got, missing, lost>>
  BY <1>3 DEF Added, readerVars, clientVars
<1>4. CASE PublishOk(w, n) \/ PublishTwice(w, n) \/ PublishUnacknowledged(w, n)
  <2>1. PICK copies \in {1, 2} : Added(w, n, copies)
    BY <1>4 DEF PublishOk, PublishTwice, PublishUnacknowledged
  <2>2. QED BY <1>3, <2>1
<1>5. QED BY <1>1, <1>2, <1>4

(* ... and every step keeps the entries that are there.                      *)
LEMMA EntriesStay ==
  ASSUME TypeOK, [Next]_vars
  PROVE  EntriesKept
<1>1. Len(entries) \in Nat
  BY DEF TypeOK
<1>2. UNCHANGED entries => EntriesKept
  BY <1>1 DEF EntriesKept
<1>3. ASSUME NEW w \in Workers, Publish(w) PROVE EntriesKept
  <2>1. PICK n \in pending[w] : UNCHANGED entries \/ Added(w, n, 1) \/ Added(w, n, 2)
    BY <1>3, PublishKinds
  <2>2. ASSUME NEW copies \in {1, 2}, Added(w, n, copies) PROVE EntriesKept
    <3>1. Len(entries') = Len(entries) + copies
      BY <2>2, AddedFacts
    <3>2. \A k \in 1..Len(entries) : entries'[k] = entries[k]
      BY <2>2, AddedFacts
    <3>3. QED BY <1>1, <3>1, <3>2 DEF EntriesKept
  <2>3. QED BY <1>2, <2>1, <2>2
<1>4. ASSUME NEW w \in Workers,
             \/ Write(w) \/ BackoffEnds(w) \/ XRead(w) \/ XReadReturns(w) \/ ReadFails(w)
             \/ Recycle(w)
      PROVE  UNCHANGED entries
  BY <1>4 DEF Write, BackoffEnds, XRead, XReadReturns, ReadFails, Recycle
<1>5. QED BY <1>2, <1>3, <1>4 DEF Next, vars

(* Where the readers stand after a step: _fan_out_loop never goes back.      *)
LEMMA ReadersStep ==
  ASSUME TypeOK, ReadersResume, [Next]_vars
  PROVE  ReadersResume' /\ \A v \in Workers : Forward(v)
<1>1. \A v \in Workers : Position(v) \in Int /\ cursor[v] \in Int
  BY PositionType
<1>2. ASSUME UNCHANGED <<lastId, cursor>>,
             \A v \in Workers : reader'[v] = reader[v] \/ reader'[v] # "blocked"
      PROVE  ReadersResume' /\ \A v \in Workers : Forward(v)
  BY <1>1, <1>2 DEF ReadersResume, Position, Forward
<1>3. ASSUME NEW w \in Workers, Write(w) \/ BackoffEnds(w) \/ Recycle(w)
      PROVE  UNCHANGED <<lastId, cursor, reader>>
  BY <1>3 DEF Write, BackoffEnds, Recycle, readerVars
<1>4. ASSUME NEW w \in Workers, Publish(w)
      PROVE  UNCHANGED <<lastId, cursor, reader>>
  BY <1>4, PublishKinds
<1>5. ASSUME NEW w \in Workers, ReadFails(w)
      PROVE  /\ UNCHANGED <<lastId, cursor>>
             /\ \A v \in Workers : reader'[v] = reader[v] \/ reader'[v] # "blocked"
  BY <1>5 DEF ReadFails, TypeOK
<1>6. ASSUME NEW w \in Workers, XRead(w)
      PROVE  ReadersResume' /\ \A v \in Workers : Forward(v)
  <2>1. /\ UNCHANGED <<lastId, entries>>
        /\ \A v \in Workers : v # w => cursor'[v] = cursor[v] /\ reader'[v] = reader[v]
        /\ cursor'[w] = IF lastId[w] = Dollar THEN Len(entries) ELSE lastId[w]
    BY <1>6 DEF XRead, TypeOK
  <2>2. ASSUME NEW v \in Workers, v # w
        PROVE  /\ reader'[v] = "blocked" => cursor'[v] = Position(v)'
               /\ cursor'[v] <= Position(v)' /\ Forward(v)
    BY <1>1, <2>1, <2>2 DEF ReadersResume, Position, Forward
  <2>3. cursor'[w] = Position(w)' /\ Forward(w) /\ cursor'[w] <= Position(w)'
    <3>1. cursor'[w] = Position(w)' /\ cursor'[w] \in Int
      BY <2>1, PositionType DEF Position, TypeOK
    <3>2. Position(w) <= cursor'[w]
      BY <2>1, <1>1, PositionType DEF Position
    <3>3. QED BY <1>1, <3>1, <3>2 DEF Forward
  <2>4. QED BY <2>2, <2>3 DEF ReadersResume
<1>7. ASSUME NEW w \in Workers, XReadReturns(w)
      PROVE  ReadersResume' /\ \A v \in Workers : Forward(v)
  <2>1. /\ UNCHANGED <<cursor, entries>>
        /\ reader[w] = "blocked" /\ reader'[w] # "blocked"
        /\ \A v \in Workers : v # w => lastId'[v] = lastId[v] /\ reader'[v] = reader[v]
    BY <1>7 DEF XReadReturns, TypeOK
  <2>2. ASSUME NEW v \in Workers, v # w
        PROVE  /\ reader'[v] = "blocked" => cursor'[v] = Position(v)'
               /\ cursor'[v] <= Position(v)' /\ Forward(v)
    BY <1>1, <2>1, <2>2 DEF ReadersResume, Position, Forward
  <2>3. cursor'[w] <= Position(w)' /\ Forward(w)
    <3>1. cursor[w] = Position(w)
      BY <2>1 DEF ReadersResume
    <3>2. CASE lastId'[w] = lastId[w]
      BY <1>1, <2>1, <3>1, <3>2 DEF Position, Forward
    <3>3. CASE lastId'[w] \in Batch(w)
      <4>1. lastId'[w] \in Nat /\ cursor[w] < lastId'[w] /\ lastId'[w] # Dollar
        BY <3>3, BatchFacts, PositionType DEF Dollar
      <4>2. QED BY <1>1, <2>1, <3>1, <4>1 DEF Position, Forward
    <3>4. QED BY <1>7, <3>2, <3>3, ReturnFacts
  <2>4. QED BY <2>1, <2>2, <2>3 DEF ReadersResume
<1>8. CASE UNCHANGED vars
  BY <1>2, <1>8 DEF vars
<1>9. QED
  BY <1>2, <1>3, <1>4, <1>5, <1>6, <1>7, <1>8 DEF Next

-----------------------------------------------------------------------------
(* Losses.  What a client lacks stays accounted for, action by action.       *)
LEMMA WriteAccounts ==
  ASSUME TypeOK, MissingAccounted, NEW w \in Workers, Write(w)
  PROVE  MissingAccounted'
<1>1. /\ UNCHANGED <<entries, lastId, cursor>>
      /\ \A v \in Workers : pending[v] \subseteq pending'[v] /\ missing[v] \subseteq missing'[v]
      /\ \A v \in Workers : missing'[v] \subseteq missing[v] \cup {head + 1}
      /\ missing'[w] = missing[w] /\ head + 1 \in pending'[w]
  BY DEF Write, readerVars, TypeOK
<1>2. \A r \in Gaps : \A v \in Workers : lost'[r][v] = (lost[r][v] \cup {}) \cap missing'[v]
  BY DEF Write, LoseNothing, Lose
<1>3. ASSUME NEW v \in Workers, NEW n \in missing'[v]
      PROVE  (Coming(v, n) \/ Fallen(v, n) \/ Waiting(v, n))'
  <2>1. CASE n = head + 1 /\ v # w
    BY <1>1, <2>1 DEF Coming
  <2>2. CASE n \in missing[v]
    <3>1. Coming(v, n) => Coming(v, n)'
      BY <1>1 DEF Coming
    <3>2. Fallen(v, n) => Fallen(v, n)'
      BY <1>2, <1>3 DEF Fallen
    <3>3. Waiting(v, n) => Waiting(v, n)'
      BY <1>1 DEF Waiting, Position
    <3>4. QED BY <2>2, <3>1, <3>2, <3>3 DEF MissingAccounted
  <2>3. QED BY <1>1, <1>3, <2>1, <2>2
<1>4. QED BY <1>3 DEF MissingAccounted

(* A publish that fails names its frame; one that succeeds puts it ahead of  *)
(* every sibling's reader.                                                   *)
LEMMA PublishAccounts ==
  ASSUME TypeOK, MissingAccounted, NEW w \in Workers, Publish(w)
  PROVE  MissingAccounted'
<1>1. PICK m \in pending[w] :
           /\ pending' = [pending EXCEPT ![w] = @ \ {m}]
           /\ UNCHANGED <<head, lastId, reader, cursor, degraded, mark, twice, got, missing>>
           /\ \/ /\ UNCHANGED entries
                 /\ \A r \in Gaps : \A v \in Workers :
                      lost'[r][v] = (lost[r][v] \cup (IF r = "unpublished" /\ v # w THEN {m} ELSE {}))
                                       \cap missing'[v]
              \/ UNCHANGED lost /\ (Added(w, m, 1) \/ Added(w, m, 2))
  BY PublishKinds
<1>2. \A v \in Workers : \A n : n \in pending[v] => n \in pending'[v] \/ (v = w /\ n = m)
  BY <1>1 DEF TypeOK
<1>3. SUFFICES ASSUME NEW v \in Workers, NEW n \in missing[v]
               PROVE  (Coming(v, n) \/ Fallen(v, n) \/ Waiting(v, n))'
  BY <1>1 DEF MissingAccounted
<1>4. Coming(v, n) => Coming(v, n)' \/ (v # w /\ n = m)
  BY <1>2 DEF Coming
<1>5. CASE /\ UNCHANGED entries
           /\ \A r \in Gaps : \A u \in Workers :
                lost'[r][u] = (lost[r][u] \cup (IF r = "unpublished" /\ u # w THEN {m} ELSE {}))
                                 \cap missing'[u]
  <2>1. Fallen(v, n) => Fallen(v, n)'
    BY <1>1, <1>5 DEF Fallen
  <2>2. Waiting(v, n) => Waiting(v, n)'
    BY <1>1, <1>5 DEF Waiting, Position
  <2>3. v # w /\ n = m => Fallen(v, n)'
    <3>1. "unpublished" \in Gaps
      BY DEF Gaps
    <3>2. QED BY <1>1, <1>5, <3>1 DEF Fallen
  <2>4. QED BY <1>4, <2>1, <2>2, <2>3 DEF MissingAccounted
<1>6. ASSUME NEW copies \in {1, 2}, Added(w, m, copies), UNCHANGED lost
      PROVE  (Coming(v, n) \/ Fallen(v, n) \/ Waiting(v, n))'
  <2>1. /\ Len(entries') = Len(entries) + copies /\ copies \in Nat /\ copies > 0
        /\ \A k \in 1..Len(entries) : entries'[k] = entries[k]
        /\ \A k \in 1..Len(entries') :
              k > Len(entries) => entries'[k] = [frame |-> m, origin |-> w]
    BY <1>6, AddedFacts
  <2>2. Position(v)' = Position(v) /\ Position(v) \in 0..Len(entries) /\ Len(entries) \in Nat
    BY <1>1, PositionType DEF Position
  <2>3. Fallen(v, n) => Fallen(v, n)'
    BY <1>6 DEF Fallen
  <2>4. Waiting(v, n) => Waiting(v, n)'
    <3>1. 1..Len(entries) \subseteq 1..Len(entries')
      BY <2>1, <2>2
    <3>2. QED BY <2>1, <2>2, <3>1 DEF Waiting
  <2>5. v # w /\ n = m => Waiting(v, n)'
    <3>1. /\ Len(entries) + 1 \in 1..Len(entries') /\ Position(v) < Len(entries) + 1
          /\ Len(entries) + 1 > Len(entries)
      BY <2>1, <2>2
    <3>2. entries'[Len(entries) + 1] = [frame |-> m, origin |-> w]
      BY <2>1, <3>1
    <3>3. QED BY <2>2, <3>1, <3>2 DEF Waiting
  <2>6. QED BY <1>4, <2>3, <2>4, <2>5 DEF MissingAccounted
<1>7. QED BY <1>1, <1>5, <1>6

(* An XREAD with "$" gives up the entries it passes over, by name.           *)
LEMMA XReadAccounts ==
  ASSUME TypeOK, MissingAccounted, NEW w \in Workers, XRead(w)
  PROVE  MissingAccounted'
<1> DEFINE gap == IF reader[w] = "starting" THEN "startup" ELSE "dollar"
<1>1. /\ UNCHANGED <<pending, entries, lastId, missing>>
      /\ \A v \in Workers : v # w => cursor'[v] = cursor[v]
      /\ cursor'[w] = IF lastId[w] = Dollar THEN Len(entries) ELSE lastId[w]
  BY DEF XRead, TypeOK
<1>2. \A r \in Gaps : \A v \in Workers :
        lost'[r][v] = (lost[r][v] \cup (IF v = w /\ lastId[w] = Dollar /\ r = gap
                                        THEN FramesOf(cursor[w] + 1 .. Len(entries)) ELSE {}))
                         \cap missing'[v]
  BY DEF XRead, Lose
<1>3. gap \in Gaps
  BY DEF Gaps
<1> HIDE DEF gap
<1>4. SUFFICES ASSUME NEW v \in Workers, NEW n \in missing[v]
               PROVE  (Coming(v, n) \/ Fallen(v, n) \/ Waiting(v, n))'
  BY <1>1 DEF MissingAccounted
<1>5. Coming(v, n) => Coming(v, n)'
  BY <1>1 DEF Coming
<1>6. Fallen(v, n) => Fallen(v, n)'
  BY <1>1, <1>2 DEF Fallen
<1>7. Waiting(v, n) => Waiting(v, n)' \/ Fallen(v, n)'
  <2>1. CASE v # w \/ lastId[w] # Dollar
    BY <1>1, <2>1 DEF Waiting, Position
  <2>2. CASE v = w /\ lastId[w] = Dollar
    <3>1. SUFFICES ASSUME NEW k \in 1..Len(entries), cursor[w] < k, entries[k].frame = n
                   PROVE  Fallen(v, n)'
      BY <2>2 DEF Waiting, Position
    <3>2. k \in cursor[w] + 1 .. Len(entries)
      BY <3>1, PositionType
    <3>3. n \in FramesOf(cursor[w] + 1 .. Len(entries))
      BY <3>1, <3>2 DEF FramesOf
    <3>4. n \in lost'[gap][v]
      BY <1>1, <1>2, <1>3, <1>4, <2>2, <3>3
    <3>5. QED BY <1>3, <3>4 DEF Fallen
  <2>3. QED BY <2>1, <2>2
<1>8. QED BY <1>5, <1>6, <1>7 DEF MissingAccounted

(* A batch is delivered, what was trimmed before it is named, what follows   *)
(* it waits for the next XREAD; after an outage the resync repairs it all.   *)
LEMMA ReturnAccounts ==
  ASSUME TypeOK, ReadersResume, MissingAccounted, NEW w \in Workers, XReadReturns(w)
  PROVE  MissingAccounted'
<1> DEFINE frames == FramesOf(Foreign(w, Batch(w)))
           trimmed == FramesOf({k \in 1..Len(entries) : cursor[w] < k /\ k < first})
<1>1. /\ UNCHANGED <<pending, entries, cursor>>
      /\ reader[w] = "blocked"
      /\ \A v \in Workers : v # w => lastId'[v] = lastId[v] /\ missing'[v] = missing[v]
      /\ missing'[w] = {} \/ missing'[w] = missing[w] \ frames
  BY DEF XReadReturns, TypeOK
<1>2. \A r \in Gaps : \A v \in Workers :
        lost'[r][v] = (lost[r][v] \cup (IF r = "trimmed" /\ v = w THEN trimmed ELSE {}))
                         \cap missing'[v]
  BY DEF XReadReturns, Lose
<1>3. ASSUME NEW v \in Workers, NEW n \in missing'[v]
      PROVE  (Coming(v, n) \/ Fallen(v, n) \/ Waiting(v, n))'
  <2>1. n \in missing[v] /\ (v = w => n \notin frames)
    BY <1>1, <1>3
  <2>2. Coming(v, n) => Coming(v, n)'
    BY <1>1 DEF Coming
  <2>3. Fallen(v, n) => Fallen(v, n)'
    <3>1. ASSUME NEW r \in Gaps, n \in lost[r][v] PROVE n \in lost'[r][v]
      BY <1>2, <1>3, <3>1
    <3>2. QED BY <3>1 DEF Fallen
  <2>4. CASE v # w
    <3>1. Waiting(v, n) => Waiting(v, n)'
      BY <1>1, <2>4 DEF Waiting, Position
    <3>2. QED BY <2>1, <2>2, <2>3, <3>1 DEF MissingAccounted
  <2>5. ASSUME v = w, NEW k \in 1..Len(entries), Position(w) < k, entries[k].frame = n,
               entries[k].origin # w
        PROVE  (Fallen(v, n) \/ Waiting(v, n))'
    <3>1. Position(w) = cursor[w] /\ cursor[w] \in Nat
      BY <1>1, PositionType DEF ReadersResume
    <3>2. k \notin Batch(w)
      BY <2>1, <2>5 DEF FramesOf, Foreign
    <3>3. CASE k < first
      <4>1. n \in trimmed
        BY <2>5, <3>1, <3>3 DEF FramesOf
      <4>2. "trimmed" \in Gaps
        BY DEF Gaps
      <4> HIDE DEF trimmed
      <4>3. n \in lost'["trimmed"][v]
        BY <1>2, <1>3, <2>5, <4>1, <4>2
      <4>4. QED BY <4>2, <4>3 DEF Fallen
    <3>4. CASE Batch(w) # {} /\ \A j \in Batch(w) : j < k
      <4>1. lastId'[w] \in Batch(w)
        BY <3>4, ReturnFacts
      <4>2. lastId'[w] # Dollar
        BY <4>1, BatchFacts DEF Dollar
      <4>3. Position(w)' < k
        BY <3>4, <4>1, <4>2 DEF Position
      <4>4. QED BY <1>1, <2>5, <4>3 DEF Waiting
    <3>5. QED
      <4>1. ~(k <= cursor[w])
        BY <2>5, <3>1
      <4>2. QED BY <3>2, <3>3, <3>4, <4>1, BatchFacts
  <2>6. CASE v = w
    BY <2>1, <2>2, <2>3, <2>5, <2>6 DEF MissingAccounted, Waiting
  <2>7. QED BY <2>4, <2>6
<1>4. QED BY <1>3 DEF MissingAccounted

(* The steps that add no entry and read none.                                *)
LEMMA OtherAccounts ==
  ASSUME TypeOK, MissingAccounted, NEW w \in Workers,
         BackoffEnds(w) \/ ReadFails(w) \/ Recycle(w)
  PROVE  MissingAccounted'
<1>1. /\ UNCHANGED <<pending, entries, lastId, cursor>>
      /\ \A v \in Workers : missing'[v] = missing[v] \/ missing'[v] = {}
  BY DEF BackoffEnds, ReadFails, Recycle, readerVars, TypeOK
<1>2. \/ UNCHANGED lost
      \/ \A r \in Gaps : \A v \in Workers : lost'[r][v] = (lost[r][v] \cup {}) \cap missing'[v]
  BY DEF BackoffEnds, ReadFails, Recycle, LoseNothing, Lose
<1>3. ASSUME NEW v \in Workers, NEW n \in missing'[v]
      PROVE  (Coming(v, n) \/ Fallen(v, n) \/ Waiting(v, n))'
  <2>1. n \in missing[v]
    BY <1>1, <1>3
  <2>2. Coming(v, n) => Coming(v, n)'
    BY <1>1 DEF Coming
  <2>3. Fallen(v, n) => Fallen(v, n)'
    BY <1>2, <1>3 DEF Fallen
  <2>4. Waiting(v, n) => Waiting(v, n)'
    BY <1>1 DEF Waiting, Position
  <2>5. QED BY <2>1, <2>2, <2>3, <2>4 DEF MissingAccounted
<1>4. QED BY <1>3 DEF MissingAccounted

(* Every step keeps the account of missing entries.                          *)
LEMMA AccountsStep ==
  ASSUME TypeOK, ReadersResume, MissingAccounted, [Next]_vars
  PROVE  MissingAccounted'
<1>1. CASE UNCHANGED vars
  BY <1>1 DEF vars, MissingAccounted, Coming, Fallen, Waiting, Position
<1>2. QED
  BY <1>1, WriteAccounts, PublishAccounts, XReadAccounts, ReturnAccounts, OtherAccounts DEF Next

-----------------------------------------------------------------------------
(* Deliveries.  What was read stays read.                                    *)
LEMMA ReadStays ==
  ASSUME TypeOK, TypeOK', EntriesKept, NEW w \in Workers, Forward(w), NEW n, ReadBy(w, n)
  PROVE  ReadBy(w, n)'
<1>1. PICK k \in 1..Len(entries) : k <= Position(w) /\ entries[k].frame = n
  BY DEF ReadBy
<1>2. /\ Len(entries) \in Nat /\ Len(entries') \in Nat
      /\ Position(w) \in Int /\ Position(w)' \in Int
  <2>1. Len(entries) \in Nat /\ Len(entries') \in Nat
    <3>1. /\ entries \in Seq([frame : 1..head, origin : Workers])
          /\ entries' \in Seq([frame : 1..head', origin : Workers])
      BY DEF TypeOK
    <3>2. QED BY <3>1
  <2>2. Position(w) \in Int
    BY PositionType
  <2>3. lastId'[w] \in Int /\ cursor'[w] \in Int
    BY <2>1 DEF TypeOK, Dollar
  <2>4. QED BY <2>1, <2>2, <2>3 DEF Position
<1>3. k \in 1..Len(entries') /\ k <= Position(w)'
  BY <1>1, <1>2 DEF EntriesKept, Forward
<1>4. entries'[k].frame = n
  BY <1>1 DEF EntriesKept
<1>5. QED BY <1>3, <1>4 DEF ReadBy

(* A worker's own frame stays its own: only its worker publishes it, and     *)
(* every later write takes a new number.                                     *)
LEMMA OwnStays ==
  ASSUME TypeOK, [Next]_vars, NEW w \in Workers, NEW n \in 1..head, OwnOnly(w, n)
  PROVE  OwnOnly(w, n)'
<1>1. ASSUME UNCHANGED entries, \A v \in Workers : v # w => (n \in pending'[v] => n \in pending[v])
      PROVE  OwnOnly(w, n)'
  BY <1>1 DEF OwnOnly
<1>2. ASSUME NEW u \in Workers, Write(u) PROVE OwnOnly(w, n)'
  <2>1. n # head + 1
    BY DEF TypeOK
  <2>2. UNCHANGED entries /\ \A v \in Workers : pending'[v] \subseteq pending[v] \cup {head + 1}
    BY <1>2 DEF Write, TypeOK
  <2>3. QED BY <1>1, <2>1, <2>2
<1>3. ASSUME NEW u \in Workers, Publish(u) PROVE OwnOnly(w, n)'
  <2>1. PICK m \in pending[u] :
          /\ pending' = [pending EXCEPT ![u] = @ \ {m}]
          /\ UNCHANGED entries \/ Added(u, m, 1) \/ Added(u, m, 2)
    BY <1>3, PublishKinds
  <2>2. \A v \in Workers : pending'[v] \subseteq pending[v]
    BY <2>1 DEF TypeOK
  <2>3. CASE UNCHANGED entries
    BY <1>1, <2>2, <2>3
  <2>4. ASSUME NEW copies \in {1, 2}, Added(u, m, copies) PROVE OwnOnly(w, n)'
    <3>1. /\ Len(entries') = Len(entries) + copies
          /\ \A k \in 1..Len(entries) : entries'[k] = entries[k]
          /\ \A k \in 1..Len(entries') :
               k > Len(entries) => entries'[k] = [frame |-> m, origin |-> u]
      BY <2>4, AddedFacts
    <3>2. m = n => u = w
      BY DEF OwnOnly
    <3>3. ASSUME NEW k \in 1..Len(entries'), entries'[k].frame = n PROVE entries'[k].origin = w
      <4>1. Len(entries) \in Nat
        BY DEF TypeOK
      <4>2. CASE k \in 1..Len(entries)
        BY <3>1, <3>3, <4>2 DEF OwnOnly
      <4>3. CASE k > Len(entries)
        BY <3>1, <3>2, <3>3, <4>3
      <4>4. QED BY <4>1, <4>2, <4>3
    <3>4. QED BY <2>2, <3>3 DEF OwnOnly
  <2>5. QED BY <2>1, <2>3, <2>4
<1>4. ASSUME NEW u \in Workers,
             BackoffEnds(u) \/ XRead(u) \/ XReadReturns(u) \/ ReadFails(u) \/ Recycle(u)
      PROVE  UNCHANGED <<entries, pending>>
  BY <1>4 DEF BackoffEnds, XRead, XReadReturns, ReadFails, Recycle
<1>5. QED BY <1>1, <1>2, <1>3, <1>4 DEF Next, vars

(* What a client was sent is its worker's own or was read from the stream.   *)
LEMMA SentStep ==
  ASSUME TypeOK, TypeOK', ReadersResume, SentTraced, [Next]_vars
  PROVE  SentTraced'
<1>1. EntriesKept /\ \A v \in Workers : Forward(v)
  BY EntriesStay, ReadersStep
<1>2. ASSUME NEW v \in Workers, NEW n \in got[v] PROVE (ReadBy(v, n) \/ OwnOnly(v, n))'
  <2>1. n \in 1..head
    BY <1>2 DEF TypeOK
  <2>2. QED BY <1>1, <2>1, ReadStays, OwnStays DEF SentTraced
<1>3. ASSUME NEW w \in Workers, Write(w), NEW v \in Workers, NEW n \in got'[v], n \notin got[v]
      PROVE  OwnOnly(v, n)'
  <2>1. v = w /\ n = head + 1 /\ UNCHANGED entries /\ head \in Nat
        /\ \A u \in Workers : u # w => pending'[u] = pending[u]
    BY <1>3 DEF Write, TypeOK
  <2>2. \A u \in Workers : n \notin pending[u]
    BY <2>1 DEF TypeOK
  <2>3. \A k \in 1..Len(entries) : entries[k].frame # n
    BY <2>1, EntryFacts
  <2>4. QED BY <2>1, <2>2, <2>3 DEF OwnOnly
<1>4. ASSUME NEW w \in Workers, XReadReturns(w), NEW v \in Workers, NEW n \in got'[v], n \notin got[v]
      PROVE  ReadBy(v, n)'
  <2>1. v = w /\ n \in FramesOf(Foreign(w, Batch(w))) /\ UNCHANGED entries
    <3>1. got' = [got EXCEPT ![w] = @ \cup FramesOf(Foreign(w, Batch(w)))] /\ UNCHANGED entries
      BY <1>4 DEF XReadReturns
    <3>2. QED BY <1>4, <3>1 DEF TypeOK
  <2>2. PICK k \in Batch(w) : entries[k].frame = n
    BY <2>1 DEF FramesOf, Foreign
  <2>3. k \in 1..Len(entries) /\ k <= lastId'[w] /\ lastId'[w] \in Batch(w)
    BY <1>4, <2>2, ReturnFacts, BatchFacts
  <2>4. lastId'[w] # Dollar
    BY <2>3, BatchFacts DEF Dollar
  <2>5. QED BY <2>1, <2>2, <2>3, <2>4 DEF ReadBy, Position
<1>5. ASSUME NEW w \in Workers, Publish(w) PROVE UNCHANGED got
  BY <1>5, PublishKinds
<1>6. ASSUME NEW w \in Workers, BackoffEnds(w) \/ XRead(w) \/ ReadFails(w) \/ Recycle(w)
      PROVE  UNCHANGED got
  BY <1>6 DEF BackoffEnds, XRead, ReadFails, Recycle, clientVars
<1>7. SUFFICES ASSUME NEW v \in Workers, NEW n \in got'[v]
               PROVE  (ReadBy(v, n) \/ OwnOnly(v, n))'
  BY DEF SentTraced
<1>8. CASE n \in got[v]
  BY <1>2, <1>8
<1>9. CASE n \notin got[v]
  BY <1>3, <1>4, <1>5, <1>6, <1>7, <1>9 DEF Next, vars
<1>10. QED BY <1>8, <1>9

(* _deliver skips a worker's own entries and the loop resumes after the last *)
(* one, so only a frame added twice is handed over twice.                    *)
LEMMA DoubleStep ==
  ASSUME TypeOK, TypeOK', ReadersResume, SentTraced, NoDoubleDelivery, [Next]_vars
  PROVE  NoDoubleDelivery'
<1> DEFINE Doubled(n) ==
      \E j, k \in 1..Len(entries) : j # k /\ entries[j].frame = n /\ entries[k].frame = n
<1>1. \A n : Doubled(n) => Doubled(n)'
  <2>1. EntriesKept /\ Len(entries) \in Nat /\ Len(entries') \in Nat
    BY EntriesStay DEF TypeOK
  <2>2. 1..Len(entries) \subseteq 1..Len(entries')
    BY <2>1 DEF EntriesKept
  <2>3. QED BY <2>1, <2>2 DEF EntriesKept
<1>2. ASSUME NEW w \in Workers, XReadReturns(w), NEW v \in Workers, NEW n \in twice'[v],
             n \notin twice[v]
      PROVE  Doubled(n)
  <2> DEFINE ids == Foreign(w, Batch(w))
             same == {k \in ids : entries[k].frame = n}
  <2>1. v = w /\ ((n \in FramesOf(ids) /\ n \in got[w]) \/ Cardinality(same) > 1)
    <3> DEFINE again == {m \in FramesOf(ids) : Cardinality({k \in ids : entries[k].frame = m}) > 1}
    <3>1. twice' = [twice EXCEPT ![w] = @ \cup (FramesOf(ids) \cap got[w]) \cup again]
      BY <1>2 DEF XReadReturns
    <3>2. v = w /\ n \in (FramesOf(ids) \cap got[w]) \cup again
      <4> HIDE DEF again, ids
      <4>1. QED BY <1>2, <3>1 DEF TypeOK
    <3>3. QED BY <3>2
  <2>2. ids \subseteq 1..Len(entries)
    BY BatchFacts DEF Foreign
  <2>3. CASE Cardinality(same) > 1
    <3>1. same \in SUBSET (1..Len(entries)) /\ 1 \in Int /\ Len(entries) \in Int
      BY <2>2 DEF TypeOK
    <3>2. IsFiniteSet(1..Len(entries))
      BY <3>1, FS_Interval
    <3>3. IsFiniteSet(same)
      BY <3>1, <3>2, FS_Subset
    <3> HIDE DEF same
    <3>4. PICK j \in same, k \in same : j # k
      BY <2>3, <3>3, TwoElements
    <3>5. QED BY <2>2, <3>4 DEF same
  <2>4. CASE n \in FramesOf(ids) /\ n \in got[w]
    <3>1. PICK k \in Batch(w) : entries[k].frame = n /\ entries[k].origin # w
      BY <2>4 DEF FramesOf, Foreign
    <3>2. k \in 1..Len(entries) /\ cursor[w] < k
      BY <3>1, BatchFacts
    <3>3. ~OwnOnly(w, n)
      BY <3>1, <3>2 DEF OwnOnly
    <3>4. PICK j \in 1..Len(entries) : j <= Position(w) /\ entries[j].frame = n
      BY <2>4, <3>3 DEF SentTraced, ReadBy
    <3>5. Position(w) = cursor[w] /\ cursor[w] \in Int
      <4>1. reader[w] = "blocked"
        BY <1>2 DEF XReadReturns
      <4>2. QED BY <4>1, PositionType DEF ReadersResume
    <3>6. j # k
      BY <3>2, <3>4, <3>5
    <3>7. QED BY <3>1, <3>2, <3>4, <3>6
  <2>5. QED BY <2>1, <2>3, <2>4
<1>3. ASSUME NEW w \in Workers, Publish(w) PROVE UNCHANGED twice
  BY <1>3, PublishKinds
<1>4. ASSUME NEW w \in Workers, Write(w) \/ BackoffEnds(w) \/ XRead(w) \/ ReadFails(w) \/ Recycle(w)
      PROVE  UNCHANGED twice
  BY <1>4 DEF Write, BackoffEnds, XRead, ReadFails, Recycle, clientVars
<1>5. SUFFICES ASSUME NEW v \in Workers, NEW n \in twice'[v] PROVE Doubled(n)'
  BY DEF NoDoubleDelivery
<1>6. CASE n \in twice[v]
  <2>1. Doubled(n)
    BY <1>6 DEF NoDoubleDelivery
  <2>2. QED BY <1>1, <2>1
<1>7. CASE n \notin twice[v]
  <2>1. Doubled(n)
    <3> HIDE DEF Doubled
    <3>1. QED BY <1>2, <1>3, <1>4, <1>5, <1>7 DEF Next, vars
  <2>2. QED BY <1>1, <2>1
<1>8. QED BY <1>6, <1>7

-----------------------------------------------------------------------------
(* The invariant holds in every reachable state.                             *)
LEMMA FanoutInvHolds == Spec => []FanoutInv
<1>1. Init => FanoutInv
  <2>1. Init => TypeOK
    BY FanoutAssumption DEF Init, TypeOK
  <2>2. Init => ReadersResume /\ MissingAccounted /\ SentTraced /\ NoDoubleDelivery
    BY DEF Init, ReadersResume, MissingAccounted, SentTraced, NoDoubleDelivery, Position, Dollar
  <2>3. QED BY <2>1, <2>2 DEF FanoutInv
<1>2. FanoutInv /\ TypeOK' /\ [Next]_vars => FanoutInv'
  BY ReadersStep, AccountsStep, SentStep, DoubleStep DEF FanoutInv
<1>3. QED BY <1>1, <1>2, FanoutTypeCorrect, PTL DEF Spec

(* Every client lacks, once everything published has been read, only frames  *)
(* that fell into one of the four named gaps: for every number of workers,   *)
(* stream length and batch size.                                             *)
THEOREM FanoutLosesOnlyNamed == Spec => []FanoutLossesNamed
<1>1. FanoutInv => FanoutLossesNamed
  <2>1. SUFFICES ASSUME FanoutInv, NEW w \in Workers, Quiet(w), NEW n \in missing[w]
                 PROVE  \E r \in Gaps : n \in lost[r][w]
    BY DEF FanoutLossesNamed
  <2>2. ~Coming(w, n)
    BY <2>1 DEF Coming, Quiet
  <2>3. ~Waiting(w, n)
    <3>1. SUFFICES ASSUME NEW k \in 1..Len(entries), Position(w) < k PROVE FALSE
      BY DEF Waiting
    <3>2. /\ Position(w) = cursor[w] /\ cursor[w] \in Int /\ first \in Int
          /\ Batch(w) = {} /\ first <= cursor[w] + 1
      BY <2>1, PositionType DEF FanoutInv, ReadersResume, Quiet, TypeOK
    <3>3. ~(k <= cursor[w]) /\ ~(k < first)
      BY <3>1, <3>2
    <3>4. QED BY <2>1, <3>2, <3>3, BatchFacts DEF FanoutInv
  <2>4. QED BY <2>1, <2>2, <2>3 DEF FanoutInv, MissingAccounted, Fallen
<1>2. QED BY <1>1, FanoutInvHolds, PTL

(* A client is sent a frame twice only when Redis applied its XADD twice.    *)
THEOREM FanoutDeliversSoundly == Spec => []DeliveriesSound
<1>1. FanoutInv => DeliveriesSound
  BY DEF FanoutInv, DeliveriesSound
<1>2. QED BY <1>1, FanoutInvHolds, PTL
=============================================================================
