----------------------------- MODULE SseFanout ------------------------------
(***************************************************************************)
(* Fan-out between workers (backend/app/sse/broker.py): each worker        *)
(* delivers its own frames locally and XADDs them to one Redis stream,     *)
(* which every worker reads with XREAD BLOCK.                              *)
(*                                                                         *)
(* A worker's clients are one client that receives every frame; how a      *)
(* worker delivers and how a client reconnects are the subject of          *)
(* SseManager and SseReconnect.  Frames are numbered in commit order and   *)
(* the number is the event_id.  Redis may be unreachable for one worker    *)
(* and not for another, and for publishing and not for reading.            *)
(***************************************************************************)
EXTENDS Integers, Sequences, FiniteSets

CONSTANTS
  Workers,
  MaxFrames,     \* bound on the frames ever written
  StreamMaxLen,  \* _STREAM_MAXLEN
  ReadCount      \* entries one XREAD returns at most

ASSUME FanoutAssumption == /\ MaxFrames \in Nat
                           /\ StreamMaxLen \in Nat \ {0}
                           /\ ReadCount \in Nat \ {0}

VARIABLES
  head,      \* number of frames committed
  pending,   \* pending[w]: frames of w delivered locally whose publish is under way
  backoff,   \* backoff[w]: now < _publish_retry_after
  entries,   \* every entry ever added: [frame, origin]; an entry's id is its index
  first,     \* id of the oldest entry not trimmed
  lastId,    \* lastId[w]: last_id of w's reader
  reader,    \* reader[w]: "starting" before its first XREAD, "blocked" in one,
             \* "idle" between two
  cursor,    \* cursor[w]: the id after which Redis answers w's XREAD
  degraded,  \* degraded[w]: _reader_degraded
  mark,      \* mark[w]: highest event_id sent to w's client
  missing,   \* history: frames w's client has neither received nor refetched
  twice,     \* history: frames w's client was sent more than once
  got,       \* history: frames w's client was sent
  lost       \* history: lost[r][w]: missing frames that fell into gap r

vars == <<head, pending, backoff, entries, first, lastId, reader, cursor, degraded, mark,
          missing, twice, got, lost>>
readerVars == <<lastId, reader, cursor, degraded>>
clientVars == <<mark, twice, got>>

Dollar == -1   \* last_id "$"
Larger(a, b) == IF a > b THEN a ELSE b
Smaller(a, b) == IF a < b THEN a ELSE b

(* The gaps: how a frame can miss a worker's client.                         *)
(*   unpublished  its XADD failed or was skipped during the backoff          *)
(*   startup      it was added before the reader's first XREAD               *)
(*   dollar       it was added between two XREADs of a reader that, having   *)
(*                seen no entry yet, asks for "$" again                      *)
(*   trimmed      it was trimmed before the reader got to it                 *)
Gaps == {"unpublished", "startup", "dollar", "trimmed"}
Lose(S(_, _)) ==
  lost' = [r \in Gaps |-> [w \in Workers |-> (lost[r][w] \cup S(r, w)) \cap missing'[w]]]
LoseNothing == Lose(LAMBDA r, w : {})

Init ==
  /\ head = 0
  /\ pending = [w \in Workers |-> {}]
  /\ backoff = [w \in Workers |-> FALSE]
  /\ entries = <<>>
  /\ first = 1
  /\ lastId = [w \in Workers |-> Dollar]
  /\ reader = [w \in Workers |-> "starting"]
  /\ cursor = [w \in Workers |-> 0]
  /\ degraded = [w \in Workers |-> FALSE]
  /\ mark = [w \in Workers |-> 0]
  /\ missing = [w \in Workers |-> {}]
  /\ twice = [w \in Workers |-> {}]
  /\ got = [w \in Workers |-> {}]
  /\ lost = [r \in Gaps |-> [w \in Workers |-> {}]]

-----------------------------------------------------------------------------
(* commit_and_broadcast on w: commit, local delivery, then publish.          *)
Write(w) ==
  LET n == head + 1
  IN /\ head < MaxFrames
     /\ head' = n
     /\ pending' = [pending EXCEPT ![w] = @ \cup {n}]
     /\ missing' = [v \in Workers |-> IF v = w THEN missing[v] ELSE missing[v] \cup {n}]
     /\ mark' = [mark EXCEPT ![w] = Larger(@, n)]
     /\ got' = [got EXCEPT ![w] = @ \cup {n}]
     /\ LoseNothing
     /\ UNCHANGED <<backoff, entries, first, readerVars, twice>>

Unpublished(w, n) ==
  Lose(LAMBDA r, v : IF r = "unpublished" /\ v # w THEN {n} ELSE {})

(* During the backoff the attempt is skipped.                                *)
PublishSkip(w, n) ==
  /\ backoff[w]
  /\ pending' = [pending EXCEPT ![w] = @ \ {n}]
  /\ UNCHANGED <<head, backoff, entries, first, readerVars, clientVars, missing>>
  /\ Unpublished(w, n)

PublishFail(w, n) ==
  /\ ~backoff[w]
  /\ pending' = [pending EXCEPT ![w] = @ \ {n}]
  /\ backoff' = [backoff EXCEPT ![w] = TRUE]
  /\ UNCHANGED <<head, entries, first, readerVars, clientVars, missing>>
  /\ Unpublished(w, n)

(* XADD MAXLEN ~: at least StreamMaxLen entries survive; older ones may.     *)
Added(w, n, copies) ==
  /\ entries' = entries \o [i \in 1..copies |-> [frame |-> n, origin |-> w]]
  /\ first' \in {first, Larger(first, Len(entries) + copies - StreamMaxLen + 1)}
  /\ pending' = [pending EXCEPT ![w] = @ \ {n}]
  /\ UNCHANGED <<head, readerVars, clientVars, missing, lost>>

PublishOk(w, n) ==
  /\ ~backoff[w]
  /\ Added(w, n, 1)
  /\ UNCHANGED backoff

(* The reply is lost: Retry sends the XADD once more, or the time is up and  *)
(* the frame is taken for lost.                                              *)
PublishTwice(w, n) ==
  /\ ~backoff[w]
  /\ Added(w, n, 2)
  /\ UNCHANGED backoff

PublishUnacknowledged(w, n) ==
  /\ ~backoff[w]
  /\ Added(w, n, 1)
  /\ backoff' = [backoff EXCEPT ![w] = TRUE]

Publish(w) ==
  \E n \in pending[w] : \/ PublishSkip(w, n)
                        \/ PublishFail(w, n)
                        \/ PublishOk(w, n)
                        \/ PublishTwice(w, n)
                        \/ PublishUnacknowledged(w, n)

BackoffEnds(w) ==
  /\ backoff[w]
  /\ backoff' = [backoff EXCEPT ![w] = FALSE]
  /\ UNCHANGED <<head, pending, entries, first, readerVars, clientVars, missing, lost>>

-----------------------------------------------------------------------------
FramesOf(ids) == {entries[k].frame : k \in ids}

(* The reader.  An XREAD reaches Redis: "$" means whatever is added next.    *)
XRead(w) ==
  /\ reader[w] # "blocked"
  /\ reader' = [reader EXCEPT ![w] = "blocked"]
  /\ cursor' = [cursor EXCEPT ![w] = IF lastId[w] = Dollar THEN Len(entries) ELSE lastId[w]]
  /\ UNCHANGED <<head, pending, backoff, entries, first, lastId, degraded, clientVars, missing>>
  /\ Lose(LAMBDA r, v : IF /\ v = w /\ lastId[w] = Dollar
                           /\ r = IF reader[w] = "starting" THEN "startup" ELSE "dollar"
                        THEN FramesOf(cursor[w] + 1 .. Len(entries)) ELSE {})

BatchSkipsOne(w) ==
  LET from == Larger(cursor[w] + 2, first)
  IN from .. Smaller(Len(entries), from + ReadCount - 1)

(* The entries an XREAD of w returns.                                        *)
Batch(w) ==
  LET from == Larger(cursor[w] + 1, first)
  IN from .. Smaller(Len(entries), from + ReadCount - 1)

ForeignOrOwn(w, ids) == ids

(* What _deliver passes on: the siblings' frames.                            *)
Foreign(w, ids) == {k \in ids : entries[k].origin # w}

XReadReturnsWithoutResync(w) ==
  LET ids == Foreign(w, Batch(w))
      frames == FramesOf(ids)
  IN /\ reader[w] = "blocked"
     /\ reader' = [reader EXCEPT ![w] = "idle"]
     /\ degraded' = [degraded EXCEPT ![w] = FALSE]
     /\ lastId' = [lastId EXCEPT ![w] = IF Batch(w) = {} THEN @
                                        ELSE CHOOSE k \in Batch(w) : \A j \in Batch(w) : j <= k]
     /\ missing' = [missing EXCEPT ![w] = @ \ frames]
     /\ mark' = [mark EXCEPT ![w] = CHOOSE m \in frames \cup {@} :
                                      \A n \in frames \cup {@} : n <= m]
     /\ got' = [got EXCEPT ![w] = @ \cup frames]
     /\ UNCHANGED <<head, pending, backoff, entries, first, cursor, twice>>
     /\ LoseNothing

(* The answer, or the end of the block: the first one after an outage makes  *)
(* every local client resync, then the frames are delivered in order.        *)
XReadReturns(w) ==
  LET ids == Foreign(w, Batch(w))
      frames == FramesOf(ids)
      again == {n \in frames : Cardinality({k \in ids : entries[k].frame = n}) > 1}
  IN /\ reader[w] = "blocked"
     /\ reader' = [reader EXCEPT ![w] = "idle"]
     /\ degraded' = [degraded EXCEPT ![w] = FALSE]
     /\ lastId' = [lastId EXCEPT ![w] = IF Batch(w) = {} THEN @
                                        ELSE CHOOSE k \in Batch(w) : \A j \in Batch(w) : j <= k]
     /\ missing' = [missing EXCEPT ![w] = IF degraded[w] THEN {} ELSE @ \ frames]
     /\ mark' = [mark EXCEPT ![w] = CHOOSE m \in frames \cup {@} :
                                      \A n \in frames \cup {@} : n <= m]
     /\ twice' = [twice EXCEPT ![w] = @ \cup (frames \cap got[w]) \cup again]
     /\ got' = [got EXCEPT ![w] = @ \cup frames]
     /\ UNCHANGED <<head, pending, backoff, entries, first, cursor>>
     /\ Lose(LAMBDA r, v : IF r = "trimmed" /\ v = w
                           THEN FramesOf({k \in 1..Len(entries) : cursor[w] < k /\ k < first})
                           ELSE {})

ReadFails(w) ==
  /\ reader' = [reader EXCEPT ![w] = IF @ = "starting" THEN @ ELSE "idle"]
  /\ degraded' = [degraded EXCEPT ![w] = TRUE]
  /\ UNCHANGED <<head, pending, backoff, entries, first, lastId, cursor, clientVars, missing, lost>>

(* A stream recycled at its lifetime cap reconnects with its mark, which     *)
(* earns a resync when the log has moved past it.                            *)
Recycle(w) ==
  /\ mark' = [mark EXCEPT ![w] = head]
  /\ missing' = [missing EXCEPT ![w] = IF head > mark[w] THEN {} ELSE @]
  /\ LoseNothing
  /\ UNCHANGED <<head, pending, backoff, entries, first, readerVars, twice, got>>

Next ==
  \E w \in Workers : \/ Write(w) \/ Publish(w) \/ BackoffEnds(w)
                     \/ XRead(w) \/ XReadReturns(w) \/ ReadFails(w)
                     \/ Recycle(w)

Spec == Init /\ [][Next]_vars

(* The reader loops for ever, an XREAD that is not cut short ends with its   *)
(* block, and an outage of Redis ends.                                       *)
FairSpec ==
  Spec /\ \A w \in Workers : WF_vars(XRead(w)) /\ SF_vars(XReadReturns(w))

-----------------------------------------------------------------------------
TypeOK ==
  /\ head \in 0..MaxFrames
  /\ pending \in [Workers -> SUBSET (1..head)]
  /\ backoff \in [Workers -> BOOLEAN]
  /\ entries \in Seq([frame : 1..head, origin : Workers])
  /\ first \in 1..(Len(entries) + 1)
  /\ lastId \in [Workers -> {Dollar} \cup 1..Len(entries)]
  /\ reader \in [Workers -> {"starting", "idle", "blocked"}]
  /\ cursor \in [Workers -> 0..Len(entries)]
  /\ degraded \in [Workers -> BOOLEAN]
  /\ mark \in [Workers -> 0..head]
  /\ missing \in [Workers -> SUBSET (1..head)]
  /\ got \in [Workers -> SUBSET (1..head)]
  /\ twice \in [Workers -> SUBSET (1..head)]

(* Nothing is on its way to w's client.                                      *)
Quiet(w) ==
  /\ reader[w] = "blocked" /\ ~degraded[w]
  /\ Batch(w) = {} /\ first <= cursor[w] + 1
  /\ \A v \in Workers : pending[v] = {}

(* Once everything published has been read, a worker's client lacks only     *)
(* frames that fell into a named gap: no interleaving of writers, readers,   *)
(* outages and recycled streams loses another.                               *)
FanoutLossesNamed ==
  \A w \in Workers : Quiet(w) => missing[w] \subseteq UNION {lost[r][w] : r \in Gaps}

(* A client is sent a frame twice only when its XADD was applied twice: a    *)
(* worker does not echo its own frames and resumes after the last one read.  *)
NoDoubleDelivery ==
  \A w \in Workers : \A n \in twice[w] :
    \E j, k \in 1..Len(entries) : j # k /\ entries[j].frame = n /\ entries[k].frame = n

(* What a worker's client misses while its reader cannot reach the stream is *)
(* repaired once it can, whatever happened to the entries meanwhile.         *)
OutageRepaired ==
  \A w \in Workers : \A n \in 1..MaxFrames :
    (degraded[w] /\ n \in missing[w]) ~> n \notin missing[w]

(* A broker's reader hands over what the Redis stream holds: its cursor      *)
(* stays within the entries, and no frame reaches a client a second time     *)
(* because of the reader.                                                    *)
DeliveriesSound == TypeOK /\ NoDoubleDelivery
=============================================================================
