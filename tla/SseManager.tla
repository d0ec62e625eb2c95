----------------------------- MODULE SseManager -----------------------------
(***************************************************************************)
(* One worker's SSE connection manager (backend/app/sse/manager.py) with   *)
(* the stream generators that drain its queues (stream_events in           *)
(* backend/app/routers/sse.py).                                            *)
(*                                                                         *)
(* A stream is one _Client: a bounded queue, a resync_pending flag and a   *)
(* generator.  The event loop is cooperative, so an action is what happens *)
(* between two awaits: a whole broadcast, one dequeue with the yield that  *)
(* follows it, or the return of the head read an overflow waits on.        *)
(*                                                                         *)
(* Frames are numbered in broadcast order; their payload is left out.      *)
(***************************************************************************)
EXTENDS Integers, Sequences

CONSTANTS
  Users,      \* accounts
  Sessions,   \* logins
  Streams,    \* slots, each holding one connection at a time
  UserOf,     \* UserOf[c]: the user the stream was authenticated as
  SessionOf,  \* SessionOf[c]: the session it was opened under
  QueueMax,   \* _QUEUE_MAX
  MaxFrames   \* bound on the number of frames ever broadcast

ASSUME QueueMaxAssumption == QueueMax \in Nat \ {0}
ASSUME MaxFramesAssumption == MaxFrames \in Nat
ASSUME OwnerAssumption == /\ UserOf \in [Streams -> Users]
                          /\ SessionOf \in [Streams -> Sessions]

VARIABLES
  registered,     \* SseManager._clients, as the set of its members
  queue,          \* queue[c]: _Client.queue
  resyncPending,  \* resyncPending[c]: _Client.resync_pending
  gen,            \* gen[c]: where the stream's generator is suspended
  nextFrame,      \* number of frames broadcast so far
  owed,           \* history: frames addressed to c while it was registered that
                  \* neither a yield nor a resync has covered yet
  lastYield       \* history: the last event frame yielded to c

managerVars == <<registered, queue, resyncPending, gen, nextFrame, owed, lastYield>>

GenStates == {"closed", "starting", "looping", "reading_head"}

EventFrame(n) == [kind |-> "event", id |-> n]
OVERFLOW_SENTINEL == [kind |-> "overflow", id |-> 0]
REVOKED_SENTINEL == [kind |-> "revoked", id |-> 0]
ResyncFrame == [kind |-> "resync", id |-> 0]

Frame == [kind : {"event", "overflow", "revoked", "resync"}, id : Nat]

Queued(q) == {q[i] : i \in 1..Len(q)}

-----------------------------------------------------------------------------
(* Mutants of the definitions below carry a name of their own and are used   *)
(* nowhere else: each is a plausible mistake one of the properties catches.  *)

(* put_nowait as broadcast and deliver_to_all use it: a pending overflow     *)
(* swallows the frame, a full queue is drained down to the sentinel.         *)
Accepts(c) == ~resyncPending[c] /\ Len(queue[c]) < QueueMax
Overflows(c) == ~resyncPending[c] /\ Len(queue[c]) >= QueueMax

PutDropsWhenFull(to, f) ==
  /\ queue' = [c \in Streams |->
                 IF c \in to /\ Accepts(c) THEN Append(queue[c], f) ELSE queue[c]]
  /\ UNCHANGED resyncPending

PutNewestFirst(to, f) ==
  /\ queue' = [c \in Streams |->
                 IF c \in to /\ Accepts(c) THEN <<f>> \o queue[c] ELSE queue[c]]
  /\ UNCHANGED resyncPending

Put(to, f) ==
  /\ queue' = [c \in Streams |->
                 IF c \in to /\ Accepts(c) THEN Append(queue[c], f)
                 ELSE IF c \in to /\ Overflows(c) THEN <<OVERFLOW_SENTINEL>>
                 ELSE queue[c]]
  /\ resyncPending' = [c \in Streams |->
                         resyncPending[c] \/ (c \in to /\ Overflows(c))]

(* broadcast's filter.  A falsy user_ids (None or the empty set) means the   *)
(* actor alone.                                                              *)
Eligible(c, userIds, actor) ==
  IF userIds # {} THEN UserOf[c] \in userIds ELSE UserOf[c] = actor

-----------------------------------------------------------------------------
Init ==
  /\ registered = {}
  /\ queue = [c \in Streams |-> <<>>]
  /\ resyncPending = [c \in Streams |-> FALSE]
  /\ gen = [c \in Streams |-> "closed"]
  /\ nextFrame = 0
  /\ owed = [c \in Streams |-> {}]
  /\ lastYield = [c \in Streams |-> 0]

(* A new _Client takes a free slot.                                          *)
Connect(c) ==
  /\ gen[c] = "closed"
  /\ registered' = registered \cup {c}
  /\ gen' = [gen EXCEPT ![c] = "starting"]
  /\ UNCHANGED <<queue, resyncPending, nextFrame, owed, lastYield>>

Broadcast(userIds, actor) ==
  LET to == {c \in registered : Eligible(c, userIds, actor)}
      n == nextFrame + 1
  IN /\ nextFrame < MaxFrames
     /\ nextFrame' = n
     /\ Put(to, EventFrame(n))
     /\ owed' = [c \in Streams |-> IF c \in to THEN owed[c] \cup {n} ELSE owed[c]]
     /\ UNCHANGED <<registered, gen, lastYield>>

DeliverToAll ==
  /\ Put(registered, ResyncFrame)
  /\ UNCHANGED <<registered, gen, nextFrame, owed, lastYield>>

DisconnectWithoutDrain(s) ==
  LET dropped == {c \in registered : SessionOf[c] = s}
  IN /\ dropped # {}
     /\ queue' = [c \in Streams |->
                    IF c \in dropped /\ Len(queue[c]) < QueueMax
                    THEN Append(queue[c], REVOKED_SENTINEL) ELSE queue[c]]
     /\ registered' = registered \ dropped
     /\ owed' = [c \in Streams |-> IF c \in dropped THEN {} ELSE owed[c]]
     /\ UNCHANGED <<resyncPending, gen, nextFrame, lastYield>>

DisconnectWithoutSentinel(s) ==
  LET dropped == {c \in registered : SessionOf[c] = s}
  IN /\ dropped # {}
     /\ queue' = [c \in Streams |-> IF c \in dropped THEN <<>> ELSE queue[c]]
     /\ registered' = registered \ dropped
     /\ owed' = [c \in Streams |-> IF c \in dropped THEN {} ELSE owed[c]]
     /\ UNCHANGED <<resyncPending, gen, nextFrame, lastYield>>

(* A revoked session's streams: drained, given the sentinel, deregistered.   *)
DisconnectSession(s) ==
  LET dropped == {c \in registered : SessionOf[c] = s}
  IN /\ dropped # {}
     /\ queue' = [c \in Streams |->
                    IF c \in dropped THEN <<REVOKED_SENTINEL>> ELSE queue[c]]
     /\ registered' = registered \ dropped
     /\ owed' = [c \in Streams |-> IF c \in dropped THEN {} ELSE owed[c]]
     /\ UNCHANGED <<resyncPending, gen, nextFrame, lastYield>>

(* The generator's first yields: connected, then the connect-time resync.    *)
GenStart(c) ==
  /\ gen[c] = "starting"
  /\ gen' = [gen EXCEPT ![c] = "looping"]
  /\ UNCHANGED <<registered, queue, resyncPending, nextFrame, owed, lastYield>>

(* One pass of the loop that dequeues a frame.  A dequeued overflow sentinel *)
(* leaves resync_pending set until the head read returns.                    *)
GenYieldFrame(c) ==
  /\ gen[c] = "looping"
  /\ queue[c] # <<>>
  /\ Head(queue[c]).kind \in {"event", "resync"}
  /\ queue' = [queue EXCEPT ![c] = Tail(@)]
  /\ IF Head(queue[c]).kind = "event"
     THEN /\ owed' = [owed EXCEPT ![c] = @ \ {Head(queue[c]).id}]
          /\ lastYield' = [lastYield EXCEPT ![c] = Head(queue[c]).id]
     ELSE /\ owed' = [owed EXCEPT ![c] = {}]
          /\ UNCHANGED lastYield
  /\ UNCHANGED <<registered, resyncPending, gen, nextFrame>>

GenTakeOverflow(c) ==
  /\ gen[c] = "looping"
  /\ queue[c] # <<>>
  /\ Head(queue[c]) = OVERFLOW_SENTINEL
  /\ queue' = [queue EXCEPT ![c] = Tail(@)]
  /\ gen' = [gen EXCEPT ![c] = "reading_head"]
  /\ UNCHANGED <<registered, resyncPending, nextFrame, owed, lastYield>>

GenYieldResyncStillPending(c) ==
  /\ gen[c] = "reading_head"
  /\ gen' = [gen EXCEPT ![c] = "looping"]
  /\ owed' = [owed EXCEPT ![c] = {}]
  /\ UNCHANGED <<registered, queue, resyncPending, nextFrame, lastYield>>

(* read_head returned, failed or timed out: the flag is cleared, then the    *)
(* resync frame is yielded, and the refetch it orders covers what was        *)
(* dropped.                                                                  *)
GenYieldResync(c) ==
  /\ gen[c] = "reading_head"
  /\ resyncPending' = [resyncPending EXCEPT ![c] = FALSE]
  /\ gen' = [gen EXCEPT ![c] = "looping"]
  /\ owed' = [owed EXCEPT ![c] = {}]
  /\ UNCHANGED <<registered, queue, nextFrame, lastYield>>

(* The generator ends, its finally deregisters the stream, and the _Client   *)
(* goes with its queue.                                                      *)
Close(c) ==
  /\ gen' = [gen EXCEPT ![c] = "closed"]
  /\ registered' = registered \ {c}
  /\ queue' = [queue EXCEPT ![c] = <<>>]
  /\ resyncPending' = [resyncPending EXCEPT ![c] = FALSE]
  /\ owed' = [owed EXCEPT ![c] = {}]
  /\ lastYield' = [lastYield EXCEPT ![c] = 0]
  /\ UNCHANGED nextFrame

GenTakeRevoked(c) ==
  /\ gen[c] = "looping"
  /\ queue[c] # <<>>
  /\ Head(queue[c]) = REVOKED_SENTINEL
  /\ Close(c)

(* Lifetime cap, failed revalidation, or the transport cancelling the        *)
(* generator at an await.                                                    *)
GenEnd(c) ==
  /\ gen[c] \in {"starting", "looping", "reading_head"}
  /\ Close(c)

GenStep(c) ==
  \/ GenStart(c)
  \/ GenYieldFrame(c)
  \/ GenTakeOverflow(c)
  \/ GenYieldResync(c)
  \/ GenTakeRevoked(c)

Next ==
  \/ \E c \in Streams : Connect(c) \/ GenStep(c) \/ GenEnd(c)
  \/ \E userIds \in SUBSET Users, actor \in Users : Broadcast(userIds, actor)
  \/ DeliverToAll
  \/ \E s \in Sessions : DisconnectSession(s)

Spec == Init /\ [][Next]_managerVars

(* Every await of the generator's loop is bounded (queue.get by 5s, the head *)
(* read by 5s), so a generator whose client keeps reading moves when it can. *)
FairSpec == Spec /\ \A c \in Streams : WF_managerVars(GenStep(c))

-----------------------------------------------------------------------------
TypeOK ==
  /\ registered \subseteq Streams
  /\ queue \in [Streams -> Seq(Frame)]
  /\ \A c \in Streams : Len(queue[c]) <= QueueMax
  /\ resyncPending \in [Streams -> BOOLEAN]
  /\ gen \in [Streams -> GenStates]
  /\ nextFrame \in Nat
  /\ owed \in [Streams -> SUBSET Nat]
  /\ lastYield \in [Streams -> Nat]

(* No frame addressed to a live stream disappears: until a yield or a resync *)
(* covers it, it is still queued or an overflow resync is on its way.        *)
(* (_overflow's "the refetch it orders covers them".)                        *)
NoFrameLost ==
  \A c \in registered : \A n \in owed[c] :
    EventFrame(n) \in Queued(queue[c]) \/ resyncPending[c]

(* resync_pending is set exactly while one overflow resync is outstanding:   *)
(* its sentinel is the whole queue, or the generator holds it and waits for  *)
(* the log's head.  A flag left set would make broadcast drop frames for     *)
(* ever; a sentinel without the flag would let frames queue behind it.       *)
OnePendingResync ==
  \A c \in registered :
    resyncPending[c] <=>
      \/ queue[c] = <<OVERFLOW_SENTINEL>> /\ gen[c] # "reading_head"
      \/ queue[c] = <<>> /\ gen[c] = "reading_head"

(* Frames reach a stream in broadcast order, dropped ones never reappear.    *)
DeliveredInOrder ==
  \A c \in Streams :
    /\ \A i \in 1..Len(queue[c]) :
         queue[c][i].kind = "event" => queue[c][i].id > lastYield[c]
    /\ \A i, j \in 1..Len(queue[c]) :
         /\ i < j
         /\ queue[c][i].kind = "event"
         /\ queue[c][j].kind = "event"
         => queue[c][i].id < queue[c][j].id

(* A stream dropped by disconnect_session yields no further event, whatever  *)
(* it had queued and wherever its generator was suspended.                   *)
Dropped(c) == c \notin registered /\ gen[c] \in {"starting", "looping", "reading_head"}

RevokedStreamIsMute ==
  [][\A c \in Streams : Dropped(c) => lastYield'[c] <= lastYield[c]]_managerVars

(* A frame owed to a stream is yielded, covered by a resync, or the stream   *)
(* ends and the reconnect protocol takes over.                               *)
EveryFrameSettled ==
  \A c \in Streams : \A n \in 1..MaxFrames : n \in owed[c] ~> n \notin owed[c]

(* A dropped stream ends.                                                    *)
RevokedStreamEnds ==
  \A c \in Streams : Dropped(c) ~> gen[c] = "closed"

(* The queues of ConnectionManager keep their bound and their overflow mark: *)
(* no queue outgrows its maxsize, and resync_pending is set exactly while    *)
(* one overflow resync is outstanding, so a stream is neither told twice nor *)
(* muted for ever.                                                           *)
QueuesSound == TypeOK /\ OnePendingResync

(* The generator of stream_events gets on: what is owed to a stream is       *)
(* settled, and a stream whose session was revoked ends.                     *)
StreamsProgress == EveryFrameSettled /\ RevokedStreamEnds
=============================================================================
