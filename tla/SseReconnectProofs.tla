------------------------ MODULE SseReconnectProofs -------------------------
(***************************************************************************)
(* Two parts.  The connection manager, for every set of streams, every     *)
(* queue size and any number of frames: NoFrameLost and OnePendingResync   *)
(* are not inductive, for broadcast trusts resync_pending, so the argument *)
(* needs to know what the queue looks like under each value of the flag    *)
(* (PendingShape), that a free slot is owed nothing and empty (Blank), and *)
(* that a dropped stream's queue holds no event (MuteQueue).               *)
(*                                                                         *)
(* Then what SseReconnect promises for all sets of writers and slots, any  *)
(* number of events and frames, every queue size, scope limit and          *)
(* transport buffer: a tab whose stream is open and drained lacks only     *)
(* events that fell into a named gap.                                      *)
(***************************************************************************)
EXTENDS SseReconnect, TLAPS, SequenceTheorems, FiniteSetTheorems, WellFoundedInduction

Active == {"starting", "looping", "reading_head"}

Blank(c) == gen[c] = "closed" => /\ queue[c] = <<>>
                                 /\ ~resyncPending[c]
                                 /\ owed[c] = {}
                                 /\ c \notin registered

Live(c) == c \in registered => gen[c] \in Active

PendingShape(c) ==
  c \in registered =>
    IF resyncPending[c]
    THEN \/ queue[c] = <<OVERFLOW_SENTINEL>> /\ gen[c] # "reading_head"
         \/ queue[c] = <<>> /\ gen[c] = "reading_head"
    ELSE /\ gen[c] # "reading_head"
         /\ \A i \in 1..Len(queue[c]) : queue[c][i] # OVERFLOW_SENTINEL

Covered(c) ==
  c \in registered =>
    \A n \in owed[c] : resyncPending[c] \/ \E i \in 1..Len(queue[c]) : queue[c][i] = EventFrame(n)

MuteQueue(c) ==
  Dropped(c) => \A i \in 1..Len(queue[c]) : queue[c][i].kind # "event"

(* The inductive invariant, stream by stream.                                *)
StreamInv(c) == Blank(c) /\ Live(c) /\ PendingShape(c) /\ Covered(c) /\ MuteQueue(c)

IInv == TypeOK /\ \A c \in Streams : StreamInv(c)

-----------------------------------------------------------------------------
(* What put_nowait leaves in a queue, as broadcast and deliver_to_all call   *)
(* it: a queue of frames, within its bound.                                  *)
LEMMA PutType ==
  ASSUME TypeOK, NEW to \in SUBSET Streams, NEW f \in Frame, Put(to, f)
  PROVE  /\ queue' \in [Streams -> Seq(Frame)]
         /\ \A c \in Streams : Len(queue'[c]) <= QueueMax
         /\ resyncPending' \in [Streams -> BOOLEAN]
<1>1. OVERFLOW_SENTINEL \in Frame
  BY DEF OVERFLOW_SENTINEL, Frame
<1>2. ASSUME NEW c \in Streams
      PROVE  queue'[c] \in Seq(Frame) /\ Len(queue'[c]) <= QueueMax
  <2>1. queue[c] \in Seq(Frame) /\ Len(queue[c]) \in Nat /\ Len(queue[c]) <= QueueMax
    BY DEF TypeOK
  <2>2. CASE c \in to /\ Accepts(c)
    <3>1. queue'[c] = Append(queue[c], f) BY <2>2 DEF Put
    <3>2. QED BY <2>1, <2>2, <3>1, QueueMaxAssumption DEF Accepts
  <2>3. CASE c \in to /\ ~Accepts(c) /\ Overflows(c)
    <3>1. queue'[c] = <<OVERFLOW_SENTINEL>> BY <2>3 DEF Put
    <3>2. QED BY <1>1, <3>1, QueueMaxAssumption
  <2>4. CASE ~(c \in to /\ Accepts(c)) /\ ~(c \in to /\ Overflows(c))
    <3>1. queue'[c] = queue[c] BY <2>4 DEF Put
    <3>2. QED BY <2>1, <3>1
  <2>5. QED BY <2>2, <2>3, <2>4
<1>3. queue' \in [Streams -> Seq(Frame)] /\ \A c \in Streams : Len(queue'[c]) <= QueueMax
  <2>1. queue' = [c \in Streams |-> queue'[c]] BY DEF Put
  <2>2. QED BY <1>2, <2>1
<1>4. resyncPending' \in [Streams -> BOOLEAN]
  BY DEF Put, TypeOK
<1>5. QED BY <1>3, <1>4

(* The same per stream: untouched, appended to, or collapsed to the sentinel.*)
LEMMA PutCases ==
  ASSUME TypeOK, NEW to \in SUBSET Streams, NEW f \in Frame, Put(to, f), NEW c \in Streams
  PROVE  \/ /\ c \notin to \/ resyncPending[c]
            /\ queue'[c] = queue[c] /\ resyncPending'[c] = resyncPending[c]
         \/ /\ c \in to /\ ~resyncPending[c] /\ ~resyncPending'[c]
            /\ queue'[c] = Append(queue[c], f)
         \/ /\ c \in to /\ ~resyncPending[c] /\ resyncPending'[c]
            /\ queue'[c] = <<OVERFLOW_SENTINEL>>
<1>1. Len(queue[c]) \in Nat /\ resyncPending[c] \in BOOLEAN
  BY DEF TypeOK
<1>2. resyncPending'[c] = (resyncPending[c] \/ (c \in to /\ Overflows(c)))
  BY DEF Put
<1>3. CASE c \in to /\ Accepts(c)
  BY <1>1, <1>2, <1>3, QueueMaxAssumption DEF Put, Accepts, Overflows
<1>4. CASE c \in to /\ Overflows(c)
  <2>1. ~Accepts(c) BY <1>1, <1>4, QueueMaxAssumption DEF Accepts, Overflows
  <2>2. queue'[c] = <<OVERFLOW_SENTINEL>> BY <1>4, <2>1 DEF Put
  <2>3. QED BY <1>2, <1>4, <2>2 DEF Overflows
<1>5. CASE ~(c \in to /\ Accepts(c)) /\ ~(c \in to /\ Overflows(c))
  <2>1. queue'[c] = queue[c] BY <1>5 DEF Put
  <2>2. c \notin to \/ resyncPending[c]
    BY <1>1, <1>5, QueueMaxAssumption DEF Accepts, Overflows
  <2>3. QED BY <1>1, <1>2, <1>5, <2>1, <2>2
<1>6. QED BY <1>3, <1>4, <1>5

(* One frame leaves the front of a queue.                                    *)
LEMMA TailFacts ==
  ASSUME NEW q \in Seq(Frame), q # <<>>
  PROVE  /\ Tail(q) \in Seq(Frame) /\ Head(q) \in Frame
         /\ Head(q) = q[1]
         /\ Len(Tail(q)) = Len(q) - 1 /\ Len(q) \in Nat \ {0}
         /\ \A i \in 1..Len(Tail(q)) : i + 1 \in 1..Len(q) /\ Tail(q)[i] = q[i + 1]
  OBVIOUS

-----------------------------------------------------------------------------
(* A worker starts with every slot free.                                     *)
LEMMA InitIInv == Init => IInv
  BY QueueMaxAssumption
     DEF Init, IInv, TypeOK, StreamInv, Blank, Live, PendingShape, Covered, MuteQueue,
         Dropped, GenStates, Active

(* Every action keeps the types.                                             *)
LEMMA TypeStep == TypeOK /\ [Next]_managerVars => TypeOK'
<1> SUFFICES ASSUME TypeOK, [Next]_managerVars PROVE TypeOK'
  OBVIOUS
<1>1. ASSUME NEW c \in Streams, Connect(c) PROVE TypeOK'
  BY <1>1 DEF Connect, TypeOK, GenStates
<1>2. ASSUME NEW c \in Streams, GenStart(c) PROVE TypeOK'
  BY <1>2 DEF GenStart, TypeOK, GenStates
<1>3. ASSUME NEW c \in Streams, GenYieldFrame(c) PROVE TypeOK'
  <2>1. queue[c] \in Seq(Frame) /\ Len(queue[c]) <= QueueMax /\ queue[c] # <<>>
    BY <1>3 DEF GenYieldFrame, TypeOK
  <2>2. Tail(queue[c]) \in Seq(Frame) /\ Len(Tail(queue[c])) <= QueueMax /\ Head(queue[c]).id \in Nat
    BY <2>1, TailFacts, QueueMaxAssumption DEF Frame
  <2>3. owed' \in [Streams -> SUBSET Nat] /\ lastYield' \in [Streams -> Nat]
    BY <1>3, <2>2 DEF GenYieldFrame, TypeOK
  <2>4. QED BY <1>3, <2>2, <2>3 DEF GenYieldFrame, TypeOK
<1>4. ASSUME NEW c \in Streams, GenTakeOverflow(c) PROVE TypeOK'
  <2>1. queue[c] \in Seq(Frame) /\ Len(queue[c]) <= QueueMax /\ queue[c] # <<>>
    BY <1>4 DEF GenTakeOverflow, TypeOK
  <2>2. Tail(queue[c]) \in Seq(Frame) /\ Len(Tail(queue[c])) <= QueueMax
    BY <2>1, TailFacts, QueueMaxAssumption
  <2>3. QED BY <1>4, <2>2 DEF GenTakeOverflow, TypeOK, GenStates
<1>5. ASSUME NEW c \in Streams, GenYieldResync(c) PROVE TypeOK'
  BY <1>5 DEF GenYieldResync, TypeOK, GenStates
<1>6. ASSUME NEW c \in Streams, GenTakeRevoked(c) \/ GenEnd(c) PROVE TypeOK'
  <2>1. Close(c)
    BY <1>6 DEF GenTakeRevoked, GenEnd
  <2>2. <<>> \in Seq(Frame) /\ Len(<<>>) = 0
    OBVIOUS
  <2>3. /\ queue' \in [Streams -> Seq(Frame)]
        /\ \A d \in Streams : Len(queue'[d]) <= QueueMax
    BY <2>1, <2>2, QueueMaxAssumption DEF Close, TypeOK
  <2>4. QED BY <2>1, <2>3 DEF Close, TypeOK, GenStates
<1>7. ASSUME NEW userIds \in SUBSET Users, NEW actor \in Users, Broadcast(userIds, actor)
      PROVE  TypeOK'
  <2> DEFINE to == {c \in registered : Eligible(c, userIds, actor)}
  <2>1. to \in SUBSET Streams /\ EventFrame(nextFrame + 1) \in Frame
    BY DEF TypeOK, EventFrame, Frame
  <2>2. Put(to, EventFrame(nextFrame + 1))
    BY <1>7 DEF Broadcast
  <2>3. owed' \in [Streams -> SUBSET Nat]
    BY <1>7 DEF Broadcast, TypeOK
  <2> HIDE DEF to
  <2>4. /\ queue' \in [Streams -> Seq(Frame)]
        /\ \A c \in Streams : Len(queue'[c]) <= QueueMax
        /\ resyncPending' \in [Streams -> BOOLEAN]
    BY <2>1, <2>2, PutType
  <2>5. nextFrame' \in Nat /\ UNCHANGED <<registered, gen, lastYield>>
    BY <1>7 DEF Broadcast, TypeOK
  <2>6. QED BY <2>3, <2>4, <2>5 DEF TypeOK
<1>8. ASSUME DeliverToAll PROVE TypeOK'
  <2>1. registered \in SUBSET Streams /\ ResyncFrame \in Frame
    BY DEF TypeOK, ResyncFrame, Frame
  <2>2. QED BY <1>8, <2>1, PutType DEF DeliverToAll, TypeOK
<1>9. ASSUME NEW s \in Sessions, DisconnectSession(s) PROVE TypeOK'
  <2>1. REVOKED_SENTINEL \in Frame
    BY DEF REVOKED_SENTINEL, Frame
  <2>2. <<REVOKED_SENTINEL>> \in Seq(Frame) /\ Len(<<REVOKED_SENTINEL>>) <= QueueMax
    BY <2>1, QueueMaxAssumption
  <2>3. queue' \in [Streams -> Seq(Frame)] /\ \A c \in Streams : Len(queue'[c]) <= QueueMax
    BY <1>9, <2>2 DEF DisconnectSession, TypeOK
  <2>4. QED BY <1>9, <2>3 DEF DisconnectSession, TypeOK
<1>10. CASE UNCHANGED managerVars
  BY <1>10 DEF managerVars, TypeOK
<1>11. QED
  BY <1>1, <1>2, <1>3, <1>4, <1>5, <1>6, <1>7, <1>8, <1>9, <1>10 DEF Next, GenStep

(* An action that touches only stream d leaves every other stream's part of  *)
(* the invariant alone.                                                      *)
LEMMA OtherStream ==
  ASSUME NEW c \in Streams, StreamInv(c),
         queue'[c] = queue[c], resyncPending'[c] = resyncPending[c], gen'[c] = gen[c],
         owed'[c] = owed[c], c \in registered' <=> c \in registered
  PROVE  StreamInv(c)'
  BY DEF StreamInv, Blank, Live, PendingShape, Covered, MuteQueue, Dropped

(* A frame put on the queues of registered streams: appended, or collapsed   *)
(* into an overflow whose resync covers it.                                  *)
LEMMA PutStreamInv ==
  ASSUME TypeOK, NEW to \in SUBSET registered, NEW f \in Frame, f # OVERFLOW_SENTINEL,
         Put(to, f), UNCHANGED <<registered, gen>>, NEW c \in Streams, StreamInv(c),
         \A n \in owed'[c] : n \in owed[c] \/ (c \in to /\ f = EventFrame(n)),
         c \notin to => owed'[c] = owed[c]
  PROVE  StreamInv(c)'
<1>1. queue[c] \in Seq(Frame) /\ to \in SUBSET Streams
  BY DEF TypeOK
<1>2. CASE queue'[c] = queue[c] /\ resyncPending'[c] = resyncPending[c]
           /\ (c \notin to \/ resyncPending[c])
  <2>1. CASE c \notin to
    BY <1>2, <2>1, OtherStream
  <2>2. CASE c \in to /\ resyncPending[c]
    BY <1>2, <2>2 DEF StreamInv, Blank, Live, PendingShape, Covered, MuteQueue, Dropped
  <2>3. QED BY <1>2, <2>1, <2>2
<1>3. CASE c \in to /\ ~resyncPending[c] /\ ~resyncPending'[c] /\ queue'[c] = Append(queue[c], f)
  <2>1. /\ Len(queue'[c]) = Len(queue[c]) + 1 /\ Len(queue[c]) \in Nat
        /\ \A i \in 1..Len(queue[c]) : queue'[c][i] = queue[c][i]
        /\ queue'[c][Len(queue[c]) + 1] = f
    BY <1>1, <1>3
  <2>2. PendingShape(c)'
    <3>1. ASSUME NEW i \in 1..Len(queue'[c]) PROVE queue'[c][i] # OVERFLOW_SENTINEL
      <4>1. CASE i \in 1..Len(queue[c])
        BY <1>3, <2>1, <4>1 DEF StreamInv, PendingShape
      <4>2. CASE i = Len(queue[c]) + 1
        BY <2>1, <4>2
      <4>3. QED BY <2>1, <4>1, <4>2
    <3>2. gen[c] # "reading_head"
      BY <1>3 DEF StreamInv, PendingShape
    <3>3. QED BY <1>3, <3>1, <3>2 DEF PendingShape
  <2>3. Covered(c)'
    <3>1. ASSUME NEW n \in owed'[c]
          PROVE  \E i \in 1..Len(queue'[c]) : queue'[c][i] = EventFrame(n)
      <4>1. CASE n \in owed[c]
        <5>1. PICK i \in 1..Len(queue[c]) : queue[c][i] = EventFrame(n)
          BY <1>3, <4>1 DEF StreamInv, Covered
        <5>2. i \in 1..Len(queue'[c]) /\ queue'[c][i] = EventFrame(n)
          BY <2>1, <5>1
        <5>3. QED BY <5>2
      <4>2. CASE f = EventFrame(n)
        BY <2>1, <4>2
      <4>3. QED BY <3>1, <4>1, <4>2
    <3>2. QED BY <3>1 DEF Covered
  <2>4. QED
    BY <1>3, <2>2, <2>3 DEF StreamInv, Blank, Live, MuteQueue, Dropped
<1>4. CASE c \in to /\ ~resyncPending[c] /\ resyncPending'[c] /\ queue'[c] = <<OVERFLOW_SENTINEL>>
  <2>1. c \in registered /\ gen[c] # "reading_head"
    BY <1>4 DEF StreamInv, PendingShape
  <2>2. QED
    BY <1>4, <2>1 DEF StreamInv, Blank, Live, PendingShape, Covered, MuteQueue, Dropped
<1>5. QED BY <1>1, <1>2, <1>3, <1>4, PutCases

-----------------------------------------------------------------------------
(* Every action keeps the invariant.  Only the stream an action names, or    *)
(* the streams a frame is addressed to, need an argument.                    *)
LEMMA StreamStep ==
  ASSUME IInv, [Next]_managerVars, NEW c \in Streams
  PROVE  StreamInv(c)'
<1> USE DEF IInv
<1>1. StreamInv(c) /\ TypeOK /\ queue[c] \in Seq(Frame)
  BY DEF TypeOK
<1>2. ASSUME NEW d \in Streams, Connect(d) PROVE StreamInv(c)'
  <2>1. CASE c = d
    BY <1>1, <1>2, <2>1
    DEF Connect, TypeOK, Active, StreamInv, Blank, Live, PendingShape, Covered, MuteQueue, Dropped
  <2>2. CASE c # d
    <3>1. /\ gen'[c] = gen[c] /\ queue'[c] = queue[c]
          /\ resyncPending'[c] = resyncPending[c] /\ owed' = owed
      BY <1>2, <2>2 DEF Connect, TypeOK
    <3>2. QED BY <1>1, <1>2, <2>2, <3>1, OtherStream DEF Connect
  <2>3. QED BY <2>1, <2>2
<1>3. ASSUME NEW d \in Streams, GenStart(d) PROVE StreamInv(c)'
  <2>1. CASE c = d
    BY <1>1, <1>3, <2>1
    DEF GenStart, TypeOK, Active, StreamInv, Blank, Live, PendingShape, Covered, MuteQueue, Dropped
  <2>2. CASE c # d
    <3>1. gen'[c] = gen[c] BY <1>3, <2>2 DEF GenStart, TypeOK
    <3>2. QED BY <1>1, <1>3, <2>2, <3>1, OtherStream DEF GenStart
  <2>3. QED BY <2>1, <2>2
<1>4. ASSUME NEW d \in Streams, GenYieldFrame(d) PROVE StreamInv(c)'
  <2>1. CASE c = d
    <3>1. /\ queue[c] # <<>> /\ queue'[c] = Tail(queue[c]) /\ gen[c] = "looping"
          /\ Head(queue[c]).kind \in {"event", "resync"}
          /\ owed'[c] = owed[c] \ {Head(queue[c]).id} \/ owed'[c] = {}
          /\ Head(queue[c]).kind = "resync" => owed'[c] = {}
          /\ UNCHANGED <<registered, resyncPending, gen>>
      BY <1>4, <2>1 DEF GenYieldFrame, TypeOK
    <3>2. /\ Head(queue[c]) = queue[c][1]
          /\ Len(Tail(queue[c])) = Len(queue[c]) - 1 /\ Len(queue[c]) \in Nat \ {0}
          /\ \A i \in 1..Len(Tail(queue[c])) :
               i + 1 \in 1..Len(queue[c]) /\ Tail(queue[c])[i] = queue[c][i + 1]
      BY <1>1, <3>1, TailFacts
    <3>3. PendingShape(c)'
      <4>1. CASE c \in registered /\ resyncPending[c]
        <5>1. queue[c] = <<OVERFLOW_SENTINEL>>
          BY <1>1, <3>1, <4>1 DEF StreamInv, PendingShape
        <5>2. QED BY <3>1, <5>1 DEF OVERFLOW_SENTINEL
      <4>2. CASE c \in registered /\ ~resyncPending[c]
        BY <1>1, <3>1, <3>2, <4>2 DEF StreamInv, PendingShape
      <4>3. CASE c \notin registered
        BY <3>1, <4>3 DEF PendingShape
      <4>4. QED BY <4>1, <4>2, <4>3
    <3>4. Covered(c)'
      <4>1. ASSUME c \in registered, NEW n \in owed'[c], ~resyncPending[c]
            PROVE  \E i \in 1..Len(queue'[c]) : queue'[c][i] = EventFrame(n)
        <5>1. n \in owed[c] /\ n # Head(queue[c]).id
          BY <3>1, <4>1
        <5>2. PICK i \in 1..Len(queue[c]) : queue[c][i] = EventFrame(n)
          BY <1>1, <4>1, <5>1 DEF StreamInv, Covered
        <5>3. i # 1
          BY <3>2, <5>1, <5>2 DEF EventFrame
        <5>4. i - 1 \in 1..Len(queue'[c]) /\ queue'[c][i - 1] = EventFrame(n)
          BY <3>1, <3>2, <5>2, <5>3
        <5>5. QED BY <5>4
      <4>2. QED BY <3>1, <4>1 DEF Covered
    <3>5. MuteQueue(c)'
      BY <1>1, <3>1, <3>2 DEF StreamInv, MuteQueue, Dropped
    <3>6. QED BY <1>1, <3>1, <3>3, <3>4, <3>5 DEF StreamInv, Blank, Live
  <2>2. CASE c # d
    <3>1. queue'[c] = queue[c] /\ owed'[c] = owed[c]
      BY <1>4, <2>2 DEF GenYieldFrame, TypeOK
    <3>2. QED BY <1>1, <1>4, <3>1, OtherStream DEF GenYieldFrame
  <2>3. QED BY <2>1, <2>2
<1>5. ASSUME NEW d \in Streams, GenTakeOverflow(d) PROVE StreamInv(c)'
  <2>1. CASE c = d
    <3>1. /\ queue[c] # <<>> /\ queue'[c] = Tail(queue[c]) /\ gen[c] = "looping"
          /\ Head(queue[c]) = OVERFLOW_SENTINEL /\ gen'[c] = "reading_head"
          /\ UNCHANGED <<registered, resyncPending, owed>>
      BY <1>5, <2>1 DEF GenTakeOverflow, TypeOK
    <3>2. /\ Head(queue[c]) = queue[c][1] /\ Len(queue[c]) \in Nat \ {0}
          /\ Len(Tail(queue[c])) = Len(queue[c]) - 1
          /\ \A i \in 1..Len(Tail(queue[c])) :
               i + 1 \in 1..Len(queue[c]) /\ Tail(queue[c])[i] = queue[c][i + 1]
      BY <1>1, <3>1, TailFacts
    <3>3. c \in registered => resyncPending[c] /\ queue[c] = <<OVERFLOW_SENTINEL>>
      BY <1>1, <3>1, <3>2 DEF StreamInv, PendingShape
    <3>4. c \in registered => queue'[c] = <<>>
      <4>1. SUFFICES ASSUME c \in registered PROVE queue'[c] = <<>>
        OBVIOUS
      <4>2. Tail(queue[c]) \in Seq(Frame) /\ Len(queue[c]) = 1
        BY <1>1, <3>1, <3>3, <4>1, TailFacts DEF TypeOK
      <4>3. Len(Tail(queue[c])) = 0
        BY <3>2, <4>2
      <4>4. QED BY <3>1, <4>2, <4>3, EmptySeq
    <3>5. MuteQueue(c)'
      BY <1>1, <3>1, <3>2 DEF StreamInv, MuteQueue, Dropped
    <3>6. QED
      BY <1>1, <3>1, <3>3, <3>4, <3>5 DEF StreamInv, Blank, Live, Active, PendingShape, Covered
  <2>2. CASE c # d
    <3>1. queue'[c] = queue[c] /\ gen'[c] = gen[c]
      BY <1>5, <2>2 DEF GenTakeOverflow, TypeOK
    <3>2. QED BY <1>1, <1>5, <3>1, OtherStream DEF GenTakeOverflow
  <2>3. QED BY <2>1, <2>2
<1>6. ASSUME NEW d \in Streams, GenYieldResync(d) PROVE StreamInv(c)'
  <2>1. CASE c = d
    <3>1. /\ gen[c] = "reading_head" /\ gen'[c] = "looping" /\ ~resyncPending'[c]
          /\ owed'[c] = {} /\ UNCHANGED <<registered, queue>>
      BY <1>6, <2>1 DEF GenYieldResync, TypeOK
    <3>2. c \in registered => queue[c] = <<>>
      BY <1>1, <3>1 DEF StreamInv, PendingShape
    <3>3. QED
      BY <1>1, <3>1, <3>2
      DEF StreamInv, Blank, Live, Active, PendingShape, Covered, MuteQueue, Dropped
  <2>2. CASE c # d
    <3>1. resyncPending'[c] = resyncPending[c] /\ gen'[c] = gen[c] /\ owed'[c] = owed[c]
      BY <1>6, <2>2 DEF GenYieldResync, TypeOK
    <3>2. QED BY <1>1, <1>6, <3>1, OtherStream DEF GenYieldResync
  <2>3. QED BY <2>1, <2>2
<1>7. ASSUME NEW d \in Streams, GenTakeRevoked(d) \/ GenEnd(d) PROVE StreamInv(c)'
  <2>1. CASE c = d
    <3>1. /\ gen'[c] = "closed" /\ c \notin registered' /\ owed'[c] = {}
          /\ queue'[c] = <<>> /\ ~resyncPending'[c]
      BY <1>7, <2>1 DEF GenTakeRevoked, GenEnd, Close, TypeOK
    <3>2. QED
      BY <3>1 DEF StreamInv, Blank, Live, Active, PendingShape, Covered, MuteQueue, Dropped
  <2>2. CASE c # d
    <3>1. /\ queue'[c] = queue[c] /\ gen'[c] = gen[c] /\ owed'[c] = owed[c]
          /\ c \in registered' <=> c \in registered
          /\ resyncPending'[c] = resyncPending[c]
      BY <1>7, <2>2 DEF GenTakeRevoked, GenEnd, Close, TypeOK
    <3>2. QED BY <1>1, <3>1, OtherStream
  <2>3. QED BY <2>1, <2>2
<1>8. ASSUME NEW userIds \in SUBSET Users, NEW actor \in Users, Broadcast(userIds, actor)
      PROVE  StreamInv(c)'
  <2> DEFINE to == {x \in registered : Eligible(x, userIds, actor)}
  <2> DEFINE f == EventFrame(nextFrame + 1)
  <2>1. to \in SUBSET registered /\ f \in Frame /\ f # OVERFLOW_SENTINEL
    BY DEF TypeOK, EventFrame, Frame, OVERFLOW_SENTINEL
  <2>2. Put(to, f) /\ UNCHANGED <<registered, gen>>
    BY <1>8 DEF Broadcast
  <2>3. /\ \A n \in owed'[c] : n \in owed[c] \/ (c \in to /\ f = EventFrame(n))
        /\ c \notin to => owed'[c] = owed[c]
    BY <1>8 DEF Broadcast, TypeOK
  <2> HIDE DEF to, f
  <2>4. QED BY <1>1, <2>1, <2>2, <2>3, PutStreamInv
<1>9. ASSUME DeliverToAll PROVE StreamInv(c)'
  <2>1. ResyncFrame \in Frame /\ ResyncFrame # OVERFLOW_SENTINEL
    BY DEF ResyncFrame, Frame, OVERFLOW_SENTINEL
  <2>2. Put(registered, ResyncFrame) /\ UNCHANGED <<registered, gen, owed>>
    BY <1>9 DEF DeliverToAll
  <2>3. QED BY <1>1, <2>1, <2>2, PutStreamInv
<1>10. ASSUME NEW s \in Sessions, DisconnectSession(s) PROVE StreamInv(c)'
  <2>1. CASE c \in registered /\ SessionOf[c] = s
    <3>1. /\ queue'[c] = <<REVOKED_SENTINEL>> /\ c \notin registered'
          /\ UNCHANGED <<resyncPending, gen>>
      BY <1>10, <2>1 DEF DisconnectSession, TypeOK
    <3>2. gen[c] \in Active
      BY <1>1, <2>1 DEF StreamInv, Live
    <3>3. QED
      BY <3>1, <3>2 DEF StreamInv, Blank, Live, Active, PendingShape, Covered, MuteQueue,
                        Dropped, REVOKED_SENTINEL
  <2>2. CASE ~(c \in registered /\ SessionOf[c] = s)
    <3>1. /\ queue'[c] = queue[c] /\ owed'[c] = owed[c]
          /\ c \in registered' <=> c \in registered
          /\ UNCHANGED <<resyncPending, gen>>
      BY <1>10, <2>2 DEF DisconnectSession, TypeOK
    <3>2. QED BY <1>1, <3>1, OtherStream
  <2>3. QED BY <2>1, <2>2
<1>11. CASE UNCHANGED managerVars
  BY <1>1, <1>11, OtherStream DEF managerVars
<1>12. QED
  BY <1>2, <1>3, <1>4, <1>5, <1>6, <1>7, <1>8, <1>9, <1>10, <1>11 DEF Next, GenStep

(* The invariant is inductive.                                               *)
LEMMA IInvStep == IInv /\ [Next]_managerVars => IInv'
  BY TypeStep, StreamStep DEF IInv

(* The manager's state is well typed and its queues stay within _QUEUE_MAX.  *)
THEOREM TypeCorrect == Spec => []TypeOK
<1>1. Init => TypeOK
  BY InitIInv DEF IInv
<1>2. QED BY <1>1, TypeStep, PTL DEF Spec

(* The invariant holds in every reachable state.                             *)
LEMMA IInvHolds == Spec => []IInv
  BY InitIInv, IInvStep, PTL DEF Spec

(* No frame addressed to a live stream is lost, for every number of streams  *)
(* and every queue size: it is queued, or an overflow resync is coming.      *)
THEOREM FramesNeverLost == Spec => []NoFrameLost
<1>1. IInv => NoFrameLost
  BY DEF IInv, TypeOK, StreamInv, Covered, NoFrameLost, Queued
<1>2. QED BY <1>1, IInvHolds, PTL

(* resync_pending is set exactly while one overflow resync is outstanding.   *)
THEOREM ResyncPendingExact == Spec => []OnePendingResync
<1>1. IInv => OnePendingResync
  <2>1. ASSUME IInv, NEW c \in registered
        PROVE  resyncPending[c] <=>
                 \/ queue[c] = <<OVERFLOW_SENTINEL>> /\ gen[c] # "reading_head"
                 \/ queue[c] = <<>> /\ gen[c] = "reading_head"
    <3>1. PendingShape(c)
      BY <2>1 DEF IInv, TypeOK, StreamInv
    <3>2. CASE resyncPending[c]
      BY <2>1, <3>1, <3>2 DEF PendingShape
    <3>3. CASE ~resyncPending[c]
      BY <2>1, <3>1, <3>3 DEF PendingShape
    <3>4. QED BY <3>2, <3>3
  <2>2. QED BY <2>1 DEF OnePendingResync
<1>2. QED BY <1>1, IInvHolds, PTL

(* A stream dropped on revocation never yields another event.                *)
THEOREM RevokedNeverYields == Spec => RevokedStreamIsMute
<1>1. ASSUME IInv, [Next]_managerVars, NEW c \in Streams, Dropped(c)
      PROVE  lastYield'[c] <= lastYield[c]
  <2>1. CASE GenYieldFrame(c)
    <3>1. queue[c] \in Seq(Frame) /\ queue[c] # <<>>
      BY <1>1, <2>1 DEF GenYieldFrame, IInv, TypeOK
    <3>2. 1 \in 1..Len(queue[c]) /\ Head(queue[c]) = queue[c][1]
      BY <3>1, TailFacts
    <3>3. Head(queue[c]).kind # "event"
      BY <1>1, <3>2 DEF IInv, StreamInv, MuteQueue
    <3>4. lastYield'[c] = lastYield[c] /\ lastYield[c] \in Nat
      BY <1>1, <2>1, <3>3 DEF GenYieldFrame, IInv, TypeOK
    <3>5. QED BY <3>4
  <2>2. CASE GenTakeRevoked(c) \/ GenEnd(c)
    BY <1>1, <2>2 DEF IInv, TypeOK, GenTakeRevoked, GenEnd, Close
  <2>3. CASE ~GenYieldFrame(c) /\ ~GenTakeRevoked(c) /\ ~GenEnd(c)
    <3>1. lastYield \in [Streams -> Nat]
      BY <1>1 DEF IInv, TypeOK
    <3>2. ASSUME NEW d \in Streams,
                 Connect(d) \/ GenStart(d) \/ GenTakeOverflow(d) \/ GenYieldResync(d)
          PROVE  lastYield' = lastYield
      BY <3>2 DEF Connect, GenStart, GenTakeOverflow, GenYieldResync
    <3>3. ASSUME NEW d \in Streams, GenYieldFrame(d) \/ GenTakeRevoked(d) \/ GenEnd(d)
          PROVE  lastYield'[c] = lastYield[c]
      <4>1. c # d
        BY <2>3, <3>3
      <4>2. \E n : lastYield' = [lastYield EXCEPT ![d] = n] \/ lastYield' = lastYield
        BY <3>3 DEF GenYieldFrame, GenTakeRevoked, GenEnd, Close
      <4>3. QED BY <3>1, <4>1, <4>2
    <3>4. ASSUME NEW userIds \in SUBSET Users, NEW actor \in Users, Broadcast(userIds, actor)
          PROVE  lastYield' = lastYield
      BY <3>4, Zenon DEF Broadcast
    <3>5. ASSUME NEW s \in Sessions, DisconnectSession(s) PROVE lastYield' = lastYield
      BY <3>5, Zenon DEF DisconnectSession
    <3>6. ASSUME UNCHANGED managerVars PROVE lastYield' = lastYield
      BY <3>6 DEF managerVars
    <3>7. ASSUME DeliverToAll PROVE lastYield' = lastYield
      BY <3>7, Zenon DEF DeliverToAll
    <3>8. ASSUME NEW d \in Streams, Connect(d) \/ GenStep(d) \/ GenEnd(d)
          PROVE  lastYield'[c] = lastYield[c]
      <4>1. CASE Connect(d) \/ GenStart(d) \/ GenTakeOverflow(d) \/ GenYieldResync(d)
        BY <3>2, <4>1
      <4>2. CASE GenYieldFrame(d) \/ GenTakeRevoked(d) \/ GenEnd(d)
        BY <3>3, <4>2
      <4>3. QED BY <3>8, <4>1, <4>2 DEF GenStep
    <3>9. lastYield'[c] = lastYield[c]
      BY <1>1, <3>4, <3>5, <3>6, <3>7, <3>8 DEF Next
    <3>10. QED BY <3>1, <3>9
  <2>4. QED BY <2>1, <2>2, <2>3
<1>2. IInv /\ [Next]_managerVars
        => [\A c \in Streams : Dropped(c) => lastYield'[c] <= lastYield[c]]_managerVars
  BY <1>1
<1>3. QED BY <1>2, IInvHolds, PTL DEF Spec, RevokedStreamIsMute

(* Every queue keeps its bound and its overflow mark tells the truth, for    *)
(* every set of streams and every queue size.                                *)
THEOREM QueuesStaySound == Spec => []QueuesSound
<1>1. TypeOK /\ OnePendingResync => QueuesSound
  BY DEF QueuesSound
<1>2. QED BY <1>1, TypeCorrect, ResyncPendingExact, PTL

-----------------------------------------------------------------------------
(* Order.  The numbers of the queued events lie between the last one yielded *)
(* and the last one broadcast, which is what makes the next one the largest. *)
InOrder(c) ==
  /\ lastYield[c] <= nextFrame
  /\ \A i \in 1..Len(queue[c]) :
       queue[c][i].kind = "event" => lastYield[c] < queue[c][i].id /\ queue[c][i].id <= nextFrame
  /\ \A i, j \in 1..Len(queue[c]) :
       /\ i < j
       /\ queue[c][i].kind = "event"
       /\ queue[c][j].kind = "event"
       => queue[c][i].id < queue[c][j].id

(* The entries of a stream's queue are frames, numbered in Nat.              *)
LEMMA QueueIds ==
  ASSUME NEW q \in Seq(Frame), NEW i \in 1..Len(q)
  PROVE  q[i].id \in Nat
<1>1. q[i] \in Frame
  OBVIOUS
<1>2. \A f \in Frame : f.id \in Nat
  BY DEF Frame
<1>3. QED BY <1>1, <1>2

(* A queue that holds no event, or the one it held, is in order.             *)
LEMMA OrderKept ==
  ASSUME TypeOK, TypeOK', NEW c \in Streams, InOrder(c), nextFrame <= nextFrame',
         lastYield'[c] = lastYield[c] \/ lastYield'[c] = 0,
         queue'[c] = queue[c] \/ \A i \in 1..Len(queue'[c]) : queue'[c][i].kind # "event"
  PROVE  InOrder(c)'
<1>1. /\ nextFrame \in Nat /\ nextFrame' \in Nat /\ lastYield[c] \in Nat
      /\ queue[c] \in Seq(Frame)
  BY DEF TypeOK
<1>2. \A i \in 1..Len(queue[c]) : queue[c][i].id \in Nat
  BY <1>1, QueueIds
<1>3. CASE queue'[c] = queue[c]
  BY <1>1, <1>2, <1>3 DEF InOrder
<1>4. CASE \A i \in 1..Len(queue'[c]) : queue'[c][i].kind # "event"
  BY <1>1, <1>4 DEF InOrder
<1>5. QED BY <1>3, <1>4

(* put_nowait keeps the order when the frame is the newest event or a resync.*)
LEMMA PutInOrder ==
  ASSUME TypeOK, TypeOK', NEW to \in SUBSET Streams, NEW f \in Frame, Put(to, f),
         UNCHANGED lastYield, NEW c \in Streams, InOrder(c),
         \/ f.kind # "event" /\ UNCHANGED nextFrame
         \/ f.id = nextFrame + 1 /\ nextFrame' = nextFrame + 1
  PROVE  InOrder(c)'
<1>1. /\ nextFrame \in Nat /\ lastYield[c] \in Nat /\ queue[c] \in Seq(Frame)
      /\ nextFrame <= nextFrame' /\ nextFrame' \in Nat
  BY DEF TypeOK
<1>2. CASE queue'[c] = queue[c]
  BY <1>1, <1>2, OrderKept
<1>3. CASE queue'[c] = <<OVERFLOW_SENTINEL>>
  <2>1. \A i \in 1..Len(queue'[c]) : queue'[c][i].kind # "event"
    BY <1>3 DEF OVERFLOW_SENTINEL
  <2>2. QED BY <1>1, <2>1, OrderKept
<1>4. CASE queue'[c] = Append(queue[c], f)
  <2>1. /\ Len(queue'[c]) = Len(queue[c]) + 1 /\ Len(queue[c]) \in Nat
        /\ \A i \in 1..Len(queue[c]) : queue'[c][i] = queue[c][i] /\ queue[c][i].id \in Nat
        /\ queue'[c][Len(queue[c]) + 1] = f
    BY <1>1, <1>4, QueueIds
  <2>2. \A i \in 1..Len(queue'[c]) : i \in 1..Len(queue[c]) \/ i = Len(queue[c]) + 1
    BY <2>1
  <2>3. ASSUME NEW i \in 1..Len(queue'[c]), queue'[c][i].kind = "event"
        PROVE  lastYield[c] < queue'[c][i].id /\ queue'[c][i].id <= nextFrame'
    <3>1. CASE i \in 1..Len(queue[c])
      <4>1. queue'[c][i] = queue[c][i] /\ queue[c][i].id \in Nat
        BY <2>1, <3>1
      <4>2. lastYield[c] < queue[c][i].id /\ queue[c][i].id <= nextFrame
        BY <2>3, <3>1, <4>1 DEF InOrder
      <4>3. QED BY <1>1, <4>1, <4>2
    <3>2. CASE i = Len(queue[c]) + 1
      <4>1. queue'[c][i] = f /\ f.id = nextFrame + 1 /\ nextFrame' = nextFrame + 1
        BY <2>1, <2>3, <3>2
      <4>2. lastYield[c] <= nextFrame
        BY DEF InOrder
      <4>3. QED BY <1>1, <4>1, <4>2
    <3>3. QED BY <2>2, <3>1, <3>2
  <2>4. ASSUME NEW i \in 1..Len(queue'[c]), NEW j \in 1..Len(queue'[c]), i < j,
               queue'[c][i].kind = "event", queue'[c][j].kind = "event"
        PROVE  queue'[c][i].id < queue'[c][j].id
    <3>1. i \in 1..Len(queue[c])
      BY <2>1, <2>2, <2>4
    <3>2. CASE j \in 1..Len(queue[c])
      <4>1. queue'[c][i] = queue[c][i] /\ queue'[c][j] = queue[c][j]
        BY <2>1, <3>1, <3>2
      <4>2. QED BY <2>4, <3>1, <3>2, <4>1 DEF InOrder
    <3>3. CASE j = Len(queue[c]) + 1
      <4>1. queue'[c][j] = f /\ f.kind = "event"
        BY <2>1, <2>4, <3>3
      <4>2. f.id = nextFrame + 1
        BY <4>1
      <4>3. queue'[c][i] = queue[c][i] /\ queue[c][i].id \in Nat
        BY <2>1, <3>1
      <4>4. queue[c][i].id <= nextFrame
        BY <2>4, <3>1, <4>3 DEF InOrder
      <4>5. QED BY <1>1, <4>1, <4>2, <4>3, <4>4
    <3>4. QED BY <2>2, <3>2, <3>3
  <2>5. QED BY <1>1, <2>3, <2>4 DEF InOrder
<1>5. QED BY <1>2, <1>3, <1>4, PutCases

(* Every action keeps the order of every stream.                             *)
LEMMA InOrderStep ==
  ASSUME TypeOK, TypeOK', [Next]_managerVars, NEW c \in Streams, InOrder(c)
  PROVE  InOrder(c)'
<1>1. nextFrame \in Nat /\ lastYield[c] \in Nat /\ queue[c] \in Seq(Frame)
  BY DEF TypeOK
<1>2. ASSUME NEW d \in Streams, Connect(d) \/ GenStart(d) \/ GenYieldResync(d) PROVE InOrder(c)'
  <2>1. UNCHANGED <<queue, nextFrame, lastYield>>
    BY <1>2 DEF Connect, GenStart, GenYieldResync
  <2>2. QED BY <1>1, <2>1, OrderKept
<1>3. ASSUME NEW d \in Streams, GenYieldFrame(d) \/ GenTakeOverflow(d) PROVE InOrder(c)'
  <2>1. CASE c = d
    <3>1. /\ queue[c] # <<>> /\ queue'[c] = Tail(queue[c]) /\ UNCHANGED nextFrame
          /\ \/ Head(queue[c]).kind = "event" /\ lastYield'[c] = Head(queue[c]).id
             \/ lastYield'[c] = lastYield[c]
      BY <1>3, <2>1 DEF GenYieldFrame, GenTakeOverflow, TypeOK
    <3>2. /\ Head(queue[c]) = queue[c][1] /\ Len(queue[c]) \in Nat \ {0}
          /\ Len(queue'[c]) = Len(queue[c]) - 1
          /\ \A i \in 1..Len(queue'[c]) : i + 1 \in 1..Len(queue[c]) /\ queue'[c][i] = queue[c][i + 1]
      BY <1>1, <3>1, TailFacts
    <3>3. \A i \in 1..Len(queue[c]) : queue[c][i].id \in Nat
      BY <1>1, QueueIds
    <3>4. lastYield'[c] <= nextFrame'
      BY <1>1, <3>1, <3>2 DEF InOrder
    <3>5. ASSUME NEW i \in 1..Len(queue'[c]), queue'[c][i].kind = "event"
          PROVE  lastYield'[c] < queue'[c][i].id /\ queue'[c][i].id <= nextFrame'
      <4>1. i + 1 \in 1..Len(queue[c]) /\ queue'[c][i] = queue[c][i + 1] /\ 1 < i + 1
        BY <3>2
      <4>2. QED BY <1>1, <3>1, <3>2, <3>3, <3>5, <4>1 DEF InOrder
    <3>6. ASSUME NEW i \in 1..Len(queue'[c]), NEW j \in 1..Len(queue'[c]), i < j,
                 queue'[c][i].kind = "event", queue'[c][j].kind = "event"
          PROVE  queue'[c][i].id < queue'[c][j].id
      <4>1. i + 1 \in 1..Len(queue[c]) /\ j + 1 \in 1..Len(queue[c]) /\ i + 1 < j + 1
        BY <3>2, <3>6
      <4>2. QED BY <3>2, <3>6, <4>1 DEF InOrder
    <3>7. QED BY <3>4, <3>5, <3>6 DEF InOrder
  <2>2. CASE c # d
    <3>1. queue'[c] = queue[c] /\ lastYield'[c] = lastYield[c] /\ UNCHANGED nextFrame
      BY <1>3, <2>2 DEF GenYieldFrame, GenTakeOverflow, TypeOK
    <3>2. QED BY <1>1, <3>1, OrderKept
  <2>3. QED BY <2>1, <2>2
<1>4. ASSUME NEW d \in Streams, GenTakeRevoked(d) \/ GenEnd(d) PROVE InOrder(c)'
  <2>1. /\ queue'[c] = queue[c] \/ queue'[c] = <<>>
        /\ lastYield'[c] = lastYield[c] \/ lastYield'[c] = 0
        /\ UNCHANGED nextFrame
    BY <1>4 DEF GenTakeRevoked, GenEnd, Close, TypeOK
  <2>2. QED BY <1>1, <2>1, OrderKept
<1>5. ASSUME NEW userIds \in SUBSET Users, NEW actor \in Users, Broadcast(userIds, actor)
      PROVE  InOrder(c)'
  <2> DEFINE to == {x \in registered : Eligible(x, userIds, actor)}
  <2>1. /\ to \in SUBSET Streams /\ EventFrame(nextFrame + 1) \in Frame
        /\ EventFrame(nextFrame + 1).id = nextFrame + 1
    BY DEF TypeOK, EventFrame, Frame
  <2>2. /\ Put(to, EventFrame(nextFrame + 1)) /\ UNCHANGED lastYield
        /\ nextFrame' = nextFrame + 1
    BY <1>5 DEF Broadcast
  <2> HIDE DEF to
  <2>3. QED BY <2>1, <2>2, PutInOrder
<1>6. ASSUME DeliverToAll PROVE InOrder(c)'
  <2>1. registered \in SUBSET Streams /\ ResyncFrame \in Frame /\ ResyncFrame.kind # "event"
    BY DEF TypeOK, ResyncFrame, Frame
  <2>2. QED BY <1>6, <2>1, PutInOrder DEF DeliverToAll
<1>7. ASSUME NEW s \in Sessions, DisconnectSession(s) PROVE InOrder(c)'
  <2>1. /\ queue'[c] = queue[c] \/ queue'[c] = <<REVOKED_SENTINEL>>
        /\ UNCHANGED <<nextFrame, lastYield>>
    BY <1>7 DEF DisconnectSession, TypeOK
  <2>2. queue'[c] = queue[c] \/ \A i \in 1..Len(queue'[c]) : queue'[c][i].kind # "event"
    BY <2>1 DEF REVOKED_SENTINEL
  <2>3. QED BY <1>1, <2>1, <2>2, OrderKept
<1>8. CASE UNCHANGED managerVars
  BY <1>1, <1>8, OrderKept DEF managerVars
<1>9. QED
  BY <1>2, <1>3, <1>4, <1>5, <1>6, <1>7, <1>8 DEF Next, GenStep

(* Frames reach every stream in broadcast order, whatever overflows, resyncs *)
(* and reconnects happen in between.                                         *)
THEOREM FramesStayInOrder == Spec => []DeliveredInOrder
<1> DEFINE Ordered == \A c \in Streams : InOrder(c)
<1>1. Init => Ordered
  BY DEF Init, InOrder
<1>2. TypeOK /\ TypeOK' /\ Ordered /\ [Next]_managerVars => Ordered'
  BY InOrderStep
<1>3. TypeOK /\ Ordered => DeliveredInOrder
  <2>1. ASSUME TypeOK, Ordered, NEW c \in Streams, NEW i \in 1..Len(queue[c]),
               queue[c][i].kind = "event"
        PROVE  queue[c][i].id > lastYield[c]
    <3>1. queue[c][i].id \in Nat /\ lastYield[c] \in Nat
      BY <2>1, QueueIds DEF TypeOK
    <3>2. QED BY <2>1, <3>1 DEF InOrder
  <2>2. QED BY <2>1 DEF DeliveredInOrder, InOrder
<1> HIDE DEF Ordered
<1>4. QED BY <1>1, <1>2, <1>3, TypeCorrect, PTL DEF Spec

-----------------------------------------------------------------------------
(* The types of the records.                                                 *)
WriterStates == [pc : {"idle", "flushed", "committed"}, id : Nat]
WireFrames == [kind : {"connected", "event", "resync"}, id : Nat, scopes : SUBSET Entities,
               followed : BOOLEAN]
Asking == {"reading", "visible", "scopes", "registering"}
Conns == [pc : Asking \cup {"none", "open"}, mark : Nat, head : Nat, resync : BOOLEAN,
          visible : BOOLEAN, scopes : SUBSET Entities]
Tabs == [es : {"connecting", "requested", "open", "closed"}, slot : SUBSET Streams, mark : Nat,
         lastEventId : Nat, urlMark : Nat, needsResync : BOOLEAN, opened : BOOLEAN,
         resyncDue : BOOLEAN]

DbShape == /\ seq \in 0..MaxEvents /\ log \subseteq 1..seq
           /\ kind \in [1..MaxEvents -> Kinds] /\ access \in BOOLEAN
           /\ writer \in [Writers -> WriterStates]
           /\ frameEvent \in Seq(Nat) /\ Len(frameEvent) = nextFrame
           /\ \A n \in 1..Len(frameEvent) : frameEvent[n] \in log
LinkShape == /\ conn \in [Streams -> Conns]
             /\ wire \in [Streams -> Seq(WireFrames)]
             /\ tab \in Tabs
RecordShape == stale \subseteq log /\ excused \in [Gaps -> SUBSET Nat]

(* Every id a mark, a head or a frame carries is one of the log's, and an     *)
(* event frame carries one.                                                  *)
Ids == log \cup {NoMark}
IdsKnown == /\ {tab.mark, tab.lastEventId, tab.urlMark} \subseteq Ids
            /\ \A c \in Streams : conn[c].head \in Ids
            /\ \A c \in Streams : \A i \in 1..Len(wire[c]) :
                 /\ wire[c][i].id \in Ids
                 /\ wire[c][i].kind = "event" => wire[c][i].id # NoMark

(* An id under way belongs to one transaction and has not been sent.         *)
Writing(w) == writer[w].pc # "idle"
WritersApart ==
  \A w \in Writers : Writing(w) =>
    /\ writer[w].id \in 1..seq
    /\ writer[w].id \in log <=> writer[w].pc = "committed"
    /\ \A n \in 1..Len(frameEvent) : frameEvent[n] # writer[w].id
    /\ \A v \in Writers : v # w /\ Writing(v) => writer[v].id # writer[w].id

(* The handler and the generator of a slot.                                  *)
Handled(c) ==
  /\ conn[c].pc = "open" <=> gen[c] # "closed"
  /\ gen[c] # "closed" => c \in registered
  /\ conn[c].pc \in {"visible", "scopes"} => conn[c].resync
  /\ conn[c].pc = "scopes" /\ ~conn[c].visible => ~access

(* The mark the next request carries is as old as the tab's, if not older.   *)
MarksAgree == /\ tab.urlMark <= tab.mark /\ tab.lastEventId <= tab.mark
              /\ tab.mark # NoMark => tab.urlMark # NoMark \/ tab.lastEventId # NoMark
              /\ tab.es \in {"requested", "open"} => \E c \in Streams : tab.slot = {c}
              /\ tab.es \in {"connecting", "closed"} => tab.slot = {} /\ ~tab.resyncDue

(* The stream the tab is on: before its connected frame, and its wire.       *)
Before(c) == conn[c].pc \in Asking \/ gen[c] = "starting"
HeadRead(c) == Before(c) /\ conn[c].pc # "reading"
AskedRight(c) ==
  /\ Before(c) => tab.es = "requested" /\ wire[c] = <<>>
  /\ conn[c].pc \in Asking => /\ conn[c].mark <= tab.mark
                              /\ tab.mark # NoMark => conn[c].mark # NoMark
  /\ HeadRead(c) => tab.mark <= conn[c].head
WireShape(c) ==
  LET W == wire[c]
  IN /\ tab.es = "requested" /\ gen[c] \in {"looping", "reading_head"} => W # <<>>
     /\ tab.es = "requested" /\ W # <<>> => W[1].kind = "connected" /\ tab.mark <= W[1].id
     /\ tab.es = "open" /\ tab.resyncDue => W # <<>> /\ W[1].kind = "resync"
     /\ \A i \in 1..Len(W) :
          /\ W[i].kind = "connected" =>
               /\ i = 1 /\ tab.es = "requested"
               /\ W[i].followed => Len(W) >= 2 /\ W[2].kind = "resync"
          /\ W[i].kind = "resync" => W[i].id = NoMark \/ W[i].scopes = Entities
SlotInv(c) == Handled(c) /\ (c \in tab.slot => AskedRight(c) /\ WireShape(c))

LinkSound == LinkShape /\ IdsKnown /\ MarksAgree /\ \A c \in Streams : SlotInv(c)

(* What is stale is about the tab's user, and nothing but the unshare once   *)
(* the dashboard is gone.                                                    *)
StaleSeen == \A e \in stale : kind[e] # "foreign" /\ (access \/ kind[e] = "unshare")

-----------------------------------------------------------------------------
(* One stale event that is in no gap.                                        *)
Named(e) == \E r \in Gaps : e \in excused[r]
Unsent(e) == \E w \in Writers : writer[w].pc = "committed" /\ writer[w].id = e
(* It will be recorded as reordered when it is sent.                         *)
Late(e) == Unsent(e) /\ \E n \in 1..Len(frameEvent) : frameEvent[n] > e

(* What makes the tab fetch it: its own frame, or a resync that names it or, *)
(* for an unshare, records it as hidden.                                     *)
Refreshes(scopes, e) == EntityType(kind[e]) \in scopes \/ kind[e] = "unshare"
Clears(f, e) == \/ f.kind = "event" /\ f.id = e
                \/ f.kind = "resync" /\ Refreshes(f.scopes, e)
Cleared(c, e) == \E j \in 1..Len(wire[c]) : Clears(wire[c][j], e)
Owed(c, e) == \E n \in 1..Len(frameEvent) : n \in owed[c] /\ frameEvent[n] = e

(* It was sent after everything older.                                       *)
InTurn(e) == \A n \in 1..Len(frameEvent) :
               frameEvent[n] = e => \A i \in 1..(n - 1) : frameEvent[i] < e

(* The tab's mark does not cover it, unless the resync that follows does.    *)
Unmarked(e) ==
  /\ tab.mark # NoMark
  /\ \/ tab.mark < e
     \/ /\ tab.es = "open" /\ tab.resyncDue
        /\ \A c \in tab.slot : Clears(wire[c][1], e)

(* No frame on the wire takes the mark past it without what clears it.       *)
WireSafe(c, e) ==
  \A i \in 1..Len(wire[c]) :
    /\ wire[c][i].kind = "event" /\ wire[c][i].id > e =>
         \E j \in 1..(i - 1) : Clears(wire[c][j], e)
    /\ wire[c][i].kind = "connected" /\ wire[c][i].id >= e =>
         wire[c][i].followed /\ Clears(wire[c][2], e)

(* The stream delivers it, or what clears it, unless the stream is dead.     *)
Due(c, e) ==
  /\ conn[c].pc = "registering" \/ gen[c] = "starting" =>
       LET resynced == conn[c].resync /\ Refreshes(conn[c].scopes, e)
       IN /\ resynced \/ Unsent(e) \/ Owed(c, e)
          /\ conn[c].head >= e => resynced
  /\ gen[c] \in {"looping", "reading_head"} => Cleared(c, e) \/ Unsent(e) \/ Owed(c, e)

Chased(c, e) == WireSafe(c, e) /\ Due(c, e)
Trail(e) == Unmarked(e) /\ \A c \in tab.slot : Chased(c, e)
Pursued(e) == InTurn(e) /\ (Late(e) \/ Trail(e))

Accounted == \A e \in stale : Named(e) \/ Pursued(e)

Soundly == /\ IInv /\ (\A c \in Streams : InOrder(c))
           /\ DbShape /\ WritersApart /\ LinkSound /\ RecordShape /\ StaleSeen

RInv == Soundly /\ Accounted

-----------------------------------------------------------------------------
(* A bounded set of numbers has a largest one.                               *)
LEMMA NewestExists ==
  ASSUME NEW b \in Nat, NEW S \in SUBSET (0..b), S # {}
  PROVE  \E m \in S : \A n \in S : n <= m
<1> DEFINE Above(x) == {y \in S : y > x}
           Family == {Above(x) : x \in S}
           R == StrictSubsetOrdering(S)
<1>1. IsFiniteSet(S)
  <2>1. 0 \in Int /\ b \in Int
    OBVIOUS
  <2>2. IsFiniteSet(0..b)
    BY <2>1, FS_Interval
  <2>3. QED BY <2>2, FS_Subset
<1>2. IsWellFoundedOn(R, SUBSET S)
  BY <1>1, FS_FiniteSubsetsOfFinite, FS_StrictSubsetOrderingWellFounded, Zenon
<1>3. Family \subseteq SUBSET S /\ Family # {}
  OBVIOUS
<1>4. PICK F \in Family : \A G \in Family : <<G, F>> \notin R
  <2> HIDE DEF Family, R
  <2>1. QED BY <1>2, <1>3, WFMin, Zenon
<1>5. PICK x \in S : F = Above(x)
  OBVIOUS
<1>6. ASSUME NEW y \in S, y > x PROVE FALSE
  <2>1. y \in Above(x) /\ y \notin Above(y)
    BY <1>6
  <2>2. Above(y) \subseteq Above(x)
    <3>1. x \in Int /\ y \in Int /\ \A z \in S : z \in Int
      OBVIOUS
    <3>2. ASSUME NEW z \in S, z > y PROVE z > x
      BY <1>6, <3>1, <3>2
    <3>3. QED BY <3>2
  <2>3. ASSUME NEW A \in SUBSET S, NEW B \in SUBSET S, A \subseteq B, A # B
        PROVE  <<A, B>> \in R
    <3>1. /\ <<A, B>> \in (SUBSET S) \X (SUBSET S)
          /\ <<A, B>>[1] = A /\ <<A, B>>[2] = B
      OBVIOUS
    <3>2. QED BY <2>3, <3>1, Zenon DEF StrictSubsetOrdering
  <2>4. Above(y) \in SUBSET S /\ Above(x) \in SUBSET S /\ Above(y) # Above(x)
    BY <2>1
  <2>5. <<Above(y), Above(x)>> \in R
    <3> HIDE DEF Above, R
    <3>1. QED BY <2>2, <2>3, <2>4
  <2>6. QED BY <1>4, <1>5, <2>5
<1>7. QED BY <1>6

(* current_event_id answers a committed id that none exceeds, or null.       *)
LEMMA HeadIsNewest ==
  ASSUME DbShape
  PROVE  /\ LogHead \in Nat /\ LogHead \in Ids
         /\ \A e \in log : e \in Nat \ {0} /\ e <= LogHead
<1>1. seq \in Nat /\ log \in SUBSET (0..seq) /\ \A e \in log : e \in Nat \ {0}
  BY MaxEventsAssumption DEF DbShape
<1>2. CASE log = {}
  BY <1>2 DEF LogHead, Ids, NoMark
<1>3. CASE log # {}
  <2>1. PICK m \in log : \A n \in log : n <= m
    BY <1>1, <1>3, NewestExists
  <2>2. \E x \in log : \A y \in log : x >= y
    BY <1>1, <2>1
  <2>3. LogHead \in log /\ \A y \in log : LogHead >= y
    BY <1>3, <2>2 DEF LogHead, Max
  <2>4. QED BY <1>1, <2>3 DEF Ids
<1>4. QED BY <1>2, <1>3

(* Every step of the system is a step of the manager or leaves it alone.     *)
LEMMA ManagerStep == [RNext]_vars => [Next]_managerVars
<1> SUFFICES ASSUME [RNext]_vars PROVE [Next]_managerVars
  OBVIOUS
<1>1. ASSUME NEW w \in Writers,
             Rollback(w) \/ Commit(w) \/ \E k \in Kinds : Flush(w, k)
      PROVE  UNCHANGED managerVars
  BY <1>1 DEF Rollback, Commit, Flush
<1>2. ASSUME NEW w \in Writers, Send(w) PROVE Next
  <2>1. {Stranger} \in SUBSET Users /\ {TabUser} \in SUBSET Users /\ Stranger \in Users
    BY TabUserAssumption
  <2>2. Broadcast({Stranger}, Stranger) \/ Broadcast({TabUser}, Stranger)
    BY <1>2 DEF Send
  <2>3. QED BY <2>1, <2>2 DEF Next
<1>3. ASSUME NEW c \in Streams,
             ReadHead(c) \/ ReadVisible(c) \/ ReadScopes(c) \/ ReadOverflowHead(c)
               \/ Request(c) \/ Reject(c) \/ Receive(c)
      PROVE  UNCHANGED managerVars
  BY <1>3 DEF ReadHead, ReadVisible, ReadScopes, ReadOverflowHead, Request, Reject, Receive
<1>4. ASSUME NEW c \in Streams,
             Register(c) \/ Start(c) \/ YieldFrame(c) \/ TakeOverflow(c) \/ YieldResync(c) \/ End(c)
      PROVE  Next
  BY <1>4 DEF Register, Start, YieldFrame, TakeOverflow, YieldResync, End, Next, GenStep
<1>5. ASSUME BrokerResync PROVE Next
  BY <1>5 DEF BrokerResync, Next
<1>6. ASSUME Drop \/ SilentClose \/ Reopen PROVE UNCHANGED managerVars
  BY <1>6 DEF Drop, SilentClose, Reopen
<1>7. CASE UNCHANGED vars
  BY <1>7 DEF vars
<1>8. QED
  BY <1>1, <1>2, <1>3, <1>4, <1>5, <1>6, <1>7 DEF RNext, ServerStep

-----------------------------------------------------------------------------
(* What the gaps record.  An event once named stays so while it is stale,    *)
(* and excused keeps its type.                                               *)
NamesKept == /\ excused' \in [Gaps -> SUBSET Nat]
             /\ \A e \in stale' : Named(e) => Named(e)'

(* A commit names its event unless the tab was opened, holds a mark and has  *)
(* seen nothing newer committed.                                             *)
LEMMA CommitNames ==
  ASSUME RecordShape, NEW w \in Writers, Commit(w), NEW e \in Nat, e = writer[w].id
  PROVE  /\ NamesKept
         /\ e \in stale' /\ ~Named(e)' => tab.opened /\ tab.mark # NoMark /\ \A x \in log : ~(x > e)
<1> DEFINE S(r) == IF \/ r = "first" /\ ~tab.opened
                      \/ r = "unmarked" /\ tab.opened /\ tab.mark = NoMark
                      \/ r = "reordered" /\ \E x \in log : x > e
                   THEN {e} ELSE {}
<1>1. excused' = [r \in Gaps |-> (excused[r] \cup S(r)) \cap stale']
  BY DEF Commit, Excuse
<1>2. \A r \in Gaps : S(r) \in SUBSET Nat
  OBVIOUS
<1>3. /\ excused' \in [Gaps -> SUBSET Nat]
      /\ \A r \in Gaps : excused'[r] = (excused[r] \cup S(r)) \cap stale'
  <2> HIDE DEF S
  <2>1. QED BY <1>1, <1>2 DEF RecordShape
<1>4. NamesKept
  <2> HIDE DEF S
  <2>1. QED BY <1>3 DEF NamesKept, Named
<1>5. ASSUME e \in stale', ~Named(e)' PROVE S("first") \cup S("unmarked") \cup S("reordered") = {}
  <2>1. \A r \in Gaps : e \notin S(r)
    <3> HIDE DEF S
    <3>1. QED BY <1>3, <1>5 DEF Named
  <2>2. QED BY <2>1 DEF Gaps
<1>6. QED BY <1>4, <1>5

(* A send names its event unless the tab's stream is registered or about to  *)
(* read the head, and nothing newer was sent.                                *)
LEMMA SendNames ==
  ASSUME RecordShape, NEW w \in Writers, Send(w), NEW e \in Nat, e = writer[w].id
  PROVE  /\ NamesKept
         /\ e \in stale' /\ ~Named(e)' =>
              ~InWindow /\ \A i \in 1..Len(frameEvent) : ~(frameEvent[i] > e)
<1> DEFINE S(r) == IF \/ r = "window" /\ InWindow
                      \/ r = "reordered" /\ \E i \in 1..Len(frameEvent) : frameEvent[i] > e
                   THEN {e} ELSE {}
<1>1. excused' = [r \in Gaps |-> (excused[r] \cup S(r)) \cap stale']
  BY DEF Send, Excuse
<1>2. \A r \in Gaps : S(r) \in SUBSET Nat
  OBVIOUS
<1>3. /\ excused' \in [Gaps -> SUBSET Nat]
      /\ \A r \in Gaps : excused'[r] = (excused[r] \cup S(r)) \cap stale'
  <2> HIDE DEF S
  <2>1. QED BY <1>1, <1>2 DEF RecordShape
<1>4. NamesKept
  <2> HIDE DEF S
  <2>1. QED BY <1>3 DEF NamesKept, Named
<1>5. ASSUME e \in stale', ~Named(e)' PROVE S("window") \cup S("reordered") = {}
  <2>1. \A r \in Gaps : e \notin S(r)
    <3> HIDE DEF S
    <3>1. QED BY <1>3, <1>5 DEF Named
  <2>2. QED BY <2>1 DEF Gaps
<1>6. QED BY <1>4, <1>5

(* A stream that dies between its connected and resync frames names what the *)
(* tab's mark already covers.                                                *)
LEMMA CutNames ==
  ASSUME RecordShape, stale \subseteq Nat, stale' = stale, ExcuseCut
  PROVE  /\ NamesKept
         /\ \A e \in stale' : ~Named(e)' => ~(tab.resyncDue /\ e <= tab.mark)
<1> DEFINE S(r) == IF r = "cut" /\ tab.resyncDue THEN {e \in stale : e <= tab.mark} ELSE {}
<1>1. excused' = [r \in Gaps |-> (excused[r] \cup S(r)) \cap stale']
  BY DEF ExcuseCut, Excuse
<1>2. \A r \in Gaps : S(r) \in SUBSET Nat
  OBVIOUS
<1>3. /\ excused' \in [Gaps -> SUBSET Nat]
      /\ \A r \in Gaps : excused'[r] = (excused[r] \cup S(r)) \cap stale'
  <2> HIDE DEF S
  <2>1. QED BY <1>1, <1>2 DEF RecordShape
<1>4. NamesKept
  <2> HIDE DEF S
  <2>1. QED BY <1>3 DEF NamesKept, Named
<1>5. ASSUME NEW e \in stale', ~Named(e)' PROVE e \notin S("cut")
  <2> HIDE DEF S
  <2>1. QED BY <1>3, <1>5 DEF Named, Gaps
<1>6. QED BY <1>4, <1>5

(* A resync names the unshares its scopes missed.                            *)
LEMMA ResyncNames ==
  ASSUME RecordShape, stale \subseteq Nat, NEW f, OnResync(f)
  PROVE  /\ NamesKept
         /\ \A e \in stale' : ~Named(e)' => kind[e] # "unshare"
<1> DEFINE S(r) == IF r = "hidden" THEN {e \in stale : kind[e] = "unshare"} ELSE {}
<1>1. excused' = [r \in Gaps |-> (excused[r] \cup S(r)) \cap stale']
  BY DEF OnResync, Excuse
<1>2. \A r \in Gaps : S(r) \in SUBSET Nat
  OBVIOUS
<1>3. /\ excused' \in [Gaps -> SUBSET Nat]
      /\ \A r \in Gaps : excused'[r] = (excused[r] \cup S(r)) \cap stale'
  <2> HIDE DEF S
  <2>1. QED BY <1>1, <1>2 DEF RecordShape
<1>4. NamesKept
  <2> HIDE DEF S
  <2>1. QED BY <1>3 DEF NamesKept, Named
<1>5. ASSUME NEW e \in stale', ~Named(e)' PROVE e \notin S("hidden")
  <2> HIDE DEF S
  <2>1. QED BY <1>3, <1>5 DEF Named, Gaps
<1>7. QED BY <1>4, <1>5 DEF OnResync

(* The other frames, and every other step, name nothing.                     *)
LEMMA NoNames ==
  ASSUME RecordShape,
         \/ excused' = excused
         \/ \E f : OnConnected(f) \/ OnActivity(f)
  PROVE  NamesKept
<1>1. \/ excused' = excused
      \/ excused' = [r \in Gaps |-> (excused[r] \cup {}) \cap stale']
  BY DEF OnConnected, OnActivity, Excuse
<1>2. QED BY <1>1 DEF RecordShape, NamesKept, Named

-----------------------------------------------------------------------------
(* The database.  Only the writers change it.                                *)
LEMMA FlushStep ==
  ASSUME DbShape, WritersApart, NEW w \in Writers, NEW k \in Kinds, Flush(w, k)
  PROVE  /\ DbShape' /\ WritersApart'
         /\ log' = log /\ access' = access /\ frameEvent' = frameEvent
         /\ \A e \in log : kind'[e] = kind[e]
         /\ \A e \in log : Unsent(e)' <=> Unsent(e)
<1>1. /\ seq \in Nat /\ seq < MaxEvents /\ seq' = seq + 1 /\ seq + 1 \in 1..MaxEvents
      /\ writer[w].pc = "idle" /\ MaxEvents \in Nat /\ log' = log /\ access' = access
      /\ frameEvent' = frameEvent /\ nextFrame' = nextFrame
  BY MaxEventsAssumption DEF Flush, DbShape, managerVars
<1>2. kind' \in [1..MaxEvents -> Kinds] /\ \A e \in log : kind'[e] = kind[e]
  BY <1>1 DEF Flush, DbShape
<1>3. PICK q : q = [pc |-> "flushed", id |-> seq + 1]
  OBVIOUS
<1>4. /\ q \in WriterStates /\ q.pc = "flushed" /\ q.id = seq + 1
  BY <1>1, <1>3 DEF WriterStates
<1>5. /\ writer' = [writer EXCEPT ![w] = q] /\ writer'[w] = q
      /\ \A v \in Writers : v # w => writer'[v] = writer[v]
  BY <1>3 DEF Flush, DbShape
<1>6. DbShape'
  BY <1>1, <1>2, <1>4, <1>5 DEF DbShape
<1>7. \A v \in Writers : writer[v].id \in Nat
  BY DEF DbShape, WriterStates
<1>8. WritersApart'
  BY <1>1, <1>4, <1>5, <1>7 DEF WritersApart, Writing, DbShape
<1>9. \A e \in log : Unsent(e)' <=> Unsent(e)
  BY <1>1, <1>4, <1>5 DEF Unsent
<1>10. QED BY <1>1, <1>2, <1>6, <1>8, <1>9

(* A rolled-back id is never committed: the log keeps a hole.                *)
LEMMA RollbackStep ==
  ASSUME DbShape, WritersApart, NEW w \in Writers, Rollback(w)
  PROVE  /\ DbShape' /\ WritersApart'
         /\ UNCHANGED <<log, kind, access, frameEvent>>
         /\ \A e \in log : Unsent(e)' <=> Unsent(e)
<1>1. Idle \in WriterStates /\ Idle.pc = "idle"
  BY DEF Idle, WriterStates
<1>2. /\ UNCHANGED <<log, seq, kind, access, frameEvent, nextFrame>> /\ writer[w].pc = "flushed"
      /\ writer' = [writer EXCEPT ![w] = Idle] /\ writer'[w] = Idle
      /\ \A v \in Writers : v # w => writer'[v] = writer[v]
  BY DEF Rollback, DbShape, managerVars
<1>3. DbShape'
  BY <1>1, <1>2 DEF DbShape
<1>4. WritersApart'
  BY <1>1, <1>2 DEF WritersApart, Writing
<1>5. \A e \in log : Unsent(e)' <=> Unsent(e)
  BY <1>1, <1>2 DEF Unsent
<1>6. QED BY <1>2, <1>3, <1>4, <1>5

(* A commit makes the drawn id part of the log, and leaves it to be sent.    *)
LEMMA CommitStep ==
  ASSUME DbShape, WritersApart, NEW w \in Writers, Commit(w), NEW e \in Nat, e = writer[w].id
  PROVE  /\ DbShape' /\ WritersApart'
         /\ UNCHANGED <<kind, frameEvent>> /\ log' = log \cup {e} /\ e \notin log /\ e \in 1..seq
         /\ \A n \in 1..Len(frameEvent) : frameEvent[n] # e
         /\ Unsent(e)' /\ \A d : Unsent(d) => Unsent(d)'
<1>1. /\ UNCHANGED <<seq, kind, frameEvent, nextFrame>> /\ writer[w].pc = "flushed"
      /\ log' = log \cup {e} /\ access' = (access /\ kind[e] # "unshare")
      /\ writer' = [writer EXCEPT ![w].pc = "committed"]
  BY DEF Commit, managerVars
<1>2. \A v \in Writers : writer[v] \in WriterStates
  BY DEF DbShape
<1>3. /\ writer' \in [Writers -> WriterStates]
      /\ writer'[w].pc = "committed" /\ writer'[w].id = e
      /\ \A v \in Writers : v # w => writer'[v] = writer[v]
  BY <1>1 DEF DbShape, WriterStates
<1>4. /\ e \in 1..seq /\ e \notin log
      /\ \A n \in 1..Len(frameEvent) : frameEvent[n] # e
      /\ \A v \in Writers : v # w /\ Writing(v) => writer[v].id # e
  BY <1>1 DEF WritersApart, Writing
<1>5. DbShape'
  BY <1>1, <1>3, <1>4 DEF DbShape
<1>6. WritersApart'
  <2>1. \A v \in Writers : Writing(v)' => Writing(v) /\ writer'[v].id = writer[v].id
    BY <1>1, <1>3 DEF Writing
  <2>2. ASSUME NEW v \in Writers, v # w, Writing(v)
        PROVE  writer[v].id \in log' <=> writer'[v].pc = "committed"
    BY <1>1, <1>3, <1>4, <2>2 DEF WritersApart
  <2>3. QED BY <1>1, <1>3, <1>4, <2>1, <2>2 DEF WritersApart
<1>7. Unsent(e)' /\ \A d : Unsent(d) => Unsent(d)'
  BY <1>1, <1>3 DEF Unsent
<1>8. QED BY <1>1, <1>4, <1>5, <1>6, <1>7

(* A send appends the event to the frames broadcast so far.                  *)
LEMMA SendStep ==
  ASSUME TypeOK, DbShape, WritersApart, NEW w \in Writers, Send(w), NEW e \in Nat, e = writer[w].id
  PROVE  /\ DbShape' /\ WritersApart'
         /\ UNCHANGED <<log, kind, access>>
         /\ Len(frameEvent) \in Nat /\ Len(frameEvent') = Len(frameEvent) + 1
         /\ frameEvent'[Len(frameEvent) + 1] = e
         /\ \A n \in 1..Len(frameEvent) : frameEvent'[n] = frameEvent[n] /\ frameEvent[n] # e
         /\ \A d : d # e /\ Unsent(d) => Unsent(d)'
<1>1. /\ UNCHANGED <<log, seq, kind, access>> /\ writer[w].pc = "committed"
      /\ frameEvent' = Append(frameEvent, e) /\ writer' = [writer EXCEPT ![w] = Idle]
      /\ nextFrame' = nextFrame + 1
  BY DEF Send, Broadcast
<1>2. Idle \in WriterStates /\ Idle.pc = "idle"
  BY DEF Idle, WriterStates
<1>3. /\ writer' \in [Writers -> WriterStates] /\ writer'[w] = Idle
      /\ \A v \in Writers : v # w => writer'[v] = writer[v]
  BY <1>1, <1>2 DEF DbShape
<1>4. /\ e \in log
      /\ \A n \in 1..Len(frameEvent) : frameEvent[n] # e
      /\ \A v \in Writers : v # w /\ Writing(v) => writer[v].id # e
  BY <1>1 DEF WritersApart, Writing
<1>5. /\ Len(frameEvent) \in Nat /\ frameEvent' \in Seq(Nat)
      /\ Len(frameEvent') = Len(frameEvent) + 1
      /\ frameEvent'[Len(frameEvent) + 1] = e
      /\ \A n \in 1..Len(frameEvent) : frameEvent'[n] = frameEvent[n]
      /\ \A n \in 1..Len(frameEvent') : n \in 1..Len(frameEvent) \/ n = Len(frameEvent) + 1
  BY <1>1 DEF DbShape
<1>6. \A n \in 1..Len(frameEvent') : frameEvent'[n] \in log'
  BY <1>1, <1>4, <1>5 DEF DbShape
<1>7. DbShape'
  BY <1>1, <1>3, <1>5, <1>6 DEF DbShape
<1>8. WritersApart'
  <2>1. \A v \in Writers : Writing(v)' => v # w /\ Writing(v) /\ writer'[v] = writer[v]
    BY <1>2, <1>3 DEF Writing
  <2>2. ASSUME NEW v \in Writers, v # w, Writing(v), NEW n \in 1..Len(frameEvent')
        PROVE  frameEvent'[n] # writer[v].id
    BY <1>4, <1>5, <2>2 DEF WritersApart
  <2>3. QED BY <1>1, <2>1, <2>2 DEF WritersApart
<1>9. \A d : d # e /\ Unsent(d) => Unsent(d)'
  BY <1>3 DEF Unsent
<1>10. QED BY <1>1, <1>4, <1>5, <1>7, <1>8, <1>9

-----------------------------------------------------------------------------
(* The fields of the records, with their types.                              *)
LEMMA ConnFields ==
  ASSUME LinkShape, NEW c \in Streams
  PROVE  /\ conn[c].pc \in Asking \cup {"none", "open"} /\ conn[c].mark \in Nat
         /\ conn[c].head \in Nat /\ conn[c].resync \in BOOLEAN /\ conn[c].visible \in BOOLEAN
         /\ conn[c].scopes \in SUBSET Entities
         /\ wire[c] \in Seq(WireFrames) /\ Len(wire[c]) \in Nat
         /\ \A i \in 1..Len(wire[c]) : wire[c][i] \in WireFrames /\ wire[c][i].id \in Nat
<1>1. conn[c] \in Conns /\ wire[c] \in Seq(WireFrames)
  BY DEF LinkShape
<1>2. \A i \in 1..Len(wire[c]) : wire[c][i] \in WireFrames
  BY <1>1
<1>3. \A f \in WireFrames : f.id \in Nat
  BY DEF WireFrames
<1>4. QED BY <1>1, <1>2, <1>3 DEF Conns

(* Those of the tab.                                                         *)
LEMMA TabFields ==
  ASSUME LinkShape
  PROVE  /\ tab.es \in {"connecting", "requested", "open", "closed"} /\ tab.slot \in SUBSET Streams
         /\ tab.mark \in Nat /\ tab.lastEventId \in Nat /\ tab.urlMark \in Nat
         /\ tab.needsResync \in BOOLEAN /\ tab.opened \in BOOLEAN /\ tab.resyncDue \in BOOLEAN
BY DEF LinkShape, Tabs

(* What is stale was committed.                                              *)
LEMMA StaleIds ==
  ASSUME Soundly
  PROVE  stale \subseteq Nat /\ \A e \in stale : e \in Nat
<1>1. stale \subseteq log /\ log \subseteq 1..seq /\ seq \in 0..MaxEvents
  BY DEF Soundly, RecordShape, DbShape
<1>2. QED BY <1>1, MaxEventsAssumption

(* A slot no step touches keeps what is known of it.                         *)
LEMMA SlotKept ==
  ASSUME NEW d \in Streams, SlotInv(d), UNCHANGED tab,
         conn'[d] = conn[d], gen'[d] = gen[d], wire'[d] = wire[d],
         d \in registered => d \in registered', access' => access
  PROVE  SlotInv(d)'
BY DEF SlotInv, Handled, AskedRight, Before, HeadRead, WireShape

(* It goes on chasing an event, too, which what is sent meanwhile does not   *)
(* disturb.                                                                  *)
LEMMA ChaseKept ==
  ASSUME NEW d \in Streams, NEW e, Chased(d, e),
         conn'[d] = conn[d], gen'[d] = gen[d], wire'[d] = wire[d], owed[d] \subseteq owed'[d],
         kind'[e] = kind[e], Unsent(e) => Unsent(e)' \/ Owed(d, e)',
         \A n \in 1..Len(frameEvent) : n \in 1..Len(frameEvent') /\ frameEvent'[n] = frameEvent[n]
  PROVE  Chased(d, e)'
<1>1. Owed(d, e) => Owed(d, e)'
  BY DEF Owed
<1>2. \A f, scopes : /\ Refreshes(scopes, e)' <=> Refreshes(scopes, e)
                     /\ Clears(f, e)' <=> Clears(f, e)
  BY DEF Refreshes, Clears
<1>3. Cleared(d, e)' <=> Cleared(d, e)
  BY <1>2 DEF Cleared
<1>4. WireSafe(d, e)'
  BY <1>2 DEF Chased, WireSafe
<1>5. Due(d, e)'
  BY <1>1, <1>2, <1>3 DEF Chased, Due
<1>6. QED BY <1>4, <1>5 DEF Chased

(* When the tab and the wires are left alone, the trail follows the slots.   *)
LEMMA TrailKept ==
  ASSUME LinkShape, NEW e, Trail(e), UNCHANGED <<tab, wire>>, kind'[e] = kind[e],
         \A d \in tab.slot : Chased(d, e)'
  PROVE  Trail(e)'
<1>1. \A f : Clears(f, e)' <=> Clears(f, e)
  BY DEF Refreshes, Clears
<1>2. Unmarked(e)'
  BY <1>1 DEF Trail, Unmarked
<1>3. QED BY <1>2 DEF Trail

-----------------------------------------------------------------------------
(* A step of one slot's handler or generator: the other slots and the tab    *)
(* keep what is known of them.                                               *)
LEMMA SlotLink ==
  ASSUME Soundly, NEW c \in Streams, UNCHANGED <<dbVars, tab>>,
         conn' \in [Streams -> Conns], wire' \in [Streams -> Seq(WireFrames)],
         \A d \in Streams \ {c} : /\ conn'[d] = conn[d] /\ wire'[d] = wire[d] /\ gen'[d] = gen[d]
                                  /\ d \in registered => d \in registered',
         conn'[c].head \in Ids,
         \A i \in 1..Len(wire'[c]) :
           wire'[c][i].id \in Ids /\ (wire'[c][i].kind = "event" => wire'[c][i].id # NoMark),
         SlotInv(c)'
  PROVE  LinkSound'
<1>1. LinkSound
  BY DEF Soundly
<1>2. Ids' = Ids
  BY DEF Ids, dbVars
<1>3. LinkShape' /\ MarksAgree'
  BY <1>1 DEF LinkSound, LinkShape, MarksAgree
<1>4. IdsKnown'
  <2>1. \A d \in Streams : conn'[d].head \in Ids
    BY <1>1 DEF LinkSound, IdsKnown
  <2>2. ASSUME NEW d \in Streams, NEW i \in 1..Len(wire'[d])
        PROVE  wire'[d][i].id \in Ids /\ (wire'[d][i].kind = "event" => wire'[d][i].id # NoMark)
    BY <1>1, <2>2 DEF LinkSound, IdsKnown
  <2>3. QED BY <1>1, <1>2, <2>1, <2>2 DEF LinkSound, IdsKnown
<1>5. \A d \in Streams : SlotInv(d)'
  BY <1>1, SlotKept DEF LinkSound, dbVars
<1>6. QED BY <1>3, <1>4, <1>5 DEF LinkSound

(* The trail of an event follows what the moving slot does about it.         *)
LEMMA SlotTrail ==
  ASSUME Soundly, NEW c \in Streams, NEW e, Trail(e), UNCHANGED <<dbVars, tab>>,
         \A d \in Streams \ {c} : /\ conn'[d] = conn[d] /\ wire'[d] = wire[d] /\ gen'[d] = gen[d]
                                  /\ owed'[d] = owed[d],
         c \in tab.slot /\ tab.es = "open" /\ tab.resyncDue => wire'[c][1] = wire[c][1],
         c \in tab.slot /\ Chased(c, e) => Chased(c, e)'
  PROVE  Trail(e)'
<1>1. LinkShape /\ tab.slot \in SUBSET Streams
  BY TabFields DEF Soundly, LinkSound
<1>2. UNCHANGED <<kind, frameEvent, writer>>
  BY DEF dbVars
<1>3. Unsent(e)' <=> Unsent(e)
  BY <1>2 DEF Unsent
<1>4. \A f : Clears(f, e)' <=> Clears(f, e)
  BY <1>2 DEF Refreshes, Clears
<1>5. ASSUME NEW d \in tab.slot PROVE Chased(d, e)'
  <2>1. Chased(d, e)
    BY <1>5 DEF Trail
  <2>2. CASE d = c
    BY <2>1, <2>2, <1>5
  <2>3. CASE d # c
    BY <1>1, <1>2, <1>3, <1>5, <2>1, <2>3, ChaseKept
  <2>4. QED BY <2>2, <2>3
<1>6. Unmarked(e)'
  <2>1. Unmarked(e)
    BY DEF Trail
  <2>2. ASSUME tab.es = "open", tab.resyncDue, NEW d \in tab.slot, Clears(wire[d][1], e)
        PROVE  Clears(wire[d][1], e)'
    <3>1. wire'[d][1] = wire[d][1]
      BY <1>1, <2>2
    <3>2. QED BY <1>2, <2>2, <3>1 DEF Clears, Refreshes
  <2>3. QED BY <2>1, <2>2 DEF Unmarked
<1>7. QED BY <1>5, <1>6 DEF Trail

(* The connect handler's queries leave the wires and the manager alone.      *)
LEMMA HandlerLink ==
  ASSUME Soundly, NEW c \in Streams, NEW r \in Conns, conn' = [conn EXCEPT ![c] = r],
         UNCHANGED <<managerVars, dbVars, wire, tab>>, r.head \in Ids, SlotInv(c)'
  PROVE  LinkSound'
<1>1. LinkShape /\ IdsKnown
  BY DEF Soundly, LinkSound
<1>2. conn' \in [Streams -> Conns] /\ conn'[c] = r /\ \A d \in Streams \ {c} : conn'[d] = conn[d]
  BY <1>1 DEF LinkShape
<1>3. QED BY <1>1, <1>2, SlotLink DEF LinkShape, IdsKnown, managerVars

(* Nor do they touch the trail of an event elsewhere.                        *)
LEMMA HandlerTrail ==
  ASSUME Soundly, NEW c \in Streams, NEW e, Trail(e),
         UNCHANGED <<managerVars, dbVars, wire, tab>>,
         \A d \in Streams \ {c} : conn'[d] = conn[d],
         c \in tab.slot /\ Chased(c, e) => Chased(c, e)'
  PROVE  Trail(e)'
BY SlotTrail DEF managerVars

(* current_event_id is never behind the tab's mark, and ahead of any event   *)
(* the tab still lacks: the resync it decides on covers it.                  *)
LEMMA ReadHeadStep ==
  ASSUME Soundly, NEW c \in Streams, ReadHead(c)
  PROVE  /\ LinkSound'
         /\ \A e \in stale : Trail(e) => Trail(e)'
<1>1. LinkShape /\ IdsKnown /\ DbShape /\ RecordShape /\ SlotInv(c) /\ MarksAgree
  BY DEF Soundly, LinkSound
<1> DEFINE needed == conn[c].mark # NoMark /\ LogHead > conn[c].mark
<1>2. /\ LogHead \in Nat /\ LogHead \in Ids /\ \A e \in log : e \in Nat \ {0} /\ e <= LogHead
  BY <1>1, HeadIsNewest
<1>3. conn[c] \in Conns /\ conn[c].pc = "reading" /\ UNCHANGED <<managerVars, dbVars, wire, tab>>
  BY <1>1 DEF ReadHead, LinkShape
<1>4. PICK r : r = [conn[c] EXCEPT !.head = LogHead, !.resync = needed,
                                   !.pc = IF needed THEN "visible" ELSE "registering"]
  OBVIOUS
<1>5. conn' = [conn EXCEPT ![c] = r]
  BY <1>1, <1>4 DEF ReadHead, LinkShape
<1>6. needed \in BOOLEAN
  OBVIOUS
<1>7. /\ r \in Conns /\ r.head = LogHead /\ r.resync = needed /\ r.mark = conn[c].mark
      /\ r.pc = IF needed THEN "visible" ELSE "registering"
  <2> HIDE DEF needed
  <2>1. QED BY <1>2, <1>3, <1>4, <1>6 DEF Conns, Asking
<1>8. conn'[c] = r /\ \A d \in Streams \ {c} : conn'[d] = conn[d]
  BY <1>1, <1>5 DEF LinkShape
<1>9. gen[c] = "closed"
  BY <1>1, <1>3 DEF SlotInv, Handled
<1>10. tab.mark \in Nat /\ tab.mark <= LogHead /\ conn[c].mark \in Nat
  BY <1>1, <1>2, TabFields, ConnFields DEF IdsKnown, Ids, NoMark
<1>11. SlotInv(c)'
  <2>1. Handled(c)'
    BY <1>1, <1>3, <1>7, <1>8, <1>9 DEF Handled, SlotInv, managerVars
  <2>2. c \in tab.slot => AskedRight(c)'
    BY <1>1, <1>3, <1>7, <1>8, <1>9, <1>10 DEF SlotInv, AskedRight, Before, HeadRead, Asking, managerVars
  <2>3. c \in tab.slot => WireShape(c)'
    BY <1>1, <1>3 DEF SlotInv, WireShape, managerVars
  <2>4. QED BY <1>3, <2>1, <2>2, <2>3 DEF SlotInv
<1>12. LinkSound'
  BY <1>2, <1>3, <1>5, <1>7, <1>11, HandlerLink
<1>13. ASSUME NEW e \in stale, Trail(e), c \in tab.slot, Chased(c, e) PROVE Chased(c, e)'
  <2>1. e \in Nat /\ e <= LogHead
    BY <1>1, <1>2 DEF RecordShape
  <2>2. tab.es = "requested" /\ conn[c].mark <= tab.mark /\ (tab.mark # NoMark => conn[c].mark # NoMark)
    BY <1>1, <1>3, <1>13 DEF SlotInv, AskedRight, Before, Asking
  <2>3. tab.mark # NoMark /\ tab.mark < e
    BY <1>13, <2>2 DEF Trail, Unmarked
  <2>4. needed
    BY <1>2, <1>10, <2>1, <2>2, <2>3
  <2>5. Due(c, e)'
    BY <1>3, <1>7, <1>8, <1>9, <2>4 DEF Due, managerVars
  <2>6. \A f : Clears(f, e)' <=> Clears(f, e)
    BY <1>3 DEF Refreshes, Clears, dbVars
  <2>7. WireSafe(c, e)'
    BY <1>3, <1>13, <2>6 DEF Chased, WireSafe
  <2>8. QED BY <2>5, <2>7 DEF Chased
<1>14. QED BY <1>3, <1>8, <1>12, <1>13, HandlerTrail

(* What the dashboards show the user is read after the head.                 *)
LEMMA ReadVisibleStep ==
  ASSUME Soundly, NEW c \in Streams, ReadVisible(c)
  PROVE  /\ LinkSound'
         /\ \A e \in stale : Trail(e) => Trail(e)'
<1>1. LinkShape /\ IdsKnown /\ DbShape /\ SlotInv(c)
  BY DEF Soundly, LinkSound
<1>2. /\ conn[c] \in Conns /\ conn[c].pc = "visible" /\ access \in BOOLEAN
      /\ UNCHANGED <<managerVars, dbVars, wire, tab>>
  BY <1>1 DEF ReadVisible, LinkShape, DbShape
<1>3. PICK r : r = [conn[c] EXCEPT !.visible = access, !.pc = "scopes"]
  OBVIOUS
<1>4. conn' = [conn EXCEPT ![c] = r]
  BY <1>1, <1>3 DEF ReadVisible, LinkShape
<1>5. /\ r \in Conns /\ r.head = conn[c].head /\ r.resync = conn[c].resync /\ r.visible = access
      /\ r.mark = conn[c].mark /\ r.scopes = conn[c].scopes /\ r.pc = "scopes"
  BY <1>2, <1>3 DEF Conns, Asking
<1>6. conn'[c] = r /\ \A d \in Streams \ {c} : conn'[d] = conn[d]
  BY <1>1, <1>4 DEF LinkShape
<1>7. gen[c] = "closed" /\ conn[c].resync
  BY <1>1, <1>2 DEF SlotInv, Handled
<1>8. SlotInv(c)'
  <2>1. Handled(c)'
    BY <1>1, <1>2, <1>5, <1>6, <1>7 DEF Handled, SlotInv, managerVars, dbVars
  <2>2. c \in tab.slot => AskedRight(c)'
    BY <1>1, <1>2, <1>5, <1>6, <1>7 DEF SlotInv, AskedRight, Before, HeadRead, Asking, managerVars
  <2>3. c \in tab.slot => WireShape(c)'
    BY <1>1, <1>2 DEF SlotInv, WireShape, managerVars
  <2>4. QED BY <1>2, <2>1, <2>2, <2>3 DEF SlotInv
<1>9. LinkSound'
  BY <1>1, <1>2, <1>4, <1>5, <1>8, HandlerLink DEF IdsKnown
<1>10. ASSUME NEW e \in stale, Chased(c, e) PROVE Chased(c, e)'
  <2>1. Due(c, e)'
    BY <1>2, <1>5, <1>6, <1>7 DEF Due, managerVars
  <2>2. \A f : Clears(f, e)' <=> Clears(f, e)
    BY <1>2 DEF Refreshes, Clears, dbVars
  <2>3. WireSafe(c, e)'
    BY <1>2, <1>10, <2>2 DEF Chased, WireSafe
  <2>4. QED BY <2>1, <2>3 DEF Chased
<1>11. QED BY <1>2, <1>6, <1>9, <1>10, HandlerTrail

(* The scopes of a resync name every event the tab lacks, or it is an        *)
(* unshare of a dashboard the tab's user has lost.                           *)
LEMMA ReadScopesStep ==
  ASSUME Soundly, NEW c \in Streams, ReadScopes(c)
  PROVE  /\ LinkSound'
         /\ \A e \in stale : Trail(e) => Trail(e)'
<1>1. LinkShape /\ IdsKnown /\ DbShape /\ RecordShape /\ StaleSeen /\ SlotInv(c)
  BY DEF Soundly, LinkSound
<1>2. /\ conn[c] \in Conns /\ conn[c].pc = "scopes" /\ access \in BOOLEAN
      /\ UNCHANGED <<managerVars, dbVars, wire, tab>>
  BY <1>1 DEF ReadScopes, LinkShape, DbShape
<1> DEFINE found == ChangedSince(conn[c].mark, conn[c].visible)
<1>3. PICK r : r = [conn[c] EXCEPT !.scopes = found, !.pc = "registering"]
  OBVIOUS
<1>4. conn' = [conn EXCEPT ![c] = r]
  BY <1>1, <1>3 DEF ReadScopes, LinkShape
<1>5. found \in SUBSET Entities
  BY DEF ChangedSince, EntityType, Entities
<1>6. /\ r \in Conns /\ r.head = conn[c].head /\ r.resync = conn[c].resync
      /\ r.mark = conn[c].mark /\ r.scopes = found /\ r.pc = "registering"
  <2> HIDE DEF found
  <2>1. QED BY <1>2, <1>3, <1>5 DEF Conns, Asking
<1>7. conn'[c] = r /\ \A d \in Streams \ {c} : conn'[d] = conn[d]
  BY <1>1, <1>4 DEF LinkShape
<1>8. gen[c] = "closed" /\ conn[c].resync /\ (~conn[c].visible => ~access)
  BY <1>1, <1>2 DEF SlotInv, Handled
<1>9. SlotInv(c)'
  <2>1. Handled(c)'
    BY <1>1, <1>2, <1>6, <1>7, <1>8 DEF Handled, SlotInv, managerVars
  <2>2. c \in tab.slot => AskedRight(c)'
    BY <1>1, <1>2, <1>6, <1>7, <1>8 DEF SlotInv, AskedRight, Before, HeadRead, Asking, managerVars
  <2>3. c \in tab.slot => WireShape(c)'
    BY <1>1, <1>2 DEF SlotInv, WireShape, managerVars
  <2>4. QED BY <1>2, <2>1, <2>2, <2>3 DEF SlotInv
<1>10. LinkSound'
  BY <1>1, <1>2, <1>4, <1>6, <1>9, HandlerLink DEF IdsKnown
<1>11. ASSUME NEW e \in stale, Trail(e), c \in tab.slot, Chased(c, e) PROVE Chased(c, e)'
  <2>1. e \in log /\ e \in Nat /\ kind[e] # "foreign" /\ (access \/ kind[e] = "unshare")
    BY <1>1, MaxEventsAssumption DEF RecordShape, DbShape, StaleSeen
  <2>2. tab.es = "requested" /\ conn[c].mark <= tab.mark
    BY <1>1, <1>2, <1>11 DEF SlotInv, AskedRight, Before, Asking
  <2>3. tab.mark \in Nat /\ conn[c].mark \in Nat /\ tab.mark < e
    BY <1>1, <1>11, <2>2, TabFields, ConnFields DEF Trail, Unmarked
  <2>4. e > conn[c].mark
    BY <2>1, <2>2, <2>3
  <2>5. EntityType(kind[e]) \in Entities
    BY DEF EntityType, Entities
  <2>6. Refreshes(found, e)
    <3>1. CASE kind[e] = "unshare"
      BY <3>1 DEF Refreshes
    <3>2. CASE conn[c].visible
      <4>1. e \in {x \in {y \in log : y > conn[c].mark} : conn[c].visible /\ kind[x] # "foreign"}
        BY <2>1, <2>4, <3>2
      <4>2. EntityType(kind[e]) \in found
        BY <2>5, <4>1 DEF ChangedSince
      <4>3. QED BY <4>2 DEF Refreshes
    <3>3. QED BY <1>8, <2>1, <3>1, <3>2
  <2>7. Refreshes(conn[c].scopes, e)'
    BY <1>2, <1>6, <1>7, <2>6 DEF Refreshes, dbVars
  <2>8. Due(c, e)'
    BY <1>2, <1>6, <1>7, <1>8, <2>7 DEF Due, managerVars
  <2>9. \A f : Clears(f, e)' <=> Clears(f, e)
    BY <1>2 DEF Refreshes, Clears, dbVars
  <2>10. WireSafe(c, e)'
    BY <1>2, <1>11, <2>9 DEF Chased, WireSafe
  <2>11. QED BY <2>8, <2>10 DEF Chased
<1>12. QED BY <1>2, <1>7, <1>10, <1>11, HandlerTrail

-----------------------------------------------------------------------------
(* The generator's yields go behind what is on the wire, or nowhere when the *)
(* tab has left the stream.                                                  *)
Emitted(c, frames) ==
  /\ Len(wire'[c]) = Len(wire[c]) + Len(frames)
  /\ \A i \in 1..Len(wire[c]) : i \in 1..Len(wire'[c]) /\ wire'[c][i] = wire[c][i]
  /\ \A i \in 1..Len(frames) : /\ Len(wire[c]) + i \in 1..Len(wire'[c])
                               /\ wire'[c][Len(wire[c]) + i] = frames[i]
  /\ \A i \in 1..Len(wire'[c]) :
       i \in 1..Len(wire[c]) \/ \E k \in 1..Len(frames) : i = Len(wire[c]) + k

(* The frames lie on the wire behind what was there, in their own order. *)
LEMMA EmitStep ==
  ASSUME LinkShape, NEW c \in Streams, NEW frames \in Seq(WireFrames), Emit(c, frames)
  PROVE  /\ wire' \in [Streams -> Seq(WireFrames)]
         /\ \A d \in Streams \ {c} : wire'[d] = wire[d]
         /\ Len(wire[c]) \in Nat /\ Len(frames) \in Nat
         /\ c \notin tab.slot => wire' = wire
         /\ c \in tab.slot => Emitted(c, frames)
<1>1. wire \in [Streams -> Seq(WireFrames)] /\ wire[c] \in Seq(WireFrames) /\ Len(wire[c]) \in Nat
  BY ConnFields DEF LinkShape
<1>2. CASE c \notin tab.slot
  BY <1>1, <1>2 DEF Emit
<1>3. CASE c \in tab.slot
  <2>1. wire' = [wire EXCEPT ![c] = wire[c] \o frames]
    BY <1>3 DEF Emit
  <2>2. wire'[c] = wire[c] \o frames /\ wire[c] \o frames \in Seq(WireFrames)
    BY <1>1, <2>1
  <2>3. \A d \in Streams \ {c} : wire'[d] = wire[d]
    BY <1>1, <2>1
  <2>4. wire' \in [Streams -> Seq(WireFrames)]
    BY <1>1, <2>1, <2>2
  <2>5. /\ Len(wire[c] \o frames) = Len(wire[c]) + Len(frames)
        /\ \A i \in 1..(Len(wire[c]) + Len(frames)) :
             (wire[c] \o frames)[i] = IF i <= Len(wire[c]) THEN wire[c][i] ELSE frames[i - Len(wire[c])]
    BY <1>1
  <2>6. \A i \in 1..Len(wire[c]) : i \in 1..Len(wire'[c]) /\ wire'[c][i] = wire[c][i]
    BY <1>1, <2>2, <2>5
  <2>7. \A i \in 1..Len(frames) : /\ Len(wire[c]) + i \in 1..Len(wire'[c])
                                  /\ wire'[c][Len(wire[c]) + i] = frames[i]
    BY <1>1, <2>2, <2>5
  <2>8. ASSUME NEW i \in 1..Len(wire'[c]), i \notin 1..Len(wire[c])
        PROVE  \E k \in 1..Len(frames) : i = Len(wire[c]) + k
    <3>1. i - Len(wire[c]) \in 1..Len(frames) /\ i = Len(wire[c]) + (i - Len(wire[c]))
      BY <1>1, <2>2, <2>5, <2>8
    <3>2. QED BY <3>1
  <2>9. Emitted(c, frames)
    BY <2>2, <2>5, <2>6, <2>7, <2>8 DEF Emitted
  <2>10. QED BY <1>1, <1>3, <2>3, <2>4, <2>9
<1>4. QED BY <1>2, <1>3

(* One frame.                                                                *)
LEMMA EmitOne ==
  ASSUME LinkShape, NEW c \in Streams, NEW f \in WireFrames, Emit(c, <<f>>)
  PROVE  /\ wire' \in [Streams -> Seq(WireFrames)]
         /\ \A d \in Streams \ {c} : wire'[d] = wire[d]
         /\ Len(wire[c]) \in Nat
         /\ c \notin tab.slot => wire' = wire
         /\ c \in tab.slot =>
              /\ Len(wire'[c]) = Len(wire[c]) + 1
              /\ \A i \in 1..Len(wire[c]) : i \in 1..Len(wire'[c]) /\ wire'[c][i] = wire[c][i]
              /\ wire'[c][Len(wire[c]) + 1] = f
              /\ \A i \in 1..Len(wire'[c]) : i \in 1..Len(wire[c]) \/ i = Len(wire[c]) + 1
<1>1. PICK frames : frames = <<f>>
  OBVIOUS
<1>2. frames \in Seq(WireFrames) /\ Len(frames) = 1 /\ frames[1] = f /\ Emit(c, frames)
  BY <1>1
<1>3. 1 \in 1..Len(frames) /\ \A k \in 1..Len(frames) : k = 1
  BY <1>2
<1>4. /\ wire' \in [Streams -> Seq(WireFrames)]
      /\ \A d \in Streams \ {c} : wire'[d] = wire[d]
      /\ Len(wire[c]) \in Nat
      /\ c \notin tab.slot => wire' = wire
  BY <1>2, EmitStep
<1>5. c \in tab.slot => Emitted(c, frames)
  BY <1>2, EmitStep
<1>6. ASSUME c \in tab.slot
      PROVE  /\ Len(wire'[c]) = Len(wire[c]) + 1
             /\ \A i \in 1..Len(wire[c]) : i \in 1..Len(wire'[c]) /\ wire'[c][i] = wire[c][i]
             /\ wire'[c][Len(wire[c]) + 1] = f
             /\ \A i \in 1..Len(wire'[c]) : i \in 1..Len(wire[c]) \/ i = Len(wire[c]) + 1
  <2>1. Emitted(c, frames)
    BY <1>5, <1>6
  <2>2. /\ Len(wire'[c]) = Len(wire[c]) + 1
        /\ \A i \in 1..Len(wire[c]) : i \in 1..Len(wire'[c]) /\ wire'[c][i] = wire[c][i]
    BY <1>2, <2>1 DEF Emitted
  <2>3. wire'[c][Len(wire[c]) + 1] = f
    BY <1>2, <1>3, <2>1 DEF Emitted
  <2>4. \A i \in 1..Len(wire'[c]) : i \in 1..Len(wire[c]) \/ i = Len(wire[c]) + 1
    BY <1>3, <2>1 DEF Emitted
  <2>5. QED BY <2>2, <2>3, <2>4
<1>7. QED BY <1>4, <1>6

(* What the manager's invariant says of a registered stream whose generator  *)
(* is at its loop: an event at the head of its queue was broadcast, and      *)
(* before everything else the stream is owed.                                *)
LEMMA HeadFirst ==
  ASSUME Soundly, NEW c \in Streams, c \in registered, queue[c] # <<>>,
         Head(queue[c]).kind = "event"
  PROVE  /\ Head(queue[c]).id \in 1..Len(frameEvent)
         /\ \A n \in owed[c] : n \in Nat /\ Head(queue[c]).id <= n
<1>1. /\ TypeOK /\ PendingShape(c) /\ Covered(c) /\ InOrder(c) /\ nextFrame = Len(frameEvent)
  BY DEF Soundly, IInv, StreamInv, DbShape
<1>2. queue[c] \in Seq(Frame) /\ nextFrame \in Nat /\ lastYield[c] \in Nat /\ owed[c] \subseteq Nat
  BY <1>1 DEF TypeOK
<1>3. Head(queue[c]) = queue[c][1] /\ 1 \in 1..Len(queue[c]) /\ Len(queue[c]) \in Nat
  BY <1>2, TailFacts
<1>4. \A i \in 1..Len(queue[c]) : queue[c][i].id \in Nat
  BY <1>2, QueueIds
<1>5. ~resyncPending[c]
  <2>1. ASSUME resyncPending[c] PROVE FALSE
    <3>1. queue[c] = <<OVERFLOW_SENTINEL>>
      BY <1>1, <2>1 DEF PendingShape
    <3>2. Head(queue[c]).kind = "overflow"
      BY <1>3, <3>1 DEF OVERFLOW_SENTINEL
    <3>3. QED BY <3>2
  <2>2. QED BY <2>1
<1>6. ASSUME NEW n \in owed[c] PROVE Head(queue[c]).id <= n
  <2>1. PICK i \in 1..Len(queue[c]) : queue[c][i] = EventFrame(n)
    BY <1>1, <1>5 DEF Covered
  <2>2. queue[c][i].kind = "event" /\ queue[c][i].id = n
    BY <2>1 DEF EventFrame
  <2>3. CASE i = 1
    BY <1>2, <1>3, <2>2, <2>3
  <2>4. CASE i # 1
    <3>1. 1 < i
      BY <1>3, <2>4
    <3>2. queue[c][1].id < queue[c][i].id
      BY <1>1, <1>3, <2>2, <3>1 DEF InOrder
    <3>3. QED BY <1>2, <1>3, <1>4, <2>2, <3>2
  <2>5. QED BY <2>3, <2>4
<1>7. Head(queue[c]).id \in 1..Len(frameEvent)
  BY <1>1, <1>2, <1>3, <1>4 DEF InOrder
<1>8. QED BY <1>2, <1>6, <1>7

(* A running generator yields one more event or resync.                      *)
OneMore(c, f) ==
  /\ Emit(c, <<f>>) /\ UNCHANGED <<dbVars, tab, registered>>
  /\ {gen[c], gen'[c]} \subseteq {"looping", "reading_head"}
  /\ conn' \in [Streams -> Conns] /\ conn'[c].pc = conn[c].pc /\ conn'[c].head \in Ids
  /\ \A d \in Streams \ {c} : conn'[d] = conn[d] /\ gen'[d] = gen[d] /\ owed'[d] = owed[d]
  /\ f \in WireFrames /\ f.id \in Ids
  /\ \/ f.kind = "event" /\ f.id # NoMark
     \/ f.kind = "resync" /\ (f.id = NoMark \/ f.scopes = Entities)

(* The connected frame stays in front, with its resync behind it.            *)
LEMMA OneMoreLink ==
  ASSUME Soundly, NEW c \in Streams, NEW f, OneMore(c, f)
  PROVE  LinkSound'
<1>1. LinkShape /\ IdsKnown /\ SlotInv(c)
  BY DEF Soundly, LinkSound
<1>2. /\ UNCHANGED <<dbVars, tab, registered>>
      /\ conn' \in [Streams -> Conns] /\ conn'[c].pc = conn[c].pc /\ conn'[c].head \in Ids
      /\ gen[c] # "closed" /\ gen[c] # "starting" /\ gen[c] \in {"looping", "reading_head"}
      /\ gen'[c] \in {"looping", "reading_head"}
      /\ \A d \in Streams \ {c} : conn'[d] = conn[d] /\ gen'[d] = gen[d]
      /\ f \in WireFrames /\ f.id \in Ids
      /\ f.kind = "resync" => f.id = NoMark \/ f.scopes = Entities
      /\ f.kind # "connected" /\ (f.kind = "event" => f.id # NoMark)
  BY DEF OneMore
<1>3. f \in WireFrames /\ Emit(c, <<f>>)
  BY DEF OneMore
<1>4. /\ wire' \in [Streams -> Seq(WireFrames)]
      /\ \A d \in Streams \ {c} : wire'[d] = wire[d]
      /\ Len(wire[c]) \in Nat
      /\ c \notin tab.slot => wire' = wire
      /\ c \in tab.slot =>
           /\ Len(wire'[c]) = Len(wire[c]) + 1
           /\ \A i \in 1..Len(wire[c]) : i \in 1..Len(wire'[c]) /\ wire'[c][i] = wire[c][i]
           /\ wire'[c][Len(wire[c]) + 1] = f
           /\ \A i \in 1..Len(wire'[c]) : i \in 1..Len(wire[c]) \/ i = Len(wire[c]) + 1
  BY <1>1, <1>3, EmitOne
<1>5. \A i \in 1..Len(wire'[c]) :
         wire'[c][i].id \in Ids /\ (wire'[c][i].kind = "event" => wire'[c][i].id # NoMark)
  BY <1>1, <1>2, <1>4 DEF IdsKnown
<1>6. Handled(c)'
  BY <1>1, <1>2 DEF SlotInv, Handled, Asking, dbVars
<1>7. ASSUME c \in tab.slot PROVE AskedRight(c)' /\ WireShape(c)'
  <2>1. conn[c].pc = "open" /\ AskedRight(c) /\ WireShape(c)
    BY <1>1, <1>2, <1>7 DEF SlotInv, Handled
  <2>2. ~Before(c)'
    BY <1>2, <2>1 DEF Before, Asking
  <2>3. AskedRight(c)'
    BY <1>2, <2>1, <2>2 DEF AskedRight, HeadRead, Asking
  <2>4. \A i \in 1..Len(wire'[c]) : i \in 1..Len(wire[c]) \/ i = Len(wire[c]) + 1
    BY <1>4, <1>7
  <2>5. 1 \in 1..Len(wire[c]) <=> wire[c] # <<>>
    BY <1>1, ConnFields
  <2>6. wire'[c] # <<>>
    BY <1>4, <1>7
  <2>7. wire[c] # <<>> => wire'[c][1] = wire[c][1]
    BY <1>4, <1>7, <2>5
  <2>8. tab.es = "requested" \/ (tab.es = "open" /\ tab.resyncDue) => wire[c] # <<>>
    BY <1>2, <2>1 DEF WireShape
  <2>9. ASSUME NEW i \in 1..Len(wire'[c])
        PROVE  /\ wire'[c][i].kind = "connected" =>
                    /\ i = 1 /\ tab.es = "requested"
                    /\ wire'[c][i].followed => Len(wire'[c]) >= 2 /\ wire'[c][2].kind = "resync"
               /\ wire'[c][i].kind = "resync" =>
                    wire'[c][i].id = NoMark \/ wire'[c][i].scopes = Entities
    <3>1. CASE i = Len(wire[c]) + 1
      BY <1>2, <1>4, <1>7, <3>1
    <3>2. CASE i \in 1..Len(wire[c])
      <4>1. wire'[c][i] = wire[c][i]
        BY <1>4, <1>7, <3>2
      <4>2. Len(wire[c]) >= 2 => Len(wire'[c]) >= 2 /\ wire'[c][2] = wire[c][2]
        BY <1>4, <1>7
      <4>3. QED BY <2>1, <3>2, <4>1, <4>2 DEF WireShape
    <3>3. QED BY <2>4, <3>1, <3>2
  <2>10. WireShape(c)'
    BY <1>2, <2>1, <2>6, <2>7, <2>8, <2>9 DEF WireShape
  <2>11. QED BY <2>3, <2>10
<1>8. SlotInv(c)'
  BY <1>2, <1>6, <1>7 DEF SlotInv
<1>9. QED BY <1>2, <1>4, <1>5, <1>8, SlotLink

(* It chases an event on: what it yields does not overtake the event, and    *)
(* covers it unless the rest of what is owed does.                           *)
LEMMA OneMoreTrail ==
  ASSUME Soundly, NEW c \in Streams, NEW f, OneMore(c, f), NEW e, Trail(e),
         f.kind = "event" /\ f.id > e => Cleared(c, e),
         Cleared(c, e) \/ Clears(f, e) \/ Unsent(e) \/ Owed(c, e)'
  PROVE  Trail(e)'
<1>1. LinkShape /\ SlotInv(c)
  BY DEF Soundly, LinkSound
<1>2. /\ UNCHANGED <<dbVars, tab, registered, kind, writer>>
      /\ gen[c] # "closed" /\ gen[c] \in {"looping", "reading_head"}
      /\ gen'[c] \in {"looping", "reading_head"}
      /\ \A d \in Streams \ {c} : conn'[d] = conn[d] /\ gen'[d] = gen[d] /\ owed'[d] = owed[d]
      /\ conn'[c].pc = conn[c].pc
      /\ f \in WireFrames /\ f.kind # "connected" /\ Emit(c, <<f>>)
  BY DEF OneMore, dbVars
<1>3. /\ \A d \in Streams \ {c} : wire'[d] = wire[d]
      /\ Len(wire[c]) \in Nat
      /\ c \notin tab.slot => wire' = wire
      /\ c \in tab.slot =>
           /\ Len(wire'[c]) = Len(wire[c]) + 1
           /\ \A i \in 1..Len(wire[c]) : i \in 1..Len(wire'[c]) /\ wire'[c][i] = wire[c][i]
           /\ wire'[c][Len(wire[c]) + 1] = f
           /\ \A i \in 1..Len(wire'[c]) : i \in 1..Len(wire[c]) \/ i = Len(wire[c]) + 1
  BY <1>1, <1>2, EmitOne
<1>4. conn[c].pc = "open" /\ conn'[c].pc = "open"
  BY <1>1, <1>2 DEF SlotInv, Handled
<1>5. \A g : Clears(g, e)' <=> Clears(g, e)
  BY <1>2 DEF Refreshes, Clears
<1>6. Unsent(e)' <=> Unsent(e)
  BY <1>2 DEF Unsent
<1>7. ASSUME c \in tab.slot, Chased(c, e) PROVE Chased(c, e)'
  <2>1. Cleared(c, e) => Cleared(c, e)'
    BY <1>3, <1>5, <1>7 DEF Cleared
  <2>2. Clears(f, e) => Cleared(c, e)'
    <3>1. Len(wire[c]) + 1 \in 1..Len(wire'[c])
      BY <1>3, <1>7
    <3>2. QED BY <1>3, <1>5, <1>7, <3>1 DEF Cleared
  <2>3. Cleared(c, e)' \/ Unsent(e)' \/ Owed(c, e)'
    BY <1>6, <2>1, <2>2
  <2>4. Due(c, e)'
    BY <1>2, <1>4, <2>3 DEF Due
  <2>5. ASSUME NEW i \in 1..Len(wire'[c])
        PROVE  /\ wire'[c][i].kind = "event" /\ wire'[c][i].id > e =>
                    \E j \in 1..(i - 1) : Clears(wire[c][j], e)'
               /\ wire'[c][i].kind = "connected" /\ wire'[c][i].id >= e =>
                    wire'[c][i].followed /\ Clears(wire[c][2], e)'
    <3>1. CASE i = Len(wire[c]) + 1
      <4>1. \A j \in 1..Len(wire[c]) : j \in 1..(i - 1)
        BY <1>3, <3>1
      <4>2. wire'[c][i] = f
        BY <1>3, <1>7, <3>1
      <4>3. ASSUME f.kind = "event", f.id > e PROVE \E j \in 1..(i - 1) : Clears(wire[c][j], e)'
        <5>1. PICK j \in 1..Len(wire[c]) : Clears(wire[c][j], e)
          BY <4>3 DEF Cleared
        <5>2. wire'[c][j] = wire[c][j] /\ j \in 1..(i - 1)
          BY <1>3, <1>7, <4>1
        <5>3. Clears(wire[c][j], e)'
          BY <1>2, <5>1, <5>2 DEF Clears, Refreshes
        <5>4. QED BY <5>2, <5>3
      <4>4. f.kind # "connected"
        BY <1>2
      <4>5. QED BY <4>2, <4>3, <4>4
    <3>2. CASE i \in 1..Len(wire[c])
      <4>1. /\ wire'[c][i] = wire[c][i]
            /\ \A j \in 1..(i - 1) : wire'[c][j] = wire[c][j]
        <5>1. \A j \in 1..Len(wire[c]) : wire'[c][j] = wire[c][j]
          BY <1>3, <1>7
        <5>2. \A j \in 1..(i - 1) : j \in 1..Len(wire[c])
          BY <1>3, <3>2
        <5>3. QED BY <3>2, <5>1, <5>2
      <4>2. ASSUME wire[c][i].kind = "connected", wire[c][i].followed
            PROVE  wire'[c][2] = wire[c][2]
        <5>1. 2 \in 1..Len(wire[c])
          BY <1>1, <1>3, <1>7, <3>2, <4>2 DEF SlotInv, WireShape
        <5>2. QED BY <1>3, <1>7, <5>1
      <4>3. QED BY <1>5, <1>7, <3>2, <4>1, <4>2 DEF Chased, WireSafe
    <3>3. QED BY <1>3, <1>7, <3>1, <3>2
  <2>6. WireSafe(c, e)'
    BY <2>5 DEF WireSafe
  <2>7. QED BY <2>4, <2>6 DEF Chased
<1>8. c \in tab.slot /\ tab.es = "open" /\ tab.resyncDue => wire'[c][1] = wire[c][1]
  <2>1. wire[c] # <<>> => 1 \in 1..Len(wire[c])
    BY <1>1, ConnFields
  <2>2. QED BY <1>1, <1>3, <2>1 DEF SlotInv, WireShape
<1>9. QED BY <1>2, <1>3, <1>7, <1>8, SlotTrail

(* A dequeued event was sent before anything else the stream is owed, and a  *)
(* dequeued resync covers everything.                                        *)
LEMMA YieldFrameStep ==
  ASSUME Soundly, NEW c \in Streams, YieldFrame(c)
  PROVE  /\ LinkSound'
         /\ \A e \in stale : InTurn(e) /\ ~Late(e) /\ Trail(e) => Trail(e)'
<1>1. TypeOK /\ LinkShape /\ IdsKnown /\ SlotInv(c) /\ DbShape /\ RecordShape
  BY DEF Soundly, LinkSound, IInv
<1>2. /\ gen[c] = "looping" /\ queue[c] # <<>> /\ Head(queue[c]).kind \in {"event", "resync"}
      /\ UNCHANGED <<registered, gen, conn, tab, dbVars>> /\ c \in registered
  BY <1>1 DEF YieldFrame, GenYieldFrame, SlotInv, Handled
<1> DEFINE h == Head(queue[c])
<1>3. /\ h.kind = "event" => owed' = [owed EXCEPT ![c] = @ \ {h.id}]
      /\ h.kind = "resync" => owed' = [owed EXCEPT ![c] = {}]
  BY DEF YieldFrame, GenYieldFrame
<1>4. /\ \A d \in Streams \ {c} : owed'[d] = owed[d]
      /\ h.kind = "event" => owed'[c] = owed[c] \ {h.id}
  BY <1>1, <1>2, <1>3 DEF TypeOK
<1>5. h.kind = "event" =>
        /\ h.id \in 1..Len(frameEvent) /\ frameEvent[h.id] \in log
        /\ \A n \in owed[c] : n \in Nat /\ h.id <= n
  BY <1>1, <1>2, HeadFirst DEF DbShape
<1>6. \A e \in log : e \in Nat \ {0}
  BY <1>1, MaxEventsAssumption DEF DbShape
<1>7. PICK f : f = IF h.kind = "event" THEN WireFrame("event", frameEvent[h.id], {})
                   ELSE WireFrame("resync", NoMark, Entities)
  OBVIOUS
<1>8. /\ h.kind = "event" => f.kind = "event" /\ f.id = frameEvent[h.id] /\ f \in WireFrames
      /\ h.kind = "resync" =>
           f.kind = "resync" /\ f.id = NoMark /\ f.scopes = Entities /\ f \in WireFrames
  BY <1>5, <1>6, <1>7 DEF WireFrame, WireFrames, NoMark
<1>9. Emit(c, <<f>>)
  BY <1>7 DEF YieldFrame
<1>10. OneMore(c, f)
  <2>1. conn' \in [Streams -> Conns] /\ conn'[c].pc = conn[c].pc /\ conn'[c].head \in Ids
    BY <1>1, <1>2 DEF LinkShape, IdsKnown
  <2>2. f \in WireFrames /\ f.id \in Ids
        /\ (\/ f.kind = "event" /\ f.id # NoMark
            \/ f.kind = "resync" /\ (f.id = NoMark \/ f.scopes = Entities))
    BY <1>2, <1>5, <1>6, <1>8 DEF Ids, NoMark
  <2>3. QED BY <1>2, <1>4, <1>9, <2>1, <2>2 DEF OneMore
<1>11. ASSUME NEW e \in stale, InTurn(e), ~Late(e), Trail(e) PROVE Trail(e)'
  <2>1. CASE c \notin tab.slot
    <3>1. wire' = wire
      BY <1>9, <2>1 DEF Emit
    <3>2. QED BY <1>2, <1>4, <1>11, <2>1, <3>1, SlotTrail
  <2>2. CASE c \in tab.slot
    <3>1. Chased(c, e) /\ e \in Nat /\ e \in log
      BY <1>1, <1>6, <1>11, <2>2 DEF Trail, RecordShape
    <3>2. Cleared(c, e) \/ Unsent(e) \/ Owed(c, e)
      BY <1>2, <3>1 DEF Chased, Due
    <3>3. CASE h.kind = "resync"
      <4>1. EntityType(kind[e]) \in Entities
        BY DEF EntityType, Entities
      <4>2. Clears(f, e)
        BY <1>8, <3>3, <4>1 DEF Clears, Refreshes
      <4>3. f.kind # "event"
        BY <1>8, <3>3
      <4>4. QED BY <1>10, <1>11, <4>2, <4>3, OneMoreTrail
    <3>4. CASE h.kind = "event"
      <4>1. f.kind = "event" /\ f.id = frameEvent[h.id] /\ h.id \in 1..Len(frameEvent) /\ f.id \in Nat
        BY <1>5, <1>6, <1>8, <3>4
      <4>2. CASE Owed(c, e)
        <5>1. PICK n \in 1..Len(frameEvent) : n \in owed[c] /\ frameEvent[n] = e
          BY <4>2 DEF Owed
        <5>2. h.id <= n
          BY <1>5, <3>4, <5>1
        <5>3. CASE h.id = n
          <6>1. Clears(f, e) /\ ~(f.id > e)
            BY <3>1, <4>1, <5>1, <5>3 DEF Clears
          <6>2. QED BY <1>10, <1>11, <6>1, OneMoreTrail
        <5>4. CASE h.id # n
          <6>1. h.id \in 1..(n - 1)
            BY <4>1, <5>1, <5>2, <5>4
          <6>2. ~(f.id > e)
            BY <1>11, <3>1, <4>1, <5>1, <6>1 DEF InTurn
          <6>3. Owed(c, e)'
            BY <1>2, <1>4, <3>4, <5>1, <5>4 DEF Owed, dbVars
          <6>4. QED BY <1>10, <1>11, <6>2, <6>3, OneMoreTrail
        <5>5. QED BY <5>3, <5>4
      <4>3. CASE Unsent(e)
        <5>1. ~(f.id > e)
          BY <1>11, <4>1, <4>3 DEF Late
        <5>2. QED BY <1>10, <1>11, <4>3, <5>1, OneMoreTrail
      <4>4. CASE Cleared(c, e)
        BY <1>10, <1>11, <4>4, OneMoreTrail
      <4>5. QED BY <3>2, <4>2, <4>3, <4>4
    <3>5. QED BY <1>2, <3>3, <3>4
  <2>3. QED BY <2>1, <2>2
<1>12. QED BY <1>10, <1>11, OneMoreLink

(* The overflow's resync covers everything.                                  *)
LEMMA YieldResyncStep ==
  ASSUME Soundly, NEW c \in Streams, YieldResync(c)
  PROVE  /\ LinkSound'
         /\ \A e \in stale : Trail(e) => Trail(e)'
<1>1. TypeOK /\ LinkShape /\ IdsKnown /\ SlotInv(c)
  BY DEF Soundly, LinkSound, IInv
<1>2. /\ gen[c] = "reading_head" /\ gen' = [gen EXCEPT ![c] = "looping"]
      /\ owed' = [owed EXCEPT ![c] = {}] /\ conn' = [conn EXCEPT ![c].head = NoMark]
      /\ UNCHANGED <<registered, tab, dbVars>>
  BY DEF YieldResync, GenYieldResync
<1>3. /\ gen'[c] = "looping"
      /\ \A d \in Streams \ {c} : gen'[d] = gen[d] /\ owed'[d] = owed[d]
  BY <1>1, <1>2 DEF TypeOK
<1>4. /\ conn' \in [Streams -> Conns] /\ conn'[c].pc = conn[c].pc /\ conn'[c].head = NoMark
      /\ \A d \in Streams \ {c} : conn'[d] = conn[d]
  BY <1>1, <1>2 DEF LinkShape, Conns, NoMark
<1>5. PICK f : f = WireFrame("resync", conn[c].head, Entities)
  OBVIOUS
<1>6. f \in WireFrames /\ f.kind = "resync" /\ f.id = conn[c].head /\ f.scopes = Entities
  BY <1>1, <1>5, ConnFields DEF WireFrame, WireFrames
<1>7. OneMore(c, f)
  <2>1. Emit(c, <<f>>)
    BY <1>5 DEF YieldResync
  <2>2. f.id \in Ids /\ NoMark \in Ids
    BY <1>1, <1>6 DEF IdsKnown, Ids
  <2>3. QED BY <1>2, <1>3, <1>4, <1>6, <2>1, <2>2 DEF OneMore
<1>8. \A e : Clears(f, e)
  BY <1>6 DEF Clears, Refreshes, EntityType, Entities
<1>9. QED BY <1>6, <1>7, <1>8, OneMoreLink, OneMoreTrail

(* The connected frame and the connect-time resync carry what the handler    *)
(* read.                                                                     *)
LEMMA StartStep ==
  ASSUME Soundly, NEW c \in Streams, Start(c)
  PROVE  /\ LinkSound'
         /\ \A e \in stale : Trail(e) => Trail(e)'
<1>1. TypeOK /\ LinkShape /\ IdsKnown /\ SlotInv(c)
  BY DEF Soundly, LinkSound, IInv
<1>2. /\ gen[c] = "starting" /\ gen' = [gen EXCEPT ![c] = "looping"]
      /\ UNCHANGED <<registered, owed, tab, dbVars>> /\ c \in registered /\ conn[c].pc = "open"
  BY <1>1 DEF Start, GenStart, SlotInv, Handled
<1>3. /\ gen'[c] = "looping"
      /\ \A d \in Streams \ {c} : gen'[d] = gen[d]
  BY <1>1, <1>2 DEF TypeOK
<1> DEFINE k == conn[c]
<1>4. k.head \in Nat /\ k.head \in Ids /\ k.resync \in BOOLEAN /\ k.scopes \in SUBSET Entities
  BY <1>1, ConnFields DEF IdsKnown
<1>5. PICK r : r = [NoConn EXCEPT !.pc = "open"]
  OBVIOUS
<1>6. r \in Conns /\ r.pc = "open" /\ r.head = NoMark
  BY <1>5 DEF NoConn, Conns, NoMark, Entities
<1>7. conn' = [conn EXCEPT ![c] = r]
  BY <1>5 DEF Start
<1>8. /\ conn' \in [Streams -> Conns] /\ conn'[c] = r
      /\ \A d \in Streams \ {c} : conn'[d] = conn[d]
  BY <1>1, <1>6, <1>7 DEF LinkShape
<1>9. PICK f : f = Connected(k.head, k.resync)
  OBVIOUS
<1>10. f \in WireFrames /\ f.kind = "connected" /\ f.id = k.head /\ f.followed = k.resync
  <2> HIDE DEF k
  <2>1. PICK b \in BOOLEAN : b = k.resync
    BY <1>4
  <2>2. f = [WireFrame("connected", k.head, {}) EXCEPT !.followed = b]
    BY <1>9, <2>1 DEF Connected
  <2>3. QED BY <1>4, <2>1, <2>2 DEF WireFrame, WireFrames
<1>11. PICK g : g = WireFrame("resync", NoMark, k.scopes)
  OBVIOUS
<1>12. g \in WireFrames /\ g.kind = "resync" /\ g.id = NoMark /\ g.scopes = k.scopes
  <2> HIDE DEF k
  <2>1. QED BY <1>4, <1>11 DEF WireFrame, WireFrames, NoMark
<1>13. PICK frames : frames = <<f>> \o (IF k.resync THEN <<g>> ELSE <<>>)
  OBVIOUS
<1>14. /\ frames \in Seq(WireFrames) /\ frames[1] = f
       /\ IF k.resync THEN Len(frames) = 2 /\ frames[2] = g ELSE Len(frames) = 1
  <2> HIDE DEF k
  <2>1. QED BY <1>4, <1>10, <1>12, <1>13
<1>15. Emit(c, frames)
  BY <1>9, <1>11, <1>13 DEF Start
<1>16. /\ wire' \in [Streams -> Seq(WireFrames)]
       /\ \A d \in Streams \ {c} : wire'[d] = wire[d]
       /\ c \notin tab.slot => wire' = wire
  BY <1>1, <1>14, <1>15, EmitStep
<1>17. ASSUME c \in tab.slot
       PROVE  /\ tab.es = "requested" /\ tab.mark <= k.head
              /\ wire'[c][1] = f /\ wire'[c] # <<>>
              /\ IF k.resync THEN Len(wire'[c]) = 2 /\ wire'[c][2] = g ELSE Len(wire'[c]) = 1
              /\ \A i \in 1..Len(wire'[c]) : i = 1 \/ (i = 2 /\ k.resync)
  <2>1. wire[c] = <<>> /\ tab.es = "requested" /\ tab.mark <= k.head
    BY <1>1, <1>2, <1>17 DEF SlotInv, AskedRight, Before, HeadRead
  <2>2. Len(wire[c]) = 0
    BY <2>1
  <2>3. Len(wire'[c]) = Len(frames) /\ \A i \in 1..Len(frames) : wire'[c][0 + i] = frames[i]
    <3> HIDE DEF k
    <3>1. Emitted(c, frames)
      BY <1>1, <1>14, <1>15, <1>17, EmitStep
    <3>2. Len(frames) \in Nat
      BY <1>14
    <3>3. QED BY <2>2, <3>1, <3>2 DEF Emitted
  <2>4. wire'[c][1] = f /\ (k.resync => wire'[c][2] = g)
    <3> HIDE DEF k
    <3>1. wire'[c][0 + 1] = f /\ (k.resync => wire'[c][0 + 2] = g)
      BY <1>4, <1>14, <2>3
    <3>2. QED BY <3>1
  <2>5. ASSUME NEW i \in 1..Len(wire'[c]) PROVE i = 1 \/ (i = 2 /\ k.resync)
    <3> HIDE DEF k
    <3>1. CASE k.resync
      <4>1. Len(wire'[c]) = 2
        BY <1>14, <2>3, <3>1
      <4>2. i = 1 \/ i = 2
        BY <2>5, <4>1
      <4>3. QED BY <3>1, <4>2
    <3>2. CASE ~k.resync
      <4>1. Len(wire'[c]) = 1
        BY <1>14, <2>3, <3>2
      <4>2. QED BY <2>5, <4>1
    <3>3. QED BY <3>1, <3>2
  <2>6. QED BY <1>4, <1>14, <2>1, <2>3, <2>4, <2>5
<1>18. SlotInv(c)'
  <2>1. Handled(c)'
    BY <1>2, <1>3, <1>6, <1>8 DEF Handled
  <2>2. ASSUME c \in tab.slot PROVE AskedRight(c)' /\ WireShape(c)'
    <3>1. ~Before(c)'
      BY <1>3, <1>6, <1>8 DEF Before, Asking
    <3>2. AskedRight(c)'
      BY <1>6, <1>8, <3>1 DEF AskedRight, HeadRead, Asking
    <3>3. \A i \in 1..Len(wire'[c]) : i = 1 \/ (i = 2 /\ k.resync)
      BY <1>17, <2>2
    <3>4. WireShape(c)'
      <4> HIDE DEF k
      <4>1. QED BY <1>2, <1>4, <1>10, <1>12, <1>17, <2>2, <3>3 DEF WireShape
    <3>5. QED BY <3>2, <3>4
  <2>3. QED BY <1>2, <2>1, <2>2 DEF SlotInv
<1>19. \A i \in 1..Len(wire'[c]) :
         wire'[c][i].id \in Ids /\ (wire'[c][i].kind = "event" => wire'[c][i].id # NoMark)
  <2>1. CASE c \notin tab.slot
    BY <1>1, <1>16, <2>1 DEF IdsKnown
  <2>2. CASE c \in tab.slot
    <3>1. ASSUME NEW i \in 1..Len(wire'[c]) PROVE wire'[c][i] \in {f, g}
      <4> HIDE DEF k
      <4>1. i = 1 \/ (i = 2 /\ k.resync)
        BY <1>17, <2>2
      <4>2. QED BY <1>4, <1>17, <2>2, <4>1
    <3>2. f.id \in Ids /\ g.id \in Ids /\ f.kind # "event" /\ g.kind # "event"
      BY <1>4, <1>10, <1>12 DEF Ids
    <3>3. QED BY <3>1, <3>2
  <2>3. QED BY <2>1, <2>2
<1>20. LinkSound'
  BY <1>2, <1>3, <1>6, <1>8, <1>16, <1>18, <1>19, SlotLink DEF Ids
<1>21. ASSUME NEW e \in stale, Trail(e), c \in tab.slot, Chased(c, e) PROVE Chased(c, e)'
  <2>1. UNCHANGED <<kind, writer, frameEvent, owed>>
    BY <1>2 DEF dbVars
  <2>2. \A x : Clears(x, e)' <=> Clears(x, e)
    BY <2>1 DEF Refreshes, Clears
  <2>3. Unsent(e)' <=> Unsent(e)
    BY <2>1 DEF Unsent
  <2>4. Owed(c, e)' <=> Owed(c, e)
    BY <2>1 DEF Owed
  <2>5. /\ (k.resync /\ Refreshes(k.scopes, e)) \/ Unsent(e) \/ Owed(c, e)
        /\ k.head >= e => k.resync /\ Refreshes(k.scopes, e)
    BY <1>2, <1>21 DEF Chased, Due
  <2>6. ASSUME k.resync, Refreshes(k.scopes, e) PROVE Len(wire'[c]) = 2 /\ Clears(wire[c][2], e)'
    <3>1. Clears(g, e)
      BY <1>12, <2>6 DEF Clears
    <3>2. Len(wire'[c]) = 2 /\ wire'[c][2] = g
      BY <1>17, <1>21, <2>6
    <3>3. QED BY <2>1, <3>1, <3>2 DEF Clears, Refreshes
  <2>7. Cleared(c, e)' \/ Unsent(e)' \/ Owed(c, e)'
    <3>1. CASE k.resync /\ Refreshes(k.scopes, e)
      BY <2>6, <3>1 DEF Cleared
    <3>2. QED BY <2>3, <2>4, <2>5, <3>1
  <2>8. Due(c, e)'
    BY <1>3, <1>6, <1>8, <2>7 DEF Due
  <2>9. WireSafe(c, e)'
    <3>1. ASSUME NEW i \in 1..Len(wire'[c])
          PROVE  /\ wire'[c][i].kind # "event"
                 /\ wire'[c][i].kind = "connected" /\ wire'[c][i].id >= e =>
                      wire'[c][i].followed /\ Clears(wire[c][2], e)'
      <4>1. i = 1 \/ (i = 2 /\ k.resync)
        BY <1>17, <1>21
      <4>2. CASE i = 1
        <5>1. wire'[c][i] = f
          BY <1>17, <1>21, <4>2
        <5>2. QED BY <1>10, <2>5, <2>6, <5>1
      <4>3. CASE i = 2 /\ k.resync
        <5>1. wire'[c][i] = g
          BY <1>17, <1>21, <4>3
        <5>2. QED BY <1>12, <5>1
      <4>4. QED BY <4>1, <4>2, <4>3
    <3>2. QED BY <3>1 DEF WireSafe
  <2>10. QED BY <2>8, <2>9 DEF Chased
<1>22. c \in tab.slot => tab.es # "open"
  BY <1>17
<1>23. QED BY <1>2, <1>3, <1>8, <1>16, <1>20, <1>21, <1>22, SlotTrail

(* Registering a stream, dequeueing an overflow sentinel and reading the head*)
(* it waits for change neither the wire nor what is owed.                    *)
LEMMA QuietStep ==
  ASSUME Soundly, NEW c \in Streams, Register(c) \/ TakeOverflow(c) \/ ReadOverflowHead(c)
  PROVE  /\ LinkSound'
         /\ \A e \in stale : Trail(e) => Trail(e)'
<1>1. TypeOK /\ LinkShape /\ IdsKnown /\ SlotInv(c) /\ DbShape
  BY DEF Soundly, LinkSound, IInv
<1>2. UNCHANGED <<owed, tab, wire, dbVars>>
  BY DEF Register, Connect, TakeOverflow, GenTakeOverflow, ReadOverflowHead, managerVars
<1>3. /\ gen' \in [Streams -> GenStates] /\ registered \subseteq registered'
      /\ \A d \in Streams \ {c} : gen'[d] = gen[d] /\ conn'[d] = conn[d]
      /\ conn' \in [Streams -> Conns]
      /\ conn'[c].mark = conn[c].mark /\ conn'[c].resync = conn[c].resync
      /\ conn'[c].scopes = conn[c].scopes
      /\ \/ /\ conn[c].pc = "registering" /\ conn'[c].pc = "open" /\ conn'[c].head = conn[c].head
            /\ gen'[c] = "starting" /\ c \in registered'
         \/ /\ conn'[c].pc = conn[c].pc /\ conn'[c].head \in Ids /\ registered' = registered
            /\ {gen[c], gen'[c]} \subseteq {"looping", "reading_head"}
  <2>1. CASE Register(c)
    <3>1. /\ conn[c].pc = "registering" /\ conn' = [conn EXCEPT ![c].pc = "open"]
          /\ gen' = [gen EXCEPT ![c] = "starting"] /\ registered' = registered \cup {c}
      BY <2>1 DEF Register, Connect
    <3>2. QED BY <1>1, <3>1 DEF TypeOK, GenStates, LinkShape, Conns
  <2>2. CASE TakeOverflow(c)
    <3>1. /\ gen[c] = "looping" /\ gen' = [gen EXCEPT ![c] = "reading_head"]
          /\ UNCHANGED <<registered, conn>>
      BY <2>2 DEF TakeOverflow, GenTakeOverflow
    <3>2. QED BY <1>1, <3>1 DEF TypeOK, GenStates, LinkShape, IdsKnown
  <2>3. CASE ReadOverflowHead(c)
    <3>1. /\ gen[c] = "reading_head" /\ conn' = [conn EXCEPT ![c].head = LogHead]
          /\ UNCHANGED <<registered, gen>>
      BY <2>3 DEF ReadOverflowHead, managerVars
    <3>2. LogHead \in Nat /\ LogHead \in Ids
      BY <1>1, HeadIsNewest
    <3>3. QED BY <1>1, <3>1, <3>2 DEF TypeOK, LinkShape, Conns
  <2>4. QED BY <2>1, <2>2, <2>3
<1>4. conn'[c].head \in Ids
  BY <1>1, <1>3 DEF IdsKnown
<1>5. SlotInv(c)'
  <2>1. Handled(c)'
    BY <1>1, <1>3 DEF SlotInv, Handled
  <2>2. ASSUME c \in tab.slot PROVE AskedRight(c)' /\ WireShape(c)'
    <3>1. AskedRight(c)'
      BY <1>1, <1>2, <1>3, <2>2 DEF SlotInv, Handled, AskedRight, Before, HeadRead, Asking
    <3>2. WireShape(c)'
      BY <1>1, <1>2, <1>3, <2>2 DEF SlotInv, WireShape
    <3>3. QED BY <3>1, <3>2
  <2>3. QED BY <1>2, <2>1, <2>2 DEF SlotInv
<1>6. LinkSound'
  BY <1>1, <1>2, <1>3, <1>4, <1>5, SlotLink DEF LinkShape, IdsKnown
<1>7. ASSUME NEW e \in stale, Chased(c, e) PROVE Chased(c, e)'
  <2>1. UNCHANGED <<kind, writer, frameEvent, owed, wire>>
    BY <1>2 DEF dbVars
  <2>2. \A s, f : /\ Refreshes(s, e)' <=> Refreshes(s, e)
                  /\ Clears(f, e)' <=> Clears(f, e)
    BY <2>1 DEF Refreshes, Clears
  <2>3. /\ Unsent(e)' <=> Unsent(e)
        /\ Owed(c, e)' <=> Owed(c, e)
        /\ Cleared(c, e)' <=> Cleared(c, e)
    BY <2>1 DEF Unsent, Owed, Cleared, Clears, Refreshes
  <2>4. WireSafe(c, e)'
    BY <1>7, <2>1, <2>2 DEF Chased, WireSafe
  <2>5. Due(c, e)'
    BY <1>1, <1>3, <1>7, <2>2, <2>3 DEF Chased, Due, SlotInv, Handled
  <2>6. QED BY <2>4, <2>5 DEF Chased
<1>8. QED BY <1>2, <1>3, <1>6, <1>7, SlotTrail

(* A stream that ends owes nothing; the reconnect takes over.                *)
LEMMA EndStep ==
  ASSUME Soundly, NEW c \in Streams, End(c)
  PROVE  /\ LinkSound'
         /\ \A e \in stale : Trail(e) => Trail(e)'
<1>1. TypeOK /\ LinkShape /\ IdsKnown /\ SlotInv(c)
  BY DEF Soundly, LinkSound, IInv
<1>2. /\ gen[c] \in Active /\ gen' = [gen EXCEPT ![c] = "closed"]
      /\ registered' = registered \ {c} /\ owed' = [owed EXCEPT ![c] = {}]
      /\ conn' = [conn EXCEPT ![c] = NoConn] /\ UNCHANGED <<tab, wire, dbVars>>
  BY DEF End, GenEnd, Close, Active
<1>3. NoConn \in Conns /\ NoConn.pc = "none" /\ NoConn.head = NoMark
  BY DEF NoConn, Conns, NoMark, Entities
<1>4. /\ gen'[c] = "closed" /\ conn'[c] = NoConn /\ conn' \in [Streams -> Conns]
      /\ \A d \in Streams \ {c} : /\ gen'[d] = gen[d] /\ conn'[d] = conn[d] /\ owed'[d] = owed[d]
                                  /\ d \in registered => d \in registered'
  BY <1>1, <1>2, <1>3 DEF TypeOK, LinkShape
<1>5. conn[c].pc = "open"
  BY <1>1, <1>2 DEF SlotInv, Handled, Active
<1>6. SlotInv(c)'
  <2>1. Handled(c)'
    BY <1>3, <1>4 DEF Handled
  <2>2. AskedRight(c)'
    BY <1>3, <1>4 DEF AskedRight, Before, HeadRead, Asking
  <2>3. ASSUME c \in tab.slot PROVE WireShape(c)'
    BY <1>1, <1>2, <1>4, <2>3 DEF SlotInv, WireShape
  <2>4. QED BY <1>2, <2>1, <2>2, <2>3 DEF SlotInv
<1>7. LinkSound'
  BY <1>1, <1>2, <1>3, <1>4, <1>6, SlotLink DEF LinkShape, IdsKnown, Ids
<1>8. ASSUME NEW e \in stale, Chased(c, e) PROVE Chased(c, e)'
  <2>1. \A f : Clears(f, e)' <=> Clears(f, e)
    BY <1>2 DEF Refreshes, Clears, dbVars
  <2>2. WireSafe(c, e)'
    BY <1>2, <1>8, <2>1 DEF Chased, WireSafe
  <2>3. Due(c, e)'
    BY <1>3, <1>4 DEF Due
  <2>4. QED BY <2>2, <2>3 DEF Chased
<1>9. QED BY <1>2, <1>4, <1>7, <1>8, SlotTrail

(* The broker's resync and a stuttering step change nothing the link knows.  *)
LEMMA BrokerStep ==
  ASSUME Soundly, BrokerResync \/ UNCHANGED vars
  PROVE  /\ LinkSound'
         /\ \A e \in stale : Trail(e) => Trail(e)'
<1>1. UNCHANGED <<registered, gen, owed, conn, wire, tab, dbVars>>
  BY DEF BrokerResync, DeliverToAll, vars, managerVars, dbVars
<1>2. LinkShape /\ LinkSound /\ tab.slot \in SUBSET Streams
  BY TabFields DEF Soundly, LinkSound
<1>3. \A c \in Streams : SlotInv(c)'
  BY <1>1, <1>2, SlotKept DEF LinkSound, dbVars
<1>4. LinkShape' /\ IdsKnown' /\ MarksAgree'
  BY <1>1, <1>2 DEF LinkSound, LinkShape, IdsKnown, Ids, MarksAgree, dbVars
<1>5. ASSUME NEW e \in stale, Trail(e) PROVE Trail(e)'
  <2>1. Unsent(e) => Unsent(e)'
    BY <1>1 DEF Unsent, dbVars
  <2>2. \A c \in tab.slot : Chased(c, e)'
    BY <1>1, <1>2, <1>5, <2>1, ChaseKept DEF Trail, dbVars
  <2>3. QED BY <1>1, <1>2, <1>5, <2>2, TrailKept DEF dbVars
<1>6. QED BY <1>3, <1>4, <1>5 DEF LinkSound

-----------------------------------------------------------------------------
(* The writers leave the tab, the wires and the handlers alone.              *)
WritersOnly == /\ UNCHANGED <<conn, wire, tab, gen, registered>>
               /\ log \subseteq log' /\ (access' => access)

(* So the link stays sound,                                                  *)
LEMMA WriterLink ==
  ASSUME Soundly, WritersOnly
  PROVE  LinkSound'
<1>1. LinkSound /\ LinkShape
  BY DEF Soundly, LinkSound
<1>2. \A c \in Streams : SlotInv(c)'
  BY <1>1, SlotKept DEF LinkSound, WritersOnly
<1>3. LinkShape' /\ MarksAgree'
  BY <1>1 DEF LinkSound, LinkShape, MarksAgree, WritersOnly
<1>4. IdsKnown'
  <2>1. Ids \subseteq Ids'
    BY DEF Ids, WritersOnly
  <2>2. QED BY <1>1, <2>1 DEF LinkSound, IdsKnown, WritersOnly
<1>5. QED BY <1>2, <1>3, <1>4 DEF LinkSound

(* and an event that is on its way stays so.                                 *)
LEMMA WriterPursuit ==
  ASSUME Soundly, WritersOnly, NEW e, Pursued(e), UNCHANGED <<owed, frameEvent>>,
         kind'[e] = kind[e], Unsent(e) => Unsent(e)'
  PROVE  Pursued(e)'
<1>1. LinkShape /\ tab.slot \in SUBSET Streams
  BY TabFields DEF Soundly, LinkSound
<1>2. InTurn(e)' /\ (Late(e) => Late(e)')
  BY DEF Pursued, InTurn, Late
<1>3. ASSUME Trail(e) PROVE Trail(e)'
  <2>1. \A d \in tab.slot : Chased(d, e)'
    BY <1>1, <1>3, ChaseKept DEF Trail, WritersOnly
  <2>2. QED BY <1>1, <1>3, <2>1, TrailKept DEF WritersOnly
<1>4. QED BY <1>2, <1>3 DEF Pursued

(* Drawing and giving up an id.                                              *)
LEMMA FlushKeeps ==
  ASSUME RInv, NEW w \in Writers, Rollback(w) \/ \E k \in Kinds : Flush(w, k)
  PROVE  DbShape' /\ WritersApart' /\ LinkSound' /\ RecordShape' /\ StaleSeen' /\ Accounted'
<1>1. Soundly /\ Accounted /\ DbShape /\ WritersApart /\ RecordShape /\ StaleSeen
  BY DEF RInv, Soundly
<1>2. /\ DbShape' /\ WritersApart' /\ log' = log /\ access' = access /\ frameEvent' = frameEvent
      /\ \A e \in log : kind'[e] = kind[e] /\ (Unsent(e)' <=> Unsent(e))
  BY <1>1, FlushStep, RollbackStep
<1>3. UNCHANGED <<conn, wire, tab, gen, registered, owed, stale, excused>>
  BY DEF Rollback, Flush, managerVars
<1>4. WritersOnly
  BY <1>2, <1>3 DEF WritersOnly
<1>5. RecordShape' /\ StaleSeen'
  BY <1>1, <1>2, <1>3 DEF RecordShape, StaleSeen
<1>6. ASSUME NEW e \in stale PROVE Named(e)' \/ Pursued(e)'
  <2>1. e \in log
    BY <1>1 DEF RecordShape
  <2>2. CASE Named(e)
    BY <1>3, <2>2 DEF Named
  <2>3. CASE Pursued(e)
    BY <1>1, <1>2, <1>3, <1>4, <2>1, <2>3, WriterPursuit
  <2>4. QED BY <1>1, <2>2, <2>3 DEF Accounted
<1>7. QED BY <1>1, <1>2, <1>3, <1>4, <1>5, <1>6, WriterLink DEF Accounted

(* A committed event is unsent, newer than every mark and every frame, or    *)
(* recorded as a gap.                                                        *)
LEMMA CommitKeeps ==
  ASSUME RInv, NEW w \in Writers, Commit(w)
  PROVE  DbShape' /\ WritersApart' /\ LinkSound' /\ RecordShape' /\ StaleSeen' /\ Accounted'
<1>1. /\ Soundly /\ Accounted /\ DbShape /\ WritersApart /\ RecordShape /\ StaleSeen
      /\ LinkSound /\ LinkShape /\ IdsKnown
  BY DEF RInv, Soundly, LinkSound
<1>2. PICK e \in Nat : e = writer[w].id
  BY <1>1 DEF DbShape, WriterStates
<1>3. /\ DbShape' /\ WritersApart'
      /\ UNCHANGED <<kind, frameEvent>> /\ log' = log \cup {e} /\ e \notin log /\ e \in 1..seq
      /\ \A n \in 1..Len(frameEvent) : frameEvent[n] # e
      /\ Unsent(e)' /\ \A d : Unsent(d) => Unsent(d)'
  BY <1>1, <1>2, CommitStep
<1>4. /\ UNCHANGED <<conn, wire, tab, gen, registered, owed>>
      /\ access' = (access /\ kind[e] # "unshare") /\ stale' = StaleAfter(e)
  BY <1>2 DEF Commit, managerVars
<1>5. access \in BOOLEAN /\ \A x \in log : x \in Nat \ {0}
  BY <1>1, MaxEventsAssumption DEF DbShape
<1>6. WritersOnly
  BY <1>3, <1>4, <1>5 DEF WritersOnly
<1>7. /\ NamesKept
      /\ e \in stale' /\ ~Named(e)' => tab.opened /\ tab.mark # NoMark /\ \A x \in log : ~(x > e)
  BY <1>1, <1>2, CommitNames
<1>8. /\ stale' \subseteq stale \cup {e}
      /\ e \in stale' => kind[e] # "foreign" /\ access /\ e \notin stale
  BY <1>1, <1>3, <1>4 DEF StaleAfter, RecordShape
<1>9. RecordShape'
  BY <1>1, <1>3, <1>7, <1>8 DEF RecordShape, NamesKept
<1>10. StaleSeen'
  BY <1>1, <1>3, <1>4, <1>5, <1>8 DEF StaleSeen, StaleAfter
<1>11. ASSUME NEW x \in stale', x \in stale PROVE Named(x)' \/ Pursued(x)'
  <2>1. CASE Named(x)
    BY <1>7, <2>1 DEF NamesKept
  <2>2. CASE Pursued(x)
    BY <1>1, <1>3, <1>4, <1>6, <2>2, WriterPursuit
  <2>3. QED BY <1>1, <1>11, <2>1, <2>2 DEF Accounted
<1>12. ASSUME e \in stale', ~Named(e)' PROVE Pursued(e)'
  <2>1. tab.mark # NoMark /\ \A x \in Ids : x \in Nat /\ x < e
    BY <1>3, <1>5, <1>7, <1>12 DEF Ids, NoMark
  <2>2. InTurn(e)'
    BY <1>3 DEF InTurn
  <2>3. Unmarked(e)'
    BY <1>1, <1>4, <2>1 DEF Unmarked, IdsKnown
  <2>4. ASSUME NEW c \in tab.slot PROVE Chased(c, e)'
    <3>1. c \in Streams
      BY <1>1, TabFields
    <3>2. \A i \in 1..Len(wire[c]) : wire[c][i].id < e /\ wire[c][i].id \in Nat
      BY <1>1, <2>1, <3>1 DEF IdsKnown
    <3>3. WireSafe(c, e)'
      BY <1>4, <3>2 DEF WireSafe
    <3>4. conn[c].head < e /\ conn[c].head \in Nat
      BY <1>1, <2>1, <3>1 DEF IdsKnown
    <3>5. Due(c, e)'
      BY <1>3, <1>4, <3>4 DEF Due
    <3>6. QED BY <3>3, <3>5 DEF Chased
  <2>5. Trail(e)'
    BY <1>4, <2>3, <2>4 DEF Trail
  <2>6. QED BY <2>2, <2>5 DEF Pursued
<1>13. Accounted'
  BY <1>8, <1>11, <1>12 DEF Accounted
<1>14. QED BY <1>1, <1>3, <1>6, <1>9, <1>10, <1>13, WriterLink

(* A sent event is owed to the tab's stream once that is registered; before  *)
(* the head is read the resync will cover it, and in between it is recorded  *)
(* as a gap, as it is when a newer one was sent first.                       *)
LEMMA SendKeeps ==
  ASSUME RInv, NEW w \in Writers, Send(w)
  PROVE  DbShape' /\ WritersApart' /\ LinkSound' /\ RecordShape' /\ StaleSeen' /\ Accounted'
<1>1. /\ Soundly /\ Accounted /\ DbShape /\ WritersApart /\ RecordShape /\ StaleSeen /\ TypeOK
      /\ LinkSound /\ LinkShape
  BY DEF RInv, Soundly, LinkSound, IInv
<1>2. PICK e \in Nat : e = writer[w].id
  BY <1>1 DEF DbShape, WriterStates
<1> DEFINE N == Len(frameEvent)
           audience == IF kind[e] = "foreign" THEN {Stranger} ELSE {TabUser}
<1>3. /\ DbShape' /\ WritersApart' /\ UNCHANGED <<log, kind, access>>
      /\ N \in Nat /\ Len(frameEvent') = N + 1 /\ frameEvent'[N + 1] = e
      /\ \A n \in 1..N : frameEvent'[n] = frameEvent[n] /\ frameEvent[n] # e
      /\ \A d : d # e /\ Unsent(d) => Unsent(d)'
  BY <1>1, <1>2, SendStep
<1>4. /\ UNCHANGED <<conn, wire, tab, stale, gen, registered>>
      /\ owed' = [c \in Streams |->
                    IF c \in {x \in registered : Eligible(x, audience, Stranger)}
                    THEN owed[c] \cup {nextFrame + 1} ELSE owed[c]]
  BY <1>2 DEF Send, Broadcast
<1>5. N = nextFrame /\ \A x \in log : x \in Nat
  BY <1>1, MaxEventsAssumption DEF DbShape
<1>6. WritersOnly
  BY <1>3, <1>4 DEF WritersOnly
<1>7. /\ NamesKept
      /\ e \in stale' /\ ~Named(e)' => ~InWindow /\ \A i \in 1..N : ~(frameEvent[i] > e)
  BY <1>1, <1>2, SendNames
<1>8. RecordShape' /\ StaleSeen'
  BY <1>1, <1>3, <1>4, <1>7 DEF RecordShape, NamesKept, StaleSeen
<1>9. /\ \A n \in 1..N : n \in 1..Len(frameEvent')
      /\ \A n \in 1..Len(frameEvent') : n \in 1..N \/ n = N + 1
      /\ N + 1 \in 1..Len(frameEvent')
  BY <1>3
<1>10. \A c \in Streams : owed[c] \subseteq owed'[c]
  BY <1>4
<1>11. \A n \in 1..N : frameEvent[n] \in Nat
  BY <1>1 DEF DbShape
<1>12. ASSUME NEW x \in stale, ~Named(x)' PROVE Pursued(x)'
  <2>1. Pursued(x) /\ x \in log /\ x \in Nat /\ kind'[x] = kind[x]
    BY <1>1, <1>3, <1>4, <1>5, <1>7, <1>12 DEF NamesKept, Accounted, RecordShape
  <2>2. CASE x # e
    <3>1. InTurn(x)'
      <4>1. ASSUME NEW n \in 1..Len(frameEvent'), frameEvent'[n] = x, NEW i \in 1..(n - 1)
            PROVE  frameEvent'[i] < x
        <5>1. n \in 1..N /\ i \in 1..N
          BY <1>3, <1>9, <2>2, <4>1
        <5>2. QED BY <1>3, <2>1, <4>1, <5>1 DEF Pursued, InTurn
      <4>2. QED BY <4>1 DEF InTurn
    <3>2. CASE Late(x)
      <4>1. Late(x)'
        BY <1>3, <1>9, <2>2, <3>2 DEF Late
      <4>2. QED BY <3>1, <4>1 DEF Pursued
    <3>3. CASE Trail(x)
      <4>1. \A d \in tab.slot : Chased(d, x)'
        BY <1>1, <1>3, <1>4, <1>9, <1>10, <2>1, <2>2, <3>3, TabFields, ChaseKept DEF Trail
      <4>2. Trail(x)'
        BY <1>1, <1>4, <2>1, <3>3, <4>1, TrailKept
      <4>3. QED BY <3>1, <4>2 DEF Pursued
    <3>4. QED BY <2>1, <3>2, <3>3 DEF Pursued
  <2>3. CASE x = e
    <3>1. ~InWindow /\ \A i \in 1..N : frameEvent[i] < e
      BY <1>3, <1>4, <1>7, <1>11, <1>12, <2>3
    <3>2. InTurn(e)'
      <4>1. ASSUME NEW n \in 1..Len(frameEvent'), frameEvent'[n] = e, NEW i \in 1..(n - 1)
            PROVE  frameEvent'[i] < e
        <5>1. n = N + 1 /\ i \in 1..N
          BY <1>3, <1>9, <4>1
        <5>2. QED BY <1>3, <3>1, <5>1
      <4>2. QED BY <4>1 DEF InTurn
    <3>3. Trail(e)
      BY <2>1, <2>3, <3>1, <1>11 DEF Pursued, Late
    <3>4. ASSUME NEW c \in tab.slot PROVE Chased(c, e)'
      <4>1. c \in Streams /\ Chased(c, e) /\ SlotInv(c)
        BY <1>1, <3>3, <3>4, TabFields DEF Trail, LinkSound
      <4>2. conn[c].pc # "registering"
        BY <3>1, <3>4 DEF InWindow
      <4>3. gen[c] # "closed" => Owed(c, e)'
        <5>1. ASSUME gen[c] # "closed" PROVE nextFrame + 1 \in owed'[c]
          <6>1. c \in registered
            BY <4>1, <5>1 DEF SlotInv, Handled
          <6>2. audience = {TabUser}
            BY <1>1, <1>12, <2>3 DEF StaleSeen
          <6>3. Eligible(c, audience, Stranger)
            BY <4>1, <6>2, TabUserAssumption DEF Eligible
          <6>4. QED BY <1>4, <4>1, <6>1, <6>3
        <5>2. QED BY <1>3, <1>5, <1>9, <5>1 DEF Owed
      <4>4. \A f, s : /\ Refreshes(s, e)' <=> Refreshes(s, e)
                      /\ Clears(f, e)' <=> Clears(f, e)
        BY <1>3 DEF Refreshes, Clears
      <4>5. WireSafe(c, e)'
        BY <1>4, <4>1, <4>4 DEF Chased, WireSafe
      <4>6. Due(c, e)'
        BY <1>4, <4>1, <4>2, <4>3, <4>4 DEF Chased, Due
      <4>7. QED BY <4>5, <4>6 DEF Chased
    <3>5. Trail(e)'
      BY <1>1, <1>3, <1>4, <3>3, <3>4, TrailKept
    <3>6. QED BY <2>3, <3>2, <3>5 DEF Pursued
  <2>4. QED BY <2>2, <2>3
<1>13. Accounted'
  BY <1>4, <1>12 DEF Accounted
<1>14. QED BY <1>1, <1>3, <1>6, <1>8, <1>13, WriterLink

-----------------------------------------------------------------------------
(* The tab asks with a mark that is as old as its own, or with none when it  *)
(* has none.                                                                 *)
LEMMA RequestStep ==
  ASSUME Soundly, NEW c \in Streams, Request(c)
  PROVE  /\ LinkSound'
         /\ \A e \in stale : Trail(e) => Trail(e)'
<1>1. LinkShape /\ IdsKnown /\ MarksAgree /\ LinkSound
  BY DEF Soundly, LinkSound
<1>2. /\ tab.es = "connecting" /\ gen[c] = "closed" /\ conn[c].pc = "none"
      /\ tab' = [tab EXCEPT !.es = "requested", !.slot = {c}]
      /\ wire' = [wire EXCEPT ![c] = <<>>] /\ UNCHANGED <<managerVars, dbVars>>
  BY DEF Request
<1>3. /\ tab' \in Tabs /\ tab'.es = "requested" /\ tab'.slot = {c} /\ tab'.mark = tab.mark
      /\ tab'.lastEventId = tab.lastEventId /\ tab'.urlMark = tab.urlMark
  BY <1>1, <1>2 DEF LinkShape, Tabs
<1>4. /\ wire' \in [Streams -> Seq(WireFrames)] /\ wire'[c] = <<>>
      /\ \A d \in Streams \ {c} : wire'[d] = wire[d]
  BY <1>1, <1>2 DEF LinkShape
<1>5. PICK m \in Nat : m = IF tab.urlMark # NoMark THEN tab.urlMark ELSE tab.lastEventId
  BY <1>1, TabFields
<1>6. conn' = [conn EXCEPT ![c].pc = "reading", ![c].mark = m]
  BY <1>5 DEF Request
<1>7. /\ conn' \in [Streams -> Conns] /\ conn'[c].pc = "reading" /\ conn'[c].mark = m
      /\ conn'[c].head = conn[c].head /\ \A d \in Streams \ {c} : conn'[d] = conn[d]
  BY <1>1, <1>6 DEF LinkShape, Conns, Asking
<1>8. m <= tab.mark /\ (tab.mark # NoMark => m # NoMark)
  BY <1>1, <1>5 DEF MarksAgree
<1>9. SlotInv(c)'
  <2>1. Handled(c)'
    BY <1>2, <1>7 DEF Handled, managerVars
  <2>2. AskedRight(c)'
    BY <1>2, <1>3, <1>4, <1>7, <1>8 DEF AskedRight, Before, HeadRead, Asking, managerVars
  <2>3. WireShape(c)'
    BY <1>2, <1>3, <1>4 DEF WireShape, managerVars
  <2>4. QED BY <2>1, <2>2, <2>3 DEF SlotInv
<1>10. ASSUME NEW d \in Streams, d # c PROVE SlotInv(d)'
  BY <1>1, <1>2, <1>3, <1>7, <1>10 DEF LinkSound, SlotInv, Handled, managerVars, dbVars
<1>11. LinkShape' /\ MarksAgree'
  BY <1>1, <1>2, <1>3, <1>4, <1>7 DEF LinkShape, MarksAgree
<1>12. IdsKnown'
  <2>1. Ids' = Ids
    BY <1>2 DEF Ids, dbVars
  <2>2. \A d \in Streams : conn'[d].head = conn[d].head
    BY <1>7
  <2>3. \A d \in Streams : wire'[d] = wire[d] \/ wire'[d] = <<>>
    BY <1>4
  <2>4. QED BY <1>1, <1>3, <2>1, <2>2, <2>3 DEF IdsKnown
<1>13. ASSUME NEW e \in stale, Trail(e) PROVE Trail(e)'
  <2>1. Unmarked(e)'
    BY <1>2, <1>3, <1>13 DEF Trail, Unmarked
  <2>2. Chased(c, e)'
    BY <1>2, <1>4, <1>7 DEF Chased, WireSafe, Due, managerVars
  <2>3. QED BY <1>3, <2>1, <2>2 DEF Trail
<1>14. QED BY <1>9, <1>10, <1>11, <1>12, <1>13 DEF LinkSound

(* A tab that lost its stream, or never got it, keeps its mark.  What the    *)
(* mark covers while the resync was still due falls into the cut gap.        *)
LEMMA LeaveStep ==
  ASSUME Soundly, Drop \/ SilentClose \/ \E c \in Streams : Reject(c)
  PROVE  /\ LinkSound' /\ NamesKept /\ stale' = stale
         /\ \A e \in stale : ~Named(e)' /\ Trail(e) => Trail(e)'
<1>1. LinkShape /\ IdsKnown /\ MarksAgree /\ LinkSound /\ RecordShape /\ TypeOK
  BY DEF Soundly, LinkSound, IInv
<1>2. stale \subseteq Nat
  BY StaleIds
<1>3. PICK to \in {"connecting", "closed"} : tab' = [tab EXCEPT !.es = to, !.slot = {}, !.resyncDue = FALSE]
  BY DEF Drop, SilentClose, Reject, Leave
<1>4. UNCHANGED <<managerVars, dbVars, wire, stale>>
  BY DEF Drop, SilentClose, Reject
<1>5. /\ tab' \in Tabs /\ tab'.es = to /\ tab'.slot = {} /\ tab'.mark = tab.mark
      /\ tab'.lastEventId = tab.lastEventId /\ tab'.urlMark = tab.urlMark /\ ~tab'.resyncDue
  BY <1>1, <1>3 DEF LinkShape, Tabs
<1>6. NoConn \in Conns /\ NoConn.pc = "none" /\ NoConn.head \in Ids
  BY DEF NoConn, Conns, NoMark, Entities, Ids
<1>7. /\ conn' \in [Streams -> Conns]
      /\ \A d \in Streams : \/ conn'[d] = conn[d]
                            \/ conn'[d] = NoConn /\ conn[d].pc = "reading"
  <2>1. conn' = conn \/ \E c \in Streams : conn[c].pc = "reading" /\ conn' = [conn EXCEPT ![c] = NoConn]
    BY DEF Drop, SilentClose, Reject
  <2>2. QED BY <1>1, <1>6, <2>1 DEF LinkShape
<1>8. ASSUME NEW d \in Streams PROVE SlotInv(d)'
  <2>1. Handled(d)'
    BY <1>1, <1>4, <1>6, <1>7 DEF LinkSound, SlotInv, Handled, managerVars, dbVars
  <2>2. QED BY <1>5, <2>1 DEF SlotInv
<1>9. LinkShape' /\ MarksAgree'
  BY <1>1, <1>4, <1>5, <1>7 DEF LinkShape, MarksAgree
<1>10. IdsKnown'
  <2>1. Ids' = Ids
    BY <1>4 DEF Ids, dbVars
  <2>2. QED BY <1>1, <1>4, <1>5, <1>6, <1>7, <2>1 DEF IdsKnown
<1>11. \/ ExcuseCut
       \/ excused' = excused /\ tab.es = "requested"
  <2>1. ASSUME NEW c \in Streams, Reject(c) PROVE excused' = excused /\ tab.es = "requested"
    BY <1>1, <2>1 DEF Reject, LinkSound, SlotInv, AskedRight, Before, Asking
  <2>2. QED BY <2>1 DEF Drop, SilentClose
<1>12. /\ NamesKept
       /\ \A e \in stale : ~Named(e)' => tab.es = "requested" \/ ~(tab.resyncDue /\ e <= tab.mark)
  BY <1>1, <1>2, <1>4, <1>11, CutNames, NoNames
<1>13. ASSUME NEW e \in stale, ~Named(e)', Trail(e) PROVE Trail(e)'
  <2>1. tab.mark # NoMark /\ tab.mark < e
    BY <1>1, <1>2, <1>12, <1>13, TabFields DEF Trail, Unmarked
  <2>2. QED BY <1>5, <2>1 DEF Trail, Unmarked
<1>14. QED BY <1>4, <1>8, <1>9, <1>10, <1>12, <1>13 DEF LinkSound

(* A new EventSource takes the tab's mark along in its URL.                  *)
LEMMA ReopenStep ==
  ASSUME Soundly, Reopen
  PROVE  /\ LinkSound'
         /\ \A e \in stale : Trail(e) => Trail(e)'
<1>1. LinkShape /\ IdsKnown /\ MarksAgree /\ LinkSound
  BY DEF Soundly, LinkSound
<1>2. /\ tab.es = "closed" /\ UNCHANGED <<managerVars, dbVars, conn, wire>>
      /\ tab' = [tab EXCEPT !.es = "connecting", !.needsResync = TRUE,
                            !.urlMark = tab.mark, !.lastEventId = NoMark]
  BY DEF Reopen
<1>3. /\ tab' \in Tabs /\ tab'.es = "connecting" /\ tab'.slot = {} /\ tab'.mark = tab.mark
      /\ tab'.lastEventId = NoMark /\ tab'.urlMark = tab.mark /\ ~tab'.resyncDue
  BY <1>1, <1>2 DEF LinkShape, Tabs, NoMark, MarksAgree
<1>4. \A d \in Streams : SlotInv(d)'
  BY <1>1, <1>2, <1>3 DEF LinkSound, SlotInv, Handled, managerVars, dbVars
<1>5. LinkShape' /\ MarksAgree'
  BY <1>1, <1>2, <1>3, TabFields DEF LinkShape, MarksAgree, NoMark
<1>6. IdsKnown'
  BY <1>1, <1>2, <1>3 DEF IdsKnown, Ids, dbVars
<1>7. ASSUME NEW e \in stale, Trail(e) PROVE Trail(e)'
  BY <1>2, <1>3, <1>7 DEF Trail, Unmarked
<1>8. QED BY <1>4, <1>5, <1>6, <1>7 DEF LinkSound

-----------------------------------------------------------------------------
(* The tab reads the frame in front.                                         *)
Reading(c) == /\ tab.slot = {c} /\ wire[c] # <<>> /\ wire' = [wire EXCEPT ![c] = Tail(@)]
              /\ UNCHANGED <<managerVars, dbVars, conn>>
              /\ tab' \in Tabs /\ tab'.slot = {c} /\ tab'.es = "open"

(* What the tab finds there, the connected frame exactly when it has asked.  *)
LEMMA FrontFrame ==
  ASSUME Soundly, NEW c \in Streams, tab.slot = {c}, wire[c] # <<>>
  PROVE  /\ Head(wire[c]) = wire[c][1] /\ wire[c][1] \in WireFrames
         /\ wire[c][1].id \in Ids /\ wire[c][1].id \in Nat
         /\ wire[c][1].kind = "event" => wire[c][1].id # NoMark
         /\ Len(wire[c]) \in Nat \ {0} /\ Tail(wire[c]) \in Seq(WireFrames)
         /\ Len(Tail(wire[c])) = Len(wire[c]) - 1
         /\ \A i \in 1..Len(Tail(wire[c])) :
              i + 1 \in 1..Len(wire[c]) /\ i + 1 # 1 /\ Tail(wire[c])[i] = wire[c][i + 1]
         /\ SlotInv(c) /\ AskedRight(c) /\ WireShape(c) /\ ~Before(c)
         /\ IF wire[c][1].kind = "connected" THEN tab.es = "requested" ELSE tab.es = "open"
<1>1. LinkShape /\ IdsKnown /\ MarksAgree /\ SlotInv(c) /\ AskedRight(c) /\ WireShape(c)
  BY DEF Soundly, LinkSound, SlotInv
<1>2. wire[c] \in Seq(WireFrames)
  BY <1>1 DEF LinkShape
<1>3. /\ Head(wire[c]) = wire[c][1] /\ Len(wire[c]) \in Nat \ {0} /\ Tail(wire[c]) \in Seq(WireFrames)
      /\ Len(Tail(wire[c])) = Len(wire[c]) - 1 /\ 1 \in 1..Len(wire[c])
      /\ \A i \in 1..Len(Tail(wire[c])) :
           i + 1 \in 1..Len(wire[c]) /\ i + 1 # 1 /\ Tail(wire[c])[i] = wire[c][i + 1]
  BY <1>2
<1>4. /\ wire[c][1] \in WireFrames /\ wire[c][1].id \in Ids /\ wire[c][1].id \in Nat
      /\ wire[c][1].kind = "event" => wire[c][1].id # NoMark
  BY <1>1, <1>3, ConnFields DEF IdsKnown
<1>5. ~Before(c)
  BY <1>1 DEF AskedRight
<1>6. tab.es \in {"requested", "open"}
  <2>1. tab.slot # {}
    OBVIOUS
  <2>2. QED BY <1>1, <2>1, TabFields DEF MarksAgree
<1>7. IF wire[c][1].kind = "connected" THEN tab.es = "requested" ELSE tab.es = "open"
  BY <1>1, <1>3, <1>6 DEF WireShape
<1>8. QED BY <1>1, <1>3, <1>4, <1>5, <1>7

(* The link stays sound when the marks do,                                   *)
LEMMA ReadingLink ==
  ASSUME Soundly, NEW c \in Streams, Reading(c),
         {tab'.mark, tab'.lastEventId, tab'.urlMark} \subseteq Ids,
         tab'.urlMark <= tab'.mark, tab'.lastEventId <= tab'.mark,
         tab'.mark # NoMark => tab'.urlMark # NoMark \/ tab'.lastEventId # NoMark,
         tab'.resyncDue => Len(wire[c]) >= 2 /\ wire[c][2].kind = "resync"
  PROVE  LinkSound'
<1>1. LinkShape /\ IdsKnown /\ LinkSound
  BY DEF Soundly, LinkSound
<1>2. /\ tab.slot = {c} /\ wire[c] # <<>> /\ wire' = [wire EXCEPT ![c] = Tail(@)]
      /\ UNCHANGED <<managerVars, dbVars, conn>>
      /\ tab' \in Tabs /\ tab'.slot = {c} /\ tab'.es = "open"
  BY DEF Reading
<1> DEFINE W == wire[c]
           T == Tail(wire[c])
<1>3. /\ Len(W) \in Nat \ {0} /\ T \in Seq(WireFrames) /\ Len(T) = Len(W) - 1
      /\ \A i \in 1..Len(T) : i + 1 \in 1..Len(W) /\ i + 1 # 1 /\ T[i] = W[i + 1]
      /\ SlotInv(c) /\ AskedRight(c) /\ WireShape(c) /\ ~Before(c)
  BY <1>2, FrontFrame
<1>4. /\ wire' \in [Streams -> Seq(WireFrames)] /\ wire'[c] = T
      /\ \A d \in Streams \ {c} : wire'[d] = wire[d]
  BY <1>1, <1>2, <1>3 DEF LinkShape
<1>5. LinkShape' /\ MarksAgree'
  BY <1>1, <1>2, <1>4 DEF LinkShape, MarksAgree
<1>6. IdsKnown'
  <2>1. Ids' = Ids
    BY <1>2 DEF Ids, dbVars
  <2>2. ASSUME NEW d \in Streams, NEW i \in 1..Len(wire'[d])
        PROVE  wire'[d][i].id \in Ids /\ (wire'[d][i].kind = "event" => wire'[d][i].id # NoMark)
    <3>1. CASE d = c
      <4>1. i + 1 \in 1..Len(wire[c]) /\ wire'[d][i] = wire[c][i + 1]
        BY <1>3, <1>4, <2>2, <3>1
      <4>2. QED BY <1>1, <4>1 DEF IdsKnown
    <3>2. CASE d # c
      BY <1>1, <1>4, <2>2, <3>2 DEF IdsKnown
    <3>3. QED BY <3>1, <3>2
  <2>3. QED BY <1>1, <1>2, <2>1, <2>2 DEF IdsKnown
<1>7. \A d \in Streams : Handled(d)'
  BY <1>1, <1>2 DEF LinkSound, SlotInv, Handled, managerVars, dbVars
<1>8. ~Before(c)' /\ AskedRight(c)'
  BY <1>2, <1>3 DEF Before, AskedRight, HeadRead, managerVars
<1>9. WireShape(c)'
  <2>1. tab'.resyncDue => T # <<>> /\ T[1].kind = "resync"
    <3>1. ASSUME tab'.resyncDue PROVE T # <<>> /\ T[1].kind = "resync"
      <4>1. 1 \in 1..Len(T) /\ wire[c][1 + 1].kind = "resync"
        BY <1>3, <3>1
      <4>2. T # <<>>
        <5> HIDE DEF T
        <5>1. QED BY <4>1
      <4>3. T[1] = wire[c][1 + 1]
        <5> HIDE DEF T
        <5>1. QED BY <1>3, <4>1
      <4>4. QED BY <4>1, <4>2, <4>3
    <3>2. QED BY <3>1
  <2>2. ASSUME NEW i \in 1..Len(T)
        PROVE  /\ T[i].kind # "connected"
               /\ T[i].kind = "resync" => T[i].id = NoMark \/ T[i].scopes = Entities
    BY <1>3, <2>2 DEF WireShape
  <2>3. QED BY <1>2, <1>4, <2>1, <2>2 DEF WireShape
<1>10. QED BY <1>2, <1>5, <1>6, <1>7, <1>8, <1>9 DEF LinkSound, SlotInv

(* and an event the frame does not clear is still chased when the new mark   *)
(* does not cover it.                                                        *)
LEMMA ReadingTrail ==
  ASSUME Soundly, NEW c \in Streams, Reading(c), NEW e, Trail(e), ~Clears(wire[c][1], e),
         tab'.mark # NoMark,
         tab'.mark < e \/ (tab'.resyncDue /\ Len(wire[c]) >= 2 /\ Clears(wire[c][2], e))
  PROVE  Trail(e)'
<1>1. /\ tab.slot = {c} /\ wire[c] # <<>> /\ wire' = [wire EXCEPT ![c] = Tail(@)]
      /\ UNCHANGED <<managerVars, dbVars, conn>>
      /\ tab' \in Tabs /\ tab'.slot = {c} /\ tab'.es = "open"
  BY DEF Reading
<1> DEFINE W == wire[c]
           T == Tail(wire[c])
<1>2. /\ Len(W) \in Nat \ {0} /\ Len(T) = Len(W) - 1
      /\ \A i \in 1..Len(T) : i + 1 \in 1..Len(W) /\ i + 1 # 1 /\ T[i] = W[i + 1]
      /\ SlotInv(c) /\ WireShape(c) /\ ~Before(c)
  BY <1>1, FrontFrame
<1>3. wire'[c] = T
  BY <1>1 DEF Soundly, LinkSound, LinkShape
<1>4. Chased(c, e)
  BY <1>1 DEF Trail
<1>5. \A f, s : /\ Refreshes(s, e)' <=> Refreshes(s, e)
                /\ Clears(f, e)' <=> Clears(f, e)
  BY <1>1 DEF Refreshes, Clears, dbVars
<1>6. \A j \in 1..Len(W) : Clears(W[j], e) => j - 1 \in 1..Len(T) /\ T[j - 1] = W[j]
  <2>1. ASSUME NEW j \in 1..Len(W), Clears(W[j], e) PROVE j - 1 \in 1..Len(T) /\ T[j - 1] = W[j]
    <3>1. j # 1
      BY <2>1
    <3>2. j - 1 \in 1..Len(T) /\ (j - 1) + 1 = j
      BY <1>2, <3>1
    <3>3. T[j - 1] = W[(j - 1) + 1]
      <4> HIDE DEF W, T
      <4>1. QED BY <1>2, <3>2
    <3>4. QED BY <3>2, <3>3
  <2>2. QED BY <2>1
<1>7. Unmarked(e)'
  <2>1. CASE tab'.mark < e
    BY <2>1 DEF Unmarked
  <2>2. CASE tab'.resyncDue /\ Len(W) >= 2 /\ Clears(W[2], e)
    <3>1. 2 \in 1..Len(W)
      BY <1>2, <2>2
    <3>2. 1 \in 1..Len(T) /\ W[1 + 1] = W[2]
      BY <1>2, <2>2
    <3>3. T[1] = W[2]
      <4> HIDE DEF T
      <4>1. QED BY <1>2, <3>2
    <3>4. Clears(wire[c][1], e)'
      BY <1>1, <1>3, <2>2, <3>3 DEF Clears, Refreshes, dbVars
    <3>5. QED BY <1>1, <2>2, <3>4 DEF Unmarked
  <2>3. QED BY <2>1, <2>2
<1>8. WireSafe(c, e)'
  <2>1. ASSUME NEW i \in 1..Len(T), T[i].kind = "event", T[i].id > e
        PROVE  \E j \in 1..(i - 1) : Clears(T[j], e)
    <3>1. i + 1 \in 1..Len(W) /\ T[i] = W[i + 1]
      BY <1>2
    <3>2. PICK j \in 1..((i + 1) - 1) : Clears(W[j], e)
      BY <1>4, <2>1, <3>1 DEF Chased, WireSafe
    <3>3. j \in 1..Len(W) /\ j \in 1..i
      BY <1>2, <3>1
    <3>4. j - 1 \in 1..Len(T) /\ T[j - 1] = W[j]
      BY <1>6, <3>2, <3>3
    <3>5. j - 1 \in 1..(i - 1)
      BY <3>3, <3>4
    <3>6. QED BY <3>2, <3>4, <3>5
  <2>2. \A i \in 1..Len(T) : T[i].kind # "connected"
    BY <1>2 DEF WireShape
  <2>3. QED BY <1>3, <1>5, <2>1, <2>2 DEF WireSafe
<1>9. Due(c, e)'
  <2>1. Cleared(c, e) => Cleared(c, e)'
    BY <1>3, <1>5, <1>6 DEF Cleared
  <2>2. /\ Unsent(e)' <=> Unsent(e)
        /\ Owed(c, e)' <=> Owed(c, e)
    BY <1>1 DEF Unsent, Owed, managerVars, dbVars
  <2>3. conn[c].pc # "registering" /\ gen[c] # "starting"
    BY <1>2 DEF Before, Asking
  <2>4. QED BY <1>1, <1>4, <2>1, <2>2, <2>3 DEF Chased, Due, managerVars
<1>10. QED BY <1>1, <1>7, <1>8, <1>9 DEF Trail, Chased

(* A connected frame primes the mark, past what the following resync covers. *)
LEMMA ConnectedStep ==
  ASSUME Soundly, NEW c \in Streams, tab.slot = {c}, wire[c] # <<>>,
         wire' = [wire EXCEPT ![c] = Tail(@)], UNCHANGED <<managerVars, dbVars, conn>>,
         Head(wire[c]).kind = "connected", OnConnected(Head(wire[c]))
  PROVE  /\ LinkSound' /\ NamesKept /\ stale' \subseteq stale
         /\ \A e \in stale' : Trail(e) => Trail(e)'
<1>1. LinkShape /\ IdsKnown /\ MarksAgree /\ RecordShape /\ WireShape(c)
  BY FrontFrame DEF Soundly, LinkSound
<1>2. \A e \in stale : e \in Nat
  BY StaleIds
<1>3. PICK f : f = Head(wire[c])
  OBVIOUS
<1>4. /\ f = wire[c][1] /\ f \in WireFrames /\ f.id \in Ids /\ f.id \in Nat /\ f.kind = "connected"
      /\ tab.es = "requested" /\ Len(wire[c]) \in Nat \ {0} /\ 1 \in 1..Len(wire[c])
  BY <1>3, FrontFrame
<1>5. f.followed \in BOOLEAN
  BY <1>4 DEF WireFrames
<1>6. PICK b \in BOOLEAN : b = f.followed
  BY <1>5
<1>7. PICK m \in Nat, h \in Nat : /\ m = IF f.id # NoMark THEN f.id ELSE tab.mark
                                  /\ h = IF f.id # NoMark THEN f.id ELSE tab.lastEventId
  BY <1>1, <1>4, TabFields
<1>8. /\ tab' = [tab EXCEPT !.es = "open", !.opened = TRUE, !.needsResync = FALSE,
                            !.mark = m, !.lastEventId = h, !.resyncDue = b]
      /\ stale' \subseteq stale
  BY <1>3, <1>6, <1>7 DEF OnConnected
<1>9. /\ tab' \in Tabs /\ tab'.slot = {c} /\ tab'.es = "open" /\ tab'.mark = m /\ tab'.lastEventId = h
      /\ tab'.urlMark = tab.urlMark /\ tab'.resyncDue = b
  BY <1>1, <1>8 DEF LinkShape, Tabs
<1>10. Reading(c)
  BY <1>9 DEF Reading
<1>11. tab.mark <= f.id /\ (f.followed => Len(wire[c]) >= 2 /\ wire[c][2].kind = "resync")
  BY <1>1, <1>4 DEF WireShape
<1>12. LinkSound'
  <2>1. {m, h, tab.urlMark} \subseteq Ids
    BY <1>1, <1>4, <1>7 DEF IdsKnown
  <2>2. tab.urlMark <= m /\ h <= m /\ (m # NoMark => tab.urlMark # NoMark \/ h # NoMark)
    BY <1>1, <1>4, <1>7, <1>11, TabFields DEF MarksAgree
  <2>3. QED BY <1>6, <1>9, <1>10, <1>11, <2>1, <2>2, ReadingLink
<1>13. NamesKept
  BY <1>1, <1>3, NoNames
<1>14. ASSUME NEW e \in stale', Trail(e) PROVE Trail(e)'
  <2>1. e \in Nat /\ tab.mark # NoMark /\ tab.mark < e /\ WireSafe(c, e)
    BY <1>2, <1>4, <1>8, <1>14 DEF Trail, Unmarked, Chased
  <2>2. ~Clears(wire[c][1], e)
    BY <1>4 DEF Clears
  <2>3. m # NoMark
    BY <1>7, <2>1
  <2>4. m < e \/ (b /\ Len(wire[c]) >= 2 /\ Clears(wire[c][2], e))
    <3>1. CASE f.id >= e
      <4>1. f.followed /\ Clears(wire[c][2], e)
        BY <1>4, <2>1, <3>1 DEF WireSafe
      <4>2. QED BY <1>6, <1>11, <4>1
    <3>2. CASE ~(f.id >= e)
      BY <1>4, <1>7, <2>1, <3>2
    <3>3. QED BY <3>1, <3>2
  <2>5. QED BY <1>9, <1>10, <1>14, <2>2, <2>3, <2>4, ReadingTrail
<1>15. QED BY <1>8, <1>12, <1>13, <1>14

(* An event frame moves the mark up to itself, and everything older that the *)
(* tab lacks was behind nothing newer on the wire.                           *)
LEMMA ActivityStep ==
  ASSUME Soundly, NEW c \in Streams, tab.slot = {c}, wire[c] # <<>>,
         wire' = [wire EXCEPT ![c] = Tail(@)], UNCHANGED <<managerVars, dbVars, conn>>,
         Head(wire[c]).kind = "event", OnActivity(Head(wire[c]))
  PROVE  /\ LinkSound' /\ NamesKept /\ stale' \subseteq stale
         /\ \A e \in stale' : Trail(e) => Trail(e)'
<1>1. LinkShape /\ IdsKnown /\ MarksAgree /\ RecordShape /\ WireShape(c)
  BY FrontFrame DEF Soundly, LinkSound
<1>2. \A e \in stale : e \in Nat
  BY StaleIds
<1>3. PICK f : f = Head(wire[c])
  OBVIOUS
<1>4. /\ f = wire[c][1] /\ f.id \in Ids /\ f.id \in Nat /\ f.id # NoMark /\ f.kind = "event"
      /\ tab.es = "open" /\ Len(wire[c]) \in Nat \ {0} /\ 1 \in 1..Len(wire[c])
  BY <1>3, FrontFrame
<1>5. ~tab.resyncDue
  BY <1>1, <1>4 DEF WireShape
<1>6. PICK m \in Nat : m = Larger(tab.mark, f.id)
  BY <1>1, <1>4, TabFields DEF Larger
<1>7. /\ tab' = [tab EXCEPT !.mark = m, !.lastEventId = f.id]
      /\ stale' = stale \ {f.id}
  BY <1>3, <1>6 DEF OnActivity
<1>8. /\ tab' \in Tabs /\ tab'.slot = {c} /\ tab'.es = "open" /\ tab'.mark = m
      /\ tab'.lastEventId = f.id /\ tab'.urlMark = tab.urlMark /\ ~tab'.resyncDue
  BY <1>1, <1>4, <1>5, <1>7 DEF LinkShape, Tabs
<1>9. Reading(c)
  BY <1>8 DEF Reading
<1>10. LinkSound'
  <2>1. {m, f.id, tab.urlMark} \subseteq Ids
    BY <1>1, <1>4, <1>6 DEF IdsKnown, Larger
  <2>2. tab.urlMark <= m /\ f.id <= m
    BY <1>1, <1>4, <1>6, TabFields DEF MarksAgree, Larger
  <2>3. QED BY <1>4, <1>8, <1>9, <2>1, <2>2, ReadingLink
<1>11. NamesKept
  BY <1>1, <1>3, NoNames
<1>12. ASSUME NEW e \in stale', Trail(e) PROVE Trail(e)'
  <2>1. e \in Nat /\ e # f.id /\ tab.mark # NoMark /\ tab.mark < e /\ WireSafe(c, e)
    BY <1>2, <1>5, <1>7, <1>12 DEF Trail, Unmarked, Chased
  <2>2. ~Clears(wire[c][1], e)
    BY <1>4, <2>1 DEF Clears
  <2>3. ~(f.id > e)
    <3>1. \A j \in 1..(1 - 1) : FALSE
      OBVIOUS
    <3>2. QED BY <1>4, <2>1, <3>1 DEF WireSafe
  <2>4. m # NoMark /\ m < e
    BY <1>1, <1>4, <1>6, <2>1, <2>3, TabFields DEF Larger, NoMark
  <2>5. QED BY <1>8, <1>9, <1>12, <2>2, <2>4, ReadingTrail
<1>13. QED BY <1>7, <1>10, <1>11, <1>12

(* A resync clears what its scopes name and records the unshare they miss.   *)
LEMMA ResyncStep ==
  ASSUME Soundly, NEW c \in Streams, tab.slot = {c}, wire[c] # <<>>,
         wire' = [wire EXCEPT ![c] = Tail(@)], UNCHANGED <<managerVars, dbVars, conn>>,
         Head(wire[c]).kind = "resync", OnResync(Head(wire[c]))
  PROVE  /\ LinkSound' /\ NamesKept /\ stale' \subseteq stale
         /\ \A e \in stale' : ~Named(e)' /\ Trail(e) => Trail(e)'
<1>1. LinkShape /\ IdsKnown /\ MarksAgree /\ RecordShape /\ WireShape(c)
  BY FrontFrame DEF Soundly, LinkSound
<1>2. \A e \in stale : e \in Nat
  BY StaleIds
<1>3. PICK f : f = Head(wire[c])
  OBVIOUS
<1>4. /\ f = wire[c][1] /\ f.id \in Ids /\ f.id \in Nat /\ f.kind = "resync"
      /\ tab.es = "open" /\ Len(wire[c]) \in Nat \ {0} /\ 1 \in 1..Len(wire[c])
  BY <1>3, FrontFrame
<1>5. PICK m \in Nat, h \in Nat : /\ m = Larger(tab.mark, f.id)
                                  /\ h = IF f.id # NoMark THEN f.id ELSE tab.lastEventId
  BY <1>1, <1>4, TabFields DEF Larger
<1>6. /\ tab' = [tab EXCEPT !.mark = m, !.resyncDue = FALSE, !.lastEventId = h]
      /\ stale' = stale \ Refetched(f.scopes)
  BY <1>3, <1>5 DEF OnResync
<1>7. /\ tab' \in Tabs /\ tab'.slot = {c} /\ tab'.es = "open" /\ tab'.mark = m
      /\ tab'.lastEventId = h /\ tab'.urlMark = tab.urlMark /\ ~tab'.resyncDue
  BY <1>1, <1>4, <1>5, <1>6 DEF LinkShape, Tabs
<1>8. Reading(c)
  BY <1>7 DEF Reading
<1>9. LinkSound'
  <2>1. {m, h, tab.urlMark} \subseteq Ids
    BY <1>1, <1>4, <1>5 DEF IdsKnown, Larger
  <2>2. tab.urlMark <= m /\ h <= m /\ (m # NoMark => tab.urlMark # NoMark \/ h # NoMark)
    BY <1>1, <1>4, <1>5, TabFields DEF MarksAgree, Larger, NoMark
  <2>3. QED BY <1>7, <1>8, <2>1, <2>2, ReadingLink
<1>10. NamesKept /\ \A e \in stale' : ~Named(e)' => kind[e] # "unshare"
  BY <1>1, <1>2, <1>3, ResyncNames
<1>11. ASSUME NEW e \in stale', ~Named(e)', Trail(e) PROVE Trail(e)'
  <2>1. e \in stale /\ e \in Nat /\ EntityType(kind[e]) \notin f.scopes /\ kind[e] # "unshare"
    BY <1>2, <1>6, <1>10, <1>11 DEF Refetched
  <2>2. ~Clears(wire[c][1], e)
    BY <1>4, <2>1 DEF Clears, Refreshes
  <2>3. tab.mark # NoMark /\ tab.mark < e
    BY <1>11, <2>2 DEF Trail, Unmarked
  <2>4. f.id = NoMark
    <3>1. EntityType(kind[e]) \in Entities
      BY DEF EntityType, Entities
    <3>2. QED BY <1>1, <1>4, <2>1, <3>1 DEF WireShape
  <2>5. m # NoMark /\ m < e
    BY <1>1, <1>5, <2>3, <2>4, TabFields DEF Larger, NoMark
  <2>6. QED BY <1>7, <1>8, <1>11, <2>2, <2>5, ReadingTrail
<1>12. QED BY <1>6, <1>9, <1>10, <1>11

-----------------------------------------------------------------------------
(* Everything but the manager's own invariant.                               *)
Rest == DbShape /\ WritersApart /\ LinkSound /\ RecordShape /\ StaleSeen /\ Accounted

(* A step that leaves the database alone keeps it if it keeps the link and   *)
(* the trail of what is still lacking.                                       *)
LEMMA LinkKeeps ==
  ASSUME RInv, UNCHANGED <<dbVars, nextFrame>>, LinkSound', NamesKept, stale' \subseteq stale,
         \A e \in stale' : InTurn(e) /\ ~Late(e) /\ ~Named(e)' /\ Trail(e) => Trail(e)'
  PROVE  Rest'
<1>1. /\ Accounted /\ DbShape /\ WritersApart /\ RecordShape /\ StaleSeen
  BY DEF RInv, Soundly
<1>2. UNCHANGED <<log, seq, kind, access, writer, frameEvent>>
  BY DEF dbVars
<1>3. DbShape' /\ WritersApart'
  BY <1>1, <1>2 DEF DbShape, WritersApart, Writing
<1>4. RecordShape' /\ StaleSeen'
  BY <1>1, <1>2 DEF RecordShape, StaleSeen, NamesKept
<1>5. ASSUME NEW e \in stale', ~Named(e)' PROVE Pursued(e)'
  <2>1. Pursued(e)
    BY <1>1, <1>5 DEF Accounted, NamesKept
  <2>2. InTurn(e)' /\ (Late(e) => Late(e)')
    BY <1>2, <2>1 DEF Pursued, InTurn, Late, Unsent
  <2>3. QED BY <1>5, <2>1, <2>2 DEF Pursued
<1>6. Accounted'
  BY <1>5 DEF Accounted
<1>7. QED BY <1>3, <1>4, <1>6 DEF Rest

(* The generators and the handlers.                                          *)
LEMMA ServerKeeps ==
  ASSUME RInv,
         (\E c \in Streams : ServerStep(c) \/ End(c)) \/ BrokerResync \/ UNCHANGED vars
  PROVE  Rest'
<1>1. Soundly /\ RecordShape
  BY DEF RInv, Soundly
<1> DEFINE Kept == /\ UNCHANGED <<dbVars, nextFrame, stale, excused>> /\ LinkSound'
                   /\ \A e \in stale : InTurn(e) /\ ~Late(e) /\ Trail(e) => Trail(e)'
<1>2. ASSUME NEW c \in Streams, ReadHead(c) \/ ReadVisible(c) \/ ReadScopes(c) PROVE Kept
  <2>1. UNCHANGED <<dbVars, nextFrame, stale, excused>>
    BY <1>2 DEF ReadHead, ReadVisible, ReadScopes, managerVars
  <2>2. QED BY <1>1, <1>2, <2>1, ReadHeadStep, ReadVisibleStep, ReadScopesStep
<1>3. ASSUME NEW c \in Streams, Register(c) \/ TakeOverflow(c) \/ ReadOverflowHead(c) PROVE Kept
  <2>1. UNCHANGED <<dbVars, nextFrame, stale, excused>>
    BY <1>3 DEF Register, Connect, TakeOverflow, GenTakeOverflow, ReadOverflowHead, managerVars
  <2>2. QED BY <1>1, <1>3, <2>1, QuietStep
<1>4. ASSUME NEW c \in Streams, Start(c) \/ YieldFrame(c) PROVE Kept
  <2>1. UNCHANGED <<dbVars, nextFrame, stale, excused>>
    BY <1>4 DEF Start, GenStart, YieldFrame, GenYieldFrame
  <2>2. QED BY <1>1, <1>4, <2>1, StartStep, YieldFrameStep
<1>5. ASSUME NEW c \in Streams, YieldResync(c) \/ End(c) PROVE Kept
  <2>1. UNCHANGED <<dbVars, nextFrame, stale, excused>>
    BY <1>5 DEF YieldResync, GenYieldResync, End, GenEnd, Close
  <2>2. QED BY <1>1, <1>5, <2>1, YieldResyncStep, EndStep
<1>6. ASSUME BrokerResync \/ UNCHANGED vars PROVE Kept
  <2>1. UNCHANGED <<dbVars, nextFrame, stale, excused>>
    BY <1>6 DEF BrokerResync, DeliverToAll, vars, managerVars, dbVars
  <2>2. QED BY <1>1, <1>6, <2>1, BrokerStep
<1>7. Kept
  <2> HIDE DEF Kept
  <2>1. QED BY <1>2, <1>3, <1>4, <1>5, <1>6 DEF ServerStep
<1>8. NamesKept /\ stale' = stale
  BY <1>1, <1>7, NoNames
<1>9. QED BY <1>7, <1>8, LinkKeeps

(* The tab.                                                                  *)
LEMMA TabKeeps ==
  ASSUME RInv,
         \/ \E c \in Streams : Request(c) \/ Reject(c) \/ Receive(c)
         \/ Drop \/ SilentClose \/ Reopen
  PROVE  Rest'
<1>1. Soundly /\ RecordShape
  BY DEF RInv, Soundly
<1>2. UNCHANGED <<dbVars, nextFrame>>
  BY DEF Request, Reject, Receive, Drop, SilentClose, Reopen, managerVars
<1>3. CASE Reopen \/ \E c \in Streams : Request(c)
  <2>1. stale' = stale /\ excused' = excused
    BY <1>3 DEF Reopen, Request
  <2>2. LinkSound' /\ \A e \in stale : Trail(e) => Trail(e)'
    BY <1>1, <1>3, ReopenStep, RequestStep
  <2>3. QED BY <1>1, <1>2, <2>1, <2>2, NoNames, LinkKeeps
<1>4. CASE Drop \/ SilentClose \/ \E c \in Streams : Reject(c)
  <2>1. /\ LinkSound' /\ NamesKept /\ stale' = stale
        /\ \A e \in stale : ~Named(e)' /\ Trail(e) => Trail(e)'
    BY <1>1, <1>4, LeaveStep
  <2>2. QED BY <1>2, <2>1, LinkKeeps
<1>5. ASSUME NEW c \in Streams, Receive(c) PROVE Rest'
  <2>1. /\ tab.slot = {c} /\ wire[c] # <<>> /\ wire' = [wire EXCEPT ![c] = Tail(@)]
        /\ UNCHANGED <<managerVars, dbVars, conn>>
        /\ \/ Head(wire[c]).kind = "connected" /\ OnConnected(Head(wire[c]))
           \/ Head(wire[c]).kind = "event" /\ OnActivity(Head(wire[c]))
           \/ Head(wire[c]).kind = "resync" /\ OnResync(Head(wire[c]))
    BY <1>5 DEF Receive
  <2>2. /\ LinkSound' /\ NamesKept /\ stale' \subseteq stale
        /\ \A e \in stale' : ~Named(e)' /\ Trail(e) => Trail(e)'
    BY <1>1, <2>1, ConnectedStep, ActivityStep, ResyncStep
  <2>3. QED BY <1>2, <2>2, LinkKeeps
<1>6. QED BY <1>3, <1>4, <1>5

(* The invariant is inductive.                                               *)
LEMMA RInvStep == RInv /\ [RNext]_vars => RInv'
<1> SUFFICES ASSUME RInv, [RNext]_vars PROVE RInv'
  OBVIOUS
<1>1. IInv /\ \A c \in Streams : InOrder(c)
  BY DEF RInv, Soundly
<1>2. [Next]_managerVars
  BY ManagerStep
<1>3. IInv'
  BY <1>1, <1>2, IInvStep
<1>4. \A c \in Streams : InOrder(c)'
  BY <1>1, <1>2, <1>3, InOrderStep DEF IInv
<1>5. ASSUME NEW w \in Writers, (\E k \in Kinds : Flush(w, k)) \/ Rollback(w) \/ Commit(w) \/ Send(w)
      PROVE  Rest'
  BY <1>5, FlushKeeps, CommitKeeps, SendKeeps DEF Rest
<1>6. Rest'
  BY <1>5, ServerKeeps, TabKeeps DEF RNext
<1>7. QED BY <1>3, <1>4, <1>6 DEF Rest, RInv, Soundly

(* A freshly loaded tab lacks nothing it has ever shown.                     *)
LEMMA InitRInv == RInit => RInv
<1> SUFFICES ASSUME RInit PROVE RInv
  OBVIOUS
<1>1. IInv /\ \A c \in Streams : InOrder(c)
  <2>1. Init
    BY DEF RInit
  <2>2. QED BY <2>1, InitIInv DEF Init, InOrder
<1>2. /\ seq \in 0..MaxEvents /\ log = 1..seq /\ frameEvent = <<>> /\ nextFrame = 0
      /\ registered = {} /\ gen = [c \in Streams |-> "closed"] /\ access = TRUE
      /\ kind = [e \in 1..MaxEvents |-> "foreign"] /\ writer = [w \in Writers |-> Idle]
      /\ conn = [c \in Streams |-> NoConn] /\ wire = [c \in Streams |-> <<>>]
      /\ stale = {} /\ excused = [r \in Gaps |-> {}]
  BY MaxEventsAssumption DEF RInit, Init
<1>3. /\ tab \in Tabs /\ tab.es = "connecting" /\ tab.slot = {} /\ tab.mark = NoMark
      /\ tab.lastEventId = NoMark /\ tab.urlMark = NoMark /\ ~tab.resyncDue
  BY DEF RInit, Tabs, NoMark
<1>4. /\ NoConn \in Conns /\ NoConn.pc = "none" /\ NoConn.head = NoMark
      /\ Idle \in WriterStates /\ Idle.pc = "idle"
  BY DEF NoConn, Conns, NoMark, Entities, Idle, WriterStates
<1>5. DbShape /\ WritersApart
  BY <1>2, <1>4 DEF DbShape, WritersApart, Writing, Kinds
<1>6. LinkShape /\ IdsKnown
  BY <1>2, <1>3, <1>4 DEF LinkShape, IdsKnown, Ids
<1>7. MarksAgree /\ \A c \in Streams : SlotInv(c)
  BY <1>2, <1>3, <1>4 DEF MarksAgree, SlotInv, Handled, NoMark
<1>8. RecordShape /\ StaleSeen /\ Accounted
  BY <1>2 DEF RecordShape, StaleSeen, Accounted
<1>9. QED BY <1>1, <1>5, <1>6, <1>7, <1>8 DEF RInv, Soundly, LinkSound

(* Once nothing is under way, what is still chased would be owed to a live   *)
(* stream with an empty queue.                                               *)
LEMMA DrainedNamed ==
  ASSUME RInv, Drained, NEW e \in stale
  PROVE  Named(e)
<1>1. Soundly /\ Accounted /\ IInv /\ LinkSound /\ LinkShape
  BY DEF RInv, Soundly, LinkSound
<1>2. PICK c \in tab.slot : gen[c] = "looping" /\ queue[c] = <<>> /\ wire[c] = <<>>
  BY DEF Drained
<1>3. c \in Streams /\ c \in registered
  BY <1>1, <1>2, TabFields DEF LinkSound, SlotInv, Handled
<1>4. ASSUME Pursued(e) PROVE FALSE
  <2>1. ~Unsent(e)
    BY DEF Drained, Unsent
  <2>2. Chased(c, e)
    BY <1>2, <1>4, <2>1 DEF Pursued, Late, Trail
  <2>3. ~Cleared(c, e)
    BY <1>2 DEF Cleared
  <2>4. PICK n \in owed[c] : TRUE
    BY <1>2, <2>1, <2>2, <2>3 DEF Chased, Due, Owed
  <2>5. PendingShape(c) /\ Covered(c)
    BY <1>1, <1>3 DEF IInv, StreamInv
  <2>6. resyncPending[c]
    BY <1>2, <1>3, <2>4, <2>5 DEF Covered
  <2>7. QED BY <1>2, <1>3, <2>5, <2>6 DEF PendingShape
<1>5. QED BY <1>1, <1>4 DEF Accounted

(* A tab whose stream is open and drained lacks only the events that fell    *)
(* into a gap of the protocol, for every number of writers, slots and        *)
(* events, every queue size and scope limit, whatever is cut and reopened.   *)
THEOREM ReconnectLosesOnlyNamed == RSpec => []SilentLossesNamed
<1>1. RInv => SilentLossesNamed
  BY DrainedNamed DEF SilentLossesNamed, Excused, Named
<1>2. QED BY <1>1, InitRInv, RInvStep, PTL DEF RSpec
=============================================================================
