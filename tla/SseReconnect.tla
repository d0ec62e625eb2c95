---------------------------- MODULE SseReconnect ----------------------------
(***************************************************************************)
(* One browser tab that keeps its caches fresh over a stream which may be  *)
(* cut and reopened at any time: the activity log with the transactions    *)
(* that write it (services/activity.py, sse/choreography.py), the connect  *)
(* handler and generator of routers/sse.py on top of the manager of        *)
(* SseManager, and the tab's side of the protocol (hooks/useSSE.ts).       *)
(*                                                                         *)
(* The reconnect mark is an event_id; 0 stands for null.  A dashboard the  *)
(* tab's user shares, and one of a stranger, are enough to tell apart what *)
(* the resync decision and its scopes see.                                 *)
(***************************************************************************)
EXTENDS SseManager, FiniteSets, FiniteSetsExt

CONSTANTS
  Writers,     \* requests that write to the log
  MaxEvents,   \* bound on the ids drawn from the log's sequence
  InitialLogs, \* how many events the log may hold when the tab is loaded
  WireMax,     \* frames the transport buffers
  ScopeLimit,  \* limit of entity_types_changed_since
  TabUser,     \* the tab's user
  Stranger     \* a user of another household

ASSUME MaxEventsAssumption == MaxEvents \in Nat /\ InitialLogs \subseteq 0..MaxEvents
ASSUME WireMaxAssumption == WireMax \in Nat /\ WireMax >= 2
ASSUME ScopeLimitAssumption == ScopeLimit \in Nat
ASSUME TabUserAssumption == /\ {TabUser, Stranger} \subseteq Users
                            /\ TabUser # Stranger
                            /\ \A c \in Streams : UserOf[c] = TabUser

VARIABLES
  log,         \* ids of the committed activity_events rows
  seq,         \* last event_id drawn from the sequence
  kind,        \* kind[e]: what event e is about
  access,      \* TabUser is a member of the shared dashboard
  writer,      \* writer[w]: where a mutating request stands
  frameEvent,  \* event_id carried by the manager's n-th frame
  conn,        \* conn[c]: the connect handler serving slot c
  wire,        \* wire[c]: frames yielded on slot c that the tab has yet to read
  tab,         \* the tab's EventSource and the refs of useSSE
  stale,       \* history: committed events the tab's caches do not reflect
  excused      \* history: excused[r]: events that fell into gap r of the protocol

vars == <<managerVars, log, seq, kind, access, writer, frameEvent, conn, wire, tab, stale,
          excused>>
dbVars == <<log, seq, kind, access, writer, frameEvent>>

Kinds == {"list", "unshare", "foreign"}
Entities == {"list", "dashboard"}
EntityType(k) == IF k = "list" THEN "list" ELSE "dashboard"

NoMark == 0
Larger(a, b) == IF a > b THEN a ELSE b

(* current_event_id: the newest committed id, null for an empty log.         *)
LogHead == IF log = {} THEN NoMark ELSE Max(log)

(* The gaps: how a committed event can miss the tab without a resync.        *)
(*   first      committed before the tab's first connect                     *)
(*   unmarked   committed later, while the tab held no mark                  *)
(*   window     broadcast after the connect handler read the log's head and  *)
(*              before it registered the stream                              *)
(*   reordered  committed or broadcast after an event with a higher id       *)
(*   cut        the stream died between its connected and resync frames      *)
(*   hidden     an unshare outside the scopes, the dashboard being invisible *)
Gaps == {"first", "unmarked", "window", "reordered", "cut", "hidden"}
(* Kept for the stale events only.                                           *)
Excuse(S(_)) == excused' = [r \in Gaps |-> (excused[r] \cup S(r)) \cap stale']
Excused(R) == UNION {excused[r] : r \in R}

-----------------------------------------------------------------------------
WireFrame(k, id, scopes) == [kind |-> k, id |-> id, scopes |-> scopes, followed |-> FALSE]
(* followed: history, a connect-time resync comes right behind.              *)
Connected(head, resync) ==
  [WireFrame("connected", head, {}) EXCEPT !.followed = resync]
Idle == [pc |-> "idle", id |-> 0]
NoConn == [pc |-> "none", mark |-> NoMark, head |-> NoMark, resync |-> FALSE,
           visible |-> FALSE, scopes |-> Entities]

RInit ==
  /\ Init
  /\ seq \in InitialLogs
  /\ log = 1..seq
  /\ kind = [e \in 1..MaxEvents |-> "foreign"]
  /\ access = TRUE
  /\ writer = [w \in Writers |-> Idle]
  /\ frameEvent = <<>>
  /\ conn = [c \in Streams |-> NoConn]
  /\ wire = [c \in Streams |-> <<>>]
  /\ tab = [es |-> "connecting", slot |-> {}, mark |-> NoMark, lastEventId |-> NoMark,
            urlMark |-> NoMark, needsResync |-> FALSE, opened |-> FALSE, resyncDue |-> FALSE]
  /\ stale = {}
  /\ excused = [r \in Gaps |-> {}]

-----------------------------------------------------------------------------
(* Writers: log_event + build_activity_sse_dict draw the id at flush, then   *)
(* commit_and_broadcast commits and, once the commit has returned, sends.    *)
Flush(w, k) ==
  /\ writer[w].pc = "idle"
  /\ seq < MaxEvents
  /\ k # "foreign" => access
  /\ seq' = seq + 1
  /\ kind' = [kind EXCEPT ![seq + 1] = k]
  /\ writer' = [writer EXCEPT ![w] = [pc |-> "flushed", id |-> seq + 1]]
  /\ UNCHANGED <<managerVars, log, access, frameEvent, conn, wire, tab, stale, excused>>

Rollback(w) ==
  /\ writer[w].pc = "flushed"
  /\ writer' = [writer EXCEPT ![w] = Idle]
  /\ UNCHANGED <<managerVars, log, seq, kind, access, frameEvent, conn, wire, tab, stale, excused>>

(* What becomes of the tab's caches: losing the dashboard supersedes what    *)
(* was stale in it, and nobody's content is stale to a user who cannot see   *)
(* it.                                                                       *)
StaleAfter(e) ==
  IF kind[e] = "foreign" \/ ~access THEN stale
  ELSE IF kind[e] = "unshare" THEN {e}
  ELSE stale \cup {e}

Commit(w) ==
  LET e == writer[w].id
  IN /\ writer[w].pc = "flushed"
     /\ log' = log \cup {e}
     /\ access' = (access /\ kind[e] # "unshare")
     /\ writer' = [writer EXCEPT ![w].pc = "committed"]
     /\ stale' = StaleAfter(e)
     /\ Excuse(LAMBDA r : IF \/ r = "first" /\ ~tab.opened
                             \/ r = "unmarked" /\ tab.opened /\ tab.mark = NoMark
                             \/ r = "reordered" /\ \E x \in log : x > e
                          THEN {e} ELSE {})
     /\ UNCHANGED <<managerVars, seq, kind, frameEvent, conn, wire, tab>>

(* The tab's stream is neither registered nor yet to read the head.          *)
InWindow == \E c \in tab.slot : conn[c].pc \in {"visible", "scopes", "registering"}

Send(w) ==
  LET e == writer[w].id
      audience == IF kind[e] = "foreign" THEN {Stranger} ELSE {TabUser}
  IN /\ writer[w].pc = "committed"
     /\ Broadcast(audience, Stranger)
     /\ frameEvent' = Append(frameEvent, e)
     /\ writer' = [writer EXCEPT ![w] = Idle]
     /\ UNCHANGED <<log, seq, kind, access, conn, wire, tab, stale>>
     /\ Excuse(LAMBDA r : IF \/ r = "window" /\ InWindow
                             \/ r = "reordered" /\ \E i \in 1..Len(frameEvent) : frameEvent[i] > e
                          THEN {e} ELSE {})

-----------------------------------------------------------------------------
(* The connect handler, await by await: _connect_state's three queries, then *)
(* manager.connect.                                                          *)
ReadHeadOneBehind(c) ==
  LET needed == conn[c].mark # NoMark /\ LogHead > conn[c].mark + 1
  IN /\ conn[c].pc = "reading"
     /\ conn' = [conn EXCEPT ![c].head = LogHead, ![c].resync = needed,
                             ![c].pc = IF needed THEN "visible" ELSE "registering"]
     /\ UNCHANGED <<managerVars, dbVars, wire, tab, stale, excused>>

ReadHead(c) ==
  LET needed == conn[c].mark # NoMark /\ LogHead > conn[c].mark   \* _resync_needed
  IN /\ conn[c].pc = "reading"
     /\ conn' = [conn EXCEPT ![c].head = LogHead, ![c].resync = needed,
                             ![c].pc = IF needed THEN "visible" ELSE "registering"]
     /\ UNCHANGED <<managerVars, dbVars, wire, tab, stale, excused>>

ReadVisible(c) ==
  /\ conn[c].pc = "visible"
  /\ conn' = [conn EXCEPT ![c].visible = access, ![c].pc = "scopes"]
  /\ UNCHANGED <<managerVars, dbVars, wire, tab, stale, excused>>

(* entity_types_changed_since: what changed on visible dashboards, or        *)
(* everything when the scan hits its limit.                                  *)
ChangedSince(mark, visible) ==
  LET rows == {e \in log : e > mark}
  IN IF Cardinality(rows) > ScopeLimit THEN Entities
     ELSE {EntityType(kind[e]) : e \in {x \in rows : visible /\ kind[x] # "foreign"}}

ReadScopes(c) ==
  /\ conn[c].pc = "scopes"
  /\ conn' = [conn EXCEPT ![c].scopes = ChangedSince(conn[c].mark, conn[c].visible),
                          ![c].pc = "registering"]
  /\ UNCHANGED <<managerVars, dbVars, wire, tab, stale, excused>>

Register(c) ==
  /\ conn[c].pc = "registering"
  /\ Connect(c)
  /\ conn' = [conn EXCEPT ![c].pc = "open"]
  /\ UNCHANGED <<dbVars, wire, tab, stale, excused>>

(* The generator's yields, as the manager schedules them; a full transport   *)
(* suspends it.  Nobody reads the frames of a stream the tab has abandoned.  *)
Emit(c, frames) ==
  /\ c \in tab.slot => Len(wire[c]) + Len(frames) <= WireMax
  /\ wire' = IF c \in tab.slot THEN [wire EXCEPT ![c] = @ \o frames] ELSE wire

Start(c) ==
  /\ GenStart(c)
  /\ Emit(c, <<Connected(conn[c].head, conn[c].resync)>>
             \o (IF conn[c].resync THEN <<WireFrame("resync", NoMark, conn[c].scopes)>> ELSE <<>>))
  /\ conn' = [conn EXCEPT ![c] = [NoConn EXCEPT !.pc = "open"]]
  /\ UNCHANGED <<dbVars, tab, stale, excused>>

YieldFrame(c) ==
  /\ GenYieldFrame(c)
  /\ Emit(c, <<IF Head(queue[c]).kind = "event"
               THEN WireFrame("event", frameEvent[Head(queue[c]).id], {})
               ELSE WireFrame("resync", NoMark, Entities)>>)
  /\ UNCHANGED <<dbVars, conn, tab, stale, excused>>

TakeOverflow(c) ==
  /\ GenTakeOverflow(c)
  /\ UNCHANGED <<dbVars, conn, wire, tab, stale, excused>>

(* read_head answers, before the 5s it is given are over.                    *)
ReadOverflowHead(c) ==
  /\ gen[c] = "reading_head"
  /\ conn[c].head = NoMark
  /\ LogHead # NoMark
  /\ conn' = [conn EXCEPT ![c].head = LogHead]
  /\ UNCHANGED <<managerVars, dbVars, wire, tab, stale, excused>>

YieldResync(c) ==
  /\ GenYieldResync(c)
  /\ Emit(c, <<WireFrame("resync", conn[c].head, Entities)>>)
  /\ conn' = [conn EXCEPT ![c].head = NoMark]
  /\ UNCHANGED <<dbVars, tab, stale, excused>>

End(c) ==
  /\ GenEnd(c)
  /\ conn' = [conn EXCEPT ![c] = NoConn]
  /\ UNCHANGED <<dbVars, wire, tab, stale, excused>>

(* The broker's resync to every local client.                                *)
BrokerResync ==
  /\ DeliverToAll
  /\ UNCHANGED <<dbVars, conn, wire, tab, stale, excused>>

-----------------------------------------------------------------------------
(* The tab.  EventSource retries a network drop itself, with the same URL    *)
(* and its Last-Event-ID; an HTTP error or a silent close leaves it CLOSED   *)
(* and useSSE opens a new one.  The URL's mark wins over the header.         *)
Request(c) ==
  /\ tab.es = "connecting"
  /\ gen[c] = "closed"
  /\ conn[c].pc = "none"
  /\ conn' = [conn EXCEPT ![c].pc = "reading",
                          ![c].mark = IF tab.urlMark # NoMark THEN tab.urlMark
                                      ELSE tab.lastEventId]
  /\ tab' = [tab EXCEPT !.es = "requested", !.slot = {c}]
  /\ wire' = [wire EXCEPT ![c] = <<>>]
  /\ UNCHANGED <<managerVars, dbVars, stale, excused>>

Leave(es) == [tab EXCEPT !.es = es, !.slot = {}, !.resyncDue = FALSE]

(* A connect-time resync the tab has been primed past and will not receive.  *)
ExcuseCut ==
  Excuse(LAMBDA r : IF r = "cut" /\ tab.resyncDue THEN {e \in stale : e <= tab.mark} ELSE {})

(* An error status: onerror finds readyState CLOSED and arms the timer.      *)
Reject(c) ==
  /\ tab.slot = {c}
  /\ conn[c].pc = "reading"
  /\ conn' = [conn EXCEPT ![c] = NoConn]
  /\ tab' = Leave("closed")
  /\ UNCHANGED <<managerVars, dbVars, wire, stale, excused>>

(* Network drop, or the end of a stream the server closed.                   *)
Drop ==
  /\ tab.es \in {"requested", "open"}
  /\ tab' = Leave("connecting")
  /\ UNCHANGED <<managerVars, dbVars, conn, wire, stale>>
  /\ ExcuseCut

(* A hidden tab loses its stream without an error event.                     *)
SilentClose ==
  /\ tab.es = "open"
  /\ tab' = Leave("closed")
  /\ UNCHANGED <<managerVars, dbVars, conn, wire, stale>>
  /\ ExcuseCut

(* The timer fires or, with none armed, the tab becomes visible: the effect  *)
(* runs again and opens a new EventSource.                                   *)
Reopen ==
  /\ tab.es = "closed"
  /\ tab' = [tab EXCEPT !.es = "connecting", !.needsResync = TRUE,
                        !.urlMark = tab.mark, !.lastEventId = NoMark]
  /\ UNCHANGED <<managerVars, dbVars, conn, wire, stale, excused>>

(* A refetch of the named caches reads everything committed so far.          *)
Refetched(scopes) == {e \in stale : EntityType(kind[e]) \in scopes}

OnConnected(f) ==
  LET resyncs == tab.needsResync /\ tab.urlMark = NoMark   \* ~serverDecidesResync
  IN /\ tab' = [tab EXCEPT !.es = "open", !.opened = TRUE, !.needsResync = FALSE,
                           !.mark = IF f.id # NoMark THEN f.id ELSE @,
                           !.lastEventId = IF f.id # NoMark THEN f.id ELSE @,
                           !.resyncDue = f.followed]
     /\ stale' = IF resyncs THEN {} ELSE stale
     /\ Excuse(LAMBDA r : {})

OnActivity(f) ==
  /\ tab' = [tab EXCEPT !.mark = Larger(@, f.id), !.lastEventId = f.id]
  /\ stale' = stale \ {f.id}
  /\ Excuse(LAMBDA r : {})

OnResync(f) ==
  /\ tab' = [tab EXCEPT !.mark = Larger(@, f.id), !.resyncDue = FALSE,
                        !.lastEventId = IF f.id # NoMark THEN f.id ELSE @]
  /\ stale' = stale \ Refetched(f.scopes)
  /\ Excuse(LAMBDA r : IF r = "hidden" THEN {e \in stale : kind[e] = "unshare"} ELSE {})

Receive(c) ==
  /\ tab.slot = {c}
  /\ wire[c] # <<>>
  /\ wire' = [wire EXCEPT ![c] = Tail(@)]
  /\ \/ Head(wire[c]).kind = "connected" /\ OnConnected(Head(wire[c]))
     \/ Head(wire[c]).kind = "event" /\ OnActivity(Head(wire[c]))
     \/ Head(wire[c]).kind = "resync" /\ OnResync(Head(wire[c]))
  /\ UNCHANGED <<managerVars, dbVars, conn>>

-----------------------------------------------------------------------------
ServerStep(c) ==
  \/ ReadHead(c) \/ ReadVisible(c) \/ ReadScopes(c) \/ Register(c)
  \/ Start(c) \/ YieldFrame(c) \/ TakeOverflow(c) \/ ReadOverflowHead(c) \/ YieldResync(c)

RNext ==
  \/ \E w \in Writers : \/ \E k \in Kinds : Flush(w, k)
                        \/ Rollback(w) \/ Commit(w) \/ Send(w)
  \/ \E c \in Streams : ServerStep(c) \/ End(c) \/ Request(c) \/ Reject(c) \/ Receive(c)
  \/ BrokerResync
  \/ Drop
  \/ SilentClose
  \/ Reopen

RSpec == RInit /\ [][RNext]_vars

-----------------------------------------------------------------------------
(* Nothing is on its way to the tab.                                         *)
Drained ==
  /\ tab.es = "open"
  /\ \A w \in Writers : writer[w].pc # "committed"
  /\ \E c \in tab.slot : gen[c] = "looping" /\ queue[c] = <<>> /\ wire[c] = <<>>

(* The reconnect protocol loses an event only in the named gaps: with the    *)
(* stream open and drained, everything else committed so far is in the tab's *)
(* caches.                                                                   *)
SilentLossesNamed == Drained => stale \subseteq Excused(Gaps)
=============================================================================
