------------------------- MODULE LayoutEditorProofs -------------------------
(***************************************************************************)
(* What LayoutEditor promises for every board, every set of users and any  *)
(* number of gestures, foreign writes, failures and sign-ins: a version    *)
(* names one content, a save drawn on the version it names does no harm,   *)
(* the saves of a session run one at a time, and a tab at rest shows the   *)
(* row unless one of the recorded events happened.                         *)
(***************************************************************************)
EXTENDS LayoutEditor, TLAPS, SequenceTheorems, FiniteSetTheorems

(* The types of the records, which TypeOK leaves to the operations.          *)
LoadedRows == [w : ListWidgets, layout : Layouts, version : Nat]
Helds == [widgets : SUBSET Widgets, layout : Layouts, version : Nat, basis : Nat]
Drafts == [layout : Layouts, base : Nat, mine : SUBSET Widgets, basis : Nat]
CallSteps == {"put", "committed", "row", "reply", "get", "getrow", "got", "done"}
WopSteps == {"idle", "sent", "committed", "row", "reply"}
Calls == [pc : CallSteps, gen : Nat, user : Users,
          job : Jobs \cup {None}, sent : Nat, reply : Replies \cup {None}]
Wops == [pc : WopSteps, gen : Nat, user : Users,
         kind : {"add", "remove"}, w : Widgets \cup {None}, reply : Replies \cup {None}]
LoadSteps == {"idle", "sent", "row", "reply"}
Loads == [pc : LoadSteps, reply : Replies \cup {None}, queued : BOOLEAN]
Frames == [kind : {"layout", "widgets", "list"}, w : Widgets \cup {None}, version : Nat,
           actor : Users \cup {"other"}, mine : BOOLEAN]

(* A saveLayout call holds a layout until it returns, an answer exactly when *)
(* one is read for it, and only a first attempt is rebased.                  *)
CallShape(c) ==
    /\ c.pc # "done" => c.job \in Jobs
    /\ c.pc \in {"row", "reply", "getrow", "got"} <=> c.reply # None
    /\ c.pc \in {"row", "getrow"} => c.reply.kind = "board"
    /\ c.pc = "got" => c.reply.kind # "conflict"
    /\ c.pc \in {"get", "getrow", "got"} => ~c.job.retried
    /\ c.gen <= gen
    /\ c.gen = gen /\ c.pc # "done" => c.user = user

WopShape(o) ==
    /\ o.pc # "idle" => o.w \in Widgets
    /\ o.pc \in {"row", "reply"} <=> o.reply # None
    /\ o.pc = "row" => o.reply.kind = "board"
    /\ o.gen <= gen
    /\ o.gen = gen => o.user = user

LoadShape(l) ==
    /\ l.pc \in {"row", "reply"} <=> l.reply # None
    /\ l.pc = "row" => l.reply.kind = "board"
    /\ l.pc = "idle" => ~l.queued

RowShape == /\ srv \in Boards
            /\ born \subseteq Widgets
            /\ tx \in LoadedRows \cup {None}
            /\ frames \in Seq(Frames)
            /\ spent \in [foreign : Nat, own : Nat, fails : Nat]
TabShape == /\ user \in Users /\ gen \in 1..MaxSessions
            /\ dash \in Helds \cup {None}
            /\ draft \in Drafts \cup {None}
            /\ pending \in Jobs \cup {None}
            /\ saving \in BOOLEAN /\ due \in BOOLEAN /\ conflict \in BOOLEAN
            /\ gaps \subseteq Gaps
RequestShape == /\ calls \in Seq(Calls)
                /\ \A i \in DOMAIN calls : CallShape(calls[i])
                /\ wop \in Wops /\ WopShape(wop)
                /\ load \in Loads /\ LoadShape(load)
Shapes == RowShape /\ TabShape /\ RequestShape

-----------------------------------------------------------------------------
(* None is no record of the model: a variable is None or holds something.    *)
LEMMA NoneApart ==
  /\ None \notin LoadedRows /\ None \notin Helds /\ None \notin Drafts
  /\ None \notin Jobs /\ None \notin Replies
<1>1. "none" \in DOMAIN None
  BY DEF None
<1>2. ASSUME NEW r \in LoadedRows PROVE "none" \notin DOMAIN r
  BY DEF LoadedRows
<1>3. ASSUME NEW r \in Helds PROVE "none" \notin DOMAIN r
  BY DEF Helds
<1>4. ASSUME NEW r \in Drafts PROVE "none" \notin DOMAIN r
  BY DEF Drafts
<1>5. ASSUME NEW r \in Jobs PROVE "none" \notin DOMAIN r
  BY DEF Jobs
<1>6. ASSUME NEW r \in Replies PROVE "none" \notin DOMAIN r
  BY DEF Replies
<1>7. QED BY <1>1, <1>2, <1>3, <1>4, <1>5, <1>6

(* What a layout is: a function from some widgets to positions.              *)
LEMMA LayoutForm ==
  ASSUME NEW L \in Layouts
  PROVE  /\ DOMAIN L \subseteq Widgets
         /\ \A i \in DOMAIN L : L[i] \in Positions
         /\ L = [i \in DOMAIN L |-> L[i]]
BY DEF Layouts

(* Any such function is a layout.                                            *)
LEMMA LayoutMade ==
  ASSUME NEW S \in SUBSET Widgets, NEW f \in [S -> Positions]
  PROVE  f \in Layouts
BY DEF Layouts

(* The slot the server or the grid picks, and the stamps of the gestures.    *)
LEMMA PositionsKnown ==
  /\ 0 \in Positions
  /\ \A n \in Nat : n < MaxDrags => n + 1 \in Positions
  /\ \A n \in Nat : n < MaxForeign => MaxDrags + n + 1 \in Positions
BY LayoutEditorAssumption DEF Positions

(* update_layout, add_widget and delete_widget write layouts.                *)
LEMMA LayoutsWritten ==
  ASSUME NEW L \in Layouts, NEW w \in Widgets, NEW p \in Positions
  PROVE  With(L, w, p) \in Layouts /\ Without(L, w) \in Layouts
<1>1. With(L, w, p) \in [DOMAIN L \cup {w} -> Positions]
  BY LayoutForm DEF With
<1>2. Without(L, w) \in [DOMAIN L \ {w} -> Positions]
  BY LayoutForm DEF Without
<1>3. DOMAIN L \cup {w} \in SUBSET Widgets /\ DOMAIN L \ {w} \in SUBSET Widgets
  BY LayoutForm
<1>4. QED BY <1>1, <1>2, <1>3, LayoutMade

(* rebaseLayout's merge is a layout over the entries of both.                *)
LEMMA LayoutsMerged ==
  ASSUME NEW L \in Layouts, NEW M \in Layouts
  PROVE  /\ RebaseLayout(L, M) \in Layouts
         /\ DOMAIN RebaseLayout(L, M) = DOMAIN L \cup DOMAIN M
<1>1. RebaseLayout(L, M) \in [DOMAIN L \cup DOMAIN M -> Positions]
  BY LayoutForm DEF RebaseLayout
<1>2. DOMAIN L \cup DOMAIN M \in SUBSET Widgets
  BY LayoutForm
<1>3. QED BY <1>1, <1>2, LayoutMade

(* What the grid reports: an entry per held widget.                          *)
LEMMA LayoutReported ==
  ASSUME dash \in Helds, NEW L \in Layouts, NEW w, NEW p \in Positions
  PROVE  /\ GridReport(L, w, p) \in Layouts
         /\ DOMAIN GridReport(L, w, p) = dash.widgets
<1>1. GridReport(L, w, p) \in [dash.widgets -> Positions]
  BY LayoutForm, PositionsKnown DEF GridReport
<1>2. dash.widgets \in SUBSET Widgets
  BY DEF Helds
<1>3. QED BY <1>1, <1>2, LayoutMade

(* Records written field by field, as wholes: an accepted save, a call and a *)
(* widget request that got an answer, a held board that lost a list widget,  *)
(* and one that took over an accepted save's layout.                         *)
LEMMA SavedWhole ==
  ASSUME NEW r \in Boards, NEW L
  PROVE  Saved(r, L) = [widgets |-> r.widgets, layout |-> L, version |-> r.version + 1]
<1>1. PICK b : b = [r EXCEPT !.layout = L]
  BY Zenon
<1>2. Saved(r, L) = [b EXCEPT !.version = r.version + 1]
  BY <1>1, Zenon DEF Saved
<1>3. b = [widgets |-> r.widgets, layout |-> L, version |-> r.version]
  BY <1>1 DEF Boards
<1>4. QED BY <1>2, <1>3

CallAt(c, p, x) == [pc |-> p, gen |-> c.gen, user |-> c.user, job |-> c.job,
                    sent |-> c.sent, reply |-> x]

(* A call whose step changes is the record with that step.                   *)
LEMMA CallWhole ==
  ASSUME NEW c \in Calls, NEW p
  PROVE  [c EXCEPT !.pc = p] = CallAt(c, p, c.reply)
BY DEF Calls, CallAt

WopAt(o, p, x) == [pc |-> p, gen |-> o.gen, user |-> o.user, kind |-> o.kind, w |-> o.w,
                   reply |-> x]

(* A widget request whose step and answer change together.                   *)
LEMMA WopReplied ==
  ASSUME wop \in Wops, NEW p, NEW x, wop' = [wop EXCEPT !.pc = p, !.reply = x]
  PROVE  wop' = WopAt(wop, p, x)
<1>1. PICK b : b = [wop EXCEPT !.pc = p]
  BY Zenon
<1>2. b = WopAt(wop, p, wop.reply)
  BY <1>1 DEF Wops, WopAt
<1>3. wop' = [b EXCEPT !.reply = x]
  BY <1>1, Zenon
<1>4. QED BY <1>2, <1>3 DEF WopAt

(* A load whose step and answer change together.                             *)
LEMMA LoadReplied ==
  ASSUME load \in Loads, NEW p, NEW x, load' = [load EXCEPT !.pc = p, !.reply = x]
  PROVE  load' = [pc |-> p, reply |-> x, queued |-> load.queued]
<1>1. PICK b : b = [load EXCEPT !.pc = p]
  BY Zenon
<1>2. b = [pc |-> p, reply |-> load.reply, queued |-> load.queued]
  BY <1>1 DEF Loads
<1>3. load' = [b EXCEPT !.reply = x]
  BY <1>1, Zenon
<1>4. QED BY <1>2, <1>3

(* handleContentEvent's board, field by field.                               *)
LEMMA DropWhole ==
  ASSUME NEW d \in Helds, NEW w \in d.widgets
  PROVE  DropResource(d, w) = [widgets |-> d.widgets \ {w}, layout |-> Without(d.layout, w),
                               version |-> d.version + 1, basis |-> d.basis]
<1>1. PICK b : b = [d EXCEPT !.widgets = d.widgets \ {w}]
  BY Zenon
<1>2. PICK e : e = [b EXCEPT !.layout = Without(d.layout, w)]
  BY Zenon
<1>3. DropResource(d, w) = [e EXCEPT !.version = d.version + 1]
  BY <1>1, <1>2, Zenon DEF DropResource
<1>4. e = [widgets |-> d.widgets \ {w}, layout |-> Without(d.layout, w),
           version |-> d.version, basis |-> d.basis]
  BY <1>1, <1>2 DEF Helds
<1>5. QED BY <1>3, <1>4

(* Every transaction that writes the row counts its version up by one from   *)
(* the version it read.                                                      *)
LEMMA RowsWritten ==
  ASSUME NEW r \in Boards, NEW w \in Widgets, NEW L \in Layouts, NEW t \in LoadedRows
  PROVE  /\ Added(r, w) \in Boards /\ Added(r, w).version = r.version + 1
         /\ Removed(r, w) \in Boards /\ Removed(r, w).version = r.version + 1
         /\ Saved(r, L) \in Boards /\ Saved(r, L).version = r.version + 1
         /\ StripResource(r, t) \in Boards /\ StripResource(r, t).version = t.version + 1
<1>1. r.widgets \in SUBSET Widgets /\ r.layout \in Layouts /\ r.version \in Nat
  BY DEF Boards
<1>2. t.w \in Widgets /\ t.layout \in Layouts /\ t.version \in Nat
  BY LayoutEditorAssumption DEF LoadedRows
<1>3. /\ With(r.layout, w, 0) \in Layouts /\ Without(r.layout, w) \in Layouts
      /\ Without(t.layout, t.w) \in Layouts
  BY <1>1, <1>2, LayoutsWritten, PositionsKnown
<1>4. Added(r, w) \in Boards /\ Added(r, w).version = r.version + 1
  BY <1>1, <1>3 DEF Added, Boards
<1>5. Removed(r, w) \in Boards /\ Removed(r, w).version = r.version + 1
  BY <1>1, <1>3 DEF Removed, Boards
<1>6. Saved(r, L) \in Boards /\ Saved(r, L).version = r.version + 1
  BY <1>1, SavedWhole DEF Boards
<1>7. StripResource(r, t) \in Boards /\ StripResource(r, t).version = t.version + 1
  BY <1>1, <1>2, <1>3 DEF StripResource, Boards
<1>8. QED BY <1>4, <1>5, <1>6, <1>7

-----------------------------------------------------------------------------
(* The calls and the frames, as the steps change them.                       *)
InFlight == {frames[k] : k \in DOMAIN frames}
Becomes(i, c) == calls' = [calls EXCEPT ![i] = c]

(* One saveLayout call moves on, the others stay where they are.             *)
LEMMA CallMoved ==
  ASSUME calls \in Seq(Calls), NEW i \in DOMAIN calls, NEW c \in Calls, Becomes(i, c)
  PROVE  /\ calls' \in Seq(Calls)
         /\ DOMAIN calls' = DOMAIN calls
         /\ calls'[i] = c
         /\ \A j \in DOMAIN calls : j # i => calls'[j] = calls[j]
BY DEF Becomes

(* A gesture adds a call.                                                    *)
LEMMA CallAdded ==
  ASSUME calls \in Seq(Calls), NEW c \in Calls, calls' = Append(calls, c)
  PROVE  /\ calls' \in Seq(Calls)
         /\ DOMAIN calls' = DOMAIN calls \cup {Len(calls) + 1}
         /\ Len(calls) + 1 \notin DOMAIN calls
         /\ calls'[Len(calls) + 1] = c
         /\ \A j \in DOMAIN calls : calls'[j] = calls[j]
OBVIOUS

(* A commit sends one frame more.                                            *)
LEMMA FrameSent ==
  ASSUME frames \in Seq(Frames), NEW f \in Frames, frames' = Append(frames, f)
  PROVE  /\ frames' \in Seq(Frames)
         /\ InFlight' = InFlight \cup {f}
<1>1. /\ frames' \in Seq(Frames)
      /\ DOMAIN frames' = DOMAIN frames \cup {Len(frames) + 1}
      /\ frames'[Len(frames) + 1] = f
      /\ \A k \in DOMAIN frames : frames'[k] = frames[k]
  OBVIOUS
<1>2. QED BY <1>1 DEF InFlight

(* The tab takes the first frame; the others wait.                           *)
LEMMA FrameTaken ==
  ASSUME frames \in Seq(Frames), frames # <<>>, frames' = Tail(frames)
  PROVE  /\ frames' \in Seq(Frames)
         /\ Head(frames) \in InFlight
         /\ InFlight = InFlight' \cup {Head(frames)}
<1>1. /\ frames' \in Seq(Frames)
      /\ Len(frames) \in Nat /\ Len(frames) > 0 /\ DOMAIN frames = 1..Len(frames)
      /\ DOMAIN frames' = 1..(Len(frames) - 1)
      /\ Head(frames) = frames[1]
      /\ \A k \in 1..(Len(frames) - 1) : frames'[k] = frames[k + 1]
  OBVIOUS
<1>2. ASSUME NEW k \in DOMAIN frames PROVE frames[k] \in InFlight' \cup {frames[1]}
  <2>1. CASE k = 1
    BY <2>1
  <2>2. CASE k # 1
    <3>1. k - 1 \in 1..(Len(frames) - 1) /\ frames'[k - 1] = frames[(k - 1) + 1]
      BY <1>1, <2>2
    <3>2. (k - 1) + 1 = k
      BY <1>1
    <3>3. QED BY <1>1, <3>1, <3>2 DEF InFlight
  <2>3. QED BY <2>1, <2>2
<1>3. ASSUME NEW k \in DOMAIN frames' PROVE frames'[k] \in InFlight
  <2>1. k + 1 \in DOMAIN frames /\ frames'[k] = frames[k + 1]
    BY <1>1
  <2>2. QED BY <2>1 DEF InFlight
<1>4. 1 \in DOMAIN frames
  BY <1>1
<1>5. Head(frames) \in InFlight
  BY <1>1, <1>4 DEF InFlight
<1>6. InFlight \subseteq InFlight' \cup {Head(frames)}
  <2> SUFFICES ASSUME NEW f \in InFlight PROVE f \in InFlight' \cup {Head(frames)}
    OBVIOUS
  <2>1. PICK k \in DOMAIN frames : f = frames[k]
    BY DEF InFlight
  <2>2. QED BY <1>1, <1>2, <2>1
<1>7. InFlight' \subseteq InFlight
  <2> SUFFICES ASSUME NEW f \in InFlight' PROVE f \in InFlight
    OBVIOUS
  <2>1. PICK k \in DOMAIN frames' : f = frames'[k]
    BY DEF InFlight
  <2>2. QED BY <1>3, <2>1
<1>8. QED BY <1>1, <1>5, <1>6, <1>7

(* A call gets an answer: step and answer change together.                   *)
LEMMA CallReplied ==
  ASSUME calls \in Seq(Calls), NEW i \in DOMAIN calls, NEW p, NEW x,
         calls' = [calls EXCEPT ![i].pc = p, ![i].reply = x]
  PROVE  Becomes(i, CallAt(calls[i], p, x))
<1>1. calls[i] \in Calls
  OBVIOUS
<1>2. PICK b : b = [calls[i] EXCEPT !.pc = p]
  BY Zenon
<1>3. calls' = [calls EXCEPT ![i] = [b EXCEPT !.reply = x]]
  BY <1>2, Zenon
<1>4. b = CallAt(calls[i], p, calls[i].reply)
  BY <1>1, <1>2 DEF Calls, CallAt
<1>5. [b EXCEPT !.reply = x] = CallAt(calls[i], p, x)
  BY <1>4 DEF CallAt
<1>6. QED BY <1>3, <1>5 DEF Becomes

AfterRead(p) == IF p = "row" THEN "reply" ELSE "got"

(* What the steps of a saveLayout call make of it.                           *)
LEMMA CallEffects ==
  ASSUME calls \in Seq(Calls), NEW i \in DOMAIN calls
  PROVE  /\ ServerRespond(i) => Becomes(i, CallAt(calls[i], "row", BoardReply))
         /\ SaveWidgetsRead(i) => Becomes(i, CallAt(calls[i], AfterRead(calls[i].pc),
                                                    WidgetsRead(calls[i].reply)))
         /\ PutFails(i) => Becomes(i, CallAt(calls[i], "reply", ErrorReply))
         /\ SaveConflicts(i) /\ ~calls[i].job.retried =>
              Becomes(i, CallAt(calls[i], "get", None))
         /\ RebaseReads(i) => \/ Becomes(i, CallAt(calls[i], "getrow", BoardReply))
                              \/ Becomes(i, CallAt(calls[i], "got", ErrorReply))
<1>1. ServerRespond(i) => Becomes(i, CallAt(calls[i], "row", BoardReply))
  BY CallReplied, Zenon DEF ServerRespond
<1>2. PutFails(i) => Becomes(i, CallAt(calls[i], "reply", ErrorReply))
  BY CallReplied, Zenon DEF PutFails
<1>3. SaveConflicts(i) /\ ~calls[i].job.retried => Becomes(i, CallAt(calls[i], "get", None))
  BY CallReplied, Zenon DEF SaveConflicts
<1>4. RebaseReads(i) => \/ Becomes(i, CallAt(calls[i], "getrow", BoardReply))
                        \/ Becomes(i, CallAt(calls[i], "got", ErrorReply))
  BY CallReplied, Zenon DEF RebaseReads
<1>5. SaveWidgetsRead(i) => Becomes(i, CallAt(calls[i], AfterRead(calls[i].pc),
                                              WidgetsRead(calls[i].reply)))
  BY CallReplied, Zenon DEF SaveWidgetsRead, AfterRead
<1>6. QED BY <1>1, <1>2, <1>3, <1>4, <1>5

(* update_layout refuses a stale version and otherwise writes the row, sends *)
(* its frame and owes the response.                                          *)
OwnFrame(kind, w, version, who) ==
    [kind |-> kind, w |-> w, version |-> version, actor |-> who, mine |-> TRUE]
PutAccepted(i) == /\ srv.version = calls[i].sent
                  /\ srv' = Saved(srv, calls[i].job.layout)
                  /\ frames' = Append(frames, OwnFrame("layout", None, srv'.version,
                                                       calls[i].user))
                  /\ Becomes(i, CallAt(calls[i], "committed", calls[i].reply))
                  /\ harm' = harm \cup {<<x[1], Provenance(calls[i])>> : x \in Damage(calls[i])}
PutRefused(i) == /\ Becomes(i, CallAt(calls[i], "reply", ConflictReply))
                 /\ UNCHANGED <<srv, frames, harm>>
(* ServerPut is one or the other.                                            *)
LEMMA PutEffects ==
  ASSUME calls \in Seq(Calls), NEW i \in DOMAIN calls, ServerPut(i)
  PROVE  PutAccepted(i) \/ PutRefused(i)
<1>1. calls[i] \in Calls
  OBVIOUS
<1>2. CASE srv.version = calls[i].sent
  <2>1. calls' = [calls EXCEPT ![i].pc = "committed"]
    BY <1>2, Zenon DEF ServerPut, VersionMatches
  <2>2. calls' = [calls EXCEPT ![i] = [calls[i] EXCEPT !.pc = "committed"]]
    BY <2>1, Zenon
  <2>3. Becomes(i, CallAt(calls[i], "committed", calls[i].reply))
    BY <1>1, <2>2, CallWhole DEF Becomes
  <2>4. /\ srv' = Saved(srv, calls[i].job.layout)
        /\ frames' = Append(frames, OwnFrame("layout", None, srv'.version, calls[i].user))
        /\ harm' = harm \cup {<<x[1], Provenance(calls[i])>> : x \in Damage(calls[i])}
    BY <1>2, Zenon DEF ServerPut, VersionMatches, Emit, OwnFrame
  <2>5. QED BY <1>2, <2>3, <2>4 DEF PutAccepted
<1>3. CASE srv.version # calls[i].sent
  <2>1. /\ calls' = [calls EXCEPT ![i].pc = "reply", ![i].reply = ConflictReply]
        /\ UNCHANGED <<srv, frames, harm>>
    BY <1>3, Zenon DEF ServerPut, VersionMatches
  <2>2. QED BY <2>1, CallReplied DEF PutRefused
<1>4. QED BY <1>2, <1>3

(* What the steps of a widget request and of a load make of them.            *)
LEMMA WopEffects ==
  ASSUME wop \in Wops
  PROVE  /\ ServerWidget => \/ /\ wop' = WopAt(wop, "reply", ErrorReply)
                               /\ UNCHANGED <<srv, frames>>
                            \/ /\ wop.kind = "add" \/ wop.w \in srv.widgets
                               /\ srv' = IF wop.kind = "add" THEN Added(srv, wop.w)
                                         ELSE Removed(srv, wop.w)
                               /\ frames' = Append(frames, OwnFrame("widgets", wop.w,
                                                                    srv'.version, wop.user))
                               /\ wop' = WopAt(wop, "committed", wop.reply)
         /\ WidgetResponds => wop' = WopAt(wop, "row", BoardReply)
         /\ WidgetWidgetsRead => wop' = WopAt(wop, "reply", WidgetsRead(wop.reply))
         /\ WidgetFails => wop' = WopAt(wop, "reply", ErrorReply)
         /\ WidgetAnswered => wop' = WopAt(wop, "idle", None)
<1>1. ASSUME ServerWidget
      PROVE  \/ /\ wop' = WopAt(wop, "reply", ErrorReply)
                /\ UNCHANGED <<srv, frames>>
             \/ /\ wop.kind = "add" \/ wop.w \in srv.widgets
                /\ srv' = IF wop.kind = "add" THEN Added(srv, wop.w) ELSE Removed(srv, wop.w)
                /\ frames' = Append(frames, OwnFrame("widgets", wop.w, srv'.version, wop.user))
                /\ wop' = WopAt(wop, "committed", wop.reply)
  <2>1. CASE /\ wop' = [wop EXCEPT !.pc = "reply", !.reply = ErrorReply]
             /\ UNCHANGED <<srv, frames>>
    BY <2>1, WopReplied, Zenon
  <2>2. CASE /\ wop.kind = "add" \/ wop.w \in srv.widgets
             /\ srv' = IF wop.kind = "add" THEN Added(srv, wop.w) ELSE Removed(srv, wop.w)
             /\ frames' = Append(frames, OwnFrame("widgets", wop.w, srv'.version, wop.user))
             /\ wop' = [wop EXCEPT !.pc = "committed"]
    <3>1. wop' = WopAt(wop, "committed", wop.reply)
      BY <2>2 DEF Wops, WopAt
    <3>2. QED BY <2>2, <3>1, Zenon
  <2>3. QED BY <1>1, <2>1, <2>2, Zenon DEF ServerWidget, Emit, OwnFrame
<1>2. WidgetResponds => wop' = WopAt(wop, "row", BoardReply)
  BY WopReplied, Zenon DEF WidgetResponds
<1>3. WidgetFails => wop' = WopAt(wop, "reply", ErrorReply)
  BY WopReplied, Zenon DEF WidgetFails
<1>4. WidgetAnswered => wop' = WopAt(wop, "idle", None)
  BY WopReplied, Zenon DEF WidgetAnswered
<1>5. WidgetWidgetsRead => wop' = WopAt(wop, "reply", WidgetsRead(wop.reply))
  BY WopReplied, Zenon DEF WidgetWidgetsRead
<1>6. QED BY <1>1, <1>2, <1>3, <1>4, <1>5

(* A GET reads the row or fails, and a load that starts is sent or queued.   *)
LEMMA LoadEffects ==
  ASSUME load \in Loads
  PROVE  /\ LoadReads => \/ load' = [pc |-> "row", reply |-> BoardReply, queued |-> load.queued]
                         \/ /\ load' = [pc |-> "reply", reply |-> ErrorReply,
                                        queued |-> load.queued]
                            /\ "unread" \in gaps'
         /\ LoadWidgetsRead => load' = [pc |-> "reply", reply |-> WidgetsRead(load.reply),
                                        queued |-> load.queued]
         /\ StartLoad = IF load.pc = "idle"
                        THEN [pc |-> "sent", reply |-> load.reply, queued |-> load.queued]
                        ELSE [pc |-> load.pc, reply |-> load.reply, queued |-> TRUE]
<1>1. LoadReads => \/ load' = [pc |-> "row", reply |-> BoardReply, queued |-> load.queued]
                   \/ /\ load' = [pc |-> "reply", reply |-> ErrorReply, queued |-> load.queued]
                      /\ "unread" \in gaps'
  <2>1. LoadReads => \/ load' = [load EXCEPT !.pc = "row", !.reply = BoardReply]
                     \/ /\ load' = [load EXCEPT !.pc = "reply", !.reply = ErrorReply]
                        /\ gaps' = gaps \cup {"unread"}
    BY Zenon DEF LoadReads
  <2>2. gaps' = gaps \cup {"unread"} => "unread" \in gaps'
    OBVIOUS
  <2>3. QED BY <2>1, <2>2, LoadReplied, Zenon
<1>2. StartLoad = IF load.pc = "idle"
                  THEN [pc |-> "sent", reply |-> load.reply, queued |-> load.queued]
                  ELSE [pc |-> load.pc, reply |-> load.reply, queued |-> TRUE]
  <2>1. [load EXCEPT !.pc = "sent"] = [pc |-> "sent", reply |-> load.reply, queued |-> load.queued]
    BY DEF Loads
  <2>2. ASSUME NEW x
        PROVE  [load EXCEPT !.queued = x] = [pc |-> load.pc, reply |-> load.reply, queued |-> x]
    BY DEF Loads
  <2>3. QED BY <2>1, <2>2, Zenon DEF StartLoad
<1>3. LoadWidgetsRead => load' = [pc |-> "reply", reply |-> WidgetsRead(load.reply),
                                  queued |-> load.queued]
  BY LoadReplied, Zenon DEF LoadWidgetsRead
<1>4. QED BY <1>1, <1>2, <1>3

-----------------------------------------------------------------------------
(* Every answer is a board of the row, a conflict or an error.               *)
LEMMA RepliesMade ==
  ASSUME srv \in Boards
  PROVE  /\ Board(srv) = srv
         /\ BoardReply \in Replies /\ BoardReply.kind = "board" /\ BoardReply.board = srv
         /\ ErrorReply \in Replies /\ ErrorReply.kind = "error"
         /\ ConflictReply \in Replies /\ ConflictReply.kind = "conflict"
<1>1. Board(srv) = srv
  BY DEF Board, Boards
<1>2. QED BY <1>1 DEF BoardReply, ErrorReply, ConflictReply, Replies

(* An answer whose widgets are read stays an answer with that row.           *)
LEMMA WidgetsReadMade ==
  ASSUME srv \in Boards, NEW r \in Replies, r.kind = "board"
  PROVE  /\ WidgetsRead(r) \in Replies /\ WidgetsRead(r).kind = "board"
         /\ WidgetsRead(r).board = [widgets |-> srv.widgets, layout |-> r.board.layout,
                                    version |-> r.board.version]
         /\ WidgetsRead(r).board.widgets = srv.widgets
         /\ WidgetsRead(r).board.version = r.board.version
<1>1. r \in [kind : {"board"}, board : Boards]
  BY DEF Replies
<1>2. PICK b : b = r.board
  BY Zenon
<1>3. b \in Boards /\ r = [kind |-> "board", board |-> b]
  BY <1>1, <1>2
<1>4. PICK d : d = [widgets |-> srv.widgets, layout |-> b.layout, version |-> b.version]
  BY Zenon
<1>5. [b EXCEPT !.widgets = srv.widgets] = d
  BY <1>3, <1>4 DEF Boards
<1>6. WidgetsRead(r) = [r EXCEPT !.board = [b EXCEPT !.widgets = srv.widgets]]
  BY <1>2, Zenon DEF WidgetsRead
<1>7. WidgetsRead(r) = [kind |-> "board", board |-> d]
  BY <1>3, <1>5, <1>6
<1>8. d \in Boards
  BY <1>3, <1>4 DEF Boards
<1>9. QED BY <1>2, <1>4, <1>7, <1>8 DEF Replies

(* An answer has a kind, and a board when it says so.                        *)
LEMMA ReplyForm ==
  ASSUME NEW r \in Replies
  PROVE  /\ r # None
         /\ r.kind \in {"board", "error", "conflict"}
         /\ r.kind = "board" => r.board \in Boards
<1>1. r # None
  BY NoneApart
<1>2. r.kind \in {"board", "error", "conflict"} /\ (r.kind = "board" => r.board \in Boards)
  BY DEF Replies
<1>3. QED BY <1>1, <1>2

(* A call that starts or returns is well formed.                             *)
LEMMA CallsMade ==
  ASSUME TabShape, NEW j \in Jobs, NEW v \in Nat
  PROVE  /\ Put(j, v) \in Calls /\ CallShape(Put(j, v))
         /\ Done \in Calls /\ CallShape(Done)
<1>1. user \in Users /\ gen \in Nat /\ 0 <= gen
  BY LayoutEditorAssumption DEF TabShape
<1>2. Put(j, v) \in Calls /\ Done \in Calls
  BY <1>1 DEF Put, Done, Calls, CallSteps
<1>3. CallShape(Put(j, v)) /\ CallShape(Done)
  BY <1>1 DEF Put, Done, CallShape
<1>4. QED BY <1>2, <1>3

(* A call that moves on keeps its session, layout and version.               *)
LEMMA CallAtMade ==
  ASSUME NEW c \in Calls, NEW p \in CallSteps, NEW x \in Replies \cup {None}
  PROVE  /\ CallAt(c, p, x) \in Calls
         /\ CallAt(c, p, x).pc = p /\ CallAt(c, p, x).reply = x
         /\ CallAt(c, p, x).gen = c.gen /\ CallAt(c, p, x).user = c.user
         /\ CallAt(c, p, x).job = c.job /\ CallAt(c, p, x).sent = c.sent
BY DEF CallAt, Calls

(* A widget request that moves on keeps its session and widget.              *)
LEMMA WopAtMade ==
  ASSUME NEW o \in Wops, NEW p \in WopSteps, NEW x \in Replies \cup {None}
  PROVE  /\ WopAt(o, p, x) \in Wops
         /\ WopAt(o, p, x).pc = p /\ WopAt(o, p, x).reply = x
         /\ WopAt(o, p, x).gen = o.gen /\ WopAt(o, p, x).user = o.user
         /\ WopAt(o, p, x).kind = o.kind /\ WopAt(o, p, x).w = o.w
BY DEF WopAt, Wops

(* One call moves on, in the same session: the calls keep their shape.       *)
LEMMA CallsKept ==
  ASSUME RequestShape, UNCHANGED <<user, gen>>, NEW i \in DOMAIN calls, NEW c \in Calls,
         CallShape(c), Becomes(i, c)
  PROVE  /\ calls' \in Seq(Calls)
         /\ (\A j \in DOMAIN calls : CallShape(calls[j]))'
<1>1. calls \in Seq(Calls) /\ (\A j \in DOMAIN calls : CallShape(calls[j]))
  BY DEF RequestShape
<1>2. /\ calls' \in Seq(Calls) /\ DOMAIN calls' = DOMAIN calls /\ calls'[i] = c
      /\ \A j \in DOMAIN calls : j # i => calls'[j] = calls[j]
  BY <1>1, CallMoved
<1>3. ASSUME NEW d, CallShape(d) PROVE CallShape(d)'
  BY <1>3 DEF CallShape
<1>4. ASSUME NEW j \in DOMAIN calls' PROVE CallShape(calls[j])'
  <2>1. PICK d : d = calls'[j]
    BY Zenon
  <2>2. CallShape(d)
    BY <1>1, <1>2, <2>1
  <2>3. CallShape(d)'
    BY <1>3, <2>2
  <2>4. QED BY <2>1, <2>3 DEF CallShape
<1>5. QED BY <1>2, <1>4

-----------------------------------------------------------------------------
(* A step that does not touch the row, the frames or the list deletion.      *)
RowRests == UNCHANGED <<srv, born, tx, frames, harm>>

(* Every other step leaves them alone, but for a widget id being handed out, *)
(* a list deletion loading the row, and frames being taken or dropped.       *)
LEMMA RowSteps ==
  ASSUME Shapes, Next
  PROVE  \/ RowRests
         \/ \E w \in Widgets : AddWidget(w) \/ ForeignMove(w) \/ ForeignAdd(w)
                               \/ ForeignRemove(w) \/ ListDeleteLoads(w)
         \/ ListDeleteCommits \/ ServerWidget \/ DeliverFrame
         \/ \E i \in DOMAIN calls : ServerPut(i)
         \/ \E u \in Users : Reset(u)
<1>1. ASSUME NEW w \in Widgets, Drag(w) \/ RemoveWidget(w) PROVE RowRests
  BY <1>1 DEF Drag, RemoveWidget, RowRests
<1>2. ASSUME NEW i \in DOMAIN calls, SaveStep(i) PROVE ServerPut(i) \/ RowRests
  <2>1. ServerRespond(i) \/ SaveWidgetsRead(i) \/ PutFails(i) \/ SaveConflicts(i)
          \/ SaveFails(i) \/ SaveLate(i) \/ RebaseReads(i) => RowRests
    BY DEF ServerRespond, SaveWidgetsRead, PutFails, SaveConflicts, SaveFails, SaveLate,
           RebaseReads, RowRests
  <2>2. SaveAccepted(i) => RowRests
    BY DEF SaveAccepted, RowRests
  <2>3. Rebased(i) => RowRests
    BY DEF Rebased, RowRests
  <2>4. QED BY <1>2, <2>1, <2>2, <2>3 DEF SaveStep
<1>3. WidgetResponds \/ WidgetWidgetsRead \/ WidgetFails \/ WidgetAnswered => RowRests
  BY DEF WidgetResponds, WidgetWidgetsRead, WidgetFails, WidgetAnswered, RowRests
<1>4. Refresh \/ Open \/ LoadReads \/ LoadWidgetsRead \/ Loaded \/ ResolveConflict => RowRests
  BY DEF Refresh, Open, LoadReads, LoadWidgetsRead, Loaded, ResolveConflict, RowRests
<1>5. Rest => RowRests
  BY DEF Rest, RowRests, vars
<1>6. QED BY <1>1, <1>2, <1>3, <1>4, <1>5 DEF Next

(* The budgets only count up.                                                *)
LEMMA SpentKept ==
  ASSUME spent \in [foreign : Nat, own : Nat, fails : Nat], Next
  PROVE  spent' \in [foreign : Nat, own : Nat, fails : Nat]
<1>1. Foreign \/ Own \/ Fails \/ UNCHANGED spent =>
        spent' \in [foreign : Nat, own : Nat, fails : Nat]
  BY DEF Foreign, Own, Fails
<1>2. ASSUME NEW w \in Widgets,
             \/ Drag(w) \/ AddWidget(w) \/ RemoveWidget(w)
             \/ ForeignMove(w) \/ ForeignAdd(w) \/ ForeignRemove(w) \/ ListDeleteLoads(w)
      PROVE  Foreign \/ Own \/ UNCHANGED spent
  BY <1>2, Zenon DEF Drag, AddWidget, RemoveWidget, ForeignMove, ForeignAdd, ForeignRemove,
                     ListDeleteLoads
<1>3. ASSUME NEW i \in DOMAIN calls, SaveStep(i) PROVE Fails \/ UNCHANGED spent
  <2>1. ServerPut(i) \/ ServerRespond(i) \/ SaveWidgetsRead(i) \/ SaveAccepted(i)
          \/ SaveConflicts(i) \/ SaveFails(i) \/ SaveLate(i) \/ Rebased(i) => UNCHANGED spent
    BY DEF ServerPut, ServerRespond, SaveWidgetsRead, SaveAccepted, SaveConflicts, SaveFails,
           SaveLate, Rebased
  <2>2. PutFails(i) \/ RebaseReads(i) => Fails \/ UNCHANGED spent
    BY Zenon DEF PutFails, RebaseReads
  <2>3. QED BY <1>3, <2>1, <2>2 DEF SaveStep
<1>4. ListDeleteCommits \/ ServerWidget \/ WidgetResponds \/ WidgetWidgetsRead
        \/ WidgetAnswered \/ DeliverFrame \/ Refresh \/ Open \/ LoadWidgetsRead \/ Loaded
        \/ ResolveConflict \/ Rest => UNCHANGED spent
  BY DEF ListDeleteCommits, ServerWidget, WidgetResponds, WidgetWidgetsRead, WidgetAnswered,
         DeliverFrame, Refresh, Open, LoadWidgetsRead, Loaded, ResolveConflict, Rest, vars
<1>5. WidgetFails \/ LoadReads => Fails \/ UNCHANGED spent
  BY Zenon DEF WidgetFails, LoadReads
<1>6. ASSUME NEW u \in Users, Reset(u) PROVE UNCHANGED spent
  BY <1>6 DEF Reset
<1>7. QED BY <1>1, <1>2, <1>3, <1>4, <1>5, <1>6 DEF Next

(* Each write of the row.                                                    *)
LEMMA RowShapeStep ==
  ASSUME Shapes, Next
  PROVE  RowShape'
<1>1. /\ srv \in Boards /\ born \subseteq Widgets /\ tx \in LoadedRows \cup {None}
      /\ frames \in Seq(Frames)
      /\ spent \in [foreign : Nat, own : Nat, fails : Nat]
      /\ calls \in Seq(Calls) /\ wop \in Wops
      /\ user \in Users
  BY DEF Shapes, RowShape, TabShape, RequestShape
<1>2. spent' \in [foreign : Nat, own : Nat, fails : Nat]
  BY <1>1, SpentKept
<1>3. /\ srv.widgets \in SUBSET Widgets /\ srv.layout \in Layouts /\ srv.version \in Nat
  BY <1>1 DEF Boards
<1>4. ASSUME NEW k \in {"layout", "widgets", "list"}, NEW w \in Widgets \cup {None},
             NEW v \in Nat, NEW a \in Users \cup {"other"}, NEW m \in BOOLEAN
      PROVE  [kind |-> k, w |-> w, version |-> v, actor |-> a, mine |-> m] \in Frames
  BY DEF Frames
<1>5. ASSUME RowRests PROVE RowShape'
  BY <1>1, <1>2, <1>5 DEF RowRests, RowShape
<1>6. ASSUME NEW w \in Widgets, ForeignMove(w) PROVE RowShape'
  <2>1. ForeignStamp \in Positions
    <3>1. spent.foreign \in Nat /\ spent.foreign < MaxForeign
      BY <1>1, <1>6 DEF ForeignMove, Foreign
    <3>2. QED BY <3>1, PositionsKnown DEF ForeignStamp
  <2>2. srv' \in Boards
    BY <1>1, <1>3, <1>6, <2>1, LayoutsWritten, SavedWhole DEF ForeignMove, Boards
  <2>3. frames' \in Seq(Frames)
    <3>1. PICK f : f = [kind |-> "layout", w |-> w, version |-> srv'.version, actor |-> "other",
                        mine |-> FALSE]
      BY Zenon
    <3>2. frames' = Append(frames, f)
      BY <1>6, <3>1, Zenon DEF ForeignMove, Emit
    <3>3. srv'.version \in Nat
      BY <2>2 DEF Boards
    <3>4. f \in Frames
      BY <3>1, <3>3, <1>4
    <3>5. QED BY <1>1, <3>2, <3>4
  <2>4. UNCHANGED <<born, tx>>
    BY <1>6 DEF ForeignMove
  <2>5. QED BY <1>1, <1>2, <2>2, <2>3, <2>4 DEF RowShape
<1>7. ASSUME NEW w \in Widgets, ForeignAdd(w) \/ ForeignRemove(w) PROVE RowShape'
  <2>1. srv' \in Boards
    <3>1. srv' = Added(srv, w) \/ srv' = Removed(srv, w)
      BY <1>7, Zenon DEF ForeignAdd, ForeignRemove
    <3>2. With(srv.layout, w, 0) \in Layouts /\ Without(srv.layout, w) \in Layouts
      BY <1>3, LayoutsWritten, PositionsKnown
    <3>3. QED BY <1>3, <3>1, <3>2 DEF Added, Removed, Boards
  <2>2. frames' \in Seq(Frames)
    <3>1. PICK f : f = [kind |-> "widgets", w |-> w, version |-> srv'.version, actor |-> "other",
                        mine |-> FALSE]
      BY Zenon
    <3>2. frames' = Append(frames, f)
      BY <1>7, <3>1, Zenon DEF ForeignAdd, ForeignRemove, Emit
    <3>3. srv'.version \in Nat
      BY <2>1 DEF Boards
    <3>4. f \in Frames
      BY <3>1, <3>3, <1>4
    <3>5. QED BY <1>1, <3>2, <3>4
  <2>3. born' \subseteq Widgets /\ tx' = tx
    BY <1>1, <1>7 DEF ForeignAdd, ForeignRemove
  <2>4. QED BY <1>1, <1>2, <2>1, <2>2, <2>3 DEF RowShape
<1>8. ASSUME NEW w \in Widgets, AddWidget(w) PROVE RowShape'
  BY <1>1, <1>2, <1>8 DEF AddWidget, RowShape
<1>9. ASSUME NEW w \in Widgets, ListDeleteLoads(w) PROVE RowShape'
  <2>1. tx' \in LoadedRows
    BY <1>3, <1>9 DEF ListDeleteLoads, LoadedRows
  <2>2. QED BY <1>1, <1>2, <1>9, <2>1 DEF ListDeleteLoads, RowShape
<1>10. ASSUME ListDeleteCommits PROVE RowShape'
  <2>1. tx \in LoadedRows
    BY <1>1, <1>10 DEF ListDeleteCommits
  <2>2. tx.w \in Widgets
    BY <2>1, LayoutEditorAssumption DEF LoadedRows
  <2>3. StripResource(srv, tx) \in Boards
    BY <1>1, <1>3, <2>1, <2>2, RowsWritten
  <2>4. srv' \in Boards
    BY <1>1, <1>10, <2>3 DEF ListDeleteCommits
  <2>5. PICK f : f = [kind |-> "list", w |-> tx.w, version |-> 0, actor |-> "other",
                      mine |-> FALSE]
    BY Zenon
  <2>6. frames' = Append(frames, f)
    BY <1>10, <2>5, Zenon DEF ListDeleteCommits, Emit
  <2>7. f \in Frames
    BY <1>4, <2>2, <2>5
  <2>8. frames' \in Seq(Frames)
    BY <1>1, <2>6, <2>7
  <2>9. born' = born /\ tx' = None
    BY <1>10 DEF ListDeleteCommits
  <2>10. QED BY <1>1, <1>2, <2>4, <2>8, <2>9 DEF RowShape
<1>11. ASSUME NEW i \in DOMAIN calls, ServerPut(i) PROVE RowShape'
  <2>1. UNCHANGED <<born, tx>>
    BY <1>11 DEF ServerPut
  <2>2. CASE PutRefused(i)
    BY <1>1, <1>2, <2>1, <2>2 DEF PutRefused, RowShape
  <2>3. CASE PutAccepted(i)
    <3>1. calls[i].pc = "put" /\ CallShape(calls[i]) /\ calls[i] \in Calls
      BY <1>1, <1>11 DEF ServerPut, Shapes, RequestShape
    <3>2. calls[i].job.layout \in Layouts /\ calls[i].user \in Users
      BY <3>1 DEF CallShape, Jobs, Calls
    <3>3. srv' \in Boards
      <4>1. srv \in Boards
        BY <1>1 DEF RowShape
      <4>2. srv' = [widgets |-> srv.widgets, layout |-> calls[i].job.layout,
                    version |-> srv.version + 1]
        BY <2>3, <4>1, SavedWhole DEF PutAccepted
      <4>3. QED BY <3>2, <4>1, <4>2 DEF Boards
    <3>4. PICK f : f = OwnFrame("layout", None, srv'.version, calls[i].user)
      BY Zenon
    <3>5. srv'.version \in Nat
      BY <3>3 DEF Boards
    <3>6. f \in Frames
      BY <1>4, <3>2, <3>4, <3>5 DEF OwnFrame
    <3>7. frames' \in Seq(Frames)
      BY <1>1, <2>3, <3>4, <3>6 DEF PutAccepted
    <3>8. QED BY <1>1, <1>2, <2>1, <3>3, <3>7 DEF RowShape
  <2>4. QED BY <1>1, <1>11, <2>2, <2>3, PutEffects
<1>12. ASSUME ServerWidget PROVE RowShape'
  <2>1. UNCHANGED <<born, tx>>
    BY <1>12 DEF ServerWidget
  <2>2. CASE UNCHANGED <<srv, frames>>
    BY <1>1, <1>2, <2>1, <2>2 DEF RowShape
  <2>3. CASE /\ srv' = IF wop.kind = "add" THEN Added(srv, wop.w) ELSE Removed(srv, wop.w)
             /\ frames' = Append(frames, OwnFrame("widgets", wop.w, srv'.version, wop.user))
    <3>1. wop.w \in Widgets /\ wop.user \in Users
      BY <1>1, <1>12 DEF ServerWidget, Shapes, RequestShape, WopShape, Wops
    <3>2. With(srv.layout, wop.w, 0) \in Layouts /\ Without(srv.layout, wop.w) \in Layouts
      BY <1>3, <3>1, LayoutsWritten, PositionsKnown
    <3>3. Added(srv, wop.w) \in Boards /\ Removed(srv, wop.w) \in Boards
      BY <1>3, <3>1, <3>2 DEF Added, Removed, Boards
    <3>4. srv' \in Boards
      BY <2>3, <3>3
    <3>5. PICK f : f = OwnFrame("widgets", wop.w, srv'.version, wop.user)
      BY Zenon
    <3>6. srv'.version \in Nat
      BY <3>4 DEF Boards
    <3>7. f \in Frames
      BY <1>4, <3>1, <3>5, <3>6 DEF OwnFrame
    <3>8. frames' \in Seq(Frames)
      BY <1>1, <2>3, <3>5, <3>7
    <3>9. QED BY <1>1, <1>2, <2>1, <3>4, <3>8 DEF RowShape
  <2>4. QED BY <1>1, <1>12, <2>2, <2>3, WopEffects
<1>13. ASSUME DeliverFrame PROVE RowShape'
  <2>1. frames # <<>> /\ frames' = Tail(frames) /\ srv' = srv /\ born' = born /\ tx' = tx
    BY <1>13 DEF DeliverFrame
  <2>2. frames' \in Seq(Frames)
    BY <1>1, <2>1
  <2>3. QED BY <1>1, <1>2, <2>1, <2>2 DEF RowShape
<1>14. ASSUME NEW u \in Users, Reset(u) PROVE RowShape'
  <2>1. frames' = <<>> /\ srv' = srv /\ born' = born /\ tx' = tx
    BY <1>14 DEF Reset
  <2>2. QED BY <1>1, <1>2, <2>1 DEF RowShape
<1>15. QED
  BY <1>5, <1>6, <1>7, <1>8, <1>9, <1>10, <1>11, <1>12, <1>13, <1>14, RowSteps

-----------------------------------------------------------------------------
(* The top of the drain's loop sends or returns.                             *)
LEMMA ContinueEffects ==
  ASSUME NEW i, NEW d, NEW p, Continue(i, d, p)
  PROVE  /\ d # None /\ p # None => Becomes(i, Put(p, d.version)) /\ saving' = TRUE
         /\ d = None \/ p = None => Becomes(i, Done) /\ saving' = FALSE
         /\ pending' = None
<1>1. CASE d # None /\ p # None
  <2>1. PICK x : x = IF p # None /\ d # None THEN Put(p, d.version) ELSE Done
    BY Zenon
  <2>2. calls' = [calls EXCEPT ![i] = x] /\ saving' = (p # None /\ d # None) /\ pending' = None
    BY <2>1, Zenon DEF Continue
  <2>3. x = Put(p, d.version)
    BY <1>1, <2>1, Zenon
  <2>4. QED BY <1>1, <2>2, <2>3, Zenon DEF Becomes
<1>2. CASE d = None \/ p = None
  <2>1. PICK x : x = IF p # None /\ d # None THEN Put(p, d.version) ELSE Done
    BY Zenon
  <2>2. calls' = [calls EXCEPT ![i] = x] /\ saving' = (p # None /\ d # None) /\ pending' = None
    BY <2>1, Zenon DEF Continue
  <2>3. x = Done
    BY <1>2, <2>1, Zenon
  <2>4. QED BY <1>2, <2>2, <2>3, Zenon DEF Becomes
<1>3. QED BY <1>1, <1>2

(* An accepted save: its layout and version are taken over, the widgets held *)
(* are kept, and the drain sends what is pending or ends.                    *)
AcceptedBoard(b) ==
    IF dash = None THEN Held(b)
    ELSE [widgets |-> dash.widgets, layout |-> b.layout, version |-> b.version,
          basis |-> IF dash.widgets = b.widgets THEN b.version
                    ELSE Earlier(b.version, dash.basis)]
(* SaveAccepted does that, and records a board older than the held one.      *)
LEMMA AcceptedEffects ==
  ASSUME Shapes, NEW i \in DOMAIN calls, SaveAccepted(i), NEW b, b = calls[i].reply.board
  PROVE  /\ calls[i].pc = "reply" /\ calls[i].gen = gen
         /\ calls[i].reply \in Replies /\ calls[i].reply.kind = "board" /\ b \in Boards
         /\ dash' = AcceptedBoard(b) /\ dash' \in Helds
         /\ dash'.version = b.version
         /\ gaps' = IF Older(b) THEN gaps \cup {"overtaken"} ELSE gaps
         /\ pending # None => Becomes(i, Put(pending, b.version)) /\ saving' = TRUE
         /\ pending = None => Becomes(i, Done) /\ saving' = FALSE
         /\ pending' = None /\ conflict' = FALSE
<1>1. /\ calls[i].pc = "reply" /\ calls[i].gen = gen /\ calls[i].reply.kind = "board"
      /\ conflict' = FALSE
      /\ gaps' = IF Older(b) THEN gaps \cup {"overtaken"} ELSE gaps
  BY Zenon DEF SaveAccepted
<1>2. calls[i] \in Calls /\ CallShape(calls[i]) /\ dash \in Helds \cup {None}
  BY DEF Shapes, RequestShape, TabShape
<1>3. calls[i].reply \in Replies
  BY <1>1, <1>2 DEF CallShape, Calls
<1>4. b \in Boards
  BY <1>1, <1>3, ReplyForm
<1>5. b.widgets \in SUBSET Widgets /\ b.layout \in Layouts /\ b.version \in Nat
  BY <1>4 DEF Boards
<1>6. PICK d : /\ d = IF dash = None THEN Held(b)
                      ELSE [Held(b) EXCEPT !.widgets = dash.widgets,
                                           !.basis = IF dash.widgets = b.widgets THEN @
                                                     ELSE Earlier(@, dash.basis)]
               /\ dash' = d
               /\ Continue(i, d, pending)
  BY Zenon DEF SaveAccepted
<1>7. d = AcceptedBoard(b)
  <2>1. CASE dash = None
    BY <1>6, <2>1, Zenon DEF AcceptedBoard
  <2>2. CASE dash # None
    <3>1. PICK h : h = Held(b)
      BY Zenon
    <3>2. PICK e : e = [h EXCEPT !.widgets = dash.widgets]
      BY Zenon
    <3>3. e = [widgets |-> dash.widgets, layout |-> b.layout, version |-> b.version,
               basis |-> b.version]
      BY <3>1, <3>2 DEF Held
    <3>4. d = [e EXCEPT !.basis = IF dash.widgets = b.widgets THEN @ ELSE Earlier(@, dash.basis)]
      BY <1>6, <2>2, <3>1, <3>2, Zenon
    <3>5. PICK n : n = IF dash.widgets = b.widgets THEN b.version
                       ELSE Earlier(b.version, dash.basis)
      BY Zenon
    <3>6. e.basis = b.version
      BY <3>3
    <3>7. d = [e EXCEPT !.basis = n]
      BY <3>4, <3>5, <3>6, Zenon
    <3>8. d = [widgets |-> dash.widgets, layout |-> b.layout, version |-> b.version,
               basis |-> n]
      BY <3>3, <3>7
    <3>9. QED BY <2>2, <3>5, <3>8, Zenon DEF AcceptedBoard
  <2>3. QED BY <2>1, <2>2
<1>8. d \in Helds /\ d.version = b.version
  <2>1. CASE dash = None
    BY <1>5, <1>7, <2>1 DEF AcceptedBoard, Held, Helds
  <2>2. CASE dash # None
    <3>1. dash.widgets \in SUBSET Widgets /\ dash.basis \in Nat
      BY <1>2, <2>2 DEF Helds
    <3>2. PICK n : n = IF dash.widgets = b.widgets THEN b.version
                       ELSE Earlier(b.version, dash.basis)
      BY Zenon
    <3>3. n \in Nat
      BY <1>5, <3>1, <3>2 DEF Earlier
    <3>4. d = [widgets |-> dash.widgets, layout |-> b.layout, version |-> b.version,
               basis |-> n]
      BY <1>7, <2>2, <3>2, Zenon DEF AcceptedBoard
    <3>5. QED BY <1>5, <3>1, <3>3, <3>4 DEF Helds
  <2>3. QED BY <2>1, <2>2
<1>9. d # None
  BY <1>8, NoneApart
<1>10. /\ pending # None => Becomes(i, Put(pending, b.version)) /\ saving' = TRUE
       /\ pending = None => Becomes(i, Done) /\ saving' = FALSE
       /\ pending' = None
  <2>1. Continue(i, d, pending)
    BY <1>6, Zenon
  <2>2. QED BY <1>8, <1>9, <2>1, ContinueEffects
<1>11. dash' = d
  BY <1>6, Zenon
<1>12. QED BY <1>1, <1>3, <1>4, <1>7, <1>8, <1>10, <1>11

(* A rebase: the version read is taken over, and the merged layout is sent   *)
(* with it unless a later drag is pending.                                   *)
Merged(c) == [layout |-> RebaseLayout(c.reply.board.layout, c.job.layout), retried |-> TRUE,
              basis |-> c.reply.board.version, mine |-> c.job.mine]
(* Rebased does that when the row could be read.                             *)
LEMMA RebasedEffects ==
  ASSUME Shapes, NEW i \in DOMAIN calls, Rebased(i), calls[i].reply.kind = "board",
         NEW b, b = calls[i].reply.board
  PROVE  /\ calls[i].pc = "got" /\ calls[i].gen = gen /\ calls[i].reply \in Replies
         /\ b \in Boards
         /\ Merged(calls[i]) \in Jobs
         /\ dash' = IF dash = None THEN None ELSE [dash EXCEPT !.version = b.version]
         /\ gaps' = IF Older(b) THEN gaps \cup {"overtaken"} ELSE gaps
         /\ dash # None => /\ saving' = TRUE
                           /\ pending # None => Becomes(i, Put(pending, b.version))
                           /\ pending = None => Becomes(i, Put(Merged(calls[i]), b.version))
         /\ dash = None => Becomes(i, Done) /\ saving' = FALSE
         /\ pending' = None /\ conflict' = conflict
<1>1. /\ calls[i].pc = "got" /\ calls[i].gen = gen
      /\ conflict' = conflict
      /\ gaps' = IF Older(b) THEN gaps \cup {"overtaken"} ELSE gaps
      /\ dash' = IF dash = None THEN None ELSE [dash EXCEPT !.version = b.version]
  BY Zenon DEF Rebased
<1>2. calls[i] \in Calls /\ CallShape(calls[i]) /\ dash \in Helds \cup {None}
  BY DEF Shapes, RequestShape, TabShape
<1>3. calls[i].reply \in Replies /\ calls[i].job \in Jobs
  BY <1>1, <1>2 DEF CallShape, Calls
<1>4. b \in Boards
  BY <1>3, ReplyForm
<1>5. b.layout \in Layouts /\ b.version \in Nat
  BY <1>4 DEF Boards
<1>6. Merged(calls[i]) \in Jobs
  <2>1. calls[i].job.layout \in Layouts /\ calls[i].job.mine \in SUBSET Widgets
    BY <1>3 DEF Jobs
  <2>2. RebaseLayout(b.layout, calls[i].job.layout) \in Layouts
    BY <1>5, <2>1, LayoutsMerged
  <2>3. QED BY <1>5, <2>1, <2>2 DEF Merged, Jobs
<1>7. PICK d, m : /\ d = IF dash = None THEN None ELSE [dash EXCEPT !.version = b.version]
                  /\ m = Merged(calls[i])
                  /\ Continue(i, d, IF pending # None THEN pending ELSE m)
  BY Zenon DEF Rebased, Merged
<1>8. m # None
  BY <1>6, <1>7, NoneApart
<1>9. dash # None => d # None /\ d.version = b.version
  <2>1. ASSUME dash # None PROVE d \in Helds /\ d.version = b.version
    BY <1>2, <1>5, <1>7, <2>1 DEF Helds
  <2>2. QED BY <2>1, NoneApart
<1>10. dash = None => d = None
  BY <1>7, Zenon
<1>11. PICK q : q = IF pending # None THEN pending ELSE m
  BY Zenon
<1>12. /\ q # None
       /\ pending # None => q = pending
       /\ pending = None => q = Merged(calls[i])
  BY <1>7, <1>8, <1>11, Zenon
<1>13. Continue(i, d, q)
  BY <1>7, <1>11, Zenon
<1>14. /\ dash # None => Becomes(i, Put(q, b.version)) /\ saving' = TRUE
       /\ dash = None => Becomes(i, Done) /\ saving' = FALSE
       /\ pending' = None
  BY <1>9, <1>10, <1>12, <1>13, ContinueEffects
<1>15. QED BY <1>1, <1>3, <1>4, <1>6, <1>12, <1>14

(* A drag: what the grid shows with one widget moved becomes the draft, and  *)
(* is sent or left for the drain under way.                                  *)
DragJob(w) == [layout |-> GridReport(Shown.layout, w, Len(calls) + 1), retried |-> FALSE,
               basis |-> Shown.basis, mine |-> Shown.mine \cup {w}]
(* What the grid shows is a layout.                                          *)
LEMMA ShownForm ==
  ASSUME TabShape, dash # None
  PROVE  Shown.layout \in Layouts /\ Shown.mine \in SUBSET Widgets /\ Shown.basis \in Nat
<1>1. dash \in Helds /\ draft \in Drafts \cup {None}
  BY DEF TabShape
<1>2. dash.layout \in Layouts /\ dash.basis \in Nat
  BY <1>1 DEF Helds
<1>3. draft # None => draft.layout \in Layouts /\ draft.mine \in SUBSET Widgets
                      /\ draft.basis \in Nat
  BY <1>1 DEF Drafts
<1>4. CASE draft # None /\ draft.base = dash.version
  <2>1. /\ Shown.layout = draft.layout /\ Shown.mine = draft.mine
        /\ Shown.basis = Earlier(draft.basis, dash.basis)
    BY <1>4 DEF Shown
  <2>2. QED BY <1>2, <1>3, <1>4, <2>1 DEF Earlier
<1>5. CASE ~(draft # None /\ draft.base = dash.version)
  <2>1. Shown.layout = dash.layout /\ Shown.mine = {} /\ Shown.basis = dash.basis
    BY <1>5 DEF Shown
  <2>2. QED BY <1>2, <2>1
<1>6. QED BY <1>4, <1>5

(* Drag does that.                                                           *)
LEMMA DragEffects ==
  ASSUME Shapes, NEW w \in Widgets, Drag(w)
  PROVE  /\ dash \in Helds /\ w \in dash.widgets
         /\ DragJob(w) \in Jobs /\ DragJob(w).retried = FALSE
         /\ draft' = [layout |-> DragJob(w).layout, base |-> dash.version,
                      mine |-> DragJob(w).mine, basis |-> DragJob(w).basis]
         /\ draft' \in Drafts
         /\ saving => calls' = Append(calls, Done) /\ pending' = DragJob(w)
         /\ ~saving => calls' = Append(calls, Put(DragJob(w), dash.version)) /\ pending' = None
         /\ saving' = TRUE
<1>1. dash \in Helds /\ w \in dash.widgets /\ saving' = TRUE /\ Len(calls) < MaxDrags
  BY Zenon DEF Drag, Shapes, TabShape
<1>2. dash # None /\ dash.version \in Nat
  BY <1>1, NoneApart DEF Helds
<1>3. Len(calls) + 1 \in Positions
  BY <1>1, PositionsKnown DEF Shapes, RequestShape
<1>4. Shown.layout \in Layouts /\ Shown.mine \in SUBSET Widgets /\ Shown.basis \in Nat
  BY <1>2, ShownForm DEF Shapes
<1>5. GridReport(Shown.layout, w, Len(calls) + 1) \in Layouts
  BY <1>1, <1>3, <1>4, LayoutReported
<1>6. DragJob(w) \in Jobs /\ DragJob(w).retried = FALSE
  BY <1>4, <1>5 DEF DragJob, Jobs
<1>7. draft' = [layout |-> DragJob(w).layout, base |-> dash.version,
                mine |-> DragJob(w).mine, basis |-> DragJob(w).basis]
  BY DEF Drag, DragJob
<1>8. draft' \in Drafts
  BY <1>2, <1>6, <1>7 DEF Drafts, Jobs
<1>9. saving => calls' = Append(calls, Done) /\ pending' = DragJob(w)
  BY Zenon DEF Drag, DragJob
<1>10. ~saving => calls' = Append(calls, Put(DragJob(w), dash.version)) /\ pending' = None
  BY Zenon DEF Drag, DragJob
<1>11. QED BY <1>1, <1>6, <1>7, <1>8, <1>9, <1>10

(* A board read becomes the held one.                                        *)
LEMMA HeldMade ==
  ASSUME NEW b \in Boards
  PROVE  /\ Held(b) \in Helds /\ Held(b) # None
         /\ Held(b).widgets = b.widgets /\ Held(b).layout = b.layout
         /\ Held(b).version = b.version /\ Held(b).basis = b.version
<1>1. /\ Held(b) \in Helds
      /\ Held(b).widgets = b.widgets /\ Held(b).layout = b.layout
      /\ Held(b).version = b.version /\ Held(b).basis = b.version
  BY DEF Held, Helds, Boards
<1>2. QED BY <1>1, NoneApart

(* A list's widget leaves the held board, whose version counts up.           *)
LEMMA DropMade ==
  ASSUME NEW d \in Helds, NEW w
  PROVE  /\ DropResource(d, w) \in Helds
         /\ DropResource(d, w).basis = d.basis
         /\ w \in d.widgets => /\ DropResource(d, w).version = d.version + 1
                               /\ DropResource(d, w).widgets = d.widgets \ {w}
                               /\ DropResource(d, w).layout = Without(d.layout, w)
         /\ w \notin d.widgets => DropResource(d, w) = d
<1>1. /\ d.widgets \in SUBSET Widgets /\ d.layout \in Layouts
      /\ d.version \in Nat /\ d.basis \in Nat
  BY DEF Helds
<1>2. CASE w \notin d.widgets
  BY <1>2 DEF DropResource
<1>3. CASE w \in d.widgets
  <2>1. DropResource(d, w) = [widgets |-> d.widgets \ {w}, layout |-> Without(d.layout, w),
                              version |-> d.version + 1, basis |-> d.basis]
    BY <1>3, DropWhole
  <2>2. Without(d.layout, w) \in Layouts
    <3>1. w \in Widgets
      BY <1>1, <1>3
    <3>2. QED BY <1>1, <3>1, LayoutsWritten, PositionsKnown
  <2>3. QED BY <1>1, <1>3, <2>1, <2>2 DEF Helds
<1>4. QED BY <1>2, <1>3

(* The answers that replace the held board.                                  *)
LEMMA AnswerEffects ==
  ASSUME Shapes
  PROVE  /\ WidgetAnswered =>
              /\ wop.pc = "reply" /\ wop.reply \in Replies
              /\ wop.reply.kind = "board" => wop.reply.board \in Boards
              /\ wop.gen = gen /\ wop.reply.kind = "board" =>
                   /\ dash' = Held(wop.reply.board)
                   /\ gaps' = IF Older(wop.reply.board) THEN gaps \cup {"overtaken"} ELSE gaps
              /\ ~(wop.gen = gen /\ wop.reply.kind = "board") =>
                   /\ dash' = dash
                   /\ gaps' = IF wop.reply.kind = "board" /\ wop.user = user
                              THEN gaps \cup {"guarded"} ELSE gaps
         /\ Loaded =>
              /\ load.pc = "reply" /\ load.reply \in Replies
              /\ load.reply.kind = "board" =>
                   /\ load.reply.board \in Boards
                   /\ dash' = Held(load.reply.board)
                   /\ conflict' = FALSE
                   /\ gaps' = IF Older(load.reply.board) THEN gaps \cup {"overtaken"} ELSE gaps
              /\ load.reply.kind # "board" => UNCHANGED <<dash, conflict, gaps>>
<1>1. /\ wop \in Wops /\ WopShape(wop) /\ load \in Loads /\ LoadShape(load)
  BY DEF Shapes, RequestShape
<1>2. wop.pc = "reply" => wop.reply \in Replies
  BY <1>1 DEF WopShape, Wops
<1>3. load.pc = "reply" => load.reply \in Replies
  BY <1>1 DEF LoadShape, Loads
<1>4. ASSUME WidgetAnswered
      PROVE  /\ wop.pc = "reply" /\ wop.reply \in Replies
             /\ wop.reply.kind = "board" => wop.reply.board \in Boards
             /\ wop.gen = gen /\ wop.reply.kind = "board" =>
                  /\ dash' = Held(wop.reply.board)
                  /\ gaps' = IF Older(wop.reply.board) THEN gaps \cup {"overtaken"} ELSE gaps
             /\ ~(wop.gen = gen /\ wop.reply.kind = "board") =>
                  /\ dash' = dash
                  /\ gaps' = IF wop.reply.kind = "board" /\ wop.user = user
                             THEN gaps \cup {"guarded"} ELSE gaps
  <2>1. wop.pc = "reply"
    BY <1>4 DEF WidgetAnswered
  <2>2. wop.reply \in Replies /\ (wop.reply.kind = "board" => wop.reply.board \in Boards)
    BY <1>2, <2>1, ReplyForm
  <2>3. QED BY <1>4, <2>1, <2>2, Zenon DEF WidgetAnswered
<1>5. ASSUME Loaded
      PROVE  /\ load.pc = "reply" /\ load.reply \in Replies
             /\ load.reply.kind = "board" =>
                  /\ load.reply.board \in Boards
                  /\ dash' = Held(load.reply.board)
                  /\ conflict' = FALSE
                  /\ gaps' = IF Older(load.reply.board) THEN gaps \cup {"overtaken"} ELSE gaps
             /\ load.reply.kind # "board" => UNCHANGED <<dash, conflict, gaps>>
  <2>1. load.pc = "reply"
    BY <1>5 DEF Loaded
  <2>2. load.reply \in Replies /\ (load.reply.kind = "board" => load.reply.board \in Boards)
    BY <1>3, <2>1, ReplyForm
  <2>3. QED BY <1>5, <2>1, <2>2, Zenon DEF Loaded
<1>6. QED BY <1>4, <1>5

(* A frame that is delivered.                                                *)
LEMMA DeliveryEffects ==
  ASSUME Shapes, DeliverFrame
  PROVE  /\ frames # <<>> /\ frames' = Tail(frames) /\ Head(frames) \in Frames
         /\ \/ /\ Head(frames).kind = "list"
               /\ dash' = IF dash = None THEN None ELSE DropResource(dash, Head(frames).w)
               /\ due' = due
            \/ /\ Head(frames).kind \in {"layout", "widgets"}
               /\ due' = (due \/ (dash # None /\ ~Skips(Head(frames))))
               /\ dash' = dash
         /\ gaps \subseteq gaps' /\ gaps' \subseteq gaps \cup {"unheld", "overtaken"}
         /\ dash = None => "unheld" \in gaps'
         /\ Head(frames).kind = "list" /\ Answers # {} => "overtaken" \in gaps'
<1>1. frames # <<>> /\ frames' = Tail(frames)
  BY DEF DeliverFrame
<1>2. Head(frames) \in Frames
  BY <1>1 DEF Shapes, RowShape
<1>3. \/ /\ Head(frames).kind = "list"
         /\ dash' = IF dash = None THEN None ELSE DropResource(dash, Head(frames).w)
         /\ due' = due
      \/ /\ Head(frames).kind \in {"layout", "widgets"}
         /\ due' = (due \/ (dash # None /\ ~Skips(Head(frames))))
         /\ dash' = dash
  BY Zenon DEF DeliverFrame
<1>4. PICK A, B : /\ A = (IF dash = None THEN {"unheld"} ELSE {})
                  /\ B = (IF Head(frames).kind = "list" /\ Answers # {} THEN {"overtaken"} ELSE {})
                  /\ gaps' = gaps \cup A \cup B
  BY Zenon DEF DeliverFrame
<1>5. /\ A \subseteq {"unheld"} /\ B \subseteq {"overtaken"}
      /\ dash = None => "unheld" \in A
      /\ Head(frames).kind = "list" /\ Answers # {} => "overtaken" \in B
  BY <1>4
<1>6. QED BY <1>1, <1>2, <1>3, <1>4, <1>5

-----------------------------------------------------------------------------
(* Steps that leave the store's own state alone.                             *)
StoreRests == UNCHANGED <<user, gen, dash, draft, pending, saving>>
(* The others are a drag, a save's answer, a board or a frame that arrives,  *)
(* and the end of a session.                                                 *)
LEMMA StoreSteps ==
  ASSUME Next
  PROVE  \/ StoreRests
         \/ \E w \in Widgets : Drag(w)
         \/ \E i \in DOMAIN calls : \/ SaveAccepted(i) \/ SaveConflicts(i) \/ SaveFails(i)
                                    \/ SaveLate(i) \/ Rebased(i)
         \/ WidgetAnswered \/ DeliverFrame \/ Loaded
         \/ \E u \in Users : Reset(u)
<1>1. ASSUME NEW w \in Widgets,
             \/ AddWidget(w) \/ RemoveWidget(w)
             \/ ForeignMove(w) \/ ForeignAdd(w) \/ ForeignRemove(w) \/ ListDeleteLoads(w)
      PROVE  StoreRests
  BY <1>1 DEF AddWidget, RemoveWidget, ForeignMove, ForeignAdd, ForeignRemove, ListDeleteLoads,
              tab, StoreRests
<1>2. ASSUME NEW i \in DOMAIN calls,
             \/ ServerPut(i) \/ ServerRespond(i) \/ SaveWidgetsRead(i) \/ PutFails(i)
             \/ RebaseReads(i)
      PROVE  StoreRests
  BY <1>2 DEF ServerPut, ServerRespond, SaveWidgetsRead, PutFails, RebaseReads, StoreRests
<1>3. ListDeleteCommits \/ Rest => StoreRests
  BY DEF ListDeleteCommits, Rest, tab, vars, StoreRests
<1>4. ServerWidget \/ WidgetResponds \/ WidgetWidgetsRead \/ WidgetFails => StoreRests
  BY DEF ServerWidget, WidgetResponds, WidgetWidgetsRead, WidgetFails, StoreRests
<1>5. Refresh \/ Open \/ LoadReads \/ LoadWidgetsRead \/ ResolveConflict => StoreRests
  BY DEF Refresh, Open, LoadReads, LoadWidgetsRead, ResolveConflict, StoreRests
<1>6. QED BY <1>1, <1>2, <1>3, <1>4, <1>5 DEF Next, SaveStep

(* The flags and the history of a step.                                      *)
LEMMA FlagsKept ==
  ASSUME Shapes, Next
  PROVE  due' \in BOOLEAN /\ conflict' \in BOOLEAN /\ gaps' \subseteq Gaps /\ gaps \subseteq gaps'
<1> DEFINE Flags == due' \in BOOLEAN /\ conflict' \in BOOLEAN /\ gaps' \subseteq Gaps
                    /\ gaps \subseteq gaps'
<1>1. due \in BOOLEAN /\ conflict \in BOOLEAN /\ gaps \subseteq Gaps
  BY DEF Shapes, TabShape
<1>2. /\ "raced" \in Gaps /\ "lost" \in Gaps /\ "overtaken" \in Gaps /\ "unread" \in Gaps
      /\ "unheld" \in Gaps /\ "guarded" \in Gaps /\ "torn" \in Gaps
  BY DEF Gaps
<1>3. ASSUME NEW w \in Widgets,
             \/ Drag(w) \/ AddWidget(w) \/ RemoveWidget(w)
             \/ ForeignMove(w) \/ ForeignAdd(w) \/ ForeignRemove(w) \/ ListDeleteLoads(w)
      PROVE  Flags
  <2>1. UNCHANGED <<due, conflict, gaps>>
    BY <1>3 DEF Drag, AddWidget, RemoveWidget, ForeignMove, ForeignAdd, ForeignRemove,
                ListDeleteLoads, tab
  <2>2. QED BY <1>1, <2>1
<1>4. ASSUME NEW i \in DOMAIN calls, SaveStep(i) PROVE Flags
  <2>1. CASE ServerPut(i) \/ ServerRespond(i) \/ SaveFails(i) \/ RebaseReads(i)
    BY <1>1, <2>1 DEF ServerPut, ServerRespond, SaveFails, RebaseReads
  <2>2. CASE PutFails(i)
    BY <1>1, <1>2, <2>2 DEF PutFails
  <2>3. CASE SaveAccepted(i)
    BY <1>1, <1>2, <2>3 DEF SaveAccepted
  <2>4. CASE SaveConflicts(i)
    BY <1>1, <1>2, <2>4 DEF SaveConflicts
  <2>5. CASE SaveLate(i)
    BY <1>1, <1>2, <2>5 DEF SaveLate
  <2>6. CASE Rebased(i)
    <3>1. due' = due
      BY <2>6 DEF Rebased
    <3>2. conflict' \in {conflict, TRUE} /\ gaps' \in {gaps, gaps \cup {"overtaken"}}
      BY <2>6 DEF Rebased
    <3>3. QED BY <1>1, <1>2, <3>1, <3>2
  <2>7. CASE SaveWidgetsRead(i)
    BY <1>1, <1>2, <2>7 DEF SaveWidgetsRead, TornGap
  <2>8. QED BY <1>4, <2>1, <2>2, <2>3, <2>4, <2>5, <2>6, <2>7 DEF SaveStep
<1>5. ASSUME ListDeleteCommits PROVE Flags
  BY <1>1, <1>2, <1>5 DEF ListDeleteCommits, tab
<1>6. ASSUME ServerWidget \/ WidgetResponds \/ Refresh \/ Open \/ ResolveConflict PROVE Flags
  BY <1>1, <1>6 DEF ServerWidget, WidgetResponds, Refresh, Open, ResolveConflict
<1>7. ASSUME WidgetFails PROVE Flags
  BY <1>1, <1>2, <1>7 DEF WidgetFails
<1>8. ASSUME WidgetAnswered PROVE Flags
  BY <1>1, <1>2, <1>8 DEF WidgetAnswered
<1>9. ASSUME DeliverFrame PROVE Flags
  <2>1. conflict' = conflict
    BY <1>9 DEF DeliverFrame
  <2>2. due' \in BOOLEAN
    BY <1>1, <1>9, DeliveryEffects
  <2>3. gaps \subseteq gaps' /\ gaps' \subseteq gaps \cup {"unheld", "overtaken"}
    BY <1>9, DeliveryEffects
  <2>4. QED BY <1>1, <1>2, <2>1, <2>2, <2>3
<1>10. ASSUME LoadReads PROVE Flags
  BY <1>1, <1>2, <1>10 DEF LoadReads
<1>11. ASSUME Loaded PROVE Flags
  BY <1>1, <1>2, <1>11 DEF Loaded
<1>12. ASSUME NEW u \in Users, Reset(u) PROVE Flags
  BY <1>1, <1>12 DEF Reset
<1>13. ASSUME Rest PROVE Flags
  BY <1>1, <1>13 DEF Rest, vars, tab
<1>14. ASSUME WidgetWidgetsRead \/ LoadWidgetsRead PROVE Flags
  BY <1>1, <1>2, <1>14 DEF WidgetWidgetsRead, LoadWidgetsRead, TornGap
<1>15. QED
  BY <1>3, <1>4, <1>5, <1>6, <1>7, <1>8, <1>9, <1>10, <1>11, <1>12, <1>13, <1>14 DEF Next

(* The held board, the draft and the pending layout keep their shapes.       *)
LEMMA TabShapeStep ==
  ASSUME Shapes, Next
  PROVE  TabShape'
<1>1. TabShape
  BY DEF Shapes
<1>2. due' \in BOOLEAN /\ conflict' \in BOOLEAN /\ gaps' \subseteq Gaps
  BY FlagsKept
<1>3. CASE StoreRests
  BY <1>1, <1>2, <1>3 DEF StoreRests, TabShape
<1>4. ASSUME NEW w \in Widgets, Drag(w) PROVE TabShape'
  <2>1. draft' \in Drafts /\ pending' \in Jobs \cup {None} /\ saving' = TRUE
    BY <1>4, DragEffects DEF Shapes, TabShape
  <2>2. UNCHANGED <<user, gen, dash>>
    BY <1>4 DEF Drag
  <2>3. QED BY <1>1, <1>2, <2>1, <2>2 DEF TabShape
<1>5. ASSUME NEW i \in DOMAIN calls, SaveAccepted(i) PROVE TabShape'
  <2>1. dash' \in Helds /\ saving' \in BOOLEAN /\ pending' = None
    BY <1>5, AcceptedEffects
  <2>2. UNCHANGED <<user, gen, draft>>
    BY <1>5 DEF SaveAccepted
  <2>3. QED BY <1>1, <1>2, <2>1, <2>2 DEF TabShape
<1>6. ASSUME NEW i \in DOMAIN calls, SaveConflicts(i) \/ SaveFails(i) PROVE TabShape'
  <2>1. UNCHANGED <<user, gen, draft, dash>>
    BY <1>6 DEF SaveConflicts, SaveFails
  <2>2. saving' \in {saving, FALSE} /\ pending' \in {pending, None}
    BY <1>6 DEF SaveConflicts, SaveFails, Leave
  <2>3. QED BY <1>1, <1>2, <2>1, <2>2 DEF TabShape
<1>7. ASSUME NEW i \in DOMAIN calls, SaveLate(i) PROVE TabShape'
  <2>1. UNCHANGED <<user, gen, draft, dash, saving>>
    BY <1>7 DEF SaveLate, LeaveLate
  <2>2. pending' \in {pending, None}
    BY <1>7 DEF SaveLate
  <2>3. QED BY <1>1, <1>2, <2>1, <2>2 DEF TabShape
<1>8. ASSUME NEW i \in DOMAIN calls, Rebased(i) PROVE TabShape'
  <2>1. UNCHANGED <<user, gen, draft>>
    BY <1>8 DEF Rebased
  <2>2. CASE calls[i].reply.kind = "board"
    <3>1. PICK b : b = calls[i].reply.board
      BY Zenon
    <3>2. /\ b \in Boards /\ saving' \in BOOLEAN /\ pending' = None
          /\ dash' = IF dash = None THEN None ELSE [dash EXCEPT !.version = b.version]
      BY <1>8, <2>2, <3>1, RebasedEffects
    <3>3. dash' \in Helds \cup {None}
      BY <1>1, <3>2 DEF TabShape, Helds, Boards
    <3>4. QED BY <1>1, <1>2, <2>1, <3>2, <3>3 DEF TabShape
  <2>3. CASE calls[i].reply.kind # "board"
    <3>1. dash' = dash /\ saving' = FALSE /\ pending' = None
      BY <1>8, <2>3, Zenon DEF Rebased, Leave
    <3>2. QED BY <1>1, <1>2, <2>1, <3>1 DEF TabShape
  <2>4. QED BY <2>2, <2>3
<1>9. ASSUME WidgetAnswered PROVE TabShape'
  <2>1. UNCHANGED <<user, gen, draft, pending, saving>>
    BY <1>9 DEF WidgetAnswered
  <2>2. dash' \in Helds \cup {None}
    BY <1>1, <1>9, AnswerEffects, HeldMade DEF TabShape
  <2>3. QED BY <1>1, <1>2, <2>1, <2>2 DEF TabShape
<1>10. ASSUME Loaded PROVE TabShape'
  <2>1. UNCHANGED <<user, gen, draft, pending, saving>>
    BY <1>10 DEF Loaded
  <2>2. dash' \in Helds \cup {None}
    BY <1>1, <1>10, AnswerEffects, HeldMade DEF TabShape
  <2>3. QED BY <1>1, <1>2, <2>1, <2>2 DEF TabShape
<1>11. ASSUME DeliverFrame PROVE TabShape'
  <2>1. UNCHANGED <<user, gen, draft, pending, saving>>
    BY <1>11 DEF DeliverFrame
  <2>2. dash' \in Helds \cup {None}
    BY <1>1, <1>11, DeliveryEffects, DropMade DEF TabShape
  <2>3. QED BY <1>1, <1>2, <2>1, <2>2 DEF TabShape
<1>12. ASSUME NEW u \in Users, Reset(u) PROVE TabShape'
  <2>1. /\ gen < MaxSessions /\ gen' = gen + 1 /\ user' = u /\ dash' = None /\ draft' = None
        /\ pending' = None /\ saving' = FALSE
    BY <1>12 DEF Reset
  <2>2. gen' \in 1..MaxSessions
    BY <1>1, <2>1, LayoutEditorAssumption DEF TabShape
  <2>3. QED BY <1>2, <2>1, <2>2 DEF TabShape
<1>13. QED
  BY <1>3, <1>4, <1>5, <1>6, <1>7, <1>8, <1>9, <1>10, <1>11, <1>12, StoreSteps

(* A call's next shape: what it answers with and where it goes.              *)
LEMMA CallShapes ==
  ASSUME Shapes, NEW i \in DOMAIN calls, SaveStep(i)
  PROVE  \E c \in Calls : CallShape(c) /\ Becomes(i, c)
<1>1. /\ calls \in Seq(Calls) /\ calls[i] \in Calls /\ CallShape(calls[i]) /\ TabShape
      /\ srv \in Boards
  BY DEF Shapes, RequestShape, RowShape
<1>2. /\ BoardReply \in Replies /\ BoardReply.kind = "board"
      /\ ErrorReply \in Replies /\ ErrorReply.kind = "error"
      /\ ConflictReply \in Replies
      /\ BoardReply # None /\ ErrorReply # None /\ ConflictReply # None
  BY <1>1, RepliesMade, ReplyForm
<1>3. ASSUME NEW p \in CallSteps, NEW x \in Replies \cup {None}
      PROVE  /\ CallAt(calls[i], p, x) \in Calls
             /\ CallAt(calls[i], p, x).pc = p /\ CallAt(calls[i], p, x).reply = x
             /\ CallAt(calls[i], p, x).gen = calls[i].gen
             /\ CallAt(calls[i], p, x).user = calls[i].user
             /\ CallAt(calls[i], p, x).job = calls[i].job
  BY <1>1, CallAtMade
<1>4. /\ "committed" \in CallSteps /\ "row" \in CallSteps /\ "reply" \in CallSteps
      /\ "get" \in CallSteps /\ "getrow" \in CallSteps /\ "got" \in CallSteps
  BY DEF CallSteps
<1>5. CASE ServerPut(i)
  <2>1. calls[i].pc = "put"
    BY <1>5 DEF ServerPut
  <2>2. calls[i].reply = None /\ calls[i].job \in Jobs
    BY <1>1, <2>1 DEF CallShape
  <2>3. CASE PutAccepted(i)
    <3>1. CallShape(CallAt(calls[i], "committed", calls[i].reply))
      BY <1>1, <1>3, <1>4, <2>1, <2>2 DEF CallShape
    <3>2. QED BY <1>3, <1>4, <2>2, <2>3, <3>1 DEF PutAccepted
  <2>4. CASE PutRefused(i)
    <3>1. CallShape(CallAt(calls[i], "reply", ConflictReply))
      BY <1>1, <1>2, <1>3, <1>4, <2>1, <2>2 DEF CallShape
    <3>2. QED BY <1>2, <1>3, <1>4, <2>4, <3>1 DEF PutRefused
  <2>5. QED BY <1>1, <1>5, <2>3, <2>4, PutEffects
<1>6. CASE ServerRespond(i)
  <2>1. calls[i].pc = "committed"
    BY <1>6 DEF ServerRespond
  <2>2. CallShape(CallAt(calls[i], "row", BoardReply))
    BY <1>1, <1>2, <1>3, <1>4, <2>1 DEF CallShape
  <2>3. QED BY <1>1, <1>2, <1>3, <1>4, <1>6, <2>2, CallEffects
<1>7. CASE PutFails(i)
  <2>1. calls[i].pc \in {"put", "committed"}
    BY <1>7 DEF PutFails
  <2>2. CallShape(CallAt(calls[i], "reply", ErrorReply))
    BY <1>1, <1>2, <1>3, <1>4, <2>1 DEF CallShape
  <2>3. QED BY <1>1, <1>2, <1>3, <1>4, <1>7, <2>2, CallEffects
<1>8. CASE RebaseReads(i)
  <2>1. calls[i].pc = "get"
    BY <1>8 DEF RebaseReads
  <2>2. CallShape(CallAt(calls[i], "getrow", BoardReply))
    BY <1>1, <1>2, <1>3, <1>4, <2>1 DEF CallShape
  <2>3. CallShape(CallAt(calls[i], "got", ErrorReply))
    BY <1>1, <1>2, <1>3, <1>4, <2>1 DEF CallShape
  <2>4. QED BY <1>1, <1>2, <1>3, <1>4, <1>8, <2>2, <2>3, CallEffects
<1>9. Done \in Calls /\ CallShape(Done)
  <2>1. user \in Users /\ gen \in Nat /\ 0 <= gen
    BY <1>1, LayoutEditorAssumption DEF TabShape
  <2>2. QED BY <2>1 DEF Done, Calls, CallSteps, CallShape
<1>10. CASE SaveConflicts(i)
  <2>1. CASE calls[i].job.retried
    <3>1. Becomes(i, Done)
      BY <1>10, <2>1, Zenon DEF SaveConflicts, Leave, Becomes
    <3>2. QED BY <1>9, <3>1
  <2>2. CASE ~calls[i].job.retried
    <3>1. calls[i].pc = "reply"
      BY <1>10 DEF SaveConflicts
    <3>2. CallShape(CallAt(calls[i], "get", None))
      BY <1>1, <1>3, <1>4, <2>2, <3>1 DEF CallShape
    <3>3. QED BY <1>1, <1>3, <1>4, <1>10, <2>2, <3>2, CallEffects
  <2>3. QED BY <2>1, <2>2
<1>11. CASE SaveFails(i) \/ SaveLate(i)
  <2>1. Becomes(i, Done)
    BY <1>11, Zenon DEF SaveFails, SaveLate, Leave, LeaveLate, Becomes
  <2>2. QED BY <1>9, <2>1
<1>12. CASE SaveAccepted(i)
  <2>1. PICK b : b = calls[i].reply.board
    BY Zenon
  <2>2. /\ b \in Boards
        /\ pending # None => Becomes(i, Put(pending, b.version))
        /\ pending = None => Becomes(i, Done)
    BY <1>12, <2>1, AcceptedEffects
  <2>3. CASE pending # None
    <3>1. pending \in Jobs /\ b.version \in Nat
      BY <1>1, <2>2, <2>3 DEF TabShape, Boards
    <3>2. Put(pending, b.version) \in Calls /\ CallShape(Put(pending, b.version))
      BY <1>1, <3>1, CallsMade
    <3>3. QED BY <2>2, <2>3, <3>2
  <2>4. QED BY <1>9, <2>2, <2>3
<1>13. CASE Rebased(i)
  <2>1. CASE calls[i].reply.kind = "board"
    <3>1. PICK b, m : b = calls[i].reply.board /\ m = Merged(calls[i])
      BY Zenon
    <3>2. /\ b \in Boards /\ m \in Jobs
          /\ dash # None /\ pending # None => Becomes(i, Put(pending, b.version))
          /\ dash # None /\ pending = None => Becomes(i, Put(m, b.version))
          /\ dash = None => Becomes(i, Done)
      BY <1>13, <2>1, <3>1, RebasedEffects
    <3>3. b.version \in Nat /\ pending \in Jobs \cup {None}
      BY <1>1, <3>2 DEF TabShape, Boards
    <3>4. Put(m, b.version) \in Calls /\ CallShape(Put(m, b.version))
      BY <1>1, <3>2, <3>3, CallsMade
    <3>5. pending # None => Put(pending, b.version) \in Calls /\ CallShape(Put(pending, b.version))
      BY <1>1, <3>3, CallsMade
    <3>6. QED BY <1>9, <3>2, <3>4, <3>5
  <2>2. CASE calls[i].reply.kind # "board"
    <3>1. Becomes(i, Done)
      BY <1>13, <2>2, Zenon DEF Rebased, Leave, Becomes
    <3>2. QED BY <1>9, <3>1
  <2>3. QED BY <2>1, <2>2
<1>14. CASE SaveWidgetsRead(i)
  <2>1. calls[i].pc \in {"row", "getrow"}
    BY <1>14 DEF SaveWidgetsRead
  <2>2. calls[i].reply \in Replies /\ calls[i].reply.kind = "board"
    BY <1>1, <2>1 DEF CallShape, Calls
  <2>3. PICK x : x = WidgetsRead(calls[i].reply)
    BY Zenon
  <2>4. x \in Replies /\ x.kind = "board" /\ x # None
    BY <1>1, <2>2, <2>3, WidgetsReadMade, ReplyForm
  <2>5. PICK p : p = AfterRead(calls[i].pc)
    BY Zenon
  <2>6. p \in CallSteps /\ (p = "reply" \/ (p = "got" /\ calls[i].pc = "getrow"))
    BY <1>4, <2>1, <2>5 DEF AfterRead
  <2>7. PICK c : c = CallAt(calls[i], p, x)
    BY Zenon
  <2>8. /\ c \in Calls /\ c.pc = p /\ c.reply = x /\ c.gen = calls[i].gen
        /\ c.user = calls[i].user /\ c.job = calls[i].job
    BY <1>3, <2>4, <2>6, <2>7
  <2>9. CallShape(c)
    BY <1>1, <2>1, <2>4, <2>6, <2>8 DEF CallShape
  <2>10. Becomes(i, c)
    BY <1>1, <1>14, <2>3, <2>5, <2>7, CallEffects
  <2>11. QED BY <2>8, <2>9, <2>10
<1>15. QED
  BY <1>5, <1>6, <1>7, <1>8, <1>10, <1>11, <1>12, <1>13, <1>14 DEF SaveStep

(* Nobody but the calls' own steps, a drag and a sign-in moves a call, and   *)
(* the widget request and the load keep their shapes.                        *)
LEMMA RequestShapeStep ==
  ASSUME Shapes, Next
  PROVE  RequestShape'
<1>1. /\ calls \in Seq(Calls) /\ (\A i \in DOMAIN calls : CallShape(calls[i]))
      /\ wop \in Wops /\ WopShape(wop) /\ load \in Loads /\ LoadShape(load)
      /\ TabShape /\ srv \in Boards /\ RequestShape
  BY DEF Shapes, RequestShape, RowShape
<1>2. user \in Users /\ gen \in Nat
  BY <1>1, LayoutEditorAssumption DEF TabShape
<1>3. /\ BoardReply \in Replies /\ ErrorReply \in Replies
      /\ BoardReply # None /\ ErrorReply # None /\ BoardReply.kind = "board"
  BY <1>1, RepliesMade, ReplyForm
<1>4. ASSUME UNCHANGED <<user, gen, calls>>
      PROVE  calls' \in Seq(Calls) /\ (\A i \in DOMAIN calls : CallShape(calls[i]))'
  BY <1>1, <1>4 DEF CallShape
<1>5. ASSUME UNCHANGED <<user, gen, wop>> PROVE wop' \in Wops /\ WopShape(wop)'
  BY <1>1, <1>5 DEF WopShape
<1>6. ASSUME UNCHANGED load PROVE load' \in Loads /\ LoadShape(load)'
  BY <1>1, <1>6 DEF LoadShape
<1>7. ASSUME UNCHANGED <<user, gen, calls, wop, load>> PROVE RequestShape'
  BY <1>4, <1>5, <1>6, <1>7 DEF RequestShape
<1>8. ASSUME NEW w \in Widgets,
             ForeignMove(w) \/ ForeignAdd(w) \/ ForeignRemove(w) \/ ListDeleteLoads(w)
      PROVE  RequestShape'
  <2>1. UNCHANGED <<user, gen, calls, wop, load>>
    BY <1>8 DEF ForeignMove, ForeignAdd, ForeignRemove, ListDeleteLoads, tab
  <2>2. QED BY <1>7, <2>1
<1>9. ASSUME ListDeleteCommits \/ DeliverFrame \/ Rest PROVE RequestShape'
  <2>1. UNCHANGED <<user, gen, calls, wop, load>>
    BY <1>9 DEF ListDeleteCommits, DeliverFrame, Rest, tab, vars
  <2>2. QED BY <1>7, <2>1
<1>10. ASSUME NEW w \in Widgets, Drag(w) PROVE RequestShape'
  <2>1. UNCHANGED <<user, gen, wop, load>>
    BY <1>10 DEF Drag
  <2>2. DragJob(w) \in Jobs /\ dash.version \in Nat
    BY <1>10, DragEffects DEF Helds
  <2>3. PICK c \in Calls : CallShape(c) /\ calls' = Append(calls, c)
    BY <1>1, <1>10, <2>2, DragEffects, CallsMade
  <2>4. /\ calls' \in Seq(Calls)
        /\ DOMAIN calls' = DOMAIN calls \cup {Len(calls) + 1}
        /\ calls'[Len(calls) + 1] = c
        /\ \A j \in DOMAIN calls : calls'[j] = calls[j]
    BY <1>1, <2>3, CallAdded
  <2>5. ASSUME NEW j \in DOMAIN calls' PROVE CallShape(calls[j])'
    <3>1. PICK d : d = calls'[j]
      BY Zenon
    <3>2. CallShape(d)
      BY <1>1, <2>3, <2>4, <3>1
    <3>3. QED BY <2>1, <3>1, <3>2 DEF CallShape
  <2>6. QED BY <1>5, <1>6, <2>1, <2>4, <2>5 DEF RequestShape
<1>11. ASSUME NEW i \in DOMAIN calls, SaveStep(i) PROVE RequestShape'
  <2>1. UNCHANGED <<user, gen, wop, load>>
    <3>1. ServerPut(i) \/ ServerRespond(i) \/ SaveWidgetsRead(i) \/ PutFails(i)
            \/ SaveConflicts(i) \/ SaveFails(i) \/ SaveLate(i) \/ RebaseReads(i) =>
              UNCHANGED <<user, gen, wop, load>>
      BY DEF ServerPut, ServerRespond, SaveWidgetsRead, PutFails, SaveConflicts, SaveFails,
             SaveLate, RebaseReads
    <3>2. SaveAccepted(i) => UNCHANGED <<user, gen, wop, load>>
      BY DEF SaveAccepted
    <3>3. Rebased(i) => UNCHANGED <<user, gen, wop, load>>
      BY DEF Rebased
    <3>4. QED BY <1>11, <3>1, <3>2, <3>3 DEF SaveStep
  <2>2. PICK c \in Calls : CallShape(c) /\ Becomes(i, c)
    BY <1>11, CallShapes
  <2>3. calls' \in Seq(Calls) /\ (\A j \in DOMAIN calls : CallShape(calls[j]))'
    BY <1>1, <2>1, <2>2, CallsKept
  <2>4. QED BY <1>5, <1>6, <2>1, <2>3 DEF RequestShape
<1>12. ASSUME NEW w \in Widgets, AddWidget(w) \/ RemoveWidget(w) PROVE RequestShape'
  <2>1. UNCHANGED <<user, gen, calls, load>>
    BY <1>12 DEF AddWidget, RemoveWidget
  <2>2. PICK k \in {"add", "remove"} : wop' = Request(k, w)
    BY <1>12 DEF AddWidget, RemoveWidget
  <2>3. wop' \in Wops /\ WopShape(wop)'
    BY <1>2, <2>1, <2>2 DEF Request, Wops, WopSteps, WopShape
  <2>4. QED BY <1>4, <1>6, <2>1, <2>3 DEF RequestShape
<1>13. ASSUME ServerWidget \/ WidgetResponds \/ WidgetWidgetsRead \/ WidgetFails \/ WidgetAnswered
       PROVE  RequestShape'
  <2>1. UNCHANGED <<user, gen, calls, load>>
    <3>1. ServerWidget => UNCHANGED <<user, gen, calls, load>>
      BY Zenon DEF ServerWidget
    <3>2. WidgetResponds \/ WidgetWidgetsRead \/ WidgetFails \/ WidgetAnswered =>
            UNCHANGED <<user, gen, calls, load>>
      BY DEF WidgetResponds, WidgetWidgetsRead, WidgetFails, WidgetAnswered
    <3>3. QED BY <1>13, <3>1, <3>2
  <2>2. PICK p \in WopSteps, x \in Replies \cup {None} :
           /\ wop' = WopAt(wop, p, x)
           /\ p \in {"row", "reply"} <=> x # None
           /\ p = "row" => x.kind = "board"
           /\ wop.pc # "idle"
    <3>1. "row" \in WopSteps /\ "reply" \in WopSteps /\ "committed" \in WopSteps /\ "idle" \in WopSteps
      BY DEF WopSteps
    <3>2. CASE ServerWidget
      <4>1. wop.pc = "sent"
        BY <3>2, Zenon DEF ServerWidget
      <4>2. wop.reply = None
        BY <1>1, <4>1 DEF WopShape
      <4>3. wop' = WopAt(wop, "reply", ErrorReply) \/ wop' = WopAt(wop, "committed", None)
        BY <1>1, <3>2, <4>2, WopEffects
      <4>4. QED BY <1>3, <3>1, <4>1, <4>3
    <3>3. CASE WidgetResponds \/ WidgetFails \/ WidgetAnswered
      <4>1. wop.pc # "idle"
        BY <3>3 DEF WidgetResponds, WidgetFails, WidgetAnswered
      <4>2. \/ wop' = WopAt(wop, "row", BoardReply) \/ wop' = WopAt(wop, "reply", ErrorReply)
            \/ wop' = WopAt(wop, "idle", None)
        BY <1>1, <3>3, WopEffects
      <4>3. QED BY <1>3, <3>1, <4>1, <4>2
    <3>4. CASE WidgetWidgetsRead
      <4>1. wop.pc = "row"
        BY <3>4 DEF WidgetWidgetsRead
      <4>2. wop.reply \in Replies /\ wop.reply.kind = "board"
        BY <1>1, <4>1 DEF WopShape, Wops
      <4>3. PICK x \in Replies : x = WidgetsRead(wop.reply)
        BY <1>1, <4>2, WidgetsReadMade
      <4>4. wop' = WopAt(wop, "reply", x) /\ x # None
        BY <1>1, <3>4, <4>3, WopEffects, ReplyForm
      <4>5. QED BY <3>1, <4>1, <4>4
    <3>5. QED BY <1>13, <3>2, <3>3, <3>4
  <2>3. PICK o : o = WopAt(wop, p, x)
    BY Zenon
  <2>4. /\ o \in Wops /\ o.pc = p /\ o.reply = x /\ o.gen = wop.gen /\ o.user = wop.user
        /\ o.w = wop.w
    BY <1>1, <2>3, WopAtMade
  <2>5. WopShape(o)
    BY <1>1, <2>2, <2>4 DEF WopShape
  <2>6. wop' \in Wops /\ WopShape(wop)'
    BY <2>1, <2>2, <2>3, <2>4, <2>5 DEF WopShape
  <2>7. QED BY <1>4, <1>6, <2>1, <2>6 DEF RequestShape
<1>14. ASSUME Refresh \/ Open \/ LoadReads \/ LoadWidgetsRead \/ Loaded \/ ResolveConflict
       PROVE  RequestShape'
  <2>1. UNCHANGED <<user, gen, calls, wop>>
    BY <1>14 DEF Refresh, Open, LoadReads, LoadWidgetsRead, Loaded, ResolveConflict
  <2>2. load' \in Loads /\ LoadShape(load)'
    <3>1. CASE Refresh \/ Open \/ ResolveConflict
      <4>1. load' = StartLoad \/ load' = load
        BY <3>1 DEF Refresh, Open, ResolveConflict
      <4>2. /\ load.pc = "idle" =>
                 StartLoad = [pc |-> "sent", reply |-> load.reply, queued |-> load.queued]
            /\ load.pc # "idle" =>
                 StartLoad = [pc |-> load.pc, reply |-> load.reply, queued |-> TRUE]
        BY <1>1, LoadEffects, Zenon
      <4>3. ASSUME NEW a \in LoadSteps, NEW r \in Replies \cup {None},
                   NEW q \in BOOLEAN, load' = [pc |-> a, reply |-> r, queued |-> q],
                   a \in {"row", "reply"} <=> r # None, a = "row" => r.kind = "board",
                   a = "idle" => ~q
            PROVE  load' \in Loads /\ LoadShape(load)'
        BY <4>3 DEF Loads, LoadShape
      <4>4. /\ load.pc \in LoadSteps /\ load.reply \in Replies \cup {None}
            /\ load.queued \in BOOLEAN /\ "sent" \in LoadSteps
        BY <1>1 DEF Loads, LoadSteps
      <4>5. CASE load' = StartLoad /\ load.pc = "idle"
        BY <1>1, <4>2, <4>3, <4>4, <4>5 DEF LoadShape
      <4>6. CASE load' = StartLoad /\ load.pc # "idle"
        BY <1>1, <4>2, <4>3, <4>4, <4>6 DEF LoadShape
      <4>7. QED BY <1>6, <4>1, <4>5, <4>6
    <3>2. CASE LoadReads
      <4>1. PICK a \in {"row", "reply"}, x \in Replies :
               /\ load' = [pc |-> a, reply |-> x, queued |-> load.queued]
               /\ a = "row" => x.kind = "board"
        BY <1>1, <1>3, <3>2, LoadEffects
      <4>2. x # None
        BY <4>1, NoneApart
      <4>3. QED BY <1>1, <4>1, <4>2 DEF Loads, LoadSteps, LoadShape
    <3>5. CASE LoadWidgetsRead
      <4>1. load.pc = "row"
        BY <3>5 DEF LoadWidgetsRead
      <4>2. load.reply \in Replies /\ load.reply.kind = "board"
        BY <1>1, <4>1 DEF LoadShape, Loads
      <4>3. PICK x \in Replies : x = WidgetsRead(load.reply)
        BY <1>1, <4>2, WidgetsReadMade
      <4>4. load' = [pc |-> "reply", reply |-> x, queued |-> load.queued] /\ x # None
        BY <1>1, <3>5, <4>3, LoadEffects, ReplyForm
      <4>5. QED BY <1>1, <4>4 DEF Loads, LoadSteps, LoadShape
    <3>3. CASE Loaded
      <4>1. load' = [pc |-> IF load.queued THEN "sent" ELSE "idle", reply |-> None,
                     queued |-> FALSE]
        BY <3>3 DEF Loaded
      <4>2. QED BY <4>1 DEF Loads, LoadSteps, LoadShape
    <3>4. QED BY <1>14, <3>1, <3>2, <3>3, <3>5
  <2>3. QED BY <1>4, <1>5, <2>1, <2>2 DEF RequestShape
<1>15. ASSUME NEW u \in Users, Reset(u) PROVE RequestShape'
  <2>1. /\ gen' = gen + 1 /\ user' = u /\ calls' = calls /\ wop' = wop
        /\ load' = [pc |-> "idle", reply |-> None, queued |-> FALSE]
    BY <1>15 DEF Reset
  <2>2. load' \in Loads /\ LoadShape(load)'
    BY <2>1 DEF Loads, LoadSteps, LoadShape
  <2>3. wop' \in Wops /\ WopShape(wop)'
    BY <1>1, <1>2, <2>1 DEF Wops, WopShape
  <2>4. ASSUME NEW j \in DOMAIN calls' PROVE CallShape(calls[j])'
    <3>1. PICK c : c = calls[j]
      BY Zenon
    <3>2. CallShape(c) /\ c.gen \in Nat /\ calls'[j] = c
      <4>1. calls'[j] = c /\ j \in DOMAIN calls
        BY <2>1, <3>1
      <4>2. c \in Calls /\ CallShape(c)
        BY <1>1, <3>1, <4>1
      <4>3. QED BY <4>1, <4>2 DEF Calls
    <3>3. c.gen <= gen' /\ c.gen # gen'
      BY <1>2, <2>1, <3>2 DEF CallShape
    <3>4. CallShape(c)'
      BY <3>2, <3>3 DEF CallShape
    <3>5. QED BY <3>2, <3>4 DEF CallShape
  <2>5. QED BY <1>1, <2>1, <2>2, <2>3, <2>4 DEF RequestShape
<1>16. QED
  BY <1>8, <1>9, <1>10, <1>11, <1>12, <1>13, <1>14, <1>15 DEF Next

(* The start of a session: the board has just been loaded.                   *)
LEMMA ShapesInit ==
  ASSUME Init
  PROVE  Shapes
<1>1. /\ [w \in Start |-> 0] \in [Start -> Positions] /\ Start \in SUBSET Widgets
  BY LayoutEditorAssumption, PositionsKnown
<1>2. [w \in Start |-> 0] \in Layouts
  BY <1>1, LayoutMade
<1>3. srv \in Boards
  BY <1>1, <1>2 DEF Init, Boards
<1>4. RowShape
  BY <1>1, <1>3 DEF Init, RowShape
<1>5. TabShape
  <2>1. dash \in Helds
    BY <1>3, HeldMade DEF Init
  <2>2. gen \in 1..MaxSessions
    BY LayoutEditorAssumption DEF Init
  <2>3. QED BY <2>1, <2>2 DEF Init, TabShape
<1>6. RequestShape
  <2>1. wop \in Wops /\ WopShape(wop)
    BY DEF Init, Wops, WopSteps, WopShape
  <2>2. load \in Loads /\ LoadShape(load)
    BY DEF Init, Loads, LoadSteps, LoadShape
  <2>3. QED BY <2>1, <2>2 DEF Init, RequestShape
<1>7. QED BY <1>4, <1>5, <1>6 DEF Shapes

-----------------------------------------------------------------------------
(* A widget id is handed out once.  The widget of a list that is gone, and   *)
(* the one an addition under way will create, are not on the board.          *)
WidgetsLive ==
    /\ srv.widgets \subseteq born
    /\ \A f \in InFlight : f.kind = "list" => f.w \in born /\ f.w \notin srv.widgets
    /\ tx # None => tx.w \in born
    /\ wop.pc = "sent" /\ wop.kind = "add" =>
          /\ wop.w \in born /\ wop.w \notin srv.widgets
          /\ tx # None => tx.w # wop.w
          /\ \A f \in InFlight : f.kind = "list" => f.w # wop.w

(* Which steps touch the widget request.                                     *)
LEMMA WopSources ==
  ASSUME Next
  PROVE  \/ wop' = wop
         \/ \E w \in Widgets : AddWidget(w) \/ RemoveWidget(w)
         \/ ServerWidget \/ WidgetResponds \/ WidgetWidgetsRead \/ WidgetFails
         \/ WidgetAnswered
<1>1. ASSUME NEW w \in Widgets,
             \/ Drag(w) \/ ForeignMove(w) \/ ForeignAdd(w) \/ ForeignRemove(w)
             \/ ListDeleteLoads(w)
      PROVE  wop' = wop
  BY <1>1 DEF Drag, ForeignMove, ForeignAdd, ForeignRemove, ListDeleteLoads, tab
<1>2. ASSUME NEW i \in DOMAIN calls, SaveStep(i) PROVE wop' = wop
  <2>1. ServerPut(i) \/ ServerRespond(i) \/ SaveWidgetsRead(i) \/ PutFails(i)
          \/ SaveConflicts(i) \/ SaveFails(i) \/ SaveLate(i) \/ RebaseReads(i) => wop' = wop
    BY DEF ServerPut, ServerRespond, SaveWidgetsRead, PutFails, SaveConflicts, SaveFails,
           SaveLate, RebaseReads
  <2>2. SaveAccepted(i) \/ Rebased(i) => wop' = wop
    BY DEF SaveAccepted, Rebased
  <2>3. QED BY <1>2, <2>1, <2>2 DEF SaveStep
<1>3. ListDeleteCommits \/ DeliverFrame \/ Rest => wop' = wop
  BY DEF ListDeleteCommits, DeliverFrame, Rest, tab, vars
<1>4. Refresh \/ Open \/ LoadReads \/ LoadWidgetsRead \/ Loaded \/ ResolveConflict =>
        wop' = wop
  BY DEF Refresh, Open, LoadReads, LoadWidgetsRead, Loaded, ResolveConflict
<1>5. ASSUME NEW u \in Users, Reset(u) PROVE wop' = wop
  BY <1>5 DEF Reset
<1>6. QED BY <1>1, <1>2, <1>3, <1>4, <1>5 DEF Next

(* Only AddWidget puts an addition under way.                                *)
LEMMA WopStarts ==
  ASSUME Shapes, Next
  PROVE  \/ \E w \in Widgets : AddWidget(w)
         \/ wop' = wop
         \/ ~(wop'.pc = "sent" /\ wop'.kind = "add")
<1>1. wop \in Wops
  BY DEF Shapes, RequestShape
<1>2. ASSUME NEW p \in {"row", "reply", "committed", "idle"}, NEW x, wop' = WopAt(wop, p, x)
      PROVE  wop'.pc # "sent"
  BY <1>2 DEF WopAt
<1>3. ServerWidget \/ WidgetResponds \/ WidgetWidgetsRead \/ WidgetFails \/ WidgetAnswered =>
        wop'.pc # "sent"
  BY <1>1, <1>2, WopEffects
<1>4. ASSUME NEW w \in Widgets, RemoveWidget(w) PROVE wop'.kind # "add"
  BY <1>4 DEF RemoveWidget, Request
<1>5. QED BY <1>3, <1>4, WopSources

(* delete_list, add_widget and delete_widget: the ids stay apart.            *)
LEMMA WidgetsLiveStep ==
  ASSUME Shapes, WidgetsLive, Next
  PROVE  WidgetsLive'
<1>1. /\ srv \in Boards /\ tx \in LoadedRows \cup {None} /\ frames \in Seq(Frames)
      /\ calls \in Seq(Calls) /\ wop \in Wops /\ RowShape'
  BY RowShapeStep DEF Shapes, RowShape, RequestShape
<1>2. srv.widgets \in SUBSET Widgets
  BY <1>1 DEF Boards
<1>3. ASSUME NEW f \in Frames, frames' = Append(frames, f)
      PROVE  InFlight' = InFlight \cup {f}
  BY <1>1, <1>3, FrameSent
<1>4. ASSUME NEW w \in Widgets, AddWidget(w) PROVE WidgetsLive'
  <2>1. /\ UNCHANGED <<srv, tx, frames>> /\ w \notin born /\ born' = born \cup {w}
        /\ wop' = Request("add", w)
    BY <1>4 DEF AddWidget
  <2>2. wop'.w = w /\ InFlight' = InFlight
    BY <2>1 DEF Request, InFlight
  <2>3. QED BY <2>1, <2>2 DEF WidgetsLive
<1>5. ASSUME wop' = wop \/ ~(wop'.pc = "sent" /\ wop'.kind = "add"),
             born \subseteq born', srv'.widgets \subseteq srv.widgets,
             InFlight' \subseteq InFlight, tx' = tx \/ tx' = None
      PROVE  WidgetsLive'
  BY <1>5 DEF WidgetsLive
<1>6. CASE RowRests /\ ~\E w \in Widgets : AddWidget(w)
  <2>1. InFlight' = InFlight /\ born' = born /\ srv' = srv /\ tx' = tx
    BY <1>6 DEF RowRests, InFlight
  <2>2. QED BY <1>5, <1>6, <2>1, WopStarts
<1>7. ASSUME NEW w \in Widgets, ForeignMove(w) PROVE WidgetsLive'
  <2>1. UNCHANGED <<born, tx, wop>>
    BY <1>7 DEF ForeignMove, tab
  <2>2. srv'.widgets = srv.widgets
    BY <1>1, <1>7, SavedWhole DEF ForeignMove
  <2>3. PICK f : f = [kind |-> "layout", w |-> w, version |-> srv'.version, actor |-> "other",
                      mine |-> FALSE]
    BY Zenon
  <2>4. frames' = Append(frames, f)
    BY <1>7, <2>3, Zenon DEF ForeignMove, Emit
  <2>5. f \in Frames /\ f.kind = "layout"
    BY <1>1, <2>3 DEF Frames, RowShape, Boards
  <2>6. InFlight' = InFlight \cup {f}
    BY <1>3, <2>4, <2>5
  <2>7. QED BY <2>1, <2>2, <2>5, <2>6 DEF WidgetsLive
<1>8. ASSUME NEW w \in Widgets, ForeignAdd(w) \/ ForeignRemove(w) PROVE WidgetsLive'
  <2>1. UNCHANGED <<tx, wop>>
    BY <1>8 DEF ForeignAdd, ForeignRemove, tab
  <2>2. PICK f : f = [kind |-> "widgets", w |-> w, version |-> srv'.version, actor |-> "other",
                      mine |-> FALSE]
    BY Zenon
  <2>3. frames' = Append(frames, f)
    BY <1>8, <2>2, Zenon DEF ForeignAdd, ForeignRemove, Emit
  <2>4. f \in Frames /\ f.kind = "widgets"
    BY <1>1, <2>2 DEF Frames, RowShape, Boards
  <2>5. InFlight' = InFlight \cup {f}
    BY <1>3, <2>3, <2>4
  <2>6. CASE ForeignAdd(w)
    <3>1. w \notin born /\ born' = born \cup {w} /\ srv'.widgets = srv.widgets \cup {w}
      BY <2>6 DEF ForeignAdd, Added
    <3>2. QED BY <2>1, <2>4, <2>5, <3>1 DEF WidgetsLive
  <2>7. CASE ForeignRemove(w)
    <3>1. born' = born /\ srv'.widgets = srv.widgets \ {w}
      BY <2>7 DEF ForeignRemove, Removed
    <3>2. QED BY <2>1, <2>4, <2>5, <3>1 DEF WidgetsLive
  <2>8. QED BY <1>8, <2>6, <2>7
<1>9. ASSUME NEW w \in Widgets, ListDeleteLoads(w) PROVE WidgetsLive'
  <2>1. UNCHANGED <<srv, born, frames, wop>> /\ w \in srv.widgets /\ tx'.w = w
    BY <1>9 DEF ListDeleteLoads, tab
  <2>2. InFlight' = InFlight
    BY <2>1 DEF InFlight
  <2>3. QED BY <2>1, <2>2 DEF WidgetsLive
<1>10. ASSUME ListDeleteCommits PROVE WidgetsLive'
  <2>1. UNCHANGED <<born, wop>> /\ tx # None /\ tx' = None
    BY <1>10 DEF ListDeleteCommits, tab
  <2>2. srv'.widgets = srv.widgets \ {tx.w}
    BY <1>10 DEF ListDeleteCommits, StripResource
  <2>3. PICK f : f = [kind |-> "list", w |-> tx.w, version |-> 0, actor |-> "other",
                      mine |-> FALSE]
    BY Zenon
  <2>4. frames' = Append(frames, f)
    BY <1>10, <2>3, Zenon DEF ListDeleteCommits, Emit
  <2>5. tx.w \in Widgets
    BY <1>1, <2>1, LayoutEditorAssumption DEF LoadedRows
  <2>6. f \in Frames /\ f.w = tx.w
    BY <2>3, <2>5 DEF Frames
  <2>7. InFlight' = InFlight \cup {f}
    BY <1>3, <2>4, <2>6
  <2>8. QED BY <2>1, <2>2, <2>6, <2>7 DEF WidgetsLive
<1>11. ASSUME NEW i \in DOMAIN calls, ServerPut(i) PROVE WidgetsLive'
  <2>1. UNCHANGED <<born, tx, wop>>
    BY <1>11 DEF ServerPut
  <2>2. CASE PutRefused(i)
    <3>1. srv' = srv /\ InFlight' = InFlight
      BY <2>2 DEF PutRefused, InFlight
    <3>2. QED BY <1>5, <2>1, <3>1
  <2>3. CASE PutAccepted(i)
    <3>1. srv'.widgets = srv.widgets
      BY <1>1, <2>3, SavedWhole DEF PutAccepted
    <3>2. PICK f : f = OwnFrame("layout", None, srv'.version, calls[i].user)
      BY Zenon
    <3>3. srv'.version \in Nat /\ calls[i] \in Calls
      BY <1>1 DEF RowShape, Boards
    <3>4. f \in Frames /\ f.kind = "layout"
      BY <3>2, <3>3 DEF Frames, OwnFrame, Calls
    <3>5. InFlight' = InFlight \cup {f}
      BY <1>3, <2>3, <3>2, <3>4 DEF PutAccepted
    <3>6. QED BY <2>1, <3>1, <3>4, <3>5 DEF WidgetsLive
  <2>4. QED BY <1>1, <1>11, <2>2, <2>3, PutEffects
<1>12. ASSUME ServerWidget PROVE WidgetsLive'
  <2>1. UNCHANGED <<born, tx>> /\ wop.pc = "sent"
    BY <1>12, Zenon DEF ServerWidget
  <2>2. CASE wop' = WopAt(wop, "reply", ErrorReply) /\ UNCHANGED <<srv, frames>>
    <3>1. srv' = srv /\ InFlight' = InFlight /\ wop'.pc = "reply"
      BY <2>2 DEF InFlight, WopAt
    <3>2. QED BY <1>5, <2>1, <3>1
  <2>3. CASE /\ srv' = IF wop.kind = "add" THEN Added(srv, wop.w) ELSE Removed(srv, wop.w)
             /\ frames' = Append(frames, OwnFrame("widgets", wop.w, srv'.version, wop.user))
             /\ wop' = WopAt(wop, "committed", wop.reply)
    <3>1. /\ wop.kind = "add" => srv'.widgets = srv.widgets \cup {wop.w}
          /\ wop.kind # "add" => srv'.widgets = srv.widgets \ {wop.w}
      BY <2>3 DEF Added, Removed
    <3>2. PICK f : f = OwnFrame("widgets", wop.w, srv'.version, wop.user)
      BY Zenon
    <3>3. srv'.version \in Nat
      BY <1>1 DEF RowShape, Boards
    <3>4. f \in Frames /\ f.kind = "widgets"
      BY <1>1, <3>2, <3>3 DEF Frames, OwnFrame, Wops
    <3>5. InFlight' = InFlight \cup {f}
      BY <1>3, <2>3, <3>2, <3>4
    <3>6. wop'.pc = "committed"
      BY <2>3 DEF WopAt
    <3>7. QED BY <2>1, <3>1, <3>4, <3>5, <3>6 DEF WidgetsLive
  <2>4. QED BY <1>1, <1>12, <2>2, <2>3, WopEffects
<1>13. ASSUME DeliverFrame PROVE WidgetsLive'
  <2>1. UNCHANGED <<srv, born, tx, wop>> /\ frames # <<>> /\ frames' = Tail(frames)
    BY <1>13 DEF DeliverFrame
  <2>2. InFlight' \subseteq InFlight
    BY <1>1, <2>1, FrameTaken
  <2>3. QED BY <1>5, <2>1, <2>2
<1>14. ASSUME NEW u \in Users, Reset(u) PROVE WidgetsLive'
  <2>1. UNCHANGED <<srv, born, tx, wop>> /\ frames' = <<>>
    BY <1>14 DEF Reset
  <2>2. InFlight' = {}
    BY <2>1 DEF InFlight
  <2>3. QED BY <1>5, <2>1, <2>2
<1>15. QED
  BY <1>4, <1>6, <1>7, <1>8, <1>9, <1>10, <1>11, <1>12, <1>13, <1>14, RowSteps

-----------------------------------------------------------------------------
(* What a version says.  A board read is the row's content as long as its    *)
(* version is the row's; what the tab holds is, as far as its oldest part;   *)
(* a layout drawn on such a board leaves the rest of the row as it is; and a *)
(* merged one is sent with the version it was merged with.                   *)
BoardTrue(b) == b.version <= srv.version /\ (b.version = srv.version => b = srv)
ReplyTrue(r) == r # None /\ r.kind = "board" => BoardTrue(r.board)
HeldTrue(d) == /\ d.basis <= srv.version
               /\ d.basis = srv.version => d.layout = srv.layout /\ d.widgets = srv.widgets
Harmless(layout, mine) ==
    /\ \A i \in (DOMAIN layout \cap DOMAIN srv.layout) \ mine : layout[i] = srv.layout[i]
    /\ DOMAIN srv.layout \cap srv.widgets \subseteq DOMAIN layout
    /\ DOMAIN layout \subseteq srv.widgets \cup DOMAIN srv.layout
SketchTrue(x) == /\ x.basis <= srv.version
                 /\ x.basis = srv.version => Harmless(x.layout, x.mine)
MergeTrue(x) == /\ x.basis <= srv.version
                /\ x.basis = srv.version => DOMAIN srv.layout \subseteq DOMAIN x.layout
JobTrue(c) == /\ c.job.retried => c.sent = c.job.basis /\ MergeTrue(c.job)
              /\ ~c.job.retried => SketchTrue(c.job)
CallTrue(c) == ReplyTrue(c.reply) /\ (c.pc # "done" => JobTrue(c))

RequestsTrue == /\ ReplyTrue(load.reply) /\ ReplyTrue(wop.reply)
                /\ \A i \in DOMAIN calls : CallTrue(calls[i])
StoreTrue == /\ dash # None => HeldTrue(dash)
             /\ draft # None => SketchTrue(draft)
             /\ pending # None => SketchTrue(pending) /\ ~pending.retried
Contents == "raced" \notin gaps =>
    (tx # None => tx.version <= srv.version) /\ RequestsTrue /\ StoreTrue

(* The row stays or gets a version it never had.                             *)
RowGrows == srv' = srv \/ srv.version < srv'.version

(* A board read stays true when the row moves on.                            *)
LEMMA ReplyStays ==
  ASSUME srv \in Boards, srv' \in Boards, RowGrows, NEW r \in Replies \cup {None}, ReplyTrue(r)
  PROVE  ReplyTrue(r)'
<1>1. srv.version \in Nat /\ srv'.version \in Nat
  BY DEF Boards
<1>2. CASE r = None \/ r.kind # "board"
  BY <1>2 DEF ReplyTrue
<1>3. CASE r # None /\ r.kind = "board"
  <2>1. r.board \in Boards
    BY <1>3, ReplyForm
  <2>2. r.board.version \in Nat
    BY <2>1 DEF Boards
  <2>3. QED BY <1>1, <1>3, <2>2 DEF ReplyTrue, BoardTrue, RowGrows
<1>4. QED BY <1>2, <1>3

(* So does the board held,                                                   *)
LEMMA HeldStays ==
  ASSUME srv \in Boards, srv' \in Boards, RowGrows, NEW d \in Helds, HeldTrue(d)
  PROVE  HeldTrue(d)'
<1>1. srv.version \in Nat /\ srv'.version \in Nat /\ d.basis \in Nat
  BY DEF Boards, Helds
<1>2. QED BY <1>1 DEF HeldTrue, RowGrows

(* a layout drawn,                                                           *)
LEMMA SketchStays ==
  ASSUME srv \in Boards, srv' \in Boards, RowGrows, NEW x, x.basis \in Nat, SketchTrue(x)
  PROVE  SketchTrue(x)'
<1>1. srv.version \in Nat /\ srv'.version \in Nat
  BY DEF Boards
<1>2. CASE srv' = srv
  BY <1>2 DEF SketchTrue, Harmless
<1>3. CASE srv.version < srv'.version
  BY <1>1, <1>3 DEF SketchTrue
<1>4. QED BY <1>2, <1>3 DEF RowGrows

(* and a save under way with its answer.                                     *)
LEMMA CallStays ==
  ASSUME srv \in Boards, srv' \in Boards, RowGrows, NEW c \in Calls, c.pc # "done" => c.job \in Jobs,
         CallTrue(c)
  PROVE  CallTrue(c)'
<1>1. srv.version \in Nat /\ srv'.version \in Nat
  BY DEF Boards
<1>2. ReplyTrue(c.reply)'
  BY ReplyStays DEF CallTrue, Calls
<1>3. ASSUME c.pc # "done" PROVE JobTrue(c)'
  <2>1. c.job \in Jobs /\ JobTrue(c)
    BY <1>3 DEF CallTrue
  <2>2. c.job.basis \in Nat
    BY <2>1 DEF Jobs
  <2>3. CASE c.job.retried
    <3>1. c.sent = c.job.basis /\ MergeTrue(c.job)
      BY <2>1, <2>3 DEF JobTrue
    <3>2. MergeTrue(c.job)'
      BY <1>1, <2>2, <3>1 DEF MergeTrue, RowGrows
    <3>3. QED BY <2>3, <3>1, <3>2 DEF JobTrue
  <2>4. CASE ~c.job.retried
    <3>1. SketchTrue(c.job)
      BY <2>1, <2>4 DEF JobTrue
    <3>2. SketchTrue(c.job)'
      BY <2>2, <3>1, SketchStays
    <3>3. QED BY <2>4, <3>2 DEF JobTrue
  <2>5. QED BY <2>3, <2>4
<1>4. QED BY <1>2, <1>3 DEF CallTrue

(* Every writer counts up from the row it locked; only a list deletion can   *)
(* count from an older one, and that is recorded.                            *)
LEMMA RowGrowsStep ==
  ASSUME Shapes, Contents, Next, "raced" \notin gaps'
  PROVE  RowGrows
<1>1. /\ srv \in Boards /\ tx \in LoadedRows \cup {None} /\ calls \in Seq(Calls) /\ wop \in Wops
      /\ srv.version \in Nat /\ srv.layout \in Layouts
  BY DEF Shapes, RowShape, RequestShape, Boards
<1>2. "raced" \notin gaps
  BY FlagsKept
<1>3. srv' = srv \/ srv'.version = srv.version + 1 => RowGrows
  BY <1>1 DEF RowGrows
<1>4. CASE RowRests
  BY <1>3, <1>4 DEF RowRests
<1>5. ASSUME NEW w \in Widgets,
             \/ AddWidget(w) \/ ForeignMove(w) \/ ForeignAdd(w) \/ ForeignRemove(w)
             \/ ListDeleteLoads(w)
      PROVE  RowGrows
  <2>1. CASE AddWidget(w) \/ ListDeleteLoads(w)
    BY <1>3, <2>1 DEF AddWidget, ListDeleteLoads
  <2>2. CASE ForeignMove(w)
    BY <1>1, <1>3, <2>2, SavedWhole DEF ForeignMove
  <2>3. CASE ForeignAdd(w) \/ ForeignRemove(w)
    <3>1. srv' = Added(srv, w) \/ srv' = Removed(srv, w)
      BY <2>3, Zenon DEF ForeignAdd, ForeignRemove
    <3>2. QED BY <1>3, <3>1 DEF Added, Removed
  <2>4. QED BY <1>5, <2>1, <2>2, <2>3
<1>6. ASSUME ListDeleteCommits PROVE RowGrows
  <2>1. CASE tx.w \in srv.widgets
    <3>1. tx.version = srv.version
      BY <1>6, <2>1 DEF ListDeleteCommits
    <3>2. srv'.version = tx.version + 1
      BY <1>6, <2>1 DEF ListDeleteCommits, StripResource
    <3>3. QED BY <1>3, <3>1, <3>2
  <2>2. CASE tx.w \notin srv.widgets
    BY <1>3, <1>6, <2>2 DEF ListDeleteCommits
  <2>3. QED BY <2>1, <2>2
<1>7. ASSUME ServerWidget PROVE RowGrows
  <2>1. srv' = srv \/ srv' = Added(srv, wop.w) \/ srv' = Removed(srv, wop.w)
    BY <1>1, <1>7, WopEffects
  <2>2. QED BY <1>3, <2>1 DEF Added, Removed
<1>8. ASSUME NEW i \in DOMAIN calls, ServerPut(i) PROVE RowGrows
  <2>1. srv' = srv \/ srv' = Saved(srv, calls[i].job.layout)
    BY <1>1, <1>8, PutEffects DEF PutAccepted, PutRefused
  <2>2. QED BY <1>1, <1>3, <2>1, SavedWhole
<1>9. DeliverFrame => RowGrows
  BY <1>3 DEF DeliverFrame
<1>10. ASSUME NEW u \in Users, Reset(u) PROVE RowGrows
  BY <1>3, <1>10 DEF Reset
<1>11. QED BY <1>4, <1>5, <1>6, <1>7, <1>8, <1>9, <1>10, RowSteps

(* A drag on a board that is the row's, from a draft drawn on that board or  *)
(* from the board itself, moves the dragged widget only.                     *)
LEMMA DragTrue ==
  ASSUME Shapes, StoreTrue, NEW w \in Widgets, Drag(w)
  PROVE  SketchTrue(DragJob(w))
<1>1. /\ dash \in Helds /\ dash # None /\ HeldTrue(dash) /\ TabShape
  BY DragEffects, NoneApart DEF StoreTrue, Shapes
<1>2. /\ srv.version \in Nat /\ dash.basis \in Nat /\ dash.layout \in Layouts
      /\ Shown.layout \in Layouts /\ Shown.basis \in Nat
  BY <1>1, ShownForm DEF Shapes, RowShape, Boards, Helds
<1>3. /\ Shown.basis <= srv.version
      /\ Shown.basis = srv.version =>
           Harmless(Shown.layout, Shown.mine) /\ dash.widgets = srv.widgets
  <2>1. CASE draft # None /\ draft.base = dash.version
    <3>1. /\ Shown.layout = draft.layout /\ Shown.mine = draft.mine
          /\ Shown.basis = Earlier(draft.basis, dash.basis)
      BY <2>1 DEF Shown
    <3>2. draft.basis \in Nat /\ SketchTrue(draft)
      BY <1>1, <2>1 DEF TabShape, Drafts, StoreTrue
    <3>3. Shown.basis <= srv.version
      BY <1>1, <1>2, <3>1, <3>2 DEF Earlier, SketchTrue, HeldTrue
    <3>4. Shown.basis = srv.version => draft.basis = srv.version /\ dash.basis = srv.version
      BY <1>1, <1>2, <3>1, <3>2 DEF Earlier, SketchTrue, HeldTrue
    <3>5. QED BY <1>1, <3>1, <3>2, <3>3, <3>4 DEF SketchTrue, HeldTrue
  <2>2. CASE ~(draft # None /\ draft.base = dash.version)
    <3>1. Shown.layout = dash.layout /\ Shown.mine = {} /\ Shown.basis = dash.basis
      BY <2>2 DEF Shown
    <3>2. QED BY <1>1, <1>2, <3>1 DEF HeldTrue, Harmless
  <2>3. QED BY <2>1, <2>2
<1>4. PICK L : L = GridReport(Shown.layout, w, Len(calls) + 1)
  BY Zenon
<1>5. /\ DOMAIN L = dash.widgets
      /\ \A i \in dash.widgets : i # w /\ i \in DOMAIN Shown.layout => L[i] = Shown.layout[i]
  BY <1>4 DEF GridReport
<1>6. DragJob(w).layout = L /\ DragJob(w).mine = Shown.mine \cup {w}
      /\ DragJob(w).basis = Shown.basis
  BY <1>4 DEF DragJob
<1>7. ASSUME Shown.basis = srv.version PROVE Harmless(L, Shown.mine \cup {w})
  <2>1. Harmless(Shown.layout, Shown.mine) /\ dash.widgets = srv.widgets
    BY <1>3, <1>7
  <2>2. ASSUME NEW i \in (DOMAIN L \cap DOMAIN srv.layout) \ (Shown.mine \cup {w})
        PROVE  L[i] = srv.layout[i]
    <3>1. i \in DOMAIN Shown.layout
      BY <1>5, <2>1 DEF Harmless
    <3>2. QED BY <1>5, <2>1, <3>1 DEF Harmless
  <2>3. /\ DOMAIN srv.layout \cap srv.widgets \subseteq DOMAIN L
        /\ DOMAIN L \subseteq srv.widgets \cup DOMAIN srv.layout
    BY <1>5, <2>1
  <2>4. QED BY <2>2, <2>3 DEF Harmless
<1>8. QED BY <1>3, <1>6, <1>7 DEF SketchTrue

(* The board a response carries is the row's.                                *)
LEMMA RepliesTrue ==
  ASSUME srv \in Boards
  PROVE  ReplyTrue(BoardReply) /\ ReplyTrue(ErrorReply) /\ ReplyTrue(ConflictReply) /\ ReplyTrue(None)
<1>1. srv.version \in Nat
  BY DEF Boards
<1>2. ReplyTrue(BoardReply)
  BY <1>1, RepliesMade DEF ReplyTrue, BoardTrue
<1>3. ErrorReply.kind # "board" /\ ConflictReply.kind # "board"
  BY RepliesMade
<1>4. QED BY <1>2, <1>3 DEF ReplyTrue

(* Widgets read after the row are the row's own as long as the version is.   *)
LEMMA CompletedTrue ==
  ASSUME srv \in Boards, NEW r \in Replies, r.kind = "board", ReplyTrue(r)
  PROVE  ReplyTrue(WidgetsRead(r))
<1>1. PICK b, d : b = r.board /\ d = WidgetsRead(r).board
  BY Zenon
<1>2. b \in Boards /\ BoardTrue(b)
  BY <1>1, ReplyForm DEF ReplyTrue
<1>3. d = [widgets |-> srv.widgets, layout |-> b.layout, version |-> b.version]
  BY <1>1, WidgetsReadMade
<1>4. b = srv => d = srv
  BY <1>3 DEF Boards
<1>5. d.version = b.version
  BY <1>3
<1>6. BoardTrue(d)
  BY <1>2, <1>4, <1>5 DEF BoardTrue
<1>7. QED BY <1>1, <1>6 DEF ReplyTrue

(* A call's next answer and its next layout are true of the row.             *)
LEMMA CallsTrue ==
  ASSUME Shapes, RequestsTrue, StoreTrue, NEW i \in DOMAIN calls, SaveStep(i)
  PROVE  \E c \in Calls : Becomes(i, c) /\ CallTrue(c) /\ (c.pc # "done" => c.job \in Jobs)
<1>1. /\ calls \in Seq(Calls) /\ calls[i] \in Calls /\ CallShape(calls[i]) /\ TabShape
      /\ srv \in Boards /\ CallTrue(calls[i]) /\ srv.version \in Nat
  BY DEF Shapes, RequestShape, RowShape, RequestsTrue, Boards
<1>2. /\ BoardReply \in Replies /\ ErrorReply \in Replies /\ ConflictReply \in Replies
      /\ ReplyTrue(BoardReply) /\ ReplyTrue(ErrorReply) /\ ReplyTrue(ConflictReply)
      /\ ReplyTrue(None)
  BY <1>1, RepliesMade, RepliesTrue
<1>3. ASSUME NEW p \in CallSteps, NEW x \in Replies \cup {None}, ReplyTrue(x),
             calls[i].pc # "done", Becomes(i, CallAt(calls[i], p, x))
      PROVE  \E c \in Calls : Becomes(i, c) /\ CallTrue(c) /\ (c.pc # "done" => c.job \in Jobs)
  <2>1. PICK c : c = CallAt(calls[i], p, x)
    BY Zenon
  <2>2. /\ c \in Calls /\ c.pc = p /\ c.reply = x /\ c.job = calls[i].job
        /\ c.sent = calls[i].sent
    BY <1>1, <2>1, CallAtMade
  <2>3. JobTrue(calls[i]) /\ calls[i].job \in Jobs
    BY <1>1, <1>3 DEF CallTrue, CallShape
  <2>4. JobTrue(c)
    BY <2>2, <2>3 DEF JobTrue
  <2>5. CallTrue(c)
    BY <1>3, <2>2, <2>4 DEF CallTrue
  <2>6. QED BY <1>3, <2>1, <2>2, <2>3, <2>5
<1>4. /\ "committed" \in CallSteps /\ "row" \in CallSteps /\ "reply" \in CallSteps
      /\ "get" \in CallSteps /\ "getrow" \in CallSteps /\ "got" \in CallSteps
  BY DEF CallSteps
<1>5. ASSUME Becomes(i, Done)
      PROVE  \E c \in Calls : Becomes(i, c) /\ CallTrue(c) /\ (c.pc # "done" => c.job \in Jobs)
  <2>1. Done \in Calls /\ Done.pc = "done" /\ Done.reply = None
    <3>1. user \in Users
      BY <1>1 DEF TabShape
    <3>2. QED BY <3>1 DEF Done, Calls, CallSteps
  <2>2. CallTrue(Done)
    BY <1>2, <2>1 DEF CallTrue
  <2>3. QED BY <1>5, <2>1, <2>2
<1>6. ASSUME NEW j \in Jobs, NEW v \in Nat, Becomes(i, Put(j, v)),
             j.retried => v = j.basis /\ MergeTrue(j), ~j.retried => SketchTrue(j)
      PROVE  \E c \in Calls : Becomes(i, c) /\ CallTrue(c) /\ (c.pc # "done" => c.job \in Jobs)
  <2>1. PICK c : c = Put(j, v)
    BY Zenon
  <2>2. c \in Calls /\ c.job = j /\ c.sent = v /\ c.reply = None
    BY <1>1, <2>1, CallsMade DEF Put
  <2>3. CallTrue(c)
    BY <1>2, <1>6, <2>2 DEF CallTrue, JobTrue
  <2>4. QED BY <1>6, <2>1, <2>2, <2>3
<1>7. CASE ServerPut(i)
  <2>1. calls[i].pc = "put"
    BY <1>7 DEF ServerPut
  <2>2. calls[i].reply = None
    BY <1>1, <2>1 DEF CallShape
  <2>3. CASE PutAccepted(i)
    BY <1>2, <1>3, <1>4, <2>1, <2>2, <2>3 DEF PutAccepted
  <2>4. CASE PutRefused(i)
    BY <1>2, <1>3, <1>4, <2>1, <2>4 DEF PutRefused
  <2>5. QED BY <1>1, <1>7, <2>3, <2>4, PutEffects
<1>8. CASE ServerRespond(i) \/ PutFails(i) \/ RebaseReads(i)
  <2>1. calls[i].pc # "done"
    BY <1>8 DEF ServerRespond, PutFails, RebaseReads
  <2>2. PICK p \in CallSteps, x \in Replies : ReplyTrue(x) /\ Becomes(i, CallAt(calls[i], p, x))
    BY <1>1, <1>2, <1>4, <1>8, CallEffects
  <2>3. QED BY <1>3, <2>1, <2>2
<1>9. CASE SaveConflicts(i)
  <2>1. CASE calls[i].job.retried
    <3>1. Becomes(i, Done)
      BY <1>9, <2>1, Zenon DEF SaveConflicts, Leave, Becomes
    <3>2. QED BY <1>5, <3>1
  <2>2. CASE ~calls[i].job.retried
    <3>1. calls[i].pc # "done"
      BY <1>9 DEF SaveConflicts
    <3>2. QED BY <1>1, <1>2, <1>3, <1>4, <1>9, <2>2, <3>1, CallEffects
  <2>3. QED BY <2>1, <2>2
<1>10. CASE SaveFails(i) \/ SaveLate(i)
  <2>1. Becomes(i, Done)
    BY <1>10, Zenon DEF SaveFails, SaveLate, Leave, LeaveLate, Becomes
  <2>2. QED BY <1>5, <2>1
<1>11. pending # None => pending \in Jobs /\ SketchTrue(pending) /\ ~pending.retried
  BY <1>1 DEF TabShape, StoreTrue
<1>12. CASE SaveAccepted(i)
  <2>1. PICK b : b = calls[i].reply.board
    BY Zenon
  <2>2. /\ b \in Boards
        /\ pending # None => Becomes(i, Put(pending, b.version))
        /\ pending = None => Becomes(i, Done)
    BY <1>12, <2>1, AcceptedEffects
  <2>3. b.version \in Nat
    BY <2>2 DEF Boards
  <2>4. QED BY <1>5, <1>6, <1>11, <2>2, <2>3
<1>13. CASE Rebased(i)
  <2>1. CASE calls[i].reply.kind = "board"
    <3>1. PICK b, m : b = calls[i].reply.board /\ m = Merged(calls[i])
      BY Zenon
    <3>2. /\ b \in Boards /\ m \in Jobs /\ calls[i].pc = "got" /\ calls[i].reply \in Replies
          /\ dash # None /\ pending # None => Becomes(i, Put(pending, b.version))
          /\ dash # None /\ pending = None => Becomes(i, Put(m, b.version))
          /\ dash = None => Becomes(i, Done)
      BY <1>13, <2>1, <3>1, RebasedEffects
    <3>3. b.version \in Nat /\ b.layout \in Layouts
      BY <3>2 DEF Boards
    <3>4. m.retried = TRUE /\ m.basis = b.version
          /\ m.layout = RebaseLayout(b.layout, calls[i].job.layout)
      BY <3>1 DEF Merged
    <3>5. MergeTrue(m)
      <4>1. BoardTrue(b)
        <5>1. calls[i].reply # None
          BY <3>2, NoneApart
        <5>2. QED BY <1>1, <2>1, <3>1, <5>1 DEF CallTrue, ReplyTrue
      <4>2. calls[i].job.layout \in Layouts
        BY <1>1, <3>2 DEF CallShape, Jobs
      <4>3. DOMAIN m.layout = DOMAIN b.layout \cup DOMAIN calls[i].job.layout
        BY <3>3, <3>4, <4>2, LayoutsMerged
      <4>4. QED BY <3>4, <4>1, <4>3 DEF BoardTrue, MergeTrue
    <3>6. QED BY <1>5, <1>6, <1>11, <3>2, <3>3, <3>4, <3>5
  <2>2. CASE calls[i].reply.kind # "board"
    <3>1. Becomes(i, Done)
      BY <1>13, <2>2, Zenon DEF Rebased, Leave, Becomes
    <3>2. QED BY <1>5, <3>1
  <2>3. QED BY <2>1, <2>2
<1>14. CASE SaveWidgetsRead(i)
  <2>1. calls[i].pc \in {"row", "getrow"}
    BY <1>14 DEF SaveWidgetsRead
  <2>2. /\ calls[i].reply \in Replies /\ calls[i].reply.kind = "board"
        /\ ReplyTrue(calls[i].reply)
    BY <1>1, <2>1 DEF CallShape, Calls, CallTrue
  <2>3. PICK x, p : x = WidgetsRead(calls[i].reply) /\ p = AfterRead(calls[i].pc)
    BY Zenon
  <2>4. x \in Replies /\ ReplyTrue(x)
    BY <1>1, <2>2, <2>3, WidgetsReadMade, CompletedTrue
  <2>5. p \in CallSteps
    BY <1>4, <2>3 DEF AfterRead
  <2>6. Becomes(i, CallAt(calls[i], p, x))
    BY <1>1, <1>14, <2>3, CallEffects
  <2>7. QED BY <1>3, <2>1, <2>4, <2>5, <2>6
<1>15. QED
  BY <1>7, <1>8, <1>9, <1>10, <1>12, <1>13, <1>14 DEF SaveStep

(* The requests of a step: those it leaves alone stay true, the one it moves *)
(* is true of the row it read.                                               *)
LEMMA RequestsTrueStep ==
  ASSUME Shapes, RequestsTrue, StoreTrue, Next, RowGrows
  PROVE  RequestsTrue'
<1>1. /\ calls \in Seq(Calls) /\ (\A i \in DOMAIN calls : CallShape(calls[i]))
      /\ wop \in Wops /\ load \in Loads /\ LoadShape(load) /\ WopShape(wop)
      /\ srv \in Boards /\ srv' \in Boards /\ TabShape
  BY RowShapeStep DEF Shapes, RequestShape, RowShape
<1>2. /\ load.reply \in Replies \cup {None} /\ wop.reply \in Replies \cup {None}
      /\ ReplyTrue(load.reply) /\ ReplyTrue(wop.reply)
  BY <1>1 DEF Loads, Wops, RequestsTrue
<1>3. ASSUME NEW r \in Replies \cup {None}, ReplyTrue(r) PROVE ReplyTrue(r)'
  BY <1>1, <1>3, ReplyStays
<1>4. ASSUME NEW i \in DOMAIN calls PROVE CallTrue(calls[i]) /\ calls[i] \in Calls
                                          /\ (calls[i].pc # "done" => calls[i].job \in Jobs)
  BY <1>1 DEF RequestsTrue, CallShape
<1>5. ASSUME NEW c \in Calls, CallTrue(c), c.pc # "done" => c.job \in Jobs PROVE CallTrue(c)'
  BY <1>1, <1>5, CallStays
<1>6. ASSUME UNCHANGED calls PROVE (\A i \in DOMAIN calls : CallTrue(calls[i]))'
  <2> SUFFICES ASSUME NEW i \in DOMAIN calls' PROVE CallTrue(calls[i])'
    OBVIOUS
  <2>1. PICK c : c = calls[i]
    BY Zenon
  <2>2. i \in DOMAIN calls /\ calls'[i] = c
    BY <1>6, <2>1
  <2>3. CallTrue(c)'
    BY <1>4, <1>5, <2>1, <2>2
  <2>4. QED BY <2>2, <2>3 DEF CallTrue, JobTrue, ReplyTrue, SketchTrue, MergeTrue
<1>7. ASSUME UNCHANGED load PROVE ReplyTrue(load.reply)'
  <2>1. PICK r : r = load.reply
    BY Zenon
  <2>2. ReplyTrue(r)'
    BY <1>2, <1>3, <2>1
  <2>3. QED BY <1>7, <2>1, <2>2 DEF ReplyTrue
<1>8. ASSUME wop'.reply = wop.reply PROVE ReplyTrue(wop.reply)'
  <2>1. PICK r : r = wop.reply
    BY Zenon
  <2>2. ReplyTrue(r)'
    BY <1>2, <1>3, <2>1
  <2>3. QED BY <1>8, <2>1, <2>2 DEF ReplyTrue
<1>9. ASSUME UNCHANGED <<calls, wop, load>> PROVE RequestsTrue'
  BY <1>6, <1>7, <1>8, <1>9 DEF RequestsTrue
<1>10. /\ BoardReply \in Replies /\ ErrorReply \in Replies
       /\ ReplyTrue(BoardReply) /\ ReplyTrue(ErrorReply) /\ ReplyTrue(None)
  BY <1>1, RepliesMade, RepliesTrue
<1>11. ASSUME NEW r \in Replies \cup {None}, ReplyTrue(r), wop'.reply = r
       PROVE  ReplyTrue(wop.reply)'
  <2>1. ReplyTrue(r)'
    BY <1>3, <1>11
  <2>2. QED BY <1>11, <2>1 DEF ReplyTrue
<1>12. ASSUME NEW r \in Replies \cup {None}, ReplyTrue(r), load'.reply = r
       PROVE  ReplyTrue(load.reply)'
  <2>1. ReplyTrue(r)'
    BY <1>3, <1>12
  <2>2. QED BY <1>12, <2>1 DEF ReplyTrue
<1>13. ASSUME NEW w \in Widgets,
              ForeignMove(w) \/ ForeignAdd(w) \/ ForeignRemove(w) \/ ListDeleteLoads(w)
       PROVE  RequestsTrue'
  <2>1. UNCHANGED <<calls, wop, load>>
    BY <1>13 DEF ForeignMove, ForeignAdd, ForeignRemove, ListDeleteLoads, tab
  <2>2. QED BY <1>9, <2>1
<1>14. ASSUME ListDeleteCommits \/ DeliverFrame \/ Rest PROVE RequestsTrue'
  <2>1. UNCHANGED <<calls, wop, load>>
    BY <1>14 DEF ListDeleteCommits, DeliverFrame, Rest, tab, vars
  <2>2. QED BY <1>9, <2>1
<1>15. ASSUME NEW w \in Widgets, Drag(w) PROVE RequestsTrue'
  <2>1. UNCHANGED <<wop, load, srv>>
    BY <1>15 DEF Drag
  <2>2. /\ DragJob(w) \in Jobs /\ DragJob(w).retried = FALSE /\ dash.version \in Nat
        /\ SketchTrue(DragJob(w))
    BY <1>15, DragEffects, DragTrue DEF Helds
  <2>3. PICK c \in Calls : CallTrue(c) /\ calls' = Append(calls, c)
    <3>1. CASE saving
      <4>1. Done \in Calls
        BY <1>1, <2>2, CallsMade
      <4>2. Done.pc = "done" /\ Done.reply = None
        BY DEF Done
      <4>3. CallTrue(Done)
        BY <1>10, <4>2 DEF CallTrue
      <4>4. QED BY <1>15, <3>1, <4>1, <4>3, DragEffects
    <3>2. CASE ~saving
      <4>1. PICK q, c : q = DragJob(w) /\ c = Put(q, dash.version)
        BY Zenon
      <4>2. c \in Calls /\ c.job = q /\ c.reply = None
        BY <1>1, <2>2, <4>1, CallsMade DEF Put
      <4>3. CallTrue(c)
        BY <1>10, <2>2, <4>1, <4>2 DEF CallTrue, JobTrue
      <4>4. QED BY <1>15, <3>2, <4>1, <4>2, <4>3, DragEffects
    <3>3. QED BY <3>1, <3>2
  <2>4. /\ DOMAIN calls' = DOMAIN calls \cup {Len(calls) + 1}
        /\ calls'[Len(calls) + 1] = c
        /\ \A j \in DOMAIN calls : calls'[j] = calls[j]
    BY <1>1, <2>3, CallAdded
  <2>5. ASSUME NEW j \in DOMAIN calls' PROVE CallTrue(calls[j])'
    <3>1. PICK d : d = calls'[j]
      BY Zenon
    <3>2. CallTrue(d)
      BY <1>4, <2>3, <2>4, <3>1
    <3>3. QED
      BY <2>1, <3>1, <3>2 DEF CallTrue, JobTrue, ReplyTrue, BoardTrue, SketchTrue, MergeTrue, Harmless
  <2>6. QED BY <1>7, <1>8, <2>1, <2>5 DEF RequestsTrue
<1>16. ASSUME NEW i \in DOMAIN calls, SaveStep(i) PROVE RequestsTrue'
  <2>1. UNCHANGED <<wop, load>>
    <3>1. ServerPut(i) \/ ServerRespond(i) \/ SaveWidgetsRead(i) \/ PutFails(i)
            \/ SaveConflicts(i) \/ SaveFails(i) \/ SaveLate(i) \/ RebaseReads(i) =>
              UNCHANGED <<wop, load>>
      BY DEF ServerPut, ServerRespond, SaveWidgetsRead, PutFails, SaveConflicts, SaveFails,
             SaveLate, RebaseReads
    <3>2. SaveAccepted(i) \/ Rebased(i) => UNCHANGED <<wop, load>>
      BY DEF SaveAccepted, Rebased
    <3>3. QED BY <1>16, <3>1, <3>2 DEF SaveStep
  <2>2. PICK c \in Calls : Becomes(i, c) /\ CallTrue(c) /\ (c.pc # "done" => c.job \in Jobs)
    BY <1>16, CallsTrue
  <2>3. /\ DOMAIN calls' = DOMAIN calls /\ calls'[i] = c
        /\ \A j \in DOMAIN calls : j # i => calls'[j] = calls[j]
    BY <1>1, <2>2, CallMoved
  <2>4. ASSUME NEW j \in DOMAIN calls' PROVE CallTrue(calls[j])'
    <3>1. PICK d : d = calls'[j]
      BY Zenon
    <3>2. CallTrue(d)'
      BY <1>4, <1>5, <2>2, <2>3, <3>1
    <3>3. QED BY <3>1, <3>2 DEF CallTrue, JobTrue, ReplyTrue, SketchTrue, MergeTrue
  <2>5. QED BY <1>7, <1>8, <2>1, <2>4 DEF RequestsTrue
<1>17. ASSUME NEW w \in Widgets, AddWidget(w) \/ RemoveWidget(w) PROVE RequestsTrue'
  <2>1. UNCHANGED <<calls, load>> /\ wop'.reply = None
    BY <1>17 DEF AddWidget, RemoveWidget, Request
  <2>2. QED BY <1>6, <1>7, <1>10, <1>11, <2>1 DEF RequestsTrue
<1>18. ASSUME ServerWidget \/ WidgetResponds \/ WidgetWidgetsRead \/ WidgetFails \/ WidgetAnswered
       PROVE  RequestsTrue'
  <2>1. UNCHANGED <<calls, load>>
    <3>1. ServerWidget => UNCHANGED <<calls, load>>
      BY Zenon DEF ServerWidget
    <3>2. WidgetResponds \/ WidgetWidgetsRead \/ WidgetFails \/ WidgetAnswered =>
            UNCHANGED <<calls, load>>
      BY DEF WidgetResponds, WidgetWidgetsRead, WidgetFails, WidgetAnswered
    <3>3. QED BY <1>18, <3>1, <3>2
  <2>4. ASSUME WidgetWidgetsRead
        PROVE  \E x \in Replies \cup {None} : ReplyTrue(x) /\ wop'.reply = x
    <3>1. wop.pc = "row"
      BY <2>4 DEF WidgetWidgetsRead
    <3>2. wop.reply \in Replies /\ wop.reply.kind = "board"
      BY <1>1, <3>1 DEF WopShape, Wops
    <3>3. WidgetsRead(wop.reply) \in Replies /\ ReplyTrue(WidgetsRead(wop.reply))
      BY <1>1, <1>2, <3>2, WidgetsReadMade, CompletedTrue
    <3>4. wop' = WopAt(wop, "reply", WidgetsRead(wop.reply))
      BY <1>1, <2>4, WopEffects
    <3>5. QED BY <3>3, <3>4 DEF WopAt
  <2>2. PICK x \in Replies \cup {None} : ReplyTrue(x) /\ wop'.reply = x
    <3> SUFFICES ASSUME ~WidgetWidgetsRead
                 PROVE  \E x \in Replies \cup {None} : ReplyTrue(x) /\ wop'.reply = x
      BY <2>4
    <3>1. \/ wop' = WopAt(wop, "row", BoardReply) \/ wop' = WopAt(wop, "reply", ErrorReply)
          \/ wop' = WopAt(wop, "idle", None) \/ wop' = WopAt(wop, "committed", wop.reply)
      BY <1>1, <1>18, WopEffects
    <3>2. QED BY <1>2, <1>10, <3>1 DEF WopAt
  <2>3. QED BY <1>6, <1>7, <1>11, <2>1, <2>2 DEF RequestsTrue
<1>19. ASSUME Refresh \/ Open \/ LoadReads \/ LoadWidgetsRead \/ Loaded \/ ResolveConflict
       PROVE  RequestsTrue'
  <2>1. UNCHANGED <<calls, wop>>
    BY <1>19 DEF Refresh, Open, LoadReads, LoadWidgetsRead, Loaded, ResolveConflict
  <2>2. PICK x \in Replies \cup {None} : ReplyTrue(x) /\ load'.reply = x
    <3>1. CASE Refresh \/ Open \/ ResolveConflict
      <4>1. load' = StartLoad \/ load' = load
        BY <3>1 DEF Refresh, Open, ResolveConflict
      <4>2. StartLoad.reply = load.reply
        BY <1>1, LoadEffects
      <4>3. QED BY <1>2, <4>1, <4>2
    <3>2. CASE LoadReads
      BY <1>1, <1>10, <3>2, LoadEffects
    <3>3. CASE Loaded
      BY <1>10, <3>3 DEF Loaded
    <3>4. CASE LoadWidgetsRead
      <4>1. load.pc = "row"
        BY <3>4 DEF LoadWidgetsRead
      <4>2. load.reply \in Replies /\ load.reply.kind = "board"
        BY <1>1, <4>1 DEF LoadShape, Loads
      <4>3. WidgetsRead(load.reply) \in Replies /\ ReplyTrue(WidgetsRead(load.reply))
        BY <1>1, <1>2, <4>2, WidgetsReadMade, CompletedTrue
      <4>4. load'.reply = WidgetsRead(load.reply)
        BY <1>1, <3>4, LoadEffects
      <4>5. QED BY <4>3, <4>4
    <3>5. QED BY <1>19, <3>1, <3>2, <3>3, <3>4
  <2>3. QED BY <1>6, <1>8, <1>12, <2>1, <2>2 DEF RequestsTrue
<1>20. ASSUME NEW u \in Users, Reset(u) PROVE RequestsTrue'
  <2>1. UNCHANGED <<calls, wop>> /\ load'.reply = None
    BY <1>20 DEF Reset
  <2>2. QED BY <1>6, <1>8, <1>10, <1>12, <2>1 DEF RequestsTrue
<1>21. QED
  BY <1>13, <1>14, <1>15, <1>16, <1>17, <1>18, <1>19, <1>20 DEF Next

(* A board read is held as what it is.                                       *)
LEMMA HeldBoardTrue ==
  ASSUME srv \in Boards, NEW b \in Boards, BoardTrue(b)
  PROVE  HeldTrue(Held(b))
BY HeldMade DEF BoardTrue, HeldTrue

(* The tab's own copies: what an answer, a frame or a drag makes of them.    *)
LEMMA StoreTrueStep ==
  ASSUME Shapes, WidgetsLive, RequestsTrue, StoreTrue, Next, RowGrows
  PROVE  StoreTrue'
<1>1. /\ srv \in Boards /\ srv' \in Boards /\ TabShape /\ srv.version \in Nat
      /\ dash \in Helds \cup {None} /\ draft \in Drafts \cup {None} /\ pending \in Jobs \cup {None}
  BY RowShapeStep DEF Shapes, RowShape, TabShape, Boards
<1>2. /\ draft # None => draft.basis \in Nat /\ SketchTrue(draft)
      /\ pending # None => pending.basis \in Nat /\ SketchTrue(pending) /\ ~pending.retried
      /\ dash # None => dash \in Helds /\ HeldTrue(dash)
  BY <1>1 DEF Drafts, Jobs, StoreTrue
<1>3. ASSUME draft' = draft PROVE (draft # None => SketchTrue(draft))'
  <2>1. CASE draft # None
    <3>1. PICK x : x = draft
      BY Zenon
    <3>2. SketchTrue(x)'
      BY <1>1, <1>2, <2>1, <3>1, SketchStays
    <3>3. QED BY <1>3, <3>1, <3>2 DEF SketchTrue
  <2>2. QED BY <1>3, <2>1
<1>4. ASSUME pending' \in {pending, None}
      PROVE  (pending # None => SketchTrue(pending) /\ ~pending.retried)'
  <2>1. CASE pending' # None
    <3>1. PICK x : x = pending
      BY Zenon
    <3>2. SketchTrue(x)' /\ ~x.retried /\ pending' = x
      BY <1>1, <1>2, <1>4, <2>1, <3>1, SketchStays
    <3>3. QED BY <3>2 DEF SketchTrue
  <2>2. QED BY <2>1
<1>5. ASSUME dash' = dash PROVE (dash # None => HeldTrue(dash))'
  <2>1. CASE dash # None
    <3>1. PICK x : x = dash
      BY Zenon
    <3>2. HeldTrue(x)'
      BY <1>1, <1>2, <2>1, <3>1, HeldStays
    <3>3. QED BY <1>5, <3>1, <3>2 DEF HeldTrue
  <2>2. QED BY <1>5, <2>1
<1>6. ASSUME srv' = srv, NEW d, HeldTrue(d), dash' = d PROVE (dash # None => HeldTrue(dash))'
  BY <1>6 DEF HeldTrue
<1>7. CASE StoreRests
  BY <1>3, <1>4, <1>5, <1>7 DEF StoreRests, StoreTrue
<1>8. ASSUME NEW w \in Widgets, Drag(w) PROVE StoreTrue'
  <2>1. srv' = srv /\ dash' = dash
    BY <1>8 DEF Drag
  <2>2. PICK j : j = DragJob(w)
    BY Zenon
  <2>3. /\ SketchTrue(j) /\ ~j.retried
        /\ draft' = [layout |-> j.layout, base |-> dash.version, mine |-> j.mine,
                     basis |-> j.basis]
        /\ pending' = j \/ pending' = None
    BY <1>1, <1>8, <2>2, DragTrue, DragEffects DEF Shapes, TabShape
  <2>4. SketchTrue(j)'
    BY <2>1, <2>3 DEF SketchTrue, Harmless
  <2>5. draft'.layout = j.layout /\ draft'.mine = j.mine /\ draft'.basis = j.basis
    BY <2>3
  <2>6. SketchTrue(draft)'
    BY <2>4, <2>5 DEF SketchTrue
  <2>7. (pending # None => SketchTrue(pending) /\ ~pending.retried)'
    BY <2>3, <2>4 DEF SketchTrue
  <2>8. QED BY <1>5, <2>1, <2>6, <2>7 DEF StoreTrue
<1>9. ASSUME NEW i \in DOMAIN calls, SaveAccepted(i) PROVE StoreTrue'
  <2>1. draft' = draft /\ srv' = srv
    BY <1>9 DEF SaveAccepted
  <2>2. PICK b : b = calls[i].reply.board
    BY Zenon
  <2>3. /\ b \in Boards /\ calls[i].reply \in Replies /\ calls[i].reply.kind = "board"
        /\ dash' = AcceptedBoard(b) /\ pending' = None
    BY <1>9, <2>2, AcceptedEffects
  <2>4. BoardTrue(b)
    <3>1. calls[i].reply # None
      BY <2>3, NoneApart
    <3>2. QED BY <2>2, <2>3, <3>1 DEF RequestsTrue, CallTrue, ReplyTrue
  <2>5. HeldTrue(AcceptedBoard(b))
    <3>1. CASE dash = None
      BY <1>1, <2>3, <2>4, <3>1, HeldBoardTrue DEF AcceptedBoard
    <3>2. CASE dash # None
      <4>1. b.version \in Nat /\ dash.basis \in Nat /\ HeldTrue(dash)
        BY <1>2, <2>3, <3>2 DEF Boards, Helds
      <4>2. PICK n : n = IF dash.widgets = b.widgets THEN b.version
                         ELSE Earlier(b.version, dash.basis)
        BY Zenon
      <4>3. AcceptedBoard(b) = [widgets |-> dash.widgets, layout |-> b.layout,
                                version |-> b.version, basis |-> n]
        BY <3>2, <4>2, Zenon DEF AcceptedBoard
      <4>4. CASE dash.widgets = b.widgets
        BY <2>4, <4>1, <4>2, <4>3, <4>4 DEF BoardTrue, HeldTrue
      <4>5. CASE dash.widgets # b.widgets
        <5>1. n = Earlier(b.version, dash.basis)
          BY <4>2, <4>5
        <5>2. n <= srv.version /\ (n = srv.version => b.version = srv.version
                                                      /\ dash.basis = srv.version)
          BY <1>1, <2>4, <4>1, <5>1 DEF Earlier, BoardTrue, HeldTrue
        <5>3. n # srv.version
          BY <2>4, <4>1, <4>5, <5>2 DEF BoardTrue, HeldTrue
        <5>4. QED BY <4>3, <5>2, <5>3 DEF HeldTrue
      <4>6. QED BY <4>4, <4>5
    <3>3. QED BY <3>1, <3>2
  <2>6. QED BY <1>3, <1>4, <1>6, <2>1, <2>3, <2>5 DEF StoreTrue
<1>10. ASSUME NEW i \in DOMAIN calls, SaveConflicts(i) \/ SaveFails(i) \/ SaveLate(i)
       PROVE  StoreTrue'
  <2>1. UNCHANGED <<draft, dash>>
    BY <1>10 DEF SaveConflicts, SaveFails, SaveLate
  <2>2. pending' \in {pending, None}
    BY <1>10 DEF SaveConflicts, SaveFails, SaveLate, Leave
  <2>3. QED BY <1>3, <1>4, <1>5, <2>1, <2>2 DEF StoreTrue
<1>11. ASSUME NEW i \in DOMAIN calls, Rebased(i) PROVE StoreTrue'
  <2>1. draft' = draft /\ srv' = srv
    BY <1>11 DEF Rebased
  <2>2. CASE calls[i].reply.kind = "board"
    <3>1. PICK b : b = calls[i].reply.board
      BY Zenon
    <3>2. /\ pending' = None
          /\ dash = None => dash' = None
          /\ dash # None => dash' = [dash EXCEPT !.version = b.version]
      BY <1>11, <2>2, <3>1, RebasedEffects
    <3>3. dash # None => /\ dash'.widgets = dash.widgets /\ dash'.layout = dash.layout
                         /\ dash'.basis = dash.basis
      BY <1>1, <3>2 DEF Helds
    <3>4. (dash # None => HeldTrue(dash))'
      BY <1>2, <2>1, <3>2, <3>3 DEF HeldTrue
    <3>5. QED BY <1>3, <1>4, <2>1, <3>2, <3>4 DEF StoreTrue
  <2>3. CASE calls[i].reply.kind # "board"
    <3>1. dash' = dash /\ pending' = None
      BY <1>11, <2>3, Zenon DEF Rebased, Leave
    <3>2. QED BY <1>3, <1>4, <1>5, <2>1, <3>1 DEF StoreTrue
  <2>4. QED BY <2>2, <2>3
<1>12. ASSUME WidgetAnswered PROVE StoreTrue'
  <2>1. UNCHANGED <<draft, pending, srv>>
    BY <1>12 DEF WidgetAnswered
  <2>2. CASE wop.gen = gen /\ wop.reply.kind = "board"
    <3>1. PICK b : b = wop.reply.board
      BY Zenon
    <3>2. b \in Boards /\ dash' = Held(b) /\ wop.reply \in Replies
      BY <1>12, <2>2, <3>1, AnswerEffects
    <3>3. BoardTrue(b)
      BY <2>2, <3>1, <3>2, NoneApart DEF RequestsTrue, ReplyTrue
    <3>4. HeldTrue(Held(b))
      BY <1>1, <3>2, <3>3, HeldBoardTrue
    <3>5. QED BY <1>3, <1>4, <1>6, <2>1, <3>2, <3>4 DEF StoreTrue
  <2>3. CASE ~(wop.gen = gen /\ wop.reply.kind = "board")
    <3>1. dash' = dash
      BY <1>12, <2>3, AnswerEffects
    <3>2. QED BY <1>3, <1>4, <1>5, <2>1, <3>1 DEF StoreTrue
  <2>4. QED BY <2>2, <2>3
<1>13. ASSUME Loaded PROVE StoreTrue'
  <2>1. UNCHANGED <<draft, pending, srv>>
    BY <1>13 DEF Loaded
  <2>2. CASE load.reply.kind = "board"
    <3>1. PICK b : b = load.reply.board
      BY Zenon
    <3>2. b \in Boards /\ dash' = Held(b) /\ load.reply \in Replies
      BY <1>13, <2>2, <3>1, AnswerEffects
    <3>3. BoardTrue(b)
      BY <2>2, <3>1, <3>2, NoneApart DEF RequestsTrue, ReplyTrue
    <3>4. HeldTrue(Held(b))
      BY <1>1, <3>2, <3>3, HeldBoardTrue
    <3>5. QED BY <1>3, <1>4, <1>6, <2>1, <3>2, <3>4 DEF StoreTrue
  <2>3. CASE load.reply.kind # "board"
    <3>1. dash' = dash
      BY <1>13, <2>3, AnswerEffects
    <3>2. QED BY <1>3, <1>4, <1>5, <2>1, <3>1 DEF StoreTrue
  <2>4. QED BY <2>2, <2>3
<1>14. ASSUME DeliverFrame PROVE StoreTrue'
  <2>1. UNCHANGED <<draft, pending, srv>>
    BY <1>14 DEF DeliverFrame
  <2>2. CASE dash' = dash
    BY <1>3, <1>4, <1>5, <2>1, <2>2 DEF StoreTrue
  <2>3. CASE dash' # dash
    <3>1. PICK f : f = Head(frames)
      BY Zenon
    <3>2. f \in InFlight /\ f.kind = "list" /\ dash # None /\ dash' = DropResource(dash, f.w)
      BY <1>14, <2>3, <3>1, DeliveryEffects, FrameTaken DEF Shapes, RowShape
    <3>3. f.w \notin srv.widgets
      BY <3>2 DEF WidgetsLive
    <3>4. f.w \in dash.widgets /\ DropResource(dash, f.w).basis = dash.basis
      BY <1>2, <2>3, <3>2, DropMade
    <3>5. dash.basis # srv.version
      BY <1>2, <3>2, <3>3, <3>4 DEF HeldTrue
    <3>6. HeldTrue(DropResource(dash, f.w))
      BY <1>2, <3>2, <3>4, <3>5 DEF HeldTrue
    <3>7. QED BY <1>3, <1>4, <1>6, <2>1, <3>2, <3>6 DEF StoreTrue
  <2>4. QED BY <2>2, <2>3
<1>15. ASSUME NEW u \in Users, Reset(u) PROVE StoreTrue'
  BY <1>15 DEF Reset, StoreTrue
<1>16. QED
  BY <1>7, <1>8, <1>9, <1>10, <1>11, <1>12, <1>13, <1>14, <1>15, StoreSteps

(* Together, until a list deletion has reused a version.                     *)
LEMMA ContentsStep ==
  ASSUME Shapes, WidgetsLive, Contents, Next
  PROVE  Contents'
<1> SUFFICES ASSUME "raced" \notin gaps'
             PROVE  (tx' # None => tx'.version <= srv'.version) /\ RequestsTrue' /\ StoreTrue'
  BY DEF Contents
<1>1. "raced" \notin gaps
  BY FlagsKept
<1>2. (tx # None => tx.version <= srv.version) /\ RequestsTrue /\ StoreTrue
  BY <1>1 DEF Contents
<1>3. RowGrows
  BY RowGrowsStep
<1>4. RequestsTrue' /\ StoreTrue'
  BY <1>2, <1>3, RequestsTrueStep, StoreTrueStep
<1>5. tx' # None => tx'.version <= srv'.version
  <2>1. /\ tx \in LoadedRows \cup {None} /\ srv.version \in Nat /\ srv'.version \in Nat
    BY RowShapeStep DEF Shapes, RowShape, Boards
  <2>2. tx # None => tx.version \in Nat
    BY <2>1 DEF LoadedRows
  <2>3. CASE tx' = tx
    BY <1>2, <1>3, <2>1, <2>2, <2>3 DEF RowGrows
  <2>4. CASE tx' # tx
    <3>1. tx' = None \/ \E w \in Widgets : ListDeleteLoads(w)
      <4>1. RowRests => tx' = tx
        BY DEF RowRests
      <4>2. ASSUME NEW w \in Widgets,
                   AddWidget(w) \/ ForeignMove(w) \/ ForeignAdd(w) \/ ForeignRemove(w)
            PROVE  tx' = tx
        BY <4>2 DEF AddWidget, ForeignMove, ForeignAdd, ForeignRemove
      <4>3. ListDeleteCommits => tx' = None
        BY DEF ListDeleteCommits
      <4>4. ServerWidget => tx' = tx
        BY Zenon DEF ServerWidget
      <4>5. DeliverFrame => tx' = tx
        BY DEF DeliverFrame
      <4>6. ASSUME NEW i \in DOMAIN calls, ServerPut(i) PROVE tx' = tx
        BY <4>6 DEF ServerPut
      <4>7. ASSUME NEW u \in Users, Reset(u) PROVE tx' = tx
        BY <4>7 DEF Reset
      <4>8. QED BY <2>4, <4>1, <4>2, <4>3, <4>4, <4>5, <4>6, <4>7, RowSteps
    <3>2. ASSUME NEW w \in Widgets, ListDeleteLoads(w) PROVE tx'.version <= srv'.version
      BY <2>1, <3>2 DEF ListDeleteLoads
    <3>3. QED BY <3>1, <3>2
  <2>5. QED BY <2>3, <2>4
<1>6. QED BY <1>4, <1>5

-----------------------------------------------------------------------------
(* update_layout's check at work: what an accepted save does to entries its  *)
(* author did not drag.                                                      *)
LEMMA HarmlessStep ==
  ASSUME Shapes, Contents, SavesHarmless, Next
  PROVE  SavesHarmless'
<1> SUFFICES ASSUME "raced" \notin gaps'
             PROVE  (\A h \in harm' : h[2] # "fresh") /\ <<"stripped", "rebase">> \notin harm'
  BY DEF SavesHarmless, FreshSavesHarmless, MergeKeepsAdded
<1>1. "raced" \notin gaps
  BY FlagsKept
<1>2. (\A h \in harm : h[2] # "fresh") /\ <<"stripped", "rebase">> \notin harm
  BY <1>1 DEF SavesHarmless, FreshSavesHarmless, MergeKeepsAdded
<1>3. CASE harm' = harm
  BY <1>2, <1>3
<1>4. ASSUME NEW i \in DOMAIN calls, ServerPut(i), PutAccepted(i)
      PROVE  (\A h \in harm' : h[2] # "fresh") /\ <<"stripped", "rebase">> \notin harm'
  <2>1. PICK c : c = calls[i]
    BY Zenon
  <2>2. c \in Calls /\ CallShape(c) /\ CallTrue(c) /\ c.pc = "put"
    BY <1>1, <1>4, <2>1 DEF Shapes, RequestShape, Contents, RequestsTrue, ServerPut
  <2>3. JobTrue(c) /\ c.job \in Jobs
    BY <2>2 DEF CallTrue, CallShape
  <2>4. c.job.retried \in BOOLEAN /\ c.sent = srv.version
    BY <1>4, <2>1, <2>3 DEF Jobs, PutAccepted
  <2>5. harm' = harm \cup {<<x[1], Provenance(c)>> : x \in Damage(c)}
    BY <1>4, <2>1 DEF PutAccepted
  <2>6. ASSUME Provenance(c) = "fresh" PROVE Damage(c) = {}
    <3>1. ~c.job.retried /\ c.job.basis = c.sent
      BY <2>6 DEF Provenance
    <3>2. Harmless(c.job.layout, c.job.mine)
      BY <2>3, <2>4, <3>1 DEF JobTrue, SketchTrue
    <3>3. Reverted(c) = {} /\ Stripped(c) = {} /\ Revived(c) = {}
      BY <3>2 DEF Harmless, Reverted, Stripped, Revived
    <3>4. QED BY <3>3 DEF Damage
  <2>7. ASSUME Provenance(c) = "rebase" PROVE \A x \in Damage(c) : x[1] # "stripped"
    <3>1. c.job.retried
      BY <2>7 DEF Provenance
    <3>2. MergeTrue(c.job) /\ c.job.basis = srv.version
      BY <2>3, <2>4, <3>1 DEF JobTrue
    <3>3. Stripped(c) = {}
      BY <3>2 DEF MergeTrue, Stripped
    <3>4. QED BY <3>3 DEF Damage
  <2>8. ASSUME NEW h \in harm' PROVE h[2] # "fresh" /\ h # <<"stripped", "rebase">>
    <3>1. CASE h \in harm
      BY <1>2, <3>1
    <3>2. CASE h \notin harm
      <4>1. PICK x \in Damage(c) : h = <<x[1], Provenance(c)>>
        BY <2>5, <3>2
      <4>2. h[1] = x[1] /\ h[2] = Provenance(c)
        BY <4>1
      <4>3. h[2] # "fresh"
        BY <2>6, <4>2
      <4>4. ASSUME h = <<"stripped", "rebase">> PROVE FALSE
        <5>1. x[1] = "stripped" /\ Provenance(c) = "rebase"
          BY <4>2, <4>4
        <5>2. QED BY <2>7, <5>1
      <4>5. QED BY <4>3, <4>4
    <3>3. QED BY <3>1, <3>2
  <2>9. QED BY <2>8
<1>5. ASSUME NEW i \in DOMAIN calls, ServerPut(i) PROVE harm' = harm \/ PutAccepted(i)
  BY <1>5, PutEffects DEF PutRefused, Shapes, RequestShape
<1>6. ASSUME NEW w \in Widgets,
             AddWidget(w) \/ ForeignMove(w) \/ ForeignAdd(w) \/ ForeignRemove(w) \/ ListDeleteLoads(w)
      PROVE  harm' = harm
  BY <1>6 DEF AddWidget, ForeignMove, ForeignAdd, ForeignRemove, ListDeleteLoads
<1>7. ListDeleteCommits \/ DeliverFrame \/ RowRests => harm' = harm
  BY DEF ListDeleteCommits, DeliverFrame, RowRests
<1>8. ServerWidget => harm' = harm
  BY Zenon DEF ServerWidget
<1>9. ASSUME NEW u \in Users, Reset(u) PROVE harm' = harm
  BY <1>9 DEF Reset
<1>10. QED BY <1>3, <1>4, <1>5, <1>6, <1>7, <1>8, <1>9, RowSteps

(* The first board.                                                          *)
LEMMA ContentsInit ==
  ASSUME Init
  PROVE  WidgetsLive /\ Contents /\ SavesHarmless
<1>1. Shapes
  BY ShapesInit
<1>2. srv \in Boards /\ srv.version = 0 /\ srv.widgets = Start
  BY <1>1 DEF Shapes, RowShape, Init
<1>3. InFlight = {}
  BY DEF Init, InFlight
<1>4. tx = None /\ wop.pc = "idle" /\ born = Start
  BY DEF Init
<1>5. WidgetsLive
  BY <1>2, <1>3, <1>4 DEF WidgetsLive
<1>6. HeldTrue(dash)
  <2>1. BoardTrue(srv)
    BY <1>2 DEF BoardTrue
  <2>2. QED BY <1>2, <2>1, HeldBoardTrue DEF Init
<1>7. StoreTrue
  BY <1>6 DEF Init, StoreTrue
<1>8. RequestsTrue
  BY DEF Init, RequestsTrue, ReplyTrue
<1>9. Contents
  BY <1>4, <1>7, <1>8 DEF Contents
<1>10. SavesHarmless
  BY DEF Init, SavesHarmless, FreshSavesHarmless, MergeKeepsAdded
<1>11. QED BY <1>5, <1>9, <1>10

-----------------------------------------------------------------------------
(* saveLayout's serialization: the flag is up exactly while this session has *)
(* a drain, there is never a second one, and what is pending has a drain.    *)
DrainsAlone ==
    /\ \A i, j \in CurrentDrains : i = j
    /\ saving <=> CurrentDrains # {}
    /\ pending # None => saving

(* Which steps touch the saveLayout calls or the session.                    *)
LEMMA CallSources ==
  ASSUME Next
  PROVE  \/ UNCHANGED <<calls, user, gen, saving, pending>>
         \/ \E w \in Widgets : Drag(w)
         \/ \E i \in DOMAIN calls : SaveStep(i)
         \/ \E u \in Users : Reset(u)
<1> DEFINE Apart == UNCHANGED <<calls, user, gen, saving, pending>>
<1>1. ASSUME NEW w \in Widgets,
             \/ AddWidget(w) \/ RemoveWidget(w)
             \/ ForeignMove(w) \/ ForeignAdd(w) \/ ForeignRemove(w) \/ ListDeleteLoads(w)
      PROVE  Apart
  BY <1>1 DEF AddWidget, RemoveWidget, ForeignMove, ForeignAdd, ForeignRemove, ListDeleteLoads, tab
<1>2. ListDeleteCommits \/ Rest => Apart
  BY DEF ListDeleteCommits, Rest, tab, vars
<1>3. ServerWidget => Apart
  BY Zenon DEF ServerWidget
<1>4. WidgetResponds \/ WidgetWidgetsRead \/ WidgetFails \/ WidgetAnswered \/ DeliverFrame =>
        Apart
  BY DEF WidgetResponds, WidgetWidgetsRead, WidgetFails, WidgetAnswered, DeliverFrame
<1>5. Refresh \/ Open \/ LoadReads \/ LoadWidgetsRead \/ Loaded \/ ResolveConflict => Apart
  BY DEF Refresh, Open, LoadReads, LoadWidgetsRead, Loaded, ResolveConflict
<1>6. QED BY <1>1, <1>2, <1>3, <1>4, <1>5 DEF Next

(* A call moves on or returns.                                               *)
LEMMA DrainMoves ==
  ASSUME calls \in Seq(Calls), gen' = gen, NEW i \in DOMAIN calls, NEW c \in Calls, Becomes(i, c),
         calls[i].pc # "done"
  PROVE  /\ c.pc # "done" /\ c.gen = calls[i].gen => CurrentDrains' = CurrentDrains
         /\ c.pc = "done" => CurrentDrains' = CurrentDrains \ {i}
<1>1. /\ DOMAIN calls' = DOMAIN calls /\ calls'[i] = c
      /\ \A j \in DOMAIN calls : j # i => calls'[j] = calls[j]
  BY CallMoved
<1>2. QED BY <1>1 DEF CurrentDrains, Active

(* One drain per session, through failures, conflicts and sign-ins.          *)
LEMMA DrainsStep ==
  ASSUME Shapes, DrainsAlone, Next
  PROVE  DrainsAlone'
<1>1. /\ calls \in Seq(Calls) /\ (\A i \in DOMAIN calls : CallShape(calls[i])) /\ TabShape
      /\ srv \in Boards /\ gen \in Nat /\ saving \in BOOLEAN /\ pending \in Jobs \cup {None}
  BY DEF Shapes, RequestShape, RowShape, TabShape
<1>2. /\ BoardReply \in Replies /\ ErrorReply \in Replies /\ ConflictReply \in Replies
  BY <1>1, RepliesMade
<1>3. Done \in Calls /\ Done.pc = "done"
  BY <1>1 DEF Done, Calls, CallSteps, TabShape
<1>4. ASSUME NEW i \in DOMAIN calls, NEW p \in CallSteps \ {"done"}, NEW x \in Replies \cup {None},
             calls[i].pc # "done", Becomes(i, CallAt(calls[i], p, x)),
             UNCHANGED <<gen, saving, pending>>
      PROVE  DrainsAlone'
  <2>1. PICK c : c = CallAt(calls[i], p, x)
    BY Zenon
  <2>2. c \in Calls /\ c.pc # "done" /\ c.gen = calls[i].gen
    BY <1>1, <2>1, CallAtMade
  <2>3. CurrentDrains' = CurrentDrains
    BY <1>1, <1>4, <2>1, <2>2, DrainMoves
  <2>4. QED BY <1>4, <2>3 DEF DrainsAlone
<1>5. ASSUME NEW i \in DOMAIN calls, calls[i].pc # "done", calls[i].gen = gen, gen' = gen,
             Becomes(i, Done), saving' = FALSE, pending' = None
      PROVE  DrainsAlone'
  <2>1. CurrentDrains' = CurrentDrains \ {i} /\ i \in CurrentDrains
    BY <1>1, <1>3, <1>5, DrainMoves DEF CurrentDrains, Active
  <2>2. CurrentDrains' = {}
    BY <2>1 DEF DrainsAlone
  <2>3. QED BY <1>5, <2>2 DEF DrainsAlone
<1>6. ASSUME NEW i \in DOMAIN calls, calls[i].pc # "done", calls[i].gen = gen, gen' = gen,
             NEW j \in Jobs, NEW v \in Nat, Becomes(i, Put(j, v)), saving' = TRUE, pending' = None
      PROVE  DrainsAlone'
  <2>1. PICK c : c = Put(j, v)
    BY Zenon
  <2>2. c \in Calls /\ c.pc = "put" /\ c.gen = gen
    BY <1>1, <2>1, CallsMade DEF Put
  <2>3. CurrentDrains' = CurrentDrains /\ i \in CurrentDrains
    BY <1>1, <1>6, <2>1, <2>2, DrainMoves DEF CurrentDrains, Active
  <2>4. QED BY <1>6, <2>3 DEF DrainsAlone
<1>7. CASE UNCHANGED <<calls, user, gen, saving, pending>>
  BY <1>7 DEF DrainsAlone, CurrentDrains, Active
<1>8. ASSUME NEW u \in Users, Reset(u) PROVE DrainsAlone'
  <2>1. gen' = gen + 1 /\ saving' = FALSE /\ pending' = None /\ calls' = calls
    BY <1>8 DEF Reset
  <2>2. ASSUME NEW i \in DOMAIN calls PROVE calls[i].gen # gen'
    <3>1. calls[i] \in Calls /\ calls[i].gen <= gen
      BY <1>1 DEF CallShape
    <3>2. calls[i].gen \in Nat
      BY <3>1 DEF Calls
    <3>3. QED BY <1>1, <2>1, <3>1, <3>2
  <2>3. CurrentDrains' = {}
    BY <2>1, <2>2 DEF CurrentDrains, Active
  <2>4. QED BY <2>1, <2>3 DEF DrainsAlone
<1>9. ASSUME NEW w \in Widgets, Drag(w) PROVE DrainsAlone'
  <2>1. PICK j : j = DragJob(w)
    BY Zenon
  <2>2. /\ j \in Jobs /\ dash.version \in Nat /\ gen' = gen /\ saving' = TRUE
    BY <1>9, <2>1, DragEffects DEF Helds, Drag
  <2>3. PICK c : c = IF saving THEN Done ELSE Put(j, dash.version)
    BY Zenon
  <2>4. /\ c \in Calls /\ calls' = Append(calls, c)
        /\ saving => c.pc = "done"
        /\ ~saving => c.pc # "done" /\ c.gen = gen
    <3>1. Put(j, dash.version) \in Calls /\ Put(j, dash.version).pc = "put"
          /\ Put(j, dash.version).gen = gen
      BY <1>1, <2>2, CallsMade DEF Put
    <3>2. QED BY <1>1, <1>3, <1>9, <2>1, <2>3, <3>1, DragEffects
  <2>5. PICK n : n = Len(calls) + 1
    BY Zenon
  <2>6. /\ DOMAIN calls' = DOMAIN calls \cup {n} /\ n \notin DOMAIN calls /\ calls'[n] = c
        /\ \A k \in DOMAIN calls : calls'[k] = calls[k]
    BY <1>1, <2>4, <2>5, CallAdded
  <2>7. CASE saving
    <3>1. CurrentDrains' = CurrentDrains
      BY <2>2, <2>4, <2>6, <2>7 DEF CurrentDrains, Active
    <3>2. QED BY <2>2, <2>7, <3>1 DEF DrainsAlone
  <2>8. CASE ~saving
    <3>1. CurrentDrains = {}
      BY <2>8 DEF DrainsAlone
    <3>2. CurrentDrains' = {n}
      BY <2>2, <2>4, <2>6, <2>8, <3>1 DEF CurrentDrains, Active
    <3>3. QED BY <2>2, <3>2 DEF DrainsAlone
  <2>9. QED BY <2>7, <2>8
<1>10. ASSUME NEW i \in DOMAIN calls, SaveStep(i) PROVE DrainsAlone'
  <2>1. CASE ServerPut(i) \/ ServerRespond(i) \/ PutFails(i) \/ RebaseReads(i)
    <3>1. UNCHANGED <<gen, saving, pending>> /\ calls[i].pc # "done"
      BY <2>1 DEF ServerPut, ServerRespond, PutFails, RebaseReads
    <3>2. calls[i] \in Calls
      BY <1>1
    <3>3. calls[i].reply \in Replies \cup {None}
      BY <3>2 DEF Calls
    <3>4. PICK p \in CallSteps \ {"done"}, x \in Replies \cup {None} :
            Becomes(i, CallAt(calls[i], p, x))
      <4>1. /\ "committed" \in CallSteps \ {"done"} /\ "reply" \in CallSteps \ {"done"}
            /\ "row" \in CallSteps \ {"done"} /\ "getrow" \in CallSteps \ {"done"}
            /\ "got" \in CallSteps \ {"done"}
        BY DEF CallSteps
      <4>2. \/ Becomes(i, CallAt(calls[i], "committed", calls[i].reply))
            \/ Becomes(i, CallAt(calls[i], "reply", ConflictReply))
            \/ Becomes(i, CallAt(calls[i], "row", BoardReply))
            \/ Becomes(i, CallAt(calls[i], "reply", ErrorReply))
            \/ Becomes(i, CallAt(calls[i], "getrow", BoardReply))
            \/ Becomes(i, CallAt(calls[i], "got", ErrorReply))
        BY <1>1, <2>1, PutEffects, CallEffects DEF PutAccepted, PutRefused
      <4>3. QED BY <1>2, <3>3, <4>1, <4>2
    <3>5. QED BY <1>4, <3>1, <3>4
  <2>2. CASE SaveConflicts(i)
    <3>1. calls[i].pc = "reply" /\ calls[i].gen = gen /\ gen' = gen
      BY <2>2 DEF SaveConflicts
    <3>2. CASE calls[i].job.retried
      <4>1. Becomes(i, Done) /\ saving' = FALSE /\ pending' = None
        BY <2>2, <3>2, Zenon DEF SaveConflicts, Leave, Becomes
      <4>2. QED BY <1>5, <3>1, <4>1
    <3>3. CASE ~calls[i].job.retried
      <4>1. UNCHANGED <<saving, pending>>
        BY <2>2, <3>3, Zenon DEF SaveConflicts
      <4>2. Becomes(i, CallAt(calls[i], "get", None))
        BY <1>1, <2>2, <3>3, CallEffects
      <4>3. "get" \in CallSteps \ {"done"} /\ None \in Replies \cup {None}
        BY DEF CallSteps
      <4>4. QED BY <1>4, <3>1, <4>1, <4>2, <4>3
    <3>4. QED BY <3>2, <3>3
  <2>3. CASE SaveFails(i)
    <3>1. /\ calls[i].pc = "reply" /\ calls[i].gen = gen /\ gen' = gen
          /\ Becomes(i, Done) /\ saving' = FALSE /\ pending' = None
      BY <2>3, Zenon DEF SaveFails, Leave, Becomes
    <3>2. QED BY <1>5, <3>1
  <2>4. CASE SaveLate(i)
    <3>1. calls[i].pc # "done" /\ calls[i].gen # gen /\ gen' = gen
      BY <2>4 DEF SaveLate
    <3>2. Becomes(i, Done) /\ saving' = saving
      BY <2>4, Zenon DEF SaveLate, LeaveLate, Becomes
    <3>3. pending' \in {pending, None}
      BY <2>4 DEF SaveLate
    <3>4. CurrentDrains' = CurrentDrains
      BY <1>1, <1>3, <3>1, <3>2, DrainMoves DEF CurrentDrains
    <3>5. QED BY <3>2, <3>3, <3>4 DEF DrainsAlone
  <2>5. CASE SaveAccepted(i)
    <3>1. PICK b : b = calls[i].reply.board
      BY Zenon
    <3>2. /\ calls[i].pc = "reply" /\ calls[i].gen = gen /\ b \in Boards
          /\ pending # None => Becomes(i, Put(pending, b.version)) /\ saving' = TRUE
          /\ pending = None => Becomes(i, Done) /\ saving' = FALSE
          /\ pending' = None
      BY <2>5, <3>1, AcceptedEffects
    <3>3. gen' = gen
      BY <2>5 DEF SaveAccepted
    <3>4. b.version \in Nat
      BY <3>2 DEF Boards
    <3>5. QED BY <1>1, <1>5, <1>6, <3>2, <3>3, <3>4
  <2>6. CASE Rebased(i)
    <3>1. gen' = gen /\ calls[i].pc = "got" /\ calls[i].gen = gen
      BY <2>6 DEF Rebased
    <3>2. CASE calls[i].reply.kind = "board"
      <4>1. PICK b, m : b = calls[i].reply.board /\ m = Merged(calls[i])
        BY Zenon
      <4>2. /\ b \in Boards /\ m \in Jobs /\ pending' = None
            /\ dash # None /\ pending # None => Becomes(i, Put(pending, b.version)) /\ saving' = TRUE
            /\ dash # None /\ pending = None => Becomes(i, Put(m, b.version)) /\ saving' = TRUE
            /\ dash = None => Becomes(i, Done) /\ saving' = FALSE
        BY <2>6, <3>2, <4>1, RebasedEffects
      <4>3. b.version \in Nat
        BY <4>2 DEF Boards
      <4>4. QED BY <1>1, <1>5, <1>6, <3>1, <4>2, <4>3
    <3>3. CASE calls[i].reply.kind # "board"
      <4>1. Becomes(i, Done) /\ saving' = FALSE /\ pending' = None
        BY <2>6, <3>3, Zenon DEF Rebased, Leave, Becomes
      <4>2. QED BY <1>5, <3>1, <4>1
    <3>4. QED BY <3>2, <3>3
  <2>7. CASE SaveWidgetsRead(i)
    <3>1. UNCHANGED <<gen, saving, pending>> /\ calls[i].pc \in {"row", "getrow"}
      BY <2>7 DEF SaveWidgetsRead
    <3>2. calls[i].reply \in Replies /\ calls[i].reply.kind = "board"
      <4>1. calls[i] \in Calls /\ calls[i].reply # None /\ calls[i].reply.kind = "board"
        BY <1>1, <3>1 DEF CallShape
      <4>2. QED BY <4>1 DEF Calls
    <3>3. PICK x, p : x = WidgetsRead(calls[i].reply) /\ p = AfterRead(calls[i].pc)
      BY Zenon
    <3>4. x \in Replies /\ p \in CallSteps \ {"done"}
      BY <1>1, <3>2, <3>3, WidgetsReadMade DEF AfterRead, CallSteps
    <3>5. Becomes(i, CallAt(calls[i], p, x))
      BY <1>1, <2>7, <3>3, CallEffects
    <3>6. QED BY <1>4, <3>1, <3>4, <3>5
  <2>8. QED BY <1>10, <2>1, <2>2, <2>3, <2>4, <2>5, <2>6, <2>7 DEF SaveStep
<1>11. QED BY <1>7, <1>8, <1>9, <1>10, CallSources

-----------------------------------------------------------------------------
(* What a stale board is owed.  A board older than the row is superseded by  *)
(* something on its way: a refresh that is due, a load that will read or has *)
(* read a later row, an answer to this user's own write, a frame that is not *)
(* taken for an echo, or the board now held; or a list deletion will take a  *)
(* widget from it.                                                           *)
Brings(r, v) == r # None /\ r.kind = "board" /\ r.board.version > v
LoadNews(v) == due \/ load.pc = "sent" \/ load.queued \/ Brings(load.reply, v)
WopNews(v) == wop.user = user /\ (wop.pc = "committed" \/ Brings(wop.reply, v))
CallNews(c, v) == /\ c.user = user
                  /\ \/ c.pc = "committed"
                     \/ c.pc \in {"row", "reply"} /\ Brings(c.reply, v)
CallsNews(v) == \E i \in DOMAIN calls : CallNews(calls[i], v)
FrameNews(v) == \E f \in InFlight : f.kind # "list" /\ ~IsOwnFrame(f) /\ f.version > v
HeldNews(v) == dash # None /\ dash.version > v
News(v) == LoadNews(v) \/ WopNews(v) \/ CallsNews(v) \/ FrameNews(v) \/ HeldNews(v)
Drops(ws) == \E f \in InFlight : f.kind = "list" /\ f.w \in ws
Carried(v, ws) == v < srv.version => News(v) \/ Drops(ws)

DashOwed == dash # None => /\ dash.basis <= dash.version
                           /\ dash.basis = dash.version => Carried(dash.version, dash.widgets)
Answering == {"row", "reply"}
Owed(r) == r.kind = "board" => Carried(r.board.version, r.board.widgets)
Debts == gaps = {} =>
    /\ DashOwed
    /\ load.pc \in Answering => Owed(load.reply)
    /\ wop.pc \in Answering /\ wop.gen = gen => Owed(wop.reply)
    /\ \A i \in DOMAIN calls :
         calls[i].pc \in Answering /\ calls[i].gen = gen => Owed(calls[i].reply)

(* A session that continues, in a step that records nothing.                 *)
Continues == gen' = gen /\ gaps' = {}

(* Which steps touch the load and the refresh that is due.                   *)
LEMMA LoadSources ==
  ASSUME Next
  PROVE  \/ UNCHANGED <<load, due>>
         \/ Refresh \/ Open \/ LoadReads \/ LoadWidgetsRead \/ Loaded \/ ResolveConflict
         \/ DeliverFrame
         \/ \E u \in Users : Reset(u)
<1>1. ASSUME NEW w \in Widgets,
             \/ Drag(w) \/ AddWidget(w) \/ RemoveWidget(w)
             \/ ForeignMove(w) \/ ForeignAdd(w) \/ ForeignRemove(w) \/ ListDeleteLoads(w)
      PROVE  UNCHANGED <<load, due>>
  BY <1>1 DEF Drag, AddWidget, RemoveWidget, ForeignMove, ForeignAdd, ForeignRemove,
              ListDeleteLoads, tab
<1>2. ASSUME NEW i \in DOMAIN calls, SaveStep(i) PROVE UNCHANGED <<load, due>>
  <2>1. ServerPut(i) \/ ServerRespond(i) \/ SaveWidgetsRead(i) \/ PutFails(i)
          \/ SaveConflicts(i) \/ SaveFails(i) \/ SaveLate(i) \/ RebaseReads(i) =>
            UNCHANGED <<load, due>>
    BY DEF ServerPut, ServerRespond, SaveWidgetsRead, PutFails, SaveConflicts, SaveFails,
           SaveLate, RebaseReads
  <2>2. SaveAccepted(i) \/ Rebased(i) => UNCHANGED <<load, due>>
    BY DEF SaveAccepted, Rebased
  <2>3. QED BY <1>2, <2>1, <2>2 DEF SaveStep
<1>3. ListDeleteCommits \/ Rest => UNCHANGED <<load, due>>
  BY DEF ListDeleteCommits, Rest, tab, vars
<1>4. ServerWidget => UNCHANGED <<load, due>>
  BY Zenon DEF ServerWidget
<1>5. WidgetResponds \/ WidgetWidgetsRead \/ WidgetFails \/ WidgetAnswered =>
        UNCHANGED <<load, due>>
  BY DEF WidgetResponds, WidgetWidgetsRead, WidgetFails, WidgetAnswered
<1>6. QED BY <1>1, <1>2, <1>3, <1>4, <1>5 DEF Next

(* Within a session the user stays, and nobody signs in.                     *)
LEMMA SessionStays ==
  ASSUME Shapes, Next, Continues
  PROVE  /\ user' = user /\ gaps = {}
         /\ ~ \E u \in Users : Reset(u)
<1>1. gen \in Nat
  BY DEF Shapes, TabShape
<1>2. ASSUME NEW u \in Users, Reset(u) PROVE FALSE
  <2>1. gen' = gen + 1
    BY <1>2 DEF Reset
  <2>2. QED BY <1>1, <2>1 DEF Continues
<1>3. user' = user
  <2>1. StoreRests => user' = user
    BY DEF StoreRests
  <2>2. ASSUME NEW w \in Widgets, Drag(w) PROVE user' = user
    BY <2>2 DEF Drag
  <2>3. ASSUME NEW i \in DOMAIN calls,
               \/ SaveAccepted(i) \/ SaveConflicts(i) \/ SaveFails(i) \/ SaveLate(i) \/ Rebased(i)
        PROVE  user' = user
    BY <2>3 DEF SaveAccepted, SaveConflicts, SaveFails, SaveLate, Rebased
  <2>4. WidgetAnswered \/ DeliverFrame \/ Loaded => user' = user
    BY DEF WidgetAnswered, DeliverFrame, Loaded
  <2>5. QED BY <1>2, <2>1, <2>2, <2>3, <2>4, StoreSteps
<1>4. gaps = {}
  BY FlagsKept DEF Continues
<1>5. QED BY <1>2, <1>3, <1>4

(* The held board never goes back unnoticed.                                 *)
LEMMA HeldNewsStays ==
  ASSUME Shapes, Next, Continues, dash # None
  PROVE  dash' # None /\ dash' \in Helds /\ dash.version \in Nat /\ dash'.version \in Nat
         /\ dash.version <= dash'.version
<1> DEFINE Forward == dash' # None /\ dash' \in Helds /\ dash.version \in Nat
                      /\ dash'.version \in Nat /\ dash.version <= dash'.version
<1>1. dash \in Helds /\ dash.version \in Nat /\ TabShape
  BY DEF Shapes, TabShape, Helds
<1>2. ASSUME dash' = dash PROVE Forward
  BY <1>1, <1>2
<1>3. ASSUME NEW b \in Boards, NEW d \in Helds, dash' = d, d.version = b.version,
             gaps' = IF Older(b) THEN gaps \cup {"overtaken"} ELSE gaps
      PROVE  Forward
  <2>1. ~Older(b)
    BY <1>3 DEF Continues
  <2>2. b.version \in Nat /\ dash.version <= b.version
    BY <1>1, <2>1 DEF Boards, Older
  <2>3. d # None
    BY NoneApart
  <2>4. QED BY <1>1, <1>3, <2>2, <2>3
<1>4. StoreRests => Forward
  BY <1>2 DEF StoreRests
<1>5. ASSUME NEW w \in Widgets, Drag(w) PROVE Forward
  BY <1>2, <1>5 DEF Drag
<1>6. ASSUME NEW i \in DOMAIN calls, SaveConflicts(i) \/ SaveFails(i) \/ SaveLate(i) PROVE Forward
  BY <1>2, <1>6 DEF SaveConflicts, SaveFails, SaveLate
<1>7. ASSUME NEW i \in DOMAIN calls, SaveAccepted(i) PROVE Forward
  <2>1. PICK b, d : b = calls[i].reply.board /\ d = AcceptedBoard(b)
    BY Zenon
  <2>2. b \in Boards /\ d \in Helds /\ dash' = d /\ d.version = b.version
        /\ gaps' = IF Older(b) THEN gaps \cup {"overtaken"} ELSE gaps
    BY <1>7, <2>1, AcceptedEffects
  <2>3. QED BY <1>3, <2>2
<1>8. ASSUME NEW i \in DOMAIN calls, Rebased(i) PROVE Forward
  <2>1. CASE calls[i].reply.kind = "board"
    <3>1. PICK b, d : b = calls[i].reply.board /\ d = [dash EXCEPT !.version = b.version]
      BY Zenon
    <3>2. b \in Boards /\ dash' = d
          /\ gaps' = IF Older(b) THEN gaps \cup {"overtaken"} ELSE gaps
      BY <1>8, <2>1, <3>1, RebasedEffects
    <3>3. d \in Helds /\ d.version = b.version
      BY <1>1, <3>1, <3>2 DEF Helds, Boards
    <3>4. QED BY <1>3, <3>2, <3>3
  <2>2. CASE calls[i].reply.kind # "board"
    <3>1. dash' = dash
      BY <1>8, <2>2, Zenon DEF Rebased
    <3>2. QED BY <1>2, <3>1
  <2>3. QED BY <2>1, <2>2
<1>9. ASSUME WidgetAnswered PROVE Forward
  <2>1. CASE wop.gen = gen /\ wop.reply.kind = "board"
    BY <1>3, <1>9, <2>1, AnswerEffects, HeldMade
  <2>2. CASE ~(wop.gen = gen /\ wop.reply.kind = "board")
    BY <1>2, <1>9, <2>2, AnswerEffects
  <2>3. QED BY <2>1, <2>2
<1>10. ASSUME Loaded PROVE Forward
  <2>1. CASE load.reply.kind = "board"
    BY <1>3, <1>10, <2>1, AnswerEffects, HeldMade
  <2>2. CASE load.reply.kind # "board"
    BY <1>2, <1>10, <2>2, AnswerEffects
  <2>3. QED BY <2>1, <2>2
<1>11. ASSUME DeliverFrame PROVE Forward
  <2>1. PICK w : w = Head(frames).w
    BY Zenon
  <2>2. dash' = dash \/ dash' = DropResource(dash, w)
    BY <1>11, <2>1, DeliveryEffects
  <2>3. PICK d : d = DropResource(dash, w)
    BY Zenon
  <2>4. d \in Helds /\ (d.version = dash.version + 1 \/ d = dash)
    BY <1>1, <2>3, DropMade
  <2>5. d # None
    BY <2>4, NoneApart
  <2>6. QED BY <1>1, <1>2, <2>2, <2>3, <2>4, <2>5
<1>12. QED
  BY <1>4, <1>5, <1>6, <1>7, <1>8, <1>9, <1>10, <1>11, SessionStays, StoreSteps

(* A refresh that is due is made, a load reads the row and its answer is     *)
(* applied.                                                                  *)
LEMMA LoadNewsStays ==
  ASSUME Shapes, Next, Continues, NEW v \in Nat, v < srv.version, LoadNews(v)
  PROVE  LoadNews(v)' \/ HeldNews(v)'
<1>1. load \in Loads /\ LoadShape(load) /\ srv \in Boards /\ due \in BOOLEAN
      /\ load.queued \in BOOLEAN
  BY DEF Shapes, RequestShape, RowShape, TabShape, Loads
<1>2. CASE UNCHANGED <<load, due>>
  BY <1>2 DEF LoadNews, Brings
<1>3. ASSUME load' = StartLoad PROVE LoadNews(v)'
  <2>1. CASE load.pc = "idle"
    BY <1>1, <1>3, <2>1, LoadEffects DEF LoadNews
  <2>2. CASE load.pc # "idle"
    <3>1. PICK q \in BOOLEAN : q = TRUE
      OBVIOUS
    <3>2. load' = [pc |-> load.pc, reply |-> load.reply, queued |-> q]
      BY <1>1, <1>3, <2>2, <3>1, LoadEffects, Zenon
    <3>3. load'.queued = q
      BY <3>2
    <3>4. QED BY <3>1, <3>3 DEF LoadNews
  <2>3. QED BY <2>1, <2>2
<1>4. CASE Refresh \/ Open
  <2>1. load' = StartLoad
    BY <1>4 DEF Refresh, Open
  <2>2. QED BY <1>3, <2>1
<1>5. CASE ResolveConflict
  <2>1. load' = load \/ load' = StartLoad
    BY <1>5 DEF ResolveConflict
  <2>2. due' = due
    BY <1>5 DEF ResolveConflict
  <2>3. QED BY <1>2, <1>3, <2>1, <2>2
<1>6. CASE LoadReads
  <2>1. "unread" \notin gaps'
    BY DEF Continues
  <2>2. PICK x, q : x = BoardReply /\ q = load.queued
    BY Zenon
  <2>3. load' = [pc |-> "row", reply |-> x, queued |-> q]
    BY <1>1, <1>6, <2>1, <2>2, LoadEffects, Zenon
  <2>4. load'.reply = x
    BY <2>3
  <2>5. x # None /\ x.kind = "board" /\ x.board = srv
    BY <1>1, <2>2, RepliesMade, ReplyForm
  <2>6. QED BY <2>4, <2>5 DEF LoadNews, Brings
<1>7. CASE Loaded
  <2>1. load.pc = "reply" /\ due' = due
    BY <1>7 DEF Loaded
  <2>2. CASE due
    BY <2>1, <2>2 DEF LoadNews
  <2>3. CASE load.queued
    <3>1. load' = [pc |-> "sent", reply |-> None, queued |-> FALSE]
      BY <1>7, <2>3, Zenon DEF Loaded
    <3>2. load'.pc = "sent"
      BY <3>1
    <3>3. QED BY <3>2 DEF LoadNews
  <2>4. CASE Brings(load.reply, v)
    <3>1. PICK b : b = load.reply.board
      BY Zenon
    <3>2. b \in Boards /\ dash' = Held(b) /\ b.version > v
      BY <1>7, <2>4, <3>1, AnswerEffects DEF Brings
    <3>3. QED BY <3>2, HeldMade DEF HeldNews
  <2>5. QED BY <2>1, <2>2, <2>3, <2>4 DEF LoadNews
<1>8. CASE DeliverFrame
  <2>1. load' = load
    BY <1>8 DEF DeliverFrame
  <2>2. due => due'
    BY <1>1, <1>8, DeliveryEffects
  <2>3. QED BY <2>1, <2>2 DEF LoadNews, Brings
<1>9. CASE LoadWidgetsRead
  <2>1. load.pc = "row" /\ due' = due
    BY <1>9 DEF LoadWidgetsRead
  <2>2. load.reply \in Replies /\ load.reply.kind = "board"
    BY <1>1, <2>1 DEF LoadShape, Loads
  <2>3. PICK x, q : x = WidgetsRead(load.reply) /\ q = load.queued
    BY Zenon
  <2>4. load' = [pc |-> "reply", reply |-> x, queued |-> q]
    BY <1>1, <1>9, <2>3, LoadEffects
  <2>5. load'.reply = x /\ load'.queued = q
    BY <2>4
  <2>6. /\ x # None /\ x.kind = "board" /\ x.board.version = load.reply.board.version
    BY <1>1, <2>2, <2>3, WidgetsReadMade, ReplyForm
  <2>7. QED BY <2>1, <2>3, <2>5, <2>6 DEF LoadNews, Brings
<1>10. QED BY <1>2, <1>4, <1>5, <1>6, <1>7, <1>8, <1>9, LoadSources, SessionStays

(* This user's own addition or removal answers with a later row.             *)
LEMMA WopNewsStays ==
  ASSUME Shapes, Next, Continues, NEW v \in Nat, v < srv.version, WopNews(v)
  PROVE  WopNews(v)' \/ HeldNews(v)'
<1>1. wop \in Wops /\ WopShape(wop) /\ srv \in Boards /\ user' = user
  BY SessionStays DEF Shapes, RequestShape, RowShape
<1>2. CASE wop' = wop
  BY <1>1, <1>2 DEF WopNews, Brings
<1>3. wop.pc = "committed" \/ wop.pc \in {"row", "reply"}
  BY <1>1 DEF WopNews, WopShape, Brings
<1>4. ASSUME NEW w \in Widgets, AddWidget(w) \/ RemoveWidget(w) PROVE FALSE
  <2>1. wop.pc = "idle"
    BY <1>4 DEF AddWidget, RemoveWidget
  <2>2. QED BY <1>3, <2>1
<1>5. CASE ServerWidget
  <2>1. wop.pc = "sent"
    BY <1>5 DEF ServerWidget
  <2>2. QED BY <1>3, <2>1
<1>6. CASE WidgetResponds
  <2>1. wop' = WopAt(wop, "row", BoardReply)
    BY <1>1, <1>6, WopEffects
  <2>2. PICK x : x = BoardReply
    BY Zenon
  <2>3. x \in Replies /\ x # None /\ x.kind = "board" /\ x.board = srv
    BY <1>1, <2>2, RepliesMade, ReplyForm
  <2>4. "row" \in WopSteps
    BY DEF WopSteps
  <2>5. wop' = WopAt(wop, "row", x)
    BY <2>1, <2>2
  <2>6. wop'.reply = x /\ wop'.user = wop.user
    BY <1>1, <2>3, <2>4, <2>5, WopAtMade
  <2>7. QED BY <1>1, <2>3, <2>6 DEF WopNews, Brings
<1>7. CASE WidgetFails
  <2>1. wop.pc \notin {"row", "reply"} /\ (wop.pc = "committed" => "lost" \in gaps')
    BY <1>7 DEF WidgetFails
  <2>2. QED BY <1>3, <2>1 DEF Continues
<1>8. CASE WidgetAnswered
  <2>1. wop.pc = "reply"
    BY <1>8 DEF WidgetAnswered
  <2>2. wop.user = user /\ Brings(wop.reply, v)
    BY <2>1 DEF WopNews
  <2>3. CASE wop.gen = gen
    <3>1. PICK b : b = wop.reply.board
      BY Zenon
    <3>2. b \in Boards /\ dash' = Held(b) /\ b.version > v
      BY <1>8, <2>2, <2>3, <3>1, AnswerEffects DEF Brings
    <3>3. QED BY <3>2, HeldMade DEF HeldNews
  <2>4. CASE wop.gen # gen
    <3>1. gaps' = gaps \cup {"guarded"}
      BY <1>8, <2>2, <2>4, AnswerEffects DEF Brings
    <3>2. QED BY <3>1 DEF Continues
  <2>5. QED BY <2>3, <2>4
<1>9. CASE WidgetWidgetsRead
  <2>1. wop.pc = "row"
    BY <1>9 DEF WidgetWidgetsRead
  <2>2. wop.reply \in Replies /\ wop.reply.kind = "board"
    BY <1>1, <2>1 DEF WopShape, Wops
  <2>3. PICK x : x = WidgetsRead(wop.reply)
    BY Zenon
  <2>4. /\ x \in Replies /\ x # None /\ x.kind = "board"
        /\ x.board.version = wop.reply.board.version
    BY <1>1, <2>2, <2>3, WidgetsReadMade, ReplyForm
  <2>5. wop' = WopAt(wop, "reply", x) /\ "reply" \in WopSteps
    BY <1>1, <1>9, <2>3, WopEffects DEF WopSteps
  <2>6. wop'.reply = x /\ wop'.user = wop.user
    BY <1>1, <2>4, <2>5, WopAtMade
  <2>7. QED BY <1>1, <2>1, <2>4, <2>6 DEF WopNews, Brings
<1>10. QED BY <1>2, <1>4, <1>5, <1>6, <1>7, <1>8, <1>9, WopSources

(* This user's own save answers with a later row.                            *)
LEMMA CallsNewsStays ==
  ASSUME Shapes, Next, Continues, NEW v \in Nat, v < srv.version, CallsNews(v)
  PROVE  CallsNews(v)' \/ HeldNews(v)'
<1>1. /\ calls \in Seq(Calls) /\ (\A i \in DOMAIN calls : CallShape(calls[i])) /\ TabShape
      /\ srv \in Boards /\ user' = user
  BY SessionStays DEF Shapes, RequestShape, RowShape
<1>2. PICK k \in DOMAIN calls : CallNews(calls[k], v)
  BY DEF CallsNews
<1>3. ASSUME k \in DOMAIN calls', calls'[k] = calls[k] PROVE CallsNews(v)'
  <2>1. PICK c : c = calls[k]
    BY Zenon
  <2>2. CallNews(c, v)'
    BY <1>1, <1>2, <2>1 DEF CallNews, Brings
  <2>3. CallNews(calls[k], v)'
    BY <1>3, <2>1, <2>2 DEF CallNews
  <2>4. QED BY <1>3, <2>3 DEF CallsNews
<1>4. CASE UNCHANGED <<calls, user, gen, saving, pending>>
  BY <1>2, <1>3, <1>4
<1>5. ASSUME NEW w \in Widgets, Drag(w) PROVE CallsNews(v)'
  <2>1. PICK c \in Calls : calls' = Append(calls, c)
    <3>1. PICK j : j = DragJob(w)
      BY Zenon
    <3>2. j \in Jobs /\ dash.version \in Nat
      BY <1>5, <3>1, DragEffects DEF Helds
    <3>3. Put(j, dash.version) \in Calls /\ Done \in Calls
      BY <1>1, <3>2, CallsMade
    <3>4. QED BY <1>1, <1>5, <3>1, <3>3, DragEffects DEF TabShape
  <2>2. k \in DOMAIN calls' /\ calls'[k] = calls[k]
    BY <1>1, <1>2, <2>1, CallAdded
  <2>3. QED BY <1>3, <2>2
<1>6. ASSUME NEW i \in DOMAIN calls, SaveStep(i) PROVE CallsNews(v)' \/ HeldNews(v)'
  <2>1. CASE i # k
    <3>1. PICK c \in Calls : Becomes(i, c)
      BY <1>1, <1>6, CallShapes
    <3>2. k \in DOMAIN calls' /\ calls'[k] = calls[k]
      BY <1>1, <1>2, <2>1, <3>1, CallMoved
    <3>3. QED BY <1>3, <3>2
  <2>2. CASE i = k
    <3>1. PICK c : c = calls[i]
      BY Zenon
    <3>2. /\ c \in Calls /\ CallShape(c) /\ c.user = user
          /\ c.pc = "committed" \/ (c.pc \in {"row", "reply"} /\ Brings(c.reply, v))
      BY <1>1, <1>2, <2>2, <3>1 DEF CallNews
    <3>3. CASE ServerPut(i) \/ SaveFails(i) \/ SaveConflicts(i) \/ RebaseReads(i) \/ Rebased(i)
      <4>1. c.pc = "put" \/ c.pc = "get" \/ c.pc = "got"
              \/ (c.pc = "reply" /\ c.reply.kind # "board")
        <5>1. ServerPut(i) \/ RebaseReads(i) => c.pc = "put" \/ c.pc = "get"
          BY <3>1 DEF ServerPut, RebaseReads
        <5>2. SaveFails(i) \/ SaveConflicts(i) => c.pc = "reply" /\ c.reply.kind # "board"
          BY <3>1 DEF SaveFails, SaveConflicts
        <5>3. Rebased(i) => c.pc = "got"
          BY <3>1 DEF Rebased
        <5>4. QED BY <3>3, <5>1, <5>2, <5>3
      <4>2. QED BY <3>2, <4>1 DEF Brings
    <3>4. CASE ServerRespond(i)
      <4>1. PICK x : x = BoardReply
        BY Zenon
      <4>2. x \in Replies /\ x # None /\ x.kind = "board" /\ x.board = srv
        BY <1>1, <4>1, RepliesMade, ReplyForm
      <4>3. PICK d : d = CallAt(c, "row", x)
        BY Zenon
      <4>4. d \in Calls /\ d.pc = "row" /\ d.reply = x /\ d.user = user
        <5>1. "row" \in CallSteps
          BY DEF CallSteps
        <5>2. QED BY <3>2, <4>2, <4>3, <5>1, CallAtMade
      <4>5. Becomes(i, d)
        BY <1>1, <3>1, <3>4, <4>1, <4>3, CallEffects
      <4>6. i \in DOMAIN calls' /\ calls'[i] = d
        BY <1>1, <4>4, <4>5, CallMoved
      <4>7. CallNews(calls[i], v)'
        BY <1>1, <4>2, <4>4, <4>6 DEF CallNews, Brings
      <4>8. QED BY <4>6, <4>7 DEF CallsNews
    <3>5. CASE PutFails(i)
      <4>1. c.pc \notin {"row", "reply"} /\ (c.pc = "committed" => "lost" \in gaps')
        BY <3>1, <3>5 DEF PutFails
      <4>2. QED BY <3>2, <4>1 DEF Continues
    <3>6. CASE SaveAccepted(i)
      <4>1. PICK b : b = c.reply.board
        BY Zenon
      <4>2. c.pc = "reply" /\ dash' \in Helds /\ dash'.version = b.version
        BY <3>1, <3>6, <4>1, AcceptedEffects
      <4>3. b.version > v
        BY <3>2, <4>1, <4>2 DEF Brings
      <4>4. dash' # None
        BY <4>2, NoneApart
      <4>5. QED BY <4>2, <4>3, <4>4 DEF HeldNews
    <3>7. CASE SaveLate(i)
      <4>1. c.pc = "reply" \/ c.pc = "got"
        BY <3>1, <3>7 DEF SaveLate
      <4>2. c.pc = "reply" /\ c.reply.kind = "board"
        BY <3>2, <4>1 DEF Brings
      <4>3. gaps' = gaps \cup {"guarded"}
        BY <3>1, <3>2, <3>7, <4>2 DEF SaveLate
      <4>4. QED BY <4>3 DEF Continues
    <3>8. CASE SaveWidgetsRead(i)
      <4>1. c.pc = "row" /\ Brings(c.reply, v)
        BY <3>1, <3>2, <3>8 DEF SaveWidgetsRead
      <4>2. c.reply \in Replies /\ c.reply.kind = "board"
        BY <3>2, <4>1 DEF CallShape, Calls
      <4>3. PICK x, d : x = WidgetsRead(c.reply) /\ d = CallAt(c, "reply", x)
        BY Zenon
      <4>4. /\ x \in Replies /\ x # None /\ x.kind = "board"
            /\ x.board.version = c.reply.board.version
        BY <1>1, <4>2, <4>3, WidgetsReadMade, ReplyForm
      <4>5. "reply" \in CallSteps
        BY DEF CallSteps
      <4>6. d \in Calls /\ d.pc = "reply" /\ d.reply = x /\ d.user = user
        BY <3>2, <4>3, <4>4, <4>5, CallAtMade
      <4>7. Becomes(i, d)
        <5>1. AfterRead(c.pc) = "reply"
          BY <4>1 DEF AfterRead
        <5>2. QED BY <1>1, <3>1, <3>8, <4>3, <5>1, CallEffects
      <4>8. i \in DOMAIN calls' /\ calls'[i] = d
        BY <1>1, <4>6, <4>7, CallMoved
      <4>9. CallNews(calls[i], v)'
        BY <1>1, <4>1, <4>4, <4>6, <4>8 DEF CallNews, Brings
      <4>10. QED BY <4>8, <4>9 DEF CallsNews
    <3>9. QED BY <1>6, <3>3, <3>4, <3>5, <3>6, <3>7, <3>8 DEF SaveStep
  <2>3. QED BY <2>1, <2>2
<1>7. QED BY <1>4, <1>5, <1>6, CallSources, SessionStays

(* Frames wait until the tab takes them.                                     *)
LEMMA FramesWait ==
  ASSUME Shapes, Next, Continues, ~DeliverFrame
  PROVE  InFlight \subseteq InFlight'
<1>1. frames \in Seq(Frames) /\ frames' \in Seq(Frames)
  BY RowShapeStep DEF Shapes, RowShape
<1>2. ASSUME NEW f, frames' = Append(frames, f) PROVE InFlight \subseteq InFlight'
  <2>1. \A k \in DOMAIN frames : k \in DOMAIN frames' /\ frames'[k] = frames[k]
    BY <1>1, <1>2
  <2>2. QED BY <2>1 DEF InFlight
<1>3. ASSUME frames' = frames PROVE InFlight \subseteq InFlight'
  BY <1>3 DEF InFlight
<1>4. RowRests => frames' = frames
  BY DEF RowRests
<1>5. ASSUME NEW w \in Widgets, AddWidget(w) \/ ListDeleteLoads(w) PROVE frames' = frames
  BY <1>5 DEF AddWidget, ListDeleteLoads
<1>6. ASSUME NEW w \in Widgets, ForeignMove(w) \/ ForeignAdd(w) \/ ForeignRemove(w)
      PROVE  \E f : frames' = Append(frames, f)
  BY <1>6, Zenon DEF ForeignMove, ForeignAdd, ForeignRemove, Emit
<1>7. ListDeleteCommits => \E f : frames' = Append(frames, f)
  BY Zenon DEF ListDeleteCommits, Emit
<1>8. ServerWidget => frames' = frames \/ \E f : frames' = Append(frames, f)
  BY WopEffects DEF Shapes, RequestShape
<1>9. ASSUME NEW i \in DOMAIN calls, ServerPut(i)
      PROVE  frames' = frames \/ \E f : frames' = Append(frames, f)
  BY <1>9, PutEffects DEF PutAccepted, PutRefused, Shapes, RequestShape
<1>10. QED
  BY <1>2, <1>3, <1>4, <1>5, <1>6, <1>7, <1>8, <1>9, RowSteps, SessionStays

(* handleDashboardEvent: a frame is skipped only when the tab already holds  *)
(* its version, and otherwise makes a refresh due.                           *)
LEMMA FrameNewsStays ==
  ASSUME Shapes, Next, Continues, NEW v \in Nat, FrameNews(v)
  PROVE  FrameNews(v)' \/ LoadNews(v)' \/ HeldNews(v)'
<1>1. PICK f \in InFlight : f.kind # "list" /\ ~IsOwnFrame(f) /\ f.version > v
  BY DEF FrameNews
<1>2. user' = user /\ frames \in Seq(Frames)
  BY SessionStays DEF Shapes, RowShape
<1>3. ASSUME f \in InFlight' PROVE FrameNews(v)'
  BY <1>1, <1>2, <1>3 DEF FrameNews, IsOwnFrame
<1>4. CASE ~DeliverFrame
  BY <1>3, <1>4, FramesWait
<1>5. CASE DeliverFrame /\ f \notin InFlight'
  <2>1. f = Head(frames) /\ f \in Frames
    BY <1>2, <1>5, DeliveryEffects, FrameTaken
  <2>2. f.version \in Nat
    BY <2>1 DEF Frames
  <2>3. dash # None
    BY <1>5, DeliveryEffects DEF Continues
  <2>4. dash' = dash /\ due' = (due \/ (dash # None /\ ~Skips(f)))
    BY <1>1, <1>5, <2>1, DeliveryEffects
  <2>5. CASE due'
    BY <2>5 DEF LoadNews
  <2>6. CASE ~due'
    <3>1. dash.version >= f.version
      BY <1>1, <2>3, <2>4, <2>6 DEF Skips
    <3>2. dash.version \in Nat
      BY <2>3 DEF Shapes, TabShape, Helds
    <3>3. QED BY <1>1, <2>2, <2>3, <2>4, <3>1, <3>2 DEF HeldNews
  <2>7. QED BY <2>5, <2>6
<1>6. QED BY <1>3, <1>4, <1>5

(* What supersedes a version keeps doing so.                                 *)
LEMMA NewsStays ==
  ASSUME Shapes, Next, Continues, NEW v \in Nat, v < srv.version, News(v)
  PROVE  News(v)'
<1>1. HeldNews(v) => HeldNews(v)'
  <2> SUFFICES ASSUME HeldNews(v) PROVE HeldNews(v)'
    OBVIOUS
  <2>1. dash # None /\ dash.version > v
    BY DEF HeldNews
  <2>2. dash' # None /\ dash.version \in Nat /\ dash'.version \in Nat /\ dash.version <= dash'.version
    BY <2>1, HeldNewsStays
  <2>3. QED BY <2>1, <2>2 DEF HeldNews
<1>2. LoadNews(v) \/ WopNews(v) \/ CallsNews(v) \/ FrameNews(v) => News(v)'
  BY LoadNewsStays, WopNewsStays, CallsNewsStays, FrameNewsStays DEF News
<1>3. QED BY <1>1, <1>2 DEF News

(* Every write of the row is announced to the tab: by a frame, by the answer *)
(* to the user's own request, or, when a list goes, by the frame that takes  *)
(* its widget.                                                               *)
LEMMA WritesAnnounced ==
  ASSUME Shapes, Next, Continues, srv' # srv, NEW v \in Nat, v < srv'.version
  PROVE  News(v)' \/ \E w \in srv.widgets : Drops({w})'
<1>1. /\ srv \in Boards /\ srv' \in Boards /\ srv'.version \in Nat /\ frames \in Seq(Frames)
      /\ tx \in LoadedRows \cup {None} /\ calls \in Seq(Calls) /\ wop \in Wops /\ WopShape(wop)
      /\ user' = user
  BY RowShapeStep, SessionStays DEF Shapes, RowShape, RequestShape, Boards
<1>2. ASSUME NEW f \in Frames, frames' = Append(frames, f), f.kind # "list",
             ~(f.mine /\ f.actor = user), f.version = srv'.version
      PROVE  News(v)'
  <2>1. f \in InFlight'
    BY <1>1, <1>2, FrameSent
  <2>2. FrameNews(v)'
    BY <1>1, <1>2, <2>1 DEF FrameNews, IsOwnFrame
  <2>3. QED BY <2>2 DEF News
<1>3. ASSUME NEW w \in Widgets, ForeignMove(w) \/ ForeignAdd(w) \/ ForeignRemove(w)
      PROVE  News(v)'
  <2>1. PICK k \in {"layout", "widgets"} :
          frames' = Append(frames, [kind |-> k, w |-> w, version |-> srv'.version,
                                    actor |-> "other", mine |-> FALSE])
    BY <1>3, Zenon DEF ForeignMove, ForeignAdd, ForeignRemove, Emit
  <2>2. PICK q \in BOOLEAN : q = FALSE
    OBVIOUS
  <2>3. PICK f : f = [kind |-> k, w |-> w, version |-> srv'.version, actor |-> "other", mine |-> q]
    BY Zenon
  <2>4. f \in Frames /\ f.kind = k /\ f.mine = q /\ f.version = srv'.version
    BY <1>1, <2>3 DEF Frames
  <2>5. frames' = Append(frames, f)
    BY <2>1, <2>2, <2>3, Zenon
  <2>6. QED BY <1>2, <2>2, <2>4, <2>5
<1>4. ASSUME NEW k \in {"layout", "widgets"}, NEW x \in Widgets \cup {None}, NEW a \in Users,
             frames' = Append(frames, OwnFrame(k, x, srv'.version, a)), a # user
      PROVE  News(v)'
  <2>1. PICK f : f = OwnFrame(k, x, srv'.version, a)
    BY Zenon
  <2>2. f \in Frames /\ f.kind = k /\ f.actor = a /\ f.version = srv'.version
    BY <1>1, <2>1 DEF OwnFrame, Frames
  <2>3. QED BY <1>2, <1>4, <2>1, <2>2
<1>5. ASSUME NEW i \in DOMAIN calls, ServerPut(i) PROVE News(v)'
  <2>1. PutAccepted(i)
    BY <1>1, <1>5, PutEffects DEF PutRefused
  <2>2. PICK c, x : c = calls[i] /\ x = calls[i].reply
    BY Zenon
  <2>3. c \in Calls /\ c.user \in Users /\ x \in Replies \cup {None}
    <3>1. c \in Calls
      BY <1>1, <2>2
    <3>2. QED BY <2>2, <3>1 DEF Calls
  <2>4. CASE c.user # user
    <3>1. frames' = Append(frames, OwnFrame("layout", None, srv'.version, c.user))
      BY <2>1, <2>2 DEF PutAccepted
    <3>2. QED BY <1>4, <2>3, <2>4, <3>1
  <2>5. CASE c.user = user
    <3>1. PICK d : d = CallAt(c, "committed", x)
      BY Zenon
    <3>2. "committed" \in CallSteps
      BY DEF CallSteps
    <3>3. d \in Calls /\ d.pc = "committed" /\ d.user = user
      BY <2>3, <2>5, <3>1, <3>2, CallAtMade
    <3>4. Becomes(i, d)
      BY <2>1, <2>2, <3>1 DEF PutAccepted
    <3>5. i \in DOMAIN calls' /\ calls'[i] = d
      BY <1>1, <3>3, <3>4, CallMoved
    <3>6. CallsNews(v)'
      BY <1>1, <3>3, <3>5 DEF CallsNews, CallNews
    <3>7. QED BY <3>6 DEF News
  <2>6. QED BY <2>4, <2>5
<1>6. ASSUME ServerWidget PROVE News(v)'
  <2>1. /\ frames' = Append(frames, OwnFrame("widgets", wop.w, srv'.version, wop.user))
        /\ wop' = WopAt(wop, "committed", wop.reply)
    BY <1>1, <1>6, WopEffects
  <2>2. wop.w \in Widgets \cup {None} /\ wop.user \in Users /\ wop.reply \in Replies \cup {None}
    BY <1>1 DEF Wops
  <2>3. CASE wop.user # user
    BY <1>4, <2>1, <2>2, <2>3
  <2>4. CASE wop.user = user
    <3>1. "committed" \in WopSteps
      BY DEF WopSteps
    <3>2. wop'.pc = "committed" /\ wop'.user = user
      BY <1>1, <2>1, <2>2, <2>4, <3>1, WopAtMade
    <3>3. WopNews(v)'
      BY <1>1, <3>2 DEF WopNews
    <3>4. QED BY <3>3 DEF News
  <2>5. QED BY <2>3, <2>4
<1>7. ASSUME ListDeleteCommits PROVE \E w \in srv.widgets : Drops({w})'
  <2>1. tx # None /\ tx.w \in srv.widgets
    BY <1>7 DEF ListDeleteCommits
  <2>2. tx.w \in Widgets
    BY <1>1, <2>1, LayoutEditorAssumption DEF LoadedRows
  <2>3. PICK q \in BOOLEAN : q = FALSE
    OBVIOUS
  <2>4. PICK f : f = [kind |-> "list", w |-> tx.w, version |-> 0, actor |-> "other", mine |-> q]
    BY Zenon
  <2>5. f \in Frames /\ f.kind = "list" /\ f.w = tx.w
    BY <2>2, <2>4 DEF Frames
  <2>6. frames' = Append(frames, f)
    BY <1>7, <2>3, <2>4, Zenon DEF ListDeleteCommits, Emit
  <2>7. f \in InFlight'
    BY <1>1, <2>5, <2>6, FrameSent
  <2>8. QED BY <2>1, <2>5, <2>7 DEF Drops
<1>8. ASSUME NEW w \in Widgets, AddWidget(w) \/ ListDeleteLoads(w) PROVE FALSE
  BY <1>8 DEF AddWidget, ListDeleteLoads
<1>9. RowRests \/ DeliverFrame => srv' = srv
  BY DEF RowRests, DeliverFrame
<1>10. QED
  BY <1>3, <1>5, <1>6, <1>7, <1>8, <1>9, RowSteps, SessionStays

(* A board is still owed what supersedes it, unless the tab takes the frame  *)
(* that drops one of its widgets.                                            *)
LEMMA CarriedStays ==
  ASSUME Shapes, Next, Continues, NEW v \in Nat, NEW ws, Carried(v, ws),
         v <= srv.version, v = srv.version => ws = srv.widgets,
         DeliverFrame /\ Head(frames).kind = "list" => Head(frames).w \notin ws
  PROVE  Carried(v, ws)'
<1> SUFFICES ASSUME v < srv'.version PROVE News(v)' \/ Drops(ws)'
  BY DEF Carried
<1>1. srv.version \in Nat /\ frames \in Seq(Frames)
  BY DEF Shapes, RowShape, Boards
<1>2. CASE v < srv.version
  <2>1. CASE News(v)
    BY <1>2, <2>1, NewsStays
  <2>2. CASE Drops(ws)
    <3>1. PICK f \in InFlight : f.kind = "list" /\ f.w \in ws
      BY <2>2 DEF Drops
    <3>2. f \in InFlight'
      <4>1. CASE ~DeliverFrame
        BY <4>1, FramesWait
      <4>2. CASE DeliverFrame
        BY <1>1, <3>1, <4>2, DeliveryEffects, FrameTaken
      <4>3. QED BY <4>1, <4>2
    <3>3. QED BY <3>1, <3>2 DEF Drops
  <2>3. QED BY <1>2, <2>1, <2>2 DEF Carried
<1>3. CASE v = srv.version
  <2>1. srv' # srv
    BY <1>1, <1>3
  <2>2. News(v)' \/ \E w \in srv.widgets : Drops({w})'
    BY <2>1, WritesAnnounced
  <2>3. ASSUME NEW w \in srv.widgets, Drops({w})' PROVE Drops(ws)'
    BY <1>3, <2>3 DEF Drops
  <2>4. QED BY <2>2, <2>3
<1>4. QED BY <1>1, <1>2, <1>3

(* A board on its way to the tab stays owed what supersedes it: a list frame *)
(* taken meanwhile is recorded.                                              *)
LEMMA OwedStays ==
  ASSUME Shapes, Next, Continues, NEW r \in Replies, r \in Answers \/ r.kind # "board",
         ReplyTrue(r), Owed(r)
  PROVE  Owed(r)'
<1> SUFFICES ASSUME r.kind = "board"
             PROVE  Carried(r.board.version, r.board.widgets)'
  BY DEF Owed
<1>1. PICK v, ws : v = r.board.version /\ ws = r.board.widgets
  BY Zenon
<1>2. r # None /\ r.board \in Boards
  BY ReplyForm
<1>3. v \in Nat /\ v <= srv.version /\ (v = srv.version => ws = srv.widgets)
  BY <1>1, <1>2 DEF Boards, ReplyTrue, BoardTrue
<1>4. Carried(v, ws)
  BY <1>1 DEF Owed
<1>5. ASSUME DeliverFrame, Head(frames).kind = "list" PROVE FALSE
  <2>1. Answers # {}
    OBVIOUS
  <2>2. "overtaken" \in gaps'
    BY <1>5, <2>1, DeliveryEffects
  <2>3. QED BY <2>2 DEF Continues
<1>6. Carried(v, ws)'
  BY <1>3, <1>4, <1>5, CarriedStays
<1>7. QED BY <1>1, <1>6

(* An answer whose widgets are read is owed what its row was: a list         *)
(* deletion that fell between the two reads is recorded.                     *)
LEMMA CompletedOwed ==
  ASSUME Shapes, WidgetsLive, Next, Continues, NEW r \in Replies, r \in Answers,
         r.kind = "board", ReplyTrue(r), Owed(r), TornGap(r), RowRests,
         NEW x, x = WidgetsRead(r)
  PROVE  Owed(x)'
<1>1. PICK v, ws : v = r.board.version /\ ws = r.board.widgets
  BY Zenon
<1>2. srv \in Boards /\ srv' = srv /\ InFlight' = InFlight
  BY DEF Shapes, RowShape, RowRests, InFlight
<1>4. x.board.version = v /\ x.board.widgets = srv.widgets
  BY <1>1, <1>2, WidgetsReadMade
<1>5. Carried(v, ws)'
  BY <1>1, OwedStays DEF Owed
<1>6. ASSUME Drops(ws)' PROVE FALSE
  <2>1. PICK f \in InFlight : f.kind = "list" /\ f.w \in ws
    BY <1>2, <1>6 DEF Drops
  <2>2. f.w \notin srv.widgets /\ f.w \in ListsGone
    BY <2>1 DEF WidgetsLive, InFlight, ListsGone
  <2>3. Torn(r)
    BY <1>1, <2>1, <2>2 DEF Torn
  <2>4. "torn" \in gaps'
    BY <2>3 DEF TornGap
  <2>5. QED BY <2>4 DEF Continues
<1>7. PICK us : us = srv.widgets
  BY Zenon
<1>8. Carried(v, us)'
  BY <1>5, <1>6 DEF Carried
<1>9. QED BY <1>4, <1>7, <1>8 DEF Owed

(* What the tab comes to hold is owed what supersedes it, as far as it is    *)
(* all of one version.                                                       *)
LEMMA DashOwedStep ==
  ASSUME Shapes, Contents, Debts, Next, Continues
  PROVE  DashOwed'
<1>1. /\ gaps = {} /\ RequestsTrue /\ StoreTrue /\ DashOwed
  <2>1. gaps = {}
    BY SessionStays
  <2>2. QED BY <2>1 DEF Contents, Debts
<1>2. /\ srv \in Boards /\ srv.version \in Nat /\ dash \in Helds \cup {None}
      /\ calls \in Seq(Calls) /\ (\A i \in DOMAIN calls : CallShape(calls[i]))
      /\ wop \in Wops /\ load \in Loads
  BY DEF Shapes, RowShape, TabShape, RequestShape, Boards
<1>3. dash # None => /\ dash.basis \in Nat /\ dash.version \in Nat
                     /\ dash.basis <= dash.version /\ HeldTrue(dash)
  BY <1>1, <1>2 DEF Helds, DashOwed, StoreTrue
<1>4. ASSUME dash # None, dash.basis = dash.version,
             DeliverFrame /\ Head(frames).kind = "list" => Head(frames).w \notin dash.widgets
      PROVE  Carried(dash.version, dash.widgets)' \/ dash'.version # dash.version
             \/ dash'.widgets # dash.widgets
  <2>1. PICK v, ws : v = dash.version /\ ws = dash.widgets
    BY Zenon
  <2>2. Carried(v, ws) /\ v \in Nat /\ v <= srv.version /\ (v = srv.version => ws = srv.widgets)
    BY <1>1, <1>3, <1>4, <2>1 DEF DashOwed, HeldTrue
  <2>3. Carried(v, ws)'
    BY <1>4, <2>1, <2>2, CarriedStays
  <2>4. QED BY <2>1, <2>3
<1>5. ASSUME dash' = dash PROVE DashOwed'
  <2>1. ASSUME dash # None, DeliverFrame, Head(frames).kind = "list",
               Head(frames).w \in dash.widgets
        PROVE  FALSE
    <3>1. PICK d : d = DropResource(dash, Head(frames).w)
      BY Zenon
    <3>2. dash' = d
      BY <2>1, <3>1, DeliveryEffects
    <3>3. d.version = dash.version + 1
      BY <1>2, <2>1, <3>1, DropMade
    <3>4. QED BY <1>3, <1>5, <2>1, <3>2, <3>3
  <2>2. dash # None /\ dash.basis = dash.version => Carried(dash.version, dash.widgets)'
    BY <1>4, <1>5, <2>1
  <2>3. QED BY <1>3, <1>5, <2>2 DEF DashOwed
<1>6. ASSUME NEW r \in Replies, r \in Answers, r.kind = "board", ReplyTrue(r), Owed(r)
      PROVE  Carried(r.board.version, r.board.widgets)'
  BY <1>6, OwedStays DEF Owed
<1>7. ASSUME NEW r \in Replies, r \in Answers, r.kind = "board", ReplyTrue(r), Owed(r),
             dash' = Held(r.board)
      PROVE  DashOwed'
  <2>1. PICK b : b = r.board
    BY Zenon
  <2>2. b \in Boards /\ Carried(b.version, b.widgets)'
    BY <1>6, <1>7, <2>1, ReplyForm
  <2>3. dash'.version = b.version /\ dash'.widgets = b.widgets /\ dash'.basis = b.version
        /\ b.version \in Nat
    BY <1>7, <2>1, <2>2, HeldMade DEF Boards
  <2>4. PICK v, ws : v = b.version /\ ws = b.widgets
    BY Zenon
  <2>5. Carried(v, ws)'
    BY <2>2, <2>4
  <2>6. Carried(dash.version, dash.widgets)'
    BY <2>3, <2>4, <2>5
  <2>7. QED BY <2>3, <2>6 DEF DashOwed
<1>8. StoreRests => DashOwed'
  BY <1>5 DEF StoreRests
<1>9. ASSUME NEW w \in Widgets, Drag(w) PROVE DashOwed'
  BY <1>5, <1>9 DEF Drag
<1>10. ASSUME NEW i \in DOMAIN calls, SaveConflicts(i) \/ SaveFails(i) \/ SaveLate(i)
       PROVE  DashOwed'
  BY <1>5, <1>10 DEF SaveConflicts, SaveFails, SaveLate
<1>11. ASSUME NEW i \in DOMAIN calls, calls[i].reply \in Replies, calls[i].reply.kind = "board"
       PROVE  calls[i].reply \in Answers /\ ReplyTrue(calls[i].reply)
  BY <1>1, <1>11, NoneApart DEF Answers, RequestsTrue, CallTrue
<1>12. ASSUME NEW r \in Answers PROVE ~(DeliverFrame /\ Head(frames).kind = "list")
  BY <1>12, DeliveryEffects DEF Continues
<1>13. ASSUME NEW i \in DOMAIN calls, SaveAccepted(i) PROVE DashOwed'
  <2>1. PICK r, b : r = calls[i].reply /\ b = r.board
    BY Zenon
  <2>2. /\ calls[i].pc = "reply" /\ calls[i].gen = gen /\ r \in Replies /\ r.kind = "board"
        /\ b \in Boards /\ dash' = AcceptedBoard(b)
        /\ gaps' = IF Older(b) THEN gaps \cup {"overtaken"} ELSE gaps
    BY <1>13, <2>1, AcceptedEffects
  <2>3. r \in Answers /\ ReplyTrue(r) /\ Owed(r)
    BY <1>1, <1>11, <2>1, <2>2 DEF Debts, Answering
  <2>4. CASE dash = None
    <3>1. dash' = Held(b)
      BY <2>2, <2>4 DEF AcceptedBoard
    <3>2. QED BY <1>7, <2>1, <2>2, <2>3, <3>1
  <2>5. CASE dash # None
    <3>1. PICK n : n = IF dash.widgets = b.widgets THEN b.version
                       ELSE Earlier(b.version, dash.basis)
      BY Zenon
    <3>2. dash' = [widgets |-> dash.widgets, layout |-> b.layout, version |-> b.version,
                   basis |-> n]
      BY <2>2, <2>5, <3>1, Zenon DEF AcceptedBoard
    <3>3. dash'.widgets = dash.widgets /\ dash'.version = b.version /\ dash'.basis = n
      BY <3>2
    <3>4. b.version \in Nat /\ dash.version <= b.version
      <4>1. ~Older(b) /\ b.version \in Nat
        BY <2>2 DEF Continues, Boards
      <4>2. QED BY <1>3, <2>5, <4>1 DEF Older
    <3>5. n <= b.version
      BY <1>3, <2>5, <3>1, <3>4 DEF Earlier
    <3>6. CASE dash.widgets = b.widgets
      <4>1. PICK v, ws : v = b.version /\ ws = b.widgets
        BY Zenon
      <4>2. Carried(v, ws)'
        BY <1>6, <2>1, <2>2, <2>3, <4>1
      <4>3. Carried(dash.version, dash.widgets)'
        BY <3>3, <3>6, <4>1, <4>2
      <4>4. QED BY <3>3, <3>5, <4>3 DEF DashOwed
    <3>7. CASE dash.widgets # b.widgets /\ n = b.version
      <4>1. dash.basis = dash.version /\ dash'.version = dash.version
        BY <1>3, <2>5, <3>1, <3>3, <3>4, <3>7 DEF Earlier
      <4>2. Carried(dash.version, dash.widgets)'
        BY <1>4, <1>12, <2>3, <2>5, <3>3, <4>1
      <4>3. QED BY <3>3, <3>5, <4>2 DEF DashOwed
    <3>8. CASE n # b.version
      BY <3>3, <3>5, <3>8 DEF DashOwed
    <3>9. QED BY <3>6, <3>7, <3>8
  <2>6. QED BY <2>4, <2>5
<1>14. ASSUME NEW i \in DOMAIN calls, Rebased(i) PROVE DashOwed'
  <2>1. CASE calls[i].reply.kind # "board"
    <3>1. dash' = dash
      BY <1>14, <2>1, Zenon DEF Rebased
    <3>2. QED BY <1>5, <3>1
  <2>2. CASE calls[i].reply.kind = "board"
    <3>1. PICK r, b : r = calls[i].reply /\ b = r.board
      BY Zenon
    <3>2. /\ r \in Replies /\ b \in Boards
          /\ dash' = IF dash = None THEN None ELSE [dash EXCEPT !.version = b.version]
          /\ gaps' = IF Older(b) THEN gaps \cup {"overtaken"} ELSE gaps
      BY <1>14, <2>2, <3>1, RebasedEffects
    <3>3. CASE dash = None
      BY <1>5, <3>2, <3>3
    <3>4. CASE dash # None
      <4>1. dash'.widgets = dash.widgets /\ dash'.version = b.version /\ dash'.basis = dash.basis
        BY <1>2, <3>2, <3>4 DEF Helds
      <4>2. b.version \in Nat /\ dash.version <= b.version
        <5>1. ~Older(b) /\ b.version \in Nat
          BY <3>2 DEF Continues, Boards
        <5>2. QED BY <1>3, <3>4, <5>1 DEF Older
      <4>3. dash'.basis <= dash'.version
        BY <1>3, <3>4, <4>1, <4>2
      <4>4. CASE dash.basis = b.version
        <5>1. dash.basis = dash.version /\ dash'.version = dash.version
          BY <1>3, <3>4, <4>1, <4>2, <4>4
        <5>2. r \in Answers
          BY <1>11, <2>2, <3>1, <3>2
        <5>3. Carried(dash.version, dash.widgets)'
          BY <1>4, <1>12, <3>4, <4>1, <5>1, <5>2
        <5>4. QED BY <4>3, <5>3 DEF DashOwed
      <4>5. CASE dash.basis # b.version
        BY <4>1, <4>3, <4>5 DEF DashOwed
      <4>6. QED BY <4>4, <4>5
    <3>5. QED BY <3>3, <3>4
  <2>3. QED BY <2>1, <2>2
<1>15. ASSUME WidgetAnswered PROVE DashOwed'
  <2>1. CASE wop.gen = gen /\ wop.reply.kind = "board"
    <3>1. PICK r : r = wop.reply
      BY Zenon
    <3>2. wop.pc = "reply" /\ r \in Replies /\ dash' = Held(r.board)
      BY <1>15, <2>1, <3>1, AnswerEffects
    <3>3. r \in Answers /\ ReplyTrue(r) /\ Owed(r)
      BY <1>1, <2>1, <3>1, <3>2, NoneApart DEF Answers, RequestsTrue, Debts, Answering
    <3>4. QED BY <1>7, <2>1, <3>1, <3>2, <3>3
  <2>2. CASE ~(wop.gen = gen /\ wop.reply.kind = "board")
    BY <1>5, <1>15, <2>2, AnswerEffects
  <2>3. QED BY <2>1, <2>2
<1>16. ASSUME Loaded PROVE DashOwed'
  <2>1. CASE load.reply.kind = "board"
    <3>1. PICK r : r = load.reply
      BY Zenon
    <3>2. load.pc = "reply" /\ r \in Replies /\ dash' = Held(r.board)
      BY <1>16, <2>1, <3>1, AnswerEffects
    <3>3. r \in Answers /\ ReplyTrue(r) /\ Owed(r)
      BY <1>1, <2>1, <3>1, <3>2, NoneApart DEF Answers, RequestsTrue, Debts, Answering
    <3>4. QED BY <1>7, <2>1, <3>1, <3>2, <3>3
  <2>2. CASE load.reply.kind # "board"
    BY <1>5, <1>16, <2>2, AnswerEffects
  <2>3. QED BY <2>1, <2>2
<1>17. ASSUME DeliverFrame PROVE DashOwed'
  <2>1. CASE dash' = dash
    BY <1>5, <2>1
  <2>2. CASE dash' # dash
    <3>1. PICK w, d : w = Head(frames).w /\ d = DropResource(dash, w)
      BY Zenon
    <3>2. dash # None /\ dash' = d
      BY <1>17, <2>2, <3>1, DeliveryEffects
    <3>3. d.version = dash.version + 1 /\ d.basis = dash.basis
      BY <1>2, <2>2, <3>1, <3>2, DropMade
    <3>4. QED BY <1>3, <3>2, <3>3 DEF DashOwed
  <2>3. QED BY <2>1, <2>2
<1>18. QED
  BY <1>8, <1>9, <1>10, <1>13, <1>14, <1>15, <1>16, <1>17, StoreSteps, SessionStays

(* A board just read is the row.                                             *)
LEMMA FreshOwed ==
  ASSUME srv \in Boards
  PROVE  /\ \A r : r = BoardReply /\ srv' = srv => Owed(r)'
         /\ \A r : r = ErrorReply \/ r = ConflictReply => Owed(r)'
<1>1. ASSUME NEW r, r = BoardReply, srv' = srv PROVE Owed(r)'
  <2>1. PICK v, ws : v = r.board.version /\ ws = r.board.widgets
    BY Zenon
  <2>2. v = srv.version /\ srv.version \in Nat
    BY <1>1, <2>1, RepliesMade DEF Boards
  <2>3. Carried(v, ws)'
    BY <1>1, <2>2 DEF Carried
  <2>4. QED BY <2>1, <2>3 DEF Owed
<1>2. ASSUME NEW r, r = ErrorReply \/ r = ConflictReply PROVE Owed(r)'
  <2>1. r.kind # "board"
    BY <1>2, RepliesMade
  <2>2. QED BY <2>1 DEF Owed
<1>3. QED BY <1>1, <1>2

(* The answers a session waits for.                                          *)
LEMMA AnswersOwedStep ==
  ASSUME Shapes, WidgetsLive, Contents, Debts, Next, Continues
  PROVE  /\ (load.pc \in Answering => Owed(load.reply))'
         /\ (wop.pc \in Answering /\ wop.gen = gen => Owed(wop.reply))'
<1>1. /\ gaps = {} /\ RequestsTrue /\ gen' = gen
  <2>1. gaps = {}
    BY SessionStays
  <2>2. QED BY <2>1 DEF Contents, Continues
<1>2. /\ srv \in Boards /\ wop \in Wops /\ WopShape(wop) /\ load \in Loads /\ LoadShape(load)
  BY DEF Shapes, RowShape, RequestShape
<1>3. /\ load.pc \in Answering => load.reply \in Replies
      /\ wop.pc \in Answering => wop.reply \in Replies
  BY <1>2 DEF LoadShape, Loads, WopShape, Wops, Answering
<1>4. ASSUME load'.reply = load.reply, load'.pc \in Answering => load.pc \in Answering
      PROVE  (load.pc \in Answering => Owed(load.reply))'
  <2> SUFFICES ASSUME load'.pc \in Answering PROVE Owed(load.reply)'
    OBVIOUS
  <2>1. PICK r : r = load.reply
    BY Zenon
  <2>2. r \in Replies /\ ReplyTrue(r) /\ Owed(r)
    BY <1>1, <1>3, <1>4, <2>1 DEF RequestsTrue, Debts
  <2>3. r \in Answers \/ r.kind # "board"
    BY <2>1, <2>2, NoneApart DEF Answers
  <2>4. Owed(r)'
    BY <2>2, <2>3, OwedStays
  <2>5. QED BY <1>4, <2>1, <2>4 DEF Owed
<1>5. ASSUME NEW r, Owed(r)', load'.reply = r PROVE (load.pc \in Answering => Owed(load.reply))'
  BY <1>5 DEF Owed
<1>6. (load.pc \in Answering => Owed(load.reply))'
  <2>1. CASE UNCHANGED <<load, due>>
    BY <1>4, <2>1
  <2>2. CASE Refresh \/ Open \/ ResolveConflict
    <3>1. load' = load \/ load' = StartLoad
      BY <2>2 DEF Refresh, Open, ResolveConflict
    <3>2. StartLoad.reply = load.reply /\ (StartLoad.pc \in Answering => load.pc \in Answering)
      BY <1>2, LoadEffects DEF Answering
    <3>3. QED BY <1>4, <3>1, <3>2
  <2>3. CASE LoadReads
    <3>1. PICK x \in {BoardReply, ErrorReply} : load'.reply = x
      BY <1>2, <2>3, LoadEffects
    <3>2. srv' = srv
      BY <2>3 DEF LoadReads
    <3>3. Owed(x)'
      BY <1>2, <3>2, FreshOwed
    <3>4. QED BY <1>5, <3>1, <3>3
  <2>4. CASE Loaded
    <3>1. load'.pc = IF load.queued THEN "sent" ELSE "idle"
      BY <2>4 DEF Loaded
    <3>2. QED BY <3>1 DEF Answering
  <2>5. CASE DeliverFrame
    <3>1. load' = load
      BY <2>5 DEF DeliverFrame
    <3>2. QED BY <1>4, <3>1
  <2>6. CASE LoadWidgetsRead
    <3>1. load.pc = "row" /\ TornGap(load.reply) /\ RowRests
      BY <2>6 DEF LoadWidgetsRead, RowRests
    <3>2. PICK r : r = load.reply
      BY Zenon
    <3>3. /\ r \in Replies /\ r.kind = "board" /\ r \in Answers /\ ReplyTrue(r) /\ Owed(r)
      <4>1. r \in Replies /\ r.kind = "board"
        BY <1>2, <3>1, <3>2 DEF LoadShape, Loads
      <4>2. QED BY <1>1, <3>1, <3>2, <4>1, NoneApart DEF Answers, RequestsTrue, Debts, Answering
    <3>4. PICK x : x = WidgetsRead(r)
      BY Zenon
    <3>6. Owed(x)'
      BY <3>1, <3>2, <3>3, <3>4, CompletedOwed
    <3>7. load'.reply = x
      BY <1>2, <2>6, <3>2, <3>4, LoadEffects
    <3>8. QED BY <1>5, <3>6, <3>7
  <2>7. QED BY <2>1, <2>2, <2>3, <2>4, <2>5, <2>6, LoadSources, SessionStays
<1>7. ASSUME wop' = wop PROVE (wop.pc \in Answering /\ wop.gen = gen => Owed(wop.reply))'
  <2> SUFFICES ASSUME wop'.pc \in Answering, wop'.gen = gen' PROVE Owed(wop.reply)'
    OBVIOUS
  <2>1. PICK r : r = wop.reply
    BY Zenon
  <2>2. r \in Replies /\ ReplyTrue(r) /\ Owed(r)
    BY <1>1, <1>3, <1>7, <2>1 DEF RequestsTrue, Debts
  <2>3. r \in Answers \/ r.kind # "board"
    BY <2>1, <2>2, NoneApart DEF Answers
  <2>4. Owed(r)'
    BY <2>2, <2>3, OwedStays
  <2>5. QED BY <1>7, <2>1, <2>4 DEF Owed
<1>8. ASSUME NEW r, Owed(r)', wop'.reply = r
      PROVE  (wop.pc \in Answering /\ wop.gen = gen => Owed(wop.reply))'
  BY <1>8 DEF Owed
<1>9. (wop.pc \in Answering /\ wop.gen = gen => Owed(wop.reply))'
  <2>1. ASSUME NEW w \in Widgets, AddWidget(w) \/ RemoveWidget(w) PROVE wop'.pc = "sent"
    BY <2>1 DEF AddWidget, RemoveWidget, Request
  <2>2. CASE ServerWidget
    <3>1. wop' = WopAt(wop, "reply", ErrorReply) \/ wop' = WopAt(wop, "committed", wop.reply)
      BY <1>2, <2>2, WopEffects
    <3>2. wop'.reply = ErrorReply \/ wop'.pc = "committed"
      BY <3>1 DEF WopAt
    <3>3. PICK x : x = ErrorReply
      BY Zenon
    <3>4. Owed(x)'
      BY <1>2, <3>3, FreshOwed
    <3>5. QED BY <1>8, <3>2, <3>3, <3>4 DEF Answering
  <2>3. CASE WidgetResponds \/ WidgetFails
    <3>1. PICK p \in Answering, x \in {BoardReply, ErrorReply} : wop' = WopAt(wop, p, x)
      BY <1>2, <2>3, WopEffects DEF Answering
    <3>2. srv' = srv /\ wop'.reply = x
      BY <2>3, <3>1 DEF WidgetResponds, WidgetFails, WopAt
    <3>3. Owed(x)'
      BY <1>2, <3>1, <3>2, FreshOwed
    <3>4. QED BY <1>8, <3>2, <3>3
  <2>4. CASE WidgetAnswered
    <3>1. wop'.pc = "idle"
      BY <1>2, <2>4, WopEffects DEF WopAt
    <3>2. QED BY <3>1 DEF Answering
  <2>5. CASE WidgetWidgetsRead
    <3>1. wop.pc = "row" /\ TornGap(wop.reply) /\ RowRests
      BY <2>5 DEF WidgetWidgetsRead, RowRests
    <3>2. PICK r : r = wop.reply
      BY Zenon
    <3>3. r \in Replies /\ r.kind = "board" /\ r \in Answers /\ ReplyTrue(r)
      <4>1. r \in Replies /\ r.kind = "board"
        BY <1>2, <3>1, <3>2 DEF WopShape, Wops
      <4>2. QED BY <1>1, <3>2, <4>1, NoneApart DEF Answers, RequestsTrue
    <3>4. wop' = WopAt(wop, "reply", WidgetsRead(r))
      BY <1>2, <2>5, <3>2, WopEffects
    <3>5. PICK x : x = WidgetsRead(r)
      BY Zenon
    <3>6. wop'.reply = x /\ wop'.gen = wop.gen
      BY <3>4, <3>5 DEF WopAt
    <3>7. ASSUME wop'.gen = gen' PROVE (wop.pc \in Answering /\ wop.gen = gen => Owed(wop.reply))'
      <4>1. Owed(r)
        BY <1>1, <3>1, <3>2, <3>6, <3>7 DEF Debts, Answering
      <4>3. Owed(x)'
        BY <3>1, <3>2, <3>3, <3>5, <4>1, CompletedOwed
      <4>4. QED BY <1>8, <3>6, <4>3
    <3>8. QED BY <3>7
  <2>6. ASSUME NEW w \in Widgets, AddWidget(w) \/ RemoveWidget(w)
        PROVE  (wop.pc \in Answering /\ wop.gen = gen => Owed(wop.reply))'
    BY <2>1, <2>6 DEF Answering
  <2>7. QED BY <1>7, <2>2, <2>3, <2>4, <2>5, <2>6, WopSources
<1>10. QED BY <1>6, <1>9

(* The saves a session waits for.                                            *)
LEMMA SavesOwedStep ==
  ASSUME Shapes, WidgetsLive, Contents, Debts, Next, Continues
  PROVE  (\A i \in DOMAIN calls :
            calls[i].pc \in Answering /\ calls[i].gen = gen => Owed(calls[i].reply))'
<1>1. /\ gaps = {} /\ RequestsTrue /\ gen' = gen
  <2>1. gaps = {}
    BY SessionStays
  <2>2. QED BY <2>1 DEF Contents, Continues
<1>2. /\ srv \in Boards /\ calls \in Seq(Calls) /\ (\A i \in DOMAIN calls : CallShape(calls[i]))
      /\ TabShape
  BY DEF Shapes, RowShape, RequestShape
<1>3. ASSUME NEW k \in DOMAIN calls, NEW c, c = calls[k], c.pc \in Answering, c.gen = gen
      PROVE  Owed(c.reply)'
  <2>1. PICK r : r = c.reply
    BY Zenon
  <2>2. c \in Calls /\ CallShape(c)
    BY <1>2, <1>3
  <2>3. r \in Replies
    BY <1>3, <2>1, <2>2 DEF CallShape, Calls, Answering
  <2>4. ReplyTrue(r) /\ Owed(r)
    BY <1>1, <1>3, <2>1 DEF RequestsTrue, CallTrue, Debts
  <2>5. r \in Answers \/ r.kind # "board"
    BY <1>3, <2>1, <2>3, NoneApart DEF Answers
  <2>6. Owed(r)'
    BY <2>3, <2>4, <2>5, OwedStays
  <2>7. QED BY <2>1, <2>6
<1>4. ASSUME NEW k \in DOMAIN calls',
             \E c : /\ c = calls'[k]
                    /\ \/ k \in DOMAIN calls /\ c = calls[k]
                       \/ c.pc \notin Answering \/ c.gen # gen
                       \/ Owed(c.reply)'
      PROVE  (calls[k].pc \in Answering /\ calls[k].gen = gen => Owed(calls[k].reply))'
  <2>1. PICK c : /\ c = calls'[k]
                 /\ \/ k \in DOMAIN calls /\ c = calls[k]
                    \/ c.pc \notin Answering \/ c.gen # gen
                    \/ Owed(c.reply)'
    BY <1>4
  <2>2. c.pc \in Answering /\ c.gen = gen => Owed(c.reply)'
    BY <1>3, <2>1
  <2>3. QED BY <1>1, <2>1, <2>2 DEF Owed
<1>5. CASE UNCHANGED <<calls, user, gen, saving, pending>>
  BY <1>4, <1>5
<1>6. ASSUME NEW w \in Widgets, Drag(w), NEW k \in DOMAIN calls'
      PROVE  (calls[k].pc \in Answering /\ calls[k].gen = gen => Owed(calls[k].reply))'
  <2>1. PICK j : j = DragJob(w)
    BY Zenon
  <2>2. j \in Jobs /\ dash.version \in Nat
    BY <1>6, <2>1, DragEffects DEF Helds
  <2>3. PICK c \in Calls : calls' = Append(calls, c) /\ c.pc \notin Answering
    <3>1. /\ Put(j, dash.version) \in Calls /\ Put(j, dash.version).pc = "put"
          /\ Done \in Calls /\ Done.pc = "done"
      BY <1>2, <2>2, CallsMade DEF Put, Done
    <3>2. QED BY <1>2, <1>6, <2>1, <3>1, DragEffects DEF TabShape, Answering
  <2>4. /\ DOMAIN calls' = DOMAIN calls \cup {Len(calls) + 1} /\ calls'[Len(calls) + 1] = c
        /\ \A m \in DOMAIN calls : calls'[m] = calls[m]
    BY <1>2, <2>3, CallAdded
  <2>5. QED BY <1>4, <1>6, <2>3, <2>4
<1>7. ASSUME NEW i \in DOMAIN calls, SaveStep(i), NEW k \in DOMAIN calls'
      PROVE  (calls[k].pc \in Answering /\ calls[k].gen = gen => Owed(calls[k].reply))'
  <2>1. calls[i] \in Calls /\ CallShape(calls[i])
    BY <1>2
  <2>2. PICK c \in Calls :
          Becomes(i, c) /\ (c.pc \notin Answering \/ c.gen # gen \/ Owed(c.reply)')
    <3>1. ASSUME NEW p \in CallSteps, NEW x \in Replies \cup {None},
                 p \notin Answering \/ calls[i].gen # gen \/ Owed(x)',
                 Becomes(i, CallAt(calls[i], p, x))
          PROVE  \E c \in Calls :
                   Becomes(i, c) /\ (c.pc \notin Answering \/ c.gen # gen \/ Owed(c.reply)')
      <4>1. PICK c : c = CallAt(calls[i], p, x)
        BY Zenon
      <4>2. c \in Calls /\ c.pc = p /\ c.reply = x /\ c.gen = calls[i].gen
        BY <2>1, <4>1, CallAtMade
      <4>3. QED BY <3>1, <4>1, <4>2
    <3>2. PICK br, er, cr : br = BoardReply /\ er = ErrorReply /\ cr = ConflictReply
      BY Zenon
    <3>3. br \in Replies /\ er \in Replies /\ cr \in Replies
      BY <1>2, <3>2, RepliesMade
    <3>4. Owed(er)' /\ Owed(cr)'
      BY <1>2, <3>2, FreshOwed
    <3>5. /\ "committed" \in CallSteps \ Answering /\ "row" \in CallSteps
          /\ "reply" \in CallSteps /\ "get" \in CallSteps \ Answering
          /\ "getrow" \in CallSteps \ Answering /\ "got" \in CallSteps \ Answering
      BY DEF CallSteps, Answering
    <3>6. calls[i].reply \in Replies \cup {None}
      BY <2>1 DEF Calls
    <3>7. CASE ServerPut(i)
      <4>1. CASE PutAccepted(i)
        BY <3>1, <3>5, <3>6, <4>1 DEF PutAccepted
      <4>2. CASE PutRefused(i)
        BY <3>1, <3>2, <3>3, <3>4, <3>5, <4>2 DEF PutRefused
      <4>3. QED BY <1>2, <3>7, <4>1, <4>2, PutEffects
    <3>8. CASE ServerRespond(i)
      <4>1. srv' = srv
        BY <3>8 DEF ServerRespond
      <4>2. Owed(br)'
        BY <1>2, <3>2, <4>1, FreshOwed
      <4>3. Becomes(i, CallAt(calls[i], "row", br))
        BY <1>2, <3>2, <3>8, CallEffects
      <4>4. QED BY <3>1, <3>3, <3>5, <4>2, <4>3
    <3>9. CASE PutFails(i)
      <4>1. Becomes(i, CallAt(calls[i], "reply", er))
        BY <1>2, <3>2, <3>9, CallEffects
      <4>2. QED BY <3>1, <3>3, <3>4, <3>5, <4>1
    <3>10. CASE RebaseReads(i)
      <4>1. Becomes(i, CallAt(calls[i], "getrow", br)) \/ Becomes(i, CallAt(calls[i], "got", er))
        BY <1>2, <3>2, <3>10, CallEffects
      <4>2. QED BY <3>1, <3>3, <3>5, <4>1
    <3>11. CASE SaveConflicts(i) \/ SaveFails(i) \/ SaveLate(i) \/ SaveAccepted(i) \/ Rebased(i)
      <4>1. ASSUME Becomes(i, Done) PROVE \E c \in Calls : Becomes(i, c) /\ c.pc \notin Answering
        <5>1. Done \in Calls /\ Done.pc = "done"
          BY <1>2 DEF Done, Calls, CallSteps, TabShape
        <5>2. QED BY <4>1, <5>1 DEF Answering
      <4>2. ASSUME NEW j \in Jobs, NEW v \in Nat, Becomes(i, Put(j, v))
            PROVE  \E c \in Calls : Becomes(i, c) /\ c.pc \notin Answering
        <5>1. Put(j, v) \in Calls /\ Put(j, v).pc = "put"
          BY <1>2, CallsMade DEF Put
        <5>2. QED BY <4>2, <5>1 DEF Answering
      <4>3. CASE SaveConflicts(i)
        <5>1. CASE calls[i].job.retried
          <6>1. Becomes(i, Done)
            BY <4>3, <5>1, Zenon DEF SaveConflicts, Leave, Becomes
          <6>2. QED BY <4>1, <6>1
        <5>2. CASE ~calls[i].job.retried
          BY <1>2, <3>1, <3>5, <4>3, <5>2, CallEffects
        <5>3. QED BY <5>1, <5>2
      <4>4. CASE SaveFails(i) \/ SaveLate(i)
        <5>1. Becomes(i, Done)
          BY <4>4, Zenon DEF SaveFails, SaveLate, Leave, LeaveLate, Becomes
        <5>2. QED BY <4>1, <5>1
      <4>5. CASE SaveAccepted(i)
        <5>1. PICK b : b = calls[i].reply.board
          BY Zenon
        <5>2. /\ b \in Boards
              /\ pending # None => Becomes(i, Put(pending, b.version))
              /\ pending = None => Becomes(i, Done)
          BY <4>5, <5>1, AcceptedEffects
        <5>3. b.version \in Nat /\ pending \in Jobs \cup {None}
          BY <1>2, <5>2 DEF Boards, TabShape
        <5>4. QED BY <4>1, <4>2, <5>2, <5>3
      <4>6. CASE Rebased(i)
        <5>1. CASE calls[i].reply.kind = "board"
          <6>1. PICK b, m : b = calls[i].reply.board /\ m = Merged(calls[i])
            BY Zenon
          <6>2. /\ b \in Boards /\ m \in Jobs
                /\ dash # None /\ pending # None => Becomes(i, Put(pending, b.version))
                /\ dash # None /\ pending = None => Becomes(i, Put(m, b.version))
                /\ dash = None => Becomes(i, Done)
            BY <4>6, <5>1, <6>1, RebasedEffects
          <6>3. b.version \in Nat /\ pending \in Jobs \cup {None}
            BY <1>2, <6>2 DEF Boards, TabShape
          <6>4. QED BY <4>1, <4>2, <6>2, <6>3
        <5>2. CASE calls[i].reply.kind # "board"
          <6>1. Becomes(i, Done)
            BY <4>6, <5>2, Zenon DEF Rebased, Leave, Becomes
          <6>2. QED BY <4>1, <6>1
        <5>3. QED BY <5>1, <5>2
      <4>7. QED BY <3>11, <4>3, <4>4, <4>5, <4>6
    <3>12. CASE SaveWidgetsRead(i)
      <4>1. calls[i].pc \in {"row", "getrow"} /\ TornGap(calls[i].reply) /\ RowRests
        BY <3>12 DEF SaveWidgetsRead, RowRests
      <4>2. PICK r, x, p : r = calls[i].reply /\ x = WidgetsRead(r) /\ p = AfterRead(calls[i].pc)
        BY Zenon
      <4>3. r \in Replies /\ r.kind = "board" /\ r \in Answers /\ ReplyTrue(r) /\ x \in Replies
        <5>1. r \in Replies /\ r.kind = "board"
          BY <2>1, <4>1, <4>2 DEF CallShape, Calls
        <5>2. QED
          BY <1>1, <1>2, <4>2, <5>1, NoneApart, WidgetsReadMade DEF Answers, RequestsTrue, CallTrue
      <4>4. Becomes(i, CallAt(calls[i], p, x))
        BY <1>2, <3>12, <4>2, CallEffects
      <4>5. CASE calls[i].pc = "getrow"
        BY <3>1, <3>5, <4>2, <4>3, <4>4, <4>5 DEF AfterRead
      <4>6. CASE calls[i].pc = "row" /\ calls[i].gen = gen
        <5>1. Owed(r)
          BY <1>1, <4>2, <4>6 DEF Debts, Answering
        <5>3. Owed(x)'
          BY <4>1, <4>2, <4>3, <5>1, CompletedOwed
        <5>4. QED BY <3>1, <3>5, <4>2, <4>3, <4>4, <4>6, <5>3 DEF AfterRead
      <4>7. CASE calls[i].pc = "row" /\ calls[i].gen # gen
        BY <3>1, <3>5, <4>2, <4>3, <4>4, <4>7 DEF AfterRead
      <4>8. QED BY <4>1, <4>5, <4>6, <4>7
    <3>13. QED BY <1>7, <3>7, <3>8, <3>9, <3>10, <3>11, <3>12 DEF SaveStep
  <2>3. /\ DOMAIN calls' = DOMAIN calls /\ calls'[i] = c
        /\ \A j \in DOMAIN calls : j # i => calls'[j] = calls[j]
    BY <1>2, <2>2, CallMoved
  <2>4. QED BY <1>4, <1>7, <2>2, <2>3
<1>8. QED BY <1>5, <1>4, <1>6, <1>7, CallSources, SessionStays

(* What is owed stays owed until it arrives or its loss is recorded, within  *)
(* a session; a sign-in starts with nothing.                                 *)
LEMMA DebtsStep ==
  ASSUME Shapes, WidgetsLive, Contents, Debts, Next
  PROVE  Debts'
<1> SUFFICES ASSUME gaps' = {} PROVE Debts'
  BY DEF Debts
<1>1. CASE gen' = gen
  <2>1. Continues
    BY <1>1 DEF Continues
  <2>2. QED BY <2>1, DashOwedStep, AnswersOwedStep, SavesOwedStep DEF Debts
<1>2. CASE gen' # gen
  <2>1. PICK u \in Users : Reset(u)
    <3>1. StoreRests => gen' = gen
      BY DEF StoreRests
    <3>2. ASSUME NEW w \in Widgets, Drag(w) PROVE gen' = gen
      BY <3>2 DEF Drag
    <3>3. ASSUME NEW i \in DOMAIN calls,
                 \/ SaveAccepted(i) \/ SaveConflicts(i) \/ SaveFails(i) \/ SaveLate(i) \/ Rebased(i)
          PROVE  gen' = gen
      BY <3>3 DEF SaveAccepted, SaveConflicts, SaveFails, SaveLate, Rebased
    <3>4. WidgetAnswered \/ DeliverFrame \/ Loaded => gen' = gen
      BY DEF WidgetAnswered, DeliverFrame, Loaded
    <3>5. QED BY <1>2, <3>1, <3>2, <3>3, <3>4, StoreSteps
  <2>2. dash' = None /\ load'.pc = "idle" /\ gen' = gen + 1 /\ wop' = wop /\ calls' = calls
    BY <2>1 DEF Reset
  <2>3. gen \in Nat /\ wop \in Wops /\ wop.gen <= gen /\ calls \in Seq(Calls)
    BY DEF Shapes, TabShape, RequestShape, WopShape
  <2>4. wop.gen # gen'
    BY <2>2, <2>3 DEF Wops
  <2>5. ASSUME NEW i \in DOMAIN calls PROVE calls[i].gen # gen'
    <3>1. calls[i] \in Calls /\ calls[i].gen <= gen
      BY <2>3 DEF Shapes, RequestShape, CallShape
    <3>2. calls[i].gen \in Nat
      BY <3>1 DEF Calls
    <3>3. QED BY <2>2, <2>3, <3>1, <3>2
  <2>6. DashOwed'
    BY <2>2 DEF DashOwed
  <2>7. QED BY <2>2, <2>4, <2>5, <2>6 DEF Debts, Answering
<1>3. QED BY <1>1, <1>2

(* Nothing is owed to the first board.                                       *)
LEMMA DebtsInit ==
  ASSUME Init
  PROVE  Debts /\ DrainsAlone
<1>1. srv \in Boards /\ dash = Held(srv)
  BY ShapesInit DEF Shapes, RowShape, Init
<1>2. dash.version = srv.version /\ dash.basis = srv.version /\ srv.version \in Nat
  BY <1>1, HeldMade DEF Boards
<1>3. DashOwed
  BY <1>2 DEF DashOwed, Carried
<1>4. load.pc = "idle" /\ wop.pc = "idle" /\ calls = <<>> /\ saving = FALSE /\ pending = None
  BY DEF Init
<1>5. Debts
  BY <1>3, <1>4 DEF Debts, Answering
<1>6. CurrentDrains = {}
  BY <1>4 DEF CurrentDrains
<1>7. QED BY <1>4, <1>5, <1>6 DEF DrainsAlone

-----------------------------------------------------------------------------
(* The invariant the theorems rest on.                                       *)
LayoutInv == /\ Shapes /\ WidgetsLive /\ Contents /\ SavesHarmless
             /\ DrainsAlone /\ Debts

(* It holds in every reachable state.                                        *)
LEMMA LayoutInvHolds == Spec => []LayoutInv
<1>1. Init => LayoutInv
  BY ShapesInit, ContentsInit, DebtsInit DEF LayoutInv
<1>2. LayoutInv /\ [Next]_vars => LayoutInv'
  <2>1. ASSUME LayoutInv, Next PROVE LayoutInv'
    <3>1. Shapes'
      BY <2>1, RowShapeStep, TabShapeStep, RequestShapeStep DEF LayoutInv, Shapes
    <3>2. WidgetsLive' /\ Contents' /\ SavesHarmless' /\ DrainsAlone' /\ Debts'
      BY <2>1, WidgetsLiveStep, ContentsStep, HarmlessStep, DrainsStep, DebtsStep DEF LayoutInv
    <3>3. QED BY <3>1, <3>2 DEF LayoutInv
  <2>2. ASSUME LayoutInv, UNCHANGED vars PROVE LayoutInv'
    <3>1. /\ srv' = srv /\ born' = born /\ tx' = tx /\ frames' = frames /\ spent' = spent
          /\ harm' = harm /\ gaps' = gaps
      BY <2>2 DEF vars
    <3>2. /\ user' = user /\ gen' = gen /\ dash' = dash /\ draft' = draft /\ pending' = pending
          /\ saving' = saving /\ calls' = calls /\ wop' = wop /\ load' = load /\ due' = due
          /\ conflict' = conflict
      BY <2>2 DEF vars, tab
    <3>3. RowShape' /\ TabShape'
      BY <2>2, <3>1, <3>2 DEF LayoutInv, Shapes, RowShape, TabShape
    <3>4. RequestShape'
      BY <2>2, <3>1, <3>2 DEF LayoutInv, Shapes, RequestShape, CallShape, WopShape, LoadShape
    <3>5. WidgetsLive'
      BY <2>2, <3>1, <3>2 DEF LayoutInv, WidgetsLive, InFlight
    <3>6. Contents'
      BY <2>2, <3>1, <3>2 DEF LayoutInv, Contents, RequestsTrue, StoreTrue, CallTrue, JobTrue,
              ReplyTrue, BoardTrue, HeldTrue, SketchTrue, MergeTrue, Harmless
    <3>7. SavesHarmless'
      BY <2>2, <3>1 DEF LayoutInv, SavesHarmless, FreshSavesHarmless, MergeKeepsAdded
    <3>8. DrainsAlone'
      BY <2>2, <3>2 DEF LayoutInv, DrainsAlone, CurrentDrains, Active
    <3>9. Debts'
      <4>1. ASSUME NEW v, NEW ws, Carried(v, ws) PROVE Carried(v, ws)'
        BY <3>1, <3>2, <4>1 DEF Carried, News, LoadNews, WopNews, CallsNews, CallNews, FrameNews,
                                HeldNews, Drops, Brings, InFlight, IsOwnFrame
      <4>2. ASSUME NEW r, Owed(r) PROVE Owed(r)'
        BY <4>1, <4>2 DEF Owed
      <4>3. DashOwed => DashOwed'
        BY <3>2, <4>1 DEF DashOwed
      <4>4. QED BY <2>2, <3>1, <3>2, <4>2, <4>3 DEF LayoutInv, Debts
    <3>10. QED BY <3>3, <3>4, <3>5, <3>6, <3>7, <3>8, <3>9 DEF LayoutInv, Shapes
  <2>3. QED BY <2>1, <2>2
<1>3. QED BY <1>1, <1>2, PTL DEF Spec

(* The version of a dashboard row names one content: a board on its way to   *)
(* the tab (get_dashboard, update_layout, add_widget and delete_widget) that *)
(* carries the row's version carries the row, until a list deletion writes   *)
(* over a row that moved under it (remove_resource_widgets).                 *)
THEOREM VersionsNameContent == Spec => []VersionsSound
<1>1. LayoutInv => VersionsSound
  <2> SUFFICES ASSUME LayoutInv PROVE VersionsSound
    OBVIOUS
  <2>1. RowShape /\ TabShape /\ RequestShape
    BY DEF LayoutInv, Shapes
  <2>2. TypeOK
    <3>1. /\ srv \in Boards /\ born \subseteq Widgets /\ user \in Users /\ gen \in 1..MaxSessions
          /\ pending \in Jobs \cup {None} /\ gaps \subseteq Gaps
      BY <2>1 DEF RowShape, TabShape
    <3>2. tx # None => tx.w \in ListWidgets /\ tx.layout \in Layouts /\ tx.version \in Nat
      BY <2>1 DEF RowShape, LoadedRows
    <3>3. dash # None => Board(dash) \in Boards /\ dash.basis \in Nat
      BY <2>1 DEF TabShape, Helds, Board, Boards
    <3>4. {saving, due, conflict, load.queued} \subseteq BOOLEAN
      BY <2>1 DEF TabShape, RequestShape, Loads
    <3>5. ASSUME NEW i \in DOMAIN calls
          PROVE  /\ calls[i].pc \in {"put", "committed", "row", "reply", "get", "getrow", "got", "done"}
                 /\ calls[i].job \in Jobs \cup {None}
                 /\ calls[i].reply \in Replies \cup {None}
      <4>1. calls[i] \in Calls
        BY <2>1 DEF RequestShape
      <4>2. QED BY <4>1 DEF Calls, CallSteps
    <3>6. /\ wop.pc \in {"idle", "sent", "committed", "row", "reply"}
          /\ wop.reply \in Replies \cup {None}
      BY <2>1 DEF RequestShape, Wops, WopSteps
    <3>7. load.pc \in {"idle", "sent", "row", "reply"} /\ load.reply \in Replies \cup {None}
      BY <2>1 DEF RequestShape, Loads, LoadSteps
    <3>8. QED BY <3>1, <3>2, <3>3, <3>4, <3>5, <3>6, <3>7 DEF TypeOK
  <2>3. ASSUME "raced" \notin gaps, NEW r \in Answers, r.board.version = srv.version
        PROVE  r.board = Board(srv)
    <3>1. RequestsTrue
      BY <2>3 DEF LayoutInv, Contents
    <3>2. ReplyTrue(r) /\ r # None /\ r.kind = "board"
      BY <2>3, <3>1 DEF Answers, RequestsTrue, CallTrue
    <3>3. Board(srv) = srv
      BY <2>1, RepliesMade DEF RowShape
    <3>4. QED BY <2>3, <3>2, <3>3 DEF ReplyTrue, BoardTrue
  <2>4. QED BY <2>2, <2>3 DEF VersionsSound, VersionNamesContent, OneContentPerVersion
<1>2. QED BY <1>1, LayoutInvHolds, PTL

(* The optimistic check of update_layout: a save drawn on the version it is  *)
(* accepted with touches nothing its author did not drag, and one that       *)
(* rebaseLayout has merged strips nobody's slot, until a list deletion has   *)
(* reused a version.                                                         *)
THEOREM SavesDoNoHarm == Spec => []SavesHarmless
<1>1. LayoutInv => SavesHarmless
  BY DEF LayoutInv
<1>2. QED BY <1>1, LayoutInvHolds, PTL

(* saveLayout is serialized in every session: at most one drain, the flag up *)
(* exactly while there is one, and a drain for every pending layout.         *)
THEOREM SavesAreSerialized == Spec => []SavesSerialized
<1>1. LayoutInv => SavesSerialized
  <2> SUFFICES ASSUME LayoutInv PROVE SavesSerialized
    OBVIOUS
  <2>1. DrainsAlone /\ saving \in BOOLEAN
    BY DEF LayoutInv, Shapes, TabShape
  <2>2. CASE saving
    <3>1. PICK i \in CurrentDrains : TRUE
      BY <2>1, <2>2 DEF DrainsAlone
    <3>2. CurrentDrains = {i}
      BY <2>1, <3>1 DEF DrainsAlone
    <3>3. Cardinality(CurrentDrains) = 1
      BY <3>2, FS_Singleton
    <3>4. QED BY <2>1, <2>2, <3>3 DEF SavesSerialized, DrainsAlone
  <2>3. CASE ~saving
    <3>1. CurrentDrains = {}
      BY <2>1, <2>3 DEF DrainsAlone
    <3>2. Cardinality(CurrentDrains) = 0
      BY <3>1, FS_EmptySet
    <3>3. QED BY <2>1, <2>3, <3>2 DEF SavesSerialized, DrainsAlone
  <2>4. QED BY <2>1, <2>2, <2>3
<1>2. QED BY <1>1, LayoutInvHolds, PTL

(* A tab with nothing under way shows the row: no frame it skipped, no load  *)
(* it queued and no answer it waited for is missing, unless one of the       *)
(* events in gaps happened or the version it holds was taken over without    *)
(* its layout or widgets.                                                    *)
THEOREM SettledTabsAreCurrent == Spec => []SettledOrGap
<1>1. LayoutInv => SettledOrGap
  <2> SUFFICES ASSUME LayoutInv, Settled, gaps = {}, dash.basis = dash.version PROVE Current
    BY DEF SettledOrGap
  <2>1. dash # None /\ dash \in Helds /\ srv.version \in Nat
    BY DEF Settled, LayoutInv, Shapes, TabShape, RowShape, Boards
  <2>2. HeldTrue(dash) /\ Carried(dash.version, dash.widgets)
    BY <2>1 DEF LayoutInv, Contents, StoreTrue, Debts, DashOwed
  <2>3. dash.version \in Nat
    BY <2>1 DEF Helds
  <2>4. ~News(dash.version)
    <3>1. ~due /\ load.pc = "idle" /\ wop.pc = "idle" /\ frames = <<>>
          /\ \A i \in DOMAIN calls : calls[i].pc = "done"
      BY DEF Settled, Active
    <3>2. ~LoadNews(dash.version) /\ ~WopNews(dash.version)
      BY <3>1 DEF LayoutInv, Shapes, RequestShape, LoadShape, WopShape, LoadNews, WopNews, Brings
    <3>3. ~CallsNews(dash.version)
      BY <3>1 DEF CallsNews, CallNews
    <3>4. ~FrameNews(dash.version)
      BY <3>1 DEF FrameNews, InFlight
    <3>5. ~HeldNews(dash.version)
      BY <2>3 DEF HeldNews
    <3>6. QED BY <3>2, <3>3, <3>4, <3>5 DEF News
  <2>5. ~Drops(dash.widgets)
    BY DEF Settled, Drops, InFlight
  <2>6. dash.version = srv.version
    BY <2>1, <2>2, <2>3, <2>4, <2>5 DEF Carried, HeldTrue
  <2>7. QED BY <2>2, <2>6 DEF HeldTrue, Current
<1>2. QED BY <1>1, LayoutInvHolds, PTL

(* Both at once, as LayoutSessions checks them across sign-ins: resetting    *)
(* the store (resetDashboardData) leaves no drain, no pending layout and no  *)
(* echo behind for the next user.                                            *)
THEOREM SessionsStayApart == Spec => []SessionsSettle
<1>1. SavesSerialized /\ SettledOrGap => SessionsSettle
  BY DEF SessionsSettle
<1>2. QED BY <1>1, SavesAreSerialized, SettledTabsAreCurrent, PTL

=============================================================================
