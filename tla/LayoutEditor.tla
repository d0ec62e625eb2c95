---------------------------- MODULE LayoutEditor ----------------------------
(***************************************************************************)
(* Two editors of one dashboard: the dashboard row and its transactions    *)
(* (backend routers/dashboards.py, services/dashboard_widgets.py), one     *)
(* browser tab with its serialized layout saves (stores/dashboard.ts,      *)
(* DashboardGrid.tsx), and somebody else who writes through the same API.  *)
(*                                                                         *)
(* A layout is a partial function from widgets to positions; a position is *)
(* the stamp of the gesture that chose it, and 0 the slot the server (or   *)
(* the grid library) picks by itself.  The stream between server and tab   *)
(* is live and in order here; what happens when it is not is the subject   *)
(* of SseManager, SseReconnect and SseFanout.                              *)
(***************************************************************************)
EXTENDS Integers, Sequences, FiniteSets

CONSTANTS
    Widgets,      \* the widget ids that may ever exist
    Start,        \* the widgets on the board when the tab has loaded it
    ListWidgets,  \* the widgets bound to a list
    Users,        \* the people who sign in at this tab
    MaxDrags,     \* bound: gestures of this tab
    MaxForeign,   \* bound: writes of the other editor
    MaxOwn,       \* bound: widget additions and removals of this tab
    MaxFails,     \* bound: failed requests and lost responses
    MaxSessions   \* bound: sign-ins at this tab

ASSUME LayoutEditorAssumption ==
    /\ Start \subseteq Widgets /\ ListWidgets \subseteq Widgets
    /\ Users # {}
    /\ MaxDrags \in Nat /\ MaxForeign \in Nat /\ MaxOwn \in Nat
    /\ MaxFails \in Nat /\ MaxSessions \in Nat \ {0}

VARIABLES
    srv,      \* the dashboard row and its widget rows
    born,     \* every widget id handed out so far
    tx,       \* the dashboard a list deletion has loaded but not yet locked
    frames,   \* frames of this dashboard on their way to the tab
    user,     \* who is signed in
    gen,      \* session generation
    dash,     \* the dashboard the store holds
    draft,    \* the arrangement the grid shows while its version is current
    pending,  \* pendingLayoutSave
    saving,   \* layoutSaveInFlight
    calls,    \* the saveLayout calls, in the order they were made
    wop,      \* the widget addition or removal under way
    load,     \* the GET of the dashboard under way
    due,      \* a debounced refresh is scheduled
    conflict, \* the banner
    spent,    \* the budgets used up
    harm,     \* history: what accepted saves did to entries nobody dragged
    gaps      \* history: the events after which the tab may stay stale

tab == <<user, gen, dash, draft, pending, saving, calls, wop, load, due, conflict>>
vars == <<srv, born, tx, frames, tab, spent, harm, gaps>>

-----------------------------------------------------------------------------
(* Data *)

None == [none |-> TRUE]

Positions == 0..(MaxDrags + MaxForeign)
Layouts == UNION {[S -> Positions] : S \in SUBSET Widgets}

\* The content a response carries
Board(r) == [widgets |-> r.widgets, layout |-> r.layout, version |-> r.version]

\* What the store keeps.  basis is history: the oldest version a part of it was
\* read at, which version itself stops saying once it is written without layout
\* or widgets.
Held(b) == [widgets |-> b.widgets, layout |-> b.layout, version |-> b.version,
            basis |-> b.version]

Without(layout, w) == [i \in DOMAIN layout \ {w} |-> layout[i]]

With(layout, w, p) == [i \in DOMAIN layout \cup {w} |-> IF i = w THEN p ELSE layout[i]]

RebaseDropsTheirs(server, ours) == ours

\* rebaseLayout: the server's entries, ours wherever we have one, and our own
\* entries the server does not know.
RebaseLayout(server, ours) ==
    [i \in DOMAIN server \cup DOMAIN ours |->
        IF i \in DOMAIN ours THEN ours[i] ELSE server[i]]

-----------------------------------------------------------------------------
Init ==
    /\ srv = [widgets |-> Start, layout |-> [w \in Start |-> 0], version |-> 0]
    /\ born = Start
    /\ tx = None
    /\ frames = <<>>
    /\ user \in Users
    /\ gen = 1
    /\ dash = Held(srv)
    /\ draft = None
    /\ pending = None
    /\ saving = FALSE
    /\ calls = <<>>
    /\ wop = [pc |-> "idle", gen |-> 0, user |-> user, kind |-> "add", w |-> None,
              reply |-> None]
    /\ load = [pc |-> "idle", reply |-> None, queued |-> FALSE]
    /\ due = FALSE
    /\ conflict = FALSE
    /\ spent = [foreign |-> 0, own |-> 0, fails |-> 0]
    /\ harm = {}
    /\ gaps = {}

-----------------------------------------------------------------------------
(* The server.  Each writer locks the dashboard row before it reads it, so  *)
(* its transaction is one step; delete_list alone reads first.              *)

Emit(kind, w, version, who, client) ==
    frames' = Append(frames, [kind |-> kind, w |-> w, version |-> version,
                              actor |-> who, mine |-> client])

\* add_widget: the row and its layout entry appear together.
Added(r, w) == [widgets |-> r.widgets \cup {w}, layout |-> With(r.layout, w, 0),
                version |-> r.version + 1]

RemovedKeepsVersion(r, w) == [widgets |-> r.widgets \ {w},
                              layout |-> Without(r.layout, w), version |-> r.version]

\* delete_widget
Removed(r, w) == [widgets |-> r.widgets \ {w}, layout |-> Without(r.layout, w),
                  version |-> r.version + 1]

\* update_layout, once the versions match.
Saved(r, layout) == [r EXCEPT !.layout = layout, !.version = @ + 1]

\* update_layout: the optimistic check.
VersionMatches(r, sent) == r.version = sent

Foreign == /\ spent.foreign < MaxForeign
           /\ spent' = [spent EXCEPT !.foreign = @ + 1]

ForeignStamp == MaxDrags + spent.foreign + 1

\* The other editor saves a layout based on the current row.
ForeignMove(w) ==
    /\ Foreign
    /\ w \in DOMAIN srv.layout \cap srv.widgets
    /\ srv' = Saved(srv, With(srv.layout, w, ForeignStamp))
    /\ Emit("layout", w, srv'.version, "other", FALSE)
    /\ UNCHANGED <<born, tx, tab, harm, gaps>>

ForeignAdd(w) ==
    /\ Foreign
    /\ w \in Widgets \ born
    /\ srv' = Added(srv, w)
    /\ born' = born \cup {w}
    /\ Emit("widgets", w, srv'.version, "other", FALSE)
    /\ UNCHANGED <<tx, tab, harm, gaps>>

ForeignRemove(w) ==
    /\ Foreign
    /\ w \in srv.widgets
    /\ srv' = Removed(srv, w)
    /\ Emit("widgets", w, srv'.version, "other", FALSE)
    /\ UNCHANGED <<born, tx, tab, harm, gaps>>

\* delete_list, _get_list_access: the dashboard row enters the session's
\* identity map unlocked.
ListDeleteLoads(w) ==
    /\ Foreign
    /\ tx = None
    /\ w \in srv.widgets \cap ListWidgets
    /\ tx' = [w |-> w, layout |-> srv.layout, version |-> srv.version]
    /\ UNCHANGED <<srv, born, frames, tab, harm, gaps>>

\* remove_resource_widgets: locks the row, but computes layout and version
\* from the attributes loaded before.
StripResource(r, t) ==
    [widgets |-> r.widgets \ {t.w},
     layout  |-> IF t.w \in DOMAIN t.layout THEN Without(t.layout, t.w) ELSE r.layout,
     version |-> t.version + 1]

ListDeleteCommits ==
    /\ tx # None
    /\ srv' = IF tx.w \in srv.widgets THEN StripResource(srv, tx) ELSE srv
    /\ Emit("list", tx.w, 0, "other", FALSE)
    /\ gaps' = IF tx.w \in srv.widgets /\ tx.version # srv.version
               THEN gaps \cup {"raced"} ELSE gaps
    /\ tx' = None
    /\ UNCHANGED <<born, tab, spent, harm>>

-----------------------------------------------------------------------------
(* Layout saves: saveLayout is a coroutine, one step per await. *)

Done == [pc |-> "done", gen |-> 0, user |-> user, job |-> None, sent |-> 0,
         reply |-> None]

ErrorReply == [kind |-> "error"]
ConflictReply == [kind |-> "conflict"]
BoardReply == [kind |-> "board", board |-> Board(srv)]

\* A response is read in two statements, each of the rows committed by then: the
\* dashboard row with its layout and version (BoardReply), then _load_widgets.
WidgetsRead(x) == [x EXCEPT !.board.widgets = srv.widgets]

\* The list deletions the tab has not heard of yet
ListsGone == {frames[k].w : k \in {j \in DOMAIN frames : frames[j].kind = "list"}}

\* One of them fell between the two reads: the layout still has the entry.
Torn(x) == (x.board.widgets \ srv.widgets) \cap ListsGone # {}
TornGap(x) == gaps' = IF Torn(x) THEN gaps \cup {"torn"} ELSE gaps

Fails == /\ spent.fails < MaxFails
         /\ spent' = [spent EXCEPT !.fails = @ + 1]

Put(job, version) == [pc |-> "put", gen |-> gen, user |-> user, job |-> job,
                      sent |-> version, reply |-> None]

Earlier(a, b) == IF a < b THEN a ELSE b

\* The arrangement on screen: the draft while it belongs to the held version,
\* which need not be the version it was drawn on.  mine and basis are history:
\* the widgets whose place this user chose, the oldest version the rest is of.
Shown == IF draft # None /\ draft.base = dash.version
         THEN [layout |-> draft.layout, mine |-> draft.mine,
               basis |-> Earlier(draft.basis, dash.basis)]
         ELSE [layout |-> dash.layout, mine |-> {}, basis |-> dash.basis]

\* The grid library reports one entry per child, that is per held widget, and
\* places a child it has no entry for by itself.
GridReport(layout, w, p) ==
    [i \in dash.widgets |->
        IF i = w THEN p ELSE IF i \in DOMAIN layout THEN layout[i] ELSE 0]

\* The top of the drain's loop: send the pending layout with the version held
\* now, or release the flag.
Continue(i, d, p) ==
    /\ calls' = [calls EXCEPT ![i] = IF p # None /\ d # None
                                     THEN Put(p, d.version) ELSE Done]
    /\ saving' = (p # None /\ d # None)
    /\ pending' = None

\* return from the current session's drain
Leave(i) == /\ calls' = [calls EXCEPT ![i] = Done]
            /\ saving' = FALSE
            /\ pending' = None

LeaveLateReleasing(i) == /\ calls' = [calls EXCEPT ![i] = Done]
                         /\ saving' = FALSE

\* finally: a drain of an earlier session leaves the flag alone.
LeaveLate(i) == /\ calls' = [calls EXCEPT ![i] = Done]
                /\ UNCHANGED saving

\* handleLayoutStop and saveLayout: the gesture coalesces into a running drain
\* or becomes one.
Drag(w) ==
    /\ Len(calls) < MaxDrags
    /\ dash # None
    /\ w \in dash.widgets
    /\ LET layout == GridReport(Shown.layout, w, Len(calls) + 1)
           job == [layout |-> layout, retried |-> FALSE, basis |-> Shown.basis,
                   mine |-> Shown.mine \cup {w}]
       IN  /\ draft' = [layout |-> layout, base |-> dash.version, mine |-> job.mine,
                        basis |-> job.basis]
           /\ calls' = Append(calls, IF saving THEN Done ELSE Put(job, dash.version))
           /\ pending' = IF saving THEN job ELSE None
    /\ saving' = TRUE
    /\ UNCHANGED <<srv, born, tx, frames, user, gen, dash, wop, load, due, conflict,
                   spent, harm, gaps>>

\* What an accepted save does to entries its author did not drag, and how the
\* save came to carry the version it was accepted with.
Provenance(c) == IF c.job.retried THEN "rebase"
                 ELSE IF c.job.basis # c.sent THEN "mixed" ELSE "fresh"
Reverted(c) == {i \in (DOMAIN c.job.layout \cap DOMAIN srv.layout) \ c.job.mine :
                    c.job.layout[i] # srv.layout[i]}
Stripped(c) == (DOMAIN srv.layout \cap srv.widgets) \ DOMAIN c.job.layout
Revived(c) == DOMAIN c.job.layout \ (srv.widgets \cup DOMAIN srv.layout)
Damage(c) == {x \in {<<"reverted", Reverted(c)>>, <<"stripped", Stripped(c)>>,
                     <<"revived", Revived(c)>>} : x[2] # {}}

\* update_layout under the row lock
ServerPut(i) ==
    /\ calls[i].pc = "put"
    /\ LET c == calls[i] IN
       IF VersionMatches(srv, c.sent)
       THEN /\ srv' = Saved(srv, c.job.layout)
            /\ Emit("layout", None, srv'.version, c.user, TRUE)
            /\ calls' = [calls EXCEPT ![i].pc = "committed"]
            /\ harm' = harm \cup {<<x[1], Provenance(c)>> : x \in Damage(c)}
       ELSE /\ calls' = [calls EXCEPT ![i].pc = "reply", ![i].reply = ConflictReply]
            /\ UNCHANGED <<srv, frames, harm>>
    /\ UNCHANGED <<born, tx, user, gen, dash, draft, pending, saving, wop, load, due,
                   conflict, spent, gaps>>

\* update_layout, after its commit: the row is read again for the response.
ServerRespond(i) ==
    /\ calls[i].pc = "committed"
    /\ calls' = [calls EXCEPT ![i].pc = "row", ![i].reply = BoardReply]
    /\ UNCHANGED <<srv, born, tx, frames, user, gen, dash, draft, pending, saving, wop,
                   load, due, conflict, spent, harm, gaps>>

\* The widgets of a save's response, or of the board a rebase reads.
SaveWidgetsRead(i) ==
    /\ calls[i].pc \in {"row", "getrow"}
    /\ calls' = [calls EXCEPT ![i].pc = IF calls[i].pc = "row" THEN "reply" ELSE "got",
                              ![i].reply = WidgetsRead(calls[i].reply)]
    /\ TornGap(calls[i].reply)
    /\ UNCHANGED <<srv, born, tx, frames, user, gen, dash, draft, pending, saving, wop,
                   load, due, conflict, spent, harm>>

\* A refused or unreachable request, or a response lost after the commit.
PutFails(i) ==
    /\ calls[i].pc \in {"put", "committed"}
    /\ Fails
    /\ calls' = [calls EXCEPT ![i].pc = "reply", ![i].reply = ErrorReply]
    /\ gaps' = IF calls[i].pc = "committed" THEN gaps \cup {"lost"} ELSE gaps
    /\ UNCHANGED <<srv, born, tx, frames, user, gen, dash, draft, pending, saving, wop,
                   load, due, conflict, harm>>

\* The boards read for this tab, as far as they are, and not yet applied
Answers == {r \in {load.reply, wop.reply} \cup {calls[i].reply : i \in DOMAIN calls} :
                r # None /\ r.kind = "board"}

Older(b) == dash # None /\ b.version < dash.version

\* saveLayout: the save was accepted.  The widgets held are kept.
SaveAccepted(i) ==
    /\ calls[i].pc = "reply" /\ calls[i].gen = gen /\ calls[i].reply.kind = "board"
    /\ LET b == calls[i].reply.board
           d == IF dash = None THEN Held(b)
                ELSE [Held(b) EXCEPT !.widgets = dash.widgets,
                                     !.basis = IF dash.widgets = b.widgets THEN @
                                               ELSE Earlier(@, dash.basis)]
       IN  /\ dash' = d
           /\ gaps' = IF Older(b) THEN gaps \cup {"overtaken"} ELSE gaps
           /\ Continue(i, d, pending)
    /\ conflict' = FALSE
    /\ UNCHANGED <<srv, born, tx, frames, user, gen, draft, wop, load, due, spent, harm>>

\* saveLayout: the first conflict re-reads, the second shows the banner and
\* drops whatever was pending.
SaveConflicts(i) ==
    /\ calls[i].pc = "reply" /\ calls[i].gen = gen /\ calls[i].reply.kind = "conflict"
    /\ \/ /\ ~calls[i].job.retried
          /\ calls' = [calls EXCEPT ![i].pc = "get", ![i].reply = None]
          /\ UNCHANGED <<pending, saving, conflict>>
       \/ /\ calls[i].job.retried
          /\ Leave(i)
          /\ conflict' = TRUE
    /\ UNCHANGED <<srv, born, tx, frames, user, gen, dash, draft, wop, load, due, spent,
                   harm, gaps>>

\* saveLayout, catch: the toast, and the pending layout is dropped.
SaveFails(i) ==
    /\ calls[i].pc = "reply" /\ calls[i].gen = gen /\ calls[i].reply.kind = "error"
    /\ Leave(i)
    /\ UNCHANGED <<srv, born, tx, frames, user, gen, dash, draft, wop, load, due,
                   conflict, spent, harm, gaps>>

\* An answer that arrives after the session ended.  The catch branch has no
\* guard: it clears pendingLayoutSave whoever it belongs to.
SaveLate(i) ==
    /\ calls[i].pc \in {"reply", "got"} /\ calls[i].gen # gen
    /\ LeaveLate(i)
    /\ gaps' = IF calls[i].reply.kind = "board" /\ calls[i].pc = "reply" /\ calls[i].user = user
               THEN gaps \cup {"guarded"} ELSE gaps
    /\ pending' = IF calls[i].pc = "reply" /\ calls[i].reply.kind = "error"
                  THEN None ELSE pending
    /\ UNCHANGED <<srv, born, tx, frames, user, gen, dash, draft, wop, load, due,
                   conflict, spent, harm>>

\* rebaseLayout: the GET.
RebaseReads(i) ==
    /\ calls[i].pc = "get"
    /\ \/ /\ calls' = [calls EXCEPT ![i].pc = "getrow", ![i].reply = BoardReply]
          /\ UNCHANGED spent
       \/ /\ Fails
          /\ calls' = [calls EXCEPT ![i].pc = "got", ![i].reply = ErrorReply]
    /\ UNCHANGED <<srv, born, tx, frames, user, gen, dash, draft, pending, saving, wop,
                   load, due, conflict, harm, gaps>>

\* saveLayout, after rebaseLayout: the version is taken over, the layout is not;
\* a drag that landed meanwhile supersedes the merge.
Rebased(i) ==
    /\ calls[i].pc = "got" /\ calls[i].gen = gen
    /\ LET c == calls[i] IN
       \/ /\ c.reply.kind = "error"
          /\ Leave(i)
          /\ conflict' = TRUE
          /\ UNCHANGED <<dash, gaps>>
       \/ /\ c.reply.kind = "board"
          /\ LET b == c.reply.board
                 d == IF dash = None THEN None ELSE [dash EXCEPT !.version = b.version]
                 merged == [layout |-> RebaseLayout(b.layout, c.job.layout),
                            retried |-> TRUE, basis |-> b.version, mine |-> c.job.mine]
             IN  /\ dash' = d
                 /\ gaps' = IF Older(b) THEN gaps \cup {"overtaken"} ELSE gaps
                 /\ Continue(i, d, IF pending # None THEN pending ELSE merged)
          /\ UNCHANGED conflict
    /\ UNCHANGED <<srv, born, tx, frames, user, gen, draft, wop, load, due, spent, harm>>

-----------------------------------------------------------------------------
(* The tab's own widget additions and removals *)

Own == /\ spent.own < MaxOwn
       /\ spent' = [spent EXCEPT !.own = @ + 1]

Request(kind, w) == [pc |-> "sent", gen |-> gen, user |-> user, kind |-> kind, w |-> w,
                     reply |-> None]

\* addWidget and removeWidget, up to the await
AddWidget(w) ==
    /\ Own
    /\ wop.pc = "idle" /\ dash # None /\ w \in Widgets \ born
    /\ wop' = Request("add", w)
    /\ born' = born \cup {w}
    /\ UNCHANGED <<srv, tx, frames, user, gen, dash, draft, pending, saving, calls, load,
                   due, conflict, harm, gaps>>

RemoveWidget(w) ==
    /\ Own
    /\ wop.pc = "idle" /\ dash # None /\ w \in dash.widgets
    /\ wop' = Request("remove", w)
    /\ UNCHANGED <<srv, born, tx, frames, user, gen, dash, draft, pending, saving, calls,
                   load, due, conflict, harm, gaps>>

\* add_widget and delete_widget under the row lock; a widget that is gone is a 404.
ServerWidget ==
    /\ wop.pc = "sent"
    /\ \/ /\ wop.kind = "remove" /\ wop.w \notin srv.widgets
          /\ wop' = [wop EXCEPT !.pc = "reply", !.reply = ErrorReply]
          /\ UNCHANGED <<srv, frames>>
       \/ /\ wop.kind = "add" \/ wop.w \in srv.widgets
          /\ srv' = IF wop.kind = "add" THEN Added(srv, wop.w) ELSE Removed(srv, wop.w)
          /\ Emit("widgets", wop.w, srv'.version, wop.user, TRUE)
          /\ wop' = [wop EXCEPT !.pc = "committed"]
    /\ UNCHANGED <<born, tx, user, gen, dash, draft, pending, saving, calls, load, due,
                   conflict, spent, harm, gaps>>

WidgetResponds ==
    /\ wop.pc = "committed"
    /\ wop' = [wop EXCEPT !.pc = "row", !.reply = BoardReply]
    /\ UNCHANGED <<srv, born, tx, frames, user, gen, dash, draft, pending, saving, calls,
                   load, due, conflict, spent, harm, gaps>>

WidgetWidgetsRead ==
    /\ wop.pc = "row"
    /\ wop' = [wop EXCEPT !.pc = "reply", !.reply = WidgetsRead(wop.reply)]
    /\ TornGap(wop.reply)
    /\ UNCHANGED <<srv, born, tx, frames, user, gen, dash, draft, pending, saving, calls,
                   load, due, conflict, spent, harm>>

\* Refused (quota, no free slot, access), or lost after the commit
WidgetFails ==
    /\ wop.pc \in {"sent", "committed"}
    /\ Fails
    /\ wop' = [wop EXCEPT !.pc = "reply", !.reply = ErrorReply]
    /\ gaps' = IF wop.pc = "committed" THEN gaps \cup {"lost"} ELSE gaps
    /\ UNCHANGED <<srv, born, tx, frames, user, gen, dash, draft, pending, saving, calls,
                   load, due, conflict, harm>>

\* addWidget and removeWidget, after the await: the answer replaces the board.
WidgetAnswered ==
    /\ wop.pc = "reply"
    /\ wop' = [wop EXCEPT !.pc = "idle", !.reply = None]
    /\ IF wop.gen = gen /\ wop.reply.kind = "board"
       THEN /\ dash' = Held(wop.reply.board)
            /\ gaps' = IF Older(wop.reply.board) THEN gaps \cup {"overtaken"} ELSE gaps
       ELSE /\ gaps' = IF wop.reply.kind = "board" /\ wop.user = user
                       THEN gaps \cup {"guarded"} ELSE gaps
            /\ UNCHANGED dash
    /\ UNCHANGED <<srv, born, tx, frames, user, gen, draft, pending, saving, calls, load,
                   due, conflict, spent, harm>>

-----------------------------------------------------------------------------
(* Frames, refreshes, the banner and the session boundary *)

\* isOwnFrame
IsOwnFrame(f) == f.mine /\ f.actor = user

SkipsNothingNewer(f) ==
    \/ IsOwnFrame(f)
    \/ dash.version >= f.version - 1

\* handleDashboardEvent: a frame is skipped as this tab's own echo, or as a
\* layout the held version already includes; any other frame owes a reload.
Skips(f) ==
    \/ IsOwnFrame(f)
    \/ f.kind = "layout" /\ dash.version >= f.version

\* handleContentEvent: the list's widget leaves the held board, which counts
\* the version up by itself.
DropResource(d, w) ==
    IF w \in d.widgets
    THEN [d EXCEPT !.widgets = @ \ {w}, !.layout = Without(@, w), !.version = @ + 1]
    ELSE d

DeliverFrame ==
    /\ frames # <<>>
    /\ frames' = Tail(frames)
    /\ LET f == Head(frames) IN
       \/ /\ f.kind = "list"
          /\ dash' = IF dash = None THEN None ELSE DropResource(dash, f.w)
          /\ UNCHANGED due
       \/ /\ f.kind \in {"layout", "widgets"}
          /\ due' = (due \/ (dash # None /\ ~Skips(f)))
          /\ UNCHANGED dash
    /\ gaps' = gaps \cup (IF dash = None THEN {"unheld"} ELSE {})
                    \cup (IF Head(frames).kind = "list" /\ Answers # {} THEN {"overtaken"}
                          ELSE {})
    /\ UNCHANGED <<srv, born, tx, user, gen, draft, pending, saving, calls, wop, load,
                   conflict, spent, harm>>

\* Mutant: a load under way serves whoever asks for another.
StartLoadOnce == IF load.pc = "idle" THEN [load EXCEPT !.pc = "sent"] ELSE load

\* loadDashboard: a load under way is followed by another, otherwise one starts.
StartLoad == IF load.pc = "idle" THEN [load EXCEPT !.pc = "sent"]
             ELSE [load EXCEPT !.queued = TRUE]

\* The debounced refresh fires.
Refresh ==
    /\ due
    /\ due' = FALSE
    /\ load' = StartLoad
    /\ UNCHANGED <<srv, born, tx, frames, user, gen, dash, draft, pending, saving, calls,
                   wop, conflict, spent, harm, gaps>>

\* The editor page opens the board.
Open ==
    /\ dash = None /\ load.pc = "idle"
    /\ load' = StartLoad
    /\ UNCHANGED <<srv, born, tx, frames, user, gen, dash, draft, pending, saving, calls,
                   wop, due, conflict, spent, harm, gaps>>

\* get_dashboard: the row, then the widgets.
LoadReads ==
    /\ load.pc = "sent"
    /\ \/ /\ load' = [load EXCEPT !.pc = "row", !.reply = BoardReply]
          /\ UNCHANGED <<spent, gaps>>
       \/ /\ Fails
          /\ load' = [load EXCEPT !.pc = "reply", !.reply = ErrorReply]
          /\ gaps' = gaps \cup {"unread"}
    /\ UNCHANGED <<srv, born, tx, frames, user, gen, dash, draft, pending, saving, calls,
                   wop, due, conflict, harm>>

LoadWidgetsRead ==
    /\ load.pc = "row"
    /\ load' = [load EXCEPT !.pc = "reply", !.reply = WidgetsRead(load.reply)]
    /\ TornGap(load.reply)
    /\ UNCHANGED <<srv, born, tx, frames, user, gen, dash, draft, pending, saving, calls,
                   wop, due, conflict, spent, harm>>

\* loadDashboard, after the await: the board is replaced whatever it held, a
\* failure keeps it, and a request queued meanwhile is sent.
Loaded ==
    /\ load.pc = "reply"
    /\ load' = [pc |-> IF load.queued THEN "sent" ELSE "idle", reply |-> None,
                queued |-> FALSE]
    /\ IF load.reply.kind = "board"
       THEN /\ dash' = Held(load.reply.board)
            /\ conflict' = FALSE
            /\ gaps' = IF Older(load.reply.board) THEN gaps \cup {"overtaken"} ELSE gaps
       ELSE UNCHANGED <<dash, conflict, gaps>>
    /\ UNCHANGED <<srv, born, tx, frames, user, gen, draft, pending, saving, calls, wop,
                   due, spent, harm>>

\* resolveConflict: the banner is cleared first, so a connected tab's
\* loadDashboard returns without a GET unless one is under way.
ResolveConflict ==
    /\ conflict /\ dash # None
    /\ conflict' = FALSE
    /\ load' = IF load.pc = "idle" THEN load ELSE StartLoad
    /\ UNCHANGED <<srv, born, tx, frames, user, gen, dash, draft, pending, saving, calls,
                   wop, due, spent, harm, gaps>>

\* resetDashboardData, and a sign-in at the same tab: requests under way stay so.
Reset(u) ==
    /\ gen < MaxSessions
    /\ gen' = gen + 1
    /\ user' = u
    /\ dash' = None /\ draft' = None
    /\ pending' = None /\ saving' = FALSE
    /\ load' = [pc |-> "idle", reply |-> None, queued |-> FALSE]
    /\ due' = FALSE /\ conflict' = FALSE
    /\ frames' = <<>>
    /\ UNCHANGED <<srv, born, tx, calls, wop, spent, harm, gaps>>

-----------------------------------------------------------------------------
Active(i) == calls[i].pc # "done"

\* Nothing is under way that could still change what the tab holds.
Settled ==
    /\ frames = <<>> /\ ~due /\ load.pc = "idle" /\ wop.pc = "idle" /\ tx = None
    /\ dash # None
    /\ \A i \in DOMAIN calls : ~Active(i)

Rest == Settled /\ UNCHANGED vars

SaveStep(i) ==
    \/ ServerPut(i) \/ ServerRespond(i) \/ SaveWidgetsRead(i) \/ PutFails(i)
    \/ SaveAccepted(i) \/ SaveConflicts(i) \/ SaveFails(i) \/ SaveLate(i)
    \/ RebaseReads(i) \/ Rebased(i)

Next ==
    \/ \E w \in Widgets :
        \/ Drag(w) \/ AddWidget(w) \/ RemoveWidget(w)
        \/ ForeignMove(w) \/ ForeignAdd(w) \/ ForeignRemove(w) \/ ListDeleteLoads(w)
    \/ ListDeleteCommits
    \/ \E i \in DOMAIN calls : SaveStep(i)
    \/ ServerWidget \/ WidgetResponds \/ WidgetWidgetsRead \/ WidgetFails \/ WidgetAnswered
    \/ DeliverFrame \/ Refresh \/ Open \/ LoadReads \/ LoadWidgetsRead \/ Loaded
    \/ ResolveConflict
    \/ \E u \in Users : Reset(u)
    \/ Rest

Spec == Init /\ [][Next]_vars

-----------------------------------------------------------------------------
(* Properties *)

Boards == [widgets : SUBSET Widgets, layout : Layouts, version : Nat]
Replies == [kind : {"error", "conflict"}] \cup [kind : {"board"}, board : Boards]
Jobs == [layout : Layouts, retried : BOOLEAN, basis : Nat, mine : SUBSET Widgets]
Gaps == {"raced", "lost", "overtaken", "unread", "unheld", "guarded", "torn"}

\* Every variable keeps its shape: the row, the tab's copy of it, the requests
\* under way and the budgets.
TypeOK ==
    /\ srv \in Boards
    /\ born \subseteq Widgets
    /\ tx # None => tx.w \in ListWidgets /\ tx.layout \in Layouts /\ tx.version \in Nat
    /\ user \in Users /\ gen \in 1..MaxSessions
    /\ dash # None => Board(dash) \in Boards /\ dash.basis \in Nat
    /\ pending \in Jobs \cup {None}
    /\ {saving, due, conflict, load.queued} \subseteq BOOLEAN
    /\ \A i \in DOMAIN calls :
        /\ calls[i].pc \in {"put", "committed", "row", "reply", "get", "getrow", "got", "done"}
        /\ calls[i].job \in Jobs \cup {None}
        /\ calls[i].reply \in Replies \cup {None}
    /\ wop.pc \in {"idle", "sent", "committed", "row", "reply"}
    /\ wop.reply \in Replies \cup {None}
    /\ load.pc \in {"idle", "sent", "row", "reply"}
    /\ load.reply \in Replies \cup {None}
    /\ gaps \subseteq Gaps

CurrentDrains == {i \in DOMAIN calls : Active(i) /\ calls[i].gen = gen}

\* saveLayout's serialization survives failures, conflicts and sign-ins: the
\* flag is up exactly while one drain of this session is under way, and a
\* pending layout always has a drain that will pick it up.
SavesSerialized ==
    /\ Cardinality(CurrentDrains) = IF saving THEN 1 ELSE 0
    /\ pending # None => saving

\* The optimistic check of update_layout works for every save whose layout was
\* drawn on the version it is sent with: such a save never moves, strips or
\* revives an entry its author did not drag, unless a list deletion has reused
\* a version.
FreshSavesHarmless ==
    "raced" \notin gaps => \A h \in harm : h[2] # "fresh"

\* rebaseLayout's merge keeps the slots of widgets the other editor added: a
\* replayed drag never strips one, unless a list deletion has reused a version.
MergeKeepsAdded ==
    "raced" \notin gaps => <<"stripped", "rebase">> \notin harm

\* A version names one content: a board read earlier whose version is still the
\* row's version is still what the row holds.  This is what lets a client tell
\* from the version alone that it is up to date.
OneContentPerVersion ==
    \A r \in Answers : r.board.version = srv.version => r.board = Board(srv)

\* The same, as long as no list deletion wrote over a row that moved under it.
VersionNamesContent == "raced" \notin gaps => OneContentPerVersion

Current == dash.layout = srv.layout /\ dash.widgets = srv.widgets

\* A settled tab shows what the server stores, unless one of the events in gaps
\* happened, the version was taken over without its layout, or the tab counted
\* a version up by itself.
SettledOrGap ==
    Settled /\ ~conflict /\ gaps = {} /\ dash.basis = dash.version => Current

\* The version of a dashboard row is a name for its content, on the server and
\* in every board on its way to the client, until a list deletion overtakes a
\* row that moved under it.
VersionsSound == TypeOK /\ VersionNamesContent

\* What the editor's saves (saveLayout, rebaseLayout) may do to the other
\* editor's work: a save drawn on the version it names does no harm, and a
\* replayed one keeps what the other editor added.
SavesHarmless == FreshSavesHarmless /\ MergeKeepsAdded

\* Across a sign-in (resetDashboardData), each session has at most one drain,
\* every pending layout has one (saveLayout), and the frames of the previous
\* user are not taken for this one's echoes: a settled tab is still current.
SessionsSettle == SavesSerialized /\ SettledOrGap
=============================================================================
