---------------------------- MODULE CalendarPage ----------------------------
(***************************************************************************)
(* The readers and writers of the occurrence cache.  Readers: the calendar *)
(* page (CalendarPage.tsx), which shows one month of one dashboard, or the *)
(* calendar and agenda tiles of the board, which look ahead from today.    *)
(* Writers: the page's event editor, cards and trash panel, through        *)
(* resources/calendarData.ts, which also keeps the details of single       *)
(* events; and other people, whose writes come as frames of the stream     *)
(* (own echoes are dropped).  The server is routers/calendar.py.           *)
(*                                                                         *)
(* A request is served at one moment and its answer applied at a later     *)
(* one, and a write checks what it has read and commits later; what the    *)
(* readers show in between, and what is left when nothing is under way any *)
(* more, is what the properties are about.                                 *)
(***************************************************************************)
EXTENDS OccurrenceStore

CONSTANTS Dashboards,  \* the dashboards of this user, who may edit them
          Board,       \* the one whose board shows the tiles
          Events,      \* the ids of events, those to be created included; integers
          Places,      \* the intervals an event may be scheduled at
          LastMonth,   \* months are 0..LastMonth
          FirstDay, LastDay,  \* of the behaviour
          PageSize,    \* _TRASH_PAGE_SIZE
          Scenarios    \* what a behaviour starts from, and how often it uses each operation

VARIABLES events,  \* server: where each event is, when it was deleted, its last change
          clock,   \* server: the time, which ticks with every change and every deletion noted
          others,  \* server: writes of other people that have read and not committed
          news,    \* frames on their way to this client
          entries, \* the occurrence cache
          wire,    \* its requests, on the network
          view,    \* what is on screen
          editor,  \* editorRequestId, editorLoading, editorSession
          details, \* calendarEventDetails
          gets,    \* requests for details
          calls,   \* own writes under way
          offers,  \* toasts with an Undo
          panel,   \* the trash panel
          pages,   \* its requests
          heard,   \* the last change of each event this client was told of, or never will be
          behind,  \* events whose details an answer left behind that, or behind a deletion
          trayGaps, left

vars == <<events, clock, others, news, entries, wire, view, editor, details, gets, calls, offers, panel, pages,
          heard, behind, trayGaps, left>>
server == <<events, clock, others>>
store == <<entries, wire>>
detailVars == <<details, gets, heard, behind>>
panelVars == <<panel, pages, trayGaps>>

None == 0
Kinds == {"month", "switch", "board", "mode", "night", "retry", "theirs", "resync", "fault",
          "open", "submit", "delete", "undo", "trash", "row"}
ASSUME CalendarPageAssumption ==
  /\ Board \in Dashboards
  /\ Events \subseteq Nat \ {None}
  /\ \A s \in Scenarios : s.left \in [Kinds -> Nat]
Spend(k) == left[k] > 0 /\ left' = [left EXCEPT ![k] = @ - 1]

-----------------------------------------------------------------------------
(* Windows.  A month view begins before its month and ends after it, so two  *)
(* neighbours share days; here a month has 2 days and its window 3.          *)
calendarWindow(m) == Between(2 * m, 2 * m + 3)
MonthOf(day) == day \div 2
getWidgetWindow(mode, day) ==
  CASE mode = "day"   -> Between(day, day + 1)
    [] mode = "week"  -> Between(2 * MonthOf(day), 2 * MonthOf(day) + 2)
    [] mode = "month" -> calendarWindow(MonthOf(day))
agendaWindow(day) == Between(day, day + 2)

Tiles == {"widget", "agenda"}
(* Each reader on screen, with the dashboard and the window it reads.        *)
Reading(v) ==
  IF v.screen = "page" THEN {[by |-> "page", dash |-> v.dash, window |-> calendarWindow(v.month)]}
  ELSE {[by |-> "widget", dash |-> Board, window |-> getWidgetWindow(v.mode, v.day["widget"])],
        [by |-> "agenda", dash |-> Board, window |-> agendaWindow(v.day["agenda"])]}
WindowsOn(readers, d) == {r.window : r \in {s \in readers : s.dash = d}}
Watched(d) == WindowsOn(Reading(view), d)

(* A cache with new requests under way puts them on the network.             *)
Wired(es) ==
  {w \in wire : w.key \in es[w.dash].inFlight} \cup
  UNION {{[dash |-> d, key |-> i, served |-> FALSE, found |-> {}, asOf |-> 0] :
            i \in es[d].inFlight \ {w.key : w \in {x \in wire : x.dash = d}}} : d \in Dashboards}
Store(es) == entries' = es /\ wire' = Wired(entries')

(* The screen changes: readers whose dashboard or window is new ask for it.  *)
Go(v) ==
  /\ view' = v
  /\ Store([d \in Dashboards |->
       useOccurrences(entries[d], WindowsOn(Reading(v) \ Reading(view), d), WindowsOn(Reading(v), d))])

Invalidate(es, d, at) == [es EXCEPT ![d] = reload(@, Watched(d), at)]
GapIn(es, d, g, happened) == [es EXCEPT ![d] = Gap(@, g, happened)]

-----------------------------------------------------------------------------
(* The server.  An event is "none" before it is created; its stamp orders    *)
(* changes, and gone is its deleted_at.                                      *)
Occ(i) == [id |-> i, at |-> events[i].at, stamp |-> events[i].stamp]
list_occurrences(d, w) ==
  {Occ(i) : i \in {j \in Events : /\ events[j].state = "live" /\ events[j].dash = d
                                  /\ overlaps(events[j].at, w)}}

Older(a, b) == a.gone < b.gone \/ (a.gone = b.gone /\ a.id < b.id)
Cursor(i) == [gone |-> events[i].gone, id |-> i]
TrashOf(d) == SetToSortSeq({i \in Events : events[i].state = "trash" /\ events[i].dash = d},
                           LAMBDA i, j : Older(Cursor(j), Cursor(i)))
NoCursor == [gone |-> 0, id |-> None]
AfterOrAt(cursor, i) == cursor = NoCursor \/ ~Older(cursor, Cursor(i))
After(cursor, i) == cursor = NoCursor \/ Older(Cursor(i), cursor)
(* One row more than a page is read, to tell whether there is a next one.    *)
event_trash(d, cursor) ==
  LET rows == SelectSeq(TrashOf(d), LAMBDA i : After(cursor, i))
      page == SubSeq(rows, 1, Min({PageSize, Len(rows)}))
  IN [rows |-> page, next |-> IF Len(rows) > PageSize THEN Cursor(Last(page)) ELSE NoCursor]

(* A write finds its event live or in the trash, and reads it without a lock. *)
(* was: the interval read; gone: the deleted_at noted.                       *)
Fresh == {i \in Events : events[i].state = "none" /\ \A t \in calls \cup others : t.id # i}
Allowed(t) ==
  t.op # "create" => events[t.id].state = IF t.op \in {"restore", "purge"} THEN "trash" ELSE "live"
Read(t) == [t EXCEPT !.status = "loaded", !.was = events[t.id].at,
                     !.gone = IF t.op = "delete" THEN clock + 1 ELSE 0]
Reads(t) == /\ Allowed(t)
            /\ clock' = IF t.op = "delete" THEN clock + 1 ELSE clock
            /\ UNCHANGED events

(* It commits what it has changed, wherever the event is by now, unless the  *)
(* event is gone (StaleDataError).  A purge then finds nothing to do.        *)
Stale(t) == events[t.id].state = "purged" /\ t.op # "purge"
Written(t) ==
  [events[t.id] EXCEPT
     !.state = CASE t.op \in {"create", "restore"} -> "live"
                 [] t.op = "delete" -> "trash"
                 [] t.op = "purge" -> "purged"
                 [] t.op = "update" -> @,
     !.dash = IF t.op = "create" THEN t.dash ELSE @,
     !.at = IF t.op = "create" \/ (t.op = "update" /\ t.at # t.was) THEN t.at ELSE @,
     !.gone = IF t.op = "update" THEN @ ELSE t.gone,
     !.stamp = clock + 1]
Write(t) ==
  /\ ~Stale(t)
  /\ events' = [events EXCEPT ![t.id] = Written(t)]
  /\ clock' = clock + 1
(* A purge deletes an event restored since, and tells nobody.                *)
PurgesLive(t) == t.op = "purge" /\ events[t.id].state = "live"
Untold(t) ==
  /\ entries' = GapIn(entries, events[t.id].dash, "purged", PurgesLive(t))
  /\ heard' = IF PurgesLive(t) THEN [heard EXCEPT ![t.id] = clock + 1] ELSE heard
  /\ behind' = IF PurgesLive(t) THEN behind \cup {t.id} ELSE behind
  /\ UNCHANGED <<wire, details, gets>>
(* The trash panel hears of nothing but its own restores and purges.         *)
TrashMoves(op, own) ==
  IF panel.open /\ op \in {"delete", "restore", "purge"} /\ ~(own /\ pages = {})
  THEN trayGaps \cup {"moved"} ELSE trayGaps

-----------------------------------------------------------------------------
NoSession == [key |-> 0, id |-> None, submitting |-> FALSE]
ClosedEditor(n) == [request |-> n, loading |-> FALSE, session |-> NoSession]
ClosedPanel == [open |-> FALSE, known |-> FALSE, rows |-> <<>>, failed |-> FALSE, next |-> NoCursor,
                more |-> FALSE, busy |-> None]
NoDetails == [id |-> None]

Init ==
  \E s \in Scenarios :
    /\ events = s.events
    /\ left = s.left
    /\ view = [screen |-> s.screen, dash |-> Board, month |-> MonthOf(FirstDay), mode |-> "month",
               day |-> [t \in Tiles |-> FirstDay]]
    /\ entries = [d \in Dashboards |-> useOccurrences(NewEntry, Watched(d), Watched(d))]
    /\ wire = {[dash |-> d, key |-> i, served |-> FALSE, found |-> {}, asOf |-> 0] :
                 d \in {Board}, i \in entries[Board].inFlight}
    /\ clock = 0
    /\ others = {}
    /\ news = <<>>
    /\ editor = ClosedEditor(0)
    /\ details = [i \in Events |-> NoDetails]
    /\ gets = {}
    /\ calls = {}
    /\ offers = {}
    /\ panel = ClosedPanel
    /\ pages = {}
    /\ heard = [i \in Events |-> 0]
    /\ behind = {}
    /\ trayGaps = {}

-----------------------------------------------------------------------------
(* The occurrence requests.                                                  *)
Served(w) == [w EXCEPT !.served = TRUE, !.found = list_occurrences(w.dash, w.key), !.asOf = clock]
Serve(w) ==
  /\ ~w.served
  /\ wire' = (wire \ {w}) \cup {Served(w)}
  /\ UNCHANGED <<server, news, entries, view, editor, detailVars, calls, offers, panelVars, left>>
Land(w) ==
  /\ w.served
  /\ Store([entries EXCEPT ![w.dash] = Landed(@, w, Watched(w.dash))])
  /\ UNCHANGED <<server, news, view, editor, detailVars, calls, offers, panelVars, left>>
FailFetch(w) ==
  /\ Spend("fault")
  /\ Store([entries EXCEPT ![w.dash] = Failed(@, w)])
  /\ UNCHANGED <<server, news, view, editor, detailVars, calls, offers, panelVars>>

-----------------------------------------------------------------------------
(* The screen.  An open editor is modal: the page behind it takes no input.  *)
EditorUp == editor.loading \/ editor.session # NoSession
OnPage == view.screen = "page" /\ ~EditorUp
OnBoard == view.screen = "board"

Today == Max({view.day[t] : t \in Tiles})
(* Previous, next, and Today.                                                *)
setMonthCursor ==
  /\ OnPage
  /\ Spend("month")
  /\ \E m \in ({view.month - 1, view.month + 1, MonthOf(Today)} \cap 0..LastMonth) \ {view.month} :
       Go([view EXCEPT !.month = m])
  /\ UNCHANGED <<server, news, editor, detailVars, calls, offers, panelVars>>

Requested(d, cursor, more) ==
  [n |-> 1 + Max({0} \cup {p.n : p \in pages}), dash |-> d, after |-> cursor, more |-> more,
   served |-> FALSE, rows |-> <<>>, next |-> NoCursor]

(* An open trash panel stays, with its rows, and loads the new dashboard's.  *)
setActiveDashboardId ==
  /\ OnPage
  /\ Spend("switch")
  /\ \E d \in Dashboards \ {view.dash} :
       /\ Go([view EXCEPT !.dash = d])
       /\ pages' = IF panel.open THEN pages \cup {Requested(d, NoCursor, FALSE)} ELSE pages
  /\ panel' = [panel EXCEPT !.failed = FALSE]
  /\ UNCHANGED <<server, news, editor, detailVars, calls, offers, trayGaps>>

(* Leaving the page unmounts its components: answers no longer reach them.   *)
LeavePage ==
  /\ OnPage
  /\ Spend("board")
  /\ Go([view EXCEPT !.screen = "board"])
  /\ editor' = ClosedEditor(0)
  /\ gets' = {[g EXCEPT !.openers = {}] : g \in gets}
  /\ calls' = {[c EXCEPT !.key = 0, !.row = FALSE] : c \in calls}
  /\ panel' = ClosedPanel
  /\ pages' = {}
  /\ UNCHANGED <<server, news, details, heard, behind, offers, trayGaps>>
OpenPage ==
  /\ OnBoard
  /\ Spend("board")
  /\ Go([view EXCEPT !.screen = "page", !.dash = Board, !.month = MonthOf(Today)])
  /\ UNCHANGED <<server, news, editor, detailVars, calls, offers, panelVars>>

(* The tabs are there only when the tile shows its calendar.                 *)
handleViewChange ==
  /\ OnBoard
  /\ ~entries[Board].error
  /\ ~entries[Board].loading
  /\ Spend("mode")
  /\ \E m \in {"day", "week", "month"} \ {view.mode} : Go([view EXCEPT !.mode = m])
  /\ UNCHANGED <<server, news, editor, detailVars, calls, offers, panelVars>>
(* Midnight: each tile has a timer of its own.                               *)
useLocalDay ==
  /\ OnBoard
  /\ Spend("night")
  /\ \E t \in Tiles : view.day[t] < LastDay /\ Go([view EXCEPT !.day[t] = @ + 1])
  /\ UNCHANGED <<server, news, editor, detailVars, calls, offers, panelVars>>

Retry ==
  /\ ~EditorUp
  /\ Spend("retry")
  /\ \E r \in Reading(view) :
       /\ entries[r.dash].error
       /\ Store([entries EXCEPT ![r.dash] = refetch(@, r.window, Watched(r.dash))])
  /\ UNCHANGED <<server, news, view, editor, detailVars, calls, offers, panelVars>>

-----------------------------------------------------------------------------
(* The stream: frames of other people's writes, and a resync, which stands   *)
(* for the frames that were lost.                                            *)
SetDetails(i, body) ==
  /\ details' = [details EXCEPT ![i] = body]
  /\ behind' = IF body # NoDetails /\ body.stamp < heard'[i] THEN behind \cup {i} ELSE behind \ {i}
Unlisted(i) == {IF g.id = i THEN [g EXCEPT !.listed = FALSE] ELSE g : g \in gets}
invalidateCalendarEvent(i, at) ==
  /\ heard' = [heard EXCEPT ![i] = Max({@, at})]
  /\ SetDetails(i, NoDetails)
  /\ gets' = Unlisted(i)

Theirs ==
  /\ Spend("theirs")
  /\ \E op \in {"create", "update", "delete", "restore", "purge"}, i \in Events, at \in Places,
        d \in Dashboards :
       /\ op = "create" => i \in Fresh
       /\ op \in {"create", "update"} \/ at = events[i].at
       /\ op = "update" => at # events[i].at
       /\ op = "create" \/ d = events[i].dash
       /\ LET t == [op |-> op, id |-> i, dash |-> d, at |-> at, was |-> at, gone |-> 0, status |-> "sent"]
          IN Reads(t) /\ others' = others \cup {Read(t)}
  /\ UNCHANGED <<news, store, view, editor, detailVars, calls, offers, panelVars>>
TheirCommit(t) ==
  /\ Write(t)
  /\ Untold(t)
  /\ others' = others \ {t}
  /\ news' = IF t.op = "purge" THEN news ELSE Append(news, [id |-> t.id, dash |-> t.dash, at |-> clock + 1])
  /\ trayGaps' = TrashMoves(t.op, FALSE)
  /\ UNCHANGED <<view, editor, calls, offers, panel, pages, left>>
TheirLoss(t) ==
  /\ Stale(t)
  /\ others' = others \ {t}
  /\ UNCHANGED <<events, clock, news, store, view, editor, detailVars, calls, offers, panelVars, left>>
handleCalendarResourceEvent ==
  /\ news # <<>>
  /\ news' = Tail(news)
  /\ LET f == Head(news)
     IN /\ invalidateCalendarEvent(f.id, f.at)
        /\ Store(Invalidate(entries, f.dash, f.at))
  /\ UNCHANGED <<server, view, editor, calls, offers, panelVars, left>>
resync ==
  /\ Spend("resync")
  /\ news' = <<>>
  /\ Store([d \in Dashboards |-> reload(entries[d], Watched(d), clock)])
  /\ details' = [i \in Events |-> NoDetails]
  /\ heard' = [i \in Events |-> events[i].stamp]
  /\ behind' = {}
  /\ gets' = {[g EXCEPT !.listed = FALSE] : g \in gets}
  /\ UNCHANGED <<server, view, editor, calls, offers, panelVars>>

-----------------------------------------------------------------------------
(* The editor.                                                               *)
Session(n, i) == [key |-> n, id |-> i, submitting |-> FALSE]
OpenWith(n, i) == [request |-> n, loading |-> FALSE, session |-> Session(n, i)]
ShutPanel == /\ panel' = ClosedPanel
             /\ pages' = {}
             /\ calls' = {[c EXCEPT !.row = FALSE] : c \in calls}

openCreateEditor ==
  /\ OnPage
  /\ Spend("open")
  /\ ShutPanel
  /\ editor' = OpenWith(editor.request + 1, None)
  /\ UNCHANGED <<server, news, store, view, detailVars, offers, trayGaps>>

(* The card of an event the month shows.                                     *)
CardOf(i) == /\ OnPage
             /\ ~panel.open
             /\ \E o \in dataIn(entries[view.dash], calendarWindow(view.month)) : o.id = i
(* getCalendarEvent: held, being fetched, or fetched now.                    *)
openEditEditor(i) ==
  /\ CardOf(i)
  /\ Spend("open")
  /\ LET n == editor.request + 1
         listed == {g \in gets : g.id = i /\ g.listed}
     IN IF details[i] # NoDetails THEN editor' = OpenWith(n, i) /\ UNCHANGED gets
        ELSE /\ editor' = [ClosedEditor(n) EXCEPT !.loading = TRUE]
             /\ gets' = IF listed # {} THEN (gets \ listed) \cup {[g EXCEPT !.openers = @ \cup {n}] : g \in listed}
                        ELSE gets \cup {[id |-> i, openers |-> {n}, served |-> FALSE, found |-> NoDetails, listed |-> TRUE]}
  /\ UNCHANGED <<server, news, store, view, details, heard, behind, calls, offers, panelVars>>

closeEditor ==
  /\ EditorUp
  /\ editor' = ClosedEditor(editor.request + 1)
  /\ UNCHANGED <<server, news, store, view, detailVars, calls, offers, panelVars, left>>

Got(g) == [g EXCEPT !.served = TRUE,
                    !.found = IF events[g.id].state = "live" THEN Occ(g.id) ELSE NoDetails]
get_event(g) ==
  /\ ~g.served
  /\ gets' = (gets \ {g}) \cup {Got(g)}
  /\ UNCHANGED <<server, news, store, view, editor, details, heard, behind, calls, offers, panelVars, left>>
(* `finally` unlists whatever request is listed for the event by now.        *)
GetEnded(g) == gets' = Unlisted(g.id) \ {g, [g EXCEPT !.listed = FALSE]}
WantedEver(g) == g.openers # {}
(* Is the opener that waits still the last one?                              *)
Wanted(g) == editor.request \in g.openers
LandGet(g) ==
  /\ g.served
  /\ g.found # NoDetails
  /\ GetEnded(g)
  /\ UNCHANGED heard
  /\ SetDetails(g.id, g.found)
  /\ IF Wanted(g)
     THEN /\ editor' = [editor EXCEPT !.loading = FALSE, !.session = Session(Max(g.openers), g.id)]
          /\ Go([view EXCEPT !.dash = events[g.id].dash])
     ELSE UNCHANGED <<editor, view, store>>
  /\ UNCHANGED <<server, news, calls, offers, panelVars, left>>
(* Not found, or a request that failed.                                      *)
FailGet(g) ==
  /\ \/ g.served /\ g.found = NoDetails /\ UNCHANGED left
     \/ Spend("fault")
  /\ GetEnded(g)
  /\ editor' = IF Wanted(g) THEN ClosedEditor(editor.request) ELSE editor
  /\ UNCHANGED <<server, news, store, view, details, heard, behind, calls, offers, panelVars>>

-----------------------------------------------------------------------------
(* Own writes: sent, loaded, written (n), read back (body), answered.        *)
(* key: the editor session that submitted it; row: sent by the trash panel;  *)
(* binned: that it was read back in the trash.                               *)
Call(op, i, d, at) == [op |-> op, id |-> i, dash |-> d, at |-> at, was |-> at, gone |-> 0,
                       status |-> "sent", key |-> 0, row |-> FALSE,
                       n |-> 0, body |-> NoDetails, binned |-> FALSE]
Send(c) == c \notin calls /\ calls' = calls \cup {c}

handleEditorSubmit(at) ==
  /\ editor.session # NoSession
  /\ ~editor.session.submitting
  /\ Spend("submit")
  /\ LET mode == IF editor.session.id = None THEN "create" ELSE "update"
         id == IF mode = "create" THEN Min(Fresh) ELSE editor.session.id
     IN /\ mode = "create" => Fresh # {}
        /\ Send([Call(mode, id, IF mode = "create" THEN view.dash ELSE events[id].dash, at)
                   EXCEPT !.key = editor.session.key])
  /\ editor' = [editor EXCEPT !.session.submitting = TRUE]
  /\ UNCHANGED <<server, news, store, view, detailVars, offers, panelVars>>
onDelete(i) ==
  /\ CardOf(i)
  /\ Spend("delete")
  /\ Send(Call("delete", i, view.dash, events[i].at))
  /\ UNCHANGED <<server, news, store, view, editor, detailVars, offers, panelVars>>
Undo(o) ==
  /\ ~EditorUp
  /\ Spend("undo")
  /\ Send(Call("restore", o.id, o.dash, events[o.id].at))
  /\ offers' = offers \ {o}
  /\ UNCHANGED <<server, news, store, view, editor, detailVars, panelVars>>
handleRow(op, i) ==                                  \* handleRestore, handlePurge
  /\ OnPage
  /\ panel.open
  /\ i \in Range(panel.rows)
  /\ panel.busy # i
  /\ Spend("row")
  /\ Send([Call(op, i, view.dash, events[i].at) EXCEPT !.row = TRUE])
  /\ panel' = [panel EXCEPT !.busy = i]
  /\ UNCHANGED <<server, news, store, view, editor, detailVars, offers, pages, trayGaps>>

Becomes(c, next) == calls' = (calls \ {c}) \cup {next}
Load(c) ==
  /\ c.status = "sent"
  /\ Reads(c)
  /\ Becomes(c, Read(c))
  /\ UNCHANGED <<others, news, store, view, editor, detailVars, offers, panelVars, left>>
(* Without an answer to read back, it is done.                               *)
Commit(c) ==
  /\ c.status = "loaded"
  /\ Write(c)
  /\ Untold(c)
  /\ Becomes(c, [c EXCEPT !.n = clock + 1,
                          !.status = IF c.op \in {"delete", "purge"} THEN "done" ELSE "written"])
  /\ trayGaps' = TrashMoves(c.op, c.row)
  /\ UNCHANGED <<others, news, view, editor, offers, panel, pages, left>>
Refresh(c) ==
  /\ c.status = "written"
  /\ events[c.id].state # "purged"
  /\ Becomes(c, [c EXCEPT !.status = "done", !.body = Occ(c.id),
                          !.binned = events[c.id].state = "trash"])
  /\ UNCHANGED <<server, news, store, view, editor, detailVars, offers, panelVars, left>>
(* Not found where it was to be, or gone before the write or the answer.     *)
Reject(c) ==
  /\ \/ c.status = "sent" /\ ~Allowed(c)
     \/ c.status = "loaded" /\ Stale(c)
     \/ c.status = "written" /\ events[c.id].state = "purged"
  /\ Becomes(c, [c EXCEPT !.status = "rejected"])
  /\ UNCHANGED <<server, news, store, view, editor, detailVars, offers, panelVars, left>>

(* The panel's part of an answer: the row goes, and no row is busy.          *)
RowDone(c, gone) ==
  panel' = IF ~c.row THEN panel
           ELSE [panel EXCEPT !.busy = None,
                              !.rows = IF gone THEN SelectSeq(@, LAMBDA i : i # c.id) ELSE @]
(* The caches told of a write are those of the dashboard the caller named.   *)
HeardOf(c) ==
  /\ heard' = [heard EXCEPT ![c.id] = Max({@, c.n})]
  /\ Store(GapIn(Invalidate(entries, c.dash, c.n), events[c.id].dash, "stray", events[c.id].dash # c.dash))

KeepBody(c) ==
  /\ details' = [details EXCEPT ![c.id] = c.body]
  /\ behind' = IF c.binned \/ c.body.stamp < heard'[c.id] THEN behind \cup {c.id} ELSE behind \ {c.id}

saved(c) ==                                          \* createCalendarEvent, updateCalendarEvent
  /\ c.op \in {"create", "update"}
  /\ HeardOf(c)
  /\ KeepBody(c)
  /\ editor' = IF c.key = 0 THEN editor ELSE ClosedEditor(editor.request + 1)
  /\ UNCHANGED <<gets, offers, panel>>
deleteCalendarEvent(c) ==
  /\ c.op = "delete"
  /\ HeardOf(c)
  /\ SetDetails(c.id, NoDetails)
  /\ gets' = Unlisted(c.id)
  /\ offers' = offers \cup {[id |-> c.id, dash |-> c.dash]}
  /\ UNCHANGED <<editor, panel>>
restoreCalendarEvent(c) ==
  /\ c.op = "restore"
  /\ HeardOf(c)
  /\ KeepBody(c)
  /\ RowDone(c, TRUE)
  /\ UNCHANGED <<gets, offers, editor>>
purgeCalendarEvent(c) ==
  /\ c.op = "purge"
  /\ UNCHANGED <<heard, store>>
  /\ SetDetails(c.id, NoDetails)
  /\ RowDone(c, TRUE)
  /\ UNCHANGED <<gets, offers, editor>>
Answer(c) ==
  /\ c.status = "done"
  /\ calls' = calls \ {c}
  /\ saved(c) \/ deleteCalendarEvent(c) \/ restoreCalendarEvent(c) \/ purgeCalendarEvent(c)
  /\ UNCHANGED <<server, news, view, pages, trayGaps, left>>

ClosedAnyway(c) == IF c.key # 0 THEN ClosedEditor(editor.request + 1) ELSE editor
(* Refused, or failed for a reason outside the model, maybe after the commit *)
(* (own echoes being dropped, nothing then tells this client of the write).  *)
StillOpen(c) == IF c.key # 0 /\ editor.session.key = c.key
                THEN [editor EXCEPT !.session.submitting = FALSE] ELSE editor
FailCall(c) ==
  /\ \/ c.status = "rejected" /\ UNCHANGED left
     \/ Spend("fault")
  /\ calls' = calls \ {c}
  /\ editor' = StillOpen(c)
  /\ RowDone(c, FALSE)
  /\ Store(GapIn(entries, events[c.id].dash, "unanswered", c.n > 0))
  /\ heard' = [heard EXCEPT ![c.id] = Max({@, c.n})]
  /\ behind' = IF c.n > 0 THEN behind \cup {c.id} ELSE behind
  /\ trayGaps' = IF c.n > 0 /\ panel.open THEN trayGaps \cup {"moved"} ELSE trayGaps
  /\ UNCHANGED <<server, news, view, details, gets, offers, pages>>

-----------------------------------------------------------------------------
(* The trash panel.                                                          *)
toggleTrash ==
  /\ OnPage
  /\ Spend("trash")
  /\ IF panel.open THEN ShutPanel /\ UNCHANGED trayGaps
     ELSE /\ panel' = [ClosedPanel EXCEPT !.open = TRUE]
          /\ pages' = {Requested(view.dash, NoCursor, FALSE)}
          /\ trayGaps' = {}
          /\ UNCHANGED calls
  /\ UNCHANGED <<server, news, store, view, editor, detailVars, offers>>
(* Try again, once the load has failed.                                      *)
loadAgain ==
  /\ OnPage
  /\ panel.failed
  /\ panel' = [panel EXCEPT !.failed = FALSE]
  /\ pages' = pages \cup {Requested(view.dash, NoCursor, FALSE)}
  /\ UNCHANGED <<server, news, store, view, editor, detailVars, calls, offers, trayGaps, left>>
handleLoadMore ==
  /\ OnPage
  /\ panel.next # NoCursor
  /\ ~panel.failed
  /\ panel.rows # <<>>
  /\ ~panel.more
  /\ panel' = [panel EXCEPT !.more = TRUE]
  /\ pages' = pages \cup {Requested(view.dash, panel.next, TRUE)}
  /\ UNCHANGED <<server, news, store, view, editor, detailVars, calls, offers, trayGaps, left>>

ServePage(p) ==
  /\ ~p.served
  /\ LET page == event_trash(p.dash, p.after)
     IN pages' = (pages \ {p}) \cup {[p EXCEPT !.served = TRUE, !.rows = page.rows, !.next = page.next]}
  /\ UNCHANGED <<server, news, store, view, editor, detailVars, calls, offers, panel, trayGaps, left>>
(* setEntries: a load replaces the rows, an older page is put after them.    *)
RowsWith(p) == IF p.more THEN panel.rows \o p.rows ELSE p.rows
LandPage(p) ==
  /\ p.served
  /\ pages' = pages \ {p}
  /\ panel' = [panel EXCEPT !.known = TRUE, !.rows = RowsWith(p), !.next = p.next,
                            !.more = @ /\ ~p.more]
  /\ trayGaps' = IF p.dash # view.dash \/ (p.more /\ p.after # panel.next) THEN trayGaps \cup {"late"}
                 ELSE IF p.more THEN trayGaps ELSE trayGaps \ {"late"}
  /\ UNCHANGED <<server, news, store, view, editor, detailVars, calls, offers, left>>
FailPage(p) ==
  /\ Spend("fault")
  /\ pages' = pages \ {p}
  /\ panel' = IF p.more THEN [panel EXCEPT !.more = FALSE]
              ELSE [panel EXCEPT !.known = TRUE, !.failed = TRUE, !.rows = <<>>, !.next = NoCursor]
  /\ UNCHANGED <<server, news, store, view, editor, detailVars, calls, offers, trayGaps>>

-----------------------------------------------------------------------------
Fetching == \E w \in wire : Serve(w) \/ Land(w)
Getting == \E g \in gets : get_event(g) \/ LandGet(g) \/ FailGet(g)
Paging == \E p \in pages : ServePage(p) \/ LandPage(p)
Navigating == setMonthCursor \/ setActiveDashboardId \/ LeavePage \/ OpenPage
Tiling == handleViewChange \/ useLocalDay
Editing == \/ openCreateEditor
           \/ closeEditor
           \/ \E i \in Events : openEditEditor(i) \/ onDelete(i)
           \/ \E at \in Places : handleEditorSubmit(at)
Binning == \/ toggleTrash
           \/ loadAgain
           \/ handleLoadMore
           \/ \E i \in Events, op \in {"restore", "purge"} : handleRow(op, i)
Writing == \E c \in calls : Load(c) \/ Commit(c) \/ Refresh(c) \/ Reject(c) \/ Answer(c) \/ FailCall(c)

Next == \/ Fetching
        \/ \E w \in wire : FailFetch(w)
        \/ Navigating
        \/ Tiling
        \/ Retry
        \/ Theirs
        \/ \E t \in others : TheirCommit(t) \/ TheirLoss(t)
        \/ handleCalendarResourceEvent
        \/ resync
        \/ Editing
        \/ Getting
        \/ Writing
        \/ \E o \in offers : Undo(o)
        \/ Binning
        \/ Paging
        \/ \E p \in pages : FailPage(p)

Spec == Init /\ [][Next]_vars
(* The network answers: a request is served, and its answer arrives, or it   *)
(* fails.  (In terms of what each step does to the requests.)                *)
FetchAnswered ==
  \E w \in wire : wire' = IF w.served THEN wire \ {w} ELSE (wire \ {w}) \cup {Served(w)}
GetAnswered ==
  \E g \in gets : IF g.served THEN GetEnded(g) ELSE gets' = (gets \ {g}) \cup {Got(g)}
FairSpec == Spec /\ WF_wire(FetchAnswered) /\ WF_gets(GetAnswered)

-----------------------------------------------------------------------------
TypeOK ==
  /\ \A i \in Events :
       /\ events[i].state \in {"none", "live", "trash", "purged"}
       /\ events[i].dash \in Dashboards
       /\ events[i].stamp \in 0..clock
       /\ details[i] # NoDetails => details[i].id = i
  /\ view.screen \in {"page", "board"}
  /\ view.dash \in Dashboards
  /\ view.month \in 0..LastMonth
  /\ \A d \in Dashboards :
       /\ \A l \in entries[d].loads : l # {} /\ l \subseteq entries[d].inFlight
       /\ \A i \in entries[d].inFlight : Cardinality({w \in wire : w.dash = d /\ w.key = i}) = 1
  /\ \A g \in gets : g.id \in Events
  /\ panel.known \in BOOLEAN
  /\ left \in [Kinds -> Nat]

(* The cache of a dashboard is in order: its intervals are apart, ascending  *)
(* and within the cap unless they are one; it holds one occurrence for each  *)
(* key; and it is loading only while a load is under way.                    *)
CoverageSound ==
  \A d \in Dashboards :
    LET e == entries[d]
    IN /\ \A k \in 1..(Len(e.covered) - 1) : e.covered[k].end < e.covered[k + 1].start
       /\ coveredSpan(e.covered) <= MaxSpan \/ Len(e.covered) = 1
       /\ \A a, b \in e.byKey : occurrenceKey(a) = occurrenceKey(b) => a = b
       /\ e.loading => e.loads # {}

Quiet(d) == /\ entries[d].inFlight = {}
            /\ calls = {}
            /\ \A k \in 1..Len(news) : news[k].dash # d

(* When nothing is under way any more, every reader that shows no error      *)
(* shows the server's occurrences of its window, unless an answer older than *)
(* the last invalidation came after it (late), another load cleared the      *)
(* error of a failed one (masked), a distant answer pushed the window out of *)
(* the cache (evicted), a write committed though it seemed to fail           *)
(* (unanswered), its caller named another dashboard (stray), or a purge      *)
(* deleted an event restored since it was looked up (purged).                *)
ReadersSettle ==
  \A r \in Reading(view) :
    LET e == entries[r.dash]
    IN Quiet(r.dash) /\ ~e.error /\ e.gaps = {}
       => e.loaded /\ dataIn(e, r.window) = list_occurrences(r.dash, r.window)

(* A failed window does not pass for one without events: a day on screen     *)
(* that is not held is being fetched, or the reader shows the error, unless  *)
(* the error was masked or the day evicted.                                  *)
FailureShows ==
  \A r \in Reading(view) :
    LET e == entries[r.dash]
    IN \/ DaysOf(r.window) \subseteq Covered(e) \cup DaysIn(e.inFlight)
       \/ e.error
       \/ e.gaps \cap {"masked", "evicted"} # {}

(* The details held of an event are the server's, when no frame and no call  *)
(* about it is under way, unless an older answer replaced or restored them,  *)
(* or an answer from the trash did, or a purge deleted the restored event.   *)
DetailsFresh ==
  \A i \in Events :
    \/ details[i] = NoDetails
    \/ i \in behind
    \/ \E k \in 1..Len(news) : news[k].id = i
    \/ \E c \in calls : c.id = i
    \/ events[i].state = "live" /\ details[i] = Occ(i)

(* The editor that is open is the one opened last: an answer to an earlier   *)
(* opening opens none.                                                       *)
EditorIsLatest ==
  editor.session # NoSession => editor.session.key = editor.request /\ ~editor.loading

(* When the panel has settled, its rows are the newest of the server's trash *)
(* in order, and all of it when no older page is offered, unless the trash   *)
(* moved under the panel (moved), or a page came for another dashboard, or   *)
(* for other rows than those it is put after (late).                         *)
TrashSettles ==
  panel.open /\ panel.known /\ ~panel.failed /\ pages = {} /\ calls = {} /\ trayGaps = {}
  => /\ IsPrefix(panel.rows, TrashOf(view.dash))
     /\ panel.next = NoCursor => panel.rows = TrashOf(view.dash)

(* An editor closes when the user closes it, when what it submitted has been *)
(* saved, or when what an earlier editor submitted has: never with a draft   *)
(* the server refused.                                                       *)
DraftsKept ==
  [][editor.session # NoSession /\ editor'.session = NoSession
     => \/ closeEditor
        \/ \E c \in calls \ calls' : c.key # 0 /\ c.n > 0 /\ Answer(c)]_vars

(* Neither the calendar nor the editor is left loading.                      *)
SpinnersEnd == /\ \A d \in Dashboards : entries[d].loading ~> ~entries[d].loading
               /\ editor.loading ~> ~editor.loading

(* The intervals of the cache implement the days of DayCoverage.             *)
Coverage == INSTANCE DayCoverage
              WITH Cap <- MaxSpan,
                   days <- [d \in Dashboards |-> Covered(entries[d])],
                   asked <- [d \in Dashboards |-> {DaysOf(i) : i \in entries[d].inFlight}]
CoverageRefined == Coverage!Spec

(* The occurrence cache of every dashboard is in order after any interleaving *)
(* of loads, failures and invalidations (addInterval, trim).                 *)
CacheSound == TypeOK /\ CoverageSound

(* A calendar that shows neither a spinner nor an error shows the window as  *)
(* the server has it (useOccurrences), outside the gaps named above.         *)
ReadersTruthful == ReadersSettle /\ FailureShows

(* The editor shows the event asked for last, with details no older than     *)
(* what the stream has announced, unless an older answer restored them.      *)
EditorCurrent == EditorIsLatest /\ DetailsFresh
=============================================================================
