---------------------------- MODULE ListsSidebar ----------------------------
(***************************************************************************)
(* The lists of a dashboard (ListsLayout.tsx): the sidebar with its two    *)
(* views, live lists and trash, over the summaries cache of each dashboard *)
(* (resources/listData.ts) and the server's lists (routers/lists.py).      *)
(*                                                                         *)
(* A handler goes on after its await with what it read when it started:    *)
(* the dashboard on screen then, and whether the trash had been looked at. *)
(* The live view is cached and follows the stream; the trash is fetched    *)
(* when it is opened or one of these handlers asks for it.  A request      *)
(* reads at the server what it needs, and commits later.                   *)
(***************************************************************************)
EXTENDS ListRows

CONSTANTS Dashboards,  \* the dashboards of this user, who may edit them
          Home,        \* Home[i]: the dashboard of list i; created lists included
          Kind,        \* Kind[i]: its list_type
          Trashed0,    \* those in the trash at the start
          Exist0,      \* those that exist at the start, 1..Exist0
          MaxCalls,    \* requests of this tab
          MaxSwitches, \* changes of dashboard or view
          MaxForeign,  \* writes by other people
          MaxFaults,   \* requests that fail for a reason outside the model
          MaxEvents,   \* of these four together
          Menus        \* the sets of operations of which a behaviour uses one

ASSUME ListsSidebarAssumption == /\ Home \in Seq(Dashboards)
                                 /\ Exist0 \in 0..Len(Home)
                                 /\ Trashed0 \subseteq 1..Exist0
                                 /\ Menus # {}

VARIABLES lists,   \* server: id -> where it is, sort_order, renamed; ids grow with created_at
          begun,   \* server: the ids handed out, when the transaction of a create begins
          others,  \* server: transactions of other people that have read and not committed
          log,     \* server: the list each committed write concerned, and its dashboard
          cache,   \* the summaries of each dashboard, and the request in flight
          tray,    \* the trash view: open, its rows, whether they are EMPTY_TRASH, loading
          loads,   \* requests for the trash, in the order they were sent
          view,    \* dashboard, type filter, open list, create form, row control
          busy,    \* restoringId and purgingId
          calls,   \* own requests under way
          offers,  \* toasts with an Undo
          inbox,   \* frames of other people's writes
          menu, gaps, trayGaps, spent

vars == <<lists, begun, others, log, cache, tray, loads, view, busy, calls, offers, inbox, menu, gaps, trayGaps, spent>>
server == <<lists, begun, others, log>>

Ids == 1..Len(Home)
None == 0
RowIn(all, i) == [id |-> i, renamed |-> all[i].renamed]
Row(i) == RowIn(lists, i)

LiveIn(d) == {i \in DOMAIN lists : Home[i] = d /\ lists[i].at = "live"}
(* list_lists: ORDER BY sort_order, created_at, the start of the create's    *)
(* transaction.                                                              *)
Before(d, i) == {j \in LiveIn(d) : \/ lists[j].ord < lists[i].ord
                                   \/ lists[j].ord = lists[i].ord /\ j < i}
ServerRows(d) ==
  LET ids == InOrder(LiveIn(d), [i \in LiveIn(d) |-> Before(d, i)])
  IN [k \in 1..Cardinality(LiveIn(d)) |-> Row(ids[k])]
(* list_trash: one dashboard's trash; the order is of no concern here.       *)
ServerTrash(d) == {i \in DOMAIN lists : Home[i] = d /\ lists[i].at = "trash"}

Consumed(n) == /\ n \in 1..Len(log)
               /\ \A i \in 1..Len(inbox) : inbox[i].n # n
               /\ \A c \in calls : c.n # n
Seen == {n \in 1..Len(log) : Consumed(n)}
Overtaken(n) == \E k \in (n + 1)..Len(log) : log[k] = log[n] /\ Consumed(k)
GapIn(d, g, happened) == [gaps EXCEPT ![d] = IF happened THEN @ \cup {g} ELSE @]

-----------------------------------------------------------------------------
(* The summaries cache.  The dashboard on screen has the listener.           *)
Fetch(d, c) == IF c[d].get # "none" THEN c
               ELSE [c EXCEPT ![d] = [@ EXCEPT !.get = "sent", !.stale = FALSE, !.error = FALSE]]
Invalidate(d, c) ==
  IF ~c[d].known THEN c
  ELSE IF d = view.dash /\ c[d].get = "none" THEN Fetch(d, c)
  ELSE [c EXCEPT ![d].stale = TRUE]
(* useQuery's effect, when a dashboard comes on screen.                      *)
Mount(d, c) ==
  IF ~c[d].has \/ c[d].stale THEN Fetch(d, [c EXCEPT ![d].known = TRUE]) ELSE c

(* Every cached row of the list, wherever it is, becomes now, or goes.       *)
Patched(rows, i, now) == [k \in 1..Len(rows) |-> IF rows[k].id = i THEN now ELSE rows[k]]
patchListSummaryById(i, now) ==
  [d \in Dashboards |-> [cache[d] EXCEPT !.rows = Patched(cache[d].rows, i, now)]]
removeListFromCaches(i) ==
  [d \in Dashboards |-> [cache[d] EXCEPT !.rows = Drop(cache[d].rows, i)]]

-----------------------------------------------------------------------------
NewEntry == [known |-> FALSE, has |-> FALSE, rows |-> <<>>, stale |-> FALSE, error |-> FALSE,
             get |-> "none", got |-> <<>>, asOf |-> 0]

(* pickInitialDashboardId: the requested dashboard, a favourite, the first.  *)
Init ==
  /\ lists = [i \in 1..Exist0 |->
                [at |-> IF i \in Trashed0 THEN "trash" ELSE "live", renamed |-> FALSE,
                 ord |-> Cardinality({j \in 1..(i - 1) : Home[j] = Home[i]})]]
  /\ begun = Exist0
  /\ others = {}
  /\ log = <<>>
  /\ tray = [open |-> FALSE, rows |-> {}, empty |-> TRUE, loading |-> FALSE]
  /\ loads = <<>>
  /\ \E d \in Dashboards :
       /\ view = [dash |-> d, filter |-> "all", list |-> None, form |-> "closed",
                  submitted |-> 0, row |-> None, mode |-> "idle", asking |-> None]
       /\ cache = [e \in Dashboards |->
                     IF e = d THEN [NewEntry EXCEPT !.known = TRUE, !.get = "sent"] ELSE NewEntry]
  /\ busy = [restoring |-> None, purging |-> None]
  /\ calls = {}
  /\ offers = {}
  /\ inbox = <<>>
  /\ menu \in Menus
  /\ gaps = [d \in Dashboards |-> {}]
  /\ trayGaps = {}
  /\ spent = [calls |-> 0, switches |-> 0, foreign |-> 0, faults |-> 0]

(* Every event of these kinds counts, and only MaxEvents of them happen.     *)
Spend(event, most) ==
  /\ spent[event] < most
  /\ spent.calls + spent.switches + spent.foreign + spent.faults < MaxEvents
  /\ spent' = [spent EXCEPT ![event] = @ + 1]
Fault == Spend("faults", MaxFaults)

AnswerGet(d) ==
  /\ cache[d].get = "sent"
  /\ cache' = [cache EXCEPT ![d] = [@ EXCEPT !.get = "answered", !.got = ServerRows(d), !.asOf = Len(log)]]
  /\ UNCHANGED <<server, tray, loads, view, busy, calls, offers, inbox, menu, gaps, trayGaps, spent>>

ResolveGet(d) ==
  /\ cache[d].get = "answered"
  /\ cache' = [cache EXCEPT ![d] = [@ EXCEPT !.has = TRUE, !.rows = cache[d].got, !.error = FALSE,
                                              !.get = "none", !.got = <<>>, !.asOf = 0]]
  /\ gaps' = [gaps EXCEPT ![d] = IF \E n \in (cache[d].asOf + 1)..Len(log) : Consumed(n)
                                 THEN {"lateGet"} ELSE {}]
  /\ calls' = {[m EXCEPT !.over = @ \/ m.dash = d] : m \in calls}
  /\ UNCHANGED <<server, tray, loads, view, busy, offers, inbox, menu, trayGaps, spent>>

FailGet(d) ==
  /\ cache[d].get # "none"
  /\ Fault
  /\ cache' = [cache EXCEPT ![d] = [@ EXCEPT !.error = TRUE, !.get = "none", !.got = <<>>, !.asOf = 0]]
  /\ UNCHANGED <<server, tray, loads, view, busy, calls, offers, inbox, menu, gaps, trayGaps>>

(* "Try again".                                                              *)
refetchLists ==
  /\ cache[view.dash].error
  /\ cache' = Fetch(view.dash, cache)
  /\ UNCHANGED <<server, tray, loads, view, busy, calls, offers, inbox, menu, gaps, trayGaps, spent>>

-----------------------------------------------------------------------------
(* The trash.  Nothing ties an answer to the dashboard on screen, and the    *)
(* first of two answers already ends the loading.                            *)
loadTrash(d) ==
  /\ loads' = Append(loads, [dash |-> d, rows |-> {}, status |-> "sent", asOf |-> 0])
  /\ tray' = [tray EXCEPT !.loading = TRUE]

AnswerTrash(k) ==
  /\ loads[k].status = "sent"
  /\ loads' = [loads EXCEPT ![k] = [@ EXCEPT !.rows = ServerTrash(loads[k].dash),
                                             !.status = "answered", !.asOf = Len(log)]]
  /\ UNCHANGED <<server, cache, tray, view, busy, calls, offers, inbox, menu, gaps, trayGaps, spent>>

LateTrash(k) == \/ loads[k].dash # view.dash
                \/ \E n \in (loads[k].asOf + 1)..Len(log) : \A c \in calls : c.n # n

ResolveTrashStillLoading(k) ==
  /\ loads[k].status = "answered"
  /\ tray' = [tray EXCEPT !.rows = loads[k].rows, !.empty = FALSE]
  /\ loads' = RemoveAt(loads, k)
  /\ trayGaps' = IF LateTrash(k) THEN {"lateTrash"} ELSE {}
  /\ UNCHANGED <<server, cache, view, busy, calls, offers, inbox, menu, gaps, spent>>

ResolveTrash(k) ==
  /\ loads[k].status = "answered"
  /\ tray' = [tray EXCEPT !.rows = loads[k].rows, !.empty = FALSE, !.loading = FALSE]
  /\ loads' = RemoveAt(loads, k)
  /\ trayGaps' = IF LateTrash(k) THEN {"lateTrash"} ELSE {}
  /\ UNCHANGED <<server, cache, view, busy, calls, offers, inbox, menu, gaps, spent>>

(* A load that fails shows an empty trash.                                   *)
FailTrash(k) ==
  /\ Fault
  /\ tray' = [tray EXCEPT !.rows = {}, !.empty = TRUE, !.loading = FALSE]
  /\ loads' = RemoveAt(loads, k)
  /\ trayGaps' = {"failedTrash"}
  /\ UNCHANGED <<server, cache, view, busy, calls, offers, inbox, menu, gaps>>

-----------------------------------------------------------------------------
(* The user moves about *)
Switching == Spend("switches", MaxSwitches)

(* DashboardSelect: the selection and the URL change together, and an open   *)
(* trash is loaded again; what an open row control held is gone with its row. *)
SelectDashboard(d) ==
  /\ "move" \in menu /\ d # view.dash
  /\ Switching
  /\ view' = [view EXCEPT !.dash = d, !.list = None, !.form = "closed", !.row = None, !.mode = "idle"]
  /\ cache' = Mount(d, cache)
  /\ IF tray.open THEN loadTrash(d) ELSE UNCHANGED <<tray, loads>>
  /\ UNCHANGED <<server, busy, calls, offers, inbox, menu, gaps, trayGaps>>

OpenTrash ==
  /\ "trash" \in menu
  /\ ~tray.open
  /\ Switching
  /\ loads' = Append(loads, [dash |-> view.dash, rows |-> {}, status |-> "sent", asOf |-> 0])
  /\ tray' = [tray EXCEPT !.open = TRUE, !.loading = TRUE]
  /\ view' = [view EXCEPT !.row = None, !.mode = "idle"]
  /\ UNCHANGED <<server, cache, busy, calls, offers, inbox, menu, gaps, trayGaps>>

OpenActive ==
  /\ tray.open
  /\ Switching
  /\ tray' = [tray EXCEPT !.open = FALSE]
  /\ UNCHANGED <<server, cache, loads, view, busy, calls, offers, inbox, menu, gaps, trayGaps>>

ViewStep(next) ==
  /\ view' = next
  /\ UNCHANGED <<server, cache, tray, loads, busy, calls, offers, inbox, menu, gaps, trayGaps, spent>>

FilterTypes(f) == "filter" \in menu /\ f # view.filter /\ ViewStep([view EXCEPT !.filter = f])

Filtered(i) == view.filter = "all" \/ Kind[i] = view.filter
Listed(i) == /\ ~tray.open
             /\ ~cache[view.dash].error /\ cache[view.dash].has
             /\ Holds(cache[view.dash].rows, i) /\ Filtered(i)
Binned(i) == tray.open /\ ~tray.loading /\ i \in tray.rows /\ Filtered(i)

onSelect(i) == /\ "delete" \in menu /\ Listed(i) /\ i # view.list
               /\ ~(view.mode = "rename" /\ view.row = i)
               /\ ViewStep([view EXCEPT !.list = i])

-----------------------------------------------------------------------------
(* Requests.  held: the dashboard on screen and whether the trash was        *)
(* EMPTY_TRASH when the handler started; over: that a GET has brought other  *)
(* rows since; live: that a purge deleted a list that was restored meanwhile. *)
Call(kind, i, value) ==
  [c |-> spent.calls + 1, kind |-> kind, id |-> i, value |-> value, n |-> 0, status |-> "sent",
   dash |-> view.dash, origin |-> view.dash, empty |-> tray.empty, list |-> view.list, reply |-> <<>>,
   from |-> <<>>, to |-> <<>>, seen |-> {}, over |-> FALSE, stray |-> FALSE, live |-> FALSE]
Send(call) ==
  /\ Spend("calls", MaxCalls)
  /\ calls' = calls \cup {call}

ToggleCreate ==
  /\ "create" \in menu
  /\ view.form # "sent"
  /\ ViewStep([view EXCEPT !.form = IF @ = "closed" THEN "open" ELSE "closed"])

(* CreateListModal: a second submit waits for the first.                     *)
handleCreate ==
  /\ view.form = "open"
  /\ Send(Call("create", None, None))
  /\ view' = [view EXCEPT !.form = "sent", !.submitted = spent.calls + 1]
  /\ UNCHANGED <<server, cache, tray, loads, busy, offers, inbox, menu, gaps, trayGaps>>

(* The form can be closed while its request is under way, and opened again.  *)
CloseCreate == view.form = "sent" /\ ViewStep([view EXCEPT !.form = "closed"])

OpenControl(i, mode) ==
  /\ mode \in menu
  /\ Listed(i) /\ view.mode = "idle"
  /\ ViewStep([view EXCEPT !.row = i, !.mode = mode])
CloseControl == view.mode # "idle" /\ ViewStep([view EXCEPT !.row = None, !.mode = "idle"])

(* handleRenameList: the editor stays open until the answer.                 *)
handleRenameList ==
  /\ view.mode = "rename" /\ Listed(view.row)
  /\ \E x \in Range(cache[view.dash].rows) : x.id = view.row /\ ~x.renamed
  /\ Send(Call("rename", view.row, TRUE))
  /\ UNCHANGED <<server, cache, tray, loads, view, busy, offers, inbox, menu, gaps, trayGaps>>

handleDeleteList ==
  /\ view.mode = "delete" /\ Listed(view.row)
  /\ Send(Call("delete", view.row, None))
  /\ view' = [view EXCEPT !.row = None, !.mode = "idle"]
  /\ UNCHANGED <<server, cache, tray, loads, busy, offers, inbox, menu, gaps, trayGaps>>

(* The Undo of a toast: restores to the dashboard the list came from.        *)
UndoDashOnScreen(o) == view.dash
UndoDash(o) == o.dash

handleUndoDeleteList(o) ==
  /\ Send([Call("undo", o.id, None) EXCEPT !.dash = UndoDash(o), !.origin = o.dash, !.empty = o.empty])
  /\ offers' = offers \ {o}
  /\ UNCHANGED <<server, cache, tray, loads, view, busy, inbox, menu, gaps, trayGaps>>

Dismissed(o) ==
  /\ offers' = offers \ {o}
  /\ UNCHANGED <<server, cache, tray, loads, view, busy, calls, inbox, menu, gaps, trayGaps, spent>>

handleRestoreList(i) ==
  /\ "trash" \in menu
  /\ Binned(i) /\ i \notin {busy.restoring, busy.purging}
  /\ Send(Call("restore", i, None))
  /\ busy' = [busy EXCEPT !.restoring = i]
  /\ UNCHANGED <<server, cache, tray, loads, view, offers, inbox, menu, gaps, trayGaps>>

(* The confirmation of a purge, then the purge.                              *)
AskPurge(i) ==
  /\ "purge" \in menu
  /\ Binned(i) /\ i \notin {busy.restoring, busy.purging} /\ view.asking = None
  /\ ViewStep([view EXCEPT !.asking = i])
CancelPurge == view.asking # None /\ ViewStep([view EXCEPT !.asking = None])

handlePurgeList ==
  /\ view.asking # None
  /\ Send(Call("purge", view.asking, None))
  /\ view' = [view EXCEPT !.asking = None]
  /\ busy' = [busy EXCEPT !.purging = view.asking]
  /\ UNCHANGED <<server, cache, tray, loads, offers, inbox, menu, gaps, trayGaps>>

canReorderLists == ~tray.open /\ view.filter = "all"

reorderLists(a, b) ==
  LET rows == cache[view.dash].rows
      ids == IdsOf(Kept(rows, {k \in 1..Len(rows) : Filtered(rows[k].id)}))
      order == reorderIds(ids, a, b)
      after == IF SameIds(rows, order) THEN orderByIds(rows, order) ELSE rows
  IN /\ "order" \in menu /\ canReorderLists
     /\ a # b /\ Listed(a) /\ Listed(b)
     /\ Send([Call("order", None, order) EXCEPT
                !.from = rows, !.to = after, !.seen = Seen, !.stray = "stray" \in gaps[view.dash]])
     /\ cache' = [cache EXCEPT ![view.dash].rows = after]
     /\ UNCHANGED <<server, tray, loads, view, busy, offers, inbox, menu, gaps, trayGaps>>

-----------------------------------------------------------------------------
(* routers/lists.py.  A handler checks what it has read without a lock on    *)
(* the list, and commits later; an order locks the live lists it has read.   *)
HomeOf(m) == IF m.id = None THEN m.dash ELSE Home[m.id]
Restores == {"undo", "restore"}
NextOrder(d) ==
  LET top == CHOOSE m \in {0} \cup {lists[i].ord : i \in LiveIn(d)} :
               \A i \in LiveIn(d) : lists[i].ord <= m
  IN IF top = 0 THEN 0 ELSE top + 1
At(kind) == CASE kind = "delete" -> "trash" [] kind \in Restores -> "live" [] kind = "purge" -> "gone"
Where(kind) == IF kind \in Restores \cup {"purge"} THEN "trash" ELSE "live"

Written(kind, i, d, value) ==
  CASE kind = "create" -> [j \in DOMAIN lists \cup {i} |-> IF j \in DOMAIN lists THEN lists[j]
                             ELSE [at |-> "live", renamed |-> FALSE, ord |-> NextOrder(d)]]
    [] kind = "rename" -> [lists EXCEPT ![i].renamed = value]
    [] kind = "order" -> [j \in DOMAIN lists |-> IF j \in Range(value)
                            THEN [lists[j] EXCEPT !.ord = SelectLastInSeq(value, LAMBDA k : k = j) - 1]
                            ELSE lists[j]]
    [] OTHER -> [lists EXCEPT ![i].at = At(kind)]

Locked == UNION {Range(t.value) : t \in {u \in calls \cup others : u.kind = "order" /\ u.status = "loaded"}}

Allowed(t) ==
  IF t.kind = "order" THEN Range(t.value) = LiveIn(t.dash)
  ELSE t.id \in DOMAIN lists /\ lists[t.id].at = Where(t.kind)

(* The transaction begins, which dates the list it may create, and has read. *)
(* A created list belongs to the dashboard its form was open on.             *)
Read(t) == [t EXCEPT !.status = "loaded", !.id = IF t.kind = "create" THEN begun + 1 ELSE @]
Loads(t) ==
  /\ IF t.kind = "create" THEN begun < Len(Home) /\ Home[begun + 1] = t.dash ELSE Allowed(t)
  /\ t.kind = "order" => Locked \cap LiveIn(t.dash) = {}
  /\ begun' = IF t.kind = "create" THEN begun + 1 ELSE begun
  /\ UNCHANGED <<lists, log>>

(* A list to write to is gone (StaleDataError); a purge finds nothing to do. *)
Stale(t) == t.kind \notin {"create", "order", "purge"} /\ lists[t.id].at = "gone"

(* The write lands, wherever the list is by now.                             *)
Lands(t) ==
  /\ t.kind \notin {"create", "order"} => t.id \in DOMAIN lists
  /\ ~Stale(t)
  /\ t.id \notin Locked
  /\ lists' = Written(t.kind, t.id, t.dash, t.value)
  /\ log' = Append(log, [id |-> t.id, dash |-> HomeOf(t)])
  /\ UNCHANGED begun

(* A purge that finds its list restored deletes it all the same, and tells   *)
(* nobody.                                                                   *)
PurgesLive(t) == t.kind = "purge" /\ lists[t.id].at = "live"

Load(m) ==
  /\ m.status = "sent"
  /\ Loads(m)
  /\ calls' = (calls \ {m}) \cup {Read(m)}
  /\ UNCHANGED <<others, cache, tray, loads, view, busy, offers, inbox, menu, gaps, trayGaps, spent>>

Commit(m) ==
  /\ m.status = "loaded"
  /\ Lands(m)
  /\ calls' = (calls \ {m}) \cup {[m EXCEPT !.n = Len(log) + 1, !.status = "done", !.live = PurgesLive(m),
                    !.reply = IF m.kind = "order" THEN <<>> ELSE <<RowIn(lists', m.id)>>]}
  /\ UNCHANGED <<others, cache, tray, loads, view, busy, offers, inbox, menu, gaps, trayGaps, spent>>

Lose(m) ==
  /\ m.status = "loaded"
  /\ Stale(m)
  /\ calls' = (calls \ {m}) \cup {[m EXCEPT !.status = "broken"]}
  /\ UNCHANGED <<server, cache, tray, loads, view, busy, offers, inbox, menu, gaps, trayGaps, spent>>

Refuse(m) ==
  /\ m.status = "sent"
  /\ m.kind # "create" /\ ~Allowed(m)
  /\ calls' = (calls \ {m}) \cup {[m EXCEPT !.status = "refused"]}
  /\ UNCHANGED <<server, cache, tray, loads, view, busy, offers, inbox, menu, gaps, trayGaps, spent>>

Break(m) ==
  /\ m.status \in {"sent", "loaded", "done"}
  /\ Fault
  /\ calls' = (calls \ {m}) \cup {[m EXCEPT !.status = "broken"]}
  /\ UNCHANGED <<server, cache, tray, loads, view, busy, offers, inbox, menu, gaps, trayGaps>>

-----------------------------------------------------------------------------
(* The answers *)
Done(m, kind) == m.status = "done" /\ m.kind = kind /\ calls' = calls \ {m}

(* The server puts the list before one that is on screen already.            *)
BeforeShown(m) ==
  \E x \in Range(cache[m.dash].rows) : x.id \in LiveIn(m.dash) /\ m.id \in Before(m.dash, x.id)

(* applyCreatedList appends without looking, then the new list is opened.    *)
(* A navigation that names a dashboard other than the one on screen has its  *)
(* dashboard_id put right by the page, which stays on its own.               *)
applyCreatedList(m) ==
  /\ Done(m, "create")
  /\ cache' = [cache EXCEPT ![m.dash] = [@ EXCEPT !.has = TRUE, !.rows = cache[m.dash].rows \o m.reply]]
  /\ view' = [view EXCEPT !.form = "closed", !.list = m.id]
  /\ gaps' = [gaps EXCEPT ![m.dash] = @
                \cup (IF Holds(cache[m.dash].rows, m.id) THEN {"doubled"} ELSE {})
                \cup (IF Overtaken(m.n) THEN {"crossed"} ELSE {})
                \cup (IF BeforeShown(m) THEN {"last"} ELSE {})
                \cup (IF ~cache[m.dash].has /\ cache[m.dash].get = "none" THEN {"partial"} ELSE {})]
  /\ UNCHANGED <<server, tray, loads, busy, offers, inbox, menu, trayGaps, spent>>

updateListName(m) ==
  /\ Done(m, "rename")
  /\ cache' = patchListSummaryById(m.id, m.reply[1])
  /\ view' = IF view.mode = "rename" /\ view.row = m.id
             THEN [view EXCEPT !.row = None, !.mode = "idle"] ELSE view
  /\ gaps' = GapIn(Home[m.id], "crossed", Overtaken(m.n))
  /\ UNCHANGED <<server, tray, loads, busy, offers, inbox, menu, trayGaps, spent>>

(* deleteList, and what handleDeleteList does after it: reload the trash if  *)
(* it had been looked at, leave the list if it was open, offer the Undo.     *)
deleteList(m) ==
  /\ Done(m, "delete")
  /\ cache' = removeListFromCaches(m.id)
  /\ view' = IF m.list = m.id THEN [view EXCEPT !.list = None] ELSE view
  /\ IF m.empty THEN UNCHANGED <<tray, loads>> ELSE loadTrash(m.dash)
  /\ offers' = offers \cup {[id |-> m.id, dash |-> m.dash, empty |-> m.empty]}
  /\ gaps' = GapIn(Home[m.id], "crossed", Overtaken(m.n))
  /\ trayGaps' = IF m.empty /\ ~tray.empty THEN trayGaps \cup {"unseen"} ELSE trayGaps
  /\ UNCHANGED <<server, busy, inbox, menu, spent>>

(* restoreList: the row goes to the end of the given dashboard's cache,      *)
(* wherever its sort_order puts it.                                          *)
RestoredTwice(m) == [cache EXCEPT ![m.dash].rows =
                  IF cache[m.dash].has THEN @ \o m.reply ELSE @]
Restored(m) == [cache EXCEPT ![m.dash].rows =
                  IF cache[m.dash].has THEN Drop(@, m.id) \o m.reply ELSE @]
RestoreGaps(m) ==
  [d \in Dashboards |-> gaps[d]
     \cup (IF d = m.dash /\ Overtaken(m.n) THEN {"crossed"} ELSE {})
     \cup (IF Home[m.id] # m.origin /\ d \in {m.dash, Home[m.id]} THEN {"stray"} ELSE {})
     \cup (IF d = m.dash /\ BeforeShown(m) THEN {"last"} ELSE {})]

LeftInTrashAll(i) == tray.rows
LeftInTrash(i) == tray.rows \ {i}

undoRestored(m) ==
  /\ Done(m, "undo")
  /\ cache' = Restored(m)
  /\ IF ~m.empty THEN loadTrash(m.dash) ELSE UNCHANGED <<tray, loads>>
  /\ gaps' = RestoreGaps(m)
  /\ trayGaps' = IF m.empty /\ ~tray.empty THEN trayGaps \cup {"unseen"} ELSE trayGaps
  /\ UNCHANGED <<server, view, busy, offers, inbox, menu, spent>>

(* Its row leaves the trash view, even if the list was deleted again and     *)
(* the view has been loaded since.                                           *)
restoreList(m) ==
  /\ Done(m, "restore")
  /\ cache' = Restored(m)
  /\ tray' = [tray EXCEPT !.rows = LeftInTrash(m.id)]
  /\ busy' = [busy EXCEPT !.restoring = None]
  /\ gaps' = RestoreGaps(m)
  /\ trayGaps' = IF lists[m.id].at = "trash" THEN trayGaps \cup {"again"} ELSE trayGaps
  /\ UNCHANGED <<server, loads, view, offers, inbox, menu, spent>>

purged(m) ==
  /\ Done(m, "purge")
  /\ tray' = [tray EXCEPT !.rows = LeftInTrash(m.id)]
  /\ busy' = [busy EXCEPT !.purging = None]
  /\ gaps' = GapIn(Home[m.id], "purged", m.live)
  /\ UNCHANGED <<server, cache, loads, view, offers, inbox, menu, trayGaps, spent>>

reordered(m) ==
  /\ Done(m, "order")
  /\ gaps' = GapIn(m.dash, "crossed",
       IF IdsOf(cache[m.dash].rows) = m.value THEN Overtaken(m.n)
       ELSE ~Overtaken(m.n) /\ \A c \in calls : c.kind = "order" => c.n \in 1..m.n)
  /\ UNCHANGED <<server, cache, tray, loads, view, busy, offers, inbox, menu, trayGaps, spent>>

(* A failure: a toast, and the order of before is put back.                  *)
Fail(m) ==
  /\ m.status \in {"refused", "broken"}
  /\ calls' = calls \ {m}
  /\ LET back == [cache EXCEPT ![m.dash].rows = IF m.kind = "order" THEN m.from ELSE @]
     IN cache' = IF m.kind = "order" /\ m.status = "refused" THEN Invalidate(m.dash, back) ELSE back
  /\ view' = IF m.kind = "create" /\ view.form = "sent" /\ view.submitted = m.c THEN [view EXCEPT !.form = "open"] ELSE view
  /\ busy' = [restoring |-> IF m.kind = "restore" THEN None ELSE busy.restoring,
              purging |-> IF m.kind = "purge" THEN None ELSE busy.purging]
  /\ gaps' = [d \in Dashboards |-> gaps[d]
                \cup (IF m.n # 0 /\ d \in {m.dash, HomeOf(m)} THEN {"unanswered"} ELSE {})
                \cup (IF d = m.dash /\ m.kind = "order" /\ (m.over \/ Seen # m.seen \/ cache[m.dash].rows # m.to)
                      THEN {"rolledback"} ELSE {})
                \cup (IF d = m.dash /\ m.kind = "order" /\ m.stray THEN {"stray"} ELSE {})]
  /\ trayGaps' = IF m.n # 0 \/ m.kind \in Restores \cup {"purge"} THEN trayGaps \cup {"refused"} ELSE trayGaps
  /\ UNCHANGED <<server, tray, loads, offers, inbox, menu, spent>>

-----------------------------------------------------------------------------
(* Other people, and handleListResourceEvent on their frames.  A purge is    *)
(* broadcast to nobody, and no frame concerns the trash view.                *)
Foreign(op, kind, i, d, value) ==
  LET t == [c |-> spent.foreign + 1, kind |-> kind, id |-> i, dash |-> d, value |-> value, status |-> "sent"]
  IN /\ op \in menu
     /\ Spend("foreign", MaxForeign)
     /\ Loads(t)
     /\ others' = others \cup {Read(t)}
     /\ UNCHANGED <<cache, tray, loads, view, busy, calls, offers, inbox, menu, gaps, trayGaps>>

Theirs(d) ==
  \/ Foreign("added", "create", None, d, None)
  \/ \E i \in {j \in DOMAIN lists : Home[j] = d} :
       \/ \E kind \in {"delete", "restore", "purge"} : Foreign("moved", kind, i, d, None)
       \/ ~lists[i].renamed /\ Foreign("renamed", "rename", i, d, TRUE)
  \/ LET rows == IdsOf(ServerRows(d))
     IN Len(rows) >= 2 /\ Foreign("ordered", "order", None, d, Reverse(rows))

ForeignCommit(t) ==
  /\ Lands(t)
  /\ others' = others \ {t}
  /\ inbox' = IF t.kind = "purge" THEN inbox
              ELSE Append(inbox, [n |-> Len(log) + 1, kind |-> t.kind, id |-> t.id, dash |-> t.dash,
                                  value |-> t.value])
  /\ gaps' = GapIn(t.dash, "purged", PurgesLive(t))
  /\ trayGaps' = trayGaps \cup {"theirs"}
  /\ UNCHANGED <<cache, tray, loads, view, busy, calls, offers, menu, spent>>

ForeignLose(t) ==
  /\ Stale(t)
  /\ others' = others \ {t}
  /\ UNCHANGED <<lists, begun, log, cache, tray, loads, view, busy, calls, offers, inbox, menu, gaps,
                 trayGaps, spent>>

handleListResourceEvent ==
  /\ inbox # <<>>
  /\ inbox' = Tail(inbox)
  /\ LET f == Head(inbox)
         c == cache[f.dash]
     IN /\ cache' = CASE f.kind = "delete" -> removeListFromCaches(f.id)
                      [] f.kind = "order" /\ c.has /\ SameIds(c.rows, f.value) ->
                           [cache EXCEPT ![f.dash].rows = orderByIds(c.rows, f.value)]
                      [] OTHER -> Invalidate(f.dash, cache)
        /\ gaps' = GapIn(f.dash, "crossed", Overtaken(f.n) /\ cache'[f.dash].rows # c.rows)
  /\ UNCHANGED <<server, tray, loads, view, busy, calls, offers, menu, trayGaps, spent>>

Next ==
  \/ \E d \in Dashboards : \/ AnswerGet(d) \/ ResolveGet(d) \/ FailGet(d)
                           \/ SelectDashboard(d) \/ Theirs(d)
  \/ refetchLists
  \/ \E k \in 1..Len(loads) : AnswerTrash(k) \/ ResolveTrash(k) \/ FailTrash(k)
  \/ OpenTrash \/ OpenActive
  \/ \E f \in {"all"} \cup Range(Kind) : FilterTypes(f)
  \/ ToggleCreate \/ handleCreate \/ CloseCreate
  \/ \E i \in Ids : \/ onSelect(i) \/ handleRestoreList(i) \/ AskPurge(i)
                    \/ OpenControl(i, "rename") \/ OpenControl(i, "delete")
  \/ CloseControl \/ handleRenameList \/ handleDeleteList
  \/ CancelPurge \/ handlePurgeList
  \/ \E o \in offers : handleUndoDeleteList(o) \/ Dismissed(o)
  \/ \E a, b \in Ids : reorderLists(a, b)
  \/ \E m \in calls : \/ Load(m) \/ Commit(m) \/ Lose(m) \/ Refuse(m) \/ Break(m) \/ Fail(m)
                      \/ applyCreatedList(m) \/ updateListName(m) \/ deleteList(m)
                      \/ undoRestored(m) \/ restoreList(m) \/ purged(m) \/ reordered(m)
  \/ \E t \in others : ForeignCommit(t) \/ ForeignLose(t)
  \/ handleListResourceEvent

Spec == Init /\ [][Next]_vars

(* The network answers: every request is served, and its answer arrives.     *)
FairSpec ==
  /\ Spec
  /\ \A k \in 1..(MaxCalls + MaxSwitches) :
       WF_vars(k <= Len(loads) /\ (AnswerTrash(k) \/ ResolveTrash(k)))

-----------------------------------------------------------------------------
RowType == [id : Ids, renamed : BOOLEAN]

TypeOK ==
  /\ DOMAIN lists \subseteq Ids
  /\ \A d \in Dashboards : cache[d].rows \in Seq(RowType) /\ cache[d].got \in Seq(RowType)
  /\ tray.rows \subseteq Ids
  /\ tray.empty => tray.rows = {}
  /\ view.dash \in Dashboards /\ view.list \in Ids \cup {None}
  /\ view.form \in {"closed", "open", "sent"}
  /\ busy.restoring \in Ids \cup {None} /\ busy.purging \in Ids \cup {None}

QuietLive == inbox = <<>> /\ calls = {}

(* With nothing under way, a cached sidebar shows its dashboard's live lists *)
(* in the server's order, up to the named gaps.                              *)
SidebarSettles ==
  \A d \in Dashboards :
    QuietLive /\ cache[d].has /\ cache[d].get = "none" /\ ~cache[d].stale /\ ~cache[d].error
      /\ gaps[d] = {} => cache[d].rows = ServerRows(d)

(* "Restoring has to patch the cache of the dashboard the list came from"    *)
(* (handleDeleteList): no sidebar shows a list of another dashboard, except  *)
(* one restored from a trash view that showed another dashboard's trash,     *)
(* which the roll-back of an order may bring back once more.                 *)
ListsStayHome ==
  (\A d \in Dashboards : "stray" \notin gaps[d]) =>
    \A d \in Dashboards : \A x \in Range(cache[d].rows) : Home[x.id] = d

(* With nothing under way, the trash view shows the trash of the dashboard   *)
(* on screen: the handlers that change it reload or correct it.              *)
TrashSettles ==
  QuietLive /\ loads = <<>> /\ tray.open /\ trayGaps = {} => tray.rows = ServerTrash(view.dash)

(* An order is sent only for all lists of the dashboard it names, "exactly   *)
(* the set the backend renumbers" (canReorderLists), as far as this tab      *)
(* knows them: each is in it, and none twice unless its row is there twice.  *)
OrdersAreWhole ==
  \A m \in calls : m.kind = "order" =>
    /\ Len(m.value) = Len(m.from) /\ Range(m.value) = Range(IdsOf(m.from))
    /\ IsInjective(IdsOf(m.from)) => IsInjective(m.value)

(* The trash view does not show its spinner for ever: whatever answers come, *)
(* in whatever order, the loading ends (loadTrash's finally).                *)
TrashLoadEnds == tray.loading ~> ~tray.loading

(* Every list stays with its dashboard, in the caches and in the orders sent *)
(* to reorder_lists, wherever the user has moved meanwhile.                  *)
SidebarSound == TypeOK /\ ListsStayHome /\ OrdersAreWhole
=============================================================================
