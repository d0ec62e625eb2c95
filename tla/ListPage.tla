------------------------------ MODULE ListPage ------------------------------
(***************************************************************************)
(* One list on screen, on its page (ListDetailPage.tsx) or as a dashboard  *)
(* tile (ListWidget.tsx): its cached detail (resources/listData.ts), the   *)
(* add box, the row editors, dragging, and the server's rows               *)
(* (routers/lists.py), with other people editing the same list.            *)
(*                                                                         *)
(* A request is sent, reads what it needs (or is refused), commits later,  *)
(* and its answer settles the promise; other people's do the same, and     *)
(* their frames arrive in commit order; answers, frames and a GET race one *)
(* another.  The component stays mounted, so its cache entry always has a  *)
(* listener.                                                               *)
(***************************************************************************)
EXTENDS ListRows

CONSTANTS Texts,           \* item texts, trimmed
          Norm,            \* Norm[t]: t in lower case
          Within,          \* Within[t]: the texts that hold t as a proper part
          Typed,           \* those somebody types here
          Theirs,          \* those other people write
          NoText,          \* the empty text
          Start,           \* the rows at the start: the text of each, and whether it is checked
          MaxItems,        \* rows ever created
          MaxCalls,        \* requests of this tab
          MaxForeign,      \* writes by other people, and resyncs of the stream
          MaxFaults,       \* requests that fail for a reason outside the model
          MaxSuggestions,  \* MAX_SUGGESTIONS
          Menus            \* the sets of operations of which a behaviour uses one

ASSUME ListPageAssumption == /\ NoText \notin Texts /\ Typed \cup Theirs \subseteq Texts
                             /\ Norm \in [Texts -> Texts]
                             /\ Within \in [Texts -> SUBSET Texts]
                             /\ Start \in Seq([text : Texts, checked : BOOLEAN])
                             /\ MaxItems \in Nat /\ Len(Start) <= MaxItems
                             /\ MaxSuggestions \in Nat
                             /\ Menus # {}

VARIABLES rows,    \* server: id -> text, checked, due, sort_order; ids grow with created_at
          begun,   \* server: the ids handed out, when the transaction of a create begins
          others,  \* server: transactions of other people that have read and not committed
          log,     \* server: the row each committed write concerned, 0 for the order of all
          detail,  \* the cache entry of the list, and its request in flight
          inbox,   \* frames of other people's writes on the stream
          calls,   \* own requests under way
          box,     \* AddItemForm
          row,     \* the row control that is open: which, on which row, with which draft
          pile,    \* usePileEnabled, and whether the pile is open
          surface, \* which component shows the list
          menu,    \* the operations of this behaviour
          gaps,    \* history: named ways in which screen and server may have come to disagree
          owed,    \* history: the texts whose request failed, neither typed over nor sent
                   \* again since, and those that the text of a later failure was put over
          spent    \* requests, foreign writes and faults so far

vars == <<rows, begun, others, log, detail, inbox, calls, box, row, pile, surface, menu, gaps, owed, spent>>
user == <<box, row, pile>>
server == <<rows, begun, others, log>>

Ids == 1..MaxItems
None == 0
Idle == [mode |-> "idle", id |-> None, draft |-> NoText]

(* get_list: ORDER BY sort_order, created_at.  created_at is now(), the start *)
(* of the create's transaction, and not the order of the commits.            *)
BeforeOnTies(r, i) ==
  {j \in DOMAIN r : \/ r[j].ord < r[i].ord
                    \/ r[j].ord = r[i].ord /\ j > i}
Before(r, i) ==
  {j \in DOMAIN r : \/ r[j].ord < r[i].ord
                    \/ r[j].ord = r[i].ord /\ j < i}
Item(r, i) == [id |-> i, text |-> r[i].text, checked |-> r[i].checked, due |-> r[i].due]
View(r) ==
  LET ids == InOrder(DOMAIN r, [i \in DOMAIN r |-> Before(r, i)])
  IN [k \in 1..Cardinality(DOMAIN r) |-> Item(r, ids[k])]

-----------------------------------------------------------------------------
(* checkedPile.ts, SortableList.tsx *)

matchesItemText(a, b) == Norm[a] = Norm[b]

pileOf(items) == Kept(items, {k \in 1..Len(items) : items[k].checked})

mergeActiveOrderPileLast(items, ids) == ids \o IdsOf(pileOf(items))

(* Checked rows keep their places; the others are filled in from ids.  The   *)
(* dragged ids and the items come from one render, so they always line up.   *)
mergeActiveOrder(items, ids) ==
  [i \in 1..Len(items) |->
     IF items[i].checked THEN items[i].id
     ELSE ids[Cardinality({j \in 1..i : ~items[j].checked})]]

-----------------------------------------------------------------------------
(* The cache entry: a mounted entry refetches when it is invalidated, and an *)
(* invalidation during a request only marks it stale.                        *)
Fetch(d) == IF d.get # "none" THEN d
            ELSE [d EXCEPT !.get = "sent", !.stale = FALSE, !.error = FALSE]
Invalidate(d) == IF d.get # "none" THEN [d EXCEPT !.stale = TRUE] ELSE Fetch(d)
(* patchListDetailById *)
Patch(d, items) == IF d.has THEN [d EXCEPT !.items = items] ELSE d

(* A write is consumed once neither its frame nor its answer is under way.   *)
Consumed(n) == /\ n \in 1..Len(log)
               /\ \A i \in 1..Len(inbox) : inbox[i].n # n
               /\ \A c \in calls : c.n # n
Seen == {n \in 1..Len(log) : Consumed(n)}
(* A later write to the same row, or order, is on the screen already.        *)
Overtaken(n) == \E k \in (n + 1)..Len(log) : log[k] = log[n] /\ Consumed(k)

Gap(g, happened) == IF happened THEN gaps \cup {g} ELSE gaps

-----------------------------------------------------------------------------
(* What is on screen.  The tile shows an error in place of its list; the     *)
(* page does so only without data.                                           *)
Showing == detail.has /\ (surface = "widget" => ~detail.error)
Can(op) == op \in menu /\ Showing
OnPage(op) == Can(op) /\ surface = "page"
Piled(x) == pile.on /\ x.checked
Pile == pileOf(detail.items)
ActiveAt == {k \in 1..Len(detail.items) : ~Piled(detail.items[k])}
Active == Kept(detail.items, ActiveAt)
Shown(id) == \E x \in Range(detail.items) : x.id = id /\ (Piled(x) => pile.open)

(* A row that moves to another zone, or whose zone gains or loses its drag   *)
(* context, is another component from then on: its controls close, and what  *)
(* was awaited by the old one reaches nobody.                                *)
Zone(id) == IF \E x \in Range(detail.items) : x.id = id /\ Piled(x) THEN "pile"
            ELSE IF Cardinality(ActiveAt) >= 2 THEN "sorting" ELSE "plain"
Remounted == {id \in Ids : Shown(id) /\ (~Shown(id)' \/ Zone(id) # Zone(id)')}
Rerender(cs, r) ==
  /\ calls' = {IF c.id \in Remounted THEN [c EXCEPT !.row = FALSE] ELSE c : c \in cs}
  /\ row' = IF r.id \in Remounted THEN Idle ELSE r

-----------------------------------------------------------------------------
Init ==
  /\ rows = [i \in 1..Len(Start) |-> [text |-> Start[i].text, checked |-> Start[i].checked,
                                       due |-> FALSE, ord |-> 0]]
  /\ begun = Len(Start)
  /\ others = {}
  /\ log = <<>>
  /\ detail = [has |-> FALSE, items |-> <<>>, stale |-> FALSE, error |-> FALSE,
               get |-> "sent", got |-> <<>>, asOf |-> 0]
  /\ inbox = <<>>
  /\ calls = {}
  /\ box = [text |-> NoText, active |-> None, dismissed |-> FALSE]
  /\ row = Idle
  /\ pile = [on |-> TRUE, open |-> FALSE]
  /\ menu \in Menus
  /\ surface \in {"page", "widget"}
  /\ surface = "widget" => menu \cap {"rename", "date", "delete", "drag"} = {}
  /\ gaps = {}
  /\ owed = [failed |-> {}, over |-> {}]
  /\ spent = [calls |-> 0, foreign |-> 0, faults |-> 0]

(* The server answers the GET, and the answer settles.                       *)
AnswerGet ==
  /\ detail.get = "sent"
  /\ detail' = [detail EXCEPT !.get = "answered", !.got = View(rows), !.asOf = Len(log)]
  /\ UNCHANGED <<server, inbox, calls, user, surface, menu, gaps, owed, spent>>

ResolveGet ==
  /\ detail.get = "answered"
  /\ detail' = [detail EXCEPT !.has = TRUE, !.items = detail.got, !.error = FALSE,
                              !.get = "none", !.got = <<>>, !.asOf = 0]
  /\ gaps' = IF \E n \in (detail.asOf + 1)..Len(log) : Consumed(n) THEN {"lateGet"} ELSE {}
  /\ UNCHANGED <<server, inbox, box, pile, surface, menu, owed, spent>>
  /\ Rerender({[c EXCEPT !.over = TRUE] : c \in calls}, row)

FailGet ==
  /\ detail.get # "none"
  /\ spent.faults < MaxFaults
  /\ spent' = [spent EXCEPT !.faults = @ + 1]
  /\ detail' = [detail EXCEPT !.error = TRUE, !.get = "none", !.got = <<>>, !.asOf = 0]
  /\ UNCHANGED <<server, inbox, calls, user, surface, menu, gaps, owed>>

(* The tile offers a retry of a failed load; the page only a way back.       *)
Retry ==
  /\ surface = "widget"
  /\ detail.error
  /\ detail' = Fetch(detail)
  /\ UNCHANGED <<server, inbox, calls, user, surface, menu, gaps, owed, spent>>

-----------------------------------------------------------------------------
togglePile ==
  /\ Can("pile")
  /\ surface = "widget" => detail.items # <<>>
  /\ pile' = [pile EXCEPT !.on = ~@]
  /\ UNCHANGED <<server, detail, inbox, box, surface, menu, gaps, owed, spent>>
  /\ Rerender(calls, row)

togglePileExpanded ==
  /\ Can("pile")
  /\ pile.on /\ Pile # <<>>
  /\ pile' = [pile EXCEPT !.open = ~@]
  /\ UNCHANGED <<server, detail, inbox, box, surface, menu, gaps, owed, spent>>
  /\ Rerender(calls, row)

-----------------------------------------------------------------------------
(* AddItemForm.tsx *)

Exact(t) == Kept(Pile, {k \in 1..Len(Pile) : matchesItemText(Pile[k].text, t)})
Partial(t) == Kept(Pile, {k \in 1..Len(Pile) : Pile[k].text \in Within[t]})
(* matchChecked: the checked rows that hold the text, an exact match first.  *)
matchChecked(t) ==
  LET s == Exact(t) \o Partial(t)
  IN [i \in 1..(IF Len(s) < MaxSuggestions THEN Len(s) ELSE MaxSuggestions) |-> s[i].id]
suggestions == IF box.text = NoText \/ box.dismissed THEN <<>> ELSE matchChecked(box.text)

(* Typing over a text, or sending it, settles what was owed for it.          *)
LeftBox == [owed EXCEPT !.failed = @ \ {box.text}]

Type(t) ==
  /\ Can("add")
  /\ t # box.text
  /\ box' = [text |-> t, active |-> None, dismissed |-> FALSE]
  /\ owed' = LeftBox
  /\ UNCHANGED <<server, detail, inbox, calls, row, pile, surface, menu, gaps, spent>>

ArrowDown ==
  /\ Can("pick")
  /\ suggestions # <<>>
  /\ LET at == IndexOf(suggestions, box.active)
     IN box' = [box EXCEPT !.active = suggestions[(at % Len(suggestions)) + 1]]
  /\ UNCHANGED <<server, detail, inbox, calls, row, pile, surface, menu, gaps, owed, spent>>

ArrowUp ==
  /\ Can("pick")
  /\ suggestions # <<>>
  /\ LET at == IndexOf(suggestions, box.active)
     IN box' = [box EXCEPT !.active = suggestions[IF at <= 1 THEN Len(suggestions) ELSE at - 1]]
  /\ UNCHANGED <<server, detail, inbox, calls, row, pile, surface, menu, gaps, owed, spent>>

Escape ==
  /\ Can("pick")
  /\ suggestions # <<>>
  /\ box' = [box EXCEPT !.active = None, !.dismissed = TRUE]
  /\ UNCHANGED <<server, detail, inbox, calls, row, pile, surface, menu, gaps, owed, spent>>

(* A request: what it asks for, and what its caller still holds when the     *)
(* answer comes.  n is its number among the committed writes, 0 before; same *)
(* says that the row it read had the value it sets; over says that a GET has *)
(* brought other rows since it was sent.                                     *)
Call(kind, id, value, held) ==
  [c |-> spent.calls + 1, kind |-> kind, id |-> id, value |-> value, held |-> held,
   row |-> kind \in {"rename", "date"}, over |-> FALSE, same |-> FALSE, n |-> 0,
   status |-> "sent", reply |-> None]
Send(call) ==
  /\ spent.calls < MaxCalls
  /\ calls' = calls \cup {call}
  /\ spent' = [spent EXCEPT !.calls = @ + 1]

(* restore: by mouse on a suggestion, or from a submit.                      *)
Restoring(id) ==
  /\ Send(Call("restore", id, FALSE, [text |-> box.text]))
  /\ box' = [box EXCEPT !.text = NoText, !.active = None]
  /\ owed' = LeftBox
  /\ UNCHANGED <<server, detail, inbox, row, pile, surface, menu, gaps>>

PickSuggestion(id) ==
  /\ Can("pick")
  /\ id \in Range(suggestions)
  /\ Restoring(id)

(* The row a submit revives: the highlight, else an exact match over the     *)
(* whole pile, whatever part of it is displayed.                             *)
Target ==
  IF box.active \in Range(suggestions) THEN box.active
  ELSE IF box.dismissed \/ Exact(box.text) = <<>> THEN None
  ELSE Exact(box.text)[1].id

handleSubmit ==
  /\ Can("add")
  /\ box.text # NoText
  /\ \/ Target # None /\ Restoring(Target)
     \/ /\ Target = None
        /\ Send(Call("create", None, box.text,
                     [text |-> box.text, dismissed |-> box.dismissed, pile |-> Pile]))
        /\ box' = [box EXCEPT !.text = NoText]
        /\ owed' = LeftBox
        /\ UNCHANGED <<server, detail, inbox, row, pile, surface, menu, gaps>>

-----------------------------------------------------------------------------
(* ListItemRow.tsx.  One row's control is open at a time.                    *)
Toggling(id) ==
  /\ Can("toggle")
  /\ Shown(id)
  /\ Send(Call("toggle", id, ~RowWith(detail.items, id).checked, None))
  /\ UNCHANGED <<server, detail, inbox, user, surface, menu, gaps, owed>>

handleToggleItem(id) == surface = "page" /\ Toggling(id)
handleToggle(id) == surface = "widget" /\ Toggling(id)

RowStep(next) ==
  /\ row' = next
  /\ UNCHANGED <<server, detail, inbox, calls, box, pile, surface, menu, gaps, owed, spent>>

OpenControl(id, mode) ==
  /\ OnPage(mode)
  /\ row = Idle
  /\ Shown(id)
  /\ RowStep([mode |-> mode, id |-> id, draft |-> RowWith(detail.items, id).text])

(* Escape, the picker's blur, or "Cancel delete item".                       *)
CloseControl ==
  /\ row # Idle
  /\ RowStep(Idle)

Draft(t) ==
  /\ row.mode = "rename"
  /\ t # row.draft
  /\ RowStep([row EXCEPT !.draft = t])

(* Enter and blur both submit, and nothing holds a second submit back.  An   *)
(* unchanged text closes the editor; a changed one is sent.                  *)
submitEdit ==
  /\ row.mode = "rename"
  /\ Holds(detail.items, row.id)
  /\ IF row.draft = RowWith(detail.items, row.id).text
     THEN /\ row' = Idle
          /\ UNCHANGED <<calls, spent>>
     ELSE /\ Send(Call("rename", row.id, row.draft, None))
          /\ UNCHANGED row
  /\ UNCHANGED <<server, detail, inbox, box, pile, surface, menu, gaps, owed>>

commitDueDate ==
  /\ row.mode = "date"
  /\ Holds(detail.items, row.id)
  /\ \E due \in BOOLEAN :
       /\ due # RowWith(detail.items, row.id).due
       /\ Send(Call("date", row.id, due, None))
  /\ UNCHANGED <<server, detail, inbox, user, surface, menu, gaps, owed>>

ConfirmDelete ==
  /\ row.mode = "delete"
  /\ Holds(detail.items, row.id)
  /\ row' = Idle
  /\ Send(Call("delete", row.id, None, None))
  /\ UNCHANGED <<server, detail, inbox, box, pile, surface, menu, gaps, owed>>

(* handleReorder, reorderListItems: the order is on screen before it is sent. *)
Drag(a, b) ==
  LET ids == reorderIds(IdsOf(Active), a, b)
      order == IF pile.on THEN mergeActiveOrder(detail.items, ids) ELSE ids
      after == IF SameIds(detail.items, order) THEN orderByIds(detail.items, order) ELSE detail.items
  IN /\ OnPage("drag")
     /\ a # b /\ {a, b} \subseteq Range(IdsOf(Active))
     /\ Send(Call("order", 0, order, [from |-> detail.items, to |-> after, pile |-> pile.on, seen |-> Seen]))
     /\ detail' = Patch(detail, after)
     /\ UNCHANGED <<server, inbox, user, surface, menu, gaps, owed>>

-----------------------------------------------------------------------------
(* routers/lists.py.  A handler reads, without a lock on the rows, and       *)
(* commits later; only creates and orders lock the list.                     *)
With(x, kind, value) ==
  CASE kind \in {"toggle", "restore"} -> [x EXCEPT !.checked = value]
    [] kind = "rename" -> [x EXCEPT !.text = value]
    [] kind = "date" -> [x EXCEPT !.due = value]
Updates == {"toggle", "restore", "rename", "date"}

Written(kind, id, value) == [rows EXCEPT ![id] = With(rows[id], kind, value)]
Reordered(order) ==
  [i \in DOMAIN rows |->
     [rows[i] EXCEPT !.ord = IF i \in Range(order) THEN IndexOf(order, i) - 1 ELSE @]]
Without(id) == [i \in DOMAIN rows \ {id} |-> rows[i]]

(* create_item: (max or -1) + 1, where a maximum of 0 also counts as none.   *)
NextOrder ==
  LET top == CHOOSE m \in {0} \cup {rows[i].ord : i \in DOMAIN rows} :
               \A i \in DOMAIN rows : rows[i].ord <= m
  IN IF top = 0 THEN 0 ELSE top + 1
Appended(id, t) ==
  [i \in DOMAIN rows \cup {id} |->
     IF i = id THEN [text |-> t, checked |-> FALSE, due |-> FALSE, ord |-> NextOrder] ELSE rows[i]]

(* An order has compared its ids with the rows under the lock it still holds. *)
Ordering == \E t \in calls \cup others : t.kind = "order" /\ t.status = "loaded"

(* The transaction begins, which dates the row it may create, and has read.  *)
Read(t) == [t EXCEPT !.status = "loaded",
                     !.id = IF t.kind = "create" THEN begun + 1 ELSE @,
                     !.same = t.kind \in Updates /\ Written(t.kind, t.id, t.value) = rows]
Loads(t) ==
  /\ t.kind = "create" => begun < MaxItems
  /\ t.kind \in Updates \cup {"delete"} => t.id \in DOMAIN rows
  /\ t.kind = "order" => Range(t.value) = DOMAIN rows /\ IsInjective(t.value) /\ ~Ordering
  /\ begun' = IF t.kind = "create" THEN begun + 1 ELSE begun
  /\ UNCHANGED <<rows, log>>

(* The write lands: id = 0 is the order of all rows.  A value that the row   *)
(* had when it was read is not written; deleting a row twice succeeds.       *)
Lands(t) ==
  /\ t.kind = "create" => ~Ordering
  /\ rows' = CASE t.kind \in Updates -> IF t.same THEN rows ELSE Written(t.kind, t.id, t.value)
               [] t.kind = "delete" -> Without(t.id)
               [] t.kind = "order" -> Reordered(t.value)
               [] t.kind = "create" -> Appended(t.id, t.value)
  /\ log' = Append(log, t.id)
  /\ UNCHANGED begun

(* A row to write to is gone (StaleDataError), or to read back.              *)
Stale(t) == \/ t.kind \in Updates /\ t.id \notin DOMAIN rows
            \/ t.kind = "order" /\ ~(Range(t.value) \subseteq DOMAIN rows)

Load(m) ==
  /\ m.status = "sent"
  /\ Loads(m)
  /\ calls' = (calls \ {m}) \cup {Read(m)}
  /\ UNCHANGED <<others, detail, inbox, user, surface, menu, gaps, owed, spent>>

Commit(m) ==
  /\ m.status = "loaded"
  /\ m.kind \in Updates => m.id \in DOMAIN rows
  /\ Lands(m)
  /\ calls' = (calls \ {m}) \cup
       {[m EXCEPT !.n = Len(log) + 1, !.status = "done",
                  !.reply = IF m.kind \in Updates \cup {"create"} THEN Item(rows', m.id) ELSE None]}
  /\ UNCHANGED <<others, detail, inbox, user, surface, menu, gaps, owed, spent>>

Lose(m) ==
  /\ m.status = "loaded"
  /\ Stale(m)
  /\ calls' = (calls \ {m}) \cup {[m EXCEPT !.status = "broken"]}
  /\ UNCHANGED <<server, detail, inbox, user, surface, menu, gaps, owed, spent>>

(* 404 for a row that is gone, 409 for an order that is not of these rows;   *)
(* an order that names a row twice is invalid (422), which reads as an error *)
(* of the network.                                                           *)
Refuse(m) ==
  /\ m.status = "sent"
  /\ \/ m.kind \in Updates \cup {"delete"} /\ m.id \notin DOMAIN rows
     \/ m.kind = "order" /\ (Range(m.value) # DOMAIN rows \/ ~IsInjective(m.value))
  /\ calls' = (calls \ {m}) \cup
       {[m EXCEPT !.status = IF m.kind = "order" /\ ~IsInjective(m.value) THEN "broken" ELSE "refused"]}
  /\ UNCHANGED <<server, detail, inbox, user, surface, menu, gaps, owed, spent>>

(* The network fails, or a limit is reached, before or after the commit.     *)
Break(m) ==
  /\ spent.faults < MaxFaults
  /\ m.status \in {"sent", "loaded", "done"}
  /\ spent' = [spent EXCEPT !.faults = @ + 1]
  /\ calls' = (calls \ {m}) \cup {[m EXCEPT !.status = "broken"]}
  /\ UNCHANGED <<server, detail, inbox, user, surface, menu, gaps, owed>>

-----------------------------------------------------------------------------
(* The answers *)

(* What awaited an update or a create closes its control, or keeps it open.  *)
RowAfter(m) == IF m.row /\ row.mode = m.kind /\ row.id = m.id THEN Idle ELSE row

addListItem(m) ==
  /\ m.kind = "create"
  /\ detail' = Patch(detail, Append(detail.items, m.reply))
  /\ gaps' = Gap("doubled", detail.has /\ Holds(detail.items, m.id))
             \cup Gap("crossed", Overtaken(m.n) \/ \E x \in Range(detail.items) : x.id > m.id)

updateListItem(m) ==
  /\ m.kind \in Updates
  /\ detail' = Patch(detail, [i \in 1..Len(detail.items) |->
                 IF detail.items[i].id = m.id THEN m.reply ELSE detail.items[i]])
  /\ gaps' = Gap("crossed", Overtaken(m.n))

deleteListItem(m) ==
  /\ m.kind = "delete"
  /\ detail' = Patch(detail, Drop(detail.items, m.id))
  /\ gaps' = gaps

(* A reorder that succeeded applies nothing: its order may have left the     *)
(* screen since.                                                             *)
reorderListItems(m) ==
  /\ m.kind = "order"
  /\ detail' = detail
  /\ gaps' = Gap("crossed", IF IdsOf(detail.items) = m.value THEN Overtaken(m.n)
                            ELSE /\ ~Overtaken(m.n)
                                 /\ \A c \in calls : c.kind = "order" => c.n \in 1..m.n)

Succeed(m) ==
  /\ m.status = "done"
  /\ addListItem(m) \/ updateListItem(m) \/ deleteListItem(m) \/ reorderListItems(m)
  /\ UNCHANGED <<server, inbox, box, pile, surface, menu, owed, spent>>
  /\ Rerender(calls \ {m}, RowAfter(m))

BoxAfterKept(m) == box

(* The add box puts the text back, over whatever was typed meanwhile.        *)
BoxAfter(m) ==
  IF m.kind \in {"create", "restore"} THEN [box EXCEPT !.text = m.held.text] ELSE box

RollBackOnConflict(m) ==
  IF m.kind = "order" /\ m.status = "refused"
  THEN Invalidate(Patch(detail, m.held.from)) ELSE detail

(* The catch of reorderListItems: back to the rows it started from, and on a *)
(* 409 a refetch.  Every other failure leaves the list as it is.             *)
RollBack(m) ==
  IF m.kind # "order" THEN detail
  ELSE IF m.status = "refused" THEN Invalidate(Patch(detail, m.held.from))
  ELSE Patch(detail, m.held.from)

Fail(m) ==
  /\ m.status \in {"refused", "broken"}
  /\ detail' = RollBack(m)
  /\ box' = BoxAfter(m)
  /\ owed' = IF m.kind \in {"create", "restore"}
             THEN [failed |-> owed.failed \cup {m.held.text},
                   over |-> (owed.over \cup {box.text}) \ {m.held.text}]
             ELSE owed
  /\ gaps' = Gap("rolledback", m.kind = "order" /\ (m.over \/ Seen # m.held.seen \/ detail.items # m.held.to))
             \cup Gap("unanswered", m.n # 0)
  /\ UNCHANGED <<server, inbox, pile, surface, menu, spent>>
  /\ Rerender(calls \ {m}, row)

-----------------------------------------------------------------------------
(* Other people's writes, and handleListResourceEvent on their frames.       *)
Foreign(op, kind, id, value) ==
  LET t == [c |-> spent.foreign + 1, kind |-> kind, id |-> id, value |-> value,
            same |-> FALSE, status |-> "sent"]
  IN /\ op \in menu
     /\ spent.foreign < MaxForeign
     /\ spent' = [spent EXCEPT !.foreign = @ + 1]
     /\ Loads(t)
     /\ others' = others \cup {Read(t)}
     /\ UNCHANGED <<detail, inbox, calls, user, surface, menu, gaps, owed>>

ForeignUpdate(id, kind, value) == Foreign("theirs", kind, id, value)
ForeignOrder(a, b) ==
  /\ a # b /\ {a, b} \subseteq DOMAIN rows
  /\ Foreign("theirs", "order", 0, reorderIds(IdsOf(View(rows)), a, b))
ForeignCreate(t) == Foreign("grow", "create", None, t)
ForeignDelete(id) == Foreign("shrink", "delete", id, None)

(* The frame carries the value that was asked for, also when the row had it  *)
(* as it was read and no longer has: what it says is then not on the server. *)
Frame(t) ==
  [n |-> Len(log) + 1, kind |-> IF t.kind \in {"create", "delete"} THEN "refetch" ELSE t.kind,
   id |-> t.id, value |-> t.value,
   skipped |-> t.same /\ t.id \in DOMAIN rows /\ Written(t.kind, t.id, t.value) # rows]

ForeignCommit(t) ==
  /\ t.kind \in Updates => t.same \/ t.id \in DOMAIN rows
  /\ Lands(t)
  /\ others' = others \ {t}
  /\ inbox' = Append(inbox, Frame(t))
  /\ UNCHANGED <<detail, calls, user, surface, menu, gaps, owed, spent>>

ForeignLose(t) ==
  /\ Stale(t)
  /\ others' = others \ {t}
  /\ UNCHANGED <<rows, begun, log, detail, inbox, calls, user, surface, menu, gaps, owed, spent>>

(* Only what the frame names changes; a frame that does not fit the rows on  *)
(* screen is divergence, and refetches.                                      *)
Patched(f) ==
  CASE f.kind = "refetch" -> Invalidate(detail)
    [] f.kind = "order" ->
         IF detail.has /\ SameIds(detail.items, f.value)
         THEN Patch(detail, orderByIds(detail.items, f.value))
         ELSE Invalidate(detail)
    [] OTHER ->
         IF detail.has /\ Holds(detail.items, f.id)
         THEN Patch(detail, [i \in 1..Len(detail.items) |->
                IF detail.items[i].id = f.id THEN With(detail.items[i], f.kind, f.value)
                ELSE detail.items[i]])
         ELSE Invalidate(detail)

handleListResourceEvent ==
  /\ inbox # <<>>
  /\ inbox' = Tail(inbox)
  /\ detail' = Patched(Head(inbox))
  /\ gaps' = IF detail'.items = detail.items THEN gaps
             ELSE Gap("crossed", Overtaken(Head(inbox).n)) \cup Gap("skipped", Head(inbox).skipped)
  /\ UNCHANGED <<server, box, pile, surface, menu, owed, spent>>
  /\ Rerender(calls, row)

Resync ==
  /\ "resync" \in menu
  /\ spent.foreign < MaxForeign
  /\ spent' = [spent EXCEPT !.foreign = @ + 1]
  /\ detail' = Invalidate(detail)
  /\ UNCHANGED <<server, inbox, calls, user, surface, menu, gaps, owed>>

Next ==
  \/ AnswerGet \/ ResolveGet \/ FailGet \/ Retry
  \/ togglePile \/ togglePileExpanded
  \/ \E t \in Typed : Type(t) \/ Draft(t)
  \/ ArrowDown \/ ArrowUp \/ Escape \/ handleSubmit
  \/ \E id \in Ids : \/ PickSuggestion(id) \/ handleToggleItem(id) \/ handleToggle(id)
                     \/ \E mode \in {"rename", "date", "delete"} : OpenControl(id, mode)
  \/ CloseControl \/ submitEdit \/ commitDueDate \/ ConfirmDelete
  \/ \E a, b \in Ids : Drag(a, b)
  \/ \E m \in calls : \/ Load(m) \/ Commit(m) \/ Lose(m)
                      \/ Refuse(m) \/ Break(m) \/ Succeed(m) \/ Fail(m)
  \/ \E id \in Ids : \/ \E t \in Theirs : ForeignUpdate(id, "rename", t)
                     \/ \E b \in BOOLEAN : ForeignUpdate(id, "toggle", b)
                     \/ ForeignDelete(id)
  \/ \E a, b \in Ids : ForeignOrder(a, b)
  \/ \E t \in Theirs : ForeignCreate(t)
  \/ \E t \in others : ForeignCommit(t) \/ ForeignLose(t)
  \/ handleListResourceEvent \/ Resync

Spec == Init /\ [][Next]_vars

-----------------------------------------------------------------------------
ItemType == [id : Ids, text : Texts, checked : BOOLEAN, due : BOOLEAN]

TypeOK ==
  /\ DOMAIN rows \subseteq Ids
  /\ \A i \in DOMAIN rows : /\ rows[i].text \in Texts
                            /\ rows[i].checked \in BOOLEAN /\ rows[i].due \in BOOLEAN
                            /\ rows[i].ord \in Nat
  /\ detail.items \in Seq(ItemType) /\ detail.got \in Seq(ItemType)
  /\ detail.get \in {"none", "sent", "answered"}
  /\ box.text \in Texts \cup {NoText} /\ box.active \in Ids \cup {None}
  /\ row.mode \in {"idle", "rename", "date", "delete"} /\ row.id \in Ids \cup {None}
  /\ row # Idle => Shown(row.id)
  /\ gaps \subseteq {"lateGet", "crossed", "doubled", "rolledback", "unanswered",
                  "skipped"}

(* With nothing under way, the page shows the server's rows, in its order,   *)
(* whatever raced: the answers of listData.ts and the frames of              *)
(* handleListResourceEvent together converge.  The exceptions are the named  *)
(* gaps, a failed load and an invalidation during a request.                 *)
Quiet == detail.get = "none" /\ inbox = <<>> /\ calls = {}
ScreenSettles ==
  Quiet /\ gaps = {} /\ ~detail.stale /\ ~detail.error => detail.items = View(rows)

(* A row is on screen once: addListItem appends without looking, which       *)
(* doubles a row only if a GET brought it before the answer of its create.   *)
RowsOnce == gaps \cap {"doubled", "rolledback"} = {} => IsInjective(IdsOf(detail.items))

(* What could not be saved is in the add box until it is typed over or       *)
(* submitted again, whichever of its requests failed and however late; the   *)
(* box holds one text, and only the text of a later failure is put over it.  *)
FailedTextKept == owed.failed \subseteq {box.text} \cup owed.over

(* A drag among the unchecked rows is sent as an order of all rows on screen *)
(* (reorder_items accepts no other) in which no checked row has moved, so    *)
(* unchecking one later returns it to its remembered place.                  *)
DragKeepsPile ==
  \A m \in calls :
    m.kind = "order" /\ IsInjective(IdsOf(m.held.from)) =>
      /\ SameIds(m.held.from, m.value)
      /\ m.held.pile => \A i \in 1..Len(m.value) :
                          m.held.from[i].checked => m.value[i] = m.held.from[i].id

(* "unchecks it rather than minting a duplicate" (handleSubmit): a text      *)
(* submitted over a checked row of that name, in whatever case, creates no   *)
(* row unless the suggestions were dismissed.                                *)
RetypedIsRevived ==
  \A m \in calls :
    m.kind = "create" /\ ~m.held.dismissed =>
      \A x \in Range(m.held.pile) : Norm[x.text] # Norm[m.value]

(* create_item gives a new row the sort_order of the others while they are   *)
(* all 0, so created_at, the start of its transaction, decides: what a GET   *)
(* returns once the row is there has it behind every row that was begun      *)
(* before it, and only rows begun later, committed though they were, behind  *)
(* it.                                                                       *)
AppendsInOrder ==
  [][\A i \in DOMAIN rows' \ DOMAIN rows :
       \A k, l \in 1..Len(View(rows)') :
         View(rows)'[k].id = i /\ l > k => View(rows)'[l].id > i]_vars

(* Rows are neither doubled on screen, nor moved by an order they were not   *)
(* part of, nor minted again for a name the checked pile holds.              *)
RowsSound == TypeOK /\ RowsOnce /\ DragKeepsPile /\ RetypedIsRevived
=============================================================================
