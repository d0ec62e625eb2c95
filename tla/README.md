# FrontDashboard: a verification development

FrontDashboard is a shared-household dashboard: a FastAPI backend over PostgreSQL
(`src/backend/app`), a React client (`src/frontend/src`), and Server-Sent Events between
them, fanned out between worker processes over a Redis stream. Several people edit the same
boards, lists and calendars from several tabs, and every tab keeps caches it patches from the
stream. What is hard here is *freshness under concurrency*: an event that reaches no queue, a
response that arrives after a newer one, a save that carries a version it was not drawn on, a
request that outlives the session it was made in.

The TLA+ modules in this directory model that core from the source. TLC checks small
instances of them (`*.cfg`, the MC modules); for seven of them TLAPS proves every safety
property the runs check for every instance: the connection manager and the reconnect (both in
`SseReconnectProofs`), the fan-out, the query cache, layout editing, dashboard access and sessions
(`SseFanoutProofs`, `ScopedQueryProofs`, `LayoutEditorProofs`, `DashboardAccessProofs`,
`AuthSessionProofs`). Of a list's page it proves all of them but one (`ListPageProofs`), of the
sidebar of lists two of three (`ListsSidebarProofs`); section 5 says what is left to TLC.
`PROJECT.json` maps every definition to its lines.

    cd tla
    tlc -workers 2 -config SseManager.cfg MCSseManager   # any run: cfg and module as in PROJECT.json
    tlapm SseReconnectProofs.tla                         # likewise the other *Proofs modules

## 1. The system

| Component | Source | State | Operations |
|---|---|---|---|
| SSE connection manager | `backend/app/sse/manager.py`, `routers/sse.py` | registered streams, a bounded queue and a `resync_pending` flag for each | connect, broadcast, deliver_to_all, disconnect_session, the generator's loop |
| Activity log and reconnect | `services/activity.py`, `sse/choreography.py`, `routers/sse.py`, `hooks/useSSE.ts` | `activity_events` and its id sequence; the tab's EventSource, its mark and its flags | flush, commit, broadcast; connect with `Last-Event-ID`; reopen, watchdog, resync |
| Fan-out | `sse/broker.py` | the Redis stream, each worker's `last_id`, backoff and degraded flag | publish (XADD), read loop (XREAD BLOCK), outage and recovery |
| Query cache | `resources/scopedQuery.ts`, `resources/listData.ts` | a Map of entries in LRU order, in-flight requests, listeners, the session generation | subscribe, fetch, patch, seed, invalidate, evict, optimistic mutations, reset |
| Layout editing | `routers/dashboards.py`, `services/dashboard_widgets.py`, `stores/dashboard.ts`, `DashboardGrid.tsx` | the dashboard row with its version, widget rows; the tab's copy, draft, pending save, conflict banner | PUT layout with optimistic version check, add/remove widget, delete a bound list, drain of queued saves, rebase after 409, refresh on frames |
| Dashboard access | `routers/dashboards.py`, `routers/invites.py`, `services/shares.py`, `permissions.py`, `invites.py`, `accounts.py` | the dashboard's owner and trash state, share rows, invite codes, account tombstones | change or remove a share, leave, transfer, mint, revoke and redeem a code, trash, restore, purge, delete an account |
| Sessions | `routers/auth.py`, `services/sessions.py`, `api/client.ts`, `stores/auth.ts`, the account pages | session rows and the cookie that names one; the store's status and user, the session generation, the page of sessions shown | sign in, up and out, verify, reset, change address or password, delete the account, list and revoke sessions, redeem a code; `apiFetch` repeats a GET and reads a 401 as the end |
| Lists | `routers/lists.py`, `resources/listData.ts`, `ListDetailPage.tsx`, `ListWidget.tsx`, `ListsLayout.tsx`, `components/lists` | rows with their `sort_order`; cached details and summaries; the add box, row controls, the checked pile, the trash view | add, revive, check, rename, date, delete, drag; create, trash, Undo, restore, purge a list |
| Calendar | `routers/calendar.py`, `resources/occurrenceStore.ts`, `calendarData.ts`, `agendaData.ts`, `CalendarPage.tsx`, `CalendarTrashPanel.tsx`, `CalendarWidget.tsx` | events; per dashboard the intervals held and their occurrences; details of single events; the editor's session, the trash panel's pages | load the gaps of a window, reconcile, trim, invalidate, retry; create, edit, delete, Undo, restore, purge |
| Notifications | `routers/notifications.py`, `stores/notifications.ts` | rows, unread counts | mark read, dismiss |
| Retention | `services/retention.py` | what is old enough to purge | the reaper's passes |

A write goes: a request locks and changes rows, `log_event` draws an event id at flush, the
transaction commits, and only then `commit_and_broadcast` hands the frame to the local manager
and the broker publishes it to the other workers. A tab receives frames of *other* tabs
(its own `client_id` is skipped), patches or invalidates its caches, and applies the responses
of its own requests directly. When a stream dies, the tab reconnects with the id of the last
event it saw, and the server answers with a `resync` naming the entity types that changed.

What makes each part correct:

* manager: no frame for a live stream vanishes; a revoked session hears nothing more;
* reconnect: a tab whose stream is open and drained holds everything committed;
* fan-out: every worker's clients get every frame, once, or a resync;
* cache: what is shown is complete or known to be stale, and belongs to the signed-in user;
* layout: an accepted save changes only what its author dragged; a settled tab shows the row;
* access: a dashboard has one living owner; nobody loses it through somebody else's account;
  a code grants once, and never less than one has;
* sessions: who the tab shows is who its cookie stands for, and no wait is for ever;
* lists: answers, frames and a GET that race leave the screen with the server's rows, and no
  text that could not be saved is lost;
* calendar: a window shows the server's events or an error, never an empty month in place of a
  failure, and no day is asked for twice.

Several of these hold only with exceptions. A module states the property as *"only through
one of these named gaps"*, with one history variable per gap, so that the passing run says both
that nothing else goes wrong and where it may: what a gap names is recorded, not prevented. Gaps
that contradict something the repository says of itself are listed in section 4.

## 2. The modules

### SseManager, MCSseManager (proofs in SseReconnectProofs)

One worker's `SSEManager` and the generators that drain it. `queue`, `resyncPending`,
`registered` are the fields of `_Client` and the manager's dictionary; `gen[c]` is where the
generator of stream `c` is suspended. asyncio runs between awaits without interruption, so an
action is one such stretch: `Broadcast` is a whole call of `broadcast`, while the overflow
resync is two actions (`GenTakeOverflow`, `GenYieldResync`) because the head of the log is
awaited in between. `owed[c]` (history) is the set of frames addressed to a stream and neither
yielded nor covered by a resync. Slots are reused: a stream that ends may connect again.

### SseReconnect, MCSseReconnect, SseReconnectProofs

Extends `SseManager` by the database's commit order (`Flush` draws the id, `Commit` makes the
row visible, `Send` broadcasts, all of them separate), the connect handler with its three
reads before registration, the wire, and `useSSE`'s refs. The tab can be dropped, rejected,
closed silently (the watchdog's case) and reopened at any step. Gaps: `first` (committed
before the first connect), `unmarked`, `window`, `reordered`, `cut`, `hidden`.

### SseFanout, MCSseFanout, SseFanoutProofs

Each worker delivers locally, then XADDs; XREAD answers after `cursor`, which is the stream's
end when the reader still asks for `$`. XADD may fail before or after Redis stored the entry.
Redis and its trimming are external, modelled as `broker.py` uses them. Gaps: `unpublished`,
`startup`, `dollar`, `trimmed`.

### ScopedQuery, MCScopedQuery, ScopedQueryProofs

One `createScopedQuery` cache as `listData.ts` uses it. The content of an entry is the set of
writes it includes. The Map's order of insertion, which `touch` and `evictColdEntries` turn into
recency, is kept as a relation: `older[k]` are the keys inserted before `k`. `Mount`, `Unmount`,
`Refetch`, `Resolve`, `Reject`, `DeliverFrame`, `Resync`, `Mutate`, `Respond`, `Fail` and `Reset`
are tasks of the browser's event loop; `Answer`, `ForeignWrite` and `CommitMutation` are the
server's. Gaps: `overwritten`, `rolledback`, `unanswered`.

### LayoutEditor, MCLayoutEditor, LayoutEditorProofs

The dashboard row under its transactions, one tab, and a co-editor who writes through the same
API. A position is the stamp of the gesture that chose it. `calls` are the invocations of
`saveLayout`, each with its program counter, so that calls of an earlier session are still
there when the next one starts. `ListDeleteLoads` and `ListDeleteCommits` are two actions
because `delete_list` loads the dashboard before it locks it. A response is read in two statements,
each of what is committed by then: the dashboard's row, then `_load_widgets`; so the widgets of the
answer to a GET, a save or a widget change are read by an action of their own (`LoadWidgetsRead`,
`SaveWidgetsRead`, `WidgetWidgetsRead`), and a list may be deleted between the two. `harm` (history)
records which
entries an accepted save moved, stripped or revived although its author had not dragged them,
and where the layout came from. For that every held board, draft and job has a `basis` (history),
the oldest version any part of it was read at: an accepted save gives the tab a newer version
without that version's widgets, so what is drawn next may be older than the version it is sent
with. A save is *fresh* when its basis is the version it is accepted with, *rebase* when it was
merged after a 409, and *mixed* otherwise. Gaps: `raced`, `lost`, `overtaken`, `unread`,
`unheld`, `guarded`, and `torn` (a list was deleted between the two reads of a response, and its
frame had not come when they ended: the layout has an entry for a widget that is gone).

### DashboardAccess, MCDashboardAccess, DashboardAccessProofs

One dashboard, its share rows, its codes and the accounts behind them, under requests that run
READ COMMITTED. A request is a record `req[r]` with its stage: *loaded* (it has authenticated
and read what it decides on, without a lock), *locked*, *checked* or *decided* (under the locks
it takes), then its commit. The locks are predicates over these stages: `HoldsRow` for the
dashboard row taken FOR UPDATE by `accept_invite` and `lock_account`, `HoldsAccount` for the
advisory lock of `lock_live_user`. A request that writes the dashboard's row waits for its
holder; one that only deletes or updates a share row does not. A share row has an id, because
leaving, removing and transferring delete the row they *read*, which may have been replaced.
`Expire` and `Age` are the clock; the reaper's statements are two actions because each evaluates
the deadline anew. `outdated` (history) says that some commit acted on an owner, a membership, a
trash state or an account that had changed since it was read.

### AuthSession, MCAuthSession, AuthSessionProofs

One tab. A request is sent with the cookie of that moment, served, and answered; the browser
applies the answer's cookie when it arrives, whoever is signed in by then, and the continuation
runs with the generation captured at its start (`sessionGeneration`). A session is a number, its
account `srv.owner[s]`; `auth` is the store, `view` the page with the operations it waits for,
which dies with its mount. `apiFetch`, its single repetition of a GET, its 401 (a sign-out's
included, `ExpiredAnswer`) and the plain `fetch` of the boundary requests are told apart (`Gets`,
`Plain`, `Fetched`). Gaps, which the next
boundary ends: `lateInit` (an answer of `init` asked for in another generation or with another
cookie), `lateClear` (a Set-Cookie that removes the cookie of a tab showing somebody signed in),
`registered`, `unreached`, `heldOver`.

### ListRows, ListPage, MCListPage, ListPageProofs

`ListRows` has what this module and `ListsSidebar` share: rows with an id, sorted, filtered and put
in the order of a list of ids, which `orderByIds` gives up on unless it names each of them once.
`ListPage` is one list, on its page or as a tile. An own request is sent; its transaction begins and
reads (`Load`, or `Refuse`); it commits (`Commit`), or finds that the row it read is gone (`Lose`);
and its answer arrives. `others` are the transactions of other people between their read and their
commit (`Theirs`, `TheirCommit`, `TheirLoss`); frames arrive in commit order; a GET is read at one
moment and applied at another. An update locks nothing: it writes by id, later, and only if the value
it sets is not the one it read (`same`), while its frame carries the value either way. A create and
an order take the list's lock (`Ordering`); the maximum a create reads and its insert are one step,
because what may come between them under the lock leaves the outcome as it is. The server orders by
`sort_order`, then `created_at`, and gives a new row `(max or -1) + 1`. `created_at` is `now()`, the
start of the transaction, which a create reaches before it waits for the lock: ids are handed out
then (`begun`), and the order of the commits may be another. Texts are model values with `Norm`
(their lower case) and `Within` (the texts that contain them), which is all the add box compares.
`owed` (history) has the submitted texts whose request failed (`failed`) and those that the text of a
later failure was put over (`over`). One row control is open at a time, and the component stays
mounted. Gaps, which the next GET ends: `lateGet` (it had been read before a write that arrived
meanwhile), `crossed` (a write was applied after a later one to the same row or order, or a created
row was appended in another order than the server's), `doubled`, `rolledback` (a failed order was
taken back although a GET or another write had arrived since, or the screen no longer showed it),
`unanswered`, `skipped` (the frame of an update carried a value that was not written). The answer of
an own update is read back from the row (`_item_response` refreshes it), so it cannot mislead in that
way.

### ListsSidebar, MCListsSidebar, ListsSidebarProofs

The lists of two dashboards: the summaries cache of each, the trash view, and the handlers of
`ListsLayout`, which continue after their await with the dashboard, and the knowledge whether the
trash had been looked at, of the moment they started. `offers` are the toasts with an Undo. A
request reads and commits apart, as in `ListPage`, and so do `others`; `created_at` is the start of
the transaction (`begun`); an order holds the rows it read (`Locked`, their FOR UPDATE); a purge
reads the trashed list without a lock and deletes it later, whatever became of it. Gaps per
dashboard: `lateGet`, `crossed`, `doubled`, `partial`, `stray`, `last`, `unanswered`, `rolledback`,
`purged` (a list was restored between the read of a purge and its commit); of the trash view:
`lateTrash`, `failedTrash`, `unseen`, `refused`, `theirs` and `again` (a restore was answered when
the list was back in the trash). A request for an order keeps the rows it was drawn on, and whether
they were `stray`, because its roll-back brings them back. `last` is a created or restored list
shown behind one that the server puts after it.

### OccurrenceStore, CalendarPage, MCCalendarPage, and DayCoverage

`OccurrenceStore` has the operators of the interval cache (`addInterval`, `gapsIn`, `trim`,
`runLoad`, `loadWindow`, `reload`, reconciliation) on an entry record; a request is named by its
interval, and a *load* is the set of requests its `Promise.all` waits for. `CalendarPage` composes
it with the readers on screen (the month page, or the board's calendar and agenda tiles), the event
details, the editor, the trash panel, the stream and the server. A write reads the event it needs
(`Load`), or is refused (`Reject`), and commits later by its id without having locked it (`Commit`);
an edit writes the time only if it differs from what was read, and reads the event back for its
answer (`Refresh`). Other people's do the same (`Theirs`, `TheirCommit`, `TheirLoss`). So an edit may
land on an event binned meanwhile, and a purge on one restored. A reader that goes away or moves
changes the windows watched, and with them what an invalidation reloads. Time is in days: a month
has 2 and its window 3, so that neighbours share a day as the 42-day grids do. Gaps of an entry:
`late`, `masked`, `evicted`, `unanswered`, `stray`, `purged`; of the panel: `late`, `moved`; `behind`
names the events whose details an older answer restored, an answer kept though the event was binned
meanwhile, or a purge deleted after a restore.

`DayCoverage` is the abstract cache: a set of days held and a set of runs of days asked for. A held
day is not asked for again unless everything was forgotten, an answer makes its days held, a failure
none, and what is given up for the cap is never what just came in. `CoverageRefined` says that the
intervals of `CalendarPage` implement it, with `Covered` and `DaysOf` as the refinement mapping.

## 3. The runs

A property that a run names is often the conjunction of named parts, which belong to one idea and
are stated one by one in the module:

| Property | Parts |
|---|---|
| `SseManager!QueuesSound` | `TypeOK` (the queue bound included), `OnePendingResync` |
| `SseManager!StreamsProgress` | `EveryFrameSettled`, `RevokedStreamEnds` |
| `SseFanout!DeliveriesSound` | `TypeOK`, `NoDoubleDelivery` |
| `ScopedQuery!CacheSound` | `TypeOK` (the order of insertion is a total order of the keys held), `FetchIsolation`, `SpinnerEnds` |
| `LayoutEditor!VersionsSound` | `TypeOK`, `VersionNamesContent` |
| `LayoutEditor!SavesHarmless` | `FreshSavesHarmless`, `MergeKeepsAdded` |
| `LayoutEditor!SessionsSettle` | `SavesSerialized`, `SettledOrGap` |
| `DashboardAccess!DashboardSound` | `TypeOK`, `OwnerIsLive`, `OwnerHasNoShare`, `LiveIsIntact` |
| `AuthSession!SessionsSound` | `TypeOK`, `RetryEndsItsOwn`, `RevokedStaysHidden` |
| `AuthSession!TabMatchesCookie` | `IdentityMatches`, `SignedOutMeansOut` |
| `ListPage!RowsSound` | `TypeOK`, `RowsOnce`, `DragKeepsPile`, `RetypedIsRevived` |
| `ListsSidebar!SidebarSound` | `TypeOK`, `ListsStayHome`, `OrdersAreWhole` |
| `CalendarPage!CacheSound` | `TypeOK`, `CoverageSound` |
| `CalendarPage!ReadersTruthful` | `ReadersSettle`, `FailureShows` |
| `CalendarPage!EditorCurrent` | `EditorIsLatest`, `DetailsFresh` |

| Run | Instance | Shows |
|---|---|---|
| `sse_manager` | 2 streams of 2 users, queues of 2, 4 frames | no loss, one outstanding resync, order, mute after revocation; every frame settles and revoked streams end |
| `sse_reconnect` | 1 stream, 2 writers, 2 events, queue of 1, scope limit of 1 | an open, drained tab lacks an event only through a named gap |
| `sse_fanout` | 2 workers, 2 frames, stream length 1 | losses only through named gaps, doubles only through a doubled XADD |
| `sse_fanout_outage` | 2 workers, 1 frame | what was missed during an outage is repaired |
| `scoped_query` | cap 1, 2 lists, 2 writes, 2 sessions | isolation of sessions, spinners end, pinned entries survive, losses recorded |
| `layout_editor` | 2 drags, 2 foreign writes, a widget of a list among two | fresh saves are harmless, merges keep additions, versions name contents, settled tabs are current |
| `layout_sessions` | 2 drags, 1 own widget change, 1 failure, 2 sessions of 2 users | one drain per session, every pending layout has one, and the previous user's frames are no echoes |
| `dashboard_access` | a creator and 2 others, 2 codes, 3 concurrent requests | living owners, no stranded members, codes spent once, no downgrade; access lost only with authority or through an outdated commit |
| `auth_session` | 3 accounts, 2 sessions at the start, 3 requests, 2 in flight, 1 fault | tab and cookie agree, sign-outs end their own session, revoked sessions stay hidden, nobody is replaced unasked, waits end |
| `list_page` | 3 rows and 2 to come, 2 requests, 1 foreign write, 1 fault | the screen settles on the server's rows; no row twice; failed texts kept; drags keep the pile; typed names revive; new rows come in the order they were begun in |
| `lists_sidebar` | 2 dashboards, 4 lists and 2 to come, 4 events of 2 requests, 2 switches, 1 foreign write, 1 fault | sidebars and trash settle; lists stay on their dashboard; orders are whole; the trash's spinner ends |
| `calendar` | 2 dashboards, 3 events, 3 months, cap of 4 days, pages of 1 row | readers settle, failures show, details and editor are current, drafts survive a refusal, spinners end, and the intervals implement `DayCoverage` |

**Bounds.** They are the smallest at which the interesting cases happen: a queue of 2 overflows with
a third frame and then fills again behind the resync; a stream of length 1 is trimmed under every
slow reader; a cache of 1 has to evict or to find everything pinned at each insertion; 2 drags give
one save in flight and one pending, and with a foreign write the second is sent on a version it was
not drawn on; a second foreign write lets a list be deleted after the co-editor's save, and a list
widget lets that fall between the two reads of the answer to a save or a GET (that of an own widget
change is read in the same way, which the proof covers: together with a foreign write it is beyond
TLC in `layout_sessions`); 2 events of 2 writers commit in either order; 3 requests are two that
race and the one that made the race possible, or a third party (a deletion, a transfer and a
redemption), and the creator may start with any membership and any codes. In `calendar` the cap of 4
days is less than two months apart, so every distant answer evicts; a page of one trashed event
makes every second row an older page. In the list runs one own request and one foreign one suffice
for two transactions to read and commit in any order; two to come let two creates begin in one order
and commit in the other. Each bound is a constant of its module. `Menus` (`AuthSession`, `ListPage`,
`ListsSidebar`) and `Scenarios` (`CalendarPage`) bound which operations one behaviour combines: the
sets pair each operation with those that read or write the same state, and all of them together use
every one. Every property has a mutant of the code (a dropped guard, a missing drain, a skipped
entry) that TLC refutes under the same configuration, which shows that the instance reaches the
case.

**Fairness.** `SseManager!FairSpec` has weak fairness on the steps of each generator: its
awaits are bounded by 5 s timeouts, and the client is assumed to keep reading (one that does
not is ended by the transport, `GenEnd`, for which no fairness is assumed). `SseFanout!FairSpec`
has weak fairness on starting an XREAD and strong fairness on its success: the loop never ends,
and an outage does not last for ever. `AuthSession`, `ListsSidebar` and `CalendarPage` assume that
a request is served and its answer, or its failure, arrives: the browser settles every promise of
a `fetch`. Nothing is assumed of users, of other people or of faults.

**Deadlock** is checked in the other runs; `LayoutEditor` has a `Rest` step for a settled tab with
its budgets used up, `DashboardAccess` a `Quiet` step for a server on which every request has ended.
`ListPage`, `ListsSidebar` and `CalendarPage` may stop, when the user does. A cycle among the two
kinds of locks it models would be reported; there is none.

## 4. Where the code departs from what it says

TLC showed the following while the modules were written. They are gaps of the passing runs, or lie
outside what their properties claim.

The stream, the cache and the board:

* an event during the first GET sets `stale`; the GET settles with older data, and nothing looks at
  the flag while the component stays mounted (`scopedQuery.ts:204`, against "the eventual GET
  resolves with pre-event data forever" being what it avoids);
* with all other entries pinned `ensureEntry` evicts the entry it has just inserted
  (`scopedQuery.ts:81`, against the comment at line 102);
* `rebaseLayout` overlays every entry of the tab's array and moves the co-editor's widget back
  (`dashboard.ts:125`, against line 110);
* a list deletion writes back a layout and a version it read before it held the lock
  (`dashboard_widgets.py:30`, against ADR-008:39-40; the gap `raced`);
* the row and the widgets of a board are read in two statements (`dashboards.py:690-691`, `768-769`,
  `948-949`, `1086-1087`): a list deleted between them leaves a tab at a version with an entry for a
  widget it does not have (`torn`), and no refresh follows, because the list's frame finds no widget
  to drop;
* a frame broadcast between the head read and `manager.connect` (`window`, `routers/sse.py:195`)
  reaches neither a queue nor a resync, although FDR-008 (section 5) has it that "a reconnect
  proves it missed nothing";
* a reconnect without a mark gets no resync (`unmarked`, `routers/sse.py:61`); a stream cut
  between `connected` and its resync has already advanced the mark (`cut`, `useSSE.ts:218`); a
  tab that lost access to a dashboard while away is not told, because the scopes are computed
  from what it can see now (`hidden`, `routers/sse.py:79`);
* a failed publish is repaired only by a reconnect whose mark is older than the head
  (`unpublished`, `broker.py:152`), and a reader that has seen no entry asks for `$` again after
  each empty XREAD (`dollar`, `broker.py:198`);
* a GET read before one's own mutation overwrites the patch (`overwritten`,
  `scopedQuery.ts:164`); a mutation that answers after the next sign-in seeds the new session's
  cache (`listData.ts:155`);
* a coalesced drag is sent with the version held at send time and can strip the slot of a widget
  added meanwhile (`dashboard.ts:555`, ADR-008:32); a merge brings back the entry of a deleted
  widget (`dashboard.ts:129`); a tab's own widget change makes its own save conflict
  (`dashboard.ts:628`); an older response replaces a newer board (`dashboard.ts:591`); a failing
  save of an earlier session clears the pending layout of the next (`dashboard.ts:600`);
* all of these set `outdated`: of two transfers by the same owner the second takes the dashboard
  from the first one's new owner, who is left with no row (`routers/dashboards.py:1266`); a
  member who leaves and joins again while being made owner keeps a share row, and one who has
  just left can still be made owner; a purge loaded from the trash deletes a dashboard restored
  meanwhile ("Owner-only and trashed-only", `routers/dashboards.py:664`); a restore between two
  statements of the reaper gets a dashboard without its lists (`retention.py:104-124`, against
  "shares and children intact", `dashboards.py:616`); a redemption in flight writes a row for an
  account deleted meanwhile, because `accept_invite` holds the dashboard's row and not the
  account (`models/share.py:81`, "nothing here ever dangles").

Sessions:

* `init`'s answer is applied without a look at the generation, after a sign-in as well
  (`lateInit`, `stores/auth.ts:73`); the late answer of a sign-out or a deletion clears the next
  session's cookie (`lateClear`); signing up while signed in leaves the earlier cookie and caches
  in place (`registered`, `stores/auth.ts:94`);
* a verification link is followed without asking when the status is `unreachable`
  (`VerifyEmailPage.tsx:29`); the buttons of the profile stay held when their answer comes after
  the generation moved and the page is still there (`heldOver`, `ProfilePage.tsx:107`,
  `SessionsPanel.tsx:25`);
* `pendingInviteCode` is written and never read, though `InvitePage.tsx:44` has it survive the
  round trip through the sign-in.

Lists:

* the second row of a list shares the first one's `sort_order`, because `(max or -1) + 1` takes a
  maximum of 0 for none, against "so concurrent creates don't pick the same sort_order"
  (`routers/lists.py`, `create_item`). What decides then is `created_at`, the start of the
  transaction (`base.py:14`), which precedes the wait for the list's lock: a create that waited
  sorts before one that committed earlier. What is true is that it comes behind every row begun
  before it (`AppendsInOrder`);
* `update_item` reads without a lock, and what it sets is not written when the row had that value
  when it was read (`lists.py:565-571`); its frame carries the value all the same, so the other tabs
  show it although somebody changed it in between (`skipped`);
* of two texts submitted one after the other that both fail, the second one's failure puts its text
  over the first, which is then nowhere, although nobody typed over it (`owed.over`,
  `AddItemForm.tsx:79` and `:108`, against "Both throw on failure so the add box can put the typed text
  back", `ListWidget.tsx:59-60`);
* a purge reads the trashed list without a lock and deletes it by id later: a list restored in between
  is deleted while it is live, and stays in every sidebar (`purged`, `routers/lists.py:389`, against
  "Broadcasts nothing; the list is already gone from every view but the trash", 375-379);
* a failed add puts its text back over what was typed since; the answer of a rename closes an editor
  opened since; Enter followed by the blur it causes submits a rename twice;
* a GET that brings a created row before the answer of its create doubles it (`doubled`); a failed
  reorder is rolled back over what arrived meanwhile (`rolledback`); two creates answered in the
  other order than they were begun in stay that way round until the next GET, because `addListItem`
  appends (`crossed`, `listData.ts:226`); a restored list is shown last though it keeps its
  `sort_order`, and so is a list created while one that belongs behind it is shown (`last`,
  `listData.ts:213`);
* the trash of the dashboard left behind may be shown under the next one (`lateTrash`,
  `ListsLayout.tsx:107`), and a restore from it patches the wrong sidebar (`stray`); the first of
  two trash loads ends the loading of both; `trash !== EMPTY_TRASH` is read when the handler starts;
* the answer of a restore takes its list out of the trash view (`ListsLayout.tsx:210`) although the
  list was deleted again and the view loaded again before that answer came (`again`). Beyond the
  bounds of `lists_sidebar`: the proof of `TrashViewSettles` failed on it, and TLC confirmed it with
  three switches;
* a navigation that names another dashboard is sent back by the URL effect (`ListsLayout.tsx:88`).

Calendar:

* "A failed window fetch must not render as an eventless month" (`CalendarPage.tsx:320`): there is
  one error for all windows of a dashboard, and a load of another one clears it (`masked`,
  `occurrenceStore.ts:212` and `:216`); conversely it stays on screen over a window that is covered;
* `trim` keeps what is nearest to the answer that came last, not what is on screen (`evicted`), and
  months scrolled through one after another merge into a single interval, which it never drops,
  although its comment names this case (`occurrenceStore.ts:139-143`);
* an invalidation joins a request for the same interval that was already served, and a request of
  before it counts as coverage when it arrives later (`late`);
* `loaded` is per dashboard, so a tile passes for loaded before its window is; the first of two
  loads ends the spinner of both;
* likewise a purge deletes an event restored since it read it, and tells nobody (`purged`,
  `calendar.py:695`, against "the event is already invisible outside the trash view", 681-685);
* a save answered after its editor was closed closes the editor opened since
  (`CalendarPage.tsx:224`); details fetched before a change are kept when they arrive after it
  (`behind`, `calendarData.ts:75`);
* `update_event` and `delete_event` check an unlocked read and write by id later
  (`calendar.py:463-516`, `623-628`): an edit lands on an event that somebody binned meanwhile, and its
  answer is kept as the details of an event nobody can open (`behind`, `calendarData.ts:95-96`);
* while the trash is tried again the panel says that nothing is in it (`CalendarTrashPanel.tsx:33`
  before `:113`), against the comment at line 38; a late failure for the dashboard left behind is
  shown under the next; older pages asked for during a reload are put after rows they do not follow
  (`late`, against "each page disjoint", line 52).

## 5. What is proved

### The connection manager

The first part of `SseReconnectProofs` proves for all sets of streams, users and sessions, all queue
sizes and any number of frames, from `QueueMaxAssumption` and the typing of `UserOf` and `SessionOf`
only:

* `TypeCorrect`: `Spec => []TypeOK`, which includes that no queue exceeds its bound;
* `FramesNeverLost`: `Spec => []NoFrameLost`;
* `ResyncPendingExact`: `Spec => []OnePendingResync`;
* `QueuesStaySound`: `Spec => []QueuesSound`, the first and the third together;
* `RevokedNeverYields`: `Spec => RevokedStreamIsMute`, an action property;
* `FramesStayInOrder`: `Spec => []DeliveredInOrder`.

The invariants are not inductive by themselves. `broadcast` drops a frame whenever
`resync_pending` is set, so the argument has to know that the flag is never set without a
sentinel or a generator about to yield the resync, and never clear while one is outstanding.
`IInv` is `TypeOK` and, for each stream: `Blank` (a free slot owes nothing and has an empty
queue), `Live` (a registered stream has a generator), `PendingShape` (what the queue looks like
under each value of the flag), `Covered` (each owed frame is queued or a resync is pending) and
`MuteQueue` (a dropped stream's queue holds no event). Each is per stream, so a step is split by
whether it concerns the stream in question (`OtherStream`) or not, with one step per action.
`DeliveredInOrder` is about what was yielded and rests on what is queued: the frames of a queue
ascend, they come after what the stream was last handed, and none is one still to be broadcast
(`InOrder`, inductive under `IInv`).

### Reconnects

The second part of `SseReconnectProofs` proves the property of `sse_reconnect` for all sets of
writers and slots, any number of events and frames, all queue sizes, scope limits and transport
buffers:

* `ReconnectLosesOnlyNamed`: `RSpec => []SilentLossesNamed`.

It rests on the manager's proof: every step of `RNext` is one of the manager's or leaves its
variables alone (`ManagerStep`), so `IInv` and `InOrder` hold here too and say which frames a queue
still owes. `RInv` adds two things.

* `Soundly`, what holds whether or not anything was lost. Every id a mark, a head or a frame carries
  is one of the log's (`IdsKnown`); a transaction's id is its own and unsent (`WritersApart`); the
  mark of the next request is no younger than the tab's, and present if the tab's is (`MarksAgree`);
  and per slot, the handler and its generator agree (`Handled`), the request carried a mark no
  younger than the tab's and read a head no older (`AskedRight`), and the wire starts with the
  connected frame, which the resync it promises follows (`WireShape`).
* `Accounted`, what becomes of each stale event. It is in a named gap, or it is `Pursued`: nothing
  newer was sent before it (`InTurn`), and either something newer has been by now, so that its own
  send will name it (`Late`), or the tab is on its `Trail`. That is: the tab's mark has not passed
  it, or the resync the tab is about to read clears it (`Unmarked`); no frame on the wire takes the
  mark past it before what clears it (`WireSafe`); and the stream still owes its frame or a resync
  that names it (`Due`).

`SilentLossesNamed` alone is not inductive because it speaks of drained streams only; `Accounted`
has to survive every moment before, in particular the ones between reading the head, the events
after the mark and the scopes, each of which other requests may separate. Two of its parts are
needed together at every yield: without `InTurn` a frame could advance the mark past an older event
still queued, and without `WireSafe` the mark could advance through a frame already sent. TLC checked
the parts of `RInv` as invariants on the instance of `sse_reconnect` before they were proved.

### Fan-out between workers

`SseFanoutProofs` proves both invariants of `sse_fanout` for all sets of workers, stream lengths,
batch sizes and numbers of frames, from the module's assumptions on these constants only:

* `FanoutLosesOnlyNamed`: `Spec => []FanoutLossesNamed`;
* `FanoutDeliversSoundly`: `Spec => []DeliveriesSound`, with `FanoutTypeCorrect` for its types.

`FanoutInv` follows a frame from `publish` to the clients. `ReadersResume`: a blocked XREAD asks for
what follows the last entry its reader was handed (`Position`, which looks through `$`).
`MissingAccounted`: a frame a client lacks is about to be added by a sibling, has fallen into a
named gap, or is an entry beyond its worker's position, so that with nothing pending and nothing to
read only the gaps are left. `SentTraced` is its converse for what a client was sent: the frame was
read from the stream, or is the worker's own, which no sibling's entry carries; `NoDoubleDelivery`
needs it at each batch. Trimming and failing XADDs are the steps that move frames between these
cases.

### The query cache

`ScopedQueryProofs` proves the three properties of `scoped_query` for all sets of keys, every cap
and any number of writes and sign-ins, from `ScopedQueryAssumption` only:

* `CacheStaysSound`: `Spec => []CacheSound`;
* `LossesStayRecorded`: `Spec => []LossesRecorded`;
* `PinnedAlwaysSurvive`: `Spec => PinnedSurvive`, an action property.

`LossesRecorded` speaks of settled entries only, so `QInv` has to say what holds while frames,
requests and responses are under way. `Accounted`: each committed write that data lacks is pending
(a frame or a response will bring it) or in a named gap, unless the entry is `Repaired`, that is, a
request, a mark or an error is on it. `Awaited`: a held entry without data is `Repaired`, which is
needed because the response of a create gives data to an entry that had none (`AppendRow`) and its
row alone must not count as all there is. `MapSound` carries the typing and the order: `older` is a
strict total order of the keys held, through insertion, touching and eviction (`EvictSound`,
`EnsureSound`, `MovedOrdered`), and an entry not held says nothing. The lemmas of the first part
are about the operations of the cache, from a cache to the cache each leaves, and say what happens
to the other entries: they are kept as they are, or evicted when nothing pins them. `CacheStep`
turns that into the invariant for every key but the one the action concerns, and the lemmas per
action are about that one. TLC checked the parts of `QInv` on the instance of `scoped_query` before
they were proved.

### Layout editing

`LayoutEditorProofs` proves every property of `layout_editor` and `layout_sessions` for all boards,
users and bounds, from `LayoutEditorAssumption` only:

* `VersionsNameContent`: `Spec => []VersionsSound`;
* `SavesDoNoHarm`: `Spec => []SavesHarmless`;
* `SavesAreSerialized`: `Spec => []SavesSerialized`;
* `SettledTabsAreCurrent`: `Spec => []SettledOrGap`;
* `SessionsStayApart`: `Spec => []SessionsSettle`, the last two together.

The inductive invariant `LayoutInv` has six parts.

* `Shapes`: the types of every record under way.
* `WidgetsLive`: a widget id is handed out once, so the widget of a list that is gone, and the one
  an addition under way will create, are not on the board.
* `Contents`: what a version says, as long as no list deletion `raced`. A board that was read and
  has the row's version is the row (`BoardTrue`); what the tab holds is, if its oldest part has
  (`HeldTrue`); a draft, a pending job or a job in flight drawn on such a board differs from the row
  only in what was dragged (`SketchTrue`, by `Harmless`); a merged one is sent with the version it
  was merged with and covers the row's entries (`MergeTrue`). Each transaction gives the row a
  version it never had, so all of this survives the row moving on.
* `SavesHarmless` itself: what was recorded so far.
* `DrainsAlone`: the `saving` flag is up exactly while the session has a drain, there is one at
  most, and a pending layout has one. Drains of earlier sessions are told apart by their generation.
* `Debts`: as long as no gap is recorded, every board older than the row, held, on its way or read
  in part, is followed by something that will replace it: a load or a call that will read or carry a
  newer one, a frame that is no echo of an own write, or a list frame for one of its widgets
  (`News`, `Drops`). At rest nothing of the kind is left, so the held board is the row.

`Debts` is the subtle part: the tab skips the frame of its own save, so the answer of that save, or
what follows its loss, has to be shown to be still to come; and a board whose row has been read is not
what its widgets will be read of, so `WidgetsRead` has to be shown to lose only what a list frame
still under way will drop, or to record `torn`.

### Dashboard access

`DashboardAccessProofs` proves every property of `dashboard_access` for all sets of users, codes
and concurrent requests, from `AccessAssumption` (the creator is a user) only:

* `AccessTypeCorrect`, `OwnerStaysLive`, `OwnerIsAbsenceOfShare`, `LiveStaysIntact`: the
  invariants `TypeOK`, `OwnerIsLive`, `OwnerHasNoShare`, `LiveIsIntact`, and
  `DashboardStaysSound`: `Spec => []DashboardSound`, all of them together;
* `DeletionSparesMembers`, `RedemptionNeverLowers`, `RedemptionSpendsTheCode`,
  `LossIsAuthorized`: the action properties.

None of them is inductive. That a transfer's new owner is alive when it commits depends on no
deletion of that account being past its lock, and that a deletion strands nobody on no
redemption having decided. `IInv` therefore says that a lock has one holder
(`AccountExclusive`, `RowExclusive`) and that what was decided under it stays true until the
commit: `TargetIsLive` for a transfer, `DeleterIsAlone` for a deletion, `RedeemerGains` for a
redemption; `TargetIsOther` keeps a transfer from deleting the row it grants. The subtle step is
a transfer: it changes the owner and with it who holds the row (`HoldsRow` of a deletion depends
on ownership), and `LocksReleased` shows that the new owner cannot be deleting the account. The
lemmas group the actions by what they disturb: a request that begins, aborts or moves on
(`BeginStep`, `AbortStep`, `MoveStep`), a commit that only takes roles away (`SharesShrink`), the
four commits that change the owner, grant a row, purge or delete an account, and the clock.
`LiveStaysIntact` needs one more invariant, `SweptIsGone`.

### Sessions

`AuthSessionProofs` proves the three safety properties of `auth_session` for all accounts, initial
sessions, menus and numbers of requests and failures, from `AuthAssumption` only:

* `SessionsEndSoundly`: `Spec => []SessionsSound`;
* `TabAndCookieAgree`: `Spec => []TabMatchesCookie`;
* `LinksAskFirst`: `Spec => SwapsConfirmed`, an action property.

What the tab shows changes when an answer arrives, so `AuthInv` says of every request under way
what its answer may do (`RequestTrue`): the cookie it sets is the empty one or a new session of the
account it names (`CookieSet`); an answer with somebody's data names the owner of the session it
was asked with, and a 401 means that this session is dead (`AnswerTrue`); and within one generation
the cookie changes at most to none (`InItsTime`), which is what makes the check of
`sessionGeneration` sufficient. A toast's offer is tied to its generation in the same way
(`ToastTrue`). `IdentityKept` and `SigningOut` are the two halves of `TabMatchesCookie`,
strengthened: the first holds of dead sessions too, the second names a sign-out of this generation.
`LinkAsked` says that the page about to follow a link has asked whoever it knew. The lemmas treat
the answers by what they disturb: those that leave the store alone (`KeptAnswer`), name somebody
(`NamedAnswer`), change the status (`StatusAnswer`) or only the panel (`PanelAnswer`), and the
boundaries (`SignedInStep`; `ExpiredStep`, a 401 of any request, sign-outs among them).

### One list

`ListPageProofs` proves for all texts and whatever counts as their spelling, all rows to start with,
all menus and any number of items, requests, failures and writes by others, from
`ListPageAssumption` only:

* `RowsStaySound`: `Spec => []RowsSound`;
* `FailedTextStays`: `Spec => []FailedTextKept`;
* `CreatedRowIsBehindOlder`: `Spec => AppendsInOrder`, an action property;
* `PageStaysSound`: `Spec => []PageInv`, the invariant they rest on.

`RowsOnce` and `DragKeepsPile` speak of the rows on screen and of requests under way, but rows reach
the screen from what a GET has brought, from the reply of a request and from the copy a failed order
goes back to. `PageInv` has a part for each of them.

* `ServerSound`: the types of the rows, of the log and of the transactions under way. An id is
  handed out when a create's transaction begins, so ids follow `created_at` and not the commits, and
  nothing says that a committed row is the newest. That a created row is behind every row begun
  before it needs only what its `(max or -1) + 1` says: it is no less than any other `sort_order`,
  and where it is equal `created_at` decides (`ViewBehind`: a GET's order follows `Before`;
  `NewBehindOlder`).
* `DetailSound`: an answered GET holds no row twice, and the screen holds one twice only with
  `doubled` or `rolledback` among the gaps.
* `ScreenSound`: an open row control is on a row that is shown, what a rename would send is a text,
  and `FailedTextKept`: a failed text is in the box, or was typed over, submitted again, or replaced
  by the text of a later failure, which is then among `owed.over`.
* `TrafficSound`: each request carries what its kind needs. For an order (`OrderSound`) the copy it
  would go back to holds no row twice if what it put on screen does not, and if checked rows are
  gathered in a pile, the ids it sends leave each of them in its place. For a create (`CreateSound`)
  the pile held no such name unless the suggestion had been dismissed. A reply is the row its
  request names.

The first lemmas are about orders of finite sets (`Ranks`: `InOrder` puts each member behind those
before it) and about what `Kept` and `Drop` return. `MovedSound` and `MergedSound` follow a drag:
moving one id, and merging the moved unchecked rows back between the checked ones
(`mergeActiveOrder`), yields each id once and moves no checked row; `SameIdsOnce` counts, to conclude
from equal length and equal sets that no id is there twice. The rest has one lemma for each way a
write lands on the server (`UpdateLands`, `DeleteLands`, `OrderLands`, `CreateLands`), one for what a
render does to the controls (`RerenderSound`) and one for each action. TLC checked `PageInv` on the
instance of `list_page` before it was proved.

### The sidebar of lists

`ListsSidebarProofs` proves for all dashboards, lists and kinds, all menus and any number of
requests, moves, failures and writes by others, from `ListsSidebarAssumption` only:

* `ListsStayWithTheirDashboard`: `Spec => []SidebarSound`;
* `TrashViewSettles`: `Spec => []TrashSettles`.

`ListsStayHome` is about the rows on screen, but rows also come from an answer not yet applied, from
the reply of a request and from the copy a failed order goes back to. `SidebarInv` says of each
where it may lead: what a GET has brought is its dashboard's (`HomeAt`), the reply is the row of the
list the request names (`Answered`), and the copy is at home unless it was drawn on rows that were
not, which the request remembers (`stray` of `Call`). The rest is the types of the server's rows and
of the transactions under way (`ServerSound`; `Reading` says what one has read), the trash
(`TrashSound`), the page (`ScreenSound`) and what is under way (`TrafficSound`). That an order is
`Whole` is shown where it is drawn: moving one id leaves the set of ids as it is (`MovedSound`, from
`RemovedSound` and `InsertedSound`). The lemmas of the first part are about orders of finite sets:
`InOrder` puts each member behind those before it (`Ranks`), so that what `Kept` and `ServerRows`
return has the rows one expects, in any number.

`TrashSettles` speaks of the moment when nothing is under way; `TrashInv` says what holds before
that. A list is apart, in the trash view and not in the trash or the other way round, only while a
request that moved it is still to be answered (`TrayTrue`): its answer will load the view again, take
the row out, or leave a named gap. An answered load not yet shown may lag behind writes whose numbers
are above its `asOf`, and a list that is apart from it has among these a number no request but one that
moved it carries (`LoadTrue`). If such a number is no request's any more when the load is shown, that is
the gap `lateTrash`; if it is, `TrayTrue` follows. For this `CallsKnown` has the numbers of requests
within the log, and the list of a purge that was answered gone for good.
The rest is one lemma for each way a step touches the trash: not at all (`TrashStill`), by a request
sent or answered that the view does not wait for (`TrashAsked`, `TrashAnswered`), by a load
(`LoadStarts`, `TrashArrives`), by a row taken out (`TrashTakenOut`) and by a write (`CommitTrash`,
`ForeignTrash`). TLC checked `TrashInv` on the instance of `lists_sidebar` before it was proved.

### What is only model-checked

* Liveness (`StreamsProgress`, `OutageRepaired`, `WaitsEnd`, `TrashLoadEnds`, `SpinnersEnd`), which
  needs fairness and `ENABLED`, and deadlock freedom.
* That live rows converge on the server: `ScreenSettles` of `ListPage`, `SidebarSettles` of
  `ListsSidebar`. `ScopedQueryProofs` has the like for *which* writes an entry
  includes; here the invariant would have to give the contents and the order of the rows after any
  subset of the frames and answers under way, each applied in its turn.
* Everything about `CalendarPage`, its refinement of `DayCoverage` included.
* What `addInterval`, `gapsIn` and `trim` compute for lists of intervals of any length, which needs
  induction over sequences.

## 6. What is not modelled

* Several workers' managers together: revocation on one worker of a stream held by another
  waits for the stream's next revalidation.
* In `ScopedQuery`, several caches and the calendar's and notifications' patches; in
  `LayoutEditor`, widget configuration, grid geometry and navigation to another dashboard.
* In `DashboardAccess`, more than one dashboard (the order in which a deletion locks several), a
  dashboard created by a request of an account that is being deleted, preferences and frames.
* In `AuthSession`, a second tab that shares the cookie, CSRF tokens, the expiry of sessions and
  the tokens sent by mail.
* In the list and calendar modules, the end of a session (`resetOccurrences`, `resetListData`;
  `ScopedQuery` has it for the query cache), toasts that expire, and identical own calls sent
  twice. A confirmation dialog and the click that opens it are one step.
* In `CalendarPage`, the expansion of recurrences and the overrides of single occurrences (the
  server's; this client calls no endpoint for the latter), the editor's draft, the agenda's
  reminders. An event is one interval of days. The fallback for batches wider than the cap is in
  `loadWindow`, but the windows the application asks for never reach it.
* Notifications, quotas, grid placement, the summaries and the navigation between dashboards of
  `stores/dashboard.ts`; see the plan.
* E-mail, metrics, middleware, configuration: I/O without state of their own. Styling:
  rendering. Schema and migrations: declarative.

## 7. Plan

In order of importance:

1. Proofs: `EditorCurrent` and `CacheSound` of `CalendarPage`, then `ScreenSettles` of `ListPage`
   and `SidebarSettles` of `ListsSidebar`.
2. *Navigation and summaries* (`stores/dashboard.ts`): queued reloads and serials, and the answers
   of widget requests that arrive after another dashboard was opened (lines 91 and 619).
3. *Notifications*: unread counts and the grouped feed against frames.
4. *Grid placement*: `_first_free_slot`, `_fit_widget` against a reference definition.
5. The remaining passes of *retention*; a second tab in `AuthSession`.
