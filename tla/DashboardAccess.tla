-------------------------- MODULE DashboardAccess ---------------------------
(***************************************************************************)
(* Who may see one dashboard: its row, its share rows, its invites and the *)
(* accounts behind them, under concurrent requests (routers/dashboards.py, *)
(* routers/invites.py, services/shares.py, services/invites.py,            *)
(* services/accounts.py, services/retention.py).                           *)
(*                                                                         *)
(* Transactions run READ COMMITTED.  A request authenticates and loads     *)
(* what it decides on, without a lock, and writes later; what it writes    *)
(* becomes visible at its commit.  The locks that outlive a statement are  *)
(* the dashboard row taken FOR UPDATE (accept_invite, account deletion)    *)
(* and the advisory lock of an account (transfer, account deletion).  A    *)
(* request that writes the row waits for its holder.  Preferences, the     *)
(* activity log, notifications and frames are left out: they follow from   *)
(* the writes modelled here and decide nothing.                            *)
(***************************************************************************)
EXTENDS Naturals, FiniteSets

CONSTANTS
  Users,
  Creator,      \* the user who created the dashboard
  Requests,     \* slots for concurrent requests
  Invites,      \* the codes that may ever be minted
  MaxRequests   \* bound on the requests ever made

ASSUME AccessAssumption == Creator \in Users /\ MaxRequests \in Nat

VARIABLES
  owner,    \* Dashboard.user_id
  state,    \* "live", "trashed", "expired" (past trash_retention_days), "gone"
  intact,   \* its lists and events are all there
  shares,   \* shares[u]: the row of u, role "none" without one; id tells rows apart
  invites,  \* invites[i]: the code's row
  alive,    \* accounts without a tombstone
  req,      \* req[r]: the request in slot r
  reaper,   \* "idle", or "swept" between the reaper's deletions
  started,  \* requests made so far
  outdated  \* history: some commit acted on what was no longer so

vars == <<owner, state, intact, shares, invites, alive, req, reaper, started, outdated>>

Roles == {"viewer", "editor"}
Rank(role) == IF role = "editor" THEN 2 ELSE IF role = "viewer" THEN 1 ELSE 0

Idle == [op |-> "none", pc |-> "idle", actor |-> Creator, who |-> Creator, role |-> "viewer",
         inv |-> {}, seen |-> 0]
Request(op, u) == [Idle EXCEPT !.op = op, !.pc = "loaded", !.actor = u, !.who = u]

-----------------------------------------------------------------------------
(* effective_role, with "none" for its 404.                                  *)
EffectiveRole(u) == IF owner = u THEN "owner" ELSE shares[u].role

(* load_dashboard_access cannot see a trashed dashboard.                     *)
CanSee(u) == state = "live" /\ EffectiveRole(u) # "none"
CanManageShares(u) == state = "live" /\ EffectiveRole(u) = "owner"

(* The owner's own loader of restore and purge.                              *)
InTrashOf(u) == state \in {"trashed", "expired"} /\ owner = u

(* create_share: an upsert; an existing row keeps its id.                    *)
CreateShare(table, u, role) ==
  [table EXCEPT ![u] = [role |-> role, id |-> IF @.role = "none" THEN @.id + 1 ELSE @.id]]

(* DELETE by primary key: no row, no effect.                                 *)
DeleteShare(table, u, id) ==
  IF table[u].id = id THEN [table EXCEPT ![u].role = "none"] ELSE table

NoShares(table) == [u \in Users |-> [table[u] EXCEPT !.role = "none"]]
NoInvites(table, S) ==
  [i \in Invites |-> IF i \in S THEN [table[i] EXCEPT !.state = "gone"] ELSE table[i]]

(* DELETE FROM dashboards, with its cascades.                                *)
PurgeDashboard ==
  /\ state' = "gone"
  /\ shares' = NoShares(shares)
  /\ invites' = NoInvites(invites, {i \in Invites : invites[i].state # "unissued"})

-----------------------------------------------------------------------------
(* Locks.  Both kinds are held until the transaction ends.                   *)
HoldsRowToDelete(r) ==
  req[r].op = "delete" /\ req[r].pc = "checked" /\ owner = req[r].actor

HoldsRowToAccept(r) == req[r].op = "accept" /\ req[r].pc = "decided"

HoldsRow(r) ==
  \/ req[r].op = "accept" /\ req[r].pc = "decided"
  \/ req[r].op = "delete" /\ req[r].pc = "checked" /\ owner = req[r].actor
HoldsAccount(r, u) ==
  \/ req[r].op = "transfer" /\ req[r].pc = "locked" /\ req[r].who = u
  \/ req[r].op = "delete" /\ req[r].pc \in {"locked", "checked"} /\ req[r].actor = u

RowFree(r) == \A s \in Requests \ {r} : ~HoldsRow(s)
AccountFree(r, u) == \A s \in Requests \ {r} : ~HoldsAccount(s, u)

Begin(r, q) ==
  /\ req[r] = Idle
  /\ started < MaxRequests
  /\ q.actor \in alive
  /\ req' = [req EXCEPT ![r] = q]
  /\ started' = started + 1
  /\ UNCHANGED <<owner, state, intact, shares, invites, alive, reaper, outdated>>

At(r, op, pc) == req[r].op = op /\ req[r].pc = pc
MoveTo(r, pc) ==
  /\ req' = [req EXCEPT ![r].pc = pc]
  /\ UNCHANGED <<owner, state, intact, shares, invites, alive, reaper, started, outdated>>
End(r) == req' = [req EXCEPT ![r] = Idle] /\ UNCHANGED <<reaper, started>>
Outdated(b) == outdated' = (outdated \/ b)
(* An error response, or nothing to do.                                      *)
Abort(r) == End(r) /\ UNCHANGED <<owner, state, intact, shares, invites, alive, outdated>>

-----------------------------------------------------------------------------
Init ==
  /\ owner = Creator
  /\ state = "live" /\ intact = TRUE
  /\ \E member \in [Users -> Roles \cup {"none"}] :
       /\ member[Creator] = "none"
       /\ shares = [u \in Users |-> [role |-> member[u],
                                     id |-> IF member[u] = "none" THEN 0 ELSE 1]]
  /\ \E role \in [Invites -> Roles], S \in SUBSET Invites :
       invites = [i \in Invites |-> [state |-> IF i \in S THEN "live" ELSE "unissued",
                                     role |-> role[i], by |-> Creator]]
  /\ alive = Users
  /\ req = [r \in Requests |-> Idle]
  /\ reaper = "idle"
  /\ started = 0
  /\ outdated = FALSE

-----------------------------------------------------------------------------
(* Members *)
LeaveDashboard(r, u) ==
  /\ CanSee(u) /\ EffectiveRole(u) # "owner"
  /\ Begin(r, [Request("leave", u) EXCEPT !.seen = shares[u].id])

LeaveCommits(r) ==
  /\ At(r, "leave", "loaded")
  /\ shares' = DeleteShare(shares, req[r].actor, req[r].seen)
  /\ UNCHANGED outdated
  /\ End(r)
  /\ UNCHANGED <<owner, state, intact, invites, alive>>

DeleteDashboardShare(r, u, v) ==
  /\ CanManageShares(u) /\ shares[v].role # "none"
  /\ Begin(r, [Request("remove", u) EXCEPT !.who = v, !.seen = shares[v].id])

RemoveCommits(r) ==
  /\ At(r, "remove", "loaded")
  /\ shares' = DeleteShare(shares, req[r].who, req[r].seen)
  /\ Outdated(owner # req[r].actor)
  /\ End(r)
  /\ UNCHANGED <<owner, state, intact, invites, alive>>

UpdateDashboardShare(r, u, v, role) ==
  /\ CanManageShares(u) /\ shares[v].role \notin {"none", role}
  /\ Begin(r, [Request("update", u) EXCEPT !.who = v, !.role = role, !.seen = shares[v].id])

(* An UPDATE that finds no row is an error (StaleDataError).                 *)
UpdateCommits(r) ==
  /\ At(r, "update", "loaded")
  /\ LET v == req[r].who IN
     IF shares[v].role # "none" /\ shares[v].id = req[r].seen
     THEN /\ shares' = [shares EXCEPT ![v].role = req[r].role]
          /\ Outdated(owner # req[r].actor)
          /\ End(r)
          /\ UNCHANGED <<owner, state, intact, invites, alive>>
     ELSE Abort(r)

-----------------------------------------------------------------------------
(* transfer_dashboard_ownership *)
TransferLoads(r, u, v) ==
  /\ CanManageShares(u) /\ v # u /\ shares[v].role # "none"
  /\ Begin(r, [Request("transfer", u) EXCEPT !.who = v, !.seen = shares[v].id])

TransferLocksNothing(r) ==
  /\ At(r, "transfer", "loaded")
  /\ MoveTo(r, "locked")

(* lock_live_user: a tombstone is a 409.                                     *)
TransferLocks(r) ==
  /\ At(r, "transfer", "loaded")
  /\ AccountFree(r, req[r].who)
  /\ IF req[r].who \in alive THEN MoveTo(r, "locked") ELSE Abort(r)

TransferDropsOldOwner(r) ==
  /\ At(r, "transfer", "locked")
  /\ RowFree(r)
  /\ IF state = "gone" THEN Abort(r)
     ELSE /\ owner' = req[r].who
          /\ shares' = DeleteShare(shares, req[r].who, req[r].seen)
          /\ UNCHANGED outdated
          /\ End(r)
          /\ UNCHANGED <<state, intact, invites, alive>>

(* The three writes.  The row is updated by id, whoever owns it by now.      *)
TransferCommits(r) ==
  /\ At(r, "transfer", "locked")
  /\ RowFree(r)
  /\ IF state = "gone" THEN Abort(r)
     ELSE LET v == req[r].who IN
          /\ owner' = v
          /\ shares' = CreateShare(DeleteShare(shares, v, req[r].seen), req[r].actor, "editor")
          /\ Outdated(\/ owner # req[r].actor \/ state # "live"
                      \/ shares[v].role = "none" \/ shares[v].id # req[r].seen)
          /\ End(r)
          /\ UNCHANGED <<state, intact, invites, alive>>

-----------------------------------------------------------------------------
(* Invites *)
CreateInvite(r, u, i, role) ==
  /\ CanManageShares(u)
  /\ invites[i].state = "unissued" /\ \A s \in Requests : i \notin req[s].inv
  /\ Begin(r, [Request("invite", u) EXCEPT !.inv = {i}, !.role = role])

(* The INSERT's foreign key waits for a row held FOR UPDATE.                 *)
InviteCommits(r) ==
  /\ At(r, "invite", "loaded")
  /\ RowFree(r)
  /\ IF state = "gone" THEN Abort(r)
     ELSE /\ invites' = [i \in Invites |->
                           IF i \in req[r].inv
                           THEN [state |-> "live", role |-> req[r].role, by |-> req[r].actor]
                           ELSE invites[i]]
          /\ Outdated(owner # req[r].actor)
          /\ End(r)
          /\ UNCHANGED <<owner, state, intact, shares, alive>>

DeleteInvite(r, u, i) ==
  /\ CanManageShares(u) /\ invites[i].state # "unissued"
  /\ Begin(r, [Request("revoke", u) EXCEPT !.inv = {i}])

(* revoke_invite: only a row neither used nor revoked matches.               *)
RevokeCommits(r) ==
  /\ At(r, "revoke", "loaded")
  /\ IF \A i \in req[r].inv : invites[i].state \in {"live", "expired"}
     THEN /\ invites' = [i \in Invites |-> IF i \in req[r].inv
                                           THEN [invites[i] EXCEPT !.state = "revoked"]
                                           ELSE invites[i]]
          /\ Outdated(owner # req[r].actor)
          /\ End(r)
          /\ UNCHANGED <<owner, state, intact, shares, alive>>
     ELSE Abort(r)

(* load_live_invite                                                          *)
AcceptLoads(r, u, i) ==
  /\ invites[i].state = "live"
  /\ Begin(r, [Request("accept", u) EXCEPT !.inv = {i}, !.role = invites[i].role])

(* The row FOR UPDATE, then the shares: nothing is consumed by the owner, or *)
(* by a member whose role is as high.                                        *)
AcceptDecides(r) ==
  /\ At(r, "accept", "loaded")
  /\ RowFree(r)
  /\ IF /\ state = "live" /\ owner # req[r].actor
        /\ Rank(shares[req[r].actor].role) < Rank(req[r].role)
     THEN MoveTo(r, "decided") ELSE Abort(r)

AcceptCommitsUnchecked(r) ==
  /\ At(r, "accept", "decided")
  /\ shares' = CreateShare(shares, req[r].actor, req[r].role)
  /\ invites' = [i \in Invites |-> IF i \in req[r].inv
                                   THEN [invites[i] EXCEPT !.state = "used"] ELSE invites[i]]
  /\ Outdated(req[r].actor \notin alive)
  /\ End(r)
  /\ UNCHANGED <<owner, state, intact, alive>>

(* consume_invite is one UPDATE whose WHERE holds the liveness check.        *)
AcceptCommits(r) ==
  /\ At(r, "accept", "decided")
  /\ IF \A i \in req[r].inv : invites[i].state = "live"
     THEN /\ shares' = CreateShare(shares, req[r].actor, req[r].role)
          /\ invites' = [i \in Invites |-> IF i \in req[r].inv
                                           THEN [invites[i] EXCEPT !.state = "used"]
                                           ELSE invites[i]]
          /\ Outdated(req[r].actor \notin alive)
          /\ End(r)
          /\ UNCHANGED <<owner, state, intact, alive>>
     ELSE Abort(r)

(* Time passes: a code expires.                                              *)
Expire(i) ==
  /\ invites[i].state = "live"
  /\ invites' = [invites EXCEPT ![i].state = "expired"]
  /\ UNCHANGED outdated
  /\ UNCHANGED <<owner, state, intact, shares, alive, req, reaper, started>>

-----------------------------------------------------------------------------
(* Trash *)
DeleteDashboard(r, u) ==
  /\ CanManageShares(u)
  /\ Begin(r, Request("trash", u))

TrashCommits(r) ==
  /\ At(r, "trash", "loaded")
  /\ RowFree(r)
  /\ IF state = "gone" THEN Abort(r)
     ELSE /\ state' = "trashed"
          /\ Outdated(owner # req[r].actor)
          /\ End(r)
          /\ UNCHANGED <<owner, intact, shares, invites, alive>>

RestoreDashboard(r, u) ==
  /\ InTrashOf(u)
  /\ Begin(r, Request("restore", u))

RestoreCommits(r) ==
  /\ At(r, "restore", "loaded")
  /\ RowFree(r)
  /\ IF state = "gone" THEN Abort(r)
     ELSE /\ state' = "live"
          /\ Outdated(owner # req[r].actor)
          /\ End(r)
          /\ UNCHANGED <<owner, intact, shares, invites, alive>>

PurgeTrashedDashboard(r, u) ==
  /\ InTrashOf(u)
  /\ Begin(r, Request("purge", u))

(* The row is deleted by id, in the trash or not.                            *)
PurgeCommits(r) ==
  /\ At(r, "purge", "loaded")
  /\ RowFree(r)
  /\ PurgeDashboard
  /\ Outdated(owner # req[r].actor \/ state = "live")
  /\ End(r)
  /\ UNCHANGED <<owner, intact, alive>>

(* Time passes: the trashed dashboard reaches its purge deadline.            *)
Age ==
  /\ state = "trashed" /\ reaper = "idle"
  /\ state' = "expired"
  /\ UNCHANGED outdated
  /\ UNCHANGED <<owner, intact, shares, invites, alive, req, reaper, started>>

(* reap_expired_trash: each statement evaluates the deadline anew, the       *)
(* children's first, the dashboard's last.                                   *)
ReapChildren ==
  /\ state = "expired" /\ reaper = "idle"
  /\ reaper' = "swept"
  /\ UNCHANGED <<owner, state, intact, shares, invites, alive, req, started, outdated>>

ReapDashboard ==
  /\ reaper = "swept"
  /\ \A r \in Requests : ~HoldsRow(r)
  /\ reaper' = "idle"
  /\ intact' = FALSE
  /\ IF state = "expired" THEN PurgeDashboard ELSE UNCHANGED <<state, shares, invites>>
  /\ Outdated(state \in {"live", "trashed"})
  /\ UNCHANGED <<owner, alive, req, started>>

-----------------------------------------------------------------------------
(* delete_own_account *)
DeleteAccount(r, u) == Begin(r, Request("delete", u))

(* lock_account, the advisory lock: a second submit finds the tombstone.     *)
DeleteLocks(r) ==
  /\ At(r, "delete", "loaded")
  /\ AccountFree(r, req[r].actor)
  /\ IF req[r].actor \in alive THEN MoveTo(r, "locked") ELSE Abort(r)

(* lock_account, the owned rows FOR UPDATE, then shared_dashboards_owned_by. *)
DeleteChecks(r) ==
  /\ At(r, "delete", "locked")
  /\ owner = req[r].actor => RowFree(r)
  /\ IF owner = req[r].actor /\ state = "live" /\ \E v \in Users : shares[v].role # "none"
     THEN Abort(r) ELSE MoveTo(r, "checked")

(* delete_account                                                            *)
DeleteCommits(r) ==
  /\ At(r, "delete", "checked")
  /\ LET u == req[r].actor IN
     /\ alive' = alive \ {u}
     /\ IF owner = u THEN PurgeDashboard
        ELSE /\ shares' = [shares EXCEPT ![u].role = "none"]
             /\ invites' = NoInvites(invites, {i \in Invites : /\ invites[i].by = u
                                                              /\ invites[i].state # "unissued"})
             /\ UNCHANGED state
  /\ UNCHANGED outdated
  /\ End(r)
  /\ UNCHANGED <<owner, intact>>

-----------------------------------------------------------------------------
Loads(r, u) ==
  \/ LeaveDashboard(r, u) \/ DeleteDashboard(r, u) \/ RestoreDashboard(r, u)
  \/ PurgeTrashedDashboard(r, u) \/ DeleteAccount(r, u)
  \/ \E v \in Users : \/ DeleteDashboardShare(r, u, v) \/ TransferLoads(r, u, v)
                      \/ \E role \in Roles : UpdateDashboardShare(r, u, v, role)
  \/ \E i \in Invites : \/ DeleteInvite(r, u, i) \/ AcceptLoads(r, u, i)
                        \/ \E role \in Roles : CreateInvite(r, u, i, role)

Proceeds(r) ==
  \/ LeaveCommits(r) \/ RemoveCommits(r) \/ UpdateCommits(r)
  \/ TransferLocks(r) \/ TransferCommits(r)
  \/ InviteCommits(r) \/ RevokeCommits(r) \/ AcceptDecides(r) \/ AcceptCommits(r)
  \/ TrashCommits(r) \/ RestoreCommits(r) \/ PurgeCommits(r)
  \/ DeleteLocks(r) \/ DeleteChecks(r) \/ DeleteCommits(r)

(* Every request made has ended: the only way the system may stop.           *)
Quiet == (\A r \in Requests : req[r] = Idle) /\ UNCHANGED vars

Next ==
  \/ \E r \in Requests : Proceeds(r) \/ \E u \in Users : Loads(r, u)
  \/ \E i \in Invites : Expire(i)
  \/ Age \/ ReapChildren \/ ReapDashboard
  \/ Quiet

Spec == Init /\ [][Next]_vars

-----------------------------------------------------------------------------
States == {"live", "trashed", "expired", "gone"}
ShareRow == [role : Roles \cup {"none"}, id : Nat]
InviteRow == [state : {"unissued", "live", "used", "revoked", "expired", "gone"},
              role : Roles, by : Users]
RequestType ==
  [op : {"none", "leave", "remove", "update", "transfer", "invite",
         "revoke", "accept", "trash", "restore", "purge", "delete"},
   pc : {"idle", "loaded", "locked", "decided", "checked"},
   actor : Users, who : Users, role : Roles, inv : SUBSET Invites, seen : Nat]

(* The values of the tables and of the requests.  In particular no share row *)
(* stores the role "owner" (as_share_role).                                  *)
TypeOK ==
  /\ owner \in Users /\ state \in States /\ intact \in BOOLEAN
  /\ shares \in [Users -> ShareRow]
  /\ invites \in [Invites -> InviteRow]
  /\ alive \subseteq Users
  /\ req \in [Requests -> RequestType]
  /\ reaper \in {"idle", "swept"}
  /\ started \in Nat /\ outdated \in BOOLEAN

(* "A hand-over cannot strand a dashboard on a tombstone" (FDR-004, 8): an   *)
(* existing dashboard has a living owner, however transfers and account      *)
(* deletions interleave, also transfers decided on what is no longer so.     *)
OwnerIsLive == state # "gone" => owner \in alive

(* "Nobody loses access as a side effect of someone else leaving"            *)
(* (delete_own_account): an account deletion purges no dashboard somebody    *)
(* has joined by the time it commits.                                        *)
DeletionStrandsNobody ==
  [][(\E u \in alive : u \notin alive') /\ state = "live" /\ state' = "gone"
     => \A v \in Users : shares[v].role = "none"]_vars

(* A restore brings a dashboard back "shares and children intact"            *)
(* (restore_dashboard): the lists and events of a visible dashboard were     *)
(* never swept, unless a commit acted on what was no longer so, such as the  *)
(* reaper whose children's statement a restore has overtaken.                *)
LiveIsIntact == state = "live" /\ ~outdated => intact

(* An invite is single use and revocable until the moment it grants: a role  *)
(* that rises through accept_invite costs a code that was live just then.    *)
Accepts(r) == At(r, "accept", "decided") /\ req'[r] = Idle

GrantsCostACode ==
  [][\A r \in Requests :
       Accepts(r) /\ shares' # shares
       => \A i \in req[r].inv : invites[i].state = "live" /\ invites'[i].state = "used"]_vars

(* accept_invite "never downgrades an existing higher role", whatever other  *)
(* codes the same user redeems at the same time.                             *)
AcceptNeverDowngrades ==
  [][\A r \in Requests :
       Accepts(r) => Rank(shares'[req[r].actor].role) >= Rank(shares[req[r].actor].role)]_vars

(* "Owner is the absence of a share row" (ADR-001), as long as every commit  *)
(* so far acted on an owner and a membership that were still the current     *)
(* ones: accept_invite never writes a row for somebody who is made owner     *)
(* while it decides.                                                         *)
OwnerHasNoShare == state # "gone" /\ ~outdated => shares[owner].role = "none"

LosesAccess(u) ==
  /\ state = "live" /\ EffectiveRole(u) # "none"
  /\ ~(state' = "live" /\ (owner' = u \/ shares'[u].role # "none"))

(* Access is taken away only by oneself or by the owner: by leaving or       *)
(* deleting one's account, by a removal, or with the whole dashboard.  The   *)
(* exception is again a commit that acted on what was no longer so.          *)
AccessLossAuthorized ==
  [][~outdated' =>
       \A u \in Users : LosesAccess(u) =>
         \E r \in Requests :
           /\ req[r] # Idle /\ req'[r] = Idle
           /\ \/ req[r].op \in {"leave", "delete"} /\ req[r].actor = u
              \/ req[r].op \in {"remove", "trash"} /\ req[r].actor = owner]_vars

(* What the tables of a dashboard say together, whichever requests overlap:  *)
(* it belongs to a living account, whose role is the absence of a share, and *)
(* it is visible only with its lists and events; the last two as long as no  *)
(* commit acted on outdated facts.                                           *)
DashboardSound == TypeOK /\ OwnerIsLive /\ OwnerHasNoShare /\ LiveIsIntact
=============================================================================
