------------------------ MODULE DashboardAccessProofs ------------------------
(***************************************************************************)
(* The safety of DashboardAccess for every set of users, codes and         *)
(* requests.  Everything rests on the two kinds of locks: a lock is held   *)
(* by one request (AccountExclusive, RowExclusive), and what a request     *)
(* decided under it stays true until it commits (TargetIsLive,             *)
(* DeleterIsAlone, RedeemerGains).                                         *)
(***************************************************************************)
EXTENDS DashboardAccess, TLAPS

(* pg_advisory_xact_lock: one transaction at a time holds an account.        *)
AccountExclusive ==
  \A r, s \in Requests, u \in Users : HoldsAccount(r, u) /\ HoldsAccount(s, u) => r = s

(* FOR UPDATE: one transaction at a time holds the dashboard's row.          *)
RowExclusive == \A r, s \in Requests : HoldsRow(r) /\ HoldsRow(s) => r = s

(* lock_live_user has seen the new owner, and nobody can delete the account  *)
(* while the lock is held.                                                   *)
TargetIsLive == \A r \in Requests : At(r, "transfer", "locked") => req[r].who \in alive

(* transfer_dashboard_ownership refuses a transfer to oneself.               *)
TargetIsOther == \A r \in Requests : req[r].op = "transfer" => req[r].who # req[r].actor

(* What shared_dashboards_owned_by found remains so until the deletion       *)
(* commits.                                                                  *)
DeleterIsAlone ==
  \A r \in Requests :
    At(r, "delete", "checked") /\ owner = req[r].actor /\ state = "live"
    => \A v \in Users : shares[v].role = "none"

(* What accept_invite decided under the row's lock remains so until it       *)
(* commits: the redeemer is not the owner, and a code for viewers only meets *)
(* somebody without a row.                                                   *)
RedeemerGains ==
  \A r \in Requests :
    At(r, "accept", "decided")
    => /\ owner # req[r].actor
       /\ req[r].role = "editor" \/ shares[req[r].actor].role = "none"

(* A dashboard whose lists the reaper has swept does not come back.          *)
SweptIsGone == ~intact /\ ~outdated => state = "gone"

(* The inductive invariant.                                                  *)
IInv == /\ TypeOK
        /\ AccountExclusive /\ RowExclusive
        /\ TargetIsLive /\ TargetIsOther
        /\ DeleterIsAlone /\ RedeemerGains
        /\ OwnerIsLive /\ OwnerHasNoShare

(* An empty slot is a request.                                               *)
LEMMA IdleType == Idle \in RequestType
  BY AccessAssumption DEF Idle, RequestType, Roles

(* The invariant holds of the dashboard as it is found.                      *)
LEMMA InitIInv == Init => IInv
<1> SUFFICES ASSUME Init PROVE IInv
  OBVIOUS
<1>a. shares \in [Users -> ShareRow]
  <2> PICK member \in [Users -> Roles \cup {"none"}] :
         shares = [u \in Users |-> [role |-> member[u], id |-> IF member[u] = "none" THEN 0 ELSE 1]]
    BY DEF Init
  <2> QED
    BY DEF ShareRow
<1>b. invites \in [Invites -> InviteRow]
  <2> PICK role \in [Invites -> Roles], S \in SUBSET Invites :
         invites = [i \in Invites |-> [state |-> IF i \in S THEN "live" ELSE "unissued",
                                       role |-> role[i], by |-> Creator]]
    BY DEF Init
  <2> QED
    BY AccessAssumption DEF InviteRow
<1>1. TypeOK
  BY <1>a, <1>b, IdleType, AccessAssumption DEF Init, TypeOK, States
<1>2. \A r \in Requests : req[r].op = "none"
  BY DEF Init, Idle
<1>3. OwnerIsLive /\ OwnerHasNoShare
  BY AccessAssumption DEF Init, OwnerIsLive, OwnerHasNoShare
<1> QED
  BY <1>1, <1>2, <1>3 DEF IInv, AccountExclusive, RowExclusive, TargetIsLive, TargetIsOther,
     DeleterIsAlone, RedeemerGains, HoldsAccount, HoldsRow, At

(* A step that touches one slot leaves the others as they are.               *)
LEMMA Slot ==
  ASSUME TypeOK, NEW r \in Requests, NEW q \in RequestType, req' = [req EXCEPT ![r] = q]
  PROVE  /\ req' \in [Requests -> RequestType]
         /\ req'[r] = q
         /\ \A s \in Requests : s # r => req'[s] = req[s]
  BY DEF TypeOK

(* The same for a change of the request's stage.                             *)
LEMMA MoveSlot ==
  ASSUME TypeOK, NEW r \in Requests, NEW pc \in {"idle", "loaded", "locked", "decided", "checked"},
         req' = [req EXCEPT ![r].pc = pc]
  PROVE  /\ req' \in [Requests -> RequestType]
         /\ req'[r] = [req[r] EXCEPT !.pc = pc]
         /\ \A s \in Requests : s # r => req'[s] = req[s]
  BY DEF TypeOK, RequestType

(* A request that has loaded what it needs (load_dashboard_access, the       *)
(* owner's loader, load_live_invite) holds no lock.                          *)
LEMMA BeginStep ==
  ASSUME IInv, NEW r \in Requests, NEW q \in RequestType, q.pc = "loaded",
         q.op = "transfer" => q.who # q.actor, Begin(r, q)
  PROVE  IInv'
<1>1. /\ req' \in [Requests -> RequestType]
      /\ req'[r] = q
      /\ \A s \in Requests : s # r => req'[s] = req[s]
  BY Slot DEF Begin, IInv
<1>2. TypeOK'
  BY <1>1 DEF IInv, TypeOK, Begin
<1>3. UNCHANGED <<owner, state, shares, alive, outdated>>
  BY DEF Begin
<1> QED
  BY <1>1, <1>2, <1>3 DEF IInv, AccountExclusive, RowExclusive, TargetIsLive, TargetIsOther,
     DeleterIsAlone, RedeemerGains, HoldsAccount, HoldsRow, At, OwnerIsLive, OwnerHasNoShare

(* An error response releases the locks and changes nothing.                 *)
LEMMA AbortStep ==
  ASSUME IInv, NEW r \in Requests, Abort(r)
  PROVE  IInv'
<1>1. /\ req' \in [Requests -> RequestType]
      /\ req'[r] = Idle
      /\ \A s \in Requests : s # r => req'[s] = req[s]
  BY Slot, IdleType DEF Abort, End, IInv
<1>2. TypeOK'
  BY <1>1 DEF IInv, TypeOK, Abort, End
<1>3. UNCHANGED <<owner, state, shares, alive, outdated>>
  BY DEF Abort
<1> QED
  BY <1>1, <1>2, <1>3 DEF IInv, AccountExclusive, RowExclusive, TargetIsLive, TargetIsOther,
     DeleterIsAlone, RedeemerGains, HoldsAccount, HoldsRow, At, OwnerIsLive, OwnerHasNoShare,
     Idle

(* The end of a request empties its slot.                                    *)
LEMMA EndSlot ==
  ASSUME IInv, NEW r \in Requests, End(r)
  PROVE  /\ req' \in [Requests -> RequestType]
         /\ req'[r] = Idle /\ Idle.op = "none"
         /\ \A s \in Requests : s # r => req'[s] = req[s]
  BY Slot, IdleType DEF End, IInv, Idle

(* DELETE of one row: it is gone or it was another one.                      *)
LEMMA DeleteShareType ==
  ASSUME NEW table \in [Users -> ShareRow], NEW u \in Users, NEW id \in Nat
  PROVE  /\ DeleteShare(table, u, id) \in [Users -> ShareRow]
         /\ \A v \in Users : DeleteShare(table, u, id)[v].role \in {"none", table[v].role}
         /\ \A v \in Users : v # u => DeleteShare(table, u, id)[v] = table[v]
         /\ table[u].id = id => DeleteShare(table, u, id)[u].role = "none"
  BY DEF DeleteShare, ShareRow, Roles

(* create_share gives the user exactly this role and nobody else anything.   *)
LEMMA CreateShareType ==
  ASSUME NEW table \in [Users -> ShareRow], NEW u \in Users, NEW role \in Roles
  PROVE  /\ CreateShare(table, u, role) \in [Users -> ShareRow]
         /\ CreateShare(table, u, role)[u].role = role
         /\ \A v \in Users : v # u => CreateShare(table, u, role)[v] = table[v]
  BY DEF CreateShare, ShareRow, Roles

(* A commit that ends a request and takes roles away, or exchanges one role  *)
(* for another, preserves everything.                                        *)
LEMMA SharesShrink ==
  ASSUME IInv, NEW r \in Requests, End(r),
         shares' \in [Users -> ShareRow], invites' \in [Invites -> InviteRow],
         \A v \in Users : shares[v].role = "none" => shares'[v].role = "none",
         UNCHANGED <<owner, state, intact, alive>>,
         outdated' \in BOOLEAN, outdated => outdated'
  PROVE  IInv'
<1>1. /\ req' \in [Requests -> RequestType]
      /\ req'[r] = Idle /\ Idle.op = "none"
      /\ \A s \in Requests : s # r => req'[s] = req[s]
  BY EndSlot
<1>2. TypeOK'
  BY <1>1 DEF IInv, TypeOK, End
<1>3. (AccountExclusive /\ RowExclusive)'
  BY <1>1 DEF IInv, AccountExclusive, RowExclusive, HoldsAccount, HoldsRow
<1>4. (TargetIsLive /\ TargetIsOther)'
  BY <1>1 DEF IInv, TargetIsLive, TargetIsOther, At
<1>5. DeleterIsAlone'
  BY <1>1 DEF IInv, DeleterIsAlone, At
<1>6. RedeemerGains'
  BY <1>1 DEF IInv, RedeemerGains, At, TypeOK, RequestType
<1>7. (OwnerIsLive /\ OwnerHasNoShare)'
  BY DEF IInv, OwnerIsLive, OwnerHasNoShare, TypeOK
<1> QED
  BY <1>2, <1>3, <1>4, <1>5, <1>6, <1>7 DEF IInv

(* leave_dashboard.                                                          *)
LEMMA LeaveStep ==
  ASSUME IInv, NEW r \in Requests, LeaveCommits(r)
  PROVE  IInv'
<1>1. req[r].actor \in Users /\ req[r].seen \in Nat /\ shares \in [Users -> ShareRow]
  BY DEF IInv, TypeOK, RequestType
<1>2. /\ shares' \in [Users -> ShareRow]
      /\ \A v \in Users : shares'[v].role \in {"none", shares[v].role}
  BY <1>1, DeleteShareType DEF LeaveCommits
<1> QED
  BY <1>2, SharesShrink DEF LeaveCommits, IInv, TypeOK

(* delete_dashboard_share.                                                   *)
LEMMA RemoveStep ==
  ASSUME IInv, NEW r \in Requests, RemoveCommits(r)
  PROVE  IInv'
<1>1. req[r].who \in Users /\ req[r].seen \in Nat /\ shares \in [Users -> ShareRow]
  BY DEF IInv, TypeOK, RequestType
<1>2. /\ shares' \in [Users -> ShareRow]
      /\ \A v \in Users : shares'[v].role \in {"none", shares[v].role}
  BY <1>1, DeleteShareType DEF RemoveCommits
<1>3. outdated' \in BOOLEAN /\ (outdated => outdated')
  BY DEF RemoveCommits, Outdated, IInv, TypeOK
<1> QED
  BY <1>2, <1>3, SharesShrink DEF RemoveCommits, IInv, TypeOK

(* update_dashboard_share.                                                   *)
LEMMA UpdateStep ==
  ASSUME IInv, NEW r \in Requests, UpdateCommits(r)
  PROVE  IInv'
<1>1. CASE Abort(r)
  BY <1>1, AbortStep
<1>2. CASE ~Abort(r)
  <2>1. req[r].who \in Users /\ req[r].role \in Roles /\ shares \in [Users -> ShareRow]
    BY DEF IInv, TypeOK, RequestType
  <2>2. /\ shares[req[r].who].role # "none"
        /\ shares' = [shares EXCEPT ![req[r].who].role = req[r].role]
    BY <1>2 DEF UpdateCommits
  <2>3. /\ shares' \in [Users -> ShareRow]
        /\ \A v \in Users : shares[v].role = "none" => shares'[v].role = "none"
    BY <2>1, <2>2 DEF ShareRow
  <2>4. outdated' \in BOOLEAN /\ (outdated => outdated')
    BY <1>2 DEF UpdateCommits, Outdated, IInv, TypeOK
  <2> QED
    BY <1>2, <2>3, <2>4, SharesShrink DEF UpdateCommits, IInv, TypeOK
<1> QED
  BY <1>1, <1>2

(* create_invite.                                                            *)
LEMMA InviteStep ==
  ASSUME IInv, NEW r \in Requests, InviteCommits(r)
  PROVE  IInv'
<1>1. CASE Abort(r)
  BY <1>1, AbortStep
<1>2. CASE ~Abort(r)
  <2>1. req[r].actor \in Users /\ req[r].role \in Roles
    BY DEF IInv, TypeOK, RequestType
  <2>2. invites' \in [Invites -> InviteRow]
    BY <1>2, <2>1 DEF InviteCommits, IInv, TypeOK, InviteRow
  <2>3. outdated' \in BOOLEAN /\ (outdated => outdated')
    BY <1>2 DEF InviteCommits, Outdated, IInv, TypeOK
  <2> QED
    BY <1>2, <2>2, <2>3, SharesShrink DEF InviteCommits, IInv, TypeOK
<1> QED
  BY <1>1, <1>2

(* delete_invite.                                                            *)
LEMMA RevokeStep ==
  ASSUME IInv, NEW r \in Requests, RevokeCommits(r)
  PROVE  IInv'
<1>1. CASE Abort(r)
  BY <1>1, AbortStep
<1>2. CASE ~Abort(r)
  <2>1. invites' \in [Invites -> InviteRow]
    BY <1>2 DEF RevokeCommits, IInv, TypeOK, InviteRow
  <2>2. outdated' \in BOOLEAN /\ (outdated => outdated')
    BY <1>2 DEF RevokeCommits, Outdated, IInv, TypeOK
  <2> QED
    BY <1>2, <2>1, <2>2, SharesShrink DEF RevokeCommits, IInv, TypeOK
<1> QED
  BY <1>1, <1>2

(* A step that moves a request on: it must deserve the locks it takes and    *)
(* have decided what the commit relies on.                                   *)
LEMMA MoveStep ==
  ASSUME IInv, NEW r \in Requests, NEW pc \in {"locked", "decided", "checked"}, MoveTo(r, pc),
         \A u \in Users : HoldsAccount(r, u)' => HoldsAccount(r, u) \/ AccountFree(r, u),
         HoldsRow(r)' => RowFree(r),
         req[r].op = "transfer" /\ pc = "locked" => req[r].who \in alive,
         req[r].op = "delete" /\ pc = "checked" /\ owner = req[r].actor /\ state = "live"
           => \A v \in Users : shares[v].role = "none",
         req[r].op = "accept" /\ pc = "decided"
           => /\ owner # req[r].actor
              /\ req[r].role = "editor" \/ shares[req[r].actor].role = "none"
  PROVE  IInv'
<1>1. /\ req' \in [Requests -> RequestType]
      /\ req'[r] = [req[r] EXCEPT !.pc = pc]
      /\ \A s \in Requests : s # r => req'[s] = req[s]
  BY MoveSlot DEF MoveTo, IInv
<1>2. /\ req'[r].op = req[r].op /\ req'[r].pc = pc /\ req'[r].who = req[r].who
      /\ req'[r].actor = req[r].actor /\ req'[r].role = req[r].role
  BY <1>1 DEF IInv, TypeOK, RequestType
<1>3. UNCHANGED <<owner, state, shares, alive, outdated>>
  BY DEF MoveTo
<1>4. TypeOK'
  BY <1>1 DEF IInv, TypeOK, MoveTo
<1>5. AccountExclusive'
  <2>1. \A s \in Requests, u \in Users : s # r => (HoldsAccount(s, u)' <=> HoldsAccount(s, u))
    BY <1>1 DEF HoldsAccount
  <2> QED
    BY <2>1 DEF IInv, AccountExclusive, AccountFree
<1>6. RowExclusive'
  <2>1. \A s \in Requests : s # r => (HoldsRow(s)' <=> HoldsRow(s))
    BY <1>1, <1>3 DEF HoldsRow
  <2> QED
    BY <2>1 DEF IInv, RowExclusive, RowFree
<1>7. (TargetIsLive /\ TargetIsOther)'
  <2>1. TargetIsOther'
    <3> SUFFICES ASSUME NEW s \in Requests, req'[s].op = "transfer"
                 PROVE  req'[s].who # req'[s].actor
      BY DEF TargetIsOther
    <3>1. req[s].op = "transfer" /\ req'[s].who = req[s].who /\ req'[s].actor = req[s].actor
      BY <1>1, <1>2
    <3> QED
      BY <3>1 DEF IInv, TargetIsOther
  <2>2. TargetIsLive'
    BY <1>1, <1>2, <1>3 DEF IInv, TargetIsLive, At
  <2> QED
    BY <2>1, <2>2
<1>8. DeleterIsAlone'
  BY <1>1, <1>2, <1>3 DEF IInv, DeleterIsAlone, At
<1>9. RedeemerGains'
  <2>1. ASSUME NEW s \in Requests, At(s, "accept", "decided")'
        PROVE  /\ owner # req[s].actor
               /\ req[s].role = "editor" \/ shares[req[s].actor].role = "none"
    <3>1. CASE s = r
      BY <1>1, <1>2, <2>1, <3>1 DEF At
    <3>2. CASE s # r
      BY <1>1, <2>1, <3>2 DEF At, IInv, RedeemerGains
    <3> QED
      BY <3>1, <3>2
  <2>2. ASSUME NEW s \in Requests
        PROVE  req'[s].actor = req[s].actor /\ req'[s].role = req[s].role
    BY <1>1, <1>2
  <2> QED
    BY <1>3, <2>1, <2>2 DEF RedeemerGains
<1>10. (OwnerIsLive /\ OwnerHasNoShare)'
  BY <1>3 DEF IInv, OwnerIsLive, OwnerHasNoShare
<1> QED
  BY <1>4, <1>5, <1>6, <1>7, <1>8, <1>9, <1>10 DEF IInv

(* transfer_dashboard_ownership takes the new owner's account.               *)
LEMMA TransferLocksStep ==
  ASSUME IInv, NEW r \in Requests, TransferLocks(r)
  PROVE  IInv'
<1>1. CASE Abort(r)
  BY <1>1, AbortStep
<1>2. CASE ~Abort(r)
  <2>1. /\ At(r, "transfer", "loaded") /\ AccountFree(r, req[r].who)
        /\ req[r].who \in alive /\ MoveTo(r, "locked")
    BY <1>2 DEF TransferLocks
  <2>2. req'[r] = [req[r] EXCEPT !.pc = "locked"] /\ req[r] \in RequestType
    BY <2>1, MoveSlot DEF MoveTo, IInv, TypeOK
  <2>3. /\ \A u \in Users : HoldsAccount(r, u)' => u = req[r].who
        /\ ~HoldsRow(r)'
    BY <2>1, <2>2 DEF HoldsAccount, HoldsRow, At, RequestType
  <2> QED
    BY <2>1, <2>3, MoveStep DEF At
<1> QED
  BY <1>1, <1>2

(* delete_own_account takes its own account.                                 *)
LEMMA DeleteLocksStep ==
  ASSUME IInv, NEW r \in Requests, DeleteLocks(r)
  PROVE  IInv'
<1>1. CASE Abort(r)
  BY <1>1, AbortStep
<1>2. CASE ~Abort(r)
  <2>1. /\ At(r, "delete", "loaded") /\ AccountFree(r, req[r].actor) /\ MoveTo(r, "locked")
    BY <1>2 DEF DeleteLocks
  <2>2. req'[r] = [req[r] EXCEPT !.pc = "locked"] /\ req[r] \in RequestType
    BY <2>1, MoveSlot DEF MoveTo, IInv, TypeOK
  <2>3. /\ \A u \in Users : HoldsAccount(r, u)' => u = req[r].actor
        /\ ~HoldsRow(r)'
    BY <2>1, <2>2 DEF HoldsAccount, HoldsRow, At, RequestType
  <2> QED
    BY <2>1, <2>3, MoveStep DEF At
<1> QED
  BY <1>1, <1>2

(* delete_own_account takes its dashboards' rows and checks that nobody      *)
(* shares them.                                                              *)
LEMMA DeleteChecksStep ==
  ASSUME IInv, NEW r \in Requests, DeleteChecks(r)
  PROVE  IInv'
<1>1. CASE Abort(r)
  BY <1>1, AbortStep
<1>2. CASE ~Abort(r)
  <2>1. /\ At(r, "delete", "locked") /\ MoveTo(r, "checked")
        /\ owner = req[r].actor => RowFree(r)
        /\ owner = req[r].actor /\ state = "live" => \A v \in Users : shares[v].role = "none"
    BY <1>2 DEF DeleteChecks
  <2>2. req'[r] = [req[r] EXCEPT !.pc = "checked"] /\ req[r] \in RequestType /\ owner' = owner
    BY <2>1, MoveSlot DEF MoveTo, IInv, TypeOK
  <2>3. /\ \A u \in Users : HoldsAccount(r, u)' => HoldsAccount(r, u)
        /\ HoldsRow(r)' => owner = req[r].actor
    BY <2>1, <2>2 DEF HoldsAccount, HoldsRow, At, RequestType
  <2> QED
    BY <2>1, <2>3, MoveStep DEF At
<1> QED
  BY <1>1, <1>2

(* accept_invite takes the row and decides.                                  *)
LEMMA AcceptDecidesStep ==
  ASSUME IInv, NEW r \in Requests, AcceptDecides(r)
  PROVE  IInv'
<1>1. CASE Abort(r)
  BY <1>1, AbortStep
<1>2. CASE ~Abort(r)
  <2>1. /\ At(r, "accept", "loaded") /\ RowFree(r) /\ MoveTo(r, "decided")
        /\ owner # req[r].actor /\ Rank(shares[req[r].actor].role) < Rank(req[r].role)
    BY <1>2 DEF AcceptDecides
  <2>2. /\ req'[r] = [req[r] EXCEPT !.pc = "decided"] /\ req[r] \in RequestType
        /\ shares[req[r].actor] \in ShareRow
    BY <2>1, MoveSlot DEF MoveTo, IInv, TypeOK, RequestType
  <2>3. req[r].role = "editor" \/ shares[req[r].actor].role = "none"
    BY <2>1, <2>2 DEF Rank, RequestType, ShareRow, Roles
  <2>4. \A u \in Users : ~HoldsAccount(r, u)'
    BY <2>1, <2>2 DEF HoldsAccount, At, RequestType
  <2> QED
    BY <2>1, <2>3, <2>4, MoveStep DEF At
<1> QED
  BY <1>1, <1>2

(* A commit ends its request, which only releases locks, provided that the   *)
(* owner stays the same or becomes one nobody deletes.                       *)
LEMMA LocksReleased ==
  ASSUME IInv, NEW r \in Requests, End(r),
         \/ owner' = owner
         \/ \A s \in Requests \ {r} : ~(At(s, "delete", "checked") /\ req[s].actor = owner')
  PROVE  /\ AccountExclusive' /\ RowExclusive' /\ TargetIsOther'
         /\ \A s \in Requests : HoldsRow(s)' => s # r /\ HoldsRow(s)
<1>1. /\ req'[r] = Idle /\ Idle.op = "none"
      /\ \A s \in Requests : s # r => req'[s] = req[s]
  BY EndSlot
<1>2. \A s \in Requests, u \in Users : HoldsAccount(s, u)' => s # r /\ HoldsAccount(s, u)
  BY <1>1 DEF HoldsAccount
<1>3. \A s \in Requests : HoldsRow(s)' => s # r /\ HoldsRow(s)
  BY <1>1 DEF HoldsRow, At
<1>4. TargetIsOther'
  BY <1>1 DEF IInv, TargetIsOther
<1> QED
  BY <1>2, <1>3, <1>4 DEF IInv, AccountExclusive, RowExclusive

(* transfer_dashboard_ownership commits: the new owner is alive because its  *)
(* account is held, and nobody deletes the account because that would hold   *)
(* it too.                                                                   *)
LEMMA TransferStep ==
  ASSUME IInv, NEW r \in Requests, TransferCommits(r)
  PROVE  IInv'
<1>1. CASE Abort(r)
  BY <1>1, AbortStep
<1>2. CASE ~Abort(r)
  <2> DEFINE u == req[r].actor  v == req[r].who
  <2>1. /\ At(r, "transfer", "locked") /\ RowFree(r) /\ state # "gone"
        /\ owner' = v
        /\ shares' = CreateShare(DeleteShare(shares, v, req[r].seen), u, "editor")
        /\ Outdated(\/ owner # u \/ state # "live"
                    \/ shares[v].role = "none" \/ shares[v].id # req[r].seen)
        /\ End(r) /\ UNCHANGED <<state, intact, invites, alive>>
    BY <1>2 DEF TransferCommits
  <2>2. /\ u \in Users /\ v \in Users /\ req[r].seen \in Nat /\ u # v /\ v \in alive
        /\ shares \in [Users -> ShareRow]
    BY <2>1 DEF IInv, TypeOK, RequestType, TargetIsOther, TargetIsLive, At
  <2>3. /\ shares' \in [Users -> ShareRow]
        /\ shares'[v] = DeleteShare(shares, v, req[r].seen)[v]
        /\ shares[v].id = req[r].seen => shares'[v].role = "none"
    <3> DEFINE rest == DeleteShare(shares, v, req[r].seen)
    <3>1. rest \in [Users -> ShareRow] /\ (shares[v].id = req[r].seen => rest[v].role = "none")
      BY <2>2, DeleteShareType
    <3> HIDE DEF rest
    <3>2. CreateShare(rest, u, "editor") \in [Users -> ShareRow]
          /\ CreateShare(rest, u, "editor")[v] = rest[v]
      BY <2>2, <3>1, CreateShareType DEF Roles
    <3> QED
      BY <2>1, <3>1, <3>2 DEF rest
  <2>4. outdated' \in BOOLEAN /\ (~outdated' => ~outdated /\ shares[v].id = req[r].seen)
    BY <2>1 DEF Outdated, IInv, TypeOK
  <2>5. HoldsAccount(r, v)
    BY <2>1 DEF HoldsAccount, At
  <2>6. \A s \in Requests \ {r} : ~(At(s, "delete", "checked") /\ req[s].actor = owner')
    <3> SUFFICES ASSUME NEW s \in Requests \ {r}, At(s, "delete", "checked"), req[s].actor = v
                 PROVE  FALSE
      BY <2>1
    <3>1. HoldsAccount(s, v)
      BY DEF HoldsAccount, At
    <3> QED
      BY <3>1, <2>2, <2>5 DEF IInv, AccountExclusive
  <2>7. /\ AccountExclusive' /\ RowExclusive' /\ TargetIsOther'
        /\ \A s \in Requests : ~HoldsRow(s)'
    BY <2>1, <2>6, LocksReleased DEF RowFree
  <2>8. /\ req' \in [Requests -> RequestType]
        /\ req'[r] = Idle /\ Idle.op = "none"
        /\ \A s \in Requests : s # r => req'[s] = req[s]
    BY <2>1, EndSlot
  <2>9. TypeOK'
    BY <2>1, <2>2, <2>3, <2>4, <2>8 DEF IInv, TypeOK, End
  <2>10. TargetIsLive'
    BY <2>1, <2>8 DEF IInv, TargetIsLive, At
  <2>11. DeleterIsAlone' /\ RedeemerGains'
    BY <2>7 DEF HoldsRow, DeleterIsAlone, RedeemerGains, At
  <2>12. OwnerIsLive' /\ OwnerHasNoShare'
    BY <2>1, <2>2, <2>3, <2>4 DEF OwnerIsLive, OwnerHasNoShare
  <2> QED
    BY <2>7, <2>9, <2>10, <2>11, <2>12 DEF IInv
<1> QED
  BY <1>1, <1>2

(* accept_invite commits: with the row held, no owner is being deleted and   *)
(* no other redemption has decided.                                          *)
LEMMA AcceptStep ==
  ASSUME IInv, NEW r \in Requests, AcceptCommits(r)
  PROVE  IInv'
<1>1. CASE Abort(r)
  BY <1>1, AbortStep
<1>2. CASE ~Abort(r)
  <2>1. /\ At(r, "accept", "decided")
        /\ shares' = CreateShare(shares, req[r].actor, req[r].role)
        /\ Outdated(req[r].actor \notin alive)
        /\ End(r) /\ UNCHANGED <<owner, state, intact, alive>>
    BY <1>2 DEF AcceptCommits
  <2>2. /\ req[r].actor \in Users /\ req[r].role \in Roles /\ owner # req[r].actor
        /\ shares \in [Users -> ShareRow]
    BY <2>1 DEF IInv, TypeOK, RequestType, RedeemerGains
  <2>3. /\ shares' \in [Users -> ShareRow]
        /\ \A v \in Users : v # req[r].actor => shares'[v] = shares[v]
    BY <2>1, <2>2, CreateShareType
  <2>4. invites' \in [Invites -> InviteRow]
    BY <1>2 DEF AcceptCommits, IInv, TypeOK, InviteRow
  <2>5. outdated' \in BOOLEAN /\ (outdated => outdated')
    BY <2>1 DEF Outdated, IInv, TypeOK
  <2>6. HoldsRow(r)
    BY <2>1 DEF HoldsRow, At
  <2>7. /\ AccountExclusive' /\ RowExclusive' /\ TargetIsOther'
        /\ \A s \in Requests : ~HoldsRow(s)'
    BY <2>1, <2>6, LocksReleased DEF IInv, RowExclusive
  <2>8. /\ req' \in [Requests -> RequestType]
        /\ req'[r] = Idle /\ Idle.op = "none"
        /\ \A s \in Requests : s # r => req'[s] = req[s]
    BY <2>1, EndSlot
  <2>9. TypeOK'
    BY <2>1, <2>3, <2>4, <2>5, <2>8 DEF IInv, TypeOK, End
  <2>10. TargetIsLive'
    BY <2>1, <2>8 DEF IInv, TargetIsLive, At
  <2>11. DeleterIsAlone' /\ RedeemerGains'
    BY <2>7 DEF HoldsRow, DeleterIsAlone, RedeemerGains, At
  <2>12. OwnerIsLive' /\ OwnerHasNoShare'
    BY <2>1, <2>2, <2>3, <2>5 DEF IInv, TypeOK, OwnerIsLive, OwnerHasNoShare
  <2> QED
    BY <2>7, <2>9, <2>10, <2>11, <2>12 DEF IInv
<1> QED
  BY <1>1, <1>2

(* Nobody holds the row when its state changes in the trash.                 *)
LEMMA StateStep ==
  ASSUME IInv, NEW r \in Requests, End(r), RowFree(r),
         At(r, "trash", "loaded") \/ At(r, "restore", "loaded"),
         state # "gone", state' \in States, outdated' \in BOOLEAN, outdated => outdated',
         UNCHANGED <<owner, intact, shares, invites, alive>>
  PROVE  IInv'
<1>1. /\ AccountExclusive' /\ RowExclusive' /\ TargetIsOther'
      /\ \A s \in Requests : ~HoldsRow(s)'
  BY LocksReleased DEF RowFree
<1>2. /\ req' \in [Requests -> RequestType]
      /\ req'[r] = Idle /\ Idle.op = "none"
      /\ \A s \in Requests : s # r => req'[s] = req[s]
  BY EndSlot
<1>3. TypeOK'
  BY <1>2 DEF IInv, TypeOK, End
<1>4. TargetIsLive'
  BY <1>2 DEF IInv, TargetIsLive, At
<1>5. DeleterIsAlone' /\ RedeemerGains'
  BY <1>1 DEF HoldsRow, DeleterIsAlone, RedeemerGains, At
<1>6. OwnerIsLive' /\ OwnerHasNoShare'
  BY DEF IInv, TypeOK, OwnerIsLive, OwnerHasNoShare
<1> QED
  BY <1>1, <1>3, <1>4, <1>5, <1>6 DEF IInv

(* delete_dashboard and restore_dashboard.                                   *)
LEMMA TrashStep ==
  ASSUME IInv, NEW r \in Requests, TrashCommits(r) \/ RestoreCommits(r)
  PROVE  IInv'
<1>1. CASE Abort(r)
  BY <1>1, AbortStep
<1>2. CASE ~Abort(r)
  <2>1. /\ state' \in States
        /\ Outdated(owner # req[r].actor)
        /\ state # "gone" /\ End(r) /\ RowFree(r)
        /\ At(r, "trash", "loaded") \/ At(r, "restore", "loaded")
        /\ UNCHANGED <<owner, intact, shares, invites, alive>>
    BY <1>2 DEF TrashCommits, RestoreCommits, States
  <2>2. outdated' \in BOOLEAN /\ (outdated => outdated')
    BY <2>1 DEF Outdated, IInv, TypeOK
  <2> QED
    BY <2>1, <2>2, StateStep
<1> QED
  BY <1>1, <1>2

(* The cascades of a purge.                                                  *)
LEMMA PurgeType ==
  ASSUME IInv, PurgeDashboard
  PROVE  /\ state' = "gone"
         /\ shares' \in [Users -> ShareRow] /\ invites' \in [Invites -> InviteRow]
         /\ \A v \in Users : shares'[v].role = "none"
  BY DEF IInv, TypeOK, PurgeDashboard, NoShares, NoInvites, ShareRow, InviteRow

(* purge_trashed_dashboard.                                                  *)
LEMMA PurgeStep ==
  ASSUME IInv, NEW r \in Requests, PurgeCommits(r)
  PROVE  IInv'
<1>1. /\ state' = "gone"
      /\ shares' \in [Users -> ShareRow] /\ invites' \in [Invites -> InviteRow]
      /\ \A v \in Users : shares'[v].role = "none"
  BY PurgeType DEF PurgeCommits
<1>2. End(r) /\ UNCHANGED <<owner, intact, alive>> /\ outdated' \in BOOLEAN
  BY DEF PurgeCommits, Outdated, IInv, TypeOK
<1>3. AccountExclusive' /\ RowExclusive' /\ TargetIsOther'
  BY <1>2, LocksReleased
<1>4. /\ req' \in [Requests -> RequestType]
      /\ req'[r] = Idle /\ Idle.op = "none"
      /\ \A s \in Requests : s # r => req'[s] = req[s]
  BY <1>2, EndSlot
<1>5. TypeOK'
  BY <1>1, <1>2, <1>4 DEF IInv, TypeOK, End, States
<1>6. TargetIsLive'
  BY <1>2, <1>4 DEF IInv, TargetIsLive, At
<1>7. DeleterIsAlone' /\ OwnerIsLive' /\ OwnerHasNoShare'
  BY <1>1 DEF DeleterIsAlone, OwnerIsLive, OwnerHasNoShare
<1>8. RedeemerGains'
  BY <1>1, <1>2, <1>4 DEF IInv, TypeOK, RequestType, RedeemerGains, At
<1> QED
  BY <1>3, <1>5, <1>6, <1>7, <1>8 DEF IInv

(* delete_account: no transfer that holds its target's account has this one  *)
(* as its target.                                                            *)
LEMMA DeleteStep ==
  ASSUME IInv, NEW r \in Requests, DeleteCommits(r)
  PROVE  IInv'
<1> DEFINE u == req[r].actor
<1>1. /\ At(r, "delete", "checked") /\ alive' = alive \ {u}
      /\ End(r) /\ UNCHANGED <<owner, intact, outdated>>
      /\ u \in Users
  BY DEF DeleteCommits, IInv, TypeOK, RequestType
<1>2. /\ shares' \in [Users -> ShareRow] /\ invites' \in [Invites -> InviteRow]
      /\ \A v \in Users : shares[v].role = "none" => shares'[v].role = "none"
      /\ owner = u => state' = "gone"
      /\ owner # u => state' = state
  <2>1. CASE owner = u
    BY <2>1, PurgeType DEF DeleteCommits
  <2>2. CASE owner # u
    <3>1. /\ shares' = [shares EXCEPT ![u].role = "none"] /\ state' = state
          /\ invites' = NoInvites(invites, {i \in Invites : /\ invites[i].by = u
                                                            /\ invites[i].state # "unissued"})
      BY <2>2 DEF DeleteCommits
    <3>2. invites' \in [Invites -> InviteRow]
      BY <3>1 DEF NoInvites, IInv, TypeOK, InviteRow
    <3>3. /\ shares' \in [Users -> ShareRow]
          /\ \A v \in Users : shares[v].role = "none" => shares'[v].role = "none"
      BY <3>1, <1>1 DEF IInv, TypeOK, ShareRow
    <3> QED
      BY <2>2, <3>1, <3>2, <3>3
  <2> QED
    BY <2>1, <2>2
<1>3. AccountExclusive' /\ RowExclusive' /\ TargetIsOther'
  BY <1>1, LocksReleased
<1>4. /\ req' \in [Requests -> RequestType]
      /\ req'[r] = Idle /\ Idle.op = "none"
      /\ \A s \in Requests : s # r => req'[s] = req[s]
  BY <1>1, EndSlot
<1>5. TypeOK'
  BY <1>1, <1>2, <1>4 DEF IInv, TypeOK, End, States
<1>6. TargetIsLive'
  <2> SUFFICES ASSUME NEW s \in Requests, At(s, "transfer", "locked")'
               PROVE  req'[s].who \in alive'
    BY DEF TargetIsLive
  <2>1. s # r /\ req'[s] = req[s] /\ At(s, "transfer", "locked")
    BY <1>4 DEF At
  <2>2. HoldsAccount(s, req[s].who) /\ HoldsAccount(r, u)
    BY <1>1, <2>1 DEF HoldsAccount, At
  <2>3. req[s].who # u
    BY <1>1, <2>1, <2>2 DEF IInv, AccountExclusive
  <2> QED
    BY <1>1, <2>1, <2>3 DEF IInv, TargetIsLive
<1>7. DeleterIsAlone'
  BY <1>1, <1>2, <1>4 DEF IInv, DeleterIsAlone, At
<1>8. RedeemerGains'
  BY <1>1, <1>2, <1>4 DEF IInv, TypeOK, RequestType, RedeemerGains, At
<1>9. OwnerIsLive' /\ OwnerHasNoShare'
  BY <1>1, <1>2 DEF IInv, TypeOK, OwnerIsLive, OwnerHasNoShare
<1> QED
  BY <1>3, <1>5, <1>6, <1>7, <1>8, <1>9 DEF IInv

(* The clock and the reaper hold nothing and end nothing.                    *)
LEMMA TimeStep ==
  ASSUME IInv, (\E i \in Invites : Expire(i)) \/ Age \/ ReapChildren \/ ReapDashboard
  PROVE  IInv'
<1>1. /\ UNCHANGED <<owner, alive, req, started>>
      /\ intact' \in BOOLEAN /\ reaper' \in {"idle", "swept"}
  BY DEF IInv, TypeOK, Expire, Age, ReapChildren, ReapDashboard
<1>2. outdated' \in BOOLEAN /\ (outdated => outdated')
  BY DEF IInv, TypeOK, Expire, Age, ReapChildren, ReapDashboard, Outdated
<1>3. /\ state' \in States
      /\ state = "gone" => state' = "gone"
      /\ state' = "live" => state = "live"
      /\ shares' \in [Users -> ShareRow] /\ invites' \in [Invites -> InviteRow]
      /\ \A v \in Users : shares[v].role = "none" => shares'[v].role = "none"
  <2>1. CASE \E i \in Invites : Expire(i)
    BY <2>1 DEF Expire, IInv, TypeOK, InviteRow
  <2>2. CASE Age \/ ReapChildren
    BY <2>2 DEF Age, ReapChildren, IInv, TypeOK, States
  <2>3. CASE ReapDashboard
    <3>1. CASE PurgeDashboard
      BY <3>1, PurgeType DEF States
    <3>2. CASE ~PurgeDashboard
      BY <2>3, <3>2 DEF ReapDashboard, IInv, TypeOK
    <3> QED
      BY <3>1, <3>2
  <2> QED
    BY <2>1, <2>2, <2>3
<1>4. TypeOK'
  BY <1>1, <1>2, <1>3 DEF IInv, TypeOK
<1>5. AccountExclusive' /\ RowExclusive' /\ TargetIsOther' /\ TargetIsLive'
  BY <1>1 DEF IInv, AccountExclusive, RowExclusive, HoldsAccount, HoldsRow, TargetIsOther,
     TargetIsLive, At
<1>6. DeleterIsAlone'
  BY <1>1, <1>3 DEF IInv, DeleterIsAlone, At
<1>7. RedeemerGains'
  BY <1>1, <1>3 DEF IInv, TypeOK, RequestType, RedeemerGains, At
<1>8. OwnerIsLive' /\ OwnerHasNoShare'
  BY <1>1, <1>2, <1>3 DEF IInv, TypeOK, OwnerIsLive, OwnerHasNoShare
<1> QED
  BY <1>4, <1>5, <1>6, <1>7, <1>8 DEF IInv

(* What a request loads is a request that holds nothing yet.                 *)
LEMMA LoadStep ==
  ASSUME IInv, NEW r \in Requests, NEW u \in Users, Loads(r, u)
  PROVE  IInv'
<1>1. /\ shares \in [Users -> ShareRow] /\ invites \in [Invites -> InviteRow]
      /\ \A v \in Users : shares[v].id \in Nat
      /\ \A i \in Invites : invites[i].role \in Roles
  BY DEF IInv, TypeOK, ShareRow, InviteRow
<1>2. PICK q : /\ q \in RequestType /\ q.pc = "loaded"
               /\ q.op = "transfer" => q.who # q.actor
               /\ Begin(r, q)
  <2> DEFINE Asks(q) == /\ q \in RequestType /\ q.pc = "loaded"
                        /\ q.op = "transfer" => q.who # q.actor
                        /\ Begin(r, q)
  <2>1. CASE \/ LeaveDashboard(r, u) \/ DeleteDashboard(r, u) \/ RestoreDashboard(r, u)
             \/ PurgeTrashedDashboard(r, u) \/ DeleteAccount(r, u)
    BY <1>1, <2>1, AccessAssumption DEF LeaveDashboard, DeleteDashboard, RestoreDashboard,
       PurgeTrashedDashboard, DeleteAccount, Request, Idle, RequestType, Roles
  <2>2. ASSUME NEW v \in Users, DeleteDashboardShare(r, u, v) \/ TransferLoads(r, u, v)
        PROVE  \E q : Asks(q)
    BY <1>1, <2>2, AccessAssumption
    DEF DeleteDashboardShare, TransferLoads, Request, Idle, RequestType, Roles
  <2>3. ASSUME NEW v \in Users, NEW role \in Roles, UpdateDashboardShare(r, u, v, role)
        PROVE  \E q : Asks(q)
    BY <1>1, <2>3, AccessAssumption DEF UpdateDashboardShare, Request, Idle, RequestType, Roles
  <2>4. ASSUME NEW i \in Invites, DeleteInvite(r, u, i) \/ AcceptLoads(r, u, i)
        PROVE  \E q : Asks(q)
    BY <1>1, <2>4, AccessAssumption
    DEF DeleteInvite, AcceptLoads, Request, Idle, RequestType, Roles
  <2>5. ASSUME NEW i \in Invites, NEW role \in Roles, CreateInvite(r, u, i, role)
        PROVE  \E q : Asks(q)
    BY <2>5, AccessAssumption DEF CreateInvite, Request, Idle, RequestType, Roles
  <2> QED
    BY <2>1, <2>2, <2>3, <2>4, <2>5 DEF Loads
<1> QED
  BY <1>2, BeginStep

(* Every step preserves the invariant.                                       *)
LEMMA NextIInv ==
  ASSUME IInv, [Next]_vars
  PROVE  IInv'
<1>1. CASE UNCHANGED vars
  BY <1>1 DEF vars, IInv, TypeOK, AccountExclusive, RowExclusive, HoldsAccount, HoldsRow,
     TargetIsLive, TargetIsOther, DeleterIsAlone, RedeemerGains, OwnerIsLive, OwnerHasNoShare,
     At
<1>2. ASSUME NEW r \in Requests, Proceeds(r) PROVE IInv'
  BY <1>2, LeaveStep, RemoveStep, UpdateStep, TransferLocksStep, TransferStep, InviteStep,
     RevokeStep, AcceptDecidesStep, AcceptStep, TrashStep, PurgeStep, DeleteLocksStep,
     DeleteChecksStep, DeleteStep DEF Proceeds
<1> QED
  BY <1>1, <1>2, LoadStep, TimeStep DEF Next, Quiet

(* The inductive invariant holds throughout, whatever the users, the codes   *)
(* and the number of concurrent requests.                                    *)
THEOREM Inductive == Spec => []IInv
<1>1. Init => IInv
  BY InitIInv
<1>2. IInv /\ [Next]_vars => IInv'
  BY NextIInv
<1> QED
  BY <1>1, <1>2, PTL DEF Spec

(* Only delete_account tombstones anybody.                                   *)
LEMMA AliveShrinksByDeletion ==
  ASSUME Next, alive' # alive
  PROVE  \E r \in Requests : DeleteCommits(r)
<1>1. ASSUME NEW r \in Requests, NEW u \in Users, Loads(r, u) PROVE alive' = alive
  BY <1>1 DEF Loads, LeaveDashboard, DeleteDashboard, RestoreDashboard, PurgeTrashedDashboard,
     DeleteAccount, DeleteDashboardShare, TransferLoads, UpdateDashboardShare, DeleteInvite,
     AcceptLoads, CreateInvite, Begin
<1>2. ASSUME NEW r \in Requests, Proceeds(r), ~DeleteCommits(r) PROVE alive' = alive
  BY <1>2 DEF Proceeds, LeaveCommits, RemoveCommits, UpdateCommits, TransferLocks,
     TransferCommits, InviteCommits, RevokeCommits, AcceptDecides, AcceptCommits,
     TrashCommits, RestoreCommits, PurgeCommits, DeleteLocks, DeleteChecks, Abort, MoveTo
<1> QED
  BY <1>1, <1>2 DEF Next, Expire, Age, ReapChildren, ReapDashboard, Quiet, vars

(* Only accept_invite ends a request that had decided to redeem.             *)
LEMMA AcceptingStep ==
  ASSUME IInv, Next, NEW r \in Requests, Accepts(r)
  PROVE  AcceptCommits(r)
<1>1. req[r].op = "accept" /\ req[r].pc = "decided" /\ req'[r] = Idle /\ req[r] # req'[r]
  BY DEF Accepts, At, Idle
<1>2. ASSUME NEW s \in Requests, NEW u \in Users, Loads(s, u) PROVE FALSE
  <2>1. PICK q : Begin(s, q)
    BY <1>2 DEF Loads, LeaveDashboard, DeleteDashboard, RestoreDashboard,
       PurgeTrashedDashboard, DeleteAccount, DeleteDashboardShare, TransferLoads,
       UpdateDashboardShare, DeleteInvite, AcceptLoads, CreateInvite
  <2> QED
    BY <1>1, <2>1 DEF Begin, IInv, TypeOK
<1>3. ASSUME NEW s \in Requests, Proceeds(s) PROVE s = r
  BY <1>1, <1>3 DEF Proceeds, LeaveCommits, RemoveCommits, UpdateCommits, TransferLocks,
     TransferCommits, InviteCommits, RevokeCommits, AcceptDecides, AcceptCommits,
     TrashCommits, RestoreCommits, PurgeCommits, DeleteLocks, DeleteChecks, DeleteCommits,
     Abort, MoveTo, End, IInv, TypeOK
<1>4. Proceeds(r)
  BY <1>1, <1>2, <1>3 DEF Next, Expire, Age, ReapChildren, ReapDashboard, Quiet, vars
<1> QED
  BY <1>1, <1>4 DEF Proceeds, LeaveCommits, RemoveCommits, UpdateCommits, TransferLocks,
     TransferCommits, InviteCommits, RevokeCommits, AcceptDecides, TrashCommits,
     RestoreCommits, PurgeCommits, DeleteLocks, DeleteChecks, DeleteCommits, At

(* The tables and the requests keep their types; no share row ever stores    *)
(* the role "owner".                                                         *)
THEOREM AccessTypeCorrect == Spec => []TypeOK
  BY Inductive, PTL DEF IInv

(* However ownership transfers and account deletions interleave, an existing *)
(* dashboard belongs to a living account (lock_live_user).                   *)
THEOREM OwnerStaysLive == Spec => []OwnerIsLive
  BY Inductive, PTL DEF IInv

(* As long as every commit acted on current facts, the owner has no share    *)
(* row (transfer_dashboard_ownership, accept_invite).                        *)
THEOREM OwnerIsAbsenceOfShare == Spec => []OwnerHasNoShare
  BY Inductive, PTL DEF IInv

(* An account deletion never purges a live dashboard that somebody has       *)
(* joined (lock_account before shared_dashboards_owned_by).                  *)
THEOREM DeletionSparesMembers == Spec => DeletionStrandsNobody
<1>1. ASSUME IInv, [Next]_vars
      PROVE  [(\E u \in alive : u \notin alive') /\ state = "live" /\ state' = "gone"
              => \A v \in Users : shares[v].role = "none"]_vars
  <2> SUFFICES ASSUME Next, alive' # alive, state = "live", state' = "gone"
               PROVE  \A v \in Users : shares[v].role = "none"
    BY <1>1
  <2>1. PICK r \in Requests : DeleteCommits(r)
    BY AliveShrinksByDeletion
  <2>2. At(r, "delete", "checked") /\ owner = req[r].actor
    BY <2>1 DEF DeleteCommits
  <2> QED
    BY <1>1, <2>2 DEF IInv, DeleterIsAlone
<1> QED
  BY <1>1, Inductive, PTL DEF Spec, DeletionStrandsNobody

(* accept_invite never lowers the role its user holds at the commit.         *)
THEOREM RedemptionNeverLowers == Spec => AcceptNeverDowngrades
<1>1. ASSUME IInv, [Next]_vars
      PROVE  [\A r \in Requests : Accepts(r) =>
                Rank(shares'[req[r].actor].role) >= Rank(shares[req[r].actor].role)]_vars
  <2> SUFFICES ASSUME Next, NEW r \in Requests, Accepts(r)
               PROVE  Rank(shares'[req[r].actor].role) >= Rank(shares[req[r].actor].role)
    BY <1>1
  <2>1. AcceptCommits(r)
    BY <1>1, AcceptingStep
  <2>2. /\ req[r].actor \in Users /\ req[r].role \in Roles /\ shares \in [Users -> ShareRow]
        /\ shares[req[r].actor].role \in Roles \cup {"none"}
        /\ req[r].role = "editor" \/ shares[req[r].actor].role = "none"
    BY <1>1, <2>1 DEF IInv, TypeOK, RequestType, ShareRow, RedeemerGains, AcceptCommits
  <2>3. shares' = shares \/ shares'[req[r].actor].role = req[r].role
    BY <2>1, <2>2, CreateShareType DEF AcceptCommits, Abort
  <2> QED
    BY <2>2, <2>3 DEF Rank, Roles
<1> QED
  BY <1>1, Inductive, PTL DEF Spec, AcceptNeverDowngrades

(* accept_invite grants only against a code that is live at the commit, and  *)
(* spends it (consume_invite).                                               *)
THEOREM RedemptionSpendsTheCode == Spec => GrantsCostACode
<1>1. ASSUME IInv, [Next]_vars
      PROVE  [\A r \in Requests : Accepts(r) /\ shares' # shares
                => \A i \in req[r].inv : invites[i].state = "live" /\ invites'[i].state =
                "used"]_vars
  <2> SUFFICES ASSUME Next, NEW r \in Requests, Accepts(r), shares' # shares, NEW i \in req[r].inv
               PROVE  invites[i].state = "live" /\ invites'[i].state = "used"
    BY <1>1
  <2>1. AcceptCommits(r)
    BY <1>1, AcceptingStep
  <2>2. i \in Invites /\ invites[i] \in InviteRow
    BY <1>1 DEF IInv, TypeOK, RequestType
  <2> QED
    BY <2>1, <2>2 DEF AcceptCommits, Abort, InviteRow
<1> QED
  BY <1>1, Inductive, PTL DEF Spec, GrantsCostACode

(* Which commits can take access away, and on whose behalf.                  *)
LEMMA LossByCommit ==
  ASSUME IInv, NEW r \in Requests, Proceeds(r), ~outdated', NEW u \in Users, LosesAccess(u)
  PROVE  /\ req[r] # Idle /\ req'[r] = Idle
         /\ \/ req[r].op \in {"leave", "delete"} /\ req[r].actor = u
            \/ req[r].op \in {"remove", "trash"} /\ req[r].actor = owner
<1>0. /\ req[r] \in RequestType /\ shares \in [Users -> ShareRow]
      /\ owner \in Users /\ outdated \in BOOLEAN
      /\ state = "live" /\ (owner = u \/ shares[u].role # "none")
  BY DEF LosesAccess, EffectiveRole, IInv, TypeOK
<1>1. ~Abort(r) /\ \A pc : ~MoveTo(r, pc)
  BY <1>0 DEF LosesAccess, Abort, MoveTo
<1>2. ASSUME End(r) PROVE req'[r] = Idle
  BY <1>2, EndSlot
<1>3. req[r].op # "none" => req[r] # Idle
  BY DEF Idle
<1>4. CASE LeaveCommits(r)
  <2>1. \A v \in Users : v # req[r].actor => shares'[v] = shares[v]
    BY <1>0, <1>4, DeleteShareType DEF LeaveCommits, RequestType
  <2> QED
    BY <1>0, <1>2, <1>3, <1>4, <2>1 DEF LeaveCommits, At, LosesAccess
<1>5. CASE RemoveCommits(r)
  BY <1>0, <1>2, <1>3, <1>5 DEF RemoveCommits, At, Outdated
<1>6. CASE UpdateCommits(r)
  <2>1. shares' = [shares EXCEPT ![req[r].who].role = req[r].role] /\ UNCHANGED <<owner, state>>
    BY <1>1, <1>6 DEF UpdateCommits
  <2> QED
    BY <1>0, <2>1 DEF LosesAccess, RequestType, Roles, ShareRow
<1>7. CASE TransferCommits(r)
  <2> DEFINE rest == DeleteShare(shares, req[r].who, req[r].seen)
  <2>1. /\ owner' = req[r].who /\ state' = state
        /\ shares' = CreateShare(rest, req[r].actor, "editor")
        /\ owner = req[r].actor
    BY <1>0, <1>1, <1>7 DEF TransferCommits, Outdated
  <2>2. /\ rest \in [Users -> ShareRow]
        /\ \A v \in Users : v # req[r].who => rest[v] = shares[v]
    BY <1>0, DeleteShareType DEF RequestType
  <2> HIDE DEF rest
  <2>3. /\ shares'[req[r].actor].role = "editor"
        /\ \A v \in Users : v # req[r].actor => shares'[v] = rest[v]
    BY <1>0, <2>1, <2>2, CreateShareType DEF RequestType, Roles
  <2> QED
    BY <1>0, <2>1, <2>2, <2>3 DEF LosesAccess
<1>8. CASE AcceptCommits(r)
  <2>1. UNCHANGED <<owner, state>> /\ shares' = CreateShare(shares, req[r].actor, req[r].role)
    BY <1>1, <1>8 DEF AcceptCommits
  <2>2. /\ shares'[req[r].actor].role # "none"
        /\ \A v \in Users : v # req[r].actor => shares'[v] = shares[v]
    BY <1>0, <2>1, CreateShareType DEF RequestType, Roles
  <2> QED
    BY <1>0, <2>1, <2>2 DEF LosesAccess
<1>9. CASE TrashCommits(r)
  BY <1>0, <1>1, <1>2, <1>3, <1>9 DEF TrashCommits, At, Outdated
<1>10. CASE RestoreCommits(r) \/ InviteCommits(r) \/ RevokeCommits(r)
  BY <1>0, <1>1, <1>10 DEF RestoreCommits, InviteCommits, RevokeCommits, LosesAccess
<1>11. CASE PurgeCommits(r)
  BY <1>0, <1>11 DEF PurgeCommits, Outdated
<1>12. CASE DeleteCommits(r)
  <2>1. At(r, "delete", "checked") /\ End(r) /\ owner' = owner
    BY <1>12 DEF DeleteCommits
  <2>2. CASE owner = req[r].actor
    BY <1>0, <1>2, <1>3, <2>1, <2>2 DEF IInv, DeleterIsAlone, At
  <2>3. CASE owner # req[r].actor
    <3>1. shares' = [shares EXCEPT ![req[r].actor].role = "none"] /\ state' = state
      BY <1>12, <2>3 DEF DeleteCommits
    <3>2. u = req[r].actor
      BY <1>0, <2>1, <3>1 DEF LosesAccess, RequestType
    <3> QED
      BY <1>2, <1>3, <2>1, <3>2 DEF At
  <2> QED
    BY <2>2, <2>3
<1>13. CASE TransferLocks(r) \/ AcceptDecides(r) \/ DeleteLocks(r) \/ DeleteChecks(r)
  BY <1>1, <1>13 DEF TransferLocks, AcceptDecides, DeleteLocks, DeleteChecks
<1> QED
  BY <1>4, <1>5, <1>6, <1>7, <1>8, <1>9, <1>10, <1>11, <1>12, <1>13 DEF Proceeds

(* Nobody loses access but by one's own request or the owner's, unless a     *)
(* commit acted on what was no longer so (leave_dashboard,                   *)
(* delete_dashboard_share, delete_dashboard, delete_own_account).            *)
THEOREM LossIsAuthorized == Spec => AccessLossAuthorized
<1>1. ASSUME IInv, [Next]_vars
      PROVE  [~outdated' =>
                \A u \in Users : LosesAccess(u) =>
                  \E r \in Requests :
                    /\ req[r] # Idle /\ req'[r] = Idle
                    /\ \/ req[r].op \in {"leave", "delete"} /\ req[r].actor = u
                       \/ req[r].op \in {"remove", "trash"} /\ req[r].actor = owner]_vars
  <2> SUFFICES ASSUME Next, ~outdated', NEW u \in Users, LosesAccess(u)
               PROVE  \E r \in Requests :
                        /\ req[r] # Idle /\ req'[r] = Idle
                        /\ \/ req[r].op \in {"leave", "delete"} /\ req[r].actor = u
                           \/ req[r].op \in {"remove", "trash"} /\ req[r].actor = owner
    BY <1>1
  <2>1. state = "live" /\ ~UNCHANGED <<owner, state, shares>>
    BY DEF LosesAccess, EffectiveRole
  <2>2. ASSUME NEW r \in Requests, NEW v \in Users, Loads(r, v) PROVE FALSE
    BY <2>1, <2>2 DEF Loads, LeaveDashboard, DeleteDashboard, RestoreDashboard,
       PurgeTrashedDashboard, DeleteAccount, DeleteDashboardShare, TransferLoads,
       UpdateDashboardShare, DeleteInvite, AcceptLoads, CreateInvite, Begin
  <2>3. PICK r \in Requests : Proceeds(r)
    BY <2>1, <2>2 DEF Next, Expire, Age, ReapChildren, ReapDashboard, Quiet, vars
  <2> QED
    BY <1>1, <2>3, LossByCommit
<1> QED
  BY <1>1, Inductive, PTL DEF Spec, AccessLossAuthorized

(* Nothing that has been purged comes back, and only the reaper sweeps.      *)
LEMMA SweptIsGoneStep ==
  ASSUME IInv, SweptIsGone, [Next]_vars
  PROVE  SweptIsGone'
<1>1. ASSUME NEW r \in Requests, NEW u \in Users, Loads(r, u) PROVE UNCHANGED <<intact, state,
      outdated>>
  BY <1>1 DEF Loads, LeaveDashboard, DeleteDashboard, RestoreDashboard, PurgeTrashedDashboard,
     DeleteAccount, DeleteDashboardShare, TransferLoads, UpdateDashboardShare, DeleteInvite,
     AcceptLoads, CreateInvite, Begin
<1>2. ASSUME NEW r \in Requests, Proceeds(r)
      PROVE  /\ intact' = intact /\ (outdated => outdated')
             /\ state = "gone" => state' = "gone"
  <2>1. intact' = intact /\ (state = "gone" => state' = "gone")
    BY <1>2 DEF Proceeds, LeaveCommits, RemoveCommits, UpdateCommits, TransferLocks,
       TransferCommits, InviteCommits, RevokeCommits, AcceptDecides, AcceptCommits,
       TrashCommits, RestoreCommits, PurgeCommits, DeleteLocks, DeleteChecks, DeleteCommits,
       Abort, MoveTo, PurgeDashboard
  <2>2. outdated' = outdated \/ \E b : Outdated(b)
    BY <1>2 DEF Proceeds, LeaveCommits, RemoveCommits, UpdateCommits, TransferLocks,
       TransferCommits, InviteCommits, RevokeCommits, AcceptDecides, AcceptCommits,
       TrashCommits, RestoreCommits, PurgeCommits, DeleteLocks, DeleteChecks, DeleteCommits,
       Abort, MoveTo
  <2>3. outdated => outdated'
    BY <2>2 DEF Outdated
  <2> QED
    BY <2>1, <2>3
<1>3. CASE ReapDashboard
  <2>1. CASE state = "expired"
    BY <1>3, <2>1 DEF ReapDashboard, PurgeDashboard, SweptIsGone
  <2>2. CASE state # "expired"
    BY <1>3, <2>2 DEF ReapDashboard, Outdated, SweptIsGone, IInv, TypeOK, States
  <2> QED
    BY <2>1, <2>2
<1>4. CASE (\E i \in Invites : Expire(i)) \/ Age \/ ReapChildren
  BY <1>4 DEF Expire, Age, ReapChildren, SweptIsGone
<1>5. CASE UNCHANGED vars
  BY <1>5 DEF vars, SweptIsGone
<1> QED
  BY <1>1, <1>2, <1>3, <1>4, <1>5 DEF Next, Quiet, SweptIsGone

(* A visible dashboard has its lists and events, unless a restore has        *)
(* overtaken the reaper (reap_expired_trash).                                *)
THEOREM LiveStaysIntact == Spec => []LiveIsIntact
<1>1. Init => SweptIsGone
  BY DEF Init, SweptIsGone
<1>2. IInv /\ SweptIsGone /\ [Next]_vars => SweptIsGone'
  BY SweptIsGoneStep
<1>3. SweptIsGone => LiveIsIntact
  BY DEF SweptIsGone, LiveIsIntact
<1> QED
  BY <1>1, <1>2, <1>3, Inductive, PTL DEF Spec

(* The tables of a dashboard agree with each other whichever requests        *)
(* overlap, for every set of users, codes and requests.                      *)
THEOREM DashboardStaysSound == Spec => []DashboardSound
<1>1. TypeOK /\ OwnerIsLive /\ OwnerHasNoShare /\ LiveIsIntact => DashboardSound
  BY DEF DashboardSound
<1>2. QED
  BY <1>1, AccessTypeCorrect, OwnerStaysLive, OwnerIsAbsenceOfShare, LiveStaysIntact, PTL
==============================================================================
