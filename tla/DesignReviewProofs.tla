-------------------------- MODULE DesignReviewProofs --------------------------
(***************************************************************************)
(* Proofs about DesignReview, and so about Workspaces and AuthSessions     *)
(* within it, for any users, requests at once and workspaces.  Each of the *)
(* properties has an invariant of its own, over the few variables that it  *)
(* is about.                                                               *)
(***************************************************************************)
EXTENDS DesignReview, TLAPS, FiniteSetTheorems, FunctionTheorems

USE WorkspacesAssumption

-----------------------------------------------------------------------------
(* Workspaces.                                                             *)
MemberRow(m) == m = [id |-> m.id, ws |-> m.ws, user |-> m.user, role |-> m.role]

(* The rows of workspace_members a unit of work changes or deletes.        *)
Targets(unit) == {r[1] : r \in unit.roles} \cup unit.removes

(* A row it takes a role from belongs to an account that is deleted with   *)
(* it, or to somebody else than the admin whose role it was checked by.    *)
Owned(unit, t) ==
    /\ t <= lastRow
    /\ \A m \in members : m.id = t =>
          m.user \in unit.leaves \/ \E b \in unit.by : b[2] = m.ws /\ b[1] # m.user

Sound(unit) ==
    /\ unit.inserts = {} \/ \E i \in unit.inserts : unit.inserts = {i}
    /\ \A w \in unit.creates : \E i \in unit.inserts : i.ws = w /\ i.role = "admin"
    /\ unit.creates # {} => unit.drops = {} /\ unit.leaves = {}
    /\ \A t \in Targets(unit) : t \in Nat /\ Owned(unit, t)
    /\ unit.by # {} => /\ unit.drops = {} /\ unit.leaves = {}
                       /\ \A t, v \in Targets(unit) : t = v

RowsInv ==
    /\ lastRow \in Nat
    /\ \A m \in members : MemberRow(m) /\ m.id \in Nat /\ m.id <= lastRow
    /\ \A m, n \in members : m.id = n.id => m = n

AdminInv ==
    /\ RowsInv
    /\ DOMAIN work = Slots
    /\ \A s \in Slots : Sound(work[s])
    /\ AdminUnlessStale

LEMMA FirstRowNumbers ==
    /\ Cardinality(Users) \in Nat
    /\ FirstRow \in [Users -> 1..Cardinality(Users)]
    /\ \A u, v \in Users : u # v => FirstRow[u] # FirstRow[v]
<1>1. Cardinality(Users) \in Nat /\ ExistsBijection(1..Cardinality(Users), Users)
  BY FS_CardinalityType
<1>2. ExistsBijection(Users, 1..Cardinality(Users))
  BY <1>1, Fun_ExistsBijSymmetric
<1>3. PICK f \in Bijection(Users, 1..Cardinality(Users)) : TRUE
  BY <1>2 DEF ExistsBijection
<1>4. /\ f \in [Users -> 1..Cardinality(Users)]
      /\ \A u, v \in Users : u # v => f[u] # f[v]
  BY <1>3, Fun_IsBij DEF Bijection, Injection, IsInjective
<1>. QED  BY <1>1, <1>4 DEF FirstRow

LEMMA AdminInvInit == Init => AdminInv
<1>. SUFFICES ASSUME Init PROVE AdminInv
  OBVIOUS
<1>1. PICK role \in [Users -> Role \cup {"none"}] :
        /\ \E u \in Users : role[u] = "admin"
        /\ members = {[id |-> FirstRow[u], ws |-> 1, user |-> u, role |-> role[u]] :
                           u \in {u \in Users : role[u] # "none"}}
  BY DEF Init, WorkspacesInit
<1>2. lastRow = Cardinality(Users) /\ live = {1} /\ work = [s \in Slots |-> NoWork]
  BY DEF Init, WorkspacesInit
<1>3. RowsInv
  BY <1>1, <1>2, FirstRowNumbers DEF RowsInv, MemberRow
<1>4. Sound(NoWork)
  BY DEF Sound, Targets, NoWork
<1>5. PICK u \in Users : role[u] = "admin"
  BY <1>1
<1>6. [id |-> FirstRow[u], ws |-> 1, user |-> u, role |-> role[u]] \in Admins(1)
  BY <1>1, <1>5 DEF Admins
<1>. QED  BY <1>2, <1>3, <1>4, <1>6 DEF AdminInv, AdminUnlessStale

LEMMA BeginKeepsAdmins ==
    ASSUME AdminInv, NEW s \in Slots, NEW unit, Sound(unit), Begin(s, unit), UNCHANGED rows
    PROVE  AdminInv'
<1>1. \A v \in Targets(unit) : v \in Nat => Owned(unit, v)
  BY DEF Sound
<1>2. \A r \in Slots : Sound(work'[r])
  BY DEF AdminInv, Begin
<1>. QED
  BY <1>2 DEF AdminInv, RowsInv, AdminUnlessStale, Admins, Sound, Owned, Begin, rows

(* Every request that begins checks enough.                                *)
LEMMA BeginWorkKeepsAdmins ==
    ASSUME AdminInv, NEW s \in Slots, BeginWork(s)
    PROVE  AdminInv'
<1>1. ASSUME NEW u \in Users, Register(s, u)
      PROVE  AdminInv'
  <2>. DEFINE unit == [NoWork EXCEPT !.joins = {u},
                         !.creates = {lastId + 1},
                         !.inserts = {[ws |-> lastId + 1, user |-> u, role |-> "admin"]},
                         !.defaults = {<<u, lastId + 1>>}]
  <2>1. Targets(unit) = {}
    BY DEF Targets, NoWork
  <2>2. Sound(unit)
    BY <2>1 DEF Sound, NoWork
  <2>. QED  BY <1>1, <2>2, BeginKeepsAdmins DEF Register
<1>2. ASSUME NEW u \in Users, CreateWorkspace(s, u)
      PROVE  AdminInv'
  <2>. DEFINE unit == [NoWork EXCEPT !.creates = {lastId + 1},
                         !.inserts = {[ws |-> lastId + 1, user |-> u, role |-> "admin"]},
                         !.defaults = DefaultIfNone(u, lastId + 1)]
  <2>1. Targets(unit) = {}
    BY DEF Targets, NoWork
  <2>2. Sound(unit)
    BY <2>1 DEF Sound, NoWork
  <2>. QED  BY <1>2, <2>2, BeginKeepsAdmins DEF CreateWorkspace
<1>3. ASSUME NEW a \in Users, NEW w \in live, DeleteWorkspace(s, a, w)
      PROVE  AdminInv'
  <2>. DEFINE unit == [NoWork EXCEPT !.drops = {w},
                         !.defaults = {<<m.user, 0>> : m \in
                             {m \in members : m.ws = w /\ default[m.user] = w}}]
  <2>1. Targets(unit) = {}
    BY DEF Targets, NoWork
  <2>2. Sound(unit)
    BY <2>1 DEF Sound, NoWork
  <2>. QED  BY <1>3, <2>2, BeginKeepsAdmins DEF DeleteWorkspace
<1>4. ASSUME NEW a \in Users, NEW u \in Users, NEW w \in live, NEW role \in Role,
             InviteMember(s, a, w, u, role)
      PROVE  AdminInv'
  <2>. DEFINE unit == [NoWork EXCEPT !.inserts = {[ws |-> w, user |-> u, role |-> role]},
                         !.defaults = DefaultIfNone(u, w)]
  <2>1. Targets(unit) = {}
    BY DEF Targets, NoWork
  <2>2. Sound(unit)
    BY <2>1 DEF Sound, NoWork
  <2>. QED  BY <1>4, <2>2, BeginKeepsAdmins DEF InviteMember
<1>5. ASSUME NEW a \in Users, NEW m \in members, NEW role \in Role,
             UpdateMemberRole(s, a, m, role)
      PROVE  AdminInv'
  <2>. DEFINE unit == [NoWork EXCEPT !.by = {<<a, m.ws>>}, !.roles = {<<m.id, role>>}]
  <2>1. /\ Targets(unit) = {m.id} /\ unit.by = {<<a, m.ws>>}
        /\ unit.inserts = {} /\ unit.creates = {} /\ unit.drops = {} /\ unit.leaves = {}
    BY DEF Targets, NoWork
  <2>2. Sound(unit)
    <3>. HIDE DEF unit
    <3>1. m.user # a
      BY <1>5 DEF UpdateMemberRole, MayManage
    <3>2. m.id \in Nat /\ Owned(unit, m.id)
      BY <2>1, <3>1 DEF Owned, AdminInv, RowsInv
    <3>. QED  BY <2>1, <3>2 DEF Sound
  <2>. QED  BY <1>5, <2>2, BeginKeepsAdmins DEF UpdateMemberRole
<1>6. ASSUME NEW a \in Users, NEW m \in members, RemoveMember(s, a, m)
      PROVE  AdminInv'
  <2>. DEFINE unit == [NoWork EXCEPT !.by = {<<a, m.ws>>}, !.removes = {m.id}]
  <2>1. /\ Targets(unit) = {m.id} /\ unit.by = {<<a, m.ws>>}
        /\ unit.inserts = {} /\ unit.creates = {} /\ unit.drops = {} /\ unit.leaves = {}
    BY DEF Targets, NoWork
  <2>2. Sound(unit)
    <3>. HIDE DEF unit
    <3>1. m.user # a
      BY <1>6 DEF RemoveMember, MayManage
    <3>2. m.id \in Nat /\ Owned(unit, m.id)
      BY <2>1, <3>1 DEF Owned, AdminInv, RowsInv
    <3>. QED  BY <2>1, <3>2 DEF Sound
  <2>. QED  BY <1>6, <2>2, BeginKeepsAdmins DEF RemoveMember
<1>7. ASSUME NEW u \in Users, NEW w \in live, SetDefaultWorkspace(s, u, w)
      PROVE  AdminInv'
  <2>. DEFINE unit == [NoWork EXCEPT !.defaults = {<<u, w>>}]
  <2>1. Targets(unit) = {}
    BY DEF Targets, NoWork
  <2>2. Sound(unit)
    BY <2>1 DEF Sound, NoWork
  <2>. QED  BY <1>7, <2>2, BeginKeepsAdmins DEF SetDefaultWorkspace
<1>8. ASSUME NEW u \in Users, ResolveActive(s, u)
      PROVE  AdminInv'
  <2>1. PICK m \in Oldest(u) : Begin(s, [NoWork EXCEPT !.defaults = {<<u, m.ws>>}])
    BY <1>8 DEF ResolveActive
  <2>. DEFINE unit == [NoWork EXCEPT !.defaults = {<<u, m.ws>>}]
  <2>2. Targets(unit) = {}
    BY DEF Targets, NoWork
  <2>3. Sound(unit)
    BY <2>2 DEF Sound, NoWork
  <2>. QED  BY <1>8, <2>1, <2>3, BeginKeepsAdmins DEF ResolveActive
<1>9. ASSUME NEW u \in Users, DeleteAccount(s, u)
      PROVE  AdminInv'
  <2>. DEFINE unit == [NoWork EXCEPT !.leaves = {u},
                         !.removes = {m.id : m \in {m \in members : m.user = u}}]
  <2>1. /\ Targets(unit) = {m.id : m \in {m \in members : m.user = u}} /\ unit.by = {}
        /\ unit.inserts = {} /\ unit.creates = {} /\ unit.leaves = {u}
    BY DEF Targets, NoWork
  <2>2. Sound(unit)
    <3>. HIDE DEF unit
    <3>1. \A t \in Targets(unit) : t \in Nat /\ Owned(unit, t)
      BY <2>1 DEF Owned, AdminInv, RowsInv
    <3>. QED  BY <2>1, <3>1 DEF Sound
  <2>. QED  BY <1>9, <2>2, BeginKeepsAdmins DEF DeleteAccount
<1>. QED
  BY <1>1, <1>2, <1>3, <1>4, <1>5, <1>6, <1>7, <1>8, <1>9 DEF BeginWork, Callers

(* A row survives a commit if it is not a target of it and neither its     *)
(* workspace nor its account goes.                                         *)
LEMMA RowsKept ==
    ASSUME RowsInv, NEW s \in Slots, CommitWork(s), Committable(work[s]),
           NEW m \in members, m.id \notin Targets(work[s]),
           m.ws \notin work[s].drops, m.user \notin work[s].leaves
    PROVE  m \in members'
<1>1. RoleAfter(m, work[s]) = m.role /\ m.id \notin work[s].removes
  BY DEF Targets, RoleAfter
<1>2. [m EXCEPT !.role = m.role] = m
  BY DEF RowsInv, MemberRow
<1>3. m \in Updated(work[s])
  BY <1>1, <1>2 DEF Updated
<1>. QED  BY <1>1, <1>3 DEF CommitWork, Kept

(* What a commit leaves of the rows: old ones, whose role alone may have   *)
(* changed, and at most one with a new id.                                 *)
LEMMA RowsAfter ==
    ASSUME RowsInv, NEW s \in Slots, Sound(work[s]), CommitWork(s)
    PROVE  /\ RowsInv'
           /\ lastRow <= lastRow'
           /\ \A m \in members' : m.id <= lastRow =>
                 \E n \in members : n.id = m.id /\ n.ws = m.ws /\ n.user = m.user
<1>. DEFINE unit == work[s]
<1>. HIDE DEF unit
<1>1. /\ Cardinality(unit.inserts) \in Nat
      /\ unit.inserts = {} \/ lastRow' = lastRow + 1
      /\ lastRow' \in Nat /\ lastRow <= lastRow'
  <2>1. lastRow' = lastRow + Cardinality(unit.inserts) /\ lastRow \in Nat
    BY DEF CommitWork, RowsInv, unit
  <2>2. CASE unit.inserts = {}
    BY <2>1, <2>2, FS_EmptySet
  <2>3. ASSUME NEW i \in unit.inserts, unit.inserts = {i}
        PROVE  Cardinality(unit.inserts) = 1
    BY <2>3, FS_Singleton
  <2>. QED  BY <2>1, <2>2, <2>3 DEF Sound, unit
<1>2. CASE ~Committable(unit)
  BY <1>1, <1>2 DEF CommitWork, RowsInv, unit
<1>3. CASE Committable(unit)
  <2>1. members' \subseteq Updated(unit) \cup Inserted(unit)
    BY <1>3 DEF CommitWork, unit
  <2>2. ASSUME NEW m \in Updated(unit)
        PROVE  \E n \in members : /\ n.id = m.id /\ n.ws = m.ws /\ n.user = m.user
                                  /\ MemberRow(m) /\ m.id \in Nat /\ m.id <= lastRow
                                  /\ m = [n EXCEPT !.role = RoleAfter(n, unit)]
    BY DEF Updated, RowsInv, MemberRow
  <2>3. ASSUME NEW m \in Inserted(unit)
        PROVE  /\ MemberRow(m) /\ m.id = lastRow + 1 /\ lastRow' = lastRow + 1
               /\ \A n \in Inserted(unit) : m = n
    <3>1. PICK i \in unit.inserts : unit.inserts = {i}
      BY <2>3 DEF Inserted, Sound, unit
    <3>2. Inserted(unit) =
            {[id |-> lastRow + 1, ws |-> i.ws, user |-> i.user, role |-> i.role]}
      BY <3>1 DEF Inserted
    <3>. QED  BY <1>1, <3>1, <3>2 DEF MemberRow
  <2>4. \A m \in members' : MemberRow(m) /\ m.id \in Nat /\ m.id <= lastRow'
    BY <1>1, <2>1, <2>2, <2>3 DEF RowsInv
  <2>5. \A m \in members' : m.id <= lastRow =>
            \E n \in members : n.id = m.id /\ n.ws = m.ws /\ n.user = m.user
    BY <2>1, <2>2, <2>3 DEF RowsInv
  <2>6. ASSUME NEW m \in members', NEW n \in members', m.id = n.id
        PROVE  m = n
    <3>1. CASE m \in Updated(unit) /\ n \in Updated(unit)
      BY <2>2, <2>6, <3>1 DEF RowsInv
    <3>2. CASE m \in Inserted(unit) /\ n \in Inserted(unit)
      BY <2>3, <3>2
    <3>3. CASE m \in Updated(unit) /\ n \in Inserted(unit)
      BY <2>2, <2>3, <2>6, <3>3 DEF RowsInv
    <3>4. CASE m \in Inserted(unit) /\ n \in Updated(unit)
      BY <2>2, <2>3, <2>6, <3>4 DEF RowsInv
    <3>. QED  BY <2>1, <3>1, <3>2, <3>3, <3>4
  <2>. QED  BY <1>1, <2>4, <2>5, <2>6 DEF RowsInv, MemberRow
<1>. QED  BY <1>2, <1>3

(* What other requests were checked against is still good enough.          *)
LEMMA SoundAfter ==
    ASSUME RowsInv, NEW s \in Slots, Sound(work[s]), CommitWork(s), NEW unit, Sound(unit)
    PROVE  Sound(unit)'
<1>1. ASSUME NEW t \in Targets(unit)
      PROVE  t \in Nat /\ Owned(unit, t)'
  <2>1. t \in Nat /\ Owned(unit, t)
    BY DEF Sound
  <2>2. lastRow <= lastRow' /\ lastRow \in Nat /\ lastRow' \in Nat
    BY RowsAfter DEF RowsInv
  <2>3. ASSUME NEW m \in members', m.id = t
        PROVE  m.user \in unit.leaves \/ \E b \in unit.by : b[2] = m.ws /\ b[1] # m.user
    <3>1. m.id <= lastRow
      BY <2>1, <2>3 DEF Owned
    <3>2. PICK n \in members : n.id = m.id /\ n.ws = m.ws /\ n.user = m.user
      BY <3>1, RowsAfter
    <3>. QED  BY <2>1, <2>3, <3>2 DEF Owned
  <2>. QED  BY <2>1, <2>2, <2>3 DEF Owned
<1>. QED  BY <1>1 DEF Sound, Targets

(* An admin of the workspace is left, or the workspace is marked.          *)
LEMMA AdminsAfter ==
    ASSUME AdminInv, NEW s \in Slots, CommitWork(s)
    PROVE  AdminUnlessStale'
<1>. DEFINE unit == work[s]
<1>0. Sound(unit) /\ RowsInv /\ RowsInv'
  BY RowsAfter DEF AdminInv
<1>1. CASE ~Committable(unit)
  BY <1>1 DEF CommitWork, AdminInv, AdminUnlessStale, Admins
<1>. HIDE DEF unit
<1>2. ASSUME Committable(unit), NEW w \in live', w \notin stale' \cup left'
      PROVE  Admins(w)' # {}
  <2>1. /\ w \in live \cup unit.creates /\ w \notin unit.drops
        /\ w \notin stale \cup left /\ w \notin Outdated(unit)
        /\ \A m \in members : m.user \in unit.leaves /\ m.role = "admin" => m.ws # w
    BY <1>2 DEF CommitWork, unit
  <2>2. CASE w \in unit.creates
    <3>1. PICK i \in unit.inserts : i.ws = w /\ i.role = "admin"
      BY <1>0, <2>2 DEF Sound
    <3>. DEFINE row2 == [id |-> lastRow + 1, ws |-> i.ws, user |-> i.user, role |-> i.role]
    <3>2. row2 \in Inserted(unit)
      BY DEF Inserted
    <3>3. lastRow + 1 \notin unit.removes
      BY <1>0 DEF Sound, Targets, Owned, RowsInv
    <3>4. unit.drops = {} /\ unit.leaves = {}
      BY <1>0, <2>2 DEF Sound
    <3>5. row2 \in members'
      BY <1>2, <3>2, <3>3, <3>4 DEF CommitWork, Kept, unit
    <3>. QED  BY <3>1, <3>5 DEF Admins
  <2>3. CASE w \in live
    <3>1. PICK m \in members : m.ws = w /\ m.role = "admin"
      BY <2>1, <2>3 DEF AdminInv, AdminUnlessStale, Admins
    <3>2. m.user \notin unit.leaves
      BY <2>1, <3>1
    <3>3. CASE m.id \notin Targets(unit)
      <4>1. m \in members'
        BY <1>0, <1>2, <2>1, <3>1, <3>2, <3>3, RowsKept DEF unit
      <4>. QED  BY <3>1, <4>1 DEF Admins
    <3>4. CASE m.id \in Targets(unit)
      <4>1. PICK b \in unit.by : b[2] = w /\ b[1] # m.user
        BY <1>0, <3>1, <3>2, <3>4 DEF Sound, Owned
      <4>2. HasRole(b[1], w, {"admin"})
        BY <2>1, <4>1 DEF Outdated
      <4>3. PICK n \in members : n.user = b[1] /\ n.ws = w /\ n.role = "admin"
        BY <4>2 DEF HasRole, Of
      <4>4. n.id # m.id
        BY <1>0, <4>1, <4>3 DEF RowsInv
      <4>5. n.id \notin Targets(unit) /\ unit.leaves = {}
        BY <1>0, <3>4, <4>1, <4>4 DEF Sound
      <4>6. n \in members'
        BY <1>0, <1>2, <2>1, <4>3, <4>5, RowsKept DEF unit
      <4>. QED  BY <4>3, <4>6 DEF Admins
    <3>. QED  BY <3>3, <3>4
  <2>. QED  BY <2>1, <2>2, <2>3
<1>. QED  BY <1>1, <1>2 DEF AdminUnlessStale

LEMMA CommitKeepsAdmins ==
    ASSUME AdminInv, NEW s \in Slots, CommitWork(s)
    PROVE  AdminInv'
<1>1. RowsInv' /\ AdminUnlessStale'
  BY RowsAfter, AdminsAfter DEF AdminInv
<1>2. work' = [work EXCEPT ![s] = NoWork]
  BY DEF CommitWork
<1>3. Sound(NoWork)'
  BY DEF Sound, Targets, NoWork
<1>4. ASSUME NEW r \in Slots
      PROVE  Sound(work[r])'
  <2>1. CASE r = s
    BY <1>2, <1>3, <2>1 DEF AdminInv
  <2>2. CASE r # s
    <3>1. PICK unit \in {work[r]} : TRUE
      OBVIOUS
    <3>2. Sound(unit) /\ Sound(work[s]) /\ RowsInv
      BY <3>1 DEF AdminInv
    <3>3. Sound(unit)'
      BY <3>2, SoundAfter
    <3>4. work'[r] = unit
      BY <1>2, <2>2, <3>1 DEF AdminInv
    <3>. QED  BY <3>3, <3>4
  <2>. QED  BY <2>1, <2>2
<1>. QED  BY <1>1, <1>2, <1>4 DEF AdminInv

(* No other step is about members at all.                                  *)
LEMMA OthersKeepAdmins ==
    ASSUME AdminInv, UNCHANGED <<live, members, lastRow, stale, left, work>>
    PROVE  AdminInv'
BY DEF AdminInv, RowsInv, AdminUnlessStale, Admins, Sound, Owned

LEMMA AdminInvNext == AdminInv /\ [Next]_vars => AdminInv'
<1>. SUFFICES ASSUME AdminInv, [Next]_vars PROVE AdminInv'
  OBVIOUS
<1>1. ASSUME NEW s \in Slots, Begins(s)
      PROVE  AdminInv'
  <2>1. CASE BeginWork(s)
    BY <2>1, BeginWorkKeepsAdmins
  <2>2. CASE BeginOnSessions(s)
    BY <2>2, OthersKeepAdmins
    DEF BeginOnSessions, Login, Logout, Deactivate, ConfirmReset, OpenSettings, GenerateKey,
        RevokeKey, Rotate, Revoke, BeginAuth, rows
  <2>3. CASE BeginOnDesign(s)
    BY <2>3, OthersKeepAdmins
    DEF BeginOnDesign, EnableShare, DisableShare, OpenDesign, DeleteDesign, UpdateReview, Claim,
        BeginEdit, rows
  <2>. QED  BY <1>1, <2>1, <2>2, <2>3 DEF Begins
<1>2. ASSUME NEW s \in Slots, EndOnSessions(s)
      PROVE  AdminInv'
  BY <1>2, OthersKeepAdmins
  DEF EndOnSessions, CommitLogin, CommitRotation, CommitRevocation, CommitLogout, CommitReset,
      Unlink, CommitDeactivation, CommitFails, CommitSettings, CommitKey, CommitKeyRevocation,
      wvars, rows
<1>3. ASSUME NEW s \in Slots, Ends(s)
      PROVE  AdminInv'
  BY <1>2, <1>3, CommitKeepsAdmins, OthersKeepAdmins DEF Ends, CommitEdit, Answer, wvars, rows
<1>4. CASE SendLink
  BY <1>4, OthersKeepAdmins DEF SendLink, rows
<1>5. CASE UNCHANGED vars
  BY <1>5, OthersKeepAdmins DEF vars, wvars, rows
<1>. QED  BY <1>1, <1>3, <1>4, <1>5 DEF Next

(* A workspace has an admin unless an admin deleted his account, or two    *)
(* acted at once and one was no longer an admin when he committed.         *)
THEOREM WorkspacesKeepAdmins == Spec => []AdminUnlessStale
<1>1. AdminInv => AdminUnlessStale
  BY DEF AdminInv
<1>. QED  BY <1>1, AdminInvInit, AdminInvNext, PTL DEF Spec

-----------------------------------------------------------------------------
(* Sessions.                                                               *)
SettingsRow(r) ==
    /\ r = [exists |-> r.exists, key |-> r.key, revoked |-> r.revoked]
    /\ r.revoked \in BOOLEAN

AuthRequest(a) ==
    /\ a = [step |-> a.step, kind |-> a.kind, grant |-> a.grant, from |-> a.from,
            saw |-> a.saw, read |-> a.read, settings |-> a.settings]
    /\ a.settings.revoked \in BOOLEAN

AuthTypeOK ==
    /\ DOMAIN auth = Slots
    /\ \A s \in Slots : auth[s] = NoAuth \/ AuthRequest(auth[s])
    /\ SettingsRow(settings)
    /\ collided \in BOOLEAN /\ muddled \in BOOLEAN

(* Nobody holds or is about to write a version above the one in the row,   *)
(* so incrementing the latter outdates all of them.                        *)
VersionsAscend ==
    /\ version \in Nat
    /\ \A t \in tokens : t[2] \in Nat /\ t[2] <= version
    /\ \A t \in ended : t[2] \in Nat /\ t[2] < version
    /\ \A s \in Slots : auth[s].step = "commit" => auth[s].read \in Nat /\ auth[s].read <= version

KeyKept == handed # 0 => settings.key = handed /\ (settings.revoked => muddled)

AuthInv == AuthTypeOK /\ (collided \/ VersionsAscend) /\ KeyKept

LEMMA AuthInvInit == Init => AuthInv
<1>. SUFFICES ASSUME Init PROVE AuthInv
  OBVIOUS
<1>1. /\ auth = [s \in Slots |-> NoAuth] /\ settings = NoSettings
      /\ collided = FALSE /\ muddled = FALSE /\ handed = 0
      /\ version = 0 /\ tokens = {<<1, 0>>} /\ ended = {}
  BY DEF Init, SessionsInit
<1>2. AuthTypeOK
  BY <1>1 DEF AuthTypeOK, SettingsRow, NoSettings
<1>3. VersionsAscend
  BY <1>1 DEF VersionsAscend, NoAuth
<1>. QED  BY <1>1, <1>2, <1>3 DEF AuthInv, KeyKept

LEMMA OthersKeepAuth ==
    ASSUME AuthInv,
           UNCHANGED <<auth, settings, collided, muddled, version, tokens, ended, handed>>
    PROVE  AuthInv'
BY DEF AuthInv, AuthTypeOK, VersionsAscend, KeyKept, SettingsRow, AuthRequest

LEMMA BeginKeepsAuth ==
    ASSUME AuthInv, NEW s \in Slots, NEW kind, NEW from, BeginAuth(s, kind, from)
    PROVE  AuthInv'
<1>. DEFINE a == [step |-> "commit", kind |-> kind, grant |-> started + 2, from |-> from,
                  saw |-> session[from], read |-> version, settings |-> settings]
<1>1. /\ auth' = [auth EXCEPT ![s] = a]
      /\ UNCHANGED <<settings, collided, muddled, version, tokens, ended, handed>>
  BY DEF BeginAuth, sessions, apiKey
<1>2. AuthRequest(a) /\ a.read = version
  BY DEF AuthRequest, AuthInv, AuthTypeOK, SettingsRow
<1>. HIDE DEF a
<1>3. AuthTypeOK'
  BY <1>1, <1>2 DEF AuthInv, AuthTypeOK, AuthRequest, SettingsRow
<1>4. VersionsAscend => VersionsAscend'
  BY <1>1, <1>2 DEF AuthInv, AuthTypeOK, VersionsAscend
<1>. QED  BY <1>1, <1>3, <1>4 DEF AuthInv, KeyKept

(* A request that is over, or has only the link left to delete.            *)
LEMMA AuthOver ==
    ASSUME AuthTypeOK, NEW s \in Slots,
           \/ Done(s)
           \/ auth[s].step = "commit" /\ auth' = [auth EXCEPT ![s].step = "unlink"]
    PROVE  /\ DOMAIN auth' = Slots
           /\ \A r \in Slots : auth'[r] = NoAuth \/ AuthRequest(auth'[r])
           /\ \A r \in Slots : auth'[r].step = "commit" => auth'[r] = auth[r]
<1>1. CASE Done(s)
  BY <1>1 DEF AuthTypeOK, Done, NoAuth
<1>2. CASE auth[s].step = "commit" /\ auth' = [auth EXCEPT ![s].step = "unlink"]
  <2>1. AuthRequest(auth[s])
    BY <1>2 DEF AuthTypeOK, NoAuth
  <2>2. /\ auth'[s] = [auth[s] EXCEPT !.step = "unlink"]
        /\ \A r \in Slots : r # s => auth'[r] = auth[r]
        /\ DOMAIN auth' = Slots
    BY <1>2 DEF AuthTypeOK
  <2>3. AuthRequest(auth'[s]) /\ auth'[s].step = "unlink"
    BY <2>1, <2>2 DEF AuthRequest
  <2>. QED  BY <2>2, <2>3 DEF AuthTypeOK
<1>. QED  BY <1>1, <1>2

LEMMA EndKeepsAuth ==
    ASSUME AuthInv, NEW s \in Slots, EndOnSessions(s)
    PROVE  AuthInv'
<1>. USE DEF sessions, apiKey
<1>1. AuthTypeOK
  BY DEF AuthInv
<1>2. ASSUME CommitLogin(s) \/ CommitRotation(s)
      PROVE  AuthInv'
  <2>1. /\ Done(s) /\ auth[s].step = "commit"
        /\ tokens' = tokens \cup {<<auth[s].grant, auth[s].read>>}
        /\ UNCHANGED <<version, ended, collided, settings, handed, muddled>>
    BY <1>2 DEF CommitLogin, CommitRotation, Commits, Issue
  <2>2. VersionsAscend => VersionsAscend'
    BY <1>1, <2>1, AuthOver DEF VersionsAscend
  <2>. QED  BY <1>1, <2>1, <2>2, AuthOver DEF AuthInv, AuthTypeOK, KeyKept, SettingsRow
<1>3. ASSUME CommitLogout(s) \/ CommitReset(s) \/ CommitDeactivation(s)
      PROVE  AuthInv'
  <2>1. /\ Increment(s) /\ auth[s].step = "commit"
        /\ Done(s) \/ auth' = [auth EXCEPT ![s].step = "unlink"]
        /\ UNCHANGED <<tokens, settings, handed, muddled>>
    BY <1>3 DEF CommitLogout, CommitReset, CommitDeactivation, Commits
  <2>2. CASE version = auth[s].read
    <3>1. /\ version' = version + 1 /\ ended' = tokens
          /\ collided' = (collided \/ version # auth[s].read)
      BY <2>1, <2>2 DEF Increment
    <3>2. VersionsAscend => VersionsAscend'
      BY <1>1, <2>1, <3>1, AuthOver DEF VersionsAscend
    <3>3. collided' = collided
      BY <1>1, <2>2, <3>1 DEF AuthTypeOK
    <3>. QED
      BY <1>1, <2>1, <3>2, <3>3, AuthOver DEF AuthInv, AuthTypeOK, KeyKept, SettingsRow
  <2>3. CASE version # auth[s].read
    <3>1. collided' = TRUE
      BY <2>1, <2>3 DEF Increment
    <3>. QED  BY <1>1, <2>1, <3>1, AuthOver DEF AuthInv, AuthTypeOK, KeyKept, SettingsRow
  <2>. QED  BY <2>2, <2>3
<1>4. ASSUME Done(s), UNCHANGED <<version, tokens, ended, collided>>,
             SettingsRow(settings'), muddled' \in BOOLEAN, KeyKept'
      PROVE  AuthInv'
  <2>1. VersionsAscend => VersionsAscend'
    BY <1>1, <1>4, AuthOver DEF VersionsAscend
  <2>. QED  BY <1>1, <1>4, <2>1, AuthOver DEF AuthInv, AuthTypeOK
<1>5. ASSUME CommitRevocation(s) \/ Unlink(s) \/ CommitFails(s)
      PROVE  AuthInv'
  <2>1. Done(s) /\ UNCHANGED <<version, tokens, ended, collided, settings, handed, muddled>>
    BY <1>5 DEF CommitRevocation, Unlink, CommitFails
  <2>. QED  BY <1>1, <1>4, <2>1 DEF AuthInv, AuthTypeOK, KeyKept, SettingsRow
<1>6. ASSUME CommitSettings(s)
      PROVE  AuthInv'
  <2>1. /\ Done(s) /\ settings' = [settings EXCEPT !.exists = TRUE]
        /\ UNCHANGED <<version, tokens, ended, collided, handed, muddled>>
    BY <1>6 DEF CommitSettings
  <2>2. /\ SettingsRow(settings')
        /\ settings'.key = settings.key /\ settings'.revoked = settings.revoked
    BY <1>1, <2>1 DEF AuthTypeOK, SettingsRow
  <2>. QED  BY <1>1, <1>4, <2>1, <2>2 DEF AuthInv, AuthTypeOK, KeyKept
<1>7. ASSUME CommitKey(s)
      PROVE  AuthInv'
  <2>1. /\ Done(s) /\ auth[s].step = "commit"
        /\ UNCHANGED <<version, tokens, ended, collided>>
    BY <1>7 DEF CommitKey, Commits
  <2>2. CASE UNCHANGED apiKey
    BY <1>1, <1>4, <2>1, <2>2 DEF AuthInv, AuthTypeOK, KeyKept, SettingsRow
  <2>3. CASE /\ settings' = [exists |-> TRUE, key |-> auth[s].grant, revoked |-> RevokedAfter(s)]
             /\ handed' = auth[s].grant
             /\ muddled' = (settings.revoked # auth[s].settings.revoked)
    <3>1. settings.revoked \in BOOLEAN /\ auth[s].settings.revoked \in BOOLEAN
      BY <1>1, <2>1 DEF AuthTypeOK, AuthRequest, SettingsRow, NoAuth
    <3>2. /\ SettingsRow(settings') /\ settings'.key = handed'
          /\ settings'.revoked = (settings.revoked /\ ~auth[s].settings.revoked)
      BY <2>3, <3>1 DEF SettingsRow, RevokedAfter
    <3>. QED  BY <1>4, <2>1, <2>3, <3>1, <3>2 DEF KeyKept
  <2>. QED  BY <1>7, <2>2, <2>3 DEF CommitKey
<1>8. ASSUME CommitKeyRevocation(s)
      PROVE  AuthInv'
  <2>1. /\ Done(s) /\ settings' = [settings EXCEPT !.revoked = TRUE]
        /\ handed' = 0 /\ muddled' = FALSE
        /\ UNCHANGED <<version, tokens, ended, collided>>
    BY <1>8 DEF CommitKeyRevocation
  <2>2. SettingsRow(settings')
    BY <1>1, <2>1 DEF AuthTypeOK, SettingsRow
  <2>. QED  BY <1>4, <2>1, <2>2 DEF KeyKept
<1>. QED  BY <1>2, <1>3, <1>5, <1>6, <1>7, <1>8 DEF EndOnSessions

LEMMA AuthInvNext == AuthInv /\ [Next]_vars => AuthInv'
<1>. SUFFICES ASSUME AuthInv, [Next]_vars PROVE AuthInv'
  OBVIOUS
<1>1. ASSUME NEW s \in Slots, Begins(s)
      PROVE  AuthInv'
  <2>1. CASE BeginOnSessions(s)
    BY <2>1, BeginKeepsAuth
    DEF BeginOnSessions, Login, Logout, Deactivate, ConfirmReset, OpenSettings, GenerateKey,
        RevokeKey, Rotate, Revoke
  <2>2. CASE BeginOnDesign(s)
    BY <2>2, OthersKeepAuth
    DEF BeginOnDesign, EnableShare, DisableShare, OpenDesign, DeleteDesign, UpdateReview, Claim,
        BeginEdit, sessions, apiKey
  <2>3. CASE UNCHANGED <<sessions, auth, design, edit>>
    BY <2>3, OthersKeepAuth DEF sessions, apiKey
  <2>. QED  BY <1>1, <2>1, <2>2, <2>3 DEF Begins
<1>2. ASSUME NEW s \in Slots, SessionsAfterWork
      PROVE  AuthInv'
  <2>1. UNCHANGED <<auth, version, tokens, ended, collided>>
    BY <1>2 DEF SessionsAfterWork
  <2>2. CASE UNCHANGED apiKey
    BY <2>1, <2>2, OthersKeepAuth DEF apiKey
  <2>3. CASE settings' = NoSettings /\ handed' = 0 /\ muddled' = FALSE
    <3>1. SettingsRow(NoSettings)
      BY DEF SettingsRow, NoSettings
    <3>. QED  BY <2>1, <2>3, <3>1 DEF AuthInv, AuthTypeOK, VersionsAscend, KeyKept
  <2>. QED  BY <1>2, <2>2, <2>3 DEF SessionsAfterWork
<1>3. ASSUME NEW s \in Slots, Ends(s)
      PROVE  AuthInv'
  <2>1. CASE CommitEdit(s) \/ Answer(s)
    BY <2>1, OthersKeepAuth DEF CommitEdit, Answer, sessions, apiKey
  <2>. QED  BY <1>2, <1>3, <2>1, EndKeepsAuth DEF Ends
<1>4. CASE SendLink \/ UNCHANGED vars
  BY <1>4, OthersKeepAuth DEF SendLink, vars, sessions, apiKey
<1>. QED  BY <1>1, <1>3, <1>4 DEF Next

(* An access token given out before a logout, a password reset or a        *)
(* deactivation is not accepted after it, unless two of these crossed.     *)
THEOREM TokensEnd == Spec => []EndedForGood
<1>1. AuthInv => EndedForGood
  BY DEF AuthInv, VersionsAscend, EndedForGood, Valid
<1>. QED  BY <1>1, AuthInvInit, AuthInvNext, PTL DEF Spec

(* The key a user was given last works until he revokes it, unless the     *)
(* revocation of an earlier one was committed meanwhile.                   *)
THEOREM KeysWork == Spec => []GivenKeyWorks
<1>1. AuthInv => GivenKeyWorks
  BY DEF AuthInv, AuthTypeOK, SettingsRow, KeyKept, GivenKeyWorks, Accepts
<1>. QED  BY <1>1, AuthInvInit, AuthInvNext, PTL DEF Spec

-----------------------------------------------------------------------------
(* The design.                                                             *)

(* A request fills a column it read empty, disables the link, or reviews.  *)
EditSound(e) ==
    \/ e.assigns = {}
    \/ \E c \in Claimed : e.assigns = {c} /\ e.read[c] = 0 /\ e.new[c] # 0
    \/ e.assigns = {"share_token"} /\ e.new.share_token = 0
    \/ /\ e.assigns = Reviewed
       /\ e.new.review_status = "approved" => e.new.review_owner # Nobody

EditRequest(e) ==
    /\ e = [step |-> e.step, assigns |-> e.assigns, read |-> e.read, new |-> e.new,
            answers |-> e.answers, deletes |-> e.deletes]
    /\ e.answers \subseteq Claimed
    /\ EditSound(e)

EditsInv ==
    /\ started \in Nat
    /\ DOMAIN edit = Slots
    /\ \A s \in Slots : edit[s] = NoEdit \/ EditRequest(edit[s])

RowInv == row = [c \in Columns |-> row[c]]

GivenInv ==
    \A g \in given : /\ g[1] \in Claimed /\ g[2] # 0
                     /\ row[g[1]] = g[2] \/ g[1] \in crossed

ReviewInv == EditsInv /\ RowInv /\ GivenInv /\ ApprovedHasOwner

LEMMA ReviewInvInit == Init => ReviewInv
<1>. SUFFICES ASSUME Init PROVE ReviewInv
  OBVIOUS
<1>1. /\ edit = [s \in Slots |-> NoEdit] /\ given = {} /\ started = 0
      /\ row = [share_token |-> 0, discussion |-> 0,
                review_status |-> "draft", review_owner |-> Nobody]
  BY DEF Init, WorkspacesInit
<1>2. RowInv
  BY <1>1 DEF RowInv, Columns
<1>. QED  BY <1>1, <1>2 DEF ReviewInv, EditsInv, GivenInv, ApprovedHasOwner

LEMMA OthersKeepReview ==
    ASSUME ReviewInv, started' = started \/ started' = started + 1,
           UNCHANGED <<edit, row, given, crossed>>
    PROVE  ReviewInv'
BY DEF ReviewInv, EditsInv, RowInv, GivenInv, ApprovedHasOwner

LEMMA BeginKeepsReview ==
    ASSUME ReviewInv, NEW s \in Slots, NEW change, EditRequest(change), BeginEdit(s, change)
    PROVE  ReviewInv'
<1>1. /\ edit' = [edit EXCEPT ![s] = change]
      /\ started' = started + 1 /\ UNCHANGED <<row, given, crossed>>
  BY DEF BeginEdit, design
<1>2. EditsInv'
  BY <1>1 DEF ReviewInv, EditsInv
<1>. QED  BY <1>1, <1>2 DEF ReviewInv, RowInv, GivenInv, ApprovedHasOwner

LEMMA EditShape ==
    ASSUME NEW assigns, NEW new, NEW answers, NEW deletes, answers \subseteq Claimed,
           EditSound(EditOf(assigns, new, answers, deletes))
    PROVE  EditRequest(EditOf(assigns, new, answers, deletes))
BY DEF EditRequest, EditOf

LEMMA ClaimKeepsReview ==
    ASSUME ReviewInv, NEW s \in Slots, NEW c \in Claimed, Claim(s, c)
    PROVE  ReviewInv'
<1>. DEFINE new == IF Missing(c) = {} THEN row ELSE [row EXCEPT ![c] = started + 1]
            e == EditOf(Missing(c), new, {c}, FALSE)
<1>1. e.assigns = Missing(c) /\ e.read = row /\ e.new = new
  BY DEF EditOf
<1>2. EditSound(e)
  <2>1. CASE Missing(c) = {}
    BY <1>1, <2>1 DEF EditSound
  <2>2. CASE Missing(c) # {}
    <3>1. Missing(c) = {c} /\ row[c] = 0
      BY <2>2 DEF Missing
    <3>2. c \in DOMAIN row /\ started + 1 # 0
      BY DEF ReviewInv, RowInv, Columns, Claimed, EditsInv
    <3>3. new[c] # 0
      BY <2>2, <3>2
    <3>. HIDE DEF new
    <3>. QED  BY <1>1, <3>1, <3>3 DEF EditSound
  <2>. QED  BY <2>1, <2>2
<1>3. EditRequest(e)
  BY <1>2, EditShape
<1>. QED  BY <1>3, BeginKeepsReview DEF Claim

LEMMA BeginOnDesignKeepsReview ==
    ASSUME ReviewInv, NEW s \in Slots, BeginOnDesign(s)
    PROVE  ReviewInv'
<1>1. ASSUME NEW a \in Callers, EnableShare(s, a) \/ OpenDesign(s, a)
      PROVE  ReviewInv'
  BY <1>1, ClaimKeepsReview DEF EnableShare, OpenDesign, Claimed
<1>2. ASSUME NEW a \in Callers, DisableShare(s, a)
      PROVE  ReviewInv'
  <2>. DEFINE new == [row EXCEPT !.share_token = 0]
              e == EditOf({"share_token"}, new, {}, FALSE)
  <2>1. new.share_token = 0
    BY DEF ReviewInv, RowInv, Columns
  <2>2. EditSound(e)
    BY <2>1 DEF EditSound, EditOf
  <2>3. EditRequest(e)
    BY <2>2, EditShape
  <2>. QED  BY <1>2, <2>3, BeginKeepsReview DEF DisableShare
<1>3. ASSUME NEW a \in Callers, DeleteDesign(s, a)
      PROVE  ReviewInv'
  <2>1. EditSound(EditOf({}, row, {}, TRUE))
    BY DEF EditSound, EditOf
  <2>2. EditRequest(EditOf({}, row, {}, TRUE))
    BY <2>1, EditShape
  <2>. QED  BY <1>3, <2>2, BeginKeepsReview DEF DeleteDesign
<1>4. ASSUME NEW a \in Callers, NEW review \in ReviewStatus, NEW owner \in Users \cup {Nobody},
             UpdateReview(s, a, review, owner)
      PROVE  ReviewInv'
  <2>. DEFINE new == [row EXCEPT !.review_status = review, !.review_owner = owner]
              e == EditOf(Reviewed, new, {}, FALSE)
  <2>1. new.review_status = review /\ new.review_owner = owner
    BY DEF ReviewInv, RowInv, Columns
  <2>2. review = "approved" => owner # Nobody
    BY <1>4 DEF UpdateReview, Reviewable
  <2>3. EditSound(e)
    BY <2>1, <2>2 DEF EditSound, EditOf
  <2>4. EditRequest(e)
    BY <2>3, EditShape
  <2>. QED  BY <1>4, <2>4, BeginKeepsReview DEF UpdateReview
<1>. QED  BY <1>1, <1>2, <1>3, <1>4 DEF BeginOnDesign

(* What a commit does to the columns.  e is the edit, read as a value.     *)
LEMMA CommitEditKeepsRow ==
    ASSUME ReviewInv, NEW e, EditSound(e),
           row' = [c \in Columns |-> IF c \in Written(e) THEN e.new[c] ELSE row[c]],
           crossed' = crossed \cup Crossing(e),
           given' = IF Disables(e) /\ Written(e) # {}
                    THEN {g \in given : g[1] # "share_token"}
                    ELSE given
    PROVE  RowInv' /\ GivenInv' /\ ApprovedHasOwner'
<1>1. /\ RowInv'
      /\ \A c \in Columns : row'[c] = IF c \in Written(e) THEN e.new[c] ELSE row[c]
      /\ given' \subseteq given /\ crossed \subseteq crossed'
  BY DEF RowInv
<1>2. Claimed \subseteq Columns /\ Reviewed \subseteq Columns /\ Claimed \cap Reviewed = {}
  BY DEF Claimed, Columns, Reviewed
<1>3. Written(e) \subseteq e.assigns
  BY DEF Written
<1>4. ASSUME Written(e) \cap Claimed = {}
      PROVE  GivenInv'
  BY <1>1, <1>2, <1>4 DEF ReviewInv, GivenInv
<1>5. ASSUME Written(e) \cap Reviewed = {}
      PROVE  ApprovedHasOwner'
  BY <1>1, <1>2, <1>5 DEF ReviewInv, ApprovedHasOwner, Reviewed
<1>6. CASE e.assigns = {}
  BY <1>1, <1>3, <1>4, <1>5, <1>6
<1>7. ASSUME NEW c \in Claimed, e.assigns = {c}, e.read[c] = 0, e.new[c] # 0
      PROVE  GivenInv' /\ ApprovedHasOwner'
  <2>1. Written(e) = {c} /\ ~Disables(e)
    BY <1>7 DEF Written, Disables
  <2>2. row[c] # 0 => c \in crossed'
    BY <1>7, <2>1 DEF Crossing
  <2>3. GivenInv'
    BY <1>1, <1>2, <2>1, <2>2 DEF ReviewInv, GivenInv
  <2>. QED  BY <1>2, <1>5, <2>1, <2>3
<1>8. CASE e.assigns = {"share_token"} /\ e.new.share_token = 0
  <2>1. CASE Written(e) = {}
    BY <1>1, <1>4, <1>5, <2>1
  <2>2. CASE Written(e) # {}
    <3>1. Disables(e) /\ Written(e) = {"share_token"}
      BY <1>3, <1>8, <2>2 DEF Disables
    <3>2. given' = {g \in given : g[1] # "share_token"}
      BY <2>2, <3>1
    <3>3. GivenInv'
      BY <1>1, <1>2, <3>1, <3>2 DEF ReviewInv, GivenInv
    <3>4. Written(e) \cap Reviewed = {}
      BY <3>1 DEF Reviewed
    <3>. QED  BY <1>1, <1>5, <3>3, <3>4
  <2>. QED  BY <2>1, <2>2
<1>9. CASE /\ e.assigns = Reviewed
           /\ e.new.review_status = "approved" => e.new.review_owner # Nobody
  <2>1. Written(e) \cap Claimed = {}
    BY <1>2, <1>3, <1>9
  <2>2. ~Disables(e)
    BY <1>9 DEF Disables, Reviewed
  <2>3. CASE \E c \in Reviewed : row[c] # e.read[c]
    BY <1>1, <1>4, <1>9, <2>1, <2>2, <2>3 DEF Crossing, ApprovedHasOwner
  <2>4. CASE \A c \in Reviewed : row[c] = e.read[c]
    <3>1. \A c \in Reviewed : row'[c] = e.new[c]
      BY <1>1, <1>2, <1>9, <2>4 DEF Written
    <3>2. ApprovedHasOwner'
      BY <1>9, <3>1 DEF ApprovedHasOwner, Reviewed
    <3>. QED  BY <1>1, <1>4, <2>1, <3>2
  <2>. QED  BY <2>3, <2>4
<1>. QED  BY <1>1, <1>6, <1>7, <1>8, <1>9 DEF EditSound

LEMMA EditOver ==
    ASSUME EditsInv, NEW s \in Slots, UNCHANGED started,
           \/ edit' = [edit EXCEPT ![s] = NoEdit]
           \/ EditRequest(edit[s]) /\ edit' = [edit EXCEPT ![s] = [edit[s] EXCEPT !.step = "answer"]]
    PROVE  EditsInv'
<1>1. CASE edit' = [edit EXCEPT ![s] = NoEdit]
  BY <1>1 DEF EditsInv
<1>2. CASE /\ EditRequest(edit[s])
           /\ edit' = [edit EXCEPT ![s] = [edit[s] EXCEPT !.step = "answer"]]
  <2>1. EditRequest([edit[s] EXCEPT !.step = "answer"])
    BY <1>2 DEF EditRequest, EditSound
  <2>. QED  BY <1>2, <2>1 DEF EditsInv
<1>. QED  BY <1>1, <1>2

LEMMA CommitEditKeepsReview ==
    ASSUME ReviewInv, NEW s \in Slots, CommitEdit(s)
    PROVE  ReviewInv'
<1>1. EditRequest(edit[s]) /\ UNCHANGED started
  BY DEF CommitEdit, ReviewInv, EditsInv, NoEdit, wvars
<1>2. CASE Exists
  <2>1. EditsInv'
    BY <1>1, <1>2, EditOver DEF CommitEdit, ReviewInv
  <2>2. PICK e \in {edit[s]} : TRUE
    OBVIOUS
  <2>3. /\ row' = [c \in Columns |-> IF c \in Written(e) THEN e.new[c] ELSE row[c]]
        /\ crossed' = crossed \cup Crossing(e)
        /\ given' = IF Disables(e) /\ Written(e) # {}
                    THEN {g \in given : g[1] # "share_token"}
                    ELSE given
    BY <1>2, <2>2 DEF CommitEdit
  <2>4. EditSound(e)
    BY <1>1, <2>2 DEF EditRequest
  <2>. QED  BY <2>1, <2>3, <2>4, CommitEditKeepsRow DEF ReviewInv
<1>3. CASE ~Exists
  <2>1. edit' = [edit EXCEPT ![s] = NoEdit] /\ UNCHANGED <<row, given, crossed>>
    BY <1>3 DEF CommitEdit, design
  <2>2. EditsInv'
    BY <1>1, <2>1, EditOver DEF ReviewInv
  <2>. QED  BY <2>1, <2>2 DEF ReviewInv, RowInv, GivenInv, ApprovedHasOwner
<1>. QED  BY <1>2, <1>3

(* The answer gives out what the row holds by then.                        *)
LEMMA AnswerKeepsReview ==
    ASSUME ReviewInv, NEW s \in Slots, Answer(s)
    PROVE  ReviewInv'
<1>1. /\ edit' = [edit EXCEPT ![s] = NoEdit] /\ UNCHANGED <<started, row, crossed>>
      /\ given' \subseteq given \cup {<<c, row[c]>> : c \in {c \in edit[s].answers : row[c] # 0}}
  BY DEF Answer, wvars
<1>2. EditsInv'
  BY <1>1, EditOver DEF ReviewInv
<1>3. edit[s].answers \subseteq Claimed
  BY DEF Answer, ReviewInv, EditsInv, NoEdit, EditRequest
<1>. QED  BY <1>1, <1>2, <1>3 DEF ReviewInv, RowInv, GivenInv, ApprovedHasOwner

LEMMA WorkKeepsReview ==
    ASSUME ReviewInv, NEW s \in Slots, CommitWork(s), OwnerLeaves(s) \/ OwnerStays(s),
           UNCHANGED <<present, given, edit>>
    PROVE  ReviewInv'
<1>1. UNCHANGED started
  BY DEF CommitWork
<1>2. CASE OwnerStays(s)
  BY <1>1, <1>2, OthersKeepReview DEF OwnerStays
<1>3. CASE OwnerLeaves(s)
  <2>1. /\ row' = [row EXCEPT !.review_owner = Nobody]
        /\ crossed' = crossed \cup Reviewed
    BY <1>3 DEF OwnerLeaves
  <2>2. RowInv' /\ \A c \in Claimed : row'[c] = row[c]
    BY <2>1 DEF ReviewInv, RowInv, Columns, Claimed
  <2>. QED
    BY <1>1, <2>1, <2>2 DEF ReviewInv, EditsInv, GivenInv, ApprovedHasOwner
<1>. QED  BY <1>2, <1>3

LEMMA ReviewInvNext == ReviewInv /\ [Next]_vars => ReviewInv'
<1>. SUFFICES ASSUME ReviewInv, [Next]_vars PROVE ReviewInv'
  OBVIOUS
<1>1. ASSUME NEW s \in Slots, BeginWork(s), UNCHANGED <<design, edit>>
      PROVE  ReviewInv'
  <2>1. started' = started + 1
    BY <1>1 DEF BeginWork, Register, CreateWorkspace, DeleteWorkspace, InviteMember,
                UpdateMemberRole, RemoveMember, SetDefaultWorkspace, ResolveActive,
                DeleteAccount, Begin
  <2>. QED  BY <1>1, <2>1, OthersKeepReview DEF design
<1>2. ASSUME NEW s \in Slots, BeginOnSessions(s), UNCHANGED <<design, edit>>
      PROVE  ReviewInv'
  <2>1. started' = started + 1
    BY <1>2 DEF BeginOnSessions, Login, Logout, Deactivate, ConfirmReset, OpenSettings,
                GenerateKey, RevokeKey, Rotate, Revoke, BeginAuth
  <2>. QED  BY <1>2, <2>1, OthersKeepReview DEF design
<1>3. ASSUME NEW s \in Slots, EndOnSessions(s), UNCHANGED <<design, edit>>
      PROVE  ReviewInv'
  <2>1. UNCHANGED started
    BY <1>3 DEF EndOnSessions, CommitLogin, CommitRotation, CommitRevocation, CommitLogout,
                CommitReset, Unlink, CommitDeactivation, CommitFails, CommitSettings, CommitKey,
                CommitKeyRevocation, wvars
  <2>. QED  BY <1>3, <2>1, OthersKeepReview DEF design
<1>4. ASSUME NEW s \in Slots, Begins(s)
      PROVE  ReviewInv'
  BY <1>1, <1>2, <1>4, BeginOnDesignKeepsReview DEF Begins
<1>5. ASSUME NEW s \in Slots, Ends(s)
      PROVE  ReviewInv'
  BY <1>3, <1>5, WorkKeepsReview, CommitEditKeepsReview, AnswerKeepsReview DEF Ends
<1>6. CASE SendLink /\ UNCHANGED <<design, edit>>
  BY <1>6, OthersKeepReview DEF SendLink, design
<1>7. CASE UNCHANGED vars
  BY <1>7, OthersKeepReview DEF vars, wvars, design
<1>. QED  BY <1>4, <1>5, <1>6, <1>7 DEF Next

(* A link or a discussion users were given is the design's until somebody  *)
(* disables the link, unless two first requests for it crossed.            *)
THEOREM LinksWork == Spec => []GivenOutWorks
<1>1. ReviewInv => GivenOutWorks
  BY DEF ReviewInv, GivenInv, GivenOutWorks, Finds
<1>. QED  BY <1>1, ReviewInvInit, ReviewInvNext, PTL DEF Spec

(* An approved design has a review owner, unless two reviews crossed or    *)
(* the owner deleted his account.                                          *)
THEOREM ApprovalsAreOwned == Spec => []ApprovedHasOwner
<1>1. ReviewInv => ApprovedHasOwner
  BY DEF ReviewInv
<1>. QED  BY <1>1, ReviewInvInit, ReviewInvNext, PTL DEF Spec

-----------------------------------------------------------------------------
(* Types.  Rows are numbered one by one: as many may still be inserted as  *)
(* requests are under way.                                                 *)
Pending == {s \in Slots : ~Idle(s)}

WorkspacesInv ==
    /\ AdminInv
    /\ WorkspacesTypeOK
    /\ \A s \in Slots : work[s].creates \subseteq 1..lastId
    /\ IsFiniteSet(Pending)
    /\ lastRow + Cardinality(Pending) <= Cardinality(Users) + started

(* A version to be incremented was read before its request was counted.    *)
SessionsInv ==
    /\ SessionsTypeOK
    /\ started \in 0..MaxRequests
    /\ version <= started
    /\ \A s \in Slots : auth[s].step = "commit" =>
          /\ auth[s].read < started
          /\ auth[s].kind = "rotate" => auth[s].saw = "live"

DesignTypeOK ==
    /\ started \in 0..MaxRequests
    /\ present \in BOOLEAN
    /\ row \in Row
    /\ edit \in [Slots -> Edits]
    /\ given \subseteq Claimed \X Numbers
    /\ crossed \subseteq Columns

LEMMA RowNumbers == Cardinality(Users) \in Nat
BY FS_CardinalityType

LEMMA NothingToDo == NoWork \in Works
BY DEF NoWork, Works

LEMMA WorkspacesInvInit == Init => WorkspacesInv
<1>. SUFFICES ASSUME Init PROVE WorkspacesInv
  OBVIOUS
<1>1. PICK role \in [Users -> Role \cup {"none"}] :
        /\ \E u \in Users : role[u] = "admin"
        /\ members = {[id |-> FirstRow[u], ws |-> 1, user |-> u, role |-> role[u]] :
                           u \in {u \in Users : role[u] # "none"}}
        /\ default = [u \in Users |-> IF role[u] = "none" THEN 0 ELSE 1]
        /\ account \in [Users -> {"none", "active"}]
        /\ \A u \in Users : role[u] # "none" => account[u] = "active"
  BY DEF Init, WorkspacesInit
<1>2. /\ lastId = 1 /\ live = {1} /\ lastRow = Cardinality(Users)
      /\ work = [s \in Slots |-> NoWork] /\ started = 0 /\ stale = {} /\ left = {}
  BY DEF Init, WorkspacesInit
<1>3. Pending = {} /\ IsFiniteSet(Pending) /\ Cardinality(Pending) = 0
  BY <1>2, FS_EmptySet DEF Pending, Idle
<1>4. lastRow + Cardinality(Pending) <= Cardinality(Users) + started
  BY <1>2, <1>3, RowNumbers
<1>5. lastRow \in Rows
  BY <1>1, <1>2, FirstRowNumbers DEF Rows
<1>6. members \subseteq [id : 1..lastRow, ws : live, user : Accounts, role : Role]
  BY <1>1, <1>2, FirstRowNumbers DEF Accounts
<1>7. \A m, n \in members : m.id = n.id \/ (m.user = n.user /\ m.ws = n.ws) => m = n
  BY <1>1, FirstRowNumbers
<1>8. account \in [Users -> Account] /\ default \in [Users -> live \cup {0}]
  BY <1>1, <1>2 DEF Account
<1>9. work \in [Slots -> Works] /\ \A s \in Slots : work[s].creates = {}
  BY <1>2, NothingToDo DEF NoWork
<1>10. lastId \in Ids /\ live \subseteq 1..lastId /\ started \in 0..MaxRequests
  BY <1>2 DEF Ids
<1>11. stale \subseteq Ids /\ left \subseteq Ids
  BY <1>2
<1>. QED
  BY <1>3, <1>4, <1>5, <1>6, <1>7, <1>8, <1>9, <1>10, <1>11, AdminInvInit
  DEF WorkspacesInv, WorkspacesTypeOK

(* At most one more request is under way.                                  *)
LEMMA BeginKeepsWorkspaces ==
    ASSUME WorkspacesInv, AdminInv', NEW s \in Slots, NEW unit \in Works,
           Begin(s, unit), UNCHANGED rows,
           lastId' \in Ids, lastId <= lastId', unit.creates \subseteq 1..lastId'
    PROVE  WorkspacesInv'
<1>1. /\ work' = [work EXCEPT ![s] = unit] /\ work \in [Slots -> Works]
      /\ started' = started + 1 /\ started < MaxRequests /\ started \in 0..MaxRequests
      /\ lastId \in Ids /\ s \notin Pending
  BY DEF Begin, WorkspacesInv, WorkspacesTypeOK, Pending
<1>2. Pending' \subseteq Pending \cup {s}
  BY <1>1 DEF Pending, Idle
<1>3. /\ IsFiniteSet(Pending \cup {s})
      /\ Cardinality(Pending \cup {s}) = Cardinality(Pending) + 1
  BY <1>1, FS_AddElement DEF WorkspacesInv
<1>4. IsFiniteSet(Pending') /\ Cardinality(Pending') <= Cardinality(Pending) + 1
  BY <1>2, <1>3, FS_Subset
<1>5. Cardinality(Pending) \in Nat /\ Cardinality(Pending') \in Nat /\ lastRow \in Nat
  BY <1>4, FS_CardinalityType DEF WorkspacesInv, AdminInv, RowsInv
<1>6. lastRow' + Cardinality(Pending') <= Cardinality(Users) + started'
  BY <1>1, <1>4, <1>5, RowNumbers DEF WorkspacesInv, rows
<1>7. work' \in [Slots -> Works] /\ started' \in 0..MaxRequests
  BY <1>1
<1>8. live' \subseteq 1..lastId' /\ \A r \in Slots : work'[r].creates \subseteq 1..lastId'
  BY <1>1 DEF WorkspacesInv, WorkspacesTypeOK, rows, Ids
<1>. QED
  BY <1>4, <1>6, <1>7, <1>8 DEF WorkspacesInv, WorkspacesTypeOK, rows, Accounts

LEMMA BeginWorkKeepsWorkspaces ==
    ASSUME WorkspacesInv, AdminInv', NEW s \in Slots, BeginWork(s)
    PROVE  WorkspacesInv'
<1>1. /\ lastId \in Ids /\ live \subseteq Ids /\ 1..lastRow \subseteq Rows
      /\ default \in [Users -> live \cup {0}]
  BY RowNumbers DEF WorkspacesInv, WorkspacesTypeOK, Ids, Rows
<1>0. \A m \in members : m.id \in Rows /\ m.ws \in Ids /\ m.user \in Users
  BY <1>1 DEF WorkspacesInv, WorkspacesTypeOK, Accounts
<1>2. ASSUME NEW unit \in Works, unit.creates = {}, Begin(s, unit), UNCHANGED <<rows, lastId>>
      PROVE  WorkspacesInv'
  <2>1. lastId' = lastId /\ lastId <= lastId
    BY <1>1, <1>2 DEF Ids
  <2>. QED  BY <1>1, <1>2, <2>1, BeginKeepsWorkspaces
<1>3. ASSUME NEW unit \in Works, unit.creates = {lastId + 1}, Begin(s, unit), UNCHANGED rows,
             lastId < MaxWorkspaces, lastId' = lastId + 1
      PROVE  WorkspacesInv'
  <2>1. lastId' \in Ids /\ lastId <= lastId' /\ unit.creates \subseteq 1..lastId'
    BY <1>1, <1>3 DEF Ids
  <2>. QED  BY <1>3, <2>1, BeginKeepsWorkspaces
<1>. USE DEF NoWork, Works
<1>4. ASSUME NEW u \in Users, Register(s, u)
      PROVE  WorkspacesInv'
  <2>. DEFINE unit == [NoWork EXCEPT !.joins = {u},
                         !.creates = {lastId + 1},
                         !.inserts = {[ws |-> lastId + 1, user |-> u, role |-> "admin"]},
                         !.defaults = {<<u, lastId + 1>>}]
  <2>1. lastId + 1 \in Ids
    BY <1>1, <1>4 DEF Register, Ids
  <2>2. /\ {lastId + 1} \in SUBSET Ids
        /\ {[ws |-> lastId + 1, user |-> u, role |-> "admin"]} \in
             SUBSET [ws : Ids, user : Users, role : Role]
        /\ {<<u, lastId + 1>>} \in SUBSET (Users \X (Ids \cup {0}))
    BY <2>1 DEF Role
  <2>3. unit \in Works /\ unit.creates = {lastId + 1}
    BY <2>2
  <2>. QED  BY <1>3, <1>4, <2>3 DEF Register
<1>5. ASSUME NEW u \in Users, CreateWorkspace(s, u)
      PROVE  WorkspacesInv'
  <2>. DEFINE unit == [NoWork EXCEPT !.creates = {lastId + 1},
                         !.inserts = {[ws |-> lastId + 1, user |-> u, role |-> "admin"]},
                         !.defaults = DefaultIfNone(u, lastId + 1)]
  <2>1. lastId + 1 \in Ids
    BY <1>1, <1>5 DEF CreateWorkspace, Ids
  <2>2. /\ {lastId + 1} \in SUBSET Ids
        /\ {[ws |-> lastId + 1, user |-> u, role |-> "admin"]} \in
             SUBSET [ws : Ids, user : Users, role : Role]
        /\ DefaultIfNone(u, lastId + 1) \in SUBSET (Users \X (Ids \cup {0}))
    BY <2>1 DEF Role, DefaultIfNone
  <2>3. unit \in Works /\ unit.creates = {lastId + 1}
    BY <2>2
  <2>. QED  BY <1>3, <1>5, <2>3 DEF CreateWorkspace
<1>6. ASSUME NEW a \in Users, NEW w \in live, DeleteWorkspace(s, a, w)
      PROVE  WorkspacesInv'
  <2>. DEFINE kept == {<<m.user, 0>> : m \in {m \in members : m.ws = w /\ default[m.user] = w}}
              unit == [NoWork EXCEPT !.drops = {w}, !.defaults = kept]
  <2>1. {w} \in SUBSET Ids /\ kept \in SUBSET (Users \X (Ids \cup {0}))
    BY <1>0, <1>1
  <2>2. unit \in Works /\ unit.creates = {}
    BY <2>1
  <2>. QED  BY <1>2, <1>6, <2>2 DEF DeleteWorkspace
<1>7. ASSUME NEW a \in Users, NEW u \in Users, NEW w \in live, NEW role \in Role,
             InviteMember(s, a, w, u, role)
      PROVE  WorkspacesInv'
  <2>. DEFINE unit == [NoWork EXCEPT !.inserts = {[ws |-> w, user |-> u, role |-> role]},
                         !.defaults = DefaultIfNone(u, w)]
  <2>1. /\ {[ws |-> w, user |-> u, role |-> role]} \in
             SUBSET [ws : Ids, user : Users, role : Role]
        /\ DefaultIfNone(u, w) \in SUBSET (Users \X (Ids \cup {0}))
    BY <1>1 DEF DefaultIfNone
  <2>2. unit \in Works /\ unit.creates = {}
    BY <2>1
  <2>. QED  BY <1>2, <1>7, <2>2 DEF InviteMember
<1>8. ASSUME NEW a \in Users, NEW m \in members, NEW role \in Role,
             UpdateMemberRole(s, a, m, role)
      PROVE  WorkspacesInv'
  <2>. DEFINE unit == [NoWork EXCEPT !.by = {<<a, m.ws>>}, !.roles = {<<m.id, role>>}]
  <2>1. {<<a, m.ws>>} \in SUBSET (Users \X Ids) /\ {<<m.id, role>>} \in SUBSET (Rows \X Role)
    BY <1>0
  <2>2. unit \in Works /\ unit.creates = {}
    BY <2>1
  <2>. QED  BY <1>2, <1>8, <2>2 DEF UpdateMemberRole
<1>9. ASSUME NEW a \in Users, NEW m \in members, RemoveMember(s, a, m)
      PROVE  WorkspacesInv'
  <2>. DEFINE unit == [NoWork EXCEPT !.by = {<<a, m.ws>>}, !.removes = {m.id}]
  <2>1. {<<a, m.ws>>} \in SUBSET (Users \X Ids) /\ {m.id} \in SUBSET Rows
    BY <1>0
  <2>2. unit \in Works /\ unit.creates = {}
    BY <2>1
  <2>. QED  BY <1>2, <1>9, <2>2 DEF RemoveMember
<1>10. ASSUME NEW u \in Users, NEW w \in live, SetDefaultWorkspace(s, u, w)
       PROVE  WorkspacesInv'
  <2>. DEFINE unit == [NoWork EXCEPT !.defaults = {<<u, w>>}]
  <2>1. {<<u, w>>} \in SUBSET (Users \X (Ids \cup {0}))
    BY <1>1
  <2>2. unit \in Works /\ unit.creates = {}
    BY <2>1
  <2>. QED  BY <1>2, <1>10, <2>2 DEF SetDefaultWorkspace
<1>11. ASSUME NEW u \in Users, ResolveActive(s, u)
       PROVE  WorkspacesInv'
  <2>1. PICK m \in Oldest(u) : Begin(s, [NoWork EXCEPT !.defaults = {<<u, m.ws>>}])
    BY <1>11 DEF ResolveActive
  <2>. DEFINE unit == [NoWork EXCEPT !.defaults = {<<u, m.ws>>}]
  <2>2. {<<u, m.ws>>} \in SUBSET (Users \X (Ids \cup {0}))
    BY <1>0 DEF Oldest
  <2>3. unit \in Works /\ unit.creates = {}
    BY <2>2
  <2>. QED  BY <1>2, <1>11, <2>1, <2>3 DEF ResolveActive
<1>12. ASSUME NEW u \in Users, DeleteAccount(s, u)
       PROVE  WorkspacesInv'
  <2>. DEFINE gone == {m.id : m \in {m \in members : m.user = u}}
              unit == [NoWork EXCEPT !.leaves = {u}, !.removes = gone]
  <2>1. {u} \in SUBSET Users /\ gone \in SUBSET Rows
    BY <1>0
  <2>2. unit \in Works /\ unit.creates = {}
    BY <2>1
  <2>. QED  BY <1>2, <1>12, <2>2 DEF DeleteAccount
<1>. QED
  BY <1>4, <1>5, <1>6, <1>7, <1>8, <1>9, <1>10, <1>11, <1>12 DEF BeginWork, Callers

(* A commit that is refused changes nothing; any other writes typed rows.  *)
LEMMA CommitKeepsWorkspaces ==
    ASSUME WorkspacesInv, AdminInv', NEW s \in Slots, CommitWork(s)
    PROVE  WorkspacesInv'
<1>1. PICK unit \in Works : unit = work[s]
  BY DEF WorkspacesInv, WorkspacesTypeOK
<1>2. /\ s \in Pending /\ UNCHANGED <<lastId, started>>
      /\ work' = [work EXCEPT ![s] = NoWork] /\ work \in [Slots -> Works]
      /\ lastRow' = lastRow + Cardinality(unit.inserts)
  BY <1>1 DEF CommitWork, Pending, WorkspacesInv, WorkspacesTypeOK
<1>3. /\ work' \in [Slots -> Works]
      /\ \A r \in Slots : work'[r].creates \subseteq 1..lastId'
  BY <1>2, NothingToDo DEF WorkspacesInv, NoWork
<1>4. Pending' = Pending \ {s}
  BY <1>2 DEF Pending, Idle
<1>5. IsFiniteSet(Pending') /\ Cardinality(Pending') = Cardinality(Pending) - 1
  BY <1>2, <1>4, FS_RemoveElement DEF WorkspacesInv
<1>6. /\ Cardinality(unit.inserts) \in {0, 1}
      /\ unit.inserts # {} => Cardinality(unit.inserts) = 1
  <2>1. CASE unit.inserts = {}
    BY <2>1, FS_EmptySet
  <2>2. ASSUME NEW i \in unit.inserts, unit.inserts = {i}
        PROVE  Cardinality(unit.inserts) = 1
    BY <2>2, FS_Singleton
  <2>. QED  BY <1>1, <2>1, <2>2 DEF WorkspacesInv, AdminInv, Sound
<1>7. /\ Cardinality(Pending) \in Nat /\ Cardinality(Pending') \in Nat
      /\ lastRow \in Rows /\ started \in 0..MaxRequests
  BY <1>5, FS_CardinalityType DEF WorkspacesInv, WorkspacesTypeOK
<1>8. lastRow' + Cardinality(Pending') <= Cardinality(Users) + started'
  BY <1>2, <1>5, <1>6, <1>7, RowNumbers DEF WorkspacesInv, Rows
<1>9. lastRow' \in Rows
  BY <1>2, <1>6, <1>7, <1>8, RowNumbers DEF Rows
<1>10. CASE ~Committable(unit)
  <2>1. UNCHANGED <<live, members, account, default, stale, left>>
    BY <1>1, <1>10 DEF CommitWork
  <2>2. 1..lastRow \subseteq 1..lastRow'
    BY <1>2, <1>6, <1>7 DEF Rows
  <2>3. members' \subseteq [id : 1..lastRow', ws : live', user : Accounts', role : Role]
    BY <2>1, <2>2 DEF WorkspacesInv, WorkspacesTypeOK, Accounts
  <2>. QED
    BY <1>2, <1>3, <1>5, <1>8, <1>9, <2>1, <2>3 DEF WorkspacesInv, WorkspacesTypeOK
<1>11. CASE Committable(unit)
  <2>1. /\ live' = (live \cup unit.creates) \ unit.drops
        /\ members' = {m \in Updated(unit) \cup Inserted(unit) : Kept(m, unit)}
        /\ account' = [u \in Users |-> AccountAfter(u, unit)]
        /\ default' = [u \in Users |-> IF u \in unit.leaves THEN 0 ELSE DefaultAfter(u, unit)]
        /\ stale' = stale \cup Outdated(unit)
        /\ left' = left \cup {m.ws : m \in {m \in members : m.user \in unit.leaves /\ m.role = "admin"}}
    BY <1>1, <1>11 DEF CommitWork
  <2>2. /\ live' \subseteq 1..lastId' /\ lastId' \in Ids
        /\ stale' \subseteq Ids /\ left' \subseteq Ids
    <3>1. live \subseteq Ids
      BY DEF WorkspacesInv, WorkspacesTypeOK, Ids
    <3>2. \A m \in members : m.ws \in Ids
      BY <3>1 DEF WorkspacesInv, WorkspacesTypeOK
    <3>3. Outdated(unit) \subseteq Ids
      BY DEF Outdated, Works
    <3>4. stale' \subseteq Ids /\ left' \subseteq Ids
      BY <2>1, <3>2, <3>3 DEF WorkspacesInv, WorkspacesTypeOK
    <3>5. unit.creates \subseteq 1..lastId
      BY <1>1 DEF WorkspacesInv
    <3>6. live' \subseteq 1..lastId' /\ lastId' \in Ids
      BY <1>2, <2>1, <3>5 DEF WorkspacesInv, WorkspacesTypeOK
    <3>. QED  BY <3>4, <3>6
  <2>3. account' \in [Users -> Account]
    BY <2>1 DEF AccountAfter, WorkspacesInv, WorkspacesTypeOK, Account
  <2>4. Accounts' = (Accounts \cup unit.joins) \ unit.leaves
    BY <1>11, <2>1 DEF Accounts, AccountAfter, Committable, Works
  <2>5. default' \in [Users -> live' \cup {0}]
    <3>1. ASSUME NEW u \in Users
          PROVE  DefaultAfter(u, unit) \in live' \cup {0}
      <4>. DEFINE set == {d \in unit.defaults : d[1] = u}
                  to  == IF set = {} THEN default[u] ELSE (CHOOSE d \in set : TRUE)[2]
      <4>1. to \in live \cup unit.creates \cup {0}
        BY <1>11 DEF WorkspacesInv, WorkspacesTypeOK, Committable
      <4>2. DefaultAfter(u, unit) = IF to \in unit.drops THEN 0 ELSE to
        BY DEF DefaultAfter
      <4>. HIDE DEF to
      <4>. QED  BY <2>1, <4>1, <4>2
    <3>. QED  BY <2>1, <3>1
  <2>6. ASSUME NEW m \in Updated(unit), Kept(m, unit)
        PROVE  m \in [id : 1..lastRow', ws : live', user : Accounts', role : Role]
    <3>1. PICK n \in members : m = [n EXCEPT !.role = RoleAfter(n, unit)]
      BY DEF Updated
    <3>2. n \in [id : 1..lastRow, ws : live, user : Accounts, role : Role]
      BY DEF WorkspacesInv, WorkspacesTypeOK
    <3>3. RoleAfter(n, unit) \in Role
      BY <3>2 DEF RoleAfter, Works
    <3>4. /\ m.id = n.id /\ m.ws = n.ws /\ m.user = n.user /\ m.role \in Role
          /\ m = [id |-> m.id, ws |-> m.ws, user |-> m.user, role |-> m.role]
      BY <3>1, <3>2, <3>3
    <3>5. n.id \in 1..lastRow'
      BY <1>2, <1>6, <1>7, <3>2 DEF Rows
    <3>6. n.ws \in live' /\ n.user \in Accounts'
      BY <2>1, <2>4, <2>6, <3>2, <3>4 DEF Kept
    <3>. QED  BY <3>4, <3>5, <3>6
  <2>7. ASSUME NEW m \in Inserted(unit), Kept(m, unit)
        PROVE  m \in [id : 1..lastRow', ws : live', user : Accounts', role : Role]
    <3>1. PICK i \in unit.inserts :
            m = [id |-> lastRow + 1, ws |-> i.ws, user |-> i.user, role |-> i.role]
      BY DEF Inserted
    <3>2. i.role \in Role /\ i.ws \in live \cup unit.creates /\ i.user \in Accounts \cup unit.joins
      BY <1>11 DEF Works, Committable
    <3>3. lastRow + 1 \in 1..lastRow'
      BY <1>2, <1>6, <1>7, <3>1 DEF Rows
    <3>. QED  BY <2>1, <2>4, <2>7, <3>1, <3>2, <3>3 DEF Kept
  <2>8. members' \subseteq [id : 1..lastRow', ws : live', user : Accounts', role : Role]
    BY <2>1, <2>6, <2>7
  <2>9. ASSUME NEW m \in members', NEW n \in members', m.user = n.user, m.ws = n.ws
        PROVE  m = n
    <3>1. /\ RowsInv' /\ lastRow \in Nat
          /\ \A r \in members' : r.id <= lastRow =>
                \E o \in members : o.id = r.id /\ o.ws = r.ws /\ o.user = r.user
      BY <1>1, RowsAfter DEF WorkspacesInv, AdminInv, RowsInv
    <3>2. ASSUME NEW r \in members', ~(r.id <= lastRow)
          PROVE  /\ r \in Inserted(unit) /\ Of(r.user, r.ws) = {}
                 /\ \A o \in Inserted(unit) : o = r
      <4>1. r \notin Updated(unit)
        BY <3>2 DEF Updated, WorkspacesInv, AdminInv, RowsInv, MemberRow
      <4>2. PICK i \in unit.inserts :
              r = [id |-> lastRow + 1, ws |-> i.ws, user |-> i.user, role |-> i.role]
        BY <2>1, <4>1 DEF Inserted
      <4>3. unit.inserts = {i}
        BY <1>1, <4>2 DEF WorkspacesInv, AdminInv, Sound
      <4>4. Of(i.user, i.ws) = {}
        BY <1>11 DEF Committable
      <4>. QED  BY <4>2, <4>3, <4>4 DEF Inserted
    <3>3. CASE m.id <= lastRow /\ n.id <= lastRow
      <4>1. m.id = n.id
        BY <2>9, <3>1, <3>3 DEF WorkspacesInv, WorkspacesTypeOK
      <4>. QED  BY <3>1, <4>1 DEF RowsInv
    <3>4. CASE ~(m.id <= lastRow) /\ ~(n.id <= lastRow)
      BY <3>2, <3>4
    <3>5. CASE m.id <= lastRow /\ ~(n.id <= lastRow)
      BY <2>9, <3>1, <3>2, <3>5 DEF Of
    <3>6. CASE ~(m.id <= lastRow) /\ n.id <= lastRow
      BY <2>9, <3>1, <3>2, <3>6 DEF Of
    <3>. QED  BY <3>3, <3>4, <3>5, <3>6
  <2>. QED
    BY <1>2, <1>3, <1>5, <1>8, <1>9, <2>2, <2>3, <2>5, <2>8, <2>9
    DEF WorkspacesInv, WorkspacesTypeOK, AdminInv, RowsInv
<1>. QED  BY <1>1, <1>10, <1>11

(* No other step writes these rows, but a deactivation.                    *)
LEMMA OthersKeepWorkspaces ==
    ASSUME WorkspacesInv, AdminInv',
           UNCHANGED <<live, members, lastRow, default, stale, left, lastId, work>>,
           Accounts' = Accounts, account' \in [Users -> Account],
           started' = started \/ (started < MaxRequests /\ started' = started + 1)
    PROVE  WorkspacesInv'
<1>1. started \in 0..MaxRequests /\ started' \in 0..MaxRequests /\ started <= started'
  BY DEF WorkspacesInv, WorkspacesTypeOK
<1>2. Pending' = Pending
  BY DEF Pending, Idle
<1>3. Cardinality(Pending) \in Nat /\ lastRow \in Nat
  BY FS_CardinalityType DEF WorkspacesInv, AdminInv, RowsInv
<1>4. lastRow' + Cardinality(Pending') <= Cardinality(Users) + started'
  BY <1>1, <1>2, <1>3, RowNumbers DEF WorkspacesInv
<1>. QED  BY <1>1, <1>2, <1>4 DEF WorkspacesInv, WorkspacesTypeOK

LEMMA WorkspacesInvNext == WorkspacesInv /\ [Next]_vars => WorkspacesInv'
<1>. SUFFICES ASSUME WorkspacesInv, [Next]_vars PROVE WorkspacesInv'
  OBVIOUS
<1>1. AdminInv' /\ account \in [Users -> Account]
  BY AdminInvNext DEF WorkspacesInv, WorkspacesTypeOK
<1>2. ASSUME UNCHANGED <<rows, lastId, work>>,
             started' = started \/ (started < MaxRequests /\ started' = started + 1)
      PROVE  WorkspacesInv'
  BY <1>1, <1>2, OthersKeepWorkspaces DEF rows, Accounts
<1>3. ASSUME NEW s \in Slots, Begins(s)
      PROVE  WorkspacesInv'
  <2>1. CASE BeginWork(s)
    BY <1>1, <2>1, BeginWorkKeepsWorkspaces
  <2>2. CASE BeginOnSessions(s)
    BY <1>2, <2>2
    DEF BeginOnSessions, Login, Logout, Deactivate, ConfirmReset, OpenSettings, GenerateKey,
        RevokeKey, Rotate, Revoke, BeginAuth
  <2>3. CASE BeginOnDesign(s)
    BY <1>2, <2>3
    DEF BeginOnDesign, EnableShare, DisableShare, OpenDesign, DeleteDesign, UpdateReview, Claim,
        BeginEdit
  <2>. QED  BY <1>3, <2>1, <2>2, <2>3 DEF Begins
<1>4. ASSUME NEW s \in Slots, CommitDeactivation(s)
      PROVE  WorkspacesInv'
  <2>1. /\ UNCHANGED <<live, members, lastRow, default, stale, left, lastId, work, started>>
        /\ account' = [account EXCEPT ![Holder] = "inactive"] /\ Holder \in Accounts
    BY <1>4 DEF CommitDeactivation, Commits
  <2>2. Accounts' = Accounts /\ account' \in [Users -> Account]
    BY <1>1, <2>1 DEF Accounts, Account
  <2>. QED  BY <1>1, <2>1, <2>2, OthersKeepWorkspaces
<1>5. ASSUME NEW s \in Slots, EndOnSessions(s)
      PROVE  WorkspacesInv'
  BY <1>2, <1>4, <1>5
  DEF EndOnSessions, CommitLogin, CommitRotation, CommitRevocation, CommitLogout, CommitReset,
      Unlink, CommitFails, CommitSettings, CommitKey, CommitKeyRevocation, wvars
<1>6. ASSUME NEW s \in Slots, Ends(s)
      PROVE  WorkspacesInv'
  BY <1>1, <1>2, <1>5, <1>6, CommitKeepsWorkspaces DEF Ends, CommitEdit, Answer, wvars
<1>7. CASE SendLink
  BY <1>2, <1>7 DEF SendLink
<1>8. CASE UNCHANGED vars
  BY <1>2, <1>8 DEF vars, wvars
<1>. QED  BY <1>3, <1>6, <1>7, <1>8 DEF Next

LEMMA SessionsInvInit == Init => SessionsInv
<1>. SUFFICES ASSUME Init PROVE SessionsInv
  OBVIOUS
<1>1. /\ version = 0 /\ link = FALSE
      /\ session = [g \in Grants |-> IF g = 1 THEN "live" ELSE "none"]
      /\ tokens = {<<1, 0>>} /\ ended = {}
      /\ auth = [s \in Slots |-> NoAuth]
      /\ collided = FALSE /\ logins = 1 /\ overlaps = 0
      /\ settings = NoSettings /\ handed = 0 /\ muddled = FALSE /\ started = 0
  BY DEF Init, SessionsInit, WorkspacesInit
<1>2. 1 \in Grants
  BY DEF Grants
<1>3. NoSettings \in Settings /\ NoAuth \in Auths
  BY DEF NoSettings, Settings, Auths
<1>4. session \in [Grants -> SessionState]
  BY <1>1 DEF SessionState
<1>5. auth \in [Slots -> Auths] /\ \A s \in Slots : auth[s].step # "commit"
  BY <1>1, <1>3 DEF NoAuth
<1>6. tokens \subseteq Grants \X (0..MaxRequests)
  BY <1>1, <1>2
<1>7. /\ ended \subseteq tokens /\ version \in 0..MaxRequests /\ started \in 0..MaxRequests
      /\ version <= started /\ logins \in Nat /\ overlaps \in Nat
      /\ handed \in {0} \cup Grants
  BY <1>1
<1>8. link \in BOOLEAN /\ collided \in BOOLEAN /\ muddled \in BOOLEAN /\ settings \in Settings
  BY <1>1, <1>3, Zenon
<1>. QED  BY <1>4, <1>5, <1>6, <1>7, <1>8 DEF SessionsInv, SessionsTypeOK

LEMMA BeginKeepsSessions ==
    ASSUME SessionsInv, NEW s \in Slots, NEW kind \in Kind, NEW from \in Grants,
           kind = "rotate" => session[from] = "live",
           BeginAuth(s, kind, from)
    PROVE  SessionsInv'
<1>. DEFINE a == [step |-> "commit", kind |-> kind, grant |-> started + 2, from |-> from,
                  saw |-> session[from], read |-> version, settings |-> settings]
<1>1. /\ auth' = [auth EXCEPT ![s] = a] /\ started < MaxRequests /\ started' = started + 1
      /\ UNCHANGED <<version, session, tokens, link, ended, collided, logins, overlaps,
                     settings, handed, muddled>>
  BY DEF BeginAuth, sessions, apiKey
<1>2. /\ started \in 0..MaxRequests /\ started' \in 0..MaxRequests /\ started + 2 \in Grants
      /\ version \in 0..MaxRequests /\ version <= started'
  BY <1>1 DEF SessionsInv, SessionsTypeOK, Grants
<1>3. session[from] \in SessionState /\ settings \in Settings
  BY DEF SessionsInv, SessionsTypeOK
<1>4. a \in Auths
  BY <1>2, <1>3 DEF Auths
<1>5. a.read < started' /\ (a.kind = "rotate" => a.saw = "live")
  BY <1>1, <1>2 DEF SessionsInv
<1>. HIDE DEF a
<1>6. auth' \in [Slots -> Auths]
  BY <1>1, <1>4 DEF SessionsInv, SessionsTypeOK
<1>7. \A r \in Slots : auth'[r].step = "commit" =>
         auth'[r].read < started' /\ (auth'[r].kind = "rotate" => auth'[r].saw = "live")
  <2>. TAKE r \in Slots
  <2>. HAVE auth'[r].step = "commit"
  <2>1. CASE r = s
    BY <1>1, <1>5, <2>1 DEF SessionsInv, SessionsTypeOK
  <2>2. CASE r # s
    <3>1. auth'[r] = auth[r] /\ auth[r].read < started /\ auth[r].read \in 0..MaxRequests
      BY <1>1, <2>2 DEF SessionsInv, SessionsTypeOK, Auths, NoAuth
    <3>2. auth[r].kind = "rotate" => auth[r].saw = "live"
      BY <3>1 DEF SessionsInv
    <3>. QED  BY <1>1, <1>2, <3>1, <3>2
  <2>. QED  BY <2>1, <2>2
<1>. QED  BY <1>1, <1>2, <1>6, <1>7 DEF SessionsInv, SessionsTypeOK

(* What the end of a request leaves of those under way.                    *)
LEMMA SessionsOver ==
    ASSUME SessionsInv, NEW s \in Slots, UNCHANGED started,
           \/ Done(s)
           \/ auth[s].step = "commit" /\ auth' = [auth EXCEPT ![s].step = "unlink"]
    PROVE  /\ auth' \in [Slots -> Auths]
           /\ started' \in 0..MaxRequests
           /\ \A r \in Slots : auth'[r].step = "commit" =>
                 auth'[r].read < started' /\ (auth'[r].kind = "rotate" => auth'[r].saw = "live")
<1>1. auth \in [Slots -> Auths]
  BY DEF SessionsInv, SessionsTypeOK
<1>2. CASE Done(s)
  BY <1>1, <1>2 DEF Done, SessionsInv, NoAuth, Auths
<1>3. CASE auth[s].step = "commit" /\ auth' = [auth EXCEPT ![s].step = "unlink"]
  <2>1. /\ auth'[s] = [auth[s] EXCEPT !.step = "unlink"]
        /\ \A r \in Slots : r # s => auth'[r] = auth[r]
        /\ auth' = [r \in Slots |-> auth'[r]]
    BY <1>1, <1>3
  <2>2. auth'[s] \in Auths /\ auth'[s].step = "unlink"
    BY <1>1, <1>3, <2>1 DEF Auths, NoAuth
  <2>. QED  BY <1>1, <2>1, <2>2 DEF SessionsInv
<1>. QED  BY <1>2, <1>3

LEMMA EndKeepsSessions ==
    ASSUME SessionsInv, NEW s \in Slots, EndOnSessions(s)
    PROVE  SessionsInv'
<1>. USE DEF sessions, apiKey
<1>1. /\ version \in 0..MaxRequests /\ version <= started /\ started \in 0..MaxRequests
      /\ session \in [Grants -> SessionState]
      /\ tokens \subseteq Grants \X (0..MaxRequests) /\ ended \subseteq tokens
      /\ link \in BOOLEAN /\ collided \in BOOLEAN
      /\ logins \in Nat /\ overlaps \in Nat
      /\ settings \in Settings /\ handed \in {0} \cup Grants /\ muddled \in BOOLEAN
  BY DEF SessionsInv, SessionsTypeOK
<1>2. /\ UNCHANGED started
      /\ \/ Done(s)
         \/ auth[s].step = "commit" /\ auth' = [auth EXCEPT ![s].step = "unlink"]
  <2>1. CASE CommitReset(s)
    BY <2>1 DEF CommitReset, Commits, wvars
  <2>2. CASE CommitDeactivation(s)
    BY <2>2 DEF CommitDeactivation
  <2>. QED
    BY <2>1, <2>2
    DEF EndOnSessions, CommitLogin, CommitRotation, CommitRevocation, CommitLogout, Unlink,
        CommitFails, CommitSettings, CommitKey, CommitKeyRevocation, wvars
<1>3. /\ auth' \in [Slots -> Auths] /\ started' \in 0..MaxRequests
      /\ \A r \in Slots : auth'[r].step = "commit" =>
            auth'[r].read < started' /\ (auth'[r].kind = "rotate" => auth'[r].saw = "live")
  BY <1>2, SessionsOver
<1>4. auth[s].step = "commit" =>
        /\ auth[s].grant \in Grants /\ auth[s].from \in Grants /\ auth[s].read \in 0..MaxRequests
        /\ auth[s].read + 1 \in 0..MaxRequests /\ auth[s].read < started
        /\ auth[s].settings \in Settings
  BY <1>1 DEF SessionsInv, SessionsTypeOK, Auths, NoAuth
<1>5. ASSUME CommitLogin(s) \/ CommitRotation(s)
      PROVE  SessionsInv'
  <2>1. /\ auth[s].step = "commit" /\ tokens' = tokens \cup {<<auth[s].grant, auth[s].read>>}
        /\ UNCHANGED <<version, link, ended, collided, settings, handed, muddled>>
        /\ logins' \in {logins, logins + 1} /\ overlaps' \in {overlaps, overlaps + 1}
    BY <1>5 DEF CommitLogin, CommitRotation, Commits, Issue
  <2>2. session' \in [Grants -> SessionState]
    BY <1>1, <1>4, <1>5, <2>1 DEF CommitLogin, CommitRotation, SessionState
  <2>3. tokens' \subseteq Grants \X (0..MaxRequests) /\ ended' \subseteq tokens'
    BY <1>1, <1>4, <2>1
  <2>4. logins' \in Nat /\ overlaps' \in Nat
    BY <1>1, <2>1
  <2>. QED  BY <1>1, <1>2, <1>3, <2>1, <2>2, <2>3, <2>4 DEF SessionsInv, SessionsTypeOK
<1>6. ASSUME CommitLogout(s) \/ CommitReset(s) \/ CommitDeactivation(s)
      PROVE  SessionsInv'
  <2>1. /\ auth[s].step = "commit" /\ version' = auth[s].read + 1 /\ ended' = tokens
        /\ collided' = (collided \/ version # auth[s].read)
        /\ UNCHANGED <<tokens, link, overlaps, settings, handed, muddled>>
        /\ logins' \in {0, logins}
    BY <1>6 DEF CommitLogout, CommitReset, CommitDeactivation, Commits, Increment
  <2>2. session' \in [Grants -> SessionState]
    BY <1>1, <1>6 DEF CommitLogout, CommitReset, CommitDeactivation, SessionState
  <2>3. version' \in 0..MaxRequests /\ version' <= started' /\ collided' \in BOOLEAN
    BY <1>1, <1>2, <1>4, <2>1
  <2>4. logins' \in Nat
    BY <1>1, <2>1
  <2>. QED  BY <1>1, <1>2, <1>3, <2>1, <2>2, <2>3, <2>4 DEF SessionsInv, SessionsTypeOK
<1>7. ASSUME CommitRevocation(s) \/ Unlink(s) \/ CommitFails(s)
      PROVE  SessionsInv'
  <2>1. /\ UNCHANGED <<version, tokens, ended, collided, logins, overlaps, settings, handed, muddled>>
        /\ link' \in {link, FALSE}
    BY <1>7 DEF CommitRevocation, Unlink, CommitFails
  <2>2. session' \in [Grants -> SessionState]
    BY <1>1, <1>4, <1>7 DEF CommitRevocation, Unlink, CommitFails, SessionState
  <2>. QED  BY <1>1, <1>2, <1>3, <2>1, <2>2 DEF SessionsInv, SessionsTypeOK
<1>8. ASSUME CommitSettings(s) \/ CommitKey(s) \/ CommitKeyRevocation(s)
      PROVE  SessionsInv'
  <2>1. /\ auth[s].step = "commit"
        /\ UNCHANGED <<version, session, tokens, link, ended, collided, logins, overlaps>>
    BY <1>8 DEF CommitSettings, CommitKey, CommitKeyRevocation, Commits
  <2>2. settings' \in Settings /\ handed' \in {0} \cup Grants /\ muddled' \in BOOLEAN
    <3>1. CASE CommitSettings(s)
      BY <1>1, <3>1 DEF CommitSettings, Settings
    <3>2. CASE CommitKeyRevocation(s)
      BY <1>1, <3>2 DEF CommitKeyRevocation, Settings
    <3>3. CASE CommitKey(s)
      <4>1. RevokedAfter(s) \in BOOLEAN
        BY <1>1 DEF RevokedAfter, Settings
      <4>2. CASE UNCHANGED apiKey
        BY <1>1, <4>2
      <4>3. CASE /\ settings' = [exists |-> TRUE, key |-> auth[s].grant, revoked |-> RevokedAfter(s)]
                 /\ handed' = auth[s].grant
                 /\ muddled' = (settings.revoked # auth[s].settings.revoked)
        BY <1>4, <2>1, <4>1, <4>3 DEF Settings
      <4>. QED  BY <3>3, <4>2, <4>3 DEF CommitKey
    <3>. QED  BY <1>8, <3>1, <3>2, <3>3
  <2>. QED  BY <1>1, <1>2, <1>3, <2>1, <2>2 DEF SessionsInv, SessionsTypeOK
<1>. QED  BY <1>5, <1>6, <1>7, <1>8 DEF EndOnSessions

LEMMA OthersKeepSessions ==
    ASSUME SessionsInv, UNCHANGED <<version, tokens, auth, ended, collided, logins, overlaps>>,
           session' \in [Grants -> SessionState], link' \in BOOLEAN, settings' \in Settings,
           handed' \in {0} \cup Grants, muddled' \in BOOLEAN,
           started' = started \/ (started < MaxRequests /\ started' = started + 1)
    PROVE  SessionsInv'
<1>1. /\ started \in 0..MaxRequests /\ started' \in 0..MaxRequests /\ started <= started'
      /\ version \in 0..MaxRequests /\ version <= started'
  BY DEF SessionsInv, SessionsTypeOK
<1>2. ASSUME NEW r \in Slots, auth[r].step = "commit"
      PROVE  auth[r].read < started' /\ (auth[r].kind = "rotate" => auth[r].saw = "live")
  <2>1. auth[r].read \in 0..MaxRequests /\ auth[r].read < started
    BY <1>2 DEF SessionsInv, SessionsTypeOK, Auths, NoAuth
  <2>. QED  BY <1>1, <1>2, <2>1 DEF SessionsInv
<1>. QED  BY <1>1, <1>2 DEF SessionsInv, SessionsTypeOK

LEMMA SessionsInvNext == SessionsInv /\ [Next]_vars => SessionsInv'
<1>. SUFFICES ASSUME SessionsInv, [Next]_vars PROVE SessionsInv'
  OBVIOUS
<1>1. /\ session \in [Grants -> SessionState] /\ link \in BOOLEAN /\ settings \in Settings
      /\ handed \in {0} \cup Grants /\ muddled \in BOOLEAN /\ 1 \in Grants
  BY DEF SessionsInv, SessionsTypeOK, Grants
<1>2. ASSUME UNCHANGED <<sessions, auth>>,
             started' = started \/ (started < MaxRequests /\ started' = started + 1)
      PROVE  SessionsInv'
  BY <1>1, <1>2, OthersKeepSessions DEF sessions, apiKey
<1>3. ASSUME NEW s \in Slots, Begins(s)
      PROVE  SessionsInv'
  <2>1. ASSUME BeginWork(s), UNCHANGED <<sessions, auth>>
        PROVE  SessionsInv'
    <3>1. started < MaxRequests /\ started' = started + 1
      BY <2>1 DEF BeginWork, Register, CreateWorkspace, DeleteWorkspace, InviteMember,
                  UpdateMemberRole, RemoveMember, SetDefaultWorkspace, ResolveActive,
                  DeleteAccount, Begin
    <3>. QED  BY <1>2, <2>1, <3>1
  <2>2. CASE BeginOnSessions(s)
    BY <1>1, <2>2, BeginKeepsSessions
    DEF BeginOnSessions, Login, Logout, Deactivate, ConfirmReset, OpenSettings, GenerateKey,
        RevokeKey, Rotate, Revoke, Kind
  <2>3. CASE BeginOnDesign(s)
    BY <1>2, <2>3
    DEF BeginOnDesign, EnableShare, DisableShare, OpenDesign, DeleteDesign, UpdateReview, Claim,
        BeginEdit
  <2>. QED  BY <1>3, <2>1, <2>2, <2>3 DEF Begins
<1>4. ASSUME NEW s \in Slots, SessionsAfterWork, UNCHANGED started
      PROVE  SessionsInv'
  <2>1. NoSettings \in Settings /\ [g \in Grants |-> "none"] \in [Grants -> SessionState]
    BY DEF NoSettings, Settings, SessionState
  <2>. QED  BY <1>1, <1>4, <2>1, OthersKeepSessions DEF SessionsAfterWork, apiKey
<1>5. ASSUME NEW s \in Slots, Ends(s)
      PROVE  SessionsInv'
  BY <1>2, <1>4, <1>5, EndKeepsSessions DEF Ends, CommitWork, CommitEdit, Answer, wvars
<1>6. CASE SendLink
  BY <1>1, <1>6, OthersKeepSessions DEF SendLink, apiKey
<1>7. CASE UNCHANGED vars
  BY <1>2, <1>7 DEF vars, wvars
<1>. QED  BY <1>3, <1>5, <1>6, <1>7 DEF Next

LEMMA DesignTypesInit == Init => DesignTypeOK
<1>. SUFFICES ASSUME Init PROVE DesignTypeOK
  OBVIOUS
<1>1. /\ present = TRUE /\ given = {} /\ crossed = {} /\ started = 0
      /\ row = [share_token |-> 0, discussion |-> 0,
                review_status |-> "draft", review_owner |-> Nobody]
      /\ edit = [s \in Slots |-> NoEdit]
  BY DEF Init, WorkspacesInit
<1>2. row \in Row
  BY <1>1 DEF Row, Numbers, ReviewStatus
<1>3. edit \in [Slots -> Edits]
  BY <1>1 DEF Edits
<1>4. present \in BOOLEAN
  BY <1>1, Zenon
<1>. QED  BY <1>1, <1>2, <1>3, <1>4 DEF DesignTypeOK

LEMMA OthersKeepDesign ==
    ASSUME DesignTypeOK, UNCHANGED <<design, edit>>,
           started' = started \/ (started < MaxRequests /\ started' = started + 1)
    PROVE  DesignTypeOK'
BY DEF DesignTypeOK, design

LEMMA BeginKeepsDesign ==
    ASSUME DesignTypeOK, NEW s \in Slots, NEW assigns \in SUBSET Columns, NEW new \in Row,
           NEW answers \in SUBSET Claimed, NEW deletes \in BOOLEAN,
           BeginEdit(s, EditOf(assigns, new, answers, deletes))
    PROVE  DesignTypeOK'
<1>1. EditOf(assigns, new, answers, deletes) \in Edits
  BY DEF EditOf, Edits, DesignTypeOK
<1>. QED  BY <1>1 DEF BeginEdit, DesignTypeOK, design

LEMMA BeginOnDesignKeepsDesign ==
    ASSUME DesignTypeOK, NEW s \in Slots, BeginOnDesign(s)
    PROVE  DesignTypeOK'
<1>1. row \in Row /\ FALSE \in BOOLEAN /\ TRUE \in BOOLEAN
  BY DEF DesignTypeOK
<1>2. ASSUME NEW c \in Claimed, Claim(s, c)
      PROVE  DesignTypeOK'
  <2>. DEFINE new == IF Missing(c) = {} THEN row ELSE [row EXCEPT ![c] = started + 1]
  <2>1. Missing(c) \in SUBSET Columns /\ {c} \in SUBSET Claimed
    BY DEF Missing, Columns, Claimed
  <2>2. started + 1 \in Numbers
    BY <1>2 DEF Claim, BeginEdit, DesignTypeOK, Numbers
  <2>3. new \in Row
    BY <1>1, <2>2 DEF Row, Claimed
  <2>. HIDE DEF new
  <2>4. BeginEdit(s, EditOf(Missing(c), new, {c}, FALSE))
    BY <1>2 DEF Claim, new
  <2>. QED  BY <1>1, <2>1, <2>3, <2>4, BeginKeepsDesign
<1>3. ASSUME NEW a \in Callers, EnableShare(s, a) \/ OpenDesign(s, a)
      PROVE  DesignTypeOK'
  BY <1>2, <1>3 DEF EnableShare, OpenDesign, Claimed
<1>4. ASSUME NEW a \in Callers, DisableShare(s, a)
      PROVE  DesignTypeOK'
  <2>. DEFINE new == [row EXCEPT !.share_token = 0]
  <2>1. new \in Row /\ {"share_token"} \in SUBSET Columns /\ {} \in SUBSET Claimed
    BY <1>1 DEF Row, Numbers, Columns
  <2>. QED  BY <1>1, <1>4, <2>1, BeginKeepsDesign DEF DisableShare
<1>5. ASSUME NEW a \in Callers, DeleteDesign(s, a)
      PROVE  DesignTypeOK'
  <2>1. {} \in SUBSET Columns /\ {} \in SUBSET Claimed
    OBVIOUS
  <2>. QED  BY <1>1, <1>5, <2>1, BeginKeepsDesign DEF DeleteDesign
<1>6. ASSUME NEW a \in Callers, NEW review \in ReviewStatus, NEW owner \in Users \cup {Nobody},
             UpdateReview(s, a, review, owner)
      PROVE  DesignTypeOK'
  <2>. DEFINE new == [row EXCEPT !.review_status = review, !.review_owner = owner]
  <2>1. new \in Row /\ Reviewed \in SUBSET Columns /\ {} \in SUBSET Claimed
    BY <1>1 DEF Row, Columns, Reviewed
  <2>. QED  BY <1>1, <1>6, <2>1, BeginKeepsDesign DEF UpdateReview
<1>. QED  BY <1>3, <1>4, <1>5, <1>6 DEF BeginOnDesign

(* The row after a commit has the columns it had.                          *)
LEMMA RowOfColumns ==
    ASSUME NEW f, f = [c \in Columns |-> f[c]],
           f["share_token"] \in Numbers, f["discussion"] \in Numbers,
           f["review_status"] \in ReviewStatus, f["review_owner"] \in Users \cup {Nobody}
    PROVE  f \in Row
<1>1. DOMAIN f = {"share_token", "discussion", "review_status", "review_owner"}
  BY DEF Columns
<1>2. f = [share_token |-> f["share_token"], discussion |-> f["discussion"],
           review_status |-> f["review_status"], review_owner |-> f["review_owner"]]
  BY <1>1 DEF Columns
<1>. QED  BY <1>2 DEF Row

LEMMA CommitEditKeepsDesign ==
    ASSUME DesignTypeOK, NEW s \in Slots, CommitEdit(s)
    PROVE  DesignTypeOK'
<1>1. PICK e \in Edits : e = edit[s]
  BY DEF DesignTypeOK
<1>2. /\ e \in [step : {"commit", "answer"}, assigns : SUBSET Columns, read : Row,
                new : Row, answers : SUBSET Claimed, deletes : BOOLEAN]
      /\ UNCHANGED started
  BY <1>1 DEF CommitEdit, Edits, NoEdit, wvars
<1>3. /\ NoEdit \in Edits /\ [e EXCEPT !.step = "answer"] \in Edits
  BY <1>2 DEF Edits
<1>4. CASE Exists
  <2>1. /\ row' = [c \in Columns |-> IF c \in Written(e) THEN e.new[c] ELSE row[c]]
        /\ present' = ~e.deletes
        /\ crossed' = crossed \cup Crossing(e)
        /\ given' = IF Disables(e) /\ Written(e) # {}
                    THEN {g \in given : g[1] # "share_token"}
                    ELSE given
        /\ edit' = [edit EXCEPT ![s] = IF e.answers = {} THEN NoEdit ELSE [e EXCEPT !.step = "answer"]]
    BY <1>1, <1>4 DEF CommitEdit
  <2>2. row' \in Row
    <3>1. row' = [c \in Columns |-> row'[c]]
      BY <2>1
    <3>2. /\ row'["share_token"] \in Numbers /\ row'["discussion"] \in Numbers
          /\ row'["review_status"] \in ReviewStatus /\ row'["review_owner"] \in Users \cup {Nobody}
      BY <1>2, <2>1 DEF DesignTypeOK, Row, Columns
    <3>. QED  BY <3>1, <3>2, RowOfColumns
  <2>3. present' \in BOOLEAN
    BY <2>1
  <2>4. crossed' \subseteq Columns /\ given' \subseteq Claimed \X Numbers
    BY <1>2, <2>1 DEF DesignTypeOK, Crossing
  <2>5. edit' \in [Slots -> Edits]
    BY <1>3, <2>1 DEF DesignTypeOK
  <2>. QED  BY <1>2, <2>2, <2>3, <2>4, <2>5 DEF DesignTypeOK
<1>5. CASE ~Exists
  BY <1>2, <1>3, <1>5 DEF CommitEdit, DesignTypeOK, design
<1>. QED  BY <1>4, <1>5

LEMMA AnswerKeepsDesign ==
    ASSUME DesignTypeOK, NEW s \in Slots, Answer(s)
    PROVE  DesignTypeOK'
<1>1. /\ edit' = [edit EXCEPT ![s] = NoEdit] /\ UNCHANGED <<started, row, present, crossed>>
      /\ given' \subseteq given \cup {<<c, row[c]>> : c \in {c \in edit[s].answers : row[c] # 0}}
  BY DEF Answer, wvars
<1>2. edit' \in [Slots -> Edits]
  BY <1>1 DEF DesignTypeOK, Edits
<1>3. edit[s].answers \subseteq Claimed
  BY DEF Answer, DesignTypeOK, Edits, NoEdit
<1>4. \A c \in Claimed : row[c] \in Numbers
  BY DEF DesignTypeOK, Row, Claimed
<1>. QED  BY <1>1, <1>2, <1>3, <1>4 DEF DesignTypeOK

LEMMA DesignTypesNext == DesignTypeOK /\ [Next]_vars => DesignTypeOK'
<1>. SUFFICES ASSUME DesignTypeOK, [Next]_vars PROVE DesignTypeOK'
  OBVIOUS
<1>1. ASSUME NEW s \in Slots, Begins(s)
      PROVE  DesignTypeOK'
  <2>1. ASSUME BeginWork(s), UNCHANGED <<design, edit>>
        PROVE  DesignTypeOK'
    <3>1. started < MaxRequests /\ started' = started + 1
      BY <2>1 DEF BeginWork, Register, CreateWorkspace, DeleteWorkspace, InviteMember,
                  UpdateMemberRole, RemoveMember, SetDefaultWorkspace, ResolveActive,
                  DeleteAccount, Begin
    <3>. QED  BY <2>1, <3>1, OthersKeepDesign
  <2>2. ASSUME BeginOnSessions(s), UNCHANGED <<design, edit>>
        PROVE  DesignTypeOK'
    BY <2>2, OthersKeepDesign
    DEF BeginOnSessions, Login, Logout, Deactivate, ConfirmReset, OpenSettings, GenerateKey,
        RevokeKey, Rotate, Revoke, BeginAuth
  <2>. QED  BY <1>1, <2>1, <2>2, BeginOnDesignKeepsDesign DEF Begins
<1>2. ASSUME NEW s \in Slots, EndOnSessions(s), UNCHANGED <<design, edit>>
      PROVE  DesignTypeOK'
  <2>1. UNCHANGED started
    BY <1>2 DEF EndOnSessions, CommitLogin, CommitRotation, CommitRevocation, CommitLogout,
                CommitReset, Unlink, CommitDeactivation, CommitFails, CommitSettings, CommitKey,
                CommitKeyRevocation, wvars
  <2>. QED  BY <1>2, <2>1, OthersKeepDesign
<1>3. ASSUME NEW s \in Slots, CommitWork(s), OwnerLeaves(s) \/ OwnerStays(s),
             UNCHANGED <<present, given, edit>>
      PROVE  DesignTypeOK'
  <2>1. UNCHANGED started
    BY <1>3 DEF CommitWork
  <2>2. row' \in Row /\ crossed' \subseteq Columns
    BY <1>3 DEF DesignTypeOK, OwnerLeaves, OwnerStays, Row, Reviewed, Columns
  <2>. QED  BY <1>3, <2>1, <2>2 DEF DesignTypeOK
<1>4. ASSUME NEW s \in Slots, Ends(s)
      PROVE  DesignTypeOK'
  BY <1>2, <1>3, <1>4, CommitEditKeepsDesign, AnswerKeepsDesign DEF Ends
<1>5. CASE SendLink /\ UNCHANGED <<design, edit>>
  BY <1>5, OthersKeepDesign DEF SendLink
<1>6. CASE UNCHANGED vars
  BY <1>6, OthersKeepDesign DEF vars, wvars
<1>. QED  BY <1>1, <1>4, <1>5, <1>6 DEF Next

(* Rows refer to rows that are there, nobody is a member of a workspace    *)
(* twice, and token_version and the numbers of rows stay within the number *)
(* of requests.                                                            *)
THEOREM TypeCorrect == Spec => []TypeOK
<1>1. WorkspacesInv /\ SessionsInv /\ DesignTypeOK => TypeOK
  BY DEF WorkspacesInv, SessionsInv, DesignTypeOK, TypeOK
<1>. QED
  BY <1>1, WorkspacesInvInit, WorkspacesInvNext, SessionsInvInit, SessionsInvNext,
     DesignTypesInit, DesignTypesNext, PTL DEF Spec

-----------------------------------------------------------------------------
(* Sessions come from logins.                                              *)
LiveSessions == {g \in Grants : session[g] = "live"}

ChainsInv == SessionsInv /\ SessionsComeFromLogins

LEMMA LiveFinite == IsFiniteSet(LiveSessions) /\ Cardinality(LiveSessions) \in Nat
<1>1. IsFiniteSet(Grants)
  BY FS_Interval DEF Grants
<1>. QED  BY <1>1, FS_Subset, FS_CardinalityType DEF LiveSessions

(* Nothing becomes live.                                                   *)
LEMMA FewerLive ==
    ASSUME SessionsComeFromLogins, LiveSessions' \subseteq LiveSessions,
           UNCHANGED <<logins, overlaps>>, logins \in Nat, overlaps \in Nat
    PROVE  SessionsComeFromLogins'
<1>1. LiveSessions' \in SUBSET LiveSessions
  OBVIOUS
<1>2. IsFiniteSet(LiveSessions') /\ Cardinality(LiveSessions') <= Cardinality(LiveSessions)
  BY <1>1, LiveFinite, FS_Subset
<1>3. Cardinality(LiveSessions') \in Nat
  BY <1>2, FS_CardinalityType
<1>4. Cardinality(LiveSessions) <= logins + overlaps
  BY DEF SessionsComeFromLogins, LiveSessions
<1>5. Cardinality(LiveSessions') <= logins' + overlaps'
  BY <1>2, <1>3, <1>4, LiveFinite
<1>. QED  BY <1>5 DEF SessionsComeFromLogins, LiveSessions

(* One becomes live, in place of another or not.                           *)
LEMMA OneMore ==
    ASSUME NEW S, IsFiniteSet(S), NEW g, NEW T \in SUBSET (S \cup {g})
    PROVE  /\ Cardinality(S) \in Nat /\ Cardinality(T) \in Nat
           /\ Cardinality(T) <= Cardinality(S) + 1
<1>1. /\ IsFiniteSet(S \cup {g})
      /\ Cardinality(S \cup {g}) = IF g \in S THEN Cardinality(S) ELSE Cardinality(S) + 1
  BY FS_AddElement
<1>2. IsFiniteSet(T) /\ Cardinality(T) <= Cardinality(S \cup {g})
  BY <1>1, FS_Subset
<1>3. Cardinality(S) \in Nat
  BY FS_CardinalityType
<1>4. Cardinality(T) \in Nat
  BY <1>2, FS_CardinalityType
<1>5. Cardinality(S \cup {g}) <= Cardinality(S) + 1 /\ Cardinality(S \cup {g}) \in Nat
  BY <1>1, <1>3
<1>. QED  BY <1>2, <1>3, <1>4, <1>5

LEMMA OneMoreLive ==
    ASSUME NEW g, LiveSessions' \subseteq LiveSessions \cup {g}
    PROVE  /\ Cardinality(LiveSessions') \in Nat
           /\ Cardinality(LiveSessions') <= Cardinality(LiveSessions) + 1
<1>1. LiveSessions' \in SUBSET (LiveSessions \cup {g})
  OBVIOUS
<1>. QED  BY <1>1, LiveFinite, OneMore

LEMMA OneForAnother ==
    ASSUME NEW g, NEW f \in LiveSessions, LiveSessions' \subseteq (LiveSessions \ {f}) \cup {g}
    PROVE  /\ Cardinality(LiveSessions') \in Nat
           /\ Cardinality(LiveSessions') <= Cardinality(LiveSessions)
<1>. DEFINE rest == LiveSessions \ {f}
<1>1. IsFiniteSet(rest) /\ Cardinality(rest) = Cardinality(LiveSessions) - 1
  BY LiveFinite, FS_RemoveElement
<1>2. LiveSessions' \in SUBSET (rest \cup {g})
  OBVIOUS
<1>. HIDE DEF rest
<1>3. Cardinality(LiveSessions') \in Nat /\ Cardinality(LiveSessions') <= Cardinality(rest) + 1
  BY <1>1, <1>2, OneMore
<1>. QED  BY <1>1, <1>3, LiveFinite

LEMMA ChainsInit == Init => ChainsInv
<1>. SUFFICES ASSUME Init PROVE SessionsComeFromLogins
  BY SessionsInvInit DEF ChainsInv
<1>1. /\ session = [g \in Grants |-> IF g = 1 THEN "live" ELSE "none"]
      /\ logins = 1 /\ overlaps = 0
  BY DEF Init, SessionsInit
<1>2. LiveSessions = {1}
  BY <1>1 DEF LiveSessions, Grants
<1>3. Cardinality(LiveSessions) = 1
  BY <1>2, FS_Singleton
<1>. QED  BY <1>1, <1>3 DEF SessionsComeFromLogins, LiveSessions

LEMMA EndKeepsChains ==
    ASSUME ChainsInv, NEW s \in Slots, EndOnSessions(s)
    PROVE  SessionsComeFromLogins'
<1>. USE DEF sessions, apiKey
<1>1. /\ session \in [Grants -> SessionState] /\ logins \in Nat /\ overlaps \in Nat
      /\ Cardinality(LiveSessions) \in Nat
      /\ Cardinality(LiveSessions) <= logins + overlaps
      /\ SessionsComeFromLogins
  BY LiveFinite DEF ChainsInv, SessionsInv, SessionsTypeOK, SessionsComeFromLogins, LiveSessions
<1>2. ASSUME CommitLogin(s)
      PROVE  SessionsComeFromLogins'
  <2>1. /\ session' = [session EXCEPT ![auth[s].grant] = "live"]
        /\ logins' = logins + 1 /\ overlaps' = overlaps
    BY <1>2 DEF CommitLogin
  <2>2. LiveSessions' \subseteq LiveSessions \cup {auth[s].grant}
    BY <1>1, <2>1 DEF LiveSessions
  <2>3. /\ Cardinality(LiveSessions') \in Nat
        /\ Cardinality(LiveSessions') <= Cardinality(LiveSessions) + 1
    BY <2>2, OneMoreLive
  <2>4. Cardinality(LiveSessions') <= logins' + overlaps'
    BY <1>1, <2>1, <2>3
  <2>. QED  BY <2>4 DEF SessionsComeFromLogins, LiveSessions
<1>3. ASSUME CommitRotation(s)
      PROVE  SessionsComeFromLogins'
  <2>1. PICK f \in Grants, g \in Grants : f = auth[s].from /\ g = auth[s].grant
    BY <1>3 DEF CommitRotation, Commits, ChainsInv, SessionsInv, SessionsTypeOK, Auths, NoAuth
  <2>2. /\ session' = [session EXCEPT ![f] = "revoked", ![g] = "live"]
        /\ logins' = logins /\ auth[s].saw = "live"
        /\ overlaps' = IF session[f] # "live" THEN overlaps + 1 ELSE overlaps
    BY <1>3, <2>1 DEF CommitRotation, Commits, ChainsInv, SessionsInv
  <2>3. LiveSessions' \subseteq (LiveSessions \ {f}) \cup {g}
    BY <1>1, <2>2 DEF LiveSessions
  <2>4. CASE session[f] = "live"
    <3>1. f \in LiveSessions
      BY <2>4 DEF LiveSessions
    <3>2. /\ Cardinality(LiveSessions') \in Nat
          /\ Cardinality(LiveSessions') <= Cardinality(LiveSessions)
      BY <2>3, <3>1, OneForAnother
    <3>3. Cardinality(LiveSessions') <= logins' + overlaps'
      BY <1>1, <2>2, <2>4, <3>2
    <3>. QED  BY <3>3 DEF SessionsComeFromLogins, LiveSessions
  <2>5. CASE session[f] # "live"
    <3>1. /\ Cardinality(LiveSessions') \in Nat
          /\ Cardinality(LiveSessions') <= Cardinality(LiveSessions) + 1
      BY <2>3, OneMoreLive
    <3>2. Cardinality(LiveSessions') <= logins' + overlaps'
      BY <1>1, <2>2, <2>5, <3>1
    <3>. QED  BY <3>2 DEF SessionsComeFromLogins, LiveSessions
  <2>. QED  BY <2>4, <2>5
<1>4. ASSUME CommitLogout(s)
      PROVE  SessionsComeFromLogins'
  <2>1. /\ session' = [g \in Grants |-> IF session[g] = "live" THEN "revoked" ELSE session[g]]
        /\ logins' = 0 /\ overlaps' = overlaps
    BY <1>4 DEF CommitLogout
  <2>2. LiveSessions' = {}
    BY <2>1 DEF LiveSessions
  <2>3. Cardinality(LiveSessions') = 0
    BY <2>2, FS_EmptySet
  <2>4. Cardinality(LiveSessions') <= logins' + overlaps'
    BY <1>1, <2>1, <2>3
  <2>. QED  BY <2>4 DEF SessionsComeFromLogins, LiveSessions
<1>5. ASSUME CommitRevocation(s)
      PROVE  SessionsComeFromLogins'
  <2>1. /\ session' = [session EXCEPT ![auth[s].from] = "revoked"]
        /\ UNCHANGED <<logins, overlaps>>
    BY <1>5 DEF CommitRevocation
  <2>2. LiveSessions' \subseteq LiveSessions
    BY <1>1, <2>1 DEF LiveSessions
  <2>. QED  BY <1>1, <2>1, <2>2, FewerLive
<1>6. ASSUME UNCHANGED <<session, logins, overlaps>>
      PROVE  SessionsComeFromLogins'
  BY <1>1, <1>6 DEF SessionsComeFromLogins
<1>. QED
  BY <1>2, <1>3, <1>4, <1>5, <1>6
  DEF EndOnSessions, CommitReset, Unlink, CommitDeactivation, CommitFails, CommitSettings,
      CommitKey, CommitKeyRevocation

LEMMA ChainsNext == ChainsInv /\ [Next]_vars => ChainsInv'
<1>. SUFFICES ASSUME ChainsInv, [Next]_vars PROVE SessionsComeFromLogins'
  BY SessionsInvNext DEF ChainsInv
<1>1. ASSUME UNCHANGED <<session, logins, overlaps>>
      PROVE  SessionsComeFromLogins'
  BY <1>1 DEF ChainsInv, SessionsComeFromLogins
<1>2. ASSUME NEW s \in Slots, Begins(s)
      PROVE  SessionsComeFromLogins'
  <2>1. UNCHANGED <<session, logins, overlaps>>
    <3>1. CASE BeginOnSessions(s)
      BY <3>1 DEF BeginOnSessions, Login, Logout, Deactivate, ConfirmReset, OpenSettings,
                  GenerateKey, RevokeKey, Rotate, Revoke, BeginAuth, sessions
    <3>2. CASE BeginOnDesign(s)
      BY <3>2 DEF BeginOnDesign, EnableShare, DisableShare, OpenDesign, DeleteDesign,
                  UpdateReview, Claim, BeginEdit, sessions
    <3>. QED  BY <1>2, <3>1, <3>2 DEF Begins, sessions
  <2>. QED  BY <1>1, <2>1
<1>3. ASSUME SessionsAfterWork
      PROVE  SessionsComeFromLogins'
  <2>1. LiveSessions' \subseteq LiveSessions /\ UNCHANGED <<logins, overlaps>>
    BY <1>3 DEF SessionsAfterWork, LiveSessions
  <2>. QED  BY <2>1, FewerLive DEF ChainsInv, SessionsInv, SessionsTypeOK
<1>4. ASSUME NEW s \in Slots, Ends(s)
      PROVE  SessionsComeFromLogins'
  BY <1>1, <1>3, <1>4, EndKeepsChains DEF Ends, CommitEdit, Answer, sessions
<1>5. CASE SendLink
  BY <1>1, <1>5 DEF SendLink
<1>6. CASE UNCHANGED vars
  BY <1>1, <1>6 DEF vars, sessions
<1>. QED  BY <1>2, <1>4, <1>5, <1>6 DEF Next

(* However sessions are rotated, revoked and retried, no more of them are  *)
(* live than there were logins since the last logout, but for rotations    *)
(* that crossed.                                                           *)
THEOREM SessionsAreChains == Spec => []SessionsComeFromLogins
<1>1. ChainsInv => SessionsComeFromLogins
  BY DEF ChainsInv
<1>. QED  BY <1>1, ChainsInit, ChainsNext, PTL DEF Spec

=============================================================================
