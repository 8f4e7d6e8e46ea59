------------------------------ MODULE Workspaces ------------------------------
(***************************************************************************)
(* Accounts, workspaces, their members and the users' default workspaces:  *)
(* app/services/workspace_service.py, the choice of the active workspace   *)
(* in app/auth/deps.py, and the requests that create and delete accounts.  *)
(*                                                                         *)
(* A request reads rows, checks them and builds in memory what its session *)
(* will write: its work.  The commit comes later and takes no lock before  *)
(* it, so other requests may commit in between.  What the work holds is    *)
(* what the ORM writes: new rows, deleted rows and the columns that differ *)
(* from what was read.  The database refuses a commit whose new row has no *)
(* workspace or is there already, and the ORM one that updates a row which *)
(* is gone; a row to delete that is gone is only warned about.             *)
(*                                                                         *)
(* Names and budgets are single columns that nothing else depends on.      *)
(***************************************************************************)
EXTENDS Naturals, FiniteSets

CONSTANTS Users,
          Slots,          \* requests that can be under way at once
          MaxWorkspaces,  \* bound on the workspaces ever created
          MaxRequests     \* bound on the requests that get as far as a commit

ASSUME WorkspacesAssumption ==
    IsFiniteSet(Users) /\ MaxWorkspaces \in Nat \ {0} /\ MaxRequests \in Nat

Ids      == 1..MaxWorkspaces
Rows     == 1..(Cardinality(Users) + MaxRequests)
Role     == {"admin", "editor", "viewer"}

VARIABLES
    lastId,     \* workspace ids handed out
    live,       \* rows of workspaces
    members,    \* rows of workspace_members
    lastRow,    \* membership ids handed out
    account,    \* rows of users, and is_active
    default,    \* users.default_workspace_id, 0 for null
    work,       \* what each request under way is about to write
    started,    \* requests that got that far
    stale,      \* workspaces where somebody acted on a role he no longer had
    left        \* workspaces an admin of which deleted his account

rows  == <<live, members, lastRow, account, default, stale, left>>
wvars == <<rows, lastId, work, started>>

Account == {"none", "active", "inactive", "deleted"}

Accounts == {u \in Users : account[u] \in {"active", "inactive"}}

(* Whom get_current_user lets in.                                          *)
Callers == {u \in Users : account[u] = "active"}

Member == [id : Rows, ws : Ids, user : Users, role : Role]

-----------------------------------------------------------------------------
(* A unit of work.                                                         *)
NoWork ==
    [by       |-> {},   \* <<user, workspace>>: whose role it was checked against
     creates  |-> {},   \* workspaces to insert
     inserts  |-> {},   \* memberships to insert
     roles    |-> {},   \* <<row id, role>>
     removes  |-> {},   \* row ids to delete
     drops    |-> {},   \* workspaces to delete
     joins    |-> {},   \* users to insert
     leaves   |-> {},   \* users to delete
     defaults |-> {}]   \* <<user, workspace or 0>>

Idle(s) == work[s] = NoWork

Works ==
    [by       : SUBSET (Users \X Ids),
     creates  : SUBSET Ids,
     inserts  : SUBSET [ws : Ids, user : Users, role : Role],
     roles    : SUBSET (Rows \X Role),
     removes  : SUBSET Rows,
     drops    : SUBSET Ids,
     joins    : SUBSET Users,
     leaves   : SUBSET Users,
     defaults : SUBSET (Users \X (Ids \cup {0}))]

Begin(s, unit) ==
    /\ Idle(s)
    /\ started < MaxRequests /\ started' = started + 1
    /\ work' = [work EXCEPT ![s] = unit]

Of(u, w) == {m \in members : m.user = u /\ m.ws = w}

HasRole(u, w, roles) == \E m \in Of(u, w) : m.role \in roles

Admins(w) == {m \in members : m.ws = w /\ m.role = "admin"}

DefaultIfNone(u, w) == IF default[u] = 0 THEN {<<u, w>>} ELSE {}

-----------------------------------------------------------------------------
(* register_user: the account and a workspace of its own.  An address that *)
(* is registered again after its account was deleted is another user.      *)
Register(s, u) ==
    /\ account[u] = "none"
    /\ lastId < MaxWorkspaces
    /\ lastId' = lastId + 1
    /\ Begin(s, [NoWork EXCEPT !.joins = {u},
                               !.creates = {lastId + 1},
                               !.inserts = {[ws |-> lastId + 1, user |-> u, role |-> "admin"]},
                               !.defaults = {<<u, lastId + 1>>}])
    /\ UNCHANGED rows

(* create_workspace: the flush hands out the id.                           *)
CreateWorkspace(s, u) ==
    /\ lastId < MaxWorkspaces
    /\ lastId' = lastId + 1
    /\ Begin(s, [NoWork EXCEPT !.creates = {lastId + 1},
                               !.inserts = {[ws |-> lastId + 1, user |-> u, role |-> "admin"]},
                               !.defaults = DefaultIfNone(u, lastId + 1)])
    /\ UNCHANGED rows

(* delete_workspace resets the default of the members that had it.         *)
DeleteWorkspace(s, a, w) ==
    /\ HasRole(a, w, {"admin"})
    /\ Begin(s, [NoWork EXCEPT !.drops = {w},
                               !.defaults = {<<m.user, 0>> : m \in
                                   {m \in members : m.ws = w /\ default[m.user] = w}}])
    /\ UNCHANGED <<rows, lastId>>

(* invite_member: an editor may invite, an admin only an admin.            *)
InviteMember(s, a, w, u, role) ==
    /\ HasRole(a, w, IF role = "admin" THEN {"admin"} ELSE {"admin", "editor"})
    /\ u \in Accounts /\ Of(u, w) = {}
    /\ Begin(s, [NoWork EXCEPT !.inserts = {[ws |-> w, user |-> u, role |-> role]},
                               !.defaults = DefaultIfNone(u, w)])
    /\ UNCHANGED <<rows, lastId>>

(* Deliberately wrong: nothing stops an admin from acting on himself.      *)
MayManageAll(a, m) == HasRole(a, m.ws, {"admin"})

(* update_member_role and remove_member: an admin, on somebody else.       *)
MayManage(a, m) == HasRole(a, m.ws, {"admin"}) /\ m.user # a

UpdateMemberRole(s, a, m, role) ==
    /\ MayManage(a, m)
    /\ m.role # role
    /\ Begin(s, [NoWork EXCEPT !.by = {<<a, m.ws>>}, !.roles = {<<m.id, role>>}])
    /\ UNCHANGED <<rows, lastId>>

(* The member's default workspace stays what it is.                        *)
RemoveMember(s, a, m) ==
    /\ MayManage(a, m)
    /\ Begin(s, [NoWork EXCEPT !.by = {<<a, m.ws>>}, !.removes = {m.id}])
    /\ UNCHANGED <<rows, lastId>>

(* set_default_workspace, for any member.                                  *)
SetDefaultWorkspace(s, u, w) ==
    /\ Of(u, w) # {} /\ default[u] # w
    /\ Begin(s, [NoWork EXCEPT !.defaults = {<<u, w>>}])
    /\ UNCHANGED <<rows, lastId>>

(* get_active_workspace_member without a header: a default the user is not *)
(* a member of is replaced by the oldest of his memberships.               *)
Oldest(u) == {m \in members : m.user = u /\ \A n \in members : n.user = u => m.id <= n.id}

ResolveActive(s, u) ==
    /\ Of(u, default[u]) = {}
    /\ \E m \in Oldest(u) : Begin(s, [NoWork EXCEPT !.defaults = {<<u, m.ws>>}])
    /\ UNCHANGED <<rows, lastId>>

(* delete_account, whatever workspaces the user is the only admin of.      *)
DeleteAccount(s, u) ==
    /\ Begin(s, [NoWork EXCEPT !.leaves = {u}, !.removes = {m.id : m \in {m \in members : m.user = u}}])
    /\ UNCHANGED <<rows, lastId>>

-----------------------------------------------------------------------------
(* What a commit needs: foreign keys, the unique key uq_workspace_member   *)
(* and the rows it updates.                                                *)
Committable(unit) ==
    LET known == live \cup unit.creates
        users == Accounts \cup unit.joins
    IN
    /\ \A u \in unit.joins : account[u] = "none"
    /\ \A i \in unit.inserts : i.ws \in known /\ i.user \in users /\ Of(i.user, i.ws) = {}
    /\ \A r \in unit.roles : \E m \in members : m.id = r[1]
    /\ \A d \in unit.defaults : d[1] \in users /\ d[2] \in known \cup {0}

Inserted(unit) ==
    {[id |-> lastRow + 1, ws |-> i.ws, user |-> i.user, role |-> i.role] : i \in unit.inserts}

RoleAfter(m, unit) ==
    IF \E r \in unit.roles : r[1] = m.id
    THEN (CHOOSE r \in unit.roles : r[1] = m.id)[2]
    ELSE m.role

Updated(unit) == {[m EXCEPT !.role = RoleAfter(m, unit)] : m \in members}

(* ON DELETE CASCADE from workspaces and users.                            *)
Kept(m, unit) == m.id \notin unit.removes /\ m.ws \notin unit.drops /\ m.user \notin unit.leaves

(* Deliberately wrong: the default survives the workspace.                 *)
DefaultKept(u, unit) ==
    LET set == {d \in unit.defaults : d[1] = u}
    IN  IF set = {} THEN default[u] ELSE (CHOOSE d \in set : TRUE)[2]

(* ON DELETE SET NULL.                                                     *)
DefaultAfter(u, unit) ==
    LET set == {d \in unit.defaults : d[1] = u}
        to  == IF set = {} THEN default[u] ELSE (CHOOSE d \in set : TRUE)[2]
    IN  IF to \in unit.drops THEN 0 ELSE to

AccountAfter(u, unit) ==
    IF u \in unit.leaves THEN "deleted" ELSE IF u \in unit.joins THEN "active" ELSE account[u]

(* Workspaces where a request under way no longer has the admin's role it  *)
(* was allowed by.                                                         *)
Outdated(unit) == {b[2] : b \in {b \in unit.by : ~HasRole(b[1], b[2], {"admin"})}}

CommitWork(s) ==
    LET unit == work[s] IN
    /\ ~Idle(s)
    /\ IF Committable(unit)
       THEN /\ live' = (live \cup unit.creates) \ unit.drops
            /\ members' = {m \in Updated(unit) \cup Inserted(unit) : Kept(m, unit)}
            /\ account' = [u \in Users |-> AccountAfter(u, unit)]
            /\ default' = [u \in Users |-> IF u \in unit.leaves THEN 0 ELSE DefaultAfter(u, unit)]
            /\ stale' = stale \cup Outdated(unit)
            /\ left' = left \cup {m.ws : m \in {m \in members : m.user \in unit.leaves /\ m.role = "admin"}}
       ELSE UNCHANGED <<live, members, account, default, stale, left>>
    /\ lastRow' = lastRow + Cardinality(unit.inserts)
    /\ work' = [work EXCEPT ![s] = NoWork]
    /\ UNCHANGED <<lastId, started>>

-----------------------------------------------------------------------------
(* One workspace has been there for a while: users were invited, roles     *)
(* were given, and whoever is a member has it as his default.  Whoever is  *)
(* not may not have registered yet.  Ids order the rows of one user, never *)
(* those of two.                                                           *)
FirstRow == CHOOSE id \in [Users -> 1..Cardinality(Users)] :
                \A u, v \in Users : u # v => id[u] # id[v]

WorkspacesInit ==
    /\ lastId = 1 /\ live = {1}
    /\ \E role \in [Users -> Role \cup {"none"}] :
         /\ \E u \in Users : role[u] = "admin"
         /\ members = {[id |-> FirstRow[u], ws |-> 1, user |-> u, role |-> role[u]] :
                           u \in {u \in Users : role[u] # "none"}}
         /\ default = [u \in Users |-> IF role[u] = "none" THEN 0 ELSE 1]
         /\ account \in [Users -> {"none", "active"}]
         /\ \A u \in Users : role[u] # "none" => account[u] = "active"
    /\ lastRow = Cardinality(Users)
    /\ work = [s \in Slots |-> NoWork]
    /\ started = 0 /\ stale = {} /\ left = {}

-----------------------------------------------------------------------------
(* Rows refer to rows that are there, and nobody is a member twice.        *)
WorkspacesTypeOK ==
    /\ lastId \in Ids /\ live \subseteq 1..lastId
    /\ lastRow \in Rows
    /\ members \subseteq [id : 1..lastRow, ws : live, user : Accounts, role : Role]
    /\ \A m, n \in members : m.id = n.id \/ (m.user = n.user /\ m.ws = n.ws) => m = n
    /\ account \in [Users -> Account]
    /\ default \in [Users -> live \cup {0}]
    /\ work \in [Slots -> Works]
    /\ started \in 0..MaxRequests
    /\ stale \subseteq Ids /\ left \subseteq Ids

(* A workspace has an admin, who alone can manage or delete it, unless an  *)
(* admin deleted his account or two admins acted at once and one of them   *)
(* was no longer an admin when his change was committed.                   *)
AdminUnlessStale == \A w \in live : Admins(w) # {} \/ w \in stale \cup left

=============================================================================
