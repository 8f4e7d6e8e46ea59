----------------------------- MODULE DesignReview -----------------------------
(***************************************************************************)
(* What the members of a workspace do with a design besides generating it  *)
(* (app/services/design_service.py): the public link, the review, the      *)
(* discussion and the deletion.  Workspaces tells who may, and ends the    *)
(* design when its workspace or its author goes; AuthSessions adds the     *)
(* sessions of one of the accounts.                                        *)
(*                                                                         *)
(* Requests work as in Workspaces: a request reads the row, checks, and    *)
(* commits later the columns it changed.  The response to a request that   *)
(* may have made a link or a discussion is built from the row as it is     *)
(* after the commit.                                                       *)
(*                                                                         *)
(* Notes and comments are single writes nothing else depends on.           *)
(***************************************************************************)
EXTENDS AuthSessions

CONSTANTS Author,  \* designs.owner_id
          Nobody   \* review_owner_user_id is null

ASSUME AuthorAssumption == Author \in Users /\ Nobody \notin Users

Home == 1  \* designs.workspace_id

Columns  == {"share_token", "discussion", "review_status", "review_owner"}
Claimed  == {"share_token", "discussion"}
Reviewed == {"review_status", "review_owner"}

ReviewStatus == {"draft", "in_review", "approved"}

VARIABLES
    present,  \* the design has not been deleted
    row,      \* its columns; 0: no link, no discussion
    edit,     \* what each request on the design is about to write
    given,    \* <<column, value>>: links and discussions users were given
    crossed   \* columns a commit wrote after another had changed what it read

design == <<present, row, given, crossed>>
vars   == <<wvars, sessions, auth, design, edit>>

Numbers == 0..MaxRequests

Row == [share_token : Numbers, discussion : Numbers,
        review_status : ReviewStatus, review_owner : Users \cup {Nobody}]

Exists == present /\ Home \in live /\ Author \in Accounts

-----------------------------------------------------------------------------
(* assigns: the columns it sets; new: the row with them set, a column that *)
(* ends up as it was read is not written; answers: the columns it returns. *)
NoEdit == [step |-> "idle"]

EditOf(assigns, new, answers, deletes) ==
    [step |-> "commit", assigns |-> assigns, read |-> row, new |-> new,
     answers |-> answers, deletes |-> deletes]

Edits == {NoEdit} \cup [step : {"commit", "answer"}, assigns : SUBSET Columns, read : Row,
                        new : Row, answers : SUBSET Claimed, deletes : BOOLEAN]

BeginEdit(s, change) ==
    /\ edit[s] = NoEdit
    /\ started < MaxRequests /\ started' = started + 1
    /\ edit' = [edit EXCEPT ![s] = change]
    /\ UNCHANGED <<rows, lastId, work, sessions, auth, design>>

MayRead(a)  == Exists /\ Of(a, Home) # {}
MayWrite(a) == Exists /\ HasRole(a, Home, {"admin", "editor"})

(* Deliberately wrong: every request makes up a new value.                 *)
MissingAlways(c) == {c}

(* A value for the column is only made up if it was read empty.            *)
Missing(c) == IF row[c] = 0 THEN {c} ELSE {}

Claim(s, c) ==
    BeginEdit(s, EditOf(Missing(c),
                        IF Missing(c) = {} THEN row ELSE [row EXCEPT ![c] = started + 1],
                        {c}, FALSE))

(* enable_design_share_for_user                                            *)
EnableShare(s, a) == MayWrite(a) /\ Claim(s, "share_token")

(* get_design_artifact_for_user: designs older than the discussions get    *)
(* one when they are first opened.                                         *)
OpenDesign(s, a) == MayRead(a) /\ Claim(s, "discussion")

(* disable_design_share_for_user                                           *)
DisableShare(s, a) ==
    /\ MayWrite(a)
    /\ BeginEdit(s, EditOf({"share_token"}, [row EXCEPT !.share_token = 0], {}, FALSE))

(* Deliberately wrong: an approval needs no owner.                         *)
ReviewableByAnybody(status, owner) == owner # Nobody => Of(owner, Home) # {}

(* update_design_review_for_user: the owner is a member when it looks.     *)
Reviewable(status, owner) ==
    /\ owner # Nobody => Of(owner, Home) # {}
    /\ status = "approved" => owner # Nobody

UpdateReview(s, a, status, owner) ==
    /\ MayWrite(a)
    /\ Reviewable(status, owner)
    /\ BeginEdit(s, EditOf(Reviewed, [row EXCEPT !.review_status = status, !.review_owner = owner],
                           {}, FALSE))

(* delete_design_for_user                                                  *)
DeleteDesign(s, a) ==
    /\ MayWrite(a)
    /\ BeginEdit(s, EditOf({}, row, {}, TRUE))

-----------------------------------------------------------------------------
Written(e) == {c \in e.assigns : e.new[c] # e.read[c]}

Disables(e) == "share_token" \in e.assigns /\ e.new.share_token = 0

(* The columns set from values that have changed since they were read.     *)
Crossing(e) ==
    IF ~Disables(e) /\ \E c \in e.assigns : row[c] # e.read[c] THEN e.assigns ELSE {}

(* UPDATE writes the columns that differ from what was read; the design    *)
(* may be gone.                                                            *)
CommitEdit(s) ==
    LET e == edit[s] IN
    /\ e.step = "commit"
    /\ IF Exists
       THEN /\ row' = [c \in Columns |-> IF c \in Written(e) THEN e.new[c] ELSE row[c]]
            /\ present' = ~e.deletes
            /\ crossed' = crossed \cup Crossing(e)
            /\ given' = IF Disables(e) /\ Written(e) # {}
                        THEN {g \in given : g[1] # "share_token"}
                        ELSE given
            /\ edit' = [edit EXCEPT ![s] = IF e.answers = {} THEN NoEdit ELSE [e EXCEPT !.step = "answer"]]
       ELSE edit' = [edit EXCEPT ![s] = NoEdit] /\ UNCHANGED design
    /\ UNCHANGED <<wvars, sessions, auth>>

(* db.refresh, and the response.                                           *)
Answer(s) ==
    /\ edit[s].step = "answer"
    /\ edit' = [edit EXCEPT ![s] = NoEdit]
    /\ given' = IF Exists THEN given \cup {<<c, row[c]>> : c \in {c \in edit[s].answers : row[c] # 0}}
                ELSE given
    /\ UNCHANGED <<wvars, sessions, auth, present, row, crossed>>

(* get_public_design_by_token, and a discussion by its id.                 *)
Finds(c, n) == Exists /\ row[c] = n

(* ON DELETE SET NULL takes a review's owner away with the account.        *)
OwnerLeaves(s) ==
    /\ Committable(work[s]) /\ row.review_owner \in work[s].leaves
    /\ row' = [row EXCEPT !.review_owner = Nobody]
    /\ crossed' = crossed \cup Reviewed

OwnerStays(s) ==
    /\ ~(Committable(work[s]) /\ row.review_owner \in work[s].leaves)
    /\ UNCHANGED <<row, crossed>>

-----------------------------------------------------------------------------
(* A design from before there were discussions, never shared nor reviewed. *)
Init ==
    /\ WorkspacesInit /\ SessionsInit
    /\ account[Author] = "active"
    /\ present = TRUE
    /\ row = [share_token |-> 0, discussion |-> 0,
              review_status |-> "draft", review_owner |-> Nobody]
    /\ edit = [s \in Slots |-> NoEdit]
    /\ given = {} /\ crossed = {}

BeginWork(s) ==
    \/ \E u \in Users : Register(s, u)
    \/ \E u \in Callers : CreateWorkspace(s, u) \/ ResolveActive(s, u) \/ DeleteAccount(s, u)
    \/ \E u \in Callers, w \in live : DeleteWorkspace(s, u, w) \/ SetDefaultWorkspace(s, u, w)
    \/ \E a \in Callers, u \in Users, w \in live, role \in Role : InviteMember(s, a, w, u, role)
    \/ \E a \in Callers, m \in members :
         \/ \E role \in Role : UpdateMemberRole(s, a, m, role)
         \/ RemoveMember(s, a, m)

BeginOnDesign(s) ==
    \/ \E a \in Callers : EnableShare(s, a) \/ DisableShare(s, a) \/ OpenDesign(s, a) \/ DeleteDesign(s, a)
    \/ \E a \in Callers, status \in ReviewStatus, owner \in Users \cup {Nobody} :
         UpdateReview(s, a, status, owner)

Free(s) == Idle(s) /\ auth[s] = NoAuth /\ edit[s] = NoEdit

Begins(s) ==
    \/ BeginWork(s) /\ UNCHANGED <<sessions, auth, design, edit>>
    \/ BeginOnSessions(s) /\ UNCHANGED <<design, edit>>
    \/ BeginOnDesign(s)

Ends(s) ==
    \/ /\ CommitWork(s)
       /\ SessionsAfterWork
       /\ (OwnerLeaves(s) \/ OwnerStays(s))
       /\ UNCHANGED <<present, given, edit>>
    \/ EndOnSessions(s) /\ UNCHANGED <<design, edit>>
    \/ CommitEdit(s)
    \/ Answer(s)

Next ==
    \/ \E s \in Slots : (Free(s) /\ Begins(s)) \/ Ends(s)
    \/ SendLink /\ UNCHANGED <<design, edit>>

Spec == Init /\ [][Next]_vars

-----------------------------------------------------------------------------
TypeOK ==
    /\ WorkspacesTypeOK /\ SessionsTypeOK
    /\ present \in BOOLEAN
    /\ row \in Row
    /\ edit \in [Slots -> Edits]
    /\ given \subseteq Claimed \X Numbers
    /\ crossed \subseteq Columns

(* A public link works from the moment a user is given it until somebody   *)
(* disables it, and a discussion users were sent to stays the design's:    *)
(* nothing but another first request for it at the same time replaces it.  *)
GivenOutWorks == Exists => \A g \in given : Finds(g[1], g[2]) \/ g[1] \in crossed

(* An approved design has a review owner, unless two reviews crossed or    *)
(* the owner deleted his account.                                          *)
ApprovedHasOwner ==
    row.review_status = "approved" => row.review_owner # Nobody \/ Reviewed \subseteq crossed

=============================================================================
