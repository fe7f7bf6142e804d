----------------------------- MODULE Membership -----------------------------
(***************************************************************************)
(* The members of one project: the calls of the logger that create and     *)
(* delete the project, add and remove members and change their roles, each *)
(* in a goroutine of its own.  All but AddMember run a MongoDB transaction *)
(* and are modelled operation by operation.                                *)
(*                                                                         *)
(* A transaction reads the snapshot it took at its first operation.  It    *)
(* conflicts when it writes a document that another open transaction has   *)
(* written, or that changed since its snapshot; WithTransaction then runs  *)
(* the callback from the start.                                            *)
(***************************************************************************)
EXTENDS FiniteSets, Integers

CONSTANTS
    Users,          \* normalized GitHub logins, each a row of project_members
    Calls,          \* calls of the administration API, each made once
    ProjectDoc,     \* the project's document
    None

Roles == {"member", "owner"}
(* What is asked for: that the user have the role.  A deletion names nobody *)
(* in the code; its user is any.                                           *)
Wishes == [op : {"create"}, user : Users, role : {"owner"}]
          \cup [op : {"add", "role"}, user : Users, role : Roles]
          \cup [op : {"remove", "delete"}, user : Users, role : {"none"}]
Documents == Users \cup {ProjectDoc}

MembershipAssumption ==
    /\ ProjectDoc \notin Users /\ None \notin Users \cup Wishes /\ IsFiniteSet(Users)
ASSUME MembershipAssumption

VARIABLES
    project,    \* the committed state: "absent", "exists" or "deleted"
    role,       \* the committed rows: "none", "member" or "owner" for each user
    asked,      \* what each call asks for
    at,         \* where each call stands
    view,       \* the snapshot of each call's transaction
    writes,     \* the documents each open transaction has written
    stale       \* those that changed since its snapshot

vars == <<project, role, asked, at, view, writes, stale>>
committed == <<project, role>>
transaction == <<view, writes, stale>>

Rows(p, r) == [project |-> p, role |-> r]
NoRows == Rows("absent", [u \in Users |-> "none"])

Init ==
    /\ project = "absent" /\ role = [u \in Users |-> "none"]
    /\ asked = [c \in Calls |-> None]
    /\ at = [c \in Calls |-> "idle"]
    /\ view = [c \in Calls |-> NoRows]
    /\ writes = [c \in Calls |-> {}]
    /\ stale = [c \in Calls |-> {}]

-----------------------------------------------------------------------------
(* The operations of a transaction.                                        *)
Conflict(c, docs) == docs \cap (stale[c] \cup UNION {writes[d] : d \in Calls \ {c}}) # {}

(* The first operation takes the snapshot, and writes docs.                *)
Snapshot(c, docs) ==
    /\ docs \cap UNION {writes[d] : d \in Calls \ {c}} = {}
    /\ view' = [view EXCEPT ![c] = Rows(project, role)]
    /\ writes' = [writes EXCEPT ![c] = docs]
    /\ stale' = [stale EXCEPT ![c] = {}]

Write(c, docs) ==
    /\ ~Conflict(c, docs)
    /\ writes' = [writes EXCEPT ![c] = @ \cup docs]
    /\ UNCHANGED <<view, stale>>

(* What c wrote is committed or given up.  A commit is a change that the   *)
(* other open transactions do not see.                                     *)
Closed(c) == writes' = [writes EXCEPT ![c] = {}] /\ UNCHANGED view
Published(c, docs) ==
    stale' = [d \in Calls |-> IF d = c THEN stale[d] ELSE stale[d] \cup docs]

-----------------------------------------------------------------------------
(* requireProject: the caller owns the project, says one call to the       *)
(* logger; the change is asked for by the next.                            *)
Authorize(c, w) ==
    /\ at[c] = "idle"
    /\ w.op # "create" => \E u \in Users : role[u] = "owner"
    /\ asked' = [asked EXCEPT ![c] = w]
    /\ at' = [at EXCEPT ![c] = "asked"]
    /\ UNCHANGED <<committed, transaction>>

Asked(c, op) == at[c] = "asked" /\ asked[c].op = op

(* Two documents that no one else has seen, in one transaction.            *)
CreateProjectWithOwner(c) ==
    /\ Asked(c, "create") /\ project = "absent"
    /\ project' = "exists"
    /\ role' = [role EXCEPT ![asked[c].user] = "owner"]
    /\ \E answer \in {"ok", "failed"} : at' = [at EXCEPT ![c] = answer]
    /\ Published(c, {ProjectDoc, asked[c].user})
    /\ UNCHANGED <<asked, view, writes>>

(* Mutant: the login is written where the role belongs.                    *)
InsertProjectMemberSwapped(c) ==
    LET u == asked[c].user IN
    /\ Asked(c, "add")
    /\ \A d \in Calls : u \notin writes[d]
    /\ role[u] = "none"
    /\ role' = [role EXCEPT ![u] = u]
    /\ \E answer \in {"ok", "failed"} : at' = [at EXCEPT ![c] = answer]
    /\ Published(c, {u})
    /\ UNCHANGED <<project, asked, view, writes>>

(* One insert, outside any transaction.  It waits for a transaction that   *)
(* has written the same row; a second row for a login is a duplicate.      *)
InsertProjectMember(c) ==
    LET u == asked[c].user IN
    /\ Asked(c, "add")
    /\ \A d \in Calls : u \notin writes[d]
    /\ role[u] = "none"
    /\ role' = [role EXCEPT ![u] = asked[c].role]
    /\ \E answer \in {"ok", "failed"} : at' = [at EXCEPT ![c] = answer]
    /\ Published(c, {u})
    /\ UNCHANGED <<project, asked, view, writes>>

AlreadyMember(c) ==
    /\ Asked(c, "add") /\ role[asked[c].user] # "none"
    /\ at' = [at EXCEPT ![c] = "failed"]
    /\ UNCHANGED <<committed, asked, transaction>>

-----------------------------------------------------------------------------
(* changeMembers, for RemoveProjectMember and UpdateProjectMemberRole.     *)
Changes(c) == asked[c].op \in {"remove", "role"}

(* Mutant: the transaction does not write to the project.                  *)
LockProjectUnwritten(c) ==
    /\ at[c] = "asked" /\ Changes(c)
    /\ Snapshot(c, {})
    /\ at' = [at EXCEPT ![c] = "locked"]
    /\ UNCHANGED <<committed, asked>>

(* The update that every change of the members starts with.  It matches    *)
(* nothing when the project is gone.                                       *)
LockProject(c) ==
    /\ at[c] = "asked" /\ Changes(c)
    /\ Snapshot(c, IF project = "exists" THEN {ProjectDoc} ELSE {})
    /\ at' = [at EXCEPT ![c] = "locked"]
    /\ UNCHANGED <<committed, asked>>

(* The row the change is about, as the snapshot has it.                    *)
Target(c) == view[c].role[asked[c].user]
SameRole(c) == asked[c].op = "role" /\ Target(c) = asked[c].role

FindMember(c) ==
    /\ at[c] = "locked"
    /\ \/ /\ Target(c) = "none"                         \* ErrNoDocuments
          /\ at' = [at EXCEPT ![c] = "failed"]
          /\ Closed(c) /\ UNCHANGED stale
       \/ /\ SameRole(c)
          /\ at' = [at EXCEPT ![c] = "written"]
          /\ UNCHANGED transaction
       \/ /\ Target(c) \in Roles /\ ~SameRole(c)
          /\ at' = [at EXCEPT ![c] = IF Target(c) = "owner" THEN "counting" ELSE "changing"]
          /\ UNCHANGED transaction
    /\ UNCHANGED <<committed, asked>>

RefuseLastOwner(c) ==
    LET n == Cardinality({u \in Users : view[c].role[u] = "owner"}) IN
    /\ at[c] = "counting"
    /\ at' = [at EXCEPT ![c] = IF n <= 1 THEN "failed" ELSE "changing"]
    /\ IF n <= 1 THEN Closed(c) /\ UNCHANGED stale ELSE UNCHANGED transaction
    /\ UNCHANGED <<committed, asked>>

(* The delete or the update of the row.                                    *)
ChangeMember(c) ==
    /\ at[c] = "changing"
    /\ Write(c, {asked[c].user})
    /\ at' = [at EXCEPT ![c] = "written"]
    /\ UNCHANGED <<committed, asked>>

CommitChange(c) ==
    LET u == asked[c].user IN
    /\ at[c] = "written" /\ Changes(c)
    /\ role' = IF SameRole(c) THEN role
               ELSE [role EXCEPT ![u] = asked[c].role]
    /\ \E answer \in {"ok", "failed"} : at' = [at EXCEPT ![c] = answer]
    /\ Closed(c) /\ Published(c, writes[c])
    /\ UNCHANGED <<project, asked>>

-----------------------------------------------------------------------------
(* DeleteProject.  Its deletes of the keys and the settings come first and *)
(* take the snapshot.                                                      *)
DeleteKeys(c) ==
    /\ Asked(c, "delete")
    /\ Snapshot(c, {})
    /\ at' = [at EXCEPT ![c] = "clearing"]
    /\ UNCHANGED <<committed, asked>>

(* Mutant: DeleteOne for DeleteMany.                                       *)
DeleteMembersOne(c) ==
    /\ at[c] = "clearing"
    /\ \E u \in Users : Write(c, {u} \cap {v \in Users : view[c].role[v] # "none"})
    /\ at' = [at EXCEPT ![c] = "cleared"]
    /\ UNCHANGED <<committed, asked>>

DeleteMembers(c) ==
    /\ at[c] = "clearing"
    /\ Write(c, {u \in Users : view[c].role[u] # "none"})
    /\ at' = [at EXCEPT ![c] = "cleared"]
    /\ UNCHANGED <<committed, asked>>

DeleteProjectDoc(c) ==
    /\ at[c] = "cleared"
    /\ Write(c, IF view[c].project = "exists" THEN {ProjectDoc} ELSE {})
    /\ at' = [at EXCEPT ![c] = "written"]
    /\ UNCHANGED <<committed, asked>>

CommitDelete(c) ==
    /\ at[c] = "written" /\ asked[c].op = "delete"
    /\ project' = IF ProjectDoc \in writes[c] THEN "deleted" ELSE project
    /\ role' = [u \in Users |-> IF u \in writes[c] THEN "none" ELSE role[u]]
    /\ \E answer \in {"ok", "failed"} : at' = [at EXCEPT ![c] = answer]
    /\ Closed(c) /\ Published(c, writes[c])
    /\ UNCHANGED asked

-----------------------------------------------------------------------------
(* A conflict or another transient error: the callback runs again.         *)
Open == {"locked", "counting", "changing", "clearing", "cleared", "written"}

Retry(c) ==
    /\ at[c] \in Open
    /\ at' = [at EXCEPT ![c] = "asked"]
    /\ Closed(c) /\ UNCHANGED stale
    /\ UNCHANGED <<committed, asked>>

(* The time is up, the logger is gone, or MongoDB refuses for good.        *)
GiveUp(c) ==
    /\ at[c] \in Open \cup {"asked"}
    /\ at' = [at EXCEPT ![c] = "failed"]
    /\ Closed(c) /\ UNCHANGED stale
    /\ UNCHANGED <<committed, asked>>

Next == \E c \in Calls :
    \/ \E w \in Wishes : Authorize(c, w)
    \/ CreateProjectWithOwner(c)
    \/ InsertProjectMember(c) \/ AlreadyMember(c)
    \/ LockProject(c) \/ FindMember(c) \/ RefuseLastOwner(c)
    \/ ChangeMember(c) \/ CommitChange(c)
    \/ DeleteKeys(c) \/ DeleteMembers(c) \/ DeleteProjectDoc(c) \/ CommitDelete(c)
    \/ Retry(c) \/ GiveUp(c)

Spec == Init /\ [][Next]_vars
=============================================================================
