-------------------------- MODULE MembershipProofs --------------------------
(***************************************************************************)
(* The theorems of the members of a project, and their proofs.             *)
(*                                                                         *)
(* A transaction that changes the members of a project that exists holds   *)
(* the project's document, so no other such transaction and no deletion    *)
(* commits before it: every owner its snapshot has is an owner still, and  *)
(* the row it writes is the row it read.                                   *)
(***************************************************************************)
EXTENDS MembershipProperties, FiniteSetTheorems, TLAPS

(* What a call has asked for, and where it can be.                         *)
StagesOK ==
    \A c \in Calls :
        /\ at[c] # "idle" => asked[c] \in Wishes
        /\ at[c] \in {"locked", "counting", "changing"} => Changes(c)
        /\ at[c] \in {"clearing", "cleared"} => asked[c].op = "delete"
        /\ at[c] = "written" => Changes(c) \/ asked[c].op = "delete"
        /\ at[c] \notin Open => writes[c] = {}

(* Before the project is created there is nobody to call for it.           *)
AbsentIsEmpty ==
    project = "absent" =>
        /\ \A u \in Users : role[u] = "none"
        /\ \A c \in Calls : at[c] # "idle" => asked[c].op = "create"

(* No two transactions write the same document, nor does one write a       *)
(* document that changed since its snapshot.                               *)
Isolated ==
    \A c \in Calls :
        /\ writes[c] \cap stale[c] = {}
        /\ \A d \in Calls \ {c} : writes[c] \cap writes[d] = {}

(* What did not change since the snapshot is as the snapshot has it.       *)
SnapshotsOK ==
    \A c \in Calls : at[c] \in Open =>
        /\ view[c].project # "absent"
        /\ view[c].project = "deleted" => project = "deleted"
        /\ \A u \in Users \ stale[c] : view[c].role[u] = role[u]

(* Who changes the members of a project that exists holds it, and every    *)
(* owner in its snapshot is an owner still.                                *)
HoldsProject ==
    \A c \in Calls : at[c] \in Open /\ Changes(c) /\ project = "exists" =>
        /\ ProjectDoc \in writes[c]
        /\ \A u \in Users : view[c].role[u] = "owner" => role[u] = "owner"

(* Who takes an owner away has seen another one.                           *)
HasLooked ==
    \A c \in Calls : at[c] \in Open /\ Changes(c) =>
        /\ at[c] \in {"counting", "changing"} => ~SameRole(c)
        /\ at[c] \in {"changing", "written"} /\ ~SameRole(c) /\ Target(c) = "owner"
             => \E v \in Users \ {asked[c].user} : view[c].role[v] = "owner"
        /\ at[c] = "written" /\ ~SameRole(c) => asked[c].user \in writes[c]

DeletesOK ==
    \A c \in Calls : at[c] \in Open /\ asked[c].op = "delete" =>
        /\ at[c] = "written" /\ view[c].project = "exists" => ProjectDoc \in writes[c]
        /\ ProjectDoc \in writes[c] => view[c].project = "exists"

IInv == /\ TypeOK /\ StagesOK /\ AbsentIsEmpty /\ Isolated /\ SnapshotsOK
        /\ HoldsProject /\ HasLooked /\ DeletesOK /\ AlwaysOwned
-----------------------------------------------------------------------------
(* Every step keeps the types.                                            *)
LEMMA TypeStep ==
    ASSUME MembershipAssumption, TypeOK, StagesOK, [Next]_vars
    PROVE  TypeOK'
<1>a. asked \in [Calls -> Wishes \cup {None}] /\ at \in [Calls -> Stages]  BY DEF TypeOK
<1>r. role \in [Users -> Roles \cup {"none"}] /\ project \in States  BY DEF TypeOK
<1>v. view \in [Calls -> Views]  BY DEF TypeOK
<1>w. writes \in [Calls -> SUBSET Documents] /\ stale \in [Calls -> SUBSET Documents]  BY DEF TypeOK
<1>1. ASSUME NEW c \in Calls, NEW w \in Wishes, Authorize(c, w)  PROVE TypeOK'
  BY <1>1
  DEF TypeOK, Stages, States, Documents, Authorize, committed, transaction
<1>2. ASSUME NEW c \in Calls, CreateProjectWithOwner(c)  PROVE TypeOK'
  BY <1>2
  DEF TypeOK, Stages, States, Documents, CreateProjectWithOwner, Asked, Published, Wishes, Roles, StagesOK
<1>3. ASSUME NEW c \in Calls, InsertProjectMember(c)  PROVE TypeOK'
  BY <1>3
  DEF TypeOK, Stages, States, Documents, InsertProjectMember, Asked, Published, Wishes, StagesOK, Open
<1>4. ASSUME NEW c \in Calls, AlreadyMember(c)  PROVE TypeOK'
  BY <1>4
  DEF TypeOK, Stages, States, Documents, AlreadyMember, Asked, committed, transaction
<1>5. ASSUME NEW c \in Calls, LockProject(c)  PROVE TypeOK'
  <2>1. Rows(project, role) \in Views  BY <1>r DEF Rows, Views
  <2>2. view' \in [Calls -> Views]  BY <1>5, <1>v, <2>1 DEF LockProject, Snapshot
  <2> QED BY <1>5, <2>2 DEF TypeOK, Stages, Documents, LockProject, Snapshot, committed
<1>6. ASSUME NEW c \in Calls, FindMember(c)  PROVE TypeOK'
  BY <1>6
  DEF TypeOK, Stages, States, Documents, FindMember, Target, SameRole, Closed, transaction, committed
<1>7. ASSUME NEW c \in Calls, RefuseLastOwner(c)  PROVE TypeOK'
  BY <1>7
  DEF TypeOK, Stages, States, Documents, RefuseLastOwner, Closed, transaction, committed
<1>8. ASSUME NEW c \in Calls, ChangeMember(c)  PROVE TypeOK'
  BY <1>8
  DEF TypeOK, Stages, States, Documents, ChangeMember, Write, Conflict, committed, Wishes, StagesOK, Changes
<1>9. ASSUME NEW c \in Calls, CommitChange(c)  PROVE TypeOK'
  BY <1>9
  DEF TypeOK, Stages, States, Documents, CommitChange, Changes, SameRole, Target, Closed, Published, Wishes, StagesOK
<1>10. ASSUME NEW c \in Calls, DeleteKeys(c)  PROVE TypeOK'
  <2>1. Rows(project, role) \in Views  BY <1>r DEF Rows, Views
  <2>2. view' \in [Calls -> Views]  BY <1>10, <1>v, <2>1 DEF DeleteKeys, Snapshot
  <2> QED BY <1>10, <2>2 DEF TypeOK, Stages, Documents, DeleteKeys, Snapshot, committed
<1>11. ASSUME NEW c \in Calls, DeleteMembers(c)  PROVE TypeOK'
  BY <1>11
  DEF TypeOK, Stages, States, Documents, DeleteMembers, Write, Conflict, committed
<1>12. ASSUME NEW c \in Calls, DeleteProjectDoc(c)  PROVE TypeOK'
  BY <1>12
  DEF TypeOK, Stages, States, Documents, DeleteProjectDoc, Write, Conflict, committed
<1>13. ASSUME NEW c \in Calls, CommitDelete(c)  PROVE TypeOK'
  BY <1>13
  DEF TypeOK, Stages, States, Documents, CommitDelete, Closed, Published
<1>14. ASSUME NEW c \in Calls, Retry(c)  PROVE TypeOK'
  BY <1>14
  DEF TypeOK, Stages, States, Documents, Retry, Closed, committed
<1>15. ASSUME NEW c \in Calls, GiveUp(c)  PROVE TypeOK'
  BY <1>15
  DEF TypeOK, Stages, States, Documents, GiveUp, Closed, committed
<1>16. CASE UNCHANGED vars
  BY <1>16 DEF TypeOK, Stages, States, Documents, vars
<1> QED BY <1>1, <1>2, <1>3, <1>4, <1>5, <1>6, <1>7, <1>8, <1>9, <1>10, <1>11, <1>12, <1>13, <1>14, <1>15, <1>16 DEF Next

(* Each call goes through the stages of what it asked for.                 *)
LEMMA StagesStep ==
    ASSUME MembershipAssumption, TypeOK, StagesOK, [Next]_vars
    PROVE  StagesOK'
<1>a. asked \in [Calls -> Wishes \cup {None}] /\ at \in [Calls -> Stages]  BY DEF TypeOK
<1>r. role \in [Users -> Roles \cup {"none"}] /\ project \in States  BY DEF TypeOK
<1>v. view \in [Calls -> Views]  BY DEF TypeOK
<1>w. writes \in [Calls -> SUBSET Documents] /\ stale \in [Calls -> SUBSET Documents]  BY DEF TypeOK
<1>1. ASSUME NEW c \in Calls, NEW w \in Wishes, Authorize(c, w)  PROVE StagesOK'
  BY <1>1, <1>a, <1>w
  DEF StagesOK, Changes, Open, Stages, Authorize, committed, transaction
<1>2. ASSUME NEW c \in Calls, CreateProjectWithOwner(c)  PROVE StagesOK'
  BY <1>2, <1>a, <1>w
  DEF StagesOK, Changes, Open, Stages, CreateProjectWithOwner, Asked, Published
<1>3. ASSUME NEW c \in Calls, InsertProjectMember(c)  PROVE StagesOK'
  BY <1>3, <1>a, <1>w
  DEF StagesOK, Changes, Open, Stages, InsertProjectMember, Asked, Published
<1>4. ASSUME NEW c \in Calls, AlreadyMember(c)  PROVE StagesOK'
  BY <1>4, <1>a, <1>w
  DEF StagesOK, Changes, Open, Stages, AlreadyMember, Asked, committed, transaction
<1>5. ASSUME NEW c \in Calls, LockProject(c)  PROVE StagesOK'
  BY <1>5, <1>a, <1>w
  DEF StagesOK, Changes, Open, Stages, LockProject, Snapshot, committed
<1>6. ASSUME NEW c \in Calls, FindMember(c)  PROVE StagesOK'
  BY <1>6, <1>a, <1>w
  DEF StagesOK, Changes, Open, Stages, FindMember, Target, SameRole, Closed, transaction, committed
<1>7. ASSUME NEW c \in Calls, RefuseLastOwner(c)  PROVE StagesOK'
  BY <1>7, <1>a, <1>w
  DEF StagesOK, Changes, Open, Stages, RefuseLastOwner, Closed, transaction, committed
<1>8. ASSUME NEW c \in Calls, ChangeMember(c)  PROVE StagesOK'
  BY <1>8, <1>a, <1>w
  DEF StagesOK, Changes, Open, Stages, ChangeMember, Write, Conflict, committed
<1>9. ASSUME NEW c \in Calls, CommitChange(c)  PROVE StagesOK'
  BY <1>9, <1>a, <1>w
  DEF StagesOK, Changes, Open, Stages, CommitChange, SameRole, Target, Closed, Published
<1>10. ASSUME NEW c \in Calls, DeleteKeys(c)  PROVE StagesOK'
  BY <1>10, <1>a, <1>w
  DEF StagesOK, Changes, Open, Stages, DeleteKeys, Asked, Snapshot, committed
<1>11. ASSUME NEW c \in Calls, DeleteMembers(c)  PROVE StagesOK'
  BY <1>11, <1>a, <1>w
  DEF StagesOK, Changes, Open, Stages, DeleteMembers, Write, Conflict, committed
<1>12. ASSUME NEW c \in Calls, DeleteProjectDoc(c)  PROVE StagesOK'
  BY <1>12, <1>a, <1>w
  DEF StagesOK, Changes, Open, Stages, DeleteProjectDoc, Write, Conflict, committed
<1>13. ASSUME NEW c \in Calls, CommitDelete(c)  PROVE StagesOK'
  BY <1>13, <1>a, <1>w
  DEF StagesOK, Changes, Open, Stages, CommitDelete, Closed, Published
<1>14. ASSUME NEW c \in Calls, Retry(c)  PROVE StagesOK'
  BY <1>14, <1>a, <1>w
  DEF StagesOK, Changes, Open, Stages, Retry, Closed, committed
<1>15. ASSUME NEW c \in Calls, GiveUp(c)  PROVE StagesOK'
  BY <1>15, <1>a, <1>w
  DEF StagesOK, Changes, Open, Stages, GiveUp, Closed, committed
<1>16. CASE UNCHANGED vars
  BY <1>16, <1>a, <1>w DEF StagesOK, Changes, Open, Stages, vars
<1> QED BY <1>1, <1>2, <1>3, <1>4, <1>5, <1>6, <1>7, <1>8, <1>9, <1>10, <1>11, <1>12, <1>13, <1>14, <1>15, <1>16 DEF Next

(* Nobody owns a project before it is created.                             *)
LEMMA AbsentStep ==
    ASSUME MembershipAssumption, TypeOK, StagesOK, AbsentIsEmpty, [Next]_vars
    PROVE  AbsentIsEmpty'
<1>a. asked \in [Calls -> Wishes \cup {None}] /\ at \in [Calls -> Stages]  BY DEF TypeOK
<1>r. role \in [Users -> Roles \cup {"none"}] /\ project \in States  BY DEF TypeOK
<1>v. view \in [Calls -> Views]  BY DEF TypeOK
<1>w. writes \in [Calls -> SUBSET Documents] /\ stale \in [Calls -> SUBSET Documents]  BY DEF TypeOK
<1>1. ASSUME NEW c \in Calls, NEW w \in Wishes, Authorize(c, w)  PROVE AbsentIsEmpty'
  BY <1>1, <1>a, <1>r
  DEF StagesOK, AbsentIsEmpty, Changes, Open, States, Authorize, committed, transaction
<1>2. ASSUME NEW c \in Calls, CreateProjectWithOwner(c)  PROVE AbsentIsEmpty'
  BY <1>2, <1>a, <1>r
  DEF StagesOK, AbsentIsEmpty, Changes, Open, States, CreateProjectWithOwner, Asked, Published
<1>3. ASSUME NEW c \in Calls, InsertProjectMember(c)  PROVE AbsentIsEmpty'
  BY <1>3, <1>a, <1>r
  DEF StagesOK, AbsentIsEmpty, Changes, Open, States, InsertProjectMember, Asked, Published
<1>4. ASSUME NEW c \in Calls, AlreadyMember(c)  PROVE AbsentIsEmpty'
  BY <1>4, <1>a, <1>r
  DEF StagesOK, AbsentIsEmpty, Changes, Open, States, AlreadyMember, Asked, committed, transaction
<1>5. ASSUME NEW c \in Calls, LockProject(c)  PROVE AbsentIsEmpty'
  BY <1>5, <1>a, <1>r
  DEF StagesOK, AbsentIsEmpty, Changes, Open, States, LockProject, Snapshot, committed
<1>6. ASSUME NEW c \in Calls, FindMember(c)  PROVE AbsentIsEmpty'
  BY <1>6, <1>a, <1>r
  DEF StagesOK, AbsentIsEmpty, Changes, Open, States, FindMember, Target, SameRole, Closed, transaction, committed
<1>7. ASSUME NEW c \in Calls, RefuseLastOwner(c)  PROVE AbsentIsEmpty'
  BY <1>7, <1>a, <1>r
  DEF StagesOK, AbsentIsEmpty, Changes, Open, States, RefuseLastOwner, Closed, transaction, committed
<1>8. ASSUME NEW c \in Calls, ChangeMember(c)  PROVE AbsentIsEmpty'
  BY <1>8, <1>a, <1>r
  DEF StagesOK, AbsentIsEmpty, Changes, Open, States, ChangeMember, Write, Conflict, committed
<1>9. ASSUME NEW c \in Calls, CommitChange(c)  PROVE AbsentIsEmpty'
  BY <1>9, <1>a, <1>r
  DEF StagesOK, AbsentIsEmpty, Changes, Open, States, CommitChange, SameRole, Target, Closed, Published
<1>10. ASSUME NEW c \in Calls, DeleteKeys(c)  PROVE AbsentIsEmpty'
  BY <1>10, <1>a, <1>r
  DEF StagesOK, AbsentIsEmpty, Changes, Open, States, DeleteKeys, Asked, Snapshot, committed
<1>11. ASSUME NEW c \in Calls, DeleteMembers(c)  PROVE AbsentIsEmpty'
  BY <1>11, <1>a, <1>r
  DEF StagesOK, AbsentIsEmpty, Changes, Open, States, DeleteMembers, Write, Conflict, committed
<1>12. ASSUME NEW c \in Calls, DeleteProjectDoc(c)  PROVE AbsentIsEmpty'
  BY <1>12, <1>a, <1>r
  DEF StagesOK, AbsentIsEmpty, Changes, Open, States, DeleteProjectDoc, Write, Conflict, committed
<1>13. ASSUME NEW c \in Calls, CommitDelete(c)  PROVE AbsentIsEmpty'
  BY <1>13, <1>a, <1>r
  DEF StagesOK, AbsentIsEmpty, Changes, Open, States, CommitDelete, Closed, Published
<1>14. ASSUME NEW c \in Calls, Retry(c)  PROVE AbsentIsEmpty'
  BY <1>14, <1>a, <1>r
  DEF StagesOK, AbsentIsEmpty, Changes, Open, States, Retry, Closed, committed
<1>15. ASSUME NEW c \in Calls, GiveUp(c)  PROVE AbsentIsEmpty'
  BY <1>15, <1>a, <1>r
  DEF StagesOK, AbsentIsEmpty, Changes, Open, States, GiveUp, Closed, committed
<1>16. CASE UNCHANGED vars
  BY <1>16, <1>a, <1>r DEF StagesOK, AbsentIsEmpty, Changes, Open, States, vars
<1> QED BY <1>1, <1>2, <1>3, <1>4, <1>5, <1>6, <1>7, <1>8, <1>9, <1>10, <1>11, <1>12, <1>13, <1>14, <1>15, <1>16 DEF Next

(* Conflicting transactions do not get on.                                 *)
LEMMA IsolatedStep ==
    ASSUME MembershipAssumption, TypeOK, StagesOK, AbsentIsEmpty, Isolated, [Next]_vars
    PROVE  Isolated'
<1>a. asked \in [Calls -> Wishes \cup {None}] /\ at \in [Calls -> Stages]  BY DEF TypeOK
<1>r. role \in [Users -> Roles \cup {"none"}] /\ project \in States  BY DEF TypeOK
<1>v. view \in [Calls -> Views]  BY DEF TypeOK
<1>w. writes \in [Calls -> SUBSET Documents] /\ stale \in [Calls -> SUBSET Documents]  BY DEF TypeOK
<1>1. ASSUME NEW c \in Calls, NEW w \in Wishes, Authorize(c, w)  PROVE Isolated'
  BY <1>1, <1>w
  DEF Isolated, Authorize, committed, transaction
<1>2. ASSUME NEW c \in Calls, CreateProjectWithOwner(c)  PROVE Isolated'
  BY <1>2, <1>w
  DEF Isolated, CreateProjectWithOwner, Asked, Published, AbsentIsEmpty, StagesOK, Open, Changes
<1>3. ASSUME NEW c \in Calls, InsertProjectMember(c)  PROVE Isolated'
  BY <1>3, <1>w
  DEF Isolated, InsertProjectMember, Asked, Published
<1>4. ASSUME NEW c \in Calls, AlreadyMember(c)  PROVE Isolated'
  BY <1>4, <1>w
  DEF Isolated, AlreadyMember, Asked, committed, transaction
<1>5. ASSUME NEW c \in Calls, LockProject(c)  PROVE Isolated'
  BY <1>5, <1>w
  DEF Isolated, LockProject, Changes, Snapshot, committed
<1>6. ASSUME NEW c \in Calls, FindMember(c)  PROVE Isolated'
  BY <1>6, <1>w
  DEF Isolated, FindMember, Target, SameRole, Closed, transaction, committed
<1>7. ASSUME NEW c \in Calls, RefuseLastOwner(c)  PROVE Isolated'
  BY <1>7, <1>w
  DEF Isolated, RefuseLastOwner, Closed, transaction, committed
<1>8. ASSUME NEW c \in Calls, ChangeMember(c)  PROVE Isolated'
  BY <1>8, <1>w
  DEF Isolated, ChangeMember, Write, Conflict, committed
<1>9. ASSUME NEW c \in Calls, CommitChange(c)  PROVE Isolated'
  BY <1>9, <1>w
  DEF Isolated, CommitChange, Changes, SameRole, Target, Closed, Published
<1>10. ASSUME NEW c \in Calls, DeleteKeys(c)  PROVE Isolated'
  BY <1>10, <1>w
  DEF Isolated, DeleteKeys, Asked, Snapshot, committed
<1>11. ASSUME NEW c \in Calls, DeleteMembers(c)  PROVE Isolated'
  BY <1>11, <1>w
  DEF Isolated, DeleteMembers, Write, Conflict, committed
<1>12. ASSUME NEW c \in Calls, DeleteProjectDoc(c)  PROVE Isolated'
  BY <1>12, <1>w
  DEF Isolated, DeleteProjectDoc, Write, Conflict, committed
<1>13. ASSUME NEW c \in Calls, CommitDelete(c)  PROVE Isolated'
  BY <1>13, <1>w
  DEF Isolated, CommitDelete, Closed, Published
<1>14. ASSUME NEW c \in Calls, Retry(c)  PROVE Isolated'
  BY <1>14, <1>w
  DEF Isolated, Retry, Closed, committed
<1>15. ASSUME NEW c \in Calls, GiveUp(c)  PROVE Isolated'
  BY <1>15, <1>w
  DEF Isolated, GiveUp, Closed, committed
<1>16. CASE UNCHANGED vars
  BY <1>16, <1>w DEF Isolated, vars
<1> QED BY <1>1, <1>2, <1>3, <1>4, <1>5, <1>6, <1>7, <1>8, <1>9, <1>10, <1>11, <1>12, <1>13, <1>14, <1>15, <1>16 DEF Next

(* A row differs from the snapshot only if a commit said so.               *)
LEMMA SnapshotsStep ==
    ASSUME MembershipAssumption, TypeOK, StagesOK, AbsentIsEmpty, SnapshotsOK, HasLooked, [Next]_vars
    PROVE  SnapshotsOK'
<1>a. asked \in [Calls -> Wishes \cup {None}] /\ at \in [Calls -> Stages]  BY DEF TypeOK
<1>r. role \in [Users -> Roles \cup {"none"}] /\ project \in States  BY DEF TypeOK
<1>v. view \in [Calls -> Views]  BY DEF TypeOK
<1>w. writes \in [Calls -> SUBSET Documents] /\ stale \in [Calls -> SUBSET Documents]  BY DEF TypeOK
<1>1. ASSUME NEW c \in Calls, NEW w \in Wishes, Authorize(c, w)  PROVE SnapshotsOK'
  BY <1>1, <1>a, <1>r, <1>w
  DEF SnapshotsOK, Open, Authorize, committed, transaction
<1>2. ASSUME NEW c \in Calls, CreateProjectWithOwner(c)  PROVE SnapshotsOK'
  BY <1>2, <1>a, <1>r, <1>w
  DEF SnapshotsOK, Open, CreateProjectWithOwner, Asked, Published, AbsentIsEmpty, StagesOK, Changes
<1>3. ASSUME NEW c \in Calls, InsertProjectMember(c)  PROVE SnapshotsOK'
  BY <1>3, <1>a, <1>r, <1>w
  DEF SnapshotsOK, Open, InsertProjectMember, Asked, Published
<1>4. ASSUME NEW c \in Calls, AlreadyMember(c)  PROVE SnapshotsOK'
  BY <1>4, <1>a, <1>r, <1>w
  DEF SnapshotsOK, Open, AlreadyMember, Asked, committed, transaction
<1>5. ASSUME NEW c \in Calls, LockProject(c)  PROVE SnapshotsOK'
  BY <1>5, <1>a, <1>r, <1>v, <1>w
  DEF SnapshotsOK, Open, LockProject, Changes, Snapshot, committed, AbsentIsEmpty, StagesOK, Rows, Wishes, States
<1>6. ASSUME NEW c \in Calls, FindMember(c)  PROVE SnapshotsOK'
  BY <1>6, <1>a, <1>r, <1>w
  DEF SnapshotsOK, Open, FindMember, Target, SameRole, Closed, transaction, committed
<1>7. ASSUME NEW c \in Calls, RefuseLastOwner(c)  PROVE SnapshotsOK'
  BY <1>7, <1>a, <1>r, <1>w
  DEF SnapshotsOK, Open, RefuseLastOwner, Closed, transaction, committed
<1>8. ASSUME NEW c \in Calls, ChangeMember(c)  PROVE SnapshotsOK'
  BY <1>8, <1>a, <1>r, <1>w
  DEF SnapshotsOK, Open, ChangeMember, Write, Conflict, committed
<1>9. ASSUME NEW c \in Calls, CommitChange(c)  PROVE SnapshotsOK'
  BY <1>9, <1>a, <1>r, <1>w
  DEF SnapshotsOK, Open, CommitChange, Changes, SameRole, Target, Closed, Published, StagesOK, HasLooked
<1>10. ASSUME NEW c \in Calls, DeleteKeys(c)  PROVE SnapshotsOK'
  BY <1>10, <1>a, <1>r, <1>v, <1>w
  DEF SnapshotsOK, Open, DeleteKeys, Asked, Snapshot, committed, AbsentIsEmpty, StagesOK, Rows, Wishes, States
<1>11. ASSUME NEW c \in Calls, DeleteMembers(c)  PROVE SnapshotsOK'
  BY <1>11, <1>a, <1>r, <1>w
  DEF SnapshotsOK, Open, DeleteMembers, Write, Conflict, committed
<1>12. ASSUME NEW c \in Calls, DeleteProjectDoc(c)  PROVE SnapshotsOK'
  BY <1>12, <1>a, <1>r, <1>w
  DEF SnapshotsOK, Open, DeleteProjectDoc, Write, Conflict, committed
<1>13. ASSUME NEW c \in Calls, CommitDelete(c)  PROVE SnapshotsOK'
  BY <1>13, <1>a, <1>r, <1>w
  DEF SnapshotsOK, Open, CommitDelete, Closed, Published
<1>14. ASSUME NEW c \in Calls, Retry(c)  PROVE SnapshotsOK'
  BY <1>14, <1>a, <1>r, <1>w
  DEF SnapshotsOK, Open, Retry, Closed, committed
<1>15. ASSUME NEW c \in Calls, GiveUp(c)  PROVE SnapshotsOK'
  BY <1>15, <1>a, <1>r, <1>w
  DEF SnapshotsOK, Open, GiveUp, Closed, committed
<1>16. CASE UNCHANGED vars
  BY <1>16, <1>a, <1>r, <1>w DEF SnapshotsOK, Open, vars
<1> QED BY <1>1, <1>2, <1>3, <1>4, <1>5, <1>6, <1>7, <1>8, <1>9, <1>10, <1>11, <1>12, <1>13, <1>14, <1>15, <1>16 DEF Next

(* A deletion that saw the project writes its document.                    *)
LEMMA DeletesStep ==
    ASSUME MembershipAssumption, TypeOK, StagesOK, DeletesOK, [Next]_vars
    PROVE  DeletesOK'
<1>a. asked \in [Calls -> Wishes \cup {None}] /\ at \in [Calls -> Stages]  BY DEF TypeOK
<1>r. role \in [Users -> Roles \cup {"none"}] /\ project \in States  BY DEF TypeOK
<1>v. view \in [Calls -> Views]  BY DEF TypeOK
<1>w. writes \in [Calls -> SUBSET Documents] /\ stale \in [Calls -> SUBSET Documents]  BY DEF TypeOK
<1>1. ASSUME NEW c \in Calls, NEW w \in Wishes, Authorize(c, w)  PROVE DeletesOK'
  BY <1>1, <1>a, <1>w
  DEF DeletesOK, Open, StagesOK, Authorize, committed, transaction
<1>2. ASSUME NEW c \in Calls, CreateProjectWithOwner(c)  PROVE DeletesOK'
  BY <1>2, <1>a, <1>w
  DEF DeletesOK, Open, StagesOK, CreateProjectWithOwner, Asked, Published
<1>3. ASSUME NEW c \in Calls, InsertProjectMember(c)  PROVE DeletesOK'
  BY <1>3, <1>a, <1>w
  DEF DeletesOK, Open, StagesOK, InsertProjectMember, Asked, Published
<1>4. ASSUME NEW c \in Calls, AlreadyMember(c)  PROVE DeletesOK'
  BY <1>4, <1>a, <1>w
  DEF DeletesOK, Open, StagesOK, AlreadyMember, Asked, committed, transaction
<1>5. ASSUME NEW c \in Calls, LockProject(c)  PROVE DeletesOK'
  BY <1>5, <1>a, <1>w, <1>v
  DEF DeletesOK, Open, StagesOK, LockProject, Changes, Snapshot, committed, Rows
<1>6. ASSUME NEW c \in Calls, FindMember(c)  PROVE DeletesOK'
  BY <1>6, <1>a, <1>w
  DEF DeletesOK, Open, StagesOK, FindMember, Target, SameRole, Closed, transaction, committed
<1>7. ASSUME NEW c \in Calls, RefuseLastOwner(c)  PROVE DeletesOK'
  BY <1>7, <1>a, <1>w
  DEF DeletesOK, Open, StagesOK, RefuseLastOwner, Closed, transaction, committed
<1>8. ASSUME NEW c \in Calls, ChangeMember(c)  PROVE DeletesOK'
  BY <1>8, <1>a, <1>w
  DEF DeletesOK, Open, StagesOK, ChangeMember, Write, Conflict, committed, Changes
<1>9. ASSUME NEW c \in Calls, CommitChange(c)  PROVE DeletesOK'
  BY <1>9, <1>a, <1>w
  DEF DeletesOK, Open, StagesOK, CommitChange, Changes, SameRole, Target, Closed, Published
<1>10. ASSUME NEW c \in Calls, DeleteKeys(c)  PROVE DeletesOK'
  BY <1>10, <1>a, <1>w, <1>v
  DEF DeletesOK, Open, StagesOK, DeleteKeys, Asked, Snapshot, committed, Rows
<1>11. ASSUME NEW c \in Calls, DeleteMembers(c)  PROVE DeletesOK'
  BY <1>11, <1>a, <1>w
  DEF DeletesOK, Open, StagesOK, DeleteMembers, Write, Conflict, committed, MembershipAssumption
<1>12. ASSUME NEW c \in Calls, DeleteProjectDoc(c)  PROVE DeletesOK'
  BY <1>12, <1>a, <1>w
  DEF DeletesOK, Open, StagesOK, DeleteProjectDoc, Write, Conflict, committed
<1>13. ASSUME NEW c \in Calls, CommitDelete(c)  PROVE DeletesOK'
  BY <1>13, <1>a, <1>w
  DEF DeletesOK, Open, StagesOK, CommitDelete, Closed, Published
<1>14. ASSUME NEW c \in Calls, Retry(c)  PROVE DeletesOK'
  BY <1>14, <1>a, <1>w
  DEF DeletesOK, Open, StagesOK, Retry, Closed, committed
<1>15. ASSUME NEW c \in Calls, GiveUp(c)  PROVE DeletesOK'
  BY <1>15, <1>a, <1>w
  DEF DeletesOK, Open, StagesOK, GiveUp, Closed, committed
<1>16. CASE UNCHANGED vars
  BY <1>16, <1>a, <1>w DEF DeletesOK, Open, StagesOK, vars
<1> QED BY <1>1, <1>2, <1>3, <1>4, <1>5, <1>6, <1>7, <1>8, <1>9, <1>10, <1>11, <1>12, <1>13, <1>14, <1>15, <1>16 DEF Next

(* More than one owner is an owner besides any of them.                    *)
LEMMA AnotherOwner ==
    ASSUME NEW S, NEW u \in S, ~(Cardinality(S) <= 1)
    PROVE  \E v \in S : v # u
<1>1. SUFFICES ASSUME \A v \in S : v = u  PROVE FALSE  OBVIOUS
<1>2. S = {u}  BY <1>1
<1>3. Cardinality(S) = 1  BY <1>2, FS_Singleton
<1> QED BY <1>3

(* Two transactions never change the members of one project at a time, and *)
(* none changes them beside a deletion that comes to its end.              *)
LEMMA OneAtATime ==
    ASSUME MembershipAssumption, TypeOK, StagesOK, Isolated, SnapshotsOK, DeletesOK,
           HoldsProject, project = "exists",
           NEW c \in Calls, at[c] = "written", NEW d \in Calls \ {c}, at[d] \in Open, Changes(d)
    PROVE  Changes(c) => FALSE
<1>1. SUFFICES ASSUME Changes(c)  PROVE FALSE  OBVIOUS
<1>2. ProjectDoc \in writes[c] /\ ProjectDoc \in writes[d]
  BY <1>1 DEF HoldsProject, Open
<1> QED BY <1>2 DEF Isolated

(* A deletion that is ready to commit beside a project that exists ends it. *)
LEMMA DeletionEnds ==
    ASSUME TypeOK, StagesOK, SnapshotsOK, DeletesOK, project = "exists",
           NEW c \in Calls, at[c] = "written", asked[c].op = "delete"
    PROVE  ProjectDoc \in writes[c]
<1>1. view[c].project \in States  BY DEF TypeOK, Views
<1>2. view[c].project = "exists"  BY <1>1 DEF SnapshotsOK, States, Open
<1> QED BY <1>2 DEF DeletesOK, Open

(* A row is changed by who has looked at it.                               *)
LEMMA LookedStep ==
    ASSUME MembershipAssumption, TypeOK, StagesOK, HasLooked, [Next]_vars
    PROVE  HasLooked'
<1>a. asked \in [Calls -> Wishes \cup {None}] /\ at \in [Calls -> Stages]  BY DEF TypeOK
<1>r. role \in [Users -> Roles \cup {"none"}] /\ project \in States  BY DEF TypeOK
<1>v. view \in [Calls -> Views]  BY DEF TypeOK
<1>w. writes \in [Calls -> SUBSET Documents] /\ stale \in [Calls -> SUBSET Documents]  BY DEF TypeOK
<1>1. ASSUME NEW c \in Calls, NEW w \in Wishes, Authorize(c, w)  PROVE HasLooked'
  BY <1>1, <1>a, <1>v, <1>w
  DEF HasLooked, Open, StagesOK, Changes, SameRole, Target, Authorize, committed, transaction
<1>2. ASSUME NEW c \in Calls, CreateProjectWithOwner(c)  PROVE HasLooked'
  BY <1>2, <1>a, <1>v, <1>w
  DEF HasLooked, Open, StagesOK, Changes, SameRole, Target, CreateProjectWithOwner, Asked, Published
<1>3. ASSUME NEW c \in Calls, InsertProjectMember(c)  PROVE HasLooked'
  BY <1>3, <1>a, <1>v, <1>w
  DEF HasLooked, Open, StagesOK, Changes, SameRole, Target, InsertProjectMember, Asked, Published
<1>4. ASSUME NEW c \in Calls, AlreadyMember(c)  PROVE HasLooked'
  BY <1>4, <1>a, <1>v, <1>w
  DEF HasLooked, Open, StagesOK, Changes, SameRole, Target, AlreadyMember, Asked, committed, transaction
<1>5. ASSUME NEW c \in Calls, LockProject(c)  PROVE HasLooked'
  BY <1>5, <1>a, <1>v, <1>w
  DEF HasLooked, Open, StagesOK, Changes, SameRole, Target, LockProject, Snapshot, committed, Rows
<1>6. ASSUME NEW c \in Calls, FindMember(c)  PROVE HasLooked'
  BY <1>6, <1>a, <1>v, <1>w
  DEF HasLooked, Open, StagesOK, Changes, SameRole, Target, FindMember, Closed, transaction, committed
<1>7. ASSUME NEW c \in Calls, RefuseLastOwner(c)  PROVE HasLooked'
  <2> DEFINE owners == {u \in Users : view[c].role[u] = "owner"}
  <2>0. UNCHANGED <<asked, view>> /\ \A d \in Calls \ {c} : at'[d] = at[d] /\ writes'[d] = writes[d]
    BY <1>7, <1>a, <1>w DEF RefuseLastOwner, Closed, transaction
  <2>1. CASE Cardinality(owners) <= 1
    <3>1. at'[c] = "failed"  BY <1>7, <2>1, <1>a DEF RefuseLastOwner
    <3> QED BY <2>0, <3>1 DEF HasLooked, Open, Changes, SameRole, Target
  <2>2. CASE ~(Cardinality(owners) <= 1)
    <3>1. at[c] = "counting" /\ at'[c] = "changing"  BY <1>7, <2>2, <1>a DEF RefuseLastOwner
    <3>2. ~SameRole(c) \/ ~Changes(c)  BY <3>1 DEF HasLooked, Open
    <3>3. asked[c].user \in Users  BY <3>1 DEF StagesOK, Wishes
    <3>4. Target(c) = "owner" => \E v \in Users \ {asked[c].user} : view[c].role[v] = "owner"
      BY <2>2, <3>3, AnotherOwner DEF Target
    <3> QED BY <2>0, <3>1, <3>2, <3>4 DEF HasLooked, Open, Changes, SameRole, Target
  <2> QED BY <2>1, <2>2
<1>8. ASSUME NEW c \in Calls, ChangeMember(c)  PROVE HasLooked'
  BY <1>8, <1>a, <1>v, <1>w
  DEF HasLooked, Open, StagesOK, Changes, SameRole, Target, ChangeMember, Write, Conflict, committed
<1>9. ASSUME NEW c \in Calls, CommitChange(c)  PROVE HasLooked'
  BY <1>9, <1>a, <1>v, <1>w
  DEF HasLooked, Open, StagesOK, Changes, SameRole, Target, CommitChange, Closed, Published
<1>10. ASSUME NEW c \in Calls, DeleteKeys(c)  PROVE HasLooked'
  BY <1>10, <1>a, <1>v, <1>w
  DEF HasLooked, Open, StagesOK, Changes, SameRole, Target, DeleteKeys, Asked, Snapshot, committed
<1>11. ASSUME NEW c \in Calls, DeleteMembers(c)  PROVE HasLooked'
  BY <1>11, <1>a, <1>v, <1>w
  DEF HasLooked, Open, StagesOK, Changes, SameRole, Target, DeleteMembers, Write, Conflict, committed
<1>12. ASSUME NEW c \in Calls, DeleteProjectDoc(c)  PROVE HasLooked'
  BY <1>12, <1>a, <1>v, <1>w
  DEF HasLooked, Open, StagesOK, Changes, SameRole, Target, DeleteProjectDoc, Write, Conflict, committed
<1>13. ASSUME NEW c \in Calls, CommitDelete(c)  PROVE HasLooked'
  BY <1>13, <1>a, <1>v, <1>w
  DEF HasLooked, Open, StagesOK, Changes, SameRole, Target, CommitDelete, Closed, Published
<1>14. ASSUME NEW c \in Calls, Retry(c)  PROVE HasLooked'
  BY <1>14, <1>a, <1>v, <1>w
  DEF HasLooked, Open, StagesOK, Changes, SameRole, Target, Retry, Closed, committed
<1>15. ASSUME NEW c \in Calls, GiveUp(c)  PROVE HasLooked'
  BY <1>15, <1>a, <1>v, <1>w
  DEF HasLooked, Open, StagesOK, Changes, SameRole, Target, GiveUp, Closed, committed
<1>16. CASE UNCHANGED vars
  BY <1>16, <1>a, <1>v, <1>w DEF HasLooked, Open, StagesOK, Changes, SameRole, Target, vars
<1> QED BY <1>1, <1>2, <1>3, <1>4, <1>5, <1>6, <1>7, <1>8, <1>9, <1>10, <1>11, <1>12, <1>13, <1>14, <1>15, <1>16 DEF Next

(* Nobody else takes an owner away meanwhile.                              *)
LEMMA HoldsStep ==
    ASSUME MembershipAssumption, TypeOK, StagesOK, AbsentIsEmpty, Isolated, SnapshotsOK, DeletesOK, HoldsProject, [Next]_vars
    PROVE  HoldsProject'
<1>a. asked \in [Calls -> Wishes \cup {None}] /\ at \in [Calls -> Stages]  BY DEF TypeOK
<1>r. role \in [Users -> Roles \cup {"none"}] /\ project \in States  BY DEF TypeOK
<1>v. view \in [Calls -> Views]  BY DEF TypeOK
<1>w. writes \in [Calls -> SUBSET Documents] /\ stale \in [Calls -> SUBSET Documents]  BY DEF TypeOK
<1>1. ASSUME NEW c \in Calls, NEW w \in Wishes, Authorize(c, w)  PROVE HoldsProject'
  BY <1>1, <1>a, <1>r, <1>v, <1>w
  DEF HoldsProject, Open, StagesOK, Changes, Authorize, committed, transaction
<1>2. ASSUME NEW c \in Calls, CreateProjectWithOwner(c)  PROVE HoldsProject'
  BY <1>2, <1>a, <1>r, <1>v, <1>w
  DEF HoldsProject, Open, StagesOK, Changes, CreateProjectWithOwner, Asked, Published, AbsentIsEmpty
<1>3. ASSUME NEW c \in Calls, InsertProjectMember(c)  PROVE HoldsProject'
  BY <1>3, <1>a, <1>r, <1>v, <1>w
  DEF HoldsProject, Open, StagesOK, Changes, InsertProjectMember, Asked, Published
<1>4. ASSUME NEW c \in Calls, AlreadyMember(c)  PROVE HoldsProject'
  BY <1>4, <1>a, <1>r, <1>v, <1>w
  DEF HoldsProject, Open, StagesOK, Changes, AlreadyMember, Asked, committed, transaction
<1>5. ASSUME NEW c \in Calls, LockProject(c)  PROVE HoldsProject'
  BY <1>5, <1>a, <1>r, <1>v, <1>w
  DEF HoldsProject, Open, StagesOK, Changes, LockProject, Snapshot, committed, Rows
<1>6. ASSUME NEW c \in Calls, FindMember(c)  PROVE HoldsProject'
  <2>0. /\ at[c] = "locked" /\ \A d \in Calls \ {c} : at'[d] = at[d] /\ writes'[d] = writes[d]
        /\ at'[c] = "failed" \/ UNCHANGED writes
    BY <1>6, <1>a, <1>w DEF FindMember, Closed, transaction
  <2>1. \A d \in Calls : at'[d] \in Open => at[d] \in Open /\ writes'[d] = writes[d]
    BY <2>0 DEF Open
  <2>2. UNCHANGED <<asked, view, project, role>>
    BY <1>6 DEF FindMember, Closed, transaction, committed
  <2> QED BY <2>1, <2>2 DEF HoldsProject, Changes
<1>7. ASSUME NEW c \in Calls, RefuseLastOwner(c)  PROVE HoldsProject'
  BY <1>7, <1>a, <1>r, <1>v, <1>w
  DEF HoldsProject, Open, StagesOK, Changes, RefuseLastOwner, Closed, transaction, committed
<1>8. ASSUME NEW c \in Calls, ChangeMember(c)  PROVE HoldsProject'
  BY <1>8, <1>a, <1>r, <1>v, <1>w
  DEF HoldsProject, Open, StagesOK, Changes, ChangeMember, Write, Conflict, committed
<1>9. ASSUME NEW c \in Calls, CommitChange(c)  PROVE HoldsProject'
  <2>1. \A d \in Calls : at'[d] \in Open => d # c /\ at[d] \in Open
    BY <1>9, <1>a DEF CommitChange, Open
  <2>2. UNCHANGED <<asked, project>> /\ at[c] = "written" /\ Changes(c)
    BY <1>9 DEF CommitChange
  <2> QED BY <2>1, <2>2, OneAtATime DEF HoldsProject, Changes
<1>10. ASSUME NEW c \in Calls, DeleteKeys(c)  PROVE HoldsProject'
  BY <1>10, <1>a, <1>r, <1>v, <1>w
  DEF HoldsProject, Open, StagesOK, Changes, DeleteKeys, Asked, Snapshot, committed
<1>11. ASSUME NEW c \in Calls, DeleteMembers(c)  PROVE HoldsProject'
  BY <1>11, <1>a, <1>r, <1>v, <1>w
  DEF HoldsProject, Open, StagesOK, Changes, DeleteMembers, Write, Conflict, committed
<1>12. ASSUME NEW c \in Calls, DeleteProjectDoc(c)  PROVE HoldsProject'
  BY <1>12, <1>a, <1>r, <1>v, <1>w
  DEF HoldsProject, Open, StagesOK, Changes, DeleteProjectDoc, Write, Conflict, committed
<1>13. ASSUME NEW c \in Calls, CommitDelete(c)  PROVE HoldsProject'
  <2>1. project' # "exists"
    BY <1>13, DeletionEnds DEF CommitDelete
  <2> QED BY <2>1 DEF HoldsProject
<1>14. ASSUME NEW c \in Calls, Retry(c)  PROVE HoldsProject'
  BY <1>14, <1>a, <1>r, <1>v, <1>w
  DEF HoldsProject, Open, StagesOK, Changes, Retry, Closed, committed
<1>15. ASSUME NEW c \in Calls, GiveUp(c)  PROVE HoldsProject'
  BY <1>15, <1>a, <1>r, <1>v, <1>w
  DEF HoldsProject, Open, StagesOK, Changes, GiveUp, Closed, committed
<1>16. CASE UNCHANGED vars
  BY <1>16, <1>a, <1>r, <1>v, <1>w DEF HoldsProject, Open, StagesOK, Changes, vars
<1> QED BY <1>1, <1>2, <1>3, <1>4, <1>5, <1>6, <1>7, <1>8, <1>9, <1>10, <1>11, <1>12, <1>13, <1>14, <1>15, <1>16 DEF Next

(* The last owner stays.                                                   *)
LEMMA OwnedStep ==
    ASSUME MembershipAssumption, TypeOK, StagesOK, AbsentIsEmpty, Isolated, SnapshotsOK, DeletesOK, HoldsProject, HasLooked, AlwaysOwned, [Next]_vars
    PROVE  AlwaysOwned'
<1>a. asked \in [Calls -> Wishes \cup {None}] /\ at \in [Calls -> Stages]  BY DEF TypeOK
<1>r. role \in [Users -> Roles \cup {"none"}] /\ project \in States  BY DEF TypeOK
<1>v. view \in [Calls -> Views]  BY DEF TypeOK
<1>w. writes \in [Calls -> SUBSET Documents] /\ stale \in [Calls -> SUBSET Documents]  BY DEF TypeOK
<1>1. ASSUME NEW c \in Calls, NEW w \in Wishes, Authorize(c, w)  PROVE AlwaysOwned'
  BY <1>1, <1>a, <1>r
  DEF AlwaysOwned, Authorize, committed, transaction
<1>2. ASSUME NEW c \in Calls, CreateProjectWithOwner(c)  PROVE AlwaysOwned'
  BY <1>2, <1>a, <1>r
  DEF AlwaysOwned, CreateProjectWithOwner, Asked, Published, StagesOK, Wishes
<1>3. ASSUME NEW c \in Calls, InsertProjectMember(c)  PROVE AlwaysOwned'
  BY <1>3, <1>a, <1>r
  DEF AlwaysOwned, InsertProjectMember, Asked, Published
<1>4. ASSUME NEW c \in Calls, AlreadyMember(c)  PROVE AlwaysOwned'
  BY <1>4, <1>a, <1>r
  DEF AlwaysOwned, AlreadyMember, Asked, committed, transaction
<1>5. ASSUME NEW c \in Calls, LockProject(c)  PROVE AlwaysOwned'
  BY <1>5, <1>a, <1>r
  DEF AlwaysOwned, LockProject, Changes, Snapshot, committed
<1>6. ASSUME NEW c \in Calls, FindMember(c)  PROVE AlwaysOwned'
  BY <1>6, <1>a, <1>r
  DEF AlwaysOwned, FindMember, Target, SameRole, Closed, transaction, committed
<1>7. ASSUME NEW c \in Calls, RefuseLastOwner(c)  PROVE AlwaysOwned'
  BY <1>7, <1>a, <1>r
  DEF AlwaysOwned, RefuseLastOwner, Closed, transaction, committed
<1>8. ASSUME NEW c \in Calls, ChangeMember(c)  PROVE AlwaysOwned'
  BY <1>8, <1>a, <1>r
  DEF AlwaysOwned, ChangeMember, Write, Conflict, committed
<1>9. ASSUME NEW c \in Calls, CommitChange(c)  PROVE AlwaysOwned'
  <2> DEFINE u == asked[c].user
  <2>1. /\ at[c] = "written" /\ Changes(c) /\ UNCHANGED project /\ u \in Users
        /\ \A v \in Users \ {u} : role'[v] = role[v]
        /\ SameRole(c) => role' = role
    BY <1>9, <1>r DEF CommitChange, StagesOK, Wishes
  <2>2. SUFFICES ASSUME project = "exists", ~SameRole(c), role[u] = "owner"
                 PROVE  AlwaysOwned'
    BY <2>1 DEF AlwaysOwned
  <2>3. Target(c) = "owner"
    <3>1. u \in writes[c]  BY <2>1, <2>2 DEF HasLooked, Open
    <3> QED BY <2>1, <2>2, <3>1 DEF Isolated, SnapshotsOK, Open, Target
  <2>4. PICK v \in Users \ {u} : view[c].role[v] = "owner"
    BY <2>1, <2>2, <2>3 DEF HasLooked, Open
  <2>5. role[v] = "owner"  BY <2>1, <2>2, <2>4 DEF HoldsProject, Open
  <2> QED BY <2>1, <2>5 DEF AlwaysOwned
<1>10. ASSUME NEW c \in Calls, DeleteKeys(c)  PROVE AlwaysOwned'
  BY <1>10, <1>a, <1>r
  DEF AlwaysOwned, DeleteKeys, Asked, Snapshot, committed
<1>11. ASSUME NEW c \in Calls, DeleteMembers(c)  PROVE AlwaysOwned'
  BY <1>11, <1>a, <1>r
  DEF AlwaysOwned, DeleteMembers, Write, Conflict, committed
<1>12. ASSUME NEW c \in Calls, DeleteProjectDoc(c)  PROVE AlwaysOwned'
  BY <1>12, <1>a, <1>r
  DEF AlwaysOwned, DeleteProjectDoc, Write, Conflict, committed
<1>13. ASSUME NEW c \in Calls, CommitDelete(c)  PROVE AlwaysOwned'
  <2>1. project' # "exists"
    BY <1>13, DeletionEnds DEF CommitDelete
  <2> QED BY <2>1 DEF AlwaysOwned
<1>14. ASSUME NEW c \in Calls, Retry(c)  PROVE AlwaysOwned'
  BY <1>14, <1>a, <1>r
  DEF AlwaysOwned, Retry, Closed, committed
<1>15. ASSUME NEW c \in Calls, GiveUp(c)  PROVE AlwaysOwned'
  BY <1>15, <1>a, <1>r
  DEF AlwaysOwned, GiveUp, Closed, committed
<1>16. CASE UNCHANGED vars
  BY <1>16, <1>a, <1>r DEF AlwaysOwned, vars
<1> QED BY <1>1, <1>2, <1>3, <1>4, <1>5, <1>6, <1>7, <1>8, <1>9, <1>10, <1>11, <1>12, <1>13, <1>14, <1>15, <1>16 DEF Next

(* The initial state satisfies the invariant.                              *)
LEMMA InitIInv == ASSUME MembershipAssumption, Init  PROVE IInv
<1>1. NoRows \in Views  BY DEF NoRows, Rows, Views, States
<1>2. TypeOK  BY <1>1 DEF Init, TypeOK, States, Stages
<1>3. \A c \in Calls : at[c] = "idle" /\ writes[c] = {}  BY DEF Init
<1>4. StagesOK /\ AbsentIsEmpty /\ Isolated  BY <1>3 DEF Init, StagesOK, AbsentIsEmpty, Isolated
<1>5. SnapshotsOK /\ HoldsProject /\ HasLooked /\ DeletesOK
  BY <1>3 DEF SnapshotsOK, HoldsProject, HasLooked, DeletesOK, Open
<1>6. AlwaysOwned  BY DEF Init, AlwaysOwned
<1> QED BY <1>2, <1>4, <1>5, <1>6 DEF IInv

(* Every step keeps the invariant.                                         *)
LEMMA StepIInv == ASSUME MembershipAssumption, IInv, [Next]_vars  PROVE IInv'
<1> USE DEF IInv
<1>1. TypeOK' /\ StagesOK' /\ AbsentIsEmpty'  BY TypeStep, StagesStep, AbsentStep
<1>2. Isolated' /\ SnapshotsOK' /\ DeletesOK'  BY IsolatedStep, SnapshotsStep, DeletesStep
<1>3. HasLooked' /\ HoldsProject' /\ AlwaysOwned'  BY LookedStep, HoldsStep, OwnedStep
<1> QED BY <1>1, <1>2, <1>3

(* The inductive invariant of the members of a project.                    *)
THEOREM MembershipInvariant == Spec => []IInv
<1>1. Init => IInv  BY InitIInv, MembershipAssumption
<1>2. IInv /\ [Next]_vars => IInv'  BY StepIInv, MembershipAssumption
<1> QED BY <1>1, <1>2, PTL DEF Spec

(* Every variable keeps its type.                                          *)
THEOREM TypeCorrect == Spec => []TypeOK
<1>1. IInv => TypeOK  BY DEF IInv
<1> QED BY <1>1, MembershipInvariant, PTL

(* A project that exists has an owner, whatever the number of users and of *)
(* calls at the same time.                                                 *)
THEOREM ProjectKeepsOwner == Spec => []AlwaysOwned
<1>1. IInv => AlwaysOwned  BY DEF IInv
<1> QED BY <1>1, MembershipInvariant, PTL

-----------------------------------------------------------------------------
(* The transactions implement OwnedProject.                                *)

(* A call asks once. *)
AskedOnce == \A c \in Calls : at[c] = "idle" <=> asked[c] = None

(* Who changes the members of a project that exists finds every row its    *)
(* snapshot has as the snapshot has it.                                    *)
RowsHeld ==
    \A c \in Calls : at[c] \in Open /\ Changes(c) /\ project = "exists" =>
        \A u \in Users : view[c].role[u] # "none" => role[u] = view[c].role[u]

(* Who is past FindMember has found the row.                               *)
Found ==
    \A c \in Calls : at[c] \in {"counting", "changing", "written"} /\ Changes(c) =>
        Target(c) # "none"

(* A call has no snapshot before it asks.                                  *)
Unopened == \A c \in Calls : at[c] = "idle" => view[c].project = "absent"

(* A deletion writes the row of every member its snapshot has.             *)
Cleared ==
    \A c \in Calls :
        /\ at[c] = "clearing" => writes[c] = {}
        /\ at[c] \in {"cleared", "written"} /\ asked[c].op = "delete" =>
             writes[c] \cap Users = MembersFound(c)

(* Every step keeps AskedOnce: only Authorize leaves the idle stage.       *)
LEMMA AskedStep ==
    ASSUME MembershipAssumption, IInv, AskedOnce, [Next]_vars  PROVE AskedOnce'
<1>a. asked \in [Calls -> Wishes \cup {None}] /\ at \in [Calls -> Stages]  BY DEF IInv, TypeOK
<1>1. ASSUME NEW c \in Calls, NEW s \in Stages \ {"idle"}, at[c] # "idle",
             at' = [at EXCEPT ![c] = s], UNCHANGED asked
      PROVE  AskedOnce'
  BY <1>1, <1>a DEF AskedOnce
<1>2. ASSUME NEW c \in Calls, NEW w \in Wishes, Authorize(c, w)  PROVE AskedOnce'
  BY <1>2, <1>a DEF AskedOnce, Authorize, MembershipAssumption
<1>3. ASSUME NEW c \in Calls,
             \/ CreateProjectWithOwner(c) \/ InsertProjectMember(c) \/ AlreadyMember(c)
             \/ LockProject(c) \/ FindMember(c) \/ RefuseLastOwner(c)
             \/ ChangeMember(c) \/ CommitChange(c)
             \/ DeleteKeys(c) \/ DeleteMembers(c) \/ DeleteProjectDoc(c) \/ CommitDelete(c)
             \/ Retry(c) \/ GiveUp(c)
      PROVE  /\ at[c] # "idle" /\ UNCHANGED asked
             /\ \E s \in Stages \ {"idle"} : at' = [at EXCEPT ![c] = s]
  BY <1>3 DEF CreateProjectWithOwner, InsertProjectMember, AlreadyMember, LockProject, FindMember,
     RefuseLastOwner, ChangeMember, CommitChange, DeleteKeys, DeleteMembers, DeleteProjectDoc,
     CommitDelete, Retry, GiveUp, Asked, Open, Stages
<1>4. CASE UNCHANGED vars  BY <1>4 DEF AskedOnce, vars
<1> QED BY <1>1, <1>2, <1>3, <1>4 DEF Next

(* Nobody else changes a row meanwhile.                                    *)
LEMMA RowsStep ==
    ASSUME MembershipAssumption, IInv, RowsHeld, [Next]_vars
    PROVE  RowsHeld'
<1> USE DEF IInv
<1>a. asked \in [Calls -> Wishes \cup {None}] /\ at \in [Calls -> Stages]  BY DEF TypeOK
<1>r. role \in [Users -> Roles \cup {"none"}] /\ project \in States  BY DEF TypeOK
<1>v. view \in [Calls -> Views]  BY DEF TypeOK
<1>w. writes \in [Calls -> SUBSET Documents] /\ stale \in [Calls -> SUBSET Documents]  BY DEF TypeOK
<1>1. ASSUME NEW c \in Calls, NEW w \in Wishes, Authorize(c, w)  PROVE RowsHeld'
  BY <1>1, <1>a, <1>r, <1>v, <1>w
  DEF RowsHeld, Open, StagesOK, Changes, Authorize, committed, transaction
<1>2. ASSUME NEW c \in Calls, CreateProjectWithOwner(c)  PROVE RowsHeld'
  BY <1>2, <1>a, <1>r, <1>v, <1>w
  DEF RowsHeld, Open, StagesOK, Changes, CreateProjectWithOwner, Asked, Published, AbsentIsEmpty
<1>3. ASSUME NEW c \in Calls, InsertProjectMember(c)  PROVE RowsHeld'
  BY <1>3, <1>a, <1>r, <1>v, <1>w
  DEF RowsHeld, Open, StagesOK, Changes, InsertProjectMember, Asked, Published
<1>4. ASSUME NEW c \in Calls, AlreadyMember(c)  PROVE RowsHeld'
  BY <1>4, <1>a, <1>r, <1>v, <1>w
  DEF RowsHeld, Open, StagesOK, Changes, AlreadyMember, Asked, committed, transaction
<1>5. ASSUME NEW c \in Calls, LockProject(c)  PROVE RowsHeld'
  BY <1>5, <1>a, <1>r, <1>v, <1>w
  DEF RowsHeld, Open, StagesOK, Changes, LockProject, Snapshot, committed, Rows
<1>6. ASSUME NEW c \in Calls, FindMember(c)  PROVE RowsHeld'
  <2>0. /\ at[c] = "locked" /\ \A d \in Calls \ {c} : at'[d] = at[d] /\ writes'[d] = writes[d]
        /\ at'[c] = "failed" \/ UNCHANGED writes
    BY <1>6, <1>a, <1>w DEF FindMember, Closed, transaction
  <2>1. \A d \in Calls : at'[d] \in Open => at[d] \in Open /\ writes'[d] = writes[d]
    BY <2>0 DEF Open
  <2>2. UNCHANGED <<asked, view, project, role>>
    BY <1>6 DEF FindMember, Closed, transaction, committed
  <2> QED BY <2>1, <2>2 DEF RowsHeld, Changes
<1>7. ASSUME NEW c \in Calls, RefuseLastOwner(c)  PROVE RowsHeld'
  BY <1>7, <1>a, <1>r, <1>v, <1>w
  DEF RowsHeld, Open, StagesOK, Changes, RefuseLastOwner, Closed, transaction, committed
<1>8. ASSUME NEW c \in Calls, ChangeMember(c)  PROVE RowsHeld'
  BY <1>8, <1>a, <1>r, <1>v, <1>w
  DEF RowsHeld, Open, StagesOK, Changes, ChangeMember, Write, Conflict, committed
<1>9. ASSUME NEW c \in Calls, CommitChange(c)  PROVE RowsHeld'
  <2>1. \A d \in Calls : at'[d] \in Open => d # c /\ at[d] \in Open
    BY <1>9, <1>a DEF CommitChange, Open
  <2>2. UNCHANGED <<asked, project>> /\ at[c] = "written" /\ Changes(c)
    BY <1>9 DEF CommitChange
  <2> QED BY <2>1, <2>2, OneAtATime DEF RowsHeld, Changes
<1>10. ASSUME NEW c \in Calls, DeleteKeys(c)  PROVE RowsHeld'
  BY <1>10, <1>a, <1>r, <1>v, <1>w
  DEF RowsHeld, Open, StagesOK, Changes, DeleteKeys, Asked, Snapshot, committed
<1>11. ASSUME NEW c \in Calls, DeleteMembers(c)  PROVE RowsHeld'
  BY <1>11, <1>a, <1>r, <1>v, <1>w
  DEF RowsHeld, Open, StagesOK, Changes, DeleteMembers, Write, Conflict, committed
<1>12. ASSUME NEW c \in Calls, DeleteProjectDoc(c)  PROVE RowsHeld'
  BY <1>12, <1>a, <1>r, <1>v, <1>w
  DEF RowsHeld, Open, StagesOK, Changes, DeleteProjectDoc, Write, Conflict, committed
<1>13. ASSUME NEW c \in Calls, CommitDelete(c)  PROVE RowsHeld'
  <2>1. project' # "exists"
    BY <1>13, DeletionEnds DEF CommitDelete
  <2> QED BY <2>1 DEF RowsHeld
<1>14. ASSUME NEW c \in Calls, Retry(c)  PROVE RowsHeld'
  BY <1>14, <1>a, <1>r, <1>v, <1>w
  DEF RowsHeld, Open, StagesOK, Changes, Retry, Closed, committed
<1>15. ASSUME NEW c \in Calls, GiveUp(c)  PROVE RowsHeld'
  BY <1>15, <1>a, <1>r, <1>v, <1>w
  DEF RowsHeld, Open, StagesOK, Changes, GiveUp, Closed, committed
<1>16. CASE UNCHANGED vars
  BY <1>16, <1>a, <1>r, <1>v, <1>w DEF RowsHeld, Open, StagesOK, Changes, vars
<1> QED BY <1>1, <1>2, <1>3, <1>4, <1>5, <1>6, <1>7, <1>8, <1>9, <1>10, <1>11, <1>12, <1>13, <1>14, <1>15, <1>16 DEF Next

(* A row is looked for before it is changed.                               *)
LEMMA FoundStep ==
    ASSUME MembershipAssumption, IInv, Found, [Next]_vars
    PROVE  Found'
<1> USE DEF IInv
<1>a. asked \in [Calls -> Wishes \cup {None}] /\ at \in [Calls -> Stages]  BY DEF TypeOK
<1>r. role \in [Users -> Roles \cup {"none"}] /\ project \in States  BY DEF TypeOK
<1>v. view \in [Calls -> Views]  BY DEF TypeOK
<1>w. writes \in [Calls -> SUBSET Documents] /\ stale \in [Calls -> SUBSET Documents]  BY DEF TypeOK
<1>1. ASSUME NEW c \in Calls, NEW w \in Wishes, Authorize(c, w)  PROVE Found'
  BY <1>1, <1>a, <1>v, <1>w
  DEF Found, Open, StagesOK, Changes, SameRole, Target, Authorize, committed, transaction
<1>2. ASSUME NEW c \in Calls, CreateProjectWithOwner(c)  PROVE Found'
  BY <1>2, <1>a, <1>v, <1>w
  DEF Found, Open, StagesOK, Changes, SameRole, Target, CreateProjectWithOwner, Asked, Published
<1>3. ASSUME NEW c \in Calls, InsertProjectMember(c)  PROVE Found'
  BY <1>3, <1>a, <1>v, <1>w
  DEF Found, Open, StagesOK, Changes, SameRole, Target, InsertProjectMember, Asked, Published
<1>4. ASSUME NEW c \in Calls, AlreadyMember(c)  PROVE Found'
  BY <1>4, <1>a, <1>v, <1>w
  DEF Found, Open, StagesOK, Changes, SameRole, Target, AlreadyMember, Asked, committed, transaction
<1>5. ASSUME NEW c \in Calls, LockProject(c)  PROVE Found'
  BY <1>5, <1>a, <1>v, <1>w
  DEF Found, Open, StagesOK, Changes, SameRole, Target, LockProject, Snapshot, committed, Rows
<1>6. ASSUME NEW c \in Calls, FindMember(c)  PROVE Found'
  BY <1>6, <1>a, <1>v, <1>w
  DEF Found, Open, StagesOK, Changes, SameRole, Target, Wishes, Roles, FindMember, Closed, transaction, committed
<1>7. ASSUME NEW c \in Calls, RefuseLastOwner(c)  PROVE Found'
  <2>1. /\ UNCHANGED <<asked, view>> /\ at[c] = "counting" /\ at'[c] \in {"failed", "changing"}
        /\ \A d \in Calls \ {c} : at'[d] = at[d]
    BY <1>7, <1>a DEF RefuseLastOwner, Closed, transaction
  <2> QED BY <2>1 DEF Found, Changes, Target
<1>8. ASSUME NEW c \in Calls, ChangeMember(c)  PROVE Found'
  BY <1>8, <1>a, <1>v, <1>w
  DEF Found, Open, StagesOK, Changes, SameRole, Target, ChangeMember, Write, Conflict, committed
<1>9. ASSUME NEW c \in Calls, CommitChange(c)  PROVE Found'
  BY <1>9, <1>a, <1>v, <1>w
  DEF Found, Open, StagesOK, Changes, SameRole, Target, CommitChange, Closed, Published
<1>10. ASSUME NEW c \in Calls, DeleteKeys(c)  PROVE Found'
  BY <1>10, <1>a, <1>v, <1>w
  DEF Found, Open, StagesOK, Changes, SameRole, Target, DeleteKeys, Asked, Snapshot, committed
<1>11. ASSUME NEW c \in Calls, DeleteMembers(c)  PROVE Found'
  BY <1>11, <1>a, <1>v, <1>w
  DEF Found, Open, StagesOK, Changes, SameRole, Target, DeleteMembers, Write, Conflict, committed
<1>12. ASSUME NEW c \in Calls, DeleteProjectDoc(c)  PROVE Found'
  BY <1>12, <1>a, <1>v, <1>w
  DEF Found, Open, StagesOK, Changes, SameRole, Target, DeleteProjectDoc, Write, Conflict, committed
<1>13. ASSUME NEW c \in Calls, CommitDelete(c)  PROVE Found'
  BY <1>13, <1>a, <1>v, <1>w
  DEF Found, Open, StagesOK, Changes, SameRole, Target, CommitDelete, Closed, Published
<1>14. ASSUME NEW c \in Calls, Retry(c)  PROVE Found'
  BY <1>14, <1>a, <1>v, <1>w
  DEF Found, Open, StagesOK, Changes, SameRole, Target, Retry, Closed, committed
<1>15. ASSUME NEW c \in Calls, GiveUp(c)  PROVE Found'
  BY <1>15, <1>a, <1>v, <1>w
  DEF Found, Open, StagesOK, Changes, SameRole, Target, GiveUp, Closed, committed
<1>16. CASE UNCHANGED vars
  BY <1>16, <1>a, <1>v, <1>w DEF Found, Open, StagesOK, Changes, SameRole, Target, vars
<1> QED BY <1>1, <1>2, <1>3, <1>4, <1>5, <1>6, <1>7, <1>8, <1>9, <1>10, <1>11, <1>12, <1>13, <1>14, <1>15, <1>16 DEF Next

(* Only what LockProject and DeleteKeys open has a snapshot.               *)
LEMMA UnopenedStep ==
    ASSUME MembershipAssumption, IInv, Unopened, [Next]_vars  PROVE Unopened'
<1>a. at \in [Calls -> Stages] /\ view \in [Calls -> Views]  BY DEF IInv, TypeOK
<1>1. ASSUME NEW c \in Calls, NEW s \in Stages \ {"idle"}, at' = [at EXCEPT ![c] = s],
             \A d \in Calls \ {c} : view'[d] = view[d]
      PROVE  Unopened'
  BY <1>1, <1>a DEF Unopened
<1>2. ASSUME NEW c \in Calls,
             \/ \E w \in Wishes : Authorize(c, w)
             \/ CreateProjectWithOwner(c) \/ InsertProjectMember(c) \/ AlreadyMember(c)
             \/ LockProject(c) \/ FindMember(c) \/ RefuseLastOwner(c)
             \/ ChangeMember(c) \/ CommitChange(c)
             \/ DeleteKeys(c) \/ DeleteMembers(c) \/ DeleteProjectDoc(c) \/ CommitDelete(c)
             \/ Retry(c) \/ GiveUp(c)
      PROVE  /\ \E s \in Stages \ {"idle"} : at' = [at EXCEPT ![c] = s]
             /\ \A d \in Calls \ {c} : view'[d] = view[d]
  BY <1>2, <1>a DEF Authorize, CreateProjectWithOwner, InsertProjectMember, AlreadyMember,
     LockProject, FindMember, RefuseLastOwner, ChangeMember, CommitChange, DeleteKeys,
     DeleteMembers, DeleteProjectDoc, CommitDelete, Retry, GiveUp, Asked, Open, Stages,
     Snapshot, Write, Closed, transaction
<1>3. CASE UNCHANGED vars  BY <1>3 DEF Unopened, vars
<1> QED BY <1>1, <1>2, <1>3 DEF Next

(* Only DeleteMembers writes rows in a deletion.                           *)
LEMMA ClearedStep ==
    ASSUME MembershipAssumption, IInv, Cleared, [Next]_vars  PROVE Cleared'
<1> USE DEF IInv
<1>a. asked \in [Calls -> Wishes \cup {None}] /\ at \in [Calls -> Stages]  BY DEF TypeOK
<1>v. view \in [Calls -> Views]  BY DEF TypeOK
<1>w. writes \in [Calls -> SUBSET Documents]  BY DEF TypeOK
<1>1. ASSUME NEW c \in Calls, NEW s, at' = [at EXCEPT ![c] = s],
             s \notin {"clearing", "cleared", "written"} \/ (s = "written" /\ Changes(c)),
             \A d \in Calls \ {c} :
               asked'[d] = asked[d] /\ view'[d] = view[d] /\ writes'[d] = writes[d],
             s = "written" => asked'[c] = asked[c]
      PROVE  Cleared'
  <2>1. ASSUME NEW d \in Calls, d # c
        PROVE  /\ at'[d] = "clearing" => writes'[d] = {}
               /\ at'[d] \in {"cleared", "written"} /\ asked'[d].op = "delete" =>
                    writes'[d] \cap Users = MembersFound(d)'
    BY <1>1, <1>a, <2>1 DEF Cleared, MembersFound
  <2>2. /\ at'[c] = s /\ s \notin {"clearing", "cleared"}
        /\ s = "written" => asked'[c].op # "delete"
    BY <1>1, <1>a DEF Changes
  <2> QED BY <2>1, <2>2 DEF Cleared
<1>2. ASSUME NEW c \in Calls,
             \/ \E w \in Wishes : Authorize(c, w)
             \/ CreateProjectWithOwner(c) \/ InsertProjectMember(c) \/ AlreadyMember(c)
      PROVE  Cleared'
  <2>1. /\ \E s \in {"asked", "ok", "failed"} : at' = [at EXCEPT ![c] = s]
        /\ UNCHANGED <<view, writes>> /\ \A d \in Calls \ {c} : asked'[d] = asked[d]
    BY <1>2, <1>a DEF Authorize, CreateProjectWithOwner, InsertProjectMember, AlreadyMember, transaction
  <2> QED BY <1>1, <2>1
<1>3. ASSUME NEW c \in Calls,
             LockProject(c) \/ RefuseLastOwner(c) \/ CommitChange(c) \/ CommitDelete(c)
             \/ Retry(c) \/ GiveUp(c)
      PROVE  Cleared'
  <2>1. /\ \E s \in {"locked", "changing", "asked", "ok", "failed"} : at' = [at EXCEPT ![c] = s]
        /\ UNCHANGED asked
        /\ \A d \in Calls \ {c} : view'[d] = view[d] /\ writes'[d] = writes[d]
    BY <1>3, <1>v, <1>w DEF LockProject, RefuseLastOwner, CommitChange, CommitDelete, Retry, GiveUp,
       Snapshot, Closed, transaction
  <2> QED BY <1>1, <2>1
<1>4. ASSUME NEW c \in Calls, FindMember(c)  PROVE Cleared'
  <2>1. /\ Changes(c) /\ UNCHANGED <<asked, view>>
        /\ \E s \in {"failed", "written", "counting", "changing"} : at' = [at EXCEPT ![c] = s]
        /\ \A d \in Calls \ {c} : writes'[d] = writes[d]
    BY <1>4, <1>w DEF FindMember, StagesOK, Closed, transaction
  <2> QED BY <1>1, <2>1
<1>5. ASSUME NEW c \in Calls, ChangeMember(c)  PROVE Cleared'
  <2>1. /\ Changes(c) /\ UNCHANGED <<asked, view>> /\ at' = [at EXCEPT ![c] = "written"]
        /\ \A d \in Calls \ {c} : writes'[d] = writes[d]
    BY <1>5, <1>w DEF ChangeMember, StagesOK, Write
  <2> QED BY <1>1, <2>1
<1>6. ASSUME NEW c \in Calls, DeleteKeys(c)  PROVE Cleared'
  BY <1>6, <1>a, <1>v, <1>w DEF Cleared, DeleteKeys, Snapshot, MembersFound
<1>7. ASSUME NEW c \in Calls, DeleteMembers(c)  PROVE Cleared'
  BY <1>7, <1>a, <1>w DEF Cleared, DeleteMembers, Write, MembersFound
<1>8. ASSUME NEW c \in Calls, DeleteProjectDoc(c)  PROVE Cleared'
  <2>1. /\ at[c] = "cleared" /\ asked[c].op = "delete" /\ at' = [at EXCEPT ![c] = "written"]
        /\ UNCHANGED <<asked, view>> /\ writes'[c] \cap Users = writes[c] \cap Users
        /\ \A d \in Calls \ {c} : writes'[d] = writes[d]
    BY <1>8, <1>w DEF DeleteProjectDoc, Write, StagesOK, MembershipAssumption
  <2> QED BY <2>1, <1>a DEF Cleared, MembersFound
<1>9. CASE UNCHANGED vars  BY <1>9 DEF Cleared, MembersFound, vars
<1> QED BY <1>2, <1>3, <1>4, <1>5, <1>6, <1>7, <1>8, <1>9 DEF Next

(* What a deletion has seen is its snapshot's.                             *)
LEMMA SightingsKept ==
    ASSUME UNCHANGED <<asked, view>>  PROVE Sightings' = Sightings
BY DEF Sightings, Opened, MembersFound

(* A step of a call changes no answer but its own. *)
LEMMA Answering ==
    ASSUME TypeOK, NEW c \in Calls, NEW s, at' = [at EXCEPT ![c] = s]
    PROVE  Answers' = [Answers EXCEPT ![c] = IF s \in {"ok", "failed"} THEN s ELSE "none"]
<1>1. at \in [Calls -> Stages]  BY DEF TypeOK
<1> QED BY <1>1 DEF Answers

(* A call that gives up is refused. *)
LEMMA Refuses ==
    ASSUME IInv, AskedOnce, NEW c \in Calls, at[c] \notin {"idle", "ok", "failed"},
           at' = [at EXCEPT ![c] = "failed"], UNCHANGED <<committed, asked, view>>
    PROVE  Promise!Refuse(c)
<1>1. Answers' = [Answers EXCEPT ![c] = "failed"]  BY Answering DEF IInv
<1>2. Answers[c] = "none" /\ asked[c] # None  BY DEF Answers, AskedOnce
<1>3. Sightings' = Sightings  BY SightingsKept
<1> QED BY <1>1, <1>2, <1>3 DEF Promise!Refuse, Promise!Waiting, Answers, committed

(* What a transaction does before it commits, nobody sees. *)
LEMMA Unseen ==
    ASSUME IInv, NEW c \in Calls, NEW s, s \notin {"ok", "failed"},
           at[c] \notin {"ok", "failed"}, at' = [at EXCEPT ![c] = s], UNCHANGED <<committed, asked>>,
           Sightings' = Sightings
    PROVE  UNCHANGED Promise!vars
<1>1. Answers' = [Answers EXCEPT ![c] = "none"]  BY Answering DEF IInv
<1>2. Answers' = Answers  BY <1>1 DEF Answers
<1> QED BY <1>2 DEF Promise!vars, Answers, committed

(* What a call commits takes effect at once. *)
LEMMA Does ==
    ASSUME IInv, AskedOnce, NEW c \in Calls, at[c] \notin {"idle", "ok", "failed"},
           \E a \in {"ok", "failed"} : at' = [at EXCEPT ![c] = a],
           UNCHANGED <<asked, view>>, Promise!Effect(c)
    PROVE  Promise!Do(c)
<1>1. PICK a \in {"ok", "failed"} : at' = [at EXCEPT ![c] = a]  OBVIOUS
<1>2. Answers' = [Answers EXCEPT ![c] = a]  BY <1>1, Answering DEF IInv
<1>3. Answers[c] = "none" /\ asked[c] # None  BY DEF Answers, AskedOnce
<1>4. Sightings' = Sightings  BY SightingsKept
<1> QED BY <1>2, <1>3, <1>4 DEF Promise!Do, Promise!Waiting, Answers

(* The commit of a change is OwnedProject's, on the members of that moment: *)
(* the row is as the snapshot has it, and so is the other owner.           *)
LEMMA ChangeCommits ==
    ASSUME MembershipAssumption, IInv, RowsHeld, Found, NEW c \in Calls, CommitChange(c)
    PROVE  Promise!Effect(c)
<1> DEFINE w == asked[c]
           u == asked[c].user
<1>1. /\ at[c] = "written" /\ at[c] \in Open /\ w \in Wishes /\ w.op \in {"remove", "role"}
      /\ u \in Users /\ project' = project /\ role \in [Users -> Roles \cup {"none"}]
      /\ view[c] \in Views
  BY DEF CommitChange, IInv, StagesOK, Changes, Open, Wishes, TypeOK
<1>2. project \in {"exists", "deleted"}
  BY <1>1 DEF IInv, TypeOK, States, AbsentIsEmpty
<1>3. w.role \in Roles \cup {"none"} /\ (w.op = "role" => w.role \in Roles)
      /\ (w.op = "remove" => w.role = "none")
  BY <1>1 DEF Wishes, Roles
<1>4. CASE SameRole(c)
  <2>1. w.op = "role" /\ UNCHANGED role /\ Target(c) = w.role
    BY <1>4 DEF CommitChange, SameRole
  <2>2. CASE project = "deleted"
    <3>1. Promise!Confirm(w)  BY <1>1, <2>1, <2>2 DEF Promise!Confirm
    <3> QED BY <2>1, <3>1 DEF Promise!Effect
  <2>3. CASE project = "exists"
    <3>1. Target(c) = role[u]  BY <1>1, <2>3 DEF RowsHeld, Found, Target, CommitChange
    <3>2. Promise!Change(w)
      <4>1. role' = [role EXCEPT ![u] = w.role]  BY <1>1, <2>1, <3>1
      <4> QED BY <1>1, <1>3, <2>1, <3>1, <4>1 DEF Promise!Change, Roles
    <3> QED BY <2>1, <3>2 DEF Promise!Effect
  <2> QED BY <1>2, <2>2, <2>3
<1>5. CASE ~ SameRole(c)
  <2>1. role' = [role EXCEPT ![u] = w.role] /\ u \in writes[c]
    BY <1>1, <1>5 DEF CommitChange, IInv, HasLooked
  <2>2. Target(c) = role[u]
    BY <1>1, <2>1 DEF IInv, Isolated, SnapshotsOK, Target
  <2>3. role[u] # "none"
    BY <1>1, <2>2 DEF Found, CommitChange
  <2>4. Promise!MayLose(u)
    <3>1. ASSUME role[u] = "owner", project = "exists"
          PROVE  \E v \in Users \ {u} : role[v] = "owner"
      <4>1. PICK v \in Users \ {u} : view[c].role[v] = "owner"
        BY <1>1, <1>5, <2>2, <3>1 DEF IInv, HasLooked, CommitChange
      <4>2. role[v] = "owner"  BY <1>1, <3>1, <4>1 DEF IInv, HoldsProject, CommitChange
      <4> QED BY <4>2
    <3> QED BY <3>1 DEF Promise!MayLose, Promise!OwnedWithout
  <2>5. Promise!Change(w)
    BY <1>1, <2>1, <2>3, <2>4 DEF Promise!Change
  <2> QED BY <1>1, <2>5 DEF Promise!Effect
<1> QED BY <1>4, <1>5

(* The project and its first owner appear at once.                         *)
LEMMA CreationTakesEffect ==
    ASSUME MembershipAssumption, IInv, NEW c \in Calls, CreateProjectWithOwner(c)
    PROVE  Promise!Effect(c)
<1>1. asked[c] \in Wishes /\ asked[c].op = "create"
  BY DEF CreateProjectWithOwner, Asked, IInv, StagesOK
<1>2. asked[c].role = "owner"  BY <1>1 DEF Wishes
<1>3. Promise!Create(asked[c])  BY <1>2 DEF CreateProjectWithOwner, Promise!Create
<1> QED BY <1>1, <1>3 DEF Promise!Effect

(* An added member has no row at the moment of the insert.                 *)
LEMMA InsertTakesEffect ==
    ASSUME MembershipAssumption, IInv, NEW c \in Calls, InsertProjectMember(c)
    PROVE  Promise!Effect(c)
<1>1. asked[c].op = "add"  BY DEF InsertProjectMember, Asked
<1>2. Promise!Add(asked[c])  BY DEF InsertProjectMember, Promise!Add
<1> QED BY <1>1, <1>2 DEF Promise!Effect

(* A deletion that takes its snapshot looks for the members.               *)
LEMMA DeletionLooks ==
    ASSUME MembershipAssumption, IInv, AskedOnce, NEW c \in Calls, DeleteKeys(c)
    PROVE  Promise!Look(c)
<1>1. /\ at[c] = "asked" /\ asked[c].op = "delete" /\ at' = [at EXCEPT ![c] = "clearing"]
      /\ view' = [view EXCEPT ![c] = Rows(project, role)]
      /\ UNCHANGED <<project, role, asked>>
  BY DEF DeleteKeys, Asked, Snapshot, committed
<1>2. Answers' = Answers
  <2>1. Answers' = [Answers EXCEPT ![c] = "none"]  BY <1>1, Answering DEF IInv
  <2> QED BY <1>1, <2>1 DEF Answers
<1>3. Promise!Waiting(c)  BY <1>1 DEF Promise!Waiting, Answers, AskedOnce
<1>4. view \in [Calls -> Views]  BY DEF IInv, TypeOK
<1>5. Opened(c)' /\ MembersFound(c)' = Promise!Members
  <2>1. view'[c] = Rows(project, role) /\ project # "absent"
    BY <1>1, <1>4 DEF IInv, AbsentIsEmpty
  <2>2. asked[c] # None  BY <1>1 DEF AskedOnce
  <2> QED BY <1>1, <2>1, <2>2 DEF Opened, MembersFound, Promise!Members, Rows
<1>6. \A d \in Calls \ {c} : Opened(d)' = Opened(d) /\ MembersFound(d)' = MembersFound(d)
  BY <1>1, <1>4 DEF Opened, MembersFound
<1>7. Sightings' = [Sightings EXCEPT ![c] = {Promise!Members}]
  BY <1>5, <1>6 DEF Sightings
<1> QED BY <1>1, <1>2, <1>3, <1>7 DEF Promise!Look

(* The project and every member the deletion found disappear at once.      *)
LEMMA DeletionCommits ==
    ASSUME MembershipAssumption, IInv, AskedOnce, Cleared, NEW c \in Calls, CommitDelete(c)
    PROVE  Promise!Effect(c)
<1>1. at[c] = "written" /\ at[c] \in Open /\ asked[c].op = "delete"
  BY DEF CommitDelete, Open
<1>2. project \in {"exists", "deleted"}
  BY <1>1 DEF IInv, TypeOK, States, AbsentIsEmpty
<1>3. project' = "deleted"
  BY <1>1, <1>2, DeletionEnds DEF IInv, CommitDelete
<1>4. Opened(c)  BY <1>1 DEF Opened, AskedOnce, IInv, SnapshotsOK
<1>5. Sightings[c] = {MembersFound(c)}  BY <1>4 DEF Sightings
<1>6. writes[c] \cap Users = MembersFound(c)  BY <1>1 DEF Cleared
<1>7. role' = [u \in Users |-> IF u \in MembersFound(c) THEN "none" ELSE role[u]]
  BY <1>6 DEF CommitDelete
<1>8. Promise!Delete(c)
  BY <1>2, <1>3, <1>5, <1>7 DEF Promise!Delete
<1> QED BY <1>1, <1>8 DEF Promise!Effect

(* What the refinement needs beside the invariant.                         *)
Atomic == IInv /\ AskedOnce /\ RowsHeld /\ Found /\ Unopened /\ Cleared

(* It holds initially, and every step keeps it.                            *)
LEMMA InitAtomic == ASSUME MembershipAssumption, Init  PROVE Atomic
<1>1. \A c \in Calls : at[c] = "idle" /\ asked[c] = None /\ view[c].project = "absent"
  BY DEF Init, NoRows, Rows
<1> QED BY <1>1, InitIInv DEF Atomic, AskedOnce, RowsHeld, Found, Open, Unopened, Cleared

(* Every step keeps what the refinement needs.                             *)
LEMMA StepAtomic == ASSUME MembershipAssumption, Atomic, [Next]_vars  PROVE Atomic'
BY StepIInv, AskedStep, RowsStep, FoundStep, UnopenedStep, ClearedStep DEF Atomic

(* Every step is one of OwnedProject, or unseen by it.                     *)
LEMMA StepRefines ==
    ASSUME MembershipAssumption, Atomic, [Next]_vars
    PROVE  [Promise!Next]_(Promise!vars)
<1> USE DEF Atomic
<1>a. at \in [Calls -> Stages] /\ asked \in [Calls -> Wishes \cup {None}]  BY DEF IInv, TypeOK
<1>w. Wishes = Promise!Wishes
  BY DEF Wishes, Roles, Promise!Wishes, Promise!Roles
<1>d. ASSUME NEW c \in Calls, Promise!Look(c) \/ Promise!Do(c) \/ Promise!Refuse(c)
      PROVE  Promise!Next
  BY <1>d DEF Promise!Next
<1>u. ASSUME UNCHANGED Promise!vars  PROVE [Promise!Next]_(Promise!vars)
  BY <1>u
<1>1. ASSUME NEW c \in Calls, NEW w \in Wishes, Authorize(c, w)  PROVE Promise!Next
  <2>1. Answers' = [Answers EXCEPT ![c] = "none"]
    BY <1>1, Answering DEF Authorize, IInv
  <2>2. Answers' = Answers  BY <1>1, <2>1 DEF Answers, Authorize
  <2>3. Sightings' = Sightings
    <3>1. \A d \in Calls \ {c} : asked'[d] = asked[d]
      BY <1>1, <1>a DEF Authorize
    <3>2. view' = view /\ view[c].project = "absent"
      BY <1>1 DEF Authorize, Unopened, transaction
    <3> QED BY <3>1, <3>2 DEF Sightings, Opened, MembersFound
  <2>4. Promise!Ask(c, w)
    BY <1>1, <2>2, <2>3 DEF Promise!Ask, Authorize, AskedOnce, Answers, committed
  <2> QED BY <1>w, <2>4 DEF Promise!Next
<1>2. ASSUME NEW c \in Calls, CreateProjectWithOwner(c)  PROVE Promise!Next
  BY <1>2, <1>d, CreationTakesEffect, Does DEF CreateProjectWithOwner, Asked
<1>3. ASSUME NEW c \in Calls, InsertProjectMember(c)  PROVE Promise!Next
  BY <1>3, <1>d, InsertTakesEffect, Does DEF InsertProjectMember, Asked
<1>4. ASSUME NEW c \in Calls, AlreadyMember(c)  PROVE Promise!Next
  BY <1>4, <1>d, Refuses DEF AlreadyMember, Asked, transaction
<1>5. ASSUME NEW c \in Calls, LockProject(c)  PROVE [Promise!Next]_(Promise!vars)
  <2>1. Sightings' = Sightings
    <3>1. /\ UNCHANGED asked /\ asked[c].op # "delete"
          /\ \A d \in Calls \ {c} : view'[d] = view[d]
      BY <1>5 DEF LockProject, Snapshot, Changes, IInv, TypeOK
    <3> QED BY <3>1 DEF Sightings, Opened, MembersFound
  <2> QED BY <1>5, <1>u, <2>1, Unseen DEF LockProject
<1>6. ASSUME NEW c \in Calls, FindMember(c)  PROVE [Promise!Next]_(Promise!vars)
  <2>0. at[c] = "locked" /\ UNCHANGED <<committed, asked, view>>
    BY <1>6 DEF FindMember, Closed, transaction
  <2>1. CASE at' = [at EXCEPT ![c] = "failed"]  BY <1>d, <2>0, <2>1, Refuses
  <2>2. CASE \E s \in {"written", "counting", "changing"} : at' = [at EXCEPT ![c] = s]
    BY <1>u, <2>0, <2>2, Unseen, SightingsKept
  <2> QED BY <1>6, <2>1, <2>2 DEF FindMember
<1>7. ASSUME NEW c \in Calls, RefuseLastOwner(c)  PROVE [Promise!Next]_(Promise!vars)
  <2>0. at[c] = "counting" /\ UNCHANGED <<committed, asked, view>>
    BY <1>7 DEF RefuseLastOwner, Closed, transaction
  <2>1. CASE at' = [at EXCEPT ![c] = "failed"]  BY <1>d, <2>0, <2>1, Refuses
  <2>2. CASE at' = [at EXCEPT ![c] = "changing"]  BY <1>u, <2>0, <2>2, Unseen, SightingsKept
  <2> QED BY <1>7, <2>1, <2>2 DEF RefuseLastOwner
<1>8. ASSUME NEW c \in Calls, ChangeMember(c)  PROVE [Promise!Next]_(Promise!vars)
  BY <1>8, <1>u, Unseen, SightingsKept DEF ChangeMember, Write
<1>9. ASSUME NEW c \in Calls, CommitChange(c)  PROVE Promise!Next
  BY <1>9, <1>d, ChangeCommits, Does DEF CommitChange, Closed
<1>10. ASSUME NEW c \in Calls, DeleteKeys(c)  PROVE Promise!Next
  BY <1>10, <1>d, DeletionLooks
<1>11. ASSUME NEW c \in Calls, DeleteMembers(c)  PROVE [Promise!Next]_(Promise!vars)
  BY <1>11, <1>u, Unseen, SightingsKept DEF DeleteMembers, Write
<1>12. ASSUME NEW c \in Calls, DeleteProjectDoc(c)  PROVE [Promise!Next]_(Promise!vars)
  BY <1>12, <1>u, Unseen, SightingsKept DEF DeleteProjectDoc, Write
<1>13. ASSUME NEW c \in Calls, CommitDelete(c)  PROVE Promise!Next
  BY <1>13, <1>d, DeletionCommits, Does DEF CommitDelete, Closed
<1>14. ASSUME NEW c \in Calls, Retry(c)  PROVE [Promise!Next]_(Promise!vars)
  BY <1>14, <1>u, Unseen, SightingsKept DEF Retry, Open, Closed
<1>15. ASSUME NEW c \in Calls, GiveUp(c)  PROVE Promise!Next
  BY <1>15, <1>d, Refuses DEF GiveUp, Open, Closed
<1>16. CASE UNCHANGED vars
  <2>1. UNCHANGED Promise!vars  BY <1>16, SightingsKept DEF vars, Promise!vars, Answers
  <2> QED BY <2>1, <1>u
<1> QED BY <1>1, <1>2, <1>3, <1>4, <1>5, <1>6, <1>7, <1>8, <1>9, <1>10, <1>11, <1>12, <1>13, <1>14, <1>15, <1>16 DEF Next

(* Each call takes effect at one moment or not at all, however its         *)
(* transaction's operations mix with those of the others: the transactions *)
(* implement OwnedProject (changeMembers, DeleteProject, InsertProjectMember). *)
THEOREM TransactionsAreAtomic == Spec => ActsAtomically
<1>1. Init => Promise!Init
  BY DEF Init, Promise!Init, Answers, Sightings, Opened
<1>2. Init => Atomic  BY InitAtomic, MembershipAssumption
<1>3. Atomic /\ [Next]_vars => Atomic'  BY StepAtomic, MembershipAssumption
<1>4. Atomic /\ [Next]_vars => [Promise!Next]_(Promise!vars)  BY StepRefines, MembershipAssumption
<1> QED BY <1>1, <1>2, <1>3, <1>4, PTL DEF Spec, ActsAtomically, Promise!Spec
=============================================================================
