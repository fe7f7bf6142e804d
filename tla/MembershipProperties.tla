------------------------ MODULE MembershipProperties ------------------------
(* What the membership calls must not do to a project.                     *)
EXTENDS Membership

Stages == {"idle", "asked", "locked", "counting", "changing", "clearing", "cleared",
           "written", "ok", "failed"}
States == {"absent", "exists", "deleted"}
Views == [project : States, role : [Users -> Roles \cup {"none"}]]

(* Every variable has its type.                                            *)
TypeOK ==
    /\ project \in States
    /\ role \in [Users -> Roles \cup {"none"}]
    /\ asked \in [Calls -> Wishes \cup {None}]
    /\ at \in [Calls -> Stages]
    /\ view \in [Calls -> Views]
    /\ writes \in [Calls -> SUBSET Documents]
    /\ stale \in [Calls -> SUBSET Documents]

(* A project that exists has an owner, whatever removals, demotions,       *)
(* additions and deletions run at the same time: only an owner can add     *)
(* members, so a project without one is out of reach for good              *)
(* (changeMembers, CreateProjectWithOwner).                                *)
AlwaysOwned == project = "exists" => \E u \in Users : role[u] = "owner"

Answers == [c \in Calls |-> IF at[c] \in {"ok", "failed"} THEN at[c] ELSE "none"]

(* A snapshot is first taken of a project that is there, or was.           *)
Opened(c) == asked[c] # None /\ asked[c].op = "delete" /\ view[c].project # "absent"
MembersFound(c) == {u \in Users : view[c].role[u] # "none"}

Sightings == [c \in Calls |-> IF Opened(c) THEN {MembersFound(c)} ELSE {}]

Promise == INSTANCE OwnedProject WITH answer <- Answers, seen <- Sightings

(* Each call takes effect at one moment, on the members of that moment, or *)
(* not at all, and the deletion leaves no member behind that it found in   *)
(* the project when its transaction began, whoever was added, removed or   *)
(* given another role meanwhile (changeMembers, DeleteProject).            *)
ActsAtomically == Promise!Spec
=============================================================================
