---------------------------- MODULE OwnedProject ----------------------------
(***************************************************************************)
(* What the membership calls of a project promise: each takes effect at    *)
(* once, on the members there are at that moment, or not at all, and none  *)
(* takes the last owner from a project that exists.  A deletion looks for  *)
(* the members first, and takes every one it found away with the project.  *)
(***************************************************************************)
CONSTANTS Users, Calls, None

VARIABLES
    project,    \* "absent", "exists" or "deleted"
    role,       \* of each user: "none", "member" or "owner"
    asked,      \* what each call asks for
    answer,     \* of each call: "none" yet, "ok" or "failed"
    seen        \* of each deletion: the one set of members it found when it
                \* last looked, none when it has not

vars == <<project, role, asked, answer, seen>>

Roles == {"member", "owner"}
Wishes == [op : {"create"}, user : Users, role : {"owner"}]
          \cup [op : {"add", "role"}, user : Users, role : Roles]
          \cup [op : {"remove", "delete"}, user : Users, role : {"none"}]

Init == /\ project = "absent" /\ role = [u \in Users |-> "none"]
        /\ asked = [c \in Calls |-> None] /\ answer = [c \in Calls |-> "none"]
        /\ seen = [c \in Calls |-> {}]

Ask(c, w) == /\ asked[c] = None
             /\ asked' = [asked EXCEPT ![c] = w]
             /\ UNCHANGED <<project, role, answer, seen>>

(* Somebody but u owns the project.                                        *)
OwnedWithout(u) == \E v \in Users \ {u} : role[v] = "owner"
MayLose(u) == role[u] = "owner" /\ project = "exists" => OwnedWithout(u)

Create(w) == /\ project = "absent"
             /\ project' = "exists"
             /\ role' = [role EXCEPT ![w.user] = w.role]

Add(w) == /\ role[w.user] = "none"
          /\ role' = [role EXCEPT ![w.user] = w.role]
          /\ UNCHANGED project

(* Removes a member or gives one another role.                             *)
Change(w) == /\ role[w.user] # "none"
             /\ w.role # role[w.user] => MayLose(w.user)
             /\ role' = [role EXCEPT ![w.user] = w.role]
             /\ UNCHANGED project

(* Nobody looks after the members of a project that is gone: a role may be  *)
(* confirmed there that has just been taken away.                          *)
Confirm(w) == project # "exists" /\ UNCHANGED <<project, role>>

Waiting(c) == asked[c] # None /\ answer[c] = "none"
Members == {u \in Users : role[u] # "none"}

(* The last look is the one that counts.                                   *)
Look(c) == /\ Waiting(c) /\ asked[c].op = "delete"
           /\ seen' = [seen EXCEPT ![c] = {Members}]
           /\ UNCHANGED <<project, role, asked, answer>>

(* Nobody it found stays.  A member added since it looked does.            *)
Delete(c) == /\ project # "absent"
             /\ project' = "deleted"
             /\ \E found \in seen[c] :
                  role' = [u \in Users |-> IF u \in found THEN "none" ELSE role[u]]

Effect(c) == LET w == asked[c] IN
             CASE w.op = "create" -> Create(w)
               [] w.op = "add" -> Add(w)
               [] w.op = "remove" -> Change(w)
               [] w.op = "role" -> Change(w) \/ Confirm(w)
               [] w.op = "delete" -> Delete(c)

(* The answer may be lost after the change is made.                        *)
Do(c) == /\ Waiting(c)
         /\ Effect(c)
         /\ \E a \in {"ok", "failed"} : answer' = [answer EXCEPT ![c] = a]
         /\ UNCHANGED <<asked, seen>>

Refuse(c) == /\ Waiting(c)
             /\ answer' = [answer EXCEPT ![c] = "failed"]
             /\ UNCHANGED <<project, role, asked, seen>>

Next == \E c \in Calls :
    (\E w \in Wishes : Ask(c, w)) \/ Look(c) \/ Do(c) \/ Refuse(c)

Spec == Init /\ [][Next]_vars
=============================================================================
