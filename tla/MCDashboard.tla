---------------------------- MODULE MCDashboard ----------------------------
(* Instances of Dashboard for TLC.                                         *)
EXTENDS DashboardProperties, TLC

CONSTANTS t1, t2, p1, p2, bob, eve, acme

(* bob may sign in because of his org, eve may not. *)
MembersOfAcme == (bob :> {acme}) @@ [u \in Users |-> {}]
NothingPublic == [u \in Users |-> {}]
OneOrg == <<acme>>

(* bob owns p1, and is a member of p2 or p2 is not there yet.              *)
OwnerOfOne ==
  {(bob :> (p1 :> "owner" @@ p2 :> r)) @@ [u \in Users |-> [p \in Projects |-> "none"]] :
     r \in {"none", "member"}}

SomePages == {At("keys"), Settings(p1)}
MorePages ==
  {At("dashboard"), At("events"), [route |-> "event", id |-> p1], At("newEvent"), At("forward"), At("projects")}

TabSymmetry == Permutations(Tabs)
=============================================================================
