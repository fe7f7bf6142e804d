------------------------- MODULE MCProjectSettings -------------------------
(* Instances of ProjectSettings for TLC.                                   *)
EXTENDS ProjectSettingsProperties, TLC

CONSTANTS ada, bob, eve, mia, old, new, r1, r2, acme, corp

(* ada sees the members of both orgs, bob only those of acme; eve is in corp *)
(* and mia in none.                                                        *)
MembersOfOrgs ==
  (ada :> {acme, corp}) @@ (bob :> {acme}) @@ (eve :> {corp}) @@ [u \in Users |-> {}]
NothingPublic == [u \in Users |-> {}]
BothOrgs == <<acme, corp>>

OwnerAndAnother ==
  {(ada :> "owner") @@ (bob :> r) @@ [u \in Users |-> "none"] : r \in {"member", "owner"}}

RequestSymmetry == Permutations(Requests)
=============================================================================
