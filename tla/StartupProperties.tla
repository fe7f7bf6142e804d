------------------------- MODULE StartupProperties -------------------------
(* What the startup of the logger has to achieve, and what it may not break. *)
EXTENDS Startup

(* A pass that reported success has left nothing to do, whatever another     *)
(* logger and the users did beside it: no string, no orphan, no index of an  *)
(* earlier build, no login that is not normalized, and a Default project     *)
(* that someone can open (runStartup: ready).                              *)
ReadyIsDone ==
  \A l \in Loggers : ready[l] =>
    /\ index = {"settings", "default"} /\ ~ ttl /\ ~ slugIndex
    /\ Under("string", Docs) = {} /\ Under("none", Docs) = {}
    /\ \A p \in Projects, u \in Users : role[p][u]["other"] = "none"
    /\ Cardinality(flagged) < 2
    /\ Owners # {} /\ (\A k \in Loggers : ready[k]) => \A p \in flagged : IsOwned(p)

(* No step of a migration takes a role away, whatever the spelling it was    *)
(* held under, and it gives one only to a configured owner, in the Default   *)
(* project (NormalizeMemberLogins, ensureOwners).                          *)
RolesKept ==
  [][changes' = changes =>
       \A p \in Projects, u \in Users :
         LET before == Rank[Highest(role[p][u])]
             after == Rank[Highest(role'[p][u])]
         IN  /\ after >= before
             /\ after > before => u \in Owners /\ \E l \in Loggers : held[l] = p]_vars

ExpiresEarly(x) ==
  IsThere(x) /\ filed'[x] = Absent /\ ~ Outlived(Age[x], wanted[x])

(* Two settings filed under one id: what there may be while the unique       *)
(* index could not be built.                                               *)
Doubled(p) == \E s, t \in Settings : s # t /\ filed[s] = Id(p) /\ filed[t] = Id(p)

(* The retention a project has chosen, before or after the migration, holds  *)
(* from the first pass of the cleanup on. Only the logs of a Default project *)
(* that has no setting of its own may go early: the one that was kept with   *)
(* them has yet to follow, or has followed into another (onConverted).       *)
ChosenRetentionHolds ==
  [][\A x \in Logs : ExpiresEarly(x) =>
       LET p == filed[x].project
       IN  Doubled(p) \/ (p \in flagged /\ \A s \in Settings : filed[s] # Id(p))]_vars

(* Two documents that no pass can bring together: the setting of the Default *)
(* project and the one it would adopt, two settings or two Default projects  *)
(* of which there may be one.                                              *)
Collision ==
  \/ Duplicates \/ Cardinality(flagged) > 1
  \/ Under("none", Settings) # {} /\ \E s \in Settings, p \in flagged : filed[s] = Id(p)

(* A pass succeeds in the end, after any failures, unless two documents      *)
(* collide (runStartup's retries).                                         *)
ReadyInTheEnd == \A l \in Loggers : <>(ready[l] \/ Collision)
=============================================================================
