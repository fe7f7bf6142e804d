------------------------------ MODULE Startup ------------------------------
(***************************************************************************)
(* What the logger does to the database before it serves, and again in the *)
(* background until a pass succeeds: the indexes, then the migration of    *)
(* what earlier builds left (logger/cmd/api/startup.go and migrate.go,     *)
(* toolbox/data/migrate.go). Other loggers do the same; the dashboard's    *)
(* users change projects as soon as one serves; and the retention cleanup  *)
(* deletes logs as soon as a pass has converted every project_id.          *)
(*                                                                         *)
(* An action is one operation of MongoDB. A step that fails is recorded    *)
(* and the pass goes on where the code goes on.                            *)
(***************************************************************************)
EXTENDS Naturals, FiniteSets

CONSTANTS
  Loggers,
  Projects,
  Users,
  Owners,      \* defaultProjectOwners
  Logs, Keys, Settings,  \* documents of logs, api_keys and settings
  Age,         \* Age[x]: how many days old a log is
  Durations,   \* days of retention; 0 is forever
  Legacies,    \* databases that earlier builds have left
  None,
  MaxFaults,   \* bound on failures of MongoDB, timeouts and crashes
  MaxChanges   \* bound on what users do

defaultRetentionDays == 90

Docs == Logs \cup Keys \cup Settings
Rank == [none |-> 0, member |-> 1, owner |-> 2]
Roles == DOMAIN Rank
Spellings == {"normalized", "other"}

(* Where a document is filed: under no project, under the hex string of an  *)
(* id, or under the id; or it does not exist.                              *)
Slots == [form : {"none", "string", "id", "absent"}, project : Projects \cup {None}]
Orphan == [form |-> "none", project |-> None]
Absent == [form |-> "absent", project |-> None]
Hex(p) == [form |-> "string", project |-> p]
Id(p) == [form |-> "id", project |-> p]

(* A database that an earlier build has left: a document is filed under a    *)
(* project or under none, and a project has one setting.                   *)
IsDatabase(db) ==
  /\ db.slugged \subseteq db.projects /\ db.projects \subseteq Projects
  /\ db.filed \in [Docs -> Slots] /\ db.days \in [Settings -> Durations]
  /\ \A d \in Docs :
       db.filed[d] \in {Orphan, Absent} \cup [form : {"string", "id"}, project : Projects]
  /\ \A s, t \in Settings :
       db.filed[s].project # None /\ db.filed[s].project = db.filed[t].project => s = t
  /\ db.role \in [Projects -> [Users -> [Spellings -> Roles]]]
  /\ db.index \subseteq {"settings"} /\ db.ttl \in BOOLEAN /\ db.slugIndex \in BOOLEAN

ASSUME StartupAssumption ==
  /\ None \notin Projects /\ IsFiniteSet(Projects)
  /\ Owners \subseteq Users
  /\ Logs \cap Settings = {} /\ Keys \cap (Logs \cup Settings) = {}
  /\ Age \in [Logs -> Nat] /\ Durations \subseteq Nat
  /\ \A db \in Legacies : IsDatabase(db)
  /\ MaxFaults \in Nat /\ MaxChanges \in Nat

VARIABLES
  projects, unborn,  \* those there are, and ids not used yet
  flagged,           \* projects with the Default flag
  slugged,           \* projects whose slug is "default"
  filed, days,       \* where each document is filed, and each setting's value
  role,              \* project_members, by spelling of the login
  index,             \* which of unique_project_key and unique_default there are
  ttl, slugIndex,    \* the indexes of earlier builds: ttl_created_at, unique_slug
  at,                \* where each logger's pass is
  failed, converted, \* what the pass has to report so far
  held,              \* the Default project as the pass has read it
  todo,              \* memberships it has still to merge or to add
  serving, ready, cleanup,  \* startupState, and whether runCleanup runs
  wanted,            \* retention chosen for what is in each log's project (history)
  faults, changes

store == <<projects, unborn, flagged, slugged, filed, days, role, index, ttl, slugIndex, wanted>>
report == <<failed, converted>>
state == <<serving, ready, cleanup>>
bounds == <<faults, changes>>
vars == <<store, at, report, held, todo, state, bounds>>

Steps == {"indexSettings", "indexDefault", "dropTTL", "convert", "look", "flag", "drop",
          "normalize", "merge", "count", "get", "insert", "adoptLogs", "adoptKeys",
          "adoptSettings", "owners", "repair", "countOwners", "promote", "end"}

TypeOK ==
  /\ projects \in SUBSET Projects /\ unborn \in SUBSET Projects
  /\ flagged \in SUBSET Projects /\ slugged \in SUBSET Projects
  /\ filed \in [Docs -> Slots] /\ days \in [Settings -> Durations]
  /\ role \in [Projects -> [Users -> [Spellings -> Roles]]]
  /\ index \in SUBSET {"settings", "default"}
  /\ ttl \in BOOLEAN /\ slugIndex \in BOOLEAN
  /\ at \in [Loggers -> Steps \cup {"down", "waiting", "done"}]
  /\ failed \in [Loggers -> BOOLEAN] /\ converted \in [Loggers -> BOOLEAN]
  /\ held \in [Loggers -> Projects \cup {None}]
  /\ todo \in [Loggers -> SUBSET (Projects \X Users)]
  /\ serving \in [Loggers -> BOOLEAN] /\ ready \in [Loggers -> BOOLEAN]
  /\ cleanup \in [Loggers -> BOOLEAN]
  /\ wanted \in [Logs -> Durations \cup {defaultRetentionDays}]
  /\ faults \in Nat /\ changes \in Nat

(* What is wanted for the logs of p: what p has chosen, if it has. A setting *)
(* under the id stands for one under the string.                           *)
Under(form, docs) == {d \in docs : filed[d].form = form}
Chosen(p, else) ==
  LET all == {s \in Settings : filed[s].form # "absent" /\ filed[s].project = p}
      set == IF Under("id", all) = {} THEN all ELSE Under("id", all)
  IN  IF set = {} THEN else ELSE days[CHOOSE s \in set : TRUE]

Init ==
  /\ \E db \in Legacies :
       /\ projects = db.projects /\ unborn = Projects \ db.projects
       /\ slugged = db.slugged /\ flagged = {}
       /\ filed = db.filed /\ days = db.days /\ role = db.role
       /\ index = db.index /\ ttl = db.ttl /\ slugIndex = db.slugIndex
  /\ wanted = [x \in Logs |-> Chosen(filed[x].project, defaultRetentionDays)]
  /\ at = [l \in Loggers |-> "down"]
  /\ failed = [l \in Loggers |-> FALSE] /\ converted = [l \in Loggers |-> FALSE]
  /\ held = [l \in Loggers |-> None] /\ todo = [l \in Loggers |-> {}]
  /\ serving = [l \in Loggers |-> FALSE] /\ ready = [l \in Loggers |-> FALSE]
  /\ cleanup = [l \in Loggers |-> FALSE]
  /\ faults = 0 /\ changes = 0

Goes(l, from, to) == at[l] = from /\ at' = [at EXCEPT ![l] = to]
Records(l) == failed' = [failed EXCEPT ![l] = TRUE]

-----------------------------------------------------------------------------
(* ensureIndexes: the two whose uniqueness the migration relies on. MongoDB *)
(* refuses a unique index over documents that collide.                     *)

IsThere(d) == filed[d].form # "absent"
Duplicates == \E s, t \in Settings : s # t /\ IsThere(s) /\ filed[s] = filed[t]

(* Mutant: no pass after the first.                                        *)
StartPassOnce(l) ==
  /\ at[l] = "down"
  /\ at' = [at EXCEPT ![l] = "indexSettings"]
  /\ failed' = [failed EXCEPT ![l] = FALSE] /\ converted' = [converted EXCEPT ![l] = FALSE]
  /\ UNCHANGED <<store, held, todo, state, bounds>>

(* The first pass, or the next one when the back-off is over.               *)
StartPass(l) ==
  /\ at[l] \in {"down", "waiting"}
  /\ at' = [at EXCEPT ![l] = "indexSettings"]
  /\ failed' = [failed EXCEPT ![l] = FALSE] /\ converted' = [converted EXCEPT ![l] = FALSE]
  /\ UNCHANGED <<store, held, todo, state, bounds>>

EnsureSettingsIndex(l) ==
  /\ Goes(l, "indexSettings", "indexDefault")
  /\ IF Duplicates THEN Records(l) /\ UNCHANGED index
     ELSE index' = index \cup {"settings"} /\ UNCHANGED failed
  /\ UNCHANGED <<projects, unborn, flagged, slugged, filed, days, role, ttl, slugIndex, wanted,
                 converted, held, todo, state, bounds>>

EnsureProjectIndexes(l) ==
  /\ Goes(l, "indexDefault", "dropTTL")
  /\ IF Cardinality(flagged) > 1 THEN Records(l) /\ UNCHANGED index
     ELSE index' = index \cup {"default"} /\ UNCHANGED failed
  /\ UNCHANGED <<projects, unborn, flagged, slugged, filed, days, role, ttl, slugIndex, wanted,
                 converted, held, todo, state, bounds>>

-----------------------------------------------------------------------------
(* runStartupMigration.                                                    *)

DropLegacyTTLIndex(l) ==
  /\ Goes(l, "dropTTL", "convert")
  /\ ttl' = FALSE
  /\ UNCHANGED <<projects, unborn, flagged, slugged, filed, days, role, index, slugIndex, wanted,
                 report, held, todo, state, bounds>>

(* The collections are converted one after the other.                      *)
Unconverted ==
  IF Under("string", Logs) # {} THEN Under("string", Logs)
  ELSE IF Under("string", Keys) # {} THEN Under("string", Keys)
  ELSE Under("string", Settings)

(* Filing d under p would be refused by unique_project_key.                 *)
Collides(d, p) ==
  d \in Settings /\ "settings" \in index /\ \E s \in Settings \ {d} : filed[s] = Id(p)

(* convertProjectIDBatch: a setting that a newer one stands for is dropped. *)
ConvertProjectIDs(l) ==
  /\ at[l] = "convert"
  /\ \E d \in Unconverted :
       LET p == filed[d].project
       IN  filed' = [filed EXCEPT ![d] = IF Collides(d, p) THEN Absent ELSE Id(p)]
  /\ UNCHANGED <<projects, unborn, flagged, slugged, days, role, index, ttl, slugIndex, wanted,
                 at, report, held, todo, state, bounds>>

ConversionDone(l) ==
  /\ Goes(l, "convert", "look")
  /\ Unconverted = {}
  /\ converted' = [converted EXCEPT ![l] = TRUE]
  /\ UNCHANGED <<store, failed, held, todo, state, bounds>>

(* MarkDefaultProject, in three operations.                                *)
LookForSlugIndex(l) ==
  /\ at[l] = "look"
  /\ at' = [at EXCEPT ![l] = IF slugIndex THEN "flag" ELSE "normalize"]
  /\ UNCHANGED <<store, report, held, todo, state, bounds>>

FlagDefault(l) ==
  /\ at[l] = "flag"
  /\ \/ /\ slugged = {} /\ Goes(l, "flag", "drop")
        /\ UNCHANGED <<flagged, failed>>
     \/ \E p \in slugged :
          IF "default" \in index /\ flagged \ {p} # {}
          THEN Goes(l, "flag", "end") /\ Records(l) /\ UNCHANGED flagged
          ELSE Goes(l, "flag", "drop") /\ flagged' = flagged \cup {p} /\ UNCHANGED failed
  /\ UNCHANGED <<projects, unborn, slugged, filed, days, role, index, ttl, slugIndex, wanted,
                 converted, held, todo, state, bounds>>

DropSlugIndex(l) ==
  /\ Goes(l, "drop", "normalize")
  /\ slugIndex' = FALSE
  /\ UNCHANGED <<projects, unborn, flagged, slugged, filed, days, role, index, ttl, wanted,
                 report, held, todo, state, bounds>>

(* NormalizeMemberLogins reads who is to be merged, then merges each in a    *)
(* transaction: the highest role under the normalized login.                *)
FindStaleLogins(l) ==
  /\ Goes(l, "normalize", "merge")
  /\ todo' = [todo EXCEPT ![l] = {pu \in Projects \X Users : role[pu[1]][pu[2]]["other"] # "none"}]
  /\ UNCHANGED <<store, report, held, state, bounds>>

Highest(rows) ==
  IF Rank[rows["other"]] > Rank[rows["normalized"]] THEN rows["other"] ELSE rows["normalized"]

(* Mutant: the row that is spelled right keeps its role.                   *)
MergedAsSpelled(rows) ==
  [normalized |-> IF rows["normalized"] = "none" THEN rows["other"] ELSE rows["normalized"],
   other |-> "none"]

Merged(rows) == [normalized |-> Highest(rows), other |-> "none"]

Takes(l, pu) == pu \in todo[l] /\ todo' = [todo EXCEPT ![l] = @ \ {pu}]
Sets(p, u, rows) == role' = [role EXCEPT ![p][u] = rows]

MergeMemberLogin(l) ==
  /\ at[l] = "merge"
  /\ \E p \in Projects, u \in Users : Takes(l, <<p, u>>) /\ Sets(p, u, Merged(role[p][u]))
  /\ UNCHANGED <<projects, unborn, flagged, slugged, filed, days, index, ttl, slugIndex, wanted,
                 at, report, held, state, bounds>>

(* A list is done: of logins to merge, of owners to add, of owners to make.  *)
AfterList == [merge |-> "count", owners |-> "repair", promote |-> "end"]
ListDone(l) ==
  /\ at[l] \in DOMAIN AfterList /\ todo[l] = {}
  /\ Goes(l, at[l], AfterList[at[l]])
  /\ UNCHANGED <<store, report, held, todo, state, bounds>>

(* Mutant: only logs are counted.                                          *)
CountOrphanedLogs(l) ==
  /\ at[l] = "count"
  /\ at' = [at EXCEPT ![l] = IF Under("none", Logs) = {} THEN "repair" ELSE "get"]
  /\ UNCHANGED <<store, report, held, todo, state, bounds>>

(* MigrateOrphansToDefaultProject.                                         *)
CountOrphanedDocuments(l) ==
  /\ at[l] = "count"
  /\ at' = [at EXCEPT ![l] = IF Under("none", Docs) = {} THEN "repair" ELSE "get"]
  /\ UNCHANGED <<store, report, held, todo, state, bounds>>

GetDefaultProject(l) ==
  /\ at[l] = "get"
  /\ \/ /\ flagged = {} /\ Goes(l, "get", "insert") /\ UNCHANGED held
     \/ \E p \in flagged : Goes(l, "get", "adoptLogs") /\ held' = [held EXCEPT ![l] = p]
  /\ UNCHANGED <<store, report, todo, state, bounds>>

(* ensureDefaultProject: another logger may have been first.               *)
InsertDefaultProject(l) ==
  /\ "default" \in index => flagged = {}
  /\ Goes(l, "insert", "adoptLogs")
  /\ \E p \in unborn :
       /\ unborn' = unborn \ {p} /\ projects' = projects \cup {p}
       /\ flagged' = flagged \cup {p} /\ slugged' = slugged \cup {p}
       /\ held' = [held EXCEPT ![l] = p]
  /\ UNCHANGED <<filed, days, role, index, ttl, slugIndex, wanted, report, todo, state, bounds>>

DefaultProjectThere(l) ==
  /\ "default" \in index
  /\ Goes(l, "insert", "adoptLogs")
  /\ \E p \in flagged : held' = [held EXCEPT ![l] = p]
  /\ UNCHANGED <<store, report, todo, state, bounds>>

(* adoptOrphans, one collection after the other.                           *)
DocsOf == [adoptLogs |-> Logs, adoptKeys |-> Keys, adoptSettings |-> Settings]
AfterAdopting == [adoptLogs |-> "adoptKeys", adoptKeys |-> "adoptSettings", adoptSettings |-> "owners"]
Orphans(l) == Under("none", DocsOf[at[l]])

(* A log takes over what its new project has chosen, and a setting becomes   *)
(* the choice of its new project.                                          *)
AdoptOrphans(l) ==
  /\ at[l] \in DOMAIN DocsOf
  /\ \E d \in Orphans(l) :
       /\ ~ Collides(d, held[l])
       /\ filed' = [filed EXCEPT ![d] = Id(held[l])]
       /\ wanted' = [x \in Logs |->
            IF x = d THEN Chosen(held[l], wanted[x])
            ELSE IF d \in Settings /\ filed[x].project = held[l] THEN days[d] ELSE wanted[x]]
  /\ UNCHANGED <<projects, unborn, flagged, slugged, days, role, index, ttl, slugIndex,
                 at, report, held, todo, state, bounds>>

AdoptionCollides(l) ==
  /\ at[l] \in DOMAIN DocsOf
  /\ \E d \in Orphans(l) : Collides(d, held[l])
  /\ Goes(l, at[l], "repair") /\ Records(l)
  /\ UNCHANGED <<store, converted, held, todo, state, bounds>>

(* Mutant: who is to own the project, but not which.                       *)
MembershipsNowhere(p) == Owners

Memberships(p) == {p} \X Owners

AdoptionDone(l) ==
  /\ at[l] \in DOMAIN DocsOf /\ Orphans(l) = {}
  /\ Goes(l, at[l], AfterAdopting[at[l]])
  /\ todo' = IF at[l] = "adoptSettings" THEN [todo EXCEPT ![l] = Memberships(held[l])] ELSE todo
  /\ UNCHANGED <<store, report, held, state, bounds>>

(* ensureOwners: a membership that is there is left as it is, unless the     *)
(* project has no owner.                                                   *)
AsOwner(rows) == [rows EXCEPT !["normalized"] = "owner"]

AddOwner(l) ==
  /\ at[l] = "owners"
  /\ \E p \in Projects, u \in Users :
       /\ Takes(l, <<p, u>>)
       /\ Sets(p, u, IF role[p][u]["normalized"] = "none" THEN AsOwner(role[p][u]) ELSE role[p][u])
  /\ UNCHANGED <<projects, unborn, flagged, slugged, filed, days, index, ttl, slugIndex, wanted,
                 at, report, held, state, bounds>>

(* EnsureDefaultProjectOwners.                                             *)
FindDefaultProject(l) ==
  /\ at[l] = "repair"
  /\ \/ flagged = {} /\ Goes(l, "repair", "end") /\ UNCHANGED held
     \/ \E p \in flagged : Goes(l, "repair", "countOwners") /\ held' = [held EXCEPT ![l] = p]
  /\ UNCHANGED <<store, report, todo, state, bounds>>

IsOwned(p) == \E u \in Users, s \in Spellings : role[p][u][s] = "owner"

CountOwners(l) ==
  /\ at[l] = "countOwners"
  /\ at' = [at EXCEPT ![l] = IF IsOwned(held[l]) THEN "end" ELSE "promote"]
  /\ todo' = [todo EXCEPT ![l] = IF IsOwned(held[l]) THEN {} ELSE Memberships(held[l])]
  /\ UNCHANGED <<store, report, held, state, bounds>>

PromoteOwner(l) ==
  /\ at[l] = "promote"
  /\ \E p \in Projects, u \in Users : Takes(l, <<p, u>>) /\ Sets(p, u, AsOwner(role[p][u]))
  /\ UNCHANGED <<projects, unborn, flagged, slugged, filed, days, index, ttl, slugIndex, wanted,
                 at, report, held, state, bounds>>

(* Mutant: the cleanup waits for no conversion.                            *)
EndPassHasty(l) ==
  /\ Goes(l, "end", IF failed[l] THEN "waiting" ELSE "done")
  /\ ready' = [ready EXCEPT ![l] = ~ failed[l]]
  /\ cleanup' = [cleanup EXCEPT ![l] = TRUE]
  /\ serving' = [serving EXCEPT ![l] = TRUE]
  /\ UNCHANGED <<store, report, held, todo, bounds>>

(* runStartup: record, and onConverted once; after the first pass the        *)
(* logger serves, and after a failed one it tries again.                   *)
EndPass(l) ==
  /\ Goes(l, "end", IF failed[l] THEN "waiting" ELSE "done")
  /\ ready' = [ready EXCEPT ![l] = ~ failed[l]]
  /\ cleanup' = [cleanup EXCEPT ![l] = @ \/ converted[l]]
  /\ serving' = [serving EXCEPT ![l] = TRUE]
  /\ UNCHANGED <<store, report, held, todo, bounds>>

-----------------------------------------------------------------------------
(* What goes wrong.                                                        *)

Fault == faults < MaxFaults /\ faults' = faults + 1

(* Where a pass goes on after a step that failed. *)
AfterFailure ==
  [indexSettings |-> "indexDefault", indexDefault |-> "dropTTL", dropTTL |-> "convert", convert |-> "look",
   look |-> "end", flag |-> "end", drop |-> "end",
   normalize |-> "count", merge |-> "count",
   count |-> "repair", get |-> "repair", insert |-> "repair", adoptLogs |-> "repair",
   adoptKeys |-> "repair", adoptSettings |-> "repair", owners |-> "repair",
   repair |-> "end", countOwners |-> "end", promote |-> "end"]

StepFails(l) ==
  /\ Fault
  /\ at[l] \in DOMAIN AfterFailure
  /\ Goes(l, at[l], AfterFailure[at[l]]) /\ Records(l)
  /\ todo' = [todo EXCEPT ![l] = {}]
  /\ UNCHANGED <<store, converted, held, state, changes>>

(* migrationTimeout: every step that is left fails.                        *)
MigrationTimesOut(l) ==
  /\ Fault
  /\ at[l] \in DOMAIN AfterFailure \ {"indexSettings", "indexDefault"}
  /\ Goes(l, at[l], "end") /\ Records(l)
  /\ todo' = [todo EXCEPT ![l] = {}]
  /\ UNCHANGED <<store, converted, held, state, changes>>

Crash(l) ==
  /\ Fault
  /\ at[l] # "down" /\ at' = [at EXCEPT ![l] = "down"]
  /\ held' = [held EXCEPT ![l] = None] /\ todo' = [todo EXCEPT ![l] = {}]
  /\ serving' = [serving EXCEPT ![l] = FALSE] /\ ready' = [ready EXCEPT ![l] = FALSE]
  /\ cleanup' = [cleanup EXCEPT ![l] = FALSE]
  /\ UNCHANGED <<store, report, changes>>

-----------------------------------------------------------------------------
(* Meanwhile: the cleanup of a logger that has converted every project_id,  *)
(* and what users ask of one that serves.                                  *)

(* What GetRetentionDays may answer.                                       *)
Retentions(p) ==
  LET set == {s \in Settings : filed[s] = Id(p)}
  IN  IF set = {} THEN {defaultRetentionDays} ELSE {days[s] : s \in set}
Outlived(age, d) == d # 0 /\ age > d

ExpireLog(l) ==
  /\ cleanup[l]
  /\ \E p \in projects, x \in Logs :
       /\ filed[x] = Id(p)
       /\ \E d \in Retentions(p) : Outlived(Age[x], d)
       /\ filed' = [filed EXCEPT ![x] = Absent]
  /\ UNCHANGED <<projects, unborn, flagged, slugged, days, role, index, ttl, slugIndex, wanted,
                 at, report, held, todo, state, bounds>>

Change == (\E l \in Loggers : serving[l]) /\ changes < MaxChanges /\ changes' = changes + 1

(* Who looks members up finds only what is stored under a normalized login. *)
IsOwner(p, u) == p \in projects /\ role[p][u]["normalized"] = "owner"

LowersRetention(from, to) == to # 0 /\ (from = 0 \/ to < from)

(* An owner may lower it, any member raise it. Others' changes between the   *)
(* broker's look and the change are in ProjectSettings.                    *)
MaySetRetention(u, p, d) ==
  \/ IsOwner(p, u)
  \/ /\ p \in projects /\ role[p][u]["normalized"] = "member"
     /\ \E current \in Retentions(p) : ~ LowersRetention(current, d)

SetRetentionDays(u, p, d) ==
  /\ MaySetRetention(u, p, d)
  /\ Change
  /\ \E s \in Settings :
       /\ filed[s] = Id(p) \/ (filed[s] = Absent /\ \A t \in Settings : filed[t] # Id(p))
       /\ filed' = [filed EXCEPT ![s] = Id(p)] /\ days' = [days EXCEPT ![s] = d]
  /\ wanted' = [x \in Logs |-> IF filed[x].project = p THEN d ELSE wanted[x]]
  /\ UNCHANGED <<projects, unborn, flagged, slugged, role, index, ttl, slugIndex,
                 at, report, held, todo, state, faults>>

(* Anyone may create a project, and call it "Default"; enough ids are left    *)
(* for the loggers (bound).                                                *)
CreateProject(u, p) ==
  /\ p \in unborn /\ Cardinality(unborn) > Cardinality(Loggers)
  /\ slugIndex => slugged = {}
  /\ Change
  /\ unborn' = unborn \ {p} /\ projects' = projects \cup {p} /\ slugged' = slugged \cup {p}
  /\ Sets(p, u, AsOwner(role[p][u]))
  /\ UNCHANGED <<flagged, filed, days, index, ttl, slugIndex, wanted,
                 at, report, held, todo, state, faults>>

(* refuseLastOwner counts every row.                                       *)
HasOtherOwner(p, u) ==
  \E v \in Users, s \in Spellings : <<v, s>> # <<u, "normalized">> /\ role[p][v][s] = "owner"

RemoveProjectMember(p, u) ==
  /\ p \in projects /\ (\E v \in Users : IsOwner(p, v))
  /\ role[p][u]["normalized"] # "none"
  /\ role[p][u]["normalized"] = "owner" => HasOtherOwner(p, u)
  /\ Change
  /\ Sets(p, u, [role[p][u] EXCEPT !["normalized"] = "none"])
  /\ UNCHANGED <<projects, unborn, flagged, slugged, filed, days, index, ttl, slugIndex, wanted,
                 at, report, held, todo, state, faults>>

(* The keys and the setting go with it, the logs later.                     *)
DeleteProject(u, p) ==
  /\ IsOwner(p, u)
  /\ Change
  /\ projects' = projects \ {p} /\ flagged' = flagged \ {p} /\ slugged' = slugged \ {p}
  /\ filed' = [d \in Docs |-> IF d \notin Logs /\ filed[d] = Id(p) THEN Absent ELSE filed[d]]
  /\ role' = [role EXCEPT ![p] = [v \in Users |-> [s \in Spellings |-> "none"]]]
  /\ UNCHANGED <<unborn, days, index, ttl, slugIndex, wanted,
                 at, report, held, todo, state, faults>>

-----------------------------------------------------------------------------
Migrate(l) ==
  \/ DropLegacyTTLIndex(l) \/ ConvertProjectIDs(l) \/ ConversionDone(l)
  \/ LookForSlugIndex(l) \/ FlagDefault(l) \/ DropSlugIndex(l)
  \/ FindStaleLogins(l) \/ MergeMemberLogin(l)
  \/ CountOrphanedDocuments(l) \/ GetDefaultProject(l)
  \/ InsertDefaultProject(l) \/ DefaultProjectThere(l)
  \/ AdoptOrphans(l) \/ AdoptionCollides(l) \/ AdoptionDone(l)
  \/ AddOwner(l) \/ FindDefaultProject(l) \/ CountOwners(l) \/ PromoteOwner(l)
  \/ ListDone(l)

Pass(l) ==
  \/ StartPass(l) \/ EnsureSettingsIndex(l) \/ EnsureProjectIndexes(l)
  \/ Migrate(l)
  \/ EndPass(l)

Faults(l) == StepFails(l) \/ MigrationTimesOut(l) \/ Crash(l)

UsersAct ==
  \/ \E u \in Users, p \in Projects, d \in Durations : SetRetentionDays(u, p, d)
  \/ \E u \in Users, p \in Projects :
       CreateProject(u, p) \/ RemoveProjectMember(p, u) \/ DeleteProject(u, p)

Next == UsersAct \/ \E l \in Loggers : Pass(l) \/ ExpireLog(l) \/ Faults(l)

Spec == Init /\ [][Next]_vars

(* A logger that stopped starts again (restart: always), a pass goes on, and *)
(* the timer of a failed one fires. Nothing is assumed of users and cleanup. *)
FairSpec == Spec /\ \A l \in Loggers : WF_vars(Pass(l))
=============================================================================
