--------------------------- MODULE StartupProofs ---------------------------
(***************************************************************************)
(* A startup pass that reports success has left nothing to do, no pass takes *)
(* a role away, and the retention a project has chosen is kept: proved for   *)
(* any number of loggers, projects, users and documents, whatever fails.    *)
(***************************************************************************)
EXTENDS StartupProperties, FiniteSetTheorems, TLAPS

(* The roles and their ranks. *)
LEMMA Ranks ==
  /\ Roles = {"none", "member", "owner"}
  /\ Rank["none"] = 0 /\ Rank["member"] = 1 /\ Rank["owner"] = 2
  BY DEF Roles, Rank

Rows == [Spellings -> Roles]

LEMMA MergedType ==
  ASSUME NEW rows \in Rows
  PROVE  /\ Merged(rows) \in Rows /\ AsOwner(rows) \in Rows
         /\ Merged(rows)["normalized"] = Highest(rows) /\ Merged(rows)["other"] = "none"
         /\ AsOwner(rows)["normalized"] = "owner" /\ AsOwner(rows)["other"] = rows["other"]
         /\ Highest(rows) \in Roles
<1>1. rows["other"] \in Roles /\ rows["normalized"] \in Roles
  BY DEF Rows, Spellings
<1>2. Highest(rows) \in Roles
  BY <1>1 DEF Highest
<1>3. AsOwner(rows) \in Rows /\ AsOwner(rows)["normalized"] = "owner" /\ AsOwner(rows)["other"] = rows["other"]
  BY Ranks DEF AsOwner, Rows, Spellings
<1>4. Merged(rows) \in Rows
  BY <1>2, Ranks DEF Merged, Rows, Spellings
<1>5. Merged(rows)["normalized"] = Highest(rows) /\ Merged(rows)["other"] = "none"
  BY DEF Merged
<1> QED  BY <1>2, <1>3, <1>4, <1>5

(* Where a pass goes on after a failure, a list or a collection. *)
LEMMA NextSteps ==
  /\ \A a \in DOMAIN AfterFailure : AfterFailure[a] \in Steps
  /\ \A a \in DOMAIN AfterList : AfterList[a] \in Steps
  /\ \A a \in DOMAIN AfterAdopting : AfterAdopting[a] \in Steps
  /\ DOMAIN DocsOf = DOMAIN AfterAdopting
  /\ \A a \in DOMAIN DocsOf : DocsOf[a] \subseteq Docs
<1>1. \A a \in DOMAIN AfterFailure : AfterFailure[a] \in Steps
  BY DEF AfterFailure, Steps
<1>2. \A a \in DOMAIN AfterList : AfterList[a] \in Steps
  BY DEF AfterList, Steps
<1>3. \A a \in DOMAIN AfterAdopting : AfterAdopting[a] \in Steps
  BY DEF AfterAdopting, Steps
<1>4. DOMAIN DocsOf = DOMAIN AfterAdopting
  BY DEF DocsOf, AfterAdopting
<1>5. \A a \in DOMAIN DocsOf : DocsOf[a] \subseteq Docs
  BY DEF DocsOf, Docs
<1> QED  BY <1>1, <1>2, <1>3, <1>4, <1>5

-----------------------------------------------------------------------------
(* Types.                                                                  *)

AtType == at \in [Loggers -> Steps \cup {"down", "waiting", "done"}]
PassType ==
  /\ AtType
  /\ failed \in [Loggers -> BOOLEAN] /\ converted \in [Loggers -> BOOLEAN]
  /\ held \in [Loggers -> Projects \cup {None}]
  /\ todo \in [Loggers -> SUBSET (Projects \X Users)]
  /\ serving \in [Loggers -> BOOLEAN] /\ ready \in [Loggers -> BOOLEAN]
  /\ cleanup \in [Loggers -> BOOLEAN]
ProjectType ==
  /\ projects \in SUBSET Projects /\ unborn \in SUBSET Projects
  /\ flagged \in SUBSET Projects /\ slugged \in SUBSET Projects
  /\ index \in SUBSET {"settings", "default"}
  /\ ttl \in BOOLEAN /\ slugIndex \in BOOLEAN
DocType ==
  /\ filed \in [Docs -> Slots] /\ days \in [Settings -> Durations]
  /\ wanted \in [Logs -> Durations \cup {defaultRetentionDays}]
RoleType == role \in [Projects -> [Users -> Rows]]
BoundType == faults \in Nat /\ changes \in Nat

LEMMA TypeParts == TypeOK <=> PassType /\ ProjectType /\ DocType /\ RoleType /\ BoundType
  BY DEF TypeOK, PassType, AtType, ProjectType, DocType, RoleType, BoundType, Rows

LEMMA SlotType ==
  /\ Orphan \in Slots /\ Absent \in Slots
  /\ \A p \in Projects \cup {None} : Id(p) \in Slots /\ Hex(p) \in Slots
  BY DEF Slots, Orphan, Absent, Id, Hex

(* What a project has chosen is a retention. *)
LEMMA ChosenType ==
  ASSUME days \in [Settings -> Durations], NEW p, NEW else \in Durations \cup {defaultRetentionDays}
  PROVE  Chosen(p, else) \in Durations \cup {defaultRetentionDays}
<1> DEFINE all == {s \in Settings : filed[s].form # "absent" /\ filed[s].project = p}
           set == IF Under("id", all) = {} THEN all ELSE Under("id", all)
<1>1. set \subseteq Settings
  BY DEF Under
<1>2. set # {} => (CHOOSE s \in set : TRUE) \in set
  <2> HIDE DEF set
  <2> QED  OBVIOUS
<1>3. Chosen(p, else) = IF set = {} THEN else ELSE days[CHOOSE s \in set : TRUE]
  BY DEF Chosen
<1> HIDE DEF set
<1> QED  BY <1>1, <1>2, <1>3

LEMMA InitType == ASSUME StartupAssumption, Init  PROVE TypeOK
<1>1. PICK db \in Legacies :
       /\ projects = db.projects /\ unborn = Projects \ db.projects
       /\ slugged = db.slugged /\ flagged = {}
       /\ filed = db.filed /\ days = db.days /\ role = db.role
       /\ index = db.index /\ ttl = db.ttl /\ slugIndex = db.slugIndex
  BY DEF Init
<1>2. /\ db.slugged \subseteq db.projects /\ db.projects \subseteq Projects
      /\ db.filed \in [Docs -> Slots] /\ db.days \in [Settings -> Durations]
      /\ db.role \in [Projects -> [Users -> [Spellings -> Roles]]]
      /\ db.index \subseteq {"settings"} /\ db.ttl \in BOOLEAN /\ db.slugIndex \in BOOLEAN
  BY DEF StartupAssumption, IsDatabase
<1>3. ProjectType /\ RoleType
  BY <1>1, <1>2 DEF ProjectType, RoleType, Rows
<1>4. PassType /\ BoundType
  BY DEF Init, PassType, AtType, BoundType
<1>5. \A x \in Logs : Chosen(filed[x].project, defaultRetentionDays) \in Durations \cup {defaultRetentionDays}
  BY <1>1, <1>2, ChosenType
<1>6. wanted \in [Logs -> Durations \cup {defaultRetentionDays}]
  BY <1>5 DEF Init
<1>7. DocType
  BY <1>1, <1>2, <1>6 DEF DocType
<1> QED  BY <1>3, <1>4, <1>7, TypeParts

(* How a step of logger l leaves what only its own pass writes. *)
Writes(l) ==
  \A k \in Loggers \ {l} :
    /\ at'[k] = at[k] /\ failed'[k] = failed[k] /\ converted'[k] = converted[k]
    /\ held'[k] = held[k] /\ todo'[k] = todo[k]
    /\ serving'[k] = serving[k] /\ ready'[k] = ready[k] /\ cleanup'[k] = cleanup[k]

(* The Default project a pass is at work on, and the owners it has to add.   *)
HeldOK(l) ==
  at[l] \in {"adoptLogs", "adoptKeys", "adoptSettings", "owners", "countOwners", "promote"} => held[l] \in Projects
ListOK(l) == at[l] \in {"owners", "promote"} => todo[l] \subseteq {held[l]} \X Owners

(* A step of a pass keeps the types of the pass. *)
LEMMA PassTypeStep ==
  ASSUME StartupAssumption, TypeOK, NEW l \in Loggers, HeldOK(l), Pass(l) \/ Faults(l)
  PROVE  PassType' /\ Writes(l)
<1> USE DEF PassType, AtType, Writes, report, state
<1>1. PassType
  BY TypeParts
<1>2. ASSUME NEW from, NEW to \in Steps \cup {"down", "waiting", "done"}, Goes(l, from, to)  PROVE AtType'
  BY <1>1, <1>2 DEF Goes
<1>3. Records(l) => failed' \in [Loggers -> BOOLEAN] /\ \A k \in Loggers \ {l} : failed'[k] = failed[k]
  BY <1>1 DEF Records
<1>4. CASE StartPass(l)
  BY <1>1, <1>4 DEF StartPass, Steps
<1>5. CASE EnsureSettingsIndex(l)
  BY <1>1, <1>3, <1>5 DEF EnsureSettingsIndex, Goes, Steps
<1>6. CASE EnsureProjectIndexes(l)
  BY <1>1, <1>3, <1>6 DEF EnsureProjectIndexes, Goes, Steps
<1>7. CASE EndPass(l)
  BY <1>1, <1>7 DEF EndPass, Goes
<1>8. CASE StepFails(l)
  BY <1>1, <1>3, <1>8, NextSteps DEF StepFails, Goes
<1>9. CASE MigrationTimesOut(l)
  BY <1>1, <1>3, <1>9 DEF MigrationTimesOut, Goes, Steps
<1>10. CASE Crash(l)
  BY <1>1, <1>10 DEF Crash
<1>11. CASE DropLegacyTTLIndex(l)
  BY <1>1, <1>11 DEF DropLegacyTTLIndex, Goes, Steps
<1>12. CASE ConvertProjectIDs(l)
  BY <1>1, <1>12 DEF ConvertProjectIDs
<1>13. CASE ConversionDone(l)
  BY <1>1, <1>13 DEF ConversionDone, Goes, Steps
<1>14. CASE LookForSlugIndex(l)
  BY <1>1, <1>14 DEF LookForSlugIndex, Steps
<1>15. CASE FlagDefault(l)
  BY <1>1, <1>3, <1>15 DEF FlagDefault, Goes, Steps
<1>16. CASE DropSlugIndex(l)
  BY <1>1, <1>16 DEF DropSlugIndex, Goes, Steps
<1>17. CASE FindStaleLogins(l)
  BY <1>1, <1>17 DEF FindStaleLogins, Goes, Steps
<1>18. CASE MergeMemberLogin(l)
  BY <1>1, <1>18 DEF MergeMemberLogin, Takes
<1>19. CASE CountOrphanedDocuments(l)
  BY <1>1, <1>19 DEF CountOrphanedDocuments, Steps
<1>20. CASE GetDefaultProject(l)
  BY <1>1, <1>20, TypeParts DEF GetDefaultProject, Goes, Steps, ProjectType
<1>21. CASE InsertDefaultProject(l)
  BY <1>1, <1>21, TypeParts DEF InsertDefaultProject, Goes, Steps, ProjectType
<1>22. CASE DefaultProjectThere(l)
  BY <1>1, <1>22, TypeParts DEF DefaultProjectThere, Goes, Steps, ProjectType
<1>23. CASE AdoptOrphans(l)
  BY <1>1, <1>23 DEF AdoptOrphans
<1>24. CASE AdoptionCollides(l)
  BY <1>1, <1>3, <1>24 DEF AdoptionCollides, Goes, Steps
<1>25. CASE AdoptionDone(l)
  <2>1. Memberships(held[l]) \subseteq Projects \X Users
    BY <1>25 DEF AdoptionDone, HeldOK, DocsOf, Memberships, StartupAssumption
  <2>2. todo' \in [Loggers -> SUBSET (Projects \X Users)] /\ \A k \in Loggers \ {l} : todo'[k] = todo[k]
    BY <1>1, <1>25, <2>1 DEF AdoptionDone
  <2> QED  BY <1>1, <1>25, <2>2, NextSteps DEF AdoptionDone, Goes
<1>26. CASE AddOwner(l)
  BY <1>1, <1>26 DEF AddOwner, Takes
<1>27. CASE FindDefaultProject(l)
  BY <1>1, <1>27, TypeParts DEF FindDefaultProject, Goes, Steps, ProjectType
<1>28. CASE CountOwners(l)
  <2>1. Memberships(held[l]) \subseteq Projects \X Users
    BY <1>28 DEF CountOwners, HeldOK, Memberships, StartupAssumption
  <2>2. todo' \in [Loggers -> SUBSET (Projects \X Users)] /\ \A k \in Loggers \ {l} : todo'[k] = todo[k]
    BY <1>1, <1>28, <2>1 DEF CountOwners
  <2> QED  BY <1>1, <1>28, <2>2 DEF CountOwners, Steps
<1>29. CASE PromoteOwner(l)
  BY <1>1, <1>29 DEF PromoteOwner, Takes
<1>30. CASE ListDone(l)
  BY <1>1, <1>30, NextSteps DEF ListDone, Goes
<1> QED  BY <1>4, <1>5, <1>6, <1>7, <1>8, <1>9, <1>10, <1>11, <1>12, <1>13, <1>14, <1>15, <1>16, <1>17, <1>18,
            <1>19, <1>20, <1>21, <1>22, <1>23, <1>24, <1>25, <1>26, <1>27, <1>28, <1>29, <1>30
         DEF Pass, Migrate, Faults

(* Nothing but a pass's own steps moves it on or gives it something to do.   *)
LEMMA OutsideStep ==
  ASSUME TypeOK, UsersAct \/ (\E l \in Loggers : ExpireLog(l))
  PROVE  UNCHANGED <<at, report, held, todo, state>>
  BY DEF UsersAct, SetRetentionDays, CreateProject, RemoveProjectMember, DeleteProject, ExpireLog

(* What a pass holds, it has read; what it has to add, belongs there.        *)
LEMMA HeldStep ==
  ASSUME StartupAssumption, TypeOK, NEW l \in Loggers, HeldOK(l), ListOK(l), Pass(l) \/ Faults(l)
  PROVE  HeldOK(l)' /\ ListOK(l)'
<1> USE DEF PassType, AtType, HeldOK, ListOK, report, state
<1>1. PassType
  BY TypeParts
<1>2. CASE at'[l] \notin {"adoptLogs", "adoptKeys", "adoptSettings", "owners", "countOwners", "promote"}
  BY <1>2
<1>3. CASE EnsureSettingsIndex(l) \/ EnsureProjectIndexes(l) \/ DropLegacyTTLIndex(l) \/ ConversionDone(l)
           \/ LookForSlugIndex(l) \/ FlagDefault(l) \/ DropSlugIndex(l) \/ FindStaleLogins(l)
  BY <1>1, <1>2, <1>3 DEF EnsureSettingsIndex, EnsureProjectIndexes, DropLegacyTTLIndex, ConversionDone,
     LookForSlugIndex, FlagDefault, DropSlugIndex, FindStaleLogins, Goes
<1>4. CASE StartPass(l) \/ EndPass(l) \/ Crash(l) \/ MigrationTimesOut(l)
  BY <1>1, <1>2, <1>4 DEF StartPass, EndPass, Crash, MigrationTimesOut, Goes
<1>5. CASE StepFails(l)
  <2>1. AfterFailure[at[l]] \notin {"adoptLogs", "adoptKeys", "adoptSettings", "owners", "countOwners", "promote"}
    BY <1>5 DEF StepFails, AfterFailure
  <2> QED  BY <1>1, <1>2, <1>5, <2>1 DEF StepFails, Goes
<1>6. CASE ConvertProjectIDs(l) \/ MergeMemberLogin(l) \/ AdoptOrphans(l)
  BY <1>1, <1>6 DEF ConvertProjectIDs, MergeMemberLogin, AdoptOrphans, DocsOf
<1>7. CASE CountOrphanedDocuments(l) \/ AdoptionCollides(l)
  BY <1>1, <1>2, <1>7 DEF CountOrphanedDocuments, AdoptionCollides, Goes
<1>8. CASE GetDefaultProject(l) \/ InsertDefaultProject(l) \/ DefaultProjectThere(l) \/ FindDefaultProject(l)
  BY <1>1, <1>8, TypeParts DEF GetDefaultProject, InsertDefaultProject, DefaultProjectThere, FindDefaultProject,
     Goes, ProjectType
<1>9. CASE AdoptionDone(l)
  <2>1. CASE at[l] = "adoptLogs"
    BY <1>1, <1>9, <2>1 DEF AdoptionDone, Goes, AfterAdopting
  <2>2. CASE at[l] = "adoptKeys"
    BY <1>1, <1>9, <2>2 DEF AdoptionDone, Goes, AfterAdopting
  <2>3. CASE at[l] = "adoptSettings"
    BY <1>1, <1>9, <2>3 DEF AdoptionDone, Goes, AfterAdopting, Memberships
  <2> QED  BY <1>9, <2>1, <2>2, <2>3 DEF AdoptionDone, DocsOf
<1>10. CASE AddOwner(l) \/ PromoteOwner(l)
  <2>1. UNCHANGED <<at, held>>
    BY <1>10 DEF AddOwner, PromoteOwner
  <2>2. PICK pu : Takes(l, pu)
    BY <1>10 DEF AddOwner, PromoteOwner
  <2>3. todo'[l] \subseteq todo[l]
    BY <1>1, <2>2 DEF Takes
  <2> QED  BY <2>1, <2>3
<1>11. CASE CountOwners(l)
  BY <1>1, <1>11 DEF CountOwners, Memberships
<1>12. CASE ListDone(l)
  <2>1. AfterList[at[l]] \in {"count", "repair", "end"}
    BY <1>12 DEF ListDone, AfterList
  <2> QED  BY <1>1, <1>2, <1>12, <2>1 DEF ListDone, Goes
<1> QED  BY <1>3, <1>4, <1>5, <1>6, <1>7, <1>8, <1>9, <1>10, <1>11, <1>12 DEF Pass, Migrate, Faults

(* The types of the collections and indexes. *)
LEMMA StoreTypeStep ==
  ASSUME StartupAssumption, TypeOK, \A l \in Loggers : HeldOK(l), Next
  PROVE  ProjectType' /\ DocType' /\ RoleType' /\ BoundType'
<1> USE DEF ProjectType, DocType, RoleType, BoundType, store, bounds
<1>1. ProjectType /\ DocType /\ RoleType /\ BoundType /\ PassType
  BY TypeParts
<1>2. \A p \in Projects, u \in Users, rows \in Rows : Sets(p, u, rows) => RoleType'
  BY <1>1 DEF Sets
<1>3. ASSUME NEW l \in Loggers, Migrate(l)  PROVE ProjectType' /\ DocType' /\ RoleType' /\ BoundType'
  <2>1. CASE \/ ConversionDone(l) \/ LookForSlugIndex(l) \/ FindStaleLogins(l) \/ CountOrphanedDocuments(l)
             \/ GetDefaultProject(l) \/ DefaultProjectThere(l) \/ AdoptionCollides(l) \/ AdoptionDone(l)
             \/ FindDefaultProject(l) \/ CountOwners(l) \/ ListDone(l)
    BY <1>1, <2>1 DEF ConversionDone, LookForSlugIndex, FindStaleLogins, CountOrphanedDocuments, GetDefaultProject,
       DefaultProjectThere, AdoptionCollides, AdoptionDone, FindDefaultProject, CountOwners, ListDone
  <2>2. CASE DropLegacyTTLIndex(l) \/ DropSlugIndex(l)
    BY <1>1, <2>2 DEF DropLegacyTTLIndex, DropSlugIndex
  <2>3. CASE ConvertProjectIDs(l)
    <3>1. ASSUME NEW d \in Docs  PROVE Id(filed[d].project) \in Slots
      BY <1>1, SlotType DEF Slots
    <3>2. Unconverted \subseteq Docs
      BY DEF Unconverted, Under, Docs
    <3> QED  BY <1>1, <2>3, <3>1, <3>2, SlotType DEF ConvertProjectIDs
  <2>4. CASE FlagDefault(l)
    BY <1>1, <2>4 DEF FlagDefault
  <2>5. CASE InsertDefaultProject(l)
    BY <1>1, <2>5 DEF InsertDefaultProject
  <2>6. CASE AdoptOrphans(l)
    <3>1. Orphans(l) \subseteq Docs
      BY <2>6, NextSteps DEF AdoptOrphans, Orphans, Under
    <3>2. held[l] \in Projects
      BY <2>6 DEF AdoptOrphans, HeldOK, DocsOf
    <3>3. filed' \in [Docs -> Slots]
      BY <1>1, <2>6, <3>1, <3>2, SlotType DEF AdoptOrphans
    <3>4. /\ \A x \in Logs : Chosen(held[l], wanted[x]) \in Durations \cup {defaultRetentionDays}
          /\ \A d \in Settings : days[d] \in Durations
      BY <1>1, ChosenType
    <3>5. wanted' \in [Logs -> Durations \cup {defaultRetentionDays}]
      BY <1>1, <2>6, <3>4 DEF AdoptOrphans
    <3> QED  BY <1>1, <2>6, <3>3, <3>5 DEF AdoptOrphans
  <2>7. CASE MergeMemberLogin(l)
    BY <1>1, <1>2, <2>7, MergedType DEF MergeMemberLogin
  <2>8. CASE AddOwner(l) \/ PromoteOwner(l)
    <3>1. \A p \in Projects, u \in Users : role[p][u] \in Rows /\ AsOwner(role[p][u]) \in Rows
      BY <1>1, MergedType
    <3>2. RoleType'
      BY <1>2, <2>8, <3>1 DEF AddOwner, PromoteOwner
    <3>3. UNCHANGED <<projects, unborn, flagged, slugged, filed, days, index, ttl, slugIndex, wanted, faults, changes>>
      BY <2>8 DEF AddOwner, PromoteOwner
    <3> QED  BY <1>1, <3>2, <3>3
  <2> QED  BY <1>3, <2>1, <2>2, <2>3, <2>4, <2>5, <2>6, <2>7, <2>8 DEF Migrate
<1>4. ASSUME NEW l \in Loggers, StartPass(l) \/ EndPass(l)  PROVE ProjectType' /\ DocType' /\ RoleType' /\ BoundType'
  BY <1>1, <1>4 DEF StartPass, EndPass
<1>5. ASSUME NEW l \in Loggers, EnsureSettingsIndex(l) \/ EnsureProjectIndexes(l)
      PROVE  ProjectType' /\ DocType' /\ RoleType' /\ BoundType'
  <2>1. index' \in SUBSET {"settings", "default"}
    <3>1. CASE EnsureSettingsIndex(l)
      BY <1>1, <3>1 DEF EnsureSettingsIndex
    <3>2. CASE EnsureProjectIndexes(l)
      BY <1>1, <3>2, ZenonT(60) DEF EnsureProjectIndexes
    <3> QED  BY <1>5, <3>1, <3>2
  <2>2. UNCHANGED <<projects, unborn, flagged, slugged, filed, days, role, ttl, slugIndex, wanted, faults, changes>>
    BY <1>5 DEF EnsureSettingsIndex, EnsureProjectIndexes
  <2> QED  BY <1>1, <2>1, <2>2
<1>6. ASSUME NEW l \in Loggers, Faults(l)  PROVE ProjectType' /\ DocType' /\ RoleType' /\ BoundType'
  <2>1. UNCHANGED store /\ UNCHANGED changes /\ faults' = faults + 1
    BY <1>6 DEF Faults, StepFails, MigrationTimesOut, Crash, Fault
  <2> QED  BY <1>1, <2>1
<1>7. ASSUME NEW l \in Loggers, ExpireLog(l)  PROVE ProjectType' /\ DocType' /\ RoleType' /\ BoundType'
  <2>1. \E x \in Logs : filed' = [filed EXCEPT ![x] = Absent]
    BY <1>7 DEF ExpireLog
  <2>2. filed' \in [Docs -> Slots]
    BY <1>1, <2>1, SlotType, ZenonT(60)
  <2>3. UNCHANGED <<projects, unborn, flagged, slugged, days, role, index, ttl, slugIndex, wanted, faults, changes>>
    BY <1>7 DEF ExpireLog
  <2> QED  BY <1>1, <2>2, <2>3
<1>8. ASSUME NEW u \in Users, NEW p \in Projects, NEW d \in Durations, SetRetentionDays(u, p, d)
      PROVE  ProjectType' /\ DocType' /\ RoleType' /\ BoundType'
  <2>1. PICK s \in Settings : filed' = [filed EXCEPT ![s] = Id(p)] /\ days' = [days EXCEPT ![s] = d]
    BY <1>8 DEF SetRetentionDays
  <2>2. Id(p) \in Slots
    BY SlotType
  <2>3. filed' \in [Docs -> Slots] /\ days' \in [Settings -> Durations]
    BY <1>1, <2>1, <2>2
  <2>4. wanted' \in [Logs -> Durations \cup {defaultRetentionDays}]
    BY <1>1, <1>8 DEF SetRetentionDays
  <2>5. /\ UNCHANGED <<projects, unborn, flagged, slugged, role, index, ttl, slugIndex, faults>>
        /\ changes' = changes + 1
    BY <1>8 DEF SetRetentionDays, Change
  <2> QED  BY <1>1, <2>3, <2>4, <2>5
<1>9. ASSUME NEW u \in Users, NEW p \in Projects, CreateProject(u, p)
      PROVE  ProjectType' /\ DocType' /\ RoleType' /\ BoundType'
  BY <1>1, <1>2, <1>9, MergedType DEF CreateProject, Change
<1>10. ASSUME NEW u \in Users, NEW p \in Projects, RemoveProjectMember(p, u)
       PROVE  ProjectType' /\ DocType' /\ RoleType' /\ BoundType'
  <2>1. [role[p][u] EXCEPT !["normalized"] = "none"] \in Rows
    BY <1>1, Ranks DEF Rows, Spellings
  <2> QED  BY <1>1, <1>2, <1>10, <2>1 DEF RemoveProjectMember, Change
<1>11. ASSUME NEW u \in Users, NEW p \in Projects, DeleteProject(u, p)
       PROVE  ProjectType' /\ DocType' /\ RoleType' /\ BoundType'
  <2>1. filed' \in [Docs -> Slots]
    BY <1>1, <1>11, SlotType DEF DeleteProject
  <2>2. [v \in Users |-> [s \in Spellings |-> "none"]] \in [Users -> Rows]
    BY Ranks DEF Rows
  <2> QED  BY <1>1, <1>11, <2>1, <2>2 DEF DeleteProject, Change
<1> QED  BY <1>3, <1>4, <1>5, <1>6, <1>7, <1>8, <1>9, <1>10, <1>11 DEF Next, Pass, UsersAct

-----------------------------------------------------------------------------
(* Roles.                                                                  *)

LEMMA HighestRank ==
  ASSUME NEW rows \in Rows
  PROVE  /\ Rank[Highest(rows)] \in 0..2
         /\ Rank[Highest(Merged(rows))] = Rank[Highest(rows)]
         /\ Rank[Highest(AsOwner(rows))] = 2
<1>1. rows["other"] \in Roles /\ rows["normalized"] \in Roles
  BY DEF Rows, Spellings
<1>2. \A r \in Roles : Rank[r] \in 0..2
  BY Ranks
<1>3. Highest(rows) \in Roles
  BY MergedType
<1>4. Rank[Highest(Merged(rows))] = Rank[Highest(rows)]
  <2>1. Merged(rows)["normalized"] = Highest(rows) /\ Merged(rows)["other"] = "none"
    BY MergedType
  <2> QED  BY <1>2, <1>3, <2>1, Ranks DEF Highest
<1>5. Rank[Highest(AsOwner(rows))] = 2
  <2>1. AsOwner(rows)["normalized"] = "owner" /\ AsOwner(rows)["other"] = rows["other"]
    BY MergedType
  <2> QED  BY <1>1, <1>2, <2>1, Ranks DEF Highest
<1> QED  BY <1>2, <1>3, <1>4, <1>5

(* A step of a pass changes no roles, or those of one user in one project.   *)
LEMMA RoleStep ==
  ASSUME TypeOK, Next, changes' = changes
  PROVE  \/ role' = role
         \/ \E l \in Loggers, p \in Projects, u \in Users :
              \/ MergeMemberLogin(l) /\ Sets(p, u, Merged(role[p][u]))
              \/ /\ AddOwner(l) \/ PromoteOwner(l)
                 /\ <<p, u>> \in todo[l] /\ Sets(p, u, AsOwner(role[p][u]))
                 /\ AddOwner(l) => role[p][u]["normalized"] = "none"
<1>1. CASE UsersAct
  <2>1. changes \in Nat /\ changes' = changes + 1
    BY <1>1 DEF UsersAct, SetRetentionDays, CreateProject, RemoveProjectMember, DeleteProject, Change, TypeOK
  <2> QED  BY <2>1
<1>2. ASSUME NEW l \in Loggers, ExpireLog(l) \/ Faults(l)  PROVE role' = role
  BY <1>2 DEF ExpireLog, Faults, StepFails, MigrationTimesOut, Crash, store
<1>3. ASSUME NEW l \in Loggers, Pass(l), ~ (MergeMemberLogin(l) \/ AddOwner(l) \/ PromoteOwner(l))
      PROVE  role' = role
  BY <1>3 DEF Pass, Migrate, StartPass, EnsureSettingsIndex, EnsureProjectIndexes, EndPass, DropLegacyTTLIndex,
     ConvertProjectIDs, ConversionDone, LookForSlugIndex, FlagDefault, DropSlugIndex, FindStaleLogins,
     CountOrphanedDocuments, GetDefaultProject, InsertDefaultProject, DefaultProjectThere, AdoptOrphans,
     AdoptionCollides, AdoptionDone, FindDefaultProject, CountOwners, ListDone, store
<1>4. ASSUME NEW l \in Loggers, MergeMemberLogin(l)
      PROVE  \E p \in Projects, u \in Users : Sets(p, u, Merged(role[p][u]))
  BY <1>4 DEF MergeMemberLogin
<1>5. ASSUME NEW l \in Loggers, PromoteOwner(l)
      PROVE  \E p \in Projects, u \in Users : <<p, u>> \in todo[l] /\ Sets(p, u, AsOwner(role[p][u])) /\ at[l] = "promote"
  BY <1>5 DEF PromoteOwner, Takes
<1>6. ASSUME NEW l \in Loggers, AddOwner(l)
      PROVE  \/ role' = role
             \/ \E p \in Projects, u \in Users :
                  <<p, u>> \in todo[l] /\ Sets(p, u, AsOwner(role[p][u])) /\ role[p][u]["normalized"] = "none"
  <2>1. PICK p \in Projects, u \in Users :
          /\ <<p, u>> \in todo[l]
          /\ Sets(p, u, IF role[p][u]["normalized"] = "none" THEN AsOwner(role[p][u]) ELSE role[p][u])
    BY <1>6 DEF AddOwner, Takes
  <2>2. CASE role[p][u]["normalized"] = "none"
    BY <2>1, <2>2
  <2>3. CASE role[p][u]["normalized"] # "none"
    BY <2>1, <2>3 DEF Sets, TypeOK
  <2> QED  BY <2>2, <2>3
<1>7. ASSUME NEW l \in Loggers, AddOwner(l)  PROVE at[l] = "owners"
  BY <1>7 DEF AddOwner
<1> QED  BY <1>1, <1>2, <1>3, <1>4, <1>5, <1>6, <1>7, ZenonT(60) DEF Next

(* No role is lost, and only configured owners of the held project gain one. *)
LEMMA RolesStep ==
  ASSUME StartupAssumption, TypeOK, \A l \in Loggers : ListOK(l), Next, changes' = changes
  PROVE  \A p \in Projects, u \in Users :
           LET before == Rank[Highest(role[p][u])]
               after == Rank[Highest(role'[p][u])]
           IN  /\ after >= before
               /\ after > before => u \in Owners /\ \E l \in Loggers : held[l] = p
<1>1. \A p \in Projects, u \in Users : role[p][u] \in Rows
  BY DEF TypeOK, Rows
<1>2. \A p \in Projects, u \in Users : Rank[Highest(role[p][u])] \in 0..2
  BY <1>1, HighestRank
<1>3. CASE role' = role
  BY <1>2, <1>3
<1>4. ASSUME NEW l \in Loggers, NEW p \in Projects, NEW u \in Users, Sets(p, u, Merged(role[p][u]))
      PROVE  \A q \in Projects, v \in Users : Rank[Highest(role'[q][v])] = Rank[Highest(role[q][v])]
  <2>1. \A q \in Projects, v \in Users :
          role'[q][v] = IF q = p /\ v = u THEN Merged(role[p][u]) ELSE role[q][v]
    BY <1>4 DEF Sets, TypeOK
  <2> QED  BY <1>1, <2>1, HighestRank
<1>5. ASSUME NEW l \in Loggers, NEW p \in Projects, NEW u \in Users, <<p, u>> \in todo[l],
             Sets(p, u, AsOwner(role[p][u])), AddOwner(l) \/ PromoteOwner(l)
      PROVE  /\ u \in Owners /\ held[l] = p
             /\ \A q \in Projects, v \in Users : (q # p \/ v # u) => role'[q][v] = role[q][v]
             /\ Rank[Highest(role'[p][u])] = 2
  <2>1. <<p, u>> \in {held[l]} \X Owners
    BY <1>5 DEF ListOK, AddOwner, PromoteOwner
  <2>2. \A q \in Projects, v \in Users :
          role'[q][v] = IF q = p /\ v = u THEN AsOwner(role[p][u]) ELSE role[q][v]
    BY <1>5 DEF Sets, TypeOK
  <2> QED  BY <1>1, <2>1, <2>2, HighestRank
<1>6. CASE \E l \in Loggers, p \in Projects, u \in Users : Sets(p, u, Merged(role[p][u]))
  <2>1. \A q \in Projects, v \in Users : Rank[Highest(role'[q][v])] = Rank[Highest(role[q][v])]
    BY <1>4, <1>6
  <2> QED  BY <1>2, <2>1
<1>7. CASE \E l \in Loggers, p \in Projects, u \in Users :
             <<p, u>> \in todo[l] /\ Sets(p, u, AsOwner(role[p][u])) /\ (AddOwner(l) \/ PromoteOwner(l))
  <2>1. PICK l \in Loggers, p \in Projects, u \in Users :
             <<p, u>> \in todo[l] /\ Sets(p, u, AsOwner(role[p][u])) /\ (AddOwner(l) \/ PromoteOwner(l))
    BY <1>7
  <2>2. /\ u \in Owners /\ held[l] = p
        /\ \A q \in Projects, v \in Users : (q # p \/ v # u) => role'[q][v] = role[q][v]
        /\ Rank[Highest(role'[p][u])] = 2
    BY <1>5, <2>1
  <2> SUFFICES ASSUME NEW q \in Projects, NEW v \in Users
               PROVE  /\ Rank[Highest(role'[q][v])] >= Rank[Highest(role[q][v])]
                      /\ Rank[Highest(role'[q][v])] > Rank[Highest(role[q][v])] =>
                           v \in Owners /\ \E k \in Loggers : held[k] = q
    OBVIOUS
  <2>3. CASE q = p /\ v = u
    BY <1>2, <2>2, <2>3
  <2>4. CASE q # p \/ v # u
    <3>1. Rank[Highest(role'[q][v])] = Rank[Highest(role[q][v])]
      BY <2>2, <2>4
    <3> QED  BY <1>2, <3>1
  <2> QED  BY <2>3, <2>4
<1> QED  BY <1>3, <1>6, <1>7, RoleStep

-----------------------------------------------------------------------------
(* Progress.                                                               *)

(* The steps of a pass by what a pass that has not failed has done by then.  *)
HasDefault == {"done", "end", "promote", "countOwners", "repair"}
Adopted == HasDefault \cup {"owners"}
AfterMerge == Adopted \cup {"count", "get", "insert", "adoptLogs", "adoptKeys", "adoptSettings"}
AfterSlug == AfterMerge \cup {"normalize", "merge"}
AfterConversion == AfterSlug \cup {"look", "flag", "drop"}
AfterTTL == AfterConversion \cup {"convert"}
AfterIndexes == AfterTTL \cup {"dropTTL"}

IsFiled(docs) == \A d \in docs : filed[d].form # "none"
IsMerged == \A p \in Projects, u \in Users : role[p][u]["other"] = "none"

(* What an unfailed pass of l has achieved.                                *)
Achieved(l) ==
  ~ failed[l] =>
    /\ at[l] \in AfterIndexes \cup {"indexDefault"} => "settings" \in index
    /\ at[l] \in AfterIndexes => "default" \in index
    /\ at[l] \in AfterTTL => ~ ttl
    /\ at[l] \in AfterConversion => \A d \in Docs : filed[d].form # "string"
    /\ at[l] \in AfterSlug => ~ slugIndex
    /\ at[l] = "merge" => \A p \in Projects, u \in Users : role[p][u]["other"] # "none" => <<p, u>> \in todo[l]
    /\ at[l] \in AfterMerge => IsMerged
    /\ at[l] \in Adopted \cup {"adoptKeys", "adoptSettings"} => IsFiled(Logs)
    /\ at[l] \in Adopted \cup {"adoptSettings"} => IsFiled(Keys)
    /\ at[l] \in Adopted => IsFiled(Settings)

(* Readiness, and the start of the cleanup, are only reported when true.     *)
ReportsOK(l) ==
  /\ ready[l] => at[l] = "done"
  /\ at[l] = "done" => ~ failed[l]

(* What no step makes undone. *)
Improves ==
  /\ index \subseteq index' /\ (ttl' => ttl) /\ (slugIndex' => slugIndex)
  /\ \A d \in Docs : filed'[d].form \in {"string", "none"} => filed[d].form = filed'[d].form
  /\ \A p \in Projects, u \in Users : role'[p][u]["other"] # "none" => role[p][u]["other"] # "none"

(* The steps that only look, or report. *)
Looks(l) ==
  \/ StartPass(l) \/ EndPass(l) \/ ConversionDone(l) \/ LookForSlugIndex(l) \/ FindStaleLogins(l)
  \/ CountOrphanedDocuments(l) \/ GetDefaultProject(l) \/ DefaultProjectThere(l) \/ AdoptionCollides(l)
  \/ AdoptionDone(l) \/ FindDefaultProject(l) \/ CountOwners(l) \/ ListDone(l) \/ Faults(l)

LEMMA LooksStep == ASSUME NEW l, Looks(l)  PROVE UNCHANGED store
  BY DEF Looks, StartPass, EndPass, ConversionDone, LookForSlugIndex, FindStaleLogins, CountOrphanedDocuments,
     GetDefaultProject, DefaultProjectThere, AdoptionCollides, AdoptionDone, FindDefaultProject, CountOwners,
     ListDone, Faults, StepFails, MigrationTimesOut, Crash

(* A row that is written keeps its other spelling, or loses it. *)
LEMMA RowsImprove ==
  ASSUME TypeOK, NEW p \in Projects, NEW u \in Users, NEW rows, Sets(p, u, rows),
         rows["other"] = "none" \/ rows["other"] = role[p][u]["other"]
  PROVE  \A q \in Projects, v \in Users : role'[q][v]["other"] # "none" => role[q][v]["other"] # "none"
<1>1. \A q \in Projects, v \in Users : role'[q][v] = IF q = p /\ v = u THEN rows ELSE role[q][v]
  BY DEF Sets, TypeOK
<1> QED  BY <1>1

LEMMA ImprovesStep == ASSUME TypeOK, Next  PROVE Improves
<1> USE DEF Improves, store
<1>1. ProjectType /\ DocType /\ RoleType /\ PassType
  BY TypeParts
<1>2. \A p \in Projects, u \in Users : role[p][u] \in Rows
  BY <1>1 DEF RoleType
<1>3. \A p : Absent.form = "absent" /\ Id(p).form = "id"
  BY DEF Absent, Id
<1>4. ASSUME NEW l \in Loggers, Looks(l)  PROVE Improves
  BY <1>4, LooksStep
<1>5. ASSUME NEW l \in Loggers,
             EnsureSettingsIndex(l) \/ EnsureProjectIndexes(l) \/ FlagDefault(l) \/ InsertDefaultProject(l)
      PROVE  Improves
  <2>1. UNCHANGED <<filed, role, ttl, slugIndex>>
    BY <1>5 DEF EnsureSettingsIndex, EnsureProjectIndexes, FlagDefault, InsertDefaultProject
  <2>2. index \subseteq index'
    BY <1>5 DEF EnsureSettingsIndex, EnsureProjectIndexes, FlagDefault, InsertDefaultProject
  <2> QED  BY <2>1, <2>2
<1>6. ASSUME NEW l \in Loggers, DropLegacyTTLIndex(l) \/ DropSlugIndex(l)  PROVE Improves
  <2>1. UNCHANGED <<filed, role, index>>
    BY <1>6 DEF DropLegacyTTLIndex, DropSlugIndex
  <2>2. (ttl' => ttl) /\ (slugIndex' => slugIndex)
    BY <1>6 DEF DropLegacyTTLIndex, DropSlugIndex
  <2> QED  BY <2>1, <2>2
<1>7. ASSUME NEW l \in Loggers, ConvertProjectIDs(l) \/ AdoptOrphans(l) \/ ExpireLog(l)  PROVE Improves
  <2>1. UNCHANGED <<role, index, ttl, slugIndex>>
    BY <1>7 DEF ConvertProjectIDs, AdoptOrphans, ExpireLog
  <2>2. PICK d, s : filed' = [filed EXCEPT ![d] = s] /\ s.form \in {"id", "absent"}
    BY <1>3, <1>7 DEF ConvertProjectIDs, AdoptOrphans, ExpireLog
  <2>3. \A e \in Docs : filed'[e] = filed[e] \/ filed'[e].form \in {"id", "absent"}
    BY <1>1, <2>2 DEF DocType
  <2> QED  BY <1>1, <2>1, <2>3
<1>8. ASSUME NEW l \in Loggers, MergeMemberLogin(l) \/ AddOwner(l) \/ PromoteOwner(l)  PROVE Improves
  <2>1. UNCHANGED <<filed, index, ttl, slugIndex>>
    BY <1>8 DEF MergeMemberLogin, AddOwner, PromoteOwner
  <2>2. PICK p \in Projects, u \in Users : \E rows \in {Merged(role[p][u]), AsOwner(role[p][u]), role[p][u]} : Sets(p, u, rows)
    BY <1>8 DEF MergeMemberLogin, AddOwner, PromoteOwner
  <2>3. \A rows \in {Merged(role[p][u]), AsOwner(role[p][u]), role[p][u]} :
          rows["other"] = "none" \/ rows["other"] = role[p][u]["other"]
    BY <1>2, MergedType
  <2>4. \A q \in Projects, v \in Users : role'[q][v]["other"] # "none" => role[q][v]["other"] # "none"
    BY <2>2, <2>3, RowsImprove
  <2> QED  BY <2>1, <2>4
<1>9. ASSUME NEW u \in Users, NEW p \in Projects, NEW d \in Durations, SetRetentionDays(u, p, d)  PROVE Improves
  <2>1. UNCHANGED <<role, index, ttl, slugIndex>>
    BY <1>9 DEF SetRetentionDays
  <2>2. PICK s : filed' = [filed EXCEPT ![s] = Id(p)]
    BY <1>9 DEF SetRetentionDays
  <2>3. \A e \in Docs : filed'[e] = filed[e] \/ filed'[e].form \in {"id", "absent"}
    BY <1>1, <1>3, <2>2 DEF DocType
  <2> QED  BY <1>1, <2>1, <2>3
<1>10. ASSUME NEW u \in Users, NEW p \in Projects, CreateProject(u, p) \/ RemoveProjectMember(p, u)  PROVE Improves
  <2>1. UNCHANGED <<filed, index, ttl, slugIndex>>
    BY <1>10 DEF CreateProject, RemoveProjectMember
  <2>2. \E rows \in {AsOwner(role[p][u]), [role[p][u] EXCEPT !["normalized"] = "none"]} : Sets(p, u, rows)
    BY <1>10 DEF CreateProject, RemoveProjectMember
  <2>3. \A rows \in {AsOwner(role[p][u]), [role[p][u] EXCEPT !["normalized"] = "none"]} :
          rows["other"] = role[p][u]["other"]
    BY <1>2, MergedType DEF Rows, Spellings
  <2>4. \A q \in Projects, v \in Users : role'[q][v]["other"] # "none" => role[q][v]["other"] # "none"
    BY <2>2, <2>3, RowsImprove
  <2> QED  BY <2>1, <2>4
<1>11. ASSUME NEW u \in Users, NEW p \in Projects, DeleteProject(u, p)  PROVE Improves
  <2>1. UNCHANGED <<index, ttl, slugIndex>>
    BY <1>11 DEF DeleteProject
  <2>2. \A e \in Docs : filed'[e] = filed[e] \/ filed'[e].form \in {"id", "absent"}
    BY <1>3, <1>11 DEF DeleteProject
  <2>3. \A q \in Projects, v \in Users :
          role'[q][v] = IF q = p THEN [s \in Spellings |-> "none"] ELSE role[q][v]
    BY <1>1, <1>11 DEF DeleteProject, RoleType
  <2>4. \A q \in Projects, v \in Users : role'[q][v]["other"] # "none" => role[q][v]["other"] # "none"
    BY <2>3 DEF Spellings
  <2> QED  BY <2>1, <2>2, <2>4
<1> QED  BY <1>4, <1>5, <1>6, <1>7, <1>8, <1>9, <1>10, <1>11 DEF Next, Pass, Migrate, Looks, UsersAct

(* What was achieved stays achieved. *)
LEMMA AchievedStays ==
  ASSUME NEW l \in Loggers, Achieved(l), Improves, failed'[l] = failed[l], at'[l] = at[l],
         at[l] = "merge" => todo'[l] = todo[l]
  PROVE  Achieved(l)'
<1>1. \A d \in Docs : filed'[d].form \in {"string", "none"} => filed[d].form = filed'[d].form
  BY DEF Improves
<1>2. Logs \subseteq Docs /\ Keys \subseteq Docs /\ Settings \subseteq Docs
  BY DEF Docs
<1>3. /\ IsFiled(Logs) => IsFiled(Logs)'
      /\ IsFiled(Keys) => IsFiled(Keys)'
      /\ IsFiled(Settings) => IsFiled(Settings)'
  BY <1>1, <1>2 DEF IsFiled
<1>4. (\A d \in Docs : filed[d].form # "string") => \A d \in Docs : filed'[d].form # "string"
  BY <1>1
<1>5. IsMerged => IsMerged'
  BY DEF Improves, IsMerged
<1> QED  BY <1>3, <1>4, <1>5 DEF Achieved, Improves

(* The same, when a pass goes on and has achieved no less than it had to.    *)
LEMMA AchievedGrows ==
  ASSUME NEW l \in Loggers, Improves, failed'[l] = failed[l], ~ failed[l] =>
    /\ at'[l] \in AfterIndexes \cup {"indexDefault"} => "settings" \in index'
    /\ at'[l] \in AfterIndexes => "default" \in index'
    /\ at'[l] \in AfterTTL => ~ ttl'
    /\ at'[l] \in AfterConversion => \A d \in Docs : filed[d].form # "string"
    /\ at'[l] \in AfterSlug => ~ slugIndex'
    /\ at'[l] = "merge" => \A p \in Projects, u \in Users : role'[p][u]["other"] # "none" => <<p, u>> \in todo'[l]
    /\ at'[l] \in AfterMerge => IsMerged
    /\ at'[l] \in Adopted \cup {"adoptKeys", "adoptSettings"} => IsFiled(Logs)
    /\ at'[l] \in Adopted \cup {"adoptSettings"} => IsFiled(Keys)
    /\ at'[l] \in Adopted => IsFiled(Settings)
  PROVE  Achieved(l)'
<1>1. \A d \in Docs : filed'[d].form \in {"string", "none"} => filed[d].form = filed'[d].form
  BY DEF Improves
<1>2. Logs \subseteq Docs /\ Keys \subseteq Docs /\ Settings \subseteq Docs
  BY DEF Docs
<1>3. /\ IsFiled(Logs) => IsFiled(Logs)'
      /\ IsFiled(Keys) => IsFiled(Keys)'
      /\ IsFiled(Settings) => IsFiled(Settings)'
  BY <1>1, <1>2 DEF IsFiled
<1>4. (\A d \in Docs : filed[d].form # "string") => \A d \in Docs : filed'[d].form # "string"
  BY <1>1
<1>5. IsMerged => IsMerged'
  BY DEF Improves, IsMerged
<1> QED  BY <1>3, <1>4, <1>5 DEF Achieved

(* A pass that has not failed achieves what its next step says it has.      *)
LEMMA AchievedStep ==
  ASSUME TypeOK, NEW l \in Loggers, Achieved(l), Pass(l) \/ Faults(l), Improves
  PROVE  Achieved(l)'
<1> USE DEF PassType, AtType, report, state, store, Goes,
            HasDefault, Adopted, AfterMerge, AfterSlug, AfterConversion, AfterTTL, AfterIndexes
<1>1. PassType
  BY TypeParts
<1>2. failed'[l] => Achieved(l)'
  BY DEF Achieved
<1>3. at'[l] \notin AfterIndexes \cup {"indexDefault"} => Achieved(l)'
  BY DEF Achieved
<1>4. Records(l) => failed'[l]
  BY <1>1 DEF Records
<1>5. CASE StartPass(l) \/ Crash(l)
  <2>1. at'[l] \in {"down", "indexSettings"}
    BY <1>1, <1>5 DEF StartPass, Crash
  <2> QED  BY <1>3, <2>1
<1>6. CASE StepFails(l) \/ MigrationTimesOut(l) \/ AdoptionCollides(l)
  BY <1>2, <1>4, <1>6 DEF StepFails, MigrationTimesOut, AdoptionCollides
<1>7. CASE EndPass(l)
  <2>1. CASE failed[l]
    BY <1>2, <1>7, <2>1 DEF EndPass
  <2>2. CASE ~ failed[l]
    <3>1. at[l] = "end" /\ at'[l] = "done" /\ failed'[l] = failed[l]
      BY <1>1, <1>7, <2>2 DEF EndPass
    <3> QED  BY <1>7, <3>1, AchievedGrows DEF Achieved, EndPass
  <2> QED  BY <2>1, <2>2
<1>8. CASE EnsureSettingsIndex(l)
  <2>1. failed'[l] \/ (failed'[l] = failed[l] /\ "settings" \in index' /\ at'[l] = "indexDefault")
    BY <1>1, <1>4, <1>8 DEF EnsureSettingsIndex
  <2> QED  BY <1>2, <2>1, AchievedGrows
<1>9. CASE EnsureProjectIndexes(l)
  <2>1. \/ failed'[l]
        \/ /\ failed'[l] = failed[l] /\ "default" \in index' /\ index \subseteq index'
           /\ at[l] = "indexDefault" /\ at'[l] = "dropTTL"
    BY <1>1, <1>4, <1>9 DEF EnsureProjectIndexes
  <2> QED  BY <1>2, <2>1, AchievedGrows DEF Achieved
<1>10. CASE DropLegacyTTLIndex(l)
  <2>1. at[l] = "dropTTL" /\ at'[l] = "convert" /\ UNCHANGED <<failed, index>> /\ ~ ttl'
    BY <1>1, <1>10 DEF DropLegacyTTLIndex
  <2> QED  BY <2>1, AchievedGrows DEF Achieved
<1>11. CASE ConvertProjectIDs(l) \/ AdoptOrphans(l) \/ AddOwner(l) \/ PromoteOwner(l)
  <2>1. UNCHANGED <<at, failed>> /\ at[l] # "merge"
    BY <1>11 DEF ConvertProjectIDs, AdoptOrphans, AddOwner, PromoteOwner, DocsOf
  <2> QED  BY <2>1, AchievedStays
<1>12. CASE ConversionDone(l)
  <2>1. at[l] = "convert" /\ at'[l] = "look" /\ UNCHANGED <<failed, store>>
    BY <1>1, <1>12 DEF ConversionDone
  <2>2. \A d \in Docs : filed[d].form # "string"
    BY <1>12 DEF ConversionDone, Unconverted, Under, Docs
  <2> QED  BY <2>1, <2>2, AchievedGrows DEF Achieved
<1>13. CASE LookForSlugIndex(l)
  <2>1. /\ at[l] = "look" /\ UNCHANGED <<failed, store>>
        /\ at'[l] = "flag" \/ (at'[l] = "normalize" /\ ~ slugIndex)
    BY <1>1, <1>13 DEF LookForSlugIndex
  <2> QED  BY <2>1, AchievedGrows DEF Achieved
<1>14. CASE FlagDefault(l)
  <2>1. failed'[l] \/ (at[l] = "flag" /\ at'[l] = "drop" /\ UNCHANGED <<failed, index, ttl, slugIndex>>)
    BY <1>1, <1>4, <1>14 DEF FlagDefault
  <2> QED  BY <1>2, <2>1, AchievedGrows DEF Achieved
<1>15. CASE DropSlugIndex(l)
  <2>1. at[l] = "drop" /\ at'[l] = "normalize" /\ UNCHANGED <<failed, index, ttl>> /\ ~ slugIndex'
    BY <1>1, <1>15 DEF DropSlugIndex
  <2> QED  BY <2>1, AchievedGrows DEF Achieved
<1>16. CASE FindStaleLogins(l)
  <2>1. at[l] = "normalize" /\ at'[l] = "merge" /\ UNCHANGED <<failed, store>>
    BY <1>1, <1>16 DEF FindStaleLogins
  <2>2. \A p \in Projects, u \in Users : role[p][u]["other"] # "none" => <<p, u>> \in todo'[l]
    BY <1>1, <1>16 DEF FindStaleLogins
  <2> QED  BY <2>1, <2>2, AchievedGrows DEF Achieved
<1>17. CASE MergeMemberLogin(l)
  <2>1. PICK p \in Projects, u \in Users : Takes(l, <<p, u>>) /\ Sets(p, u, Merged(role[p][u]))
    BY <1>17 DEF MergeMemberLogin
  <2>2. at[l] = "merge" /\ UNCHANGED <<at, failed, index, ttl, slugIndex, filed>>
    BY <1>17 DEF MergeMemberLogin
  <2>3. todo'[l] = todo[l] \ {<<p, u>>}
    BY <1>1, <2>1 DEF Takes
  <2>4. \A q \in Projects, v \in Users : role'[q][v] = IF q = p /\ v = u THEN Merged(role[p][u]) ELSE role[q][v]
    BY <2>1 DEF Sets, TypeOK
  <2>5. Merged(role[p][u])["other"] = "none"
    BY DEF Merged
  <2>6. ASSUME ~ failed[l], NEW q \in Projects, NEW v \in Users, role'[q][v]["other"] # "none"
        PROVE  <<q, v>> \in todo'[l]
    <3>1. ~ (q = p /\ v = u) /\ role[q][v]["other"] # "none"
      BY <2>4, <2>5, <2>6
    <3>2. <<q, v>> \in todo[l]
      BY <2>2, <2>6, <3>1 DEF Achieved
    <3> QED  BY <2>3, <3>1, <3>2
  <2> QED  BY <2>2, <2>6, AchievedGrows DEF Achieved
<1>18. CASE CountOrphanedDocuments(l)
  <2>1. /\ at[l] = "count" /\ UNCHANGED <<failed, store>>
        /\ at'[l] = "get" \/ (at'[l] = "repair" /\ Under("none", Docs) = {})
    BY <1>1, <1>18 DEF CountOrphanedDocuments
  <2>2. Under("none", Docs) = {} => IsFiled(Logs) /\ IsFiled(Keys) /\ IsFiled(Settings)
    BY DEF Under, Docs, IsFiled
  <2> QED  BY <2>1, <2>2, AchievedGrows DEF Achieved
<1>19. CASE GetDefaultProject(l) \/ InsertDefaultProject(l) \/ DefaultProjectThere(l)
  <2>1. /\ at[l] \in {"get", "insert"} /\ at'[l] \in {"insert", "adoptLogs"}
        /\ UNCHANGED <<failed, index, ttl, slugIndex>>
    BY <1>1, <1>19 DEF GetDefaultProject, InsertDefaultProject, DefaultProjectThere
  <2> QED  BY <2>1, AchievedGrows DEF Achieved
<1>20. CASE AdoptionDone(l)
  <2>1. Under("none", DocsOf[at[l]]) = {} /\ at'[l] = AfterAdopting[at[l]] /\ UNCHANGED <<failed, store>>
    BY <1>1, <1>20 DEF AdoptionDone, Orphans
  <2>2. CASE at[l] = "adoptLogs"
    <3>1. at'[l] = "adoptKeys" /\ IsFiled(Logs)
      BY <2>1, <2>2 DEF AfterAdopting, DocsOf, Under, IsFiled
    <3> QED  BY <2>1, <2>2, <3>1, AchievedGrows DEF Achieved
  <2>3. CASE at[l] = "adoptKeys"
    <3>1. at'[l] = "adoptSettings" /\ IsFiled(Keys)
      BY <2>1, <2>3 DEF AfterAdopting, DocsOf, Under, IsFiled
    <3> QED  BY <2>1, <2>3, <3>1, AchievedGrows DEF Achieved
  <2>4. CASE at[l] = "adoptSettings"
    <3>1. at'[l] = "owners" /\ IsFiled(Settings)
      BY <2>1, <2>4 DEF AfterAdopting, DocsOf, Under, IsFiled
    <3> QED  BY <2>1, <2>4, <3>1, AchievedGrows DEF Achieved
  <2> QED  BY <1>20, <2>2, <2>3, <2>4 DEF AdoptionDone, DocsOf
<1>21. CASE FindDefaultProject(l) \/ CountOwners(l)
  <2>1. /\ at[l] \in {"repair", "countOwners"} /\ at'[l] \in HasDefault
        /\ at'[l] # "repair" /\ UNCHANGED <<failed, store>>
    BY <1>1, <1>21 DEF FindDefaultProject, CountOwners
  <2> QED  BY <2>1, AchievedGrows DEF Achieved
<1>22. CASE ListDone(l)
  <2>1. todo[l] = {} /\ at'[l] = AfterList[at[l]] /\ UNCHANGED <<failed, store>>
    BY <1>1, <1>22 DEF ListDone
  <2>2. CASE at[l] = "merge"
    <3>1. at'[l] = "count"
      BY <2>1, <2>2 DEF AfterList
    <3>2. ~ failed[l] => IsMerged
      BY <2>1, <2>2 DEF Achieved, IsMerged
    <3> QED  BY <2>1, <2>2, <3>1, <3>2, AchievedGrows DEF Achieved
  <2>3. CASE at[l] = "owners"
    <3>1. at'[l] = "repair"
      BY <2>1, <2>3 DEF AfterList
    <3> QED  BY <2>1, <2>3, <3>1, AchievedGrows DEF Achieved
  <2>4. CASE at[l] = "promote"
    <3>1. at'[l] = "end"
      BY <2>1, <2>4 DEF AfterList
    <3> QED  BY <2>1, <2>4, <3>1, AchievedGrows DEF Achieved
  <2> QED  BY <1>22, <2>2, <2>3, <2>4 DEF ListDone, AfterList
<1> QED  BY <1>5, <1>6, <1>7, <1>8, <1>9, <1>10, <1>11, <1>12, <1>13, <1>14, <1>15, <1>16, <1>17, <1>18, <1>19,
            <1>20, <1>21, <1>22 DEF Pass, Migrate, Faults

(* A logger is ready when a pass of it has ended and nothing failed.         *)
LEMMA ReportsStep ==
  ASSUME TypeOK, NEW l \in Loggers, ReportsOK(l), Pass(l) \/ Faults(l)
  PROVE  ReportsOK(l)'
<1> USE DEF PassType, AtType, report, state, Goes, ReportsOK
<1>1. PassType
  BY TypeParts
<1>2. CASE EndPass(l)
  BY <1>1, <1>2 DEF EndPass
<1>3. CASE Crash(l)
  BY <1>1, <1>3 DEF Crash
<1>4. ASSUME ~ EndPass(l), ~ Crash(l)  PROVE at[l] # "done" /\ at'[l] # "done" /\ ready' = ready
  <2>1. CASE StepFails(l)
    <3>1. at[l] # "done" /\ AfterFailure[at[l]] # "done"
      BY <2>1 DEF StepFails, AfterFailure
    <3> QED  BY <1>1, <2>1, <3>1 DEF StepFails
  <2>2. CASE MigrationTimesOut(l)
    BY <1>1, <2>2 DEF MigrationTimesOut, AfterFailure
  <2>3. CASE ListDone(l)
    <3>1. at[l] # "done" /\ AfterList[at[l]] # "done"
      BY <2>3 DEF ListDone, AfterList
    <3> QED  BY <1>1, <2>3, <3>1 DEF ListDone
  <2>4. CASE AdoptionDone(l)
    <3>1. at[l] # "done" /\ AfterAdopting[at[l]] # "done"
      BY <2>4 DEF AdoptionDone, AfterAdopting, DocsOf
    <3> QED  BY <1>1, <2>4, <3>1 DEF AdoptionDone
  <2>5. CASE \/ StartPass(l) \/ EnsureSettingsIndex(l) \/ EnsureProjectIndexes(l) \/ DropLegacyTTLIndex(l)
             \/ ConvertProjectIDs(l) \/ ConversionDone(l) \/ LookForSlugIndex(l) \/ FlagDefault(l) \/ DropSlugIndex(l)
    BY <1>1, <2>5 DEF StartPass, EnsureSettingsIndex, EnsureProjectIndexes, DropLegacyTTLIndex, ConvertProjectIDs,
       ConversionDone, LookForSlugIndex, FlagDefault, DropSlugIndex
  <2>6. CASE \/ FindStaleLogins(l) \/ MergeMemberLogin(l) \/ CountOrphanedDocuments(l) \/ GetDefaultProject(l)
             \/ InsertDefaultProject(l) \/ DefaultProjectThere(l) \/ AdoptOrphans(l) \/ AdoptionCollides(l)
    BY <1>1, <2>6 DEF FindStaleLogins, MergeMemberLogin, CountOrphanedDocuments, GetDefaultProject,
       InsertDefaultProject, DefaultProjectThere, AdoptOrphans, AdoptionCollides, DocsOf
  <2>7. CASE AddOwner(l) \/ FindDefaultProject(l) \/ CountOwners(l) \/ PromoteOwner(l)
    BY <1>1, <2>7 DEF AddOwner, FindDefaultProject, CountOwners, PromoteOwner
  <2> QED  BY <1>4, <2>1, <2>2, <2>3, <2>4, <2>5, <2>6, <2>7 DEF Pass, Migrate, Faults
<1> QED  BY <1>2, <1>3, <1>4

-----------------------------------------------------------------------------
(* One Default project, and somebody who can open it.                      *)

UniqueFlag == "default" \in index => \A p, q \in flagged : p = q

(* Ids are used once. *)
ProjectsOK == flagged \subseteq projects /\ slugged \subseteq projects /\ projects \cap unborn = {}
Gone(p) == p \notin projects \cup unborn

(* A pass of logger k has still to see to the owners of p.                   *)
Owes(k, p) ==
  \/ at[k] \notin {"countOwners", "promote", "end", "done"}
  \/ failed[k]
  \/ at[k] \in {"countOwners", "promote"} /\ held[k] = p
OwnedOK == Owners # {} => \A p \in flagged : IsOwned(p) \/ \E k \in Loggers : Owes(k, p)

(* Of the owners a pass makes, it has made one when none is left.            *)
PromoteOK(l) ==
  at[l] = "promote" /\ Owners # {} => todo[l] # {} \/ IsOwned(held[l]) \/ Gone(held[l])

(* Which steps touch the projects. *)
LEMMA ProjectWriters ==
  ASSUME TypeOK, Next
  PROVE  \/ UNCHANGED <<projects, unborn, flagged, slugged>>
         \/ \E l \in Loggers : FlagDefault(l) \/ InsertDefaultProject(l)
         \/ \E u \in Users, p \in Projects : CreateProject(u, p) \/ DeleteProject(u, p)
<1>1. ASSUME NEW l \in Loggers, Looks(l)  PROVE UNCHANGED <<projects, unborn, flagged, slugged>>
  BY <1>1, LooksStep DEF store
<1>2. ASSUME NEW l \in Loggers, EnsureSettingsIndex(l) \/ EnsureProjectIndexes(l) \/ DropLegacyTTLIndex(l)
        \/ DropSlugIndex(l) \/ ConvertProjectIDs(l) \/ AdoptOrphans(l) \/ ExpireLog(l) \/ MergeMemberLogin(l)
        \/ AddOwner(l) \/ PromoteOwner(l)
      PROVE  UNCHANGED <<projects, unborn, flagged, slugged>>
  BY <1>2 DEF EnsureSettingsIndex, EnsureProjectIndexes, DropLegacyTTLIndex, DropSlugIndex, ConvertProjectIDs,
     AdoptOrphans, ExpireLog, MergeMemberLogin, AddOwner, PromoteOwner
<1>3. ASSUME NEW u \in Users, NEW p \in Projects, NEW d \in Durations,
             SetRetentionDays(u, p, d) \/ RemoveProjectMember(p, u)
      PROVE  UNCHANGED <<projects, unborn, flagged, slugged>>
  BY <1>3 DEF SetRetentionDays, RemoveProjectMember
<1>4. ASSUME NEW u \in Users, NEW p \in Projects, RemoveProjectMember(p, u)
      PROVE  UNCHANGED <<projects, unborn, flagged, slugged>>
  BY <1>4 DEF RemoveProjectMember
<1>5. ASSUME UsersAct
      PROVE  \/ UNCHANGED <<projects, unborn, flagged, slugged>>
             \/ \E u \in Users, p \in Projects : CreateProject(u, p) \/ DeleteProject(u, p)
  BY <1>3, <1>4, <1>5 DEF UsersAct
<1>6. ASSUME NEW l \in Loggers, Pass(l) \/ Faults(l) \/ ExpireLog(l)
      PROVE  \/ UNCHANGED <<projects, unborn, flagged, slugged>>
             \/ FlagDefault(l) \/ InsertDefaultProject(l)
  BY <1>1, <1>2, <1>6 DEF Pass, Migrate, Looks
<1> QED  BY <1>5, <1>6 DEF Next

LEMMA ProjectsStep ==
  ASSUME TypeOK, ProjectsOK, Next
  PROVE  /\ ProjectsOK' /\ \A p : Gone(p) => Gone(p)'
         /\ \A u \in Users, p \in Projects : DeleteProject(u, p) => Gone(p)' /\ p \notin flagged'
<1> USE DEF ProjectsOK, Gone
<1>1. CASE UNCHANGED <<projects, unborn, flagged, slugged>>
  <2>1. \A u \in Users, p \in Projects : ~ DeleteProject(u, p)
    BY <1>1 DEF DeleteProject, IsOwner
  <2> QED  BY <1>1, <2>1
<1>2. ASSUME NEW l \in Loggers, FlagDefault(l) \/ InsertDefaultProject(l)
      PROVE  ProjectsOK' /\ (\A p : Gone(p) => Gone(p)') /\ projects \subseteq projects'
  <2>1. CASE FlagDefault(l)
    BY <2>1 DEF FlagDefault
  <2>2. CASE InsertDefaultProject(l)
    BY <2>2 DEF InsertDefaultProject
  <2> QED  BY <1>2, <2>1, <2>2
<1>3. ASSUME NEW u \in Users, NEW p \in Projects, CreateProject(u, p)
      PROVE  ProjectsOK' /\ (\A q : Gone(q) => Gone(q)') /\ projects \subseteq projects'
  BY <1>3 DEF CreateProject
<1>4. ASSUME NEW u \in Users, NEW p \in Projects, DeleteProject(u, p)
      PROVE  ProjectsOK' /\ (\A q : Gone(q) => Gone(q)') /\ Gone(p)' /\ p \notin flagged'
  BY <1>4 DEF DeleteProject, IsOwner
<1>5. \A u \in Users, p \in Projects : DeleteProject(u, p) => p \in projects /\ p \notin projects'
  BY DEF DeleteProject, IsOwner
<1> QED  BY <1>1, <1>2, <1>3, <1>4, <1>5, ProjectWriters

(* A set of which two members are one. *)
LEMMA AtMostOne ==
  ASSUME NEW S, IsFiniteSet(S)
  PROVE  (Cardinality(S) < 2) <=> \A p, q \in S : p = q
<1>1. ASSUME NEW p \in S, NEW q \in S, p # q, Cardinality(S) < 2  PROVE FALSE
  <2>1. IsFiniteSet({p, q}) /\ Cardinality({p, q}) = 2
    <3>1. IsFiniteSet({p}) /\ Cardinality({p}) = 1
      BY FS_Singleton
    <3>2. q \notin {p} /\ {p} \cup {q} = {p, q}
      BY <1>1
    <3> QED  BY <3>1, <3>2, FS_AddElement, SMTT(30)
  <2>2. Cardinality({p, q}) <= Cardinality(S)
    BY FS_Subset
  <2>3. Cardinality(S) \in Nat
    BY FS_CardinalityType
  <2> QED  BY <1>1, <2>1, <2>2, <2>3
<1>2. ASSUME \A p, q \in S : p = q  PROVE Cardinality(S) < 2
  <2>1. CASE S = {}
    BY <2>1, FS_EmptySet
  <2>2. CASE S # {}
    <3>1. PICK p \in S : S = {p}
      BY <1>2, <2>2
    <3> QED  BY <3>1, FS_Singleton
  <2> QED  BY <2>1, <2>2
<1> QED  BY <1>1, <1>2

LEMMA UniqueStep ==
  ASSUME StartupAssumption, TypeOK, UniqueFlag, Next
  PROVE  UniqueFlag'
<1> USE DEF UniqueFlag
<1>1. IsFiniteSet(flagged) /\ Cardinality(flagged) \in Nat
  BY FS_Subset, FS_CardinalityType DEF StartupAssumption, TypeOK
<1>2. ASSUME NEW l \in Loggers, EnsureProjectIndexes(l)  PROVE UniqueFlag'
  BY <1>1, <1>2, AtMostOne DEF EnsureProjectIndexes
<1>3. ASSUME ~ (\E l \in Loggers : EnsureProjectIndexes(l))  PROVE "default" \in index' => "default" \in index
  <2>1. ASSUME NEW l \in Loggers, Looks(l) \/ ExpireLog(l)  PROVE index' = index
    BY <2>1, LooksStep DEF store, ExpireLog
  <2>2. ASSUME NEW l \in Loggers, EnsureSettingsIndex(l)  PROVE "default" \in index' => "default" \in index
    BY <2>2 DEF EnsureSettingsIndex
  <2>3. ASSUME NEW l \in Loggers, DropLegacyTTLIndex(l)
        \/ DropSlugIndex(l) \/ ConvertProjectIDs(l) \/ AdoptOrphans(l) \/ MergeMemberLogin(l)
        \/ AddOwner(l) \/ PromoteOwner(l) \/ FlagDefault(l) \/ InsertDefaultProject(l)
        PROVE  index' = index
    BY <2>3 DEF DropLegacyTTLIndex, DropSlugIndex, ConvertProjectIDs, AdoptOrphans, MergeMemberLogin, AddOwner,
       PromoteOwner, FlagDefault, InsertDefaultProject
  <2>4. ASSUME UsersAct  PROVE index' = index
    BY <2>4 DEF UsersAct, SetRetentionDays, CreateProject, RemoveProjectMember, DeleteProject
  <2> QED  BY <1>3, <2>1, <2>2, <2>3, <2>4 DEF Next, Pass, Migrate, Looks
<1>4. ASSUME NEW l \in Loggers, FlagDefault(l) \/ InsertDefaultProject(l), "default" \in index
      PROVE  \A p, q \in flagged' : p = q
  BY <1>4 DEF FlagDefault, InsertDefaultProject
<1>5. ASSUME ~ (\E l \in Loggers : FlagDefault(l) \/ InsertDefaultProject(l))  PROVE flagged' \subseteq flagged
  BY <1>5, ProjectWriters DEF CreateProject, DeleteProject
<1> QED  BY <1>2, <1>3, <1>4, <1>5

(* Nobody but who deletes a project takes its last owner. *)
LEMMA OwnedStays ==
  ASSUME TypeOK, Next, NEW p \in Projects, IsOwned(p), ~ \E u \in Users : DeleteProject(u, p)
  PROVE  IsOwned(p)'
<1> USE DEF IsOwned
<1>1. PICK w \in Users, t \in Spellings : role[p][w][t] = "owner"
  OBVIOUS
<1>2. \A q \in Projects, v \in Users : role[q][v] \in Rows
  BY DEF TypeOK, Rows
<1>3. ASSUME NEW q \in Projects, NEW u \in Users, NEW rows, Sets(q, u, rows),
             (\E s \in Spellings : role[q][u][s] = "owner") => (\E s \in Spellings : rows[s] = "owner")
      PROVE  IsOwned(p)'
  <2>1. \A x \in Projects, v \in Users : role'[x][v] = IF x = q /\ v = u THEN rows ELSE role[x][v]
    BY <1>3 DEF Sets, TypeOK
  <2> QED  BY <1>1, <1>3, <2>1
<1>4. ASSUME NEW q \in Projects, NEW u \in Users, Sets(q, u, AsOwner(role[q][u]))  PROVE IsOwned(p)'
  BY <1>2, <1>3, <1>4, MergedType DEF Spellings
<1>5. ASSUME NEW q \in Projects, NEW u \in Users, Sets(q, u, Merged(role[q][u]))  PROVE IsOwned(p)'
  <2>1. (\E s \in Spellings : role[q][u][s] = "owner") => Highest(role[q][u]) = "owner"
    BY <1>2, Ranks DEF Highest, Spellings, Rows
  <2> QED  BY <1>2, <1>3, <1>5, <2>1, MergedType DEF Spellings
<1>6. CASE role' = role
  BY <1>1, <1>6
<1>7. ASSUME NEW q \in Projects, NEW u \in Users, RemoveProjectMember(q, u)  PROVE IsOwned(p)'
  <2> DEFINE rows == [role[q][u] EXCEPT !["normalized"] = "none"]
  <2>1. \A x \in Projects, v \in Users : role'[x][v] = IF x = q /\ v = u THEN rows ELSE role[x][v]
    BY <1>7 DEF RemoveProjectMember, Sets, TypeOK
  <2>2. \A s \in Spellings \ {"normalized"} : rows[s] = role[q][u][s]
    BY <1>2 DEF Rows
  <2>3. CASE p = q /\ role[q][u]["normalized"] = "owner"
    <3>1. PICK v \in Users, s \in Spellings : <<v, s>> # <<u, "normalized">> /\ role[p][v][s] = "owner"
      BY <1>7, <2>3 DEF RemoveProjectMember, HasOtherOwner
    <3>2. role'[p][v][s] = "owner"
      BY <2>1, <2>2, <2>3, <3>1 DEF Spellings
    <3> QED  BY <3>2
  <2>4. CASE p # q \/ role[q][u]["normalized"] # "owner"
    <3>1. role'[p][w][t] = "owner"
      BY <1>1, <2>1, <2>2, <2>4 DEF Spellings
    <3> QED  BY <3>1
  <2> QED  BY <2>3, <2>4
<1>8. ASSUME NEW u \in Users, NEW q \in Projects, DeleteProject(u, q)  PROVE IsOwned(p)'
  <2>1. q # p
    BY <1>8
  <2>2. role'[p] = role[p]
    BY <1>8, <2>1 DEF DeleteProject, TypeOK
  <2> QED  BY <1>1, <2>2
<1>9. ASSUME NEW u \in Users, NEW q \in Projects, CreateProject(u, q)  PROVE IsOwned(p)'
  BY <1>4, <1>9 DEF CreateProject
<1>10. ASSUME NEW u \in Users, NEW q \in Projects, NEW d \in Durations, SetRetentionDays(u, q, d)  PROVE role' = role
  BY <1>10 DEF SetRetentionDays
<1>11. CASE UsersAct
  BY <1>6, <1>7, <1>8, <1>9, <1>10, <1>11 DEF UsersAct
<1>12. ASSUME ~ UsersAct  PROVE changes' = changes
  <2>1. ASSUME NEW l \in Loggers, Pass(l) \/ ExpireLog(l) \/ Faults(l)  PROVE changes' = changes
    BY <2>1 DEF Pass, Migrate, StartPass, EnsureSettingsIndex, EnsureProjectIndexes, EndPass, DropLegacyTTLIndex,
       ConvertProjectIDs, ConversionDone, LookForSlugIndex, FlagDefault, DropSlugIndex, FindStaleLogins,
       MergeMemberLogin, CountOrphanedDocuments, GetDefaultProject, InsertDefaultProject, DefaultProjectThere,
       AdoptOrphans, AdoptionCollides, AdoptionDone, AddOwner, FindDefaultProject, CountOwners, PromoteOwner,
       ListDone, ExpireLog, Faults, StepFails, MigrationTimesOut, Crash, bounds
  <2> QED  BY <1>12, <2>1 DEF Next
<1> QED  BY <1>4, <1>5, <1>6, <1>11, <1>12, RoleStep

(* A pass goes on owing, or somebody owns the project. *)
LEMMA OwesStep ==
  ASSUME TypeOK, ProjectsOK, UniqueFlag, NEW k \in Loggers, Achieved(k), PromoteOK(k), Pass(k) \/ Faults(k),
         Owners # {}, NEW p \in flagged, Owes(k, p)
  PROVE  Owes(k, p)' \/ IsOwned(p)'
<1> USE DEF PassType, AtType, report, state, store, Goes, Owes
<1>1. PassType
  BY TypeParts
<1>2. failed'[k] \/ at'[k] \notin {"countOwners", "promote", "end", "done"} => Owes(k, p)'
  OBVIOUS
<1>3. Records(k) => failed'[k]
  BY <1>1 DEF Records
<1>4. CASE StepFails(k) \/ MigrationTimesOut(k) \/ AdoptionCollides(k) \/ Crash(k)
  BY <1>1, <1>2, <1>3, <1>4 DEF StepFails, MigrationTimesOut, AdoptionCollides, Crash
<1>5. CASE \/ StartPass(k) \/ EnsureSettingsIndex(k) \/ EnsureProjectIndexes(k) \/ DropLegacyTTLIndex(k)
           \/ ConvertProjectIDs(k) \/ ConversionDone(k) \/ LookForSlugIndex(k) \/ DropSlugIndex(k)
  BY <1>1, <1>2, <1>5 DEF StartPass, EnsureSettingsIndex, EnsureProjectIndexes, DropLegacyTTLIndex,
     ConvertProjectIDs, ConversionDone, LookForSlugIndex, DropSlugIndex
<1>6. CASE FlagDefault(k)
  <2>1. failed'[k] \/ at'[k] = "drop"
    BY <1>1, <1>3, <1>6 DEF FlagDefault
  <2> QED  BY <1>2, <2>1
<1>7. CASE \/ FindStaleLogins(k) \/ MergeMemberLogin(k) \/ CountOrphanedDocuments(k) \/ GetDefaultProject(k)
           \/ InsertDefaultProject(k) \/ DefaultProjectThere(k) \/ AdoptOrphans(k) \/ AddOwner(k)
  BY <1>1, <1>2, <1>7 DEF FindStaleLogins, MergeMemberLogin, CountOrphanedDocuments, GetDefaultProject,
     InsertDefaultProject, DefaultProjectThere, AdoptOrphans, AddOwner, DocsOf
<1>8. CASE AdoptionDone(k)
  <2>1. AfterAdopting[at[k]] \notin {"countOwners", "promote", "end", "done"}
    BY <1>8 DEF AdoptionDone, AfterAdopting, DocsOf
  <2> QED  BY <1>1, <1>2, <1>8, <2>1 DEF AdoptionDone
<1>9. CASE FindDefaultProject(k)
  <2>1. CASE failed[k]
    BY <1>2, <1>9, <2>1 DEF FindDefaultProject
  <2>2. CASE ~ failed[k]
    <3>1. "default" \in index
      BY <1>9, <2>2 DEF FindDefaultProject, Achieved, AfterIndexes, AfterTTL, AfterConversion, AfterSlug, AfterMerge,
         Adopted, HasDefault
    <3>2. \A q \in flagged : q = p
      BY <3>1 DEF UniqueFlag
    <3>3. held'[k] = p /\ at'[k] = "countOwners"
      BY <1>1, <1>9, <3>2 DEF FindDefaultProject
    <3> QED  BY <3>3
  <2> QED  BY <2>1, <2>2
<1>10. CASE CountOwners(k)
  <2>1. CASE failed[k]
    BY <1>2, <1>10, <2>1 DEF CountOwners
  <2>2. CASE held[k] = p /\ ~ IsOwned(p)
    BY <1>1, <1>10, <2>2 DEF CountOwners
  <2>3. CASE IsOwned(p)
    <3>1. role' = role
      BY <1>10 DEF CountOwners
    <3> QED  BY <2>3, <3>1 DEF IsOwned
  <2>4. failed[k] \/ held[k] = p
    BY <1>10 DEF CountOwners
  <2> QED  BY <2>1, <2>2, <2>3, <2>4
<1>11. CASE PromoteOwner(k)
  <2>1. UNCHANGED <<at, failed, held>>
    BY <1>11 DEF PromoteOwner
  <2> QED  BY <2>1
<1>12. CASE ListDone(k)
  <2>1. at'[k] = AfterList[at[k]] /\ at[k] \in {"merge", "owners", "promote"} /\ todo[k] = {}
        /\ UNCHANGED <<failed, role>>
    BY <1>1, <1>12 DEF ListDone, AfterList
  <2>2. CASE at[k] \in {"merge", "owners"} \/ failed[k]
    BY <1>2, <2>1, <2>2 DEF AfterList
  <2>3. CASE at[k] = "promote" /\ ~ failed[k]
    <3>1. held[k] = p /\ ~ Gone(p)
      BY <2>3 DEF Gone, ProjectsOK
    <3>2. IsOwned(p)
      BY <2>1, <2>3, <3>1 DEF PromoteOK
    <3> QED  BY <2>1, <3>2 DEF IsOwned
  <2> QED  BY <2>1, <2>2, <2>3
<1>13. CASE EndPass(k)
  <2>1. failed[k]
    BY <1>13 DEF EndPass
  <2> QED  BY <1>2, <1>13, <2>1 DEF EndPass
<1> QED  BY <1>4, <1>5, <1>6, <1>7, <1>8, <1>9, <1>10, <1>11, <1>12, <1>13 DEF Pass, Migrate, Faults

(* Which pass a step is of. *)
LEMMA OneStep ==
  ASSUME TypeOK, \A l \in Loggers : HeldOK(l), StartupAssumption, Next
  PROVE  \/ UNCHANGED <<at, report, held, todo, state>>
         \/ \E l \in Loggers : (Pass(l) \/ Faults(l)) /\ Writes(l)
<1>1. ASSUME NEW l \in Loggers, Pass(l) \/ Faults(l)  PROVE Writes(l)
  BY <1>1, PassTypeStep
<1> QED  BY <1>1, OutsideStep DEF Next

LEMMA OwnedStep ==
  ASSUME StartupAssumption, TypeOK, \A l \in Loggers : HeldOK(l) /\ Achieved(l) /\ PromoteOK(l),
         ProjectsOK, UniqueFlag, OwnedOK, Next
  PROVE  OwnedOK'
<1> SUFFICES ASSUME Owners # {}, NEW p \in flagged'  PROVE IsOwned(p)' \/ \E k \in Loggers : Owes(k, p)'
  BY DEF OwnedOK
<1>1. PassType /\ flagged \subseteq Projects
  BY TypeParts DEF ProjectType
<1>2. ASSUME p \notin flagged  PROVE \E k \in Loggers : Owes(k, p)'
  <2>1. PICK l \in Loggers : FlagDefault(l) \/ InsertDefaultProject(l)
    BY <1>2, ProjectWriters DEF CreateProject, DeleteProject
  <2>2. at'[l] \in {"drop", "adoptLogs"}
    BY <1>1, <1>2, <2>1 DEF FlagDefault, InsertDefaultProject, Goes, PassType, AtType
  <2> QED  BY <2>2 DEF Owes
<1>3. ASSUME p \in flagged, IsOwned(p)  PROVE IsOwned(p)'
  <2>1. ~ \E u \in Users : DeleteProject(u, p)
    BY <1>1, <1>3, ProjectsStep
  <2> QED  BY <1>1, <1>3, <2>1, OwnedStays
<1>4. ASSUME p \in flagged, NEW k \in Loggers, Owes(k, p)  PROVE IsOwned(p)' \/ \E j \in Loggers : Owes(j, p)'
  <2>1. CASE at'[k] = at[k] /\ failed'[k] = failed[k] /\ held'[k] = held[k]
    BY <1>4, <2>1 DEF Owes
  <2>2. CASE Pass(k) \/ Faults(k)
    BY <1>4, <2>2, OwesStep
  <2> QED  BY <2>1, <2>2, OneStep DEF Writes, report
<1> QED  BY <1>2, <1>3, <1>4 DEF OwnedOK

LEMMA PromoteStep ==
  ASSUME StartupAssumption, TypeOK, \A l \in Loggers : HeldOK(l) /\ ListOK(l), ProjectsOK, Next,
         NEW k \in Loggers, PromoteOK(k)
  PROVE  PromoteOK(k)'
<1> USE DEF PassType, AtType, report, state, store, Goes
<1>1. PassType
  BY TypeParts
<1>2. at'[k] # "promote" => PromoteOK(k)'
  BY DEF PromoteOK
<1>3. CASE at'[k] = at[k] /\ todo'[k] = todo[k] /\ held'[k] = held[k] /\ at[k] = "promote"
  <2>1. PICK p \in Projects : p = held[k]
    BY <1>3 DEF HeldOK
  <2>2. IsOwned(p) => IsOwned(p)' \/ Gone(p)'
    <3>1. CASE \E u \in Users : DeleteProject(u, p)
      BY <3>1, ProjectsStep
    <3>2. CASE ~ \E u \in Users : DeleteProject(u, p)
      BY <3>2, OwnedStays
    <3> QED  BY <3>1, <3>2
  <2>3. Gone(p) => Gone(p)'
    BY ProjectsStep
  <2>4. Owners # {} => todo[k] # {} \/ IsOwned(p) \/ Gone(p)
    BY <1>3, <2>1 DEF PromoteOK
  <2>5. Owners # {} => todo'[k] # {} \/ IsOwned(p)' \/ Gone(p)'
    BY <1>3, <2>2, <2>3, <2>4
  <2>6. held'[k] = p
    BY <1>3, <2>1
  <2> QED  BY <2>5, <2>6 DEF PromoteOK, IsOwned, Gone
<1>4. CASE PromoteOwner(k)
  <2>1. PICK p \in Projects, u \in Users : <<p, u>> \in todo[k] /\ Sets(p, u, AsOwner(role[p][u]))
    BY <1>4 DEF PromoteOwner, Takes
  <2>2. held'[k] = p
    BY <1>4, <2>1 DEF PromoteOwner, ListOK
  <2>3. role'[p][u] = AsOwner(role[p][u]) /\ role[p][u] \in Rows
    BY <2>1 DEF Sets, TypeOK, Rows
  <2>4. role'[p][u]["normalized"] = "owner"
    BY <2>3, MergedType
  <2> QED  BY <2>2, <2>4 DEF PromoteOK, IsOwned, Spellings
<1>5. CASE CountOwners(k)
  <2>1. at'[k] = "promote" => todo'[k] = {held[k]} \X Owners
    BY <1>1, <1>5 DEF CountOwners, Memberships
  <2>2. ASSUME NEW u \in Owners, at'[k] = "promote"  PROVE todo'[k] # {}
    <3>1. <<held[k], u>> \in todo'[k]
      BY <2>1, <2>2
    <3> QED  BY <3>1
  <2>3. at'[k] = "promote" /\ Owners # {} => todo'[k] # {}
    BY <2>2
  <2> QED  BY <2>3 DEF PromoteOK
<1>6. CASE at'[k] = at[k] /\ todo'[k] = todo[k] /\ held'[k] = held[k]
  BY <1>2, <1>3, <1>6
<1>7. CASE StepFails(k) \/ MigrationTimesOut(k) \/ AdoptionCollides(k) \/ Crash(k)
  <2>1. CASE StepFails(k)
    <3>1. AfterFailure[at[k]] # "promote"
      BY <2>1 DEF StepFails, AfterFailure
    <3> QED  BY <1>1, <1>2, <2>1, <3>1 DEF StepFails
  <2> QED  BY <1>1, <1>2, <1>7, <2>1 DEF MigrationTimesOut, AdoptionCollides, Crash
<1>8. CASE \/ StartPass(k) \/ EnsureSettingsIndex(k) \/ EnsureProjectIndexes(k) \/ DropLegacyTTLIndex(k)
           \/ ConvertProjectIDs(k) \/ ConversionDone(k) \/ LookForSlugIndex(k) \/ DropSlugIndex(k) \/ FlagDefault(k)
  BY <1>1, <1>2, <1>8 DEF StartPass, EnsureSettingsIndex, EnsureProjectIndexes, DropLegacyTTLIndex,
     ConvertProjectIDs, ConversionDone, LookForSlugIndex, DropSlugIndex, FlagDefault
<1>9. CASE \/ FindStaleLogins(k) \/ MergeMemberLogin(k) \/ CountOrphanedDocuments(k) \/ GetDefaultProject(k)
           \/ InsertDefaultProject(k) \/ DefaultProjectThere(k) \/ AdoptOrphans(k) \/ AddOwner(k)
           \/ FindDefaultProject(k) \/ EndPass(k)
  BY <1>1, <1>2, <1>9 DEF FindStaleLogins, MergeMemberLogin, CountOrphanedDocuments, GetDefaultProject,
     InsertDefaultProject, DefaultProjectThere, AdoptOrphans, AddOwner, DocsOf, FindDefaultProject, EndPass
<1>10. CASE AdoptionDone(k)
  <2>1. AfterAdopting[at[k]] # "promote"
    BY <1>10 DEF AdoptionDone, AfterAdopting, DocsOf
  <2> QED  BY <1>1, <1>2, <1>10, <2>1 DEF AdoptionDone
<1>11. CASE ListDone(k)
  <2>1. AfterList[at[k]] # "promote"
    BY <1>11 DEF ListDone, AfterList
  <2> QED  BY <1>1, <1>2, <1>11, <2>1 DEF ListDone
<1>12. CASE Pass(k) \/ Faults(k)
  BY <1>4, <1>5, <1>7, <1>8, <1>9, <1>10, <1>11, <1>12 DEF Pass, Migrate, Faults
<1> QED  BY <1>6, <1>12, OneStep DEF Writes

-----------------------------------------------------------------------------
(* The invariant. *)

IInv ==
  /\ TypeOK
  /\ \A l \in Loggers : HeldOK(l) /\ ListOK(l) /\ Achieved(l) /\ ReportsOK(l) /\ PromoteOK(l)
  /\ ProjectsOK /\ UniqueFlag /\ OwnedOK

(* No logger has begun. *)
LEMMA InitIInv == ASSUME StartupAssumption, Init  PROVE IInv
<1>1. TypeOK
  BY InitType
<1>2. \A l \in Loggers : at[l] = "down" /\ ~ failed[l] /\ ~ ready[l]
  BY DEF Init
<1>3. \A l \in Loggers : HeldOK(l) /\ ListOK(l) /\ ReportsOK(l) /\ PromoteOK(l)
  BY <1>2 DEF HeldOK, ListOK, ReportsOK, PromoteOK
<1>4. \A l \in Loggers : Achieved(l)
  BY <1>2 DEF Achieved, AfterIndexes, AfterTTL, AfterConversion, AfterSlug, AfterMerge, Adopted, HasDefault
<1>5. flagged = {} /\ slugged \subseteq projects /\ projects \cap unborn = {}
  BY DEF Init, StartupAssumption, IsDatabase
<1> QED  BY <1>1, <1>3, <1>4, <1>5 DEF IInv, ProjectsOK, UniqueFlag, OwnedOK

(* Every step keeps it. *)
LEMMA NextIInv == ASSUME StartupAssumption, IInv, Next  PROVE IInv'
<1> USE DEF IInv
<1>1. Improves
  BY ImprovesStep
<1>2. UNCHANGED <<at, report, held, todo, state>> \/ \E l \in Loggers : (Pass(l) \/ Faults(l)) /\ Writes(l)
  BY OneStep
<1>3. TypeOK'
  <2>1. CASE UNCHANGED <<at, report, held, todo, state>>
    <3>1. PassType'
      BY <2>1, TypeParts DEF PassType, AtType, report, state
    <3> QED  BY <3>1, StoreTypeStep DEF TypeOK, PassType, AtType, ProjectType, DocType, RoleType, BoundType, Rows
  <2>2. ASSUME NEW l \in Loggers, Pass(l) \/ Faults(l)  PROVE TypeOK'
    <3>1. PassType'
      BY <2>2, PassTypeStep
    <3> QED  BY <3>1, StoreTypeStep DEF TypeOK, PassType, AtType, ProjectType, DocType, RoleType, BoundType, Rows
  <2> QED  BY <1>2, <2>1, <2>2
<1>4. ASSUME NEW k \in Loggers, UNCHANGED <<at[k], failed[k], held[k], todo[k], ready[k]>>
      PROVE  HeldOK(k)' /\ ListOK(k)' /\ Achieved(k)' /\ ReportsOK(k)'
  <2>1. Achieved(k)'
    BY <1>1, <1>4, AchievedStays
  <2> QED  BY <1>4, <2>1 DEF HeldOK, ListOK, ReportsOK
<1>5. ASSUME NEW k \in Loggers, Pass(k) \/ Faults(k)
      PROVE  HeldOK(k)' /\ ListOK(k)' /\ Achieved(k)' /\ ReportsOK(k)'
  BY <1>1, <1>5, HeldStep, AchievedStep, ReportsStep
<1>6. \A k \in Loggers : HeldOK(k)' /\ ListOK(k)' /\ Achieved(k)' /\ ReportsOK(k)'
  BY <1>2, <1>4, <1>5 DEF Writes, report, state
<1>7. \A k \in Loggers : PromoteOK(k)'
  BY PromoteStep
<1>8. ProjectsOK' /\ UniqueFlag' /\ OwnedOK'
  BY ProjectsStep, UniqueStep, OwnedStep
<1> QED  BY <1>3, <1>6, <1>7, <1>8

(* Stuttering keeps it. *)
LEMMA StutterIInv == ASSUME StartupAssumption, IInv, UNCHANGED vars  PROVE IInv'
<1>1. UNCHANGED <<store, at, report, held, todo, state, bounds>>
  BY DEF vars
<1>2. UNCHANGED <<projects, unborn, flagged, slugged, filed, days, role, index, ttl, slugIndex, wanted>>
  BY <1>1 DEF store
<1>3. UNCHANGED <<at, failed, converted, held, todo, serving, ready, cleanup, faults, changes>>
  BY <1>1 DEF report, state, bounds
<1>4. TypeOK'
  BY <1>2, <1>3 DEF IInv, TypeOK
<1>5. \A l \in Loggers : HeldOK(l)' /\ ListOK(l)' /\ ReportsOK(l)'
  BY <1>3 DEF IInv, HeldOK, ListOK, ReportsOK
<1>6. \A l \in Loggers : PromoteOK(l)'
  BY <1>2, <1>3 DEF IInv, PromoteOK, IsOwned, Gone
<1>7. \A l \in Loggers : Achieved(l)'
  <2>1. Improves
    BY <1>2 DEF Improves
  <2> QED  BY <1>3, <2>1, AchievedStays DEF IInv
<1>8. ProjectsOK' /\ UniqueFlag'
  BY <1>2 DEF IInv, ProjectsOK, UniqueFlag
<1>9. OwnedOK'
  BY <1>2, <1>3 DEF IInv, OwnedOK, IsOwned, Owes
<1> QED  BY <1>4, <1>5, <1>6, <1>7, <1>8, <1>9 DEF IInv

(* The invariant holds in every state, for every value of the constants.     *)
THEOREM StartupInvariant == Spec => []IInv
<1>1. Init => IInv
  BY InitIInv, StartupAssumption
<1>2. IInv /\ [Next]_vars => IInv'
  BY NextIInv, StutterIInv, StartupAssumption
<1> QED  BY <1>1, <1>2, PTL DEF Spec

(* The variables keep their types. *)
THEOREM TypeCorrect == Spec => []TypeOK
<1>1. IInv => TypeOK
  BY DEF IInv
<1> QED  BY <1>1, StartupInvariant, PTL

(* A pass that reported success has left nothing to do, for any number of    *)
(* loggers that migrate together and whatever fails (runStartup).          *)
THEOREM SuccessIsComplete == Spec => []ReadyIsDone
<1>1. IInv => ReadyIsDone
  <2> SUFFICES ASSUME IInv, NEW l \in Loggers, ready[l]
               PROVE  /\ index = {"settings", "default"} /\ ~ ttl /\ ~ slugIndex
                      /\ Under("string", Docs) = {} /\ Under("none", Docs) = {}
                      /\ \A p \in Projects, u \in Users : role[p][u]["other"] = "none"
                      /\ Cardinality(flagged) < 2
                      /\ Owners # {} /\ (\A k \in Loggers : ready[k]) => \A p \in flagged : IsOwned(p)
    BY DEF ReadyIsDone
  <2>1. at[l] = "done" /\ ~ failed[l] /\ Achieved(l)
    BY DEF IInv, ReportsOK
  <2>2. /\ "settings" \in index /\ "default" \in index /\ ~ ttl /\ ~ slugIndex
        /\ \A d \in Docs : filed[d].form # "string"
        /\ IsMerged /\ IsFiled(Logs) /\ IsFiled(Keys) /\ IsFiled(Settings)
    BY <2>1 DEF Achieved, AfterIndexes, AfterTTL, AfterConversion, AfterSlug, AfterMerge, Adopted, HasDefault
  <2>3. index = {"settings", "default"}
    BY <2>2 DEF IInv, TypeOK
  <2>4. Under("string", Docs) = {} /\ Under("none", Docs) = {}
    BY <2>2 DEF Under, IsFiled, Docs
  <2>5. Cardinality(flagged) < 2
    <3>1. IsFiniteSet(flagged)
      BY FS_Subset, StartupAssumption DEF IInv, TypeOK, StartupAssumption
    <3> QED  BY <2>2, <3>1, AtMostOne DEF IInv, UniqueFlag
  <2>6. Owners # {} /\ (\A k \in Loggers : ready[k]) => \A p \in flagged : IsOwned(p)
    BY DEF IInv, OwnedOK, ReportsOK, Owes
  <2> QED  BY <2>2, <2>3, <2>4, <2>5, <2>6 DEF IsMerged
<1> QED  BY <1>1, StartupInvariant, PTL

(* No step of a migration takes a role away, and it gives one only to a       *)
(* configured owner, in the Default project (NormalizeMemberLogins,         *)
(* ensureOwners).                                                          *)
THEOREM NoRoleIsLost == Spec => RolesKept
<1> DEFINE Kept == changes' = changes =>
             \A p \in Projects, u \in Users :
               LET before == Rank[Highest(role[p][u])]
                   after == Rank[Highest(role'[p][u])]
               IN  /\ after >= before
                   /\ after > before => u \in Owners /\ \E l \in Loggers : held[l] = p
<1>1. IInv /\ [Next]_vars => [Kept]_vars
  BY RolesStep, StartupAssumption DEF IInv
<1> QED  BY <1>1, StartupInvariant, PTL DEF RolesKept, Spec

-----------------------------------------------------------------------------
(* Retention.                                                              *)

(* Documents are filed under a project, or under none. *)
FiledOK == \A d \in Docs : filed[d].form \in {"string", "id"} <=> filed[d].project # None

(* No project has two settings under its string. *)
OneHex == \A s, t \in Settings : filed[s].form = "string" /\ filed[s] = filed[t] => s = t

NoStrings == \A d \in Docs : filed[d].form # "string"
CleanupOK == \A l \in Loggers : converted[l] \/ cleanup[l] => NoStrings

(* A pass adopts into a Default project, or into one that was deleted.       *)
AdoptsOK == \A l \in Loggers : held[l] # None => held[l] \in flagged \/ Gone(held[l])

(* What is wanted of a log is what the setting of its project says, under     *)
(* the id or else under the string; without one, and without adopted logs,   *)
(* it is the default.                                                      *)
WantedOK(p) ==
  \A x \in Logs : filed[x].project = p =>
    /\ \A s \in Settings : filed[s] = Id(p) => wanted[x] = days[s]
    /\ (\A s \in Settings : filed[s] # Id(p)) =>
         \A s \in Settings : filed[s] = Hex(p) => wanted[x] = days[s]
    /\ p \notin flagged /\ (\A s \in Settings : filed[s].project # p)
         => wanted[x] = defaultRetentionDays

RetentionInv ==
  /\ FiledOK /\ OneHex /\ CleanupOK /\ AdoptsOK
  /\ \A p \in Projects : Gone(p) \/ Doubled(p) \/ WantedOK(p)

(* What a slot is. *)
LEMMA SlotParts ==
  /\ \A p : Id(p).form = "id" /\ Id(p).project = p /\ Hex(p).form = "string" /\ Hex(p).project = p
  /\ Orphan.form = "none" /\ Absent.form = "absent" /\ Absent.project = None
  /\ \A e \in Slots : (e.form = "id" => e = Id(e.project)) /\ (e.form = "string" => e = Hex(e.project))
  BY DEF Slots, Id, Hex, Orphan, Absent

(* What is wanted of a log that joins p. *)
LEMMA ChosenIs ==
  ASSUME DocType, FiledOK, OneHex, NEW p \in Projects, p # None, ~ Doubled(p), NEW e
  PROVE  /\ \A s \in Settings : filed[s] = Id(p) => Chosen(p, e) = days[s]
         /\ (\A s \in Settings : filed[s] # Id(p)) =>
              \A s \in Settings : filed[s] = Hex(p) => Chosen(p, e) = days[s]
         /\ (\A s \in Settings : filed[s].project # p) => Chosen(p, e) = e
<1> DEFINE all == {s \in Settings : filed[s].form # "absent" /\ filed[s].project = p}
           set == IF Under("id", all) = {} THEN all ELSE Under("id", all)
<1>1. Chosen(p, e) = IF set = {} THEN e ELSE days[CHOOSE s \in set : TRUE]
  BY DEF Chosen
<1>2. \A s \in Settings : filed[s] \in Slots /\ s \in Docs
  BY DEF DocType, Docs
<1>3. Under("id", all) = {s \in Settings : filed[s] = Id(p)}
  BY <1>2, SlotParts DEF Under
<1>4. ASSUME NEW s \in Settings, filed[s] = Id(p)  PROVE Chosen(p, e) = days[s]
  <2>1. set = {s}
    BY <1>3, <1>4 DEF Doubled
  <2> QED  BY <1>1, <2>1
<1>5. ASSUME \A s \in Settings : filed[s] # Id(p), NEW s \in Settings, filed[s] = Hex(p)
      PROVE  Chosen(p, e) = days[s]
  <2>1. set = all
    BY <1>3, <1>5
  <2>2. \A t \in all : filed[t] = Hex(p)
    BY <1>2, <1>5, SlotParts DEF FiledOK, Slots
  <2>3. s \in all
    BY <1>5, SlotParts
  <2>4. all = {s}
    BY <1>5, <2>2, <2>3, SlotParts DEF OneHex
  <2> QED  BY <1>1, <2>1, <2>4
<1>6. ASSUME \A s \in Settings : filed[s].project # p  PROVE Chosen(p, e) = e
  <2>1. all = {} /\ Under("id", all) = {}
    BY <1>6 DEF Under
  <2> QED  BY <1>1, <2>1
<1> QED  BY <1>4, <1>5, <1>6

(* Which steps file a document, or choose a retention. *)
LEMMA DocWriters ==
  ASSUME TypeOK, Next
  PROVE  \/ UNCHANGED <<filed, days, wanted>>
         \/ \E l \in Loggers : ConvertProjectIDs(l) \/ AdoptOrphans(l) \/ ExpireLog(l)
         \/ \E u \in Users, p \in Projects, d \in Durations : SetRetentionDays(u, p, d)
         \/ \E u \in Users, p \in Projects : DeleteProject(u, p)
<1>1. ASSUME NEW l \in Loggers, Looks(l)  PROVE UNCHANGED <<filed, days, wanted>>
  BY <1>1, LooksStep DEF store
<1>2. ASSUME NEW l \in Loggers, EnsureSettingsIndex(l) \/ EnsureProjectIndexes(l) \/ DropLegacyTTLIndex(l)
        \/ DropSlugIndex(l) \/ FlagDefault(l) \/ InsertDefaultProject(l) \/ MergeMemberLogin(l)
        \/ AddOwner(l) \/ PromoteOwner(l)
      PROVE  UNCHANGED <<filed, days, wanted>>
  BY <1>2 DEF EnsureSettingsIndex, EnsureProjectIndexes, DropLegacyTTLIndex, DropSlugIndex, FlagDefault,
     InsertDefaultProject, MergeMemberLogin, AddOwner, PromoteOwner
<1>3. ASSUME NEW u \in Users, NEW p \in Projects, CreateProject(u, p) \/ RemoveProjectMember(p, u)
      PROVE  UNCHANGED <<filed, days, wanted>>
  BY <1>3 DEF CreateProject, RemoveProjectMember
<1>4. ASSUME UsersAct
      PROVE  \/ UNCHANGED <<filed, days, wanted>>
             \/ \E u \in Users, p \in Projects, d \in Durations : SetRetentionDays(u, p, d)
             \/ \E u \in Users, p \in Projects : DeleteProject(u, p)
  BY <1>3, <1>4 DEF UsersAct
<1>5. ASSUME NEW l \in Loggers, Pass(l) \/ Faults(l) \/ ExpireLog(l)
      PROVE  \/ UNCHANGED <<filed, days, wanted>>
             \/ ConvertProjectIDs(l) \/ AdoptOrphans(l) \/ ExpireLog(l)
  BY <1>1, <1>2, <1>5 DEF Pass, Migrate, Looks
<1> QED  BY <1>4, <1>5 DEF Next

(* A document is filed under an id, or removed. *)
LEMMA Refiled ==
  ASSUME StartupAssumption, TypeOK, \A l \in Loggers : HeldOK(l), FiledOK, Next
  PROVE  \A d \in Docs : \/ filed'[d] = filed[d] \/ filed'[d] = Absent
                         \/ \E p \in Projects : filed'[d] = Id(p)
<1>1. DocType
  BY TypeParts
<1>2. CASE UNCHANGED <<filed, days, wanted>>
  BY <1>2
<1>3. ASSUME NEW l \in Loggers, ConvertProjectIDs(l)
      PROVE  \A d \in Docs : \/ filed'[d] = filed[d] \/ filed'[d] = Absent
                             \/ \E p \in Projects : filed'[d] = Id(p)
  <2>1. PICK d \in Unconverted :
          filed' = [filed EXCEPT ![d] = IF Collides(d, filed[d].project) THEN Absent ELSE Id(filed[d].project)]
    BY <1>3 DEF ConvertProjectIDs
  <2>2. d \in Docs /\ filed[d].form = "string"
    BY <2>1 DEF Unconverted, Under, Docs
  <2>3. filed[d].project \in Projects
    BY <1>1, <2>2 DEF DocType, Slots, FiledOK
  <2> QED  BY <1>1, <2>1, <2>2, <2>3 DEF DocType
<1>4. ASSUME NEW l \in Loggers, AdoptOrphans(l)
      PROVE  \A d \in Docs : filed'[d] = filed[d] \/ \E p \in Projects : filed'[d] = Id(p)
  <2>1. held[l] \in Projects
    BY <1>4 DEF AdoptOrphans, HeldOK, DocsOf
  <2> QED  BY <1>1, <1>4, <2>1 DEF AdoptOrphans, DocType
<1>5. ASSUME NEW l \in Loggers, ExpireLog(l)
      PROVE  \A d \in Docs : filed'[d] = filed[d] \/ filed'[d] = Absent
  BY <1>1, <1>5 DEF ExpireLog, DocType
<1>6. ASSUME NEW u \in Users, NEW p \in Projects, NEW n \in Durations, SetRetentionDays(u, p, n)
      PROVE  \A d \in Docs : filed'[d] = filed[d] \/ filed'[d] = Id(p)
  BY <1>1, <1>6 DEF SetRetentionDays, DocType
<1>7. ASSUME NEW u \in Users, NEW p \in Projects, DeleteProject(u, p)
      PROVE  \A d \in Docs : filed'[d] = filed[d] \/ filed'[d] = Absent
  BY <1>7 DEF DeleteProject
<1> QED  BY <1>2, <1>3, <1>4, <1>5, <1>6, <1>7, DocWriters

(* The slots stay well-formed, and nothing is filed under a string again.    *)
LEMMA FiledStep ==
  ASSUME StartupAssumption, TypeOK, \A l \in Loggers : HeldOK(l), FiledOK, OneHex, Next
  PROVE  FiledOK' /\ OneHex' /\ (NoStrings => NoStrings')
<1>1. \A d \in Docs : \/ filed'[d] = filed[d] \/ filed'[d] = Absent
                      \/ \E p \in Projects : filed'[d] = Id(p)
  BY Refiled
<1>2. \A p \in Projects : p # None
  BY DEF StartupAssumption
<1>3. FiledOK'
  BY <1>1, <1>2, SlotParts DEF FiledOK
<1>4. \A d \in Docs : filed'[d].form = "string" => filed'[d] = filed[d]
  BY <1>1, SlotParts
<1>5. OneHex'
  BY <1>4 DEF OneHex, Docs
<1> QED  BY <1>3, <1>4, <1>5 DEF NoStrings

(* Every project_id is converted before a cleanup starts. *)
LEMMA CleanupStep ==
  ASSUME StartupAssumption, TypeOK, \A l \in Loggers : HeldOK(l), CleanupOK, NoStrings => NoStrings', Next
  PROVE  CleanupOK'
<1>1. PassType
  BY TypeParts
<1>2. CASE UNCHANGED <<at, report, held, todo, state>>
  BY <1>2 DEF CleanupOK, report, state
<1>3. ASSUME NEW l \in Loggers, Pass(l) \/ Faults(l), Writes(l)  PROVE CleanupOK'
  <2>1. CASE ConversionDone(l)
    <3>1. NoStrings
      BY <2>1 DEF ConversionDone, Unconverted, Under, NoStrings, Docs
    <3> QED  BY <3>1 DEF CleanupOK
  <2>2. CASE ~ ConversionDone(l)
    <3>1. (converted'[l] => converted[l]) /\ (cleanup'[l] => cleanup[l] \/ converted[l])
      <4>1. CASE Looks(l)
        BY <1>1, <2>2, <4>1 DEF PassType, Looks, StartPass, EndPass, LookForSlugIndex, FindStaleLogins,
           CountOrphanedDocuments, GetDefaultProject, DefaultProjectThere, AdoptionCollides, AdoptionDone,
           FindDefaultProject, CountOwners, ListDone, Faults, StepFails, MigrationTimesOut, Crash, report, state
      <4>2. CASE ~ Looks(l)
        <5>1. UNCHANGED <<converted, cleanup>>
          BY <1>3, <4>2 DEF Looks, Pass, Migrate, EnsureSettingsIndex, EnsureProjectIndexes, DropLegacyTTLIndex,
             ConvertProjectIDs, FlagDefault, DropSlugIndex, MergeMemberLogin, InsertDefaultProject, AdoptOrphans,
             AddOwner, PromoteOwner, report, state
        <5> QED  BY <5>1
      <4> QED  BY <4>1, <4>2
    <3> QED  BY <1>3, <3>1 DEF CleanupOK, Writes
  <2> QED  BY <2>1, <2>2
<1> QED  BY <1>2, <1>3, OneStep

(* A pass holds a Default project, or one that was deleted since. *)
LEMMA AdoptsStep ==
  ASSUME StartupAssumption, TypeOK, \A l \in Loggers : HeldOK(l), ProjectsOK, AdoptsOK, Next
  PROVE  AdoptsOK'
<1>1. PassType
  BY TypeParts
<1>2. ASSUME NEW p \in Projects, p \in flagged \/ Gone(p)  PROVE p \in flagged' \/ Gone(p)'
  <2>1. CASE Gone(p)
    BY <2>1, ProjectsStep
  <2>2. CASE p \in flagged
    <3>1. ASSUME NEW u \in Users, NEW q \in Projects, DeleteProject(u, q)
          PROVE  p \in flagged' \/ Gone(p)'
      <4>1. CASE p = q  BY <3>1, <4>1, ProjectsStep
      <4>2. CASE p # q  BY <2>2, <3>1, <4>2 DEF DeleteProject
      <4> QED  BY <4>1, <4>2
    <3>2. ASSUME NEW l \in Loggers, FlagDefault(l) \/ InsertDefaultProject(l)  PROVE p \in flagged'
      BY <2>2, <3>2 DEF FlagDefault, InsertDefaultProject
    <3>3. ASSUME NEW u \in Users, NEW q \in Projects, CreateProject(u, q)  PROVE p \in flagged'
      BY <2>2, <3>3 DEF CreateProject
    <3> QED  BY <2>2, <3>1, <3>2, <3>3, ProjectWriters
  <2> QED  BY <1>2, <2>1, <2>2
<1>3. ASSUME NEW l \in Loggers, Pass(l) \/ Faults(l)
      PROVE  held'[l] = held[l] \/ held'[l] = None \/ held'[l] \in flagged'
  <2>1. CASE Looks(l)
    BY <1>1, <2>1, TypeParts DEF PassType, ProjectType, Looks, StartPass, EndPass, ConversionDone, LookForSlugIndex,
       FindStaleLogins, CountOrphanedDocuments, GetDefaultProject, DefaultProjectThere, AdoptionCollides, AdoptionDone,
       FindDefaultProject, CountOwners, ListDone, Faults, StepFails, MigrationTimesOut, Crash, store
  <2>2. CASE InsertDefaultProject(l)
    BY <1>1, <2>2 DEF PassType, InsertDefaultProject
  <2>3. CASE ~ Looks(l) /\ ~ InsertDefaultProject(l)
    BY <1>3, <2>3 DEF Looks, Pass, Migrate, EnsureSettingsIndex, EnsureProjectIndexes, DropLegacyTTLIndex,
       ConvertProjectIDs, FlagDefault, DropSlugIndex, MergeMemberLogin, AdoptOrphans, AddOwner, PromoteOwner
  <2> QED  BY <2>1, <2>2, <2>3
<1>4. \A l \in Loggers : held'[l] = held[l] \/ held'[l] = None \/ held'[l] \in flagged'
  BY <1>3, OneStep DEF Writes
<1> QED  BY <1>1, <1>2, <1>4 DEF AdoptsOK, PassType

(* What is filed under the id of a project stays, unless it is deleted. *)
LEMMA SettingStays ==
  ASSUME StartupAssumption, TypeOK, \A l \in Loggers : HeldOK(l), ProjectsOK, FiledOK, Next,
         NEW p \in Projects, ~ Gone(p)', NEW s \in Settings, filed[s] = Id(p)
  PROVE  filed'[s] = Id(p)
<1>0. DocType /\ s \in Docs /\ filed[s].form = "id"
  BY TypeParts, SlotParts DEF Docs
<1>1. CASE UNCHANGED <<filed, days, wanted>>
  BY <1>1
<1>2. ASSUME NEW l \in Loggers, ConvertProjectIDs(l)  PROVE filed'[s] = Id(p)
  BY <1>0, <1>2 DEF ConvertProjectIDs, Unconverted, Under, DocType
<1>3. ASSUME NEW l \in Loggers, AdoptOrphans(l)  PROVE filed'[s] = Id(p)
  BY <1>0, <1>3 DEF AdoptOrphans, Orphans, Under, DocType
<1>4. ASSUME NEW l \in Loggers, ExpireLog(l)  PROVE filed'[s] = Id(p)
  BY <1>0, <1>4 DEF ExpireLog, DocType, StartupAssumption
<1>5. ASSUME NEW u \in Users, NEW q \in Projects, NEW n \in Durations, SetRetentionDays(u, q, n)
      PROVE  filed'[s] = Id(p)
  BY <1>0, <1>5, SlotParts DEF SetRetentionDays, DocType
<1>6. ASSUME NEW u \in Users, NEW q \in Projects, DeleteProject(u, q)  PROVE filed'[s] = Id(p)
  <2>1. p # q
    BY <1>6, ProjectsStep
  <2> QED  BY <1>0, <1>6, <2>1, SlotParts DEF DeleteProject
<1> QED  BY <1>1, <1>2, <1>3, <1>4, <1>5, <1>6, DocWriters

(* What is wanted of the logs of a project stays what its setting says.      *)
LEMMA WantedStep ==
  ASSUME StartupAssumption, IInv, RetentionInv, Next, NEW p \in Projects, ~ Gone(p)', ~ Doubled(p)'
  PROVE  WantedOK(p)'
<1>0. /\ TypeOK /\ DocType /\ ProjectsOK /\ (\A l \in Loggers : HeldOK(l)) /\ FiledOK /\ OneHex
      /\ p # None /\ ~ Gone(p)
  BY TypeParts, ProjectsStep DEF IInv, RetentionInv, StartupAssumption
<1>1. ~ Doubled(p)
  BY <1>0, SettingStays DEF Doubled
<1>2. WantedOK(p)
  BY <1>0, <1>1 DEF RetentionInv
<1>3. p \notin flagged' => p \notin flagged
  <2>1. \A u \in Users : ~ DeleteProject(u, p)
    BY <1>0, ProjectsStep
  <2> QED  BY <1>0, <2>1, ProjectWriters DEF FlagDefault, InsertDefaultProject, CreateProject, DeleteProject
<1>4. CASE UNCHANGED <<filed, days, wanted>>
  BY <1>2, <1>3, <1>4 DEF WantedOK
<1>5. ASSUME NEW l \in Loggers, ConvertProjectIDs(l)  PROVE WantedOK(p)'
  <2>1. PICK d \in Unconverted :
          filed' = [filed EXCEPT ![d] = IF Collides(d, filed[d].project) THEN Absent ELSE Id(filed[d].project)]
    BY <1>5 DEF ConvertProjectIDs
  <2>2. d \in Docs /\ filed[d] = Hex(filed[d].project) /\ UNCHANGED <<days, wanted>>
    <3>1. d \in Docs /\ filed[d].form = "string"
      BY <2>1 DEF Unconverted, Under, Docs
    <3> QED  BY <1>0, <1>5, <3>1, SlotParts DEF DocType, ConvertProjectIDs
  <2>3. /\ \A e \in Docs \ {d} : filed'[e] = filed[e]
        /\ filed'[d] = IF Collides(d, filed[d].project) THEN Absent ELSE Id(filed[d].project)
    BY <1>0, <2>1, <2>2 DEF DocType
  <2>4. \A x \in Logs : filed'[x].project = p => filed[x].project = p
    BY <1>0, <2>2, <2>3, SlotParts DEF Docs, Collides, StartupAssumption
  <2>5. CASE d \notin Settings \/ filed[d].project # p
    <3>1. \A s \in Settings : (filed'[s] = Id(p) <=> filed[s] = Id(p)) /\ (filed'[s] = Hex(p) <=> filed[s] = Hex(p))
                              /\ (filed'[s].project = p <=> filed[s].project = p)
      BY <1>0, <2>2, <2>3, <2>5, SlotParts DEF Docs
    <3> QED  BY <1>2, <1>3, <2>2, <2>4, <3>1 DEF WantedOK
  <2>6. CASE d \in Settings /\ filed[d].project = p /\ Collides(d, p)
    <3>1. PICK s \in Settings \ {d} : filed[s] = Id(p)
      BY <2>6 DEF Collides
    <3>2. filed'[s] = Id(p) /\ filed'[d] = Absent
      BY <2>3, <2>6, <3>1 DEF Docs
    <3>3. \A t \in Settings : filed'[t] = Id(p) => filed[t] = Id(p)
      BY <2>3, <3>2, SlotParts DEF Docs
    <3> QED  BY <1>2, <2>2, <2>4, <3>2, <3>3, SlotParts DEF WantedOK
  <2>7. CASE d \in Settings /\ filed[d].project = p /\ ~ Collides(d, p)
    <3>1. filed'[d] = Id(p) /\ filed[d] = Hex(p)
      BY <2>2, <2>3, <2>7
    <3>2. \A s \in Settings \ {d} : filed'[s] # Id(p)
      BY <2>7, <3>1 DEF Doubled
    <3>3. \A s \in Settings : filed[s] # Id(p)
      BY <2>3, <3>1, <3>2, SlotParts DEF Docs
    <3>4. \A x \in Logs : filed[x].project = p => wanted[x] = days[d]
      BY <1>2, <2>7, <3>1, <3>3 DEF WantedOK
    <3> QED  BY <2>2, <2>4, <2>7, <3>1, <3>2, <3>4, SlotParts DEF WantedOK
  <2> QED  BY <2>5, <2>6, <2>7
<1>6. ASSUME NEW l \in Loggers, AdoptOrphans(l)  PROVE WantedOK(p)'
  <2>1. held[l] \in Projects
    BY <1>0, <1>6 DEF AdoptOrphans, HeldOK, DocsOf
  <2>2. held[l] \in flagged \/ Gone(held[l])
    BY <2>1 DEF RetentionInv, AdoptsOK, StartupAssumption
  <2>3. PICK d \in Docs :
          /\ filed[d].form = "none" /\ ~ Collides(d, held[l])
          /\ filed' = [filed EXCEPT ![d] = Id(held[l])]
          /\ wanted' = [x \in Logs |->
               IF x = d THEN Chosen(held[l], wanted[x])
               ELSE IF d \in Settings /\ filed[x].project = held[l] THEN days[d] ELSE wanted[x]]
    <3>1. \A d \in Orphans(l) : d \in Docs /\ filed[d].form = "none"
      BY <1>6, NextSteps DEF AdoptOrphans, Orphans, Under
    <3> QED  BY <1>6, <3>1 DEF AdoptOrphans
  <2>4. /\ filed[d].project = None /\ filed'[d] = Id(held[l]) /\ days' = days
        /\ \A e \in Docs \ {d} : filed'[e] = filed[e]
    <3>1. filed[d].project = None
      BY <1>0, <2>3 DEF FiledOK
    <3>2. filed'[d] = Id(held[l]) /\ \A e \in Docs \ {d} : filed'[e] = filed[e]
      BY <1>0, <2>3 DEF DocType
    <3>3. days' = days
      BY <1>6 DEF AdoptOrphans
    <3> QED  BY <3>1, <3>2, <3>3
  <2>5. CASE held[l] # p
    <3>1. /\ \A x \in Logs : filed'[x].project = p => x # d /\ filed[x].project = p
          /\ \A s \in Settings : (filed'[s] = Id(p) <=> filed[s] = Id(p)) /\ (filed'[s] = Hex(p) <=> filed[s] = Hex(p))
                                 /\ (filed'[s].project = p <=> filed[s].project = p)
      BY <1>0, <2>4, <2>5, SlotParts DEF Docs
    <3>2. \A x \in Logs : filed'[x].project = p => wanted'[x] = wanted[x]
      BY <2>3, <2>5, <3>1
    <3> QED  BY <1>2, <1>3, <2>4, <3>1, <3>2 DEF WantedOK
  <2>6. CASE held[l] = p /\ d \in Settings
    <3>1. \A s \in Settings \ {d} : filed'[s] # Id(p)
      BY <2>4, <2>6 DEF Doubled
    <3>2. \A x \in Logs : x # d /\ (filed'[x].project = p => filed[x].project = p)
      BY <2>4, <2>6 DEF Docs, StartupAssumption
    <3>3. \A x \in Logs : filed'[x].project = p => wanted'[x] = days[d]
      BY <2>3, <2>6, <3>2
    <3> QED  BY <2>4, <2>6, <3>1, <3>3, SlotParts DEF WantedOK
  <2>7. CASE held[l] = p /\ d \notin Settings
    <3>1. \A s \in Settings : filed'[s] = filed[s]
      BY <2>4, <2>7 DEF Docs
    <3>2. p \in flagged'
      <4>1. p \in flagged
        BY <1>0, <2>2, <2>7
      <4> QED  BY <1>6, <4>1 DEF AdoptOrphans
    <3>3. ASSUME NEW x \in Logs, filed'[x].project = p
          PROVE  /\ \A s \in Settings : filed[s] = Id(p) => wanted'[x] = days[s]
                 /\ (\A s \in Settings : filed[s] # Id(p)) =>
                      \A s \in Settings : filed[s] = Hex(p) => wanted'[x] = days[s]
      <4>1. CASE x = d
        <5>1. wanted'[x] = Chosen(p, wanted[x])
          BY <2>3, <2>7, <4>1
        <5> QED  BY <1>0, <1>1, <5>1, ChosenIs
      <4>2. CASE x # d
        <5>1. wanted'[x] = wanted[x] /\ filed[x].project = p
          BY <2>3, <2>4, <2>7, <3>3, <4>2 DEF Docs
        <5> QED  BY <1>2, <5>1 DEF WantedOK
      <4> QED  BY <4>1, <4>2
    <3>4. ASSUME NEW x \in Logs, filed'[x].project = p
          PROVE  /\ \A s \in Settings : filed'[s] = Id(p) => wanted'[x] = days'[s]
                 /\ (\A s \in Settings : filed'[s] # Id(p)) =>
                      \A s \in Settings : filed'[s] = Hex(p) => wanted'[x] = days'[s]
      <4>1. UNCHANGED days /\ \A s \in Settings : filed'[s] = filed[s]
        BY <2>4, <3>1
      <4> QED  BY <3>3, <3>4, <4>1
    <3> QED  BY <3>2, <3>4 DEF WantedOK
  <2> QED  BY <2>5, <2>6, <2>7
<1>7. ASSUME NEW l \in Loggers, ExpireLog(l)  PROVE WantedOK(p)'
  <2>1. PICK x \in Logs : filed' = [filed EXCEPT ![x] = Absent]
    BY <1>7 DEF ExpireLog
  <2>2. /\ \A y \in Logs : filed'[y].project = p => filed[y].project = p
        /\ \A s \in Settings : filed'[s] = filed[s]
    BY <1>0, <2>1, SlotParts DEF DocType, Docs, StartupAssumption
  <2>3. UNCHANGED <<days, wanted>>
    BY <1>7 DEF ExpireLog
  <2> QED  BY <1>2, <1>3, <2>2, <2>3 DEF WantedOK
<1>8. ASSUME NEW u \in Users, NEW q \in Projects, NEW n \in Durations, SetRetentionDays(u, q, n)  PROVE WantedOK(p)'
  <2>1. PICK s \in Settings :
          /\ filed[s] = Id(q) \/ (filed[s] = Absent /\ \A t \in Settings : filed[t] # Id(q))
          /\ filed' = [filed EXCEPT ![s] = Id(q)] /\ days' = [days EXCEPT ![s] = n]
    BY <1>8 DEF SetRetentionDays
  <2>2. /\ filed'[s] = Id(q) /\ days'[s] = n
        /\ \A e \in Docs \ {s} : filed'[e] = filed[e]
        /\ \A t \in Settings \ {s} : days'[t] = days[t]
        /\ \A x \in Logs : x # s /\ wanted'[x] = IF filed[x].project = q THEN n ELSE wanted[x]
    BY <1>0, <1>8, <2>1 DEF DocType, Docs, SetRetentionDays, StartupAssumption
  <2>3. CASE p = q
    <3>1. \A t \in Settings \ {s} : filed'[t] # Id(p)
      BY <2>2, <2>3 DEF Doubled
    <3>2. \A x \in Logs : filed'[x].project = p => wanted'[x] = n
      BY <2>2, <2>3 DEF Docs
    <3> QED  BY <2>2, <2>3, <3>1, <3>2, SlotParts DEF WantedOK
  <2>4. CASE p # q
    <3>1. filed[s].project # p /\ filed'[s].project # p
      BY <1>0, <2>1, <2>2, <2>4, SlotParts
    <3>2. \A t \in Settings : /\ filed'[t].project = p <=> filed[t].project = p
                              /\ filed'[t].project = p => t # s /\ filed'[t] = filed[t] /\ days'[t] = days[t]
      BY <2>2, <3>1 DEF Docs
    <3>3. \A t \in Settings : /\ (filed'[t] = Id(p) => filed[t] = Id(p) /\ days'[t] = days[t])
                              /\ (filed[t] = Id(p) => filed'[t] = Id(p))
                              /\ (filed'[t] = Hex(p) => filed[t] = Hex(p) /\ days'[t] = days[t])
      BY <3>1, <3>2, <2>2, SlotParts DEF Docs
    <3>4. \A x \in Logs : filed'[x].project = p => filed[x].project = p /\ wanted'[x] = wanted[x]
      BY <2>2, <2>4 DEF Docs
    <3>5. ASSUME NEW x \in Logs, filed'[x].project = p
          PROVE  /\ \A t \in Settings : filed'[t] = Id(p) => wanted'[x] = days'[t]
                 /\ (\A t \in Settings : filed'[t] # Id(p)) =>
                      \A t \in Settings : filed'[t] = Hex(p) => wanted'[x] = days'[t]
      BY <1>2, <3>3, <3>4, <3>5 DEF WantedOK
    <3>6. ASSUME NEW x \in Logs, filed'[x].project = p, p \notin flagged',
                 \A t \in Settings : filed'[t].project # p
          PROVE  wanted'[x] = defaultRetentionDays
      BY <1>2, <1>3, <3>2, <3>4, <3>6 DEF WantedOK
    <3> QED  BY <3>5, <3>6 DEF WantedOK
  <2> QED  BY <2>3, <2>4
<1>9. ASSUME NEW u \in Users, NEW q \in Projects, DeleteProject(u, q)  PROVE WantedOK(p)'
  <2>1. p # q
    BY <1>0, <1>9, ProjectsStep
  <2>2. \A d \in Docs : filed'[d] = IF d \notin Logs /\ filed[d] = Id(q) THEN Absent ELSE filed[d]
    BY <1>9 DEF DeleteProject
  <2>3. \A d \in Docs : /\ filed'[d].project = p <=> filed[d].project = p
                        /\ filed'[d].project = p => filed'[d] = filed[d]
    BY <1>0, <2>1, <2>2, SlotParts
  <2>4. \A t \in Settings : (filed'[t] = Id(p) <=> filed[t] = Id(p)) /\ (filed'[t] = Hex(p) <=> filed[t] = Hex(p))
                            /\ (filed'[t].project = p <=> filed[t].project = p)
    BY <2>1, <2>2, <2>3, SlotParts DEF Docs
  <2>5. \A x \in Logs : filed'[x].project = p => filed[x].project = p
    BY <2>3 DEF Docs
  <2>6. UNCHANGED <<days, wanted>>
    BY <1>9 DEF DeleteProject
  <2> QED  BY <1>2, <1>3, <2>4, <2>5, <2>6 DEF WantedOK
<1> QED  BY <1>0, <1>4, <1>5, <1>6, <1>7, <1>8, <1>9, DocWriters

(* The initial databases: a project has at most one setting.                 *)
LEMMA InitRetention == ASSUME StartupAssumption, Init  PROVE RetentionInv
<1>1. PICK db \in Legacies : projects = db.projects /\ filed = db.filed /\ days = db.days
  BY DEF Init
<1>2. /\ \A d \in Docs : filed[d] \in {Orphan, Absent} \cup [form : {"string", "id"}, project : Projects]
      /\ \A s, t \in Settings : filed[s].project # None /\ filed[s].project = filed[t].project => s = t
  BY <1>1 DEF StartupAssumption, IsDatabase
<1>3. DocType
  BY InitType, TypeParts
<1>4. FiledOK
  BY <1>2 DEF FiledOK, Orphan, Absent, StartupAssumption
<1>5. OneHex
  BY <1>2, <1>4 DEF OneHex, FiledOK, Docs
<1>6. CleanupOK /\ AdoptsOK
  BY DEF Init, CleanupOK, AdoptsOK
<1>7. ASSUME NEW p \in Projects  PROVE ~ Doubled(p) /\ WantedOK(p)
  <2>1. p # None
    BY DEF StartupAssumption
  <2>2. ~ Doubled(p)
    BY <1>2, <2>1, SlotParts DEF Doubled
  <2>3. ASSUME NEW x \in Logs, filed[x].project = p  PROVE wanted[x] = Chosen(p, defaultRetentionDays)
    BY <2>3 DEF Init
  <2> QED  BY <1>3, <1>4, <1>5, <2>1, <2>2, <2>3, ChosenIs DEF WantedOK
<1> QED  BY <1>4, <1>5, <1>6, <1>7 DEF RetentionInv

(* Every step keeps the invariant of retention. *)
LEMMA NextRetention == ASSUME StartupAssumption, IInv, RetentionInv, Next  PROVE RetentionInv'
<1>1. FiledOK' /\ OneHex' /\ CleanupOK' /\ AdoptsOK'
  BY FiledStep, CleanupStep, AdoptsStep DEF IInv, RetentionInv
<1>2. \A p \in Projects : Gone(p)' \/ Doubled(p)' \/ WantedOK(p)'
  BY WantedStep
<1> QED  BY <1>1, <1>2 DEF RetentionInv

(* Stuttering keeps it. *)
LEMMA StutterRetention == ASSUME RetentionInv, UNCHANGED vars  PROVE RetentionInv'
<1>1. UNCHANGED <<projects, unborn, flagged, filed, days, wanted, converted, cleanup, held>>
  BY DEF vars, store, report, state
<1>2. FiledOK' /\ OneHex' /\ CleanupOK' /\ AdoptsOK'
  BY <1>1 DEF RetentionInv, FiledOK, OneHex, CleanupOK, AdoptsOK, NoStrings, Gone
<1>3. \A p \in Projects : Gone(p)' \/ Doubled(p)' \/ WantedOK(p)'
  BY <1>1 DEF RetentionInv, Gone, Doubled, WantedOK
<1> QED  BY <1>2, <1>3 DEF RetentionInv

(* No log goes early, but from a Default project without a setting. *)
LEMMA ExpireStep ==
  ASSUME StartupAssumption, IInv, RetentionInv, Next, NEW x \in Logs, ExpiresEarly(x)
  PROVE  LET p == filed[x].project
         IN  Doubled(p) \/ (p \in flagged /\ \A s \in Settings : filed[s] # Id(p))
<1>0. /\ TypeOK /\ DocType /\ x \in Docs /\ (\A l \in Loggers : HeldOK(l)) /\ FiledOK /\ ProjectsOK
      /\ filed[x].form # "absent" /\ filed'[x] = Absent /\ ~ Outlived(Age[x], wanted[x])
  BY TypeParts DEF IInv, RetentionInv, ExpiresEarly, IsThere, Docs
<1>1. filed'[x] # filed[x]
  BY <1>0, SlotParts
<1>2. \E l \in Loggers : ExpireLog(l)
  <2>1. ASSUME NEW l \in Loggers, ConvertProjectIDs(l)  PROVE FALSE
    BY <1>0, <1>1, <2>1, SlotParts DEF ConvertProjectIDs, Collides, DocType, StartupAssumption
  <2>2. ASSUME NEW l \in Loggers, AdoptOrphans(l)  PROVE FALSE
    BY <1>0, <1>1, <2>2, SlotParts DEF AdoptOrphans, DocType
  <2>3. ASSUME NEW u \in Users, NEW p \in Projects, NEW d \in Durations, SetRetentionDays(u, p, d)  PROVE FALSE
    BY <1>0, <1>1, <2>3, SlotParts DEF SetRetentionDays, DocType
  <2>4. ASSUME NEW u \in Users, NEW p \in Projects, DeleteProject(u, p)  PROVE FALSE
    BY <1>0, <1>1, <2>4 DEF DeleteProject
  <2> QED  BY <1>0, <1>1, <2>1, <2>2, <2>3, <2>4, DocWriters
<1>3. PICK l \in Loggers, p \in projects, y \in Logs :
        /\ cleanup[l] /\ filed[y] = Id(p) /\ \E d \in Retentions(p) : Outlived(Age[y], d)
        /\ filed' = [filed EXCEPT ![y] = Absent]
  BY <1>2 DEF ExpireLog
<1>4. y = x
  BY <1>0, <1>1, <1>3 DEF DocType, Docs
<1>5. filed[x] = Id(p) /\ filed[x].project = p /\ p \in Projects /\ ~ Gone(p)
  BY <1>0, <1>3, <1>4, SlotParts, TypeParts DEF ProjectType, Gone
<1>6. PICK d \in Retentions(p) : Outlived(Age[x], d)
  BY <1>3, <1>4
<1>7. d # wanted[x]
  BY <1>0, <1>6
<1>8. ASSUME ~ Doubled(p)  PROVE p \in flagged /\ \A s \in Settings : filed[s] # Id(p)
  <2>1. WantedOK(p)
    BY <1>5, <1>8 DEF RetentionInv
  <2>2. \A s \in Settings : filed[s] # Id(p)
    <3>1. ASSUME NEW s \in Settings, filed[s] = Id(p)  PROVE FALSE
      <4>1. d \in {days[t] : t \in {t \in Settings : filed[t] = Id(p)}}
        BY <1>6, <3>1 DEF Retentions
      <4> QED  BY <1>5, <1>7, <2>1, <4>1 DEF WantedOK
    <3> QED  BY <3>1
  <2>3. d = defaultRetentionDays
    BY <1>6, <2>2 DEF Retentions
  <2>4. NoStrings
    BY <1>3 DEF RetentionInv, CleanupOK
  <2>5. \A s \in Settings : filed[s].project # p
    <3>1. ASSUME NEW s \in Settings, filed[s].project = p  PROVE FALSE
      <4>1. s \in Docs /\ filed[s] \in Slots /\ p # None
        BY <1>0, <1>5 DEF Docs, DocType, StartupAssumption
      <4>2. filed[s].form = "id"
        BY <1>0, <2>4, <3>1, <4>1 DEF FiledOK, NoStrings
      <4> QED  BY <2>2, <3>1, <4>1, <4>2, SlotParts
    <3> QED  BY <3>1
  <2> QED  BY <1>5, <1>7, <2>1, <2>2, <2>3, <2>5 DEF WantedOK
<1> QED  BY <1>5, <1>8

(* What a project has chosen to keep its logs for holds through the migration *)
(* and after it, for any number of loggers and databases, whatever fails;   *)
(* only a Default project without a setting loses logs early (onConverted,  *)
(* convertProjectIDs, MigrateOrphansToDefaultProject).                     *)
THEOREM RetentionIsKept == Spec => ChosenRetentionHolds
<1> DEFINE Holds == \A x \in Logs : ExpiresEarly(x) =>
             LET p == filed[x].project
             IN  Doubled(p) \/ (p \in flagged /\ \A s \in Settings : filed[s] # Id(p))
<1>1. Init => RetentionInv
  BY InitRetention, StartupAssumption
<1>2. IInv /\ RetentionInv /\ [Next]_vars => RetentionInv'
  BY NextRetention, StutterRetention, StartupAssumption
<1>3. IInv /\ RetentionInv /\ [Next]_vars => [Holds]_vars
  BY ExpireStep, StartupAssumption
<1> QED  BY <1>1, <1>2, <1>3, StartupInvariant, PTL DEF ChosenRetentionHolds, Spec

=============================================================================
