-------------------------- MODULE RetentionProofs --------------------------
(***************************************************************************)
(* No log of a living project is deleted before its time: proved for all    *)
(* projects, logs, settings, clocks and failures.                          *)
(***************************************************************************)
EXTENDS RetentionProperties, SequencesExt, SequenceTheorems, TLAPS

(* What RequestPurge adds to the queue of purges. *)
LEMMA ToSetAppend ==
  ASSUME NEW S, NEW s \in Seq(S), NEW x \in S
  PROVE  Append(s, x) \in Seq(S) /\ ToSet(Append(s, x)) = ToSet(s) \cup {x}
<1>1. /\ DOMAIN s = 1..Len(s) /\ DOMAIN Append(s, x) = 1..(Len(s) + 1)
      /\ \A i \in 1..Len(s) : Append(s, x)[i] = s[i]
      /\ Append(s, x)[Len(s) + 1] = x /\ Len(s) \in Nat /\ Append(s, x) \in Seq(S)
  BY AppendProperties, LenProperties
<1> QED  BY <1>1 DEF ToSet

(* What TakePurge takes from it. *)
LEMMA ToSetHeadTail ==
  ASSUME NEW S, NEW s \in Seq(S), s # <<>>
  PROVE  /\ Head(s) \in S /\ Tail(s) \in Seq(S)
         /\ ToSet(s) = {Head(s)} \cup ToSet(Tail(s))
<1>1. /\ Head(s) \in S /\ Tail(s) \in Seq(S) /\ Len(s) \in Nat \ {0}
      /\ DOMAIN s = 1..Len(s) /\ DOMAIN Tail(s) = 1..(Len(s) - 1)
      /\ Head(s) = s[1] /\ \A i \in 1..(Len(s) - 1) : Tail(s)[i] = s[i + 1]
  BY HeadTailProperties, EmptySeq, LenProperties
<1>2. \A i \in 1..Len(s) : i = 1 \/ (i - 1 \in DOMAIN Tail(s) /\ s[i] = Tail(s)[i - 1])
  BY <1>1
<1>3. \A i \in 1..Len(s) : s[i] \in {Head(s)} \cup ToSet(Tail(s))
  BY <1>1, <1>2 DEF ToSet
<1>4. ToSet(Tail(s)) \subseteq ToSet(s) /\ Head(s) \in ToSet(s)
  BY <1>1 DEF ToSet
<1>5. \A x \in ToSet(s) : \E i \in 1..Len(s) : x = s[i]
  BY <1>1 DEF ToSet
<1> QED  BY <1>1, <1>3, <1>4, <1>5

IsDeleted(S) == \A p \in S : project[p] = "deleted"

(* Who is waiting for a purge is gone for good. *)
PurgesOK == IsDeleted(deleted) /\ IsDeleted(ToSet(purges))

(* An event is let in only when its project exists, so the ids the sweep    *)
(* reads are of projects that existed by then: those that are not among the *)
(* living ones read after that have been deleted.                           *)
SweepOK ==
  /\ \A l \in Logs : log[l] # "none" => project[Of(l)] # "none"
  /\ job = "projects" => \A p \in todo : project[p] # "none"
  /\ job \in {"sweep", "orphaned"} => IsDeleted(todo)
  /\ job \in {"orphaned", "exists", "purge"} => IsDeleted(current)

(* What the history variable least is: no retention since was shorter.      *)
LeastOK == \A l \in Stored : ~ LowersRetention(least[l], retention[Of(l)])

(* What expireLogs is about to delete was there when the retention was read, *)
(* and is older than that; no other clock can date a new log before cutoff. *)
DueOK ==
  job = "expired" =>
    /\ cutoff + MaxSkew <= now
    /\ \A l \in Stored : Of(l) \in current /\ created[l] < cutoff =>
         least[l] # 0 /\ created[l] + least[l] < now

IInv == TypeOK /\ PurgesOK /\ SweepOK /\ LeastOK /\ DueOK

(* The first component of a log is its project. *)
LEMMA OfType == ASSUME RetentionAssumption, NEW l \in Logs  PROVE Of(l) \in Projects
  BY DEF RetentionAssumption, Of

(* The loop starts with nothing to delete. *)
LEMMA InitIInv == ASSUME RetentionAssumption, Init  PROVE IInv
<1>1. <<>> \in Seq(Projects) /\ Len(<<>>) = 0 /\ ToSet(<<>>) = {}
  BY DEF ToSet
<1>2. TypeOK
  BY <1>1 DEF Init, TypeOK, Jobs, RetentionAssumption
<1>3. PurgesOK /\ SweepOK /\ LeastOK /\ DueOK
  BY <1>1 DEF Init, PurgesOK, IsDeleted, SweepOK, LeastOK, DueOK, Stored
<1> QED  BY <1>2, <1>3 DEF IInv

-----------------------------------------------------------------------------
(* Types.                                                                  *)
LEMMA TypeStep == ASSUME RetentionAssumption, TypeOK, [Next]_vars  PROVE TypeOK'
<1> USE DEF TypeOK, worldVars, settingVars, logVars, jobVars, loopless
<1>1. CASE UNCHANGED vars
  BY <1>1 DEF vars
<1>2. CASE Tick
  BY <1>2 DEF Tick, RetentionAssumption
<1>3. ASSUME NEW p \in Projects, CreateProject(p)  PROVE TypeOK'
  BY <1>3 DEF CreateProject
<1>4. ASSUME NEW p \in Projects, DeleteProject(p)  PROVE TypeOK'
  BY <1>4 DEF DeleteProject, Retains, RetentionAssumption
<1>5. ASSUME NEW p \in Projects, RequestPurge(p)  PROVE TypeOK'
  <2>1. purges' \in Seq(Projects) /\ Len(purges') <= QueueSize
    BY <1>5 DEF RequestPurge, RetentionAssumption
  <2> QED  BY <1>5, <2>1 DEF RequestPurge
<1>6. ASSUME NEW l \in Logs, Accept(l)  PROVE TypeOK'
  BY <1>6 DEF Accept
<1>7. ASSUME NEW l \in Logs, Insert(l)  PROVE TypeOK'
  <2>1. created' \in [Logs -> Int]
    BY <1>7 DEF Insert, RetentionAssumption
  <2>2. least' \in [Logs -> Days]
    BY <1>7, OfType DEF Insert
  <2> QED  BY <1>7, <2>1, <2>2 DEF Insert
<1>8. ASSUME NEW u \in Updates, RequestUpdate(u)  PROVE TypeOK'
  BY <1>8 DEF RequestUpdate, Requests, Live
<1>9. ASSUME NEW r \in pending, SetRetentionDays(r)  PROVE TypeOK'
  BY <1>9 DEF SetRetentionDays, Retains, Requests
<1>10. CASE StartPass
  BY <1>10 DEF StartPass, Jobs
<1>11. CASE TakePurge
  <2>1. Tail(purges) \in Seq(Projects) /\ Len(Tail(purges)) <= QueueSize
        /\ Head(purges) \in Projects
    BY <1>11 DEF TakePurge, RetentionAssumption
  <2> QED  BY <1>11, <2>1 DEF TakePurge, Jobs
<1>12. CASE GetAllProjects
  BY <1>12 DEF GetAllProjects, Jobs, Live
<1>13. ASSUME NEW p \in Projects, Expire(p)  PROVE TypeOK'
  <2>1. retention[p] \in Days /\ now \in 0..MaxTime
    OBVIOUS
  <2>2. now \in Int /\ retention[p] \in Int
    <3>1. MaxTime \in Nat /\ Days \subseteq Nat
      BY DEF RetentionAssumption
    <3>2. now \in Int
      BY <2>1, <3>1
    <3>3. retention[p] \in Nat
      BY <2>1, <3>1
    <3> QED  BY <3>2, <3>3
  <2> QED  BY <1>13, <2>2 DEF Expire, Jobs
<1>14. CASE StartSweep
  BY <1>14 DEF StartSweep, Jobs, RetentionAssumption
<1>15. CASE DistinctProjectIDs
  BY <1>15, OfType DEF DistinctProjectIDs, Jobs, Stored
<1>16. CASE FindProjects
  BY <1>16 DEF FindProjects, Jobs
<1>17. ASSUME NEW p \in Projects, Sweep(p)  PROVE TypeOK'
  BY <1>17 DEF Sweep, Jobs
<1>18. CASE EndPass
  BY <1>18 DEF EndPass, Leave, Jobs
<1>19. CASE ProjectExists
  BY <1>19 DEF ProjectExists, Leave, Jobs
<1>20. CASE DeleteBatch
  <2>1. job' \in Jobs /\ current' \in SUBSET Projects /\ cutoff' \in Int
    BY <1>20 DEF DeleteBatch, AfterDelete, Leave, Jobs
  <2>2. /\ log' \in [Logs -> {"none", "accepted", "stored", "gone"}]
        /\ created' \in [Logs -> Int] /\ least' \in [Logs -> Days]
    BY <1>20 DEF DeleteBatch, RetentionAssumption
  <2> QED  BY <1>20, <2>1, <2>2 DEF DeleteBatch
<1>21. CASE CallFails
  <2>1. job' \in Jobs
    BY <1>21 DEF CallFails, AfterFailure, Leave, Jobs
  <2> QED  BY <1>21, <2>1 DEF CallFails, Leave, RetentionAssumption
<1>22. ASSUME NEW p \in Projects, RetentionFails(p)  PROVE TypeOK'
  BY <1>22 DEF RetentionFails, RetentionAssumption
<1>23. CASE ProjectTimesOut
  BY <1>23 DEF ProjectTimesOut, Leave, Jobs
<1>24. CASE Restart
  BY <1>24 DEF Restart, Leave, Jobs, RetentionAssumption
<1> QED
  BY <1>1, <1>2, <1>3, <1>4, <1>5, <1>6, <1>7, <1>8, <1>9, <1>10, <1>11, <1>12, <1>13, <1>14,
     <1>15, <1>16, <1>17, <1>18, <1>19, <1>20, <1>21, <1>22, <1>23, <1>24
  DEF Next, World, Loop, Faults

-----------------------------------------------------------------------------
(* A deleted project stays deleted, and one that exists has existed since.  *)
LEMMA ProjectStep ==
  ASSUME TypeOK, [Next]_vars, NEW p \in Projects
  PROVE  /\ project[p] = "deleted" => project'[p] = "deleted"
         /\ project[p] # "none" => project'[p] # "none"
<1> USE DEF TypeOK, worldVars
<1>1. CASE UNCHANGED project
  BY <1>1
<1>2. ASSUME NEW q \in Projects, CreateProject(q) \/ DeleteProject(q)
      PROVE  /\ project[p] = "deleted" => project'[p] = "deleted"
             /\ project[p] # "none" => project'[p] # "none"
  BY <1>2 DEF CreateProject, DeleteProject
<1>3. ASSUME World, \A q \in Projects : ~ CreateProject(q) /\ ~ DeleteProject(q)
      PROVE  UNCHANGED project
  BY <1>3 DEF World, Tick, RequestPurge, Accept, Insert, RequestUpdate, SetRetentionDays
<1>4. ASSUME Loop  PROVE UNCHANGED project
  BY <1>4 DEF Loop, loopless, StartPass, TakePurge, GetAllProjects, Expire, ProjectTimesOut,
    StartSweep, DistinctProjectIDs, FindProjects, Sweep, EndPass, ProjectExists, DeleteBatch
<1>5. ASSUME Faults  PROVE UNCHANGED project
  BY <1>5 DEF Faults, CallFails, RetentionFails, Restart
<1>6. UNCHANGED vars => UNCHANGED project
  BY DEF vars
<1> QED  BY <1>1, <1>2, <1>3, <1>4, <1>5, <1>6 DEF Next

(* The queue holds projects. *)
LEMMA ToSetProjects == ASSUME NEW q \in Seq(Projects)  PROVE ToSet(q) \subseteq Projects
  BY DEF ToSet

(* requestPurge is called only after the transaction of DeleteProject.     *)
LEMMA PurgesStep ==
  ASSUME RetentionAssumption, TypeOK, PurgesOK, [Next]_vars  PROVE PurgesOK'
<1> USE DEF PurgesOK
<1>1. \A p \in deleted \cup ToSet(purges) : project[p] = "deleted" /\ project'[p] = "deleted"
  BY ToSetProjects, ProjectStep DEF IsDeleted, TypeOK
<1>2. ASSUME UNCHANGED <<deleted, purges>>  PROVE PurgesOK'
  BY <1>2, <1>1 DEF IsDeleted
<1>3. ASSUME NEW p \in Projects, DeleteProject(p)  PROVE PurgesOK'
  <2>1. project'[p] = "deleted" /\ deleted' = deleted \cup {p} /\ purges' = purges
    BY <1>3 DEF DeleteProject, TypeOK
  <2> QED  BY <1>1, <2>1 DEF IsDeleted
<1>4. ASSUME NEW p \in Projects, RequestPurge(p)  PROVE PurgesOK'
  <2>1. ToSet(Append(purges, p)) = ToSet(purges) \cup {p}
    BY ToSetAppend DEF TypeOK
  <2>2. p \in deleted /\ deleted' \subseteq deleted
    BY <1>4 DEF RequestPurge
  <2>3. purges' = purges \/ purges' = Append(purges, p)
    BY <1>4 DEF RequestPurge
  <2>4. ToSet(purges') = ToSet(purges) \/ ToSet(purges') = ToSet(Append(purges, p))
    BY <2>3
  <2> QED  BY <1>1, <2>1, <2>2, <2>4 DEF IsDeleted
<1>5. CASE TakePurge
  <2>1. ToSet(Tail(purges)) \subseteq ToSet(purges)
    BY <1>5, ToSetHeadTail DEF TakePurge, TypeOK
  <2> QED  BY <1>1, <2>1, <1>5 DEF TakePurge, IsDeleted
<1>6. CASE Restart
  <2>1. ToSet(<<>>) = {}
    BY DEF ToSet
  <2> QED  BY <1>1, <2>1, <1>6 DEF Restart, IsDeleted
<1>7. ASSUME World, \A p \in Projects : ~ DeleteProject(p) /\ ~ RequestPurge(p)
      PROVE  UNCHANGED <<deleted, purges>>
  BY <1>7 DEF World, Tick, CreateProject, Accept, Insert, RequestUpdate, SetRetentionDays, worldVars
<1>8. ASSUME Loop, ~ TakePurge  PROVE UNCHANGED <<deleted, purges>>
  BY <1>8 DEF Loop, loopless, StartPass, GetAllProjects, Expire, ProjectTimesOut, StartSweep,
    DistinctProjectIDs, FindProjects, Sweep, EndPass, ProjectExists, DeleteBatch, worldVars
<1>9. ASSUME Faults, ~ Restart  PROVE UNCHANGED <<deleted, purges>>
  BY <1>9 DEF Faults, CallFails, RetentionFails, worldVars
<1>10. UNCHANGED vars => UNCHANGED <<deleted, purges>>
  BY DEF vars, worldVars
<1> QED  BY <1>2, <1>3, <1>4, <1>5, <1>6, <1>7, <1>8, <1>9, <1>10 DEF Next

-----------------------------------------------------------------------------
(* Outside the loop nothing touches its variables, and only Accept and      *)
(* Insert touch where the logs are.                                         *)
LEMMA SweepStep ==
  ASSUME RetentionAssumption, TypeOK, PurgesOK, SweepOK, [Next]_vars  PROVE SweepOK'
<1> DEFINE There == \A l \in Logs : log[l] # "none" => project[Of(l)] # "none"
<1>1. \A p \in Projects : /\ project[p] = "deleted" => project'[p] = "deleted"
                          /\ project[p] # "none" => project'[p] # "none"
  BY ProjectStep
<1>2. ASSUME \A l \in Logs : log'[l] # "none" => log[l] # "none"  PROVE There'
  BY <1>1, <1>2, OfType DEF SweepOK
<1>3. ASSUME UNCHANGED <<job, todo, current>>, There'  PROVE SweepOK'
  BY <1>1, <1>3 DEF SweepOK, IsDeleted, TypeOK
<1>4. ASSUME UNCHANGED log  PROVE There'
  BY <1>2, <1>4
<1>5. ASSUME NEW l \in Logs, Accept(l)  PROVE SweepOK'
  <2>1. There'
    BY <1>1, <1>5, OfType DEF Accept, Live, SweepOK, TypeOK, worldVars
  <2> QED  BY <1>3, <1>5, <2>1 DEF Accept, jobVars
<1>6. ASSUME NEW l \in Logs, Insert(l)  PROVE SweepOK'
  <2>1. There'
    BY <1>2, <1>6 DEF Insert, TypeOK
  <2> QED  BY <1>3, <1>6, <2>1 DEF Insert, jobVars
<1>7. ASSUME World, \A l \in Logs : ~ Accept(l) /\ ~ Insert(l)
      PROVE  UNCHANGED <<log, job, todo, current>>
  BY <1>7 DEF World, Tick, CreateProject, DeleteProject, RequestPurge, RequestUpdate,
    SetRetentionDays, jobVars, logVars
<1>8. CASE Loop
  <2>1. There'
    <3>1. CASE DeleteBatch
      BY <1>2, <3>1 DEF DeleteBatch, Doomed, Stored, TypeOK
    <3>2. ASSUME ~ DeleteBatch  PROVE UNCHANGED log
      BY <1>8, <3>2 DEF Loop, loopless, StartPass, TakePurge, GetAllProjects, Expire,
        ProjectTimesOut, StartSweep, DistinctProjectIDs, FindProjects, Sweep, EndPass,
        ProjectExists, logVars
    <3> QED  BY <1>4, <3>1, <3>2
  <2>2. CASE TakePurge
    <3>1. Head(purges) \in ToSet(purges)
      BY <2>2, ToSetHeadTail DEF TakePurge, TypeOK
    <3>2. project'[Head(purges)] = "deleted"
      BY <3>1, <2>2 DEF PurgesOK, IsDeleted, TakePurge
    <3> QED  BY <2>1, <2>2, <3>2 DEF SweepOK, TakePurge, IsDeleted
  <2>3. CASE DistinctProjectIDs
    <3>1. \A p \in todo' : project'[p] # "none"
      BY <2>3, <1>1, OfType DEF DistinctProjectIDs, SweepOK, Stored
    <3> QED  BY <2>1, <2>3, <3>1 DEF SweepOK, DistinctProjectIDs
  <2>4. CASE FindProjects
    <3>1. \A p \in todo' : project'[p] = "deleted"
      BY <2>4 DEF FindProjects, SweepOK, Live, TypeOK, loopless, worldVars
    <3> QED  BY <2>1, <2>4, <3>1 DEF SweepOK, FindProjects, IsDeleted
  <2>5. ASSUME NEW p \in Projects, Sweep(p)  PROVE SweepOK'
    <3>1. project' = project
      BY <2>5 DEF Sweep, loopless, worldVars
    <3> QED  BY <2>1, <2>5, <3>1 DEF SweepOK, Sweep, IsDeleted
  <2>6. CASE DeleteBatch
    <3>1. project' = project /\ todo' = todo
      BY <2>6 DEF DeleteBatch, worldVars
    <3>2. \/ job' = job /\ current' = current
          \/ current' = {} /\ job' = "sweep" /\ job = "orphaned"
          \/ current' = {} /\ job' \in {"expire", "idle"}
      BY <2>6 DEF DeleteBatch, AfterDelete, Leave
    <3> QED  BY <2>1, <3>1, <3>2 DEF SweepOK, IsDeleted
  <2>7. CASE ProjectExists
    <3>1. project' = project
      BY <2>7 DEF ProjectExists, loopless, worldVars
    <3> QED  BY <2>1, <2>7, <3>1 DEF SweepOK, ProjectExists, IsDeleted, Leave
  <2>8. CASE StartPass \/ GetAllProjects \/ StartSweep \/ EndPass \/ ProjectTimesOut
    BY <2>1, <2>8 DEF SweepOK, IsDeleted, StartPass, GetAllProjects, StartSweep, EndPass,
      ProjectTimesOut, Leave
  <2>9. ASSUME NEW p \in Projects, Expire(p)  PROVE SweepOK'
    BY <2>1, <2>9 DEF SweepOK, IsDeleted, Expire
  <2> QED  BY <1>8, <2>2, <2>3, <2>4, <2>5, <2>6, <2>7, <2>8, <2>9 DEF Loop
<1>9. CASE Faults
  <2>1. UNCHANGED log
    BY <1>9 DEF Faults, CallFails, RetentionFails, Restart, logVars
  <2>2. job' \in {"expire", "idle", "list"}
    BY <1>9 DEF Faults, CallFails, RetentionFails, Restart, AfterFailure, Leave
  <2> QED  BY <1>4, <2>1, <2>2 DEF SweepOK
<1>10. CASE UNCHANGED vars
  BY <1>3, <1>4, <1>10 DEF vars, logVars, jobVars
<1> QED  BY <1>3, <1>4, <1>5, <1>6, <1>7, <1>8, <1>9, <1>10 DEF Next

-----------------------------------------------------------------------------
(* Retention: least and what expireLogs deletes.                           *)

(* The numbers that are compared. *)
LEMMA Numbers ==
  ASSUME RetentionAssumption, TypeOK
  PROVE  /\ now \in Int /\ cutoff \in Int /\ MaxSkew \in Nat
         /\ \A p \in Projects : retention[p] \in Nat
         /\ \A l \in Logs : least[l] \in Nat /\ created[l] \in Int
<1>1. MaxTime \in Nat /\ Grace \in Nat /\ MaxSkew \in 0..Grace /\ Days \subseteq Nat
  BY DEF RetentionAssumption
<1>2. now \in 0..MaxTime /\ cutoff \in Int /\ created \in [Logs -> Int]
  BY DEF TypeOK
<1>3. now \in Int /\ MaxSkew \in Nat
  BY <1>1, <1>2
<1>4. \A p \in Projects : retention[p] \in Days
  BY DEF TypeOK
<1>5. \A l \in Logs : least[l] \in Days
  BY DEF TypeOK
<1> QED  BY <1>1, <1>2, <1>3, <1>4, <1>5

(* Most steps leave alone all that LeastOK and DueOK are about.             *)
LEMMA DueUnchanged ==
  ASSUME RetentionAssumption, TypeOK, LeastOK, DueOK,
         UNCHANGED <<now, retention, created, least>>,
         \A l \in Logs : log'[l] = "stored" => log[l] = "stored",
         job' = "expired" => UNCHANGED <<job, current, cutoff>>
  PROVE  LeastOK' /\ DueOK'
  BY DEF LeastOK, DueOK, Stored

(* A new setting, or none any more. *)
LEMMA RetainsStep ==
  ASSUME RetentionAssumption, TypeOK, LeastOK, DueOK,
         NEW p \in Projects, NEW d \in Nat, Retains(p, d),
         UNCHANGED <<now, log, created, job, current, cutoff>>
  PROVE  LeastOK' /\ DueOK'
<1>1. /\ retention' = [retention EXCEPT ![p] = d]
      /\ least' = [l \in Logs |-> IF Of(l) = p /\ LowersRetention(least[l], d) THEN d ELSE least[l]]
  BY DEF Retains
<1>2. \A l \in Logs : /\ Of(l) \in Projects /\ least[l] \in Nat /\ retention[Of(l)] \in Nat
  BY OfType, Numbers
<1>3. LeastOK'
  BY <1>1, <1>2 DEF LeastOK, Stored, LowersRetention, TypeOK
<1>4. \A l \in Logs : least[l] # 0 => least'[l] # 0 /\ least'[l] <= least[l] /\ least'[l] \in Nat
  BY <1>1, <1>2 DEF LowersRetention
<1> QED  BY <1>3, <1>4, Numbers DEF DueOK, Stored

(* A new log, a new setting, the passing of time and a new cutoff.          *)
LEMMA DueStep ==
  ASSUME RetentionAssumption, TypeOK, LeastOK, DueOK, [Next]_vars  PROVE LeastOK' /\ DueOK'
<1>1. CASE Tick
  <2>1. now' = now + 1 /\ UNCHANGED <<retention, log, created, least, job, current, cutoff>>
    BY <1>1 DEF Tick, settingVars, logVars, jobVars
  <2>2. LeastOK'
    BY <2>1 DEF LeastOK, Stored
  <2> QED  BY <2>1, <2>2, Numbers DEF DueOK, Stored
<1>2. ASSUME NEW l \in Logs, Insert(l)  PROVE LeastOK' /\ DueOK'
  <2>1. PICK skew \in 0..MaxSkew : created' = [created EXCEPT ![l] = now - skew]
    BY <1>2 DEF Insert
  <2>2. /\ log' = [log EXCEPT ![l] = "stored"] /\ least' = [least EXCEPT ![l] = retention[Of(l)]]
        /\ UNCHANGED <<now, retention, job, current, cutoff>>
    BY <1>2 DEF Insert, settingVars, jobVars
  <2>3. ~ LowersRetention(retention[Of(l)], retention[Of(l)])
    <3>1. retention[Of(l)] \in Nat
      BY OfType, Numbers
    <3> QED  BY <3>1 DEF LowersRetention
  <2>4. LeastOK'
    BY <2>2, <2>3 DEF LeastOK, Stored, TypeOK
  <2>5. ASSUME job = "expired"  PROVE ~ created'[l] < cutoff
    <3>1. now \in Int /\ cutoff \in Int /\ skew \in Int /\ skew <= MaxSkew /\ MaxSkew \in Int
      BY Numbers
    <3>2. created'[l] = now - skew
      BY <2>1 DEF TypeOK
    <3> QED  BY <2>5, <3>1, <3>2 DEF DueOK
  <2>6. \A k \in Logs \ {l} : created'[k] = created[k] /\ least'[k] = least[k] /\ log'[k] = log[k]
    BY <2>1, <2>2 DEF TypeOK
  <2> QED  BY <2>2, <2>4, <2>5, <2>6 DEF DueOK, Stored
<1>3. ASSUME NEW r \in pending, SetRetentionDays(r)  PROVE LeastOK' /\ DueOK'
  <2>1. r.project \in Projects /\ r.days \in Nat
    BY DEF TypeOK, Requests, RetentionAssumption
  <2>2. Retains(r.project, r.days) /\ UNCHANGED <<now, log, created, job, current, cutoff>>
    BY <1>3 DEF SetRetentionDays, jobVars
  <2> QED  BY <2>1, <2>2, RetainsStep
<1>10. ASSUME NEW p \in Projects, DeleteProject(p)  PROVE LeastOK' /\ DueOK'
  <2>1. DefaultDays \in Nat
    BY DEF RetentionAssumption
  <2>2. Retains(p, DefaultDays) /\ UNCHANGED <<now, log, created, job, current, cutoff>>
    BY <1>10 DEF DeleteProject, jobVars
  <2> QED  BY <2>1, <2>2, RetainsStep
<1>4. ASSUME NEW p \in Projects, Expire(p)  PROVE LeastOK' /\ DueOK'
  <2>1. UNCHANGED <<now, retention, log, created, least>>
    BY <1>4 DEF Expire, loopless, settingVars, logVars
  <2>2. LeastOK'
    BY <2>1 DEF LeastOK, Stored
  <2>3. CASE UNCHANGED <<job, current, cutoff>>
    BY <2>1, <2>3, DueUnchanged
  <2>4. CASE retention[p] # 0 /\ job' = "expired" /\ current' = {p} /\ cutoff' = now - retention[p]
    <3>1. now \in Int /\ retention[p] \in Nat /\ MaxSkew \in Nat
      BY Numbers
    <3>2. MaxSkew <= retention[p]
      BY <2>4 DEF TypeOK, RetentionAssumption
    <3>3. cutoff' + MaxSkew <= now'
      BY <2>1, <2>4, <3>1, <3>2
    <3>4. ASSUME NEW l \in Stored, Of(l) = p, created[l] < now - retention[p]
          PROVE  least[l] # 0 /\ created[l] + least[l] < now
      <4>1. least[l] \in Nat /\ created[l] \in Int
        BY Numbers DEF Stored
      <4>2. least[l] # 0 /\ least[l] <= retention[p]
        BY <2>4, <3>1, <3>4, <4>1 DEF LeastOK, LowersRetention
      <4> QED  BY <3>1, <3>4, <4>1, <4>2
    <3> QED  BY <2>1, <2>2, <2>4, <3>3, <3>4 DEF DueOK, Stored
  <2> QED  BY <1>4, <2>3, <2>4 DEF Expire
<1>5. CASE DeleteBatch
  <2>1. PICK batch \in SUBSET Doomed :
          /\ log' = [l \in Logs |-> IF l \in batch THEN "gone" ELSE log[l]]
          /\ created' = [l \in Logs |-> IF l \in batch THEN 0 ELSE created[l]]
          /\ least' = [l \in Logs |-> IF l \in batch THEN DefaultDays ELSE least[l]]
    BY <1>5 DEF DeleteBatch
  <2>2. UNCHANGED <<now, retention>>
    BY <1>5 DEF DeleteBatch, settingVars
  <2>3. job' = "expired" => UNCHANGED <<job, current, cutoff>>
    BY <1>5 DEF DeleteBatch, AfterDelete, Leave
  <2>4. \A l \in Logs : log'[l] = "stored" =>
          log[l] = "stored" /\ created'[l] = created[l] /\ least'[l] = least[l]
    BY <2>1
  <2> QED  BY <2>2, <2>3, <2>4 DEF LeastOK, DueOK, Stored
<1>6. ASSUME World, ~ Tick, \A l \in Logs : ~ Insert(l), \A r \in pending : ~ SetRetentionDays(r),
             \A p \in Projects : ~ DeleteProject(p)
      PROVE  LeastOK' /\ DueOK'
  <2>1. UNCHANGED <<now, retention, created, least, job, current, cutoff>>
    BY <1>6 DEF World, CreateProject, DeleteProject, RequestPurge, Accept, RequestUpdate,
      settingVars, logVars, jobVars
  <2>2. \A l \in Logs : log'[l] = "stored" => log[l] = "stored"
    BY <1>6 DEF World, CreateProject, DeleteProject, RequestPurge, Accept, RequestUpdate,
      logVars, TypeOK
  <2> QED  BY <2>1, <2>2, DueUnchanged
<1>7. ASSUME Loop, ~ DeleteBatch, \A p \in Projects : ~ Expire(p)  PROVE LeastOK' /\ DueOK'
  <2>1. UNCHANGED <<now, retention, log, created, least>>
    BY <1>7 DEF Loop, loopless, StartPass, TakePurge, GetAllProjects, ProjectTimesOut, StartSweep,
      DistinctProjectIDs, FindProjects, Sweep, EndPass, ProjectExists, logVars, settingVars
  <2>2. job' # "expired"
    BY <1>7 DEF Loop, StartPass, TakePurge, GetAllProjects, ProjectTimesOut, StartSweep,
      DistinctProjectIDs, FindProjects, Sweep, EndPass, ProjectExists, Leave
  <2> QED  BY <2>1, <2>2, DueUnchanged
<1>8. CASE Faults
  <2>1. UNCHANGED <<now, retention, log, created, least>>
    BY <1>8 DEF Faults, CallFails, RetentionFails, Restart, logVars, settingVars
  <2>2. job' = "expired" => UNCHANGED <<job, current, cutoff>>
    BY <1>8 DEF Faults, CallFails, RetentionFails, Restart, AfterFailure, Leave
  <2> QED  BY <2>1, <2>2, DueUnchanged
<1>9. CASE UNCHANGED vars
  BY <1>9, DueUnchanged DEF vars, settingVars, logVars, jobVars
<1> QED  BY <1>1, <1>2, <1>3, <1>4, <1>5, <1>6, <1>7, <1>8, <1>9, <1>10 DEF Next

-----------------------------------------------------------------------------
(* The inductive invariant holds in every reachable state. *)
THEOREM RetentionInvariant == ASSUME RetentionAssumption  PROVE Spec => []IInv
<1>1. Init => IInv
  BY InitIInv
<1>2. IInv /\ [Next]_vars => IInv'
  BY TypeStep, PurgesStep, SweepStep, DueStep DEF IInv
<1> QED  BY <1>1, <1>2, PTL DEF Spec

(* Every variable keeps its type. *)
THEOREM TypeCorrect == ASSUME RetentionAssumption  PROVE Spec => []TypeOK
<1>1. IInv => TypeOK
  BY DEF IInv
<1> QED  BY <1>1, RetentionInvariant, PTL

(* A log of a living project goes only when it is older than a retention    *)
(* its project had while it was there (expireLogs, DeleteOrphanedLogs,      *)
(* PurgeProjectLogs), for any number of projects and logs and any clocks    *)
(* that differ by no more than orphanGrace and the shortest retention.      *)
THEOREM NoLogGoesEarly == ASSUME RetentionAssumption  PROVE Spec => RetentionHonoured
<1> DEFINE Early == \E l \in Logs :
             Goes(l) /\ project[Of(l)] # "deleted" /\ ~ (least[l] # 0 /\ created[l] + least[l] < now)
<1>1. IInv /\ [Next]_vars => ~ Early
  <2> SUFFICES ASSUME IInv, [Next]_vars, NEW l \in Logs, Goes(l), project[Of(l)] # "deleted"
               PROVE  least[l] # 0 /\ created[l] + least[l] < now
    OBVIOUS
  <2> USE DEF IInv
  <2>1. ASSUME World  PROVE FALSE
    BY <2>1 DEF World, Goes, Tick, CreateProject, DeleteProject, RequestPurge, Accept, Insert,
      RequestUpdate, SetRetentionDays, logVars, TypeOK
  <2>2. ASSUME Loop, ~ DeleteBatch  PROVE FALSE
    <3>1. log' = log
      BY <2>2 DEF Loop, loopless, StartPass, TakePurge, GetAllProjects, Expire, ProjectTimesOut,
        StartSweep, DistinctProjectIDs, FindProjects, Sweep, EndPass, ProjectExists, logVars
    <3> QED  BY <3>1 DEF Goes
  <2>3. ASSUME Faults  PROVE FALSE
    BY <2>3 DEF Faults, CallFails, RetentionFails, Restart, logVars, Goes
  <2>4. ~ UNCHANGED vars
    BY DEF vars, logVars, Goes
  <2>5. CASE DeleteBatch
    <3>1. l \in Doomed
      BY <2>5 DEF DeleteBatch, Goes
    <3>2. job \in {"expired", "orphaned", "purge"}
      BY <2>5 DEF DeleteBatch, AfterDelete
    <3>3. job = "expired"
      BY <3>1, <3>2 DEF Doomed, SweepOK, IsDeleted
    <3> QED  BY <3>1, <3>3 DEF Doomed, DueOK
  <2> QED  BY <2>1, <2>2, <2>3, <2>4, <2>5 DEF Next
<1>2. ~ Early => \A l \in Logs : Goes(l) /\ project[Of(l)] # "deleted" =>
                    least[l] # 0 /\ created[l] + least[l] < now
  OBVIOUS
<1> HIDE DEF Early
<1> QED  BY <1>1, <1>2, RetentionInvariant, PTL DEF Spec, RetentionHonoured
=============================================================================
