----------------------------- MODULE Retention -----------------------------
(***************************************************************************)
(* How logs leave MongoDB: the cleanup loop of the logger                  *)
(* (logger/cmd/api/cleanup.go and the deletes in toolbox/data/models.go),  *)
(* next to what changes under it - projects created and deleted            *)
(* (logger/cmd/api/rpc.go), logs inserted, retention changed through the   *)
(* broker (handlers.go, UpdateRetention).                                  *)
(*                                                                         *)
(* An action is one call to MongoDB. This is one logger's loop; the logs   *)
(* and the deletes may also come from other loggers, whose clocks differ.  *)
(***************************************************************************)
EXTENDS Integers, Sequences, FiniteSets

CONSTANTS
  Projects,
  Logs,         \* pairs <<project, n>>: the n-th event of the project
  Updates,      \* requests to UpdateRetention
  Days,         \* ValidRetentionDays; 0 is forever
  DefaultDays,  \* defaultRetentionDays
  Grace,        \* orphanGrace
  MaxSkew,      \* how far another logger's clock may be behind
  BatchSize,    \* logDeleteBatch
  QueueSize,    \* purgeQueueSize
  Slow,         \* projects whose expired logs may outlast every timeout
  MaxTime,      \* bound on now
  MaxFaults     \* bound on restarts and on database errors elsewhere

ASSUME RetentionAssumption ==
  /\ Logs \subseteq Projects \X Nat /\ IsFiniteSet(Logs)
  /\ Days \subseteq Nat /\ DefaultDays \in Days
  /\ Grace \in Nat /\ MaxSkew \in 0..Grace
  /\ \A d \in Days \ {0} : MaxSkew <= d
  /\ BatchSize \in Nat \ {0} /\ QueueSize \in Nat
  /\ MaxTime \in Nat /\ MaxFaults \in Nat

VARIABLES
  now,        \* the logger's clock
  project,    \* whether each project exists
  retention,  \* what GetRetentionDays answers for each project
  unused,     \* requests to UpdateRetention yet to be made
  pending,    \* those the broker has let through
  purges,     \* the channel from DeleteProject to the cleanup loop
  deleted,    \* projects DeleteProject has yet to request a purge of
  log,        \* where each log is
  created,    \* its created_at
  least,      \* the least retention its project had since (history)
  job,        \* where the cleanup loop is
  todo,       \* the projects that job has yet to go through
  current,    \* the projects whose logs are being deleted: one at most
  cutoff,     \* logs created before this are deleted
  faults

worldVars == <<project, deleted, purges>>
settingVars == <<retention, unused, pending>>
logVars == <<log, created, least>>
jobVars == <<job, todo, current, cutoff>>
vars == <<now, worldVars, settingVars, logVars, jobVars, faults>>

Of(l) == l[1]
Live == {p \in Projects : project[p] = "live"}
Stored == {l \in Logs : log[l] = "stored"}

(* 0 is the longest retention of all. *)
LowersRetention(from, to) == to # 0 /\ (from = 0 \/ to < from)

Jobs == {"idle", "list", "expire", "expired", "logged", "projects", "sweep", "orphaned",
         "exists", "purge"}
Requests == [id : Updates, project : Projects, days : Days]

TypeOK ==
  /\ now \in 0..MaxTime
  /\ project \in [Projects -> {"none", "live", "deleted"}]
  /\ retention \in [Projects -> Days]
  /\ unused \in SUBSET Updates
  /\ pending \in SUBSET Requests
  /\ purges \in Seq(Projects) /\ Len(purges) <= QueueSize
  /\ deleted \in SUBSET Projects
  /\ log \in [Logs -> {"none", "accepted", "stored", "gone"}]
  /\ created \in [Logs -> Int]
  /\ least \in [Logs -> Days]
  /\ job \in Jobs
  /\ todo \in SUBSET Projects
  /\ current \in SUBSET Projects
  /\ cutoff \in Int
  /\ faults \in 0..MaxFaults

Init ==
  /\ now = 0
  /\ project = [p \in Projects |-> "none"]
  /\ retention = [p \in Projects |-> DefaultDays]
  /\ unused = Updates /\ pending = {}
  /\ purges = <<>> /\ deleted = {}
  /\ log = [l \in Logs |-> "none"]
  /\ created = [l \in Logs |-> 0] /\ least = [l \in Logs |-> DefaultDays]
  /\ job = "list" /\ todo = {} /\ current = {} /\ cutoff = 0
  /\ faults = 0

-----------------------------------------------------------------------------
(* What happens next to the cleanup loop.                                  *)

Tick ==
  /\ now < MaxTime /\ now' = now + 1
  /\ UNCHANGED <<worldVars, settingVars, logVars, jobVars, faults>>

CreateProject(p) ==
  /\ project[p] = "none"
  /\ project' = [project EXCEPT ![p] = "live"]
  /\ UNCHANGED <<now, deleted, purges, settingVars, logVars, jobVars, faults>>

(* The retention of p is d from now on. *)
Retains(p, d) ==
  /\ retention' = [retention EXCEPT ![p] = d]
  /\ least' = [l \in Logs |-> IF Of(l) = p /\ LowersRetention(least[l], d) THEN d ELSE least[l]]

(* DeleteProject's transaction: the setting goes, the logs stay. A project id *)
(* is not reused.                                                          *)
DeleteProject(p) ==
  /\ project[p] = "live"
  /\ project' = [project EXCEPT ![p] = "deleted"]
  /\ deleted' = deleted \cup {p}
  /\ Retains(p, DefaultDays)
  /\ UNCHANGED <<now, purges, unused, pending, log, created, jobVars, faults>>

(* Mutant: a full queue grows (a slice for the channel).                   *)
RequestPurgeAlways(p) ==
  /\ p \in deleted
  /\ deleted' = deleted \ {p}
  /\ purges' = Append(purges, p)
  /\ UNCHANGED <<now, project, settingVars, logVars, jobVars, faults>>

(* requestPurge never blocks: a full queue leaves the logs to the sweep.   *)
RequestPurge(p) ==
  /\ p \in deleted
  /\ deleted' = deleted \ {p}
  /\ purges' = IF Len(purges) < QueueSize THEN Append(purges, p) ELSE purges
  /\ UNCHANGED <<now, project, settingVars, logVars, jobVars, faults>>

(* LogInfo has found the event's project; its insert may come much later.  *)
Accept(l) ==
  /\ log[l] = "none" /\ Of(l) \in Live
  /\ log' = [log EXCEPT ![l] = "accepted"]
  /\ UNCHANGED <<now, worldVars, settingVars, created, least, jobVars, faults>>

(* Insert. MaxTime leaves the log the time to get older than Grace.        *)
Insert(l) ==
  /\ log[l] = "accepted" /\ now + Grace < MaxTime
  /\ log' = [log EXCEPT ![l] = "stored"]
  /\ \E skew \in 0..MaxSkew : created' = [created EXCEPT ![l] = now - skew]
  /\ least' = [least EXCEPT ![l] = retention[Of(l)]]
  /\ UNCHANGED <<now, worldVars, settingVars, jobVars, faults>>

(* The broker lets an owner change retention as he likes; a member only if  *)
(* that does not lower what the logger says it is. A refusal ends the       *)
(* request without a trace.                                                 *)
RequestUpdate(u) ==
  /\ u \in unused /\ unused' = unused \ {u}
  /\ \E p \in Live, d \in Days, role \in {"owner", "member"} :
       /\ role = "owner" \/ ~ LowersRetention(retention[p], d)
       /\ pending' = pending \cup {[id |-> u, project |-> p, days |-> d]}
  /\ UNCHANGED <<now, worldVars, retention, logVars, jobVars, faults>>

(* The logger's UpdateRetention. *)
SetRetentionDays(r) ==
  /\ r \in pending /\ pending' = pending \ {r}
  /\ Retains(r.project, r.days)
  /\ UNCHANGED <<now, worldVars, unused, log, created, jobVars, faults>>

-----------------------------------------------------------------------------
(* runCleanup: a pass, or a purge, at a time.                              *)

loopless == <<now, worldVars, settingVars, logVars, faults>>

(* The loop goes on to j; only the sweep keeps a cutoff between projects.  *)
Leave(j) ==
  job' = j /\ current' = {} /\ cutoff' = IF j = "sweep" THEN cutoff ELSE 0

(* The ticker. *)
StartPass ==
  /\ job = "idle" /\ job' = "list"
  /\ UNCHANGED <<loopless, todo, current, cutoff>>

TakePurge ==
  /\ job = "idle" /\ purges # <<>>
  /\ job' = "exists" /\ current' = {Head(purges)} /\ purges' = Tail(purges)
  /\ UNCHANGED <<now, project, deleted, settingVars, logVars, todo, cutoff, faults>>

(* expireLogs. *)
GetAllProjects ==
  /\ job = "list"
  /\ job' = "expire" /\ todo' = Live
  /\ UNCHANGED <<loopless, current, cutoff>>

(* Mutant: a project that keeps its logs for ever ends the pass.           *)
ExpireStopsAtForever(p) ==
  /\ job = "expire" /\ p \in todo
  /\ todo' = IF retention[p] = 0 THEN {} ELSE todo \ {p}
  /\ \/ retention[p] = 0 /\ UNCHANGED <<job, current, cutoff>>
     \/ /\ retention[p] # 0
        /\ job' = "expired" /\ current' = {p} /\ cutoff' = now - retention[p]
  /\ UNCHANGED loopless

(* expireProjectLogs reads the retention. *)
Expire(p) ==
  /\ job = "expire" /\ p \in todo
  /\ todo' = todo \ {p}
  /\ \/ retention[p] = 0 /\ UNCHANGED <<job, current, cutoff>>
     \/ /\ retention[p] # 0
        /\ job' = "expired" /\ current' = {p} /\ cutoff' = now - retention[p]
  /\ UNCHANGED loopless

(* DeleteOrphanedLogs: its cutoff, then the ids in the logs, then the       *)
(* projects.                                                                *)
StartSweep ==
  /\ job = "expire" /\ todo = {}
  /\ job' = "logged" /\ cutoff' = now - Grace
  /\ UNCHANGED <<loopless, todo, current>>

DistinctProjectIDs ==
  /\ job = "logged"
  /\ job' = "projects" /\ todo' = {Of(l) : l \in Stored}
  /\ UNCHANGED <<loopless, current, cutoff>>

(* Mutant: a living project among them ends the sweep (break for continue). *)
FindProjectsStopsAtLive ==
  /\ job = "projects"
  /\ job' = "sweep"
  /\ todo' = IF todo \cap Live = {} THEN todo ELSE {}
  /\ UNCHANGED <<loopless, current, cutoff>>

FindProjects ==
  /\ job = "projects"
  /\ job' = "sweep" /\ todo' = todo \ Live
  /\ UNCHANGED <<loopless, current, cutoff>>

Sweep(p) ==
  /\ job = "sweep" /\ p \in todo
  /\ job' = "orphaned" /\ todo' = todo \ {p} /\ current' = {p}
  /\ UNCHANGED <<loopless, cutoff>>

EndPass ==
  /\ job = "sweep" /\ todo = {}
  /\ Leave("idle")
  /\ UNCHANGED <<loopless, todo>>

(* PurgeProjectLogs refuses a project that is still there.                 *)
ProjectExists ==
  /\ job = "exists"
  /\ \/ current \subseteq Live /\ Leave("idle")
     \/ ~ current \subseteq Live /\ job' = "purge" /\ UNCHANGED <<current, cutoff>>
  /\ UNCHANGED <<loopless, todo>>

(* The filter of deleteLogsInBatches. *)
Doomed == {l \in Stored : Of(l) \in current /\ (job = "purge" \/ created[l] < cutoff)}

AfterDelete == [expired |-> "expire", orphaned |-> "sweep", purge |-> "idle"]

(* deleteLogBatch: a batch that is not full is the last. Its find and its   *)
(* delete are one action: what matched the filter goes on to match it.      *)
DeleteBatch ==
  /\ job \in DOMAIN AfterDelete
  /\ \E batch \in SUBSET Doomed :
       /\ log' = [l \in Logs |-> IF l \in batch THEN "gone" ELSE log[l]]
       /\ created' = [l \in Logs |-> IF l \in batch THEN 0 ELSE created[l]]
       /\ least' = [l \in Logs |-> IF l \in batch THEN DefaultDays ELSE least[l]]
       /\ \/ Cardinality(batch) = BatchSize /\ UNCHANGED <<job, current, cutoff>>
          \/ batch = Doomed /\ Cardinality(batch) < BatchSize /\ Leave(AfterDelete[job])
  /\ UNCHANGED <<now, worldVars, settingVars, todo, faults>>

-----------------------------------------------------------------------------
(* Faults.                                                                 *)

(* Where each failure leads: what has not been deleted is left to the next  *)
(* pass.                                                                    *)
AfterFailure ==
  [list |-> "expire", expired |-> "expire", logged |-> "idle", projects |-> "idle",
   orphaned |-> "idle", exists |-> "idle", purge |-> "idle"]

(* MongoDB fails or is too slow. *)
CallFails ==
  /\ job \in DOMAIN AfterFailure
  /\ faults < MaxFaults /\ faults' = faults + 1
  /\ Leave(AfterFailure[job])
  /\ todo' = IF job = "expired" THEN todo ELSE {}
  /\ UNCHANGED <<now, worldVars, settingVars, logVars>>

(* Mutant: an error in reading the retention is taken for no setting.      *)
RetentionFailsToDefault(p) ==
  /\ job = "expire" /\ p \in todo
  /\ faults < MaxFaults /\ faults' = faults + 1
  /\ todo' = todo \ {p}
  /\ job' = "expired" /\ current' = {p} /\ cutoff' = now - DefaultDays
  /\ UNCHANGED <<now, worldVars, settingVars, logVars>>

(* The retention of one project cannot be read: the next one's turn.       *)
RetentionFails(p) ==
  /\ job = "expire" /\ p \in todo
  /\ faults < MaxFaults /\ faults' = faults + 1
  /\ todo' = todo \ {p}
  /\ UNCHANGED <<now, worldVars, settingVars, logVars, job, current, cutoff>>

(* projectCleanupTimeout passes, as often as it likes, for a slow project. *)
ProjectTimesOut ==
  /\ job = "expired" /\ current \subseteq Slow
  /\ Leave("expire")
  /\ UNCHANGED <<loopless, todo>>

(* The logger stops and comes back: its queue is lost, a pass starts.      *)
Restart ==
  /\ faults < MaxFaults /\ faults' = faults + 1
  /\ purges' = <<>>
  /\ Leave("list") /\ todo' = {}
  /\ UNCHANGED <<now, project, deleted, settingVars, logVars>>

-----------------------------------------------------------------------------
World ==
  \/ Tick
  \/ \E p \in Projects : CreateProject(p) \/ DeleteProject(p) \/ RequestPurge(p)
  \/ \E l \in Logs : Accept(l) \/ Insert(l)
  \/ (\E u \in Updates : RequestUpdate(u)) \/ (\E r \in pending : SetRetentionDays(r))

Loop ==
  \/ StartPass \/ TakePurge
  \/ GetAllProjects \/ (\E p \in Projects : Expire(p)) \/ ProjectTimesOut
  \/ StartSweep \/ DistinctProjectIDs \/ FindProjects \/ (\E p \in Projects : Sweep(p)) \/ EndPass
  \/ ProjectExists \/ DeleteBatch

Faults == CallFails \/ (\E p \in Projects : RetentionFails(p)) \/ Restart

Next == World \/ Loop \/ Faults

Spec == Init /\ [][Next]_vars

(* Time passes, and the loop's goroutine goes on. Nothing is assumed of     *)
(* who uses the system, nor of a purge being requested.                     *)
FairSpec == Spec /\ WF_vars(Tick) /\ WF_vars(Loop)
=============================================================================
