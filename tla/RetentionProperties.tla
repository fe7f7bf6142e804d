------------------------ MODULE RetentionProperties ------------------------
(* What the cleanup loop has to guarantee.                                 *)
EXTENDS Retention

Goes(l) == log[l] = "stored" /\ log'[l] = "gone"

(* A log of a living project is deleted only when it is older than a        *)
(* retention the project had while the log was there, whatever changes      *)
(* between the reads and the deletes of expireLogs, DeleteOrphanedLogs and  *)
(* PurgeProjectLogs.                                                        *)
RetentionHonoured ==
  [][\A l \in Logs : Goes(l) /\ project[Of(l)] # "deleted" =>
       least[l] # 0 /\ created[l] + least[l] < now]_vars

(* The logs of a deleted project go in the end: with the purge queue full,  *)
(* a purge cut short or forgotten in a restart, an event stored late        *)
(* (purgeProjectLogs, cleanupOrphanedLogs).                                 *)
OrphansGo ==
  \A l \in Logs : (log[l] = "stored" /\ project[Of(l)] = "deleted") ~> log[l] = "gone"

Expired(l) ==
  log[l] = "stored" /\ retention[Of(l)] # 0 /\ created[l] + retention[Of(l)] < now

(* An expired log goes, or its retention is raised, even if a slow project  *)
(* uses up its time in every pass (projectCleanupTimeout).                  *)
ExpiredLogsGo == \A l \in Logs : Of(l) \notin Slow => (Expired(l) ~> ~ Expired(l))
=============================================================================
