----------------------------- MODULE MCStartup -----------------------------
(* Instances of Startup for TLC.                                           *)
EXTENDS StartupProperties, TLC

CONSTANTS la, lb, p1, p2, p3, ada, bob, x1, x2, k1, s1, s2

NoRoles == [u \in Users |-> [s \in Spellings |-> "none"]]
HalfAYear == [x \in Logs |-> 180]

(* Before projects: a log, keys and a retention of a year, under no project. *)
BeforeProjects ==
  [projects |-> {}, slugged |-> {},
   filed |-> [d \in Docs |-> IF d \in {x2, s2} THEN Absent ELSE Orphan],
   days |-> [s \in Settings |-> 365], role |-> [p \in Projects |-> NoRoles],
   index |-> {}, ttl |-> TRUE, slugIndex |-> FALSE]

(* An earlier build's: ids are strings, logins as they were typed, a log has *)
(* not been adopted; the Default project, if any, is known by its slug.      *)
BeforeObjectIDs(defaults) ==
  [projects |-> {p1}, slugged |-> defaults,
   filed |-> [d \in Docs |-> IF d = s2 THEN Absent ELSE IF d = x2 THEN Orphan ELSE Hex(p1)],
   days |-> [s \in Settings |-> 365],
   role |-> [p \in Projects |-> [NoRoles EXCEPT ![bob] =
     IF p = p1 THEN [normalized |-> "member", other |-> "owner"] ELSE NoRoles[bob]]],
   index |-> {"settings"}, ttl |-> FALSE, slugIndex |-> TRUE]

AllLegacies == {BeforeProjects} \cup {BeforeObjectIDs(defaults) : defaults \in SUBSET {p1}}
=============================================================================
