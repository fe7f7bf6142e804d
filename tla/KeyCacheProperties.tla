------------------------- MODULE KeyCacheProperties -------------------------
(***************************************************************************)
(* What authentication by API key owes the owner of a key, the client that *)
(* holds one, and the broker's memory.                                     *)
(***************************************************************************)
EXTENDS KeyCache

Standings == {"idle", "limited", "admitted", "missed", "validating", "validated",
              "failing", "allowed", "denied", "error"}
Stages == {"idle", "authorized", "abandoned", "committed", "ok", "failed"}

RequestRecords == [at : Standings, broker : Brokers \cup {None}, key : Keys \cup {None},
                   address : Addresses \cup {None}, gen : Nat, valid : BOOLEAN,
                   late : BOOLEAN]
CallRecords == [at : Stages, op : {"create", "revoke", "delete", None},
                broker : Brokers \cup {None}, target : Keys \cup Projects \cup {None},
                keys : SUBSET Keys]

(* Every variable has its type.                                            *)
TypeOK ==
    /\ stored \in [Keys -> {"absent", "active", "revoked", "deleted"}]
    /\ projects \subseteq Projects
    /\ keyCache \in [Brokers -> [Keys -> Entries \cup {None}]]
    /\ keyCacheGen \in [Brokers -> Nat]
    /\ ipLimiter \in [Brokers -> [Addresses -> Windows \cup {None}]]
    /\ request \in [Requests -> RequestRecords]
    /\ call \in [Calls -> CallRecords]
    /\ restarts \in Nat

(* Once a broker has answered that a key is revoked, or that the project   *)
(* of a key it knew is deleted, no request that reaches it later with that *)
(* key is let in: neither from the cache, nor by a validation that read    *)
(* the key before the revocation and is cached after it (forgetCachedKeys, *)
(* keyCacheGen).                                                           *)
RevokedIsShutOut == \A r \in Requests : request[r].late => request[r].at # "allowed"

(* A request is refused for its key only if that key is not active: no     *)
(* failure, eviction, restart or cached answer turns a genuine key away.   *)
GenuineIsNeverDenied ==
    \A r \in Requests :
        request[r].at \in {"failing", "denied"} /\ request[r].key # None
            => stored[request[r].key] # "active"

(* An address is limited only after maxFailures refused requests of its    *)
(* own at that broker: neither allowed requests, nor errors of the logger, *)
(* nor the failures of others count against it (recordFailure).            *)
Denied(b, a) == {r \in Requests : request[r].at = "denied" /\ request[r].broker = b
                                    /\ request[r].address = a}

OnlyFailuresLimit ==
    \A r \in Requests : request[r].at = "limited" =>
        Cardinality(Denied(request[r].broker, request[r].address)) >= MaxFailures

(* A broker that did not carry out the revocation lets the key in until    *)
(* the entry it holds expires and no longer: once it has no fresh entry    *)
(* and no answer under way for a key that is not active, it never has one  *)
(* again.                                                                  *)
Usable(b, k) ==
    \/ keyCache[b][k] # None /\ keyCache[b][k].valid /\ keyCache[b][k].fresh
    \/ \E r \in Requests : /\ request[r].broker = b /\ request[r].key = k
                           /\ request[r].at = "validated" /\ request[r].valid

NeverUsableAgain ==
    [][\A b \in Brokers, k \in Keys :
         stored[k] \notin {"absent", "active"} /\ ~Usable(b, k) => ~Usable(b, k)']_vars

=============================================================================
