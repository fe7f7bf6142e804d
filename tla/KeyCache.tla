------------------------------ MODULE KeyCache ------------------------------
(***************************************************************************)
(* Authentication by API key: the middleware requireAPIKey of the broker   *)
(* with its in-memory key cache, its generation counter and its limiter of *)
(* failed attempts, next to the three handlers that change what a key is   *)
(* worth: CreateAPIKey, RevokeAPIKey and DeleteProject.  Every broker is a *)
(* process with a cache and a limiter of its own; the logger and MongoDB   *)
(* behind it are the collections `stored' and `projects'.                  *)
(*                                                                         *)
(* A step is what one goroutine does under one lock, or one call to the    *)
(* logger.  Time is the choice of when an entry or a window expires.  The  *)
(* scopes of a key never change and are left out.                          *)
(***************************************************************************)
EXTENDS Integers, FiniteSets

CONSTANTS
    Brokers,        \* broker processes
    Requests,       \* calls of the ingestion API, each made at most once
    Calls,          \* calls of the administration API, each made at most once
    Keys,           \* plaintext keys, an id of api_keys each
    Issued,         \* the keys that exist at the start
    MadeUp,         \* plaintexts that CreateAPIKey never generates
    Projects, ProjectOf,    \* projects, and the one each key is made for
    Addresses,      \* client addresses
    MaxEntries,     \* maxKeyCacheEntries and maxIPLimiterEntries
    MaxFailures,    \* maxFailures
    MaxRestarts,    \* bound: how often a broker restarts
    None

KeyCacheAssumption ==
    /\ Issued \subseteq Keys /\ MadeUp \subseteq Keys /\ Issued \cap MadeUp = {}
    /\ ProjectOf \in [Keys -> Projects]
    /\ MaxEntries \in Nat \ {0} /\ MaxFailures \in Nat \ {0} /\ MaxRestarts \in Nat
    /\ None \notin Brokers \cup Keys \cup Projects \cup Addresses
ASSUME KeyCacheAssumption

VARIABLES
    stored,     \* api_keys: the state of each key's document
    projects,   \* the projects that exist
    keyCache,   \* of each broker: an entry or None for each key
    keyCacheGen,\* of each broker: the calls of forgetCachedKeys so far
    ipLimiter,  \* of each broker: a window or None for each address
    request,    \* where each request stands; `late' records that its key had
                \*   stopped when it arrived, and is read by nobody
    call,       \* where each administration call stands; `keys' records what it
                \*   stopped
    restarts

vars == <<stored, projects, keyCache, keyCacheGen, ipLimiter, request, call, restarts>>
database == <<stored, projects>>
memory == <<keyCache, keyCacheGen, ipLimiter>>

Entries == [valid : BOOLEAN, fresh : BOOLEAN]
Windows == [failures : Nat, open : BOOLEAN]
NoRequest == [at |-> "idle", broker |-> None, key |-> None, address |-> None,
              gen |-> 0, valid |-> FALSE, late |-> FALSE]
NoCall == [at |-> "idle", op |-> None, broker |-> None, target |-> None, keys |-> {}]

-----------------------------------------------------------------------------
Init ==
    /\ stored = [k \in Keys |-> IF k \in Issued THEN "active" ELSE "absent"]
    /\ projects = Projects
    /\ keyCache = [b \in Brokers |-> [k \in Keys |-> None]]
    /\ keyCacheGen = [b \in Brokers |-> 0]
    /\ ipLimiter = [b \in Brokers |-> [a \in Addresses |-> None]]
    /\ request = [r \in Requests |-> NoRequest]
    /\ call = [c \in Calls |-> NoCall]
    /\ restarts = 0

Cached(map) == {x \in DOMAIN map : map[x] # None}

(* A map at its limit drops an arbitrary entry before it takes a new one.  *)
RoomFor(map, x) ==
    IF map[x] = None /\ Cardinality(Cached(map)) >= MaxEntries
    THEN {[map EXCEPT ![y] = None] : y \in Cached(map)}
    ELSE {map}

(* The keys that broker b has answered to have stopped: the key of each    *)
(* revocation it carried out, the keys each deletion of a project removed. *)
Stopped(b) == UNION {call[c].keys : c \in {d \in Calls : call[d].at = "ok" /\ call[d].broker = b}}

-----------------------------------------------------------------------------
(* requireAPIKeyWith.  A caller can only hold a key that was handed out,   *)
(* or one it made up.                                                      *)
Known(k) == k \in MadeUp \/ stored[k] # "absent"

isRateLimited(b, a) ==
    LET w == ipLimiter[b][a] IN w # None /\ w.open /\ w.failures >= MaxFailures

Arrive(r, b, k, a) ==
    /\ request[r].at = "idle"
    /\ k # None => Known(k)
    /\ request' = [request EXCEPT ![r] =
         [at |-> IF isRateLimited(b, a) THEN "limited" ELSE "admitted",
          broker |-> b, key |-> k, address |-> a, gen |-> 0, valid |-> FALSE,
          late |-> k \in Stopped(b)]]
    /\ ipLimiter' = IF ipLimiter[b][a] # None /\ ~ipLimiter[b][a].open
                    THEN [ipLimiter EXCEPT ![b][a] = None] ELSE ipLimiter
    /\ UNCHANGED <<database, keyCache, keyCacheGen, call, restarts>>

(* The header is missing or is no Bearer token.                            *)
NoBearer(r) ==
    /\ request[r].at = "admitted" /\ request[r].key = None
    /\ request' = [request EXCEPT ![r].at = "failing"]
    /\ UNCHANGED <<database, memory, call, restarts>>

LookUp(r) ==
    LET q == request[r]  e == keyCache[q.broker][q.key] IN
    /\ q.at = "admitted" /\ q.key # None
    /\ request' = [request EXCEPT ![r].at =
         IF e = None \/ ~e.fresh THEN "missed" ELSE IF e.valid THEN "allowed" ELSE "failing"]
    /\ UNCHANGED <<database, memory, call, restarts>>

ReadGeneration(r) ==
    /\ request[r].at = "missed"
    /\ request' = [request EXCEPT ![r].at = "validating",
                                  ![r].gen = keyCacheGen[request[r].broker]]
    /\ UNCHANGED <<database, memory, call, restarts>>

(* The query of the logger, and the reply that carries its result.         *)
ValidateAPIKey(r) ==
    /\ request[r].at = "validating"
    /\ request' = [request EXCEPT ![r].at = "validated",
                                  ![r].valid = stored[request[r].key] = "active"]
    /\ UNCHANGED <<database, memory, call, restarts>>

(* Mutant: a failed validation is answered like an invalid key.            *)
ValidationFailsDenied(r) ==
    /\ request[r].at \in {"validating", "validated"}
    /\ request' = [request EXCEPT ![r].at = "failing"]
    /\ UNCHANGED <<database, memory, call, restarts>>

(* Mutant: a failed validation counts as a failed attempt.                 *)
ValidationFailsCounted(r) ==
    LET b == request[r].broker  a == request[r].address  w == ipLimiter[b][a] IN
    /\ request[r].at \in {"validating", "validated"}
    /\ request' = [request EXCEPT ![r].at = "error"]
    /\ IF w = None \/ ~w.open
       THEN \E room \in RoomFor(ipLimiter[b], a) :
              ipLimiter' = [ipLimiter EXCEPT ![b] =
                              [room EXCEPT ![a] = [failures |-> 1, open |-> TRUE]]]
       ELSE ipLimiter' = [ipLimiter EXCEPT ![b][a].failures = @ + 1]
    /\ UNCHANGED <<database, keyCache, keyCacheGen, call, restarts>>

(* Mutant: while the logger is away an expired entry is good enough.       *)
ValidationFailsStale(r) ==
    LET e == keyCache[request[r].broker][request[r].key] IN
    /\ request[r].at \in {"validating", "validated"}
    /\ request' = [request EXCEPT ![r] =
         IF e # None THEN [@ EXCEPT !.at = "validated", !.valid = e.valid]
         ELSE [@ EXCEPT !.at = "error"]]
    /\ UNCHANGED <<database, memory, call, restarts>>

(* The logger cannot be reached, its query fails or its reply is lost.     *)
ValidationFails(r) ==
    /\ request[r].at \in {"validating", "validated"}
    /\ request' = [request EXCEPT ![r].at = "error"]
    /\ UNCHANGED <<database, memory, call, restarts>>

(* Mutant: the result is cached whatever was evicted meanwhile.            *)
CacheKeyResultAlways(r) ==
    LET q == request[r]  b == q.broker IN
    /\ q.at = "validated"
    /\ \E room \in RoomFor(keyCache[b], q.key) :
         keyCache' = [keyCache EXCEPT ![b] =
                        [room EXCEPT ![q.key] = [valid |-> q.valid, fresh |-> TRUE]]]
    /\ request' = [request EXCEPT ![r].at = IF q.valid THEN "allowed" ELSE "failing"]
    /\ UNCHANGED <<database, keyCacheGen, ipLimiter, call, restarts>>

CacheKeyResult(r) ==
    LET q == request[r]  b == q.broker IN
    /\ q.at = "validated"
    /\ IF q.gen # keyCacheGen[b] THEN UNCHANGED keyCache
       ELSE \E room \in RoomFor(keyCache[b], q.key) :
              keyCache' = [keyCache EXCEPT ![b] =
                             [room EXCEPT ![q.key] = [valid |-> q.valid, fresh |-> TRUE]]]
    /\ request' = [request EXCEPT ![r].at = IF q.valid THEN "allowed" ELSE "failing"]
    /\ UNCHANGED <<database, keyCacheGen, ipLimiter, call, restarts>>

(* recordFailure, and the 401 that follows it.                             *)
RecordFailure(r) ==
    LET b == request[r].broker  a == request[r].address  w == ipLimiter[b][a] IN
    /\ request[r].at = "failing"
    /\ IF w = None \/ ~w.open
       THEN \E room \in RoomFor(ipLimiter[b], a) :
              ipLimiter' = [ipLimiter EXCEPT ![b] =
                              [room EXCEPT ![a] = [failures |-> 1, open |-> TRUE]]]
       ELSE ipLimiter' = [ipLimiter EXCEPT ![b][a].failures = @ + 1]
    /\ request' = [request EXCEPT ![r].at = "denied"]
    /\ UNCHANGED <<database, keyCache, keyCacheGen, call, restarts>>

-----------------------------------------------------------------------------
(* The administration calls.  Each is authorised first (requireProject     *)
(* asks the logger whether the project exists), then it makes its change   *)
(* in a call of its own.  `target' is the key, or the project to delete.   *)
Authorize(c, b, op, x) ==
    /\ call[c].at = "idle"
    /\ op = "delete" => x \in projects
    /\ op \in {"revoke", "create"} => ProjectOf[x] \in projects
    /\ op = "create" => x \notin MadeUp
    /\ call' = [call EXCEPT ![c] = [at |-> "authorized", op |-> op, broker |-> b,
                                    target |-> x, keys |-> {}]]
    /\ UNCHANGED <<database, memory, request, restarts>>

Requested(c, op) == call[c].at \in {"authorized", "abandoned"} /\ call[c].op = op

(* What becomes of the call: nobody waits for an abandoned one.            *)
After(c, at) == IF call[c].at = "abandoned" THEN "failed" ELSE at

CreateAPIKey(c) ==
    /\ Requested(c, "create")
    /\ stored[call[c].target] = "absent"        \* a new random plaintext
    /\ stored' = [stored EXCEPT ![call[c].target] = "active"]
    /\ call' = [call EXCEPT ![c].at = After(c, "ok")]
    /\ UNCHANGED <<projects, memory, request, restarts>>

(* The update matches a document that is there, revoked or not.            *)
RevokeAPIKey(c) ==
    LET k == call[c].target IN
    /\ Requested(c, "revoke")
    /\ IF stored[k] \in {"active", "revoked"}
       THEN /\ stored' = [stored EXCEPT ![k] = "revoked"]
            /\ call' = [call EXCEPT ![c].at = After(c, "committed"), ![c].keys = {k}]
       ELSE /\ call' = [call EXCEPT ![c].at = "failed"]         \* ErrKeyNotFound
            /\ UNCHANGED stored
    /\ UNCHANGED <<projects, memory, request, restarts>>

(* One transaction: the project and the documents of its keys.             *)
DeleteProject(c) ==
    LET gone == {k \in Keys : ProjectOf[k] = call[c].target
                                /\ stored[k] \in {"active", "revoked"}} IN
    /\ Requested(c, "delete")
    /\ projects' = projects \ {call[c].target}
    /\ stored' = [k \in Keys |-> IF k \in gone THEN "deleted" ELSE stored[k]]
    /\ call' = [call EXCEPT ![c].at = After(c, "committed"), ![c].keys = gone]
    /\ UNCHANGED <<memory, request, restarts>>

(* The call to the logger fails: the handler answers an error and evicts   *)
(* nothing.  The change may be made already, or be made later by a logger  *)
(* that nobody waits for, or never.                                        *)
Lost(at) == CASE at = "authorized" -> "abandoned" [] at = "committed" -> "failed" [] OTHER -> at

CallFails(c) ==
    /\ call[c].at \in {"authorized", "committed"}
    /\ call' = [call EXCEPT ![c].at = Lost(@)]
    /\ UNCHANGED <<database, memory, request, restarts>>

(* forgetCachedKeys, by key or by project; then the handler answers.       *)
Matches(c, k) == IF call[c].op = "revoke" THEN k = call[c].target
                 ELSE ProjectOf[k] = call[c].target

(* Mutant: the generation goes back on the next eviction.                  *)
ForgetCachedKeysBackwards(c) ==
    LET b == call[c].broker IN
    /\ call[c].at = "committed"
    /\ keyCacheGen' = [keyCacheGen EXCEPT ![b] = @ - 1]
    /\ keyCache' = [keyCache EXCEPT ![b] = [k \in Keys |->
         IF @[k] # None /\ @[k].valid /\ Matches(c, k) THEN None ELSE @[k]]]
    /\ call' = [call EXCEPT ![c].at = "ok"]
    /\ UNCHANGED <<database, ipLimiter, request, restarts>>

ForgetCachedKeys(c) ==
    LET b == call[c].broker IN
    /\ call[c].at = "committed"
    /\ keyCacheGen' = [keyCacheGen EXCEPT ![b] = @ + 1]
    /\ keyCache' = [keyCache EXCEPT ![b] = [k \in Keys |->
         IF @[k] # None /\ @[k].valid /\ Matches(c, k) THEN None ELSE @[k]]]
    /\ call' = [call EXCEPT ![c].at = "ok"]
    /\ UNCHANGED <<database, ipLimiter, request, restarts>>

-----------------------------------------------------------------------------
(* Time: cacheTTL and rateLimitWindow run out.                             *)
EntryExpires(b, k) ==
    /\ keyCache[b][k] # None /\ keyCache[b][k].fresh
    /\ keyCache' = [keyCache EXCEPT ![b][k].fresh = FALSE]
    /\ UNCHANGED <<database, keyCacheGen, ipLimiter, request, call, restarts>>

WindowEnds(b, a) ==
    /\ ipLimiter[b][a] # None /\ ipLimiter[b][a].open
    /\ ipLimiter' = [ipLimiter EXCEPT ![b][a].open = FALSE]
    /\ UNCHANGED <<database, keyCache, keyCacheGen, request, call, restarts>>

(* sweepAuthCaches holds one lock, then the other.                         *)
SweepKeys(b) ==
    /\ keyCache' = [keyCache EXCEPT ![b] = [k \in Keys |->
         IF @[k] # None /\ ~@[k].fresh THEN None ELSE @[k]]]
    /\ keyCache' # keyCache
    /\ UNCHANGED <<database, keyCacheGen, ipLimiter, request, call, restarts>>

SweepAddresses(b) ==
    /\ ipLimiter' = [ipLimiter EXCEPT ![b] = [a \in Addresses |->
         IF @[a] # None /\ ~@[a].open THEN None ELSE @[a]]]
    /\ ipLimiter' # ipLimiter
    /\ UNCHANGED <<database, keyCache, keyCacheGen, request, call, restarts>>

(* A broker starts again with nothing in memory; who was waiting for it    *)
(* gets no answer.                                                         *)
Working == {"admitted", "missed", "validating", "validated", "failing"}

Restart(b) ==
    /\ restarts < MaxRestarts
    /\ restarts' = restarts + 1
    /\ keyCache' = [keyCache EXCEPT ![b] = [k \in Keys |-> None]]
    /\ keyCacheGen' = [keyCacheGen EXCEPT ![b] = 0]
    /\ ipLimiter' = [ipLimiter EXCEPT ![b] = [a \in Addresses |-> None]]
    /\ request' = [r \in Requests |-> IF request[r].broker = b /\ request[r].at \in Working
                                      THEN [request[r] EXCEPT !.at = "error"] ELSE request[r]]
    /\ call' = [c \in Calls |-> IF call[c].broker = b THEN [call[c] EXCEPT !.at = Lost(@)]
                                ELSE call[c]]
    /\ UNCHANGED database

-----------------------------------------------------------------------------
RequestNext(r) ==
    \/ \E b \in Brokers, k \in Keys \cup {None}, a \in Addresses : Arrive(r, b, k, a)
    \/ NoBearer(r) \/ LookUp(r) \/ ReadGeneration(r) \/ ValidateAPIKey(r)
    \/ ValidationFails(r) \/ CacheKeyResult(r) \/ RecordFailure(r)

CallNext(c) ==
    \/ \E b \in Brokers :
         \/ \E k \in Keys, op \in {"create", "revoke"} : Authorize(c, b, op, k)
         \/ \E p \in Projects : Authorize(c, b, "delete", p)
    \/ CreateAPIKey(c) \/ RevokeAPIKey(c) \/ DeleteProject(c)
    \/ CallFails(c) \/ ForgetCachedKeys(c)

BrokerNext(b) ==
    \/ \E k \in Keys : EntryExpires(b, k)
    \/ \E a \in Addresses : WindowEnds(b, a)
    \/ SweepKeys(b) \/ SweepAddresses(b) \/ Restart(b)

Next == \/ \E r \in Requests : RequestNext(r)
        \/ \E c \in Calls : CallNext(c)
        \/ \E b \in Brokers : BrokerNext(b)

Spec == Init /\ [][Next]_vars
=============================================================================
