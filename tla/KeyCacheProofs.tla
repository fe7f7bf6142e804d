--------------------------- MODULE KeyCacheProofs ---------------------------
(***************************************************************************)
(* The theorems of authentication by API key, and their proofs.            *)
(*                                                                         *)
(* A key that is dead (made up, revoked or deleted with its project) stays *)
(* dead, and whatever the broker holds against a key, it holds against a   *)
(* dead one.  A key that the broker has answered to be stopped is dead,    *)
(* has no valid entry in that broker's cache, and a validation that still  *)
(* takes it for valid carries a generation of before the eviction.         *)
(***************************************************************************)
EXTENDS KeyCacheProperties, FiniteSetTheorems, TLAPS

Dead(k) == k \in MadeUp \/ stored[k] \in {"revoked", "deleted"}

(* A call that changes or creates knows what; the keys it stopped are keys *)
(* its eviction matches, and they are gone for good.                       *)
CallsOK ==
    \A c \in Calls :
        /\ call[c].at # "idle" =>
             /\ call[c].broker \in Brokers
             /\ call[c].op \in {"create", "revoke"} => call[c].target \in Keys
             /\ call[c].op = "create" => call[c].target \notin MadeUp /\ call[c].keys = {}
        /\ \A k \in call[c].keys : stored[k] \in {"revoked", "deleted"} /\ Matches(c, k)

MadeUpAbsent == \A k \in MadeUp : stored[k] = "absent"

RequestsOK ==
    \A r \in Requests : request[r].at # "idle" =>
        /\ request[r].broker \in Brokers /\ request[r].address \in Addresses
        /\ request[r].key # None => Known(request[r].key)
        /\ request[r].at \in {"missed", "validating", "validated"} => request[r].key # None
        /\ request[r].at \in {"validating", "validated"}
              => request[r].gen <= keyCacheGen[request[r].broker]

HeldAgainstDead ==
    /\ \A b \in Brokers, k \in Keys :
         keyCache[b][k] # None /\ ~keyCache[b][k].valid => Dead(k)
    /\ \A r \in Requests :
         /\ request[r].at = "validated" /\ ~request[r].valid => Dead(request[r].key)
         /\ request[r].at \in {"failing", "denied"} /\ request[r].key # None
              => Dead(request[r].key)

StoppedForgotten ==
    \A b \in Brokers : \A k \in Stopped(b) :
        /\ keyCache[b][k] # None => ~keyCache[b][k].valid
        /\ \A r \in Requests :
             request[r].at = "validated" /\ request[r].broker = b /\ request[r].key = k
               /\ request[r].valid => request[r].gen < keyCacheGen[b]

LateOK ==
    \A r \in Requests : request[r].late =>
        /\ request[r].at \notin {"idle", "allowed"}
        /\ \E b \in Brokers : \E k \in Stopped(b) : request[r].broker = b /\ request[r].key = k
        /\ ~(request[r].at = "validated" /\ request[r].valid)

(* What every step does to a key: it hands one out, or ends one.           *)
KeysOnlyDie == \A k \in Keys : (Known(k) => Known(k)') /\ (Dead(k) => Dead(k)')

IInv == /\ TypeOK /\ CallsOK /\ MadeUpAbsent /\ RequestsOK
        /\ HeldAgainstDead /\ StoppedForgotten /\ LateOK
-----------------------------------------------------------------------------
(* Making room in a map only takes entries away.                           *)
LEMMA RoomOnlyForgets ==
    ASSUME NEW S, NEW T, NEW f \in [S -> T \cup {None}], NEW x \in S, NEW g \in RoomFor(f, x)
    PROVE  /\ g \in [S -> T \cup {None}]
           /\ \A y \in S : g[y] = None \/ g[y] = f[y]
<1>1. CASE g = f  BY <1>1
<1>2. CASE g \in {[f EXCEPT ![y] = None] : y \in Cached(f)}  BY <1>2 DEF Cached
<1> QED BY <1>1, <1>2 DEF RoomFor

(* Every step keeps the types.                                            *)
LEMMA TypeStep ==
    ASSUME TypeOK, RequestsOK, CallsOK, [Next]_vars
    PROVE  TypeOK'
<1>q. request \in [Requests -> RequestRecords]  BY DEF TypeOK
<1>c. call \in [Calls -> CallRecords]  BY DEF TypeOK
<1>k. keyCache \in [Brokers -> [Keys -> Entries \cup {None}]]  BY DEF TypeOK
<1>g. keyCacheGen \in [Brokers -> Nat]  BY DEF TypeOK
<1>l. ipLimiter \in [Brokers -> [Addresses -> Windows \cup {None}]]  BY DEF TypeOK
<1>1. ASSUME NEW r \in Requests, RequestNext(r) PROVE TypeOK'
  <2>1. ASSUME NEW b \in Brokers, NEW k \in Keys \cup {None}, NEW a \in Addresses, Arrive(r, b, k, a) PROVE TypeOK'
    <3> DEFINE v == k \in Stopped(b)
               s == IF isRateLimited(b, a) THEN "limited" ELSE "admitted"
    <3>0. v \in BOOLEAN /\ s \in Standings  BY DEF Standings
    <3>1. request' = [request EXCEPT ![r] =
            [at |-> s, broker |-> b, key |-> k, address |-> a, gen |-> 0,
             valid |-> FALSE, late |-> v]]
      BY <2>1 DEF Arrive
    <3> HIDE DEF v, s
    <3>2. request' \in [Requests -> RequestRecords]
      BY <1>q, <3>0, <3>1 DEF RequestRecords
    <3> QED BY <1>1, <2>1, <3>1, <3>2 DEF TypeOK, database, memory, Arrive
  <2>2. CASE NoBearer(r)
    <3>1. request' \in [Requests -> RequestRecords]
      BY <1>1, <2>2, <1>q DEF RequestRecords, Standings, NoBearer
    <3> QED BY <1>1, <2>2, <3>1 DEF TypeOK, database, memory, NoBearer
  <2>3. CASE LookUp(r)
    <3>0. PICK s \in {"missed", "allowed", "failing"} : request' = [request EXCEPT ![r].at = s]
      BY <2>3 DEF LookUp
    <3>1. request' \in [Requests -> RequestRecords]
      BY <1>1, <1>q, <3>0, SMTT(30) DEF RequestRecords, Standings
    <3> QED BY <1>1, <2>3, <3>1 DEF TypeOK, database, memory, LookUp
  <2>4. CASE ReadGeneration(r)
    <3>1. PICK g \in Nat :
            request' = [request EXCEPT ![r].at = "validating", ![r].gen = g]
      BY <1>1, <2>4, <1>g DEF RequestsOK, ReadGeneration
    <3>2. [request[r] EXCEPT !.at = "validating", !.gen = g] \in RequestRecords
      BY <1>q DEF RequestRecords, Standings
    <3>3. request' \in [Requests -> RequestRecords]
      BY <1>q, <3>1, <3>2
    <3> QED BY <1>1, <2>4, <3>1, <3>3 DEF TypeOK, database, memory, ReadGeneration
  <2>5. CASE ValidateAPIKey(r)
    <3>1. PICK v \in BOOLEAN :
            request' = [request EXCEPT ![r].at = "validated", ![r].valid = v]
      BY <2>5 DEF ValidateAPIKey
    <3>2. [request[r] EXCEPT !.at = "validated", !.valid = v] \in RequestRecords
      BY <1>q DEF RequestRecords, Standings
    <3>3. request' \in [Requests -> RequestRecords]
      BY <1>q, <3>1, <3>2
    <3> QED BY <1>1, <2>5, <3>1, <3>3 DEF TypeOK, database, memory, ValidateAPIKey
  <2>6. CASE ValidationFails(r)
    <3>1. request' \in [Requests -> RequestRecords]
      BY <1>1, <2>6, <1>q DEF RequestRecords, Standings, ValidationFails
    <3> QED BY <1>1, <2>6, <3>1 DEF TypeOK, database, memory, ValidationFails
  <2>7. CASE CacheKeyResult(r)
    <3>1. request' \in [Requests -> RequestRecords]
      BY <1>1, <2>7, <1>q DEF RequestRecords, Standings, CacheKeyResult
    <3>2. PICK B \in Brokers, K \in Keys, v \in BOOLEAN :
            B = request[r].broker /\ K = request[r].key /\ v = request[r].valid
      BY <1>1, <2>7, <1>q DEF RequestsOK, RequestRecords, CacheKeyResult
    <3>3. CASE UNCHANGED keyCache
      BY <1>1, <2>7, <3>1, <3>3 DEF TypeOK, database, memory, CacheKeyResult
    <3>4. ASSUME NEW room \in RoomFor(keyCache[B], K),
                 keyCache' = [keyCache EXCEPT ![B] =
                                [room EXCEPT ![K] = [valid |-> v, fresh |-> TRUE]]]
          PROVE  TypeOK'
      <4>1. keyCache[B] \in [Keys -> Entries \cup {None}]  BY <1>k
      <4>2. room \in [Keys -> Entries \cup {None}]  BY <4>1, RoomOnlyForgets
      <4>3. [valid |-> v, fresh |-> TRUE] \in Entries  BY DEF Entries
      <4>4. [room EXCEPT ![K] = [valid |-> v, fresh |-> TRUE]] \in [Keys -> Entries \cup {None}]
        BY <4>2, <4>3
      <4>5. keyCache' \in [Brokers -> [Keys -> Entries \cup {None}]]
        BY <1>k, <3>4, <4>4
      <4> QED BY <1>1, <2>7, <3>1, <4>5 DEF TypeOK, database, CacheKeyResult
    <3> QED BY <2>7, <3>2, <3>3, <3>4 DEF CacheKeyResult
  <2>8. CASE RecordFailure(r)
    <3>1. request' \in [Requests -> RequestRecords]
      BY <1>1, <2>8, <1>q DEF RequestRecords, Standings, RecordFailure
    <3>2. PICK B \in Brokers, A \in Addresses : B = request[r].broker /\ A = request[r].address
      BY <1>1, <2>8 DEF RequestsOK, RecordFailure
    <3>3. ipLimiter[B] \in [Addresses -> Windows \cup {None}]  BY <1>l
    <3>4. ASSUME NEW room \in RoomFor(ipLimiter[B], A),
                 ipLimiter' = [ipLimiter EXCEPT ![B] =
                                 [room EXCEPT ![A] = [failures |-> 1, open |-> TRUE]]]
          PROVE  ipLimiter' \in [Brokers -> [Addresses -> Windows \cup {None}]]
      <4>1. room \in [Addresses -> Windows \cup {None}]  BY <3>3, RoomOnlyForgets
      <4>2. [failures |-> 1, open |-> TRUE] \in Windows  BY DEF Windows
      <4>3. [room EXCEPT ![A] = [failures |-> 1, open |-> TRUE]] \in [Addresses -> Windows \cup {None}]
        BY <4>1, <4>2
      <4> QED BY <1>l, <3>4, <4>3
    <3>5. ASSUME ipLimiter[B][A] # None,
                 ipLimiter' = [ipLimiter EXCEPT ![B][A].failures = @ + 1]
          PROVE  ipLimiter' \in [Brokers -> [Addresses -> Windows \cup {None}]]
      <4>1. ipLimiter[B][A] \in Windows  BY <3>3, <3>5
      <4>2. [ipLimiter[B][A] EXCEPT !.failures = @ + 1] \in Windows  BY <4>1 DEF Windows
      <4>3. [ipLimiter[B] EXCEPT ![A].failures = @ + 1] \in [Addresses -> Windows \cup {None}]
        BY <3>3, <4>2
      <4> QED BY <1>l, <3>5, <4>3
    <3>6. ipLimiter' \in [Brokers -> [Addresses -> Windows \cup {None}]]
      BY <2>8, <3>2, <3>4, <3>5 DEF RecordFailure
    <3> QED BY <1>1, <2>8, <3>1, <3>6 DEF TypeOK, database, memory, RecordFailure
  <2> QED BY <1>1, <2>1, <2>2, <2>3, <2>4, <2>5, <2>6, <2>7, <2>8 DEF RequestNext
<1>2. ASSUME NEW c \in Calls, CallNext(c) PROVE TypeOK'
  <2>1. ASSUME NEW b \in Brokers, NEW k \in Keys, NEW op \in {"create", "revoke"}, Authorize(c, b, op, k) PROVE TypeOK'
    <3>1. call' \in [Calls -> CallRecords]
      BY <1>2, <2>1, <1>c DEF CallRecords, Stages, Authorize
    <3> QED BY <1>2, <2>1, <3>1 DEF TypeOK, database, memory, Authorize
  <2>2. ASSUME NEW b \in Brokers, NEW p \in Projects, Authorize(c, b, "delete", p) PROVE TypeOK'
    <3>1. call' \in [Calls -> CallRecords]
      BY <1>2, <2>2, <1>c DEF CallRecords, Stages, Authorize
    <3> QED BY <1>2, <2>2, <3>1 DEF TypeOK, database, memory, Authorize
  <2>3. CASE CreateAPIKey(c)
    <3>1. call' \in [Calls -> CallRecords]
      BY <1>2, <2>3, <1>c DEF CallRecords, Stages, CreateAPIKey, After, Requested
    <3> QED BY <1>2, <2>3, <3>1 DEF TypeOK, database, memory, CreateAPIKey
  <2>4. CASE RevokeAPIKey(c)
    <3>1. call' \in [Calls -> CallRecords]
      BY <1>2, <2>4, <1>c DEF CallRecords, Stages, RevokeAPIKey, After, Requested
    <3> QED BY <1>2, <2>4, <3>1 DEF TypeOK, database, memory, RevokeAPIKey
  <2>5. CASE DeleteProject(c)
    <3>1. PICK K \in SUBSET Keys, s \in Stages :
            call' = [call EXCEPT ![c].at = s, ![c].keys = K]
      BY <1>2, <2>5, <1>c DEF DeleteProject, After, Stages, CallRecords
    <3>2. call' \in [Calls -> CallRecords]
      BY <1>2, <2>5, <1>c, <3>1, ZenonT(60) DEF CallRecords
    <3> QED BY <1>2, <2>5, <3>1, <3>2 DEF TypeOK, database, memory, DeleteProject
  <2>6. CASE CallFails(c)
    <3>1. call' \in [Calls -> CallRecords]
      BY <1>2, <2>6, <1>c DEF CallRecords, Stages, CallFails, Lost
    <3> QED BY <1>2, <2>6, <3>1 DEF TypeOK, database, memory, CallFails
  <2>7. CASE ForgetCachedKeys(c)
    <3>1. call' \in [Calls -> CallRecords]
      BY <1>2, <2>7, <1>c, SMTT(30) DEF CallRecords, Stages, ForgetCachedKeys
    <3>2. keyCache' \in [Brokers -> [Keys -> Entries \cup {None}]]
      BY <1>2, <2>7, <1>k DEF ForgetCachedKeys
    <3>3. keyCacheGen' \in [Brokers -> Nat]
      BY <1>2, <2>7, <1>g DEF ForgetCachedKeys, CallsOK
    <3> QED BY <1>2, <2>7, <3>1, <3>2, <3>3 DEF TypeOK, database, memory, ForgetCachedKeys
  <2> QED BY <1>2, <2>1, <2>2, <2>3, <2>4, <2>5, <2>6, <2>7 DEF CallNext
<1>3. ASSUME NEW b \in Brokers, BrokerNext(b) PROVE TypeOK'
  <2>1. ASSUME NEW k \in Keys, EntryExpires(b, k) PROVE TypeOK'
    <3>0. keyCache[b] \in [Keys -> Entries \cup {None}] /\ keyCache[b][k] \in Entries
      BY <2>1, <1>k DEF EntryExpires
    <3>2. [keyCache[b][k] EXCEPT !.fresh = FALSE] \in Entries  BY <3>0 DEF Entries
    <3>3. [keyCache[b] EXCEPT ![k].fresh = FALSE] \in [Keys -> Entries \cup {None}]
      BY <3>0, <3>2
    <3>1. keyCache' \in [Brokers -> [Keys -> Entries \cup {None}]]
      BY <2>1, <1>k, <3>3 DEF EntryExpires
    <3> QED BY <1>3, <2>1, <3>1 DEF TypeOK, database, memory, EntryExpires
  <2>2. ASSUME NEW a \in Addresses, WindowEnds(b, a) PROVE TypeOK'
    <3>0. ipLimiter[b] \in [Addresses -> Windows \cup {None}] /\ ipLimiter[b][a] \in Windows
      BY <2>2, <1>l DEF WindowEnds
    <3>2. [ipLimiter[b][a] EXCEPT !.open = FALSE] \in Windows  BY <3>0 DEF Windows
    <3>3. [ipLimiter[b] EXCEPT ![a].open = FALSE] \in [Addresses -> Windows \cup {None}]
      BY <3>0, <3>2
    <3>1. ipLimiter' \in [Brokers -> [Addresses -> Windows \cup {None}]]
      BY <2>2, <1>l, <3>3 DEF WindowEnds
    <3> QED BY <1>3, <2>2, <3>1 DEF TypeOK, database, memory, WindowEnds
  <2>3. CASE SweepKeys(b)
    BY <1>3, <2>3
    DEF TypeOK, database, memory, SweepKeys
  <2>4. CASE SweepAddresses(b)
    BY <1>3, <2>4
    DEF TypeOK, database, memory, SweepAddresses
  <2>5. CASE Restart(b)
    <3>1. request' \in [Requests -> RequestRecords]
      BY <1>3, <2>5, <1>q DEF RequestRecords, Standings, Restart
    <3>2. call' \in [Calls -> CallRecords]
      BY <1>3, <2>5, <1>c, SMTT(30) DEF CallRecords, Stages, Restart, Lost
    <3> QED BY <1>3, <2>5, <3>1, <3>2 DEF TypeOK, database, memory, Restart
  <2> QED BY <1>3, <2>1, <2>2, <2>3, <2>4, <2>5 DEF BrokerNext
<1>4. CASE UNCHANGED vars
    BY <1>4 DEF TypeOK, database, memory, vars
<1> QED BY <1>1, <1>2, <1>3, <1>4 DEF Next

(* A call keeps knowing what it is about, and stopped keys stay stopped.   *)
LEMMA CallsStep ==
    ASSUME KeyCacheAssumption, TypeOK, CallsOK, [Next]_vars
    PROVE  CallsOK'
<1>c. call \in [Calls -> CallRecords]  BY DEF TypeOK
<1>s. stored \in [Keys -> {"absent", "active", "revoked", "deleted"}]  BY DEF TypeOK
<1>1. ASSUME NEW r \in Requests, RequestNext(r) PROVE CallsOK'
  <2>1. ASSUME NEW b \in Brokers, NEW k \in Keys \cup {None}, NEW a \in Addresses, Arrive(r, b, k, a) PROVE CallsOK'
    BY <1>1, <2>1, <1>c, <1>s
    DEF CallsOK, CallRecords, Matches, database, Arrive
  <2>2. CASE NoBearer(r)
    BY <1>1, <2>2, <1>c, <1>s
    DEF CallsOK, CallRecords, Matches, database, NoBearer
  <2>3. CASE LookUp(r)
    BY <1>1, <2>3, <1>c, <1>s
    DEF CallsOK, CallRecords, Matches, database, LookUp
  <2>4. CASE ReadGeneration(r)
    BY <1>1, <2>4, <1>c, <1>s
    DEF CallsOK, CallRecords, Matches, database, ReadGeneration
  <2>5. CASE ValidateAPIKey(r)
    BY <1>1, <2>5, <1>c, <1>s
    DEF CallsOK, CallRecords, Matches, database, ValidateAPIKey
  <2>6. CASE ValidationFails(r)
    BY <1>1, <2>6, <1>c, <1>s
    DEF CallsOK, CallRecords, Matches, database, ValidationFails
  <2>7. CASE CacheKeyResult(r)
    BY <1>1, <2>7, <1>c, <1>s
    DEF CallsOK, CallRecords, Matches, database, CacheKeyResult
  <2>8. CASE RecordFailure(r)
    BY <1>1, <2>8, <1>c, <1>s
    DEF CallsOK, CallRecords, Matches, database, RecordFailure
  <2> QED BY <1>1, <2>1, <2>2, <2>3, <2>4, <2>5, <2>6, <2>7, <2>8 DEF RequestNext
<1>2. ASSUME NEW c \in Calls, CallNext(c) PROVE CallsOK'
  <2>1. ASSUME NEW b \in Brokers, NEW k \in Keys, NEW op \in {"create", "revoke"}, Authorize(c, b, op, k) PROVE CallsOK'
    BY <1>2, <2>1, <1>c, <1>s
    DEF CallsOK, CallRecords, Matches, database, Authorize, KeyCacheAssumption
  <2>2. ASSUME NEW b \in Brokers, NEW p \in Projects, Authorize(c, b, "delete", p) PROVE CallsOK'
    BY <1>2, <2>2, <1>c, <1>s
    DEF CallsOK, CallRecords, Matches, database, Authorize, KeyCacheAssumption
  <2>3. CASE CreateAPIKey(c)
    BY <1>2, <2>3, <1>c, <1>s
    DEF CallsOK, CallRecords, Matches, database, CreateAPIKey, After, Requested
  <2>4. CASE RevokeAPIKey(c)
    BY <1>2, <2>4, <1>c, <1>s
    DEF CallsOK, CallRecords, Matches, database, RevokeAPIKey, After, Requested
  <2>5. CASE DeleteProject(c)
    BY <1>2, <2>5, <1>c, <1>s
    DEF CallsOK, CallRecords, Matches, database, DeleteProject, After, Requested
  <2>6. CASE CallFails(c)
    BY <1>2, <2>6, <1>c, <1>s
    DEF CallsOK, CallRecords, Matches, database, CallFails, Lost
  <2>7. CASE ForgetCachedKeys(c)
    BY <1>2, <2>7, <1>c, <1>s
    DEF CallsOK, CallRecords, Matches, database, ForgetCachedKeys
  <2> QED BY <1>2, <2>1, <2>2, <2>3, <2>4, <2>5, <2>6, <2>7 DEF CallNext
<1>3. ASSUME NEW b \in Brokers, BrokerNext(b) PROVE CallsOK'
  <2>1. ASSUME NEW k \in Keys, EntryExpires(b, k) PROVE CallsOK'
    BY <1>3, <2>1, <1>c, <1>s
    DEF CallsOK, CallRecords, Matches, database, EntryExpires
  <2>2. ASSUME NEW a \in Addresses, WindowEnds(b, a) PROVE CallsOK'
    BY <1>3, <2>2, <1>c, <1>s
    DEF CallsOK, CallRecords, Matches, database, WindowEnds
  <2>3. CASE SweepKeys(b)
    BY <1>3, <2>3, <1>c, <1>s
    DEF CallsOK, CallRecords, Matches, database, SweepKeys
  <2>4. CASE SweepAddresses(b)
    BY <1>3, <2>4, <1>c, <1>s
    DEF CallsOK, CallRecords, Matches, database, SweepAddresses
  <2>5. CASE Restart(b)
    BY <1>3, <2>5, <1>c, <1>s
    DEF CallsOK, CallRecords, Matches, database, Restart, Lost
  <2> QED BY <1>3, <2>1, <2>2, <2>3, <2>4, <2>5 DEF BrokerNext
<1>4. CASE UNCHANGED vars
    BY <1>4, <1>c, <1>s DEF CallsOK, CallRecords, Matches, database, vars
<1> QED BY <1>1, <1>2, <1>3, <1>4 DEF Next

(* A key that is dead stays dead, and one that was handed out is never    *)
(* absent again.                                                           *)
LEMMA DeadStaysDead ==
    ASSUME KeyCacheAssumption, TypeOK, CallsOK, MadeUpAbsent, [Next]_vars
    PROVE  MadeUpAbsent' /\ KeysOnlyDie
<1>c. call \in [Calls -> CallRecords]  BY DEF TypeOK
<1>s. stored \in [Keys -> {"absent", "active", "revoked", "deleted"}]  BY DEF TypeOK
<1>1. ASSUME NEW r \in Requests, RequestNext(r) PROVE MadeUpAbsent' /\ KeysOnlyDie
  <2>1. ASSUME NEW b \in Brokers, NEW k \in Keys \cup {None}, NEW a \in Addresses, Arrive(r, b, k, a) PROVE MadeUpAbsent' /\ KeysOnlyDie
    BY <1>1, <2>1, <1>c, <1>s
    DEF database, CallsOK, Known, Dead, KeysOnlyDie, MadeUpAbsent, KeyCacheAssumption, Arrive
  <2>2. CASE NoBearer(r)
    BY <1>1, <2>2, <1>c, <1>s
    DEF database, CallsOK, Known, Dead, KeysOnlyDie, MadeUpAbsent, KeyCacheAssumption, NoBearer
  <2>3. CASE LookUp(r)
    BY <1>1, <2>3, <1>c, <1>s
    DEF database, CallsOK, Known, Dead, KeysOnlyDie, MadeUpAbsent, KeyCacheAssumption, LookUp
  <2>4. CASE ReadGeneration(r)
    BY <1>1, <2>4, <1>c, <1>s
    DEF database, CallsOK, Known, Dead, KeysOnlyDie, MadeUpAbsent, KeyCacheAssumption, ReadGeneration
  <2>5. CASE ValidateAPIKey(r)
    BY <1>1, <2>5, <1>c, <1>s
    DEF database, CallsOK, Known, Dead, KeysOnlyDie, MadeUpAbsent, KeyCacheAssumption, ValidateAPIKey
  <2>6. CASE ValidationFails(r)
    BY <1>1, <2>6, <1>c, <1>s
    DEF database, CallsOK, Known, Dead, KeysOnlyDie, MadeUpAbsent, KeyCacheAssumption, ValidationFails
  <2>7. CASE CacheKeyResult(r)
    BY <1>1, <2>7, <1>c, <1>s
    DEF database, CallsOK, Known, Dead, KeysOnlyDie, MadeUpAbsent, KeyCacheAssumption, CacheKeyResult
  <2>8. CASE RecordFailure(r)
    BY <1>1, <2>8, <1>c, <1>s
    DEF database, CallsOK, Known, Dead, KeysOnlyDie, MadeUpAbsent, KeyCacheAssumption, RecordFailure
  <2> QED BY <1>1, <2>1, <2>2, <2>3, <2>4, <2>5, <2>6, <2>7, <2>8 DEF RequestNext
<1>2. ASSUME NEW c \in Calls, CallNext(c) PROVE MadeUpAbsent' /\ KeysOnlyDie
  <2>1. ASSUME NEW b \in Brokers, NEW k \in Keys, NEW op \in {"create", "revoke"}, Authorize(c, b, op, k) PROVE MadeUpAbsent' /\ KeysOnlyDie
    BY <1>2, <2>1, <1>c, <1>s
    DEF database, CallsOK, Known, Dead, KeysOnlyDie, MadeUpAbsent, KeyCacheAssumption, Authorize
  <2>2. ASSUME NEW b \in Brokers, NEW p \in Projects, Authorize(c, b, "delete", p) PROVE MadeUpAbsent' /\ KeysOnlyDie
    BY <1>2, <2>2, <1>c, <1>s
    DEF database, CallsOK, Known, Dead, KeysOnlyDie, MadeUpAbsent, KeyCacheAssumption, Authorize
  <2>3. CASE CreateAPIKey(c)
    BY <1>2, <2>3, <1>c, <1>s
    DEF database, CallsOK, Known, Dead, KeysOnlyDie, MadeUpAbsent, KeyCacheAssumption, CreateAPIKey, Requested
  <2>4. CASE RevokeAPIKey(c)
    BY <1>2, <2>4, <1>c, <1>s
    DEF database, CallsOK, Known, Dead, KeysOnlyDie, MadeUpAbsent, KeyCacheAssumption, RevokeAPIKey
  <2>5. CASE DeleteProject(c)
    BY <1>2, <2>5, <1>c, <1>s
    DEF database, CallsOK, Known, Dead, KeysOnlyDie, MadeUpAbsent, KeyCacheAssumption, DeleteProject
  <2>6. CASE CallFails(c)
    BY <1>2, <2>6, <1>c, <1>s
    DEF database, CallsOK, Known, Dead, KeysOnlyDie, MadeUpAbsent, KeyCacheAssumption, CallFails
  <2>7. CASE ForgetCachedKeys(c)
    BY <1>2, <2>7, <1>c, <1>s
    DEF database, CallsOK, Known, Dead, KeysOnlyDie, MadeUpAbsent, KeyCacheAssumption, ForgetCachedKeys
  <2> QED BY <1>2, <2>1, <2>2, <2>3, <2>4, <2>5, <2>6, <2>7 DEF CallNext
<1>3. ASSUME NEW b \in Brokers, BrokerNext(b) PROVE MadeUpAbsent' /\ KeysOnlyDie
  <2>1. ASSUME NEW k \in Keys, EntryExpires(b, k) PROVE MadeUpAbsent' /\ KeysOnlyDie
    BY <1>3, <2>1, <1>c, <1>s
    DEF database, CallsOK, Known, Dead, KeysOnlyDie, MadeUpAbsent, KeyCacheAssumption, EntryExpires
  <2>2. ASSUME NEW a \in Addresses, WindowEnds(b, a) PROVE MadeUpAbsent' /\ KeysOnlyDie
    BY <1>3, <2>2, <1>c, <1>s
    DEF database, CallsOK, Known, Dead, KeysOnlyDie, MadeUpAbsent, KeyCacheAssumption, WindowEnds
  <2>3. CASE SweepKeys(b)
    BY <1>3, <2>3, <1>c, <1>s
    DEF database, CallsOK, Known, Dead, KeysOnlyDie, MadeUpAbsent, KeyCacheAssumption, SweepKeys
  <2>4. CASE SweepAddresses(b)
    BY <1>3, <2>4, <1>c, <1>s
    DEF database, CallsOK, Known, Dead, KeysOnlyDie, MadeUpAbsent, KeyCacheAssumption, SweepAddresses
  <2>5. CASE Restart(b)
    BY <1>3, <2>5, <1>c, <1>s
    DEF database, CallsOK, Known, Dead, KeysOnlyDie, MadeUpAbsent, KeyCacheAssumption, Restart
  <2> QED BY <1>3, <2>1, <2>2, <2>3, <2>4, <2>5 DEF BrokerNext
<1>4. CASE UNCHANGED vars
    BY <1>4, <1>c, <1>s DEF database, CallsOK, Known, Dead, KeysOnlyDie, MadeUpAbsent, KeyCacheAssumption, vars
<1> QED BY <1>1, <1>2, <1>3, <1>4 DEF Next

(* A cached result changes the entry of its own key, in the broker that    *)
(* asked, and only if nothing was evicted since it asked.                  *)
LEMMA CachedResult ==
    ASSUME TypeOK, RequestsOK, NEW r \in Requests, CacheKeyResult(r),
           NEW B \in Brokers, NEW k \in Keys, keyCache'[B][k] # None
    PROVE  \/ keyCache'[B][k] = keyCache[B][k]
           \/ /\ B = request[r].broker /\ k = request[r].key
              /\ keyCache'[B][k].valid = request[r].valid
              /\ request[r].gen = keyCacheGen[B]
<1>q. request \in [Requests -> RequestRecords]  BY DEF TypeOK
<1>k. keyCache \in [Brokers -> [Keys -> Entries \cup {None}]]  BY DEF TypeOK
<1>1. PICK b \in Brokers, K \in Keys, v \in BOOLEAN :
        b = request[r].broker /\ K = request[r].key /\ v = request[r].valid
  BY <1>q DEF RequestsOK, RequestRecords, CacheKeyResult
<1>2. CASE UNCHANGED keyCache  BY <1>2
<1>3. ASSUME NEW room \in RoomFor(keyCache[b], K), request[r].gen = keyCacheGen[b],
             keyCache' = [keyCache EXCEPT ![b] =
                            [room EXCEPT ![K] = [valid |-> v, fresh |-> TRUE]]]
      PROVE  \/ keyCache'[B][k] = keyCache[B][k]
             \/ /\ B = b /\ k = K /\ keyCache'[B][k].valid = v
                /\ request[r].gen = keyCacheGen[B]
  <2>1. keyCache[b] \in [Keys -> Entries \cup {None}]  BY <1>k
  <2>2. /\ room \in [Keys -> Entries \cup {None}]
        /\ \A y \in Keys : room[y] = None \/ room[y] = keyCache[b][y]
    BY <2>1, RoomOnlyForgets
  <2>3. B # b => keyCache'[B] = keyCache[B]  BY <1>k, <1>3
  <2>4. B = b => keyCache'[B] = [room EXCEPT ![K] = [valid |-> v, fresh |-> TRUE]]
    BY <1>k, <1>3
  <2>5. B = b /\ k # K => keyCache'[B][k] = room[k]  BY <2>2, <2>4
  <2>6. B = b /\ k = K => keyCache'[B][k] = [valid |-> v, fresh |-> TRUE]
    BY <2>2, <2>4
  <2> QED BY <1>3, <2>2, <2>3, <2>5, <2>6
<1> QED BY <1>1, <1>2, <1>3 DEF CacheKeyResult

(* A request past the limiter knows its broker and its key, and holds no   *)
(* generation of the future.                                               *)
LEMMA RequestsStep ==
    ASSUME KeyCacheAssumption, TypeOK, CallsOK, RequestsOK, KeysOnlyDie, [Next]_vars
    PROVE  RequestsOK'
<1>q. request \in [Requests -> RequestRecords]  BY DEF TypeOK
<1>g. keyCacheGen \in [Brokers -> Nat]  BY DEF TypeOK
<1>1. ASSUME NEW r \in Requests, RequestNext(r) PROVE RequestsOK'
  <2>1. ASSUME NEW b \in Brokers, NEW k \in Keys \cup {None}, NEW a \in Addresses, Arrive(r, b, k, a) PROVE RequestsOK'
    BY <1>1, <2>1, <1>q, <1>g
    DEF database, memory, CallsOK, RequestsOK, KeysOnlyDie, RequestRecords, Standings, Arrive, Known
  <2>2. CASE NoBearer(r)
    BY <1>1, <2>2, <1>q, <1>g
    DEF database, memory, CallsOK, RequestsOK, KeysOnlyDie, RequestRecords, Standings, NoBearer
  <2>3. CASE LookUp(r)
    BY <1>1, <2>3, <1>q, <1>g, ZenonT(60)
    DEF database, memory, CallsOK, RequestsOK, KeysOnlyDie, RequestRecords, Standings, LookUp
  <2>4. CASE ReadGeneration(r)
    BY <1>1, <2>4, <1>q, <1>g
    DEF database, memory, CallsOK, RequestsOK, KeysOnlyDie, RequestRecords, Standings, ReadGeneration
  <2>5. CASE ValidateAPIKey(r)
    BY <1>1, <2>5, <1>q, <1>g
    DEF database, memory, CallsOK, RequestsOK, KeysOnlyDie, RequestRecords, Standings, ValidateAPIKey
  <2>6. CASE ValidationFails(r)
    BY <1>1, <2>6, <1>q, <1>g
    DEF database, memory, CallsOK, RequestsOK, KeysOnlyDie, RequestRecords, Standings, ValidationFails
  <2>7. CASE CacheKeyResult(r)
    BY <1>1, <2>7, <1>q, <1>g
    DEF database, memory, CallsOK, RequestsOK, KeysOnlyDie, RequestRecords, Standings, CacheKeyResult
  <2>8. CASE RecordFailure(r)
    BY <1>1, <2>8, <1>q, <1>g
    DEF database, memory, CallsOK, RequestsOK, KeysOnlyDie, RequestRecords, Standings, RecordFailure
  <2> QED BY <1>1, <2>1, <2>2, <2>3, <2>4, <2>5, <2>6, <2>7, <2>8 DEF RequestNext
<1>2. ASSUME NEW c \in Calls, CallNext(c) PROVE RequestsOK'
  <2>1. ASSUME NEW b \in Brokers, NEW k \in Keys, NEW op \in {"create", "revoke"}, Authorize(c, b, op, k) PROVE RequestsOK'
    BY <1>2, <2>1, <1>q, <1>g
    DEF database, memory, CallsOK, RequestsOK, KeysOnlyDie, RequestRecords, Standings, Authorize
  <2>2. ASSUME NEW b \in Brokers, NEW p \in Projects, Authorize(c, b, "delete", p) PROVE RequestsOK'
    BY <1>2, <2>2, <1>q, <1>g
    DEF database, memory, CallsOK, RequestsOK, KeysOnlyDie, RequestRecords, Standings, Authorize
  <2>3. CASE CreateAPIKey(c)
    BY <1>2, <2>3, <1>q, <1>g
    DEF database, memory, CallsOK, RequestsOK, KeysOnlyDie, RequestRecords, Standings, CreateAPIKey
  <2>4. CASE RevokeAPIKey(c)
    BY <1>2, <2>4, <1>q, <1>g
    DEF database, memory, CallsOK, RequestsOK, KeysOnlyDie, RequestRecords, Standings, RevokeAPIKey
  <2>5. CASE DeleteProject(c)
    BY <1>2, <2>5, <1>q, <1>g
    DEF database, memory, CallsOK, RequestsOK, KeysOnlyDie, RequestRecords, Standings, DeleteProject
  <2>6. CASE CallFails(c)
    BY <1>2, <2>6, <1>q, <1>g
    DEF database, memory, CallsOK, RequestsOK, KeysOnlyDie, RequestRecords, Standings, CallFails
  <2>7. CASE ForgetCachedKeys(c)
    BY <1>2, <2>7, <1>q, <1>g
    DEF database, memory, CallsOK, RequestsOK, KeysOnlyDie, RequestRecords, Standings, ForgetCachedKeys
  <2> QED BY <1>2, <2>1, <2>2, <2>3, <2>4, <2>5, <2>6, <2>7 DEF CallNext
<1>3. ASSUME NEW b \in Brokers, BrokerNext(b) PROVE RequestsOK'
  <2>1. ASSUME NEW k \in Keys, EntryExpires(b, k) PROVE RequestsOK'
    BY <1>3, <2>1, <1>q, <1>g
    DEF database, memory, CallsOK, RequestsOK, KeysOnlyDie, RequestRecords, Standings, EntryExpires
  <2>2. ASSUME NEW a \in Addresses, WindowEnds(b, a) PROVE RequestsOK'
    BY <1>3, <2>2, <1>q, <1>g
    DEF database, memory, CallsOK, RequestsOK, KeysOnlyDie, RequestRecords, Standings, WindowEnds
  <2>3. CASE SweepKeys(b)
    BY <1>3, <2>3, <1>q, <1>g
    DEF database, memory, CallsOK, RequestsOK, KeysOnlyDie, RequestRecords, Standings, SweepKeys
  <2>4. CASE SweepAddresses(b)
    BY <1>3, <2>4, <1>q, <1>g
    DEF database, memory, CallsOK, RequestsOK, KeysOnlyDie, RequestRecords, Standings, SweepAddresses
  <2>5. CASE Restart(b)
    BY <1>3, <2>5, <1>q, <1>g
    DEF database, memory, CallsOK, RequestsOK, KeysOnlyDie, RequestRecords, Standings, Restart, Working
  <2> QED BY <1>3, <2>1, <2>2, <2>3, <2>4, <2>5 DEF BrokerNext
<1>4. CASE UNCHANGED vars
    BY <1>4, <1>q, <1>g DEF database, memory, CallsOK, RequestsOK, KeysOnlyDie, RequestRecords, Standings, vars
<1> QED BY <1>1, <1>2, <1>3, <1>4 DEF Next

(* What the broker holds against a key, it holds against a dead one.       *)
LEMMA HeldStep ==
    ASSUME KeyCacheAssumption, TypeOK, CallsOK, RequestsOK, KeysOnlyDie, HeldAgainstDead, [Next]_vars
    PROVE  HeldAgainstDead'
<1>q. request \in [Requests -> RequestRecords]  BY DEF TypeOK
<1>k. keyCache \in [Brokers -> [Keys -> Entries \cup {None}]]  BY DEF TypeOK
<1>s. stored \in [Keys -> {"absent", "active", "revoked", "deleted"}]  BY DEF TypeOK
<1>1. ASSUME NEW r \in Requests, RequestNext(r) PROVE HeldAgainstDead'
  <2>1. ASSUME NEW b \in Brokers, NEW k \in Keys \cup {None}, NEW a \in Addresses, Arrive(r, b, k, a) PROVE HeldAgainstDead'
    BY <1>1, <2>1, <1>q, <1>k
    DEF database, memory, CallsOK, RequestsOK, HeldAgainstDead, KeysOnlyDie, RequestRecords, Arrive
  <2>2. CASE NoBearer(r)
    BY <1>1, <2>2, <1>q, <1>k
    DEF database, memory, CallsOK, RequestsOK, HeldAgainstDead, KeysOnlyDie, RequestRecords, NoBearer
  <2>3. CASE LookUp(r)
    BY <1>1, <2>3, <1>q, <1>k, SMTT(30)
    DEF database, memory, CallsOK, RequestsOK, HeldAgainstDead, KeysOnlyDie, RequestRecords, LookUp
  <2>4. CASE ReadGeneration(r)
    BY <1>1, <2>4, <1>q, <1>k
    DEF database, memory, CallsOK, RequestsOK, HeldAgainstDead, KeysOnlyDie, RequestRecords, ReadGeneration
  <2>5. CASE ValidateAPIKey(r)
    <3>1. request[r].key \in Keys /\ Known(request[r].key)
      BY <2>5, <1>q DEF RequestsOK, RequestRecords, ValidateAPIKey
    <3>2. stored[request[r].key] # "active" => Dead(request[r].key)
      BY <3>1, <1>s DEF Known, Dead
    <3>3. \A k \in Keys : Dead(k) => Dead(k)'  BY DEF KeysOnlyDie
    <3>4. \A R \in Requests \ {r} : request'[R] = request[R]
      BY <2>5, <1>q DEF ValidateAPIKey
    <3>5. /\ request'[r].at = "validated" /\ request'[r].key = request[r].key
          /\ ~request'[r].valid => stored[request[r].key] # "active"
      BY <2>5, <1>q DEF RequestRecords, ValidateAPIKey
    <3>6. \A R \in Requests : request[R].key \in Keys \cup {None}
      BY <1>q DEF RequestRecords
    <3>7. \A R \in Requests : request[R].at = "validated" => request[R].key \in Keys
      BY <3>6 DEF RequestsOK
    <3>8. UNCHANGED keyCache  BY <2>5 DEF ValidateAPIKey, memory
    <3> QED BY <3>1, <3>2, <3>3, <3>4, <3>5, <3>6, <3>7, <3>8 DEF HeldAgainstDead
  <2>6. CASE ValidationFails(r)
    BY <1>1, <2>6, <1>q, <1>k
    DEF database, memory, CallsOK, RequestsOK, HeldAgainstDead, KeysOnlyDie, RequestRecords, ValidationFails
  <2>7. CASE CacheKeyResult(r)
    <3>3. request[r].at = "validated"  BY <2>7 DEF CacheKeyResult
    <3>4. request[r].key \in Keys
      BY <1>q, <3>3 DEF RequestsOK, RequestRecords
    <3>5. ASSUME NEW B \in Brokers, NEW k \in Keys, keyCache'[B][k] # None, ~keyCache'[B][k].valid
          PROVE  Dead(k)'
      BY <3>3, <3>4, <3>5, <2>7, CachedResult DEF HeldAgainstDead, KeysOnlyDie
    <3>6. ASSUME NEW R \in Requests
          PROVE  /\ request'[R].at = "validated" /\ ~request'[R].valid => Dead(request[R].key)'
                 /\ request'[R].at \in {"failing", "denied"} /\ request[R].key # None
                      => Dead(request[R].key)'
      BY <2>7, <1>q DEF RequestRecords, RequestsOK, HeldAgainstDead, KeysOnlyDie, CacheKeyResult
    <3>7. \A R \in Requests : request'[R].key = request[R].key
      BY <2>7, <1>q DEF RequestRecords, CacheKeyResult
    <3> QED BY <3>5, <3>6, <3>7 DEF HeldAgainstDead
  <2>8. CASE RecordFailure(r)
    BY <1>1, <2>8, <1>q, <1>k
    DEF database, memory, CallsOK, RequestsOK, HeldAgainstDead, KeysOnlyDie, RequestRecords, RecordFailure
  <2> QED BY <1>1, <2>1, <2>2, <2>3, <2>4, <2>5, <2>6, <2>7, <2>8 DEF RequestNext
<1>2. ASSUME NEW c \in Calls, CallNext(c) PROVE HeldAgainstDead'
  <2>1. ASSUME NEW b \in Brokers, NEW k \in Keys, NEW op \in {"create", "revoke"}, Authorize(c, b, op, k) PROVE HeldAgainstDead'
    BY <1>2, <2>1, <1>q, <1>k
    DEF database, memory, CallsOK, RequestsOK, HeldAgainstDead, KeysOnlyDie, RequestRecords, Authorize
  <2>2. ASSUME NEW b \in Brokers, NEW p \in Projects, Authorize(c, b, "delete", p) PROVE HeldAgainstDead'
    BY <1>2, <2>2, <1>q, <1>k
    DEF database, memory, CallsOK, RequestsOK, HeldAgainstDead, KeysOnlyDie, RequestRecords, Authorize
  <2>3. CASE CreateAPIKey(c)
    BY <1>2, <2>3, <1>q, <1>k
    DEF database, memory, CallsOK, RequestsOK, HeldAgainstDead, KeysOnlyDie, RequestRecords, CreateAPIKey
  <2>4. CASE RevokeAPIKey(c)
    BY <1>2, <2>4, <1>q, <1>k
    DEF database, memory, CallsOK, RequestsOK, HeldAgainstDead, KeysOnlyDie, RequestRecords, RevokeAPIKey
  <2>5. CASE DeleteProject(c)
    BY <1>2, <2>5, <1>q, <1>k
    DEF database, memory, CallsOK, RequestsOK, HeldAgainstDead, KeysOnlyDie, RequestRecords, DeleteProject
  <2>6. CASE CallFails(c)
    BY <1>2, <2>6, <1>q, <1>k
    DEF database, memory, CallsOK, RequestsOK, HeldAgainstDead, KeysOnlyDie, RequestRecords, CallFails
  <2>7. CASE ForgetCachedKeys(c)
    BY <1>2, <2>7, <1>q, <1>k
    DEF database, memory, CallsOK, RequestsOK, HeldAgainstDead, KeysOnlyDie, RequestRecords, ForgetCachedKeys
  <2> QED BY <1>2, <2>1, <2>2, <2>3, <2>4, <2>5, <2>6, <2>7 DEF CallNext
<1>3. ASSUME NEW b \in Brokers, BrokerNext(b) PROVE HeldAgainstDead'
  <2>1. ASSUME NEW k \in Keys, EntryExpires(b, k) PROVE HeldAgainstDead'
    BY <1>3, <2>1, <1>q, <1>k
    DEF database, memory, CallsOK, RequestsOK, HeldAgainstDead, KeysOnlyDie, RequestRecords, EntryExpires
  <2>2. ASSUME NEW a \in Addresses, WindowEnds(b, a) PROVE HeldAgainstDead'
    BY <1>3, <2>2, <1>q, <1>k
    DEF database, memory, CallsOK, RequestsOK, HeldAgainstDead, KeysOnlyDie, RequestRecords, WindowEnds
  <2>3. CASE SweepKeys(b)
    BY <1>3, <2>3, <1>q, <1>k
    DEF database, memory, CallsOK, RequestsOK, HeldAgainstDead, KeysOnlyDie, RequestRecords, SweepKeys
  <2>4. CASE SweepAddresses(b)
    BY <1>3, <2>4, <1>q, <1>k
    DEF database, memory, CallsOK, RequestsOK, HeldAgainstDead, KeysOnlyDie, RequestRecords, SweepAddresses
  <2>5. CASE Restart(b)
    BY <1>3, <2>5, <1>q, <1>k
    DEF database, memory, CallsOK, RequestsOK, HeldAgainstDead, KeysOnlyDie, RequestRecords, Restart, Working
  <2> QED BY <1>3, <2>1, <2>2, <2>3, <2>4, <2>5 DEF BrokerNext
<1>4. CASE UNCHANGED vars
    BY <1>4, <1>q, <1>k DEF database, memory, CallsOK, RequestsOK, HeldAgainstDead, KeysOnlyDie, RequestRecords, vars
<1> QED BY <1>1, <1>2, <1>3, <1>4 DEF Next

(* A key is stopped by a call that ended well and removed it.              *)
LEMMA StoppedBy ==
    ASSUME NEW b, NEW k
    PROVE  k \in Stopped(b) <=> \E c \in Calls : /\ call[c].at = "ok" /\ call[c].broker = b
                                                 /\ k \in call[c].keys
BY DEF Stopped

(* The same of the next state.                                             *)
LEMMA StoppedByNext ==
    ASSUME NEW b, NEW k
    PROVE  k \in Stopped(b)' <=> \E c \in Calls : /\ call'[c].at = "ok" /\ call'[c].broker = b
                                                  /\ k \in call'[c].keys
BY DEF Stopped

(* What is new among the keys a broker stopped, it just evicted.           *)
NewlyStopped(b, k) == \E c \in Calls : /\ ForgetCachedKeys(c) /\ call[c].broker = b
                                       /\ k \in call[c].keys
StoppedGrows ==
    \A b \in Brokers, k \in Keys :
        /\ k \in Stopped(b) => k \in Stopped(b)'
        /\ k \in Stopped(b)' => k \in Stopped(b) \/ NewlyStopped(b, k)

(* What a broker answered stays answered.                                  *)
LEMMA StoppedStep ==
    ASSUME TypeOK, CallsOK, [Next]_vars
    PROVE  StoppedGrows
<1>c. call \in [Calls -> CallRecords]  BY DEF TypeOK
<1>1. ASSUME NEW r \in Requests, RequestNext(r) PROVE StoppedGrows
  <2>1. ASSUME NEW b \in Brokers, NEW k \in Keys \cup {None}, NEW a \in Addresses, Arrive(r, b, k, a) PROVE StoppedGrows
    BY <1>1, <2>1, <1>c, StoppedBy, StoppedByNext
    DEF StoppedGrows, Arrive
  <2>2. CASE NoBearer(r)
    BY <1>1, <2>2, <1>c, StoppedBy, StoppedByNext
    DEF StoppedGrows, NoBearer
  <2>3. CASE LookUp(r)
    BY <1>1, <2>3, <1>c, StoppedBy, StoppedByNext
    DEF StoppedGrows, LookUp
  <2>4. CASE ReadGeneration(r)
    BY <1>1, <2>4, <1>c, StoppedBy, StoppedByNext
    DEF StoppedGrows, ReadGeneration
  <2>5. CASE ValidateAPIKey(r)
    BY <1>1, <2>5, <1>c, StoppedBy, StoppedByNext
    DEF StoppedGrows, ValidateAPIKey
  <2>6. CASE ValidationFails(r)
    BY <1>1, <2>6, <1>c, StoppedBy, StoppedByNext
    DEF StoppedGrows, ValidationFails
  <2>7. CASE CacheKeyResult(r)
    BY <1>1, <2>7, <1>c, StoppedBy, StoppedByNext
    DEF StoppedGrows, CacheKeyResult
  <2>8. CASE RecordFailure(r)
    BY <1>1, <2>8, <1>c, StoppedBy, StoppedByNext, ZenonT(60)
    DEF StoppedGrows, RecordFailure
  <2> QED BY <1>1, <2>1, <2>2, <2>3, <2>4, <2>5, <2>6, <2>7, <2>8 DEF RequestNext
<1>2. ASSUME NEW c \in Calls, CallNext(c) PROVE StoppedGrows
  <2>1. ASSUME NEW b \in Brokers, NEW k \in Keys, NEW op \in {"create", "revoke"}, Authorize(c, b, op, k) PROVE StoppedGrows
    BY <1>2, <2>1, <1>c, StoppedBy, StoppedByNext
    DEF StoppedGrows, CallRecords, Authorize
  <2>2. ASSUME NEW b \in Brokers, NEW p \in Projects, Authorize(c, b, "delete", p) PROVE StoppedGrows
    BY <1>2, <2>2, <1>c, StoppedBy, StoppedByNext
    DEF StoppedGrows, CallRecords, Authorize
  <2>3. CASE CreateAPIKey(c)
    BY <1>2, <2>3, <1>c, StoppedBy, StoppedByNext
    DEF StoppedGrows, CallRecords, CreateAPIKey, After, Requested, CallsOK
  <2>4. CASE RevokeAPIKey(c)
    BY <1>2, <2>4, <1>c, StoppedBy, StoppedByNext
    DEF StoppedGrows, CallRecords, RevokeAPIKey, After, Requested
  <2>5. CASE DeleteProject(c)
    BY <1>2, <2>5, <1>c, StoppedBy, StoppedByNext
    DEF StoppedGrows, CallRecords, DeleteProject, After, Requested
  <2>6. CASE CallFails(c)
    BY <1>2, <2>6, <1>c, StoppedBy, StoppedByNext
    DEF StoppedGrows, CallRecords, CallFails, Lost
  <2>7. CASE ForgetCachedKeys(c)
    <3>1. /\ call'[c].at = "ok" /\ call'[c].broker = call[c].broker /\ call'[c].keys = call[c].keys
          /\ call[c].at = "committed"
          /\ \A d \in Calls \ {c} : call'[d] = call[d]
      BY <2>7, <1>c DEF ForgetCachedKeys, CallRecords
    <3>2. ASSUME NEW b \in Brokers, NEW k \in Keys, k \in Stopped(b)'
          PROVE  k \in Stopped(b) \/ NewlyStopped(b, k)
      <4>1. PICK d \in Calls : call'[d].at = "ok" /\ call'[d].broker = b /\ k \in call'[d].keys
        BY <3>2, StoppedByNext
      <4>2. CASE d = c  BY <2>7, <3>1, <4>1, <4>2 DEF NewlyStopped
      <4>3. CASE d # c  BY <3>1, <4>1, <4>3, StoppedBy
      <4> QED BY <4>2, <4>3
    <3>3. ASSUME NEW b \in Brokers, NEW k \in Keys, k \in Stopped(b)
          PROVE  k \in Stopped(b)'
      BY <3>1, <3>3, StoppedBy, StoppedByNext
    <3> QED BY <3>2, <3>3 DEF StoppedGrows
  <2> QED BY <1>2, <2>1, <2>2, <2>3, <2>4, <2>5, <2>6, <2>7 DEF CallNext
<1>3. ASSUME NEW b \in Brokers, BrokerNext(b) PROVE StoppedGrows
  <2>1. ASSUME NEW k \in Keys, EntryExpires(b, k) PROVE StoppedGrows
    BY <1>3, <2>1, <1>c, StoppedBy, StoppedByNext
    DEF StoppedGrows, EntryExpires
  <2>2. ASSUME NEW a \in Addresses, WindowEnds(b, a) PROVE StoppedGrows
    BY <1>3, <2>2, <1>c, StoppedBy, StoppedByNext
    DEF StoppedGrows, WindowEnds
  <2>3. CASE SweepKeys(b)
    BY <1>3, <2>3, <1>c, StoppedBy, StoppedByNext
    DEF StoppedGrows, SweepKeys
  <2>4. CASE SweepAddresses(b)
    BY <1>3, <2>4, <1>c, StoppedBy, StoppedByNext
    DEF StoppedGrows, SweepAddresses
  <2>5. CASE Restart(b)
    BY <1>3, <2>5, <1>c, StoppedBy, StoppedByNext
    DEF StoppedGrows, CallRecords, Restart, Lost
  <2> QED BY <1>3, <2>1, <2>2, <2>3, <2>4, <2>5 DEF BrokerNext
<1>4. CASE UNCHANGED vars
    BY <1>4, <1>c, StoppedBy, StoppedByNext DEF StoppedGrows, CallRecords, vars
<1> QED BY <1>1, <1>2, <1>3, <1>4 DEF Next

(* What is stopped is a key, and of no use in the database.                *)
StoppedKeys ==
    \A b \in Brokers :
        /\ \A k \in Stopped(b) : k \in Keys /\ stored[k] \in {"revoked", "deleted"}
        /\ \A k \in Stopped(b)' : k \in Keys

LEMMA StoppedAreKeys == ASSUME TypeOK, TypeOK', CallsOK  PROVE StoppedKeys
<1>1. /\ \A c \in Calls : call[c].keys \subseteq Keys
      /\ \A c \in Calls : call'[c].keys \subseteq Keys
  BY DEF TypeOK, CallRecords
<1> QED BY <1>1, StoppedBy, StoppedByNext DEF StoppedKeys, CallsOK

(* A step without an eviction stops no key.                                *)
StoppedSame == \A b \in Brokers, k \in Keys : k \in Stopped(b)' => k \in Stopped(b)

(* The eviction takes every valid entry of the keys it stops, and leaves   *)
(* the validations under way a generation behind.                          *)
LEMMA ForgetStep ==
    ASSUME TypeOK, CallsOK, RequestsOK, StoppedForgotten, StoppedGrows,
           NEW c \in Calls, ForgetCachedKeys(c)
    PROVE  StoppedForgotten'
<1>c. call \in [Calls -> CallRecords]  BY DEF TypeOK
<1>k. keyCache \in [Brokers -> [Keys -> Entries \cup {None}]]  BY DEF TypeOK
<1>g. keyCacheGen \in [Brokers -> Nat]  BY DEF TypeOK
<1>q. request' = request /\ request \in [Requests -> RequestRecords]
  BY DEF TypeOK, ForgetCachedKeys
<1> DEFINE b == call[c].broker
<1>1. b \in Brokers  BY DEF CallsOK, ForgetCachedKeys
<1>2. /\ keyCacheGen'[b] = keyCacheGen[b] + 1
      /\ \A B \in Brokers \ {b} : keyCacheGen'[B] = keyCacheGen[B] /\ keyCache'[B] = keyCache[B]
  BY <1>1, <1>k, <1>g DEF ForgetCachedKeys
<1>3. \A k \in Keys : /\ keyCache'[b][k] # None => keyCache'[b][k] = keyCache[b][k]
                      /\ keyCache'[b][k] # None /\ Matches(c, k) => ~keyCache'[b][k].valid
  BY <1>1, <1>k DEF ForgetCachedKeys
<1>4. \A d \in Calls \ {c} : call'[d] = call[d]  BY <1>c DEF ForgetCachedKeys
<1>5. /\ call'[c].keys = call[c].keys /\ call'[c].broker = b
      /\ \A d \in Calls : call[d].keys \subseteq Keys
  BY <1>c DEF ForgetCachedKeys, CallRecords
<1>6. ASSUME NEW B \in Brokers, NEW k \in Stopped(B)'
      PROVE  k \in Keys /\ (k \in Stopped(B) \/ (B = b /\ Matches(c, k)))
  <2>1. PICK d \in Calls : call'[d].at = "ok" /\ call'[d].broker = B /\ k \in call'[d].keys
    BY StoppedByNext
  <2>2. CASE d = c  BY <1>5, <2>1, <2>2 DEF CallsOK
  <2>3. CASE d # c  BY <1>4, <1>5, <2>1, <2>3, StoppedBy
  <2> QED BY <2>2, <2>3
<1>7. ASSUME NEW B \in Brokers, NEW k \in Stopped(B)', keyCache'[B][k] # None
      PROVE  ~keyCache'[B][k].valid
  BY <1>1, <1>2, <1>3, <1>6, <1>7 DEF StoppedForgotten
<1>8. ASSUME NEW B \in Brokers, NEW k \in Stopped(B)', NEW r \in Requests,
             request[r].at = "validated", request[r].broker = B, request[r].key = k,
             request[r].valid
      PROVE  request[r].gen < keyCacheGen'[B]
  <2>1. request[r].gen <= keyCacheGen[B] /\ request[r].gen \in Nat /\ keyCacheGen[B] \in Nat
    BY <1>8, <1>q, <1>g DEF RequestsOK, RequestRecords
  <2>2. CASE B = b  BY <1>2, <2>1, <2>2
  <2>3. CASE B # b  BY <1>2, <1>6, <1>8, <2>3 DEF StoppedForgotten
  <2> QED BY <2>2, <2>3
<1> QED BY <1>7, <1>8, <1>q DEF StoppedForgotten

(* Nothing else brings a stopped key back.                                 *)
LEMMA NoForgetStep ==
    ASSUME KeyCacheAssumption, TypeOK, CallsOK, RequestsOK, StoppedForgotten, StoppedSame, StoppedKeys, [Next]_vars
    PROVE  StoppedForgotten'
<1>q. request \in [Requests -> RequestRecords]  BY DEF TypeOK
<1>k. keyCache \in [Brokers -> [Keys -> Entries \cup {None}]]  BY DEF TypeOK
<1>g. keyCacheGen \in [Brokers -> Nat]  BY DEF TypeOK
<1>i. \A b \in Brokers : \A k \in Stopped(b)' : k \in Keys  BY DEF StoppedKeys
<1>1. ASSUME NEW r \in Requests, RequestNext(r) PROVE StoppedForgotten'
  <2>1. ASSUME NEW b \in Brokers, NEW k \in Keys \cup {None}, NEW a \in Addresses, Arrive(r, b, k, a) PROVE StoppedForgotten'
    BY <1>1, <2>1, <1>q, <1>k, <1>g, <1>i
    DEF StoppedForgotten, StoppedSame, RequestRecords, memory, database, Arrive
  <2>2. CASE NoBearer(r)
    BY <1>1, <2>2, <1>q, <1>k, <1>g, <1>i
    DEF StoppedForgotten, StoppedSame, RequestRecords, memory, database, NoBearer
  <2>3. CASE LookUp(r)
    BY <1>1, <2>3, <1>q, <1>k, <1>g, <1>i, SMTT(30)
    DEF StoppedForgotten, StoppedSame, RequestRecords, memory, database, LookUp
  <2>4. CASE ReadGeneration(r)
    BY <1>1, <2>4, <1>q, <1>k, <1>g, <1>i
    DEF StoppedForgotten, StoppedSame, RequestRecords, memory, database, ReadGeneration
  <2>5. CASE ValidateAPIKey(r)
    <3>1. ASSUME NEW b \in Brokers, NEW k \in Stopped(b)', NEW R \in Requests,
                 request'[R].at = "validated", request'[R].broker = b,
                 request'[R].key = k, request'[R].valid
          PROVE  request'[R].gen < keyCacheGen'[b]
      <4>1. k \in Stopped(b) /\ stored[k] # "active"  BY <1>i DEF StoppedSame, StoppedKeys
      <4>2. R # r  BY <2>5, <3>1, <4>1, <1>q DEF ValidateAPIKey, RequestRecords
      <4>3. request'[R] = request[R] /\ keyCacheGen' = keyCacheGen
        BY <2>5, <4>2, <1>q DEF ValidateAPIKey, memory
      <4> QED BY <3>1, <4>1, <4>3 DEF StoppedForgotten
    <3>2. UNCHANGED keyCache  BY <2>5 DEF ValidateAPIKey, memory
    <3> QED BY <3>1, <3>2, <1>i DEF StoppedForgotten, StoppedSame
  <2>6. CASE ValidationFails(r)
    BY <1>1, <2>6, <1>q, <1>k, <1>g, <1>i
    DEF StoppedForgotten, StoppedSame, RequestRecords, memory, database, ValidationFails
  <2>7. CASE CacheKeyResult(r)
    <3>1. /\ keyCacheGen' = keyCacheGen /\ request[r].at = "validated"
          /\ request'[r].at # "validated"
          /\ \A R \in Requests \ {r} : request'[R] = request[R]
      BY <2>7, <1>q DEF CacheKeyResult, RequestRecords
    <3>2. request[r].gen \in Nat /\ request[r].broker \in Brokers
      BY <3>1, <1>q DEF RequestRecords, RequestsOK
    <3>3. ASSUME NEW b \in Brokers, NEW k \in Stopped(b)', keyCache'[b][k] # None
          PROVE  ~keyCache'[b][k].valid
      <4>1. k \in Keys /\ k \in Stopped(b)  BY <1>i DEF StoppedSame
      <4>2. CASE keyCache'[b][k] = keyCache[b][k]
        BY <3>3, <4>1, <4>2 DEF StoppedForgotten
      <4>3. CASE /\ b = request[r].broker /\ k = request[r].key
                 /\ keyCache'[b][k].valid = request[r].valid
                 /\ request[r].gen = keyCacheGen[b]
        <5>1. ~request[r].valid
          BY <3>1, <3>2, <4>1, <4>3 DEF StoppedForgotten
        <5> QED BY <4>3, <5>1
      <4> QED BY <2>7, <3>3, <4>1, <4>2, <4>3, CachedResult
    <3>4. ASSUME NEW b \in Brokers, NEW k \in Stopped(b)', NEW R \in Requests,
                 request'[R].at = "validated", request'[R].broker = b,
                 request'[R].key = k, request'[R].valid
          PROVE  request'[R].gen < keyCacheGen'[b]
      BY <3>1, <3>4, <1>i DEF StoppedForgotten, StoppedSame
    <3> QED BY <3>3, <3>4 DEF StoppedForgotten
  <2>8. CASE RecordFailure(r)
    BY <1>1, <2>8, <1>q, <1>k, <1>g, <1>i
    DEF StoppedForgotten, StoppedSame, RequestRecords, memory, database, RecordFailure
  <2> QED BY <1>1, <2>1, <2>2, <2>3, <2>4, <2>5, <2>6, <2>7, <2>8 DEF RequestNext
<1>2. ASSUME NEW c \in Calls, CallNext(c) PROVE StoppedForgotten'
  <2>1. ASSUME NEW b \in Brokers, NEW k \in Keys, NEW op \in {"create", "revoke"}, Authorize(c, b, op, k) PROVE StoppedForgotten'
    BY <1>2, <2>1, <1>q, <1>k, <1>g, <1>i
    DEF StoppedForgotten, StoppedSame, RequestRecords, memory, database, Authorize
  <2>2. ASSUME NEW b \in Brokers, NEW p \in Projects, Authorize(c, b, "delete", p) PROVE StoppedForgotten'
    BY <1>2, <2>2, <1>q, <1>k, <1>g, <1>i
    DEF StoppedForgotten, StoppedSame, RequestRecords, memory, database, Authorize
  <2>3. CASE CreateAPIKey(c)
    BY <1>2, <2>3, <1>q, <1>k, <1>g, <1>i
    DEF StoppedForgotten, StoppedSame, RequestRecords, memory, database, CreateAPIKey
  <2>4. CASE RevokeAPIKey(c)
    BY <1>2, <2>4, <1>q, <1>k, <1>g, <1>i
    DEF StoppedForgotten, StoppedSame, RequestRecords, memory, database, RevokeAPIKey
  <2>5. CASE DeleteProject(c)
    BY <1>2, <2>5, <1>q, <1>k, <1>g, <1>i
    DEF StoppedForgotten, StoppedSame, RequestRecords, memory, database, DeleteProject
  <2>6. CASE CallFails(c)
    BY <1>2, <2>6, <1>q, <1>k, <1>g, <1>i
    DEF StoppedForgotten, StoppedSame, RequestRecords, memory, database, CallFails
  <2>7. CASE ForgetCachedKeys(c)
    BY <1>2, <2>7, <1>q, <1>k, <1>g, <1>i, SMTT(90)
    DEF StoppedForgotten, StoppedSame, RequestRecords, memory, database, ForgetCachedKeys
  <2> QED BY <1>2, <2>1, <2>2, <2>3, <2>4, <2>5, <2>6, <2>7 DEF CallNext
<1>3. ASSUME NEW b \in Brokers, BrokerNext(b) PROVE StoppedForgotten'
  <2>1. ASSUME NEW k \in Keys, EntryExpires(b, k) PROVE StoppedForgotten'
    BY <1>3, <2>1, <1>q, <1>k, <1>g, <1>i
    DEF StoppedForgotten, StoppedSame, RequestRecords, memory, database, EntryExpires
  <2>2. ASSUME NEW a \in Addresses, WindowEnds(b, a) PROVE StoppedForgotten'
    BY <1>3, <2>2, <1>q, <1>k, <1>g, <1>i
    DEF StoppedForgotten, StoppedSame, RequestRecords, memory, database, WindowEnds
  <2>3. CASE SweepKeys(b)
    BY <1>3, <2>3, <1>q, <1>k, <1>g, <1>i
    DEF StoppedForgotten, StoppedSame, RequestRecords, memory, database, SweepKeys
  <2>4. CASE SweepAddresses(b)
    BY <1>3, <2>4, <1>q, <1>k, <1>g, <1>i
    DEF StoppedForgotten, StoppedSame, RequestRecords, memory, database, SweepAddresses
  <2>5. CASE Restart(b)
    BY <1>3, <2>5, <1>q, <1>k, <1>g, <1>i
    DEF StoppedForgotten, StoppedSame, RequestRecords, memory, database, Restart, Working
  <2> QED BY <1>3, <2>1, <2>2, <2>3, <2>4, <2>5 DEF BrokerNext
<1>4. CASE UNCHANGED vars
    BY <1>4, <1>q, <1>k, <1>g, <1>i DEF StoppedForgotten, StoppedSame, RequestRecords, memory, database, vars
<1> QED BY <1>1, <1>2, <1>3, <1>4 DEF Next

(* A request that came too late is not let in.                             *)
LEMMA LateStep ==
    ASSUME KeyCacheAssumption, TypeOK, CallsOK, RequestsOK, StoppedForgotten, LateOK, StoppedGrows, StoppedKeys, [Next]_vars
    PROVE  LateOK'
<1>q. request \in [Requests -> RequestRecords]  BY DEF TypeOK
<1>k. keyCache \in [Brokers -> [Keys -> Entries \cup {None}]]  BY DEF TypeOK
<1>i. \A b \in Brokers : \A k \in Stopped(b) : k \in Keys  BY DEF StoppedKeys
<1>1. ASSUME NEW r \in Requests, RequestNext(r) PROVE LateOK'
  <2>1. ASSUME NEW b \in Brokers, NEW k \in Keys \cup {None}, NEW a \in Addresses, Arrive(r, b, k, a) PROVE LateOK'
    BY <1>1, <2>1, <1>q, <1>k, <1>i
    DEF LateOK, StoppedGrows, RequestsOK, RequestRecords, memory, database, Arrive
  <2>2. CASE NoBearer(r)
    BY <1>1, <2>2, <1>q, <1>k, <1>i
    DEF LateOK, StoppedGrows, RequestsOK, RequestRecords, memory, database, NoBearer
  <2>3. CASE LookUp(r)
    BY <1>1, <2>3, <1>q, <1>k, <1>i, SMTT(30)
    DEF LateOK, StoppedGrows, RequestsOK, RequestRecords, memory, database, LookUp, StoppedForgotten
  <2>4. CASE ReadGeneration(r)
    BY <1>1, <2>4, <1>q, <1>k, <1>i
    DEF LateOK, StoppedGrows, RequestsOK, RequestRecords, memory, database, ReadGeneration
  <2>5. CASE ValidateAPIKey(r)
    BY <1>1, <2>5, <1>q, <1>k, <1>i
    DEF LateOK, StoppedGrows, RequestsOK, RequestRecords, memory, database, ValidateAPIKey, StoppedKeys
  <2>6. CASE ValidationFails(r)
    BY <1>1, <2>6, <1>q, <1>k, <1>i
    DEF LateOK, StoppedGrows, RequestsOK, RequestRecords, memory, database, ValidationFails
  <2>7. CASE CacheKeyResult(r)
    BY <1>1, <2>7, <1>q, <1>k, <1>i
    DEF LateOK, StoppedGrows, RequestsOK, RequestRecords, memory, database, CacheKeyResult
  <2>8. CASE RecordFailure(r)
    BY <1>1, <2>8, <1>q, <1>k, <1>i
    DEF LateOK, StoppedGrows, RequestsOK, RequestRecords, memory, database, RecordFailure
  <2> QED BY <1>1, <2>1, <2>2, <2>3, <2>4, <2>5, <2>6, <2>7, <2>8 DEF RequestNext
<1>2. ASSUME NEW c \in Calls, CallNext(c) PROVE LateOK'
  <2>1. ASSUME NEW b \in Brokers, NEW k \in Keys, NEW op \in {"create", "revoke"}, Authorize(c, b, op, k) PROVE LateOK'
    BY <1>2, <2>1, <1>q, <1>k, <1>i
    DEF LateOK, StoppedGrows, RequestsOK, RequestRecords, memory, database, Authorize
  <2>2. ASSUME NEW b \in Brokers, NEW p \in Projects, Authorize(c, b, "delete", p) PROVE LateOK'
    BY <1>2, <2>2, <1>q, <1>k, <1>i
    DEF LateOK, StoppedGrows, RequestsOK, RequestRecords, memory, database, Authorize
  <2>3. CASE CreateAPIKey(c)
    BY <1>2, <2>3, <1>q, <1>k, <1>i
    DEF LateOK, StoppedGrows, RequestsOK, RequestRecords, memory, database, CreateAPIKey
  <2>4. CASE RevokeAPIKey(c)
    BY <1>2, <2>4, <1>q, <1>k, <1>i
    DEF LateOK, StoppedGrows, RequestsOK, RequestRecords, memory, database, RevokeAPIKey
  <2>5. CASE DeleteProject(c)
    BY <1>2, <2>5, <1>q, <1>k, <1>i
    DEF LateOK, StoppedGrows, RequestsOK, RequestRecords, memory, database, DeleteProject
  <2>6. CASE CallFails(c)
    BY <1>2, <2>6, <1>q, <1>k, <1>i
    DEF LateOK, StoppedGrows, RequestsOK, RequestRecords, memory, database, CallFails
  <2>7. CASE ForgetCachedKeys(c)
    BY <1>2, <2>7, <1>q, <1>k, <1>i
    DEF LateOK, StoppedGrows, RequestsOK, RequestRecords, memory, database, ForgetCachedKeys
  <2> QED BY <1>2, <2>1, <2>2, <2>3, <2>4, <2>5, <2>6, <2>7 DEF CallNext
<1>3. ASSUME NEW b \in Brokers, BrokerNext(b) PROVE LateOK'
  <2>1. ASSUME NEW k \in Keys, EntryExpires(b, k) PROVE LateOK'
    BY <1>3, <2>1, <1>q, <1>k, <1>i
    DEF LateOK, StoppedGrows, RequestsOK, RequestRecords, memory, database, EntryExpires
  <2>2. ASSUME NEW a \in Addresses, WindowEnds(b, a) PROVE LateOK'
    BY <1>3, <2>2, <1>q, <1>k, <1>i
    DEF LateOK, StoppedGrows, RequestsOK, RequestRecords, memory, database, WindowEnds
  <2>3. CASE SweepKeys(b)
    BY <1>3, <2>3, <1>q, <1>k, <1>i
    DEF LateOK, StoppedGrows, RequestsOK, RequestRecords, memory, database, SweepKeys
  <2>4. CASE SweepAddresses(b)
    BY <1>3, <2>4, <1>q, <1>k, <1>i
    DEF LateOK, StoppedGrows, RequestsOK, RequestRecords, memory, database, SweepAddresses
  <2>5. CASE Restart(b)
    BY <1>3, <2>5, <1>q, <1>k, <1>i
    DEF LateOK, StoppedGrows, RequestsOK, RequestRecords, memory, database, Restart, Working
  <2> QED BY <1>3, <2>1, <2>2, <2>3, <2>4, <2>5 DEF BrokerNext
<1>4. CASE UNCHANGED vars
    BY <1>4, <1>q, <1>k, <1>i DEF LateOK, StoppedGrows, RequestsOK, RequestRecords, memory, database, vars
<1> QED BY <1>1, <1>2, <1>3, <1>4 DEF Next

(* The initial states satisfy the invariant.                               *)
LEMMA InitIInv == ASSUME KeyCacheAssumption, Init  PROVE IInv
<1>1. TypeOK
  <2>1. NoRequest \in RequestRecords  BY DEF NoRequest, RequestRecords, Standings
  <2>2. NoCall \in CallRecords  BY DEF NoCall, CallRecords, Stages
  <2> QED BY <2>1, <2>2 DEF Init, TypeOK
<1>2. CallsOK  BY DEF Init, NoCall, CallsOK
<1>3. MadeUpAbsent  BY DEF Init, KeyCacheAssumption, MadeUpAbsent
<1>4. RequestsOK /\ HeldAgainstDead /\ LateOK
  BY DEF Init, NoRequest, RequestsOK, HeldAgainstDead, LateOK
<1>5. StoppedForgotten  BY DEF Init, NoCall, Stopped, StoppedForgotten
<1> QED BY <1>1, <1>2, <1>3, <1>4, <1>5 DEF IInv

(* Every step keeps the invariant.                                         *)
LEMMA StepIInv == ASSUME KeyCacheAssumption, IInv, [Next]_vars  PROVE IInv'
<1> USE DEF IInv
<1>1. TypeOK'  BY TypeStep
<1>2. CallsOK'  BY CallsStep
<1>3. MadeUpAbsent' /\ KeysOnlyDie  BY DeadStaysDead
<1>4. RequestsOK' /\ HeldAgainstDead'  BY <1>3, RequestsStep, HeldStep
<1>5. StoppedGrows /\ StoppedKeys  BY <1>1, StoppedStep, StoppedAreKeys
<1>6. LateOK'  BY <1>5, LateStep
<1>7. StoppedForgotten'
  <2>1. CASE \E c \in Calls : ForgetCachedKeys(c)  BY <1>5, <2>1, ForgetStep
  <2>2. CASE ~ \E c \in Calls : ForgetCachedKeys(c)
    <3>1. StoppedSame  BY <1>5, <2>2 DEF StoppedGrows, StoppedSame, NewlyStopped
    <3> QED BY <1>5, <3>1, NoForgetStep
  <2> QED BY <2>1, <2>2
<1> QED BY <1>1, <1>2, <1>3, <1>4, <1>6, <1>7

(* The inductive invariant of authentication by API key.                   *)
THEOREM KeyCacheInvariant == Spec => []IInv
<1>1. Init => IInv  BY InitIInv, KeyCacheAssumption
<1>2. IInv /\ [Next]_vars => IInv'  BY StepIInv, KeyCacheAssumption
<1> QED BY <1>1, <1>2, PTL DEF Spec

(* Every variable keeps its type, whatever the number of brokers, keys,    *)
(* requests and calls.                                                     *)
THEOREM TypeCorrect == Spec => []TypeOK
<1>1. IInv => TypeOK  BY DEF IInv
<1> QED BY <1>1, KeyCacheInvariant, PTL

(* A request that reaches a broker after that broker has answered that the *)
(* key is revoked, or its project deleted, is never let in.                *)
THEOREM RevocationHolds == Spec => []RevokedIsShutOut
<1>1. IInv => RevokedIsShutOut  BY DEF IInv, LateOK, RevokedIsShutOut
<1> QED BY <1>1, KeyCacheInvariant, PTL

(* No request is refused for a key that is active.                         *)
THEOREM GenuineKeysWork == Spec => []GenuineIsNeverDenied
<1>1. IInv => GenuineIsNeverDenied
  <2>1. ASSUME IInv, NEW r \in Requests, request[r].at \in {"failing", "denied"},
               request[r].key # None
        PROVE  stored[request[r].key] # "active"
    <3>1. Dead(request[r].key)  BY <2>1 DEF IInv, HeldAgainstDead
    <3>2. request[r].key \in MadeUp => stored[request[r].key] = "absent"
      BY <2>1 DEF IInv, MadeUpAbsent
    <3> QED BY <3>1, <3>2 DEF Dead
  <2> QED BY <2>1 DEF GenuineIsNeverDenied
<1> QED BY <1>1, KeyCacheInvariant, PTL

(* One step never makes a dead key usable again.                           *)
NoRevival == \A b \in Brokers, k \in Keys :
    stored[k] \notin {"absent", "active"} /\ ~Usable(b, k) => ~Usable(b, k)'

(* Every step of every process.                                            *)
LEMMA NoRevivalStep ==
    ASSUME KeyCacheAssumption, TypeOK, RequestsOK, [Next]_vars
    PROVE  NoRevival
<1>q. request \in [Requests -> RequestRecords]  BY DEF TypeOK
<1>k. keyCache \in [Brokers -> [Keys -> Entries \cup {None}]]  BY DEF TypeOK
<1>1. ASSUME NEW r \in Requests, RequestNext(r) PROVE NoRevival
  <2>1. ASSUME NEW b \in Brokers, NEW k \in Keys \cup {None}, NEW a \in Addresses, Arrive(r, b, k, a) PROVE NoRevival
    BY <1>1, <2>1, <1>q, <1>k
    DEF NoRevival, Usable, RequestsOK, RequestRecords, memory, database, Arrive
  <2>2. CASE NoBearer(r)
    BY <1>1, <2>2, <1>q, <1>k
    DEF NoRevival, Usable, RequestsOK, RequestRecords, memory, database, NoBearer
  <2>3. CASE LookUp(r)
    BY <1>1, <2>3, <1>q, <1>k, ZenonT(60)
    DEF NoRevival, Usable, RequestsOK, RequestRecords, memory, database, LookUp
  <2>4. CASE ReadGeneration(r)
    BY <1>1, <2>4, <1>q, <1>k
    DEF NoRevival, Usable, RequestsOK, RequestRecords, memory, database, ReadGeneration
  <2>5. CASE ValidateAPIKey(r)
    BY <1>1, <2>5, <1>q, <1>k
    DEF NoRevival, Usable, RequestsOK, RequestRecords, memory, database, ValidateAPIKey
  <2>6. CASE ValidationFails(r)
    BY <1>1, <2>6, <1>q, <1>k
    DEF NoRevival, Usable, RequestsOK, RequestRecords, memory, database, ValidationFails
  <2>7. CASE CacheKeyResult(r)
    <3>1. request[r].at = "validated" /\ request[r].key \in Keys /\ request[r].broker \in Brokers
      BY <2>7, <1>q DEF RequestRecords, RequestsOK, CacheKeyResult
    <3>2. /\ request'[r].at # "validated"
          /\ \A R \in Requests \ {r} : request'[R] = request[R]
      BY <2>7, <1>q DEF CacheKeyResult, RequestRecords
    <3>3. ASSUME NEW b \in Brokers, NEW k \in Keys, keyCache'[b][k] # None,
                 keyCache'[b][k].valid, keyCache'[b][k].fresh
          PROVE  Usable(b, k)
      BY <2>7, <3>1, <3>3, CachedResult DEF Usable
    <3> QED BY <3>2, <3>3 DEF NoRevival, Usable
  <2>8. CASE RecordFailure(r)
    BY <1>1, <2>8, <1>q, <1>k
    DEF NoRevival, Usable, RequestsOK, RequestRecords, memory, database, RecordFailure
  <2> QED BY <1>1, <2>1, <2>2, <2>3, <2>4, <2>5, <2>6, <2>7, <2>8 DEF RequestNext
<1>2. ASSUME NEW c \in Calls, CallNext(c) PROVE NoRevival
  <2>1. ASSUME NEW b \in Brokers, NEW k \in Keys, NEW op \in {"create", "revoke"}, Authorize(c, b, op, k) PROVE NoRevival
    BY <1>2, <2>1, <1>q, <1>k
    DEF NoRevival, Usable, RequestsOK, RequestRecords, memory, database, Authorize
  <2>2. ASSUME NEW b \in Brokers, NEW p \in Projects, Authorize(c, b, "delete", p) PROVE NoRevival
    BY <1>2, <2>2, <1>q, <1>k
    DEF NoRevival, Usable, RequestsOK, RequestRecords, memory, database, Authorize
  <2>3. CASE CreateAPIKey(c)
    BY <1>2, <2>3, <1>q, <1>k
    DEF NoRevival, Usable, RequestsOK, RequestRecords, memory, database, CreateAPIKey
  <2>4. CASE RevokeAPIKey(c)
    BY <1>2, <2>4, <1>q, <1>k
    DEF NoRevival, Usable, RequestsOK, RequestRecords, memory, database, RevokeAPIKey
  <2>5. CASE DeleteProject(c)
    BY <1>2, <2>5, <1>q, <1>k
    DEF NoRevival, Usable, RequestsOK, RequestRecords, memory, database, DeleteProject
  <2>6. CASE CallFails(c)
    BY <1>2, <2>6, <1>q, <1>k
    DEF NoRevival, Usable, RequestsOK, RequestRecords, memory, database, CallFails
  <2>7. CASE ForgetCachedKeys(c)
    BY <1>2, <2>7, <1>q, <1>k
    DEF NoRevival, Usable, RequestsOK, RequestRecords, memory, database, ForgetCachedKeys
  <2> QED BY <1>2, <2>1, <2>2, <2>3, <2>4, <2>5, <2>6, <2>7 DEF CallNext
<1>3. ASSUME NEW b \in Brokers, BrokerNext(b) PROVE NoRevival
  <2>1. ASSUME NEW k \in Keys, EntryExpires(b, k) PROVE NoRevival
    BY <1>3, <2>1, <1>q, <1>k
    DEF NoRevival, Usable, RequestsOK, RequestRecords, memory, database, EntryExpires
  <2>2. ASSUME NEW a \in Addresses, WindowEnds(b, a) PROVE NoRevival
    BY <1>3, <2>2, <1>q, <1>k
    DEF NoRevival, Usable, RequestsOK, RequestRecords, memory, database, WindowEnds
  <2>3. CASE SweepKeys(b)
    BY <1>3, <2>3, <1>q, <1>k
    DEF NoRevival, Usable, RequestsOK, RequestRecords, memory, database, SweepKeys
  <2>4. CASE SweepAddresses(b)
    BY <1>3, <2>4, <1>q, <1>k
    DEF NoRevival, Usable, RequestsOK, RequestRecords, memory, database, SweepAddresses
  <2>5. CASE Restart(b)
    BY <1>3, <2>5, <1>q, <1>k
    DEF NoRevival, Usable, RequestsOK, RequestRecords, memory, database, Restart, Working
  <2> QED BY <1>3, <2>1, <2>2, <2>3, <2>4, <2>5 DEF BrokerNext
<1>4. CASE UNCHANGED vars
    BY <1>4, <1>q, <1>k DEF NoRevival, Usable, RequestsOK, RequestRecords, memory, database, vars
<1> QED BY <1>1, <1>2, <1>3, <1>4 DEF Next

(* A key that is no longer active stays usable at a broker only as long as *)
(* what the broker knew of it before: it never becomes usable again.       *)
THEOREM CacheOnlyForgets == Spec => NeverUsableAgain
<1>1. IInv /\ [Next]_vars => NoRevival  BY NoRevivalStep, KeyCacheAssumption DEF IInv
<1>2. IInv /\ [Next]_vars => [NoRevival]_vars  BY <1>1
<1> QED BY <1>2, KeyCacheInvariant, PTL DEF Spec, NeverUsableAgain, NoRevival

-----------------------------------------------------------------------------
(* The limiter of failed attempts.  A window never counts more failures    *)
(* than requests were refused: the window may be reset, swept or dropped   *)
(* to make room, but a refusal that was answered stays answered.           *)
LimiterOK ==
    \A b \in Brokers, a \in Addresses :
        /\ IsFiniteSet(Denied(b, a))
        /\ ipLimiter[b][a] # None => ipLimiter[b][a].failures <= Cardinality(Denied(b, a))

LimitedOK ==
    \A r \in Requests, b \in Brokers, a \in Addresses :
        request[r].at = "limited" /\ request[r].broker = b /\ request[r].address = a
            => Cardinality(Denied(b, a)) >= MaxFailures

LimiterInv == LimiterOK /\ LimitedOK

(* A step that answers no request by refusing or limiting it, and that     *)
(* counts no failure.                                                      *)
NothingCounted ==
    /\ \A r \in Requests :
         {request[r].at, request'[r].at} \cap {"denied", "limited"} # {}
           => /\ request'[r].at = request[r].at
              /\ request'[r].broker = request[r].broker
              /\ request'[r].address = request[r].address
    /\ \A b \in Brokers, a \in Addresses :
         ipLimiter'[b][a] # None
           => ipLimiter[b][a] # None
              /\ ipLimiter'[b][a].failures = ipLimiter[b][a].failures

(* Such a step keeps the limiter right.                                    *)
LEMMA NothingCountedStep ==
    ASSUME LimiterInv, NothingCounted
    PROVE  LimiterInv'
<1>1. \A b \in Brokers, a \in Addresses : Denied(b, a)' = Denied(b, a)
  BY DEF Denied, NothingCounted
<1>2. LimiterOK'  BY <1>1 DEF LimiterInv, LimiterOK, NothingCounted
<1>3. ASSUME NEW r \in Requests, NEW b \in Brokers, NEW a \in Addresses,
             request'[r].at = "limited", request'[r].broker = b, request'[r].address = a
      PROVE  Cardinality(Denied(b, a)') >= MaxFailures
  <2>1. request[r].at = "limited" /\ request[r].broker = b /\ request[r].address = a
    BY <1>3 DEF NothingCounted
  <2> QED BY <1>1, <2>1 DEF LimiterInv, LimitedOK
<1>4. LimitedOK'  BY <1>3 DEF LimitedOK
<1> QED BY <1>2, <1>4 DEF LimiterInv

(* A request that arrives is limited by what its window has counted.       *)
LEMMA ArriveLimiter ==
    ASSUME TypeOK, RequestsOK, LimiterInv, KeyCacheAssumption,
           NEW r \in Requests, NEW b \in Brokers, NEW k \in Keys \cup {None},
           NEW a \in Addresses, Arrive(r, b, k, a)
    PROVE  LimiterInv'
<1>q. request \in [Requests -> RequestRecords]  BY DEF TypeOK
<1>l. ipLimiter \in [Brokers -> [Addresses -> Windows \cup {None}]]  BY DEF TypeOK
<1>1. /\ request[r].at = "idle"
      /\ request'[r].at = IF isRateLimited(b, a) THEN "limited" ELSE "admitted"
      /\ request'[r].broker = b /\ request'[r].address = a
      /\ \A s \in Requests \ {r} : request'[s] = request[s]
  BY <1>q DEF Arrive
<1>2. \A c \in Brokers, d \in Addresses : Denied(c, d)' = Denied(c, d)
  BY <1>1 DEF Denied
<1>3. \A c \in Brokers, d \in Addresses :
        ipLimiter'[c][d] # None => ipLimiter'[c][d] = ipLimiter[c][d]
  BY <1>l DEF Arrive
<1>4. LimiterOK'  BY <1>2, <1>3 DEF LimiterInv, LimiterOK
<1>5. ASSUME isRateLimited(b, a)  PROVE Cardinality(Denied(b, a)) >= MaxFailures
  <2>1. ipLimiter[b][a] \in Windows /\ ipLimiter[b][a].failures >= MaxFailures
    BY <1>5, <1>l DEF isRateLimited
  <2>2. IsFiniteSet(Denied(b, a)) /\ ipLimiter[b][a].failures <= Cardinality(Denied(b, a))
    BY <1>5 DEF LimiterInv, LimiterOK, isRateLimited
  <2>3. Cardinality(Denied(b, a)) \in Nat  BY <2>2, FS_CardinalityType
  <2> QED BY <2>1, <2>2, <2>3 DEF Windows, KeyCacheAssumption
<1>6. ASSUME NEW s \in Requests, NEW c \in Brokers, NEW d \in Addresses,
             request'[s].at = "limited", request'[s].broker = c, request'[s].address = d
      PROVE  Cardinality(Denied(c, d)') >= MaxFailures
  <2>1. CASE s = r  BY <1>1, <1>2, <1>5, <1>6, <2>1
  <2>2. CASE s # r  BY <1>1, <1>2, <1>6, <2>2 DEF LimiterInv, LimitedOK
  <2> QED BY <2>1, <2>2
<1>7. LimitedOK'  BY <1>6 DEF LimitedOK
<1> QED BY <1>4, <1>7 DEF LimiterInv

(* A failure is counted in the step that refuses the request.              *)
LEMMA RecordFailureLimiter ==
    ASSUME TypeOK, RequestsOK, LimiterInv, KeyCacheAssumption,
           NEW r \in Requests, RecordFailure(r)
    PROVE  LimiterInv'
<1>q. request \in [Requests -> RequestRecords]  BY DEF TypeOK
<1>l. ipLimiter \in [Brokers -> [Addresses -> Windows \cup {None}]]  BY DEF TypeOK
<1>0. PICK B \in Brokers, A \in Addresses : B = request[r].broker /\ A = request[r].address
  BY DEF RequestsOK, RecordFailure
<1>1. /\ request[r].at = "failing" /\ request'[r].at = "denied"
      /\ request'[r].broker = B /\ request'[r].address = A
      /\ \A s \in Requests \ {r} : request'[s] = request[s]
  BY <1>q, <1>0 DEF RecordFailure, RequestRecords
<1>2. /\ Denied(B, A)' = Denied(B, A) \cup {r}
      /\ r \notin Denied(B, A)
  BY <1>1 DEF Denied
<1>3. \A b \in Brokers, a \in Addresses :
        b # B \/ a # A => Denied(b, a)' = Denied(b, a)
  BY <1>1 DEF Denied
<1>4. /\ IsFiniteSet(Denied(B, A)') /\ Cardinality(Denied(B, A)) \in Nat
      /\ Cardinality(Denied(B, A)') = Cardinality(Denied(B, A)) + 1
  <2>1. IsFiniteSet(Denied(B, A))  BY DEF LimiterInv, LimiterOK
  <2> QED BY <1>2, <2>1, FS_AddElement, FS_CardinalityType
<1> DEFINE Counted ==
      /\ \A b \in Brokers, a \in Addresses :
           (b # B \/ a # A) /\ ipLimiter'[b][a] # None => ipLimiter'[b][a] = ipLimiter[b][a]
      /\ \/ ipLimiter'[B][A] = [failures |-> 1, open |-> TRUE]
         \/ ipLimiter[B][A] # None
            /\ ipLimiter'[B][A].failures = ipLimiter[B][A].failures + 1
<1> HIDE DEF Counted
<1>5. Counted
  <2>0. ipLimiter[B] \in [Addresses -> Windows \cup {None}]  BY <1>l
  <2>1. ASSUME NEW room \in RoomFor(ipLimiter[B], A),
               ipLimiter' = [ipLimiter EXCEPT ![B] =
                               [room EXCEPT ![A] = [failures |-> 1, open |-> TRUE]]]
        PROVE  Counted
    <3>1. /\ room \in [Addresses -> Windows \cup {None}]
          /\ \A y \in Addresses : room[y] = None \/ room[y] = ipLimiter[B][y]
      <4>1. \A f \in [Addresses -> Windows \cup {None}], x \in Addresses :
              \A g \in RoomFor(f, x) :
                /\ g \in [Addresses -> Windows \cup {None}]
                /\ \A y \in Addresses : g[y] = None \/ g[y] = f[y]
        BY RoomOnlyForgets
      <4> QED BY <2>0, <4>1
    <3>2. /\ ipLimiter'[B] = [room EXCEPT ![A] = [failures |-> 1, open |-> TRUE]]
          /\ \A b \in Brokers \ {B} : ipLimiter'[b] = ipLimiter[b]
      BY <1>l, <2>1
    <3>3. /\ ipLimiter'[B][A] = [failures |-> 1, open |-> TRUE]
          /\ \A a \in Addresses \ {A} : ipLimiter'[B][a] = room[a]
      BY <3>1, <3>2, SMTT(30)
    <3> QED BY <3>1, <3>2, <3>3 DEF Counted
  <2>2. ASSUME ipLimiter[B][A] # None,
               ipLimiter' = [ipLimiter EXCEPT ![B][A].failures = @ + 1]
        PROVE  Counted
    <3>1. ipLimiter[B][A] \in Windows  BY <2>0, <2>2
    <3>2. /\ ipLimiter'[B] = [ipLimiter[B] EXCEPT ![A].failures = @ + 1]
          /\ \A b \in Brokers \ {B} : ipLimiter'[b] = ipLimiter[b]
      BY <1>l, <2>2
    <3>3. /\ ipLimiter'[B][A] = [ipLimiter[B][A] EXCEPT !.failures = @ + 1]
          /\ \A a \in Addresses \ {A} : ipLimiter'[B][a] = ipLimiter[B][a]
      BY <2>0, <3>2
    <3> QED BY <2>2, <3>1, <3>2, <3>3 DEF Counted, Windows
  <2> QED BY <1>0, <2>1, <2>2 DEF RecordFailure
<1>6. ASSUME NEW b \in Brokers, NEW a \in Addresses
      PROVE  /\ IsFiniteSet(Denied(b, a)')
             /\ ipLimiter'[b][a] # None
                  => ipLimiter'[b][a].failures <= Cardinality(Denied(b, a)')
  <2>1. CASE b # B \/ a # A  BY <1>3, <1>5, <2>1 DEF Counted, LimiterInv, LimiterOK
  <2>2. CASE b = B /\ a = A
    <3>1. CASE ipLimiter'[B][A] = [failures |-> 1, open |-> TRUE]
      BY <1>4, <2>2, <3>1
    <3>2. CASE ipLimiter[B][A] # None
               /\ ipLimiter'[B][A].failures = ipLimiter[B][A].failures + 1
      <4>1. ipLimiter[B][A] \in Windows  BY <1>l, <3>2
      <4>2. ipLimiter[B][A].failures <= Cardinality(Denied(B, A))
        BY <3>2 DEF LimiterInv, LimiterOK
      <4> QED BY <1>4, <2>2, <3>2, <4>1, <4>2 DEF Windows
    <3> QED BY <1>5, <3>1, <3>2 DEF Counted
  <2> QED BY <2>1, <2>2
<1>7. ASSUME NEW s \in Requests, NEW b \in Brokers, NEW a \in Addresses,
             request'[s].at = "limited", request'[s].broker = b, request'[s].address = a
      PROVE  Cardinality(Denied(b, a)') >= MaxFailures
  <2>1. Cardinality(Denied(b, a)) >= MaxFailures
    BY <1>1, <1>7 DEF LimiterInv, LimitedOK
  <2>2. CASE b = B /\ a = A  BY <1>4, <2>1, <2>2 DEF KeyCacheAssumption
  <2>3. CASE b # B \/ a # A  BY <1>3, <2>1, <2>3
  <2> QED BY <2>2, <2>3
<1>8. LimiterOK'  BY <1>6 DEF LimiterOK
<1>9. LimitedOK'  BY <1>7 DEF LimitedOK
<1> QED BY <1>8, <1>9 DEF LimiterInv

(* Every step keeps the limiter right.                                     *)
LEMMA LimiterStep ==
    ASSUME KeyCacheAssumption, TypeOK, RequestsOK, LimiterInv, [Next]_vars
    PROVE  LimiterInv'
<1>q. request \in [Requests -> RequestRecords]  BY DEF TypeOK
<1>l. ipLimiter \in [Brokers -> [Addresses -> Windows \cup {None}]]  BY DEF TypeOK
<1>1. ASSUME NEW r \in Requests, RequestNext(r) PROVE LimiterInv'
  <2>1. ASSUME NEW b \in Brokers, NEW k \in Keys \cup {None}, NEW a \in Addresses, Arrive(r, b, k, a) PROVE LimiterInv'
    BY <2>1, ArriveLimiter
  <2>2. CASE NoBearer(r)
    <3>1. NothingCounted
      BY <1>1, <2>2, <1>q, <1>l
      DEF NothingCounted, RequestRecords, memory, NoBearer
    <3> QED BY <3>1, NothingCountedStep
  <2>3. CASE LookUp(r)
    <3>1. NothingCounted
      BY <1>1, <2>3, <1>q, <1>l
      DEF NothingCounted, RequestRecords, memory, LookUp
    <3> QED BY <3>1, NothingCountedStep
  <2>4. CASE ReadGeneration(r)
    <3>1. NothingCounted
      BY <1>1, <2>4, <1>q, <1>l
      DEF NothingCounted, RequestRecords, memory, ReadGeneration
    <3> QED BY <3>1, NothingCountedStep
  <2>5. CASE ValidateAPIKey(r)
    <3>1. NothingCounted
      BY <1>1, <2>5, <1>q, <1>l
      DEF NothingCounted, RequestRecords, memory, ValidateAPIKey
    <3> QED BY <3>1, NothingCountedStep
  <2>6. CASE ValidationFails(r)
    <3>1. NothingCounted
      BY <1>1, <2>6, <1>q, <1>l
      DEF NothingCounted, RequestRecords, memory, ValidationFails
    <3> QED BY <3>1, NothingCountedStep
  <2>7. CASE CacheKeyResult(r)
    <3>1. NothingCounted
      BY <1>1, <2>7, <1>q, <1>l
      DEF NothingCounted, RequestRecords, memory, CacheKeyResult
    <3> QED BY <3>1, NothingCountedStep
  <2>8. CASE RecordFailure(r)  BY <2>8, RecordFailureLimiter
  <2> QED BY <1>1, <2>1, <2>2, <2>3, <2>4, <2>5, <2>6, <2>7, <2>8 DEF RequestNext
<1>2. ASSUME NEW c \in Calls, CallNext(c) PROVE LimiterInv'
  <2>1. UNCHANGED <<request, ipLimiter>>
    BY <1>2 DEF CallNext, Authorize, CreateAPIKey, RevokeAPIKey, DeleteProject, CallFails,
                ForgetCachedKeys, memory
  <2>2. NothingCounted  BY <2>1 DEF NothingCounted
  <2> QED BY <2>2, NothingCountedStep
<1>3. ASSUME NEW b \in Brokers, BrokerNext(b) PROVE LimiterInv'
  <2>1. ASSUME NEW k \in Keys, EntryExpires(b, k) PROVE LimiterInv'
    <3>1. NothingCounted
      BY <1>3, <2>1, <1>q, <1>l
      DEF NothingCounted, RequestRecords, EntryExpires
    <3> QED BY <3>1, NothingCountedStep
  <2>2. ASSUME NEW a \in Addresses, WindowEnds(b, a) PROVE LimiterInv'
    <3>1. NothingCounted
      BY <1>3, <2>2, <1>q, <1>l
      DEF NothingCounted, RequestRecords, WindowEnds, Windows
    <3> QED BY <3>1, NothingCountedStep
  <2>3. CASE SweepKeys(b)
    <3>1. NothingCounted
      BY <1>3, <2>3, <1>q, <1>l
      DEF NothingCounted, RequestRecords, SweepKeys
    <3> QED BY <3>1, NothingCountedStep
  <2>4. CASE SweepAddresses(b)
    <3>1. NothingCounted
      BY <1>3, <2>4, <1>q, <1>l
      DEF NothingCounted, RequestRecords, SweepAddresses
    <3> QED BY <3>1, NothingCountedStep
  <2>5. CASE Restart(b)
    <3>1. NothingCounted
      BY <1>3, <2>5, <1>q, <1>l
      DEF NothingCounted, RequestRecords, Restart, Working
    <3> QED BY <3>1, NothingCountedStep
  <2> QED BY <1>3, <2>1, <2>2, <2>3, <2>4, <2>5 DEF BrokerNext
<1>4. CASE UNCHANGED vars
  <2>1. NothingCounted  BY <1>4 DEF NothingCounted, vars
  <2> QED BY <2>1, NothingCountedStep
<1> QED BY <1>1, <1>2, <1>3, <1>4 DEF Next

(* An address is limited only after maxFailures refused requests of its    *)
(* own at that broker, whatever is evicted, swept, reset or restarted.     *)
THEOREM OnlyFailuresCount == Spec => []OnlyFailuresLimit
<1>1. Init => LimiterInv
  <2>1. ASSUME Init, NEW b \in Brokers, NEW a \in Addresses
        PROVE  Denied(b, a) = {} /\ ipLimiter[b][a] = None
    BY <2>1 DEF Init, NoRequest, Denied
  <2>2. Init => LimitedOK  BY DEF Init, NoRequest, LimitedOK
  <2> QED BY <2>1, <2>2, FS_EmptySet DEF LimiterInv, LimiterOK
<1>2. IInv /\ LimiterInv /\ [Next]_vars => LimiterInv'
  BY LimiterStep, KeyCacheAssumption DEF IInv
<1>3. IInv /\ LimiterInv => OnlyFailuresLimit
  BY DEF IInv, RequestsOK, LimiterInv, LimitedOK, OnlyFailuresLimit
<1> QED BY <1>1, <1>2, <1>3, KeyCacheInvariant, PTL DEF Spec

=============================================================================
