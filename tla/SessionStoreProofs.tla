-------------------------- MODULE SessionStoreProofs --------------------------
(***************************************************************************)
(* Proofs about the session store: its client through failures and close,   *)
(* and the limits built on single Redis commands, for any number of         *)
(* concurrent requests, reconnects and counters.                            *)
(***************************************************************************)
EXTENDS SessionStore, FiniteSetTheorems, TLAPS

At == {"idle", "dropped", "ttl", "incr", "expire", "compare", "strike", "strike_ttl",
       "lock", "getdel"}
RequestState == [at: At, client: Nat, read: Nat, life: Nat]

StoreType ==
    /\ client \in Nat /\ made \in Nat /\ consumed \in Nat
    /\ redis \in [Key -> [value: Nat, expires: BOOLEAN]]
    /\ req \in [Requester -> RequestState]
    /\ passed \in [life: Nat, n: Nat]

\* The requests of q that have counted in the life of a counter, and will pass.
Pending(q, life) ==
    {r \in Requester : /\ q[r].at \in {"expire", "compare"}
                       /\ q[r].life = life /\ q[r].read <= RateLimit}

\* Those that passed and those that will are within the limit and within v,
\* the value of the counter if there is one; and no request is of a life
\* that has not begun.
Budget(q, h, v) ==
    /\ h.n + Cardinality(Pending(q, h.life)) <= RateLimit
    /\ v # 0 => h.n + Cardinality(Pending(q, h.life)) <= v
    /\ \A r \in Requester : q[r].life <= h.life

StoreInv ==
    /\ StoreType
    /\ closing # "no" => shut
    /\ StoreLifecycle
    /\ Budget(req, passed, redis["count"].value)
    /\ consumed + redis["token"].value <= 1

USE StoreAssumption

LEMMA PendingCounts ==
  ASSUME NEW q, NEW L
  PROVE  IsFiniteSet(Pending(q, L)) /\ Cardinality(Pending(q, L)) \in Nat
  <1>1. Pending(q, L) \subseteq Requester
    BY DEF Pending
  <1> QED
    BY <1>1, FS_Subset, FS_CardinalityType

\* Fewer pending requests, and the same counter or none.
LEMMA BudgetStays ==
  ASSUME NEW q, NEW h \in [life: Nat, n: Nat], NEW v \in Nat, Budget(q, h, v),
         NEW s, NEW w \in Nat, w = 0 \/ (v # 0 /\ v <= w),
         Pending(s, h.life) \subseteq Pending(q, h.life),
         \A r \in Requester : s[r].life <= h.life
  PROVE  Budget(s, h, w)
  <1>1. Cardinality(Pending(s, h.life)) <= Cardinality(Pending(q, h.life))
    BY PendingCounts, FS_Subset
  <1>2. Cardinality(Pending(s, h.life)) \in Nat /\ Cardinality(Pending(q, h.life)) \in Nat
    BY PendingCounts
  <1>3. h.n \in Nat /\ RateLimit \in Nat
    OBVIOUS
  <1> QED
    BY <1>1, <1>2, <1>3 DEF Budget

\* The counter goes up and one more request is pending, unless it is too late.
LEMMA BudgetGrows ==
  ASSUME NEW q, NEW h \in [life: Nat, n: Nat], NEW v \in Nat, v # 0, Budget(q, h, v),
         NEW s, NEW r \in Requester, r \notin Pending(q, h.life),
         Pending(s, h.life) \subseteq Pending(q, h.life)
             \cup (IF v + 1 <= RateLimit THEN {r} ELSE {}),
         \A x \in Requester : s[x].life <= h.life
  PROVE  Budget(s, h, v + 1)
  <1>1. /\ Cardinality(Pending(s, h.life)) \in Nat /\ Cardinality(Pending(q, h.life)) \in Nat
        /\ h.n \in Nat /\ RateLimit \in Nat
    BY PendingCounts
  <1>2. CASE v + 1 <= RateLimit
    <2>1. Pending(s, h.life) \subseteq Pending(q, h.life) \cup {r}
      BY <1>2
    <2>2. /\ IsFiniteSet(Pending(q, h.life) \cup {r})
          /\ Cardinality(Pending(q, h.life) \cup {r}) = Cardinality(Pending(q, h.life)) + 1
      BY PendingCounts, FS_AddElement
    <2>3. Cardinality(Pending(s, h.life)) <= Cardinality(Pending(q, h.life)) + 1
      BY <2>1, <2>2, FS_Subset
    <2> QED
      BY <1>1, <1>2, <2>3 DEF Budget
  <1>3. CASE ~(v + 1 <= RateLimit)
    <2>1. Pending(s, h.life) \subseteq Pending(q, h.life)
      BY <1>3
    <2> QED
      BY <2>1, BudgetStays
  <1> QED
    BY <1>2, <1>3

\* A pending request passes.
LEMMA BudgetSpent ==
  ASSUME NEW q, NEW h \in [life: Nat, n: Nat], NEW v \in Nat, Budget(q, h, v),
         NEW s, NEW r \in Pending(q, h.life), NEW g \in [life: Nat, n: Nat],
         g.life = h.life, g.n = h.n + 1,
         Pending(s, h.life) \subseteq Pending(q, h.life) \ {r},
         \A x \in Requester : s[x].life <= h.life
  PROVE  Budget(s, g, v)
  <1>1. /\ Cardinality(Pending(s, h.life)) \in Nat /\ Cardinality(Pending(q, h.life)) \in Nat
        /\ h.n \in Nat /\ RateLimit \in Nat
    BY PendingCounts
  <1>2. /\ IsFiniteSet(Pending(q, h.life) \ {r})
        /\ Cardinality(Pending(q, h.life) \ {r}) = Cardinality(Pending(q, h.life)) - 1
    <2>1. IsFiniteSet(Pending(q, h.life)) /\ r \in Pending(q, h.life)
      BY PendingCounts
    <2> QED
      BY <2>1, FS_RemoveElement
  <1>3. Cardinality(Pending(s, h.life)) <= Cardinality(Pending(q, h.life)) - 1
    BY <1>2, FS_Subset
  <1> QED
    BY <1>1, <1>3 DEF Budget

\* The first count of a new counter.
LEMMA BudgetBegins ==
  ASSUME NEW s, NEW L \in Nat, NEW r \in Requester, NEW g \in [life: Nat, n: Nat],
         g.life = L, g.n = 0, Pending(s, L) \subseteq {r}, \A x \in Requester : s[x].life <= L
  PROVE  Budget(s, g, 1)
  <1>1. IsFiniteSet({r}) /\ Cardinality({r}) = 1
    BY FS_Singleton, ZenonT(40)
  <1>2. Cardinality(Pending(s, L)) <= 1
    BY <1>1, FS_Subset
  <1>3. RateLimit \in Nat /\ RateLimit >= 1 /\ Cardinality(Pending(s, L)) \in Nat
    BY PendingCounts
  <1> QED
    BY <1>2, <1>3 DEF Budget

LEMMA StoreStarts == StoreInit => StoreInv
  <1> SUFFICES ASSUME StoreInit PROVE StoreInv
    OBVIOUS
  <1>1. Idle \in RequestState
    BY DEF Idle, RequestState, At
  <1>2. StoreType
    BY <1>1 DEF StoreInit, StoreType, Gone, Key
  <1>3. /\ \A r \in Requester : req[r].life = 0 /\ req[r].at = "idle"
        /\ passed.life = 0 /\ passed.n = 0
    BY DEF StoreInit, Idle
  <1>4. Pending(req, passed.life) = {}
    BY <1>3 DEF Pending
  <1>5. Budget(req, passed, redis["count"].value)
    <2>1. Cardinality(Pending(req, passed.life)) = 0 /\ redis["count"].value = 0
      BY <1>4, FS_EmptySet DEF StoreInit, Gone, Key
    <2> QED
      BY <1>3, <2>1 DEF Budget
  <1>6. consumed = 0 /\ redis["token"].value = 1
    BY DEF StoreInit, Gone, Key
  <1> QED
    BY <1>2, <1>5, <1>6 DEF StoreInit, StoreInv, StoreLifecycle

-----------------------------------------------------------------------------
(* The client. *)

\* Steps of the store itself, between the requests.
LEMMA ConnectionStep ==
  ASSUME StoreInv, start_degraded \/ reconnect \/ connect \/ close
  PROVE  StoreInv'
  <1>1. UNCHANGED <<redis, req, passed, consumed>>
    BY DEF start_degraded, reconnect, connect, close
  <1>2. client' \in Nat /\ made' \in Nat
    BY DEF StoreInv, StoreType, start_degraded, reconnect, connect, close
  <1>3. StoreType'
    BY <1>1, <1>2 DEF StoreInv, StoreType
  <1>4. made + 1 # 0
    BY DEF StoreInv, StoreType
  <1>5. closing' # "no" => shut'
    BY DEF StoreInv, start_degraded, reconnect, connect, close
  <1>6. StoreLifecycle'
    <2>1. CASE start_degraded
      BY <1>1, <1>4, <2>1 DEF StoreInv, StoreLifecycle, start_degraded, schedule_reconnect
    <2>2. CASE reconnect
      BY <1>1, <2>2 DEF StoreInv, StoreLifecycle, reconnect
    <2>3. CASE connect
      BY <1>1, <1>4, <2>3 DEF StoreInv, StoreLifecycle, connect
    <2>4. CASE close
      BY <1>1, <2>4 DEF StoreInv, StoreLifecycle, close
    <2> QED
      BY <2>1, <2>2, <2>3, <2>4
  <1>7. Budget(req', passed', redis'["count"].value) /\ consumed' + redis'["token"].value <= 1
    BY <1>1 DEF StoreInv
  <1> QED
    BY <1>3, <1>5, <1>6, <1>7 DEF StoreInv

\* The shape of the other steps: requests and keys change.
LEMMA RequestMoves ==
  ASSUME StoreInv, UNCHANGED <<shut, client, made, task, closing>>, StoreType',
         \A r \in Requester : req[r].at = "dropped" => req'[r].at = "dropped",
         Budget(req', passed', redis'["count"].value),
         consumed' + redis'["token"].value <= 1
  PROVE  StoreInv'
  <1>1. StoreLifecycle'
    BY DEF StoreInv, StoreLifecycle
  <1> QED
    BY <1>1 DEF StoreInv

\* A request goes on as q.
LEMMA OneRequest ==
  ASSUME StoreInv, NEW r \in Requester, NEW q \in RequestState, req' = [req EXCEPT ![r] = q]
  PROVE  /\ req' \in [Requester -> RequestState]
         /\ req'[r] = q /\ \A x \in Requester \ {r} : req'[x] = req[x]
         /\ \A L : Pending(req', L) \subseteq Pending(req, L) \cup {r}
         /\ \A L : ~(/\ q.at \in {"expire", "compare"}
                     /\ q.life = L /\ q.read <= RateLimit) =>
               Pending(req', L) \subseteq Pending(req, L) \ {r}
  <1>1. /\ req' \in [Requester -> RequestState]
        /\ req'[r] = q /\ \A x \in Requester \ {r} : req'[x] = req[x]
    BY DEF StoreInv, StoreType
  <1> QED
    BY <1>1 DEF Pending

LEMMA IdleTyped ==
  /\ Idle \in RequestState /\ Idle.at = "idle" /\ Idle.life = 0
  /\ [Idle EXCEPT !.at = "dropped"] \in RequestState
  /\ [Idle EXCEPT !.at = "dropped"].at = "dropped" /\ [Idle EXCEPT !.at = "dropped"].life = 0
  BY DEF Idle, RequestState, At

\* A request that stops counting: its command failed, or it ends.
LEMMA StepsBack ==
  ASSUME StoreInv, NEW r \in Requester, NEW q \in RequestState, req' = [req EXCEPT ![r] = q],
         q.at \notin {"expire", "compare"}, q.life <= passed.life, NEW w \in Nat,
         w = 0 \/ w = redis["count"].value
  PROVE  req' \in [Requester -> RequestState] /\ Budget(req', passed, w)
  <1>1. /\ req' \in [Requester -> RequestState] /\ req'[r] = q
        /\ \A x \in Requester \ {r} : req'[x] = req[x]
        /\ Pending(req', passed.life) \subseteq Pending(req, passed.life)
    BY OneRequest, ZenonT(40)
  <1>2. \A x \in Requester : req'[x].life <= passed.life
    BY <1>1 DEF StoreInv, Budget
  <1>3. passed \in [life: Nat, n: Nat] /\ redis["count"].value \in Nat
    BY DEF StoreInv, StoreType, Key
  <1>4. PICK v \in Nat : v = redis["count"].value
    BY <1>3
  <1>5. Budget(req, passed, v)
    BY <1>4 DEF StoreInv
  <1>6. w = 0 \/ (v # 0 /\ v <= w)
    BY <1>4
  <1>7. Budget(req', passed, w)
    BY <1>1, <1>2, <1>3, <1>5, <1>6, BudgetStays, ZenonT(40)
  <1> QED
    BY <1>1, <1>7

LEMMA ClientFailsStep ==
  ASSUME StoreInv, NEW r \in Requester, with_client_fails(r) PROVE StoreInv'
  <1>1. UNCHANGED <<made, closing, redis, passed, consumed>> /\ shut' = shut
    BY DEF with_client_fails
  <1>2. PICK q \in {Idle, [Idle EXCEPT !.at = "dropped"]} : req' = [req EXCEPT ![r] = q]
    BY DEF with_client_fails
  <1>3. q \in RequestState /\ q.at \in {"idle", "dropped"} /\ q.life = 0
    BY <1>2, IdleTyped, ZenonT(40)
  <1>4. redis["count"].value \in Nat /\ passed.life \in Nat
    BY DEF StoreInv, StoreType, Key
  <1>5. req' \in [Requester -> RequestState] /\ Budget(req', passed, redis["count"].value)
    <2>1. q.life <= passed.life /\ q.at \notin {"expire", "compare"}
      BY <1>3, <1>4
    <2> QED
      BY <1>2, <1>3, <1>4, <2>1, StepsBack, ZenonT(40)
  <1>6. client' \in Nat
    BY DEF StoreInv, StoreType, with_client_fails
  <1>7. req'[r] = q /\ \A x \in Requester \ {r} : req'[x] = req[x]
    BY <1>2, <1>3, OneRequest, ZenonT(40)
  <1>8. StoreLifecycle'
    <2>1. CASE /\ client' = IF client = req[r].client THEN 0 ELSE client
               /\ task' = task /\ req' = [req EXCEPT ![r] = [Idle EXCEPT !.at = "dropped"]]
      <3>1. req'[r].at = "dropped"
        BY <2>1, IdleTyped DEF StoreInv, StoreType
      <3>2. closing' = "done" => client' = 0 /\ task' = "none"
        BY <1>1, <2>1 DEF StoreInv, StoreLifecycle
      <3> QED
        BY <3>1, <3>2 DEF StoreLifecycle
    <2>2. CASE client' = client /\ task' = schedule_reconnect(client)
      <3>1. closing' = "done" => client' = 0 /\ task' = "none"
        BY <1>1, <2>2 DEF StoreInv, StoreLifecycle, schedule_reconnect
      <3>2. ~shut' /\ client' = 0 => task' # "none"
        BY <1>1, <2>2 DEF schedule_reconnect
      <3> QED
        BY <3>1, <3>2 DEF StoreLifecycle
    <2> QED
      BY <2>1, <2>2 DEF with_client_fails
  <1> QED
    BY <1>1, <1>5, <1>6, <1>8 DEF StoreInv, StoreType

-----------------------------------------------------------------------------
(* The requests. *)

LEMMA ClientForStep ==
  ASSUME StoreInv, NEW r \in Requester, NEW first \in {"ttl", "getdel"}, client_for(r, first)
  PROVE  StoreInv'
  <1> DEFINE q == [at |-> first, client |-> client, read |-> 0, life |-> 0]
  <1>1. /\ UNCHANGED <<shut, client, made, task, closing, redis, passed, consumed>>
        /\ req[r] = Idle /\ req' = [req EXCEPT ![r] = q]
    BY DEF client_for
  <1>2. q \in RequestState /\ q.at = first /\ q.life = 0
    BY DEF RequestState, At, StoreInv, StoreType
  <1>3. redis["count"].value \in Nat /\ passed.life \in Nat
    BY DEF StoreInv, StoreType, Key
  <1> HIDE DEF q
  <1>4. q.life <= passed.life /\ q.at \notin {"expire", "compare"}
    BY <1>2, <1>3
  <1>5. req' \in [Requester -> RequestState] /\ Budget(req', passed, redis["count"].value)
    BY <1>1, <1>2, <1>3, <1>4, StepsBack, ZenonT(40)
  <1>6. \A x \in Requester : req[x].at = "dropped" => req'[x].at = "dropped"
    BY <1>1, <1>2, IdleTyped, OneRequest
  <1>7. StoreType'
    BY <1>1, <1>5 DEF StoreInv, StoreType
  <1> QED
    BY <1>1, <1>5, <1>6, <1>7, RequestMoves DEF StoreInv

\* A request moves on, or ends, at a command that leaves the count alone.
LEMMA CommandStep ==
  ASSUME StoreInv, NEW r \in Requester, NEW q \in RequestState, req' = [req EXCEPT ![r] = q],
         req[r].at # "dropped", q.at \notin {"expire", "compare"}, q.life <= passed.life,
         UNCHANGED <<shut, client, made, task, closing, passed>>,
         redis' \in [Key -> [value: Nat, expires: BOOLEAN]],
         redis'["count"].value = redis["count"].value, consumed' \in Nat,
         consumed' + redis'["token"].value <= 1
  PROVE  StoreInv'
  <1>1. redis["count"].value \in Nat
    BY DEF StoreInv, StoreType, Key
  <1>2. req' \in [Requester -> RequestState] /\ Budget(req', passed, redis["count"].value)
    BY <1>1, StepsBack, ZenonT(40)
  <1>3. \A x \in Requester : req[x].at = "dropped" => req'[x].at = "dropped"
    BY OneRequest
  <1>4. StoreType'
    BY <1>2 DEF StoreInv, StoreType
  <1> QED
    BY <1>2, <1>3, <1>4, RequestMoves

LEMMA RequestFields ==
  ASSUME StoreInv, NEW r \in Requester
  PROVE  /\ req[r] \in RequestState /\ req[r].read \in Nat /\ req[r].life \in Nat
         /\ req[r].life <= passed.life /\ passed.life \in Nat /\ passed.n \in Nat
         /\ Idle.life <= passed.life
  <1>1. req[r] \in RequestState /\ passed \in [life: Nat, n: Nat] /\ req[r].life <= passed.life
    BY DEF StoreInv, StoreType, Budget
  <1>2. Idle.life = 0
    BY IdleTyped
  <1>3. req[r].read \in Nat /\ req[r].life \in Nat /\ passed.life \in Nat /\ passed.n \in Nat
    BY <1>1 DEF RequestState
  <1>4. Idle.life <= passed.life
    BY <1>2, <1>3
  <1> QED
    BY <1>1, <1>3, <1>4, Zenon

LEMMA GoesMeans ==
  ASSUME StoreInv, NEW r \in Requester, NEW to \in At, NEW v \in Nat, Goes(r, to, v)
  PROVE  \E q \in RequestState : /\ q.at = to /\ q.read = v /\ q.life = req[r].life
                                 /\ req' = [req EXCEPT ![r] = q]
  <1> DEFINE q == [req[r] EXCEPT !.at = to, !.read = v]
  <1>1. req[r] \in RequestState /\ req \in [Requester -> RequestState]
    BY DEF StoreInv, StoreType
  <1>2. q \in RequestState /\ q.at = to /\ q.read = v /\ q.life = req[r].life
    BY <1>1, ZenonT(40) DEF RequestState
  <1>3. req' = [req EXCEPT ![r] = q]
    BY <1>1, ZenonT(40) DEF Goes, RequestState
  <1> HIDE DEF q
  <1> QED
    BY <1>2, <1>3, ZenonT(40)

LEMMA TokenStep ==
  ASSUME StoreInv, NEW r \in Requester, consume_email_verification_token(r) PROVE StoreInv'
  <1>1. /\ req[r].at = "getdel" /\ consumed' = consumed + redis["token"].value
        /\ redis' = [redis EXCEPT !["token"] = Gone] /\ req' = [req EXCEPT ![r] = Idle]
        /\ UNCHANGED <<shut, client, made, task, closing, passed>>
    BY DEF consume_email_verification_token, StoreEnds
  <1>2. /\ redis \in [Key -> [value: Nat, expires: BOOLEAN]] /\ consumed \in Nat
        /\ redis["token"].value \in Nat /\ consumed + redis["token"].value <= 1
    BY DEF StoreInv, StoreType, Key
  <1>3. /\ redis' \in [Key -> [value: Nat, expires: BOOLEAN]]
        /\ redis'["count"].value = redis["count"].value /\ redis'["token"].value = 0
    BY <1>1, <1>2 DEF Gone, Key
  <1>4. consumed' \in Nat /\ consumed' + redis'["token"].value <= 1
    BY <1>1, <1>2, <1>3
  <1> QED
    BY <1>1, <1>3, <1>4, IdleTyped, RequestFields, CommandStep, ZenonT(40)

LEMMA ExpiryStep == ASSUME StoreInv, NEW key \in Key, KeyExpires(key) PROVE StoreInv'
  <1>1. /\ redis' = [redis EXCEPT ![key] = Gone]
        /\ UNCHANGED <<shut, client, made, task, closing, req, passed, consumed>>
    BY DEF KeyExpires
  <1>2. /\ redis \in [Key -> [value: Nat, expires: BOOLEAN]] /\ consumed \in Nat
        /\ redis["token"].value \in Nat /\ consumed + redis["token"].value <= 1
    BY DEF StoreInv, StoreType, Key
  <1>3. /\ redis' \in [Key -> [value: Nat, expires: BOOLEAN]]
        /\ redis'["count"].value \in {0, redis["count"].value}
        /\ redis'["token"].value \in {0, redis["token"].value}
    BY <1>1, <1>2 DEF Gone, Key
  <1>4. StoreType'
    BY <1>1, <1>3 DEF StoreInv, StoreType
  <1>5. Budget(req', passed', redis'["count"].value)
    BY <1>1, <1>3 DEF StoreInv, Budget
  <1>6. consumed' + redis'["token"].value <= 1
    BY <1>1, <1>2, <1>3
  <1> QED
    BY <1>1, <1>4, <1>5, <1>6, RequestMoves

\* What the Redis commands do to the keys.
LEMMA RedisMeans ==
  ASSUME StoreInv, NEW key \in Key, RedisIncr(key) \/ RedisExpire(key) \/ redis' = redis
  PROVE  /\ redis' \in [Key -> [value: Nat, expires: BOOLEAN]]
         /\ \A k \in Key \ {key} : redis'[k] = redis[k]
         /\ RedisExpire(key) \/ redis' = redis => redis'[key].value = redis[key].value
         /\ RedisIncr(key) => redis'[key].value = redis[key].value + 1
  <1>1. redis \in [Key -> [value: Nat, expires: BOOLEAN]] /\ redis[key] \in [value: Nat, expires: BOOLEAN]
    BY DEF StoreInv, StoreType
  <1>2. CASE RedisIncr(key)
    <2>1. redis' = [redis EXCEPT ![key] = [redis[key] EXCEPT !.value = redis[key].value + 1]]
      BY <1>1, <1>2 DEF RedisIncr
    <2>2. [redis[key] EXCEPT !.value = redis[key].value + 1] \in [value: Nat, expires: BOOLEAN]
      BY <1>1
    <2>3. redis'[key].value = redis[key].value + 1
      BY <1>1, <2>1
    <2>4. redis[key].value + 1 # redis[key].value
      BY <1>1
    <2> QED
      BY <1>1, <2>1, <2>2, <2>3, <2>4 DEF RedisExpire
  <1>3. CASE RedisExpire(key)
    <2>1. redis' = [redis EXCEPT ![key] = [redis[key] EXCEPT !.expires = redis[key].value # 0]]
      BY <1>1, <1>3 DEF RedisExpire
    <2>2. [redis[key] EXCEPT !.expires = redis[key].value # 0] \in [value: Nat, expires: BOOLEAN]
      BY <1>1, ZenonT(40)
    <2>3. redis'[key].value = redis[key].value
      BY <1>1, <2>1
    <2>4. ~RedisIncr(key)
      BY <1>1, <2>3 DEF RedisIncr
    <2> QED
      BY <1>1, <2>1, <2>2, <2>3, <2>4
  <1>4. CASE redis' = redis
    <2>1. ~RedisIncr(key)
      BY <1>1, <1>4 DEF RedisIncr
    <2> QED
      BY <1>1, <1>4, <2>1
  <1> QED
    BY <1>2, <1>3, <1>4

\* INCR, with EXPIRE or the comparison to come.
LEMMA IncrStep ==
  ASSUME StoreInv, NEW r \in Requester, req[r].at = "incr", RedisIncr("count"),
         passed' = IF redis["count"].value = 0 THEN [life |-> passed.life + 1, n |-> 0] ELSE passed,
         NEW to \in {"expire", "compare"},
         req' = [req EXCEPT ![r] = [req[r] EXCEPT !.at = to, !.read = redis'["count"].value,
                                                  !.life = passed'.life]],
         UNCHANGED <<shut, client, made, task, closing, consumed>>
  PROVE  StoreInv'
  <1>1. /\ redis' \in [Key -> [value: Nat, expires: BOOLEAN]]
        /\ redis'["token"] = redis["token"] /\ redis["count"].value \in Nat
        /\ redis'["count"].value = redis["count"].value + 1
    BY RedisMeans DEF Key, StoreInv, StoreType
  <1>2. passed \in [life: Nat, n: Nat] /\ passed.life \in Nat
    BY DEF StoreInv, StoreType
  <1>3. /\ passed' \in [life: Nat, n: Nat] /\ passed'.life \in Nat /\ passed.life <= passed'.life
        /\ redis["count"].value = 0 => passed'.n = 0 /\ passed'.life = passed.life + 1
        /\ redis["count"].value # 0 => passed' = passed
    BY <1>2
  <1>4. PICK v \in Nat : v = redis["count"].value
    BY <1>1
  <1>5. PICK q : q = [req[r] EXCEPT !.at = to, !.read = v + 1, !.life = passed'.life]
    OBVIOUS
  <1>6. q \in RequestState /\ q.at = to /\ q.read = v + 1 /\ q.life = passed'.life
    <2>1. req[r] \in RequestState
      BY RequestFields
    <2>2. v + 1 \in Nat /\ passed'.life \in Nat /\ to \in At
      BY <1>3 DEF At
    <2> QED
      BY <1>5, <2>1, <2>2, ZenonT(40) DEF RequestState
  <1>7. req' = [req EXCEPT ![r] = q]
    BY <1>1, <1>4, <1>5
  <1>8. /\ req' \in [Requester -> RequestState] /\ req'[r] = q
        /\ \A x \in Requester \ {r} : req'[x] = req[x]
        /\ \A L : Pending(req', L) \subseteq Pending(req, L) \cup {r}
        /\ ~(v + 1 <= RateLimit) => \A L : Pending(req', L) \subseteq Pending(req, L) \ {r}
    <2>1. ~(v + 1 <= RateLimit) =>
             \A L : ~(q.at \in {"expire", "compare"} /\ q.life = L /\ q.read <= RateLimit)
      BY <1>6
    <2> QED
      BY <1>6, <1>7, <2>1, OneRequest, ZenonT(40)
  <1>9. \A x \in Requester : req'[x].life <= passed'.life
    <2>1. \A x \in Requester : req[x].life \in Nat /\ req[x].life <= passed.life
      BY RequestFields
    <2> QED
      BY <1>2, <1>3, <1>6, <1>8, <2>1
  <1>10. Budget(req', passed', v + 1)
    <2>1. CASE v = 0
      <3>1. Pending(req, passed'.life) = {}
        <4>1. \A x \in Requester : req[x].life \in Nat /\ req[x].life <= passed.life
          BY RequestFields
        <4>2. passed'.life = passed.life + 1
          BY <1>3, <1>4, <2>1
        <4>3. \A x \in Requester : req[x].life # passed'.life
          BY <1>2, <4>1, <4>2
        <4> QED
          BY <4>3 DEF Pending
      <3>2. Pending(req', passed'.life) \subseteq {r} /\ passed'.n = 0
        BY <1>3, <1>4, <1>8, <2>1, <3>1, ZenonT(40)
      <3>3. PICK L \in Nat : L = passed'.life
        BY <1>3
      <3>4. Budget(req', passed', 1)
        BY <1>3, <1>9, <3>2, <3>3, BudgetBegins, ZenonT(40)
      <3> QED
        BY <2>1, <3>4
    <2>2. CASE v # 0
      <3>1. passed' = passed /\ r \notin Pending(req, passed.life) /\ Budget(req, passed, v)
        BY <1>3, <1>4, <2>2 DEF Pending, StoreInv
      <3>2. Pending(req', passed.life) \subseteq Pending(req, passed.life)
                \cup (IF v + 1 <= RateLimit THEN {r} ELSE {})
        BY <1>8, ZenonT(40)
      <3>3. \A x \in Requester : req'[x].life <= passed.life
        BY <1>9, <3>1
      <3>4. Budget(req', passed, v + 1)
        BY <1>2, <2>2, <3>1, <3>2, <3>3, BudgetGrows, ZenonT(40)
      <3> QED
        BY <3>1, <3>4
    <2> QED
      BY <2>1, <2>2
  <1>11. StoreType'
    BY <1>1, <1>3, <1>8 DEF StoreInv, StoreType
  <1>12. \A x \in Requester : req[x].at = "dropped" => req'[x].at = "dropped"
    BY <1>8
  <1>13. Budget(req', passed', redis'["count"].value) /\ consumed' + redis'["token"].value <= 1
    BY <1>1, <1>4, <1>10 DEF StoreInv
  <1> QED
    BY <1>11, <1>12, <1>13, RequestMoves

\* A request between EXPIRE and its comparison stays as pending as it was.
LEMMA ExpireStep ==
  ASSUME StoreInv, NEW r \in Requester, req[r].at = "expire", RedisExpire("count"),
         Goes(r, "compare", req[r].read),
         UNCHANGED <<shut, client, made, task, closing, passed, consumed>>
  PROVE  StoreInv'
  <1>1. /\ redis' \in [Key -> [value: Nat, expires: BOOLEAN]]
        /\ redis'["token"] = redis["token"] /\ redis["count"].value \in Nat
        /\ redis'["count"].value = redis["count"].value
    BY RedisMeans DEF Key, StoreInv, StoreType
  <1>2. "compare" \in At /\ req[r].read \in Nat
    BY RequestFields DEF At
  <1>3. PICK q \in RequestState :
           /\ q.at = "compare" /\ q.read = req[r].read /\ q.life = req[r].life
           /\ req' = [req EXCEPT ![r] = q]
    BY <1>2, GoesMeans
  <1>4. req' = [req EXCEPT ![r] = q]
    BY <1>3
  <1>5. /\ req' \in [Requester -> RequestState] /\ req'[r] = q
        /\ \A x \in Requester \ {r} : req'[x] = req[x]
    BY <1>3, <1>4, OneRequest, ZenonT(40)
  <1>6. Pending(req', passed.life) \subseteq Pending(req, passed.life)
    BY <1>3, <1>5 DEF Pending
  <1>7. \A x \in Requester : req'[x].life <= passed.life
    BY <1>3, <1>5, RequestFields
  <1>8. PICK v \in Nat : v = redis["count"].value
    BY <1>1
  <1>9. Budget(req', passed, v)
    <2>1. Budget(req, passed, v) /\ passed \in [life: Nat, n: Nat]
      BY <1>8 DEF StoreInv, StoreType
    <2>2. v = 0 \/ (v # 0 /\ v <= v)
      OBVIOUS
    <2> QED
      BY <1>6, <1>7, <2>1, <2>2, BudgetStays
  <1>10. StoreType'
    BY <1>1, <1>5 DEF StoreInv, StoreType
  <1>11. \A x \in Requester : req[x].at = "dropped" => req'[x].at = "dropped"
    BY <1>5
  <1>12. Budget(req', passed', redis'["count"].value) /\ consumed' + redis'["token"].value <= 1
    BY <1>1, <1>8, <1>9 DEF StoreInv
  <1> QED
    BY <1>10, <1>11, <1>12, RequestMoves

\* A request within the limit passes.
LEMMA PassStep ==
  ASSUME StoreInv, NEW r \in Requester, req[r].at = "compare", redis' = redis,
         req[r].read <= RateLimit, StoreEnds(r),
         passed' = IF req[r].life = passed.life THEN [passed EXCEPT !.n = @ + 1] ELSE passed,
         UNCHANGED <<shut, client, made, task, closing, consumed>>
  PROVE  StoreInv'
  <1>1. req' = [req EXCEPT ![r] = Idle] /\ passed \in [life: Nat, n: Nat]
    BY DEF StoreEnds, StoreInv, StoreType
  <1>2. /\ req' \in [Requester -> RequestState] /\ req'[r] = Idle
        /\ \A x \in Requester \ {r} : req'[x] = req[x]
        /\ Pending(req', passed.life) \subseteq Pending(req, passed.life) \ {r}
    <2>1. ~(Idle.at \in {"expire", "compare"} /\ Idle.life = passed.life /\ Idle.read <= RateLimit)
      BY IdleTyped
    <2> QED
      BY <1>1, <2>1, IdleTyped, OneRequest, ZenonT(40)
  <1>3. \A x \in Requester : req'[x].life <= passed.life
    BY <1>2, RequestFields
  <1>4. PICK v \in Nat : v = redis["count"].value
    BY DEF StoreInv, StoreType, Key
  <1>5. Budget(req, passed, v)
    BY <1>4 DEF StoreInv
  <1>6. passed' \in [life: Nat, n: Nat] /\ Budget(req', passed', v)
    <2>1. CASE req[r].life = passed.life
      <3>1. r \in Pending(req, passed.life)
        BY <2>1 DEF Pending
      <3>2. passed' \in [life: Nat, n: Nat] /\ passed'.life = passed.life /\ passed'.n = passed.n + 1
        BY <1>1, <2>1
      <3> QED
        BY <1>1, <1>2, <1>3, <1>5, <3>1, <3>2, BudgetSpent, ZenonT(40)
    <2>2. CASE req[r].life # passed.life
      <3>1. passed' = passed /\ Pending(req', passed.life) \subseteq Pending(req, passed.life)
        BY <1>2, <2>2
      <3>2. v = 0 \/ (v # 0 /\ v <= v)
        OBVIOUS
      <3>3. Budget(req', passed, v)
        BY <1>1, <1>3, <1>5, <3>1, <3>2, BudgetStays, ZenonT(40)
      <3> QED
        BY <1>1, <3>1, <3>3
    <2> QED
      BY <2>1, <2>2
  <1>7. StoreType'
    BY <1>2, <1>6 DEF StoreInv, StoreType
  <1>8. \A x \in Requester : req[x].at = "dropped" => req'[x].at = "dropped"
    BY <1>2
  <1>9. Budget(req', passed', redis'["count"].value) /\ consumed' + redis'["token"].value <= 1
    BY <1>4, <1>6 DEF StoreInv
  <1> QED
    BY <1>7, <1>8, <1>9, RequestMoves

\* The commands that do not count: the lock is read, strikes and locks are set.
LEMMA AsideStep ==
  ASSUME StoreInv, NEW r \in Requester, req[r].at # "dropped",
         UNCHANGED <<shut, client, made, task, closing, passed, consumed>>,
         redis' \in [Key -> [value: Nat, expires: BOOLEAN]],
         redis'["count"] = redis["count"], redis'["token"] = redis["token"],
         \/ StoreEnds(r)
         \/ \E to \in {"incr", "strike", "strike_ttl", "lock"}, v \in Nat : Goes(r, to, v)
  PROVE  StoreInv'
  <1>1. PICK q \in RequestState : /\ req' = [req EXCEPT ![r] = q]
                                  /\ q.at \notin {"expire", "compare"} /\ q.life <= passed.life
    <2>1. CASE StoreEnds(r)
      BY <2>1, IdleTyped, RequestFields, ZenonT(40) DEF StoreEnds
    <2>2. ASSUME NEW to \in {"incr", "strike", "strike_ttl", "lock"}, NEW v \in Nat, Goes(r, to, v)
          PROVE  \E q \in RequestState : /\ req' = [req EXCEPT ![r] = q]
                                         /\ q.at \notin {"expire", "compare"} /\ q.life <= passed.life
      <3>1. to \in At
        BY DEF At
      <3>2. PICK q \in RequestState : /\ q.at = to /\ q.life = req[r].life
                                      /\ req' = [req EXCEPT ![r] = q]
        BY <2>2, <3>1, GoesMeans
      <3> QED
        BY <3>2, RequestFields, ZenonT(40)
    <2> QED
      BY <2>1, <2>2
  <1>2. consumed' \in Nat /\ consumed' + redis'["token"].value <= 1
    BY DEF StoreInv, StoreType
  <1> QED
    BY <1>1, <1>2, CommandStep, ZenonT(40)

LEMMA RateLimitStep ==
  ASSUME StoreInv, NEW r \in Requester, check_escalating_rate_limit(r) PROVE StoreInv'
  <1>1. UNCHANGED <<shut, client, made, task, closing, consumed>>
    BY DEF check_escalating_rate_limit
  <1>2. /\ redis \in [Key -> [value: Nat, expires: BOOLEAN]] /\ req[r].read \in Nat
        /\ {"count", "strike", "lock", "token"} \subseteq Key
    BY RequestFields DEF StoreInv, StoreType, Key
  <1>3. CASE /\ req[r].at = "ttl" /\ redis' = redis /\ UNCHANGED passed
             /\ StoreEnds(r) \/ Goes(r, "incr", 0)
    BY <1>1, <1>2, <1>3, AsideStep
  <1>4. CASE /\ req[r].at = "compare" /\ redis' = redis /\ UNCHANGED passed /\ Goes(r, "strike", 0)
    BY <1>1, <1>2, <1>4, AsideStep
  <1>5. CASE /\ req[r].at = "strike" /\ RedisIncr("strike") /\ UNCHANGED passed
             /\ Goes(r, "strike_ttl", redis'["strike"].value)
    <2>1. /\ redis' \in [Key -> [value: Nat, expires: BOOLEAN]]
          /\ redis'["count"] = redis["count"] /\ redis'["token"] = redis["token"]
      BY <1>2, <1>5, RedisMeans DEF Key
    <2>2. redis'["strike"].value \in Nat
      BY <1>2, <2>1
    <2> QED
      BY <1>1, <1>5, <2>1, <2>2, AsideStep
  <1>6. CASE /\ req[r].at = "strike_ttl" /\ UNCHANGED passed /\ Goes(r, "lock", req[r].read)
             /\ RedisExpire("strike") \/ redis' = redis
    <2>1. /\ redis' \in [Key -> [value: Nat, expires: BOOLEAN]]
          /\ redis'["count"] = redis["count"] /\ redis'["token"] = redis["token"]
      BY <1>2, <1>6, RedisMeans DEF Key
    <2> QED
      BY <1>1, <1>2, <1>6, <2>1, AsideStep
  <1>7. CASE /\ req[r].at = "lock" /\ StoreEnds(r) /\ UNCHANGED passed
             /\ redis' = [redis EXCEPT !["lock"] =
                   [value |-> IF req[r].read < LockSteps THEN req[r].read ELSE LockSteps,
                    expires |-> TRUE]]
    <2>1. /\ redis' \in [Key -> [value: Nat, expires: BOOLEAN]]
          /\ redis'["count"] = redis["count"] /\ redis'["token"] = redis["token"]
      <3>1. PICK v \in Nat : v = IF req[r].read < LockSteps THEN req[r].read ELSE LockSteps
        BY <1>2
      <3>2. redis' = [redis EXCEPT !["lock"] = [value |-> v, expires |-> TRUE]]
        BY <1>7, <3>1, SMTT(40)
      <3> QED
        BY <1>2, <3>2 DEF Key
    <2> QED
      BY <1>1, <1>7, <2>1, AsideStep
  <1>8. CASE /\ req[r].at = "incr" /\ RedisIncr("count")
             /\ passed' = IF redis["count"].value = 0 THEN [life |-> passed.life + 1, n |-> 0] ELSE passed
             /\ req' = [req EXCEPT ![r] = [@ EXCEPT
                    !.at = IF redis'["count"].value = 1 THEN "expire" ELSE "compare",
                    !.read = redis'["count"].value, !.life = passed'.life]]
    <2>1. PICK to \in {"expire", "compare"} :
             to = IF redis'["count"].value = 1 THEN "expire" ELSE "compare"
      OBVIOUS
    <2>2. req' = [req EXCEPT ![r] = [req[r] EXCEPT !.at = to, !.read = redis'["count"].value,
                                                    !.life = passed'.life]]
      BY <1>8, <2>1 DEF StoreInv, StoreType
    <2> QED
      BY <1>1, <1>8, <2>2, IncrStep, ZenonT(40)
  <1> QED
    BY <1>1, <1>3, <1>4, <1>5, <1>6, <1>7, <1>8, ExpireStep, PassStep DEF check_escalating_rate_limit

LEMMA StoreStep == StoreInv /\ [StoreNext]_storeVars => StoreInv'
  <1> SUFFICES ASSUME StoreInv, [StoreNext]_storeVars PROVE StoreInv'
    OBVIOUS
  <1>1. CASE UNCHANGED storeVars
    BY <1>1 DEF storeVars, StoreInv, StoreType, StoreLifecycle
  <1> QED
    BY <1>1, ConnectionStep, ClientForStep, RateLimitStep, TokenStep, ClientFailsStep, ExpiryStep
       DEF StoreNext

\* The session store is sound for any number of concurrent requests: close
\* leaves no client and no reconnect task behind, an open store without a
\* client is being reconnected, no more requests pass within the life of a
\* counter than its limit, and a verification token is handed out once.
THEOREM StoreStaysSound == StoreSpec => []StoreIsSound
  <1>1. StoreInv => StoreIsSound
    <2> SUFFICES ASSUME StoreInv PROVE StoreIsSound
      OBVIOUS
    <2>1. Cardinality(Pending(req, passed.life)) \in Nat
      BY PendingCounts
    <2>2. passed.n <= RateLimit
      BY <2>1 DEF StoreInv, StoreType, Budget
    <2>3. consumed <= 1
      BY DEF StoreInv, StoreType, Key
    <2> QED
      BY <2>2, <2>3 DEF StoreInv, StoreIsSound, LimitsHold
  <1> QED
    BY <1>1, StoreStarts, StoreStep, PTL DEF StoreSpec
==============================================================================
