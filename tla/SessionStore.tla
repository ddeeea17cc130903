------------------------------- MODULE SessionStore -------------------------------
(***************************************************************************)
(* The Redis session store of the API gateway and the limits built on it.  *)
(* One client is shared by all requests; a request that meets a broken     *)
(* connection drops the client and starts the reconnect task; close may    *)
(* come at any time.  A request is a chain of single Redis commands, so    *)
(* requests interleave, fail and see keys expire between two commands.     *)
(***************************************************************************)
EXTENDS Naturals, FiniteSets

CONSTANTS
    Requester,      \* concurrent requests
    RateLimit,      \* limit of a counter
    LockSteps,      \* number of lock_steps_seconds
    MaxClients,     \* bound: connections made
    MaxCount,       \* bound: value of a counter
    MaxLives        \* bound: counters begun

ASSUME StoreAssumption ==
    /\ IsFiniteSet(Requester)
    /\ {RateLimit, LockSteps, MaxClients, MaxCount, MaxLives} \subseteq Nat \ {0}

VARIABLES
    shut,       \* _closed
    client,     \* self.client: 0 or the number of the connection
    made,       \* connections made so far
    task,       \* _reconnect_task: "none", "sleeping" or "pinging"
    closing,    \* progress of close: "no", "cancelled", "done"
    redis,      \* the server: keys with a value and whether they expire
    req,        \* requests: next command, the client they hold, their reading
    passed,     \* history: counters begun, requests the current one let through
    consumed    \* history: requests that got the payload of the verification token

storeVars == <<shut, client, made, task, closing, redis, req, passed, consumed>>

Key == {"count", "strike", "lock", "token"}
Gone == [value |-> 0, expires |-> FALSE]
Idle == [at |-> "idle", client |-> 0, read |-> 0, life |-> 0]

StoreInit ==
    /\ shut = TRUE /\ client = 0 /\ made = 0 /\ task = "none" /\ closing = "no"
    /\ redis = [k \in Key |-> IF k = "token" THEN [value |-> 1, expires |-> TRUE] ELSE Gone]
    /\ req = [r \in Requester |-> Idle]
    /\ passed = [life |-> 0, n |-> 0] /\ consumed = 0

-----------------------------------------------------------------------------
(***************************************************************************)
(* Connection.                                                             *)
(***************************************************************************)

\* A bug for schedule_reconnect: _closed is not tested.
schedule_when_closed(found) ==
    IF found # 0 \/ task # "none" THEN task ELSE "sleeping"

\* schedule_reconnect, given the client it finds.
schedule_reconnect(found) ==
    IF shut' \/ found # 0 \/ task # "none" THEN task ELSE "sleeping"

\* The first ping answers, or Redis is down and the store starts degraded.
start_degraded ==
    /\ shut /\ closing = "no" /\ made = 0
    /\ shut' = FALSE
    /\ \/ client' = made + 1 /\ made' = made + 1 /\ task' = task
       \/ client' = 0 /\ made' = made /\ task' = schedule_reconnect(0)
    /\ UNCHANGED <<closing, redis, req, passed, consumed>>

\* The task wakes up and, unless it has nothing to do, pings a new client.
reconnect ==
    /\ task = "sleeping" /\ made < MaxClients
    /\ task' = IF shut \/ client # 0 THEN "none" ELSE "pinging"
    /\ UNCHANGED <<shut, client, made, closing, redis, req, passed, consumed>>

\* The ping fails, and the task sleeps again; or it answers, and the client
\* is installed unless the store was closed meanwhile.
connect ==
    /\ task = "pinging"
    /\ \/ task' = "sleeping" /\ UNCHANGED <<client, made>>
       \/ /\ made' = made + 1 /\ task' = "none"
          /\ client' = IF shut THEN client ELSE made + 1
    /\ UNCHANGED <<shut, closing, redis, req, passed, consumed>>

\* close marks the store, cancels the task and, once it has ended, drops the
\* client.
close ==
    /\ \/ /\ ~shut /\ closing = "no"
          /\ shut' = TRUE /\ closing' = "cancelled" /\ UNCHANGED <<client, task>>
       \/ /\ closing = "cancelled" /\ task # "none"
          /\ task' = "none" /\ UNCHANGED <<shut, client, closing>>
       \/ /\ closing = "cancelled" /\ task = "none"
          /\ client' = 0 /\ closing' = "done" /\ UNCHANGED <<shut, task>>
    /\ UNCHANGED <<made, redis, req, passed, consumed>>

\* A command of r fails: its client is dropped, unless another one took its
\* place, and closed; then the reconnect task is started.
with_client_fails(r) ==
    /\ \/ /\ req[r].at \notin {"idle", "dropped"}
          /\ client' = IF client = req[r].client THEN 0 ELSE client
          /\ req' = [req EXCEPT ![r] = [Idle EXCEPT !.at = "dropped"]]
          /\ UNCHANGED <<shut, task>>
       \/ /\ req[r].at = "dropped"
          /\ shut' = shut /\ client' = client
          /\ task' = schedule_reconnect(client)
          /\ req' = [req EXCEPT ![r] = Idle]
    /\ UNCHANGED <<made, closing, redis, passed, consumed>>

-----------------------------------------------------------------------------
(***************************************************************************)
(* Requests.                                                               *)
(***************************************************************************)

\* Without a client the caller gets SessionStoreUnavailable and no answer.
client_for(r, first) ==
    /\ client # 0 /\ req[r] = Idle
    /\ req' = [req EXCEPT ![r] = [at |-> first, client |-> client, read |-> 0, life |-> 0]]
    /\ UNCHANGED <<shut, client, made, task, closing, redis, passed, consumed>>

Goes(r, to, value) == req' = [req EXCEPT ![r].at = to, ![r].read = value]
StoreEnds(r) == req' = [req EXCEPT ![r] = Idle]

\* INCR creates a key without expiry; EXPIRE gives it one.
RedisIncr(key) == redis' = [redis EXCEPT ![key].value = @ + 1]
RedisExpire(key) == redis' = [redis EXCEPT ![key].expires = redis[key].value # 0]

\* check_escalating_rate_limit, one command per step.
check_escalating_rate_limit(r) ==
    /\ \/ /\ req[r].at = "ttl" /\ redis' = redis
          /\ IF redis["lock"].value # 0 THEN StoreEnds(r) ELSE Goes(r, "incr", 0)
          /\ UNCHANGED passed
       \/ /\ req[r].at = "incr" /\ redis["count"].value < MaxCount /\ RedisIncr("count")
          /\ passed' = IF redis["count"].value = 0 THEN [life |-> passed.life + 1, n |-> 0] ELSE passed
          /\ passed'.life <= MaxLives
          /\ req' = [req EXCEPT ![r] = [@ EXCEPT
                 !.at = IF redis'["count"].value = 1 THEN "expire" ELSE "compare",
                 !.read = redis'["count"].value, !.life = passed'.life]]
       \/ /\ req[r].at = "expire" /\ RedisExpire("count") /\ Goes(r, "compare", req[r].read)
          /\ UNCHANGED passed
       \/ /\ req[r].at = "compare" /\ redis' = redis
          /\ IF req[r].read <= RateLimit
             THEN StoreEnds(r) /\ passed' = IF req[r].life = passed.life
                                       THEN [passed EXCEPT !.n = @ + 1] ELSE passed
             ELSE Goes(r, "strike", 0) /\ UNCHANGED passed
       \/ /\ req[r].at = "strike" /\ redis["strike"].value < MaxCount /\ RedisIncr("strike")
          /\ Goes(r, "strike_ttl", redis'["strike"].value) /\ UNCHANGED passed
       \/ /\ req[r].at = "strike_ttl"
          /\ IF req[r].read = 1 THEN RedisExpire("strike") ELSE redis' = redis
          /\ Goes(r, "lock", req[r].read) /\ UNCHANGED passed
       \/ /\ req[r].at = "lock" /\ StoreEnds(r) /\ UNCHANGED passed
          /\ redis' = [redis EXCEPT !["lock"] =
                 [value |-> IF req[r].read < LockSteps THEN req[r].read ELSE LockSteps,
                  expires |-> TRUE]]
    /\ UNCHANGED <<shut, client, made, task, closing, consumed>>

\* consume_email_verification_token: GETDEL.
consume_email_verification_token(r) ==
    /\ req[r].at = "getdel"
    /\ consumed' = consumed + redis["token"].value
    /\ redis' = [redis EXCEPT !["token"] = Gone]
    /\ StoreEnds(r)
    /\ UNCHANGED <<shut, client, made, task, closing, passed>>

\* Redis expires a key that has a TTL.
KeyExpires(key) ==
    /\ redis[key].expires
    /\ redis' = [redis EXCEPT ![key] = Gone]
    /\ UNCHANGED <<shut, client, made, task, closing, req, passed, consumed>>

StoreNext ==
    \/ start_degraded \/ reconnect \/ connect \/ close
    \/ \E r \in Requester :
         \/ \E first \in {"ttl", "getdel"} : client_for(r, first)
         \/ check_escalating_rate_limit(r) \/ consume_email_verification_token(r)
         \/ with_client_fails(r)
    \/ \E key \in Key : KeyExpires(key)

StoreSpec == StoreInit /\ [][StoreNext]_storeVars

-----------------------------------------------------------------------------

\* After close has returned there is no client and no task that could make
\* one, whatever pings and failing requests were under way; and before it, a
\* store without a client is being reconnected (close, _connect and
\* schedule_reconnect each test _closed).
StoreLifecycle ==
    /\ closing = "done" => client = 0 /\ task = "none"
    /\ ~shut /\ client = 0 => task # "none" \/ \E r \in Requester : req[r].at = "dropped"

\* Within the life of a counter no more requests pass than its limit, and a
\* verification token is handed out once, however the requests interleave.
LimitsHold == passed.n <= RateLimit /\ consumed <= 1

\* The shared client and the limits built on it, together (RedisSessionStore).
StoreIsSound == StoreLifecycle /\ LimitsHold
===================================================================================
