----------------------------- MODULE OutboxRelay -----------------------------
(***************************************************************************)
(* The transactional outbox and its relays.  A handler or a gateway request *)
(* stages event rows in the transaction of its business writes; relays      *)
(* lease batches of rows, publish them under the event id and mark them     *)
(* sent.                                                                    *)
(*                                                                          *)
(* packages/runtime/relay.py                  OutboxRelay                   *)
(* packages/storage/repositories/outbox.py    outbox rows and leases        *)
(* services/gateway/outbox-relay/app.py       the relay of all sources      *)
(* packages/events/bus.py                     publish_envelope              *)
(*                                                                          *)
(* Every worker process relays its own service's rows and the outbox-relay  *)
(* service relays all rows, so relays compete.  Time is a count of ticks, as *)
(* in EventRuntime: a row keeps what is left of its lease, the stream what  *)
(* is left of a message id's duplicate window.                              *)
(***************************************************************************)
EXTENDS Integers, FiniteSets

CONSTANTS
    Row,              \* outbox ids, in insertion order
    Oversize,         \* rows the broker refuses for good (MaxPayloadError)
    Relay,            \* relay loops
    Scope,            \* Scope[r]: rows whose source relay r serves
    Batch,            \* OUTBOX_RELAY_BATCH
    Lease,            \* DEFAULT_OUTBOX_LEASE_SECONDS
    PublishTimeout,   \* OUTBOX_PUBLISH_TIMEOUT_SECONDS
    DbDelay,          \* longest outbox transaction, conflict retries included
    Window            \* STREAM_DUPLICATE_WINDOW_SECONDS

ASSUME RelayAssumption ==
    /\ Row \subseteq Nat /\ IsFiniteSet(Row)
    /\ Oversize \subseteq Row
    /\ Scope \in [Relay -> SUBSET Row]
    /\ Batch \in Nat \ {0}
    /\ Lease \in Nat /\ PublishTimeout \in Nat /\ DbDelay \in Nat
    /\ Window \in Nat
    /\ DbDelay <= Lease

VARIABLES
    outbox,     \* outbox[e]: "absent", "unsent" or "sent" (sent_at set)
    lease,      \* lease[e]: ticks until leased_until; 0 = none or expired
    stream,     \* stream[e]: messages with e's event id (2 = several)
    window,     \* window[e]: ticks until the stream forgets e's message id
    dead,       \* dead[e]: event_dead_letters rows of e (2 = several)
    pc,         \* pc[r]: where relay r is in run_once
    rows,       \* rows[r]: leased rows it has not come to yet
    done,       \* done[r]: rows it has published and not yet marked
    run         \* run[r]: ticks spent on the current row or on marking

tableVars == <<outbox, lease>>
brokerVars == <<stream, window>>
relayVars == <<pc, rows, done, run>>
vars == <<tableVars, brokerVars, dead, relayVars>>

Saturate(n, top) == IF n < top THEN n + 1 ELSE n

\* Every variable keeps its type, and an idle relay holds no rows.
TypeOK ==
    /\ outbox \in [Row -> {"absent", "unsent", "sent"}]
    /\ lease \in [Row -> 0..Lease]
    /\ stream \in [Row -> 0..2]
    /\ window \in [Row -> 0..Window]
    /\ dead \in [Row -> 0..2]
    /\ pc \in [Relay -> {"idle", "publishing", "marking"}]
    /\ rows \in [Relay -> SUBSET Row]
    /\ done \in [Relay -> SUBSET Row]
    /\ run \in [Relay -> Nat]
    /\ \A r \in Relay : /\ pc[r] = "publishing" <=> rows[r] # {}
                        /\ pc[r] = "idle" => done[r] = {}

Init ==
    /\ outbox = [e \in Row |-> "absent"]
    /\ lease = [e \in Row |-> 0]
    /\ stream = [e \in Row |-> 0]
    /\ window = [e \in Row |-> 0]
    /\ dead = [e \in Row |-> 0]
    /\ pc = [r \in Relay |-> "idle"]
    /\ rows = [r \in Relay |-> {}]
    /\ done = [r \in Relay |-> {}]
    /\ run = [r \in Relay |-> 0]

\* stage_events: the row appears when the transaction that stages it commits,
\* in any order of ids.
Stage(e) ==
    /\ outbox[e] = "absent"
    /\ outbox' = [outbox EXCEPT ![e] = "unsent"]
    /\ UNCHANGED <<lease, brokerVars, dead, relayVars>>

\* A bug for Available: leased rows are offered too.
AvailableLeased(r) == {e \in Scope[r] : outbox[e] = "unsent"}

Available(r) == {e \in Scope[r] : outbox[e] = "unsent" /\ lease[e] = 0}

\* A bug for IsFirstBatch: LIMIT one too large.
IsFirstBatchAndOne(S, A) ==
    /\ Cardinality(S) <= Batch + 1
    /\ S = A \/ Cardinality(S) = Batch + 1
    /\ \A e \in S, f \in A \ S : e < f

\* ORDER BY id LIMIT batch: S is the first rows of A.
IsFirstBatch(S, A) ==
    /\ Cardinality(S) <= Batch
    /\ S = A \/ Cardinality(S) = Batch
    /\ \A e \in S, f \in A \ S : e < f

\* unsent_events: lease the first rows.  leased_until is computed before the
\* statement runs, so up to DbDelay of the lease is gone when it commits.
UnsentEvents(r) ==
    \E S \in SUBSET Available(r), d \in 0..DbDelay :
    /\ pc[r] = "idle"
    /\ S # {}
    /\ IsFirstBatch(S, Available(r))
    /\ lease' = [e \in Row |-> IF e \in S THEN Lease - d ELSE lease[e]]
    /\ pc' = [pc EXCEPT ![r] = "publishing"]
    /\ rows' = [rows EXCEPT ![r] = S]
    /\ run' = [run EXCEPT ![r] = 0]
    /\ UNCHANGED <<outbox, brokerVars, dead, done>>

\* The stream drops a message whose id it has seen within the window.
Deliver(e) ==
    IF window[e] > 0 THEN UNCHANGED brokerVars
    ELSE /\ stream' = [stream EXCEPT ![e] = Saturate(@, 2)]
         /\ window' = [window EXCEPT ![e] = Window]

\* A bug for Continue: no finally block.
ContinueUnmarked(r, left, P) ==
    /\ rows' = [rows EXCEPT ![r] = left]
    /\ done' = [done EXCEPT ![r] = P]
    /\ run' = [run EXCEPT ![r] = 0]
    /\ pc' = [pc EXCEPT ![r] = IF left # {} THEN "publishing" ELSE "idle"]

\* The loop goes on to another row, or leaves for the finally block with the
\* published rows P.
Continue(r, left, P) ==
    /\ rows' = [rows EXCEPT ![r] = left]
    /\ done' = [done EXCEPT ![r] = P]
    /\ run' = [run EXCEPT ![r] = 0]
    /\ pc' = [pc EXCEPT ![r] = IF left # {} THEN "publishing"
                               ELSE IF P # {} THEN "marking" ELSE "idle"]

\* publish_envelope succeeds.  RETURNING has no order: any leased row is next.
Publish(r, e) ==
    /\ pc[r] = "publishing"
    /\ e \in rows[r] \ Oversize
    /\ Deliver(e)
    /\ Continue(r, rows[r] \ {e}, done[r] \cup {e})
    /\ UNCHANGED <<tableVars, dead>>

\* A bug for PublishFails: the failed row is marked with the published ones.
PublishFailsMarked(r, e) ==
    /\ pc[r] = "publishing"
    /\ e \in rows[r]
    /\ UNCHANGED brokerVars \/ (e \notin Oversize /\ Deliver(e))
    /\ Continue(r, {}, done[r] \cup {e})
    /\ UNCHANGED <<tableVars, dead>>

\* publish_envelope raises or times out, with or without the stream having
\* stored the message: the rest of the batch is left leased.
PublishFails(r, e) ==
    /\ pc[r] = "publishing"
    /\ e \in rows[r]
    /\ UNCHANGED brokerVars \/ (e \notin Oversize /\ Deliver(e))
    /\ Continue(r, {}, done[r])
    /\ UNCHANGED <<tableVars, dead>>

\* A bug for MarkDeadLettered: the dead letter commits without sent_at.
MarkDeadLetteredOnly(r, e) ==
    /\ pc[r] = "publishing"
    /\ e \in rows[r] \cap Oversize
    /\ dead' = [dead EXCEPT ![e] = Saturate(@, 2)]
    /\ Continue(r, rows[r] \ {e}, done[r])
    /\ UNCHANGED <<tableVars, brokerVars>>

\* mark_events_dead_lettered: dead letter and sent_at in one transaction.
MarkDeadLettered(r, e) ==
    /\ pc[r] = "publishing"
    /\ e \in rows[r] \cap Oversize
    /\ dead' = [dead EXCEPT ![e] = Saturate(@, 2)]
    /\ outbox' = [outbox EXCEPT ![e] = "sent"]
    /\ lease' = [lease EXCEPT ![e] = 0]
    /\ Continue(r, rows[r] \ {e}, done[r])
    /\ UNCHANGED brokerVars

\* A bug for MarkSent: the lease is given back, sent_at is not set.
MarkSentReleases(r) ==
    /\ pc[r] = "marking"
    /\ lease' = [e \in Row |-> IF e \in done[r] THEN 0 ELSE lease[e]]
    /\ Continue(r, {}, {})
    /\ UNCHANGED <<outbox, brokerVars, dead>>

\* mark_events_sent: by event id only, whoever holds the lease by now.
MarkSent(r) ==
    /\ pc[r] = "marking"
    /\ outbox' = [e \in Row |-> IF e \in done[r] THEN "sent" ELSE outbox[e]]
    /\ lease' = [e \in Row |-> IF e \in done[r] THEN 0 ELSE lease[e]]
    /\ Continue(r, {}, {})
    /\ UNCHANGED <<brokerVars, dead>>

\* The relay dies, or mark_events_sent raises: nothing is marked.
Crash(r) ==
    /\ pc[r] # "idle"
    /\ Continue(r, {}, {})
    /\ UNCHANGED <<tableVars, brokerVars, dead>>

\* Publishing one row takes at most the publish timeout and, if the broker
\* refuses it, one transaction; marking takes one transaction.
Limit(r) == IF pc[r] = "marking" THEN DbDelay ELSE PublishTimeout + DbDelay

Elapse(n) == IF n = 0 THEN 0 ELSE n - 1

Tick ==
    /\ \A r \in Relay : pc[r] # "idle" => run[r] < Limit(r)
    /\ lease' = [e \in Row |-> Elapse(lease[e])]
    /\ window' = [e \in Row |-> Elapse(window[e])]
    /\ run' = [r \in Relay |-> IF pc[r] # "idle" THEN run[r] + 1 ELSE run[r]]
    /\ UNCHANGED <<outbox, stream, dead, pc, rows, done>>

RunOnce(r) ==
    \/ UnsentEvents(r)
    \/ \E e \in Row : Publish(r, e) \/ PublishFails(r, e) \/ MarkDeadLettered(r, e)
    \/ MarkSent(r)

Next ==
    \/ \E e \in Row : Stage(e)
    \/ \E r \in Relay : RunOnce(r) \/ Crash(r)
    \/ Tick

Spec == Init /\ [][Next]_vars

-----------------------------------------------------------------------------

\* A row leaves the outbox only when its event is somewhere else: run_once
\* marks what was published, the rest stays for a later batch.  Holds for any
\* timers, with any number of relays on the same rows, although the stream
\* may drop a publish as a duplicate.
SentIsDelivered ==
    \A e \in Row :
        /\ outbox[e] = "sent" => IF e \in Oversize THEN dead[e] > 0
                                                   ELSE stream[e] > 0
        /\ \A r \in Relay : e \in done[r] => e \notin Oversize /\ stream[e] > 0
        /\ window[e] > 0 => stream[e] > 0

\* Longest time on one row, and what a batch may have used when n of its rows
\* are left.
Step == PublishTimeout + DbDelay
Spent(n) == (Batch - n) * Step

\* The lease covers the longest run_once: the claim, a full batch of publish
\* timeouts and the final update.
SafeLease == DbDelay + Spent(0) + DbDelay < Lease

Held(r) == rows[r] \cup done[r]

\* The lease is a lock while SafeLease holds: no row is in the hands of two
\* relays, and a row in hand is unsent and leased.
LeaseIsExclusive ==
    /\ \A r, s \in Relay : r # s => Held(r) \cap Held(s) = {}
    /\ \A r \in Relay : \A e \in Held(r) : outbox[e] = "unsent" /\ lease[e] > 0

Covered(r) ==
    pc[r] # "idle" =>
        /\ Cardinality(rows[r]) <= Batch
        /\ run[r] <= Limit(r)
        /\ \A e \in Held(r) :
               Lease <= lease[e] + DbDelay + Spent(Cardinality(rows[r])) + run[r]

\* What is left of the lease of a row in hand covers what its relay still has
\* to do, however long the rows before it in the batch took.
LeaseCoversWork == \A r \in Relay : Covered(r)

\* A refused row leaves one dead letter, so an operator replays it once.
OneDeadLetter ==
    \A e \in Row : dead[e] <= 1 /\ (dead[e] = 1 => outbox[e] = "sent")

\* The infrastructure fails.
Trouble(r) == Crash(r) \/ \E e \in Row : PublishFails(r, e)

\* Relay loops keep running, time passes, and failures end at some time.
Fairness ==
    /\ \A r \in Relay : WF_vars(RunOnce(r))
    /\ WF_vars(Tick)
    /\ <>[][\A r \in Relay : ~ Trouble(r)]_vars

FairSpec == Spec /\ Fairness

\* Every staged row is eventually sent: an expired lease makes the rows of a
\* dead relay, or the rest of an aborted batch, available again.
EventuallySent ==
    \A e \in Row : (outbox[e] = "unsent" ~> outbox[e] = "sent")
=============================================================================
