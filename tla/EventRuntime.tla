----------------------------- MODULE EventRuntime -----------------------------
(***************************************************************************)
(* The event worker: instances of one consumer take messages off a durable *)
(* stream, claim the event in the processing ledger, run the handler in a  *)
(* transaction, and retry, dead-letter or acknowledge.                      *)
(*                                                                          *)
(* packages/runtime/worker.py        EventProcessor, WorkerRuntime          *)
(* packages/runtime/ledger.py        Ledger                                 *)
(* packages/storage/repositories/event.py        event_processing rows      *)
(* packages/storage/repositories/dead_letter.py  event_dead_letters rows    *)
(* packages/events/bus.py            DeadLetterSink, JetStream consumer     *)
(*                                                                          *)
(* Time is a count of ticks.  No variable holds an absolute time: a row     *)
(* keeps the age of its claim, a message the ticks until the stream may     *)
(* deliver it, a worker the ticks spent in its current phase.  Ages and     *)
(* counters stop growing at the value beyond which the code cannot tell two *)
(* of them apart, so the state space is finite without a bound on time or   *)
(* on the number of deliveries.                                             *)
(***************************************************************************)
EXTENDS Naturals

CONSTANTS
    Event,              \* event ids
    Copy,               \* stream messages that carry the same event id
    Undecodable,        \* messages whose bytes are not an event envelope
    NoMessage,          \* job of an idle worker
    Worker,             \* consumer tasks: one subject of one service instance
    HandlerTimeout,     \* WORKER_HANDLER_TIMEOUT_SECONDS
    AckWait,            \* NATS_ACK_WAIT_SECONDS
    Stale,              \* EVENT_PROCESSING_STALE_SECONDS
    DeadLetterTimeout,  \* WORKER_DEAD_LETTER_TIMEOUT_SECONDS
    RetryDelay,         \* WORKER_RETRY_DELAY_SECONDS
    DbDelay,            \* longest ledger transaction outside the handler
    MaxAttempts,        \* WORKER_MAX_ATTEMPTS
    AmbiguousCommit     \* can COMMIT succeed while its reply is lost?

Message == [event : Event, copy : Copy]

ASSUME ConstantsAssumption ==
    /\ Undecodable \subseteq Message
    /\ NoMessage \notin Message
    /\ {HandlerTimeout, AckWait, Stale, DeadLetterTimeout, RetryDelay, DbDelay}
          \subseteq Nat
    /\ DbDelay <= Stale
    /\ MaxAttempts \in Nat \ {0}
    /\ AmbiguousCommit \in BOOLEAN

VARIABLES
    published,  \* messages in the stream
    acked,      \* messages the stream considers acknowledged
    wait,       \* wait[m]: ticks until the stream may deliver m (again)
    status,     \* status[e]: event_processing.status of the row (e, consumer)
    attempts,   \* attempts[e]: event_processing.attempts, up to MaxAttempts
    age,        \* age[e]: ticks since a "processing" row's updated_at
    effects,    \* effects[e]: handler transactions committed for e (2 = several)
    deadRows,   \* deadRows[e]: event_dead_letters rows of e (2 = several)
    rawRows,    \* undecodable messages with an event_dead_letters row
    pc,         \* pc[w]: where the worker is in EventProcessor.process
    job,        \* job[w]: the message it holds
    tries,      \* tries[w]: attempts value returned by its claim
    run         \* run[w]: ticks spent in its current phase

streamVars == <<published, acked, wait>>
ledgerVars == <<status, attempts, age, effects>>
dlqVars == <<deadRows, rawRows>>
workerVars == <<pc, job, tries, run>>
vars == <<streamVars, ledgerVars, dlqVars, workerVars>>

Terminal == {"processed", "dead_lettered"}
Status == {"none", "processing", "retrying"} \cup Terminal

\* The phases of process and fail in which the worker acts on its claim.
Claiming == {"handling", "capturing", "emitting", "reverting", "closing"}
Phase == {"idle", "fetched", "acking", "naking"} \cup Claiming

Holds(w, e) == pc[w] \in Claiming /\ job[w].event = e

Saturate(n, top) == IF n < top THEN n + 1 ELSE n

\* Every variable keeps its type.
TypeOK ==
    /\ published \subseteq Message
    /\ acked \subseteq published
    /\ wait \in [Message -> Nat]
    /\ status \in [Event -> Status]
    /\ attempts \in [Event -> 0..MaxAttempts]
    /\ age \in [Event -> 0..(Stale + 1)]
    /\ effects \in [Event -> 0..2]
    /\ deadRows \in [Event -> 0..2]
    /\ rawRows \subseteq Undecodable
    /\ pc \in [Worker -> Phase]
    /\ job \in [Worker -> published \cup {NoMessage}]
    /\ \A w \in Worker : pc[w] = "idle" <=> job[w] = NoMessage
    /\ tries \in [Worker -> 0..MaxAttempts]
    /\ run \in [Worker -> Nat]

-----------------------------------------------------------------------------

\* validate_event_timing_contract: WorkerRuntime.run refuses to start unless
\* the three timers are in this order.
TimingContract == HandlerTimeout < AckWait /\ AckWait < Stale

Init ==
    /\ published = {}
    /\ acked = {}
    /\ wait = [m \in Message |-> 0]
    /\ status = [e \in Event |-> "none"]
    /\ attempts = [e \in Event |-> 0]
    /\ age = [e \in Event |-> 0]
    /\ effects = [e \in Event |-> 0]
    /\ deadRows = [e \in Event |-> 0]
    /\ rawRows = {}
    /\ pc = [w \in Worker |-> "idle"]
    /\ job = [w \in Worker |-> NoMessage]
    /\ tries = [w \in Worker |-> 0]
    /\ run = [w \in Worker |-> 0]

GoTo(w, phase) ==
    /\ pc' = [pc EXCEPT ![w] = phase]
    /\ run' = [run EXCEPT ![w] = 0]
    /\ UNCHANGED <<job, tries>>

\* A bug for Release: the task forgets to drop its message.
ReleaseKeepsJob(w) ==
    /\ pc' = [pc EXCEPT ![w] = "idle"]
    /\ tries' = [tries EXCEPT ![w] = 0]
    /\ run' = [run EXCEPT ![w] = 0]
    /\ UNCHANGED job

Release(w) ==
    /\ pc' = [pc EXCEPT ![w] = "idle"]
    /\ job' = [job EXCEPT ![w] = NoMessage]
    /\ tries' = [tries EXCEPT ![w] = 0]
    /\ run' = [run EXCEPT ![w] = 0]

SetRow(e, s) ==
    /\ status' = [status EXCEPT ![e] = s]
    /\ age' = [age EXCEPT ![e] = 0]

\* A relay publishes the event; a second copy appears when a relay publishes
\* again outside the stream's duplicate window.
Publish(m) ==
    /\ m \notin published
    /\ published' = published \cup {m}
    /\ UNCHANGED <<acked, wait, ledgerVars, dlqVars, workerVars>>

\* consume_subject: the stream hands out a message that is neither
\* acknowledged nor waiting, and will offer it again after AckWait.
Fetch(w, m) ==
    /\ TimingContract
    /\ pc[w] = "idle"
    /\ m \in published \ acked
    /\ wait[m] = 0
    /\ wait' = [wait EXCEPT ![m] = AckWait]
    /\ pc' = [pc EXCEPT ![w] = "fetched"]
    /\ job' = [job EXCEPT ![w] = m]
    /\ UNCHANGED <<published, acked, ledgerVars, dlqVars, tries, run>>

\* process, a message that does not decode: record_raw_dead_letter commits
\* the bytes, then the notice is emitted.  If either fails the message is
\* scheduled again, with or without the row; otherwise it is acknowledged.
CaptureRaw(w) ==
    /\ pc[w] = "fetched"
    /\ job[w] \in Undecodable
    /\ \/ rawRows' = rawRows \cup {job[w]} /\ GoTo(w, "acking")
       \/ rawRows' \in {rawRows, rawRows \cup {job[w]}} /\ GoTo(w, "naking")
    /\ UNCHANGED <<streamVars, ledgerVars, deadRows>>

Decoded(w) == pc[w] = "fetched" /\ job[w] \notin Undecodable

\* Bugs for Claimable: a stale window one tick short, no stale window, and a
\* test of "processed" where the code tests both terminal statuses.
ClaimableAtWindow(e) ==
    /\ status[e] \notin Terminal
    /\ status[e] # "processing" \/ age[e] >= Stale

ClaimableAtOnce(e) == status[e] \notin Terminal

ClaimableIfDead(e) ==
    /\ status[e] # "processed"
    /\ status[e] # "processing" \/ age[e] > Stale

\* claim_event_processing's ON CONFLICT ... WHERE: a claim is granted unless
\* the row is terminal or a claim younger than the stale window is on it.
Claimable(e) ==
    /\ status[e] \notin Terminal
    /\ status[e] # "processing" \/ age[e] > Stale

\* A bug for Claim: attempts counted in the handler's transaction, so that a
\* rollback takes the count back.
ClaimUncounted(w) ==
    LET e == job[w].event IN
    /\ Decoded(w)
    /\ Claimable(e)
    /\ SetRow(e, "processing")
    /\ GoTo(w, "handling")
    /\ UNCHANGED <<streamVars, attempts, effects, dlqVars>>

\* process, transaction 1: the claim commits by itself, so attempts survive
\* the handler's rollback.  updated_at is the time the transaction began, up
\* to DbDelay before its commit.
Claim(w) ==
    LET e == job[w].event IN
    /\ Decoded(w)
    /\ Claimable(e)
    /\ status' = [status EXCEPT ![e] = "processing"]
    /\ \E d \in 0..DbDelay : age' = [age EXCEPT ![e] = d]
    /\ attempts' = [attempts EXCEPT ![e] = Saturate(@, MaxAttempts)]
    /\ tries' = [tries EXCEPT ![w] = attempts'[e]]
    /\ pc' = [pc EXCEPT ![w] = "handling"]
    /\ run' = [run EXCEPT ![w] = 0]
    /\ UNCHANGED <<streamVars, effects, dlqVars, job>>

\* process: the row is terminal, a duplicate, acknowledge it.
SkipTerminal(w) ==
    /\ Decoded(w)
    /\ status[job[w].event] \in Terminal
    /\ GoTo(w, "acking")
    /\ UNCHANGED <<streamVars, ledgerVars, dlqVars>>

\* A bug for Blocked: a blocked duplicate is acknowledged like a processed one.
BlockedAcks(w) ==
    /\ Decoded(w)
    /\ status[job[w].event] = "processing"
    /\ age[job[w].event] <= Stale
    /\ GoTo(w, "acking")
    /\ UNCHANGED <<streamVars, ledgerVars, dlqVars>>

\* process: another worker's fresh claim (CLAIM_BLOCKED), look again later.
Blocked(w) ==
    /\ Decoded(w)
    /\ status[job[w].event] = "processing"
    /\ age[job[w].event] <= Stale
    /\ GoTo(w, "naking")
    /\ UNCHANGED <<streamVars, ledgerVars, dlqVars>>

\* A bug for HandlerCommits: the ledger row left to a later transaction.
HandlerCommitsAlone(w) ==
    /\ pc[w] = "handling"
    /\ effects' = [effects EXCEPT ![job[w].event] = Saturate(@, 2)]
    /\ UNCHANGED <<streamVars, status, age, attempts, dlqVars>>

\* process, transaction 2: business writes, outbox rows and the ledger row
\* commit together.  finish_event_processing's UPDATE names the row only.
HandlerCommits(w) ==
    LET e == job[w].event IN
    /\ pc[w] = "handling"
    /\ SetRow(e, "processed")
    /\ effects' = [effects EXCEPT ![e] = Saturate(@, 2)]
    /\ UNCHANGED <<streamVars, attempts, dlqVars>>

Commit(w) == HandlerCommits(w) /\ GoTo(w, "acking")

\* A bug for AfterFailure: one attempt too few.
AfterFailureEarly(w) ==
    IF tries[w] >= MaxAttempts - 1 THEN "capturing" ELSE "reverting"

\* fail: the last attempt goes to the dead-letter queue.
AfterFailure(w) == IF tries[w] >= MaxAttempts THEN "capturing" ELSE "reverting"

\* The COMMIT took effect but raised (connection lost): fail runs.
CommitUnknown(w) ==
    AmbiguousCommit /\ HandlerCommits(w) /\ GoTo(w, AfterFailure(w))

\* The handler raised or timed out, or the transaction did: all rolled back.
HandlerFails(w) ==
    /\ pc[w] = "handling"
    /\ GoTo(w, AfterFailure(w))
    /\ UNCHANGED <<streamVars, ledgerVars, dlqVars>>

\* DeadLetterSink.capture: the row commits first ...
RecordDeadLetter(w) ==
    /\ pc[w] = "capturing"
    /\ deadRows' = [deadRows EXCEPT ![job[w].event] = Saturate(@, 2)]
    /\ pc' = [pc EXCEPT ![w] = "emitting"]
    /\ UNCHANGED <<streamVars, ledgerVars, rawRows, job, tries, run>>

\* ... then the notice is emitted, within the same timeout.
EmitDeadLetter(w) ==
    /\ pc[w] = "emitting"
    /\ GoTo(w, "closing")
    /\ UNCHANGED <<streamVars, ledgerVars, dlqVars>>

\* capture raised or timed out, before or after its row: fail retries.
CaptureFails(w) ==
    /\ pc[w] \in {"capturing", "emitting"}
    /\ GoTo(w, "reverting")
    /\ UNCHANGED <<streamVars, ledgerVars, dlqVars>>

\* Ledger.dead_letter and Ledger.retry: fail_event_processing's UPDATE names
\* the row only, whatever its status and whoever claimed it.
CloseDeadLetter(w) ==
    /\ pc[w] = "closing"
    /\ SetRow(job[w].event, "dead_lettered")
    /\ GoTo(w, "acking")
    /\ UNCHANGED <<streamVars, attempts, effects, dlqVars>>

Retry(w) ==
    /\ pc[w] = "reverting"
    /\ SetRow(job[w].event, "retrying")
    /\ GoTo(w, "naking")
    /\ UNCHANGED <<streamVars, attempts, effects, dlqVars>>

\* A ledger call raises out of process: consume_subject schedules the message
\* again and the claim, if any, stays on the row.
LedgerError(w) ==
    /\ Decoded(w) \/ pc[w] \in {"reverting", "closing"}
    /\ GoTo(w, "naking")
    /\ UNCHANGED <<streamVars, ledgerVars, dlqVars>>

Ack(w) ==
    /\ pc[w] = "acking"
    /\ acked' = acked \cup {job[w]}
    /\ Release(w)
    /\ UNCHANGED <<published, wait, ledgerVars, dlqVars>>

\* message.ack raises: consume_subject answers with a nak.
AckFails(w) ==
    /\ pc[w] = "acking"
    /\ GoTo(w, "naking")
    /\ UNCHANGED <<streamVars, ledgerVars, dlqVars>>

\* message.nak(delay): deliver again after RetryDelay.
Nak(w) ==
    /\ pc[w] = "naking"
    /\ wait' = [wait EXCEPT ![job[w]] = RetryDelay]
    /\ Release(w)
    /\ UNCHANGED <<published, acked, ledgerVars, dlqVars>>

\* The process dies or its task is cancelled and another takes its place.
\* An open transaction is rolled back; a committed claim stays on the row.
Crash(w) ==
    /\ pc[w] # "idle"
    /\ Release(w)
    /\ UNCHANGED <<streamVars, ledgerVars, dlqVars>>

\* Ticks a claiming worker can spend in a phase: asyncio.wait_for bounds the
\* handler and the capture, the database timeouts bound each transaction.
\* A fetched message may wait for the semaphore as long as it has to.
Limit(phase) ==
    IF phase = "handling" THEN HandlerTimeout + DbDelay
    ELSE IF phase \in {"capturing", "emitting"} THEN DeadLetterTimeout + DbDelay
    ELSE DbDelay

Tick ==
    /\ \A w \in Worker : pc[w] \in Claiming => run[w] < Limit(pc[w])
    /\ wait' = [m \in Message |-> IF wait[m] = 0 THEN 0 ELSE wait[m] - 1]
    /\ age' = [e \in Event |-> IF status[e] = "processing"
                               THEN Saturate(age[e], Stale + 1) ELSE age[e]]
    /\ run' = [w \in Worker |-> IF pc[w] \in Claiming
                                THEN run[w] + 1 ELSE run[w]]
    /\ UNCHANGED <<published, acked, status, attempts, effects, dlqVars,
                   pc, job, tries>>

\* What a worker does with the message it holds, failures included.
Work(w) ==
    \/ CaptureRaw(w)
    \/ Claim(w)
    \/ SkipTerminal(w)
    \/ Blocked(w)
    \/ Commit(w)
    \/ CommitUnknown(w)
    \/ HandlerFails(w)
    \/ RecordDeadLetter(w)
    \/ EmitDeadLetter(w)
    \/ CaptureFails(w)
    \/ CloseDeadLetter(w)
    \/ Retry(w)
    \/ LedgerError(w)
    \/ Ack(w)
    \/ AckFails(w)
    \/ Nak(w)

Next ==
    \/ \E m \in Message : Publish(m)
    \/ \E w \in Worker, m \in Message : Fetch(w, m)
    \/ \E w \in Worker : Work(w) \/ Crash(w)
    \/ Tick

Spec == Init /\ [][Next]_vars

-----------------------------------------------------------------------------

\* The timing a deployment needs so that no claim outlives its window: the
\* claim, the handler, the capture and the last ledger write all fit.
SafeTiming ==
    DbDelay + Limit("handling") + Limit("capturing") + DbDelay <= Stale

\* The age a claim may have reached when its worker enters a phase.
Budget(phase) ==
    IF phase = "handling" THEN DbDelay
    ELSE IF phase \in {"capturing", "emitting"} THEN DbDelay + Limit("handling")
    ELSE DbDelay + Limit("handling") + Limit("capturing")

\* A worker that acts on its claim still has it: the row is "processing", was
\* written by that worker's claim and is within the stale window, at every
\* step of process and fail.  This is what makes the UPDATEs of ledger.finish,
\* ledger.retry and ledger.dead_letter safe although they name only the row.
ClaimIsFresh ==
    \A w \in Worker : pc[w] \in Claiming =>
        /\ status[job[w].event] = "processing"
        /\ job[w] \notin Undecodable
        /\ run[w] <= Limit(pc[w])
        /\ age[job[w].event] <= Budget(pc[w]) + run[w]

\* validate_event_timing_contract's promise: two workers never process the
\* same event at the same time, redeliveries and duplicates included.
ExclusiveClaim ==
    \A v, w \in Worker : v # w =>
        ~ \E e \in Event : Holds(v, e) /\ Holds(w, e)

\* The ledger tells the truth about the handler's work: an event's business
\* writes are committed exactly once if its row says "processed", and not at
\* all otherwise, whatever crashed, timed out or was delivered again.
LedgerMatchesEffects ==
    \A e \in Event : effects[e] = IF status[e] = "processed" THEN 1 ELSE 0

\* process's aim, "the PROCESSED ledger is kept so that the work is not done
\* twice": no event has its business writes committed more than once.
AtMostOneEffect == \A e \in Event : effects[e] <= 1

\* Acknowledging a message never loses its event: what left the stream, or is
\* about to, was processed or sits in event_dead_letters (bytes that do not
\* decode too).
AckedIsAccountedFor ==
    \A m \in acked \cup {job[w] : w \in {v \in Worker : pc[v] = "acking"}} :
        IF m \in Undecodable THEN m \in rawRows
                             ELSE status[m.event] \in Terminal

\* fail's order (dead-letter row first, ledger second): a row closed as
\* "dead_lettered" has used up its attempts and left a dead letter behind,
\* and so has every row about to be closed.
DeadLetterIsRecorded ==
    /\ \A e \in Event : status[e] = "dead_lettered" =>
           deadRows[e] > 0 /\ attempts[e] = MaxAttempts
    /\ \A w \in Worker : pc[w] \in {"emitting", "closing"} =>
           deadRows[job[w].event] > 0
    /\ \A w \in Worker : pc[w] \in {"capturing", "emitting", "closing"} =>
           tries[w] = MaxAttempts
    /\ \A w \in Worker : pc[w] \in Claiming =>
           tries[w] <= attempts[job[w].event]

\* What the runtime promises about each event, without streams, claims or
\* time: see ExactlyOnce.
Outcome(e) ==
    IF status[e] = "processed" THEN "done"
    ELSE IF status[e] = "dead_lettered" THEN "dead"
    ELSE IF \E m \in published \ Undecodable : m.event = e THEN "open"
    ELSE "new"

Promise == INSTANCE ExactlyOnce
               WITH outcome <- [e \in Event |-> Outcome(e)]

\* The worker runtime implements that promise: an event is closed once, as
\* performed or as given up, after it was offered, and stays closed.
ImplementsExactlyOnce == Promise!Spec

-----------------------------------------------------------------------------

\* A step in which the infrastructure, not the handler, fails.
Trouble(w) ==
    \/ pc[w] = "fetched" /\ job[w] \in Undecodable /\ pc'[w] = "naking"
    \/ LedgerError(w)
    \/ CaptureFails(w)
    \/ AckFails(w)
    \/ Crash(w)

\* Tasks keep running, time passes, the stream offers every message that is
\* due, and from some time on the infrastructure works.  Handlers may go on
\* failing for ever.
Fairness ==
    /\ \A w \in Worker : WF_vars(Work(w))
    /\ WF_vars(Tick)
    /\ \A m \in Message : SF_vars(\E w \in Worker : Fetch(w, m))
    /\ <>[][\A w \in Worker : ~ Trouble(w)]_vars

FairSpec == Spec /\ Fairness

\* No message is redelivered for ever: attempts accumulate across crashes and
\* rollbacks, so each message is finally acknowledged, performed or in the
\* dead-letter queue.
EventuallyAcked == \A m \in Message : m \in published ~> m \in acked
=============================================================================
