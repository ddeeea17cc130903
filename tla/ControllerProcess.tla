---------------------------- MODULE ControllerProcess ----------------------------
(***************************************************************************)
(* The single controller process: outbox rows, the in-process event bus,   *)
(* its durable consumers, the dead letters and their replay.  The relay    *)
(* marks a row sent once the bus has queued it in memory; consumers        *)
(* subscribe one after the other while the relay is already publishing.    *)
(***************************************************************************)
EXTENDS Naturals, FiniteSets, Sequences

CONSTANTS
    Event,          \* events accepted by the gateway
    Copy,           \* events staged by a replay
    Consumer,       \* durable consumers
    Operator,       \* concurrent replay requests
    MaxStarts       \* bound: starts of the process

ASSUME ProcessAssumption == Event \cap Copy = {} /\ MaxStarts \in Nat \ {0}

VARIABLES
    outbox,     \* event_outbox: "none", "staged" or "sent"
    process,    \* "down", "serving" or "stopping"
    starts,
    log,        \* InMemoryEventBus._events
    subs,       \* consumers that have subscribed
    queue,      \* queued events of a consumer
    flight,     \* delivered and not settled
    delayed,    \* waiting for their nak delay
    ledger,     \* event_processing: "none", "processed" or "dead"
    letters,    \* open dead letters by event and consumer: "none", "open", "replayed"
    replay,     \* replay requests: the dead letter they read
    published   \* history: events published by the process now running

busVars == <<log, subs, queue, flight, delayed>>
processVars == <<outbox, process, starts, busVars, ledger, letters, replay, published>>

AnyEvent == Event \cup Copy
Empty(nothing) == [c \in Consumer |-> nothing]

ProcessInit ==
    /\ outbox = [e \in AnyEvent |-> "none"]
    /\ process = "down" /\ starts = 0
    /\ log = <<>> /\ subs = {} /\ queue = Empty(<<>>) /\ flight = Empty({}) /\ delayed = Empty({})
    /\ ledger = [x \in AnyEvent \X Consumer |-> "none"]
    /\ letters = [x \in AnyEvent \X Consumer |-> "none"]
    /\ replay = [o \in Operator |-> <<>>]
    /\ published = {}

-----------------------------------------------------------------------------

\* ControllerRuntime.serve connects the bus and starts every service.
serve ==
    /\ process = "down" /\ starts < MaxStarts
    /\ process' = "serving" /\ starts' = starts + 1
    /\ UNCHANGED <<outbox, busVars, ledger, letters, replay, published>>

\* accept: event row and outbox row in one transaction.
accept(e) ==
    /\ process = "serving" /\ e \in Event /\ outbox[e] = "none"
    /\ outbox' = [outbox EXCEPT ![e] = "staged"]
    /\ UNCHANGED <<process, starts, busVars, ledger, letters, replay, published>>

\* The relay publishes a staged row and marks it sent (see OutboxRelay).
publish_envelope(e) ==
    /\ process = "serving" /\ outbox[e] = "staged"
    /\ log' = Append(log, e)
    /\ queue' = [c \in Consumer |-> IF c \in subs THEN Append(queue[c], e) ELSE queue[c]]
    /\ outbox' = [outbox EXCEPT ![e] = "sent"]
    /\ published' = published \cup {e}
    /\ UNCHANGED <<process, starts, subs, flight, delayed, ledger, letters, replay>>

\* A bug for subscribe: a new subscription starts empty.
subscribe_empty(c) ==
    /\ process = "serving" /\ c \notin subs
    /\ subs' = subs \cup {c}
    /\ UNCHANGED <<outbox, process, starts, log, queue, flight, delayed, ledger, letters, replay,
                   published>>

\* A new subscription starts with all that was published before it.
subscribe(c) ==
    /\ process = "serving" /\ c \notin subs
    /\ subs' = subs \cup {c}
    /\ queue' = [queue EXCEPT ![c] = log]
    /\ UNCHANGED <<outbox, process, starts, log, flight, delayed, ledger, letters, replay, published>>

fetch(c) ==
    /\ process = "serving" /\ c \in subs /\ queue[c] # <<>>
    /\ queue' = [queue EXCEPT ![c] = Tail(@)]
    /\ flight' = [flight EXCEPT ![c] = @ \cup {Head(queue[c])}]
    /\ UNCHANGED <<outbox, process, starts, log, subs, delayed, ledger, letters, replay, published>>

\* The consumer processes the event, or captures it as a dead letter, and
\* acknowledges it; a processed event is skipped.
ack(c, e) ==
    /\ process = "serving" /\ e \in flight[c]
    /\ flight' = [flight EXCEPT ![c] = @ \ {e}]
    /\ \/ /\ ledger[<<e, c>>] # "none"
          /\ UNCHANGED <<ledger, letters>>
       \/ /\ ledger[<<e, c>>] = "none"
          /\ ledger' = [ledger EXCEPT ![<<e, c>>] = "processed"]
          /\ UNCHANGED letters
       \/ /\ ledger[<<e, c>>] = "none"
          /\ ledger' = [ledger EXCEPT ![<<e, c>>] = "dead"]
          /\ letters' = [letters EXCEPT ![<<e, c>>] = "open"]
    /\ UNCHANGED <<outbox, process, starts, log, subs, queue, delayed, replay, published>>

\* A failed event comes back at once or after a delay.
nak(c, e) ==
    /\ process = "serving" /\ e \in flight[c] /\ ledger[<<e, c>>] = "none"
    /\ flight' = [flight EXCEPT ![c] = @ \ {e}]
    /\ \/ queue' = [queue EXCEPT ![c] = Append(@, e)] /\ UNCHANGED delayed
       \/ delayed' = [delayed EXCEPT ![c] = @ \cup {e}] /\ UNCHANGED queue
    /\ UNCHANGED <<outbox, process, starts, log, subs, ledger, letters, replay, published>>

requeue_after(c, e) ==
    /\ process = "serving" /\ e \in delayed[c]
    /\ delayed' = [delayed EXCEPT ![c] = @ \ {e}]
    /\ queue' = [queue EXCEPT ![c] = Append(@, e)]
    /\ UNCHANGED <<outbox, process, starts, log, subs, flight, ledger, letters, replay, published>>

\* A signal, or a service that stops, ends every task; then the bus closes.
shutdown ==
    /\ process = "serving"
    /\ process' = "stopping"
    /\ UNCHANGED <<outbox, starts, busVars, ledger, letters, replay, published>>

\* The process is gone, after its shutdown or by a crash, and the bus with it.
ProcessEnds ==
    /\ process # "down"
    /\ process' = "down" /\ published' = {}
    /\ log' = <<>> /\ subs' = {} /\ queue' = Empty(<<>>) /\ flight' = Empty({}) /\ delayed' = Empty({})
    /\ replay' = [o \in Operator |-> <<>>]
    /\ UNCHANGED <<outbox, starts, ledger, letters>>

-----------------------------------------------------------------------------
(***************************************************************************)
(* replay_dead_letter of the API gateway.                                  *)
(***************************************************************************)

ReplayReads(o, x) ==
    /\ process = "serving" /\ replay[o] = <<>>
    /\ letters[x] = "open"
    /\ replay' = [replay EXCEPT ![o] = x]
    /\ UNCHANGED <<outbox, process, starts, busVars, ledger, letters, published>>

Fresh == {copy \in Copy : outbox[copy] = "none"}

\* Staging a new event and marking are one transaction, rolled back unless the
\* row is still open.
mark_dead_letter_replayed(o) ==
    LET copy == CHOOSE k \in Fresh : TRUE IN
    /\ process = "serving" /\ replay[o] # <<>> /\ Fresh # {}
    /\ IF letters[replay[o]] = "open"
       THEN /\ letters' = [letters EXCEPT ![replay[o]] = "replayed"]
            /\ outbox' = [outbox EXCEPT ![copy] = "staged"]
       ELSE UNCHANGED <<letters, outbox>>
    /\ replay' = [replay EXCEPT ![o] = <<>>]
    /\ UNCHANGED <<process, starts, busVars, ledger, published>>

ProcessNext ==
    \/ serve \/ shutdown \/ ProcessEnds
    \/ \E e \in AnyEvent : accept(e) \/ publish_envelope(e)
    \/ \E c \in Consumer :
         \/ subscribe(c) \/ fetch(c)
         \/ \E e \in AnyEvent : ack(c, e) \/ nak(c, e) \/ requeue_after(c, e)
    \/ \E o \in Operator :
         \/ \E x \in AnyEvent \X Consumer : ReplayReads(o, x)
         \/ mark_dead_letter_replayed(o)

ProcessSpec == ProcessInit /\ [][ProcessNext]_processVars

-----------------------------------------------------------------------------

\* As long as the process runs, an event it published is not lost to any
\* consumer, those that subscribe later included: the consumer has settled it
\* or will get it (publish_envelope, subscribe, nak and _requeue_after pass
\* it on).
PublishedIsPending ==
    process = "serving" =>
        \A e \in published, c \in subs :
            \/ ledger[<<e, c>>] # "none"
            \/ e \in flight[c] \cup delayed[c]
            \/ \E i \in DOMAIN queue[c] : queue[c][i] = e

\* Every replay event stands for a dead letter of its own: two requests for
\* the same one stage it once (mark_dead_letter_replayed: "only the first
\* request gets True").
OneReplayPerLetter ==
    Cardinality({c \in Copy : outbox[c] # "none"}) =
        Cardinality({x \in AnyEvent \X Consumer : letters[x] = "replayed"})

\* Nothing the process took on is lost while it runs, and nothing is staged
\* twice (the in-process bus and replay_dead_letter).
DeliveryIsAccounted == PublishedIsPending /\ OneReplayPerLetter
==================================================================================
