----------------------------- MODULE PullProcess -----------------------------
(***************************************************************************)
(* A pull consumer's Process loop: fetch a batch, process it one by one, on *)
(* goroutines of its own or through the worker pool, and Nak what is left   *)
(* when that fails (consumer_pull.go), for the legacy fetch and the one of  *)
(* consumer_pull_v2.go, which share everything after the fetch.             *)
(*                                                                          *)
(* A message settles once per delivery: nats.go answers a second Ack or Nak *)
(* of the same Msg with ErrMsgAlreadyAckd. AckWait is taken to exceed the   *)
(* time a delivery is in hand; PushDelivery has the other case.             *)
(* The pool is shared with the consumer's other subscriptions, whose tasks  *)
(* are a number: they fill the pool, and adaptive pressure and the circuit  *)
(* breaker react to how full it is.                                         *)
(***************************************************************************)
EXTENDS Naturals, Sequences, FiniteSets, FiniteSetsExt, Functions

CONSTANTS
    Msgs,
    Modes,      \* subset of {"sequential", "concurrent", "pool"}
    Pressures,  \* backpressure modes of the pool: "block", "nak", "term"
    Tunings,    \* subset of {"fixed", "adaptive", "circuit"}: AdaptivePressure, and CircuitConfig with it
    BatchSize,
    MinFetchBatch, MaxFetchBatch, OpenOnLevel,
    Workers,    \* number of goroutines: concurrency, or the pool's workers
    Capacity,   \* WorkerBufferSize
    MaxFaults,  \* bound: Acks, Naks and Terms that fail
    MaxOthers   \* bound: tasks of other subscriptions

ASSUME PullAssumption ==
    /\ Modes \subseteq {"sequential", "concurrent", "pool"}
    /\ Pressures \subseteq {"block", "nak", "term"}
    /\ Tunings \subseteq {"fixed", "adaptive", "circuit"}
    /\ {BatchSize, MinFetchBatch, MaxFetchBatch, OpenOnLevel, Workers, Capacity} \subseteq Nat \ {0}
    /\ MinFetchBatch <= MaxFetchBatch /\ {MaxFaults, MaxOthers} \subseteq Nat

VARIABLES
    mode, pressure, tuning,
    server,   \* of each message: "ready", "sent", "acked", "termed"
    ackd,     \* messages whose current delivery has been settled
    pc,       \* of Process
    limit,    \* fetchBatch, once it is decided
    batch,    \* the messages fetched
    next,     \* the index in batch that the current loop is at
    err,      \* firstErr: "none", "handler", "stopped" or "ctx"
    task,     \* of each message: "none", "queued" or "running"
    others,   \* tasks of other subscriptions in the pool's queue
    asked,    \* how many there have been
    ctxDone, poolUp, faults,
    handled,  \* history: messages whose handler returned nil
    lost,     \* history: messages whose settling call failed, or dropped by Fetch
    stolen    \* history: messages Nak'd by nakRemaining with their task pending

config == <<mode, pressure, tuning>>
pool   == <<poolUp, others, asked>>
ghosts == <<handled, lost, stolen>>
vars   == <<config, server, ackd, pc, limit, batch, next, err, task, ctxDone, pool, faults, ghosts>>

InState(s) == {m \in Msgs : task[m] = s}

TypeOK ==
    /\ server \in [Msgs -> {"ready", "sent", "acked", "termed"}]
    /\ task \in [Msgs -> {"none", "queued", "running"}]
    /\ pc \in {"loop", "paused", "fetch", "feed", "one", "put", "wait", "nak", "returned"}
    /\ batch \in Seq(Msgs) /\ Len(batch) <= Max({BatchSize, MaxFetchBatch}) /\ next \in 1..Len(batch) + 1
    /\ err \in {"none", "handler", "stopped", "ctx"}
    /\ Cardinality(InState("running")) <= Workers
    /\ mode = "pool" => Cardinality(InState("queued")) + others <= Capacity
    /\ faults \in 0..MaxFaults

Init ==
    /\ mode \in Modes
    /\ pressure \in IF mode = "pool" THEN Pressures ELSE {"block"}
    /\ tuning \in Tunings /\ limit = 0 /\ others = 0 /\ asked = 0
    /\ server = [m \in Msgs |-> "ready"] /\ ackd = {}
    /\ pc = "loop" /\ batch = <<>> /\ next = 1 /\ err = "none"
    /\ task = [m \in Msgs |-> "none"]
    /\ ctxDone = FALSE /\ poolUp = TRUE /\ faults = 0
    /\ handled = {} /\ lost = {} /\ stolen = {}

-----------------------------------------------------------------------------
\* The first of Ack, Nak or Term on a delivery reaches the server.
Settle(m, outcome) ==
    IF m \in ackd
    THEN UNCHANGED <<server, ackd, lost, faults>>
    ELSE \/ /\ server' = [server EXCEPT ![m] = outcome] /\ ackd' = ackd \cup {m}
            /\ UNCHANGED <<lost, faults>>
         \/ /\ faults < MaxFaults /\ faults' = faults + 1 /\ lost' = lost \cup {m}
            /\ UNCHANGED <<server, ackd>>

\* recordErr keeps the first error.
recordErr(e) == err' = IF err = "none" THEN e ELSE err

\* Ways in which ready messages may arrive.
Batches ==
    {b \in UNION {[1..n -> {m \in Msgs : server[m] = "ready"}] : n \in 1..limit} : IsInjective(b)}

Receive(b) ==
    /\ server' = [m \in Msgs |-> IF m \in Range(b) THEN "sent" ELSE server[m]]
    /\ ackd' = ackd \ Range(b)

-----------------------------------------------------------------------------
(* Process *)

\* initWorkerPool runs with the first message handed to the pool.
PoolCapacity == IF mode = "pool" /\ (batch # <<>> \/ asked > 0) THEN Capacity ELSE 0

\* 0 is PressureIdle and 4 PressureCritical. Process samples neither latency nor lag.
PressureLevel(depth, cap) ==
    Cardinality({t \in {15, 40, 70, 95} : cap > 0 /\ 100 * depth >= t * cap})

\* The batch size of DecideAdaptivePressure.
DecideAdaptivePressure(depth, cap) ==
    LET level == PressureLevel(depth, cap)
        batched == CASE level = 0 -> IF cap > 0 THEN 2 * BatchSize ELSE BatchSize
                     [] level = 1 -> BatchSize
                     [] level = 2 -> BatchSize \div 2
                     [] OTHER     -> MinFetchBatch
    IN Max({MinFetchBatch, Min({MaxFetchBatch, batched})})

ShouldPause(depth, cap) == tuning = "circuit" /\ PressureLevel(depth, cap) >= OpenOnLevel

\* The top of the loop: how full the pool is decides how much to fetch, or to pause.
Observe ==
    /\ pc = "loop" /\ ~ctxDone
    /\ IF ShouldPause(others, PoolCapacity) THEN pc' = "paused" /\ UNCHANGED limit
       ELSE /\ pc' = "fetch"
            /\ limit' = IF tuning = "fixed" THEN BatchSize ELSE DecideAdaptivePressure(others, PoolCapacity)
    /\ UNCHANGED <<config, server, ackd, batch, next, err, task, ctxDone, pool, faults, ghosts>>

\* PauseDuration is over.
Resume ==
    /\ pc = "paused" /\ ~ctxDone /\ pc' = "loop"
    /\ UNCHANGED <<config, server, ackd, limit, batch, next, err, task, ctxDone, pool, faults, ghosts>>

\* The context has ended, or Fetch fails for good.
Return ==
    /\ \/ pc \in {"loop", "paused"} /\ ctxDone
       \/ pc = "fetch"
    /\ pc' = "returned" /\ limit' = 0
    /\ UNCHANGED <<config, server, ackd, batch, next, err, task, ctxDone, pool, faults, ghosts>>

Fetch ==
    /\ pc = "fetch" /\ ~ctxDone /\ pc' = "feed" /\ limit' = 0
    /\ batch' \in Batches /\ next' = 1 /\ err' = "none"
    /\ Receive(batch') /\ lost' = lost \ Range(batch')
    /\ UNCHANGED <<config, task, ctxDone, pool, faults, handled, stolen>>

\* ErrTimeout, ErrNoHeartbeat: the loop starts again, and looks at the pool again.
FetchTimesOut ==
    /\ pc = "fetch" /\ pc' = "loop" /\ limit' = 0
    /\ UNCHANGED <<config, server, ackd, batch, next, err, task, ctxDone, pool, faults, ghosts>>

\* The context ends while the v2 Fetch collects: the message in hand and those
\* behind it are dropped, those before it Nak'd, and Process returns. (The legacy
\* fetch has only the other steps.)
FetchCancelled ==
    /\ pc = "fetch" /\ ctxDone /\ pc' = "nak" /\ limit' = 0 /\ err' = "ctx"
    /\ \E b \in Batches : \E k \in 1..Len(b) :
        /\ batch' = SubSeq(b, 1, k - 1)
        /\ Receive(b)
        /\ lost' = (lost \ Range(b)) \cup {b[i] : i \in k..Len(b)}
    /\ next' = 1
    /\ UNCHANGED <<config, task, ctxDone, pool, faults, handled, stolen>>

Current == batch[next]

More == next <= Len(batch)

\* One by one: the context ended, and the rest of the batch is Nak'd ...
OneCancelled ==
    /\ pc = "feed" /\ mode = "sequential" /\ More /\ ctxDone
    /\ pc' = "nak" /\ err' = "ctx"
    /\ UNCHANGED <<config, limit, server, ackd, batch, next, task, ctxDone, pool, faults, ghosts>>

\* ... or processMessage is called, and the loop goes on when it returns.
OneStart ==
    /\ pc = "feed" /\ mode = "sequential" /\ More /\ ~ctxDone
    /\ pc' = "one" /\ task' = [task EXCEPT ![Current] = "running"]
    /\ UNCHANGED <<config, limit, server, ackd, batch, next, err, ctxDone, pool, faults, ghosts>>

OneDone ==
    /\ pc = "one" /\ task[Current] = "none"
    /\ pc' = "feed" /\ next' = next + 1
    /\ UNCHANGED <<config, limit, server, ackd, batch, err, task, ctxDone, pool, faults, ghosts>>

\* processBatchConcurrent feeds a message, or stops feeding on an error or a
\* cancelled context and Naks the rest.
FeedConcurrent ==
    /\ pc = "feed" /\ mode = "concurrent" /\ More
    /\ IF err # "none" \/ ctxDone
       THEN pc' = "nak" /\ UNCHANGED <<task, next>>
       ELSE task' = [task EXCEPT ![Current] = "queued"] /\ next' = next + 1 /\ UNCHANGED pc
    /\ UNCHANGED <<config, limit, server, ackd, batch, err, ctxDone, pool, faults, ghosts>>

\* processBatchWithPool looks at the context before each message.
PoolCheck ==
    /\ pc = "feed" /\ mode = "pool" /\ More
    /\ IF ctxDone THEN pc' = "wait" /\ recordErr("ctx") ELSE pc' = "put" /\ UNCHANGED err
    /\ UNCHANGED <<config, limit, server, ackd, batch, next, task, ctxDone, pool, faults, ghosts>>

\* The pool accepts the message: at once, or after a wait that
\* BackpressureBlock or a stale depth leads to.
PoolAccepts ==
    /\ pc = "put" /\ pc' = "feed" /\ poolUp
    /\ Cardinality(InState("queued")) + others < Capacity
    /\ task' = [task EXCEPT ![Current] = "queued"] /\ next' = next + 1
    /\ UNCHANGED <<config, limit, server, ackd, batch, err, ctxDone, pool, faults, ghosts>>

\* The pool is full (depth also counts tasks a worker has just taken) and
\* handlePoolBackpressure settles the message.
PoolSheds ==
    /\ pc = "put" /\ pc' = "feed" /\ pressure # "block"
    /\ Cardinality(InState("queued") \cup InState("running")) + others >= Capacity
    /\ Settle(Current, IF pressure = "nak" THEN "ready" ELSE "termed")
    /\ next' = next + 1
    /\ UNCHANGED <<config, limit, batch, err, task, ctxDone, pool, handled, stolen>>

\* The pool refuses: it is stopped, or the context ends a wait for room.
PoolRefuses ==
    /\ pc = "put" /\ pc' = "wait"
    /\ \/ ~poolUp /\ recordErr("stopped")
       \/ ctxDone /\ recordErr("ctx")
    /\ UNCHANGED <<config, limit, server, ackd, batch, next, task, ctxDone, pool, faults, ghosts>>

FeedEnds ==
    /\ pc = "feed" /\ ~More
    /\ pc' = IF mode = "sequential" THEN "loop" ELSE "wait"
    /\ UNCHANGED <<config, limit, server, ackd, batch, next, err, task, ctxDone, pool, faults, ghosts>>

\* Mutant: the pool's error is acted on before the tasks are done.
WaitDoneEarly ==
    /\ pc = "wait"
    /\ err # "none" \/ \A m \in Range(batch) : task[m] = "none"
    /\ IF mode = "concurrent" THEN pc' = (IF ctxDone THEN "returned" ELSE "loop") /\ UNCHANGED next
       ELSE IF err = "none" THEN pc' = "loop" /\ UNCHANGED next
       ELSE pc' = "nak" /\ next' = 1
    /\ UNCHANGED <<config, limit, server, ackd, batch, err, task, ctxDone, pool, faults, ghosts>>

\* wg.Wait returns. Goroutines of the batch: Process goes on, or returns the
\* context's error. Pool: an error makes processBatch Nak the whole batch.
WaitDone ==
    /\ pc = "wait"
    /\ \A m \in Range(batch) : task[m] = "none"
    /\ IF mode = "concurrent" THEN pc' = (IF ctxDone THEN "returned" ELSE "loop") /\ UNCHANGED next
       ELSE IF err = "none" THEN pc' = "loop" /\ UNCHANGED next
       ELSE pc' = "nak" /\ next' = 1
    /\ UNCHANGED <<config, limit, server, ackd, batch, err, task, ctxDone, pool, faults, ghosts>>

\* Pool: the context ends first. The batch is Nak'd, tasks still pending too.
WaitCancelled ==
    /\ pc = "wait" /\ mode = "pool" /\ ctxDone
    /\ recordErr("ctx") /\ pc' = "nak" /\ next' = 1
    /\ UNCHANGED <<config, limit, server, ackd, batch, task, ctxDone, pool, faults, ghosts>>

\* Mutant: what is left is only counted, not Nak'd.
NakSkips ==
    /\ pc = "nak" /\ More
    /\ next' = next + 1
    /\ UNCHANGED <<config, limit, server, ackd, pc, batch, err, task, ctxDone, pool, faults, ghosts>>

\* nakRemaining, one message at a time.
nakRemaining ==
    /\ pc = "nak" /\ More
    /\ Settle(Current, "ready") /\ next' = next + 1
    /\ stolen' = IF task[Current] # "none" THEN stolen \cup (ackd' \ ackd) ELSE stolen
    /\ UNCHANGED <<config, limit, pc, batch, err, task, ctxDone, pool, handled>>

\* After it processBatchConcurrent waits for its goroutines. Otherwise a
\* cancelled context or a stopped pool ends Process, a handler error does not.
NakEnds ==
    /\ pc = "nak" /\ ~More
    /\ pc' = IF mode = "concurrent" THEN "wait"
             ELSE IF err \in {"ctx", "stopped"} THEN "returned" ELSE "loop"
    /\ UNCHANGED <<config, limit, server, ackd, batch, next, err, task, ctxDone, pool, faults, ghosts>>

Process ==
    \/ Observe \/ Resume \/ Fetch \/ FetchCancelled \/ OneCancelled \/ OneStart \/ OneDone
    \/ FeedConcurrent \/ PoolCheck \/ PoolAccepts \/ PoolSheds \/ PoolRefuses
    \/ FeedEnds \/ WaitDone \/ WaitCancelled \/ nakRemaining \/ NakEnds

-----------------------------------------------------------------------------
(* The goroutines that run tasks, and the rest of the world *)

Idle == Cardinality(InState("running")) < Workers

\* A goroutine takes a task. One of the batch's own Naks it if the context
\* has ended; the pool runs what it accepted, stopped or not.
Take(m) ==
    /\ task[m] = "queued" /\ Idle
    /\ IF mode = "concurrent" /\ ctxDone
       THEN /\ task' = [task EXCEPT ![m] = "none"]
            /\ Settle(m, "ready") /\ recordErr("ctx")
       ELSE /\ task' = [task EXCEPT ![m] = "running"]
            /\ UNCHANGED <<server, ackd, err, faults, lost>>
    /\ UNCHANGED <<config, limit, pc, batch, next, ctxDone, pool, handled, stolen>>

\* Errors of tasks are collected, except by the sequential loop.
TaskErr == IF mode = "sequential" THEN UNCHANGED err ELSE recordErr("handler")

\* processMessage after a handler that returns nil: Ack. An Ack that fails is
\* an error, ErrMsgAlreadyAckd is not.
HandlerOk(m) ==
    /\ task[m] = "running" /\ task' = [task EXCEPT ![m] = "none"]
    /\ handled' = handled \cup {m}
    /\ Settle(m, "acked")
    /\ IF faults' > faults THEN TaskErr ELSE UNCHANGED err
    /\ UNCHANGED <<config, limit, pc, batch, next, ctxDone, pool, stolen>>

\* Mutant: a task that fails is never counted as done.
HandlerErrNotDone(m) ==
    /\ task[m] = "running" /\ Settle(m, "ready") /\ TaskErr /\ m \notin ackd
    /\ UNCHANGED <<config, limit, pc, batch, next, task, ctxDone, pool, handled, stolen>>

\* processMessage after a handler that fails: Nak.
HandlerErr(m) ==
    /\ task[m] = "running" /\ task' = [task EXCEPT ![m] = "none"]
    /\ Settle(m, "ready") /\ TaskErr
    /\ UNCHANGED <<config, limit, pc, batch, next, ctxDone, pool, handled, stolen>>

Cancel ==
    /\ ~ctxDone /\ ctxDone' = TRUE
    /\ UNCHANGED <<config, limit, server, ackd, pc, batch, next, err, task, pool, faults, ghosts>>

StopPool ==
    /\ mode = "pool" /\ poolUp /\ poolUp' = FALSE
    /\ UNCHANGED <<config, server, ackd, pc, limit, batch, next, err, task, ctxDone, others, asked, faults, ghosts>>

\* Another subscription hands the pool a task, and a worker takes one (when it is done
\* does not matter here).
OthersSubmit ==
    /\ mode = "pool" /\ poolUp /\ asked < MaxOthers
    /\ Cardinality(InState("queued")) + others < Capacity
    /\ others' = others + 1 /\ asked' = asked + 1
    /\ UNCHANGED <<config, server, ackd, pc, limit, batch, next, err, task, ctxDone, poolUp, faults, ghosts>>

OthersTaken ==
    /\ others > 0 /\ Idle /\ others' = others - 1
    /\ UNCHANGED <<config, server, ackd, pc, limit, batch, next, err, task, ctxDone, poolUp, asked, faults, ghosts>>

\* AckWait expires for a delivery the client has let go of.
AckWait(m) ==
    /\ server[m] = "sent" /\ m \in lost /\ task[m] = "none"
    /\ pc \in {"loop", "paused", "fetch", "returned"} \/ m \notin Range(batch)
    /\ server' = [server EXCEPT ![m] = "ready"] /\ lost' = lost \ {m}
    /\ UNCHANGED <<config, limit, ackd, pc, batch, next, err, task, ctxDone, pool, faults, handled, stolen>>

Run(m) == Take(m) \/ HandlerOk(m) \/ HandlerErr(m)

Next ==
    \/ Process \/ FetchTimesOut \/ Return \/ Cancel \/ StopPool \/ OthersSubmit \/ OthersTaken
    \/ \E m \in Msgs : Run(m) \/ AckWait(m)

Spec == Init /\ [][Next]_vars

\* Goroutines run, the server redelivers and answers a fetch that is repeated, a
\* handler that is retried succeeds in the end, and a cancelled loop is not kept alive by its select.
Fairness ==
    /\ WF_vars(Process) /\ SF_vars(Fetch) /\ WF_vars(Return /\ ctxDone) /\ WF_vars(OthersTaken)
    /\ \A m \in Msgs : WF_vars(Run(m)) /\ WF_vars(AckWait(m)) /\ SF_vars(HandlerOk(m))

FairSpec == Spec /\ Fairness

-----------------------------------------------------------------------------
(* Properties *)

\* Process never walks away from a message it holds: between batches and
\* after it has returned, a delivery with no task pending has been settled,
\* unless the call that settles it failed or Fetch dropped it (processBatch,
\* nakRemaining and the cancellation paths of the three modes); and only what
\* a handler returned nil for is Acked.
BatchIsSettled ==
    \A m \in Msgs :
        /\ pc \in {"loop", "paused", "fetch", "returned"} /\ task[m] = "none" /\ server[m] = "sent" => m \in lost
        /\ server[m] = "acked" => m \in handled

\* nakRemaining never gives away a message that a worker of this consumer may
\* still handle, except when the context has ended (processBatchWithPool
\* returns on ctx.Done without waiting for its tasks).
NakedWhileHandled == stolen # {} => ctxDone /\ mode = "pool"

\* While Process runs every message is settled for good in the end: no
\* combination of failed handlers, refused tasks and lost calls stops the loop, and
\* the circuit that other subscriptions open closes when their tasks are taken.
AllSettled == <>(pc = "returned" \/ \A m \in Msgs : server[m] \in {"acked", "termed"})
=============================================================================
