---------------------------- MODULE PushDelivery ----------------------------
(***************************************************************************)
(* A push consumer from the JetStream server to the settled message: the    *)
(* subscription callback with its backpressure mode (consumer_push.go,      *)
(* backpressure.go), the worker pool as its callers see it, processMessage, *)
(* and the dead-letter wrapper around the user's handler (dlq/dlq.go).      *)
(*                                                                          *)
(* The server redelivers a message that is Nak'd or whose AckWait expires,  *)
(* so several deliveries of one message can be in the client at once. A     *)
(* delivery is the message and whether its NumDelivered exceeds MaxDeliver. *)
(***************************************************************************)
EXTENDS Naturals, Sequences, FiniteSets

CONSTANTS
    Msgs,
    Corruptible, \* messages whose payload may not decompress
    Callbacks,   \* subscription goroutines that run the callback
    Workers,     \* goroutines of the worker pool
    Capacity,    \* WorkerBufferSize
    Modes,       \* the backpressure modes to consider; "inline": no pool
    MaxDeliver,  \* of dlq.Config
    MaxFaults,   \* bound: calls to the server that are lost or fail
    None

ASSUME DeliveryAssumption ==
    /\ Corruptible \subseteq Msgs /\ IsFiniteSet(Callbacks) /\ IsFiniteSet(Workers)
    /\ None \notin [msg : Msgs, n : Nat]
    /\ Modes \subseteq {"block", "nak", "term", "drop", "inline"}
    /\ Capacity \in Nat \ {0} /\ MaxDeliver \in Nat \ {0} /\ MaxFaults \in Nat

Actors == Callbacks \cup Workers

VARIABLES
    mode,       \* Backpressure.Mode, or "inline" when the pool is disabled
    corrupt,    \* messages whose payload does not decompress
    patient,    \* AckWait exceeds the time a delivery spends in the client
    server,     \* of each message: "ready", "sent", "acked", "termed"
    delivered,  \* NumDelivered, counted up to MaxDeliver + 1
    queue,      \* the channel of the pool
    depth,      \* the pool's depth counter
    poolUp,     \* the consumer has not been stopped
    pc, job,    \* of each callback and worker: where it is, with what delivery
    dlq,        \* messages stored in the dead-letter stream
    asked,      \* history: messages whose handler returned ErrSendToDLQ
    attempts,   \* history: handler runs of each message, up to MaxDeliver
    handled,    \* history: messages some handler run of which returned nil
    shed,       \* history: messages terminated by backpressure
    faults      \* calls that have failed so far

config == <<mode, corrupt, patient>>
pool   == <<queue, depth, poolUp>>
ghosts == <<asked, attempts, handled, shed>>
vars   == <<config, server, delivered, pool, pc, job, dlq, ghosts, faults>>

Deliveries == [msg : Msgs, n : 1..MaxDeliver + 1]

Min2(a, b) == IF a < b THEN a ELSE b

TypeOK ==
    /\ server \in [Msgs -> {"ready", "sent", "acked", "termed"}]
    /\ delivered \in [Msgs -> 0..MaxDeliver + 1]
    /\ queue \in Seq(Deliveries) /\ Len(queue) <= Capacity
    /\ depth \in 0..(Capacity + Cardinality(Actors))
    /\ job \in [Actors -> Deliveries \cup {None}]
    /\ \A a \in Actors : pc[a] = "idle" <=> job[a] = None
    /\ dlq \subseteq Msgs /\ faults \in 0..MaxFaults

Init ==
    /\ mode \in Modes /\ patient \in BOOLEAN
    /\ corrupt \in SUBSET Corruptible
    /\ server = [m \in Msgs |-> "ready"] /\ delivered = [m \in Msgs |-> 0]
    /\ queue = <<>> /\ depth = 0 /\ poolUp = TRUE
    /\ pc = [a \in Actors |-> "idle"] /\ job = [a \in Actors |-> None]
    /\ dlq = {} /\ asked = {} /\ attempts = [m \in Msgs |-> 0]
    /\ handled = {} /\ shed = {} /\ faults = 0

-----------------------------------------------------------------------------
(* The server, and calls to it *)

Held(m) ==
    \/ \E a \in Actors : job[a] # None /\ job[a].msg = m
    \/ \E i \in DOMAIN queue : queue[i].msg = m

\* The server sends a message that waits for (re)delivery to a subscription.
\* The callback's first call is the non-blocking publish in Nak mode, and
\* the backpressure test in the other pool modes.
Deliver(k, m) ==
    /\ pc[k] = "idle"
    /\ server[m] = "ready"
    /\ server' = [server EXCEPT ![m] = "sent"]
    /\ delivered' = [delivered EXCEPT ![m] = Min2(@ + 1, MaxDeliver + 1)]
    /\ job' = [job EXCEPT ![k] = [msg |-> m, n |-> delivered'[m]]]
    /\ pc' = [pc EXCEPT ![k] = CASE mode = "inline" -> "process"
                                 [] mode = "nak"    -> "publish"
                                 [] OTHER           -> "check"]
    /\ UNCHANGED <<config, pool, dlq, ghosts, faults>>

\* AckWait expires. A patient server waits until the delivery has left the
\* client.
AckWait(m) ==
    /\ server[m] = "sent"
    /\ patient => ~Held(m)
    /\ server' = [server EXCEPT ![m] = "ready"]
    /\ UNCHANGED <<config, delivered, pool, pc, job, dlq, ghosts, faults>>

\* Ack, Nak and Term as they reach the server: a settled message stays so.
Settle(m, outcome) ==
    server' = [server EXCEPT ![m] = IF @ \in {"acked", "termed"} THEN @ ELSE outcome]

\* A call to the server fails or is lost.
Fault == faults < MaxFaults /\ faults' = faults + 1

Finish(a) == pc' = [pc EXCEPT ![a] = "idle"] /\ job' = [job EXCEPT ![a] = None]

Goto(a, from, to) == pc[a] = from /\ pc' = [pc EXCEPT ![a] = to]

-----------------------------------------------------------------------------
(* The callback: wrapHandler, handlePoolBackpressure and subWrap *)

\* handlePoolBackpressure returns nil: the pool has room, or had when depth
\* was read. In Nak mode the publish has been tried already and the callback
\* returns; the message is neither queued nor Nak'd.
CheckRoom(k) ==
    /\ pc[k] = "check"
    /\ Capacity = 0 \/ depth < Capacity
    /\ IF mode = "nak" THEN Finish(k) ELSE Goto(k, "check", "publish") /\ UNCHANGED job
    /\ UNCHANGED <<config, server, delivered, pool, dlq, ghosts, faults>>

PoolFull(k) == pc[k] = "check" /\ Capacity > 0 /\ depth >= Capacity

\* BackpressureBlock: ErrPoolFull, and the callback goes on to a blocking
\* publish.
CheckBlock(k) ==
    /\ PoolFull(k) /\ mode = "block"
    /\ Goto(k, "check", "publish")
    /\ UNCHANGED <<config, server, delivered, pool, job, dlq, ghosts, faults>>

\* BackpressureNak: Nak, or a Nak that fails; the callback returns.
CheckNak(k) ==
    /\ PoolFull(k) /\ mode = "nak"
    /\ \/ server[job[k].msg] = "sent" /\ Settle(job[k].msg, "ready") /\ UNCHANGED faults
       \/ server[job[k].msg] # "sent" /\ UNCHANGED <<server, faults>>
       \/ Fault /\ UNCHANGED server
    /\ Finish(k)
    /\ UNCHANGED <<config, delivered, pool, dlq, ghosts>>

\* BackpressureTerm and BackpressureDrop: Term, or a Term that fails.
CheckTerm(k) ==
    /\ PoolFull(k) /\ mode \in {"term", "drop"}
    /\ \/ Settle(job[k].msg, "termed") /\ shed' = shed \cup {job[k].msg} /\ UNCHANGED faults
       \/ Fault /\ UNCHANGED <<server, shed>>
    /\ Finish(k)
    /\ UNCHANGED <<config, delivered, pool, dlq, asked, attempts, handled>>

\* tryPublish up to its send: refused by a stopped pool (the error is dropped
\* by subWrap), or depth is raised.
Publish(k) ==
    /\ pc[k] = "publish"
    /\ \/ ~poolUp /\ Finish(k) /\ UNCHANGED depth
       \/ poolUp /\ Goto(k, "publish", "send") /\ depth' = depth + 1 /\ UNCHANGED job
    /\ UNCHANGED <<config, server, delivered, queue, poolUp, dlq, ghosts, faults>>

\* The send lands in the channel.
Send(k) ==
    /\ pc[k] = "send"
    /\ Len(queue) < Capacity
    /\ queue' = Append(queue, job[k])
    /\ Finish(k)
    /\ UNCHANGED <<config, server, delivered, depth, poolUp, dlq, ghosts, faults>>

\* It does not: a non-blocking send finds the channel full and the callback
\* asks handlePoolBackpressure what to do, a blocking one is released by the
\* stop. depth is rolled back.
SendFails(k) ==
    /\ pc[k] = "send"
    /\ \/ mode = "nak" /\ Len(queue) = Capacity /\ Goto(k, "send", "check") /\ UNCHANGED job
       \/ mode # "nak" /\ ~poolUp /\ Finish(k)
    /\ depth' = depth - 1
    /\ UNCHANGED <<config, server, delivered, queue, poolUp, dlq, ghosts, faults>>

\* consumer.stop: the pool refuses publishes from now on.
Stop ==
    /\ mode # "inline"
    /\ poolUp' = FALSE
    /\ UNCHANGED <<config, server, delivered, queue, depth, pc, job, dlq, ghosts, faults>>

-----------------------------------------------------------------------------
(* A worker, or the callback itself when there is no pool *)

Take(w) ==
    /\ pc[w] = "idle" /\ queue # <<>>
    /\ job' = [job EXCEPT ![w] = Head(queue)]
    /\ queue' = Tail(queue)
    /\ pc' = [pc EXCEPT ![w] = "taken"]
    /\ UNCHANGED <<config, server, delivered, depth, poolUp, dlq, ghosts, faults>>

Start(w) ==
    /\ Goto(w, "taken", "process")
    /\ depth' = depth - 1
    /\ UNCHANGED <<config, server, delivered, queue, poolUp, job, dlq, ghosts, faults>>

\* Mutant: MaxDeliver = N allows N - 1 attempts.
ExhaustedEarly(d) == d.n >= MaxDeliver

\* dlq.With: a delivery beyond MaxDeliver is routed, any other is handled.
Exhausted(d) == d.n > MaxDeliver

\* Mutant: an exhausted delivery is dropped, not routed.
DispatchDrops(a) ==
    /\ pc[a] = "process"
    /\ IF job[a].msg \notin corrupt /\ Exhausted(job[a])
       THEN Finish(a)
       ELSE Goto(a, "process", IF job[a].msg \in corrupt THEN "nak" ELSE "handler") /\ UNCHANGED job
    /\ UNCHANGED <<config, server, delivered, pool, dlq, ghosts, faults>>

\* processMessage up to the handler. Decompression comes first: a payload
\* that does not decompress is Nak'd before the dead-letter wrapper sees it.
Dispatch(a) ==
    /\ Goto(a, "process", IF job[a].msg \in corrupt THEN "nak"
                          ELSE IF Exhausted(job[a]) THEN "route" ELSE "handler")
    /\ UNCHANGED <<config, server, delivered, pool, job, dlq, ghosts, faults>>

\* The handler returns: nil, an error (or a panic, recovered as one) or
\* ErrSendToDLQ.
Handler(a) ==
    /\ LET m == job[a].msg IN
        /\ \/ Goto(a, "handler", "ack") /\ handled' = handled \cup {m} /\ UNCHANGED asked
           \/ Goto(a, "handler", "nak") /\ UNCHANGED <<handled, asked>>
           \/ Goto(a, "handler", "route") /\ asked' = asked \cup {m} /\ UNCHANGED handled
        /\ attempts' = [attempts EXCEPT ![m] = Min2(@ + 1, MaxDeliver)]
    /\ UNCHANGED <<config, server, delivered, pool, job, dlq, shed, faults>>

\* Mutant: the message is terminated whether or not the publish worked.
RouteIgnoresError(a) ==
    /\ LET stored == dlq' = dlq \cup {job[a].msg} IN
        \/ Goto(a, "route", "term") /\ stored /\ UNCHANGED faults
        \/ Goto(a, "route", "term") /\ Fault /\ UNCHANGED dlq
    /\ UNCHANGED <<config, server, delivered, pool, job, ghosts>>

\* route publishes to the dead-letter subject. The stream drops a duplicate
\* by message ID. A publish that fails may have been stored; its error makes
\* processMessage Nak.
Route(a) ==
    /\ LET stored == dlq' = dlq \cup {job[a].msg} IN
        \/ Goto(a, "route", "term") /\ stored /\ UNCHANGED faults
        \/ Goto(a, "route", "nak") /\ Fault /\ (stored \/ UNCHANGED dlq)
    /\ UNCHANGED <<config, server, delivered, pool, job, ghosts>>

\* Term, tried three times; when all fail ErrDLQRouted is returned all the
\* same and the delivery is left as it is.
Term(a) ==
    /\ pc[a] = "term"
    /\ \/ Settle(job[a].msg, "termed") /\ UNCHANGED faults
       \/ Fault /\ UNCHANGED server
    /\ Finish(a)
    /\ UNCHANGED <<config, delivered, pool, dlq, ghosts>>

\* Ack; lost or failed, it leaves the message to AckWait.
Ack(a) ==
    /\ pc[a] = "ack"
    /\ \/ Settle(job[a].msg, "acked") /\ UNCHANGED faults
       \/ Fault /\ UNCHANGED server
    /\ Finish(a)
    /\ UNCHANGED <<config, delivered, pool, dlq, ghosts>>

\* Mutant: a failed delivery is Acked.
NakAcks(a) ==
    /\ pc[a] = "nak"
    /\ Settle(job[a].msg, "acked")
    /\ Finish(a)
    /\ UNCHANGED <<config, delivered, pool, dlq, ghosts, faults>>

\* recordProcessError: Nak. A Nak of a delivery the server has already taken
\* back changes nothing.
Nak(a) ==
    /\ pc[a] = "nak"
    /\ \/ server[job[a].msg] = "sent" /\ Settle(job[a].msg, "ready") /\ UNCHANGED faults
       \/ server[job[a].msg] # "sent" /\ UNCHANGED <<server, faults>>
       \/ Fault /\ UNCHANGED server
    /\ Finish(a)
    /\ UNCHANGED <<config, delivered, pool, dlq, ghosts>>

processMessage(a) == Dispatch(a) \/ Handler(a) \/ Route(a) \/ Term(a) \/ Ack(a) \/ Nak(a)

wrapHandler(k) ==
    CheckRoom(k) \/ CheckBlock(k) \/ CheckNak(k) \/ CheckTerm(k) \/ Publish(k) \/ Send(k) \/ SendFails(k)

-----------------------------------------------------------------------------
Next ==
    \/ \E m \in Msgs : AckWait(m) \/ \E k \in Callbacks : Deliver(k, m)
    \/ \E k \in Callbacks : wrapHandler(k)
    \/ \E w \in Workers : Take(w) \/ Start(w)
    \/ \E a \in Actors : processMessage(a)
    \/ Stop

Spec == Init /\ [][Next]_vars

\* The server redelivers every message it still owes in turn, its AckWait
\* timers fire, and the goroutines of the client run.
Fairness ==
    /\ \A m \in Msgs : WF_vars(AckWait(m)) /\ SF_vars(\E k \in Callbacks : Deliver(k, m))
    /\ \A k \in Callbacks : WF_vars(wrapHandler(k))
    /\ \A w \in Workers : WF_vars(Take(w) \/ Start(w))
    /\ \A a \in Actors : WF_vars(processMessage(a))

FairSpec == Spec /\ Fairness

-----------------------------------------------------------------------------
(* Properties *)

\* No silent loss: the server forgets a message only when a handler run
\* returned nil for it, when it is stored in the dead-letter stream, or when a
\* mode documented as lossy shed it (processMessage's Ack, route's order of
\* publish and Term, handlePoolBackpressure). BackpressureBlock and
\* BackpressureNak never shed.
SettledIsAccounted ==
    \A m \in Msgs :
        /\ server[m] = "acked" => m \in handled
        /\ server[m] = "termed" => m \in dlq \cup shed
        /\ m \in shed => mode \in {"term", "drop"}

\* "Use > so MaxDeliver=N allows N handler attempts (not N-1)" (dlq.With): a
\* message dead-lettered because its deliveries are used up has had N attempts.
NHandlerAttempts ==
    \A m \in dlq : m \notin asked => attempts[m] >= MaxDeliver

\* NHandlerAttempts where nothing but a handler error uses up a delivery: a
\* blocking callback or none, and AckWait longer than any handling.
BlockAllowsNAttempts == mode \in {"block", "inline"} /\ patient => NHandlerAttempts

\* depth never runs ahead of the tasks it stands for, whatever mix of full
\* channels, rollbacks and stops: handlePoolBackpressure sheds load by it.
DepthIsQueued ==
    depth = Len(queue) + Cardinality({a \in Actors : pc[a] \in {"send", "taken"}})

\* While the consumer is not stopped and every payload decompresses, every
\* message is eventually Acked, dead-lettered or shed: no combination of full
\* pools, Naks, stale depth reads, expired AckWaits and failed calls strands
\* it. (A payload that does not decompress is Nak'd for ever: the dead-letter
\* wrapper never sees it.)
EventuallySettled ==
    corrupt = {} =>
        \A m \in Msgs : <>(server[m] \in {"acked", "termed"} \/ ~poolUp)
=============================================================================
