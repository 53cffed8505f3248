----------------------------- MODULE Lifecycle ------------------------------
(***************************************************************************)
(* A client from NewClient to Shutdown with what runs on it: goroutines     *)
(* that publish, outbox flushes, handlers in the consumer's worker pool,    *)
(* the metrics collector, callers that wait for the link. Shutdown is one   *)
(* action per step of shutdownGraceful and drainAndClose.                   *)
(*                                                                          *)
(* The pool is what its contract says (PoolContract). load says which users *)
(* the client of this behaviour has.                                        *)
(***************************************************************************)
EXTENDS Publisher, Outbox

CONSTANTS
    Loads,      \* of "connect", "waiters", "async", "outbox", "handlers"
    Tasks,      \* messages for the worker pool
    MaxCalls    \* bound: calls of Shutdown

ASSUME LifecycleAssumption == Loads \subseteq {"connect", "waiters", "async", "outbox", "handlers"}

VARIABLES
    load,
    tasks, pool,   \* the worker pool: its contract's status and phase
    mc,            \* goroutine of the metrics collector
    mcCancelled,   \* its context was cancelled
    spc,           \* of shutdownGraceful
    calls, returns, \* calls of Shutdown, and how many have returned
    before,        \* history: publishes pending when Shutdown was called
    gaveUp         \* history: PublishAsyncComplete stopped waiting

Pool == INSTANCE PoolContract WITH Calls <- Tasks, status <- tasks, phase <- pool

workVars == <<tasks, pool, mc, mcCancelled>>
shutVars == <<spc, calls, returns, before, gaveUp>>
vars     == <<connVars, pubVars, outboxVars, load, workVars, shutVars>>

TypeOK ==
    /\ ConnTypeOK /\ PubTypeOK /\ OutboxTypeOK /\ load \in Loads
    /\ tasks \in [Tasks -> {"new", "accepted", "refused", "done"}]
    /\ pool \in {"running", "draining", "stopped"}
    /\ mc \in {"select", "collect", "done"} /\ mcCancelled \in BOOLEAN
    /\ spc \in {"no", "collector", "consumer", "pool", "async", "cancel", "health",
                "clear", "drain", "draining", "done"}
    /\ calls \in 0..MaxCalls /\ returns \in 0..calls
    /\ before \subseteq 1..accepted /\ gaveUp \in BOOLEAN

Init ==
    /\ load \in Loads /\ (IF load = "connect" THEN ConnInit ELSE ConnBuilt)
    /\ PubInit /\ OutboxInit /\ (reconnectBufDisabled => load = "async")
    /\ Pool!Init /\ mc = "select" /\ mcCancelled = FALSE
    /\ spc = "no" /\ calls = 0 /\ returns = 0 /\ before = {} /\ gaveUp = FALSE

-----------------------------------------------------------------------------
(* The users of the client *)

Built == npc = "done"

\* A step of the connection's own processes.
Own(A) == A /\ UNCHANGED <<pubVars, outboxVars, load, workVars, shutVars>>

\* The link drops under the loads "connect", which starts with NewClient, and
\* "waiters"; the health check ticks under "handlers".
Connecting ==
    /\ Own(ConnNext)
    /\ load # "waiters" => UNCHANGED wpc
    /\ load \notin {"connect", "waiters"} => UNCHANGED events
    /\ load # "handlers" => hc' # "check"

Publishing == load = "async" /\ PubNext /\ UNCHANGED <<outboxVars, load, workVars, shutVars>>

\* The outbox publishes with PublishRaw.
Flushing ==
    /\ load = "outbox" /\ Built /\ OutboxNext
    /\ pubs' # pubs => PublishOutcomes # {"refused"}
    /\ UNCHANGED <<connVars, pubVars, load, workVars, shutVars>>

\* The subscription's callback hands messages to the pool and the workers handle
\* them.
Handling ==
    /\ load = "handlers" /\ Built
    /\ \E t \in Tasks :
         \/ IsConnected /\ (Pool!Accept(t) \/ Pool!Refuse(t))
         \/ pool # "stopped" /\ Pool!Run(t)
    /\ UNCHANGED <<connVars, pubVars, outboxVars, load, mc, mcCancelled, shutVars>>

\* The goroutine of the metrics collector: a tick, a collection, the exit.
Collect ==
    /\ load = "handlers" /\ Built
    /\ \/ mc = "select" /\ mc' = "collect"
       \/ mc = "collect" /\ mc' = "select"
    /\ UNCHANGED <<connVars, pubVars, outboxVars, load, tasks, pool, mcCancelled, shutVars>>

CollectorExits ==
    /\ mc = "select" /\ (mcCancelled \/ ctxDone) /\ Built
    /\ mc' = "done"
    /\ UNCHANGED <<connVars, pubVars, outboxVars, load, tasks, pool, mcCancelled, shutVars>>

-----------------------------------------------------------------------------
(* Shutdown *)

At(from, to) == spc = from /\ spc' = to /\ UNCHANGED <<outboxVars, load, reconnectBufDisabled, ppc, accepted, pending>>

\* sync.Once: the first caller runs shutdownGraceful, which stops the ticker and
\* cancels the collector; the others wait.
ShutdownFirst ==
    /\ Built /\ At("no", "collector") /\ calls' = 1
    /\ ticker' = IF ticker = "on" THEN "last" ELSE ticker
    /\ mcCancelled' = TRUE /\ before' = pending
    /\ UNCHANGED <<netVars, newVars, statusVars, hc, waitVars, asyncErr, stopped, tasks, pool, mc, returns, gaveUp>>

ShutdownAgain ==
    /\ spc # "no" /\ calls < MaxCalls /\ calls' = calls + 1
    /\ UNCHANGED <<connVars, pubVars, outboxVars, load, workVars, spc, returns, before, gaveUp>>

ShutdownReturns ==
    /\ spc = "done" /\ returns < calls /\ returns' = returns + 1
    /\ UNCHANGED <<connVars, pubVars, outboxVars, load, workVars, spc, calls, before, gaveUp>>

StopCollector ==
    /\ mc = "done" /\ At("collector", "consumer")
    /\ UNCHANGED <<connVars, asyncErr, stopped, workVars, calls, returns, before, gaveUp>>

\* consumer.stop: GracefulStop of the pool, and its end.
StopConsumer ==
    /\ At("consumer", "pool") /\ Pool!BeginStop
    /\ UNCHANGED <<connVars, asyncErr, stopped, mc, mcCancelled, calls, returns, before, gaveUp>>

\* When the caller's context has ended the workers may leave a task behind.
PoolStops ==
    /\ At("pool", "async")
    /\ \/ Pool!FinishStop
       \/ ctxDone /\ pool' = "stopped" /\ UNCHANGED tasks
    /\ UNCHANGED <<connVars, asyncErr, stopped, mc, mcCancelled, calls, returns, before, gaveUp>>

\* Mutant: the publisher is stopped before its publishes are waited for.
DrainPublishesStopped ==
    /\ At("async", "cancel") /\ stopped' = TRUE /\ takeAsyncErr
    /\ UNCHANGED <<connVars, workVars, calls, returns, before, gaveUp>>

\* PublishAsyncComplete with the drain timeout, then publisher.stop.
DrainPublishes ==
    /\ At("async", "cancel")
    /\ \E deadline \in BOOLEAN :
         /\ PublishAsyncComplete(deadline)
         /\ gaveUp' = (~AsyncDone)
         /\ AsyncDone \/ deadline \/ ctxDone
    /\ stopped' = TRUE
    /\ UNCHANGED <<connVars, workVars, calls, returns, before>>

CancelClient ==
    /\ At("cancel", "health") /\ cancelled' = TRUE
    /\ UNCHANGED <<netVars, npc, attempt, readUp, ctxDone, conn, statusVars, hcVars, waitVars,
                   asyncErr, stopped, workVars, calls, returns, before, gaveUp>>

HealthAwaited ==
    /\ hc = "done" /\ At("health", "clear")
    /\ UNCHANGED <<connVars, asyncErr, stopped, workVars, calls, returns, before, gaveUp>>

\* drainAndClose: conn and js are cleared, Drain starts or fails.
ClearConn ==
    /\ At("clear", "drain") /\ conn' = FALSE
    /\ UNCHANGED <<netVars, npc, attempt, readUp, ctxDone, cancelled, statusVars, hcVars, waitVars,
                   asyncErr, stopped, workVars, calls, returns, before, gaveUp>>

StartDrain ==
    /\ \/ link = "up" /\ At("drain", "draining") /\ link' = "draining"
          /\ UNCHANGED <<lame, everUp, events, callbacks, heard>>
       \/ link # "up" /\ At("drain", "done") /\ Close
    /\ UNCHANGED <<newVars, statusVars, hcVars, wpc, asyncErr, stopped, workVars, calls, returns, before, gaveUp>>

\* nats.go has drained the connection and closes it.
Drained ==
    /\ link = "draining" /\ Close
    /\ UNCHANGED <<newVars, statusVars, hcVars, wpc, pubVars, outboxVars, load, workVars, shutVars>>

\* Mutant: the wait for the drain has no deadline.
AwaitClosedOnly ==
    /\ link = "closed" /\ At("draining", "done")
    /\ UNCHANGED <<connVars, asyncErr, stopped, workVars, calls, returns, before, gaveUp>>

AwaitClosed ==
    /\ At("draining", "done")
    /\ \/ link = "closed" /\ UNCHANGED <<netVars, heard>>
       \/ Close
    /\ UNCHANGED <<newVars, statusVars, hcVars, wpc, asyncErr, stopped, workVars, calls, returns, before, gaveUp>>

Shutdown ==
    \/ ShutdownFirst \/ ShutdownAgain \/ ShutdownReturns
    \/ StopCollector \/ StopConsumer \/ PoolStops \/ DrainPublishes \/ CancelClient
    \/ HealthAwaited \/ ClearConn \/ StartDrain \/ AwaitClosed

Next == Connecting \/ Publishing \/ Flushing \/ Handling \/ Collect \/ CollectorExits \/ Shutdown \/ Drained

Spec == Init /\ [][Next]_vars

Handled ==
    /\ pool # "stopped" /\ \E t \in Tasks : Pool!Run(t)
    /\ UNCHANGED <<connVars, pubVars, outboxVars, load, mc, mcCancelled, shutVars>>

\* Goroutines that can run do; handlers and calls to the server return; a select
\* whose context has ended does not take the ticker's case for ever.
Fairness ==
    /\ WF_vars(ShutdownReturns)
    /\ WF_vars(StopCollector \/ StopConsumer \/ PoolStops \/ DrainPublishes \/ CancelClient
               \/ HealthAwaited \/ ClearConn \/ StartDrain \/ AwaitClosed)
    /\ WF_vars(Handled) /\ WF_vars(Collect) /\ SF_vars(CollectorExits)
    /\ WF_vars(Own(HealthCheck)) /\ SF_vars(Own(HealthExit))

FairSpec == Spec /\ Fairness

-----------------------------------------------------------------------------
(* Properties *)

Draining == spc \in {"clear", "drain", "draining", "done"}

\* The order of shutdownGraceful: when it comes to the connection, the collector
\* and the health check are no longer on it, every task the pool accepted has
\* been handled, and every asynchronous publish that was pending when Shutdown
\* was called has been acknowledged or has failed, unless its wait was cut short
\* by the drain timeout or the caller's context ended. At the end the connection
\* is closed, whatever the link did meanwhile.
DrainComesLast ==
    /\ Draining => /\ mc = "done" /\ hc = "done"
                   /\ ctxDone \/ \A t \in Tasks : tasks[t] # "accepted"
                   /\ gaveUp \/ before \cap pending = {}
    /\ spc = "done" => link = "closed" /\ ~conn

\* Every caller of Shutdown returns (sync.Once, the pool, the collector, the
\* health check, the drain).
ShutdownEnds == returns < calls ~> returns = calls
=============================================================================
