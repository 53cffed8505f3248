----------------------------- MODULE WorkerPool -----------------------------
(***************************************************************************)
(* The goroutine pool of workerpool/workerpool.go, at the grain of its      *)
(* atomic operations: one action per atomic load, add or CAS, channel       *)
(* operation, and critical section of the mutex behind the drain condition  *)
(* variable.                                                                *)
(*                                                                          *)
(* A call of Publish, TryPublish or TryPublishNonBlocking is one member of  *)
(* Calls, and the task it creates is named after it. Workers are the        *)
(* goroutines Consume starts, Stoppers the callers of GracefulStop.         *)
(***************************************************************************)
EXTENDS Naturals, Sequences, FiniteSets, Functions

CONSTANTS
    Calls,      \* calls of tryPublish; each one creates at most one task
    Workers,    \* goroutines started by Consume (workerPoolLen of them)
    Stoppers,   \* callers of GracefulStop
    BufLen,     \* capacity of the channel `input` (messageBufLen)
    Nil         \* no goroutine, no task

ASSUME PoolAssumption ==
    /\ IsFiniteSet(Calls) /\ IsFiniteSet(Workers)
    /\ Workers # {}
    /\ BufLen \in Nat
    /\ Nil \notin Calls \cup Workers

VARIABLES
    state,      \* "running", "draining", "stopped"
    cancelled,  \* w.ctx is done
    stopped,    \* the channel `stopped` is closed
    input,      \* the buffered channel of tasks
    depth, inFlight, publishers,    \* the three atomic counters
    mu,         \* holder of the mutex of cond, or Nil
    cpc,        \* program counter of each tryPublish call
    nonBlocking,\* the mode each call was made in
    result,     \* what each call returns
    wpc,        \* program counter of each worker
    cur,        \* the task a worker holds
    back,       \* where a worker resumes after process
    load,       \* which of the three counters a worker reads next
    spc,        \* program counter of each GracefulStop caller
    handled     \* history: tasks whose handler has returned, in order

callVars   == <<cpc, nonBlocking, result>>
workerVars == <<wpc, cur, back, load>>
counters   == <<depth, inFlight, publishers>>
stopVars   == <<state, cancelled, stopped, spc>>
vars == <<stopVars, input, counters, mu, callVars, workerVars, handled>>

CallPCs   == {"idle", "gate", "inc", "send", "sent", "rollback", "reload",
              "leave", "signal", "done"}
Results   == {"none", "accepted", "full", "ErrPoolStopped", "ctxErr", "poolDone"}
WorkerPCs == {"select", "recv", "check", "lock", "loop", "lrecv", "recheck",
              "wait", "waiting", "unlock", "dec", "enter", "notify", "handler",
              "exit", "notify2", "returned"}
StopPCs   == {"idle", "cancel", "signal", "wgWait", "await", "returned"}

TypeOK ==
    /\ state \in {"running", "draining", "stopped"}
    /\ cancelled \in BOOLEAN /\ stopped \in BOOLEAN
    /\ input \in Seq(Calls)
    /\ depth \in Nat /\ inFlight \in Nat /\ publishers \in Nat
    /\ mu \in Workers \cup {Nil}
    /\ cpc \in [Calls -> CallPCs]
    /\ nonBlocking \in [Calls -> BOOLEAN]
    /\ result \in [Calls -> Results]
    /\ wpc \in [Workers -> WorkerPCs]
    /\ cur \in [Workers -> Calls \cup {Nil}]
    /\ back \in [Workers -> {"select", "recv", "lock"}]
    /\ load \in [Workers -> 1..3]
    /\ spc \in [Stoppers -> StopPCs]
    /\ handled \in Seq(Calls)

\* New followed by Consume: the pool is running and every worker is in its
\* select. No call has been made.
Init ==
    /\ state = "running" /\ cancelled = FALSE /\ stopped = FALSE
    /\ input = <<>>
    /\ depth = 0 /\ inFlight = 0 /\ publishers = 0
    /\ mu = Nil
    /\ cpc = [c \in Calls |-> "idle"]
    /\ nonBlocking = [c \in Calls |-> FALSE]
    /\ result = [c \in Calls |-> "none"]
    /\ wpc = [w \in Workers |-> "select"]
    /\ cur = [w \in Workers |-> Nil]
    /\ back = [w \in Workers |-> "select"]
    /\ load = [w \in Workers |-> 1]
    /\ spc = [s \in Stoppers |-> "idle"]
    /\ handled = <<>>

\* signalDrain: lock, Broadcast, unlock. Every waiter leaves cond.Wait and
\* goes on to take the mutex again. F is the program counter function of the
\* workers after the signalling goroutine has moved on.
signalDrain(F) ==
    /\ mu = Nil
    /\ wpc' = [w \in Workers |-> IF F[w] = "waiting" THEN "lock" ELSE F[w]]
    /\ UNCHANGED mu

-----------------------------------------------------------------------------
(* tryPublish *)

callGoes(c, from, to) == cpc[c] = from /\ cpc' = [cpc EXCEPT ![c] = to]

\* publishers.Add(1), before the state is looked at.
Enter(c, nb) ==
    /\ callGoes(c, "idle", "gate")
    /\ publishers' = publishers + 1
    /\ nonBlocking' = [nonBlocking EXCEPT ![c] = nb]
    /\ UNCHANGED <<stopVars, input, depth, inFlight, mu, result, workerVars, handled>>

\* Mutant: the state is not looked at.
GateUnchecked(c) ==
    /\ callGoes(c, "gate", "inc")
    /\ UNCHANGED <<stopVars, input, counters, mu, nonBlocking, result, workerVars, handled>>

\* The accept gate: state.Load() against stateRunning.
Gate(c) ==
    /\ \/ /\ state = "running"
          /\ callGoes(c, "gate", "inc")
          /\ UNCHANGED result
       \/ /\ state # "running"
          /\ callGoes(c, "gate", "leave")
          /\ result' = [result EXCEPT ![c] = "ErrPoolStopped"]
    /\ UNCHANGED <<stopVars, input, counters, mu, nonBlocking, workerVars, handled>>

IncDepth(c) ==
    /\ callGoes(c, "inc", "send")
    /\ depth' = depth + 1
    /\ UNCHANGED <<stopVars, input, inFlight, publishers, mu, nonBlocking, result, workerVars, handled>>

\* The send into the buffer. Blocking and non-blocking calls alike take it
\* when there is room; a blocking select may also take another ready case.
Send(c) ==
    /\ callGoes(c, "send", "sent")
    /\ Len(input) < BufLen
    /\ input' = Append(input, c)
    /\ result' = [result EXCEPT ![c] = "accepted"]
    /\ UNCHANGED <<stopVars, counters, mu, nonBlocking, workerVars, handled>>

\* The default case of the non-blocking select: the buffer is full, or the
\* channel is unbuffered and no worker is parked on it.
Full(c) ==
    /\ nonBlocking[c]
    /\ callGoes(c, "send", "rollback")
    /\ Len(input) = BufLen
    /\ result' = [result EXCEPT ![c] = "full"]
    /\ UNCHANGED <<stopVars, input, counters, mu, nonBlocking, workerVars, handled>>

\* The two cancellation cases of the blocking select. The caller's own
\* context may be done at any moment.
CallerDone(c) ==
    /\ ~nonBlocking[c]
    /\ callGoes(c, "send", "rollback")
    /\ result' = [result EXCEPT ![c] = "ctxErr"]
    /\ UNCHANGED <<stopVars, input, counters, mu, nonBlocking, workerVars, handled>>

PoolDone(c) ==
    /\ ~nonBlocking[c]
    /\ cancelled
    /\ callGoes(c, "send", "rollback")
    /\ result' = [result EXCEPT ![c] = "poolDone"]
    /\ UNCHANGED <<stopVars, input, counters, mu, nonBlocking, workerVars, handled>>

\* rollback(); after <-w.ctx.Done() the state is still to be read.
Rollback(c) ==
    /\ callGoes(c, "rollback", IF result[c] = "poolDone" THEN "reload" ELSE "leave")
    /\ depth' = depth - 1
    /\ UNCHANGED <<stopVars, input, inFlight, publishers, mu, nonBlocking, result, workerVars, handled>>

\* Why the pool's context ended: the pool was stopped, or its parent was.
Reload(c) ==
    /\ callGoes(c, "reload", "leave")
    /\ result' = [result EXCEPT ![c] = IF state # "running" THEN "ErrPoolStopped" ELSE "ctxErr"]
    /\ UNCHANGED <<stopVars, input, counters, mu, nonBlocking, workerVars, handled>>

SignalSent(c) ==
    /\ callGoes(c, "sent", "leave")
    /\ signalDrain(wpc)
    /\ UNCHANGED <<stopVars, input, counters, nonBlocking, result, cur, back, load, handled>>

\* The deferred function: publishers.Add(-1), then signalDrain.
Leave(c) ==
    /\ callGoes(c, "leave", "signal")
    /\ publishers' = publishers - 1
    /\ UNCHANGED <<stopVars, input, depth, inFlight, mu, nonBlocking, result, workerVars, handled>>

\* Mutant: the deferred function does not signal.
LeftUnsignalled(c) ==
    /\ callGoes(c, "signal", "done")
    /\ UNCHANGED <<stopVars, input, counters, mu, nonBlocking, result, workerVars, handled>>

SignalLeft(c) ==
    /\ callGoes(c, "signal", "done")
    /\ signalDrain(wpc)
    /\ UNCHANGED <<stopVars, input, counters, nonBlocking, result, cur, back, load, handled>>

\* The steps of a call that has begun, other than its own context ending.
callStep(c) ==
    \/ Gate(c) \/ IncDepth(c) \/ Send(c) \/ Full(c) \/ PoolDone(c)
    \/ Rollback(c) \/ Reload(c) \/ SignalSent(c) \/ Leave(c) \/ SignalLeft(c)

tryPublish(c) == (\E nb \in BOOLEAN : Enter(c, nb)) \/ CallerDone(c) \/ callStep(c)

-----------------------------------------------------------------------------
(* runner, drain and process *)

workerGoes(w, from, to) == wpc[w] = from /\ wpc' = [wpc EXCEPT ![w] = to]

\* Where a worker that receives at a given point resumes after process: the
\* runner's select, the top of drain, or the relock inside drain's wait loop.
ResumeAt(pc) == CASE pc = "select" -> "select" [] pc = "recv" -> "recv" [] OTHER -> "lock"

\* What every receive does besides choosing the task. Inside the wait loop
\* the mutex is released before process.
Receive(w, c) ==
    /\ wpc[w] \in {"select", "recv", "lrecv"}
    /\ wpc' = [wpc EXCEPT ![w] = "dec"]
    /\ cur' = [cur EXCEPT ![w] = c]
    /\ back' = [back EXCEPT ![w] = ResumeAt(wpc[w])]
    /\ mu' = IF wpc[w] = "lrecv" THEN Nil ELSE mu

\* case t := <-w.input, from the buffer.
Recv(w) ==
    /\ input # <<>>
    /\ Receive(w, Head(input))
    /\ input' = Tail(input)
    /\ UNCHANGED <<stopVars, counters, callVars, load, handled>>

\* The rendezvous of an unbuffered channel. A non-blocking call needs a
\* worker parked in the runner's select; a blocked call can be taken by any
\* receive.
Handoff(w, c) ==
    /\ BufLen = 0
    /\ callGoes(c, "send", "sent")
    /\ nonBlocking[c] => wpc[w] = "select"
    /\ Receive(w, c)
    /\ result' = [result EXCEPT ![c] = "accepted"]
    /\ UNCHANGED <<stopVars, input, counters, nonBlocking, load, handled>>

\* case <-w.ctx.Done() of the runner: on to drain.
CtxDone(w) ==
    /\ cancelled
    /\ workerGoes(w, "select", "recv")
    /\ UNCHANGED <<stopVars, input, counters, mu, callVars, cur, back, load, handled>>

\* The default case of the non-blocking receives at the top of drain and
\* inside its wait loop. A call that has yet to block on an unbuffered
\* channel is not found, so the default may be taken beside it.
RecvNothing(w) ==
    /\ input = <<>>
    /\ \/ workerGoes(w, "recv", "check")
       \/ workerGoes(w, "lrecv", "recheck")
    /\ UNCHANGED <<stopVars, input, counters, mu, callVars, cur, back, load, handled>>

\* One of the three loads of publishers, depth and inFlight, in that order;
\* the test stops at the first counter that is not zero.
Counter(i) == CASE i = 1 -> publishers [] i = 2 -> depth [] OTHER -> inFlight

Test(w, from, nonzero, zero) ==
    /\ \/ Counter(load[w]) # 0 /\ workerGoes(w, from, nonzero) /\ load' = [load EXCEPT ![w] = 1]
       \/ Counter(load[w]) = 0 /\ load[w] < 3 /\ workerGoes(w, from, from) /\ load' = [load EXCEPT ![w] = @ + 1]
       \/ Counter(load[w]) = 0 /\ load[w] = 3 /\ workerGoes(w, from, zero) /\ load' = [load EXCEPT ![w] = 1]
    /\ UNCHANGED <<stopVars, input, counters, mu, callVars, cur, back, handled>>

\* The three tests of drain: before taking the mutex, the condition of the
\* wait loop, and the break inside it.
DrainTest(w) == Test(w, "check", "lock", "returned")
LoopTest(w)  == Test(w, "loop", "lrecv", "unlock")
BreakTest(w) == Test(w, "recheck", "wait", "unlock")

Lock(w) ==
    /\ mu = Nil
    /\ workerGoes(w, "lock", "loop")
    /\ mu' = w
    /\ UNCHANGED <<stopVars, input, counters, callVars, cur, back, load, handled>>

\* Mutant: the waiter does not release the mutex.
WaitKeepsMutex(w) ==
    /\ workerGoes(w, "wait", "waiting")
    /\ UNCHANGED <<stopVars, input, counters, mu, callVars, cur, back, load, handled>>

\* cond.Wait: joins the waiters and releases the mutex in one step.
Wait(w) ==
    /\ workerGoes(w, "wait", "waiting")
    /\ mu' = Nil
    /\ UNCHANGED <<stopVars, input, counters, callVars, cur, back, load, handled>>

Unlock(w) ==
    /\ workerGoes(w, "unlock", "recv")
    /\ mu' = Nil
    /\ UNCHANGED <<stopVars, input, counters, callVars, cur, back, load, handled>>

drain(w) == RecvNothing(w) \/ DrainTest(w) \/ LoopTest(w) \/ BreakTest(w) \/ Lock(w) \/ Wait(w) \/ Unlock(w)

DecDepth(w) ==
    /\ workerGoes(w, "dec", "enter")
    /\ depth' = depth - 1
    /\ UNCHANGED <<stopVars, input, inFlight, publishers, mu, callVars, cur, back, load, handled>>

IncInFlight(w) ==
    /\ workerGoes(w, "enter", "notify")
    /\ inFlight' = inFlight + 1
    /\ UNCHANGED <<stopVars, input, depth, publishers, mu, callVars, cur, back, load, handled>>

SignalTaken(w) ==
    /\ wpc[w] = "notify"
    /\ signalDrain([wpc EXCEPT ![w] = "handler"])
    /\ UNCHANGED <<stopVars, input, counters, callVars, cur, back, load, handled>>

\* The handler returns, with or without an error, and the task goes back to
\* the sync.Pool.
Handle(w) ==
    /\ workerGoes(w, "handler", "exit")
    /\ handled' = Append(handled, cur[w])
    /\ cur' = [cur EXCEPT ![w] = Nil]
    /\ UNCHANGED <<stopVars, input, counters, mu, callVars, back, load>>

DecInFlight(w) ==
    /\ workerGoes(w, "exit", "notify2")
    /\ inFlight' = inFlight - 1
    /\ UNCHANGED <<stopVars, input, depth, publishers, mu, callVars, cur, back, load, handled>>

SignalHandled(w) ==
    /\ wpc[w] = "notify2"
    /\ signalDrain([wpc EXCEPT ![w] = back[w]])
    /\ UNCHANGED <<stopVars, input, counters, callVars, cur, back, load, handled>>

process(w) == DecDepth(w) \/ IncInFlight(w) \/ SignalTaken(w) \/ Handle(w) \/ DecInFlight(w) \/ SignalHandled(w)

runner(w) == Recv(w) \/ CtxDone(w) \/ drain(w) \/ process(w) \/ \E c \in Calls : Handoff(w, c)

-----------------------------------------------------------------------------
(* GracefulStop *)

stopperGoes(s, from, to) == spc[s] = from /\ spc' = [spc EXCEPT ![s] = to]

\* The CAS from running to draining decides who stops the pool.
CompareAndSwap(s) ==
    /\ \/ state = "running" /\ state' = "draining" /\ stopperGoes(s, "idle", "cancel")
       \/ state # "running" /\ stopperGoes(s, "idle", "await") /\ UNCHANGED state
    /\ UNCHANGED <<cancelled, stopped, input, counters, mu, callVars, workerVars, handled>>

Cancel(s) ==
    /\ stopperGoes(s, "cancel", "signal")
    /\ cancelled' = TRUE
    /\ UNCHANGED <<state, stopped, input, counters, mu, callVars, workerVars, handled>>

SignalStop(s) ==
    /\ stopperGoes(s, "signal", "wgWait")
    /\ signalDrain(wpc)
    /\ UNCHANGED <<state, cancelled, stopped, input, counters, callVars, cur, back, load, handled>>

\* Mutant: the runners are not waited for.
StopEarly(s) ==
    /\ stopperGoes(s, "wgWait", "returned")
    /\ state' = "stopped"
    /\ stopped' = TRUE
    /\ UNCHANGED <<cancelled, input, counters, mu, callVars, workerVars, handled>>

\* wg.Wait returns once every runner has; the state and the channel follow.
Stop(s) ==
    /\ \A w \in Workers : wpc[w] = "returned"
    /\ stopperGoes(s, "wgWait", "returned")
    /\ state' = "stopped"
    /\ stopped' = TRUE
    /\ UNCHANGED <<cancelled, input, counters, mu, callVars, workerVars, handled>>

\* A later caller waits for the channel `stopped`.
Await(s) ==
    /\ stopped
    /\ stopperGoes(s, "await", "returned")
    /\ UNCHANGED <<state, cancelled, stopped, input, counters, mu, callVars, workerVars, handled>>

\* The steps of a caller that has begun to stop the pool.
stopStep(s) == Cancel(s) \/ SignalStop(s) \/ Stop(s) \/ Await(s)

GracefulStop(s) == CompareAndSwap(s) \/ stopStep(s)

-----------------------------------------------------------------------------
Next ==
    \/ \E c \in Calls : tryPublish(c)
    \/ \E w \in Workers : runner(w)
    \/ \E s \in Stoppers : GracefulStop(s)

Spec == Init /\ [][Next]_vars

\* The context handed to New ends, as it does when the context given to the
\* client is cancelled. The pool's own context ends with it; nothing else in
\* the pool changes.
ParentCancel ==
    /\ cancelled' = TRUE
    /\ UNCHANGED <<state, stopped, spc, input, counters, mu, callVars, workerVars, handled>>

ParentSpec == Init /\ [][Next \/ ParentCancel]_vars

\* Goroutines that can run do run, and handlers return. A caller need not
\* call GracefulStop or tryPublish, nor need its context end.
Fairness ==
    /\ \A c \in Calls : WF_vars(callStep(c))
    /\ \A w \in Workers : WF_vars(runner(w))
    /\ \A s \in Stoppers : WF_vars(stopStep(s))

FairSpec == Spec /\ Fairness

-----------------------------------------------------------------------------
(* Properties *)

Accepted(c) == result[c] = "accepted"

\* The publisher has passed the accept gate and its send may still land.
MayLand(c) == cpc[c] \in {"inc", "send"}

\* "Track in-flight publishers so GracefulStop cannot finish while a send may
\* still land" (the comment that opens tryPublish).
NoSendAfterStop == stopped => \A c \in Calls : ~MayLand(c)

\* GracefulStop "drains": once it has closed `stopped`, the channel is empty,
\* every task whose publish was reported accepted has had its handler run, and
\* no publisher that passed the gate can still send
\* (tryPublish's accept gate against GracefulStop and drain).
StopDrains ==
    stopped =>
        /\ input = <<>>
        /\ NoSendAfterStop
        /\ \A c \in Calls : Accepted(c) => c \in Range(handled)

\* A task runs at most once, and only if its publisher was told it was
\* accepted: a caller that gets an error or accepted=false may Nak or retry
\* the message without its handler running as well (tryPublish's rollback
\* paths against the workers).
RunsOnceIfAccepted ==
    /\ \A i, j \in DOMAIN handled : handled[i] = handled[j] => i = j
    /\ \A i \in DOMAIN handled : Accepted(handled[i])

\* An accepted task is never mislaid: it is in the channel, in the hands of
\* one worker, or handled, and a task is in only one of these places.
AcceptedIsSomewhere ==
    \A c \in Calls :
        LET queued == c \in Range(input)
            held   == \E w \in Workers : cur[w] = c
            done   == c \in Range(handled)
        IN  /\ Accepted(c) <=> queued \/ held \/ done
            /\ ~(queued /\ held) /\ ~(queued /\ done) /\ ~(held /\ done)

\* The counters leak nothing: when no call is in progress and every worker is
\* back in its select or has returned, depth is the length of the channel and
\* nothing is counted as publishing or in flight. drain waits for these zeros,
\* and handlePoolBackpressure reads depth.
CountersSettle ==
    (/\ \A c \in Calls : cpc[c] \in {"idle", "done"}
     /\ \A w \in Workers : wpc[w] \in {"select", "returned"})
    => depth = Len(input) /\ inFlight = 0 /\ publishers = 0

\* A worker never blocks while it holds the drain mutex: whoever waits in
\* cond.Wait or runs a handler has released it, so signalDrain cannot wait
\* behind a handler.
MutexNotHeldAcrossHandler ==
    mu # Nil => wpc[mu] \in {"loop", "lrecv", "recheck", "wait", "unlock"}

\* Every GracefulStop call returns, for the winner of the CAS and for those
\* who wait on `stopped`: no wakeup of cond.Wait is lost.
StopReturns == \A s \in Stoppers : spc[s] # "idle" ~> spc[s] = "returned"

\* An accepted task is eventually handled, pool stopped or not.
AcceptedIsHandled == \A c \in Calls : Accepted(c) ~> c \in Range(handled)

\* The contract's view of the pool: a call is new until its outcome is known,
\* and an accepted one is done once its handler has returned.
StatusOf(c) ==
    IF result[c] = "none" THEN "new"
    ELSE IF c \in Range(handled) THEN "done"
    ELSE IF result[c] = "accepted" THEN "accepted" ELSE "refused"

Contract == INSTANCE PoolContract
    WITH status <- [c \in Calls |-> StatusOf(c)], phase <- state

\* The pool implements its contract (tryPublish, process and GracefulStop as
\* callers see them).
ImplementsContract == Contract!Spec
=============================================================================
