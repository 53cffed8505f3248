----------------------------- MODULE Supervisor -----------------------------
(***************************************************************************)
(* supervisor.go: Supervise, which keeps a push subscription alive by       *)
(* polling IsValid and subscribing again with backoff, racing against Stop, *)
(* a cancelled context and the server dropping interest; and                *)
(* SupervisePullProcess, which restarts Pull.Process.                       *)
(*                                                                          *)
(* Subscriptions are numbered in the order they are made. A case of a       *)
(* select may be taken whenever it is ready, and a timer may be ready at    *)
(* any time. Events are sent to OnEvent and, lossily, to a channel; they    *)
(* change nothing here and are left out.                                    *)
(***************************************************************************)
EXTENDS Integers, FiniteSets

CONSTANTS
    Kinds,           \* "push" (Supervise), "pull" (SupervisePullProcess)
    Limits,          \* values of MaxRetries to consider; -1: unlimited
    InitialBackoff,
    MaxBackoff,
    CheckInterval,
    HealthyInterval, \* HealthyBackoffInterval, 0: disabled
    HealthyChecks,   \* HealthyChecksBeforeBackoff
    MaxLosses,       \* bound: subscriptions the server drops
    MaxAttempts      \* bound: attempts are counted up to here, beyond every limit

ASSUME SupervisorAssumption ==
    /\ Kinds \subseteq {"push", "pull"} /\ Limits \subseteq 1..(MaxAttempts - 1) \cup {-1}
    /\ InitialBackoff \in Nat \ {0} /\ MaxBackoff \in Nat /\ InitialBackoff <= MaxBackoff
    /\ CheckInterval \in Nat \ {0} /\ HealthyInterval \in Nat /\ HealthyChecks \in Nat
    /\ MaxLosses \in Nat /\ MaxAttempts \in Nat

VARIABLES
    kind, maxRetries,
    made,      \* subscriptions made so far
    live,      \* subscriptions for which IsValid holds
    sub,       \* s.sub; 0 is nil
    pc,        \* of the loop
    held,      \* the loop's local subscription: newSub, old, or cleanupSub's
    attempts, backoff,
    interval, streak, \* currentInterval, healthyStreak
    ctxDone,
    stop,      \* of Stop: "no", "closed", "read", "done"
    target,    \* the subscription Stop unsubscribes
    losses,
    gaveUp,    \* history: the loop gave up
    tries,     \* history: subscribe calls since sub was last seen valid
    late       \* history: subscriptions installed after Stop read s.sub

config  == <<kind, maxRetries>>
timing  == <<attempts, backoff, interval, streak>>
stopper == <<stop, target>>
ghosts  == <<gaveUp, tries, late>>
vars    == <<config, made, live, sub, pc, held, timing, ctxDone, stopper, losses, ghosts>>

Subs == 1..made

TypeOK ==
    /\ kind \in Kinds /\ maxRetries \in Limits
    /\ live \subseteq Subs /\ sub \in 0..made /\ held \in 0..made /\ target \in 0..made
    /\ pc \in {"select", "backoff", "subscribe", "install", "unsubscribe",
               "cleanup", "cleaning", "run", "done"}
    /\ attempts \in 0..MaxAttempts /\ backoff \in InitialBackoff..MaxBackoff
    /\ interval \in CheckInterval..(CheckInterval + HealthyInterval)
    /\ streak \in 0..HealthyChecks
    /\ stop \in {"no", "closed", "read", "done"} /\ ctxDone \in BOOLEAN
    /\ losses \in 0..MaxLosses

\* Supervise has subscribed; SupervisePullProcess is about to run.
Init ==
    /\ kind \in Kinds /\ maxRetries \in Limits
    /\ pc = IF kind = "push" THEN "select" ELSE "run"
    /\ made = 1 /\ sub = 1 /\ live = {1} /\ held = 0
    /\ attempts = 0 /\ backoff = InitialBackoff
    /\ interval = CheckInterval /\ streak = 0
    /\ ctxDone = FALSE /\ stop = "no" /\ target = 0 /\ losses = 0
    /\ gaveUp = FALSE /\ tries = 0 /\ late = {}

Goto(from, to) == pc = from /\ pc' = to

Min2(a, b) == IF a < b THEN a ELSE b

Count(n) == Min2(n + 1, MaxAttempts)

nextBackoff(current) == Min2(current * 2, MaxBackoff)

OutOfRetries == maxRetries >= 0 /\ attempts >= maxRetries

-----------------------------------------------------------------------------
(* The loop of Supervise *)

\* A case <-ctx.Done() or <-s.stopCh of either select.
Cancelled ==
    /\ pc \in {"select", "backoff"} /\ kind = "push"
    /\ \/ ctxDone /\ pc' = "cleanup"
       \/ stop # "no" /\ pc' = "done"
    /\ UNCHANGED <<config, made, live, sub, held, timing, ctxDone, stopper, losses, ghosts>>

\* Mutant: a valid check does not reset the attempts.
TickValidKeepsAttempts ==
    /\ pc = "select" /\ sub \in live
    /\ tries' = 0
    /\ UNCHANGED <<config, made, live, sub, pc, held, timing, ctxDone, stopper, losses, gaveUp, late>>

\* A tick finds the subscription valid: attempts and backoff start again, and
\* the poll interval may grow. streak counts up to HealthyChecks, the only
\* value it is compared with.
TickValid ==
    /\ pc = "select" /\ sub \in live
    /\ attempts' = 0 /\ backoff' = InitialBackoff /\ tries' = 0
    /\ IF HealthyInterval > 0 /\ HealthyChecks > 0
       THEN /\ streak' = Min2(streak + 1, HealthyChecks)
            /\ interval' = IF streak' >= HealthyChecks /\ interval < HealthyInterval
                           THEN Min2(interval * 2, HealthyInterval) ELSE interval
       ELSE UNCHANGED <<streak, interval>>
    /\ UNCHANGED <<config, made, live, sub, pc, held, ctxDone, stopper, losses, gaveUp, late>>

\* Mutant: the tick resubscribes without asking IsValid.
TickUnchecked ==
    /\ pc = "select" /\ ~OutOfRetries
    /\ streak' = 0 /\ interval' = CheckInterval
    /\ pc' = "backoff" /\ attempts' = Count(attempts)
    /\ UNCHANGED <<config, made, live, sub, held, backoff, ctxDone, stopper, losses, ghosts>>

\* It finds it invalid: the loop gives up, or counts an attempt and waits.
TickInvalid ==
    /\ pc = "select" /\ sub \notin live
    /\ streak' = 0 /\ interval' = CheckInterval
    /\ IF OutOfRetries
       THEN pc' = "cleanup" /\ gaveUp' = TRUE /\ UNCHANGED attempts
       ELSE pc' = "backoff" /\ attempts' = Count(attempts) /\ UNCHANGED gaveUp
    /\ UNCHANGED <<config, made, live, sub, held, backoff, ctxDone, stopper, losses, tries, late>>

BackoffElapsed ==
    /\ kind = "push" /\ Goto("backoff", "subscribe")
    /\ UNCHANGED <<config, made, live, sub, held, timing, ctxDone, stopper, losses, ghosts>>

\* subscribe(ctx) makes a subscription.
SubscribeOk ==
    /\ Goto("subscribe", "install")
    /\ made' = made + 1 /\ live' = live \cup {made'} /\ held' = made'
    /\ tries' = Count(tries)
    /\ UNCHANGED <<config, sub, timing, ctxDone, stopper, losses, gaveUp, late>>

\* Mutant: a failed subscribe ends the loop.
SubscribeFailsReturns ==
    /\ Goto("subscribe", "done")
    /\ tries' = Count(tries)
    /\ UNCHANGED <<config, made, live, sub, held, timing, ctxDone, stopper, losses, gaveUp, late>>

\* subscribe(ctx) fails: the next wait is twice as long, up to MaxBackoff.
SubscribeFails ==
    /\ Goto("subscribe", "select")
    /\ backoff' = nextBackoff(backoff)
    /\ tries' = Count(tries)
    /\ UNCHANGED <<config, made, live, sub, held, attempts, interval, streak, ctxDone, stopper,
                   losses, gaveUp, late>>

\* The new subscription is swapped in under s.mu.
Install ==
    /\ Goto("install", "unsubscribe")
    /\ sub' = held /\ held' = sub
    /\ late' = IF stop \in {"read", "done"} THEN late \cup {held} ELSE late
    /\ UNCHANGED <<config, made, live, timing, ctxDone, stopper, losses, gaveUp, tries>>

\* The old one is unsubscribed and the backoff starts again.
UnsubscribeOld ==
    /\ Goto("unsubscribe", "select")
    /\ live' = live \ {held} /\ held' = 0 /\ backoff' = InitialBackoff
    /\ UNCHANGED <<config, made, sub, attempts, interval, streak, ctxDone, stopper, losses, ghosts>>

\* Mutant: the subscription is forgotten before it is unsubscribed.
CleanupForgets ==
    /\ Goto("cleanup", "done")
    /\ sub' = 0
    /\ UNCHANGED <<config, made, live, held, timing, ctxDone, stopper, losses, ghosts>>

\* cleanupSub takes s.sub under s.mu ...
CleanupTake ==
    /\ Goto("cleanup", "cleaning")
    /\ held' = sub /\ sub' = 0
    /\ UNCHANGED <<config, made, live, timing, ctxDone, stopper, losses, ghosts>>

\* ... and unsubscribes it, and the loop returns.
CleanupUnsubscribe ==
    /\ Goto("cleaning", "done")
    /\ live' = live \ {held}
    /\ UNCHANGED <<config, made, sub, held, timing, ctxDone, stopper, losses, ghosts>>

loop ==
    \/ Cancelled \/ TickValid \/ TickInvalid \/ BackoffElapsed
    \/ SubscribeOk \/ SubscribeFails \/ Install \/ UnsubscribeOld
    \/ CleanupTake \/ CleanupUnsubscribe

-----------------------------------------------------------------------------
(* SupervisePullProcess *)

\* run(ctx) returns nil or the context's error, and so does the supervisor.
RunReturns ==
    /\ Goto("run", "done")
    /\ UNCHANGED <<config, made, live, sub, held, timing, ctxDone, stopper, losses, ghosts>>

\* run(ctx) fails: the supervisor gives up or counts an attempt and waits.
RunFails ==
    /\ pc = "run"
    /\ IF OutOfRetries
       THEN pc' = "done" /\ gaveUp' = TRUE /\ UNCHANGED <<attempts, tries>>
       ELSE pc' = "backoff" /\ attempts' = Count(attempts) /\ tries' = Count(tries) /\ UNCHANGED gaveUp
    /\ UNCHANGED <<config, made, live, sub, held, backoff, interval, streak, ctxDone, stopper,
                   losses, late>>

\* The wait ends: ctx.Err is returned, or run is called again and the wait
\* after it will be longer.
RunAgain ==
    /\ kind = "pull" /\ pc = "backoff"
    /\ \/ ctxDone /\ pc' = "done" /\ UNCHANGED backoff
       \/ pc' = "run" /\ backoff' = nextBackoff(backoff)
    /\ UNCHANGED <<config, made, live, sub, held, attempts, interval, streak, ctxDone, stopper,
                   losses, ghosts>>

SupervisePullProcess == RunReturns \/ RunFails \/ RunAgain

-----------------------------------------------------------------------------
(* The rest of the program *)

\* Stop: stopCh is closed, s.sub read under s.mu, and unsubscribed.
StopClose ==
    /\ kind = "push" /\ stop = "no" /\ stop' = "closed"
    /\ UNCHANGED <<config, made, live, sub, pc, held, timing, ctxDone, target, losses, ghosts>>

StopRead ==
    /\ stop = "closed" /\ stop' = "read" /\ target' = sub
    /\ UNCHANGED <<config, made, live, sub, pc, held, timing, ctxDone, losses, ghosts>>

StopUnsubscribe ==
    /\ stop = "read" /\ stop' = "done" /\ live' = live \ {target}
    /\ UNCHANGED <<config, made, sub, pc, held, timing, ctxDone, target, losses, ghosts>>

Stop == StopClose \/ StopRead \/ StopUnsubscribe

Cancel ==
    /\ ~ctxDone /\ ctxDone' = TRUE
    /\ UNCHANGED <<config, made, live, sub, pc, held, timing, stopper, losses, ghosts>>

\* Interest is lost: a missed heartbeat, a deleted consumer.
Lose ==
    /\ kind = "push" /\ losses < MaxLosses /\ losses' = losses + 1
    /\ \E s \in live : live' = live \ {s}
    /\ UNCHANGED <<config, made, sub, pc, held, timing, ctxDone, stopper, ghosts>>

Next == loop \/ SupervisePullProcess \/ Stop \/ Cancel \/ Lose

Spec == Init /\ [][Next]_vars

\* The goroutines run, a select does not ignore a ready case for ever, and a
\* subscribe that is tried again and again succeeds.
Fairness ==
    /\ WF_vars(loop) /\ SF_vars(Cancelled) /\ SF_vars(SubscribeOk)
    /\ WF_vars(StopRead \/ StopUnsubscribe) /\ WF_vars(SupervisePullProcess)

FairSpec == Spec /\ Fairness

-----------------------------------------------------------------------------
(* Properties *)

\* At no moment are two subscriptions live, which would deliver to two
\* handlers: the loop subscribes only when the last one is invalid for good.
\* And when the loop and Stop have returned none is left behind, except one
\* that a resubscribe in progress installed after Stop had read s.sub (nobody
\* unsubscribes that one: the loop returns on stopCh without cleanup).
OneLive ==
    /\ Cardinality(live) <= 1
    /\ kind = "push" /\ pc = "done" /\ stop \in {"no", "done"} => live \subseteq late

\* The loop gives up only after MaxRetries calls of subscribe since the
\* subscription was last seen valid ("MaxRetries is resubscribe attempts after
\* interest is lost").
GivesUpAfterRetries == gaveUp => maxRetries >= 0 /\ tries = maxRetries

\* A push supervisor that is neither stopped nor cancelled ends up with a live
\* subscription or gives up aloud; it never just stops looking.
Healed ==
    kind = "push" => <>[](sub \in live \/ gaveUp \/ stop # "no" \/ ctxDone)

\* A cancelled context ends the loop, and unless Stop runs too, with nothing
\* subscribed, wherever in a resubscribe it was.
CancelCleansUp ==
    ctxDone /\ kind = "push" ~> pc = "done" /\ (live = {} \/ stop # "no")
=============================================================================
