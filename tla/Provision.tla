----------------------------- MODULE Provision -----------------------------
(***************************************************************************)
(* stream_manager.go, consumer_manager.go, setup.go, ctxutil.go and the      *)
(* consumer side of replay.go: operations that are several requests to the   *)
(* server, by several clients at once, any of which can fail, have its reply *)
(* lost, or be left behind. runWithContext runs the requests of a call in a  *)
(* goroutine; when the context ends first the caller gets its error and the  *)
(* goroutine goes on.                                                        *)
(*                                                                           *)
(* One stream, known by its number of replicas, and one durable of it, known *)
(* by its deliver policy and one of the settings that can be updated. Names  *)
(* and subjects are valid.                                                   *)
(***************************************************************************)
EXTENDS Integers, FiniteSets

CONSTANTS
    Admins,                 \* clients that provision
    Operations,             \* what they do: "reset", "ensure", "setup", "multi"
    Replicas,               \* StreamConfig.Replicas; 0 leaves it unset
    MaxOperations, MaxFaults, MaxAbandoned \* bounds: operations; failed requests; calls left behind

ASSUME ProvisionAssumption ==
    /\ Operations \subseteq {"reset", "ensure", "setup", "multi"} /\ Replicas \subseteq Nat
    /\ {MaxOperations, MaxFaults, MaxAbandoned} \subseteq Nat

VARIABLES
    stream, durable,  \* the server: replicas, 0 without a stream; policy and setting
    apc, operation,   \* of a client: where it is, what it does and wants
    call,             \* the call it waits for
    abandoned,        \* goroutines whose caller is gone
    sub,              \* its subscription
    faults, operations,
    before, disturbed, \* history: the durable when the operation began; others changed it since
    had,               \* history: the numbers of replicas the stream has had
    blind,             \* history: an update of the stream without knowing its replicas
    stuck              \* history: the Unsubscribe of a failed setup failed too

provisionVars == <<stream, durable, apc, operation, call, abandoned, sub, faults, operations, before, disturbed, had, blind, stuck>>

NoDurable == [policy |-> "none", setting |-> 0]
Durables  == [policy : {"all", "start"}, setting : 1..2]
Default   == 1 \* defaultStreamReplicas
NoCall    == [fn |-> "none", step |-> "done", want |-> NoDurable, result |-> "", seen |-> NoDurable, id |-> 0]

ProvisionTypeOK ==
    /\ stream \in 0..3 /\ durable \in Durables \cup {NoDurable}
    /\ apc \in [Admins -> {"idle", "ok", "failed", "base", "look", "delete", "create", "stream", "durable",
                           "subscribe", "apply", "update", "unsubscribe"}]
    /\ sub \in [Admins -> {"none", "live", "drained"}]
    /\ Cardinality(abandoned) <= MaxAbandoned /\ faults \in 0..MaxFaults

ProvisionInit ==
    /\ stream \in {0, 3} /\ durable \in IF stream = 0 THEN {NoDurable} ELSE {NoDurable, [policy |-> "all", setting |-> 2]}
    /\ apc = [a \in Admins |-> "idle"] /\ operation = [a \in Admins |-> [kind |-> "none", id |-> 0]]
    /\ call = [a \in Admins |-> NoCall] /\ abandoned = {} /\ sub = [a \in Admins |-> "none"]
    /\ faults = 0 /\ operations = 0
    /\ before = [a \in Admins |-> NoDurable] /\ disturbed = [a \in Admins |-> FALSE]
    /\ had = {stream} /\ blind = FALSE /\ stuck = {}

-----------------------------------------------------------------------------
(* What a request of a call can do: the call's next step, the stream, the durable, *)
(* whether it is a fault.                                                           *)

To(c, step, result, s, d) == [c |-> [c EXCEPT !.step = step, !.result = result], stream |-> s, durable |-> d, fault |-> FALSE]
Reply(c, result)   == To(c, "done", result, stream, durable)
Fault(outcome)     == [outcome EXCEPT !.fault = TRUE]

\* A change of the durable: done; not done; done, with its reply lost.
Change(c, d, failed) ==
    {To(c, "done", "ok", stream, d), Fault(To(c, failed, "error", stream, durable)), Fault(To(c, failed, "error", stream, d))}

ConsumerInfo(c) ==
    {IF durable = NoDurable THEN Reply(c, "notfound") ELSE [Reply(c, "ok") EXCEPT !.c.seen = durable],
     Fault(Reply(c, "error"))}

DeleteConsumer(c) == IF durable = NoDurable THEN {Reply(c, "error")} ELSE Change(c, NoDurable, "done")

UpdateConsumer(c) == IF durable = NoDurable THEN {Reply(c, "error")} ELSE Change(c, c.want, "done")

\* A policy of "none" is one left unset: it stays, or is the default.
Wanted(c, d) == [c.want EXCEPT !.policy = IF @ # "none" THEN @ ELSE IF d = NoDurable THEN "all" ELSE d.policy]

\* AddConsumer, on any error ConsumerInfo, and UpdateConsumer if the policy stays.
CreateOrUpdateConsumer(c) ==
    CASE c.step = "add" ->
           IF stream = 0 THEN {Reply(c, "error")}
           ELSE IF durable = NoDurable THEN Change(c, Wanted(c, NoDurable), "look")
           ELSE IF durable = Wanted(c, NoDurable) THEN {Reply(c, "ok"), Fault(To(c, "look", "", stream, durable))}
           ELSE {To(c, "look", "", stream, durable)}
      [] c.step = "look" ->
           {IF durable = NoDurable \/ Wanted(c, durable).policy # durable.policy THEN Reply(c, "error")
            ELSE [To(c, "update", "", stream, durable) EXCEPT !.c.want = Wanted(c, durable)],
            Fault(Reply(c, "error"))}
      [] c.step = "update" -> UpdateConsumer(c)

\* Mutant: the update takes the default for replicas that were left unset.
CreateOrUpdateStreamDefault(c) ==
    CASE c.step = "add" ->
           IF stream = 0 THEN {To(c, "done", "ok", Default, durable)} ELSE {To(c, "update", "", stream, durable)}
      [] c.step = "look" -> {Reply(c, "error")}
      [] c.step = "update" ->
           {To(c, "done", "ok", IF c.want.setting = 0 THEN Default ELSE c.want.setting, durable)}

\* AddStream, on any error StreamInfo for the replicas if they are unset, and UpdateStream.
CreateOrUpdateStream(c) ==
    LET replicas == c.want.setting
        fresh    == IF replicas = 0 THEN Default ELSE replicas
        look     == IF replicas = 0 THEN "look" ELSE "update"
    IN CASE c.step = "add" ->
              IF stream = 0
              THEN {To(c, "done", "ok", fresh, durable), Fault(To(c, look, "", stream, durable)), Fault(To(c, look, "", fresh, durable))}
              ELSE {IF stream = fresh THEN Reply(c, "ok") ELSE To(c, look, "", stream, durable),
                    Fault(To(c, look, "", stream, durable))}
         [] c.step = "look" ->
              {[To(c, "update", IF stream = 0 THEN "blind" ELSE "", stream, durable)
                   EXCEPT !.c.want.setting = IF stream = 0 THEN Default ELSE stream],
               Fault([To(c, "update", "blind", stream, durable) EXCEPT !.c.want.setting = Default])}
         [] c.step = "update" ->
              IF stream = 0 THEN {Reply(c, "error")}
              ELSE {To(c, "done", "ok", replicas, durable), Fault(Reply(c, "error")), Fault(To(c, "done", "error", replicas, durable))}

Outcomes(c) ==
    CASE c.fn = "info"   -> ConsumerInfo(c)
      [] c.fn = "delete" -> DeleteConsumer(c)
      [] c.fn = "update" -> UpdateConsumer(c)
      [] c.fn = "ensure" -> CreateOrUpdateConsumer(c)
      [] c.fn = "stream" -> CreateOrUpdateStream(c)

-----------------------------------------------------------------------------
(* runWithContext *)

Server(o) ==
    /\ faults' = (IF o.fault THEN faults + 1 ELSE faults) /\ faults' <= MaxFaults
    /\ stream' = o.stream /\ durable' = o.durable
    /\ had' = had \cup {stream'} /\ blind' = (blind \/ o.c.result = "blind")

\* Others than the operation id changed the durable.
Disturb(id) ==
    disturbed' = [a \in Admins |-> disturbed[a] \/ (durable' # durable /\ id # operation[a].id)]

Request(a) ==
    /\ call[a].step # "done"
    /\ \E o \in Outcomes(call[a]) : Server(o) /\ call' = [call EXCEPT ![a] = o.c]
    /\ Disturb(call[a].id)
    /\ UNCHANGED <<apc, operation, abandoned, sub, operations, before, stuck>>

\* The context ends during a call: the operation fails, the goroutine goes on.
Abandon(a) ==
    /\ call[a].step # "done" /\ Cardinality(abandoned) < MaxAbandoned
    /\ abandoned' = abandoned \cup {call[a]} /\ call' = [call EXCEPT ![a] = NoCall]
    /\ apc' = [apc EXCEPT ![a] = IF sub[a] = "live" THEN "unsubscribe" ELSE "failed"]
    /\ UNCHANGED <<stream, durable, operation, sub, faults, operations, before, disturbed, had, blind, stuck>>

LateRequest ==
    \E c \in abandoned :
        /\ \E o \in Outcomes(c) :
             Server(o) /\ abandoned' = (abandoned \ {c}) \cup IF o.c.step = "done" THEN {} ELSE {o.c}
        /\ Disturb(c.id)
        /\ UNCHANGED <<apc, operation, call, sub, operations, before, stuck>>

-----------------------------------------------------------------------------
(* The operations *)

server == <<stream, durable, faults, had, blind>>

\* The client goes on to pc with a call of fn, or without one.
Calls(a, pc, fn, want) ==
    /\ apc' = [apc EXCEPT ![a] = pc]
    /\ call' = [call EXCEPT ![a] = [fn |-> fn, step |-> IF fn \in {"ensure", "stream"} THEN "add" ELSE "run",
                                    want |-> want, result |-> "", seen |-> NoDurable, id |-> operation'[a].id]]
Goes(a, pc) == apc' = [apc EXCEPT ![a] = pc] /\ call' = [call EXCEPT ![a] = NoCall]
At(a, pc) ==
    /\ apc[a] = pc /\ call[a].step = "done"
    /\ UNCHANGED <<server, abandoned, operations, before, disturbed, stuck>>

\* A client begins: ResetConsumer with a deliver policy, CreateOrUpdateConsumer, or
\* SetupWorker with one filter or several.
Begin(a) ==
    /\ apc[a] \in {"idle", "ok", "failed"} /\ sub[a] # "live" /\ operations < MaxOperations
    /\ operations' = operations + 1
    /\ before' = [before EXCEPT ![a] = durable] /\ disturbed' = [disturbed EXCEPT ![a] = FALSE]
    /\ \E kind \in Operations, policy \in {"none", "start"}, replicas \in Replicas :
         /\ operation' = [operation EXCEPT ![a] = [kind |-> kind, policy |-> policy, replicas |-> replicas, id |-> operations']]
         /\ CASE kind = "reset"  -> policy = "start" /\ replicas = 0 /\ Calls(a, "base", "info", NoDurable)
              [] kind = "ensure" -> replicas = 0 /\ Calls(a, "create", "ensure", [policy |-> policy, setting |-> 1])
              [] OTHER           -> Calls(a, "stream", "stream", [policy |-> "none", setting |-> replicas])
    /\ UNCHANGED <<server, abandoned, sub, stuck>>

\* Mutant: the durable is made from the defaults, not from what it was.
applyReplayConfigFresh(base, policy) == [policy |-> policy, setting |-> 1]

\* The settings of the durable stay, or are the defaults if there is none.
applyReplayConfig(base, policy) ==
    [policy |-> policy, setting |-> IF base = NoDurable THEN 1 ELSE base.setting]

\* baseDurableConfig, then recreateDurable's look.
Base(a) ==
    /\ At(a, "base") /\ UNCHANGED sub
    /\ IF call[a].result = "error" THEN Goes(a, "failed") /\ UNCHANGED operation
       ELSE /\ operation' = [operation EXCEPT ![a] =
                 [kind |-> "reset", id |-> operation[a].id, want |-> applyReplayConfig(call[a].seen, operation[a].policy)]]
            /\ Calls(a, "look", "info", NoDurable)

Look(a) ==
    /\ At(a, "look") /\ UNCHANGED <<operation, sub>>
    /\ CASE call[a].result = "ok"       -> Calls(a, "delete", "delete", NoDurable)
         [] call[a].result = "notfound" -> Calls(a, "create", "ensure", operation[a].want)
         [] OTHER                       -> Goes(a, "failed")

Deleted(a) ==
    /\ At(a, "delete") /\ UNCHANGED <<operation, sub>>
    /\ IF call[a].result = "ok" THEN Calls(a, "create", "ensure", operation[a].want) ELSE Goes(a, "failed")

Created(a) ==
    /\ At(a, "create") /\ UNCHANGED <<operation, sub>>
    /\ Goes(a, IF call[a].result = "ok" THEN "ok" ELSE "failed")

StreamReady(a) ==
    /\ At(a, "stream") /\ UNCHANGED <<operation, sub>>
    /\ IF call[a].result # "ok" THEN Goes(a, "failed")
       ELSE IF operation[a].kind = "multi"
       THEN Calls(a, "durable", "ensure", [policy |-> operation[a].policy, setting |-> 1])
       ELSE Goes(a, "subscribe")

DurableReady(a) ==
    /\ At(a, "durable") /\ UNCHANGED <<operation, sub>>
    /\ Goes(a, IF call[a].result = "ok" THEN "subscribe" ELSE "failed")

\* js.QueueSubscribe: binds to the durable; with one filter it makes the durable if there is none.
Subscribe(a) ==
    /\ apc[a] = "subscribe" /\ UNCHANGED <<stream, operation, abandoned, faults, operations, before, had, blind, stuck>>
    /\ \/ /\ sub' = [sub EXCEPT ![a] = "live"] /\ stream # 0 /\ (operation[a].kind = "multi" => durable # NoDurable)
          /\ durable' = IF durable = NoDurable THEN [policy |-> "all", setting |-> 1] ELSE durable
          /\ Calls(a, "apply", "info", NoDurable)
       \/ Goes(a, "failed") /\ UNCHANGED <<sub, durable>>
    /\ Disturb(operation[a].id)

\* Mutant: a setup that fails to apply the configuration keeps its subscription.
ApplyKept(a) ==
    /\ At(a, "apply") /\ UNCHANGED <<operation, sub>>
    /\ IF call[a].result # "ok" \/ operation[a].policy \notin {"none", call[a].seen.policy} THEN Goes(a, "failed")
       ELSE IF call[a].seen.setting = 1 THEN Goes(a, "ok")
       ELSE Calls(a, "update", "update", [call[a].seen EXCEPT !.setting = 1])

\* applySetupDurableConfig: a policy cannot change, settings that differ are updated.
Apply(a) ==
    /\ At(a, "apply") /\ UNCHANGED <<operation, sub>>
    /\ IF call[a].result # "ok" \/ operation[a].policy \notin {"none", call[a].seen.policy} THEN Goes(a, "unsubscribe")
       ELSE IF call[a].seen.setting = 1 THEN Goes(a, "ok")
       ELSE Calls(a, "update", "update", [call[a].seen EXCEPT !.setting = 1])

Updated(a) ==
    /\ At(a, "update") /\ UNCHANGED <<operation, sub>>
    /\ Goes(a, IF call[a].result = "ok" THEN "ok" ELSE "unsubscribe")

\* The error of Unsubscribe is ignored.
Unsubscribe(a) ==
    /\ apc[a] = "unsubscribe" /\ Goes(a, "failed")
    /\ \/ sub' = [sub EXCEPT ![a] = "none"] /\ UNCHANGED stuck
       \/ stuck' = stuck \cup {a} /\ UNCHANGED sub
    /\ UNCHANGED <<server, operation, abandoned, operations, before, disturbed>>

\* drainOnCancel: the context of a worker that was set up ends.
DrainOnCancel(a) ==
    /\ apc[a] = "ok" /\ sub[a] = "live" /\ sub' = [sub EXCEPT ![a] = "drained"]
    /\ UNCHANGED <<server, apc, operation, call, abandoned, operations, before, disturbed, stuck>>

Resetting(a) == Base(a) \/ Look(a) \/ Deleted(a) \/ Created(a)
SettingUp(a) ==
    \/ StreamReady(a) \/ DurableReady(a) \/ Subscribe(a) \/ Apply(a) \/ Updated(a)
    \/ Unsubscribe(a) \/ DrainOnCancel(a)
ProvisionNext ==
    LateRequest \/ \E a \in Admins : Begin(a) \/ Request(a) \/ Abandon(a) \/ Resetting(a) \/ SettingUp(a)
ProvisionSpec == ProvisionInit /\ [][ProvisionNext]_provisionVars

-----------------------------------------------------------------------------
(* Properties *)

\* A ResetConsumer whose durable nobody else changed, neither another client nor a
\* goroutine left behind by an earlier operation: when it succeeds, the durable has
\* the new policy and otherwise its old settings; when it fails, at whatever request,
\* the durable is the old one, the new one or gone.
ResetIsAllOrNothing ==
    \A a \in Admins : operation[a].kind = "reset" /\ ~disturbed[a] =>
        LET new == [policy |-> "start", setting |-> IF before[a] = NoDurable THEN 1 ELSE before[a].setting]
        IN /\ apc[a] = "ok" => durable = new
           /\ apc[a] = "failed" => durable \in {before[a], new, NoDurable}

\* A subscription outlives SetupWorker only if it succeeded, at whatever request it
\* failed (the exception is an Unsubscribe that fails too, which SetupWorker ignores).
SetupOwnsItsSubscription ==
    \A a \in Admins : sub[a] = "live" => apc[a] \in {"apply", "update", "unsubscribe", "ok"} \/ a \in stuck

\* CreateOrUpdateStream with Replicas left unset writes back a number the stream has
\* had: the number of replicas changes to what some caller asked for or, when two
\* callers cross, back to what it was, but not to the default. The exception is a
\* StreamInfo in between that fails or finds no stream yet: the update sets the default.
ReplicasArePreserved ==
    [][stream # 0 /\ ~blind' => stream' \in had \cup (Replicas \ {0})]_provisionVars
=============================================================================
