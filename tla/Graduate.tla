------------------------------ MODULE Graduate ------------------------------
(***************************************************************************)
(* shadow/shadow.go and shadow/graduate.go: handlers run a shadow on a      *)
(* sample of their messages, each in a goroutine of its own; a Graduate     *)
(* counts how often primary and shadow agree and ramps the sample rate      *)
(* window by window, until it aborts or is ready to be promoted.            *)
(*                                                                          *)
(* The counters, rate and phase are atomics without a lock around them:     *)
(* every load and store is a step. Rates are counted in units, FullRate of  *)
(* them being 1.0. A slot of Shadows is a message from the load of the      *)
(* phase until its shadow has been compared. Metrics are left out.          *)
(***************************************************************************)
EXTENDS Integers, FiniteSets

CONSTANTS
    Shadows,                          \* messages whose shadows can overlap
    StartRate, Step, MaxRate, FullRate,
    EvalWindow,                       \* GraduateConfig.Window
    MaxMismatch,                      \* MaxMismatchRate in percent
    MaxInFlight,                      \* of With used without a Graduate
    MaxCompared,                      \* bound: comparisons
    MaxOperatorCalls                  \* bound: calls of Abort and Promote

ASSUME GraduateAssumption ==
    /\ IsFiniteSet(Shadows)
    /\ {StartRate, Step, MaxRate, FullRate, EvalWindow, MaxInFlight} \subseteq Nat \ {0}
    /\ StartRate <= MaxRate /\ MaxRate <= FullRate
    /\ {MaxMismatch, MaxCompared, MaxOperatorCalls} \subseteq Nat

VARIABLES
    graduated,          \* the handler is a Graduate's, else one With's
    phase, reason, rate,
    compared, mismatches, \* g.samples and g.mismatches
    spc,                \* where a message or its shadow is
    local,              \* rate or next, the value a goroutine holds
    agreed,             \* what compare returned
    opc, operatorCalls  \* the operator, who calls Abort and Promote

graduateVars == <<graduated, phase, reason, rate, compared, mismatches, spc, local, agreed, opc, operatorCalls>>

\* Past the load of the phase, and about to act on it.
Evaluating == {"samples", "mismatches", "rate", "ready", "ramp", "ramping", "abort", "aborting"}
Running    == Evaluating \cup {"shadow", "compare", "tally", "phase", "end"}

GraduateTypeOK ==
    /\ graduated \in BOOLEAN
    /\ phase \in {"ramping", "ready", "holding", "aborted"} /\ reason \in {"", "mismatch_rate", "operator"}
    /\ rate \in StartRate..MaxRate
    /\ compared \in 0..MaxCompared + Cardinality(Shadows) /\ mismatches \in 0..compared
    /\ spc \in [Shadows -> Running \cup {"idle", "primary"}]
    /\ local \in [Shadows -> Nat] /\ agreed \in [Shadows -> BOOLEAN]
    /\ opc \in {"idle", "abort", "promote"} /\ operatorCalls \in 0..MaxOperatorCalls

GraduateInit ==
    /\ graduated \in BOOLEAN
    /\ phase = "ramping" /\ reason = "" /\ rate = StartRate
    /\ compared = 0 /\ mismatches = 0
    /\ spc = [s \in Shadows |-> "idle"] /\ local = [s \in Shadows |-> 0] /\ agreed = [s \in Shadows |-> TRUE]
    /\ opc = "idle" /\ operatorCalls = 0

atomics == <<phase, reason, rate, compared, mismatches>>
Move(s, from, to) ==
    /\ spc[s] = from /\ spc' = [spc EXCEPT ![s] = to]
    /\ UNCHANGED <<graduated, opc, operatorCalls>>

-----------------------------------------------------------------------------
(* The handler *)

\* A message is handled: the primary alone once aborted, else with the rate
\* read before the primary runs.
Handler(s) ==
    /\ compared < MaxCompared /\ (graduated => phase # "aborted")
    /\ Move(s, "idle", "primary")
    /\ local' = [local EXCEPT ![s] = rate]
    /\ UNCHANGED <<atomics, agreed>>

InFlight == {s \in Shadows : spc[s] \in Running}

\* The primary has returned: the message is sampled or not, and dropped when
\* the semaphore is full. A Graduate calls With, which makes the semaphore,
\* for every message.
With(s) ==
    /\ LET free == graduated \/ Cardinality(InFlight) < MaxInFlight
       IN \/ (local[s] < FullRate \/ ~free) /\ Move(s, "primary", "idle")
          \/ free /\ Move(s, "primary", "shadow")
    /\ local' = [local EXCEPT ![s] = 0] /\ UNCHANGED <<atomics, agreed>>

\* The shadow has returned, failed or not (a panic is a failure).
ShadowReturns(s) == Move(s, "shadow", "compare") /\ UNCHANGED <<atomics, local, agreed>>

\* compare: With's own, or observeCompare, which counts first.
Compare(s) ==
    /\ Move(s, "compare", IF graduated THEN "tally" ELSE "end")
    /\ \E match \in BOOLEAN : agreed' = [agreed EXCEPT ![s] = match]
    /\ compared' = compared + 1
    /\ UNCHANGED <<phase, reason, rate, mismatches, local>>

Tally(s) ==
    /\ Move(s, "tally", "phase")
    /\ mismatches' = IF agreed[s] THEN mismatches ELSE mismatches + 1
    /\ UNCHANGED <<phase, reason, rate, compared, local, agreed>>

\* A mismatch is recorded, and the goroutine ends.
ShadowEnds(s) ==
    /\ Move(s, "end", "idle")
    /\ agreed' = [agreed EXCEPT ![s] = TRUE] /\ local' = [local EXCEPT ![s] = 0]
    /\ UNCHANGED atomics

-----------------------------------------------------------------------------
(* evaluateWindow *)

\* Mutant: only PromoteReady ends the evaluation.
LoadPhaseReady(s) ==
    /\ Move(s, "phase", IF phase = "ready" THEN "end" ELSE "samples")
    /\ UNCHANGED <<atomics, local, agreed>>

LoadPhase(s) ==
    /\ Move(s, "phase", IF phase \in {"aborted", "ready"} THEN "end" ELSE "samples")
    /\ UNCHANGED <<atomics, local, agreed>>

\* Mutant: every sample is taken for the end of a window.
LoadSamplesAlways(s) ==
    /\ Move(s, "samples", "mismatches")
    /\ local' = [local EXCEPT ![s] = compared] /\ UNCHANGED <<atomics, agreed>>

LoadSamples(s) ==
    /\ Move(s, "samples", IF compared % EvalWindow = 0 THEN "mismatches" ELSE "end")
    /\ local' = [local EXCEPT ![s] = compared] /\ UNCHANGED <<atomics, agreed>>

LoadMismatches(s) ==
    /\ Move(s, "mismatches", IF 100 * mismatches > MaxMismatch * local[s] THEN "abort" ELSE "rate")
    /\ local' = [local EXCEPT ![s] = 0] /\ UNCHANGED <<atomics, agreed>>

\* Mutant: the step is not cut at MaxRate.
LoadRateUncapped(s) ==
    /\ Move(s, "rate", IF rate >= MaxRate THEN "ready" ELSE "ramp")
    /\ local' = [local EXCEPT ![s] = rate + Step]
    /\ UNCHANGED <<atomics, agreed>>

LoadRate(s) ==
    /\ Move(s, "rate", IF rate >= MaxRate THEN "ready" ELSE "ramp")
    /\ local' = [local EXCEPT ![s] = IF rate + Step < MaxRate THEN rate + Step ELSE MaxRate]
    /\ UNCHANGED <<atomics, agreed>>

StoreReady(s) ==
    /\ Move(s, "ready", "end") /\ phase' = "ready"
    /\ UNCHANGED <<reason, rate, compared, mismatches, local, agreed>>

StoreRate(s) ==
    /\ Move(s, "ramp", "ramping") /\ rate' = local[s]
    /\ UNCHANGED <<phase, reason, compared, mismatches, local, agreed>>

StoreRamping(s) ==
    /\ Move(s, "ramping", "end") /\ phase' = "ramping"
    /\ UNCHANGED <<reason, rate, compared, mismatches, local, agreed>>

\* Abort, called by evaluateWindow: the reason under the mutex, then the phase.
AbortReason(s) ==
    /\ Move(s, "abort", "aborting") /\ reason' = "mismatch_rate"
    /\ UNCHANGED <<phase, rate, compared, mismatches, local, agreed>>
AbortPhase(s) ==
    /\ Move(s, "aborting", "end") /\ phase' = "aborted"
    /\ UNCHANGED <<reason, rate, compared, mismatches, local, agreed>>

evaluateWindow(s) ==
    \/ LoadPhase(s) \/ LoadSamples(s) \/ LoadMismatches(s) \/ LoadRate(s)
    \/ StoreReady(s) \/ StoreRate(s) \/ StoreRamping(s) \/ AbortReason(s) \/ AbortPhase(s)

-----------------------------------------------------------------------------
(* The operator *)

Operator(from, to) ==
    /\ graduated /\ opc = from /\ opc' = to
    /\ operatorCalls' = IF from = "idle" THEN operatorCalls + 1 ELSE operatorCalls
    /\ operatorCalls' <= MaxOperatorCalls
    /\ UNCHANGED <<graduated, rate, compared, mismatches, spc, local, agreed>>

Abort      == Operator("idle", "abort") /\ reason' = "operator" /\ UNCHANGED phase
Aborted    == Operator("abort", "idle") /\ phase' = "aborted" /\ UNCHANGED reason
Promote    == phase = "ready" /\ Operator("idle", "promote") /\ UNCHANGED <<phase, reason>>
Promoted   == Operator("promote", "idle") /\ phase' = "holding" /\ UNCHANGED reason

Operating == Abort \/ Aborted \/ Promote \/ Promoted

Counting(s) == Handler(s) \/ With(s) \/ Compare(s) \/ Tally(s) \/ evaluateWindow(s)
GraduateNext == Operating \/ \E s \in Shadows : Counting(s) \/ ShadowReturns(s) \/ ShadowEnds(s)
GraduateSpec == GraduateInit /\ [][GraduateNext]_graduateVars

-----------------------------------------------------------------------------
(* Properties *)

\* The canary is aborted and nobody acts on a phase loaded before: no
\* evaluateWindow, whose plain stores overwrite PhaseAborted, and no Promote.
Quiet == phase = "aborted" /\ opc # "promote" /\ \A s \in Shadows : spc[s] \notin Evaluating

\* Once that is so an abort is final: no message, shadow or operator brings the
\* canary back or moves its rate.
AbortIsFinal == [][Quiet => Quiet' /\ rate' = rate]_graduateVars

\* The rate rises once per window of samples for each shadow that can overlap:
\* evaluations that load the same count each take the step (without Shadows
\* overlapping it would be once per window).
RampIsPaced ==
    rate <= StartRate + Step * Cardinality(Shadows) * (compared \div EvalWindow)
=============================================================================
