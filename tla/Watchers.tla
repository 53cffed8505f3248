------------------------------ MODULE Watchers ------------------------------
(***************************************************************************)
(* slow_consumer.go, soft_liveness.go and behavior_fingerprint.go: three    *)
(* loops that poll a consumer while messages are published, delivered and   *)
(* handled, and raise an alarm about what they have seen for long enough.   *)
(*                                                                          *)
(* Between two polls pass 1..MaxDelay units of time: a poll that takes      *)
(* longer than PollInterval delays the next. A weighted mean (ewmaFloat) is *)
(* some value between its two arguments. Logs, metrics and the lossy Events *)
(* channel, which nothing in the library reads, are left out.               *)
(***************************************************************************)
EXTENDS Integers, Sequences, SequencesExt

CONSTANTS
    Watched,          \* loops to consider: "slow", "soft", "behavior"
    MaxTip,           \* bound: messages published
    MaxDelay,         \* bound: time between two polls
    MaxAckPending, PendingThreshold, LagThreshold, AckPendingLimit,
    SustainFor,       \* of the slow and the behavior loop
    StallAfter, RisingWindows,
    Latencies,        \* durations a handler can take
    Window, Warmup, MinSamples, LatencyFactor,
    MaxSamples        \* bound: handlings within one window

ASSUME WatchersAssumption ==
    /\ Watched \subseteq {"slow", "soft", "behavior"}
    /\ {MaxTip, SustainFor, StallAfter, RisingWindows, Window, Warmup, MinSamples, MaxSamples} \subseteq Nat
    /\ {MaxDelay, MaxAckPending, PendingThreshold, LagThreshold, AckPendingLimit, LatencyFactor} \subseteq Nat \ {0}
    /\ Latencies \subseteq Nat

VARIABLES
    watched, circuitStop,   \* of the configuration
    tip, delivered, acked,  \* of the stream and the consumer
    idle,                   \* time since a message was processed, up to StallAfter
    pc, waited,             \* of the loop; waited: the time since its last poll
    info,                   \* what ConsumerInfo returned: delivered, pending, ackPending
    breach,                 \* time since breachStart, up to SustainFor; -1: no breach
    prevPending, rising,    \* of the soft loop; -1: none yet
    samples,                \* b.samples, as pairs of age and duration
    observed, age,          \* b.totalObserved up to MinSamples, time since startedAt
    baseline,               \* rate and latency, 0 when there is none
    sinceReport, kv,        \* time since lastReportAt up to Window, and what was reported
    raised,                 \* slow, stalled or anomalous
    readings,               \* history: what the polls read since the last alarm
    cause                   \* history: the readings an alarm was raised on

configVars   == <<watched, circuitStop>>
consumerVars == <<tip, delivered, acked, idle>>
softVars     == <<prevPending, rising>>
behaviorVars == <<samples, observed, age, baseline, sinceReport, kv>>
loopVars     == <<pc, waited>>
watchVars    == <<configVars, consumerVars, loopVars, info, breach, softVars, behaviorVars, raised, readings, cause>>

Keep == IF SustainFor > RisingWindows THEN SustainFor + 1 ELSE RisingWindows + 1

WatchTypeOK ==
    /\ watched \in Watched /\ circuitStop \in BOOLEAN
    /\ tip \in 0..MaxTip /\ delivered \in 0..tip /\ acked \in 0..delivered /\ idle \in 0..StallAfter
    /\ pc \in {"select", "second", "emit", "done"} /\ waited \in 0..MaxDelay
    /\ info \in [delivered : 0..MaxTip, pending : 0..MaxTip, ackPending : 0..MaxTip]
    /\ breach \in -1..SustainFor /\ prevPending \in -1..MaxTip /\ rising \in Nat
    /\ samples \in Seq((0..Window) \X Latencies) /\ Len(samples) <= MaxSamples
    /\ observed \in 0..MinSamples /\ age \in Nat
    /\ baseline \in [rate : Nat, latency : Nat]
    /\ sinceReport \in 0..Window /\ kv \in {"none", "normal", "anomaly"}
    /\ raised \in BOOLEAN /\ Len(readings) <= Keep

NoBaseline == [rate |-> 0, latency |-> 0]

\* What each loop starts with. The activity a SoftLiveness watches was touched when
\* it was made.
WatchSlowConsumer == breach = -1 /\ info = [delivered |-> 0, pending |-> 0, ackPending |-> 0]
WatchSoftLiveness == prevPending = -1 /\ rising = 0 /\ idle = 0
WatchBehaviorFingerprint ==
    /\ samples = <<>> /\ observed = 0 /\ age = 0 /\ baseline = NoBaseline
    /\ sinceReport = Window /\ kv = "none"

WatchInit ==
    /\ watched \in Watched /\ circuitStop \in BOOLEAN
    /\ tip = 0 /\ delivered = 0 /\ acked = 0
    /\ WatchSlowConsumer /\ WatchSoftLiveness /\ WatchBehaviorFingerprint
    /\ pc = "select" /\ waited = 0 /\ raised = FALSE /\ readings = <<>> /\ cause = <<>>

UpTo(bound, n) == IF n < bound THEN n ELSE bound
Later(bound, t) == UpTo(bound, t + waited')

\* The last readings are enough to judge an alarm by.
Saw(reading) ==
    readings' = LET all == Append(readings, reading)
                IN IF Len(all) > Keep THEN Tail(all) ELSE all

-----------------------------------------------------------------------------
(* The consumer. Handling a message calls Touch (after a success) and Observe. *)

others == <<configVars, loopVars, info, breach, prevPending, rising, age, baseline, sinceReport, kv, raised, readings, cause>>

Publish ==
    /\ tip < MaxTip /\ tip' = tip + 1
    /\ UNCHANGED <<others, delivered, acked, idle, samples, observed>>

Deliver ==
    /\ delivered < tip /\ delivered - acked < MaxAckPending /\ delivered' = delivered + 1
    /\ UNCHANGED <<others, tip, acked, idle, samples, observed>>

Handle ==
    /\ acked < delivered /\ acked' = acked + 1 /\ idle' = 0
    /\ UNCHANGED <<others, tip, delivered, samples, observed>>

trimmed(seq) == SelectSeq(seq, LAMBDA s : s[1] <= Window)

\* BehaviorFingerprint.Observe, which looks at nothing else of the consumer.
Observe ==
    /\ Len(samples) < MaxSamples
    /\ \E d \in Latencies : samples' = trimmed(Append(samples, <<0, d>>))
    /\ observed' = UpTo(MinSamples, observed + 1)
    /\ UNCHANGED <<others, consumerVars>>

Consuming == IF watched = "behavior" THEN Observe ELSE Publish \/ Deliver \/ Handle

-----------------------------------------------------------------------------
(* All loops *)

\* A tick of the loop that is watching.
Tick(loop) ==
    /\ pc = "select" /\ watched = loop
    /\ waited' \in 1..MaxDelay /\ idle' = Later(StallAfter, idle)

\* Stop, or the context ends.
WatchStops ==
    /\ pc = "select" /\ pc' = "done"
    /\ UNCHANGED <<configVars, consumerVars, waited, info, breach, softVars, behaviorVars, raised, readings, cause>>

\* The alarm is raised on the readings so far, and the callback called.
Raise == raised' = TRUE /\ cause' = readings' /\ pc' = "emit"
Pass  == pc' = "select" /\ UNCHANGED <<raised, cause>>

\* The callback has returned.
Returned(loop) ==
    /\ pc = "emit" /\ watched = loop /\ cause' = <<>>
    /\ UNCHANGED <<configVars, consumerVars, waited, info, prevPending, samples, observed, age, baseline, sinceReport, raised>>

\* The loop returns under circuitStop. Otherwise it starts over, but stays raised.
SlowEmitted ==
    /\ Returned("slow") /\ breach' = -1 /\ readings' = <<>>
    /\ pc' = (IF circuitStop THEN "done" ELSE "select") /\ UNCHANGED <<rising, kv>>

SoftEmitted ==
    /\ Returned("soft") /\ rising' = 0 /\ readings' = <<Last(readings)>>
    /\ pc' = (IF circuitStop THEN "done" ELSE "select") /\ UNCHANGED <<breach, kv>>

\* The anomaly is reported to the KV bucket, which may fail. Under circuitStop Stop
\* closes stopCh; a tick that is due may still win the next select against it.
BehaviorEmitted ==
    /\ Returned("behavior") /\ breach' = -1 /\ readings' = <<>>
    /\ kv' \in {kv, "anomaly"} /\ pc' = "select" /\ UNCHANGED rising

Emitted == SlowEmitted \/ SoftEmitted \/ BehaviorEmitted

\* The time a breach has lasted when a poll comes waited' after the last one.
Lasting == IF breach = -1 THEN -1 ELSE Later(SustainFor, breach)

\* Mutant: a poll without a breach does not end the breach.
SustainedKept(breached, lasting) ==
    /\ breach' = IF lasting = -1 /\ breached THEN 0 ELSE lasting
    /\ Saw(<<IF breached THEN "breach" ELSE "clear", waited'>>)
    /\ IF breached /\ breach' >= SustainFor /\ (circuitStop \/ ~raised) THEN Raise ELSE Pass

\* An alarm that was raised before is raised again only under circuitStop.
Sustained(breached, lasting) ==
    /\ breach' = IF ~breached THEN -1 ELSE IF lasting = -1 THEN 0 ELSE lasting
    /\ Saw(<<IF breached THEN "breach" ELSE "clear", waited'>>)
    /\ IF breached /\ breach' >= SustainFor /\ (circuitStop \/ ~raised) THEN Raise ELSE Pass

-----------------------------------------------------------------------------
(* SlowConsumer.loop *)

ReadInfo ==
    info' = [delivered |-> delivered, pending |-> tip - delivered, ackPending |-> delivered - acked]

\* ConsumerInfo, which may fail.
SlowPoll ==
    /\ Tick("slow")
    /\ \/ ReadInfo /\ pc' = "second" /\ breach' = Lasting /\ UNCHANGED readings
       \/ breach' = -1 /\ Saw(<<"clear", waited'>>) /\ UNCHANGED <<info, pc>>
    /\ UNCHANGED <<configVars, tip, delivered, acked, softVars, behaviorVars, raised, cause>>

ConsumerLagMessages(last, seq) == IF last <= seq THEN 0 ELSE last - seq

EvaluateSlowConsumer(lag) ==
    \/ info.pending >= PendingThreshold
    \/ lag >= LagThreshold
    \/ info.ackPending >= AckPendingLimit

\* The stream's tip is read after the consumer's state; 0 when that fails.
SlowEvaluate ==
    /\ pc = "second" /\ watched = "slow" /\ UNCHANGED waited
    /\ \E last \in {0, tip} : Sustained(EvaluateSlowConsumer(ConsumerLagMessages(last, info.delivered)), breach)
    /\ UNCHANGED <<configVars, consumerVars, info, softVars, behaviorVars>>

-----------------------------------------------------------------------------
(* SoftLiveness.loop *)

\* A poll that fails leaves everything as it was.
SoftPoll ==
    /\ Tick("soft")
    /\ \/ /\ ReadInfo /\ pc' = "second" /\ Saw(tip - delivered)
          /\ rising' = IF prevPending >= 0 /\ tip - delivered > prevPending THEN rising + 1 ELSE 0
          /\ prevPending' = tip - delivered
       \/ UNCHANGED <<info, pc, readings, softVars>>
    /\ UNCHANGED <<configVars, tip, delivered, acked, breach, behaviorVars, raised, cause>>

SoftEvaluate ==
    /\ pc = "second" /\ watched = "soft" /\ UNCHANGED <<waited, readings>>
    /\ IF rising >= RisingWindows /\ idle >= StallAfter /\ info.pending > 0
       THEN Raise ELSE Pass
    /\ UNCHANGED <<configVars, consumerVars, info, breach, softVars, behaviorVars>>

-----------------------------------------------------------------------------
(* BehaviorFingerprint.tick, under its mutex *)

Older(seq) == trimmed([i \in DOMAIN seq |-> <<seq[i][1] + waited', seq[i][2]>>])

\* windowStatsLocked: the rate is the number of samples in a window.
Stats(seq) ==
    IF seq = <<>> THEN NoBaseline
    ELSE [rate |-> Len(seq), latency |-> FoldSeq(LAMBDA s, sum : s[2] + sum, 0, seq) \div Len(seq)]

\* The default RateTolerance, 0.3, and the 1.25 of nearBehaviorBaseline.
SameRate(current) == 10 * current.rate >= 7 * baseline.rate /\ 10 * current.rate <= 13 * baseline.rate
EvaluateBehaviorFingerprint(current) ==
    SameRate(current) /\ current.latency >= LatencyFactor * baseline.latency
nearBehaviorBaseline(current) == SameRate(current) /\ 4 * current.latency <= 5 * baseline.latency

Between(a, b) == IF a <= b THEN a..b ELSE b..a
updateBaseline(current) ==
    IF baseline = NoBaseline THEN baseline' = current
    ELSE \E r \in Between(baseline.rate, current.rate), l \in Between(baseline.latency, current.latency) :
            baseline' = [rate |-> r, latency |-> l]

Learning == age' < Warmup \/ age' < Window \/ observed < MinSamples

BehaviorTick ==
    /\ Tick("behavior")
    /\ age' = Later(Warmup + Window, age)
    /\ samples' = Older(samples)
    /\ LET current   == Stats(samples')
           seen      == current.rate > 0 /\ current.latency > 0
           anomalous == seen /\ EvaluateBehaviorFingerprint(current)
       IN IF Learning \/ baseline = NoBaseline
          THEN /\ IF seen THEN updateBaseline(current) ELSE UNCHANGED baseline
               /\ breach' = -1 /\ Saw(<<"learning", waited'>>) /\ UNCHANGED kv
               /\ sinceReport' = Later(Window, sinceReport) /\ Pass
          ELSE /\ Sustained(anomalous, Lasting)
               /\ IF seen /\ ~anomalous /\ nearBehaviorBaseline(current)
                  THEN updateBaseline(current) ELSE UNCHANGED baseline
               /\ IF ~anomalous /\ Later(Window, sinceReport) >= Window
                  THEN sinceReport' = 0 /\ kv' \in {kv, "normal"}
                  ELSE /\ sinceReport' = IF pc' = "emit" THEN 0 ELSE Later(Window, sinceReport)
                       /\ UNCHANGED kv
    /\ UNCHANGED <<configVars, tip, delivered, acked, info, softVars, observed>>

Poll == SlowPoll \/ SlowEvaluate \/ SoftPoll \/ SoftEvaluate \/ BehaviorTick

WatchNext ==
    Consuming \/ Poll \/ Emitted \/ WatchStops

WatchSpec == WatchInit /\ [][WatchNext]_watchVars

-----------------------------------------------------------------------------
(* Properties *)

Sum(seq) == FoldSeq(LAMBDA r, sum : r[2] + sum, 0, seq)

\* An alarm is raised only about what the loop's last polls all saw. SlowConsumer
\* and BehaviorFingerprint: every poll over at least SustainFor found the breach,
\* none failed, was clear or was still learning. SoftLiveness: the pending count
\* grew at each of RisingWindows polls (polls that failed do not count).
AlarmsAreSustained ==
    cause # <<>> =>
        IF watched = "soft"
        THEN /\ Len(cause) > RisingWindows
             /\ \A i \in (Len(cause) - RisingWindows)..(Len(cause) - 1) : cause[i] < cause[i + 1]
        ELSE \E first \in DOMAIN cause :
                /\ \A i \in first..Len(cause) : cause[i][1] = "breach"
                /\ Sum(SubSeq(cause, first + 1, Len(cause))) >= SustainFor
=============================================================================
