------------------------------ MODULE Observe ------------------------------
(***************************************************************************)
(* The watchers, the canary and the handlers feed the flight recorder and   *)
(* the capsules: AttachSoftLiveness records a stall, CapsuleAuto.OnAnomaly  *)
(* captures a capsule for an anomaly, RecordShadow records what a shadow    *)
(* did, RecordDLQ, AttachSupervisor and RecordReconnect record theirs.      *)
(* feeder says which of them a behaviour is about.                          *)
(***************************************************************************)
EXTENDS Watchers, Graduate, Incidents

CONSTANTS Feeders, Anomaly \* Anomaly: the hook BehaviorFingerprint's loop runs in

VARIABLE feeder

vars == <<feeder, watchVars, graduateVars, incidentVars>>

TypeOK == feeder \in Feeders /\ WatchTypeOK /\ GraduateTypeOK /\ IncidentTypeOK

Init ==
    /\ feeder \in Feeders
    /\ WatchInit /\ (feeder # "watch" => watched = CHOOSE w \in Watched : TRUE) /\ (feeder # "watch" => circuitStop)
    /\ GraduateInit /\ (feeder # "canary" => graduated)
    /\ RecorderInit /\ CaptureInit

\* The hooks of the flight recorder: on a stalled consumer, an event of the
\* supervisor, a dead letter (with and without an autopsy) and a reconnect.
OnStall          == Record("stall")
AttachSupervisor == Record("supervisor")
DeadLettered     == Record("dlq")
RecordReconnect  == Record("reconnect")

\* OnStall and OnAnomaly are called in the step that raises the alarm; the loop
\* goes on once the callback has returned.
Alarm ==
    IF pc # "emit" /\ pc' = "emit"
    THEN CASE watched = "soft" -> OnStall /\ UNCHANGED captureVars
           [] watched = "behavior" /\ captures < MaxCapsules ->
                OnAnomaly(Anomaly, Home) /\ UNCHANGED recorderVars
           [] OTHER -> UNCHANGED incidentVars
    ELSE UNCHANGED incidentVars

Watching ==
    /\ feeder = "watch" /\ UNCHANGED <<feeder, graduateVars>>
    /\ \/ (Consuming \/ WatchStops) /\ UNCHANGED incidentVars
       \/ Poll /\ Alarm
       \/ hpc[Anomaly] = "idle" /\ Emitted /\ UNCHANGED incidentVars

\* observeShadow: an error and a mismatch are each recorded.
Shadowing ==
    /\ feeder = "canary" /\ UNCHANGED <<feeder, watchVars, captureVars>>
    /\ \/ Operating /\ UNCHANGED recorderVars
       \/ \E s \in Shadows :
            \/ Counting(s) /\ UNCHANGED recorderVars
            \/ ShadowReturns(s) /\ (Record("shadow") \/ UNCHANGED recorderVars)
            \/ ShadowEnds(s) /\ IF agreed[s] THEN UNCHANGED recorderVars ELSE Record("shadow")

Recording ==
    /\ feeder = "recorders" /\ (AttachSupervisor \/ DeadLettered \/ RecordReconnect)
    /\ UNCHANGED <<feeder, watchVars, graduateVars, captureVars>>

\* A handler fails: its message is dead-lettered, or captured by AttachToHandler;
\* a shadow disagrees.
Failing(h) ==
    \/ \E s \in Streams, n \in 1..LastSeq : RecordDLQ(h, s, n) \/ AttachToHandler(h, s, n)
    \/ RecordShadow(h)

Capturing ==
    /\ \/ feeder = "handlers" /\ (Delete \/ \E h \in Hooks : Failing(h))
       \/ feeder \in {"handlers", "watch"} /\ Capture
    /\ UNCHANGED <<feeder, watchVars, graduateVars, recorderVars>>

Next == Watching \/ Shadowing \/ Recording \/ Capturing

Spec == Init /\ [][Next]_vars
=============================================================================
