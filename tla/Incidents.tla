----------------------------- MODULE Incidents -----------------------------
(***************************************************************************)
(* flight_recorder.go, incident_auto.go, incident_attach.go and             *)
(* incident_capsule.go: a ring of the latest incidents, and the capture of  *)
(* capsules, which keep that ring and the messages around the one that      *)
(* failed. Hooks of several goroutines share one CapsuleAuto, which         *)
(* remembers the stream in one critical section and reads it in another.    *)
(*                                                                          *)
(* An incident is its kind. A stream's messages are their sequence numbers; *)
(* a consumer goes with its stream. The Events channel is left out, and so  *)
(* are a capsule's timeline (a Snapshot) and what Redact works on.           *)
(***************************************************************************)
EXTENDS Integers, Sequences, FiniteSets, SequencesExt

CONSTANTS
    Kinds,         \* kinds of recorded incidents
    Capacity,      \* of the flight recorder
    Hooks,         \* goroutines in a hook at once
    Streams, Home, \* Home: the stream NewCapsuleAuto was given
    LastSeq,       \* of every stream
    CaptureWindow, \* CapsuleAutoConfig.Window
    MaxCapsules, MaxDeletes \* bounds

ASSUME IncidentsAssumption ==
    /\ {Capacity, LastSeq, CaptureWindow} \subseteq Nat \ {0} /\ Home \in Streams
    /\ {MaxCapsules, MaxDeletes} \subseteq Nat

VARIABLES
    buf, next, full, \* of the flight recorder
    recent,          \* history: the last Capacity incidents recorded
    existing,        \* the messages a stream still has
    auto,            \* CapsuleAuto.stream
    hpc, incident,   \* of a hook: where it is, what it reports
    overtaken,       \* history: another hook set CapsuleAuto.stream meanwhile
    capsule,         \* the capsule a hook is capturing
    objects, index, ready, \* stored, indexed and handed to OnReady
    captures         \* capsules so far, the source of their identifiers

recorderVars == <<buf, next, full, recent>>
captureVars  == <<existing, auto, hpc, incident, overtaken, capsule, objects, index, ready, captures>>
incidentVars == <<recorderVars, captureVars>>

None == [id |-> 0]
NoIncident == [stream |-> Home, seq |-> 0]

IncidentTypeOK ==
    /\ buf \in [0..Capacity - 1 -> Kinds \cup {"empty"}] /\ next \in 0..Capacity - 1 /\ full \in BOOLEAN
    /\ existing \in [Streams -> SUBSET (1..LastSeq)] /\ auto \in Streams
    /\ hpc \in [Hooks -> {"idle", "remember", "read", "assemble", "put", "index"}]
    /\ \A h \in Hooks : incident[h].stream \in Streams /\ incident[h].seq \in 0..LastSeq
    /\ overtaken \in [Hooks -> BOOLEAN] /\ captures \in 0..MaxCapsules
    /\ {c.id : c \in objects} \subseteq 1..captures /\ index \subseteq Streams \X (1..captures)
    /\ ready \subseteq 1..captures

RecorderInit ==
    /\ buf = [i \in 0..Capacity - 1 |-> "empty"] /\ next = 0 /\ full = FALSE /\ recent = <<>>

CaptureInit ==
    /\ existing = [s \in Streams |-> 1..LastSeq] /\ auto = Home
    /\ hpc = [h \in Hooks |-> "idle"] /\ incident = [h \in Hooks |-> NoIncident]
    /\ overtaken = [h \in Hooks |-> FALSE] /\ capsule = [h \in Hooks |-> None]
    /\ objects = {} /\ index = {} /\ ready = {} /\ captures = 0

-----------------------------------------------------------------------------
(* FlightRecorder *)

\* Mutant: full is set one incident late, once the oldest was overwritten.
RecordLate(kind) ==
    /\ buf' = [buf EXCEPT ![next] = kind]
    /\ next' = (next + 1) % Capacity
    /\ full' = (full \/ (next = 0 /\ buf[0] # "empty"))
    /\ recent' = LET all == Append(recent, kind) IN IF Len(all) > Capacity THEN Tail(all) ELSE all

Record(kind) ==
    /\ buf' = [buf EXCEPT ![next] = kind]
    /\ next' = (next + 1) % Capacity
    /\ full' = (full \/ next' = 0)
    /\ recent' = LET all == Append(recent, kind) IN IF Len(all) > Capacity THEN Tail(all) ELSE all

Snapshot ==
    IF full THEN [i \in 1..Capacity |-> buf[(next + i - 1) % Capacity]]
    ELSE [i \in 1..next |-> buf[i - 1]]

-----------------------------------------------------------------------------
(* The hooks *)

\* A hook is called and goes on at pc.
Report(h, pc, stream, seq) ==
    /\ hpc[h] = "idle" /\ captures < MaxCapsules /\ captures' = captures + 1
    /\ hpc' = [hpc EXCEPT ![h] = pc]
    /\ incident' = [incident EXCEPT ![h] = [stream |-> stream, seq |-> seq]]
    /\ overtaken' = [overtaken EXCEPT ![h] = pc = "read" /\ auto # stream]
    /\ capsule' = [capsule EXCEPT ![h] = [id |-> captures + 1, stream |-> stream]]
    /\ UNCHANGED <<existing, auto, objects, index, ready>>

\* RecordDLQ and OnAnomaly know their stream and tell the CapsuleAuto.
RecordDLQ(h, stream, seq) == Report(h, "remember", stream, seq)
OnAnomaly(h, stream) == Report(h, "remember", stream, 0)

\* RecordShadow knows no stream and means the one the CapsuleAuto was made for.
RecordShadow(h) == Report(h, "read", Home, 0)

\* The handler of AttachToHandler failed: it captures on its own.
AttachToHandler(h, stream, seq) == Report(h, "assemble", stream, seq)

Remember(h) ==
    /\ hpc[h] = "remember" /\ hpc' = [hpc EXCEPT ![h] = "read"]
    /\ auto' = incident[h].stream
    /\ overtaken' = [k \in Hooks |-> IF hpc[k] = "read" /\ k # h
                                      THEN overtaken[k] \/ incident[k].stream # auto' ELSE overtaken[k]]
    /\ UNCHANGED <<existing, incident, capsule, objects, index, ready, captures>>

Read(h) ==
    /\ hpc[h] = "read" /\ hpc' = [hpc EXCEPT ![h] = "assemble"]
    /\ capsule' = [capsule EXCEPT ![h].stream = auto]
    /\ UNCHANGED <<existing, auto, incident, overtaken, objects, index, ready, captures>>

-----------------------------------------------------------------------------
(* Incidents.Capture *)

\* What GetMsgRange returns: the first max messages of the range.
GetMsgRange(stream, first, last, max) ==
    {n \in existing[stream] \cap (first..last) : Cardinality(existing[stream] \cap (first..n)) <= max}

\* Mutant: the limit on the messages is half the window, like its radius.
WindowAroundHalf(stream, seq) ==
    LET half == CaptureWindow \div 2
    IN GetMsgRange(stream, IF seq > half THEN seq - half ELSE 1, seq + half, half)

WindowAround(stream, seq) ==
    LET half == CaptureWindow \div 2
    IN GetMsgRange(stream, IF seq > half THEN seq - half ELSE 1, seq + half, CaptureWindow)

\* The capture failed: the hook returns without a capsule.
Give(h) == hpc' = [hpc EXCEPT ![h] = "idle"] /\ capsule' = [capsule EXCEPT ![h] = None]

\* The failing message (by StreamInfo when it is not known, which
\* may fail and leaves none) and the messages around it, which can fail to be read.
Assemble(h) ==
    /\ hpc[h] = "assemble"
    /\ LET stream == capsule[h].stream
       IN \/ \E seq \in IF incident[h].seq = 0 THEN {0, LastSeq} ELSE {incident[h].seq} :
                /\ capsule' = [capsule EXCEPT ![h] =
                     [id |-> @.id, stream |-> stream, failing |-> seq,
                      messages |-> IF seq = 0 THEN {} ELSE WindowAround(stream, seq),
                      existed |-> seq \in existing[stream], for |-> incident[h].stream, overtaken |-> overtaken[h]]]
                /\ hpc' = [hpc EXCEPT ![h] = "put"]
          \/ Give(h)
    /\ UNCHANGED <<existing, auto, incident, overtaken, objects, index, ready, captures>>

Put(h) ==
    /\ hpc[h] = "put"
    /\ \/ /\ objects' = objects \cup {capsule[h]}
          /\ hpc' = [hpc EXCEPT ![h] = "index"] /\ UNCHANGED capsule
       \/ Give(h) /\ UNCHANGED objects
    /\ UNCHANGED <<existing, auto, incident, overtaken, index, ready, captures>>

\* The index entry may fail to be written; the capsule is handed to OnReady.
Index(h) ==
    /\ hpc[h] = "index" /\ Give(h)
    /\ index' \in {index, index \cup {<<capsule[h].stream, capsule[h].id>>}}
    /\ ready' = ready \cup {capsule[h].id}
    /\ UNCHANGED <<existing, auto, incident, overtaken, objects, captures>>

\* The stream loses a message, by its limits or by a purge.
Delete ==
    /\ \E s \in Streams, n \in 1..LastSeq :
         /\ n \in existing[s] /\ Cardinality(existing[s]) > LastSeq - MaxDeletes
         /\ existing' = [existing EXCEPT ![s] = @ \ {n}]
    /\ UNCHANGED <<auto, hpc, incident, overtaken, capsule, objects, index, ready, captures>>

Load(id) == CHOOSE c \in objects : c.id = id
List(stream) == {i \in 1..captures : <<stream, i>> \in index}

Capture == \E h \in Hooks : Remember(h) \/ Read(h) \/ Assemble(h) \/ Put(h) \/ Index(h)

-----------------------------------------------------------------------------
(* Properties *)

\* Snapshot is the last Capacity incidents in the order they were recorded,
\* whatever goroutines recorded them and however often the ring wrapped.
RingIsRecent == Snapshot = recent

\* A capsule handed to OnReady can be loaded. It is filed (and listed, if at
\* all) under the stream of its incident and holds the failing message if the
\* stream still had it, whatever its neighbours were; the exception is a hook
\* that another one, of another stream, overtook between the two critical
\* sections of CapsuleAuto.
CapsulesAreFiled ==
    \A id \in ready :
        /\ \E c \in objects : c.id = id
        /\ LET c == Load(id)
           IN /\ \A s \in Streams : id \in List(s) => s = c.stream
              /\ c.overtaken \/ c.stream = c.for
              /\ c.existed => c.failing \in c.messages
=============================================================================
