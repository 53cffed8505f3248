----------------------------- MODULE Publisher ------------------------------
(***************************************************************************)
(* publisher.go: asynchronous publishes, which count against a limit that   *)
(* is read before it is used, the error kept from their callbacks, and what *)
(* a synchronous publish can come to. Encoding, compression, headers,       *)
(* expectations and metrics are left out. nats.go calls back about a failed *)
(* publish before that stops being pending.                                 *)
(***************************************************************************)
EXTENDS Connection, FiniteSets

CONSTANTS
    Procs,            \* goroutines that publish asynchronously
    MaxAsyncPending,
    MaxPublishes      \* bound: asynchronous publishes that nats.go accepts

ASSUME PublisherAssumption == MaxAsyncPending \in Nat \ {0} /\ MaxPublishes \in Nat

VARIABLES
    reconnectBufDisabled, \* of the configuration
    ppc,       \* of each goroutine: "idle", "guarded", "prepared"
    accepted,  \* publishes that nats.go has accepted; they are numbered
    pending,   \* those neither acknowledged nor failed
    asyncErr,  \* p.asyncErr is set
    stopped    \* p.cancel was called

pubVars == <<reconnectBufDisabled, ppc, accepted, pending, asyncErr, stopped>>

PubTypeOK ==
    /\ reconnectBufDisabled \in BOOLEAN
    /\ ppc \in [Procs -> {"idle", "guarded", "prepared"}]
    /\ accepted \in 0..MaxPublishes /\ pending \subseteq 1..accepted
    /\ asyncErr \in BOOLEAN /\ stopped \in BOOLEAN

PubInit ==
    /\ reconnectBufDisabled \in BOOLEAN
    /\ ppc = [p \in Procs |-> "idle"]
    /\ accepted = 0 /\ pending = {} /\ asyncErr = FALSE /\ stopped = FALSE

guardConnected == reconnectBufDisabled => IsConnected

\* What PublishRaw can come to: the message is in the stream, with or without
\* the caller knowing, or it is not.
PublishOutcomes ==
    IF ~guardConnected \/ link \in {"none", "closed"} THEN {"refused"}
    ELSE {"ok", "unknown", "refused"}

Step(p, from, to) ==
    /\ ppc[p] = from /\ ppc' = [ppc EXCEPT ![p] = to]
    /\ UNCHANGED <<reconnectBufDisabled, stopped, connVars>>

\* Mutant: the limit is looked at one publish too late.
guardAsyncPendingLate(p) ==
    /\ npc = "done" /\ Cardinality(pending) <= MaxAsyncPending
    /\ Step(p, "idle", "guarded")
    /\ UNCHANGED <<accepted, pending, asyncErr>>

\* publishAsync, its first test. At the limit the call returns an error.
guardAsyncPending(p) ==
    /\ npc = "done" /\ Cardinality(pending) < MaxAsyncPending
    /\ Step(p, "idle", "guarded")
    /\ UNCHANGED <<accepted, pending, asyncErr>>

\* The subject, the type or the encoding may be refused as well.
preparePublish(p) ==
    /\ \/ guardConnected /\ Step(p, "guarded", "prepared")
       \/ Step(p, "guarded", "idle")
    /\ UNCHANGED <<accepted, pending, asyncErr>>

publishAsyncMsg(p) ==
    /\ Step(p, "prepared", "idle")
    /\ \/ /\ link # "closed" /\ accepted < MaxPublishes
          /\ accepted' = accepted + 1 /\ pending' = pending \cup {accepted + 1}
       \/ UNCHANGED <<accepted, pending>>
    /\ UNCHANGED asyncErr

\* The acknowledgement arrives, or the publish fails and noteAsyncErr keeps the
\* error if it is the first.
AckArrives(i) ==
    /\ IsConnected /\ i \in pending /\ pending' = pending \ {i}
    /\ UNCHANGED <<reconnectBufDisabled, ppc, accepted, asyncErr, stopped, connVars>>

noteAsyncErr(i) ==
    /\ i \in pending /\ pending' = pending \ {i} /\ asyncErr' = TRUE
    /\ UNCHANGED <<reconnectBufDisabled, ppc, accepted, stopped, connVars>>

\* The channel that nats.go closes when nothing is pending, and the two contexts.
AsyncDone    == pending = {}
PublisherDone == stopped \/ ctxDone

\* PublishAsyncComplete returns in one of three ways and takes the error in each.
takeAsyncErr == asyncErr' = FALSE
PublishAsyncComplete(deadline) == (AsyncDone \/ deadline \/ PublisherDone) /\ takeAsyncErr

PubNext ==
    \/ \E p \in Procs : guardAsyncPending(p) \/ preparePublish(p) \/ publishAsyncMsg(p)
    \/ \E i \in pending : AckArrives(i) \/ noteAsyncErr(i)

-----------------------------------------------------------------------------
(* Properties *)

\* guardAsyncPending reads the count before the publish adds to it, so goroutines
\* that pass together overshoot the limit, but by no more than one each: the
\* pending publishes and those on their way stay below the limit plus the
\* goroutines.
PendingIsBounded ==
    LET coming == {p \in Procs : ppc[p] # "idle"}
    IN Cardinality(pending) + Cardinality(coming) < MaxAsyncPending + Cardinality(Procs)
=============================================================================
