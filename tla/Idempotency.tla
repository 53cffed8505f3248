---------------------------- MODULE Idempotency ----------------------------
(***************************************************************************)
(* Consumer-side deduplication of one message ID: idempotency.WithHandler   *)
(* over a plain DedupStore (Seen, handler, Mark) and over a ClaimStore      *)
(* (Claim, handler, Mark or Release), with the JetStream KV store of        *)
(* kv_store.go. IDs share nothing but the workers, so one is followed.      *)
(*                                                                          *)
(* Redeliveries and duplicate publishes of the ID reach any idle worker     *)
(* until an Ack arrives. Calls to the store may fail, with or without       *)
(* having taken effect; workers may panic or crash; the bucket's TTL may    *)
(* remove the key at any time.                                              *)
(***************************************************************************)
EXTENDS Naturals, FiniteSets

CONSTANTS
    Workers,
    MaxFaults,   \* bound: store calls and Acks that fail, panics and crashes
    MaxExpiries  \* bound: expiries of a key that a worker still relies on

ASSUME IdempotencyAssumption ==
    IsFiniteSet(Workers) /\ MaxFaults \in Nat /\ MaxExpiries \in Nat

VARIABLES
    claiming,  \* the store is a ClaimStore
    key,       \* the KV entry: "absent", "pending" or "done"
    acked,     \* the server has an Ack and delivers no more
    pc,        \* of each worker
    runs,      \* history: handler runs that returned nil
    faults,    \* failed calls, panics and crashes so far
    early,     \* expiries of a key that a worker still relied on
    expiries   \* history: all expiries

vars == <<claiming, key, acked, pc, runs, faults, early, expiries>>

\* Where a worker that has been given the key is.
Owning == {"handler", "mark", "release"}

TypeOK ==
    /\ claiming \in BOOLEAN /\ acked \in BOOLEAN
    /\ key \in {"absent", "pending", "done"}
    /\ pc \in [Workers -> {"idle", "claim", "seen", "ack"} \cup Owning]
    /\ runs \in Nat /\ faults \in 0..MaxFaults
    /\ early \in 0..MaxExpiries /\ expiries \in Nat

Init ==
    /\ claiming \in BOOLEAN /\ key = "absent" /\ acked = FALSE
    /\ pc = [w \in Workers |-> "idle"]
    /\ runs = 0 /\ faults = 0 /\ early = 0 /\ expiries = 0

Goto(w, from, to) == pc[w] = from /\ pc' = [pc EXCEPT ![w] = to]

Fault == faults < MaxFaults /\ faults' = faults + 1

-----------------------------------------------------------------------------
\* A delivery of the ID. Nak'd, unanswered or duplicated, it is delivered
\* again, to several workers at once if AckWait is short.
Deliver(w) ==
    /\ ~acked
    /\ Goto(w, "idle", IF claiming THEN "claim" ELSE "seen")
    /\ UNCHANGED <<claiming, key, acked, runs, faults, early, expiries>>

\* Mutant: an entry that exists is taken for an acquired claim.
ClaimUnchecked(w) ==
    /\ key' = "pending" /\ Goto(w, "claim", "handler")
    /\ UNCHANGED <<claiming, acked, runs, faults, early, expiries>>

\* Claim: kv.Create stores the pending value if there is no entry.
Claim(w) ==
    /\ \/ key = "absent" /\ key' = "pending" /\ Goto(w, "claim", "handler")
       \/ key # "absent" /\ Goto(w, "claim", "seen") /\ UNCHANGED key
    /\ UNCHANGED <<claiming, acked, runs, faults, early, expiries>>

\* Claim fails, with or without effect: the error is returned, the message
\* Nak'd.
ClaimFails(w) ==
    /\ Goto(w, "claim", "idle") /\ Fault
    /\ key' \in {key, IF key = "absent" THEN "pending" ELSE key}
    /\ UNCHANGED <<claiming, acked, runs, early, expiries>>

\* Mutant: a pending claim is taken for a completed one.
SeenPending(w) ==
    /\ Goto(w, "seen", IF key # "absent" THEN "ack" ELSE IF claiming THEN "idle" ELSE "handler")
    /\ UNCHANGED <<claiming, key, acked, runs, faults, early, expiries>>

\* Mutant: a completed ID is Nak'd.
SeenNaksDone(w) ==
    /\ Goto(w, "seen", IF claiming \/ key = "done" THEN "idle" ELSE "handler")
    /\ UNCHANGED <<claiming, key, acked, runs, faults, early, expiries>>

\* Seen: a completed ID is skipped and Acked. Otherwise a claim is in flight
\* elsewhere (ErrClaimInFlight, Nak), or a plain store lets the handler run.
Seen(w) ==
    /\ Goto(w, "seen", IF key = "done" THEN "ack" ELSE IF claiming THEN "idle" ELSE "handler")
    /\ UNCHANGED <<claiming, key, acked, runs, faults, early, expiries>>

SeenFails(w) ==
    /\ Goto(w, "seen", "idle") /\ Fault
    /\ UNCHANGED <<claiming, key, acked, runs, early, expiries>>

\* The handler returns nil.
HandlerSucceeds(w) ==
    /\ Goto(w, "handler", "mark")
    /\ runs' = runs + 1
    /\ UNCHANGED <<claiming, key, acked, faults, early, expiries>>

\* The handler returns an error: a claim is released, then Nak.
HandlerErrs(w) ==
    /\ Goto(w, "handler", IF claiming THEN "release" ELSE "idle")
    /\ UNCHANGED <<claiming, key, acked, runs, faults, early, expiries>>

\* Mark: kv.Put stores the done value, whatever is there.
Mark(w) ==
    /\ Goto(w, "mark", "ack")
    /\ key' = "done"
    /\ UNCHANGED <<claiming, acked, runs, faults, early, expiries>>

\* Mark fails, with or without effect; a claim is dropped.
MarkFails(w) ==
    /\ Goto(w, "mark", IF claiming THEN "release" ELSE "idle") /\ Fault
    /\ key' \in {key, "done"}
    /\ UNCHANGED <<claiming, acked, runs, early, expiries>>

\* Mutant: the worker goes on to its handler after the release.
ReleaseRetries(w) ==
    /\ Goto(w, "release", "handler")
    /\ key' = "absent"
    /\ UNCHANGED <<claiming, acked, runs, faults, early, expiries>>

\* Release: kv.Purge removes the entry, whoever wrote it. The worker returns
\* its error and the message is Nak'd.
Release(w) ==
    /\ Goto(w, "release", "idle")
    /\ key' = "absent"
    /\ UNCHANGED <<claiming, acked, runs, faults, early, expiries>>

ReleaseFails(w) ==
    /\ Goto(w, "release", "idle") /\ Fault
    /\ key' \in {key, "absent"}
    /\ UNCHANGED <<claiming, acked, runs, early, expiries>>

\* processMessage Acks, or the Ack is lost.
Ack(w) ==
    /\ Goto(w, "ack", "idle")
    /\ \/ acked' = TRUE /\ UNCHANGED faults
       \/ Fault /\ UNCHANGED acked
    /\ UNCHANGED <<claiming, key, runs, early, expiries>>

\* The handler panics (recovered above withClaimHandler, so nothing is
\* released), or the process dies at any point.
Crash(w) ==
    /\ pc[w] # "idle" /\ Fault
    /\ pc' = [pc EXCEPT ![w] = "idle"]
    /\ UNCHANGED <<claiming, key, acked, runs, early, expiries>>

\* The TTL removes the key. A claim nobody works on expires without limit.
ExpireOrphan ==
    /\ key = "pending" /\ \A w \in Workers : pc[w] \notin Owning
    /\ key' = "absent" /\ expiries' = expiries + 1
    /\ UNCHANGED <<claiming, acked, pc, runs, faults, early>>

\* A completed entry, or a claim that is being worked on, expires.
ExpireEarly ==
    /\ key # "absent" /\ early < MaxExpiries
    /\ key' = "absent" /\ expiries' = expiries + 1 /\ early' = early + 1
    /\ UNCHANGED <<claiming, acked, pc, runs, faults>>

-----------------------------------------------------------------------------
HandlerReturns(w) == HandlerSucceeds(w) \/ HandlerErrs(w)

Stored(w) ==
    Claim(w) \/ ClaimFails(w) \/ Seen(w) \/ SeenFails(w)
    \/ Mark(w) \/ MarkFails(w) \/ Release(w) \/ ReleaseFails(w) \/ Ack(w)

WithHandler(w) == Stored(w) \/ HandlerReturns(w)

Next ==
    \/ \E w \in Workers : Deliver(w) \/ WithHandler(w) \/ Crash(w)
    \/ ExpireOrphan \/ ExpireEarly

Spec == Init /\ [][Next]_vars

\* The server redelivers what is not Acked, goroutines run, a TTL is set, and
\* a handler that is retried for ever succeeds in the end.
Fairness ==
    /\ WF_vars(\E w \in Workers : Deliver(w))
    /\ \A w \in Workers : WF_vars(WithHandler(w))
    /\ SF_vars(\E w \in Workers : HandlerSucceeds(w))
    /\ WF_vars(ExpireOrphan)

FairSpec == Spec /\ Fairness

-----------------------------------------------------------------------------
(* Properties *)

\* A message is Acked only after some handler run of its ID returned nil: a
\* claim in flight is Nak'd, since its holder may still fail and Release
\* (ErrClaimInFlight).
AckedWasHandled == acked => runs > 0

\* "queue workers do not double-process the same ID": until the TTL takes a
\* key away from a worker, at most one worker is past its Claim, through
\* handler errors, crashes and store calls that fail half-way.
ExclusiveOwner ==
    claiming /\ early = 0 => Cardinality({w \in Workers : pc[w] \in Owning}) <= 1

\* A second successful run of the same ID is paid for: it takes a failed
\* store call, a panic or crash, or an expired key, and each of them buys at
\* most one, even though Release purges whatever claim or mark it finds.
DuplicatesArePaidFor == claiming => runs <= 1 + faults + expiries

\* Every ID is Acked in the end: no claim is left behind that nobody can
\* release or outlive.
EventuallyAcked == <>acked
=============================================================================
