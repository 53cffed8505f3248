------------------------------- MODULE Outbox -------------------------------
(***************************************************************************)
(* outbox/outbox.go: Enqueue stores a record in a KV bucket, Flush lists    *)
(* the bucket, publishes every record and deletes it. Flushes may overlap,  *)
(* a process may die in the middle of one, and a call to the store or the   *)
(* publisher may fail with or without effect.                               *)
(***************************************************************************)
EXTENDS Integers, FiniteSets

CONSTANTS
    Records,
    Flushers,   \* processes that call Flush
    Limit,      \* the limit given to Flush
    MaxFaults,  \* bound: deaths, failed deletes and lost answers, per record
    MaxFlushes  \* bound: calls of Flush

ASSUME OutboxAssumption ==
    /\ IsFiniteSet(Flushers) /\ Limit \in Nat \ {0}
    /\ MaxFaults \in Nat /\ MaxFlushes \in Nat

NoRecord == "none"

ASSUME NoRecordAssumption == NoRecord \notin Records

VARIABLES
    store,      \* records in the bucket
    tried,      \* records Enqueue was called with
    enqueued,   \* records for which Enqueue returned no error
    fpc,        \* of each flusher: "idle", "next", "publish", "delete"
    todo,       \* keys of its listing it has still to visit
    rec,        \* the record it holds
    flushed,    \* its count
    flushes,    \* calls of Flush so far
    pubs,       \* history: how often each record was published
    faults,     \* history: faults met by each record
    overlaps    \* history: times a record was read while another flusher held it

enqVars    == <<tried, enqueued>>
flushVars  == <<fpc, todo, rec, flushed, flushes>>
historyVars == <<pubs, faults, overlaps>>
outboxVars == <<store, enqVars, flushVars, historyVars>>

OutboxTypeOK ==
    /\ store \in SUBSET Records /\ tried \in SUBSET Records /\ enqueued \in SUBSET Records
    /\ fpc \in [Flushers -> {"idle", "next", "publish", "delete"}]
    /\ todo \in [Flushers -> SUBSET Records]
    /\ rec \in [Flushers -> Records \cup {NoRecord}]
    /\ flushed \in [Flushers -> Nat] /\ flushes \in Nat
    /\ pubs \in [Records -> Nat] /\ faults \in [Records -> Nat] /\ overlaps \in [Records -> Nat]

OutboxInit ==
    /\ store = {} /\ tried = {} /\ enqueued = {}
    /\ fpc = [f \in Flushers |-> "idle"] /\ todo = [f \in Flushers |-> {}]
    /\ rec = [f \in Flushers |-> NoRecord]
    /\ flushed = [f \in Flushers |-> 0] /\ flushes = 0
    /\ pubs = [r \in Records |-> 0] /\ faults = [r \in Records |-> 0]
    /\ overlaps = [r \in Records |-> 0]

Fault(r) == faults[r] < MaxFaults /\ faults' = [faults EXCEPT ![r] = @ + 1]

\* Put succeeds, or fails with or without effect.
Enqueue(r) ==
    /\ r \notin tried /\ tried' = tried \cup {r}
    /\ \/ store' = store \cup {r} /\ enqueued' = enqueued \cup {r}
       \/ store' \in {store, store \cup {r}} /\ UNCHANGED enqueued
    /\ UNCHANGED <<flushVars, historyVars>>

\* Flush, as far as the listing. When Keys fails nothing happens.
FlushKeys(f) ==
    /\ fpc[f] = "idle" /\ flushes < MaxFlushes
    /\ flushes' = flushes + 1
    /\ fpc' = [fpc EXCEPT ![f] = "next"]
    /\ todo' = [todo EXCEPT ![f] = store]
    /\ flushed' = [flushed EXCEPT ![f] = 0]
    /\ UNCHANGED <<store, enqVars, rec, historyVars>>

\* The flusher is where it was before the call: after a return, or a death.
Leave(f) ==
    /\ fpc' = [fpc EXCEPT ![f] = "idle"]
    /\ todo' = [todo EXCEPT ![f] = {}]
    /\ rec' = [rec EXCEPT ![f] = NoRecord]
    /\ UNCHANGED <<flushed, flushes>>

\* No key is left, the limit is reached, or the context has ended.
FlushReturns(f) ==
    /\ fpc[f] = "next" /\ Leave(f)
    /\ UNCHANGED <<store, enqVars, historyVars>>

HeldBy(r) == {f \in Flushers : fpc[f] \in {"publish", "delete"} /\ rec[f] = r}

\* Mutant: the record is published from the listing, without Get.
FlushGetStale(f, r) ==
    /\ fpc[f] = "next" /\ flushed[f] < Limit /\ r \in todo[f]
    /\ todo' = [todo EXCEPT ![f] = @ \ {r}]
    /\ fpc' = [fpc EXCEPT ![f] = "publish"] /\ rec' = [rec EXCEPT ![f] = r]
    /\ overlaps' = [overlaps EXCEPT ![r] = IF HeldBy(r) = {} THEN @ ELSE @ + 1]
    /\ UNCHANGED <<store, enqVars, flushed, flushes, pubs, faults>>

\* The next key. A record that is gone, cannot be read or does not decode is
\* passed over.
FlushGet(f, r) ==
    /\ fpc[f] = "next" /\ flushed[f] < Limit /\ r \in todo[f]
    /\ todo' = [todo EXCEPT ![f] = @ \ {r}]
    /\ \/ /\ r \in store
          /\ fpc' = [fpc EXCEPT ![f] = "publish"] /\ rec' = [rec EXCEPT ![f] = r]
          /\ overlaps' = [overlaps EXCEPT ![r] = IF HeldBy(r) = {} THEN @ ELSE @ + 1]
       \/ UNCHANGED <<fpc, rec, overlaps>>
    /\ UNCHANGED <<store, enqVars, flushed, flushes, pubs, faults>>

Publish(r) == pubs' = [pubs EXCEPT ![r] = @ + 1]

Published(f) ==
    /\ fpc[f] = "publish" /\ Publish(rec[f])
    /\ fpc' = [fpc EXCEPT ![f] = "delete"]
    /\ UNCHANGED <<store, enqVars, todo, rec, flushed, flushes, faults, overlaps>>

\* Mutant: the record is deleted whatever PublishRaw returned.
PublishFailsDeletes(f) ==
    /\ fpc[f] = "publish" /\ fpc' = [fpc EXCEPT ![f] = "delete"]
    /\ UNCHANGED <<store, enqVars, todo, rec, flushed, flushes, historyVars>>

\* PublishRaw fails and Flush returns; the message may be in the stream.
PublishFails(f) ==
    /\ fpc[f] = "publish" /\ Leave(f)
    /\ \/ UNCHANGED <<pubs, faults>>
       \/ Publish(rec[f]) /\ Fault(rec[f])
    /\ UNCHANGED <<store, enqVars, overlaps>>

\* The error of Delete is ignored, and the record counts as flushed.
FlushDelete(f) ==
    /\ fpc[f] = "delete"
    /\ \/ store' = store \ {rec[f]} /\ UNCHANGED faults
       \/ Fault(rec[f]) /\ UNCHANGED store
    /\ flushed' = [flushed EXCEPT ![f] = @ + 1]
    /\ fpc' = [fpc EXCEPT ![f] = "next"] /\ rec' = [rec EXCEPT ![f] = NoRecord]
    /\ UNCHANGED <<enqVars, todo, flushes, pubs, overlaps>>

\* The process dies and starts again.
Dies(f) ==
    /\ fpc[f] \in {"publish", "delete"} /\ Leave(f)
    /\ Fault(rec[f])
    /\ UNCHANGED <<store, enqVars, pubs, overlaps>>

Flush(f) ==
    \/ FlushKeys(f) \/ FlushReturns(f) \/ (\E r \in Records : FlushGet(f, r))
    \/ Published(f) \/ PublishFails(f) \/ FlushDelete(f)

OutboxNext == (\E r \in Records : Enqueue(r)) \/ (\E f \in Flushers : Flush(f) \/ Dies(f))

OutboxSpec == OutboxInit /\ [][OutboxNext]_outboxVars

-----------------------------------------------------------------------------
(* Properties *)

\* A record accepted by Enqueue is in the bucket until it has been published:
\* Flush deletes only what PublishRaw accepted, whatever fails or dies.
RecordsAreKept == \A r \in enqueued : r \in store \/ pubs[r] > 0

\* Every publication of a record beyond the first is paid for by a fault that the
\* record met (a delete that failed, an answer that was lost, a flusher that
\* died) or by a flush that read it while another one held it. Flush does not
\* publish a record again because it is still in an old listing.
DuplicatesHaveCause == \A r \in Records : pubs[r] <= 1 + faults[r] + overlaps[r]
=============================================================================
