---------------------------- MODULE OutboxProofs ----------------------------
(***************************************************************************)
(* Proofs for Outbox: for any records, flushers, faults and flushes.        *)
(*                                                                          *)
(* The bound on duplicates is not inductive: a flusher about to publish     *)
(* will add a publication, and a record that lies in the bucket with nobody *)
(* holding it will be published once more. The invariant counts those to    *)
(* come with those that have been.                                          *)
(***************************************************************************)
EXTENDS Outbox, FiniteSetTheorems, TLAPS

\* Flushers about to publish a record.
Publishing(r) == {f \in Flushers : fpc[f] = "publish" /\ rec[f] = r}

\* A record that is free to be read again has no publication in hand.
Taken(r) == IF r \in store /\ HeldBy(r) = {} THEN 0 ELSE 1

Paid(r) == pubs[r] + Cardinality(Publishing(r)) <= Taken(r) + faults[r] + overlaps[r]

Holding == \A f \in Flushers : fpc[f] \in {"publish", "delete"} => rec[f] \in Records

\* Nothing has happened to a record that nobody enqueued.
Untouched ==
    /\ enqueued \subseteq tried
    /\ \A r \in Records \ tried : r \notin store /\ pubs[r] = 0 /\ HeldBy(r) = {}

\* A record about to be deleted, or gone, has been published.
Safe ==
    /\ \A f \in Flushers : fpc[f] = "delete" => pubs[rec[f]] > 0
    /\ RecordsAreKept

IInv == OutboxTypeOK /\ Holding /\ Untouched /\ Safe /\ \A r \in Records : Paid(r)

-----------------------------------------------------------------------------
\* There are finitely many flushers.
LEMMA PublishingFinite ==
    ASSUME NEW r
    PROVE  /\ IsFiniteSet(Publishing(r)) /\ Cardinality(Publishing(r)) \in Nat
           /\ IsFiniteSet(Publishing(r)') /\ Cardinality(Publishing(r)') \in Nat
  <1>1. Publishing(r) \subseteq Flushers /\ Publishing(r)' \subseteq Flushers
    BY DEF Publishing
  <1> QED
    BY <1>1, FS_Subset, FS_CardinalityType, OutboxAssumption

Weight(where, what, r) == IF where = "publish" /\ what = r THEN 1 ELSE 0

\* A step of one flusher changes the number of those about to publish a record by what
\* that flusher was and is about to do.
LEMMA PublishingStep ==
    ASSUME NEW f \in Flushers, NEW r,
           \A g \in Flushers \ {f} : fpc'[g] = fpc[g] /\ rec'[g] = rec[g]
    PROVE  Cardinality(Publishing(r)') + Weight(fpc[f], rec[f], r)
             = Cardinality(Publishing(r)) + Weight(fpc'[f], rec'[f], r)
  <1> DEFINE was == fpc[f] = "publish" /\ rec[f] = r
             is  == fpc'[f] = "publish" /\ rec'[f] = r
  <1>1. CASE was <=> is
    <2>1. Publishing(r)' = Publishing(r)
      BY <1>1 DEF Publishing
    <2> QED
      BY <1>1, <2>1, PublishingFinite DEF Weight
  <1>2. CASE was /\ ~is
    <2>1. Publishing(r)' = Publishing(r) \ {f} /\ f \in Publishing(r)
      BY <1>2 DEF Publishing
    <2>2. Cardinality(Publishing(r)') = Cardinality(Publishing(r)) - 1
      BY <2>1, PublishingFinite, FS_RemoveElement
    <2> QED
      BY <1>2, <2>2, PublishingFinite DEF Weight
  <1>3. CASE ~was /\ is
    <2>1. Publishing(r)' = Publishing(r) \cup {f} /\ f \notin Publishing(r)
      BY <1>3 DEF Publishing
    <2>2. Cardinality(Publishing(r)') = Cardinality(Publishing(r)) + 1
      BY <2>1, PublishingFinite, FS_AddElement
    <2> QED
      BY <1>3, <2>2, PublishingFinite DEF Weight
  <1> QED
    BY <1>1, <1>2, <1>3

-----------------------------------------------------------------------------
\* Nothing is stored, held or published at first.
LEMMA InitInv == OutboxInit => IInv
  <1> SUFFICES ASSUME OutboxInit PROVE IInv
    OBVIOUS
  <1>1. OutboxTypeOK /\ Holding /\ Untouched /\ Safe
    BY DEF OutboxInit, OutboxTypeOK, Holding, Untouched, Safe, RecordsAreKept, HeldBy
  <1>2. ASSUME NEW r \in Records PROVE Paid(r)
    <2>1. Publishing(r) = {}
      BY DEF OutboxInit, Publishing
    <2>2. Cardinality(Publishing(r)) = 0
      BY <2>1, FS_EmptySet
    <2> QED
      BY <2>2 DEF OutboxInit, Paid, Taken
  <1> QED
    BY <1>1, <1>2 DEF IInv

\* Enqueue: a record that nobody has touched enters the bucket, or does not.
LEMMA EnqueueInv == ASSUME IInv, NEW q \in Records, Enqueue(q) PROVE IInv'
  <1> USE DEF IInv, Enqueue, flushVars, historyVars
  <1>1. OutboxTypeOK'
    BY DEF OutboxTypeOK
  <1>2. Holding' /\ Untouched' /\ Safe'
    BY DEF OutboxTypeOK, Holding, Untouched, Safe, RecordsAreKept, HeldBy
  <1>3. ASSUME NEW r \in Records PROVE Paid(r)'
    <2>1. Publishing(r)' = Publishing(r)
      BY DEF Publishing
    <2>2. CASE r = q
      <3>1. Publishing(r) = {} /\ pubs[r] = 0
        BY <2>2 DEF Untouched, HeldBy, Publishing
      <3>2. Cardinality(Publishing(r)) = 0
        BY <3>1, FS_EmptySet
      <3> QED
        BY <2>1, <3>1, <3>2 DEF Paid, Taken, OutboxTypeOK
    <2>3. CASE r # q
      <3>1. Taken(r)' = Taken(r)
        BY <2>3 DEF Taken, HeldBy
      <3> QED
        BY <2>1, <3>1 DEF Paid
    <2> QED
      BY <2>2, <2>3
  <1> QED
    BY <1>1, <1>2, <1>3

\* Every step of a flusher keeps the invariant.
LEMMA FlusherInv == ASSUME IInv, NEW f \in Flushers, Flush(f) \/ Dies(f) PROVE IInv'
  <1> USE NoRecordAssumption DEF IInv, enqVars, historyVars
  <1>1. CASE FlushKeys(f)
    <2> USE <1>1 DEF FlushKeys
    <2>1. OutboxTypeOK'
      BY DEF OutboxTypeOK, Holding
    <2>2. Holding' /\ Untouched' /\ Safe'
      BY DEF OutboxTypeOK, Holding, Untouched, Safe, RecordsAreKept, HeldBy
    <2>3. \A g \in Flushers \ {f} : fpc'[g] = fpc[g] /\ rec'[g] = rec[g]
      BY DEF OutboxTypeOK
    <2>4. ASSUME NEW r \in Records PROVE Paid(r)'
      <3>1. /\ Cardinality(Publishing(r)') + Weight(fpc[f], rec[f], r)
                 = Cardinality(Publishing(r)) + Weight(fpc'[f], rec'[f], r)
            /\ Cardinality(Publishing(r)') \in Nat /\ Cardinality(Publishing(r)) \in Nat
        BY <2>3, PublishingStep, PublishingFinite
      <3> QED
        BY <2>1, <3>1 DEF OutboxTypeOK, Holding, Paid, Taken, HeldBy, Weight
    <2> QED
      BY <2>1, <2>2, <2>4
  <1>2. CASE FlushReturns(f)
    <2> USE <1>2 DEF FlushReturns, Leave
    <2>1. OutboxTypeOK'
      BY DEF OutboxTypeOK, Holding
    <2>2. Holding' /\ Untouched' /\ Safe'
      BY DEF OutboxTypeOK, Holding, Untouched, Safe, RecordsAreKept, HeldBy
    <2>3. \A g \in Flushers \ {f} : fpc'[g] = fpc[g] /\ rec'[g] = rec[g]
      BY DEF OutboxTypeOK
    <2>4. ASSUME NEW r \in Records PROVE Paid(r)'
      <3>1. /\ Cardinality(Publishing(r)') + Weight(fpc[f], rec[f], r)
                 = Cardinality(Publishing(r)) + Weight(fpc'[f], rec'[f], r)
            /\ Cardinality(Publishing(r)') \in Nat /\ Cardinality(Publishing(r)) \in Nat
        BY <2>3, PublishingStep, PublishingFinite
      <3> QED
        BY <2>1, <3>1 DEF OutboxTypeOK, Holding, Paid, Taken, HeldBy, Weight
    <2> QED
      BY <2>1, <2>2, <2>4
  <1>3. CASE \E q \in Records : FlushGet(f, q)
    <2> USE <1>3 DEF FlushGet
    <2>1. OutboxTypeOK'
      BY DEF OutboxTypeOK, Holding
    <2>2. Holding' /\ Untouched' /\ Safe'
      BY DEF OutboxTypeOK, Holding, Untouched, Safe, RecordsAreKept, HeldBy
    <2>3. \A g \in Flushers \ {f} : fpc'[g] = fpc[g] /\ rec'[g] = rec[g]
      BY DEF OutboxTypeOK
    <2>4. ASSUME NEW r \in Records PROVE Paid(r)'
      <3>1. /\ Cardinality(Publishing(r)') + Weight(fpc[f], rec[f], r)
                 = Cardinality(Publishing(r)) + Weight(fpc'[f], rec'[f], r)
            /\ Cardinality(Publishing(r)') \in Nat /\ Cardinality(Publishing(r)) \in Nat
        BY <2>3, PublishingStep, PublishingFinite
      <3> QED
        BY <2>1, <3>1 DEF OutboxTypeOK, Holding, Paid, Taken, HeldBy, Weight
    <2> QED
      BY <2>1, <2>2, <2>4
  <1>4. CASE Published(f)
    <2> USE <1>4 DEF Published, Publish
    <2>1. OutboxTypeOK'
      BY DEF OutboxTypeOK, Holding
    <2>2. Holding' /\ Untouched' /\ Safe'
      BY DEF OutboxTypeOK, Holding, Untouched, Safe, RecordsAreKept, HeldBy
    <2>3. \A g \in Flushers \ {f} : fpc'[g] = fpc[g] /\ rec'[g] = rec[g]
      BY DEF OutboxTypeOK
    <2>4. ASSUME NEW r \in Records PROVE Paid(r)'
      <3>1. /\ Cardinality(Publishing(r)') + Weight(fpc[f], rec[f], r)
                 = Cardinality(Publishing(r)) + Weight(fpc'[f], rec'[f], r)
            /\ Cardinality(Publishing(r)') \in Nat /\ Cardinality(Publishing(r)) \in Nat
        BY <2>3, PublishingStep, PublishingFinite
      <3> QED
        BY <2>1, <3>1 DEF OutboxTypeOK, Holding, Paid, Taken, HeldBy, Weight
    <2> QED
      BY <2>1, <2>2, <2>4
  <1>5. CASE PublishFails(f)
    <2> USE <1>5 DEF PublishFails, Publish, Leave, Fault
    <2>1. OutboxTypeOK'
      BY DEF OutboxTypeOK, Holding
    <2>2. Holding' /\ Untouched' /\ Safe'
      BY DEF OutboxTypeOK, Holding, Untouched, Safe, RecordsAreKept, HeldBy
    <2>3. \A g \in Flushers \ {f} : fpc'[g] = fpc[g] /\ rec'[g] = rec[g]
      BY DEF OutboxTypeOK
    <2>4. ASSUME NEW r \in Records PROVE Paid(r)'
      <3>1. /\ Cardinality(Publishing(r)') + Weight(fpc[f], rec[f], r)
                 = Cardinality(Publishing(r)) + Weight(fpc'[f], rec'[f], r)
            /\ Cardinality(Publishing(r)') \in Nat /\ Cardinality(Publishing(r)) \in Nat
        BY <2>3, PublishingStep, PublishingFinite
      <3> QED
        BY <2>1, <3>1 DEF OutboxTypeOK, Holding, Paid, Taken, HeldBy, Weight
    <2> QED
      BY <2>1, <2>2, <2>4
  <1>6. CASE FlushDelete(f)
    <2> USE <1>6 DEF FlushDelete, Fault
    <2>1. OutboxTypeOK'
      BY DEF OutboxTypeOK, Holding
    <2>2. Holding' /\ Untouched' /\ Safe'
      BY DEF OutboxTypeOK, Holding, Untouched, Safe, RecordsAreKept, HeldBy
    <2>3. \A g \in Flushers \ {f} : fpc'[g] = fpc[g] /\ rec'[g] = rec[g]
      BY DEF OutboxTypeOK
    <2>4. ASSUME NEW r \in Records PROVE Paid(r)'
      <3>1. /\ Cardinality(Publishing(r)') + Weight(fpc[f], rec[f], r)
                 = Cardinality(Publishing(r)) + Weight(fpc'[f], rec'[f], r)
            /\ Cardinality(Publishing(r)') \in Nat /\ Cardinality(Publishing(r)) \in Nat
        BY <2>3, PublishingStep, PublishingFinite
      <3> QED
        BY <2>1, <3>1 DEF OutboxTypeOK, Holding, Paid, Taken, HeldBy, Weight
    <2> QED
      BY <2>1, <2>2, <2>4
  <1>7. CASE Dies(f)
    <2> USE <1>7 DEF Dies, Leave, Fault
    <2>1. OutboxTypeOK'
      BY DEF OutboxTypeOK, Holding
    <2>2. Holding' /\ Untouched' /\ Safe'
      BY DEF OutboxTypeOK, Holding, Untouched, Safe, RecordsAreKept, HeldBy
    <2>3. \A g \in Flushers \ {f} : fpc'[g] = fpc[g] /\ rec'[g] = rec[g]
      BY DEF OutboxTypeOK
    <2>4. ASSUME NEW r \in Records PROVE Paid(r)'
      <3>1. /\ Cardinality(Publishing(r)') + Weight(fpc[f], rec[f], r)
                 = Cardinality(Publishing(r)) + Weight(fpc'[f], rec'[f], r)
            /\ Cardinality(Publishing(r)') \in Nat /\ Cardinality(Publishing(r)) \in Nat
        BY <2>3, PublishingStep, PublishingFinite
      <3> QED
        BY <2>1, <3>1 DEF OutboxTypeOK, Holding, Paid, Taken, HeldBy, Weight
    <2> QED
      BY <2>1, <2>2, <2>4
  <1> QED
    BY <1>1, <1>2, <1>3, <1>4, <1>5, <1>6, <1>7 DEF Flush

\* So does every step of the outbox.
LEMMA NextInv == IInv /\ [OutboxNext]_outboxVars => IInv'
  <1> SUFFICES ASSUME IInv, [OutboxNext]_outboxVars PROVE IInv'
    OBVIOUS
  <1>1. CASE OutboxNext
    BY <1>1, EnqueueInv, FlusherInv DEF OutboxNext
  <1>2. CASE UNCHANGED outboxVars
    <2>1. \A r \in Records : Publishing(r)' = Publishing(r) /\ Taken(r)' = Taken(r)
      BY <1>2 DEF outboxVars, flushVars, Publishing, Taken, HeldBy
    <2>2. \A r \in Records : Paid(r)'
      BY <1>2, <2>1 DEF IInv, Paid, outboxVars, historyVars
    <2>3. OutboxTypeOK' /\ Holding' /\ Untouched' /\ Safe'
      BY <1>2 DEF IInv, OutboxTypeOK, Holding, Untouched, Safe, RecordsAreKept, HeldBy,
         outboxVars, enqVars, flushVars, historyVars
    <2> QED
      BY <2>2, <2>3 DEF IInv
  <1> QED
    BY <1>1, <1>2

\* What the counts come to.
LEMMA InvDuplicates == IInv => DuplicatesHaveCause
  <1> SUFFICES ASSUME IInv, NEW r \in Records PROVE pubs[r] <= 1 + faults[r] + overlaps[r]
    BY DEF DuplicatesHaveCause
  <1>1. Cardinality(Publishing(r)) \in Nat
    BY PublishingFinite
  <1> QED
    BY <1>1 DEF IInv, OutboxTypeOK, Paid, Taken

\* Flush loses no record that Enqueue accepted, however many flushers overlap, fail or
\* die (outbox.go).
THEOREM RecordsAreKeptAlways == OutboxSpec => []RecordsAreKept
  <1>1. IInv => RecordsAreKept
    BY DEF IInv, Safe
  <1> QED
    BY <1>1, InitInv, NextInv, PTL DEF OutboxSpec

\* Flush publishes a record again only for a fault it met or a flush that overlapped
\* while holding it (outbox.go).
THEOREM DuplicatesAreCaused == OutboxSpec => []DuplicatesHaveCause
  BY InitInv, NextInv, InvDuplicates, PTL DEF OutboxSpec
=============================================================================
