-------------------------- MODULE IdempotencyProofs --------------------------
(***************************************************************************)
(* Proofs for Idempotency: for any number of workers, faults and expiries.  *)
(*                                                                          *)
(* The duplicate bound is not inductive: a worker that is still in its      *)
(* handler may yet add a run, a worker about to Release will open the key,  *)
(* and an absent key admits one more worker. Each of these is a run that    *)
(* may still come, and the invariant counts them together with the runs     *)
(* that have been.                                                          *)
(***************************************************************************)
EXTENDS Idempotency, FiniteSetTheorems, TLAPS

\* Workers that may still add a run, or open the key to one who will.
Pending == {w \in Workers : pc[w] \in {"handler", "release"}}

\* An absent key admits one more.
Open == IF key = "absent" THEN 1 ELSE 0

Budget == runs + Cardinality(Pending) + Open <= 1 + faults + expiries

\* Until a key expires early, an owner is alone and has an entry.
Sole ==
    early = 0 =>
        \A w \in Workers : pc[w] \in Owning =>
            /\ key # "absent"
            /\ \A v \in Workers : pc[v] \in Owning => v = w

\* A done entry, a Mark or an Ack to come, and an Ack come from a run.
Earned ==
    acked \/ key = "done" \/ (\E w \in Workers : pc[w] \in {"mark", "ack"}) => runs > 0

IInv == TypeOK /\ Earned /\ (claiming => Sole /\ Budget)

-----------------------------------------------------------------------------
\* There are finitely many workers, so Pending has a size.
LEMMA PendingFinite ==
    /\ IsFiniteSet(Pending) /\ Cardinality(Pending) \in Nat
    /\ IsFiniteSet(Pending') /\ Cardinality(Pending') \in Nat
  <1>1. Pending \subseteq Workers /\ Pending' \subseteq Workers
    BY DEF Pending
  <1> QED
    BY <1>1, FS_Subset, FS_CardinalityType, IdempotencyAssumption

Weight(where) == IF where \in {"handler", "release"} THEN 1 ELSE 0

\* A worker that moves takes its weight out of Pending and puts its new one in.
LEMMA PendingStep ==
    ASSUME TypeOK, NEW w \in Workers, NEW to, pc' = [pc EXCEPT ![w] = to]
    PROVE  Cardinality(Pending') + Weight(pc[w]) = Cardinality(Pending) + Weight(to)
  <1>1. pc \in [Workers -> {"idle", "claim", "seen", "ack"} \cup Owning]
    BY DEF TypeOK
  <1>2. pc'[w] = to /\ \A v \in Workers \ {w} : pc'[v] = pc[v]
    BY <1>1
  <1>3. CASE pc[w] \in {"handler", "release"} /\ to \in {"handler", "release"}
    <2>1. Pending' = Pending
      BY <1>2, <1>3 DEF Pending
    <2> QED
      BY <1>3, <2>1 DEF Weight
  <1>4. CASE pc[w] \in {"handler", "release"} /\ to \notin {"handler", "release"}
    <2>1. Pending' = Pending \ {w} /\ w \in Pending
      BY <1>2, <1>4 DEF Pending
    <2>2. Cardinality(Pending') = Cardinality(Pending) - 1
      BY <2>1, PendingFinite, FS_RemoveElement
    <2> QED
      BY <1>4, <2>2, PendingFinite DEF Weight
  <1>5. CASE pc[w] \notin {"handler", "release"} /\ to \in {"handler", "release"}
    <2>1. Pending' = Pending \cup {w} /\ w \notin Pending
      BY <1>2, <1>5 DEF Pending
    <2>2. Cardinality(Pending') = Cardinality(Pending) + 1
      BY <2>1, PendingFinite, FS_AddElement
    <2> QED
      BY <1>5, <2>2, PendingFinite DEF Weight
  <1>6. CASE pc[w] \notin {"handler", "release"} /\ to \notin {"handler", "release"}
    <2>1. Pending' = Pending
      BY <1>2, <1>6 DEF Pending
    <2> QED
      BY <1>6, <2>1 DEF Weight
  <1> QED
    BY <1>3, <1>4, <1>5, <1>6

-----------------------------------------------------------------------------
\* The initial states satisfy the invariant.
LEMMA InitIInv == Init => IInv
  <1> SUFFICES ASSUME Init PROVE IInv
    OBVIOUS
  <1>1. TypeOK
    <2>1. claiming \in BOOLEAN /\ acked \in BOOLEAN
      BY Zenon DEF Init
    <2>2. /\ key \in {"absent", "pending", "done"}
          /\ pc \in [Workers -> {"idle", "claim", "seen", "ack"} \cup Owning]
          /\ runs \in Nat /\ faults \in 0..MaxFaults
          /\ early \in 0..MaxExpiries /\ expiries \in Nat
      BY IdempotencyAssumption, SMT DEF Init
    <2> QED
      BY <2>1, <2>2, Zenon DEF TypeOK
  <1>2. Earned /\ Sole
    BY DEF Init, Earned, Sole, Owning
  <1>3. Pending = {}
    BY DEF Init, Pending
  <1>4. Budget
    BY <1>3, FS_EmptySet DEF Init, Budget, Open
  <1> QED
    BY <1>1, <1>2, <1>4 DEF IInv

\* Every step keeps the types, and where an Ack comes from.
LEMMA NextEarned == TypeOK /\ Earned /\ [Next]_vars => TypeOK' /\ Earned'
  <1> SUFFICES ASSUME TypeOK, Earned, [Next]_vars PROVE TypeOK' /\ Earned'
    OBVIOUS
  <1> USE IdempotencyAssumption DEF TypeOK, Earned, Owning, Goto
  <1>1. ASSUME NEW w \in Workers, Deliver(w) PROVE TypeOK' /\ Earned'
    BY <1>1 DEF Deliver
  <1>2. ASSUME NEW w \in Workers, Claim(w) PROVE TypeOK' /\ Earned'
    BY <1>2 DEF Claim
  <1>3. ASSUME NEW w \in Workers, ClaimFails(w) PROVE TypeOK' /\ Earned'
    BY <1>3 DEF ClaimFails, Fault
  <1>4. ASSUME NEW w \in Workers, Seen(w) PROVE TypeOK' /\ Earned'
    BY <1>4 DEF Seen
  <1>5. ASSUME NEW w \in Workers, SeenFails(w) PROVE TypeOK' /\ Earned'
    BY <1>5 DEF SeenFails, Fault
  <1>6. ASSUME NEW w \in Workers, HandlerSucceeds(w) PROVE TypeOK' /\ Earned'
    BY <1>6 DEF HandlerSucceeds
  <1>7. ASSUME NEW w \in Workers, HandlerErrs(w) PROVE TypeOK' /\ Earned'
    BY <1>7 DEF HandlerErrs
  <1>8. ASSUME NEW w \in Workers, Mark(w) PROVE TypeOK' /\ Earned'
    BY <1>8 DEF Mark
  <1>9. ASSUME NEW w \in Workers, MarkFails(w) PROVE TypeOK' /\ Earned'
    BY <1>9 DEF MarkFails, Fault
  <1>10. ASSUME NEW w \in Workers, Release(w) PROVE TypeOK' /\ Earned'
    BY <1>10 DEF Release
  <1>11. ASSUME NEW w \in Workers, ReleaseFails(w) PROVE TypeOK' /\ Earned'
    BY <1>11 DEF ReleaseFails, Fault
  <1>12. ASSUME NEW w \in Workers, Ack(w) PROVE TypeOK' /\ Earned'
    <2>1. runs > 0
      BY <1>12 DEF Ack
    <2>2. CASE acked' = TRUE /\ UNCHANGED faults
      BY <1>12, <2>1, <2>2 DEF Ack
    <2>3. CASE Fault /\ UNCHANGED acked
      BY <1>12, <2>1, <2>3 DEF Ack, Fault
    <2> QED
      BY <1>12, <2>2, <2>3 DEF Ack
  <1>13. ASSUME NEW w \in Workers, Crash(w) PROVE TypeOK' /\ Earned'
    BY <1>13 DEF Crash, Fault
  <1>14. CASE ExpireOrphan
    BY <1>14 DEF ExpireOrphan
  <1>15. CASE ExpireEarly
    BY <1>15 DEF ExpireEarly
  <1>16. CASE UNCHANGED vars
    BY <1>16 DEF vars
  <1> HIDE DEF TypeOK, Earned, Owning, Goto
  <1> QED
    BY <1>1, <1>2, <1>3, <1>4, <1>5, <1>6, <1>7, <1>8, <1>9, <1>10, <1>11, <1>12, <1>13, <1>14, <1>15, <1>16
       DEF Next, WithHandler, Stored, HandlerReturns

\* Every step keeps an owner alone while no key has expired early.
LEMMA NextSole == TypeOK /\ claiming /\ Sole /\ [Next]_vars => Sole'
  <1> SUFFICES ASSUME TypeOK, claiming, Sole, [Next]_vars PROVE Sole'
    OBVIOUS
  <1> USE IdempotencyAssumption DEF TypeOK, Sole, Owning, Goto
  <1>1. ASSUME NEW w \in Workers, Deliver(w) PROVE Sole'
    BY <1>1 DEF Deliver
  <1>2. ASSUME NEW w \in Workers, Claim(w) PROVE Sole'
    BY <1>2 DEF Claim
  <1>3. ASSUME NEW w \in Workers, ClaimFails(w) PROVE Sole'
    BY <1>3 DEF ClaimFails, Fault
  <1>4. ASSUME NEW w \in Workers, Seen(w) PROVE Sole'
    BY <1>4 DEF Seen
  <1>5. ASSUME NEW w \in Workers, SeenFails(w) PROVE Sole'
    BY <1>5 DEF SeenFails, Fault
  <1>6. ASSUME NEW w \in Workers, HandlerSucceeds(w) PROVE Sole'
    BY <1>6 DEF HandlerSucceeds
  <1>7. ASSUME NEW w \in Workers, HandlerErrs(w) PROVE Sole'
    BY <1>7 DEF HandlerErrs
  <1>8. ASSUME NEW w \in Workers, Mark(w) PROVE Sole'
    BY <1>8 DEF Mark
  <1>9. ASSUME NEW w \in Workers, MarkFails(w) PROVE Sole'
    BY <1>9 DEF MarkFails, Fault
  <1>10. ASSUME NEW w \in Workers, Release(w) PROVE Sole'
    BY <1>10 DEF Release
  <1>11. ASSUME NEW w \in Workers, ReleaseFails(w) PROVE Sole'
    BY <1>11 DEF ReleaseFails, Fault
  <1>12. ASSUME NEW w \in Workers, Ack(w) PROVE Sole'
    BY <1>12 DEF Ack, Fault
  <1>13. ASSUME NEW w \in Workers, Crash(w) PROVE Sole'
    BY <1>13 DEF Crash, Fault
  <1>14. CASE ExpireOrphan
    BY <1>14 DEF ExpireOrphan
  <1>15. CASE ExpireEarly
    BY <1>15 DEF ExpireEarly
  <1>16. CASE UNCHANGED vars
    BY <1>16 DEF vars
  <1> HIDE DEF TypeOK, Sole, Owning, Goto
  <1> QED
    BY <1>1, <1>2, <1>3, <1>4, <1>5, <1>6, <1>7, <1>8, <1>9, <1>10, <1>11, <1>12, <1>13, <1>14, <1>15, <1>16
       DEF Next, WithHandler, Stored, HandlerReturns

\* Every step keeps within the budget: what it adds to the runs to come is
\* taken from them or paid for by a fault or an expiry.
LEMMA NextBudget == TypeOK /\ claiming /\ Budget /\ [Next]_vars => Budget'
  <1> SUFFICES ASSUME TypeOK, claiming, Budget, [Next]_vars PROVE Budget'
    OBVIOUS
  <1> USE PendingFinite DEF TypeOK, Budget, Open
  <1>1. ASSUME NEW w \in Workers, Deliver(w) PROVE Budget'
    <2>1. PICK to : pc' = [pc EXCEPT ![w] = to] /\ (to = pc'[w])
      BY <1>1 DEF Deliver, Goto
    <2>2. Cardinality(Pending') + Weight(pc[w]) = Cardinality(Pending) + Weight(pc'[w])
      BY <2>1, PendingStep
    <2> QED
      BY <1>1, <2>2 DEF Deliver, Goto, Weight
  <1>2. ASSUME NEW w \in Workers, Claim(w) PROVE Budget'
    <2>1. PICK to : pc' = [pc EXCEPT ![w] = to] /\ (to = pc'[w])
      BY <1>2 DEF Claim, Goto
    <2>2. Cardinality(Pending') + Weight(pc[w]) = Cardinality(Pending) + Weight(pc'[w])
      BY <2>1, PendingStep
    <2> QED
      BY <1>2, <2>2 DEF Claim, Goto, Weight
  <1>3. ASSUME NEW w \in Workers, ClaimFails(w) PROVE Budget'
    <2>1. PICK to : pc' = [pc EXCEPT ![w] = to] /\ (to = pc'[w])
      BY <1>3 DEF ClaimFails, Goto, Fault
    <2>2. Cardinality(Pending') + Weight(pc[w]) = Cardinality(Pending) + Weight(pc'[w])
      BY <2>1, PendingStep
    <2> QED
      BY <1>3, <2>2 DEF ClaimFails, Goto, Fault, Weight
  <1>4. ASSUME NEW w \in Workers, Seen(w) PROVE Budget'
    <2>1. PICK to : pc' = [pc EXCEPT ![w] = to] /\ (to = pc'[w])
      BY <1>4 DEF Seen, Goto
    <2>2. Cardinality(Pending') + Weight(pc[w]) = Cardinality(Pending) + Weight(pc'[w])
      BY <2>1, PendingStep
    <2> QED
      BY <1>4, <2>2 DEF Seen, Goto, Weight
  <1>5. ASSUME NEW w \in Workers, SeenFails(w) PROVE Budget'
    <2>1. PICK to : pc' = [pc EXCEPT ![w] = to] /\ (to = pc'[w])
      BY <1>5 DEF SeenFails, Goto, Fault
    <2>2. Cardinality(Pending') + Weight(pc[w]) = Cardinality(Pending) + Weight(pc'[w])
      BY <2>1, PendingStep
    <2> QED
      BY <1>5, <2>2 DEF SeenFails, Goto, Fault, Weight
  <1>6. ASSUME NEW w \in Workers, HandlerSucceeds(w) PROVE Budget'
    <2>1. PICK to : pc' = [pc EXCEPT ![w] = to] /\ (to = pc'[w])
      BY <1>6 DEF HandlerSucceeds, Goto
    <2>2. Cardinality(Pending') + Weight(pc[w]) = Cardinality(Pending) + Weight(pc'[w])
      BY <2>1, PendingStep
    <2> QED
      BY <1>6, <2>2 DEF HandlerSucceeds, Goto, Weight
  <1>7. ASSUME NEW w \in Workers, HandlerErrs(w) PROVE Budget'
    <2>1. PICK to : pc' = [pc EXCEPT ![w] = to] /\ (to = pc'[w])
      BY <1>7 DEF HandlerErrs, Goto
    <2>2. Cardinality(Pending') + Weight(pc[w]) = Cardinality(Pending) + Weight(pc'[w])
      BY <2>1, PendingStep
    <2> QED
      BY <1>7, <2>2 DEF HandlerErrs, Goto, Weight
  <1>8. ASSUME NEW w \in Workers, Mark(w) PROVE Budget'
    <2>1. PICK to : pc' = [pc EXCEPT ![w] = to] /\ (to = pc'[w])
      BY <1>8 DEF Mark, Goto
    <2>2. Cardinality(Pending') + Weight(pc[w]) = Cardinality(Pending) + Weight(pc'[w])
      BY <2>1, PendingStep
    <2> QED
      BY <1>8, <2>2 DEF Mark, Goto, Weight
  <1>9. ASSUME NEW w \in Workers, MarkFails(w) PROVE Budget'
    <2>1. PICK to : pc' = [pc EXCEPT ![w] = to] /\ (to = pc'[w])
      BY <1>9 DEF MarkFails, Goto, Fault
    <2>2. Cardinality(Pending') + Weight(pc[w]) = Cardinality(Pending) + Weight(pc'[w])
      BY <2>1, PendingStep
    <2> QED
      BY <1>9, <2>2 DEF MarkFails, Goto, Fault, Weight
  <1>10. ASSUME NEW w \in Workers, Release(w) PROVE Budget'
    <2>1. PICK to : pc' = [pc EXCEPT ![w] = to] /\ (to = pc'[w])
      BY <1>10 DEF Release, Goto
    <2>2. Cardinality(Pending') + Weight(pc[w]) = Cardinality(Pending) + Weight(pc'[w])
      BY <2>1, PendingStep
    <2> QED
      BY <1>10, <2>2 DEF Release, Goto, Weight
  <1>11. ASSUME NEW w \in Workers, ReleaseFails(w) PROVE Budget'
    <2>1. PICK to : pc' = [pc EXCEPT ![w] = to] /\ (to = pc'[w])
      BY <1>11 DEF ReleaseFails, Goto, Fault
    <2>2. Cardinality(Pending') + Weight(pc[w]) = Cardinality(Pending) + Weight(pc'[w])
      BY <2>1, PendingStep
    <2> QED
      BY <1>11, <2>2 DEF ReleaseFails, Goto, Fault, Weight
  <1>12. ASSUME NEW w \in Workers, Ack(w) PROVE Budget'
    <2>1. PICK to : pc' = [pc EXCEPT ![w] = to] /\ (to = pc'[w])
      BY <1>12 DEF Ack, Goto, Fault
    <2>2. Cardinality(Pending') + Weight(pc[w]) = Cardinality(Pending) + Weight(pc'[w])
      BY <2>1, PendingStep
    <2> QED
      BY <1>12, <2>2 DEF Ack, Goto, Fault, Weight
  <1>13. ASSUME NEW w \in Workers, Crash(w) PROVE Budget'
    <2>1. PICK to : pc' = [pc EXCEPT ![w] = to] /\ (to = pc'[w])
      BY <1>13 DEF Crash, Goto, Fault
    <2>2. Cardinality(Pending') + Weight(pc[w]) = Cardinality(Pending) + Weight(pc'[w])
      BY <2>1, PendingStep
    <2> QED
      BY <1>13, <2>2 DEF Crash, Goto, Fault, Weight
  <1>14. CASE ExpireOrphan
    <2>1. Pending' = Pending
      BY <1>14 DEF ExpireOrphan, Pending
    <2> QED
      BY <1>14, <2>1 DEF ExpireOrphan
  <1>15. CASE ExpireEarly
    <2>1. Pending' = Pending
      BY <1>15 DEF ExpireEarly, Pending
    <2> QED
      BY <1>15, <2>1 DEF ExpireEarly
  <1>16. CASE UNCHANGED vars
    <2>1. Pending' = Pending
      BY <1>16 DEF vars, Pending
    <2> QED
      BY <1>16, <2>1 DEF vars
  <1> HIDE DEF TypeOK, Budget, Open
  <1> QED
    BY <1>1, <1>2, <1>3, <1>4, <1>5, <1>6, <1>7, <1>8, <1>9, <1>10, <1>11, <1>12, <1>13, <1>14, <1>15, <1>16
       DEF Next, WithHandler, Stored, HandlerReturns

\* The store is the same kind of store throughout.
LEMMA NextClaiming == [Next]_vars => claiming' = claiming
  BY DEF Next, vars, WithHandler, Stored, HandlerReturns, Deliver, Claim, ClaimFails,
         Seen, SeenFails, HandlerSucceeds, HandlerErrs, Mark, MarkFails, Release,
         ReleaseFails, Ack, Crash, ExpireOrphan, ExpireEarly

\* The invariant holds in every reachable state, for any number of workers.
THEOREM IdempotencyInvariant == Spec => []IInv
  <1>1. IInv /\ [Next]_vars => IInv'
    BY NextEarned, NextSole, NextBudget, NextClaiming DEF IInv
  <1> QED
    BY <1>1, InitIInv, PTL DEF Spec

\* WithHandler and the KV store keep the types of their state: the entry is always
\* absent, pending or done, and each worker at a place of its code.
THEOREM TypeCorrect == Spec => []TypeOK
  <1>1. IInv => TypeOK
    BY DEF IInv
  <1> QED
    BY <1>1, IdempotencyInvariant, PTL

\* Only a handled message is Acked (ErrClaimInFlight is a Nak).
THEOREM AckedWasHandledAlways == Spec => []AckedWasHandled
  <1>1. IInv => AckedWasHandled
    BY DEF IInv, Earned, AckedWasHandled
  <1> QED
    BY <1>1, IdempotencyInvariant, PTL

\* Until a key expires early at most one worker is past its Claim.
THEOREM OwnerIsExclusive == Spec => []ExclusiveOwner
  <1>1. IInv => ExclusiveOwner
    <2> SUFFICES ASSUME IInv, claiming, early = 0
                 PROVE  Cardinality({w \in Workers : pc[w] \in Owning}) <= 1
      BY DEF ExclusiveOwner
    <2> DEFINE O == {w \in Workers : pc[w] \in Owning}
    <2>1. CASE O = {}
      BY <2>1, FS_EmptySet
    <2>2. CASE O # {}
      <3>1. PICK w : w \in O
        BY <2>2
      <3>2. \A v \in O : v = w
        BY <3>1 DEF IInv, Sole
      <3>3. O = {w}
        BY <3>1, <3>2
      <3>4. Cardinality(O) = 1
        BY <3>3, FS_Singleton
      <3> QED
        BY <3>4, 1 <= 1
    <2> QED
      BY <2>1, <2>2
  <1> QED
    BY <1>1, IdempotencyInvariant, PTL

\* Every duplicate run is paid for by a fault or an expiry.
THEOREM DuplicatesPaid == Spec => []DuplicatesArePaidFor
  <1>1. IInv => DuplicatesArePaidFor
    BY PendingFinite DEF IInv, TypeOK, Budget, Open, DuplicatesArePaidFor
  <1> QED
    BY <1>1, IdempotencyInvariant, PTL
=============================================================================
