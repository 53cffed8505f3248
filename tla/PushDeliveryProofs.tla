------------------------- MODULE PushDeliveryProofs -------------------------
(***************************************************************************)
(* Proofs about the push consumer, for any numbers of messages, callbacks,  *)
(* workers, queue slots, deliveries and failed calls: no message is settled *)
(* without a reason, depth counts the tasks it stands for, and where only a *)
(* handler error uses up a delivery, MaxDeliver = N allows N attempts.      *)
(***************************************************************************)
EXTENDS PushDeliverySteps, FiniteSetTheorems

-----------------------------------------------------------------------------
(* depth *)

\* A set of actors and the same set with one actor added.
LEMMA OneMore ==
    ASSUME NEW S \in SUBSET Actors, NEW a \in Actors \ S
    PROVE  /\ Cardinality(S) \in Nat /\ Cardinality(S \cup {a}) = Cardinality(S) + 1
  <1>1. IsFiniteSet(Actors)
    BY DeliveryAssumption, FS_Union DEF Actors
  <1>2. IsFiniteSet(S)
    BY <1>1, FS_Subset
  <1> QED
    BY <1>2, FS_AddElement, FS_CardinalityType

LEMMA DepthKept == ASSUME Shape, DepthIsQueued, [Next]_vars PROVE DepthIsQueued'
  <1>0. /\ InHand \in SUBSET Actors /\ InHand' \in SUBSET Actors
        /\ depth = Len(queue) + Cardinality(InHand) /\ Len(queue) \in Nat
        /\ DepthIsQueued' <=> depth' = Len(queue') + Cardinality(InHand')
    BY DEF InHand, DepthIsQueued, Shape
  <1>1. ASSUME depth' = depth, queue' = queue, InHand' = InHand PROVE DepthIsQueued'
    BY <1>0, <1>1
  <1>2. ASSUME NEW m \in Msgs, AckWait(m) PROVE DepthIsQueued'
    BY <1>1, <1>2 DEF AckWait, pool, InHand
  <1>3. ASSUME NEW m \in Msgs, NEW k \in Callbacks, Deliver(k, m) PROVE DepthIsQueued'
    <2>1. pc'[k] \in {"process", "publish", "check"} /\ pc[k] = "idle"
      BY <1>3 DEF Deliver, Shape, Actors
    <2>2. \A a \in Actors \ {k} : pc'[a] = pc[a]
      BY <1>3 DEF Deliver, Shape
    <2>3. InHand' = InHand
      BY <2>1, <2>2 DEF InHand
    <2> QED
      BY <1>1, <1>3, <2>3 DEF Deliver, pool
  <1>4. ASSUME NEW k \in Callbacks, wrapHandler(k) PROVE DepthIsQueued'
    <2>1. k \in Actors
      BY DEF Actors
    <2>2. CASE CheckRoom(k) \/ CheckBlock(k) \/ CheckNak(k) \/ CheckTerm(k)
      <3>1. InHand' = InHand
        BY <2>1, <2>2 DEF CheckRoom, CheckBlock, CheckNak, CheckTerm, PoolFull, Goto, Finish, Shape, InHand
      <3> QED
        BY <1>1, <2>2, <3>1 DEF CheckRoom, CheckBlock, CheckNak, CheckTerm, pool
    <2>3. CASE Publish(k)
      <3>1. CASE depth' = depth /\ Finish(k)
        <4>1. InHand' = InHand
          BY <2>1, <2>3, <3>1 DEF Publish, Finish, Shape, InHand
        <4> QED
          BY <1>1, <2>3, <3>1, <4>1 DEF Publish
      <3>2. CASE depth' = depth + 1 /\ Goto(k, "publish", "send")
        <4>1. InHand' = InHand \cup {k} /\ k \notin InHand
          BY <2>1, <2>3, <3>2 DEF Goto, Shape, InHand
        <4>2. queue' = queue
          BY <2>3 DEF Publish
        <4> QED
          BY <1>0, <2>1, <3>2, <4>1, <4>2, OneMore
      <3> QED
        BY <2>3, <3>1, <3>2 DEF Publish
    <2>4. CASE Send(k)
      <3>1. InHand = InHand' \cup {k} /\ k \notin InHand'
        BY <2>1, <2>4 DEF Send, Finish, Shape, InHand
      <3>2. Len(queue') = Len(queue) + 1
        BY <2>1, <2>4, AppendIs DEF Send, Shape
      <3>3. depth' = depth
        BY <2>4 DEF Send
      <3> QED
        BY <1>0, <2>1, <3>1, <3>2, <3>3, OneMore
    <2>5. CASE SendFails(k)
      <3>1. InHand = InHand' \cup {k} /\ k \notin InHand'
        BY <2>1, <2>5 DEF SendFails, Goto, Finish, Shape, InHand
      <3>2. depth' = depth - 1 /\ queue' = queue
        BY <2>5 DEF SendFails
      <3> QED
        BY <1>0, <2>1, <3>1, <3>2, OneMore
    <2> QED
      BY <1>4, <2>2, <2>3, <2>4, <2>5 DEF wrapHandler
  <1>5. ASSUME NEW w \in Workers, Take(w) PROVE DepthIsQueued'
    <2>1. w \in Actors /\ InHand' = InHand \cup {w} /\ w \notin InHand
      BY <1>5 DEF Take, Shape, Actors, InHand
    <2>2. Len(queue') = Len(queue) - 1
      BY <1>5, TailIs DEF Take, Shape
    <2>3. depth' = depth
      BY <1>5 DEF Take
    <2> QED
      BY <1>0, <2>1, <2>2, <2>3, OneMore
  <1>6. ASSUME NEW w \in Workers, Start(w) PROVE DepthIsQueued'
    <2>1. w \in Actors /\ InHand = InHand' \cup {w} /\ w \notin InHand'
      BY <1>6 DEF Start, Goto, Shape, Actors, InHand
    <2>2. depth' = depth - 1 /\ queue' = queue
      BY <1>6 DEF Start
    <2> QED
      BY <1>0, <2>1, <2>2, OneMore
  <1>7. ASSUME NEW a \in Actors, processMessage(a) PROVE DepthIsQueued'
    <2>1. InHand' = InHand
      BY <1>7 DEF processMessage, Dispatch, Handler, Route, Term, Ack, Nak, Goto, Finish, Shape, InHand
    <2>2. depth' = depth /\ queue' = queue
      BY <1>7 DEF processMessage, Dispatch, Handler, Route, Term, Ack, Nak, pool
    <2> QED
      BY <1>1, <2>1, <2>2
  <1>8. CASE Stop \/ UNCHANGED vars
    BY <1>1, <1>8 DEF Stop, vars, pool, InHand
  <1> QED
    BY <1>2, <1>3, <1>4, <1>5, <1>6, <1>7, <1>8 DEF Next
-----------------------------------------------------------------------------
(* Theorems *)

LEMMA InitIInv == ASSUME Init PROVE IInv
  <1> USE DeliveryAssumption
  <1>1. Shape /\ Accounted
    BY DEF Init, Shape, Accounted, SettledIsAccounted
  <1>2. DepthIsQueued
    <2>1. {a \in Actors : pc[a] \in {"send", "taken"}} = {}
      BY DEF Init
    <2>2. queue = <<>> /\ depth = 0
      BY DEF Init
    <2> QED
      BY <2>1, <2>2, FS_EmptySet DEF DepthIsQueued
  <1>3. OneDelivery /\ Counted
    BY DEF Init, OneDelivery, Counted, Gone, Waiting, Underway, UnderwayAt, NHandlerAttempts
  <1> QED
    BY <1>1, <1>2, <1>3 DEF IInv

\* The inductive invariant of the push consumer.
THEOREM DeliveryInvariant == Spec => []IInv
  <1>1. IInv /\ [Next]_vars => IInv'
    <2> SUFFICES ASSUME IInv, [Next]_vars PROVE IInv'
      OBVIOUS
    <2>1. Shape' /\ Accounted' /\ DepthIsQueued'
      BY ShapeKept, AccountedKept, DepthKept DEF IInv
    <2>2. Undisturbed' => Undisturbed
      BY DEF Undisturbed, Next, vars, config, AckWait, Deliver, wrapHandler, CheckRoom, CheckBlock, CheckNak,
             CheckTerm, Publish, Send, SendFails, Take, Start, processMessage, Dispatch, Handler, Route, Term,
             Ack, Nak, Stop
    <2>3. ASSUME Undisturbed PROVE OneDelivery' /\ Counted'
      BY <2>1, <2>3, OneDeliveryKept, CountedKept DEF IInv
    <2> QED
      BY <2>1, <2>2, <2>3 DEF IInv
  <1> QED
    BY <1>1, InitIInv, PTL DEF Spec

\* No silent loss (processMessage, dlq's route, handlePoolBackpressure): the
\* server forgets a message only when a handler run returned nil for it, when
\* it is in the dead-letter stream, or when a lossy mode shed it.
THEOREM NothingIsLostSilently == Spec => []SettledIsAccounted
  <1>1. IInv => SettledIsAccounted
    BY DEF IInv, Accounted
  <1> QED
    BY <1>1, DeliveryInvariant, PTL

\* dlq.With's promise that MaxDeliver = N allows N handler attempts, where only
\* a handler error uses up a delivery: a blocking callback or none, and an
\* AckWait that no delivery outlives in the client.
THEOREM BlockAllowsNAttemptsAlways == Spec => []BlockAllowsNAttempts
  <1>1. IInv => BlockAllowsNAttempts
    BY DEF IInv, Undisturbed, Counted, BlockAllowsNAttempts
  <1> QED
    BY <1>1, DeliveryInvariant, PTL

\* The pool's depth, by which handlePoolBackpressure sheds load, is the number
\* of tasks that are queued, about to be queued or just taken: tryPublish's
\* rollback and the worker's decrement leave nothing behind.
THEOREM DepthIsQueuedAlways == Spec => []DepthIsQueued
  <1>1. IInv => DepthIsQueued
    BY DEF IInv
  <1> QED
    BY <1>1, DeliveryInvariant, PTL
=============================================================================
