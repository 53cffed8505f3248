-------------------------- MODULE WorkerPoolProofs --------------------------
(***************************************************************************)
(* Theorems about WorkerPool, for any number of calls, workers and stoppers *)
(* and any buffer size: its invariants, and from them that GracefulStop     *)
(* drains, that tasks run once and are never mislaid, that the counters     *)
(* settle, and that the pool implements its contract.                       *)
(***************************************************************************)
EXTENDS WorkerPoolSteps, FiniteSetTheorems, SequenceTheorems

\* What the counters count is finite.
LEMMA FiniteCounted ==
    ASSUME Shape
    PROVE  IsFiniteSet(Publishing) /\ IsFiniteSet(Queued) /\ IsFiniteSet(Running)
<1>1. Publishing \subseteq Calls /\ Queued \subseteq Calls /\ Running \subseteq Workers
  BY DEF Shape, Publishing, Queued, Waiting, Fresh, Running, Range
<1> QED BY <1>1, FS_Subset, PoolAssumption

\* A counter that moves with a finite set keeps counting it.
LEMMA MovesCounts ==
    ASSUME NEW n, NEW m, NEW S, NEW T, IsFiniteSet(S), n = Cardinality(S), Moves(n, m, S, T)
    PROVE  m = Cardinality(T)
<1>1. Cardinality(S) \in Nat
  BY FS_CardinalityType
<1>2. CASE m = n /\ T = S
  BY <1>2
<1>3. ASSUME m = n + 1, NEW x \in T, x \notin S, T = S \cup {x} PROVE m = Cardinality(T)
  BY <1>3, FS_AddElement
<1>4. ASSUME m = n - 1, NEW x \in S, T = S \ {x} PROVE m = Cardinality(T)
  BY <1>4, FS_RemoveElement
<1> QED BY <1>2, <1>3, <1>4 DEF Moves

\* Every counter keeps counting what it stands for.
LEMMA NextCounts ==
    ASSUME TypeOK, Places, Counts, Shape', [Next]_vars
    PROVE  Counts'
<1>1. IsFiniteSet(Publishing) /\ IsFiniteSet(Queued) /\ IsFiniteSet(Running)
  BY FiniteCounted DEF TypeOK, Shape
<1>2. publishers' = Cardinality(Publishing')
  BY <1>1, PublishersMove, MovesCounts DEF Counts
<1>3. depth' = Cardinality(Queued')
  BY <1>1, DepthMoves, MovesCounts DEF Counts
<1>4. inFlight' = Cardinality(Running')
  BY <1>1, InFlightMoves, MovesCounts DEF Counts
<1> QED BY <1>2, <1>3, <1>4 DEF Counts

\* The part of the invariant that a step of the pool, or the end of the
\* parent context, preserves on its own.
LEMMA NextParentInv ==
    ASSUME ParentInv, [Next \/ ParentCancel]_vars
    PROVE  ParentInv'
<1> USE DEF ParentInv
<1>1. CASE [Next]_vars
  <2>1. Shape'
    BY <1>1, NextShape
  <2>2. Places' /\ Exclusion'
    BY <1>1, <2>1, NextPlaces, NextExclusion
  <2>3. Counts'
    BY <1>1, <2>1, NextCounts
  <2>4. TypeOK'
    <3>1. IsFiniteSet(Publishing') /\ IsFiniteSet(Queued') /\ IsFiniteSet(Running')
      <4>1. Publishing' \subseteq Calls /\ Queued' \subseteq Calls /\ Running' \subseteq Workers
        BY <2>1 DEF Shape, Publishing, Queued, Waiting, Fresh, Running, Range
      <4> QED BY <4>1, FS_Subset, PoolAssumption
    <3>2. publishers' \in Nat /\ depth' \in Nat /\ inFlight' \in Nat
      BY <2>3, <3>1, FS_CardinalityType DEF Counts
    <3> QED BY <2>1, <3>2 DEF Shape, TypeOK
  <2> QED BY <2>2, <2>3, <2>4
<1>2. CASE ParentCancel
  <2>1. cancelled' = TRUE /\ UNCHANGED <<state, stopped, spc, input, counters, mu, callVars, workerVars, handled>>
    BY <1>2 DEF ParentCancel
  <2>2. TypeOK'
    BY <2>1 DEF TypeOK, counters, callVars, workerVars
  <2>3. Counts'
    BY <2>1 DEF Counts, Publishing, Queued, Waiting, Fresh, Running, counters, callVars, workerVars
  <2>4. Places'
    BY <2>1, PlacesUndisturbed DEF callVars, workerVars
  <2>5. Exclusion'
    BY <2>1 DEF Exclusion, workerVars
  <2> QED BY <2>2, <2>3, <2>4, <2>5
<1> QED BY <1>1, <1>2

\* The pool starts with nothing counted, nothing queued and nobody stopping.
LEMMA InitIInv ==
    ASSUME Init
    PROVE  IInv
<1> USE PoolAssumption DEF Init
<1>1. TypeOK
  <2>1. cpc \in [Calls -> CallPCs] /\ nonBlocking \in [Calls -> BOOLEAN] /\ result \in [Calls -> Results]
    BY DEF CallPCs, Results
  <2>2. wpc \in [Workers -> WorkerPCs] /\ cur \in [Workers -> Calls \cup {Nil}]
    BY DEF WorkerPCs
  <2>3. back \in [Workers -> {"select", "recv", "lock"}] /\ load \in [Workers -> 1..3]
    OBVIOUS
  <2>4. spc \in [Stoppers -> StopPCs]
    BY DEF StopPCs
  <2>5. input \in Seq(Calls) /\ handled \in Seq(Calls)
    BY EmptySeq
  <2> QED BY <2>1, <2>2, <2>3, <2>4, <2>5 DEF TypeOK
<1>2. Range(input) = {} /\ Range(handled) = {}
  BY DEF Range
<1>3. Publishing = {} /\ Queued = {} /\ Running = {}
  BY <1>2 DEF Publishing, Queued, Waiting, Fresh, Running
<1>4. Counts
  BY <1>3, FS_EmptySet DEF Counts
<1>5. Places /\ Exclusion
  BY <1>2 DEF Places, Accepted, Distinct, Exclusion
<1>6. Draining /\ Stopping
  BY DEF Draining, Stopping, Winning
<1> QED BY <1>1, <1>4, <1>5, <1>6 DEF IInv, ParentInv

-----------------------------------------------------------------------------
(* Theorems *)

\* The invariant that holds even when the context given to New ends by itself.
THEOREM ParentInvariant == ParentSpec => []ParentInv
<1>1. Init => ParentInv
  BY InitIInv DEF IInv
<1>2. ParentInv /\ [Next \/ ParentCancel]_vars => ParentInv'
  BY NextParentInv
<1> QED BY <1>1, <1>2, PTL DEF ParentSpec

\* The full inductive invariant, when only GracefulStop ends the context.
THEOREM PoolInvariant == Spec => []IInv
<1>1. Init => IInv
  BY InitIInv
<1>2. IInv /\ [Next]_vars => IInv'
  <2> SUFFICES ASSUME IInv, [Next]_vars PROVE IInv'
    OBVIOUS
  <2>1. ParentInv'
    BY NextParentInv DEF IInv
  <2>2. Shape'
    BY <2>1 DEF ParentInv, TypeOK, Shape
  <2>3. Draining' /\ Stopping'
    <3>1. IsFiniteSet(Publishing) /\ IsFiniteSet(Queued)
      BY FiniteCounted DEF IInv, ParentInv, TypeOK, Shape
    <3>2. (publishers = 0 => Publishing = {}) /\ (depth = 0 => Queued = {})
      BY <3>1, FS_EmptySet DEF IInv, ParentInv, Counts
    <3> QED BY <3>2, NextDraining, NextStopping DEF IInv, ParentInv
  <2> QED BY <2>1, <2>3 DEF IInv
<1> QED BY <1>1, <1>2, PTL DEF Spec

\* Every variable of the pool keeps its type; the counters never go negative.
THEOREM TypeCorrect == Spec => []TypeOK
<1>1. IInv => TypeOK
  BY DEF IInv, ParentInv
<1> QED BY <1>1, PoolInvariant, PTL

\* GracefulStop leaves nothing behind: when it returns the channel is empty,
\* every accepted task has been handled and no publisher can still send.
THEOREM GracefulStopDrains == Spec => []StopDrains
<1>1. IInv => StopDrains
  <2> SUFFICES ASSUME IInv, stopped PROVE StopDrains
    BY DEF StopDrains
  <2>1. PICK w \in Workers : wpc[w] = "returned"
    BY PoolAssumption DEF IInv, Stopping
  <2>2. input = <<>> /\ NoneMayLand
    BY <2>1 DEF IInv, Draining
  <2>3. ASSUME NEW c \in Calls, Accepted(c) PROVE c \in Range(handled)
    <3>1. c \notin Range(input)
      BY <2>2 DEF Range
    <3>2. \A v \in Workers : cur[v] = Nil
      BY DEF IInv, ParentInv, Places, Stopping
    <3>3. c # Nil
      BY PoolAssumption
    <3> QED BY <2>3, <3>1, <3>2, <3>3 DEF IInv, ParentInv, Places
  <2> QED BY <2>2, <2>3 DEF StopDrains, NoSendAfterStop, NoneMayLand
<1> QED BY <1>1, PoolInvariant, PTL

\* A task runs at most once, and only if its publisher was told it was
\* accepted, even when the parent context ends.
THEOREM TasksRunOnce == ParentSpec => []RunsOnceIfAccepted
<1>1. ParentInv => RunsOnceIfAccepted
  <2> SUFFICES ASSUME ParentInv PROVE RunsOnceIfAccepted
    OBVIOUS
  <2>1. \A i \in DOMAIN handled : handled[i] \in Range(handled) /\ handled[i] \in Calls
    BY DEF Range, ParentInv, TypeOK
  <2>2. \A i \in DOMAIN handled : Accepted(handled[i])
    BY <2>1, Zenon DEF ParentInv, Places
  <2>3. Distinct(handled)
    BY DEF ParentInv, Places
  <2> QED BY <2>2, <2>3 DEF Distinct, RunsOnceIfAccepted
<1> QED BY <1>1, ParentInvariant, PTL

\* An accepted task is in the channel, with one worker or handled, never in
\* two of these places.
THEOREM AcceptedNeverMislaid == ParentSpec => []AcceptedIsSomewhere
<1>1. ParentInv => AcceptedIsSomewhere
  <2> SUFFICES ASSUME ParentInv, NEW c \in Calls
               PROVE  LET queued == c \in Range(input)
                          held   == \E w \in Workers : cur[w] = c
                          done   == c \in Range(handled)
                      IN  /\ Accepted(c) <=> queued \/ held \/ done
                          /\ ~(queued /\ held) /\ ~(queued /\ done) /\ ~(held /\ done)
    BY DEF AcceptedIsSomewhere
  <2>1. Accepted(c) <=> \/ c \in Range(input) \cup Range(handled)
                        \/ \E w \in Workers : cur[w] = c
    BY Zenon DEF ParentInv, Places
  <2>2. \A w \in Workers : cur[w] \notin Range(input) \cup Range(handled)
    BY DEF ParentInv, Places
  <2>3. Range(input) \cap Range(handled) = {}
    BY DEF ParentInv, Places
  <2> QED BY <2>1, <2>2, <2>3
<1> QED BY <1>1, ParentInvariant, PTL

\* No worker holds the drain mutex while it waits or runs a handler.
THEOREM MutexReleased == ParentSpec => []MutexNotHeldAcrossHandler
<1>1. ParentInv => MutexNotHeldAcrossHandler
  BY DEF ParentInv, TypeOK, Exclusion, MutexNotHeldAcrossHandler
<1> QED BY <1>1, ParentInvariant, PTL

\* A sequence without repetition is as long as its range is large.
LEMMA DistinctLen ==
    ASSUME NEW S, NEW q \in Seq(S), Distinct(q)
    PROVE  Cardinality(Range(q)) = Len(q)
<1>1. Len(q) \in Nat /\ DOMAIN q = 1..Len(q)
  BY LenProperties
<1>2. q \in Bijection(1..Len(q), Range(q))
  <2>1. q \in [1..Len(q) -> Range(q)]
    BY <1>1, LenProperties DEF Range
  <2>2. \A t \in Range(q) : \E i \in 1..Len(q) : q[i] = t
    BY <1>1 DEF Range
  <2> QED BY <1>1, <2>1, <2>2 DEF Bijection, Injection, Surjection, IsInjective, Distinct
<1> QED BY <1>1, <1>2, FS_CountingElements DEF ExistsBijection

\* The counters leak nothing, even when the parent context ends.
THEOREM CountersDoSettle == ParentSpec => []CountersSettle
<1>1. ParentInv => CountersSettle
  <2> SUFFICES ASSUME ParentInv,
                      \A c \in Calls : cpc[c] \in {"idle", "done"},
                      \A w \in Workers : wpc[w] \in {"select", "returned"}
               PROVE  depth = Len(input) /\ inFlight = 0 /\ publishers = 0
    BY DEF CountersSettle
  <2>1. Publishing = {} /\ Running = {}
    BY DEF Publishing, Running
  <2>2. Queued = Range(input)
    BY DEF Queued, Waiting, Fresh
  <2>3. Cardinality(Range(input)) = Len(input)
    BY DistinctLen DEF ParentInv, TypeOK, Places
  <2> QED BY <2>1, <2>2, <2>3, FS_EmptySet DEF ParentInv, Counts
<1> QED BY <1>1, ParentInvariant, PTL
-----------------------------------------------------------------------------
(* The pool implements PoolContract, under the refinement mapping of        *)
(* WorkerPool: a call's status is read off its result and the history of    *)
(* handled tasks, and the phase is the pool's state.                        *)

\* Every step of the pool is a step of the contract, or leaves what the
\* contract sees unchanged.
LEMMA StepRefines ==
    ASSUME TypeOK, Places, Draining, Stopping, [Next]_vars
    PROVE  Contract!Next \/ UNCHANGED Contract!vars
<1> USE DEF TypeOK, stopVars, counters, callVars, workerVars
<1>1. ASSUME NEW c \in Calls, NEW nb \in BOOLEAN, Enter(c, nb) PROVE UNCHANGED <<result, handled, state>>
  BY <1>1 DEF Enter, callGoes
<1>2. ASSUME NEW c \in Calls, Gate(c) PROVE Contract!Next \/ UNCHANGED <<result, handled, state>>
  <2>1. CASE state = "running"
    BY <1>2, <2>1 DEF Gate
  <2>2. CASE state # "running"
    <3>1. result[c] = "none" /\ result' = [result EXCEPT ![c] = "ErrPoolStopped"] /\ UNCHANGED <<handled, state>>
      BY <1>2, <2>2 DEF Gate, callGoes, Places
    <3>2. c \notin Range(handled)
      BY <3>1 DEF Places, Accepted
    <3>3. Contract!Refuse(c)
      BY <3>1, <3>2 DEF Contract!Refuse, Contract!Become, StatusOf
    <3> QED BY <3>3 DEF Contract!Next
  <2> QED BY <2>1, <2>2
<1>3. ASSUME NEW c \in Calls, IncDepth(c) PROVE UNCHANGED <<result, handled, state>>
  BY <1>3 DEF IncDepth, callGoes
<1>4. ASSUME NEW c \in Calls, Send(c) PROVE Contract!Next
  <2>1. result[c] = "none" /\ result' = [result EXCEPT ![c] = "accepted"] /\ UNCHANGED <<handled, state>>
    BY <1>4 DEF Send, callGoes, Places
  <2>2. c \notin Range(handled)
    BY <2>1 DEF Places, Accepted
  <2>3. state # "stopped"
    <3> SUFFICES ASSUME state = "stopped" PROVE FALSE
      OBVIOUS
    <3>1. PICK v \in Workers : wpc[v] = "returned"
      BY PoolAssumption DEF Stopping
    <3> QED BY <1>4, <3>1 DEF Send, callGoes, Draining, NoneMayLand, MayLand
  <2>4. Contract!Accept(c)
    BY <2>1, <2>2, <2>3 DEF Contract!Accept, Contract!Become, StatusOf
  <2> QED BY <2>4 DEF Contract!Next
<1>5. ASSUME NEW c \in Calls, Full(c) PROVE Contract!Next
  <2>1. result[c] = "none" /\ result' = [result EXCEPT ![c] = "full"] /\ UNCHANGED <<handled, state>>
    BY <1>5 DEF Full, callGoes, Places
  <2>2. c \notin Range(handled)
    BY <2>1 DEF Places, Accepted
  <2>3. Contract!Refuse(c)
    BY <2>1, <2>2 DEF Contract!Refuse, Contract!Become, StatusOf
  <2> QED BY <2>3 DEF Contract!Next
<1>6. ASSUME NEW c \in Calls, CallerDone(c) PROVE Contract!Next
  <2>1. result[c] = "none" /\ result' = [result EXCEPT ![c] = "ctxErr"] /\ UNCHANGED <<handled, state>>
    BY <1>6 DEF CallerDone, callGoes, Places
  <2>2. c \notin Range(handled)
    BY <2>1 DEF Places, Accepted
  <2>3. Contract!Refuse(c)
    BY <2>1, <2>2 DEF Contract!Refuse, Contract!Become, StatusOf
  <2> QED BY <2>3 DEF Contract!Next
<1>7. ASSUME NEW c \in Calls, PoolDone(c) PROVE Contract!Next
  <2>1. result[c] = "none" /\ result' = [result EXCEPT ![c] = "poolDone"] /\ UNCHANGED <<handled, state>>
    BY <1>7 DEF PoolDone, callGoes, Places
  <2>2. c \notin Range(handled)
    BY <2>1 DEF Places, Accepted
  <2>3. Contract!Refuse(c)
    BY <2>1, <2>2 DEF Contract!Refuse, Contract!Become, StatusOf
  <2> QED BY <2>3 DEF Contract!Next
<1>8. ASSUME NEW c \in Calls, Rollback(c) PROVE UNCHANGED <<result, handled, state>>
  BY <1>8 DEF Rollback, callGoes
<1>9. ASSUME NEW c \in Calls, Reload(c) PROVE UNCHANGED Contract!vars
  <2>1. result[c] = "poolDone" /\ UNCHANGED <<handled, state>>
    BY <1>9 DEF Reload, callGoes, Places
  <2>2. c \notin Range(handled)
    BY <2>1 DEF Places, Accepted
  <2>3. PICK r \in {"ErrPoolStopped", "ctxErr"} : result' = [result EXCEPT ![c] = r]
    BY <1>9 DEF Reload
  <2> QED BY <2>1, <2>2, <2>3 DEF StatusOf, Contract!vars
<1>10. ASSUME NEW c \in Calls, SignalSent(c) PROVE UNCHANGED <<result, handled, state>>
  BY <1>10 DEF SignalSent, callGoes, signalDrain
<1>11. ASSUME NEW c \in Calls, Leave(c) PROVE UNCHANGED <<result, handled, state>>
  BY <1>11 DEF Leave, callGoes
<1>12. ASSUME NEW c \in Calls, SignalLeft(c) PROVE UNCHANGED <<result, handled, state>>
  BY <1>12 DEF SignalLeft, callGoes, signalDrain
<1>13. ASSUME NEW w \in Workers, Recv(w) PROVE UNCHANGED <<result, handled, state>>
  BY <1>13 DEF Recv, Receive, ResumeAt
<1>14. ASSUME NEW w \in Workers, CtxDone(w) PROVE UNCHANGED <<result, handled, state>>
  BY <1>14 DEF CtxDone, workerGoes
<1>15. ASSUME NEW w \in Workers, RecvNothing(w) PROVE UNCHANGED <<result, handled, state>>
  BY <1>15 DEF RecvNothing, workerGoes
<1>16. ASSUME NEW w \in Workers, DrainTest(w) PROVE UNCHANGED <<result, handled, state>>
  BY <1>16 DEF DrainTest, Test, workerGoes
<1>17. ASSUME NEW w \in Workers, LoopTest(w) PROVE UNCHANGED <<result, handled, state>>
  BY <1>17 DEF LoopTest, Test, workerGoes
<1>18. ASSUME NEW w \in Workers, BreakTest(w) PROVE UNCHANGED <<result, handled, state>>
  BY <1>18 DEF BreakTest, Test, workerGoes
<1>19. ASSUME NEW w \in Workers, Lock(w) PROVE UNCHANGED <<result, handled, state>>
  BY <1>19 DEF Lock, workerGoes
<1>20. ASSUME NEW w \in Workers, Wait(w) PROVE UNCHANGED <<result, handled, state>>
  BY <1>20 DEF Wait, workerGoes
<1>21. ASSUME NEW w \in Workers, Unlock(w) PROVE UNCHANGED <<result, handled, state>>
  BY <1>21 DEF Unlock, workerGoes
<1>22. ASSUME NEW w \in Workers, DecDepth(w) PROVE UNCHANGED <<result, handled, state>>
  BY <1>22 DEF DecDepth, workerGoes
<1>23. ASSUME NEW w \in Workers, IncInFlight(w) PROVE UNCHANGED <<result, handled, state>>
  BY <1>23 DEF IncInFlight, workerGoes
<1>24. ASSUME NEW w \in Workers, SignalTaken(w) PROVE UNCHANGED <<result, handled, state>>
  BY <1>24 DEF SignalTaken, signalDrain
<1>25. ASSUME NEW w \in Workers, Handle(w) PROVE Contract!Next
  <2> DEFINE c == cur[w]
  <2>1. c \in Calls /\ c \notin Range(handled) /\ result[c] = "accepted" /\ UNCHANGED <<result, state>>
    BY <1>25 DEF Handle, workerGoes, Places, Accepted
  <2>2. Range(handled') = Range(handled) \cup {c}
    BY <1>25, <2>1, RangeAppend DEF Handle
  <2>3. Contract!Run(c)
    BY <2>1, <2>2 DEF Contract!Run, Contract!Become, StatusOf
  <2> QED BY <2>1, <2>3 DEF Contract!Next
<1>26. ASSUME NEW w \in Workers, DecInFlight(w) PROVE UNCHANGED <<result, handled, state>>
  BY <1>26 DEF DecInFlight, workerGoes
<1>27. ASSUME NEW w \in Workers, SignalHandled(w) PROVE UNCHANGED <<result, handled, state>>
  BY <1>27 DEF SignalHandled, signalDrain
<1>28. ASSUME NEW w \in Workers, NEW c \in Calls, Handoff(w, c) PROVE Contract!Next
  <2>1. result[c] = "none" /\ result' = [result EXCEPT ![c] = "accepted"] /\ UNCHANGED <<handled, state>>
    BY <1>28 DEF Handoff, callGoes, Places
  <2>2. c \notin Range(handled)
    BY <2>1 DEF Places, Accepted
  <2>3. state # "stopped"
    <3> SUFFICES ASSUME state = "stopped" PROVE FALSE
      OBVIOUS
    <3>1. PICK v \in Workers : wpc[v] = "returned"
      BY PoolAssumption DEF Stopping
    <3> QED BY <1>28, <3>1 DEF Handoff, callGoes, Draining, NoneMayLand, MayLand
  <2>4. Contract!Accept(c)
    BY <2>1, <2>2, <2>3 DEF Contract!Accept, Contract!Become, StatusOf
  <2> QED BY <2>4 DEF Contract!Next
<1>29. ASSUME NEW s \in Stoppers, CompareAndSwap(s) PROVE Contract!Next \/ UNCHANGED <<result, handled, state>>
  <2>1. CASE state = "running"
    <3>1. state' = "draining" /\ UNCHANGED <<result, handled>>
      BY <1>29, <2>1 DEF CompareAndSwap
    <3> QED BY <2>1, <3>1 DEF Contract!Next, Contract!BeginStop, StatusOf
  <2>2. CASE state # "running"
    BY <1>29, <2>2 DEF CompareAndSwap
  <2> QED BY <2>1, <2>2
<1>30. ASSUME NEW s \in Stoppers, Cancel(s) PROVE UNCHANGED <<result, handled, state>>
  BY <1>30 DEF Cancel, stopperGoes
<1>31. ASSUME NEW s \in Stoppers, SignalStop(s) PROVE UNCHANGED <<result, handled, state>>
  BY <1>31 DEF SignalStop, stopperGoes, signalDrain
<1>32. ASSUME NEW s \in Stoppers, Stop(s) PROVE Contract!Next
  <2>1. state = "draining" /\ state' = "stopped" /\ stopped' /\ UNCHANGED <<result, handled, input, cpc>>
    BY <1>32 DEF Stop, stopperGoes, Stopping, Winning
  <2>2. \A c \in Calls : Accepted(c) => c \in Range(handled)
    <3>1. PICK w \in Workers : wpc[w] = "returned"
      BY <1>32, PoolAssumption DEF Stop
    <3>2. Range(input) = {}
      BY <3>1 DEF Draining, Range
    <3>3. \A v \in Workers : cur[v] = Nil
      BY <1>32 DEF Stop, Places
    <3> QED BY <3>2, <3>3, PoolAssumption DEF Places
  <2>3. Contract!FinishStop
    BY <2>1, <2>2 DEF Contract!FinishStop, StatusOf, Accepted
  <2> QED BY <2>3 DEF Contract!Next
<1>33. ASSUME NEW s \in Stoppers, Await(s) PROVE UNCHANGED <<result, handled, state>>
  BY <1>33 DEF Await, stopperGoes
<1>34. ASSUME UNCHANGED vars PROVE UNCHANGED <<result, handled, state>>
  BY <1>34 DEF vars
<1> HIDE DEF TypeOK
<1> QED
  BY <1>1, <1>2, <1>3, <1>4, <1>5, <1>6, <1>7, <1>8, <1>9, <1>10, <1>11, <1>12, <1>13, <1>14, <1>15, <1>16, <1>17, <1>18, <1>19, <1>20, <1>21, <1>22, <1>23, <1>24, <1>25, <1>26, <1>27, <1>28, <1>29, <1>30, <1>31, <1>32, <1>33, <1>34
  DEF Contract!vars, StatusOf, Next, tryPublish, callStep, runner, drain, process, GracefulStop, stopStep

\* The pool implements its contract.
THEOREM PoolImplementsContract == Spec => ImplementsContract
<1>1. Init => Contract!Init
  BY DEF Init, Contract!Init, StatusOf
<1>2. IInv /\ [Next]_vars => [Contract!Next]_(Contract!vars)
  BY StepRefines DEF IInv, ParentInv
<1> QED BY <1>1, <1>2, PoolInvariant, PTL DEF Spec, ImplementsContract, Contract!Spec
=============================================================================
