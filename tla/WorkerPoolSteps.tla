-------------------------- MODULE WorkerPoolSteps ---------------------------
(***************************************************************************)
(* The inductive invariant of WorkerPool, and what each step of the pool    *)
(* does to its parts, for any number of calls, workers and stoppers and any *)
(* buffer size. WorkerPoolProofs puts the parts together.                   *)
(***************************************************************************)
EXTENDS WorkerPool, TLAPS

Publishing == {c \in Calls : cpc[c] \in {"gate", "inc", "send", "sent", "rollback", "reload", "leave"}}

\* The calls depth counts: those that raised it and have not taken it back,
\* and those whose task is in the channel or just out of it.
Waiting == {c \in Calls : cpc[c] \in {"send", "rollback"}}
Fresh   == {c \in Calls : \E w \in Workers : wpc[w] = "dec" /\ cur[w] = c}
Queued  == Waiting \cup Range(input) \cup Fresh

Running == {w \in Workers : wpc[w] \in {"notify", "handler", "exit"}}

\* Each counter is the number of goroutines or tasks it stands for.
Counts ==
    /\ publishers = Cardinality(Publishing)
    /\ depth = Cardinality(Queued)
    /\ inFlight = Cardinality(Running)

Distinct(s) == \A i, j \in DOMAIN s : s[i] = s[j] => i = j

\* A task is in one place only, and it got there by being accepted.
Places ==
    /\ Distinct(input) /\ Distinct(handled)
    /\ \A v, w \in Workers : cur[v] = cur[w] /\ cur[v] # Nil => v = w
    /\ \A w \in Workers : cur[w] \notin Range(input) \cup Range(handled)
    /\ Range(input) \cap Range(handled) = {}
    /\ \A w \in Workers : cur[w] # Nil <=> wpc[w] \in {"dec", "enter", "notify", "handler"}
    /\ \A c \in Calls : Accepted(c) <=> \/ c \in Range(input) \cup Range(handled)
                                        \/ \E w \in Workers : cur[w] = c
    /\ \A c \in Calls : cpc[c] \in {"idle", "gate", "inc", "send"} => result[c] = "none"
    /\ \A c \in Calls : cpc[c] = "rollback" => ~Accepted(c)
    /\ \A c \in Calls : cpc[c] = "reload" => result[c] = "poolDone"
    /\ \A c \in Calls : result[c] = "poolDone" => cpc[c] \in {"rollback", "reload"}

\* Once the pool is not running, no publisher passes the gate any more: what
\* a worker in drain has seen of publishers and depth stays true.
NoneMayLand == \A c \in Calls : ~MayLand(c)

Draining ==
    /\ cancelled => state # "running"
    /\ \A w \in Workers :
        /\ wpc[w] \in {"recv", "check", "lock", "loop", "lrecv", "recheck", "wait", "waiting", "unlock", "returned"}
              => cancelled
        /\ back[w] # "select" => cancelled
        /\ wpc[w] \notin {"check", "loop", "recheck"} => load[w] = 1
        /\ wpc[w] = "check" /\ load[w] >= 2 => NoneMayLand
        /\ wpc[w] = "check" /\ load[w] = 3 => input = <<>>
        /\ wpc[w] = "returned" => NoneMayLand /\ input = <<>>

\* One GracefulStop call wins the CAS, and only it stores the final state.
Winning(s) == spc[s] \in {"cancel", "signal", "wgWait"}

Stopping ==
    /\ \A s \in Stoppers : Winning(s) => state = "draining"
    /\ \A s, t \in Stoppers : Winning(s) /\ Winning(t) => s = t
    /\ stopped <=> state = "stopped"
    /\ stopped => \A w \in Workers : wpc[w] = "returned"

\* The mutex is held exactly by the worker inside drain's critical section.
Exclusion ==
    \A w \in Workers : mu = w <=> wpc[w] \in {"loop", "lrecv", "recheck", "wait", "unlock"}

\* What holds whether or not the parent context ends, and what needs it not
\* to end before GracefulStop is called.
ParentInv == TypeOK /\ Counts /\ Places /\ Exclusion

IInv == ParentInv /\ Draining /\ Stopping

-----------------------------------------------------------------------------
(* Sequences without repetition *)

\* Append adds its element to the range of a sequence.
LEMMA RangeAppend ==
    ASSUME NEW S, NEW q \in Seq(S), NEW e \in S
    PROVE  Range(Append(q, e)) = Range(q) \cup {e}
<1> DEFINE r == Append(q, e)
<1>1. /\ DOMAIN r = 1..Len(q) + 1 /\ DOMAIN q = 1..Len(q) /\ Len(q) \in Nat
      /\ r[Len(q) + 1] = e
      /\ \A i \in 1..Len(q) : r[i] = q[i]
  OBVIOUS
<1> HIDE DEF r
<1>2. ASSUME NEW x \in Range(r) PROVE x \in Range(q) \cup {e}
  BY <1>1, <1>2 DEF Range
<1>3. ASSUME NEW x \in Range(q) \cup {e} PROVE x \in Range(r)
  <2>1. Len(q) + 1 \in DOMAIN r /\ DOMAIN q \subseteq DOMAIN r
    BY <1>1
  <2> QED BY <1>1, <1>3, <2>1 DEF Range
<1> QED BY <1>2, <1>3 DEF r

\* A sequence without repetition stays so when a new element is appended.
LEMMA DistinctAppend ==
    ASSUME NEW S, NEW q \in Seq(S), NEW e \in S, Distinct(q), e \notin Range(q)
    PROVE  Distinct(Append(q, e))
  BY DEF Range, Distinct

\* The range of a sequence is its head and the range of its tail.
LEMMA RangeTail ==
    ASSUME NEW S, NEW q \in Seq(S), q # <<>>
    PROVE  Range(q) = Range(Tail(q)) \cup {Head(q)}
<1> DEFINE r == Tail(q)
<1>1. /\ Len(q) \in Nat \ {0} /\ DOMAIN q = 1..Len(q) /\ DOMAIN r = 1..Len(q) - 1
      /\ Head(q) = q[1]
      /\ \A i \in 1..Len(q) - 1 : r[i] = q[i + 1]
  OBVIOUS
<1> HIDE DEF r
<1>2. ASSUME NEW x \in Range(r) \cup {q[1]} PROVE x \in Range(q)
  <2>1. 1 \in DOMAIN q /\ \A i \in DOMAIN r : i + 1 \in DOMAIN q
    BY <1>1
  <2> QED BY <1>1, <1>2, <2>1 DEF Range
<1>3. ASSUME NEW x \in Range(q) PROVE x \in Range(r) \cup {q[1]}
  <2>1. PICK i \in DOMAIN q : x = q[i]
    BY <1>3 DEF Range
  <2>2. CASE i = 1
    BY <2>1, <2>2
  <2>3. CASE i # 1
    <3>1. i - 1 \in DOMAIN r /\ r[i - 1] = q[i]
      BY <1>1, <2>3
    <3> QED BY <2>1, <3>1 DEF Range
  <2> QED BY <2>2, <2>3
<1> QED BY <1>1, <1>2, <1>3 DEF r

\* Only the empty sequence has an empty range.
LEMMA RangeEmpty ==
    ASSUME NEW S, NEW q \in Seq(S), Range(q) = {}
    PROVE  q = <<>>
<1>1. ASSUME q # <<>> PROVE FALSE
  BY <1>1, RangeTail
<1> QED BY <1>1

\* Without repetition, the head is not in the tail.
LEMMA DistinctTail ==
    ASSUME NEW S, NEW q \in Seq(S), q # <<>>, Distinct(q)
    PROVE  Distinct(Tail(q)) /\ Head(q) \notin Range(Tail(q))
  BY DEF Range, Distinct

-----------------------------------------------------------------------------
(* Types and places *)

\* TypeOK without the counters, whose types follow from Counts.
Shape ==
    /\ state \in {"running", "draining", "stopped"}
    /\ cancelled \in BOOLEAN /\ stopped \in BOOLEAN
    /\ input \in Seq(Calls)
    /\ mu \in Workers \cup {Nil}
    /\ cpc \in [Calls -> CallPCs]
    /\ nonBlocking \in [Calls -> BOOLEAN]
    /\ result \in [Calls -> Results]
    /\ wpc \in [Workers -> WorkerPCs]
    /\ cur \in [Workers -> Calls \cup {Nil}]
    /\ back \in [Workers -> {"select", "recv", "lock"}]
    /\ load \in [Workers -> 1..3]
    /\ spc \in [Stoppers -> StopPCs]
    /\ handled \in Seq(Calls)

\* A step keeps every variable in its domain, the counters aside.
LEMMA NextShape ==
    ASSUME TypeOK, Places, [Next]_vars
    PROVE  Shape'
<1> USE DEF TypeOK, Shape, CallPCs, Results, WorkerPCs, StopPCs, stopVars, counters, callVars, workerVars
<1>1. ASSUME NEW c \in Calls, NEW nb \in BOOLEAN, Enter(c, nb) PROVE Shape'
  BY <1>1 DEF Enter, callGoes
<1>2. ASSUME NEW c \in Calls, Gate(c) PROVE Shape'
  BY <1>2 DEF Gate, callGoes
<1>3. ASSUME NEW c \in Calls, IncDepth(c) PROVE Shape'
  BY <1>3 DEF IncDepth, callGoes
<1>4. ASSUME NEW c \in Calls, Send(c) PROVE Shape'
  BY <1>4 DEF Send, callGoes
<1>5. ASSUME NEW c \in Calls, Full(c) PROVE Shape'
  BY <1>5 DEF Full, callGoes
<1>6. ASSUME NEW c \in Calls, CallerDone(c) PROVE Shape'
  BY <1>6 DEF CallerDone, callGoes
<1>7. ASSUME NEW c \in Calls, PoolDone(c) PROVE Shape'
  BY <1>7 DEF PoolDone, callGoes
<1>8. ASSUME NEW c \in Calls, Rollback(c) PROVE Shape'
  BY <1>8 DEF Rollback, callGoes
<1>9. ASSUME NEW c \in Calls, Reload(c) PROVE Shape'
  BY <1>9 DEF Reload, callGoes
<1>10. ASSUME NEW c \in Calls, SignalSent(c) PROVE Shape'
  BY <1>10 DEF SignalSent, callGoes, signalDrain
<1>11. ASSUME NEW c \in Calls, Leave(c) PROVE Shape'
  BY <1>11 DEF Leave, callGoes
<1>12. ASSUME NEW c \in Calls, SignalLeft(c) PROVE Shape'
  BY <1>12 DEF SignalLeft, callGoes, signalDrain
<1>13. ASSUME NEW w \in Workers, Recv(w) PROVE Shape'
  BY <1>13 DEF Recv, Receive, ResumeAt
<1>14. ASSUME NEW w \in Workers, CtxDone(w) PROVE Shape'
  BY <1>14 DEF CtxDone, workerGoes
<1>15. ASSUME NEW w \in Workers, RecvNothing(w) PROVE Shape'
  BY <1>15 DEF RecvNothing, workerGoes
<1>16. ASSUME NEW w \in Workers, DrainTest(w) PROVE Shape'
  <2>1. load' \in [Workers -> 1..3]
    <3>1. load[w] \in 1..3 /\ (load[w] < 3 => load[w] + 1 \in 1..3)
      OBVIOUS
    <3>2. \/ load' = [load EXCEPT ![w] = 1]
          \/ load[w] < 3 /\ load' = [load EXCEPT ![w] = load[w] + 1]
      BY <1>16 DEF DrainTest, Test
    <3> QED BY <3>1, <3>2
  <2> QED BY <1>16, <2>1 DEF DrainTest, Test, workerGoes
<1>17. ASSUME NEW w \in Workers, LoopTest(w) PROVE Shape'
  BY <1>17 DEF LoopTest, Test, workerGoes
<1>18. ASSUME NEW w \in Workers, BreakTest(w) PROVE Shape'
  BY <1>18 DEF BreakTest, Test, workerGoes
<1>19. ASSUME NEW w \in Workers, Lock(w) PROVE Shape'
  BY <1>19 DEF Lock, workerGoes
<1>20. ASSUME NEW w \in Workers, Wait(w) PROVE Shape'
  BY <1>20 DEF Wait, workerGoes
<1>21. ASSUME NEW w \in Workers, Unlock(w) PROVE Shape'
  BY <1>21 DEF Unlock, workerGoes
<1>22. ASSUME NEW w \in Workers, DecDepth(w) PROVE Shape'
  BY <1>22 DEF DecDepth, workerGoes
<1>23. ASSUME NEW w \in Workers, IncInFlight(w) PROVE Shape'
  BY <1>23 DEF IncInFlight, workerGoes
<1>24. ASSUME NEW w \in Workers, SignalTaken(w) PROVE Shape'
  BY <1>24 DEF SignalTaken, signalDrain
<1>25. ASSUME NEW w \in Workers, Handle(w) PROVE Shape'
  <2>1. cur[w] \in Calls
    BY <1>25 DEF Places, Handle, workerGoes
  <2> QED BY <1>25, <2>1 DEF Handle, workerGoes
<1>26. ASSUME NEW w \in Workers, DecInFlight(w) PROVE Shape'
  BY <1>26 DEF DecInFlight, workerGoes
<1>27. ASSUME NEW w \in Workers, SignalHandled(w) PROVE Shape'
  BY <1>27 DEF SignalHandled, signalDrain
<1>28. ASSUME NEW w \in Workers, NEW c \in Calls, Handoff(w, c) PROVE Shape'
  BY <1>28 DEF Handoff, callGoes, Receive, ResumeAt
<1>29. ASSUME NEW s \in Stoppers, CompareAndSwap(s) PROVE Shape'
  BY <1>29 DEF CompareAndSwap, stopperGoes
<1>30. ASSUME NEW s \in Stoppers, Cancel(s) PROVE Shape'
  BY <1>30 DEF Cancel, stopperGoes
<1>31. ASSUME NEW s \in Stoppers, SignalStop(s) PROVE Shape'
  BY <1>31 DEF SignalStop, stopperGoes, signalDrain
<1>32. ASSUME NEW s \in Stoppers, Stop(s) PROVE Shape'
  BY <1>32 DEF Stop, stopperGoes
<1>33. ASSUME NEW s \in Stoppers, Await(s) PROVE Shape'
  BY <1>33 DEF Await, stopperGoes
<1>34. CASE UNCHANGED vars
  BY <1>34 DEF vars
<1> QED
  BY <1>1, <1>2, <1>3, <1>4, <1>5, <1>6, <1>7, <1>8, <1>9, <1>10, <1>11, <1>12, <1>13, <1>14, <1>15, <1>16, <1>17, <1>18, <1>19, <1>20, <1>21, <1>22, <1>23, <1>24, <1>25, <1>26, <1>27, <1>28, <1>29, <1>30, <1>31, <1>32, <1>33, <1>34
  DEF Next, tryPublish, callStep, runner, drain, process, GracefulStop, stopStep

\* The places of a worker that has a task in hand.
Holding == {"dec", "enter", "notify", "handler"}

\* A step that moves no task and no call, and that no worker with a task in
\* hand notices, leaves every task where it is.
LEMMA PlacesUndisturbed ==
    ASSUME Places,
           UNCHANGED <<input, handled, cur, cpc, result>>,
           \A w \in Workers : wpc'[w] \in Holding <=> wpc[w] \in Holding
    PROVE  Places'
<1>1. /\ input' = input /\ handled' = handled /\ cur' = cur /\ cpc' = cpc /\ result' = result
  OBVIOUS
<1>2. \A w \in Workers : cur[w] # Nil <=> wpc'[w] \in Holding
  BY DEF Places, Holding
<1> QED BY <1>1, <1>2 DEF Places, Accepted, Holding

\* A step keeps every task in one place, and accepted: a receive takes it from
\* the channel to a worker, Handle from the worker to the history.
LEMMA NextPlaces ==
    ASSUME TypeOK, Places, Shape', [Next]_vars
    PROVE  Places'
<1> USE PoolAssumption DEF TypeOK, Shape, Accepted, CallPCs, Results, WorkerPCs, StopPCs, stopVars, counters, callVars, workerVars
<1>1. ASSUME NEW c \in Calls, NEW nb \in BOOLEAN, Enter(c, nb) PROVE Places'
  BY <1>1 DEF Enter, callGoes, Places
<1>2. ASSUME NEW c \in Calls, Gate(c) PROVE Places'
  BY <1>2 DEF Gate, callGoes, Places
<1>3. ASSUME NEW c \in Calls, IncDepth(c) PROVE Places'
  BY <1>3 DEF IncDepth, callGoes, Places
<1>4. ASSUME NEW c \in Calls, Send(c) PROVE Places'
  <2>1. ~Accepted(c) /\ cpc' = [cpc EXCEPT ![c] = "sent"] /\ result' = [result EXCEPT ![c] = "accepted"]
    BY <1>4 DEF Send, callGoes, Places
  <2>2. c \notin Range(input) \cup Range(handled) /\ \A w \in Workers : cur[w] # c
    BY <2>1 DEF Places
  <2>3. Range(input') = Range(input) \cup {c} /\ Distinct(input')
    BY <1>4, <2>2, RangeAppend, DistinctAppend DEF Send, Places
  <2>4. UNCHANGED <<wpc, cur, handled>>
    BY <1>4 DEF Send
  <2> QED BY <2>1, <2>2, <2>3, <2>4 DEF Places
<1>5. ASSUME NEW c \in Calls, Full(c) PROVE Places'
  BY <1>5 DEF Full, callGoes, Places
<1>6. ASSUME NEW c \in Calls, CallerDone(c) PROVE Places'
  BY <1>6 DEF CallerDone, callGoes, Places
<1>7. ASSUME NEW c \in Calls, PoolDone(c) PROVE Places'
  BY <1>7 DEF PoolDone, callGoes, Places
<1>8. ASSUME NEW c \in Calls, Rollback(c) PROVE Places'
  BY <1>8 DEF Rollback, callGoes, Places
<1>9. ASSUME NEW c \in Calls, Reload(c) PROVE Places'
  BY <1>9 DEF Reload, callGoes, Places
<1>10. ASSUME NEW c \in Calls, SignalSent(c) PROVE Places'
  BY <1>10 DEF SignalSent, callGoes, signalDrain, Places
<1>11. ASSUME NEW c \in Calls, Leave(c) PROVE Places'
  BY <1>11 DEF Leave, callGoes, Places
<1>12. ASSUME NEW c \in Calls, SignalLeft(c) PROVE Places'
  BY <1>12 DEF SignalLeft, callGoes, signalDrain, Places
<1>13. ASSUME NEW w \in Workers, Recv(w) PROVE Places'
  <2> DEFINE c == Head(input)
  <2>1. /\ c \in Calls /\ c \notin Range(input') /\ Distinct(input')
        /\ Range(input) = Range(input') \cup {c}
    BY <1>13, RangeTail, DistinctTail DEF Recv, Places
  <2>2. cur' = [cur EXCEPT ![w] = c] /\ wpc' = [wpc EXCEPT ![w] = "dec"] /\ cur[w] = Nil
    BY <1>13 DEF Recv, Receive, Places
  <2>3. UNCHANGED <<cpc, result, handled>>
    BY <1>13 DEF Recv
  <2> HIDE DEF c
  <2> QED BY <2>1, <2>2, <2>3 DEF Places
<1>14. ASSUME NEW w \in Workers, CtxDone(w) PROVE Places'
  <2>1. UNCHANGED <<input, handled, cur, cpc, result>> /\ \A v \in Workers : wpc'[v] \in Holding <=> wpc[v] \in Holding
    BY <1>14 DEF CtxDone, workerGoes, Holding
  <2> QED BY <2>1, PlacesUndisturbed
<1>15. ASSUME NEW w \in Workers, RecvNothing(w) PROVE Places'
  <2>1. UNCHANGED <<input, handled, cur, cpc, result>> /\ \A v \in Workers : wpc'[v] \in Holding <=> wpc[v] \in Holding
    BY <1>15 DEF RecvNothing, workerGoes, Holding
  <2> QED BY <2>1, PlacesUndisturbed
<1>16. ASSUME NEW w \in Workers, DrainTest(w) PROVE Places'
  <2>1. UNCHANGED <<input, handled, cur, cpc, result>> /\ \A v \in Workers : wpc'[v] \in Holding <=> wpc[v] \in Holding
    BY <1>16 DEF DrainTest, Test, workerGoes, Holding
  <2> QED BY <2>1, PlacesUndisturbed
<1>17. ASSUME NEW w \in Workers, LoopTest(w) PROVE Places'
  <2>1. UNCHANGED <<input, handled, cur, cpc, result>> /\ \A v \in Workers : wpc'[v] \in Holding <=> wpc[v] \in Holding
    BY <1>17 DEF LoopTest, Test, workerGoes, Holding
  <2> QED BY <2>1, PlacesUndisturbed
<1>18. ASSUME NEW w \in Workers, BreakTest(w) PROVE Places'
  <2>1. UNCHANGED <<input, handled, cur, cpc, result>> /\ \A v \in Workers : wpc'[v] \in Holding <=> wpc[v] \in Holding
    BY <1>18 DEF BreakTest, Test, workerGoes, Holding
  <2> QED BY <2>1, PlacesUndisturbed
<1>19. ASSUME NEW w \in Workers, Lock(w) PROVE Places'
  <2>1. UNCHANGED <<input, handled, cur, cpc, result>> /\ \A v \in Workers : wpc'[v] \in Holding <=> wpc[v] \in Holding
    BY <1>19 DEF Lock, workerGoes, Holding
  <2> QED BY <2>1, PlacesUndisturbed
<1>20. ASSUME NEW w \in Workers, Wait(w) PROVE Places'
  <2>1. UNCHANGED <<input, handled, cur, cpc, result>> /\ \A v \in Workers : wpc'[v] \in Holding <=> wpc[v] \in Holding
    BY <1>20 DEF Wait, workerGoes, Holding
  <2> QED BY <2>1, PlacesUndisturbed
<1>21. ASSUME NEW w \in Workers, Unlock(w) PROVE Places'
  <2>1. UNCHANGED <<input, handled, cur, cpc, result>> /\ \A v \in Workers : wpc'[v] \in Holding <=> wpc[v] \in Holding
    BY <1>21 DEF Unlock, workerGoes, Holding
  <2> QED BY <2>1, PlacesUndisturbed
<1>22. ASSUME NEW w \in Workers, DecDepth(w) PROVE Places'
  <2>1. UNCHANGED <<input, handled, cur, cpc, result>> /\ \A v \in Workers : wpc'[v] \in Holding <=> wpc[v] \in Holding
    BY <1>22 DEF DecDepth, workerGoes, Holding
  <2> QED BY <2>1, PlacesUndisturbed
<1>23. ASSUME NEW w \in Workers, IncInFlight(w) PROVE Places'
  <2>1. UNCHANGED <<input, handled, cur, cpc, result>> /\ \A v \in Workers : wpc'[v] \in Holding <=> wpc[v] \in Holding
    BY <1>23 DEF IncInFlight, workerGoes, Holding
  <2> QED BY <2>1, PlacesUndisturbed
<1>24. ASSUME NEW w \in Workers, SignalTaken(w) PROVE Places'
  <2>1. UNCHANGED <<input, handled, cur, cpc, result>> /\ \A v \in Workers : wpc'[v] \in Holding <=> wpc[v] \in Holding
    BY <1>24 DEF SignalTaken, signalDrain, Holding
  <2> QED BY <2>1, PlacesUndisturbed
<1>25. ASSUME NEW w \in Workers, Handle(w) PROVE Places'
  <2> DEFINE c == cur[w]
  <2>1. c \in Calls /\ c \notin Range(handled) \cup Range(input) /\ \A v \in Workers : cur[v] = c => v = w
    BY <1>25 DEF Handle, workerGoes, Places
  <2>2. Range(handled') = Range(handled) \cup {c} /\ Distinct(handled')
    BY <1>25, <2>1, RangeAppend, DistinctAppend DEF Handle, Places
  <2>3. cur' = [cur EXCEPT ![w] = Nil] /\ wpc' = [wpc EXCEPT ![w] = "exit"]
    BY <1>25 DEF Handle, workerGoes
  <2>4. UNCHANGED <<cpc, result, input>>
    BY <1>25 DEF Handle, callVars
  <2>5. Nil \notin Range(input) \cup Range(handled')
    BY <2>2 DEF Range
  <2> QED BY <2>1, <2>2, <2>3, <2>4, <2>5 DEF Places
<1>26. ASSUME NEW w \in Workers, DecInFlight(w) PROVE Places'
  <2>1. UNCHANGED <<input, handled, cur, cpc, result>> /\ \A v \in Workers : wpc'[v] \in Holding <=> wpc[v] \in Holding
    BY <1>26 DEF DecInFlight, workerGoes, Holding
  <2> QED BY <2>1, PlacesUndisturbed
<1>27. ASSUME NEW w \in Workers, SignalHandled(w) PROVE Places'
  <2>1. UNCHANGED <<input, handled, cur, cpc, result>>
    BY <1>27 DEF SignalHandled
  <2>2. ASSUME NEW v \in Workers PROVE wpc'[v] \in Holding <=> wpc[v] \in Holding
    <3>1. CASE v = w
      <4>1. wpc[v] = "notify2" /\ back[w] \in {"select", "recv", "lock"} /\ wpc'[v] = back[w]
        BY <1>27, <3>1 DEF SignalHandled, signalDrain
      <4> QED BY <4>1 DEF Holding
    <3>2. CASE v # w
      <4> DEFINE F == [wpc EXCEPT ![w] = back[w]]
      <4>1. wpc'[v] = (IF F[v] = "waiting" THEN "lock" ELSE F[v]) /\ F[v] = wpc[v]
        BY <1>27, <3>2 DEF SignalHandled, signalDrain
      <4> HIDE DEF F, TypeOK, Shape
      <4> QED BY <4>1 DEF Holding
    <3> QED BY <3>1, <3>2
  <2> QED BY <2>1, <2>2, PlacesUndisturbed
<1>28. ASSUME NEW w \in Workers, NEW c \in Calls, Handoff(w, c) PROVE Places'
  <2>1. /\ ~Accepted(c) /\ cpc' = [cpc EXCEPT ![c] = "sent"] /\ result' = [result EXCEPT ![c] = "accepted"]
        /\ UNCHANGED <<input, handled>>
    BY <1>28 DEF Handoff, callGoes, Places
  <2>2. c \notin Range(input) \cup Range(handled) /\ \A v \in Workers : cur[v] # c
    BY <2>1 DEF Places
  <2>3. cur' = [cur EXCEPT ![w] = c] /\ wpc' = [wpc EXCEPT ![w] = "dec"] /\ cur[w] = Nil
    BY <1>28 DEF Handoff, Receive, Places
  <2> QED BY <2>1, <2>2, <2>3 DEF Places
<1>29. ASSUME NEW s \in Stoppers, CompareAndSwap(s) PROVE Places'
  <2>1. UNCHANGED <<input, handled, cur, cpc, result>> /\ \A v \in Workers : wpc'[v] \in Holding <=> wpc[v] \in Holding
    BY <1>29 DEF CompareAndSwap, stopperGoes, Holding
  <2> QED BY <2>1, PlacesUndisturbed
<1>30. ASSUME NEW s \in Stoppers, Cancel(s) PROVE Places'
  <2>1. UNCHANGED <<input, handled, cur, cpc, result>> /\ \A v \in Workers : wpc'[v] \in Holding <=> wpc[v] \in Holding
    BY <1>30 DEF Cancel, stopperGoes, Holding
  <2> QED BY <2>1, PlacesUndisturbed
<1>31. ASSUME NEW s \in Stoppers, SignalStop(s) PROVE Places'
  <2>1. UNCHANGED <<input, handled, cur, cpc, result>> /\ \A v \in Workers : wpc'[v] \in Holding <=> wpc[v] \in Holding
    BY <1>31 DEF SignalStop, stopperGoes, signalDrain, Holding
  <2> QED BY <2>1, PlacesUndisturbed
<1>32. ASSUME NEW s \in Stoppers, Stop(s) PROVE Places'
  <2>1. UNCHANGED <<input, handled, cur, cpc, result>> /\ \A v \in Workers : wpc'[v] \in Holding <=> wpc[v] \in Holding
    BY <1>32 DEF Stop, stopperGoes, Holding
  <2> QED BY <2>1, PlacesUndisturbed
<1>33. ASSUME NEW s \in Stoppers, Await(s) PROVE Places'
  <2>1. UNCHANGED <<input, handled, cur, cpc, result>> /\ \A v \in Workers : wpc'[v] \in Holding <=> wpc[v] \in Holding
    BY <1>33 DEF Await, stopperGoes, Holding
  <2> QED BY <2>1, PlacesUndisturbed
<1>34. CASE UNCHANGED vars
  <2>1. UNCHANGED <<input, handled, cur, cpc, result>> /\ \A v \in Workers : wpc'[v] \in Holding <=> wpc[v] \in Holding
    BY <1>34 DEF vars, Holding
  <2> QED BY <2>1, PlacesUndisturbed
<1> HIDE DEF TypeOK, Shape
<1> QED
  BY <1>1, <1>2, <1>3, <1>4, <1>5, <1>6, <1>7, <1>8, <1>9, <1>10, <1>11, <1>12, <1>13, <1>14, <1>15, <1>16, <1>17, <1>18, <1>19, <1>20, <1>21, <1>22, <1>23, <1>24, <1>25, <1>26, <1>27, <1>28, <1>29, <1>30, <1>31, <1>32, <1>33, <1>34
  DEF Next, tryPublish, callStep, runner, drain, process, GracefulStop, stopStep

-----------------------------------------------------------------------------
(* The counters *)

\* A counter n and the set S it counts change together: not at all, or by one
\* element that joins or leaves the set.
Moves(n, m, S, T) ==
    \/ m = n /\ T = S
    \/ m = n + 1 /\ \E x \in T : x \notin S /\ T = S \cup {x}
    \/ m = n - 1 /\ \E x \in S : T = S \ {x}

\* publishers counts the calls between publishers.Add(1) and Add(-1): Enter and
\* Leave change both by one, no other step changes either.
LEMMA PublishersMove ==
    ASSUME TypeOK, Places, Shape', [Next]_vars
    PROVE  Moves(publishers, publishers', Publishing, Publishing')
<1> USE DEF TypeOK, Publishing, stopVars, counters, callVars, workerVars
<1>1. ASSUME NEW c \in Calls, NEW nb \in BOOLEAN, Enter(c, nb) PROVE Moves(publishers, publishers', Publishing, Publishing')
  <2>1. c \notin Publishing /\ Publishing' = Publishing \cup {c} /\ publishers' = publishers + 1
    BY <1>1 DEF Enter, callGoes
  <2> HIDE DEF Publishing
  <2> QED BY <2>1 DEF Moves
<1>2. ASSUME NEW c \in Calls, Gate(c) PROVE publishers' = publishers /\ Publishing' = Publishing
  BY <1>2 DEF Gate, callGoes
<1>3. ASSUME NEW c \in Calls, IncDepth(c) PROVE publishers' = publishers /\ Publishing' = Publishing
  BY <1>3 DEF IncDepth, callGoes
<1>4. ASSUME NEW c \in Calls, Send(c) PROVE publishers' = publishers /\ Publishing' = Publishing
  BY <1>4 DEF Send, callGoes
<1>5. ASSUME NEW c \in Calls, Full(c) PROVE publishers' = publishers /\ Publishing' = Publishing
  BY <1>5 DEF Full, callGoes
<1>6. ASSUME NEW c \in Calls, CallerDone(c) PROVE publishers' = publishers /\ Publishing' = Publishing
  BY <1>6 DEF CallerDone, callGoes
<1>7. ASSUME NEW c \in Calls, PoolDone(c) PROVE publishers' = publishers /\ Publishing' = Publishing
  BY <1>7 DEF PoolDone, callGoes
<1>8. ASSUME NEW c \in Calls, Rollback(c) PROVE publishers' = publishers /\ Publishing' = Publishing
  BY <1>8 DEF Rollback, callGoes
<1>9. ASSUME NEW c \in Calls, Reload(c) PROVE publishers' = publishers /\ Publishing' = Publishing
  BY <1>9 DEF Reload, callGoes
<1>10. ASSUME NEW c \in Calls, SignalSent(c) PROVE publishers' = publishers /\ Publishing' = Publishing
  BY <1>10 DEF SignalSent, callGoes, signalDrain
<1>11. ASSUME NEW c \in Calls, Leave(c) PROVE Moves(publishers, publishers', Publishing, Publishing')
  <2>1. c \in Publishing /\ Publishing' = Publishing \ {c} /\ publishers' = publishers - 1
    BY <1>11 DEF Leave, callGoes
  <2> HIDE DEF Publishing
  <2> QED BY <2>1 DEF Moves
<1>12. ASSUME NEW c \in Calls, SignalLeft(c) PROVE publishers' = publishers /\ Publishing' = Publishing
  BY <1>12 DEF SignalLeft, callGoes, signalDrain
<1>13. ASSUME NEW w \in Workers, Recv(w) PROVE publishers' = publishers /\ Publishing' = Publishing
  BY <1>13 DEF Recv, Receive, ResumeAt
<1>14. ASSUME NEW w \in Workers, CtxDone(w) PROVE publishers' = publishers /\ Publishing' = Publishing
  BY <1>14 DEF CtxDone, workerGoes
<1>15. ASSUME NEW w \in Workers, RecvNothing(w) PROVE publishers' = publishers /\ Publishing' = Publishing
  BY <1>15 DEF RecvNothing, workerGoes
<1>16. ASSUME NEW w \in Workers, DrainTest(w) PROVE publishers' = publishers /\ Publishing' = Publishing
  BY <1>16 DEF DrainTest, Test, workerGoes
<1>17. ASSUME NEW w \in Workers, LoopTest(w) PROVE publishers' = publishers /\ Publishing' = Publishing
  BY <1>17 DEF LoopTest, Test, workerGoes
<1>18. ASSUME NEW w \in Workers, BreakTest(w) PROVE publishers' = publishers /\ Publishing' = Publishing
  BY <1>18 DEF BreakTest, Test, workerGoes
<1>19. ASSUME NEW w \in Workers, Lock(w) PROVE publishers' = publishers /\ Publishing' = Publishing
  BY <1>19 DEF Lock, workerGoes
<1>20. ASSUME NEW w \in Workers, Wait(w) PROVE publishers' = publishers /\ Publishing' = Publishing
  BY <1>20 DEF Wait, workerGoes
<1>21. ASSUME NEW w \in Workers, Unlock(w) PROVE publishers' = publishers /\ Publishing' = Publishing
  BY <1>21 DEF Unlock, workerGoes
<1>22. ASSUME NEW w \in Workers, DecDepth(w) PROVE publishers' = publishers /\ Publishing' = Publishing
  BY <1>22 DEF DecDepth, workerGoes
<1>23. ASSUME NEW w \in Workers, IncInFlight(w) PROVE publishers' = publishers /\ Publishing' = Publishing
  BY <1>23 DEF IncInFlight, workerGoes
<1>24. ASSUME NEW w \in Workers, SignalTaken(w) PROVE publishers' = publishers /\ Publishing' = Publishing
  BY <1>24 DEF SignalTaken, signalDrain
<1>25. ASSUME NEW w \in Workers, Handle(w) PROVE publishers' = publishers /\ Publishing' = Publishing
  BY <1>25 DEF Handle, workerGoes
<1>26. ASSUME NEW w \in Workers, DecInFlight(w) PROVE publishers' = publishers /\ Publishing' = Publishing
  BY <1>26 DEF DecInFlight, workerGoes
<1>27. ASSUME NEW w \in Workers, SignalHandled(w) PROVE publishers' = publishers /\ Publishing' = Publishing
  BY <1>27 DEF SignalHandled, signalDrain
<1>28. ASSUME NEW w \in Workers, NEW c \in Calls, Handoff(w, c) PROVE publishers' = publishers /\ Publishing' = Publishing
  BY <1>28 DEF Handoff, callGoes, Receive, ResumeAt
<1>29. ASSUME NEW s \in Stoppers, CompareAndSwap(s) PROVE publishers' = publishers /\ Publishing' = Publishing
  BY <1>29 DEF CompareAndSwap, stopperGoes
<1>30. ASSUME NEW s \in Stoppers, Cancel(s) PROVE publishers' = publishers /\ Publishing' = Publishing
  BY <1>30 DEF Cancel, stopperGoes
<1>31. ASSUME NEW s \in Stoppers, SignalStop(s) PROVE publishers' = publishers /\ Publishing' = Publishing
  BY <1>31 DEF SignalStop, stopperGoes, signalDrain
<1>32. ASSUME NEW s \in Stoppers, Stop(s) PROVE publishers' = publishers /\ Publishing' = Publishing
  BY <1>32 DEF Stop, stopperGoes
<1>33. ASSUME NEW s \in Stoppers, Await(s) PROVE publishers' = publishers /\ Publishing' = Publishing
  BY <1>33 DEF Await, stopperGoes
<1>34. ASSUME UNCHANGED vars PROVE publishers' = publishers /\ Publishing' = Publishing
  BY <1>34 DEF vars
<1> HIDE DEF TypeOK, Publishing
<1> QED
  BY <1>1, <1>2, <1>3, <1>4, <1>5, <1>6, <1>7, <1>8, <1>9, <1>10, <1>11, <1>12, <1>13, <1>14, <1>15, <1>16, <1>17, <1>18, <1>19, <1>20, <1>21, <1>22, <1>23, <1>24, <1>25, <1>26, <1>27, <1>28, <1>29, <1>30, <1>31, <1>32, <1>33, <1>34
  DEF Moves, Next, tryPublish, callStep, runner, drain, process, GracefulStop, stopStep

\* inFlight counts the workers between its two Adds in process.
LEMMA InFlightMoves ==
    ASSUME TypeOK, Places, Shape', [Next]_vars
    PROVE  Moves(inFlight, inFlight', Running, Running')
<1> USE DEF TypeOK, Running, WorkerPCs, stopVars, counters, callVars, workerVars
<1>1. ASSUME NEW c \in Calls, NEW nb \in BOOLEAN, Enter(c, nb) PROVE inFlight' = inFlight /\ Running' = Running
  BY <1>1 DEF Enter, callGoes
<1>2. ASSUME NEW c \in Calls, Gate(c) PROVE inFlight' = inFlight /\ Running' = Running
  BY <1>2 DEF Gate, callGoes
<1>3. ASSUME NEW c \in Calls, IncDepth(c) PROVE inFlight' = inFlight /\ Running' = Running
  BY <1>3 DEF IncDepth, callGoes
<1>4. ASSUME NEW c \in Calls, Send(c) PROVE inFlight' = inFlight /\ Running' = Running
  BY <1>4 DEF Send, callGoes
<1>5. ASSUME NEW c \in Calls, Full(c) PROVE inFlight' = inFlight /\ Running' = Running
  BY <1>5 DEF Full, callGoes
<1>6. ASSUME NEW c \in Calls, CallerDone(c) PROVE inFlight' = inFlight /\ Running' = Running
  BY <1>6 DEF CallerDone, callGoes
<1>7. ASSUME NEW c \in Calls, PoolDone(c) PROVE inFlight' = inFlight /\ Running' = Running
  BY <1>7 DEF PoolDone, callGoes
<1>8. ASSUME NEW c \in Calls, Rollback(c) PROVE inFlight' = inFlight /\ Running' = Running
  BY <1>8 DEF Rollback, callGoes
<1>9. ASSUME NEW c \in Calls, Reload(c) PROVE inFlight' = inFlight /\ Running' = Running
  BY <1>9 DEF Reload, callGoes
<1>10. ASSUME NEW c \in Calls, SignalSent(c) PROVE inFlight' = inFlight /\ Running' = Running
  BY <1>10 DEF SignalSent, callGoes, signalDrain
<1>11. ASSUME NEW c \in Calls, Leave(c) PROVE inFlight' = inFlight /\ Running' = Running
  BY <1>11 DEF Leave, callGoes
<1>12. ASSUME NEW c \in Calls, SignalLeft(c) PROVE inFlight' = inFlight /\ Running' = Running
  BY <1>12 DEF SignalLeft, callGoes, signalDrain
<1>13. ASSUME NEW w \in Workers, Recv(w) PROVE inFlight' = inFlight /\ Running' = Running
  BY <1>13 DEF Recv, Receive, ResumeAt
<1>14. ASSUME NEW w \in Workers, CtxDone(w) PROVE inFlight' = inFlight /\ Running' = Running
  BY <1>14 DEF CtxDone, workerGoes
<1>15. ASSUME NEW w \in Workers, RecvNothing(w) PROVE inFlight' = inFlight /\ Running' = Running
  BY <1>15 DEF RecvNothing, workerGoes
<1>16. ASSUME NEW w \in Workers, DrainTest(w) PROVE inFlight' = inFlight /\ Running' = Running
  BY <1>16 DEF DrainTest, Test, workerGoes
<1>17. ASSUME NEW w \in Workers, LoopTest(w) PROVE inFlight' = inFlight /\ Running' = Running
  BY <1>17 DEF LoopTest, Test, workerGoes
<1>18. ASSUME NEW w \in Workers, BreakTest(w) PROVE inFlight' = inFlight /\ Running' = Running
  BY <1>18 DEF BreakTest, Test, workerGoes
<1>19. ASSUME NEW w \in Workers, Lock(w) PROVE inFlight' = inFlight /\ Running' = Running
  BY <1>19 DEF Lock, workerGoes
<1>20. ASSUME NEW w \in Workers, Wait(w) PROVE inFlight' = inFlight /\ Running' = Running
  BY <1>20 DEF Wait, workerGoes
<1>21. ASSUME NEW w \in Workers, Unlock(w) PROVE inFlight' = inFlight /\ Running' = Running
  BY <1>21 DEF Unlock, workerGoes
<1>22. ASSUME NEW w \in Workers, DecDepth(w) PROVE inFlight' = inFlight /\ Running' = Running
  BY <1>22 DEF DecDepth, workerGoes
<1>23. ASSUME NEW w \in Workers, IncInFlight(w) PROVE Moves(inFlight, inFlight', Running, Running')
  <2>1. w \notin Running /\ Running' = Running \cup {w} /\ inFlight' = inFlight + 1
    BY <1>23 DEF IncInFlight, workerGoes
  <2> HIDE DEF Running
  <2> QED BY <2>1 DEF Moves
<1>24. ASSUME NEW w \in Workers, SignalTaken(w) PROVE inFlight' = inFlight /\ Running' = Running
  BY <1>24 DEF SignalTaken, signalDrain
<1>25. ASSUME NEW w \in Workers, Handle(w) PROVE inFlight' = inFlight /\ Running' = Running
  BY <1>25 DEF Handle, workerGoes
<1>26. ASSUME NEW w \in Workers, DecInFlight(w) PROVE Moves(inFlight, inFlight', Running, Running')
  <2>1. w \in Running /\ Running' = Running \ {w} /\ inFlight' = inFlight - 1
    BY <1>26 DEF DecInFlight, workerGoes
  <2> HIDE DEF Running
  <2> QED BY <2>1 DEF Moves
<1>27. ASSUME NEW w \in Workers, SignalHandled(w) PROVE inFlight' = inFlight /\ Running' = Running
  BY <1>27 DEF SignalHandled, signalDrain
<1>28. ASSUME NEW w \in Workers, NEW c \in Calls, Handoff(w, c) PROVE inFlight' = inFlight /\ Running' = Running
  BY <1>28 DEF Handoff, callGoes, Receive, ResumeAt
<1>29. ASSUME NEW s \in Stoppers, CompareAndSwap(s) PROVE inFlight' = inFlight /\ Running' = Running
  BY <1>29 DEF CompareAndSwap, stopperGoes
<1>30. ASSUME NEW s \in Stoppers, Cancel(s) PROVE inFlight' = inFlight /\ Running' = Running
  BY <1>30 DEF Cancel, stopperGoes
<1>31. ASSUME NEW s \in Stoppers, SignalStop(s) PROVE inFlight' = inFlight /\ Running' = Running
  BY <1>31 DEF SignalStop, stopperGoes, signalDrain
<1>32. ASSUME NEW s \in Stoppers, Stop(s) PROVE inFlight' = inFlight /\ Running' = Running
  BY <1>32 DEF Stop, stopperGoes
<1>33. ASSUME NEW s \in Stoppers, Await(s) PROVE inFlight' = inFlight /\ Running' = Running
  BY <1>33 DEF Await, stopperGoes
<1>34. ASSUME UNCHANGED vars PROVE inFlight' = inFlight /\ Running' = Running
  BY <1>34 DEF vars
<1> HIDE DEF TypeOK, Running
<1> QED
  BY <1>1, <1>2, <1>3, <1>4, <1>5, <1>6, <1>7, <1>8, <1>9, <1>10, <1>11, <1>12, <1>13, <1>14, <1>15, <1>16, <1>17, <1>18, <1>19, <1>20, <1>21, <1>22, <1>23, <1>24, <1>25, <1>26, <1>27, <1>28, <1>29, <1>30, <1>31, <1>32, <1>33, <1>34
  DEF Moves, Next, tryPublish, callStep, runner, drain, process, GracefulStop, stopStep

\* depth counts the calls and tasks between its Adds: IncDepth adds one,
\* Rollback and DecDepth take one away, a send or a receive only moves it.
LEMMA DepthMoves ==
    ASSUME TypeOK, Places, Shape', [Next]_vars
    PROVE  Moves(depth, depth', Queued, Queued')
<1> USE DEF TypeOK, Queued, Waiting, Fresh, WorkerPCs, stopVars, counters, callVars, workerVars
<1>1. ASSUME NEW c \in Calls, NEW nb \in BOOLEAN, Enter(c, nb) PROVE depth' = depth /\ Queued' = Queued
  BY <1>1 DEF Enter, callGoes
<1>2. ASSUME NEW c \in Calls, Gate(c) PROVE depth' = depth /\ Queued' = Queued
  BY <1>2 DEF Gate, callGoes
<1>3. ASSUME NEW c \in Calls, IncDepth(c) PROVE Moves(depth, depth', Queued, Queued')
  <2>1. c \notin Queued
    BY <1>3 DEF IncDepth, callGoes, Places, Accepted
  <2>2. Waiting' = Waiting \cup {c} /\ Range(input') = Range(input) /\ Fresh' = Fresh /\ depth' = depth + 1
    BY <1>3 DEF IncDepth, callGoes
  <2>3. Queued' = Queued \cup {c}
    BY <2>2 DEF Queued
  <2> HIDE DEF Queued
  <2> QED BY <2>1, <2>2, <2>3 DEF Moves
<1>4. ASSUME NEW c \in Calls, Send(c) PROVE depth' = depth /\ Queued' = Queued
  <2>1. Waiting' = Waiting \ {c} /\ c \in Waiting /\ Fresh' = Fresh /\ depth' = depth
    BY <1>4 DEF Send, callGoes
  <2>2. Range(input') = Range(input) \cup {c}
    BY <1>4, RangeAppend DEF Send
  <2> HIDE DEF Waiting, Fresh
  <2> QED BY <2>1, <2>2 DEF Queued
<1>5. ASSUME NEW c \in Calls, Full(c) PROVE depth' = depth /\ Queued' = Queued
  BY <1>5 DEF Full, callGoes
<1>6. ASSUME NEW c \in Calls, CallerDone(c) PROVE depth' = depth /\ Queued' = Queued
  BY <1>6 DEF CallerDone, callGoes
<1>7. ASSUME NEW c \in Calls, PoolDone(c) PROVE depth' = depth /\ Queued' = Queued
  BY <1>7 DEF PoolDone, callGoes
<1>8. ASSUME NEW c \in Calls, Rollback(c) PROVE Moves(depth, depth', Queued, Queued')
  <2>1. c \in Waiting /\ c \notin Range(input) /\ c \notin Fresh
    BY <1>8 DEF Rollback, callGoes, Places, Accepted
  <2>2. Waiting' = Waiting \ {c} /\ Range(input') = Range(input) /\ Fresh' = Fresh /\ depth' = depth - 1
    BY <1>8 DEF Rollback, callGoes
  <2>3. Queued' = Queued \ {c} /\ c \in Queued
    <3> HIDE DEF Waiting, Fresh
    <3> QED BY <2>1, <2>2 DEF Queued
  <2> HIDE DEF Queued
  <2> QED BY <2>2, <2>3 DEF Moves
<1>9. ASSUME NEW c \in Calls, Reload(c) PROVE depth' = depth /\ Queued' = Queued
  BY <1>9 DEF Reload, callGoes
<1>10. ASSUME NEW c \in Calls, SignalSent(c) PROVE depth' = depth /\ Queued' = Queued
  BY <1>10 DEF SignalSent, callGoes, signalDrain
<1>11. ASSUME NEW c \in Calls, Leave(c) PROVE depth' = depth /\ Queued' = Queued
  BY <1>11 DEF Leave, callGoes
<1>12. ASSUME NEW c \in Calls, SignalLeft(c) PROVE depth' = depth /\ Queued' = Queued
  BY <1>12 DEF SignalLeft, callGoes, signalDrain
<1>13. ASSUME NEW w \in Workers, Recv(w) PROVE depth' = depth /\ Queued' = Queued
  <2> DEFINE c == Head(input)
  <2>1. c \in Calls /\ Range(input) = Range(input') \cup {c} /\ depth' = depth /\ Waiting' = Waiting
    BY <1>13, RangeTail DEF Recv
  <2>2. Fresh' = Fresh \cup {c}
    <3>1. wpc' = [wpc EXCEPT ![w] = "dec"] /\ cur' = [cur EXCEPT ![w] = c] /\ wpc[w] # "dec"
      BY <1>13 DEF Recv, Receive
    <3> HIDE DEF c
    <3> QED BY <2>1, <3>1
  <2> HIDE DEF c, Waiting, Fresh
  <2> QED BY <2>1, <2>2 DEF Queued
<1>14. ASSUME NEW w \in Workers, CtxDone(w) PROVE depth' = depth /\ Queued' = Queued
  BY <1>14 DEF CtxDone, workerGoes
<1>15. ASSUME NEW w \in Workers, RecvNothing(w) PROVE depth' = depth /\ Queued' = Queued
  BY <1>15 DEF RecvNothing, workerGoes
<1>16. ASSUME NEW w \in Workers, DrainTest(w) PROVE depth' = depth /\ Queued' = Queued
  BY <1>16 DEF DrainTest, Test, workerGoes
<1>17. ASSUME NEW w \in Workers, LoopTest(w) PROVE depth' = depth /\ Queued' = Queued
  BY <1>17 DEF LoopTest, Test, workerGoes
<1>18. ASSUME NEW w \in Workers, BreakTest(w) PROVE depth' = depth /\ Queued' = Queued
  BY <1>18 DEF BreakTest, Test, workerGoes
<1>19. ASSUME NEW w \in Workers, Lock(w) PROVE depth' = depth /\ Queued' = Queued
  BY <1>19 DEF Lock, workerGoes
<1>20. ASSUME NEW w \in Workers, Wait(w) PROVE depth' = depth /\ Queued' = Queued
  BY <1>20 DEF Wait, workerGoes
<1>21. ASSUME NEW w \in Workers, Unlock(w) PROVE depth' = depth /\ Queued' = Queued
  BY <1>21 DEF Unlock, workerGoes
<1>22. ASSUME NEW w \in Workers, DecDepth(w) PROVE Moves(depth, depth', Queued, Queued')
  <2> DEFINE c == cur[w]
  <2>1. c \in Fresh /\ c \notin Range(input) /\ \A v \in Workers : cur[v] = c => v = w
    BY <1>22 DEF DecDepth, workerGoes, Places
  <2>2. c \notin Waiting
    BY <1>22 DEF DecDepth, workerGoes, Places, Accepted
  <2>3. Waiting' = Waiting /\ Range(input') = Range(input) /\ depth' = depth - 1
    BY <1>22 DEF DecDepth
  <2>4. Fresh' = Fresh \ {c}
    BY <1>22, <2>1 DEF DecDepth, workerGoes
  <2> HIDE DEF c, Waiting, Fresh
  <2>5. Queued' = Queued \ {c} /\ c \in Queued
    BY <2>1, <2>2, <2>3, <2>4 DEF Queued
  <2> HIDE DEF Queued
  <2> QED BY <2>3, <2>5 DEF Moves
<1>23. ASSUME NEW w \in Workers, IncInFlight(w) PROVE depth' = depth /\ Queued' = Queued
  BY <1>23 DEF IncInFlight, workerGoes
<1>24. ASSUME NEW w \in Workers, SignalTaken(w) PROVE depth' = depth /\ Queued' = Queued
  BY <1>24 DEF SignalTaken, signalDrain
<1>25. ASSUME NEW w \in Workers, Handle(w) PROVE depth' = depth /\ Queued' = Queued
  BY <1>25 DEF Handle, workerGoes
<1>26. ASSUME NEW w \in Workers, DecInFlight(w) PROVE depth' = depth /\ Queued' = Queued
  BY <1>26 DEF DecInFlight, workerGoes
<1>27. ASSUME NEW w \in Workers, SignalHandled(w) PROVE depth' = depth /\ Queued' = Queued
  BY <1>27 DEF SignalHandled, signalDrain
<1>28. ASSUME NEW w \in Workers, NEW c \in Calls, Handoff(w, c) PROVE depth' = depth /\ Queued' = Queued
  BY <1>28 DEF Handoff, callGoes, Receive, ResumeAt
<1>29. ASSUME NEW s \in Stoppers, CompareAndSwap(s) PROVE depth' = depth /\ Queued' = Queued
  BY <1>29 DEF CompareAndSwap, stopperGoes
<1>30. ASSUME NEW s \in Stoppers, Cancel(s) PROVE depth' = depth /\ Queued' = Queued
  BY <1>30 DEF Cancel, stopperGoes
<1>31. ASSUME NEW s \in Stoppers, SignalStop(s) PROVE depth' = depth /\ Queued' = Queued
  BY <1>31 DEF SignalStop, stopperGoes, signalDrain
<1>32. ASSUME NEW s \in Stoppers, Stop(s) PROVE depth' = depth /\ Queued' = Queued
  BY <1>32 DEF Stop, stopperGoes
<1>33. ASSUME NEW s \in Stoppers, Await(s) PROVE depth' = depth /\ Queued' = Queued
  BY <1>33 DEF Await, stopperGoes
<1>34. ASSUME UNCHANGED vars PROVE depth' = depth /\ Queued' = Queued
  BY <1>34 DEF vars
<1> HIDE DEF TypeOK, Queued, Waiting, Fresh
<1> QED
  BY <1>1, <1>2, <1>3, <1>4, <1>5, <1>6, <1>7, <1>8, <1>9, <1>10, <1>11, <1>12, <1>13, <1>14, <1>15, <1>16, <1>17, <1>18, <1>19, <1>20, <1>21, <1>22, <1>23, <1>24, <1>25, <1>26, <1>27, <1>28, <1>29, <1>30, <1>31, <1>32, <1>33, <1>34
  DEF Moves, Next, tryPublish, callStep, runner, drain, process, GracefulStop, stopStep

-----------------------------------------------------------------------------
(* Stopping and draining *)

\* Draining is preserved: the gate is closed, so what a worker read of
\* publishers and depth in its first test still holds when it returns.
LEMMA NextDraining ==
    ASSUME TypeOK, Draining, Stopping, [Next]_vars,
           publishers = 0 => Publishing = {},
           depth = 0 => Queued = {}
    PROVE  Draining'
<1> USE DEF TypeOK, Draining, NoneMayLand, MayLand, WorkerPCs, stopVars, counters, callVars, workerVars
<1>1. ASSUME NEW c \in Calls, NEW nb \in BOOLEAN, Enter(c, nb) PROVE Draining'
  BY <1>1 DEF Enter, callGoes
<1>2. ASSUME NEW c \in Calls, Gate(c) PROVE Draining'
  BY <1>2 DEF Gate, callGoes
<1>3. ASSUME NEW c \in Calls, IncDepth(c) PROVE Draining'
  BY <1>3 DEF IncDepth, callGoes
<1>4. ASSUME NEW c \in Calls, Send(c) PROVE Draining'
  BY <1>4 DEF Send, callGoes
<1>5. ASSUME NEW c \in Calls, Full(c) PROVE Draining'
  BY <1>5 DEF Full, callGoes
<1>6. ASSUME NEW c \in Calls, CallerDone(c) PROVE Draining'
  BY <1>6 DEF CallerDone, callGoes
<1>7. ASSUME NEW c \in Calls, PoolDone(c) PROVE Draining'
  BY <1>7 DEF PoolDone, callGoes
<1>8. ASSUME NEW c \in Calls, Rollback(c) PROVE Draining'
  BY <1>8 DEF Rollback, callGoes
<1>9. ASSUME NEW c \in Calls, Reload(c) PROVE Draining'
  BY <1>9 DEF Reload, callGoes
<1>10. ASSUME NEW c \in Calls, SignalSent(c) PROVE Draining'
  BY <1>10 DEF SignalSent, callGoes, signalDrain
<1>11. ASSUME NEW c \in Calls, Leave(c) PROVE Draining'
  BY <1>11 DEF Leave, callGoes
<1>12. ASSUME NEW c \in Calls, SignalLeft(c) PROVE Draining'
  BY <1>12 DEF SignalLeft, callGoes, signalDrain
<1>13. ASSUME NEW w \in Workers, Recv(w) PROVE Draining'
  BY <1>13 DEF Recv, Receive, ResumeAt
<1>14. ASSUME NEW w \in Workers, CtxDone(w) PROVE Draining'
  BY <1>14 DEF CtxDone, workerGoes
<1>15. ASSUME NEW w \in Workers, RecvNothing(w) PROVE Draining'
  BY <1>15 DEF RecvNothing, workerGoes
<1>16. ASSUME NEW w \in Workers, DrainTest(w) PROVE Draining'
  <2>1. UNCHANGED <<state, cancelled, input, cpc, back>> /\ wpc[w] = "check" /\ cancelled
    BY <1>16 DEF DrainTest, Test, workerGoes
  <2>2. CASE Counter(load[w]) # 0 /\ wpc' = [wpc EXCEPT ![w] = "lock"] /\ load' = [load EXCEPT ![w] = 1]
    BY <2>1, <2>2
  <2>3. CASE load[w] = 1 /\ publishers = 0 /\ wpc' = [wpc EXCEPT ![w] = "check"] /\ load' = [load EXCEPT ![w] = 2]
    <3>1. NoneMayLand
      <4>1. Publishing = {}
        BY <2>3
      <4> QED BY <4>1 DEF Publishing
    <3> QED BY <2>1, <2>3, <3>1
  <2>4. CASE load[w] = 2 /\ depth = 0 /\ wpc' = [wpc EXCEPT ![w] = "check"] /\ load' = [load EXCEPT ![w] = 3]
    <3>1. input = <<>>
      <4>1. Queued = {}
        BY <2>4
      <4>2. Range(input) = {}
        BY <4>1 DEF Queued
      <4> QED BY <4>2, RangeEmpty
    <3> QED BY <2>1, <2>4, <3>1
  <2>5. CASE load[w] = 3 /\ wpc' = [wpc EXCEPT ![w] = "returned"] /\ load' = [load EXCEPT ![w] = 1]
    BY <2>1, <2>5
  <2>6. load[w] = 1 \/ load[w] = 2 \/ load[w] = 3
    OBVIOUS
  <2>7. \/ Counter(load[w]) # 0 /\ wpc' = [wpc EXCEPT ![w] = "lock"] /\ load' = [load EXCEPT ![w] = 1]
        \/ Counter(load[w]) = 0 /\ load[w] < 3 /\ wpc' = [wpc EXCEPT ![w] = "check"] /\ load' = [load EXCEPT ![w] = load[w] + 1]
        \/ load[w] = 3 /\ wpc' = [wpc EXCEPT ![w] = "returned"] /\ load' = [load EXCEPT ![w] = 1]
    BY <1>16 DEF DrainTest, Test, workerGoes
  <2> HIDE DEF Draining, TypeOK, NoneMayLand
  <2> QED BY <2>2, <2>3, <2>4, <2>5, <2>6, <2>7 DEF Counter
<1>17. ASSUME NEW w \in Workers, LoopTest(w) PROVE Draining'
  BY <1>17 DEF LoopTest, Test, workerGoes
<1>18. ASSUME NEW w \in Workers, BreakTest(w) PROVE Draining'
  BY <1>18 DEF BreakTest, Test, workerGoes
<1>19. ASSUME NEW w \in Workers, Lock(w) PROVE Draining'
  BY <1>19 DEF Lock, workerGoes
<1>20. ASSUME NEW w \in Workers, Wait(w) PROVE Draining'
  BY <1>20 DEF Wait, workerGoes
<1>21. ASSUME NEW w \in Workers, Unlock(w) PROVE Draining'
  BY <1>21 DEF Unlock, workerGoes
<1>22. ASSUME NEW w \in Workers, DecDepth(w) PROVE Draining'
  BY <1>22 DEF DecDepth, workerGoes
<1>23. ASSUME NEW w \in Workers, IncInFlight(w) PROVE Draining'
  BY <1>23 DEF IncInFlight, workerGoes
<1>24. ASSUME NEW w \in Workers, SignalTaken(w) PROVE Draining'
  BY <1>24 DEF SignalTaken, signalDrain
<1>25. ASSUME NEW w \in Workers, Handle(w) PROVE Draining'
  BY <1>25 DEF Handle, workerGoes
<1>26. ASSUME NEW w \in Workers, DecInFlight(w) PROVE Draining'
  BY <1>26 DEF DecInFlight, workerGoes
<1>27. ASSUME NEW w \in Workers, SignalHandled(w) PROVE Draining'
  BY <1>27 DEF SignalHandled, signalDrain
<1>28. ASSUME NEW w \in Workers, NEW c \in Calls, Handoff(w, c) PROVE Draining'
  BY <1>28 DEF Handoff, callGoes, Receive, ResumeAt
<1>29. ASSUME NEW s \in Stoppers, CompareAndSwap(s) PROVE Draining'
  BY <1>29 DEF CompareAndSwap, stopperGoes
<1>30. ASSUME NEW s \in Stoppers, Cancel(s) PROVE Draining'
  BY <1>30 DEF Cancel, stopperGoes, Stopping, Winning
<1>31. ASSUME NEW s \in Stoppers, SignalStop(s) PROVE Draining'
  BY <1>31 DEF SignalStop, stopperGoes, signalDrain
<1>32. ASSUME NEW s \in Stoppers, Stop(s) PROVE Draining'
  BY <1>32 DEF Stop, stopperGoes
<1>33. ASSUME NEW s \in Stoppers, Await(s) PROVE Draining'
  BY <1>33 DEF Await, stopperGoes
<1>34. CASE UNCHANGED vars
  BY <1>34 DEF vars
<1> HIDE DEF TypeOK, Draining
<1> QED
  BY <1>1, <1>2, <1>3, <1>4, <1>5, <1>6, <1>7, <1>8, <1>9, <1>10, <1>11, <1>12, <1>13, <1>14, <1>15, <1>16, <1>17, <1>18, <1>19, <1>20, <1>21, <1>22, <1>23, <1>24, <1>25, <1>26, <1>27, <1>28, <1>29, <1>30, <1>31, <1>32, <1>33, <1>34
  DEF Next, tryPublish, callStep, runner, drain, process, GracefulStop, stopStep

\* Stopping is preserved: the CAS has one winner.
LEMMA NextStopping ==
    ASSUME TypeOK, Draining, Stopping, [Next]_vars
    PROVE  Stopping'
<1> USE DEF TypeOK, Stopping, Winning, WorkerPCs, StopPCs, stopVars, counters, callVars, workerVars
<1>1. ASSUME NEW c \in Calls, NEW nb \in BOOLEAN, Enter(c, nb) PROVE Stopping'
  BY <1>1 DEF Enter, callGoes
<1>2. ASSUME NEW c \in Calls, Gate(c) PROVE Stopping'
  BY <1>2 DEF Gate, callGoes
<1>3. ASSUME NEW c \in Calls, IncDepth(c) PROVE Stopping'
  BY <1>3 DEF IncDepth, callGoes
<1>4. ASSUME NEW c \in Calls, Send(c) PROVE Stopping'
  BY <1>4 DEF Send, callGoes
<1>5. ASSUME NEW c \in Calls, Full(c) PROVE Stopping'
  BY <1>5 DEF Full, callGoes
<1>6. ASSUME NEW c \in Calls, CallerDone(c) PROVE Stopping'
  BY <1>6 DEF CallerDone, callGoes
<1>7. ASSUME NEW c \in Calls, PoolDone(c) PROVE Stopping'
  BY <1>7 DEF PoolDone, callGoes
<1>8. ASSUME NEW c \in Calls, Rollback(c) PROVE Stopping'
  BY <1>8 DEF Rollback, callGoes
<1>9. ASSUME NEW c \in Calls, Reload(c) PROVE Stopping'
  BY <1>9 DEF Reload, callGoes
<1>10. ASSUME NEW c \in Calls, SignalSent(c) PROVE Stopping'
  BY <1>10 DEF SignalSent, callGoes, signalDrain
<1>11. ASSUME NEW c \in Calls, Leave(c) PROVE Stopping'
  BY <1>11 DEF Leave, callGoes
<1>12. ASSUME NEW c \in Calls, SignalLeft(c) PROVE Stopping'
  BY <1>12 DEF SignalLeft, callGoes, signalDrain
<1>13. ASSUME NEW w \in Workers, Recv(w) PROVE Stopping'
  BY <1>13 DEF Recv, Receive, ResumeAt
<1>14. ASSUME NEW w \in Workers, CtxDone(w) PROVE Stopping'
  BY <1>14 DEF CtxDone, workerGoes
<1>15. ASSUME NEW w \in Workers, RecvNothing(w) PROVE Stopping'
  BY <1>15 DEF RecvNothing, workerGoes
<1>16. ASSUME NEW w \in Workers, DrainTest(w) PROVE Stopping'
  BY <1>16 DEF DrainTest, Test, workerGoes
<1>17. ASSUME NEW w \in Workers, LoopTest(w) PROVE Stopping'
  BY <1>17 DEF LoopTest, Test, workerGoes
<1>18. ASSUME NEW w \in Workers, BreakTest(w) PROVE Stopping'
  BY <1>18 DEF BreakTest, Test, workerGoes
<1>19. ASSUME NEW w \in Workers, Lock(w) PROVE Stopping'
  BY <1>19 DEF Lock, workerGoes
<1>20. ASSUME NEW w \in Workers, Wait(w) PROVE Stopping'
  BY <1>20 DEF Wait, workerGoes
<1>21. ASSUME NEW w \in Workers, Unlock(w) PROVE Stopping'
  BY <1>21 DEF Unlock, workerGoes
<1>22. ASSUME NEW w \in Workers, DecDepth(w) PROVE Stopping'
  BY <1>22 DEF DecDepth, workerGoes
<1>23. ASSUME NEW w \in Workers, IncInFlight(w) PROVE Stopping'
  BY <1>23 DEF IncInFlight, workerGoes
<1>24. ASSUME NEW w \in Workers, SignalTaken(w) PROVE Stopping'
  BY <1>24 DEF SignalTaken, signalDrain
<1>25. ASSUME NEW w \in Workers, Handle(w) PROVE Stopping'
  BY <1>25 DEF Handle, workerGoes
<1>26. ASSUME NEW w \in Workers, DecInFlight(w) PROVE Stopping'
  BY <1>26 DEF DecInFlight, workerGoes
<1>27. ASSUME NEW w \in Workers, SignalHandled(w) PROVE Stopping'
  BY <1>27 DEF SignalHandled, signalDrain
<1>28. ASSUME NEW w \in Workers, NEW c \in Calls, Handoff(w, c) PROVE Stopping'
  BY <1>28 DEF Handoff, callGoes, Receive, ResumeAt
<1>29. ASSUME NEW s \in Stoppers, CompareAndSwap(s) PROVE Stopping'
  BY <1>29 DEF CompareAndSwap, stopperGoes
<1>30. ASSUME NEW s \in Stoppers, Cancel(s) PROVE Stopping'
  BY <1>30 DEF Cancel, stopperGoes
<1>31. ASSUME NEW s \in Stoppers, SignalStop(s) PROVE Stopping'
  BY <1>31 DEF SignalStop, stopperGoes, signalDrain
<1>32. ASSUME NEW s \in Stoppers, Stop(s) PROVE Stopping'
  BY <1>32 DEF Stop, stopperGoes
<1>33. ASSUME NEW s \in Stoppers, Await(s) PROVE Stopping'
  BY <1>33 DEF Await, stopperGoes
<1>34. CASE UNCHANGED vars
  BY <1>34 DEF vars
<1> HIDE DEF TypeOK, Stopping
<1> QED
  BY <1>1, <1>2, <1>3, <1>4, <1>5, <1>6, <1>7, <1>8, <1>9, <1>10, <1>11, <1>12, <1>13, <1>14, <1>15, <1>16, <1>17, <1>18, <1>19, <1>20, <1>21, <1>22, <1>23, <1>24, <1>25, <1>26, <1>27, <1>28, <1>29, <1>30, <1>31, <1>32, <1>33, <1>34
  DEF Next, tryPublish, callStep, runner, drain, process, GracefulStop, stopStep

\* Exclusion is preserved: the mutex is taken and released with the pc.
LEMMA NextExclusion ==
    ASSUME TypeOK, Places, Exclusion, [Next]_vars
    PROVE  Exclusion'
<1> USE PoolAssumption DEF TypeOK, Exclusion, WorkerPCs, stopVars, counters, callVars, workerVars
<1>1. ASSUME NEW c \in Calls, NEW nb \in BOOLEAN, Enter(c, nb) PROVE Exclusion'
  BY <1>1 DEF Enter, callGoes
<1>2. ASSUME NEW c \in Calls, Gate(c) PROVE Exclusion'
  BY <1>2 DEF Gate, callGoes
<1>3. ASSUME NEW c \in Calls, IncDepth(c) PROVE Exclusion'
  BY <1>3 DEF IncDepth, callGoes
<1>4. ASSUME NEW c \in Calls, Send(c) PROVE Exclusion'
  BY <1>4 DEF Send, callGoes
<1>5. ASSUME NEW c \in Calls, Full(c) PROVE Exclusion'
  BY <1>5 DEF Full, callGoes
<1>6. ASSUME NEW c \in Calls, CallerDone(c) PROVE Exclusion'
  BY <1>6 DEF CallerDone, callGoes
<1>7. ASSUME NEW c \in Calls, PoolDone(c) PROVE Exclusion'
  BY <1>7 DEF PoolDone, callGoes
<1>8. ASSUME NEW c \in Calls, Rollback(c) PROVE Exclusion'
  BY <1>8 DEF Rollback, callGoes
<1>9. ASSUME NEW c \in Calls, Reload(c) PROVE Exclusion'
  BY <1>9 DEF Reload, callGoes
<1>10. ASSUME NEW c \in Calls, SignalSent(c) PROVE Exclusion'
  BY <1>10 DEF SignalSent, callGoes, signalDrain
<1>11. ASSUME NEW c \in Calls, Leave(c) PROVE Exclusion'
  BY <1>11 DEF Leave, callGoes
<1>12. ASSUME NEW c \in Calls, SignalLeft(c) PROVE Exclusion'
  BY <1>12 DEF SignalLeft, callGoes, signalDrain
<1>13. ASSUME NEW w \in Workers, Recv(w) PROVE Exclusion'
  BY <1>13 DEF Recv, Receive, ResumeAt
<1>14. ASSUME NEW w \in Workers, CtxDone(w) PROVE Exclusion'
  BY <1>14 DEF CtxDone, workerGoes
<1>15. ASSUME NEW w \in Workers, RecvNothing(w) PROVE Exclusion'
  BY <1>15 DEF RecvNothing, workerGoes
<1>16. ASSUME NEW w \in Workers, DrainTest(w) PROVE Exclusion'
  BY <1>16 DEF DrainTest, Test, workerGoes
<1>17. ASSUME NEW w \in Workers, LoopTest(w) PROVE Exclusion'
  BY <1>17 DEF LoopTest, Test, workerGoes
<1>18. ASSUME NEW w \in Workers, BreakTest(w) PROVE Exclusion'
  BY <1>18 DEF BreakTest, Test, workerGoes
<1>19. ASSUME NEW w \in Workers, Lock(w) PROVE Exclusion'
  BY <1>19 DEF Lock, workerGoes
<1>20. ASSUME NEW w \in Workers, Wait(w) PROVE Exclusion'
  BY <1>20 DEF Wait, workerGoes
<1>21. ASSUME NEW w \in Workers, Unlock(w) PROVE Exclusion'
  BY <1>21 DEF Unlock, workerGoes
<1>22. ASSUME NEW w \in Workers, DecDepth(w) PROVE Exclusion'
  BY <1>22 DEF DecDepth, workerGoes
<1>23. ASSUME NEW w \in Workers, IncInFlight(w) PROVE Exclusion'
  BY <1>23 DEF IncInFlight, workerGoes
<1>24. ASSUME NEW w \in Workers, SignalTaken(w) PROVE Exclusion'
  BY <1>24 DEF SignalTaken, signalDrain
<1>25. ASSUME NEW w \in Workers, Handle(w) PROVE Exclusion'
  BY <1>25 DEF Handle, workerGoes
<1>26. ASSUME NEW w \in Workers, DecInFlight(w) PROVE Exclusion'
  BY <1>26 DEF DecInFlight, workerGoes
<1>27. ASSUME NEW w \in Workers, SignalHandled(w) PROVE Exclusion'
  BY <1>27 DEF SignalHandled, signalDrain
<1>28. ASSUME NEW w \in Workers, NEW c \in Calls, Handoff(w, c) PROVE Exclusion'
  BY <1>28 DEF Handoff, callGoes, Receive, ResumeAt
<1>29. ASSUME NEW s \in Stoppers, CompareAndSwap(s) PROVE Exclusion'
  BY <1>29 DEF CompareAndSwap, stopperGoes
<1>30. ASSUME NEW s \in Stoppers, Cancel(s) PROVE Exclusion'
  BY <1>30 DEF Cancel, stopperGoes
<1>31. ASSUME NEW s \in Stoppers, SignalStop(s) PROVE Exclusion'
  BY <1>31 DEF SignalStop, stopperGoes, signalDrain
<1>32. ASSUME NEW s \in Stoppers, Stop(s) PROVE Exclusion'
  BY <1>32 DEF Stop, stopperGoes
<1>33. ASSUME NEW s \in Stoppers, Await(s) PROVE Exclusion'
  BY <1>33 DEF Await, stopperGoes
<1>34. CASE UNCHANGED vars
  BY <1>34 DEF vars
<1> HIDE DEF TypeOK, Exclusion
<1> QED
  BY <1>1, <1>2, <1>3, <1>4, <1>5, <1>6, <1>7, <1>8, <1>9, <1>10, <1>11, <1>12, <1>13, <1>14, <1>15, <1>16, <1>17, <1>18, <1>19, <1>20, <1>21, <1>22, <1>23, <1>24, <1>25, <1>26, <1>27, <1>28, <1>29, <1>30, <1>31, <1>32, <1>33, <1>34
  DEF Next, tryPublish, callStep, runner, drain, process, GracefulStop, stopStep
=============================================================================
