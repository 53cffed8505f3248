--------------------------- MODULE GraduateProofs ---------------------------
(***************************************************************************)
(* Proofs for Graduate: for any number of overlapping shadows, any rates    *)
(* and any window.                                                          *)
(*                                                                          *)
(* That the ramp is paced is not inductive, nor does the rate only rise: an *)
(* evaluation that stores late takes it back, and one that loaded a higher  *)
(* rate before raises it again by more than a step. What is bounded is the  *)
(* rate and every rate that is about to be stored, less a step for each     *)
(* evaluation that may still take one.                                      *)
(***************************************************************************)
EXTENDS Graduate, FiniteSetTheorems, TLAPS

N == Cardinality(Shadows)

Ends(c) == c % EvalWindow = 0

\* Evaluations that may still raise the rate: past the test for the end of a window, or
\* before it while the count of samples is one.
Raising ==
    {s \in Shadows : \/ spc[s] \in {"mismatches", "rate", "ramp"}
                     \/ Ends(compared) /\ spc[s] \in {"tally", "phase", "samples"}}

\* Steps taken so far, at most.
Steps == N * (compared \div EvalWindow) - Cardinality(Raising)

RateAfter(k) == StartRate + Step * k

Shape ==
    /\ spc \in [Shadows -> Running \cup {"idle", "primary"}]
    /\ local \in [Shadows -> Nat] /\ rate \in Nat /\ compared \in Nat

Paced ==
    /\ rate <= RateAfter(Steps)
    /\ \A s \in Shadows : spc[s] = "ramp" => local[s] <= RateAfter(Steps + 1)

IInv == Shape /\ Paced

-----------------------------------------------------------------------------
\* Shadows, and so those that are raising, are finitely many.
LEMMA RaisingFinite ==
    /\ N \in Nat
    /\ IsFiniteSet(Raising) /\ Cardinality(Raising) \in 0..N
    /\ IsFiniteSet(Raising') /\ Cardinality(Raising') \in 0..N
  <1>1. IsFiniteSet(Shadows) /\ N \in Nat
    BY GraduateAssumption, FS_CardinalityType DEF N
  <1>2. Raising \subseteq Shadows /\ Raising' \subseteq Shadows
    BY DEF Raising
  <1>3. /\ IsFiniteSet(Raising) /\ Cardinality(Raising) <= N
        /\ IsFiniteSet(Raising') /\ Cardinality(Raising') <= N
    BY <1>1, <1>2, FS_Subset DEF N
  <1>4. Cardinality(Raising) \in Nat /\ Cardinality(Raising') \in Nat
    BY <1>3, FS_CardinalityType
  <1> QED
    BY <1>1, <1>3, <1>4

\* Windows are counted without end, and one that ends is counted.
LEMMA Windows ==
    ASSUME NEW c \in Nat
    PROVE  /\ c \div EvalWindow \in Nat
           /\ (c + 1) \div EvalWindow >= c \div EvalWindow
           /\ Ends(c + 1) => (c + 1) \div EvalWindow >= c \div EvalWindow + 1
  <1>1. EvalWindow \in Nat \ {0}
    BY GraduateAssumption
  <1> DEFINE w == EvalWindow
             q == c \div w
             p == (c + 1) \div w
  <1>2. q \in Int /\ p \in Int
    BY <1>1
  <1>3. w * q <= c /\ c < w * q + w
    BY <1>1
  <1>4. w * p <= c + 1 /\ c + 1 < w * p + w
    BY <1>1
  <1>5. Ends(c + 1) => c + 1 = w * p
    BY <1>1 DEF Ends
  <1> HIDE DEF w, q, p
  <1>6. q >= 0
    BY <1>1, <1>2, <1>3 DEF w
  <1>7. p >= q
    BY <1>1, <1>2, <1>3, <1>4 DEF w
  <1>8. Ends(c + 1) => p >= q + 1
    BY <1>1, <1>2, <1>3, <1>5 DEF w
  <1> QED
    BY <1>2, <1>6, <1>7, <1>8 DEF q, p, w

\* A later step number means no lower rate.
LEMMA RateGrows ==
    ASSUME NEW a \in Int, NEW b \in Int, a <= b
    PROVE  /\ RateAfter(a) \in Int /\ RateAfter(b) \in Int
           /\ RateAfter(a + 1) = RateAfter(a) + Step /\ RateAfter(b + 1) = RateAfter(b) + Step
           /\ RateAfter(a) <= RateAfter(b)
  <1>1. Step \in Nat /\ StartRate \in Nat
    BY GraduateAssumption
  <1>2. /\ Step * a \in Int /\ Step * (a + 1) = Step * a + Step
        /\ Step * b \in Int /\ Step * (b + 1) = Step * b + Step
    BY <1>1
  <1>3. Step * a <= Step * b
    BY <1>1
  <1> QED
    BY <1>1, <1>2, <1>3 DEF RateAfter

\* The bounds before and after a step that takes Steps no further back.
LEMMA BoundsGrow ==
    ASSUME Steps \in Int, Steps' \in Int, Steps <= Steps'
    PROVE  /\ RateAfter(Steps) \in Int /\ RateAfter(Steps)' \in Int
           /\ RateAfter(Steps + 1) = RateAfter(Steps) + Step
           /\ RateAfter(Steps + 1)' = RateAfter(Steps)' + Step
           /\ RateAfter(Steps) <= RateAfter(Steps)'
  <1>1. RateAfter(Steps)' = RateAfter(Steps') /\ RateAfter(Steps + 1)' = RateAfter(Steps' + 1)
    BY DEF RateAfter
  <1> QED
    BY <1>1, RateGrows

-----------------------------------------------------------------------------
(* Steps never goes back *)

\* It is a number.
LEMMA StepsType == Shape /\ Shape' => Steps \in Int /\ Steps' \in Int
  BY RaisingFinite, Windows, SMT DEF Shape, Steps, N

\* A step without a comparison that takes nobody into Raising.
LEMMA StepsKept ==
    ASSUME Shape, Shape', compared' = compared, Raising' \subseteq Raising
    PROVE  Steps' >= Steps /\ \A s \in Raising : s \notin Raising' => Steps' >= Steps + 1
  <1>1. Cardinality(Raising') <= Cardinality(Raising)
    BY RaisingFinite, FS_Subset
  <1>2. ASSUME NEW s \in Raising, s \notin Raising'
        PROVE  Cardinality(Raising') <= Cardinality(Raising) - 1
    <2>1. Raising' \subseteq Raising \ {s}
      BY <1>2
    <2>2. IsFiniteSet(Raising \ {s}) /\ Cardinality(Raising \ {s}) = Cardinality(Raising) - 1
      BY RaisingFinite, FS_RemoveElement
    <2> QED
      BY <2>1, <2>2, FS_Subset
  <1>3. N * (compared \div EvalWindow) \in Int
    BY RaisingFinite, Windows DEF Shape
  <1> QED
    BY <1>1, <1>2, <1>3, RaisingFinite DEF Steps

\* A comparison: at the end of a window every shadow may raise the rate once more.
LEMMA StepsCompared ==
    ASSUME Shape, Shape', compared' = compared + 1,
           ~Ends(compared') => Raising' \subseteq Raising
    PROVE  Steps' >= Steps
  <1> DEFINE q == compared \div EvalWindow
             p == (compared + 1) \div EvalWindow
  <1>1. q \in Nat /\ p \in Int /\ p >= q /\ (Ends(compared') => p >= q + 1)
    BY Windows DEF Shape
  <1>2. Steps = N * q - Cardinality(Raising) /\ Steps' = N * p - Cardinality(Raising')
    BY DEF Steps, N
  <1> HIDE DEF q, p
  <1>3. CASE Ends(compared')
    <2>1. N * p >= N * q + N /\ N * p \in Int /\ N * q \in Int
      BY <1>1, <1>3, RaisingFinite
    <2> QED
      BY <1>2, <2>1, RaisingFinite
  <1>4. CASE ~Ends(compared')
    <2>1. N * p >= N * q /\ N * p \in Int /\ N * q \in Int
      BY <1>1, RaisingFinite
    <2>2. Cardinality(Raising') <= Cardinality(Raising)
      BY <1>4, RaisingFinite, FS_Subset
    <2> QED
      BY <1>2, <2>1, <2>2, RaisingFinite
  <1> QED
    BY <1>3, <1>4

\* When no rate is stored or taken, the bound only has to grow.
LEMMA PacedKept ==
    ASSUME Shape, Shape', Paced, Steps' >= Steps, rate' = rate,
           \A s \in Shadows : spc'[s] = "ramp" => spc[s] = "ramp" /\ local'[s] = local[s]
    PROVE  Paced'
  <1>1. Steps \in Int /\ Steps' \in Int
    BY StepsType
  <1>2. Step \in Nat
    BY GraduateAssumption
  <1> QED
    BY <1>1, <1>2, BoundsGrow DEF Shape, Paced

-----------------------------------------------------------------------------
(* The actions *)

\* Nobody is raising, and the rate is the first.
LEMMA InitInv == GraduateInit => IInv
  <1> SUFFICES ASSUME GraduateInit PROVE IInv
    OBVIOUS
  <1>1. Shape
    BY GraduateAssumption DEF GraduateInit, Shape
  <1>2. Raising = {}
    BY DEF GraduateInit, Raising
  <1>3. Cardinality(Raising) = 0
    BY <1>2, FS_EmptySet
  <1>4. 0 \div EvalWindow \in Nat
    BY Windows
  <1>5. Steps \in Nat
    <2>1. N * (0 \div EvalWindow) \in Nat
      BY <1>4, RaisingFinite
    <2>2. Steps = N * (0 \div EvalWindow) - 0
      BY <1>3 DEF GraduateInit, Steps
    <2> QED
      BY <2>1, <2>2
  <1>6. RateAfter(0) <= RateAfter(Steps) /\ RateAfter(0) \in Int /\ RateAfter(Steps) \in Int
    BY <1>5, RateGrows
  <1>7. RateAfter(0) = StartRate /\ StartRate \in Nat
    BY GraduateAssumption DEF RateAfter
  <1> QED
    BY <1>1, <1>6, <1>7 DEF GraduateInit, IInv, Paced

\* The steps of a message that neither compare nor touch the rate.
LEMMA QuietInv ==
    ASSUME IInv, NEW s \in Shadows,
           \/ Handler(s) \/ With(s) \/ ShadowReturns(s) \/ Tally(s) \/ ShadowEnds(s)
           \/ LoadPhase(s) \/ LoadSamples(s) \/ LoadMismatches(s)
           \/ StoreReady(s) \/ StoreRamping(s) \/ AbortReason(s) \/ AbortPhase(s)
    PROVE  IInv'
  <1> USE DEF Move, atomics
  <1>1. CASE Handler(s)
    <2>1. Shape' /\ Raising' \subseteq Raising
      BY <1>1 DEF Handler, IInv, Shape, Raising, Ends, Running, Evaluating
    <2>2. compared' = compared /\ rate' = rate
      BY <1>1 DEF Handler
    <2>3. \A t \in Shadows : spc'[t] = "ramp" => spc[t] = "ramp" /\ local'[t] = local[t]
      BY <1>1 DEF Handler, IInv, Shape
    <2> QED
      BY <2>1, <2>2, <2>3, StepsKept, PacedKept DEF IInv
  <1>2. CASE With(s)
    <2>1. Shape' /\ Raising' \subseteq Raising
      BY <1>2 DEF With, IInv, Shape, Raising, Ends, Running, Evaluating
    <2>2. compared' = compared /\ rate' = rate
      BY <1>2 DEF With
    <2>3. \A t \in Shadows : spc'[t] = "ramp" => spc[t] = "ramp" /\ local'[t] = local[t]
      BY <1>2 DEF With, IInv, Shape
    <2> QED
      BY <2>1, <2>2, <2>3, StepsKept, PacedKept DEF IInv
  <1>3. CASE ShadowReturns(s)
    <2>1. Shape' /\ Raising' \subseteq Raising
      BY <1>3 DEF ShadowReturns, IInv, Shape, Raising, Ends, Running, Evaluating
    <2>2. compared' = compared /\ rate' = rate
      BY <1>3 DEF ShadowReturns
    <2>3. \A t \in Shadows : spc'[t] = "ramp" => spc[t] = "ramp" /\ local'[t] = local[t]
      BY <1>3 DEF ShadowReturns, IInv, Shape
    <2> QED
      BY <2>1, <2>2, <2>3, StepsKept, PacedKept DEF IInv
  <1>4. CASE Tally(s)
    <2>1. Shape' /\ Raising' \subseteq Raising
      BY <1>4 DEF Tally, IInv, Shape, Raising, Ends, Running, Evaluating
    <2>2. compared' = compared /\ rate' = rate
      BY <1>4 DEF Tally
    <2>3. \A t \in Shadows : spc'[t] = "ramp" => spc[t] = "ramp" /\ local'[t] = local[t]
      BY <1>4 DEF Tally, IInv, Shape
    <2> QED
      BY <2>1, <2>2, <2>3, StepsKept, PacedKept DEF IInv
  <1>5. CASE ShadowEnds(s)
    <2>1. Shape' /\ Raising' \subseteq Raising
      BY <1>5 DEF ShadowEnds, IInv, Shape, Raising, Ends, Running, Evaluating
    <2>2. compared' = compared /\ rate' = rate
      BY <1>5 DEF ShadowEnds
    <2>3. \A t \in Shadows : spc'[t] = "ramp" => spc[t] = "ramp" /\ local'[t] = local[t]
      BY <1>5 DEF ShadowEnds, IInv, Shape
    <2> QED
      BY <2>1, <2>2, <2>3, StepsKept, PacedKept DEF IInv
  <1>6. CASE LoadPhase(s)
    <2>1. Shape' /\ Raising' \subseteq Raising
      BY <1>6 DEF LoadPhase, IInv, Shape, Raising, Ends, Running, Evaluating
    <2>2. compared' = compared /\ rate' = rate
      BY <1>6 DEF LoadPhase
    <2>3. \A t \in Shadows : spc'[t] = "ramp" => spc[t] = "ramp" /\ local'[t] = local[t]
      BY <1>6 DEF LoadPhase, IInv, Shape
    <2> QED
      BY <2>1, <2>2, <2>3, StepsKept, PacedKept DEF IInv
  <1>7. CASE LoadSamples(s)
    <2>1. Shape' /\ Raising' \subseteq Raising
      BY <1>7 DEF LoadSamples, IInv, Shape, Raising, Ends, Running, Evaluating
    <2>2. compared' = compared /\ rate' = rate
      BY <1>7 DEF LoadSamples
    <2>3. \A t \in Shadows : spc'[t] = "ramp" => spc[t] = "ramp" /\ local'[t] = local[t]
      BY <1>7 DEF LoadSamples, IInv, Shape
    <2> QED
      BY <2>1, <2>2, <2>3, StepsKept, PacedKept DEF IInv
  <1>8. CASE LoadMismatches(s)
    <2>1. Shape' /\ Raising' \subseteq Raising
      BY <1>8 DEF LoadMismatches, IInv, Shape, Raising, Ends, Running, Evaluating
    <2>2. compared' = compared /\ rate' = rate
      BY <1>8 DEF LoadMismatches
    <2>3. \A t \in Shadows : spc'[t] = "ramp" => spc[t] = "ramp" /\ local'[t] = local[t]
      BY <1>8 DEF LoadMismatches, IInv, Shape
    <2> QED
      BY <2>1, <2>2, <2>3, StepsKept, PacedKept DEF IInv
  <1>9. CASE StoreReady(s)
    <2>1. Shape' /\ Raising' \subseteq Raising
      BY <1>9 DEF StoreReady, IInv, Shape, Raising, Ends, Running, Evaluating
    <2>2. compared' = compared /\ rate' = rate
      BY <1>9 DEF StoreReady
    <2>3. \A t \in Shadows : spc'[t] = "ramp" => spc[t] = "ramp" /\ local'[t] = local[t]
      BY <1>9 DEF StoreReady, IInv, Shape
    <2> QED
      BY <2>1, <2>2, <2>3, StepsKept, PacedKept DEF IInv
  <1>10. CASE StoreRamping(s)
    <2>1. Shape' /\ Raising' \subseteq Raising
      BY <1>10 DEF StoreRamping, IInv, Shape, Raising, Ends, Running, Evaluating
    <2>2. compared' = compared /\ rate' = rate
      BY <1>10 DEF StoreRamping
    <2>3. \A t \in Shadows : spc'[t] = "ramp" => spc[t] = "ramp" /\ local'[t] = local[t]
      BY <1>10 DEF StoreRamping, IInv, Shape
    <2> QED
      BY <2>1, <2>2, <2>3, StepsKept, PacedKept DEF IInv
  <1>11. CASE AbortReason(s)
    <2>1. Shape' /\ Raising' \subseteq Raising
      BY <1>11 DEF AbortReason, IInv, Shape, Raising, Ends, Running, Evaluating
    <2>2. compared' = compared /\ rate' = rate
      BY <1>11 DEF AbortReason
    <2>3. \A t \in Shadows : spc'[t] = "ramp" => spc[t] = "ramp" /\ local'[t] = local[t]
      BY <1>11 DEF AbortReason, IInv, Shape
    <2> QED
      BY <2>1, <2>2, <2>3, StepsKept, PacedKept DEF IInv
  <1>12. CASE AbortPhase(s)
    <2>1. Shape' /\ Raising' \subseteq Raising
      BY <1>12 DEF AbortPhase, IInv, Shape, Raising, Ends, Running, Evaluating
    <2>2. compared' = compared /\ rate' = rate
      BY <1>12 DEF AbortPhase
    <2>3. \A t \in Shadows : spc'[t] = "ramp" => spc[t] = "ramp" /\ local'[t] = local[t]
      BY <1>12 DEF AbortPhase, IInv, Shape
    <2> QED
      BY <2>1, <2>2, <2>3, StepsKept, PacedKept DEF IInv
  <1> QED
    BY <1>1, <1>2, <1>3, <1>4, <1>5, <1>6, <1>7, <1>8, <1>9, <1>10, <1>11, <1>12

\* A comparison adds a sample.
LEMMA CompareInv == ASSUME IInv, NEW s \in Shadows, Compare(s) PROVE IInv'
  <1> USE DEF Compare, Move
  <1>1. Shape' /\ compared' = compared + 1
    BY DEF IInv, Shape, Running, Evaluating
  <1>2. ~Ends(compared') => Raising' \subseteq Raising
    BY DEF IInv, Shape, Raising
  <1>3. \A t \in Shadows : spc'[t] = "ramp" => spc[t] = "ramp" /\ local'[t] = local[t]
    BY DEF IInv, Shape
  <1> QED
    BY <1>1, <1>2, <1>3, StepsCompared, PacedKept DEF IInv

\* The rate is loaded, and the next one kept to be stored.
LEMMA LoadRateInv == ASSUME IInv, NEW s \in Shadows, LoadRate(s) PROVE IInv'
  <1>0. Step \in Nat /\ MaxRate \in Nat
    BY GraduateAssumption
  <1>1. Shape' /\ Raising' \subseteq Raising /\ compared' = compared /\ rate' = rate
    BY <1>0 DEF LoadRate, Move, atomics, IInv, Shape, Raising, Ends, Running, Evaluating
  <1>2. Steps' >= Steps /\ Steps \in Int /\ Steps' \in Int
    BY <1>1, StepsKept, StepsType DEF IInv
  <1>3. local'[s] <= rate + Step /\ \A t \in Shadows \ {s} : local'[t] = local[t] /\ spc'[t] = spc[t]
    BY <1>0 DEF LoadRate, Move, IInv, Shape
  <1>4. ASSUME NEW t \in Shadows, spc'[t] = "ramp"
        PROVE  local'[t] <= RateAfter(Steps + 1)'
    <2>1. CASE t = s
      BY <1>0, <1>1, <1>2, <1>3, <2>1, BoundsGrow DEF IInv, Paced, Shape
    <2>2. CASE t # s
      BY <1>0, <1>1, <1>2, <1>3, <1>4, <2>2, BoundsGrow DEF IInv, Paced, Shape
    <2> QED
      BY <2>1, <2>2
  <1>5. rate' <= RateAfter(Steps)'
    BY <1>1, <1>2, BoundsGrow DEF IInv, Paced, Shape
  <1> QED
    BY <1>1, <1>4, <1>5 DEF IInv, Paced

\* The rate is stored: the evaluation has taken its step.
LEMMA StoreRateInv == ASSUME IInv, NEW s \in Shadows, StoreRate(s) PROVE IInv'
  <1>0. Step \in Nat
    BY GraduateAssumption
  <1>1. Shape' /\ Raising' \subseteq Raising /\ compared' = compared
    BY DEF StoreRate, Move, IInv, Shape, Raising, Ends, Running, Evaluating
  <1>2. s \in Raising /\ s \notin Raising'
    BY DEF StoreRate, Move, IInv, Shape, Raising
  <1>3. Steps' >= Steps + 1 /\ Steps \in Int /\ Steps' \in Int
    BY <1>1, <1>2, StepsKept, StepsType DEF IInv
  <1>4. RateAfter(Steps + 1) \in Int /\ RateAfter(Steps + 1) <= RateAfter(Steps)' /\ RateAfter(Steps)' \in Int
    <2>1. Steps + 1 \in Int
      BY <1>3
    <2>2. RateAfter(Steps)' = RateAfter(Steps')
      BY DEF RateAfter
    <2> QED
      BY <1>3, <2>1, <2>2, RateGrows
  <1>5. rate' <= RateAfter(Steps)'
    BY <1>4 DEF StoreRate, Move, IInv, Shape, Paced
  <1>6. ASSUME NEW t \in Shadows, spc'[t] = "ramp"
        PROVE  local'[t] <= RateAfter(Steps + 1)'
    <2>1. RateAfter(Steps + 1)' = RateAfter(Steps)' + Step
      BY <1>3, BoundsGrow
    <2>2. local'[t] = local[t] /\ local[t] <= RateAfter(Steps + 1) /\ local[t] \in Nat
      BY <1>6 DEF StoreRate, Move, IInv, Shape, Paced
    <2> QED
      BY <1>0, <1>4, <2>1, <2>2
  <1> QED
    BY <1>1, <1>5, <1>6 DEF IInv, Paced

\* Every step keeps the invariant.
LEMMA NextInv == IInv /\ [GraduateNext]_graduateVars => IInv'
  <1> SUFFICES ASSUME IInv, [GraduateNext]_graduateVars PROVE IInv'
    OBVIOUS
  <1>1. CASE Operating \/ UNCHANGED graduateVars
    <2>1. UNCHANGED <<spc, local, rate, compared>>
      BY <1>1 DEF Operating, Abort, Aborted, Promote, Promoted, Operator, graduateVars
    <2>2. Shape' /\ Raising' = Raising
      BY <2>1 DEF IInv, Shape, Raising, Ends
    <2> QED
      BY <2>1, <2>2, StepsKept, PacedKept DEF IInv
  <1>2. ASSUME NEW s \in Shadows, Counting(s) \/ ShadowReturns(s) \/ ShadowEnds(s)
        PROVE  IInv'
    BY <1>2, QuietInv, CompareInv, LoadRateInv, StoreRateInv DEF Counting, evaluateWindow
  <1> QED
    BY <1>1, <1>2 DEF GraduateNext

\* What the bound comes to.
LEMMA InvPaced == IInv => RampIsPaced
  <1> SUFFICES ASSUME IInv PROVE RampIsPaced
    OBVIOUS
  <1> DEFINE q == compared \div EvalWindow
  <1>1. q \in Nat /\ N \in Nat /\ Cardinality(Raising) \in Nat
    BY Windows, RaisingFinite DEF IInv, Shape
  <1>2. Steps = N * q - Cardinality(Raising)
    BY DEF Steps
  <1>3. RampIsPaced <=> rate <= StartRate + Step * N * q
    BY DEF RampIsPaced, N
  <1> HIDE DEF q
  <1>4. Steps \in Int /\ N * q \in Int /\ Steps <= N * q
    BY <1>1, <1>2
  <1>5. RateAfter(Steps) <= RateAfter(N * q) /\ RateAfter(Steps) \in Int /\ RateAfter(N * q) \in Int
    BY <1>4, RateGrows
  <1>6. RateAfter(N * q) = StartRate + Step * N * q
    BY <1>1, GraduateAssumption DEF RateAfter
  <1> QED
    BY <1>3, <1>5, <1>6 DEF IInv, Shape, Paced

\* evaluateWindow raises the rate at most once per window and shadow in flight, for any
\* number of shadows that overlap and in whatever order their loads and stores fall
\* (graduate.go).
THEOREM RampIsPacedAlways == GraduateSpec => []RampIsPaced
  BY InitInv, NextInv, InvPaced, PTL DEF GraduateSpec

-----------------------------------------------------------------------------
\* No step leaves Quiet or moves the rate in it.
LEMMA QuietStays == IInv /\ [GraduateNext]_graduateVars /\ Quiet => Quiet' /\ rate' = rate
  <1> SUFFICES ASSUME IInv, [GraduateNext]_graduateVars, Quiet PROVE Quiet' /\ rate' = rate
    OBVIOUS
  <1>1. CASE UNCHANGED graduateVars
    BY <1>1 DEF graduateVars, Quiet
  <1>2. CASE Operating
    BY <1>2 DEF Operating, Abort, Aborted, Promote, Promoted, Operator, Quiet
  <1>3. ASSUME NEW s \in Shadows, Counting(s) \/ ShadowReturns(s) \/ ShadowEnds(s)
        PROVE  Quiet' /\ rate' = rate
    <2>1. \/ Handler(s) \/ With(s) \/ ShadowReturns(s) \/ Compare(s) \/ Tally(s) \/ ShadowEnds(s)
          \/ LoadPhase(s)
      BY <1>3 DEF Counting, evaluateWindow, Quiet, Evaluating, LoadSamples, LoadMismatches,
         LoadRate, StoreReady, StoreRate, StoreRamping, AbortReason, AbortPhase, Move
    <2> QED
      BY <2>1 DEF Handler, With, ShadowReturns, Compare, Tally, ShadowEnds, LoadPhase, Move,
         atomics, Quiet, Evaluating, IInv, Shape
  <1> QED
    BY <1>1, <1>2, <1>3 DEF GraduateNext

\* Once nobody acts on a phase loaded before, an Abort of the canary is final, for any
\* number of shadows (graduate.go).
THEOREM AbortIsFinalAlways == GraduateSpec => AbortIsFinal
  <1>1. IInv /\ [GraduateNext]_graduateVars => [Quiet => Quiet' /\ rate' = rate]_graduateVars
    BY QuietStays
  <1> QED
    BY <1>1, InitInv, NextInv, PTL DEF GraduateSpec, AbortIsFinal
=============================================================================
