-------------------------- MODULE SupervisorProofs --------------------------
(***************************************************************************)
(* Proofs for Supervisor: for any limits, intervals and number of losses.   *)
(*                                                                          *)
(* That one subscription at most is live is not inductive: it has to be     *)
(* said which one that can be at each point of the loop, and what Stop has  *)
(* still to unsubscribe. That the loop gives up after MaxRetries attempts   *)
(* needs the attempts it counts to be the calls of subscribe it made.       *)
(***************************************************************************)
EXTENDS Supervisor, FiniteSetTheorems, TLAPS

\* The subscription that only the loop can reach.
InHand == IF pc \in {"install", "cleaning"} THEN {held} ELSE {}

\* The one that can be live: none while the loop waits to subscribe.
Candidates ==
    IF pc \in {"install", "cleaning"} THEN {held}
    ELSE IF pc \in {"backoff", "subscribe"} THEN {}
    ELSE {sub}

Flags == ctxDone \in BOOLEAN /\ gaveUp \in BOOLEAN

Typed ==
    /\ kind \in Kinds /\ maxRetries \in Limits
    /\ made \in Nat /\ live \subseteq Subs /\ sub \in 0..made /\ held \in 0..made /\ target \in 0..made
    /\ pc \in {"select", "backoff", "subscribe", "install", "unsubscribe",
               "cleanup", "cleaning", "run", "done"}
    /\ attempts \in 0..MaxAttempts /\ backoff \in InitialBackoff..MaxBackoff
    /\ interval \in CheckInterval..(CheckInterval + HealthyInterval)
    /\ streak \in 0..HealthyChecks
    /\ stop \in {"no", "closed", "read", "done"} /\ losses \in 0..MaxLosses

PullOnly == kind = "pull" => pc \in {"run", "backoff", "done"} /\ stop = "no"

Located == kind = "push" => pc # "run" /\ live \subseteq Candidates

\* What Stop leaves live it still has to unsubscribe, or the loop has, or it came late.
Owed ==
    kind = "push" =>
        /\ stop = "read" => live \subseteq {target} \cup late \cup InHand
        /\ stop = "done" => live \subseteq late \cup InHand
        /\ stop = "no" /\ pc = "done" => live = {}

Single == kind = "pull" => live \subseteq {1}

Counted ==
    /\ tries \in 0..MaxAttempts
    /\ maxRetries >= 0 => attempts <= maxRetries
    /\ gaveUp => /\ maxRetries >= 0 /\ tries = maxRetries
                 /\ pc \in {"cleanup", "cleaning", "done"}
    /\ kind = "pull" /\ ~gaveUp => tries = attempts
    /\ kind = "push" /\ pc \in {"select", "install", "unsubscribe"} => tries = attempts
    /\ kind = "push" /\ pc \in {"backoff", "subscribe"} => attempts = Count(tries)

IInv == Typed /\ Flags /\ PullOnly /\ Located /\ Owed /\ Single /\ Counted

-----------------------------------------------------------------------------
\* The first subscription is live and nothing has been tried.
LEMMA InitInv == Init => IInv
  <1> SUFFICES ASSUME Init PROVE IInv
    OBVIOUS
  <1>1. Flags
    BY Zenon DEF Init, Flags
  <1>2. Typed
    BY SupervisorAssumption DEF Init, Typed, Subs
  <1>3. PullOnly /\ Located /\ Owed /\ Single /\ Counted
    BY SupervisorAssumption
       DEF Init, PullOnly, Located, Owed, Single, Counted, Candidates, InHand
  <1> QED
    BY <1>1, <1>2, <1>3 DEF IInv

\* Every step of the loop, of Stop and of the environment keeps the invariant.
LEMMA NextInv == IInv /\ [Next]_vars => IInv'
  <1> SUFFICES ASSUME IInv, [Next]_vars PROVE IInv'
    OBVIOUS
  <1> USE SupervisorAssumption DEF IInv
  <1>1. CASE Cancelled
    <2>1. Flags'
      BY <1>1, Zenon DEF Cancelled, Flags, ghosts
    <2>2. Typed'
      BY <1>1 DEF Cancelled, Typed, Subs, Goto, Count, Min2, nextBackoff, OutOfRetries, config, timing, stopper
    <2>3. PullOnly' /\ Located' /\ Owed' /\ Single' /\ Counted'
      BY <1>1 DEF Cancelled, Typed, Subs, Flags, PullOnly, Located, Owed, Single, Counted,
         Candidates, InHand, Goto, Count, Min2, OutOfRetries, config, timing, stopper, ghosts
    <2> QED
      BY <2>1, <2>2, <2>3
  <1>2. CASE TickValid
    <2>1. Flags'
      BY <1>2, Zenon DEF TickValid, Flags, ghosts
    <2>2. Typed'
      BY <1>2 DEF TickValid, Typed, Subs, Goto, Count, Min2, nextBackoff, OutOfRetries, config, timing, stopper
    <2>3. PullOnly' /\ Located' /\ Owed' /\ Single' /\ Counted'
      BY <1>2 DEF TickValid, Typed, Subs, Flags, PullOnly, Located, Owed, Single, Counted,
         Candidates, InHand, Goto, Count, Min2, OutOfRetries, config, timing, stopper, ghosts
    <2> QED
      BY <2>1, <2>2, <2>3
  <1>3. CASE TickInvalid
    <2>1. Flags'
      BY <1>3, Zenon DEF TickInvalid, Flags, ghosts
    <2>2. Typed'
      BY <1>3 DEF TickInvalid, Typed, Subs, Goto, Count, Min2, nextBackoff, OutOfRetries, config, timing, stopper
    <2>3. PullOnly' /\ Located' /\ Owed' /\ Single' /\ Counted'
      BY <1>3 DEF TickInvalid, Typed, Subs, Flags, PullOnly, Located, Owed, Single, Counted,
         Candidates, InHand, Goto, Count, Min2, OutOfRetries, config, timing, stopper, ghosts
    <2> QED
      BY <2>1, <2>2, <2>3
  <1>4. CASE BackoffElapsed
    <2>1. Flags'
      BY <1>4, Zenon DEF BackoffElapsed, Flags, ghosts
    <2>2. Typed'
      BY <1>4 DEF BackoffElapsed, Typed, Subs, Goto, Count, Min2, nextBackoff, OutOfRetries, config, timing, stopper
    <2>3. PullOnly' /\ Located' /\ Owed' /\ Single' /\ Counted'
      BY <1>4 DEF BackoffElapsed, Typed, Subs, Flags, PullOnly, Located, Owed, Single, Counted,
         Candidates, InHand, Goto, Count, Min2, OutOfRetries, config, timing, stopper, ghosts
    <2> QED
      BY <2>1, <2>2, <2>3
  <1>5. CASE SubscribeOk
    <2>1. Flags'
      BY <1>5, Zenon DEF SubscribeOk, Flags, ghosts
    <2>2. Typed'
      BY <1>5 DEF SubscribeOk, Typed, Subs, Goto, Count, Min2, nextBackoff, OutOfRetries, config, timing, stopper
    <2>3. PullOnly' /\ Located' /\ Owed' /\ Single' /\ Counted'
      BY <1>5 DEF SubscribeOk, Typed, Subs, Flags, PullOnly, Located, Owed, Single, Counted,
         Candidates, InHand, Goto, Count, Min2, OutOfRetries, config, timing, stopper, ghosts
    <2> QED
      BY <2>1, <2>2, <2>3
  <1>6. CASE SubscribeFails
    <2>1. Flags'
      BY <1>6, Zenon DEF SubscribeFails, Flags, ghosts
    <2>2. Typed'
      BY <1>6 DEF SubscribeFails, Typed, Subs, Goto, Count, Min2, nextBackoff, OutOfRetries, config, timing, stopper
    <2>3. PullOnly' /\ Located' /\ Owed' /\ Single' /\ Counted'
      BY <1>6 DEF SubscribeFails, Typed, Subs, Flags, PullOnly, Located, Owed, Single, Counted,
         Candidates, InHand, Goto, Count, Min2, OutOfRetries, config, timing, stopper, ghosts
    <2> QED
      BY <2>1, <2>2, <2>3
  <1>7. CASE Install
    <2>1. Flags'
      BY <1>7, Zenon DEF Install, Flags, ghosts
    <2>2. Typed'
      BY <1>7 DEF Install, Typed, Subs, Goto, Count, Min2, nextBackoff, OutOfRetries, config, timing, stopper
    <2>3. PullOnly' /\ Located' /\ Owed' /\ Single' /\ Counted'
      BY <1>7 DEF Install, Typed, Subs, Flags, PullOnly, Located, Owed, Single, Counted,
         Candidates, InHand, Goto, Count, Min2, OutOfRetries, config, timing, stopper, ghosts
    <2> QED
      BY <2>1, <2>2, <2>3
  <1>8. CASE UnsubscribeOld
    <2>1. Flags'
      BY <1>8, Zenon DEF UnsubscribeOld, Flags, ghosts
    <2>2. Typed'
      BY <1>8 DEF UnsubscribeOld, Typed, Subs, Goto, Count, Min2, nextBackoff, OutOfRetries, config, timing, stopper
    <2>3. PullOnly' /\ Located' /\ Owed' /\ Single' /\ Counted'
      BY <1>8 DEF UnsubscribeOld, Typed, Subs, Flags, PullOnly, Located, Owed, Single, Counted,
         Candidates, InHand, Goto, Count, Min2, OutOfRetries, config, timing, stopper, ghosts
    <2> QED
      BY <2>1, <2>2, <2>3
  <1>9. CASE CleanupTake
    <2>1. Flags'
      BY <1>9, Zenon DEF CleanupTake, Flags, ghosts
    <2>2. Typed'
      BY <1>9 DEF CleanupTake, Typed, Subs, Goto, Count, Min2, nextBackoff, OutOfRetries, config, timing, stopper
    <2>3. PullOnly' /\ Located' /\ Owed' /\ Single' /\ Counted'
      BY <1>9 DEF CleanupTake, Typed, Subs, Flags, PullOnly, Located, Owed, Single, Counted,
         Candidates, InHand, Goto, Count, Min2, OutOfRetries, config, timing, stopper, ghosts
    <2> QED
      BY <2>1, <2>2, <2>3
  <1>10. CASE CleanupUnsubscribe
    <2>1. Flags'
      BY <1>10, Zenon DEF CleanupUnsubscribe, Flags, ghosts
    <2>2. Typed'
      BY <1>10 DEF CleanupUnsubscribe, Typed, Subs, Goto, Count, Min2, nextBackoff, OutOfRetries, config, timing, stopper
    <2>3. PullOnly' /\ Located' /\ Owed' /\ Single' /\ Counted'
      BY <1>10 DEF CleanupUnsubscribe, Typed, Subs, Flags, PullOnly, Located, Owed, Single, Counted,
         Candidates, InHand, Goto, Count, Min2, OutOfRetries, config, timing, stopper, ghosts
    <2> QED
      BY <2>1, <2>2, <2>3
  <1>11. CASE RunReturns
    <2>1. Flags'
      BY <1>11, Zenon DEF RunReturns, Flags, ghosts
    <2>2. Typed'
      BY <1>11 DEF RunReturns, Typed, Subs, Goto, Count, Min2, nextBackoff, OutOfRetries, config, timing, stopper
    <2>3. PullOnly' /\ Located' /\ Owed' /\ Single' /\ Counted'
      BY <1>11 DEF RunReturns, Typed, Subs, Flags, PullOnly, Located, Owed, Single, Counted,
         Candidates, InHand, Goto, Count, Min2, OutOfRetries, config, timing, stopper, ghosts
    <2> QED
      BY <2>1, <2>2, <2>3
  <1>12. CASE RunFails
    <2>1. Flags'
      BY <1>12, Zenon DEF RunFails, Flags, ghosts
    <2>2. Typed'
      BY <1>12 DEF RunFails, Typed, Subs, Goto, Count, Min2, nextBackoff, OutOfRetries, config, timing, stopper
    <2>3. PullOnly' /\ Located' /\ Owed' /\ Single' /\ Counted'
      BY <1>12 DEF RunFails, Typed, Subs, Flags, PullOnly, Located, Owed, Single, Counted,
         Candidates, InHand, Goto, Count, Min2, OutOfRetries, config, timing, stopper, ghosts
    <2> QED
      BY <2>1, <2>2, <2>3
  <1>13. CASE RunAgain
    <2>1. Flags'
      BY <1>13, Zenon DEF RunAgain, Flags, ghosts
    <2>2. Typed'
      BY <1>13 DEF RunAgain, Typed, Subs, Goto, Count, Min2, nextBackoff, OutOfRetries, config, timing, stopper
    <2>3. PullOnly' /\ Located' /\ Owed' /\ Single' /\ Counted'
      BY <1>13 DEF RunAgain, Typed, Subs, Flags, PullOnly, Located, Owed, Single, Counted,
         Candidates, InHand, Goto, Count, Min2, OutOfRetries, config, timing, stopper, ghosts
    <2> QED
      BY <2>1, <2>2, <2>3
  <1>14. CASE StopClose
    <2>1. Flags'
      BY <1>14, Zenon DEF StopClose, Flags, ghosts
    <2>2. Typed'
      BY <1>14 DEF StopClose, Typed, Subs, Goto, Count, Min2, nextBackoff, OutOfRetries, config, timing, stopper
    <2>3. PullOnly' /\ Located' /\ Owed' /\ Single' /\ Counted'
      BY <1>14 DEF StopClose, Typed, Subs, Flags, PullOnly, Located, Owed, Single, Counted,
         Candidates, InHand, Goto, Count, Min2, OutOfRetries, config, timing, stopper, ghosts
    <2> QED
      BY <2>1, <2>2, <2>3
  <1>15. CASE StopRead
    <2>1. Flags'
      BY <1>15, Zenon DEF StopRead, Flags, ghosts
    <2>2. Typed'
      BY <1>15 DEF StopRead, Typed, Subs, Goto, Count, Min2, nextBackoff, OutOfRetries, config, timing, stopper
    <2>3. PullOnly' /\ Located' /\ Owed' /\ Single' /\ Counted'
      BY <1>15 DEF StopRead, Typed, Subs, Flags, PullOnly, Located, Owed, Single, Counted,
         Candidates, InHand, Goto, Count, Min2, OutOfRetries, config, timing, stopper, ghosts
    <2> QED
      BY <2>1, <2>2, <2>3
  <1>16. CASE StopUnsubscribe
    <2>1. Flags'
      BY <1>16, Zenon DEF StopUnsubscribe, Flags, ghosts
    <2>2. Typed'
      BY <1>16 DEF StopUnsubscribe, Typed, Subs, Goto, Count, Min2, nextBackoff, OutOfRetries, config, timing, stopper
    <2>3. PullOnly' /\ Located' /\ Owed' /\ Single' /\ Counted'
      BY <1>16 DEF StopUnsubscribe, Typed, Subs, Flags, PullOnly, Located, Owed, Single, Counted,
         Candidates, InHand, Goto, Count, Min2, OutOfRetries, config, timing, stopper, ghosts
    <2> QED
      BY <2>1, <2>2, <2>3
  <1>17. CASE Cancel
    <2>1. Flags'
      BY <1>17, Zenon DEF Cancel, Flags, ghosts
    <2>2. Typed'
      BY <1>17 DEF Cancel, Typed, Subs, Goto, Count, Min2, nextBackoff, OutOfRetries, config, timing, stopper
    <2>3. PullOnly' /\ Located' /\ Owed' /\ Single' /\ Counted'
      BY <1>17 DEF Cancel, Typed, Subs, Flags, PullOnly, Located, Owed, Single, Counted,
         Candidates, InHand, Goto, Count, Min2, OutOfRetries, config, timing, stopper, ghosts
    <2> QED
      BY <2>1, <2>2, <2>3
  <1>18. CASE Lose
    <2>1. Flags'
      BY <1>18, Zenon DEF Lose, Flags, ghosts
    <2>2. Typed'
      BY <1>18 DEF Lose, Typed, Subs, Goto, Count, Min2, nextBackoff, OutOfRetries, config, timing, stopper
    <2>3. PullOnly' /\ Located' /\ Owed' /\ Single' /\ Counted'
      BY <1>18 DEF Lose, Typed, Subs, Flags, PullOnly, Located, Owed, Single, Counted,
         Candidates, InHand, Goto, Count, Min2, OutOfRetries, config, timing, stopper, ghosts
    <2> QED
      BY <2>1, <2>2, <2>3
  <1>19. CASE UNCHANGED vars
    <2>1. Flags'
      BY <1>19, Zenon DEF vars, ghosts, Flags
    <2>2. Typed' /\ PullOnly' /\ Located' /\ Owed' /\ Single' /\ Counted'
      BY <1>19 DEF Typed, Subs, PullOnly, Located, Owed, Single, Counted,
         Candidates, InHand, vars, config, timing, stopper, ghosts
    <2> QED
      BY <2>1, <2>2
  <1> QED
    BY <1>1, <1>2, <1>3, <1>4, <1>5, <1>6, <1>7, <1>8, <1>9, <1>10, <1>11, <1>12, <1>13, <1>14, <1>15, <1>16, <1>17, <1>18, <1>19
       DEF Next, loop, SupervisePullProcess, Stop

\* At most one of the candidates is live, and it is accounted for at the end.
LEMMA InvOneLive == IInv => OneLive
  <1> SUFFICES ASSUME IInv PROVE OneLive
    OBVIOUS
  <1>1. \E s : live \subseteq {s}
    BY SupervisorAssumption DEF IInv, Typed, Located, Single, Candidates
  <1>2. live = {} \/ \E s : live = {s}
    BY <1>1
  <1>3. Cardinality(live) <= 1
    <2>1. CASE live = {}
      <3>1. Cardinality(live) = 0
        BY <2>1, FS_EmptySet
      <3> QED
        BY <3>1
    <2>2. CASE \E s : live = {s}
      <3>1. Cardinality(live) = 1
        BY <2>2, FS_Singleton
      <3> QED
        BY <3>1
    <2> QED
      BY <1>2, <2>1, <2>2
  <1>4. kind = "push" /\ pc = "done" /\ stop \in {"no", "done"} => live \subseteq late
    BY DEF IInv, Owed, InHand
  <1> QED
    BY <1>3, <1>4 DEF OneLive

\* The types of the supervisor's state (supervisor.go): in particular the backoff stays
\* between InitialBackoff and MaxBackoff and the poll interval below its bound.
THEOREM TypeCorrect == Spec => []TypeOK
  <1>1. IInv => TypeOK
    BY DEF IInv, Typed, Flags, TypeOK
  <1> QED
    BY <1>1, InitInv, NextInv, PTL DEF Spec

\* Supervise never has two live subscriptions, and after its loop and Stop have returned
\* it leaves none but one that came too late for Stop, whatever its limits and however
\* often interest is lost.
THEOREM NeverTwoLive == Spec => []OneLive
  BY InitInv, NextInv, InvOneLive, PTL DEF Spec

\* Supervise and SupervisePullProcess give up only after exactly MaxRetries attempts,
\* for every limit.
THEOREM GiveUpIsCounted == Spec => []GivesUpAfterRetries
  <1>1. IInv => GivesUpAfterRetries
    BY DEF IInv, Counted, GivesUpAfterRetries
  <1> QED
    BY <1>1, InitInv, NextInv, PTL DEF Spec
=============================================================================
