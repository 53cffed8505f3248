------------------------- MODULE PushDeliverySteps --------------------------
(***************************************************************************)
(* The inductive invariant of the push consumer, piece by piece, and what   *)
(* each step does to each piece. PushDeliveryProofs puts them together.     *)
(***************************************************************************)
EXTENDS PushDelivery, Integers, TLAPS

\* What the proofs need of the types.
Shape ==
    /\ server \in [Msgs -> {"ready", "sent", "acked", "termed"}]
    /\ delivered \in [Msgs -> 0..MaxDeliver + 1] /\ attempts \in [Msgs -> 0..MaxDeliver]
    /\ queue \in Seq(Deliveries) /\ dlq \subseteq Msgs
    /\ pc \in [Actors -> {"idle", "check", "publish", "send", "taken", "process",
                          "handler", "route", "term", "ack", "nak"}]
    /\ job \in [Actors -> Deliveries \cup {None}]
    /\ \A a \in Actors : pc[a] = "idle" <=> job[a] = None

\* SettledIsAccounted, and the reason is there before the call that settles.
Accounted ==
    /\ SettledIsAccounted
    /\ \A a \in Actors :
        /\ pc[a] = "ack" => job[a].msg \in handled
        /\ pc[a] = "term" => job[a].msg \in dlq

\* The actors that a unit of depth stands for.
InHand == {a \in Actors : pc[a] \in {"send", "taken"}}

\* With a patient server at most one delivery of a message is in the client, it
\* is the latest, and the server does not offer the message meanwhile.
OneDelivery ==
    /\ \A a, b \in Actors : a # b /\ job[a] # None /\ job[b] # None => job[a].msg # job[b].msg
    /\ \A a \in Actors, i \in 1..Len(queue) : job[a] # None => job[a].msg # queue[i].msg
    /\ \A i, j \in 1..Len(queue) : i # j => queue[i].msg # queue[j].msg
    /\ \A a \in Actors : job[a] # None =>
        /\ job[a].n = delivered[job[a].msg] /\ server[job[a].msg] # "ready"
    /\ \A i \in 1..Len(queue) :
        /\ queue[i].n = delivered[queue[i].msg] /\ server[queue[i].msg] # "ready"

\* Every delivery that has come and gone was an attempt. (A stopped pool
\* refuses deliveries without one, and then no later one reaches a handler.)
Gone ==
    \A m \in Msgs \ corrupt :
        poolUp /\ ~Held(m) => attempts[m] >= delivered[m] \/ attempts[m] = MaxDeliver

\* So was every one before a delivery that waits for its handler ...
Waiting ==
    \A i \in 1..Len(queue) :
        queue[i].msg \notin corrupt => attempts[queue[i].msg] >= queue[i].n - 1

\* ... and the delivery in hand itself, once its handler has run.
UnderwayAt(a) ==
    /\ pc[a] # "idle" /\ job[a].msg \notin corrupt =>
        /\ \/ pc[a] \in {"check", "publish"} /\ poolUp
           \/ pc[a] \in {"send", "taken", "process", "handler"}
           => attempts[job[a].msg] >= job[a].n - 1
        /\ pc[a] \in {"route", "ack", "nak", "term"} =>
           attempts[job[a].msg] >= job[a].n \/ attempts[job[a].msg] = MaxDeliver
    /\ pc[a] \in {"handler", "route", "ack", "term"} => job[a].msg \notin corrupt
    /\ pc[a] = "route" => job[a].n > MaxDeliver \/ job[a].msg \in asked

Underway == \A a \in Actors : UnderwayAt(a)

Counted ==
    /\ Gone /\ Waiting /\ Underway /\ NHandlerAttempts
    /\ mode = "inline" => poolUp

\* The modes of BlockAllowsNAttempts.
Undisturbed == mode \in {"block", "inline"} /\ patient

IInv ==
    /\ Shape /\ Accounted /\ DepthIsQueued
    /\ Undisturbed => OneDelivery /\ Counted
-----------------------------------------------------------------------------
(* Sequences *)

LEMMA AppendIs ==
    ASSUME NEW S, NEW q \in Seq(S), NEW e \in S
    PROVE  /\ Append(q, e) \in Seq(S) /\ Len(Append(q, e)) = Len(q) + 1 /\ Len(q) \in Nat
           /\ \A i \in 1..Len(q) : Append(q, e)[i] = q[i]
           /\ Append(q, e)[Len(q) + 1] = e
  BY SMTT(30)

LEMMA TailIs ==
    ASSUME NEW S, NEW q \in Seq(S), q # <<>>
    PROVE  /\ Tail(q) \in Seq(S) /\ Len(q) \in Nat \ {0} /\ Len(Tail(q)) = Len(q) - 1
           /\ \A i \in 1..Len(q) - 1 : Tail(q)[i] = q[i + 1]
           /\ Head(q) = q[1] /\ q[1] \in S
  OBVIOUS

-----------------------------------------------------------------------------
(* Types *)

\* A delivery is not None.
LEMMA JobType ==
    ASSUME Shape, NEW a \in Actors, job[a] # None
    PROVE  job[a].msg \in Msgs /\ job[a].n \in 1..MaxDeliver + 1
  BY DEF Shape, Deliveries

LEMMA NoneIsNone == None \notin Deliveries
  BY DeliveryAssumption DEF Deliveries

\* An actor that goes on with its delivery, or lets it go.
LEMMA GotoShape ==
    ASSUME Shape, NEW a \in Actors, job' = job, pc[a] # "idle",
           \E to \in {"check", "publish", "send", "process", "handler", "route", "term", "ack", "nak"} :
               pc' = [pc EXCEPT ![a] = to]
    PROVE  /\ pc' \in [Actors -> {"idle", "check", "publish", "send", "taken", "process",
                          "handler", "route", "term", "ack", "nak"}]
           /\ job' \in [Actors -> Deliveries \cup {None}]
           /\ \A b \in Actors : pc'[b] = "idle" <=> job'[b] = None
  BY DEF Shape

LEMMA FinishShape ==
    ASSUME Shape, NEW a \in Actors, Finish(a)
    PROVE  /\ pc' \in [Actors -> {"idle", "check", "publish", "send", "taken", "process",
                          "handler", "route", "term", "ack", "nak"}]
           /\ job' \in [Actors -> Deliveries \cup {None}]
           /\ \A b \in Actors : pc'[b] = "idle" <=> job'[b] = None
  BY DEF Shape, Finish

LEMMA SettleShape ==
    ASSUME Shape, NEW m \in Msgs, NEW outcome \in {"ready", "acked", "termed"}, Settle(m, outcome)
    PROVE  server' \in [Msgs -> {"ready", "sent", "acked", "termed"}]
  BY DEF Shape, Settle

\* A handler run is counted for its message.
LEMMA HandlerCounts ==
    ASSUME Shape, NEW a \in Actors, Handler(a)
    PROVE  LET m == job[a].msg IN
           /\ m \in Msgs /\ attempts' \in [Msgs -> 0..MaxDeliver]
           /\ attempts'[m] = attempts[m] + 1 \/ attempts'[m] = MaxDeliver
           /\ attempts[m] <= attempts'[m]
           /\ \A x \in Msgs \ {m} : attempts'[x] = attempts[x]
  <1>1. job[a] # None
    BY DEF Handler, Goto, Shape
  <1>2. job[a].msg \in Msgs /\ MaxDeliver \in Nat
    BY <1>1, JobType, DeliveryAssumption
  <1>3. attempts' = [attempts EXCEPT ![job[a].msg] = Min2(attempts[job[a].msg] + 1, MaxDeliver)]
    BY DEF Handler
  <1> QED
    BY <1>2, <1>3 DEF Min2, Shape

LEMMA ShapeKept == ASSUME Shape, [Next]_vars PROVE Shape'
  <1> USE DeliveryAssumption
  <1>1. ASSUME NEW m \in Msgs, AckWait(m) PROVE Shape'
    BY <1>1 DEF AckWait, Shape, ghosts, pool
  <1>2. ASSUME NEW m \in Msgs, NEW k \in Callbacks, Deliver(k, m) PROVE Shape'
    <2>1. k \in Actors
      BY DEF Actors
    <2>2. delivered' \in [Msgs -> 0..MaxDeliver + 1] /\ delivered'[m] \in 1..MaxDeliver + 1
      BY <1>2 DEF Deliver, Shape, Min2
    <2>3. [msg |-> m, n |-> delivered'[m]] \in Deliveries
      BY <2>2 DEF Deliveries
    <2> QED
      BY <1>2, <2>1, <2>2, <2>3, NoneIsNone DEF Deliver, Shape, ghosts, pool
  <1>3. ASSUME NEW k \in Callbacks, wrapHandler(k) PROVE Shape'
    <2>1. k \in Actors
      BY DEF Actors
    <2>2. CASE CheckRoom(k)
      BY <2>1, <2>2, GotoShape, FinishShape DEF CheckRoom, Goto, Shape, ghosts, pool
    <2>3. CASE CheckBlock(k)
      BY <2>1, <2>3, GotoShape DEF CheckBlock, Goto, Shape, ghosts, pool
    <2>4. CASE CheckNak(k)
      <3>1. job[k] # None
        BY <2>1, <2>4 DEF CheckNak, PoolFull, Shape
      <3>2. server' \in [Msgs -> {"ready", "sent", "acked", "termed"}]
        BY <2>1, <2>4, <3>1, JobType, SettleShape DEF CheckNak, Shape
      <3> QED
        BY <2>1, <2>4, <3>2, FinishShape DEF CheckNak, Shape, ghosts, pool
    <2>5. CASE CheckTerm(k)
      <3>1. job[k] # None
        BY <2>1, <2>5 DEF CheckTerm, PoolFull, Shape
      <3>2. server' \in [Msgs -> {"ready", "sent", "acked", "termed"}]
        BY <2>1, <2>5, <3>1, JobType, SettleShape DEF CheckTerm, Shape
      <3> QED
        BY <2>1, <2>5, <3>2, FinishShape DEF CheckTerm, Shape, pool
    <2>6. CASE Publish(k)
      BY <2>1, <2>6, GotoShape, FinishShape DEF Publish, Goto, Shape, ghosts
    <2>7. CASE Send(k)
      <3>1. job[k] \in Deliveries
        BY <2>1, <2>7 DEF Send, Shape
      <3>2. queue' \in Seq(Deliveries)
        BY <2>7, <3>1, AppendIs DEF Send, Shape
      <3> QED
        BY <2>1, <2>7, <3>2, FinishShape DEF Send, Shape, ghosts
    <2>8. CASE SendFails(k)
      BY <2>1, <2>8, GotoShape, FinishShape DEF SendFails, Goto, Shape, ghosts
    <2> QED
      BY <1>3, <2>2, <2>3, <2>4, <2>5, <2>6, <2>7, <2>8 DEF wrapHandler
  <1>4. ASSUME NEW w \in Workers, Take(w) PROVE Shape'
    <2>1. w \in Actors
      BY DEF Actors
    <2>2. Head(queue) \in Deliveries /\ queue' \in Seq(Deliveries)
      BY <1>4, TailIs DEF Take, Shape
    <2> QED
      BY <1>4, <2>1, <2>2, NoneIsNone DEF Take, Shape, ghosts
  <1>5. ASSUME NEW w \in Workers, Start(w) PROVE Shape'
    BY <1>5, GotoShape DEF Start, Goto, Shape, ghosts, Actors
  <1>6. ASSUME NEW a \in Actors, processMessage(a) PROVE Shape'
    <2>0. pc[a] # "idle" /\ job[a] # None
      BY <1>6 DEF processMessage, Dispatch, Handler, Route, Term, Ack, Nak, Goto, Shape
    <2>1. CASE Dispatch(a)
      BY <2>0, <2>1, GotoShape DEF Dispatch, Goto, Shape, ghosts, pool
    <2>2. CASE Handler(a)
      <3>1. attempts' \in [Msgs -> 0..MaxDeliver]
        BY <2>2, HandlerCounts
      <3> QED
        BY <2>0, <2>2, <3>1, GotoShape DEF Handler, Goto, Shape, pool
    <2>3. CASE Route(a)
      BY <2>0, <2>3, JobType, GotoShape DEF Route, Goto, Shape, ghosts, pool
    <2>4. CASE Term(a)
      BY <2>0, <2>4, JobType, SettleShape, FinishShape DEF Term, Shape, ghosts, pool
    <2>5. CASE Ack(a)
      BY <2>0, <2>5, JobType, SettleShape, FinishShape DEF Ack, Shape, ghosts, pool
    <2>6. CASE Nak(a)
      BY <2>0, <2>6, JobType, SettleShape, FinishShape DEF Nak, Shape, ghosts, pool
    <2> QED
      BY <1>6, <2>1, <2>2, <2>3, <2>4, <2>5, <2>6 DEF processMessage
  <1>7. CASE Stop
    BY <1>7 DEF Stop, Shape, ghosts
  <1>8. CASE UNCHANGED vars
    BY <1>8 DEF vars, Shape, ghosts, pool
  <1> QED
    BY <1>1, <1>2, <1>3, <1>4, <1>5, <1>6, <1>7, <1>8 DEF Next
-----------------------------------------------------------------------------
(* No message is settled without a reason *)

LEMMA AccountedKept == ASSUME Shape, Accounted, [Next]_vars PROVE Accounted'
  <1>1. ASSUME NEW m \in Msgs, AckWait(m) PROVE Accounted'
    BY <1>1 DEF AckWait, Shape, ghosts, config, Accounted, SettledIsAccounted
  <1>2. ASSUME NEW m \in Msgs, NEW k \in Callbacks, Deliver(k, m) PROVE Accounted'
    <2>1. k \in Actors /\ pc'[k] \in {"process", "publish", "check"}
      BY <1>2 DEF Deliver, Shape, Actors
    <2>2. \A a \in Actors \ {k} : pc'[a] = pc[a] /\ job'[a] = job[a]
      BY <1>2, <2>1 DEF Deliver, Shape
    <2>3. SettledIsAccounted'
      BY <1>2 DEF Deliver, Shape, ghosts, config, Accounted, SettledIsAccounted
    <2> QED
      BY <1>2, <2>1, <2>2, <2>3 DEF Accounted, Deliver, ghosts
  <1>3. ASSUME NEW k \in Callbacks, wrapHandler(k) PROVE Accounted'
    <2>1. k \in Actors
      BY DEF Actors
    <2>2. CASE CheckRoom(k)
      BY <2>1, <2>2 DEF CheckRoom, Goto, Finish, Shape, ghosts, config, Accounted, SettledIsAccounted
    <2>3. CASE CheckBlock(k)
      BY <2>1, <2>3 DEF CheckBlock, Goto, Shape, ghosts, config, Accounted, SettledIsAccounted
    <2>4. CASE CheckNak(k)
      BY <2>1, <2>4 DEF CheckNak, Finish, Settle, Shape, ghosts, config, Accounted, SettledIsAccounted
    <2>5. CASE CheckTerm(k)
      BY <2>1, <2>5 DEF CheckTerm, PoolFull, Finish, Settle, Shape, config, Accounted, SettledIsAccounted
    <2>6. CASE Publish(k)
      BY <2>1, <2>6 DEF Publish, Goto, Finish, Shape, ghosts, config, Accounted, SettledIsAccounted
    <2>7. CASE Send(k)
      BY <2>1, <2>7 DEF Send, Finish, Shape, ghosts, config, Accounted, SettledIsAccounted
    <2>8. CASE SendFails(k)
      BY <2>1, <2>8 DEF SendFails, Goto, Finish, Shape, ghosts, config, Accounted, SettledIsAccounted
    <2> QED
      BY <1>3, <2>2, <2>3, <2>4, <2>5, <2>6, <2>7, <2>8 DEF wrapHandler
  <1>4. ASSUME NEW w \in Workers, Take(w) \/ Start(w) PROVE Accounted'
    BY <1>4 DEF Take, Start, Goto, Shape, Actors, ghosts, config, Accounted, SettledIsAccounted
  <1>5. ASSUME NEW a \in Actors, processMessage(a) PROVE Accounted'
    <2>1. CASE Dispatch(a)
      BY <2>1 DEF Dispatch, Goto, Shape, ghosts, config, Accounted, SettledIsAccounted
    <2>2. CASE Handler(a)
      BY <2>2 DEF Handler, Goto, Shape, config, Accounted, SettledIsAccounted
    <2>3. CASE Route(a)
      BY <2>3 DEF Route, Goto, Shape, ghosts, config, Accounted, SettledIsAccounted
    <2>4. CASE Term(a)
      BY <2>4 DEF Term, Finish, Settle, Shape, ghosts, config, Accounted, SettledIsAccounted
    <2>5. CASE Ack(a)
      BY <2>5 DEF Ack, Finish, Settle, Shape, ghosts, config, Accounted, SettledIsAccounted
    <2>6. CASE Nak(a)
      BY <2>6 DEF Nak, Finish, Settle, Shape, ghosts, config, Accounted, SettledIsAccounted
    <2> QED
      BY <1>5, <2>1, <2>2, <2>3, <2>4, <2>5, <2>6 DEF processMessage
  <1>6. CASE Stop
    BY <1>6 DEF Stop, Accounted, SettledIsAccounted, ghosts, config
  <1>7. CASE UNCHANGED vars
    BY <1>7 DEF vars, Accounted, SettledIsAccounted, ghosts, config
  <1> QED
    BY <1>1, <1>2, <1>3, <1>4, <1>5, <1>6, <1>7 DEF Next

-----------------------------------------------------------------------------
(* One delivery of a message at a time *)

LEMMA QueueType ==
    ASSUME Shape
    PROVE  /\ Len(queue) \in Nat /\ DOMAIN queue = 1..Len(queue)
           /\ \A i \in 1..Len(queue) : queue[i].msg \in Msgs /\ queue[i].n \in 1..MaxDeliver + 1
  <1>1. queue \in Seq(Deliveries)
    BY DEF Shape
  <1>2. Len(queue) \in Nat /\ DOMAIN queue = 1..Len(queue) /\ \A i \in 1..Len(queue) : queue[i] \in Deliveries
    BY <1>1
  <1> QED
    BY <1>2 DEF Deliveries

\* Nothing is queued and nothing new is in hand, and the server is offered
\* again only what leaves the client.
LEMMA OneKept ==
    ASSUME Shape, OneDelivery, queue' = queue, delivered' = delivered,
           \A a \in Actors : job'[a] \in {job[a], None},
           \A m \in Msgs : server'[m] = "ready" =>
               \/ server[m] = "ready"
               \/ \E a \in Actors : job[a] # None /\ job'[a] = None /\ job[a].msg = m
    PROVE  OneDelivery'
  <1>1. \A a, b \in Actors : a # b /\ job'[a] # None /\ job'[b] # None => job'[a].msg # job'[b].msg
    BY DEF OneDelivery
  <1>2. \A a \in Actors, i \in 1..Len(queue') : job'[a] # None => job'[a].msg # queue'[i].msg
    BY DEF OneDelivery
  <1>3. ASSUME NEW a \in Actors, job'[a] # None
        PROVE  job'[a].n = delivered'[job'[a].msg] /\ server'[job'[a].msg] # "ready"
    BY <1>3, JobType DEF OneDelivery
  <1>4. ASSUME NEW i \in 1..Len(queue')
        PROVE  queue'[i].n = delivered'[queue'[i].msg] /\ server'[queue'[i].msg] # "ready"
    BY <1>4, QueueType DEF OneDelivery
  <1> QED
    BY <1>1, <1>2, <1>3, <1>4 DEF OneDelivery

LEMMA OneDeliver ==
    ASSUME Shape, OneDelivery, NEW m \in Msgs, NEW k \in Callbacks, Deliver(k, m)
    PROVE  OneDelivery'
  <1>1. k \in Actors /\ job' = [job EXCEPT ![k] = [msg |-> m, n |-> delivered'[m]]]
    BY DEF Deliver, Actors
  <1>2. /\ job'[k].msg = m /\ job'[k].n = delivered'[m]
        /\ \A a \in Actors \ {k} : job'[a] = job[a]
    BY <1>1 DEF Shape
  <1>3. queue' = queue /\ server[m] = "ready" /\ server'[m] = "sent"
    BY DEF Deliver, Shape, pool
  <1>4. \A x \in Msgs \ {m} : server'[x] = server[x] /\ delivered'[x] = delivered[x]
    BY DEF Deliver, Shape
  <1>5. /\ \A a \in Actors : job[a] # None => job[a].msg \in Msgs \ {m}
        /\ \A i \in 1..Len(queue) : queue[i].msg \in Msgs \ {m}
    BY <1>3, JobType, QueueType DEF OneDelivery
  <1> HIDE DEF Deliver
  <1> QED
    BY <1>1, <1>2, <1>3, <1>4, <1>5 DEF OneDelivery

LEMMA OneSend ==
    ASSUME Shape, OneDelivery, NEW k \in Callbacks, Send(k)
    PROVE  OneDelivery'
  <1>1. /\ k \in Actors /\ job[k] # None /\ job'[k] = None
        /\ \A a \in Actors \ {k} : job'[a] = job[a]
        /\ job[k] \in Deliveries /\ queue \in Seq(Deliveries)
    BY DEF Send, Finish, Shape, Actors
  <1>2. /\ Len(queue') = Len(queue) + 1 /\ Len(queue) \in Nat
        /\ \A i \in 1..Len(queue) : queue'[i] = queue[i]
        /\ queue'[Len(queue) + 1] = job[k]
    BY <1>1, AppendIs DEF Send
  <1>3. server' = server /\ delivered' = delivered
    BY DEF Send
  <1>4. \A i \in 1..Len(queue') : i \in 1..Len(queue) \/ i = Len(queue) + 1
    BY <1>2
  <1> HIDE DEF Send
  <1>5. \A a \in Actors, i \in 1..Len(queue') : job'[a] # None => job'[a].msg # queue'[i].msg
    BY <1>1, <1>2, <1>4 DEF OneDelivery
  <1>6. \A i, j \in 1..Len(queue') : i # j => queue'[i].msg # queue'[j].msg
    BY <1>1, <1>2, <1>4 DEF OneDelivery
  <1>7. \A i \in 1..Len(queue') :
            queue'[i].n = delivered'[queue'[i].msg] /\ server'[queue'[i].msg] # "ready"
    BY <1>1, <1>2, <1>3, <1>4 DEF OneDelivery
  <1>8. \A a, b \in Actors : a # b /\ job'[a] # None /\ job'[b] # None => job'[a].msg # job'[b].msg
    BY <1>1 DEF OneDelivery
  <1>9. \A a \in Actors : job'[a] # None =>
            job'[a].n = delivered'[job'[a].msg] /\ server'[job'[a].msg] # "ready"
    BY <1>1, <1>3 DEF OneDelivery
  <1> QED
    BY <1>5, <1>6, <1>7, <1>8, <1>9 DEF OneDelivery

LEMMA OneTake ==
    ASSUME Shape, OneDelivery, NEW w \in Workers, Take(w)
    PROVE  OneDelivery'
  <1>1. queue \in Seq(Deliveries) /\ queue # <<>>
    BY DEF Take, Shape
  <1>2. /\ w \in Actors /\ job'[w] = queue[1]
        /\ \A a \in Actors \ {w} : job'[a] = job[a]
    BY <1>1, TailIs DEF Take, Shape, Actors
  <1>3. /\ Len(queue) \in Nat \ {0} /\ Len(queue') = Len(queue) - 1
        /\ \A i \in 1..Len(queue') : queue'[i] = queue[i + 1]
    BY <1>1, TailIs DEF Take
  <1>4. server' = server /\ delivered' = delivered
    BY DEF Take
  <1>5. /\ 1 \in 1..Len(queue)
        /\ \A i \in 1..Len(queue') : i + 1 \in 1..Len(queue) /\ i + 1 # 1
        /\ \A i, j \in 1..Len(queue') : i # j => i + 1 # j + 1
    BY <1>3
  <1>6. ASSUME NEW i \in 1..Len(queue')
        PROVE  /\ \A a \in Actors : job'[a] # None => job'[a].msg # queue'[i].msg
               /\ \A j \in 1..Len(queue') : i # j => queue'[i].msg # queue'[j].msg
    <2>1. i + 1 \in 1..Len(queue) /\ i + 1 # 1 /\ queue'[i] = queue[i + 1]
      BY <1>3, <1>5
    <2>2. \A a \in Actors : job'[a] # None => job'[a].msg # queue'[i].msg
      BY <1>2, <1>5, <2>1 DEF OneDelivery
    <2>3. ASSUME NEW j \in 1..Len(queue'), i # j PROVE queue'[i].msg # queue'[j].msg
      <3>1. j + 1 \in 1..Len(queue) /\ i + 1 # j + 1 /\ queue'[j] = queue[j + 1]
        BY <1>3, <1>5, <2>3
      <3> QED
        BY <2>1, <3>1 DEF OneDelivery
    <2> QED
      BY <2>2, <2>3
  <1>7. \A a, b \in Actors : a # b /\ job'[a] # None /\ job'[b] # None => job'[a].msg # job'[b].msg
    BY <1>2, <1>5 DEF OneDelivery
  <1>8. \A a \in Actors : job'[a] # None =>
            job'[a].n = delivered'[job'[a].msg] /\ server'[job'[a].msg] # "ready"
    BY <1>2, <1>4, <1>5 DEF OneDelivery
  <1>9. \A i \in 1..Len(queue') :
            queue'[i].n = delivered'[queue'[i].msg] /\ server'[queue'[i].msg] # "ready"
    BY <1>3, <1>4, <1>5 DEF OneDelivery
  <1> QED
    BY <1>6, <1>7, <1>8, <1>9 DEF OneDelivery

LEMMA OneDeliveryKept ==
    ASSUME Shape, Undisturbed, OneDelivery, [Next]_vars
    PROVE  OneDelivery'
  <1>1. ASSUME NEW m \in Msgs, AckWait(m) PROVE OneDelivery'
    <2>1. ~Held(m) /\ queue' = queue /\ job' = job /\ delivered' = delivered
      BY <1>1 DEF AckWait, Undisturbed, pool
    <2>2. \A x \in Msgs \ {m} : server'[x] = server[x]
      BY <1>1 DEF AckWait, Shape
    <2>3. /\ \A a \in Actors : job[a] # None => job[a].msg \in Msgs \ {m}
          /\ \A i \in 1..Len(queue) : queue[i].msg \in Msgs \ {m}
      BY <2>1, JobType, QueueType DEF Held
    <2>4. \A a \in Actors : job'[a] # None =>
              job'[a].n = delivered'[job'[a].msg] /\ server'[job'[a].msg] # "ready"
      BY <2>1, <2>2, <2>3 DEF OneDelivery
    <2>5. \A i \in 1..Len(queue') :
              queue'[i].n = delivered'[queue'[i].msg] /\ server'[queue'[i].msg] # "ready"
      BY <2>1, <2>2, <2>3 DEF OneDelivery
    <2> QED
      BY <2>1, <2>4, <2>5 DEF OneDelivery
  <1>2. ASSUME NEW m \in Msgs, NEW k \in Callbacks, Deliver(k, m) PROVE OneDelivery'
    BY <1>2, OneDeliver
  <1>3. ASSUME NEW k \in Callbacks, wrapHandler(k) PROVE OneDelivery'
    <2>1. CASE Send(k)
      BY <2>1, OneSend
    <2>2. CASE CheckRoom(k) \/ CheckBlock(k) \/ Publish(k) \/ SendFails(k)
      <3>1. queue' = queue /\ delivered' = delivered /\ server' = server
        BY <2>2 DEF CheckRoom, CheckBlock, Publish, SendFails, pool
      <3>2. \A a \in Actors : job'[a] \in {job[a], None}
        BY <2>2 DEF CheckRoom, CheckBlock, Publish, SendFails, Goto, Finish, Shape
      <3> QED
        BY <3>1, <3>2, OneKept
    <2> QED
      BY <1>3, <2>1, <2>2 DEF wrapHandler, CheckNak, CheckTerm, Undisturbed
  <1>4. ASSUME NEW w \in Workers, Take(w) PROVE OneDelivery'
    BY <1>4, OneTake
  <1>5. ASSUME NEW w \in Workers, Start(w) PROVE OneDelivery'
    BY <1>5, OneKept DEF Start
  <1>6. ASSUME NEW a \in Actors, Dispatch(a) \/ Handler(a) \/ Route(a) PROVE OneDelivery'
    BY <1>6, OneKept DEF Dispatch, Handler, Route, pool
  <1>7. ASSUME NEW a \in Actors, Term(a) \/ Ack(a) \/ Nak(a) PROVE OneDelivery'
    <2>1. job[a] # None /\ job'[a] = None /\ \A b \in Actors : job'[b] \in {job[b], None}
      BY <1>7 DEF Term, Ack, Nak, Finish, Shape
    <2>2. queue' = queue /\ delivered' = delivered
      BY <1>7 DEF Term, Ack, Nak, pool
    <2>3. \A m \in Msgs : m # job[a].msg => server'[m] = server[m]
      BY <1>7 DEF Term, Ack, Nak, Settle, Shape
    <2> QED
      BY <2>1, <2>2, <2>3, OneKept
  <1>8. CASE Stop \/ UNCHANGED vars
    BY <1>8, OneKept DEF Stop, vars, pool
  <1> QED
    BY <1>1, <1>2, <1>3, <1>4, <1>5, <1>6, <1>7, <1>8 DEF Next, processMessage
-----------------------------------------------------------------------------
(* Attempts *)

LEMMA HeldIs ==
    ASSUME Shape, NEW m
    PROVE  Held(m) <=> \/ \E a \in Actors : job[a] # None /\ job[a].msg = m
                       \/ \E i \in 1..Len(queue) : queue[i].msg = m
  BY QueueType DEF Held

\* A step on the way to the handler or from it.
LEMMA CountedGoes ==
    ASSUME Shape, Counted, NEW a \in Actors, pc[a] # "idle", job' = job,
           \A b \in Actors \ {a} : pc'[b] = pc[b],
           UNCHANGED <<mode, corrupt, queue, poolUp, delivered, attempts, asked>>, NHandlerAttempts',
           job[a].msg \notin corrupt =>
               /\ \/ pc'[a] \in {"check", "publish"} /\ poolUp'
                  \/ pc'[a] \in {"send", "taken", "process", "handler"}
                  => attempts[job[a].msg] >= job[a].n - 1
               /\ pc'[a] \in {"route", "ack", "nak", "term"} =>
                  attempts[job[a].msg] >= job[a].n \/ attempts[job[a].msg] = MaxDeliver,
           pc'[a] \in {"handler", "route", "ack", "term"} => job[a].msg \notin corrupt,
           pc'[a] = "route" => job[a].n > MaxDeliver \/ job[a].msg \in asked
    PROVE  Counted'
  <1>1. Gone' /\ Waiting'
    BY DEF Counted, Gone, Waiting, Held
  <1>2. Underway'
    BY DEF Counted, Underway, UnderwayAt
  <1> QED
    BY <1>1, <1>2 DEF Counted

\* A delivery leaves the client, its handler run or the pool stopped.
LEMMA CountedLeaves ==
    ASSUME Shape, Shape', OneDelivery, Counted, NEW a \in Actors, pc[a] # "idle", Finish(a),
           UNCHANGED <<mode, corrupt, queue, poolUp, delivered, attempts, asked, dlq>>,
           pc[a] \in {"route", "ack", "nak", "term"} \/ ~poolUp
    PROVE  Counted'
  <1>1. /\ job[a] # None /\ job'[a] = None /\ pc'[a] = "idle"
        /\ \A b \in Actors \ {a} : pc'[b] = pc[b] /\ job'[b] = job[b]
    BY DEF Shape, Finish
  <1>2. ASSUME NEW m \in Msgs \ corrupt, poolUp, ~Held(m)'
        PROVE  attempts[m] >= delivered[m] \/ attempts[m] = MaxDeliver
    <2>1. CASE m = job[a].msg
      BY <1>1, <1>2, <2>1 DEF Counted, Underway, UnderwayAt, OneDelivery
    <2>2. CASE m # job[a].msg
      <3>1. ~Held(m)
        BY <1>1, <1>2, <2>2 DEF Held
      <3> QED
        BY <1>2, <3>1 DEF Counted, Gone
    <2> QED
      BY <2>1, <2>2
  <1>3. Gone'
    BY <1>2 DEF Gone
  <1>4. Waiting' /\ NHandlerAttempts'
    BY DEF Counted, Waiting, NHandlerAttempts
  <1>5. Underway'
    BY <1>1 DEF Counted, Underway, UnderwayAt
  <1> QED
    BY <1>3, <1>4, <1>5 DEF Counted

\* A delivery comes: what came before it has come and gone.
LEMMA CountedDeliver ==
    ASSUME Shape, OneDelivery, Undisturbed, Counted,
           NEW m \in Msgs, NEW k \in Callbacks, Deliver(k, m)
    PROVE  Counted'
  <1>1. /\ k \in Actors /\ pc[k] = "idle" /\ pc'[k] \in {"process", "check"}
        /\ pc'[k] = "process" => mode = "inline"
        /\ \A a \in Actors \ {k} : pc'[a] = pc[a]
    BY DEF Deliver, Shape, Undisturbed, Actors
  <1>2. /\ job' = [job EXCEPT ![k] = [msg |-> m, n |-> delivered'[m]]]
        /\ UNCHANGED <<mode, corrupt, queue, poolUp, attempts, asked, dlq>>
        /\ \A x \in Msgs \ {m} : delivered'[x] = delivered[x]
    BY DEF Deliver, Shape, config, pool, ghosts
  <1>3. /\ job'[k].msg = m /\ job'[k].n = delivered'[m] /\ job'[k] # None /\ job[k] = None
        /\ \A a \in Actors \ {k} : job'[a] = job[a]
    <2>1. delivered'[m] \in Nat
      <3>1. delivered' = [delivered EXCEPT ![m] = Min2(@ + 1, MaxDeliver + 1)]
        BY DEF Deliver
      <3> QED
        BY <3>1, DeliveryAssumption DEF Shape, Min2
    <2>2. [msg |-> m, n |-> delivered'[m]] # None
      BY <2>1, DeliveryAssumption
    <2>3. job[k] = None
      BY <1>1 DEF Shape
    <2> QED
      BY <1>1, <1>2, <2>2, <2>3 DEF Shape
  <1>4. ~Held(m)
    BY HeldIs DEF Deliver, OneDelivery
  <1>5. poolUp /\ m \notin corrupt => attempts[m] >= delivered'[m] - 1
    <2>1. delivered' = [delivered EXCEPT ![m] = Min2(@ + 1, MaxDeliver + 1)]
      BY DEF Deliver
    <2>2. /\ MaxDeliver \in Nat /\ delivered[m] \in 0..MaxDeliver + 1 /\ attempts[m] \in 0..MaxDeliver
          /\ delivered'[m] = Min2(delivered[m] + 1, MaxDeliver + 1)
      BY <2>1, DeliveryAssumption DEF Shape
    <2>3. poolUp /\ m \notin corrupt => attempts[m] >= delivered[m] \/ attempts[m] = MaxDeliver
      BY <1>4 DEF Counted, Gone
    <2>4. ASSUME attempts[m] >= delivered[m] \/ attempts[m] = MaxDeliver
          PROVE  attempts[m] >= delivered'[m] - 1
      BY <2>2, <2>4 DEF Min2
    <2> QED
      BY <2>3, <2>4
  <1>6. ASSUME NEW x \in Msgs \ corrupt, poolUp, ~Held(x)'
        PROVE  attempts[x] >= delivered'[x] \/ attempts[x] = MaxDeliver
    <2>1. x # m /\ ~Held(x)
      BY <1>1, <1>2, <1>3, <1>6 DEF Held
    <2> QED
      BY <1>2, <1>6, <2>1 DEF Counted, Gone
  <1>7. Gone'
    BY <1>2, <1>6 DEF Gone
  <1>8. ASSUME NEW a \in Actors PROVE UnderwayAt(a)'
    <2>1. CASE a # k
      <3>1. pc'[a] = pc[a] /\ job'[a] = job[a]
        BY <1>1, <1>3, <2>1
      <3>2. UnderwayAt(a)
        BY DEF Counted, Underway
      <3>3. corrupt' = corrupt /\ poolUp' = poolUp /\ attempts' = attempts /\ asked' = asked
        BY <1>2
      <3> QED
        BY <3>1, <3>2, <3>3 DEF UnderwayAt
    <2>2. CASE a = k
      <3>1. pc'[k] = "process" => poolUp
        BY <1>1 DEF Counted
      <3>2. m \notin corrupt /\ poolUp => attempts[m] >= job'[k].n - 1
        BY <1>3, <1>5
      <3> QED
        BY <1>1, <1>2, <1>3, <2>2, <3>1, <3>2 DEF UnderwayAt
    <2> QED
      BY <2>1, <2>2
  <1> QED
    BY <1>2, <1>7, <1>8 DEF Counted, Underway, Waiting, NHandlerAttempts

LEMMA CountedSend ==
    ASSUME Shape, Counted, NEW k \in Callbacks, Send(k)
    PROVE  Counted'
  <1>1. /\ k \in Actors /\ job[k] # None /\ job'[k] = None /\ pc'[k] = "idle" /\ pc[k] = "send"
        /\ \A a \in Actors \ {k} : job'[a] = job[a] /\ pc'[a] = pc[a]
        /\ job[k] \in Deliveries /\ queue \in Seq(Deliveries)
    BY DEF Send, Finish, Shape, Actors
  <1>2. /\ Len(queue') = Len(queue) + 1 /\ Len(queue) \in Nat
        /\ \A i \in 1..Len(queue) : queue'[i] = queue[i]
        /\ queue'[Len(queue) + 1] = job[k]
        /\ DOMAIN queue = 1..Len(queue) /\ DOMAIN queue' = 1..Len(queue')
    BY <1>1, AppendIs DEF Send
  <1>3. UNCHANGED <<mode, corrupt, poolUp, delivered, attempts, asked, dlq>>
    BY DEF Send, config, ghosts
  <1>4. \A i \in 1..Len(queue') : i \in 1..Len(queue) \/ i = Len(queue) + 1
    BY <1>2
  <1>5. ASSUME NEW m, Held(m) PROVE Held(m)'
    <2>1. CASE \E a \in Actors : job[a] # None /\ job[a].msg = m
      <3>1. PICK a \in Actors : job[a] # None /\ job[a].msg = m
        BY <2>1
      <3>2. CASE a = k
        BY <1>2, <3>1, <3>2, SMTT(30) DEF Held
      <3>3. CASE a # k
        BY <1>1, <3>1, <3>3 DEF Held
      <3> QED
        BY <3>2, <3>3
    <2>2. CASE \E i \in DOMAIN queue : queue[i].msg = m
      BY <1>2, <2>2 DEF Held
    <2> QED
      BY <1>5, <2>1, <2>2 DEF Held
  <1>6. Gone'
    BY <1>3, <1>5 DEF Counted, Gone
  <1>7. Waiting'
    BY <1>1, <1>2, <1>3, <1>4 DEF Counted, Waiting, Underway, UnderwayAt
  <1>8. Underway'
    BY <1>1, <1>3 DEF Counted, Underway, UnderwayAt
  <1> QED
    BY <1>3, <1>6, <1>7, <1>8 DEF Counted, NHandlerAttempts

LEMMA CountedTake ==
    ASSUME Shape, Counted, NEW w \in Workers, Take(w)
    PROVE  Counted'
  <1>1. queue \in Seq(Deliveries) /\ queue # <<>>
    BY DEF Take, Shape
  <1>2. /\ Len(queue) \in Nat \ {0} /\ Len(queue') = Len(queue) - 1 /\ queue[1] \in Deliveries
        /\ \A i \in 1..Len(queue') : queue'[i] = queue[i + 1]
        /\ DOMAIN queue = 1..Len(queue) /\ DOMAIN queue' = 1..Len(queue')
    BY <1>1, TailIs DEF Take
  <1>3. /\ w \in Actors /\ job'[w] = queue[1] /\ job[w] = None /\ pc'[w] = "taken"
        /\ \A a \in Actors \ {w} : job'[a] = job[a] /\ pc'[a] = pc[a]
    BY <1>1, TailIs DEF Take, Shape, Actors
  <1>4. UNCHANGED <<mode, corrupt, poolUp, delivered, attempts, asked, dlq>>
    BY DEF Take, config, ghosts
  <1>5. ASSUME NEW m, Held(m) PROVE Held(m)'
    <2>1. CASE \E a \in Actors : job[a] # None /\ job[a].msg = m
      BY <1>3, <2>1 DEF Held
    <2>2. ASSUME NEW i \in 1..Len(queue), queue[i].msg = m PROVE Held(m)'
      <3>1. CASE i = 1
        BY <1>2, <1>3, <2>2, <3>1, NoneIsNone DEF Held
      <3>2. CASE i # 1
        <4>1. i - 1 \in 1..Len(queue') /\ queue'[i - 1] = queue[i]
          BY <1>2, <3>2
        <4> QED
          BY <1>2, <2>2, <4>1 DEF Held
      <3> QED
        BY <3>1, <3>2
    <2> QED
      BY <1>2, <1>5, <2>1, <2>2 DEF Held
  <1>6. Gone'
    BY <1>4, <1>5 DEF Counted, Gone
  <1>7. \A i \in 1..Len(queue') : i + 1 \in 1..Len(queue)
    BY <1>2
  <1>8. Waiting'
    BY <1>2, <1>4, <1>7 DEF Counted, Waiting
  <1>9. Underway'
    <2>1. 1 \in 1..Len(queue)
      BY <1>2
    <2> QED
      BY <1>3, <1>4, <2>1 DEF Counted, Underway, UnderwayAt, Waiting
  <1> QED
    BY <1>4, <1>6, <1>8, <1>9 DEF Counted, NHandlerAttempts
\* The handler runs, and its run is counted.
LEMMA CountedHandler ==
    ASSUME Shape, OneDelivery, Counted, NEW a \in Actors, Handler(a)
    PROVE  Counted'
  <1> DEFINE m == job[a].msg
  <1>1. /\ pc[a] = "handler" /\ pc'[a] \in {"ack", "nak", "route"} /\ job' = job /\ job[a] # None
        /\ \A b \in Actors \ {a} : pc'[b] = pc[b]
        /\ UNCHANGED <<mode, corrupt, queue, poolUp, delivered, dlq>>
        /\ asked \subseteq asked' /\ (pc'[a] = "route" => m \in asked')
    BY DEF Handler, Goto, Shape, config, pool
  <1>2. /\ m \in Msgs
        /\ attempts'[m] = attempts[m] + 1 \/ attempts'[m] = MaxDeliver
        /\ \A x \in Msgs : attempts[x] <= attempts'[x] /\ attempts'[x] \in 0..MaxDeliver /\ attempts[x] \in 0..MaxDeliver
        /\ \A x \in Msgs \ {m} : attempts'[x] = attempts[x]
    <2>1. /\ m \in Msgs /\ attempts' \in [Msgs -> 0..MaxDeliver] /\ attempts[m] <= attempts'[m]
          /\ attempts'[m] = attempts[m] + 1 \/ attempts'[m] = MaxDeliver
          /\ \A x \in Msgs \ {m} : attempts'[x] = attempts[x]
      BY HandlerCounts
    <2>2. MaxDeliver \in Nat /\ attempts \in [Msgs -> 0..MaxDeliver]
      BY DeliveryAssumption DEF Shape
    <2> QED
      BY <2>1, <2>2
  <1>3. \A x : Held(x)' <=> Held(x)
    BY <1>1 DEF Held
  <1>4. Gone'
    <2>1. Held(m)
      BY <1>1 DEF Held
    <2> QED
      BY <1>1, <1>2, <1>3, <2>1 DEF Counted, Gone
  <1>5. Waiting'
    <2>1. \A i \in 1..Len(queue) : queue[i].msg \in Msgs \ {m}
      BY <1>1, QueueType DEF OneDelivery
    <2> QED
      BY <1>1, <1>2, <2>1 DEF Counted, Waiting
  <1>6. \A b \in Actors \ {a} : job[b] # None => job[b].msg \in Msgs \ {m}
    BY <1>1, JobType DEF OneDelivery
  <1>7. m \notin corrupt /\ (attempts'[m] >= job[a].n \/ attempts'[m] = MaxDeliver)
    <2>1. m \notin corrupt /\ attempts[m] >= job[a].n - 1
      BY <1>1 DEF Counted, Underway, UnderwayAt
    <2>2. job[a].n \in Int /\ attempts[m] \in Int
      BY <1>1, <1>2, JobType
    <2> QED
      BY <1>2, <2>1, <2>2
  <1>8. Underway'
    <2>1. ASSUME NEW b \in Actors, b # a, pc[b] # "idle"
          PROVE  attempts'[job[b].msg] = attempts[job[b].msg]
      BY <1>2, <1>6, <2>1 DEF Shape
    <2> QED
      BY <1>1, <1>7, <2>1 DEF Counted, Underway, UnderwayAt
  <1>9. NHandlerAttempts'
    <2>1. ASSUME NEW x \in dlq, x \notin asked' PROVE attempts'[x] >= MaxDeliver
      <3>1. x \in Msgs /\ attempts[x] >= MaxDeliver
        BY <1>1, <2>1 DEF Counted, NHandlerAttempts, Shape
      <3> QED
        BY <1>2, <3>1, DeliveryAssumption
    <2> QED
      BY <1>1, <2>1 DEF NHandlerAttempts
  <1> QED
    BY <1>1, <1>4, <1>5, <1>8, <1>9 DEF Counted

\* A delivery is routed because it is beyond MaxDeliver, which N attempts came
\* before, or because its handler asked.
LEMMA CountedRoute ==
    ASSUME Shape, Counted, NEW a \in Actors, Route(a)
    PROVE  Counted'
  <1>1. /\ pc[a] = "route" /\ pc'[a] \in {"term", "nak"} /\ job' = job
        /\ \A b \in Actors \ {a} : pc'[b] = pc[b]
        /\ UNCHANGED <<mode, corrupt, queue, poolUp, delivered, attempts, asked>>
        /\ dlq' \subseteq dlq \cup {job[a].msg}
    BY DEF Route, Goto, Shape, config, pool, ghosts
  <1>2. /\ job[a].msg \notin corrupt
        /\ attempts[job[a].msg] >= job[a].n \/ attempts[job[a].msg] = MaxDeliver
        /\ job[a].n > MaxDeliver \/ job[a].msg \in asked
    BY <1>1 DEF Counted, Underway, UnderwayAt
  <1>3. job[a].msg \in Msgs /\ job[a].n \in Nat /\ attempts[job[a].msg] \in Nat /\ MaxDeliver \in Nat
    BY <1>1, JobType, DeliveryAssumption DEF Shape
  <1>4. NHandlerAttempts'
    BY <1>1, <1>2, <1>3 DEF Counted, NHandlerAttempts
  <1> QED
    BY <1>1, <1>2, <1>4, CountedGoes

LEMMA CountedDispatch ==
    ASSUME Shape, Counted, NEW a \in Actors, Dispatch(a)
    PROVE  Counted'
  <1>1. /\ pc[a] = "process" /\ job' = job
        /\ pc'[a] = IF job[a].msg \in corrupt THEN "nak" ELSE IF job[a].n > MaxDeliver THEN "route" ELSE "handler"
        /\ \A b \in Actors \ {a} : pc'[b] = pc[b]
        /\ UNCHANGED <<mode, corrupt, queue, poolUp, delivered, attempts, asked, dlq>>
    BY DEF Dispatch, Goto, Exhausted, Shape, config, pool, ghosts
  <1>2. job[a].msg \notin corrupt => attempts[job[a].msg] >= job[a].n - 1
    BY <1>1 DEF Counted, Underway, UnderwayAt
  <1>3. job[a].msg \in Msgs /\ job[a].n \in Nat /\ attempts[job[a].msg] \in 0..MaxDeliver /\ MaxDeliver \in Nat
    BY <1>1, JobType, DeliveryAssumption DEF Shape
  <1>4. job[a].msg \notin corrupt /\ job[a].n > MaxDeliver => attempts[job[a].msg] = MaxDeliver
    BY <1>2, <1>3
  <1>5. NHandlerAttempts'
    BY <1>1 DEF Counted, NHandlerAttempts
  <1> QED
    BY <1>1, <1>2, <1>4, <1>5, CountedGoes

LEMMA CountedKept ==
    ASSUME Shape, Shape', Undisturbed, OneDelivery, Counted, [Next]_vars
    PROVE  Counted'
  <1>1. ASSUME NEW m \in Msgs, AckWait(m) PROVE Counted'
    BY <1>1 DEF AckWait, config, pool, ghosts, Counted, Gone, Waiting, Underway, UnderwayAt, NHandlerAttempts, Held
  <1>2. ASSUME NEW k \in Callbacks, wrapHandler(k) PROVE Counted'
    <2>1. k \in Actors
      BY DEF Actors
    <2>2. CASE Send(k)
      BY <2>2, CountedSend
    <2>3. CASE CheckRoom(k) \/ CheckBlock(k)
      <3>1. /\ pc[k] = "check" /\ pc'[k] = "publish" /\ job' = job
            /\ \A b \in Actors \ {k} : pc'[b] = pc[b]
            /\ UNCHANGED <<mode, corrupt, queue, poolUp, delivered, attempts, asked, dlq>>
        <4>1. mode # "nak"
          BY DEF Undisturbed
        <4>2. Goto(k, "check", "publish") /\ job' = job /\ UNCHANGED <<config, pool, delivered, ghosts, dlq>>
          BY <2>3, <4>1, Zenon DEF CheckRoom, CheckBlock
        <4> QED
          BY <2>1, <4>2 DEF Goto, Shape, config, pool, ghosts
      <3>2. NHandlerAttempts'
        BY <3>1 DEF Counted, NHandlerAttempts
      <3> QED
        BY <2>1, <3>1, <3>2, CountedGoes DEF Counted, Underway, UnderwayAt
    <2>4. CASE Publish(k) /\ poolUp
      <3>1. /\ pc[k] = "publish" /\ pc'[k] = "send" /\ job' = job
            /\ \A b \in Actors \ {k} : pc'[b] = pc[b]
            /\ UNCHANGED <<mode, corrupt, queue, poolUp, delivered, attempts, asked, dlq>>
        BY <2>1, <2>4 DEF Publish, Goto, Shape, config, ghosts
      <3>2. NHandlerAttempts'
        BY <3>1 DEF Counted, NHandlerAttempts
      <3> QED
        BY <2>1, <2>4, <3>1, <3>2, CountedGoes DEF Counted, Underway, UnderwayAt
    <2>5. CASE (Publish(k) \/ SendFails(k)) /\ ~poolUp
      <3>1. pc[k] # "idle" /\ Finish(k) /\ UNCHANGED <<mode, corrupt, queue, poolUp, delivered, attempts, asked, dlq>>
        BY <2>5 DEF Publish, SendFails, Undisturbed, config, ghosts
      <3> QED
        BY <2>1, <2>5, <3>1, CountedLeaves
    <2> QED
      BY <1>2, <2>2, <2>3, <2>4, <2>5 DEF wrapHandler, CheckNak, CheckTerm, SendFails, Undisturbed
  <1>3. ASSUME NEW w \in Workers, Start(w) PROVE Counted'
    <2>1. /\ w \in Actors /\ pc[w] = "taken" /\ pc'[w] = "process" /\ job' = job
          /\ \A b \in Actors \ {w} : pc'[b] = pc[b]
          /\ UNCHANGED <<mode, corrupt, queue, poolUp, delivered, attempts, asked, dlq>>
      BY <1>3 DEF Start, Goto, Shape, Actors, config, ghosts
    <2>2. NHandlerAttempts'
      BY <2>1 DEF Counted, NHandlerAttempts
    <2> QED
      BY <2>1, <2>2, CountedGoes DEF Counted, Underway, UnderwayAt
  <1>4. ASSUME NEW a \in Actors, Term(a) \/ Ack(a) \/ Nak(a) PROVE Counted'
    <2>1. /\ pc[a] \in {"term", "ack", "nak"} /\ Finish(a)
          /\ UNCHANGED <<mode, corrupt, queue, poolUp, delivered, attempts, asked, dlq>>
      BY <1>4 DEF Term, Ack, Nak, config, pool, ghosts
    <2> QED
      BY <2>1, CountedLeaves
  <1>5. CASE Stop
    BY <1>5 DEF Stop, config, ghosts, Counted, Gone, Waiting, Underway, UnderwayAt, NHandlerAttempts, Held
  <1>6. CASE UNCHANGED vars
    BY <1>6 DEF vars, config, pool, ghosts, Counted, Gone, Waiting, Underway, UnderwayAt, NHandlerAttempts, Held
  <1> QED
    BY <1>1, <1>2, <1>3, <1>4, <1>5, <1>6, CountedDeliver, CountedTake, CountedHandler, CountedRoute, CountedDispatch
       DEF Next, processMessage
=============================================================================
