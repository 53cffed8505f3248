------------------------------ MODULE Exchange ------------------------------
(***************************************************************************)
(* Request and reply over core NATS: RequestMessage (requester.go), the     *)
(* subscriptions of a Responder and its Respond methods (responder.go).     *)
(* Nothing is stored: a request reaches the responders that are subscribed, *)
(* all of them or one of a queue group, or is lost with a connection; the   *)
(* first answer that finds its caller waiting is the answer, and an answer  *)
(* that comes after the deadline is dropped by the client, since each call  *)
(* has an inbox of its own.                                                 *)
(***************************************************************************)
EXTENDS Journey

CONSTANTS
    Requests,     \* RequestMessage calls
    Responders    \* Responder subscriptions

VARIABLES
    link,         \* modes and PayloadDecompression of the two ends, and Subscribe or QueueSubscribe
    request,      \* of each call: where it stands and what it returned
    service,      \* of each responder: "off", "on" or "draining"
    inbound,      \* of each responder: the requests its callback has still to handle
    answers,      \* answers on their way
    served        \* history: what handlers were given

exchangeVars == <<link, request, service, inbound, answers, served>>

Links == [mode : Modes, replyMode : Modes, expandsReply : BOOLEAN, expandsRequest : BOOLEAN, queue : BOOLEAN]

Parcels == [of : Requests, enc : Encodings, body : {<<>>} \cup {<<e>> : e \in Encodings}]

ExchangeTypeOK ==
    /\ link \in Links
    /\ \A q \in Requests : request[q].pc \in {"idle", "waiting", "ok", "failed"}
    /\ service \in [Responders -> {"off", "on", "draining"}]
    /\ inbound \in [Responders -> Seq(Parcels)]
    /\ answers \subseteq Parcels /\ served \subseteq Parcels

ExchangeInit ==
    /\ link \in Links
    /\ request = [q \in Requests |-> [pc |-> "idle"]]
    /\ service = [r \in Responders |-> "off"] /\ inbound = [r \in Responders |-> <<>>]
    /\ answers = {} /\ served = {}

-----------------------------------------------------------------------------
(* The responder *)

\* Subscribe, QueueSubscribe.
QueueSubscribe(r) ==
    /\ service[r] = "off" /\ inbound[r] = <<>>
    /\ service' = [service EXCEPT ![r] = "on"]
    /\ UNCHANGED <<link, request, inbound, answers, served>>

\* The context of the subscription ends and drainOnCancel drains it: nothing
\* new comes, and what has come is handled.
Drain(r) ==
    /\ service[r] = "on"
    /\ service' = [service EXCEPT ![r] = IF inbound[r] = <<>> THEN "off" ELSE "draining"]
    /\ UNCHANGED <<link, request, inbound, answers, served>>

Plain(q) == [of |-> q, enc |-> "", body |-> <<>>]

\* Mutant: what was compressed is sent without its headers.
respondBare(q, mode) == {[a EXCEPT !.enc = ""] : a \in applyPayloadCompression(mode, Plain(q))}

\* respondBytes and respondEncoded. The package-level Respond functions do not
\* compress.
respond(q, mode) == applyPayloadCompression(mode, Plain(q))

\* wrap: a request that does not expand is dropped. A handler that fails, panics or
\* forgets leaves its caller without an answer, and an answer can be lost.
wrap(r) ==
    /\ inbound[r] # <<>> /\ inbound' = [inbound EXCEPT ![r] = Tail(@)]
    /\ service' = [service EXCEPT ![r] = IF @ = "draining" /\ Len(inbound[r]) = 1 THEN "off" ELSE @]
    /\ LET m        == Head(inbound[r])
           rejected == link.expandsRequest /\ m.enc # "" /\ ~Expands(m)
           given    == IF link.expandsRequest THEN maybeDecompressMsg(m) ELSE m
       IN IF rejected THEN UNCHANGED <<answers, served>>
          ELSE /\ served' = served \cup {given}
               /\ \/ UNCHANGED answers
                  \/ \E mode \in {link.replyMode, "off"} : \E a \in respond(m.of, mode) : answers' = answers \cup {a}
    /\ UNCHANGED <<link, request>>

-----------------------------------------------------------------------------
(* The requester *)

Return(q, result) == request' = [request EXCEPT ![q] = result]

\* RequestMessage up to its wait: the payload cannot be encoded, nobody is
\* subscribed (ErrNoResponders), or the request is on its way, or lost.
RequestMessage(q) ==
    LET on      == {r \in Responders : service[r] = "on"}
        reached == IF link.queue THEN {{r} : r \in on} ELSE {on}
    IN /\ request[q].pc = "idle"
       /\ \/ Return(q, [pc |-> "failed"]) /\ UNCHANGED inbound
          \/ /\ on # {} /\ Return(q, [pc |-> "waiting"])
             /\ \/ UNCHANGED inbound
                \/ \E e \in CallerSets, R \in reached :
                      \E m \in applyPayloadCompression(link.mode, [of |-> q, enc |-> e, body |-> IF e = "" THEN <<>> ELSE <<e>>]) :
                         inbound' = [r \in Responders |-> IF r \in R THEN Append(inbound[r], m) ELSE inbound[r]]
       /\ UNCHANGED <<link, service, answers, served>>

\* An answer comes in time: RequestMessage expands it and returns it.
Answered(q) ==
    /\ request[q].pc = "waiting"
    /\ \E a \in answers :
        /\ a.of = q
        /\ Return(q, IF ~link.expandsReply THEN [pc |-> "ok", got |-> a]
                     ELSE IF a.enc = "" \/ Expands(a) THEN [pc |-> "ok", got |-> maybeDecompressMsg(a)]
                     ELSE [pc |-> "failed"])
    /\ answers' = {a \in answers : a.of # q}
    /\ UNCHANGED <<link, service, inbound, served>>

\* The deadline, the caller's or the one withTimeout gives a call without one.
TimedOut(q) ==
    /\ request[q].pc = "waiting" /\ Return(q, [pc |-> "failed"])
    /\ answers' = {a \in answers : a.of # q}
    /\ UNCHANGED <<link, service, inbound, served>>

ExchangeNext ==
    \/ \E r \in Responders : QueueSubscribe(r) \/ Drain(r) \/ wrap(r)
    \/ \E q \in Requests : RequestMessage(q) \/ Answered(q) \/ TimedOut(q)

-----------------------------------------------------------------------------
(* Properties *)

Fits(m) == m.body = IF m.enc = "" THEN <<>> ELSE <<m.enc>>

\* What RequestJSONInto and its kin decode is the answer to the request that was made,
\* and with PayloadDecompression at both ends it is the payload the handler answered
\* with, as the handler was given the payload of the request: whichever end compresses,
\* however many responders answer, and whether through the Responder or the package.
\* Without it, what is returned or handed over still says how it is encoded.
AnswersAreReadable ==
    /\ \A q \in Requests : request[q].pc = "ok" =>
        /\ request[q].got.of = q /\ Fits(request[q].got)
        /\ link.expandsReply => request[q].got.enc = ""
        /\ \E m \in served : m.of = q
    /\ \A m \in served : Fits(m) /\ (link.expandsRequest => m.enc = "")
=============================================================================
