------------------------------ MODULE Journey ------------------------------
(***************************************************************************)
(* One message from publisher to handler, to the dead-letter stream and     *)
(* back: compress.go, PublishMessage, the decompression of processMessage,  *)
(* route of dlq/dlq.go and ReplayToStream of dlq/replay.go, as far as they  *)
(* touch what travels with a payload. A copy is its Content-Encoding, its   *)
(* body (the encodings applied to the payload, the last one first) and its  *)
(* Nats-Msg-Id; other headers are left out. A stream with a DuplicateWindow *)
(* acknowledges a copy whose id it remembers and does not store it.         *)
(***************************************************************************)
EXTENDS Integers, Sequences

CONSTANTS
    Modes,        \* PublisherConfig.PayloadCompression: "off", "auto", "gzip", "br"
    CallerSets,   \* encodings a caller may have applied and declared itself, "" for none
    MaxDeliver,   \* dlq.Config
    MaxDeliveries, MaxCopies, MaxJourneyFaults, MaxExpiries \* bounds

ASSUME JourneyAssumption ==
    /\ Modes \subseteq {"off", "auto", "gzip", "br"} /\ CallerSets \subseteq {"", "gzip", "br", "zstd"}
    /\ {MaxDeliver, MaxDeliveries, MaxCopies} \subseteq Nat \ {0} /\ {MaxJourneyFaults, MaxExpiries} \subseteq Nat

VARIABLES
    wiring,       \* modes of the two publishers, PayloadDecompression of the consumer
    draft,        \* the caller's Message, as the calls made with it have left it
    home, dead,   \* the copies of the two streams
    window,       \* ids each stream remembers
    routing,      \* the copy the consumer is routing
    handled,      \* the handler has succeeded
    journeyFaults, expiries,
    vanished      \* history: a redriven copy was acknowledged as a duplicate, or a dead letter as one
                  \* of a dead letter no longer there

journeyVars == <<wiring, draft, home, dead, window, routing, handled, journeyFaults, expiries, vanished>>

Encodings == {"", "gzip", "br", "zstd"}
Original  == 100 \* the id of a publisher that sets one; 0 is none, and n is "dlq-<stream>-n"
Idle      == [pc |-> "idle"]
NoDraft   == [due |-> FALSE]
Stored    == {"here", "gone"}

JourneyTypeOK ==
    /\ \A c \in {home[i] : i \in DOMAIN home} \cup {dead[i] : i \in DOMAIN dead} :
         c.enc \in Encodings /\ c.at \in Stored /\ c.id \in 0..MaxCopies \cup {Original}
    /\ Len(home) <= MaxCopies /\ Len(dead) <= MaxCopies
    /\ routing.pc \in {"idle", "publish", "term"} /\ handled \in BOOLEAN /\ vanished \in BOOLEAN

Wirings == [mode : Modes, dlqMode : Modes, decompress : BOOLEAN]

JourneyInit ==
    /\ wiring \in Wirings
    /\ draft = NoDraft
    /\ home = <<>> /\ dead = <<>> /\ window = [home |-> {}, dead |-> {}] /\ routing = Idle
    /\ handled = FALSE /\ journeyFaults = 0 /\ expiries = 0 /\ vanished = FALSE

-----------------------------------------------------------------------------
(* What the library does to a copy *)

MaybeCompressPayload(mode) == IF mode = "auto" THEN {"br", "gzip"} ELSE {mode}

\* Mutant: a payload that is declared encoded is compressed again.
applyPayloadCompressionTwice(mode, m) ==
    IF mode = "off" THEN {m}
    ELSE {m} \cup {[m EXCEPT !.enc = e, !.body = <<e>> \o @] : e \in MaybeCompressPayload(mode)}

\* A small payload, or one that does not shrink, stays as it is.
applyPayloadCompression(mode, m) ==
    IF mode = "off" \/ m.enc # "" THEN {m}
    ELSE {m} \cup {[m EXCEPT !.enc = e, !.body = <<e>> \o @] : e \in MaybeCompressPayload(mode)}

\* The readers fail on a body that is not what it is declared to be.
decompress(m) == m.body # <<>> /\ Head(m.body) = m.enc

\* DecompressPayload knows br and gzip.
Expands(m) == m.enc \in {"br", "gzip"} /\ decompress(m)

maybeDecompressMsg(m) == IF m.enc = "" THEN m ELSE [m EXCEPT !.enc = "", !.body = Tail(@)]

\* The headers route copies: the Nats-Msg-Id, or one made of the sequence number.
\* opaque: what is left of the body has lost its Content-Encoding.
DeadLetter(m, n) ==
    [m EXCEPT !.enc = "", !.id = IF m.id = 0 THEN n ELSE m.id, !.opaque = m.opaque \/ m.enc # ""]

-----------------------------------------------------------------------------
(* The two streams *)

Duplicate(s, m) == m.id # 0 /\ m.id \in window[s]
Here(copies, id) == \E i \in DOMAIN copies : copies[i].at = "here" /\ copies[i].id = id
Add(copies, m) == Append(copies, [m EXCEPT !.at = "here", !.deliveries = 0])
Remember(s, m) == window' = IF m.id = 0 THEN window ELSE [window EXCEPT ![s] = @ \cup {m.id}]

StoreHome(m, redriven) ==
    IF Duplicate("home", m) THEN vanished' = (vanished \/ redriven) /\ UNCHANGED <<home, window>>
    ELSE Len(home) < MaxCopies /\ home' = Add(home, m) /\ Remember("home", m) /\ UNCHANGED vanished

StoreDead(m) ==
    IF Duplicate("dead", m) THEN vanished' = (vanished \/ ~Here(dead, m.id)) /\ UNCHANGED <<dead, window>>
    ELSE Len(dead) < MaxCopies /\ dead' = Add(dead, m) /\ Remember("dead", m) /\ UNCHANGED vanished

Fails == journeyFaults < MaxJourneyFaults /\ journeyFaults' = journeyFaults + 1
Works == UNCHANGED journeyFaults

\* The DuplicateWindow of a stream passes.
WindowPasses ==
    /\ expiries < MaxExpiries /\ expiries' = expiries + 1
    /\ \E s \in {"home", "dead"} : window[s] # {} /\ window' = [window EXCEPT ![s] = {}]
    /\ UNCHANGED <<wiring, draft, home, dead, routing, handled, journeyFaults, vanished>>

-----------------------------------------------------------------------------
(* The journey *)

\* The Messages a caller may publish first. (body: what the caller itself has encoded;
\* due: the last call with it has failed; labelled: a call has written its header.)
Drafts ==
    {[enc |-> e, body |-> IF e = "" THEN <<>> ELSE <<e>>, id |-> id, at |-> "here", deliveries |-> 0,
      opaque |-> FALSE, due |-> FALSE, labelled |-> FALSE] : e \in CallerSets, id \in {0, Original}}

\* The Message is a copy, but its Header is the caller's map: applyPayloadCompression
\* writes Content-Encoding into it. A Message without a Header is given a map of its own.
Written(d, m) ==
    IF d.enc = "" /\ d.id = 0 THEN d ELSE [d EXCEPT !.enc = m.enc, !.labelled = @ \/ m.enc # d.enc]

\* A caller publishes a Message, or publishes it again when the last call with it has
\* failed; an error can hide that the message was stored.
PublishMessage ==
    /\ draft.due \/ draft = NoDraft
    /\ \E d \in IF draft.due THEN {draft} ELSE Drafts : \E m \in applyPayloadCompression(wiring.mode, d) :
         \/ StoreHome(m, FALSE) /\ Works /\ draft' = [Written(d, m) EXCEPT !.due = FALSE]
         \/ StoreHome(m, FALSE) /\ Fails /\ draft' = [Written(d, m) EXCEPT !.due = TRUE]
         \/ Fails /\ draft' = [Written(d, m) EXCEPT !.due = TRUE] /\ UNCHANGED <<home, window, vanished>>
    /\ UNCHANGED <<wiring, dead, routing, handled, expiries>>

\* processMessage with the handler wrapped in With: a payload that does not expand is
\* Nak'ed before either sees it.
processMessage(n) ==
    /\ routing.pc = "idle" /\ home[n].at = "here" /\ home[n].deliveries < MaxDeliveries
    /\ LET m == IF wiring.decompress /\ Expands(home[n]) THEN maybeDecompressMsg(home[n]) ELSE home[n]
           rejected == wiring.decompress /\ home[n].enc # "" /\ ~Expands(home[n])
           exhausted == home[n].deliveries + 1 > MaxDeliver
           again == [home EXCEPT ![n].deliveries = @ + 1]
           route == routing' = [pc |-> "publish", n |-> n, m |-> DeadLetter(m, n)]
       IN \/ rejected /\ home' = again /\ Works /\ UNCHANGED <<routing, handled>>
          \/ ~rejected /\ exhausted /\ home' = again /\ Works /\ route /\ UNCHANGED handled
          \/ /\ ~rejected /\ ~exhausted
             /\ \/ home' = again /\ Works /\ route /\ UNCHANGED handled \* ErrSendToDLQ
                \/ home' = again /\ Works /\ UNCHANGED <<routing, handled>> \* another error
                \/ home' = again /\ handled' = TRUE /\ Fails /\ UNCHANGED routing \* the Ack is lost
                \/ home' = [again EXCEPT ![n].at = "gone"] /\ handled' = TRUE /\ Works /\ UNCHANGED routing
    /\ UNCHANGED <<wiring, draft, dead, window, expiries, vanished>>

\* Mutant: the message is Term'ed although the dead letter was not published.
routeTerms ==
    /\ routing.pc = "publish"
    /\ \/ \E m \in applyPayloadCompression(wiring.dlqMode, routing.m) :
            StoreDead(m) /\ Works /\ routing' = [routing EXCEPT !.pc = "term"]
       \/ Fails /\ routing' = [routing EXCEPT !.pc = "term"] /\ UNCHANGED <<dead, window, vanished>>
    /\ UNCHANGED <<wiring, draft, home, handled, expiries>>

\* When publishing fails the message is Nak'ed; an error can hide that it was stored.
route ==
    /\ routing.pc = "publish"
    /\ \/ \E m \in applyPayloadCompression(wiring.dlqMode, routing.m) :
            /\ StoreDead(m)
            /\ \/ Works /\ routing' = [routing EXCEPT !.pc = "term"]
               \/ Fails /\ routing' = Idle
       \/ Fails /\ routing' = Idle /\ UNCHANGED <<dead, window, vanished>>
    /\ UNCHANGED <<wiring, draft, home, handled, expiries>>

\* Term, tried three times; without it the message is delivered again.
Term ==
    /\ routing.pc = "term" /\ routing' = Idle
    /\ \/ home' = [home EXCEPT ![routing.n].at = "gone"] /\ Works
       \/ Fails /\ UNCHANGED home
    /\ UNCHANGED <<wiring, draft, dead, window, handled, expiries, vanished>>

\* ReplayToStream to a subject of the first stream, with the headers of the dead letter
\* but for those stripDLQHeaders removes. Told that it was published, the operator may
\* remove the dead letter.
Redrive(n) ==
    /\ dead[n].at = "here"
    /\ \/ \E m \in applyPayloadCompression(wiring.mode, dead[n]) :
            /\ StoreHome(m, TRUE)
            /\ \/ Works /\ (UNCHANGED dead \/ dead' = [dead EXCEPT ![n].at = "gone"])
               \/ Fails /\ UNCHANGED dead
       \/ Fails /\ UNCHANGED <<home, dead, window, vanished>>
    /\ UNCHANGED <<wiring, draft, routing, handled, expiries>>

JourneyNext ==
    \/ PublishMessage \/ route \/ Term \/ WindowPasses
    \/ \E n \in DOMAIN home : processMessage(n)
    \/ \E n \in DOMAIN dead : Redrive(n)

JourneySpec == JourneyInit /\ [][JourneyNext]_journeyVars

-----------------------------------------------------------------------------
(* Properties *)

Copies == {home[i] : i \in DOMAIN home} \cup {dead[i] : i \in DOMAIN dead}

\* However often a message was compressed, expanded, dead-lettered and redriven, the
\* Content-Encoding of a stored copy is what was done to its body, so that a consumer
\* with PayloadDecompression hands the handler the payload; but not behind a consumer
\* without it, whose dead letters keep the compressed body and lose the header, and not
\* for a Message published again whose header an earlier call has written.
EncodingFitsBody ==
    \A c \in Copies : ~c.opaque /\ ~c.labelled => c.body = IF c.enc = "" THEN <<>> ELSE <<c.enc>>

\* A published message has been handled, or waits in its stream, or lies in the
\* dead-letter stream, through failed publishes, lost acknowledgements, redrives and the
\* removal of redriven dead letters; but for a copy that a DuplicateWindow took for an
\* earlier one: a dead letter and its redrive keep the Nats-Msg-Id of the message.
NothingIsLost ==
    home # <<>> /\ ~vanished =>
        handled \/ (\E i \in DOMAIN home : home[i].at = "here") \/ (\E i \in DOMAIN dead : dead[i].at = "here")
=============================================================================
