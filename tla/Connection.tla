----------------------------- MODULE Connection -----------------------------
(***************************************************************************)
(* client.go and connection.go up to the shutdown: NewClient dials with     *)
(* retries and builds the client, nats.go's dispatcher calls the client     *)
(* back about the link, the health check polls, callers wait for the link.  *)
(*                                                                          *)
(* The link and its dispatcher belong to nats.go. Callbacks run one at a    *)
(* time, in the order of the events, some time after them. Logging, URLs,   *)
(* the last error and its time, the counters, TLS and credentials are left  *)
(* out.                                                                     *)
(***************************************************************************)
EXTENDS Integers, Sequences

CONSTANTS
    Attempts,    \* InitialRetryAttempts, 1 when NewClient dials only once
    Waiters,     \* callers of WaitConnected
    MaxEvents    \* bound: times the link drops or the server announces lame duck

ASSUME ConnectionAssumption == Attempts \in Nat \ {0} /\ MaxEvents \in Nat

VARIABLES
    link,        \* of nc: "none", "up", "down" (reconnecting), "draining", "closed"
    lame,        \* the server of the link has announced lame duck mode
    everUp,      \* the link has been up
    events,      \* drops and announcements so far
    callbacks,   \* of the dispatcher: callbacks still to run
    npc,         \* of NewClient
    attempt,     \* dials so far
    readUp,      \* what NewClient read from IsConnected
    ctxDone,     \* the context given to NewClient has ended
    conn,        \* c.conn and c.js are set
    cancelled,   \* c.cancel was called
    inLameDuck, gauge, \* c.inLameDuck, the connection_state metric
    gaugeBy,     \* history: who recorded the metric last
    ticker, hc,  \* of the health check: its ticker and its goroutine
    wpc,         \* of each waiter
    heard        \* statuses in the channel of each waiter

netVars    == <<link, lame, everUp, events, callbacks>>
newVars    == <<npc, attempt, readUp, ctxDone, conn, cancelled>>
statusVars == <<inLameDuck, gauge, gaugeBy>>
hcVars     == <<ticker, hc>>
waitVars   == <<wpc, heard>>
connVars   == <<netVars, newVars, statusVars, hcVars, waitVars>>

ConnTypeOK ==
    /\ link \in {"none", "up", "down", "draining", "closed"}
    /\ lame \in BOOLEAN /\ everUp \in BOOLEAN /\ events \in 0..MaxEvents
    /\ callbacks \in Seq({"connect", "disconnect", "reconnect", "closed", "lameduck"})
    /\ npc \in {"dial", "wait", "contexts", "probe", "record", "done", "failed"}
    /\ attempt \in 0..Attempts /\ readUp \in BOOLEAN
    /\ ctxDone \in BOOLEAN /\ conn \in BOOLEAN /\ cancelled \in BOOLEAN
    /\ inLameDuck \in BOOLEAN /\ gauge \in 0..1 /\ gaugeBy \in {"nobody", "callback", "NewClient"}
    /\ ticker \in {"on", "last", "off"} /\ hc \in {"off", "select", "check", "info", "done"}
    /\ wpc \in [Waiters -> {"idle", "check", "listen", "recheck", "select", "connected", "error", "expired"}]
    /\ heard \in [Waiters -> SUBSET {"CONNECTED", "CLOSED"}]

Quiet ==
    /\ lame = FALSE /\ events = 0 /\ callbacks = <<>> /\ attempt = 0
    /\ ctxDone = FALSE /\ cancelled = FALSE /\ inLameDuck = FALSE /\ ticker = "on"
    /\ wpc = [w \in Waiters |-> "idle"] /\ heard = [w \in Waiters |-> {}]

\* NewClient is called.
ConnInit ==
    /\ Quiet /\ link = "none" /\ everUp = FALSE /\ npc = "dial" /\ readUp = FALSE
    /\ conn = FALSE /\ gauge = 0 /\ gaugeBy = "nobody" /\ hc = "off"

\* NewClient has returned a client whose link is up.
ConnBuilt ==
    /\ Quiet /\ link = "up" /\ everUp = TRUE /\ npc = "done" /\ readUp = TRUE
    /\ conn = TRUE /\ gauge = 1 /\ gaugeBy = "NewClient" /\ hc = "select"

IsConnected == link \in {"up", "draining"}

\* Every listener registered for the status gets it.
Listening(w) == wpc[w] \in {"recheck", "select"}
Tell(status) == heard' = [w \in Waiters |-> IF Listening(w) THEN heard[w] \cup {status} ELSE heard[w]]

-----------------------------------------------------------------------------
(* nats.go: the link *)

\* The link comes up, at the first dial or after a drop, on a server that has
\* not announced lame duck mode.
LinkUp ==
    /\ link = "down"
    /\ link' = "up" /\ lame' = FALSE /\ everUp' = TRUE
    /\ callbacks' = Append(callbacks, IF everUp THEN "reconnect" ELSE "connect")
    /\ Tell("CONNECTED")
    /\ UNCHANGED <<events, newVars, statusVars, hcVars, wpc>>

LinkDrops ==
    /\ link = "up" /\ events < MaxEvents
    /\ link' = "down" /\ events' = events + 1
    /\ callbacks' = Append(callbacks, "disconnect")
    /\ UNCHANGED <<lame, everUp, newVars, statusVars, hcVars, waitVars>>

LameDuckAnnounced ==
    /\ link = "up" /\ ~lame /\ events < MaxEvents
    /\ lame' = TRUE /\ events' = events + 1
    /\ callbacks' = Append(callbacks, "lameduck")
    /\ UNCHANGED <<link, everUp, newVars, statusVars, hcVars, waitVars>>

\* Close, Drain's end, and reconnecting no more.
Close ==
    /\ link' = "closed"
    /\ callbacks' = IF link = "closed" THEN callbacks ELSE Append(callbacks, "closed")
    /\ IF link = "closed" THEN UNCHANGED heard ELSE Tell("CLOSED")
    /\ UNCHANGED <<lame, everUp, events>>

ReconnectsExhausted ==
    /\ link = "down" /\ Close
    /\ UNCHANGED <<newVars, statusVars, hcVars, wpc>>

-----------------------------------------------------------------------------
(* The callbacks *)

Calling(callback) ==
    /\ callbacks # <<>> /\ Head(callbacks) = callback
    /\ callbacks' = Tail(callbacks)
    /\ gaugeBy' = IF callback = "lameduck" THEN gaugeBy ELSE "callback"
    /\ UNCHANGED <<link, lame, everUp, events, newVars, hcVars, waitVars>>

onConnect == Calling("connect") /\ inLameDuck' = FALSE /\ gauge' = 1

onDisconnect == Calling("disconnect") /\ gauge' = 0 /\ UNCHANGED inLameDuck

\* Mutant: lame duck mode survives the move to another server.
onReconnectStillLame == Calling("reconnect") /\ gauge' = 1 /\ UNCHANGED inLameDuck

onReconnect == Calling("reconnect") /\ inLameDuck' = FALSE /\ gauge' = 1

onClosed == Calling("closed") /\ inLameDuck' = FALSE /\ gauge' = 0

onLameDuck == Calling("lameduck") /\ inLameDuck' = TRUE /\ UNCHANGED gauge

Callback == onConnect \/ onDisconnect \/ onReconnect \/ onClosed \/ onLameDuck

-----------------------------------------------------------------------------
(* NewClient *)

Construct(from, to) == npc = from /\ npc' = to

\* One turn of connectWithRetry. RetryOnFailedConnect makes Connect return a
\* connection that is not up.
Connected ==
    /\ Construct("dial", "contexts")
    /\ \E status \in {"up", "down"} :
         /\ link' = status /\ everUp' = (status = "up")
         /\ callbacks' = IF status = "up" THEN <<"connect">> ELSE <<>>
    /\ conn' = TRUE
    /\ UNCHANGED <<lame, events, attempt, readUp, ctxDone, cancelled, statusVars, hcVars, waitVars>>

\* Mutant: the attempts are not counted off.
DialFailsForever ==
    /\ Construct("dial", "wait")
    /\ attempt' = attempt + 1
    /\ UNCHANGED <<netVars, readUp, ctxDone, conn, cancelled, statusVars, hcVars, waitVars>>

\* The last attempt, or configureOptions, fails: NewClient returns the error.
DialFails ==
    /\ Construct("dial", IF attempt + 1 < Attempts THEN "wait" ELSE "failed")
    /\ attempt' = attempt + 1
    /\ UNCHANGED <<netVars, readUp, ctxDone, conn, cancelled, statusVars, hcVars, waitVars>>

ConfigureFails ==
    /\ Construct("dial", "failed")
    /\ UNCHANGED <<netVars, attempt, readUp, ctxDone, conn, cancelled, statusVars, hcVars, waitVars>>

RetryWait ==
    /\ \/ Construct("wait", "dial")
       \/ ctxDone /\ Construct("wait", "failed")
    /\ UNCHANGED <<netVars, attempt, readUp, ctxDone, conn, cancelled, statusVars, hcVars, waitVars>>

\* One of the two JetStream contexts cannot be made.
ContextsFail ==
    /\ Construct("contexts", "failed")
    /\ Close
    /\ UNCHANGED <<attempt, readUp, ctxDone, conn, cancelled, statusVars, hcVars, wpc>>

\* The parts are built and startHealthCheck starts its goroutine.
BuildClient ==
    /\ Construct("contexts", "probe")
    /\ hc' = "select"
    /\ UNCHANGED <<netVars, attempt, readUp, ctxDone, conn, cancelled, statusVars, ticker, waitVars>>

\* NewClient asks whether the link is up, and records the answer.
ProbeLink ==
    /\ Construct("probe", "record")
    /\ readUp' = IsConnected
    /\ UNCHANGED <<netVars, attempt, ctxDone, conn, cancelled, statusVars, hcVars, waitVars>>

RecordState ==
    /\ Construct("record", "done")
    /\ gauge' = (IF readUp THEN 1 ELSE 0) /\ gaugeBy' = "NewClient"
    /\ UNCHANGED <<netVars, attempt, readUp, ctxDone, conn, cancelled, inLameDuck, hcVars, waitVars>>

NewClient ==
    \/ Connected \/ DialFails \/ ConfigureFails \/ RetryWait
    \/ ContextsFail \/ BuildClient \/ ProbeLink \/ RecordState

\* The caller's context ends.
ContextEnds ==
    /\ ~ctxDone /\ ctxDone' = TRUE
    /\ UNCHANGED <<netVars, npc, attempt, readUp, conn, cancelled, statusVars, hcVars, waitVars>>

-----------------------------------------------------------------------------
(* The health check. Its context is a child of the caller's. *)

ClientDone == cancelled \/ ctxDone

Health(from, to) ==
    /\ hc = from /\ hc' = to
    /\ UNCHANGED <<netVars, newVars, statusVars, waitVars>>

\* A tick may be waiting in the channel when the ticker is stopped.
HealthTick ==
    /\ ticker # "off" /\ Health("select", "check")
    /\ ticker' = IF ticker = "last" THEN "off" ELSE ticker

\* HealthCheck looks at the connection, then asks for the account.
HealthCheck ==
    /\ \/ conn /\ IsConnected /\ Health("check", "info")
       \/ ~(conn /\ IsConnected) /\ Health("check", "select")
       \/ Health("info", "select")
    /\ UNCHANGED ticker

HealthExit == ClientDone /\ Health("select", "done") /\ UNCHANGED ticker

-----------------------------------------------------------------------------
(* WaitConnected *)

Waiter(w, from, to) ==
    /\ wpc[w] = from /\ wpc' = [wpc EXCEPT ![w] = to]
    /\ UNCHANGED <<netVars, newVars, statusVars, hcVars>>

\* The first lines: no connection, or one that is up already.
WaitConnected(w) ==
    /\ npc = "done"
    /\ \/ ~conn /\ Waiter(w, "idle", "error")
       \/ conn /\ Waiter(w, "idle", "check")
    /\ UNCHANGED heard

FirstLook(w) ==
    /\ Waiter(w, "check", IF IsConnected THEN "connected" ELSE "listen")
    /\ UNCHANGED heard

\* StatusChanged: the channel holds what happens from here on.
Listen(w) == Waiter(w, "listen", "recheck") /\ UNCHANGED heard

\* Mutant: the link is not looked at again once the channel is there.
SecondLookSkipped(w) == Waiter(w, "recheck", "select") /\ UNCHANGED heard

SecondLook(w) ==
    /\ Waiter(w, "recheck", IF IsConnected THEN "connected" ELSE "select")
    /\ UNCHANGED heard

\* Statuses come out in the order they went in; CLOSED is the last.
WaitSelect(w) ==
    \/ /\ heard[w] # {}
       /\ Waiter(w, "select", IF "CONNECTED" \in heard[w] THEN "connected" ELSE "error")
       /\ heard' = [heard EXCEPT ![w] = {}]
    \/ Waiter(w, "select", "expired") /\ UNCHANGED heard

Waiting(w) == WaitConnected(w) \/ FirstLook(w) \/ Listen(w) \/ SecondLook(w) \/ WaitSelect(w)

ConnNext ==
    \/ LinkUp \/ LinkDrops \/ LameDuckAnnounced \/ ReconnectsExhausted
    \/ Callback \/ NewClient \/ ContextEnds
    \/ HealthTick \/ HealthCheck \/ HealthExit
    \/ \E w \in Waiters : Waiting(w)

-----------------------------------------------------------------------------
(* Properties *)

\* What ConnectionStatus and the connection_state metric say (onConnect,
\* onDisconnect, onReconnect, onClosed, onLameDuck): once the dispatcher has
\* caught up, lame duck mode is that of the server of the link and the metric is
\* the link's state, unless NewClient recorded last what it had read before an
\* event whose callback came first.
StatusTracksLink ==
    callbacks = <<>> =>
        /\ inLameDuck = (lame /\ link # "closed")
        /\ gaugeBy = "callback" => gauge = IF IsConnected THEN 1 ELSE 0

\* WaitConnected misses no wakeup: a caller that waits with nothing in its
\* channel waits for a link that is not up. (A link that was closed before the
\* channel was made leaves it waiting for its context.)
NoLostWakeup ==
    \A w \in Waiters : wpc[w] = "select" /\ heard[w] = {} => ~IsConnected
=============================================================================
