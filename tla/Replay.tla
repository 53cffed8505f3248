------------------------------- MODULE Replay -------------------------------
(***************************************************************************)
(* replay.go and dlq/replay.go: reading a stream by sequence number while   *)
(* the stream loses messages. The search for the sequence number of a time  *)
(* (FindFirstSeqAtOrAfter, FindLastSeqAtOrBefore), the walk over a range    *)
(* (GetMsgRange) and the redrive of a dead-letter stream (ReplayToStream).  *)
(*                                                                          *)
(* A message is its sequence number; two neighbours share a timestamp. A    *)
(* request that fails for another reason than ErrMsgNotFound ends the job   *)
(* with an error. Names are valid; contents and headers are left out, but   *)
(* for the filter of the redrive.                                           *)
(***************************************************************************)
EXTENDS Integers, Sequences, FiniteSets, FiniteSetsExt

CONSTANTS
    Jobs,          \* jobs to consider: "first", "last", "range", "redrive"
    MaxSeq,        \* bound: sequence numbers
    MaxPrevWalk,   \* of getExistingAtOrNear
    MaxMessages,   \* WithMaxMessages of a range, ReplayConfig.Limit of a redrive
    Matching,      \* messages that pass the filters of a redrive
    MaxDeletes     \* bound: messages lost during a job

ASSUME ReplayAssumption ==
    /\ {MaxSeq, MaxPrevWalk, MaxMessages} \subseteq Nat \ {0}
    /\ Matching \subseteq 1..MaxSeq /\ MaxDeletes \in Nat

VARIABLES
    existing, lastSeq, deletes, \* the stream
    job,                        \* what is running, with its arguments
    walk                        \* its local state

replayVars == <<existing, lastSeq, deletes, job, walk>>

Time(n) == (n + 1) \div 2
FirstSeq == IF lastSeq = 0 THEN 0 ELSE IF existing = {} THEN lastSeq + 1 ELSE Min(existing)
Ended == {"found", "notfound", "error", "done", "cancelled"}

ReplayTypeOK ==
    /\ lastSeq \in 0..MaxSeq /\ existing \subseteq 1..lastSeq /\ deletes \in 0..MaxDeletes
    /\ job.kind \in Jobs /\ walk.pc \in Ended \cup {"start", "probe", "scan", "fetch", "publish"}
    /\ walk.pc = "probe" => walk.lo \in 1..MaxSeq + 1 /\ walk.hi \in 0..MaxSeq /\ walk.found \in 0..MaxSeq

ReplayJobs ==
    [kind : Jobs \cap {"first", "last"}, time : 0..Time(MaxSeq) + 1]
      \cup [kind : Jobs \cap {"range"}, start : 1..MaxSeq, end : 1..MaxSeq]
      \cup [kind : Jobs \cap {"redrive"}, start : 1..MaxSeq, dryRun : BOOLEAN]

ReplayInit ==
    /\ lastSeq \in 0..MaxSeq /\ existing \in SUBSET (1..lastSeq) /\ deletes = 0
    /\ job \in ReplayJobs /\ walk = [pc |-> "start"]

\* The stream loses a message, by its limits, a purge or a delete.
Lose ==
    /\ walk.pc \notin Ended \cup {"start"} /\ deletes < MaxDeletes /\ deletes' = deletes + 1
    /\ \E n \in existing : existing' = existing \ {n}
    /\ UNCHANGED <<lastSeq, job, walk>>

\* One step of the job: the stream stays as it is.
Run(kinds, from) == job.kind \in kinds /\ walk.pc = from /\ UNCHANGED <<existing, lastSeq, deletes, job>>
Goto(pc) == walk' = [walk EXCEPT !.pc = pc]

\* A request fails.
RequestFails == walk.pc \in {"probe", "scan"} /\ Run(Jobs, walk.pc) /\ Goto("error")

-----------------------------------------------------------------------------
(* The search: one step is an iteration of the loop, with all its requests *)

\* StreamInfo
SearchStart ==
    /\ Run({"first", "last"}, "start")
    /\ walk' = IF lastSeq = 0 THEN [pc |-> "notfound", found |-> 0, cut |-> FALSE, rounds |-> 0]
               ELSE [pc |-> "probe", first |-> FirstSeq, lo |-> FirstSeq, hi |-> lastSeq, found |-> 0,
                     rounds |-> 0, cut |-> FALSE]

GetNextMsgAfter(n) == {m \in existing : n < m /\ m <= lastSeq}

\* The message at n, else the next one, else the last of the MaxPrevWalk before; 0 is none.
getExistingAtOrNear(n, first) ==
    LET before == {m \in existing : first <= m /\ m <= n /\ n - m < MaxPrevWalk}
    IN IF n \in existing THEN n
       ELSE IF GetNextMsgAfter(n) # {} THEN Min(GetNextMsgAfter(n))
       ELSE IF before # {} THEN Max(before) ELSE 0

\* The loop is over.
SearchEnds == walk' = [walk EXCEPT !.pc = IF walk.found = 0 THEN "notfound" ELSE "found"]

\* rounds counts the iterations, up to one more than there are sequence numbers.
Round == IF walk.rounds > MaxSeq THEN walk.rounds ELSE walk.rounds + 1

\* Mutant: a later message found at or after the time replaces an earlier one.
FindFirstLow(m) ==
    IF Time(m) >= job.time THEN [walk EXCEPT !.found = m, !.lo = m + 1, !.rounds = Round]
    ELSE [walk EXCEPT !.lo = m + 1, !.rounds = Round]

FindFirstSeqAtOrAfter(m) ==
    IF Time(m) >= job.time THEN [walk EXCEPT !.found = m, !.hi = m - 1, !.rounds = Round]
    ELSE [walk EXCEPT !.lo = m + 1, !.rounds = Round]

FindLastSeqAtOrBefore(m) ==
    IF Time(m) <= job.time THEN [walk EXCEPT !.found = m, !.lo = m + 1, !.rounds = Round]
    ELSE [walk EXCEPT !.hi = m - 1, !.rounds = Round]

Probe ==
    /\ Run({"first", "last"}, "probe")
    /\ IF walk.lo > walk.hi \/ walk.hi < walk.first THEN SearchEnds
       ELSE LET m == getExistingAtOrNear(walk.lo + (walk.hi - walk.lo) \div 2, walk.first)
            IN walk' = IF m = 0 THEN [walk EXCEPT !.pc = "notfound", !.cut = TRUE]
                       ELSE IF job.kind = "first" THEN FindFirstSeqAtOrAfter(m) ELSE FindLastSeqAtOrBefore(m)

-----------------------------------------------------------------------------
(* GetMsgRange: one step is one GetMsg; at is the sequence number it asks for *)

RangeStart ==
    /\ Run({"range"}, "start")
    /\ walk' = IF job.end < job.start THEN [pc |-> "error"]
               ELSE [pc |-> IF job.start > lastSeq THEN "done" ELSE "scan", out |-> <<>>, truncated |-> FALSE,
                     at |-> job.start, end |-> IF job.end > lastSeq THEN lastSeq ELSE job.end]

\* Mutant: the message that tells a truncated range from a complete one is not asked for.
ScanNoPeek ==
    /\ Run({"range"}, "scan")
    /\ walk' = IF walk.at > walk.end \/ Len(walk.out) >= MaxMessages THEN [walk EXCEPT !.pc = "done"]
               ELSE IF walk.at \notin existing THEN [walk EXCEPT !.at = @ + 1]
               ELSE [walk EXCEPT !.out = Append(@, walk.at), !.at = @ + 1]

\* nextExisting within the loop; once full, a further message makes it truncated.
Scan ==
    /\ Run({"range"}, "scan")
    /\ walk' = IF walk.at > walk.end THEN [walk EXCEPT !.pc = "done"]
               ELSE IF walk.at \notin existing THEN [walk EXCEPT !.at = @ + 1]
               ELSE IF Len(walk.out) >= MaxMessages THEN [walk EXCEPT !.truncated = TRUE, !.pc = "done"]
               ELSE [walk EXCEPT !.out = Append(@, walk.at), !.at = @ + 1]

-----------------------------------------------------------------------------
(* ReplayToStream: one step fetches a message, the next publishes it *)

RedriveStart ==
    /\ Run({"redrive"}, "start")
    /\ walk' = [pc |-> "fetch", considered |-> 0, matched |-> 0, skipped |-> 0, published |-> <<>>, last |-> 0]

\* The next message: at start or after it the first time, then after the last.
Fetched == {n \in existing : IF walk.considered = 0 THEN n >= job.start ELSE n > walk.last}

\* A message that does not pass the filters is skipped; one that does is published,
\* unless it is a dry run. Any failed request ends the redrive like the end of the stream.
Fetch ==
    /\ Run({"redrive"}, "fetch")
    /\ \/ /\ walk.considered < MaxMessages /\ Fetched # {}
          /\ LET n == Min(Fetched)
                 seen == [walk EXCEPT !.last = n, !.considered = @ + 1]
             IN walk' = IF n \notin Matching THEN [seen EXCEPT !.skipped = @ + 1]
                        ELSE [seen EXCEPT !.matched = @ + 1, !.pc = IF job.dryRun THEN "fetch" ELSE "publish"]
       \/ Goto("done")
       \/ walk.considered < MaxMessages /\ Goto("cancelled")

\* The context can end in the pause for the rate limit; an error can hide that the
\* message was stored.
Publish ==
    /\ Run({"redrive"}, "publish")
    /\ \/ walk' = [walk EXCEPT !.published = Append(@, walk.last), !.pc = "fetch"]
       \/ walk' = [walk EXCEPT !.published = Append(@, walk.last), !.pc = "cancelled"]
       \/ walk' = [walk EXCEPT !.published = Append(@, walk.last), !.pc = "error"]
       \/ Goto("error")

Searching == SearchStart \/ Probe
Ranging   == RangeStart \/ Scan
Redriving == RedriveStart \/ Fetch \/ Publish
ReplayNext == Lose \/ RequestFails \/ Searching \/ Ranging \/ Redriving
ReplaySpec == ReplayInit /\ [][ReplayNext]_replayVars

-----------------------------------------------------------------------------
(* Properties *)

\* The messages a search is for.
Sought == {n \in existing : IF job.kind = "first" THEN Time(n) >= job.time ELSE Time(n) <= job.time}

\* When a search returns and the stream lost nothing meanwhile, its answer is the
\* first message at or after the time (the last at or before), gaps in the stream
\* or not, and there is none when it says so, unless the walk before a gap of
\* more than MaxPrevWalk was cut short.
SearchIsRight ==
    job.kind \in {"first", "last"} /\ deletes = 0 =>
        /\ walk.pc = "found" => walk.found = IF job.kind = "first" THEN Min(Sought) ELSE Max(Sought)
        /\ walk.pc = "notfound" /\ ~walk.cut => Sought = {}

\* A search looks at the stream no more often than the stream has sequence numbers:
\* getExistingAtOrNear bounds its walk "so sparse deleted ranges cannot issue O(gap) RPCs".
SearchIsBounded == job.kind \in {"first", "last"} /\ walk.pc # "start" => walk.rounds <= MaxSeq

\* What a range or a redrive has passed it has returned or published, in order,
\* although other messages were lost meanwhile: every message still there. A range
\* is marked truncated exactly when it is full and a message was left; a redrive
\* leaves out only what its filters skip and the one message it failed on, the
\* last, to which LastSeq already points.
WalksSkipNothing ==
    /\ job.kind = "range" /\ walk.pc = "done" =>
         /\ \A i \in 1..Len(walk.out) - 1 : walk.out[i] < walk.out[i + 1]
         /\ LET left == {n \in existing \cap (job.start..walk.end) : \A i \in DOMAIN walk.out : walk.out[i] # n}
            IN /\ Len(walk.out) < MaxMessages => left = {}
               /\ \A n \in left : n > walk.out[Len(walk.out)]
               /\ left # {} => walk.truncated
    /\ job.kind = "redrive" /\ walk.pc \in Ended /\ ~job.dryRun =>
         /\ \A i \in 1..Len(walk.published) - 1 : walk.published[i] < walk.published[i + 1]
         /\ walk.considered = walk.matched + walk.skipped
         /\ \A n \in existing \cap Matching \cap (job.start..walk.last) :
              \/ \E i \in DOMAIN walk.published : walk.published[i] = n
              \/ walk.pc = "error" /\ n = walk.last
=============================================================================
