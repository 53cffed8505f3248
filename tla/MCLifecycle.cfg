\* Two attempts to connect and two changes of the link; two publishers over a limit of
\* one; one record and two flushes; two handlers.
SPECIFICATION FairSpec
CONSTANTS
  Attempts = 2
  MaxEvents = 2
  Waiters = {w1}
  Procs = {p1, p2}
  MaxAsyncPending = 1
  MaxPublishes = 2
  Records = {r1}
  Flushers = {f1, f2}
  Limit = 1
  MaxFaults = 1
  MaxFlushes = 2
  Loads = {"connect", "waiters", "async", "outbox", "handlers"}
  Tasks = {t1, t2}
  MaxCalls = 2
INVARIANTS TypeOK StatusTracksLink NoLostWakeup  RecordsAreKept DuplicatesHaveCause DrainComesLast
PROPERTIES ShutdownEnds
CHECK_DEADLOCK FALSE
