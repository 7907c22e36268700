SPECIFICATION MCSpec
CONSTANTS
  r1 = r1
  r2 = r2
  d1 = d1
  d2 = d2
  NoTimer = NoTimer
  NoRecord = NoRecord
  NoPayload = NoPayload
  Calls <- MCCalls
  Records <- MCRecords
  MaxFaults = 1
  MaxCrashes = 1
  e1 = e1
  e2 = e2
  e3 = e3
  Gateways = {g1, g2}
  Entries = {e1, e2, e3}
  LogPath <- MCLogPath
  MaxLogFaults = 1
  MaxLogStops = 1
  PoolThreads = {q1, q2}
  MaxConfigFaults = 1
  MaxChanges = 2
  MaxTimers = 1
INVARIANTS
  LabeledOnce
  GoldDoublesOverlap
  ProgressShowsLabels
  OneTimerUnlessRaced
PROPERTIES
  DebounceImplementsPromise
  EntriesReachLog
  ConfigFollows
CHECK_DEADLOCK FALSE
