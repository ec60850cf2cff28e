\* Three calls of three keys in a cache of two entries, with and without
\* bypassCache, over two ticks.
SPECIFICATION SortedSpec
CONSTANTS
  Keys = {1, 2, 3}
  Requests = {1, 2, 3}
  TTL = 1
  MaxEntries = 2
  MaxTime = 2
  Bypass = {TRUE, FALSE}
  None = None
INVARIANTS
  SingleExecution
  PendingRuns
  ReadsNeverGoBack
  StalenessBound
PROPERTIES
  EveryCallAnswered
