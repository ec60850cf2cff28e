\* Two sources that refer to each other; b may be created and deleted while
\* loads are in flight.  At most one load of each scope runs: three identities.
SPECIFICATION FairSpec
CONSTANTS
  a = a
  b = b
  Sources = {a, b}
  Permanent = {a}
  Deps <- MutualDeps
  Callers = {r1, r2, r3}
  LoadIds = {1, 2, 3}
  All = All
  None = None
INVARIANTS
  SingleFlight
  PreloadDelivers
  FullyLoadedIsComplete
  LoadsNeverDuplicate
  OnlyRemovalDeadlocks
PROPERTIES
  LoadDeliversDependencies
  EveryRequestAnswered
\* A wait cycle closed by a deletion stops the requests in it for good.
CHECK_DEADLOCK FALSE
