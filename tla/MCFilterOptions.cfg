\* Two controls that change between a field and two dynamic sources.
SPECIFICATION FairSpec
CONSTANTS
  Dynamic = {d1, d2}
  Field = {s1}
  Controls = {c1, c2}
  Fetches = {f1, f2, f3}
  None = None
INVARIANTS
  FetchedOnce
  OwnOptions
PROPERTIES
  LoadingEnds
