\* Three transactions of any kind over one element and one filter; three loads of
\* a cached key or a shared live one.
SPECIFICATION DashboardSpec
CONSTANTS
  Elements = {e1}
  Filters = {f1}
  Tx = {t1, t2, t3}
  Kinds <- Ops
  Seed = Seed
  None = None
  Same = Same
  Readers = {r1}
  Cached = {k1}
  Live = {s1}
  MaxEntries = 1
  MaxAge = 2
  Timeout = 1
  MaxLoads = 3
  MaxTime = 3
  MaxResets = 1
  Missing = Missing
  Ttl <- MCTtl
SYMMETRY Symmetric
INVARIANTS
  PublishedVersionExists
  NumbersFollowCommits
  PublishIsCurrent
  MirrorLagsOnlyByRace
  LoadsAreShared
  ClearForgets
PROPERTIES
  ReplacesExactly
  StalenessIsBounded
