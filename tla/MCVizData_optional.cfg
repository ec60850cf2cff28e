CONSTANTS
  Readers = {r1}
  Cached = {k1}
  Live = {s1}
  MaxEntries = 1
  MaxAge = 2
  Timeout = 1
  MaxLoads = 2
  MaxTime = 3
  MaxResets = 1
  Missing = Missing
  Ttl <- MCTtl
SPECIFICATION VizSpec
PROPERTIES
  StorageIsOptional
