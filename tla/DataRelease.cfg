\* Three runs that may overlap, one static path and one request in flight.
\* Entries never expire here, which is the worst case for stale ones.
CONSTANTS
  RtPaths = {}
  StaticPaths = {static}
  OtherPaths = {}
  RtTtl = 1
  StaticTtl = 1
  Requests = {r1}
  MaxFetch = 1
  MaxTime = 0
  NoEntry = NoEntry
  Runs = {run1, run2, run3}
  Versions <- ConstVersions
  FirstVersion = v1
  Data <- Database
  FirstData <- FirstDatabase
  MaxFeed = 2
  MaxEtl = 1
  Failures = FALSE
  Reruns = FALSE
SPECIFICATION ReleaseSpec
SYMMETRY Symmetry
INVARIANTS
  SettledFeedLive
PROPERTY NoRollback
