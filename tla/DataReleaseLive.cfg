\* Liveness: steps may fail and runs may be started again; no request in flight
\* is needed.
CONSTANTS
  RtPaths = {}
  StaticPaths = {static}
  OtherPaths = {}
  RtTtl = 1
  StaticTtl = 1
  Requests = {}
  MaxFetch = 1
  MaxTime = 0
  NoEntry = NoEntry
  Runs = {run1, run2, run3}
  Versions <- ConstVersions
  FirstVersion = v1
  Data <- Database
  FirstData <- FirstDatabase
  MaxFeed = 0
  MaxEtl = 0
  Failures = TRUE
  Reruns = TRUE
SPECIFICATION ReleaseFairSpec
PROPERTY RunsEnd
