\* One path per tier and two overlapping requests; versions and data sets do
\* not matter here (DataRelease has several).
CONSTANTS
  RtPaths = {rt}
  StaticPaths = {static}
  OtherPaths = {other}
  RtTtl = 1
  StaticTtl = 2
  Versions = {v1}
  FirstVersion = v1
  Data = {d1}
  FirstData = d1
  Requests = {r1, r2}
  MaxFetch = 2
  MaxTime = 5
  NoEntry = NoEntry
SPECIFICATION Spec
SYMMETRY Symmetry
INVARIANTS
  HitAge
PROPERTIES
  TiersImplementTtlCache
