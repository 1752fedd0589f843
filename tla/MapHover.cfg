\* Two stops and two vehicles: a timer of the first can meet the second.
\* No bound: timers that are never lost keep the state space finite.
CONSTANTS
  Stops = {s1, s2}
  Vehicles = {v1, v2}
  None = None
SPECIFICATION FairSpec
INVARIANTS
  HoverUnderPointer
  NoLostTimer
PROPERTIES
  OnlyRowsAddPopup
  HoverEnds
