\* Two stops and one bus that may be due at either.  From the first position
\* the first stop is in reach; from the second none is, and the second stop only
\* in the wide reach.  One unit of time makes a cached
\* answer older than one that comes (MaxAge = 0).
CONSTANTS
  s1 = s1
  s2 = s2
  Stops = {s1, s2}
  Trips = {t1}
  Positions = {0, 6}
  StopAt <- MCStopAt
  Radius = 1
  WideRadius = 3
  Reselect = 1
  MaxAge = 0
  MaxTime = 1
  None = None
  Away = Away
  Follow = Follow
SPECIFICATION FairSpec
INVARIANTS
  MapShowsTheStop
  SelectedIsListed
  HighlightIsListed
PROPERTIES
  SelectionKept
  AnswerSetsClock
  OldListGoes
