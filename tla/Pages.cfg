\* Answers of any of four trips of three routes, filters of any length the
\* buttons can make; four instants of two days, nine buses, delays on both
\* sides of one and two minutes and of more than an hour.
CONSTANTS
  Routes <- ConstRoutes
  Trips <- ConstTrips
  Arrival <- ConstArrival
  Minute <- ConstMinute
  Clock <- ConstClock
  Dues <- ConstDues
  Delays <- ConstDelays
  None = None
SPECIFICATION Spec
INVARIANTS
  TypeOK
  PressedIsShown
  RowTimeIsTrue
  StatusIsFair
PROPERTIES
  SelectorAnswers
  DirectionShown
