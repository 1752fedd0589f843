\* Ten units to a day, a window of four and a lookback of three; the clock goes
\* from the evening of day 1 into day 2.
CONSTANTS
  Day = 10
  ScheduleLookback = 3
  WindowPast = 1
  WindowAhead = 4
  MaxArrivals = 2
  Arriving = 1
  ArrivingNextStop = 2
  ArrivingGrace = 2
  TrackMaxStops = 3
  TrackHeadStops = 1
  None = None
  Here = Here
  A = A
  B = B
  Loop = Loop
  Simple = Simple
  Trips = {Loop, Simple}
  Stops = {Here, A, B}
  Timetables <- MCTimetables
  Reports <- MCReports
  LoopStarts = {0, 6, 9}
  SimpleStarts = {2, 8, 11}
  SimpleDays = {1, 2}
  ReportDates = {1, 2}
  StartTime = 16
  MaxTime = 22
  MaxWait = 1
SPECIFICATION Spec
INVARIANTS
  TypeOK
  DueBusesShown
  OneEntryPerVisit
  TrackMatchesCount
  TrackTimes
  NextIsFirst
