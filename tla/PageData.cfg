\* Two routes, the first of them the placeholder, and two versions of the feed:
\* enough for a snapshot, a cached answer and a running fetch to differ.
CONSTANTS
  r1 = r1
  r2 = r2
  b1 = b1
  b2 = b2
  b3 = b3
  Routes = {r1, r2}
  Placeholder = r1
  Buses = {b1, b2, b3}
  Unnamed = {b3}
  BusRoute <- MCBusRoute
  MaxFeed = 2
  None = None
SPECIFICATION FairSpec
INVARIANTS
  OneRouteOnMap
  RouteAtRest
  EachBusOnce
PROPERTIES
  RoutePageStaysLive
