\* One worker (workers share nothing) and two requests that meet in it;
\* fetches of up to two units overlap and finish in either order.  Six units of
\* time see an entry stored, used, expired and fetched again, and are as long as
\* the bound on the skew of a snapshot: a fetch, an entry used to the end of its
\* TTL, and another fetch.
CONSTANTS
  Workers = {w1}
  Requests = {r1, r2}
  TTL = 2
  MaxFetch = 2
  MaxTime = 6
  NoEntry = NoEntry
SPECIFICATION Spec
SYMMETRY Symmetry
INVARIANTS
  AnswerAge
  SnapshotSkew
PROPERTIES
  BoundedRegress
  ImplementsTtlCache
