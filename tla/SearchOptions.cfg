\* Three recent searches are one more than the bound of two.
CONSTANTS
  Stops = {"s1"}
  Routes = {"r66"}
  Terms <- ConstTerms
  Results <- ConstResults
  MAX_RECENT_OPTIONS = 2
  MAX_OPTIONS = 2
  None = None
SPECIFICATION OptionsFairSpec
INVARIANTS
  OptionsTypeOK
  RecentsReachable
PROPERTIES
  TypedIsSearched
