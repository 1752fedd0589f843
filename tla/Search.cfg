\* A phone, where the box is not mounted on Nearby, and a desktop; the model has
\* no bounds.
CONSTANTS
  Stops = {"s1", "s2"}
  Routes = {"r66", "r801"}
  Terms <- ConstTerms
  Special <- ConstSpecial
  Results <- ConstResults
  None = None
SPECIFICATION Spec
INVARIANTS
  TypeOK
  BoxFollowsPage
