\* Two requests; every setting in a layer and in one stronger than it.
CONSTANTS
  Request = {r1, r2}
  Layer = {"environment", "provided_flags"}
SPECIFICATION FairSpec
INVARIANTS LifecycleInv StrongestWordGoverns
PROPERTIES AcceptedAreAnswered DrainsEnd
CHECK_DEADLOCK FALSE
