\* The instance of Topology.cfg.
CONSTANTS
  Slots = {"children", "uses"}
  Owned = {"children"}
  Single = {"uses"}
  MaxBirths = 2
  MaxNode = 4
  MaxEdge = 3
  MaxWork = 2
SPECIFICATION Spec
PROPERTY BareRefsAreAssociated
CHECK_DEADLOCK FALSE
