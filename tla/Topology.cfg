\* Two nodes at creation and four identities: a subtree can be cloned beside its
\* source.  Two patches, in one batch or two, with edits, adoptions and a baseline between.
CONSTANTS
  Slots = {"children", "uses"}
  Owned = {"children"}
  Single = {"uses"}
  MaxBirths = 2
  MaxNode = 4
  MaxEdge = 3
  MaxWork = 2
SPECIFICATION Spec
PROPERTIES OnlyTheOwnedIsTaken ResetRestores ClonesAreFaithful IdentitiesStandForOneThing
\* Identities and patches are bounded.
CHECK_DEADLOCK FALSE
