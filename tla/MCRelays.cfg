CONSTANTS
  Owners = {o1, o2, o3}
  Prints = {p1, p2}
  Ids = {live, page}
  Live = {live}
  Oversized = {}
  Sockets = {s1, s2}
  None = none
  MaxActive = 1
  MaxPending = 1
  Kinds = {"eose", "reason"}
SYMMETRY Symmetry
SPECIFICATION MCSpec
INVARIANTS WireOnlyWhileVisible LeaseHasOwner ActiveIsServed
PROPERTIES NoCutUnderVisibleOwner
\* A closed client has no step left.
CHECK_DEADLOCK FALSE
