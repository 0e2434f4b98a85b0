SPECIFICATION MCSpec
CONSTANTS
  NP = 3
  NFile = 2
  HP = 1
  Rights <- MCRights
  Lens = {1, 2}
  MaxOps = 3
  CarefulGuest = TRUE
  HostAligned = FALSE
INVARIANT PageFlagsExact
PROPERTIES ImplementsAddressSpace HalfPagesSafe
CHECK_DEADLOCK FALSE
