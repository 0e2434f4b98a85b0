SPECIFICATION MCSpec
CONSTANTS
  PageSize = 3
  NP = 6
  HeapPage = 2
  Segments <- MCSegments
  N_SHM_REGIONS = 2
  MaxCalls <- MCCalls
INVARIANTS StackIsReadable ImageIsLoaded  CheckedAccessIsSafe
PROPERTY HeapKeepsContents
