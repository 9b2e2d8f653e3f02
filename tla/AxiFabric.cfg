SPECIFICATION MCSpec
CONSTANTS
  N = 4
  Readers <- All
  Writers <- Active
  Requests <- MCRequests
  DMA_UNCACHED_ONLY = TRUE
INVARIANTS EachAnswered SlavesServeOwner BypassBounded
PROPERTIES AllServed
