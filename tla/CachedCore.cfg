SPECIFICATION Spec
CONSTANTS
  NAddrs = 2
  Values = {"x", "y"}
INVARIANTS FetchesFresh
