SPECIFICATION MCSpec
CONSTANTS
  Depth = 4
  PTR = 2
  Data = {d1, d2}
PROPERTIES ImplementsQueue HoldsOffer NeitherStarves ImplementsPointers Recovers
