SPECIFICATION Spec
CONSTANTS
  CoverPoints <- MCCoverPoints
  Crosses <- MCCrosses
  Baselines <- MCBaselines
  Attempts = 2
  Sessions = 2
INVARIANTS LedgerExplains ClosedMeans
