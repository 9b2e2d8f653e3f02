SPECIFICATION Spec
CONSTANTS
  Ring = 1
  Numbers = 3
  MaxDumps = 1
  MaxResets = 1
  KeepsCapture = TRUE
INVARIANTS SplicedRejected
