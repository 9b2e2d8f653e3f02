SPECIFICATION FairSpec
CONSTANTS
  Ext = {2, 3}
  NBeats = 2
  Lanes = {0, 1}
  CpuWords <- MCCpuWords
  Values = {0, 1}
  Amo <- MCAmo
INVARIANTS AmoUndisturbed ScUndisturbed ReadOnce
PROPERTIES SnoopExact AtomicEnds
