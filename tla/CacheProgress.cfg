SPECIFICATION MCSpec
CONSTANTS
  t1 = t1
  t2 = t2
  t3 = t3
  v1 = v1
  v2 = v2
  Tags = {t1, t2}
  NSets = 2
  Values = {v1, v2}
  READ_ONLY = FALSE
  Requests <- Scans
INVARIANTS CleanIsComplete
PROPERTIES AllEnds FenceEnds
