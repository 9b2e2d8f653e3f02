SPECIFICATION Spec
CONSTANTS
  t1 = t1
  t2 = t2
  t3 = t3
  v1 = v1
  v2 = v2
  Tags = {t1, t2, t3}
  NSets = 1
  Values = {v1, v2}
  READ_ONLY = FALSE
  Requests <- Evictions
INVARIANTS Coherent
PROPERTIES ImplementsMemory
