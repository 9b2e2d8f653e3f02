SPECIFICATION Spec
CONSTANTS
  Cpu = {c}
  Loader = {l}
  Dests = {"ddr", "mmio"}
  Writing = TRUE
  Depth = 1
  Lives = 3
INVARIANTS AnsweredOnce NoOrphans
