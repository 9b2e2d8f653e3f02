SPECIFICATION MCSpec
CONSTANTS
  NumSources = 2
  NumContexts = 2
  MaxPriority = 2
  Half = 3
  CYCLES_PER_TICK = 2
  Devices = {"clint", "uart"}
  Unmapped = "unmapped"
  Depth = 2
  Trigger = 2
  Bytes = {"a", "b"}
  BUTTON_STABLE_CYCLES = 2
  QUIET_CYCLES = 4
  Latency = 4
  Capacity = 2
INVARIANTS ServedOnce TimerExact AccessOnce ConsoleKept
PROPERTIES IrqHolds
