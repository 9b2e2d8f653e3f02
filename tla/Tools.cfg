SPECIFICATION MCSpec
CONSTANTS
  Ring = 3
  Numbers = 5
  MaxDumps = 2
  TraceResets = 1
  KeepsCapture = FALSE
  BootResets = 2
  StatusWords = 2
  Moments = 3
  Passing <- MCPassing
  MaxCapture = 7
  WordBytes = 2
  Reserved = 4
  PayloadLimit = 4
  Files <- MCFiles
  Timeout = 5
  ImageResets = 1
  FlashBytes = 4
  MinimumSpare = 1
  Layouts <- MCLayouts
  Assets <- MCAssets
  Limit = 3
INVARIANTS TraceDecoded CaptureExact ReportWhole ImageLoaded LayoutSafe SessionMeans
PROPERTIES ToolsEnd
