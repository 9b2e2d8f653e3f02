SPECIFICATION FairSpec
CONSTANTS
  Radix = 2
  NoInsn = NoInsn
  NoValue = NoValue
  Bytes <- MCBytes
  Registers <- MCRegisters
  Arguments <- MCArguments
  AlignLimit = 2
  BootLengths <- MCBootLengths
  Queries = 2
  MustAnswer = 1
  Events <- MCEvents
  Answers <- MCAnswers
INVARIANTS NoRunAhead ExitMeans
PROPERTIES OnlyAgreementCounts Terminates
