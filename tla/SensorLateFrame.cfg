CONSTANTS
  MaxRounds = 3
  MaxChunks = 2
SPECIFICATION Spec
INVARIANT EmptyMeansSilent
