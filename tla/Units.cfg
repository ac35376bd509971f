\* The list is freed in the end, or was never built.
CHECK_DEADLOCK FALSE
SPECIFICATION FairSpec
CONSTANTS
  ANS_COUNT = 1
  PieceKinds = {"digit", "short", "mid", "long"}
  MaxPieces = 6
  MaxFiles = 2
INVARIANTS
  TypeOK
  LoadsWhatIsThere
  Ring
  NoDangling
  AllFreed
PROPERTY
  LoopsEnd
