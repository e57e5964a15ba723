SPECIFICATION Spec
CONSTANTS
  Base = 4
  Types <- MCTypes
  CharSets <- MCFields
  Encodings <- MCFields
  Encryptions <- MCFields
  Compressions <- MCFields
  GenericFile = 3
  PayloadLens <- MCPayloadLens
  FileSizes <- MCFileSizes
  WordBits = 7
  Precisions <- MCPrecisions
  FracBits = 4
CHECK_DEADLOCK FALSE
INVARIANTS
  FieldsSurvive
  IntsSurvive
  
