CONSTANTS
  Bytes <- MCBytes
  Whitespace <- MCWhitespace
  Chunks <- MCChunks
  MaxPending <- MCMaxPending

SPECIFICATION Spec

INVARIANTS
  TypeOK


  

\* the caller stops scanning after a match, and at the pending bound
CHECK_DEADLOCK FALSE
