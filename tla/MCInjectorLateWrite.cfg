CONSTANTS
  Bytes <- MCBytes
  Whitespace <- MCWhitespace
  Docs <- MCDocs
  ChunkSizes <- MCChunkSizes
  Snippets <- MCSnippets
  LateChunks <- MCLateChunks

SPECIFICATION LateSpec

INVARIANTS
  MisuseNeverOverrunsAnnouncement


\* a session ends after end(); nothing follows
CHECK_DEADLOCK FALSE
