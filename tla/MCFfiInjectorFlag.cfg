CONSTANTS
  Bytes <- MCBytes
  Whitespace <- MCWhitespace
  Docs <- MCDocs
  ChunkSizes <- MCChunkSizes
  Snippets <- MCSnippetContents
  LateChunks <- MCLateChunks
  SnippetContents <- MCSnippetContents
  ErrorCodes <- MCErrorCodes
  U32Bits <- MCU32Bits

SPECIFICATION FfiSpec

PROPERTIES
  InjectedMeansThisCall

\* the host's work ends when it releases the injector
CHECK_DEADLOCK FALSE
