CONSTANTS
  UsizeBits <- MCUsizeBits
  SizeValues <- MCSizeValues
  CountValues <- MCCountValues
  Queries <- MCQueries
  AccelValues <- MCAccelValues
  AuthValues <- MCAuthValues
  BodyChunks <- MCBodyChunks
  MaxChunks <- MCMaxChunks
SPECIFICATION Spec
INVARIANTS
  TypeOK
  ResponseHead
  ResponseBody
\* A request ends when its body is complete or its connection is dropped.
CHECK_DEADLOCK FALSE
