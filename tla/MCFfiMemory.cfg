CONSTANTS
  r1 = r1
  r2 = r2
  Requests <- MCRequests
  MaxCalls <- MCMaxCalls

SYMMETRY MCSymmetry

SPECIFICATION Spec

INVARIANTS
  TypeOK
  HeldSlicesLive

\* the host stops once every response is served and the snippet is freed
CHECK_DEADLOCK FALSE
