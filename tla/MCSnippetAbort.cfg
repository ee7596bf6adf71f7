CONSTANTS
  Inputs <- MCInputs

SPECIFICATION Spec

INVARIANTS
  AlwaysReturnsSnippet

\* a host stops after snippet_cleanup, the CLI after one run, and an
\* aborted process stops
CHECK_DEADLOCK FALSE
