---------------------------- MODULE StreamingInjection ----------------------------
(***************************************************************************)
(* What the streaming injector promises, with no scanner and no buffers:  *)
(* after each chunk, the bytes emitted so far are exactly what the        *)
(* document received so far commits (HeadTag!Committed): everything up to *)
(* the bytes that may still be the start of a `</head>` tag, with the     *)
(* snippet in front of the first tag once one has arrived.  What is held  *)
(* back is exactly that candidate.  At the end, the output is the whole   *)
(* document with the snippet before its first tag, or padded with spaces. *)
(*                                                                         *)
(* A chunk is any extension of what was received; the step says nothing  *)
(* of how the injector finds out what to emit.                             *)
(***************************************************************************)
EXTENDS HeadTag

VARIABLES
  snippet,    \* the bytes to inject
  received,   \* the concatenation of the chunks written so far
  out,        \* the concatenation of the bytes emitted so far
  withheld,   \* the bytes received but not yet emitted
  injected,   \* whether the snippet has been emitted
  ended       \* whether the document has been finished

vars == <<snippet, received, out, withheld, injected, ended>>

Init ==
  /\ received = <<>>
  /\ out = <<>>
  /\ withheld = <<>>
  /\ injected = FALSE
  /\ ended = FALSE

Receive ==
  /\ ~ended
  /\ IsPrefix(received, received')
  /\ injected' = HasTag(received')
  /\ out' = Committed(received', snippet)
  /\ withheld' = IF injected' THEN <<>> ELSE Candidate(received')
  /\ UNCHANGED <<snippet, ended>>

Finish ==
  /\ ~ended
  /\ ended' = TRUE
  /\ out' = Final(received, snippet)
  /\ withheld' = <<>>
  /\ UNCHANGED <<snippet, received, injected>>

Next == Receive \/ Finish

Spec == Init /\ [][Next]_vars
=============================================================================
