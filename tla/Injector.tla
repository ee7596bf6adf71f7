------------------------------- MODULE Injector -------------------------------
(***************************************************************************)
(* The session-scoped injector of lib/inject-browser-sdk/src/injector.rs, *)
(* driven the way its tests drive it (test_injector): a document is       *)
(* written chunk by chunk, chunks of any size including empty ones, and   *)
(* `end` is called once after the last chunk.                              *)
(*                                                                         *)
(* State of `struct Injector`: snippet, the locator's `index`, injected,   *)
(* incomplete_data, incomplete_data_public_ref, padding_spaces; and the    *)
(* `Result` of the last call.  The caller's side is doc/pos (the document *)
(* and how much of it was written), and the histories received (all      *)
(* chunks) and out (all returned slices, concatenated in order).          *)
(***************************************************************************)
EXTENDS InjectionPointLocator, SequencesExt

CONSTANTS
  Docs,         \* the documents a session may be given
  ChunkSizes,   \* the sizes of chunk the caller writes (besides "the rest")
  Snippets,     \* the snippets a session may be created with
  LateChunks    \* chunks a misbehaving caller writes after end

VARIABLES
  snippet, index, injected,
  incomplete_data, incomplete_data_public_ref, padding_spaces,
  result,
  doc, pos, received, out, ended

injectorVars == <<snippet, index, injected, incomplete_data,
                  incomplete_data_public_ref, padding_spaces, result>>
callerVars == <<doc, pos, received, out, ended>>
vars == <<injectorVars, callerVars>>

Tag == INSTANCE HeadTag

(***************************************************************************)
(* Slices and results.  A slice passed to create_result is its bytes and  *)
(* the buffer they live in; the buffer is what the pointer comparisons of *)
(* create_result tell apart.                                               *)
(***************************************************************************)
Buffers == {"chunk", "public_ref", "padding", "snippet"}

Slice(bytes, buffer) == [bytes |-> bytes, buffer |-> buffer]

(* create_result: drop the empty slices; a slice is from the incoming     *)
(* chunk unless its pointer is that of incomplete_data_public_ref,        *)
(* padding_spaces or the snippet.  `injected` is read after the caller    *)
(* has set it, so it is passed in.                                         *)
create_result(slices, isInjected) ==
  LET nonEmpty == SelectSeq(slices, LAMBDA s : s.bytes # <<>>)
  IN  [slices   |-> [k \in DOMAIN nonEmpty |->
                      [bytes |-> nonEmpty[k].bytes,
                       from_incoming_chunk |->
                         nonEmpty[k].buffer \notin {"public_ref", "padding", "snippet"}]],
       injected |-> isInjected]

ResultBytes(r) == FlattenSeq([k \in DOMAIN r.slices |-> r.slices[k].bytes])

(* chunk[..i] and chunk[i..] for a 0-based offset i. *)
Before(chunk, i) == SubSeq(chunk, 1, i)
From(chunk, i) == SubSeq(chunk, i + 1, Len(chunk))

(***************************************************************************)
(* Injector::new                                                           *)
(***************************************************************************)
InjectorInit ==
  /\ snippet \in Snippets
  /\ index = 0
  /\ injected = FALSE
  /\ incomplete_data = <<>>
  /\ incomplete_data_public_ref = <<>>
  /\ padding_spaces = <<>>
  /\ result = [slices |-> <<>>, injected |-> FALSE]

(***************************************************************************)
(* Injector::write, one action per branch.                                 *)
(***************************************************************************)
WriteInjected(chunk) ==
  /\ injected
  /\ result' = create_result(<<Slice(chunk, "chunk")>>, injected)
  /\ UNCHANGED <<snippet, index, injected, incomplete_data,
                 incomplete_data_public_ref, padding_spaces>>

WriteNone(chunk) ==
  LET s == Scan(index, chunk) IN
  /\ ~injected
  /\ s.location.kind = "None"
  /\ index' = s.index
  /\ incomplete_data_public_ref' = incomplete_data
  /\ incomplete_data' = <<>>
  /\ result' = create_result(<<Slice(incomplete_data, "public_ref"),
                               Slice(chunk, "chunk")>>, injected)
  /\ UNCHANGED <<snippet, injected, padding_spaces>>

WritePotentialFromPreviousChunk(chunk) ==
  LET s == Scan(index, chunk) IN
  /\ ~injected
  /\ s.location.kind = "PotentialFromPreviousChunk"
  /\ index' = s.index
  /\ incomplete_data' = incomplete_data \o chunk
  /\ result' = create_result(<<>>, injected)
  /\ UNCHANGED <<snippet, injected, incomplete_data_public_ref, padding_spaces>>

(* Mutant: chunk[index + 1..] buffered, losing the '<'. *)
WritePotentialFromIndexPastLt(chunk) ==
  LET s == Scan(index, chunk) IN
  /\ ~injected
  /\ s.location.kind = "PotentialFromIndex"
  /\ index' = s.index
  /\ incomplete_data_public_ref' = incomplete_data
  /\ incomplete_data' = From(chunk, s.location.at + 1)
  /\ result' = create_result(<<Slice(incomplete_data, "public_ref"),
                               Slice(Before(chunk, s.location.at), "chunk")>>,
                             injected)
  /\ UNCHANGED <<snippet, injected, padding_spaces>>

WritePotentialFromIndex(chunk) ==
  LET s == Scan(index, chunk) IN
  /\ ~injected
  /\ s.location.kind = "PotentialFromIndex"
  /\ index' = s.index
  /\ incomplete_data_public_ref' = incomplete_data
  /\ incomplete_data' = From(chunk, s.location.at)
  /\ result' = create_result(<<Slice(incomplete_data, "public_ref"),
                               Slice(Before(chunk, s.location.at), "chunk")>>,
                             injected)
  /\ UNCHANGED <<snippet, injected, padding_spaces>>

(* Mutant: the order spec.md 4.2 gives, withheld bytes before the snippet. *)
WriteMatchFromPreviousChunkPendingFirst(chunk) ==
  LET s == Scan(index, chunk) IN
  /\ ~injected
  /\ s.location.kind = "MatchFromPreviousChunk"
  /\ index' = s.index
  /\ incomplete_data_public_ref' = incomplete_data
  /\ incomplete_data' = <<>>
  /\ injected' = TRUE
  /\ result' = create_result(<<Slice(incomplete_data, "public_ref"),
                               Slice(snippet, "snippet"),
                               Slice(chunk, "chunk")>>, TRUE)
  /\ UNCHANGED <<snippet, padding_spaces>>

WriteMatchFromPreviousChunk(chunk) ==
  LET s == Scan(index, chunk) IN
  /\ ~injected
  /\ s.location.kind = "MatchFromPreviousChunk"
  /\ index' = s.index
  /\ incomplete_data_public_ref' = incomplete_data
  /\ incomplete_data' = <<>>
  /\ injected' = TRUE
  /\ result' = create_result(<<Slice(snippet, "snippet"),
                               Slice(incomplete_data, "public_ref"),
                               Slice(chunk, "chunk")>>, TRUE)
  /\ UNCHANGED <<snippet, padding_spaces>>

(* Mutant: the bytes withheld before the match are not flushed. *)
WriteMatchFromIndexUnflushed(chunk) ==
  LET s == Scan(index, chunk) IN
  /\ ~injected
  /\ s.location.kind = "MatchFromIndex"
  /\ index' = s.index
  /\ incomplete_data_public_ref' = incomplete_data
  /\ incomplete_data' = <<>>
  /\ injected' = TRUE
  /\ result' = create_result(<<Slice(Before(chunk, s.location.at), "chunk"),
                               Slice(snippet, "snippet"),
                               Slice(From(chunk, s.location.at), "chunk")>>, TRUE)
  /\ UNCHANGED <<snippet, padding_spaces>>

WriteMatchFromIndex(chunk) ==
  LET s == Scan(index, chunk) IN
  /\ ~injected
  /\ s.location.kind = "MatchFromIndex"
  /\ index' = s.index
  /\ incomplete_data_public_ref' = incomplete_data
  /\ incomplete_data' = <<>>
  /\ injected' = TRUE
  /\ result' = create_result(<<Slice(incomplete_data, "public_ref"),
                               Slice(Before(chunk, s.location.at), "chunk"),
                               Slice(snippet, "snippet"),
                               Slice(From(chunk, s.location.at), "chunk")>>, TRUE)
  /\ UNCHANGED <<snippet, padding_spaces>>

write(chunk) ==
  \/ WriteInjected(chunk)
  \/ WriteNone(chunk)
  \/ WritePotentialFromPreviousChunk(chunk)
  \/ WritePotentialFromIndex(chunk)
  \/ WriteMatchFromPreviousChunk(chunk)
  \/ WriteMatchFromIndex(chunk)

(***************************************************************************)
(* Injector::end                                                           *)
(***************************************************************************)
(* Mutant: the padding is a copy of the snippet instead of spaces. *)
endPadsWithSnippet ==
  /\ incomplete_data_public_ref' = incomplete_data
  /\ incomplete_data' = <<>>
  /\ \/ /\ injected
        /\ result' = create_result(<<Slice(incomplete_data, "public_ref")>>, injected)
        /\ UNCHANGED padding_spaces
     \/ /\ ~injected
        /\ padding_spaces' = snippet
        /\ result' = create_result(<<Slice(incomplete_data, "public_ref"),
                                     Slice(padding_spaces', "padding")>>, injected)
  /\ UNCHANGED <<snippet, index, injected>>

end ==
  /\ incomplete_data_public_ref' = incomplete_data
  /\ incomplete_data' = <<>>
  /\ \/ /\ injected
        /\ result' = create_result(<<Slice(incomplete_data, "public_ref")>>, injected)
        /\ UNCHANGED padding_spaces
     \/ /\ ~injected
        /\ padding_spaces' = [k \in DOMAIN snippet |-> " "]
        /\ result' = create_result(<<Slice(incomplete_data, "public_ref"),
                                     Slice(padding_spaces', "padding")>>, injected)
  /\ UNCHANGED <<snippet, index, injected>>

(***************************************************************************)
(* The caller: writes the document in chunks, then ends the session, and  *)
(* forwards every returned slice in order.                                 *)
(***************************************************************************)
Init ==
  /\ InjectorInit
  /\ doc \in Docs
  /\ pos = 0
  /\ received = <<>>
  /\ out = <<>>
  /\ ended = FALSE

WriteChunk ==
  /\ ~ended
  /\ \E k \in ChunkSizes \cup {Len(doc) - pos} :
       LET chunk == SubSeq(doc, pos + 1, pos + k) IN
       /\ pos + k <= Len(doc)
       /\ pos' = pos + k
       /\ received' = received \o chunk
       /\ write(chunk)
       /\ out' = out \o ResultBytes(result')
  /\ UNCHANGED <<doc, ended>>

EndSession ==
  /\ ~ended
  /\ pos = Len(doc)
  /\ end
  /\ ended' = TRUE
  /\ out' = out \o ResultBytes(result')
  /\ UNCHANGED <<doc, pos, received>>

(* A caller that writes again after end: nothing in write() refuses it. *)
WriteAfterEnd ==
  /\ ended
  /\ \E chunk \in LateChunks :
       /\ received' = received \o chunk
       /\ write(chunk)
       /\ out' = out \o ResultBytes(result')
  /\ UNCHANGED <<doc, pos, ended>>

Next == WriteChunk \/ EndSession

Spec == Init /\ [][Next]_vars

(* Sessions whose caller may break the protocol after end. *)
LateSpec == Init /\ [][Next \/ WriteAfterEnd]_vars



-----------------------------------------------------------------------------
(***************************************************************************)
(* Properties                                                              *)
(***************************************************************************)
SliceType == [bytes : Seq(Bytes \cup {" ", "S"}), from_incoming_chunk : BOOLEAN]

TypeOK ==
  /\ index \in 0 .. 6
  /\ injected \in BOOLEAN
  /\ incomplete_data \in Seq(Bytes)
  /\ incomplete_data_public_ref \in Seq(Bytes)
  /\ padding_spaces \in Seq({" "})
  /\ result \in [slices : Seq(SliceType), injected : BOOLEAN]
  /\ Len(result.slices) <= 4
  /\ pos \in 0 .. Len(doc)
  /\ ended \in BOOLEAN

(* The locator and the buffer agree: the scanner's `index` counts exactly  *)
(* the non-whitespace bytes held in incomplete_data.  write() decides what *)
(* to flush from `index` alone (through scan's Location) while the bytes   *)
(* themselves sit in incomplete_data; if the two drift apart, a later     *)
(* chunk confirms a tag the buffer does not hold, or flushes bytes of a    *)
(* tag the scanner is still matching.  (end() empties the buffer but      *)
(* leaves `index` as it was, so this holds only while the session is open.)*)
LocatorIndexMatchesWithheld ==
  ~ended => index = Len(SelectSeq(incomplete_data, LAMBDA b : b \notin Whitespace))

(* The injector implements StreamingInjection: after every write() the    *)
(* slices returned so far, concatenated, are exactly what the regex       *)
(* reference commits for the bytes received so far, incomplete_data holds *)
(* exactly the candidate tag prefix, `injected` tells whether a tag has    *)
(* arrived, and end() completes the output with the snippet before the    *)
(* first tag or with padding; whatever the chunk boundaries.               *)
Abstract == INSTANCE StreamingInjection WITH withheld <- incomplete_data
AbstractSpec == Abstract!Spec

(* spec.md 4.2: on MatchFromPreviousChunk the injector "flush[es]          *)
(* previously pending bytes, emit[s] the payload, then the whole chunk":   *)
(* the bytes withheld before the injecting write come out before the       *)
(* snippet.                                                                *)
SpecFlushBeforePayload ==
  [][~injected /\ injected' => IsPrefix(incomplete_data, ResultBytes(result'))]_vars

(* spec.md 4.2 and 7: misuse such as a write after end is "a fast,       *)
(* unambiguous abort", never a call that "silently produce[s] wrong bytes *)
(* on the wire": whatever the caller writes, the wire never carries more  *)
(* than the bytes written plus one snippet, the size the host announced.  *)
MisuseNeverOverrunsAnnouncement == Len(out) <= Len(received) + Len(snippet)

=============================================================================
