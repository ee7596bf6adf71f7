------------------------------ MODULE FfiInjector ------------------------------
(***************************************************************************)
(* The C boundary of lib/inject-browser-sdk-ffi/src/injector.rs, driven by *)
(* a host that follows the usage steps of the crate documentation         *)
(* (inject-browser-sdk-ffi/src/lib.rs, steps 4 to 8):                     *)
(*                                                                         *)
(*   4. add Snippet::length to the announced content-length;              *)
(*   5. injector_create;                                                   *)
(*   6. injector_write each chunk and send the returned slices; once      *)
(*      InjectorResult::injected is true the host MAY send the rest of    *)
(*      the response directly, without the injector;                      *)
(*   7. injector_end if `injected` was never true;                        *)
(*   8. injector_cleanup.                                                 *)
(*                                                                         *)
(* The host is free to keep using the injector after the injection and to *)
(* call injector_end anyway; both are allowed by the documentation.       *)
(*                                                                         *)
(* The Rust injector is the one of module Injector; this module adds the  *)
(* heap-allocated FFI Injector (handle, slices_memory_storage), the       *)
(* conversion of each Result to the C InjectorResult, the snippet handed  *)
(* to injector_create (possibly one whose creation failed), and the host. *)
(* doc/pos/received/ended of Injector are the response body and the      *)
(* host's progress through it; out is what the host sends the client.    *)
(***************************************************************************)
EXTENDS Injector

CONSTANTS
  SnippetContents,   \* the bytes a successfully created Snippet may hold
  ErrorCodes,        \* the error codes a failed Snippet may carry
  U32Bits            \* the scaled width of u32 (BytesSlice::length, chunk length)

VARIABLES
  snippet_ffi,            \* the SnippetInternal handed to injector_create
  handle,                 \* the Box<Injector>: "none", "live" or "released"
  slices_memory_storage,  \* the FFI Injector's 4 BytesSlice slots
  ffi_result,             \* the last InjectorResult returned to the host
  last_call,              \* the FFI function the host called last
  ever_injected,          \* whether the host has seen injected = true
  bypass,                 \* whether the host sends the rest itself (step 6.2)
  content_length          \* the content-length the host announced

ffiVars == <<snippet_ffi, handle, slices_memory_storage, ffi_result,
             last_call, ever_injected, bypass, content_length>>
allVars == <<vars, ffiVars>>

(* `as u32`: the low U32Bits bits. *)
AsU32(n) == n % 2^U32Bits

(* SnippetInternal::new: a created snippet, or one holding an error. *)
SnippetInternals ==
  {[error_code |-> 0, length |-> AsU32(Len(c)), inner |-> c] : c \in SnippetContents}
    \cup {[error_code |-> e, length |-> 0, inner |-> "Err"] : e \in ErrorCodes}

(* BytesSlice::empty, and From<injector::BytesSlice>: pointer and length   *)
(* of the Rust slice, `slice.bytes.len() as u32`; the pointer is          *)
(* represented by the bytes it points to.                                 *)
(* Mutant: the length converted with an off-by-one. *)
ToFfiSliceOffByOne(s) == [length |-> Len(s.bytes) - 1, start |-> s.bytes,
                          from_incoming_chunk |-> s.from_incoming_chunk]
EmptyFfiSlice == [length |-> 0, start |-> <<>>, from_incoming_chunk |-> FALSE]
ToFfiSlice(s) == [length |-> AsU32(Len(s.bytes)), start |-> s.bytes,
                  from_incoming_chunk |-> s.from_incoming_chunk]

(* InjectorResult::new: all four slots of the storage are overwritten,    *)
(* the ones past `length` with BytesSlice::default().                     *)
StoreResult(r) ==
  /\ slices_memory_storage' =
       [k \in 1 .. 4 |-> IF k <= Len(r.slices) THEN ToFfiSlice(r.slices[k])
                         ELSE ToFfiSlice([bytes |-> <<>>, from_incoming_chunk |-> FALSE])]
  /\ ffi_result' = [slices_length |-> Len(r.slices), injected |-> r.injected]

(* What the host sends for an InjectorResult: for slots 1..slices_length, *)
(* write(outgoing_stream, slice.start, slice.length).                      *)
SentBytes ==
  FlattenSeq([k \in 1 .. ffi_result'.slices_length |->
                SubSeq(slices_memory_storage'[k].start, 1, slices_memory_storage'[k].length)])

(***************************************************************************)
(* Host and FFI calls                                                      *)
(***************************************************************************)
FfiInit ==
  /\ doc \in Docs
  /\ pos = 0
  /\ received = <<>>
  /\ out = <<>>
  /\ ended = FALSE
  /\ snippet_ffi \in SnippetInternals
  /\ snippet = <<>>
  /\ index = 0
  /\ injected = FALSE
  /\ incomplete_data = <<>>
  /\ incomplete_data_public_ref = <<>>
  /\ padding_spaces = <<>>
  /\ result = [slices |-> <<>>, injected |-> FALSE]
  /\ handle = "none"
  /\ slices_memory_storage = <<>>
  /\ ffi_result = [slices_length |-> 0, injected |-> FALSE]
  /\ last_call = "none"
  /\ ever_injected = FALSE
  /\ bypass = FALSE
  /\ content_length = 0

(* Steps 4 and 5: announce the length, then injector_create, which falls  *)
(* back to an empty snippet when the Snippet holds an error.               *)
injector_create ==
  /\ handle = "none"
  /\ content_length' = Len(doc) + snippet_ffi.length
  /\ handle' = "live"
  /\ snippet' = IF snippet_ffi.inner = "Err" THEN <<>> ELSE snippet_ffi.inner
  /\ slices_memory_storage' = [k \in 1 .. 4 |-> EmptyFfiSlice]
  /\ last_call' = "create"
  /\ UNCHANGED <<index, injected, incomplete_data, incomplete_data_public_ref,
                 padding_spaces, result, doc, pos, received, out, ended,
                 snippet_ffi, ffi_result, ever_injected, bypass>>

(* Step 6.1: injector_write with the next chunk, and send the slices.     *)
(* The chunk's length is a u32 argument: a longer chunk cannot be passed. *)
injector_write ==
  /\ handle = "live"
  /\ ~bypass
  /\ ~ended
  /\ \E k \in ChunkSizes \cup {Len(doc) - pos} :
       LET chunk == SubSeq(doc, pos + 1, pos + k) IN
       /\ pos + k <= Len(doc)
       /\ k < 2^U32Bits
       /\ pos' = pos + k
       /\ received' = received \o chunk
       /\ write(chunk)
       /\ StoreResult(result')
       /\ out' = out \o SentBytes
  /\ ever_injected' = (ever_injected \/ ffi_result'.injected)
  /\ last_call' = "write"
  /\ UNCHANGED <<doc, ended, snippet_ffi, handle, bypass, content_length>>

(* Step 6.2: once injected, the host may send the rest itself. *)
HostBypass ==
  /\ handle = "live"
  /\ ever_injected
  /\ ~bypass
  /\ ~ended
  /\ bypass' = TRUE
  /\ UNCHANGED <<vars, snippet_ffi, handle, slices_memory_storage, ffi_result,
                 last_call, ever_injected, content_length>>

HostSendDirect ==
  /\ bypass
  /\ handle = "live"
  /\ \E k \in ChunkSizes \cup {Len(doc) - pos} :
       /\ k > 0
       /\ pos + k <= Len(doc)
       /\ pos' = pos + k
       /\ out' = out \o SubSeq(doc, pos + 1, pos + k)
  /\ UNCHANGED <<injectorVars, doc, received, ended, ffiVars>>

(* Step 7: injector_end, required when `injected` was never true, allowed *)
(* otherwise.                                                              *)
injector_end ==
  /\ handle = "live"
  /\ ~bypass
  /\ ~ended
  /\ pos = Len(doc)
  /\ end
  /\ ended' = TRUE
  /\ StoreResult(result')
  /\ out' = out \o SentBytes
  /\ ever_injected' = (ever_injected \/ ffi_result'.injected)
  /\ last_call' = "end"
  /\ UNCHANGED <<doc, pos, received, snippet_ffi, handle, bypass, content_length>>

(* Step 8: injector_cleanup, once the whole body has been sent. *)
injector_cleanup ==
  /\ handle = "live"
  /\ pos = Len(doc)
  /\ ended \/ ever_injected
  /\ handle' = "released"
  /\ last_call' = "cleanup"
  /\ UNCHANGED <<vars, snippet_ffi, slices_memory_storage, ffi_result,
                 ever_injected, bypass, content_length>>

FfiNext ==
  \/ injector_create
  \/ injector_write
  \/ HostBypass
  \/ HostSendDirect
  \/ injector_end
  \/ injector_cleanup

FfiSpec == FfiInit /\ [][FfiNext]_allVars

-----------------------------------------------------------------------------
(***************************************************************************)
(* Properties                                                              *)
(***************************************************************************)
FfiSliceType == [length : Nat, start : Seq(Bytes \cup {" ", "S"}),
                 from_incoming_chunk : BOOLEAN]

FfiTypeOK ==
  /\ snippet_ffi \in SnippetInternals
  /\ handle \in {"none", "live", "released"}
  /\ slices_memory_storage \in {<<>>} \cup [1 .. 4 -> FfiSliceType]
  /\ ffi_result \in [slices_length : 0 .. 4, injected : BOOLEAN]
  /\ last_call \in {"none", "create", "write", "end", "cleanup"}
  /\ ever_injected \in BOOLEAN
  /\ bypass \in BOOLEAN
  /\ content_length \in Nat

(* Whatever path the documented host takes (bypassing the injector once   *)
(* `injected` is true and skipping injector_end, or not), with a snippet  *)
(* that was created or one that failed, by the time it releases the       *)
(* injector it has sent the client exactly the document with the snippet *)
(* before the first tag, or padded, and exactly the content-length it    *)
(* announced before the first chunk.  Skipping injector_end is only safe  *)
(* if nothing is still withheld when `injected` turns true.               *)
ResponseMatchesAnnouncement ==
  handle = "released" =>
    /\ out = Tag!Final(doc, snippet)
    /\ Len(out) = content_length

(* InjectorResult::injected is documented as "Whether the injection        *)
(* occurred while processing the current chunk": a write whose result     *)
(* says injected returns the snippet among its slices.                     *)
InjectedMeansThisCall ==
  [][(last_call' = "write" /\ ffi_result'.injected /\ snippet # <<>>) =>
       \E k \in 1 .. ffi_result'.slices_length :
         slices_memory_storage'[k].start = snippet]_allVars

=============================================================================
