------------------------------ MODULE FfiMemory ------------------------------
(***************************************************************************)
(* Who owns the memory an InjectorResult points to, when a host serves    *)
(* several responses at once with one Snippet, in the order of the crate *)
(* documentation (inject-browser-sdk-ffi/src/lib.rs): the snippet is     *)
(* created once, each request creates, writes, ends and cleans up its    *)
(* own Injector, and snippet_cleanup comes after the requests.           *)
(*                                                                         *)
(* The bytes are abstracted away; what is kept is every allocation a     *)
(* BytesSlice can point into, and when the code frees it:                *)
(*   - the Snippet's content, borrowed by injector_create as 'static;     *)
(*   - the chunk the host passes to injector_write (host-owned);          *)
(*   - incomplete_data, whose allocation mem::take moves into            *)
(*     incomplete_data_public_ref, dropping the previous one;            *)
(*   - padding_spaces, replaced by a new Vec in end();                    *)
(*   - slices_memory_storage, the array InjectorResult::slices points to. *)
(* Which Location scan returns depends on the bytes, so it is a choice   *)
(* among the ones the locator can return in the injector's state (see    *)
(* InjectionPointLocator and Injector for the bytes themselves).          *)
(***************************************************************************)
EXTENDS Naturals, Sequences, TLC

CONSTANTS
  Requests,   \* the responses served concurrently with one Snippet
  MaxCalls    \* the injector_write calls per response

VARIABLES
  memory,          \* live allocation -> contents (the 4 slots of a storage)
  snippet_state,   \* "live" or "released" (snippet_cleanup)
  handle,          \* request -> "none", "live", "released" (its Box<Injector>)
  injected,        \* request -> Injector::injected
  incomplete,      \* request -> the allocation of incomplete_data, or Null
  public_ref,      \* request -> the allocation of incomplete_data_public_ref
  padding,         \* request -> the allocation of padding_spaces
  calls,           \* request -> FFI calls made on its injector
  phase,           \* request -> "idle", or "holding" an InjectorResult
  held,            \* request -> the InjectorResult the host holds
  chunk,           \* request -> the host's chunk of the last write, or Null
  seen_injected,   \* request -> InjectorResult::injected was true once
  ended            \* request -> injector_end was called

vars == <<memory, snippet_state, handle, injected, incomplete, public_ref,
          padding, calls, phase, held, chunk, seen_injected, ended>>

Null == [kind |-> "null"]
Alloc(kind, r, n) == [kind |-> kind, req |-> r, n |-> n]
SnippetAlloc == Alloc("snippet", "host", 0)
StorageOf(r) == Alloc("storage", r, 0)

(* Drop the allocations S, add the allocations N, set the storage st.    *)
Realloc(S, N, st, slots) ==
  [a \in (DOMAIN memory \ S) \cup N |-> IF a = st THEN slots
                                        ELSE IF a \in DOMAIN memory THEN memory[a]
                                        ELSE "bytes"]

(* Mutant: create_result without the filter on empty slices. *)
NoFilter(parts) == parts

(* Injector::create_result: empty slices (Null) are left out. *)
NonEmpty(parts) == SelectSeq(parts, LAMBDA a : a # Null)

(* InjectorResult::new: all 4 slots are overwritten, then `slices`       *)
(* points at the storage.                                                 *)
Slots(s) == [k \in 1 .. 4 |-> IF k <= Len(s) THEN s[k] ELSE Null]
Result(r, s, inj) == [ptr |-> StorageOf(r), length |-> Len(s), returned |-> s,
                      injected |-> inj]

(* Injector::write for request r, chunk ch (Null if empty), call n: the  *)
(* outcomes of its arms, with the Locations scan can return here: one   *)
(* from a previous chunk needs index > 0, i.e. withheld bytes; an empty *)
(* chunk leaves the location at its initial value.                      *)
WriteOutcomes(r, ch, n) ==
  LET taken == incomplete[r]
      fresh == Alloc("buf", r, n)
      withheld == taken # Null
      out(s, inc, pub, inj) ==
        [slices |-> NonEmpty(s), incomplete |-> inc, public_ref |-> pub, injected |-> inj]
      none == out(<<taken, ch>>, Null, taken, FALSE)
      potPrev == out(<<>>, taken, public_ref[r], FALSE)
      potIdx(b) == out(<<taken, b>>, fresh, taken, FALSE)
      matchPrev == out(<<SnippetAlloc, taken, ch>>, Null, taken, TRUE)
      matchIdx(b) == out(<<taken, b, SnippetAlloc, ch>>, Null, taken, TRUE)
  IN  IF injected[r] THEN {out(<<ch>>, taken, public_ref[r], TRUE)}
      ELSE (IF ch # Null \/ ~withheld THEN {none} ELSE {})
             \cup (IF withheld THEN {potPrev} ELSE {})
             \cup (IF ch # Null THEN {potIdx(b) : b \in {Null, ch}} \cup {matchIdx(b) : b \in {Null, ch}}
                   ELSE {})
             \cup (IF ch # Null /\ withheld THEN {matchPrev} ELSE {})

-----------------------------------------------------------------------------
Init ==
  /\ memory = SnippetAlloc :> "bytes"
  /\ snippet_state = "live"
  /\ handle = [r \in Requests |-> "none"]
  /\ injected = [r \in Requests |-> FALSE]
  /\ incomplete = [r \in Requests |-> Null]
  /\ public_ref = [r \in Requests |-> Null]
  /\ padding = [r \in Requests |-> Null]
  /\ calls = [r \in Requests |-> 0]
  /\ phase = [r \in Requests |-> "idle"]
  /\ held = [r \in Requests |-> Result(r, <<>>, FALSE)]
  /\ chunk = [r \in Requests |-> Null]
  /\ seen_injected = [r \in Requests |-> FALSE]
  /\ ended = [r \in Requests |-> FALSE]

(* Step 4.5: injector_create, with the empty slots of BytesSlice::empty. *)
injector_create(r) ==
  /\ handle[r] = "none"
  /\ snippet_state = "live"
  /\ handle' = [handle EXCEPT ![r] = "live"]
  /\ memory' = Realloc({}, {StorageOf(r)}, StorageOf(r), Slots(<<>>))
  /\ UNCHANGED <<snippet_state, injected, incomplete, public_ref, padding, calls,
                 phase, held, chunk, seen_injected, ended>>

(* Step 4.6.1: injector_write with a new chunk of the host; the result is *)
(* held until its slices are sent.                                        *)
injector_write(r) ==
  /\ handle[r] = "live"
  /\ phase[r] = "idle"
  /\ ~ended[r]
  /\ calls[r] < MaxCalls
  /\ LET n == calls[r] + 1 IN
     \E ch \in {Null, Alloc("chunk", r, n)} :
     \E o \in WriteOutcomes(r, ch, n) :
       /\ memory' = Realloc({public_ref[r]} \ {Null, o.public_ref},
                            {ch, o.incomplete} \ {Null}, StorageOf(r), Slots(o.slices))
       /\ incomplete' = [incomplete EXCEPT ![r] = o.incomplete]
       /\ public_ref' = [public_ref EXCEPT ![r] = o.public_ref]
       /\ injected' = [injected EXCEPT ![r] = o.injected]
       /\ held' = [held EXCEPT ![r] = Result(r, o.slices, o.injected)]
       /\ chunk' = [chunk EXCEPT ![r] = ch]
       /\ calls' = [calls EXCEPT ![r] = n]
       /\ phase' = [phase EXCEPT ![r] = "holding"]
  /\ UNCHANGED <<snippet_state, handle, padding, seen_injected, ended>>

(* Step 4.7: injector_end if `injected` was never true.  Injector::end   *)
(* takes incomplete_data and, not injected, allocates the padding.       *)
injector_end(r) ==
  /\ handle[r] = "live"
  /\ phase[r] = "idle"
  /\ ~ended[r]
  /\ ~seen_injected[r]
  /\ LET n == calls[r] + 1
         taken == incomplete[r]
         pad == IF injected[r] THEN padding[r] ELSE Alloc("pad", r, n)
         s == NonEmpty(IF injected[r] THEN <<taken>> ELSE <<taken, pad>>)
     IN  /\ memory' = Realloc({public_ref[r], padding[r]} \ {Null, taken, pad},
                              {pad} \ {Null}, StorageOf(r), Slots(s))
         /\ incomplete' = [incomplete EXCEPT ![r] = Null]
         /\ public_ref' = [public_ref EXCEPT ![r] = taken]
         /\ padding' = [padding EXCEPT ![r] = pad]
         /\ held' = [held EXCEPT ![r] = Result(r, s, injected[r])]
         /\ calls' = [calls EXCEPT ![r] = n]
  /\ phase' = [phase EXCEPT ![r] = "holding"]
  /\ ended' = [ended EXCEPT ![r] = TRUE]
  /\ UNCHANGED <<snippet_state, handle, injected, chunk, seen_injected>>

(* Steps 4.6.1 / 4.7: write the slices to the outgoing stream; the chunk *)
(* is then not used anymore and the host frees it.                       *)
SendSlices(r) ==
  /\ phase[r] = "holding"
  /\ phase' = [phase EXCEPT ![r] = "idle"]
  /\ seen_injected' = [seen_injected EXCEPT ![r] = @ \/ held[r].injected]
  /\ memory' = Realloc({chunk[r]} \ {Null}, {}, Null, <<>>)
  /\ chunk' = [chunk EXCEPT ![r] = Null]
  /\ UNCHANGED <<snippet_state, handle, injected, incomplete, public_ref, padding,
                 calls, held, ended>>

(* Step 4.8: injector_cleanup drops the Box<Injector> and its buffers;   *)
(* after step 4.6.2 the host may skip the remaining writes and the end.  *)
(* Mutant: dropping the injector frees the snippet it borrowed too. *)
InjectorFreesSnippet(r) == {StorageOf(r), incomplete[r], public_ref[r], padding[r], SnippetAlloc} \ {Null}
InjectorFrees(r) == {StorageOf(r), incomplete[r], public_ref[r], padding[r]} \ {Null}

injector_cleanup(r) ==
  /\ handle[r] = "live"
  /\ phase[r] = "idle"
  /\ ended[r] \/ seen_injected[r]
  /\ handle' = [handle EXCEPT ![r] = "released"]
  /\ memory' = Realloc(InjectorFrees(r), {}, Null, <<>>)
  /\ UNCHANGED <<snippet_state, injected, incomplete, public_ref, padding, calls,
                 phase, held, chunk, seen_injected, ended>>

(* Step 5: snippet_cleanup, once no response uses an injector. *)
snippet_cleanup ==
  /\ snippet_state = "live"
  /\ \A r \in Requests : handle[r] # "live"
  /\ snippet_state' = "released"
  /\ memory' = Realloc({SnippetAlloc}, {}, Null, <<>>)
  /\ UNCHANGED <<handle, injected, incomplete, public_ref, padding, calls, phase,
                 held, chunk, seen_injected, ended>>

Next ==
  \/ \E r \in Requests :
       \/ injector_create(r)
       \/ injector_write(r)
       \/ injector_end(r)
       \/ SendSlices(r)
       \/ injector_cleanup(r)
  \/ snippet_cleanup

Spec == Init /\ [][Next]_vars

-----------------------------------------------------------------------------
(***************************************************************************)
(* Properties                                                              *)
(***************************************************************************)
Allocs == {SnippetAlloc}
            \cup {Alloc(k, r, n) : k \in {"chunk", "buf", "pad"}, r \in Requests, n \in 1 .. MaxCalls + 1}
            \cup {StorageOf(r) : r \in Requests}

TypeOK ==
  /\ DOMAIN memory \subseteq Allocs
  /\ snippet_state \in {"live", "released"}
  /\ handle \in [Requests -> {"none", "live", "released"}]
  /\ phase \in [Requests -> {"idle", "holding"}]
  /\ calls \in [Requests -> 0 .. MaxCalls + 1]
  /\ \A r \in Requests :
       /\ {incomplete[r], public_ref[r], padding[r], chunk[r]} \subseteq Allocs \cup {Null}
       /\ held[r].length \in 0 .. 4
       /\ held[r].returned \in Seq(Allocs)

(* Every slice of a held InjectorResult points into live memory: the     *)
(* chunk, the injector's buffers, or the Snippet's content that           *)
(* injector_create borrowed with a 'static lifetime, while other          *)
(* responses create, use and clean up their injectors in between.         *)
HeldSlicesLive ==
  \A r \in Requests : phase[r] = "holding" =>
    \A k \in 1 .. held[r].length : held[r].returned[k] \in DOMAIN memory

=============================================================================
