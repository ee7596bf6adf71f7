-------------------------------- MODULE Locator --------------------------------
(***************************************************************************)
(* InjectionPointLocator on its own, fed chunk after chunk as             *)
(* Injector::write feeds it: from InjectionPointLocator::new until scan    *)
(* returns a match, after which the injector never scans again.           *)
(*                                                                         *)
(* `index` is the locator's state.  `pending` is auxiliary: the longest   *)
(* suffix of the bytes scanned so far that the regex /<\/\s*head\s*>/i    *)
(* may still complete (HeadTag's Candidate).  A tag in what is scanned    *)
(* next either lies in the new bytes or starts inside that suffix, so     *)
(* the suffix is all of the past the regex needs; it keeps the state     *)
(* space finite while every chunk is drawn from all byte strings up to   *)
(* a length.                                                              *)
(***************************************************************************)
EXTENDS InjectionPointLocator, SequencesExt

CONSTANTS
  Chunks,       \* the chunks scan may be given
  MaxPending    \* the longest pending suffix explored (whitespace makes it unbounded)

VARIABLES
  index,        \* InjectionPointLocator::index
  pending,      \* the candidate tag suffix of everything scanned so far
  chunk,        \* the last chunk scanned
  location,     \* the Location scan returned for it
  matched       \* scan has returned a match; the caller has stopped scanning

vars == <<index, pending, chunk, location, matched>>

Tag == INSTANCE HeadTag

(* InjectionPointLocator::new *)
Init ==
  /\ index = 0
  /\ pending = <<>>
  /\ chunk = <<>>
  /\ location = None
  /\ matched = FALSE

(* InjectionPointLocator::scan, called with the next chunk. *)
ScanChunk ==
  /\ ~matched
  /\ Len(pending) <= MaxPending
  /\ \E c \in Chunks :
       LET s == Scan(index, c) IN
       /\ index' = s.index
       /\ location' = s.location
       /\ chunk' = c
       /\ pending' = Tag!Candidate(pending \o c)
       /\ matched' = (s.location.kind \in {"MatchFromIndex", "MatchFromPreviousChunk"})

Next == ScanChunk

Spec == Init /\ [][Next]_vars

-----------------------------------------------------------------------------
(***************************************************************************)
(* Properties                                                              *)
(***************************************************************************)
(* enum Location: the panic of unreachable!() is not one of its values. *)
LocationType ==
  {None, PotentialFromPreviousChunk, MatchFromPreviousChunk}
    \cup {PotentialFromIndex(i) : i \in 0 .. 10} \cup {MatchFromIndex(i) : i \in 0 .. 10}

TypeOK ==
  /\ index \in 0 .. 6
  /\ pending \in Seq(Bytes)
  /\ location \in LocationType
  /\ matched \in BOOLEAN

(* The Location the regex calls for when chunk c follows the candidate   *)
(* suffix p: the first tag of p \o c, found from the chunk's offset on or *)
(* started before it; otherwise where the new candidate suffix starts,   *)
(* in the chunk or before it; otherwise nothing.  Offsets count from 0.  *)
RegexLocation(p, c) ==
  LET r == p \o c
      cand == Tag!Candidate(r)
  IN  IF Tag!HasTag(r)
      THEN LET i == Min(Tag!TagStarts(r)) IN
           IF i > Len(p) THEN MatchFromIndex(i - Len(p) - 1) ELSE MatchFromPreviousChunk
      ELSE IF cand = <<>> THEN None
      ELSE IF Len(cand) > Len(c) THEN PotentialFromPreviousChunk
      ELSE PotentialFromIndex(Len(c) - Len(cand))

=============================================================================
