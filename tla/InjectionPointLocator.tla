------------------------- MODULE InjectionPointLocator -------------------------
(***************************************************************************)
(* The incremental `</head>` scanner of                                    *)
(* lib/inject-browser-sdk/src/injection_point_locator.rs.                  *)
(*                                                                         *)
(* The locator's only state is `index` (0..6): how many expected bytes of *)
(* `</head>` have been seen, whitespace aside.  `scan` classifies one      *)
(* chunk against that state and returns one Location.  Scanning is a pure *)
(* function of (index, chunk), so it is an operator here; the component   *)
(* that owns the locator (Injector) keeps `index` as a variable.           *)
(*                                                                         *)
(* Bytes are abstracted to the ones the scanner tells apart: the bytes of *)
(* `</head>`, upper-case letters of "head", whitespace, and "x" standing  *)
(* for every other byte.                                                   *)
(***************************************************************************)
EXTENDS Naturals, Sequences

CONSTANTS
  Bytes,        \* the abstract byte alphabet
  Whitespace    \* the bytes for which u8::is_ascii_whitespace holds

ASSUME Whitespace \subseteq Bytes
ASSUME {"<", "/", "h", "e", "a", "d", ">"} \subseteq Bytes \ Whitespace

(* u8::to_ascii_lowercase on the alphabet. *)
ToAsciiLowercase(b) ==
  CASE b = "H" -> "h"
    [] b = "E" -> "e"
    [] b = "A" -> "a"
    [] b = "D" -> "d"
    [] OTHER  -> b

(***************************************************************************)
(* enum Location.  `at` is the usize offset the Rust variant carries,      *)
(* counted from 0.  Unreachable stands for the `unreachable!()` panic.     *)
(***************************************************************************)
None == [kind |-> "None"]
PotentialFromIndex(i) == [kind |-> "PotentialFromIndex", at |-> i]
PotentialFromPreviousChunk == [kind |-> "PotentialFromPreviousChunk"]
MatchFromIndex(i) == [kind |-> "MatchFromIndex", at |-> i]
MatchFromPreviousChunk == [kind |-> "MatchFromPreviousChunk"]
Unreachable == [kind |-> "Unreachable"]

(* The byte expected at index 1..5: the arm (1,'/') | (2,'h') | ... *)
ExpectedByte == <<"/", "h", "e", "a", "d">>

(* Mutant: the arm for a tag carried over from a previous chunk left out. *)
ConfirmedInChunkOnly(location) ==
  CASE location.kind = "PotentialFromIndex" -> MatchFromIndex(location.at)
    [] OTHER                                -> Unreachable

(* The (6, '>') arm: a potential location becomes a match. *)
Confirmed(location) ==
  CASE location.kind = "PotentialFromPreviousChunk" -> MatchFromPreviousChunk
    [] location.kind = "PotentialFromIndex"         -> MatchFromIndex(location.at)
    [] OTHER                                        -> Unreachable

(***************************************************************************)
(* The loop of `scan` from offset i on, with the scanner state s =         *)
(* [index, location].  The arms are tried in the order of the `match`;    *)
(* a confirmed match breaks out of the loop.                               *)
(***************************************************************************)
RECURSIVE ScanFrom(_, _, _)
ScanFrom(s, chunk, i) ==
  IF i = Len(chunk) THEN s
  ELSE
    LET byte == IF s.index > 1 THEN ToAsciiLowercase(chunk[i + 1])
                               ELSE chunk[i + 1]
    IN  CASE byte = "<" ->
               ScanFrom([index |-> 1, location |-> PotentialFromIndex(i)], chunk, i + 1)
          [] s.index \in 1 .. 5 /\ byte = ExpectedByte[s.index] ->
               ScanFrom([s EXCEPT !.index = @ + 1], chunk, i + 1)
          [] s.index = 6 /\ byte = ">" ->
               [index |-> 0, location |-> Confirmed(s.location)]
          [] s.index \in {2, 6} /\ byte \in Whitespace ->
               ScanFrom(s, chunk, i + 1)
          [] OTHER ->
               ScanFrom([index |-> 0, location |-> None], chunk, i + 1)

Scan(index, chunk) ==
  ScanFrom([index    |-> index,
            location |-> IF index > 0 THEN PotentialFromPreviousChunk ELSE None],
           chunk, 0)
=============================================================================
