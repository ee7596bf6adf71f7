------------------------------- MODULE HeadTag -------------------------------
(***************************************************************************)
(* The reference definition of the injection point, written from the      *)
(* regular expression the locator documents itself to be equivalent to   *)
(* (injection_point_locator.rs, doc comment of InjectionPointLocator):    *)
(*                                                                         *)
(*     /<\/\s*head\s*>/i                                                   *)
(*                                                                         *)
(* and from the promise of the injector: the snippet goes immediately     *)
(* before the first tag, or, if the document has none, the document is    *)
(* padded with as many spaces as the snippet has bytes.                   *)
(*                                                                         *)
(* Nothing here follows the scanner's state machine: a tag is a substring *)
(* of a given shape, a candidate is a suffix that can still grow into    *)
(* one.  The scanner and the injector are checked against these.          *)
(***************************************************************************)
EXTENDS Naturals, SequencesExt

CONSTANT Whitespace   \* the bytes \s stands for

\* /i: the regex ignores case; only the letters of "head" have one.
CaseFold(b) ==
  CASE b = "H" -> "h"
    [] b = "E" -> "e"
    [] b = "A" -> "a"
    [] b = "D" -> "d"
    [] OTHER  -> b

\* A byte as the regex sees it: one of the \s class, or its folded self.
Class(b) == IF b \in Whitespace THEN "ws" ELSE CaseFold(b)
Classes(s) == [k \in DOMAIN s |-> Class(s[k])]

HeadName == <<"h", "e", "a", "d">>

\* The positions of a class sequence that are not whitespace.
Solid(c) == {k \in DOMAIN c : c[k] # "ws"}
Letters(c) == SelectSeq(c, LAMBDA x : x # "ws")

\* c matches  \s*head\s*  : the letters are "head" and sit side by side.
IsBody(c) ==
  /\ Letters(c) = HeadName
  /\ Solid(c) = Min(Solid(c)) .. Min(Solid(c)) + 3

\* s matches  <\/\s*head\s*>  as a whole.
IsTag(s) ==
  /\ Len(s) >= 7
  /\ s[1] = "<" /\ s[2] = "/" /\ s[Len(s)] = ">"
  /\ IsBody(Classes(SubSeq(s, 3, Len(s) - 1)))

\* s is a non-empty proper prefix of some string matching the regex.
IsTagPrefix(s) ==
  LET c == Classes(SubSeq(s, 3, Len(s)))
  IN  /\ Len(s) >= 1
      /\ s[1] = "<"
      /\ Len(s) >= 2 => s[2] = "/"
      /\ IsPrefix(Letters(c), HeadName)
      /\ Solid(c) # {} =>
           /\ Solid(c) = Min(Solid(c)) .. Max(Solid(c))
           \* whitespace may follow the letters only once all four are there
           /\ Letters(c) # HeadName => Max(Solid(c)) = Len(c)

\* The positions at which a tag starts in r.
TagStarts(r) ==
  {i \in DOMAIN r :
     /\ r[i] = "<"
     /\ \E j \in (i + 6) .. Len(r) : r[j] = ">" /\ IsTag(SubSeq(r, i, j))}

HasTag(r) == TagStarts(r) # {}

\* r with the snippet inserted immediately before its first tag.
Inject(r, snippet) ==
  LET i == Min(TagStarts(r))
  IN  SubSeq(r, 1, i - 1) \o snippet \o SubSeq(r, i, Len(r))

Padding(snippet) == [k \in DOMAIN snippet |-> " "]

\* The whole output promised for the document r.
Final(r, snippet) ==
  IF HasTag(r) THEN Inject(r, snippet) ELSE r \o Padding(snippet)

\* The longest suffix of r that may still become a tag.
Candidate(r) ==
  LET ks == {k \in 1 .. Len(r) : IsTagPrefix(SubSeq(r, Len(r) - k + 1, Len(r)))}
  IN  IF ks = {} THEN <<>> ELSE SubSeq(r, Len(r) - Max(ks) + 1, Len(r))

\* What may be emitted once r has been received: everything, with the
\* snippet in place, once a tag is there; otherwise everything except the
\* candidate, which the rest of the document may still turn into a tag.
Committed(r, snippet) ==
  IF HasTag(r) THEN Inject(r, snippet)
               ELSE SubSeq(r, 1, Len(r) - Len(Candidate(r)))
=============================================================================
