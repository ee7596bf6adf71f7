------------------------------ MODULE MCLocator ------------------------------
(***************************************************************************)
(* Model of Locator for TLC: every chunk of up to 3 bytes over the        *)
(* letters of </head>, upper-case H and A, a space, and x for any other   *)
(* byte, and a few whole tags (with case and whitespace) in one chunk,    *)
(* so that matches inside a chunk happen as well as across chunks.        *)
(***************************************************************************)
EXTENDS Locator

MCBytes == {"<", "/", "h", "e", "a", "d", ">", "H", "A", " ", "x"}
MCWhitespace == {" "}
MCChunks ==
  SeqOf(MCBytes, 3)
    \cup {<<"<", "/", "h", "e", "a", "d", ">">>,
          <<"x", "<", "/", " ", "H", "e", "A", "d", " ", ">">>,
          <<"<", "<", "/", "h", "e", "a", "d", ">">>}
MCMaxPending == 9
=============================================================================
