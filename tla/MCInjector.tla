----------------------------- MODULE MCInjector -----------------------------
(***************************************************************************)
(* Model of Injector for TLC.  Documents are built from the fragments the *)
(* injector's own randomised test (injector.rs, `fuzzy`) builds its       *)
(* inputs from: whole tags in several spellings, near-misses, partial     *)
(* tags, a lone '<', whitespace and ordinary text.  Up to MaxParts of     *)
(* them are concatenated, and the caller splits the result into chunks of *)
(* any size in ChunkSizes or the whole remainder, so tags straddle chunk  *)
(* boundaries in every way the fragments allow.                            *)
(***************************************************************************)
EXTENDS Injector

MCBytes == {"<", "/", "h", "e", "a", "d", ">", "H", "A", " ", "x"}
MCWhitespace == {" "}

Parts ==
  { <<"<", "/", "h", "e", "a", "d", ">">>,            \* </head>
    <<"<", "/", " ", "h", "e", "a", "d", ">">>,       \* </ head>
    <<"<", "/", "H", "e", "A", "d", " ", ">">>,       \* </HeAd >
    <<"<", "/", "h", "e", " ", "a", "d", ">">>,       \* </he ad>  (no tag)
    <<"<", "/", "h", "e", "a", "d", "x", ">">>,       \* </headx>  (no tag)
    <<"<", "/", "h">>,
    <<"<">>,
    <<" ">>,
    <<"x">> }

MaxParts == 3

MCDocs == {FlattenSeq(ps) : ps \in SeqOf(Parts, MaxParts)}

MCChunkSizes == 0 .. 2

\* an ordinary snippet, and the empty one injector_create uses when the
\* snippet failed to build
MCSnippets == {<<"S", "S">>, <<>>}
(* The rest of a tag that end() left half matched: "</h" + "ead>". *)
MCLateChunks == {<<"e", "a", "d", ">">>}
=============================================================================
