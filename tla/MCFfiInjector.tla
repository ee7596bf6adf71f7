---------------------------- MODULE MCFfiInjector ----------------------------
(***************************************************************************)
(* Model of FfiInjector for TLC: the documents and chunking of MCInjector,*)
(* a snippet that was created (two bytes) or one whose creation failed.  *)
(***************************************************************************)
EXTENDS FfiInjector

MCBytes == {"<", "/", "h", "e", "a", "d", ">", "H", "A", " ", "x"}
MCWhitespace == {" "}

Parts ==
  { <<"<", "/", "h", "e", "a", "d", ">">>,            \* </head>
    <<"<", "/", "H", "e", "A", "d", " ", ">">>,       \* </HeAd >
    <<"<", "/", "h", "e", " ", "a", "d", ">">>,       \* </he ad>  (no tag)
    <<"<", "/", "h">>,
    <<"<">>,
    <<"x">> }

MaxParts == 3

MCDocs == {FlattenSeq(ps) : ps \in SeqOf(Parts, MaxParts)}

MCChunkSizes == 0 .. 2

MCSnippetContents == {<<"S", "S">>}

\* Error::Json and Error::UnsupportedMajorVersion
MCErrorCodes == {1, 2}
(* u32 scaled to 3 bits: no document above holds 8 bytes back. *)
MCU32Bits == 3

(* A tag start followed by a run of whitespace as long as the u32 range: *)
(* "</" and six spaces are withheld (the regex allows whitespace after    *)
(* the slash), then "x" flushes them.                                    *)
MCWhitespaceDocs == {<<"<", "/", " ", " ", " ", " ", " ", " ", "x">>}

(* The rest of a tag that end() left half matched: "</h" + "ead>". *)
MCLateChunks == {<<"e", "a", "d", ">">>}
=============================================================================
