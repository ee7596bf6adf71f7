---------------------------- MODULE MCTestServer ----------------------------
EXTENDS TestServer

(* usize scaled to 12 bits: 2048 KiB overflows size_kb * 1024, and 4096 *)
(* is not a usize at all.                                                 *)
MCUsizeBits == 12
MCSizeValues == {1, 2048, 4096}
MCCountValues == {0, 2}

Pair(k, v) == [key |-> k, value |-> v]
MCQueries ==
  { <<>>,
    <<Pair("status_code", 404)>>,
    <<Pair("status_code", 1000)>>,
    <<Pair("status_code", 65536)>>,
    <<Pair("other", 404)>>,
    <<Pair("other", 65536), Pair("status_code", 503)>>,
    <<Pair("status_code", 404), Pair("status_code", 404)>> }

MCAccelValues == {"absent", "no"}
MCAuthValues == {"absent", "mysecret", "other", "opaque"}
MCBodyChunks == {Chunk(<<"a">>), Chunk(<<"L">>), Chunk(<<"C">>), Chunk(<<"L", "C">>), ErrorChunk}
MCMaxChunks == 2
=============================================================================
