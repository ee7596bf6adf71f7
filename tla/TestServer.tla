------------------------------ MODULE TestServer ------------------------------
(***************************************************************************)
(* The upstream HTTP server of the integration tests (src/src/main.rs): an  *)
(* axum Router with four routes, wrapped by two middleware functions,      *)
(* handling one request from its arrival to the last byte of its body.    *)
(*                                                                         *)
(* ServiceBuilder applies its first layer outermost, so a request passes  *)
(* replace_status_code, then copy_accel_buffering, then the router; the   *)
(* Response comes back through them in the reverse order, and only then   *)
(* is the body streamed, one "bout" per sleep.  Each `.await` the         *)
(* middleware or handle_post crosses is a step boundary here.              *)
(*                                                                         *)
(* Requests are independent (the server keeps no state shared between     *)
(* them), so one request is enough.  usize is scaled to UsizeBits bits:   *)
(* path parameters above usize::MAX are rejected, size_kb * 1024 wraps in *)
(* a release build and panics in a debug one, and String::repeat panics   *)
(* beyond isize::MAX.  u16 keeps its 16 bits.                              *)
(***************************************************************************)
EXTENDS Naturals, FiniteSets, SequencesExt

CONSTANTS
  UsizeBits,     \* the scaled width of usize
  SizeValues,    \* values of the usize path segments
  CountValues,   \* values of bout_count
  Queries,       \* query strings, as sequences of [key, value] pairs
  AccelValues,   \* X-Accel-Buffering request header, or "absent"
  AuthValues,    \* Authorization header: "absent", "mysecret", other ones, "opaque"
  BodyChunks,    \* request body chunks: Chunk(bytes), or ErrorChunk
  MaxChunks      \* the longest request body, in chunks

VARIABLES
  req,           \* the request
  build,         \* "debug" or "release": what integer overflow does
  phase,         \* where the request is in the middleware/handler pipeline
  status_param,  \* replace_status_code's decoded Option<u16>: <<>> or <<code>>
  maybe_accel,   \* copy_accel_buffering's copy of the request header
  nread,         \* handle_post: chunks of the request body read so far
  result,        \* handle_post: the body decoded so far
  resp,          \* the Response, once a handler has produced one
  received       \* the bouts of the response body the client has received

vars == <<req, build, phase, status_param, maybe_accel, nread, result, resp, received>>

UsizeMax == 2^UsizeBits - 1
IsizeMax == 2^(UsizeBits - 1) - 1

(***************************************************************************)
(* Bytes and text.  A body byte is "a" (ASCII), "L" (the lead byte of a   *)
(* two-byte UTF-8 character) or "C" (a continuation byte); decoded text   *)
(* is made of "a", "cc" (the two-byte character) and "fffd" (U+FFFD).     *)
(***************************************************************************)
CharBytes == [c \in {"a", "cc", "fffd"} |->
                CASE c = "a" -> 1 [] c = "cc" -> 2 [] c = "fffd" -> 3]
ByteLen(text) == FoldLeft(LAMBDA n, c : n + CharBytes[c], 0, text)

(* String::from_utf8_lossy: every maximal invalid subpart becomes U+FFFD. *)
RECURSIVE from_utf8_lossy(_)
from_utf8_lossy(bytes) ==
  IF bytes = <<>> THEN <<>>
  ELSE IF Head(bytes) = "a"
       THEN <<"a">> \o from_utf8_lossy(Tail(bytes))
  ELSE IF Head(bytes) = "L" /\ Len(bytes) >= 2 /\ bytes[2] = "C"
       THEN <<"cc">> \o from_utf8_lossy(Tail(Tail(bytes)))
  ELSE <<"fffd">> \o from_utf8_lossy(Tail(bytes))

SampleText == <<"a", "a", "a", "a", "a", "a", "a", "a", "a", "a", "a">>  \* "sample text"

(***************************************************************************)
(* Requests                                                                *)
(***************************************************************************)
Requests ==
  LET common == [query : Queries, accel : AccelValues]
      none == [bout_size |-> 0, bout_count |-> 0, size_kb |-> 0,
               authorization |-> "absent", body |-> <<>>]
      as(route, fs) == {[route |-> route] @@ fs @@ c @@ none : c \in common}
  IN  UNION {as("get", [bout_size |-> s, bout_count |-> n]) : s \in SizeValues, n \in CountValues}
      \cup UNION {as("post", [bout_size |-> s, bout_count |-> n, body |-> b]) :
                    s \in SizeValues, n \in CountValues, b \in SeqOf(BodyChunks, MaxChunks)}
      \cup UNION {as("json", [size_kb |-> k]) : k \in SizeValues}
      \cup UNION {as("auth", [authorization |-> a]) : a \in AuthValues}

(* Path<(usize, usize, u64)>: a segment that is not a usize is rejected   *)
(* with 400 Bad Request before the handler runs.  wait_ms and            *)
(* read_delay_ms are 0, which parse.                                       *)
PathParamsParse(r) ==
  CASE r.route \in {"get", "post"} -> r.bout_size <= UsizeMax /\ r.bout_count <= UsizeMax
    [] r.route = "json"             -> r.size_kb <= UsizeMax
    [] OTHER                        -> TRUE

(* serde_urlencoded::from_str::<QueryParams>, then unwrap_or(None): the   *)
(* derived visitor walks the pairs, ignores unknown keys, fails on a      *)
(* status_code that is not a u16 and on a second status_code.             *)
(* Mutant: status_code decoded into a wider integer than u16. *)
RECURSIVE VisitQueryWide(_, _)
VisitQueryWide(pairs, acc) ==
  IF pairs = <<>> \/ ~acc.ok THEN acc
  ELSE LET p == Head(pairs) IN
       IF p.key # "status_code" THEN VisitQueryWide(Tail(pairs), acc)
       ELSE IF acc.status_code # <<>>
            THEN [acc EXCEPT !.ok = FALSE]
            ELSE VisitQueryWide(Tail(pairs), [acc EXCEPT !.status_code = <<p.value>>])

(* A value is a number; one above 65535 stands for every value that does *)
(* not parse as a u16.  The visitor's state is [ok, status_code].          *)
RECURSIVE VisitQuery(_, _)
VisitQuery(pairs, acc) ==
  IF pairs = <<>> \/ ~acc.ok THEN acc
  ELSE LET p == Head(pairs) IN
       IF p.key # "status_code" THEN VisitQuery(Tail(pairs), acc)
       ELSE IF acc.status_code # <<>> \/ p.value > 65535
            THEN [acc EXCEPT !.ok = FALSE]
            ELSE VisitQuery(Tail(pairs), [acc EXCEPT !.status_code = <<p.value>>])

QueryStatusCode(query) ==
  LET v == VisitQuery(query, [ok |-> TRUE, status_code |-> <<>>])
  IN  IF v.ok THEN v.status_code ELSE <<>>

(* StatusCode::from_u16 ... unwrap_or(INTERNAL_SERVER_ERROR). *)
FromU16OrInternalError(code) == IF code \in 100 .. 999 THEN code ELSE 500

(* A response: status, X-Accel-Buffering, and the body: bout_count bouts, *)
(* each being `text` repeated `times` times followed by '\n'.  A JSON     *)
(* response records its total_items.                                      *)
Response(status, text, times, count, items) ==
  [status |-> status, accel |-> "absent", bout |-> [text |-> text, times |-> times],
   bout_count |-> count, total_items |-> items]

ErrorResponse(status) == Response(status, <<>>, 0, 0, 0)

(* A handler that panicked; no response yet; a body chunk that fails. *)
Panic == [panic |-> TRUE]
NoResponse == [none |-> TRUE]
Chunk(bytes) == [error |-> FALSE, bytes |-> bytes]
ErrorChunk == [error |-> TRUE, bytes |-> <<>>]
BodyBytes(body) == FlattenSeq([k \in DOMAIN body |-> body[k].bytes])

(* generate_response, or "panic" when content.repeat(bout_size) overflows. *)
generate_response(content, bout_size, bout_count) ==
  IF ByteLen(content) * bout_size > IsizeMax THEN Panic
  ELSE Response(200, content, bout_size, bout_count, 0)

(***************************************************************************)
(* The request pipeline                                                    *)
(***************************************************************************)
Init ==
  /\ req \in Requests
  /\ build \in {"debug", "release"}
  /\ phase = "replace_status_code"
  /\ status_param = <<>>
  /\ maybe_accel = "absent"
  /\ nread = 0
  /\ result = <<>>
  /\ resp = NoResponse
  /\ received = <<>>

(* Set the Response a handler returned, or drop the connection if it      *)
(* panicked (the connection task unwinds; the client gets no response).  *)
Return(r) ==
  IF r = Panic THEN phase' = "dropped" /\ UNCHANGED resp
  ELSE phase' = "copy_accel_buffering_exit" /\ resp' = r

(* Mutant: the /auth early return is missing. *)
replace_status_codeEverywhere ==
  /\ phase = "replace_status_code"
  /\ status_param' = QueryStatusCode(req.query)
  /\ phase' = "copy_accel_buffering"
  /\ UNCHANGED <<req, build, maybe_accel, nread, result, resp, received>>

(* replace_status_code, up to next.run(req).await: /auth passes straight *)
(* through; otherwise the query, if any, is decoded.                      *)
replace_status_code ==
  /\ phase = "replace_status_code"
  /\ status_param' = IF req.route = "auth" THEN <<>> ELSE QueryStatusCode(req.query)
  /\ phase' = "copy_accel_buffering"
  /\ UNCHANGED <<req, build, maybe_accel, nread, result, resp, received>>

(* copy_accel_buffering, up to next.run(req).await. *)
copy_accel_buffering ==
  /\ phase = "copy_accel_buffering"
  /\ maybe_accel' = req.accel
  /\ phase' = "route"
  /\ UNCHANGED <<req, build, status_param, nread, result, resp, received>>

(* The Path extractor fails: 400, the handler does not run. *)
PathRejection ==
  /\ phase = "route"
  /\ ~PathParamsParse(req)
  /\ Return(ErrorResponse(400))
  /\ UNCHANGED <<req, build, status_param, maybe_accel, nread, result, received>>

handle_get ==
  /\ phase = "route"
  /\ req.route = "get"
  /\ PathParamsParse(req)
  /\ Return(generate_response(SampleText, req.bout_size, req.bout_count))
  /\ UNCHANGED <<req, build, status_param, maybe_accel, nread, result, received>>

(* handle_post reads the request body before answering. *)
handle_post ==
  /\ phase = "route"
  /\ req.route = "post"
  /\ PathParamsParse(req)
  /\ phase' = "read_body"
  /\ UNCHANGED <<req, build, status_param, maybe_accel, nread, result, resp, received>>

(* Mutant: each decoded chunk is put in front of the text read so far. *)
ReadChunkPrepending ==
  /\ phase = "read_body"
  /\ nread < Len(req.body)
  /\ LET chunk == req.body[nread + 1] IN
       IF chunk.error
       THEN Return(ErrorResponse(500)) /\ UNCHANGED <<nread, result>>
       ELSE /\ nread' = nread + 1
            /\ result' = from_utf8_lossy(chunk.bytes) \o result
            /\ UNCHANGED <<phase, resp>>
  /\ UNCHANGED <<req, build, status_param, maybe_accel, received>>

(* One iteration of `while let Some(chunk) = stream.next().await`: an    *)
(* error chunk returns 500 through `?`; a chunk is decoded on its own.    *)
ReadChunk ==
  /\ phase = "read_body"
  /\ nread < Len(req.body)
  /\ LET chunk == req.body[nread + 1] IN
       IF chunk.error
       THEN Return(ErrorResponse(500)) /\ UNCHANGED <<nread, result>>
       ELSE /\ nread' = nread + 1
            /\ result' = result \o from_utf8_lossy(chunk.bytes)
            /\ UNCHANGED <<phase, resp>>
  /\ UNCHANGED <<req, build, status_param, maybe_accel, received>>

(* stream.next() yields None: answer with the text read. *)
BodyEnd ==
  /\ phase = "read_body"
  /\ nread = Len(req.body)
  /\ Return(generate_response(result, req.bout_size, req.bout_count))
  /\ UNCHANGED <<req, build, status_param, maybe_accel, nread, result, received>>

(* handle_json: size_kb * 1024 wraps modulo 2^UsizeBits in a release     *)
(* build and panics in a debug one; num_items is its quotient by 200.     *)
handle_json ==
  /\ phase = "route"
  /\ req.route = "json"
  /\ PathParamsParse(req)
  /\ LET product == req.size_kb * 1024 IN
       IF product > UsizeMax /\ build = "debug" THEN Return(Panic)
       ELSE Return(Response(200, <<>>, 0, 0, (product % 2^UsizeBits) \div 200))
  /\ UNCHANGED <<req, build, status_param, maybe_accel, nread, result, received>>

(* handle_auth: to_str().unwrap() panics on a header that is not visible *)
(* ASCII.                                                                 *)
handle_auth ==
  /\ phase = "route"
  /\ req.route = "auth"
  /\ Return(CASE req.authorization = "opaque"   -> Panic
              [] req.authorization = "mysecret" -> ErrorResponse(200)
              [] OTHER                          -> ErrorResponse(401))
  /\ UNCHANGED <<req, build, status_param, maybe_accel, nread, result, received>>

(* copy_accel_buffering after the await: the request's header is put on  *)
(* the response.                                                          *)
copy_accel_buffering_exit ==
  /\ phase = "copy_accel_buffering_exit"
  /\ resp' = IF maybe_accel = "absent" THEN resp ELSE [resp EXCEPT !.accel = maybe_accel]
  /\ phase' = "replace_status_code_exit"
  /\ UNCHANGED <<req, build, status_param, maybe_accel, nread, result, received>>

(* replace_status_code after the await. *)
replace_status_code_exit ==
  /\ phase = "replace_status_code_exit"
  /\ resp' = IF status_param = <<>> THEN resp
             ELSE [resp EXCEPT !.status = FromU16OrInternalError(Head(status_param))]
  /\ phase' = "streaming"
  /\ UNCHANGED <<req, build, status_param, maybe_accel, nread, result, received>>

(* One item of stream::iter(0..bout_count).then(..): sleep, then the     *)
(* shared chunk.                                                          *)
SendBout ==
  /\ phase = "streaming"
  /\ Len(received) < resp.bout_count
  /\ received' = Append(received, resp.bout)
  /\ UNCHANGED <<req, build, phase, status_param, maybe_accel, nread, result, resp>>

(* The body stream is exhausted. *)
BodyComplete ==
  /\ phase = "streaming"
  /\ Len(received) = resp.bout_count
  /\ phase' = "done"
  /\ UNCHANGED <<req, build, status_param, maybe_accel, nread, result, resp, received>>

Next ==
  \/ replace_status_code
  \/ copy_accel_buffering
  \/ PathRejection
  \/ handle_get
  \/ handle_post
  \/ ReadChunk
  \/ BodyEnd
  \/ handle_json
  \/ handle_auth
  \/ copy_accel_buffering_exit
  \/ replace_status_code_exit
  \/ SendBout
  \/ BodyComplete

Spec == Init /\ [][Next]_vars

-----------------------------------------------------------------------------
(***************************************************************************)
(* Properties.  The expected outcome of a request is written from the      *)
(* routes' URL contract, not from the pipeline's steps.                    *)
(***************************************************************************)
Phases == {"replace_status_code", "copy_accel_buffering", "route", "read_body",
           "copy_accel_buffering_exit", "replace_status_code_exit", "streaming",
           "done", "dropped"}
Text == Seq({"a", "cc", "fffd"})
ResponseType == [status : Nat, accel : AccelValues, bout : [text : Text, times : Nat],
                 bout_count : Nat, total_items : Nat]

TypeOK ==
  /\ req.route \in {"get", "post", "json", "auth"}
  /\ req.query \in Queries /\ req.accel \in AccelValues
  /\ build \in {"debug", "release"}
  /\ phase \in Phases
  /\ status_param \in Seq(0 .. 65535) /\ Len(status_param) <= 1
  /\ maybe_accel \in AccelValues
  /\ nread \in 0 .. MaxChunks
  /\ result \in Text
  /\ resp \in {NoResponse} \cup ResponseType
  /\ received \in Seq([text : Text, times : Nat])

(* The status the query asks for: status_code named exactly once, with a *)
(* value that fits a u16.                                                  *)
RequestedStatus(query) ==
  LET named == {k \in DOMAIN query : query[k].key = "status_code"}
  IN  IF Cardinality(named) = 1 /\ \A k \in named : query[k].value <= 65535
      THEN {query[k].value : k \in named}
      ELSE {}

(* The text a GET or POST response repeats. *)
Content(r) == IF r.route = "get" THEN SampleText ELSE from_utf8_lossy(BodyBytes(r.body))

(* The status the route itself answers with. *)
HandlerStatus(r) ==
  CASE ~PathParamsParse(r)                              -> 400
    [] r.route = "auth"                                 -> IF r.authorization = "mysecret"
                                                           THEN 200 ELSE 401
    [] r.route = "post" /\ ErrorChunk \in Range(r.body) -> 500
    [] OTHER                                            -> 200

(* A status_code asked for in the query replaces the status of every      *)
(* route but /auth (an invalid code gives 500), whatever the handler      *)
(* answered, its 400 and 500 errors included; /auth keeps its 200 or 401 *)
(* whatever the query; and X-Accel-Buffering comes back exactly as sent.  *)
(* This is what the integration tests rely on when they ask the upstream *)
(* for an error status, across both middleware layers and every handler. *)
ResponseHead ==
  phase \in {"streaming", "done"} =>
    /\ resp.status = IF req.route # "auth" /\ RequestedStatus(req.query) # {}
                     THEN LET c == CHOOSE c \in RequestedStatus(req.query) : TRUE
                          IN  IF c \in 100 .. 999 THEN c ELSE 500
                     ELSE HandlerStatus(req)
    /\ resp.accel = req.accel

(* The chunk boundaries of a request body fall between characters. *)
SplitsBetweenCharacters(body) ==
  \A k \in 1 .. Len(body) - 1 :
    LET before == BodyBytes(SubSeq(body, 1, k))
        after  == BodyBytes(SubSeq(body, k + 1, Len(body)))
    IN  before # <<>> /\ after # <<>> => ~(Last(before) = "L" /\ Head(after) = "C")

(* A GET or POST that succeeds delivers exactly bout_count bouts, each the *)
(* route's text repeated bout_size times: "sample text" for GET, for POST *)
(* the request body decoded as a whole, when its chunks split it between *)
(* characters (handle_post decodes each chunk on its own as it arrives). *)
ResponseBody ==
  /\ phase = "done"
  /\ req.route \in {"get", "post"}
  /\ HandlerStatus(req) = 200
  /\ SplitsBetweenCharacters(req.body)
  => received = [k \in 1 .. req.bout_count |-> [text |-> Content(req), times |-> req.bout_size]]

(* handle_json: "Generate a JSON response with specified size in KB"     *)
(* (main.rs:73): a JSON response holds size_kb * 1024 / 200 items.         *)
JsonSizeAsRequested ==
  phase = "done" /\ req.route = "json" /\ HandlerStatus(req) = 200 =>
    resp.total_items = (req.size_kb * 1024) \div 200

=============================================================================
