------------------------------- MODULE Snippet -------------------------------
(***************************************************************************)
(* Snippet creation: the JSON configuration a host passes to              *)
(* snippet_create_from_json (inject-browser-sdk-ffi/src/snippet.rs) is     *)
(* deserialized into a Configuration, checked by validate_configuration   *)
(* (configuration.rs), turned into a script tag by generate_snippet and   *)
(* format_cdn_url (snippet.rs), and recorded by SnippetInternal::new,      *)
(* which turns an Error (error.rs) into a code and a C string.            *)
(*                                                                         *)
(* Beside it runs the check_conf CLI (cmd/check_conf), which validates    *)
(* the same JSON and prints the snippet or exits with status 1, and the   *)
(* host of the crate documentation (lib.rs, steps 2, 3 and 5): create the *)
(* snippet, skip injection when error_code is not 0, free the snippet.    *)
(*                                                                         *)
(* A JSON input is Malformed or an object, abstracted to the fields the   *)
(* code reads; an optional field is <<>> (absent) or <<value>>.  Strings  *)
(* are TLA+ strings, so that str::contains is the substring test it is.   *)
(***************************************************************************)
EXTENDS Integers, Sequences, TLC

CONSTANTS
  Inputs        \* the JSON texts a host may pass

VARIABLES
  json,           \* the JSON text given to snippet_create_from_json and check_conf
  snippet,        \* the SnippetInternal returned, or NoSnippet
  snippet_state,  \* "none", "live" or "freed"
  process,        \* "running", or "aborted" by a panic inside an extern "C" fn
  host,           \* the host's step: "start", "skipping", "injecting"
  cli             \* check_conf's outcome: <<>> while it has not run, or <<[exit, stdout]>>

vars == <<json, snippet, snippet_state, process, host, cli>>

(* U+0000, which JSON writes as \u0000; no other character of the inputs  *)
(* is "~".                                                                 *)
NulChar == "~"

(* str::contains *)
Contains(s, p) == \E i \in 0 .. Len(s) - Len(p) : SubSeq(s, i + 1, i + Len(p)) = p

Malformed == [malformed |-> TRUE]
NoSnippet == [none |-> TRUE]
Abort == [abort |-> TRUE]

Ok(v) == [ok |-> TRUE, value |-> v]
Err(e) == [ok |-> FALSE, value |-> e]

(***************************************************************************)
(* error.rs: an Error is its variant and `text`, the part of its Display  *)
(* message taken from the input (the site; the cause of a JSON error).    *)
(* The other variants carry a number or a fixed key, so their text is "". *)
(***************************************************************************)
Error(kind, text) == [kind |-> kind, text |-> text]

ErrorCode == [Json |-> 1, UnsupportedMajorVersion |-> 2, UnsupportedSite |-> 3,
              OutOfRangeRate |-> 4, EmptyMandatoryConf |-> 5]

(* Mutant: the codes numbered from 2. *)
codeShifted(e) == ErrorCode[e.kind] + 1

code(e) == ErrorCode[e.kind]

MessageHasNul(e) == Contains(e.text, NulChar)

(***************************************************************************)
(* serde_json::from_slice::<Configuration>.  A value that fails to        *)
(* deserialize (a majorVersion that is not a u32, a defaultPrivacyLevel   *)
(* that is not a PrivacyLevel) fails when its key is reached; a missing   *)
(* required field fails after the last key, in declaration order.  The    *)
(* key order of the text is not kept, so every value error that applies   *)
(* is a possible outcome.  serde's "unknown variant `{}`" message shows   *)
(* the variant with Display, so it carries the input's text.              *)
(***************************************************************************)
PrivacyLevels == {"allow", "mask", "mask-user-input"}

(* The inputs' integers stay below 2^31, TLC's limit. *)
IsU32(n) == n >= 0

RumErrors(r) ==
  LET valueErrors ==
        IF r.defaultPrivacyLevel # <<>> /\ r.defaultPrivacyLevel[1] \notin PrivacyLevels
        THEN {Error("Json", r.defaultPrivacyLevel[1])} ELSE {}
  IN  IF valueErrors # {} THEN valueErrors
      ELSE IF r.applicationId = <<>> \/ r.clientToken = <<>>
      THEN {Error("Json", "")} ELSE {}

ParseErrors(j) ==
  IF j = Malformed THEN {Error("Json", "")}
  ELSE LET valueErrors ==
             (IF j.majorVersion # <<>> /\ ~IsU32(j.majorVersion[1])
              THEN {Error("Json", "")} ELSE {})
             \cup (IF j.rum # <<>> THEN RumErrors(j.rum[1]) ELSE {})
       IN  IF valueErrors # {} THEN valueErrors
           ELSE IF j.majorVersion = <<>> \/ j.rum = <<>>
           THEN {Error("Json", "")} ELSE {}

(* The Configuration of an input that deserializes. *)
Conf(j) ==
  LET r == j.rum[1] IN
  [major_version |-> j.majorVersion[1],
   rum |-> [application_id |-> r.applicationId[1], client_token |-> r.clientToken[1],
            site |-> r.site, default_privacy_level |-> r.defaultPrivacyLevel,
            session_sample_rate |-> r.sessionSampleRate,
            session_replay_sample_rate |-> r.sessionReplaySampleRate]]

(***************************************************************************)
(* configuration.rs: validate_configuration returns at the first check    *)
(* that fails, in this order.                                              *)
(***************************************************************************)
SITE_PATTERNS == {"datadog", "ddog", "datad0g", "dd0g"}
MAJOR_VERSIONS == {5, 6}

(* Mutant: only the upper end of the range checked. *)
validate_rateNoLowerBound(maybe_rate) == maybe_rate = <<>> \/ maybe_rate[1] <= 100

(* validate_rate: (0.0..=100.0).contains(&rate) *)
validate_rate(maybe_rate) == maybe_rate = <<>> \/ maybe_rate[1] \in 0 .. 100

validate_configuration(c) ==
  LET checks ==
        << [fails |-> c.major_version \notin MAJOR_VERSIONS,
            error |-> Error("UnsupportedMajorVersion", "")],
           [fails |-> c.rum.application_id = "",
            error |-> Error("EmptyMandatoryConf", "")],
           [fails |-> c.rum.client_token = "",
            error |-> Error("EmptyMandatoryConf", "")],
           [fails |-> c.rum.site # <<>> /\
                        ~\E p \in SITE_PATTERNS : Contains(c.rum.site[1], p),
            error |-> Error("UnsupportedSite", IF c.rum.site = <<>> THEN "" ELSE c.rum.site[1])],
           [fails |-> ~validate_rate(c.rum.session_sample_rate),
            error |-> Error("OutOfRangeRate", "")],
           [fails |-> ~validate_rate(c.rum.session_replay_sample_rate),
            error |-> Error("OutOfRangeRate", "")] >>
      failed == SelectSeq(checks, LAMBDA k : k.fails)
  IN  IF failed = <<>> THEN Ok(<<>>) ELSE Err(Head(failed).error)

(***************************************************************************)
(* snippet.rs                                                              *)
(***************************************************************************)
(* format_cdn_url: the CDN URL as its region and version. *)
REGIONS == ("datadoghq.com" :> "us1") @@ ("us3.datadoghq.com" :> "us3")
             @@ ("us5.datadoghq.com" :> "us5") @@ ("datadoghq.eu" :> "eu1")
             @@ ("ap1.datadoghq.com" :> "ap1")

format_cdn_url(major_version, site) ==
  IF site = "ddog-gov.com" THEN Ok([region |-> "gov", version |-> major_version])
  ELSE IF site \in DOMAIN REGIONS
  THEN Ok([region |-> REGIONS[site], version |-> major_version])
  ELSE Err(Error("UnsupportedSite", site))

(* generate_snippet: the script tag loads `url` and initializes the SDK  *)
(* with the serialized RumConfiguration, which is kept as the record.    *)
generate_snippet(c) ==
  LET v == validate_configuration(c)
      site == IF c.rum.site = <<>> THEN "datadoghq.com" ELSE c.rum.site[1]
      url == format_cdn_url(c.major_version, site)
  IN  IF ~v.ok THEN v
      ELSE IF ~url.ok THEN url
      ELSE Ok([url |-> url.value, init |-> c.rum])

(* The Result snippet_create_from_json hands to SnippetInternal::new. *)
CreateResults(j) ==
  IF ParseErrors(j) # {} THEN {Err(e) : e \in ParseErrors(j)}
  ELSE {generate_snippet(Conf(j))}

(* SnippetInternal::new.  CString::new(error.to_string()).unwrap() panics *)
(* on a message holding a NUL byte; the panic cannot unwind out of the    *)
(* extern "C" snippet_create_from_json, and the process aborts.           *)
SnippetInternal(result) ==
  IF result.ok THEN [error_code |-> 0, inner |-> result]
  ELSE IF MessageHasNul(result.value) THEN Abort
  ELSE [error_code |-> code(result.value), inner |-> result]

(***************************************************************************)
(* cmd/check_conf: from_str, then generate_snippet; an error is printed  *)
(* and the exit status is 1.  The snippet is ASCII (the template is, and  *)
(* EscapeNonAscii escapes every other character), so String::from_utf8    *)
(* succeeds and the snippet is printed with status 0.                     *)
(***************************************************************************)
check_conf_main(j) ==
  {IF r.ok THEN [exit |-> 0, stdout |-> <<r.value>>] ELSE [exit |-> 1, stdout |-> <<>>] :
     r \in CreateResults(j)}

(***************************************************************************)
(* The host and the CLI                                                    *)
(***************************************************************************)
Init ==
  /\ json \in Inputs
  /\ snippet = NoSnippet
  /\ snippet_state = "none"
  /\ process = "running"
  /\ host = "start"
  /\ cli = <<>>

(* Step 2: snippet_create_from_json. *)
snippet_create_from_json ==
  /\ process = "running"
  /\ snippet_state = "none"
  /\ \E r \in CreateResults(json) :
       IF SnippetInternal(r) = Abort
       THEN /\ process' = "aborted"
            /\ UNCHANGED <<snippet, snippet_state>>
       ELSE /\ snippet' = SnippetInternal(r)
            /\ snippet_state' = "live"
            /\ UNCHANGED process
  /\ UNCHANGED <<json, host, cli>>

(* Step 3: skip the injection when error_code is not 0. *)
HostCheckError ==
  /\ process = "running"
  /\ snippet_state = "live"
  /\ host = "start"
  /\ host' = IF snippet.error_code # 0 THEN "skipping" ELSE "injecting"
  /\ UNCHANGED <<json, snippet, snippet_state, process, cli>>

(* Step 5: snippet_cleanup, once the host is done with the snippet. *)
snippet_cleanup ==
  /\ process = "running"
  /\ snippet_state = "live"
  /\ host # "start"
  /\ snippet_state' = "freed"
  /\ UNCHANGED <<json, snippet, process, host, cli>>

(* check_conf, run on the same JSON as a separate process. *)
CheckConf ==
  /\ cli = <<>>
  /\ \E o \in check_conf_main(json) : cli' = <<o>>
  /\ UNCHANGED <<json, snippet, snippet_state, process, host>>

Next == snippet_create_from_json \/ HostCheckError \/ snippet_cleanup \/ CheckConf

Spec == Init /\ [][Next]_vars

-----------------------------------------------------------------------------
(***************************************************************************)
(* Properties                                                              *)
(***************************************************************************)
TypeOK ==
  /\ snippet_state \in {"none", "live", "freed"}
  /\ snippet_state = "none" <=> snippet = NoSnippet
  /\ snippet # NoSnippet => snippet.error_code \in {0} \cup {ErrorCode[k] : k \in DOMAIN ErrorCode}
  /\ process \in {"running", "aborted"}
  /\ host \in {"start", "skipping", "injecting"}
  /\ cli = <<>> \/ (Len(cli) = 1 /\ cli[1].exit \in {0, 1}
                     /\ (cli[1].exit = 0) = (cli[1].stdout # <<>>))

(* The Datadog sites the Browser SDK is published for. *)
DatadogSites == {"datadoghq.com", "us3.datadoghq.com", "us5.datadoghq.com",
                 "datadoghq.eu", "ap1.datadoghq.com", "ddog-gov.com"}

(* A snippet is created (error code 0) only for a configuration that     *)
(* meets what the validation messages of error.rs state: the mandatory    *)
(* fields are not empty, the site is a Datadog site, and each rate lies   *)
(* between 0.0 and 100.0, both ends included.  The site is checked twice *)
(* with different rules (validate_configuration's pattern test, looser,  *)
(* then format_cdn_url's exact match) and the rates after it, so an      *)
(* input bad in one field only is refused only if every early return in  *)
(* between lets it through to the right check.                            *)
AcceptedConfigurationIsValid ==
  snippet # NoSnippet /\ snippet.error_code = 0 =>
    LET r == json.rum[1] IN
    /\ r.applicationId # <<"">> /\ r.clientToken # <<"">>
    /\ r.site = <<>> \/ r.site[1] \in DatadogSites
    /\ \A rate \in {r.sessionSampleRate, r.sessionReplaySampleRate} :
         rate = <<>> \/ rate[1] \in 0 .. 100

(* snippet_create_from_json "always returns a valid Snippet pointer. When *)
(* an error occurs during the snippet formatting, the Snippet instance    *)
(* contains an error code and an error message" (its documentation): the *)
(* host process is never aborted by creating a snippet.                    *)
AlwaysReturnsSnippet == process # "aborted"

=============================================================================
