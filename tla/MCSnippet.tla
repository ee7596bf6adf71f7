------------------------------ MODULE MCSnippet ------------------------------
(***************************************************************************)
(* Model of Snippet for TLC: JSON objects over the boundary values of     *)
(* each field validate_configuration and the deserializer look at.        *)
(*   majorVersion: absent, not a u32, unsupported, both supported ones;   *)
(*   applicationId, clientToken: absent, empty, set;                      *)
(*   site: absent, a region site, the gov site, one that only matches a   *)
(*     pattern, one that matches none, and two holding a NUL;             *)
(*   defaultPrivacyLevel: absent, a level, an unknown one, a NUL;         *)
(*   the rates: absent, both ends of 0..100, and values past either end.  *)
(***************************************************************************)
EXTENDS Snippet

Opt(S) == {<<>>} \cup {<<v>> : v \in S}

MCRum ==
  [applicationId : Opt({"", "bar"}),
   clientToken : Opt({"", "foo"}),
   site : Opt({"datadoghq.com", "ddog-gov.com", "datad0g.com", "example.com",
               "datadog~", "~"}),
   defaultPrivacyLevel : Opt({"mask", "hide", "~"}),
   sessionSampleRate : Opt({-1, 0, 100, 105}),
   sessionReplaySampleRate : Opt({42, 2469})]

MCInputs ==
  {Malformed} \cup [majorVersion : Opt({-1, 4, 5, 6}), rum : Opt(MCRum)]
=============================================================================
