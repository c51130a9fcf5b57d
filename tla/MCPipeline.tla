----------------------------- MODULE MCPipeline -----------------------------
(***************************************************************************)
(* A range of six records for two custom sources, and the layers of a      *)
(* configuration that decide on provider roles: complete, short of one     *)
(* source, for another prefix, malformed, or none at all.                  *)
(***************************************************************************)
EXTENDS Pipeline

ASSUME BackfillAssumption == OnePageBatches

\* Up to four pages of at most two records: the second is short, with nothing
\* new on it, the last may be empty; "a" and "b" come twice.
RangeUid    == <<"a", "b", "a", "c", "b", "d">>
RangeBucket == [u \in {"a", "b", "c", "d"} |->
                  IF u = "b" THEN [class |-> 3004, day |-> 2]
                             ELSE [class |-> 3002, day |-> 1]]

\* The longest slug takes fourteen of the twenty characters.
PrefixLength == [okta |-> 4, oktane |-> 6]

Silent  == [k \in Config!Keys |-> None]
Builtin == [kind |-> "local", bucket |-> None, provider_roles |-> {},
            external_id |-> None, source_name |-> "okta"]

AllRoles    == Config!AllSourceNames("okta")
ToS3        == [Silent EXCEPT !.kind = "s3", !.bucket = "lake"]
WithRoles(r) == [ToS3 EXCEPT !.provider_roles = r, !.external_id = "id"]

FileAndEnvironment ==
  {Silent, ToS3, WithRoles(AllRoles),
   WithRoles(AllRoles \ {Config!SourceName("okta", 3004)}),
   WithRoles(Config!AllSourceNames("oktane")),
   WithRoles(AllRoles \union {Malformed}),
   [Silent EXCEPT !.external_id = ""],
   [WithRoles(Config!AllSourceNames("oktane")) EXCEPT !.source_name = "oktane"]}
=============================================================================
