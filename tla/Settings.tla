------------------------------ MODULE Settings ------------------------------
(***************************************************************************)
(* The sink's part of the configuration (config.py, sinks/naming.py): what *)
(* a file and the environment say, which one wins, and what is refused     *)
(* before a process opens anything.                                        *)
(*                                                                         *)
(* A layer gives each setting a value, or None where it is silent.  A      *)
(* custom source is named by its prefix and its OCSF class.  An entry of   *)
(* provider_roles is the name of its source, or Malformed; the role behind *)
(* it is data.                                                             *)
(***************************************************************************)
EXTENDS Naturals

CONSTANTS
  Length,     \* Length[x]: how many characters the prefix x has
  Malformed,  \* an entry of provider_roles that is not source=role
  Empty,      \* the empty string
  None

Classes == {0, 3001, 3002, 3003, 3004, 3005, 3006}

\* CLASS_SOURCES: how many characters the slug of each class has.
SlugLength == [c \in Classes |-> CASE c = 0 -> 10 [] c = 3003 -> 13 [] c = 3004 -> 6
                                   [] c = 3005 -> 11 [] c = 3006 -> 5 [] OTHER -> 14]

Keys == {"kind", "bucket", "provider_roles", "external_id", "source_name"}

MaxSourceName == 20

SourceName(prefix, class) == <<prefix, class>>
AllSourceNames(prefix) == {SourceName(prefix, c) : c \in Classes}

\* check_source_names: prefix, underscore and slug fit, the longest included.
Registrable(prefix) == \A c \in Classes : Length[prefix] + 1 + SlugLength[c] <= MaxSourceName

\* _apply_env and the defaults of SinkConfig.
Load(file, env, default) ==
  [k \in Keys |-> IF env[k] # None THEN env[k]
                  ELSE IF file[k] # None THEN file[k] ELSE default[k]]

IsSet(value) == value \notin {None, Empty}

\* Mutant: a list of roles may be short of a source.
SpareRolesOnly(c) ==
  /\ c.kind = "s3" => IsSet(c.bucket)
  /\ c.kind = "local" => c.bucket = None
  /\ c.provider_roles # {} <=> IsSet(c.external_id)
  /\ c.provider_roles # {} =>
       c.kind = "s3" /\ c.provider_roles \subseteq AllSourceNames(c.source_name)

\* _destination_matches_kind: a kind has its destination and no other, roles
\* and their external id come together, and they name every source.
DestinationMatches(c) ==
  /\ c.kind = "s3" => IsSet(c.bucket)
  /\ c.kind = "local" => c.bucket = None
  /\ c.provider_roles # {} <=> IsSet(c.external_id)
  /\ c.provider_roles # {} =>
       c.kind = "s3" /\ c.provider_roles = AllSourceNames(c.source_name)

\* load_config ends in a configuration or refuses it.
Accepted(c) ==
  /\ Malformed \notin c.provider_roles
  /\ Registrable(c.source_name)
  /\ DestinationMatches(c)
=============================================================================
