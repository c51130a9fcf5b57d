------------------------------- MODULE Mapper -------------------------------
(***************************************************************************)
(* What OktaOcsfMapper (mapping/okta.py) makes of one Okta record, as      *)
(* operators.  What the mapper reads it marks as consumed; what is left    *)
(* goes under `unmapped'.  What it built from the fields it read is then   *)
(* cut down to the attributes that the event's class defines (ocsf/), and  *)
(* what the class requires is filled in.                                   *)
(*                                                                         *)
(* A record is an event type, whether its actor is a person, the paths     *)
(* that are present and not empty, whether `published' parses, and the     *)
(* kinds of its targets.  Other values are left out: a column carries the  *)
(* fields it is made from.                                                 *)
(***************************************************************************)
EXTENDS Naturals

CONSTANTS
  Table,    \* okta_ocsf.yaml: [class, activity] of each known event type
  Unknown   \* an event type that is not in it

\* ocsf/v1_3_0.yaml.
Classes == {0, 3001, 3002, 3003, 3004, 3005, 3006}

Activities(class) ==
  CASE class = 0    -> {0, 99}
    [] class = 3001 -> 0 .. 11 \union {99}
    [] class = 3004 -> 0 .. 13 \union {99}
    [] class \in {3002, 3006} -> 0 .. 6 \union {99}
    [] OTHER        -> 0 .. 2 \union {99}

BaseAttributes == {"message", "metadata", "severity_id", "status",
                   "status_detail", "status_id", "time", "type_uid"}

ClassAttributes(class) ==
  LET shared == {"user", "actor", "src_endpoint", "http_request"}
  IN  CASE class = 0    -> {}
        [] class = 3001 -> shared
        [] class = 3002 -> shared \union {"service", "session", "is_mfa"}
        [] class = 3003 -> shared \union {"session", "privileges", "group"}
        [] class = 3004 -> (shared \ {"user"}) \union {"entity"}
        [] class = 3005 -> shared \union {"privileges"}
        [] class = 3006 -> shared \union {"group", "privileges"}

Required(class) ==
  CASE class = 0 -> {}
    [] class = 3004 -> {"entity"}
    [] class = 3005 -> {"user", "privileges"}
    [] class = 3006 -> {"group"}
    [] OTHER -> {"user"}

\* _entry refuses any other row when the table is loaded.
Entries == {e \in [class : Classes, activity : 0 .. 99] : e.activity \in Activities(e.class)}
Fallback == [class |-> 0, activity |-> 0]

TypeUid(e) == e.class * 100 + e.activity

-----------------------------------------------------------------------------
\* The paths of a record that the mapper reads, and two that it leaves alone.
Plain    == {"uuid", "published", "eventType", "severity", "displayMessage",
             "outcome.result", "outcome.reason"}
Actor    == {"actor.id", "actor.displayName", "actor.alternateId"}
Place    == {"geo.city", "geo.country", "geo.state"}
Geo      == Place \union {"geo.postalCode", "geo.geolocation"}
Context  == {"client.ipAddress", "client.userAgent", "externalSessionId"}
Mfa      == {"authenticationStep", "credentialProvider"}
Fields   == Plain \union Actor \union Geo \union Context \union Mfa
              \union {"actor.type", "target", "transaction"}

AppTarget == {"AppInstance", "AppUser"}
TargetKinds == AppTarget \union {"UserGroup", "other"}

Records ==
  {r \in [type : DOMAIN Table \union {Unknown}, human : BOOLEAN,
          fields : SUBSET Fields, dated : BOOLEAN, targets : SUBSET TargetKinds] :
     /\ r.targets # {} => "target" \in r.fields
     /\ ~r.human => "actor.type" \in r.fields}

Entry(r) == IF r.type \in DOMAIN Table THEN Table[r.type] ELSE Fallback
Class(r) == Entry(r).class

\* An actor that is not a person yields nothing and only its type is read.  A
\* location is read, so consumed, whole.
Read(r) ==
  Plain \union Geo \union Context \union {"actor.type"}
    \union (IF r.human THEN Actor ELSE {})
    \union (IF Class(r) = 3002 THEN Mfa ELSE {})

\* target[] is looked at and never consumed.
Consumed(r) == Read(r) \cap r.fields

\* _leftovers
Unmapped(r) == r.fields \ Consumed(r)

-----------------------------------------------------------------------------
\* The fields an attribute shows, wholly or in part.  A type is that of a
\* person where a person is shown.
From(attribute) ==
  CASE attribute = "metadata"      -> {"uuid", "published", "eventType"}
    [] attribute = "severity_id"   -> {"severity"}
    [] attribute = "status"        -> {"outcome.result"}
    [] attribute = "status_detail" -> {"outcome.reason"}
    [] attribute = "message"       -> {"displayMessage"}
    [] attribute \in {"user", "actor"} -> Actor \union {"actor.type"}
    [] attribute = "src_endpoint"  -> {"client.ipAddress"} \union Place
    [] attribute = "http_request"  -> {"client.userAgent"}
    [] attribute = "session"       -> {"externalSessionId"}
    [] attribute = "is_mfa"        -> Mfa
    [] OTHER                       -> {}

\* Built from whatever fields there are.
Always == {"metadata", "time", "type_uid", "severity_id", "status_id"}

\* Built when one of its fields is there.
WhenPresent == {"message", "status", "status_detail", "src_endpoint",
                "http_request", "session"}

\* _class_objects and the two that only an authentication has, whatever the
\* targets are: without one that fits, a name stands in for it.
ClassObjects(class) ==
  CASE class = 3002 -> {"service", "is_mfa"}
    [] class = 3004 -> {"entity"}
    [] class = 3005 -> {"privileges"}
    [] class = 3006 -> {"group"}
    [] OTHER        -> {}

\* The kinds of target that an object of the class can be taken from.
TargetsFor(class) ==
  CASE class \in {3002, 3005} -> AppTarget
    [] class = 3004 -> TargetKinds
    [] class = 3006 -> {"UserGroup"}
    [] OTHER        -> {}

Candidate(r) ==
  Always
    \union {a \in WhenPresent : From(a) \cap r.fields # {}}
    \union (IF r.human /\ Actor \cap r.fields # {} THEN {"user", "actor"} ELSE {})
    \union ClassObjects(Class(r))

Built(r) == Candidate(r) \cap (BaseAttributes \union ClassAttributes(Class(r)))

\* _fill_required
Placeholders(r) == Required(Class(r)) \ Built(r)

\* _epoch_ms: 0 for what does not parse, so the epoch's day.
Dated(r) == r.dated /\ "published" \in r.fields

\* map: total, every record becomes an event.
Mapped(r) ==
  [class      |-> Class(r),
   attributes |-> Built(r) \union Placeholders(r),
   thin       |-> Placeholders(r)
                    \union (IF r.targets \cap TargetsFor(Class(r)) = {}
                              THEN ClassObjects(Class(r)) \ {"is_mfa"} ELSE {}),
   unmapped   |-> Unmapped(r),
   dated      |-> Dated(r)]

\* Fields a reader of the lake can still see of the record.
Kept(r) == Unmapped(r) \union UNION {From(a) : a \in Built(r)}
Lost(r) == r.fields \ Kept(r)
=============================================================================
