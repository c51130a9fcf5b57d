------------------------------ MODULE Mapping ------------------------------
(***************************************************************************)
(* One record going through the mapper: the drift alarm and the event.     *)
(***************************************************************************)
EXTENDS Mapper

CONSTANTS
  Optional,  \* paths that a record may lack (bound)
  None

VARIABLES
  record,
  event,   \* None before it is mapped
  alarms   \* unmapped_event_types, for this record

vars == <<record, event, alarms>>

Init ==
  /\ record \in [type : DOMAIN Table \union {Unknown}, human : BOOLEAN,
                 fields : {Fields \ absent : absent \in SUBSET Optional},
                 dated : BOOLEAN, targets : SUBSET TargetKinds]
  /\ record.targets # {} => "target" \in record.fields
  /\ ~record.human => "actor.type" \in record.fields
  /\ event = None
  /\ alarms = 0

Map ==
  /\ event = None
  /\ event' = Mapped(record)
  /\ alarms' = IF record.type \in DOMAIN Table THEN alarms ELSE alarms + 1
  /\ UNCHANGED record

Spec == Init /\ [][Map]_vars

-----------------------------------------------------------------------------
(* "It falls back to Base Event [...] with the full source event in        *)
(* `unmapped'" (SPEC 3.3): no field of an event of unknown type is lost,   *)
(* whether it ends up in a column or under unmapped.                       *)
UnknownEventKept ==
  event # None /\ record.type = Unknown => record.fields \subseteq Kept(record)
=============================================================================
