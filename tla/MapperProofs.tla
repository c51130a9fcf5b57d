---------------------------- MODULE MapperProofs ----------------------------
(***************************************************************************)
(* What holds of every record that Okta may send, whatever the table says. *)
(***************************************************************************)
EXTENDS Mapper, TLAPS

(* The table names only classes of the schema, so every record has one.    *)
LEMMA ClassKnown ==
  ASSUME Table \in [DOMAIN Table -> Entries], NEW r \in Records
  PROVE  Class(r) \in Classes
<1>1. CASE r.type \in DOMAIN Table
  <2>1. Table[r.type] \in Entries
    BY <1>1
  <2> QED  BY <1>1, <2>1 DEF Class, Entry, Entries
<1>2. CASE r.type \notin DOMAIN Table
  BY <1>2 DEF Class, Entry, Fallback, Classes
<1> QED  BY <1>1, <1>2

(* Every event is one that OCSF 1.3.0 accepts for its class: it carries no *)
(* attribute the class does not define and lacks none it requires.         *)
THEOREM WellFormed ==
  ASSUME Table \in [DOMAIN Table -> Entries], NEW r \in Records
  PROVE  /\ Mapped(r).attributes \subseteq BaseAttributes \union ClassAttributes(Class(r))
         /\ Required(Class(r)) \subseteq Mapped(r).attributes
<1>1. Required(Class(r)) \subseteq ClassAttributes(Class(r))
  BY ClassKnown DEF Classes, Required, ClassAttributes
<1>2. Mapped(r).attributes = Built(r) \union Placeholders(r)
  BY DEF Mapped
<1> QED  BY <1>1, <1>2 DEF Built, Placeholders

(* type_uid tells the class and the activity: no two rows of the table     *)
(* that differ in either give the same number.                             *)
THEOREM TypeUidTells ==
  ASSUME NEW d \in Entries, NEW e \in Entries, TypeUid(d) = TypeUid(e)
  PROVE  d = e
<1>1. /\ d \in [class : Classes, activity : 0 .. 99]
      /\ e \in [class : Classes, activity : 0 .. 99]
  BY DEF Entries
<1>2. PICK a \in Nat, x \in 0 .. 99 : d = [class |-> a, activity |-> x]
  BY <1>1 DEF Classes
<1>3. PICK b \in Nat, y \in 0 .. 99 : e = [class |-> b, activity |-> y]
  BY <1>1 DEF Classes
<1>4. a * 100 + x = b * 100 + y
  BY <1>2, <1>3 DEF TypeUid
<1>5. a = b /\ x = y
  BY <1>4
<1> QED  BY <1>2, <1>3, <1>5

LEMMA ShownBy ==
  ASSUME NEW a
  PROVE  /\ \A f \in {"uuid", "published", "eventType"} : f \in From(a) <=> a = "metadata"
         /\ "severity" \in From(a) <=> a = "severity_id"
         /\ "displayMessage" \in From(a) <=> a = "message"
         /\ "outcome.result" \in From(a) <=> a = "status"
         /\ "outcome.reason" \in From(a) <=> a = "status_detail"
         /\ \A f \in Actor \union {"actor.type"} : f \in From(a) <=> a \in {"user", "actor"}
         /\ \A f \in Place \union {"client.ipAddress"} : f \in From(a) <=> a = "src_endpoint"
         /\ "client.userAgent" \in From(a) <=> a = "http_request"
         /\ "externalSessionId" \in From(a) <=> a = "session"
         /\ \A f \in Mfa : f \in From(a) <=> a = "is_mfa"
         /\ {"geo.postalCode", "geo.geolocation", "target", "transaction"} \cap From(a) = {}
<1>1. CASE a = "metadata"
  BY <1>1 DEF From, Actor, Place, Mfa
<1>2. CASE a = "severity_id"
  BY <1>2 DEF From, Actor, Place, Mfa
<1>3. CASE a = "status"
  BY <1>3 DEF From, Actor, Place, Mfa
<1>4. CASE a = "status_detail"
  BY <1>4 DEF From, Actor, Place, Mfa
<1>5. CASE a = "message"
  BY <1>5 DEF From, Actor, Place, Mfa
<1>6. CASE a \in {"user", "actor"}
  BY <1>6 DEF From, Actor, Place, Mfa
<1>7. CASE a = "src_endpoint"
  BY <1>7 DEF From, Actor, Place, Mfa
<1>8. CASE a = "http_request"
  BY <1>8 DEF From, Actor, Place, Mfa
<1>9. CASE a = "session"
  BY <1>9 DEF From, Actor, Place, Mfa
<1>10. CASE a = "is_mfa"
  BY <1>10 DEF From, Actor, Place, Mfa
<1>11. CASE a \notin {"metadata", "severity_id", "status", "status_detail", "message",
                     "user", "actor", "src_endpoint", "http_request", "session", "is_mfa"}
  <2>1. From(a) = {}
    BY <1>11 DEF From
  <2> QED  BY <1>11, <2>1
<1> QED  BY <1>1, <1>2, <1>3, <1>4, <1>5, <1>6, <1>7, <1>8, <1>9, <1>10, <1>11

\* What the fields that can be missing make.
LEMMA MadeFrom ==
  /\ From("message") = {"displayMessage"}
  /\ From("status") = {"outcome.result"}
  /\ From("status_detail") = {"outcome.reason"}
  /\ From("src_endpoint") = Place \union {"client.ipAddress"}
  /\ From("http_request") = {"client.userAgent"}
  /\ From("session") = {"externalSessionId"}
<1>1. From("message") = {"displayMessage"}
  BY DEF From
<1>2. From("status") = {"outcome.result"}
  BY DEF From
<1>3. From("status_detail") = {"outcome.reason"}
  BY DEF From
<1>4. From("src_endpoint") = Place \union {"client.ipAddress"}
  BY DEF From
<1>5. From("http_request") = {"client.userAgent"}
  BY DEF From
<1>6. From("session") = {"externalSessionId"}
  BY DEF From
<1> QED  BY <1>1, <1>2, <1>3, <1>4, <1>5, <1>6

\* Which classes have which of the columns, and which objects of their own.
LEMMA ColumnsOf ==
  ASSUME NEW c \in Classes
  PROVE  /\ "actor" \in ClassAttributes(c) <=> c # 0
         /\ "user" \in ClassAttributes(c) => c # 0
         /\ "src_endpoint" \in ClassAttributes(c) <=> c # 0
         /\ "http_request" \in ClassAttributes(c) <=> c # 0
         /\ "session" \in ClassAttributes(c) <=> c \in {3002, 3003}
         /\ "is_mfa" \in ClassAttributes(c) <=> c = 3002
         /\ ClassObjects(c) \subseteq {"service", "is_mfa", "entity", "privileges", "group"}
         /\ "is_mfa" \in ClassObjects(c) <=> c = 3002
<1>1. CASE c = 0
  BY <1>1 DEF ClassAttributes, ClassObjects
<1>2. CASE c = 3001
  BY <1>2 DEF ClassAttributes, ClassObjects
<1>3. CASE c = 3002
  BY <1>3 DEF ClassAttributes, ClassObjects
<1>4. CASE c = 3003
  BY <1>4 DEF ClassAttributes, ClassObjects
<1>5. CASE c = 3004
  BY <1>5 DEF ClassAttributes, ClassObjects
<1>6. CASE c = 3005
  BY <1>6 DEF ClassAttributes, ClassObjects
<1>7. CASE c = 3006
  BY <1>7 DEF ClassAttributes, ClassObjects
<1> QED  BY <1>1, <1>2, <1>3, <1>4, <1>5, <1>6, <1>7 DEF Classes

\* What the mapper reads of a record and then has no column for.
Dropped(r) ==
  {"geo.postalCode", "geo.geolocation"}
    \union (IF Class(r) \in {3002, 3003} THEN {} ELSE {"externalSessionId"})
    \union (IF Class(r) = 0 \/ ~r.human \/ Actor \cap r.fields = {}
              THEN {"actor.type"} ELSE {})
    \union (IF Class(r) # 0 THEN {}
            ELSE Place \union {"client.ipAddress", "client.userAgent"}
                   \union (IF r.human THEN Actor ELSE {}))

(* What reaches the lake of each record, to the field: all but the rest of *)
(* its location, the session where the class has none, the type of an      *)
(* actor that is not shown, and of a Base Event the actor and the client.  *)
THEOREM LossIsExact ==
  ASSUME Table \in [DOMAIN Table -> Entries], NEW r \in Records
  PROVE  Lost(r) = r.fields \cap Dropped(r)
<1> DEFINE Shown == UNION {From(a) : a \in Built(r)}
<1>1. r.fields \subseteq Fields
  BY DEF Records
<1>2. Lost(r) = (r.fields \cap Read(r)) \ Shown
  BY DEF Lost, Kept, Unmapped, Consumed
<1>3. Class(r) \in Classes
  BY ClassKnown
<1>4. \A a \in WhenPresent : a \in Candidate(r) <=> From(a) \cap r.fields # {}
  BY <1>3, ColumnsOf DEF Candidate, Always, WhenPresent
<1>5. {"user", "actor"} \cap Candidate(r)
        = IF r.human /\ Actor \cap r.fields # {} THEN {"user", "actor"} ELSE {}
  BY <1>3, ColumnsOf DEF Candidate, Always, WhenPresent
<1>6. "is_mfa" \in Candidate(r) <=> Class(r) = 3002
  BY <1>3, ColumnsOf DEF Candidate, Always, WhenPresent
<1>7. {"metadata", "severity_id"} \subseteq Built(r)
  BY DEF Built, Candidate, Always, BaseAttributes
<1>8. /\ "message" \in Built(r) <=> "displayMessage" \in r.fields
      /\ "status" \in Built(r) <=> "outcome.result" \in r.fields
      /\ "status_detail" \in Built(r) <=> "outcome.reason" \in r.fields
  BY <1>4, MadeFrom DEF Built, WhenPresent, BaseAttributes
<1>9. "user" \in Built(r) \/ "actor" \in Built(r)
        <=> r.human /\ Actor \cap r.fields # {} /\ Class(r) # 0
  BY <1>3, <1>5, ColumnsOf DEF Built, BaseAttributes
<1>10. "src_endpoint" \in Built(r)
         <=> Class(r) # 0 /\ (Place \union {"client.ipAddress"}) \cap r.fields # {}
  BY <1>3, <1>4, MadeFrom, ColumnsOf DEF Built, WhenPresent, BaseAttributes
<1>11. "http_request" \in Built(r) <=> Class(r) # 0 /\ "client.userAgent" \in r.fields
  BY <1>3, <1>4, MadeFrom, ColumnsOf DEF Built, WhenPresent, BaseAttributes
<1>12. "session" \in Built(r) <=> Class(r) \in {3002, 3003} /\ "externalSessionId" \in r.fields
  BY <1>3, <1>4, MadeFrom, ColumnsOf DEF Built, WhenPresent, BaseAttributes
<1>13. "is_mfa" \in Built(r) <=> Class(r) = 3002
  BY <1>3, <1>6, ColumnsOf DEF Built, BaseAttributes
<1>14. \A f : f \in Shown <=> \E a \in Built(r) : f \in From(a)
  OBVIOUS
<1>15. ASSUME NEW f \in r.fields
       PROVE  f \in Read(r) /\ f \notin Shown <=> f \in Dropped(r)
  <2>1. CASE f \in {"uuid", "published", "eventType", "severity"}
    <3>1. f \in Shown
      BY <1>7, <1>14, <2>1, ShownBy
    <3>2. f \notin Dropped(r)
      BY <2>1 DEF Dropped, Place, Actor
    <3> QED  BY <3>1, <3>2
  <2>2. CASE f \in {"displayMessage", "outcome.result", "outcome.reason"}
    <3>1. f \in Shown
      BY <1>8, <1>14, <2>2, ShownBy
    <3>2. f \notin Dropped(r)
      BY <2>2 DEF Dropped, Place, Actor
    <3> QED  BY <3>1, <3>2
  <2>3. CASE f \in Actor
    <3>1. f \in Shown <=> r.human /\ Class(r) # 0
      BY <1>9, <1>14, <2>3, ShownBy
    <3>2. f \in Read(r) <=> r.human
      BY <2>3 DEF Read, Plain, Geo, Place, Context, Mfa, Actor
    <3>3. f \in Dropped(r) <=> r.human /\ Class(r) = 0
      BY <2>3 DEF Dropped, Place, Actor
    <3> QED  BY <3>1, <3>2, <3>3
  <2>4. CASE f = "actor.type"
    <3>1. f \in Shown <=> r.human /\ Actor \cap r.fields # {} /\ Class(r) # 0
      BY <1>9, <1>14, <2>4, ShownBy
    <3>2. f \in Read(r)
      BY <2>4 DEF Read
    <3>3. f \in Dropped(r) <=> Class(r) = 0 \/ ~r.human \/ Actor \cap r.fields = {}
      BY <2>4 DEF Dropped, Place, Actor
    <3> QED  BY <3>1, <3>2, <3>3
  <2>5. CASE f \in Place \union {"client.ipAddress"}
    <3>1. f \in Shown <=> Class(r) # 0
      BY <1>10, <1>14, <2>5, ShownBy
    <3>2. f \in Read(r)
      BY <2>5 DEF Read, Geo, Context
    <3>3. f \in Dropped(r) <=> Class(r) = 0
      BY <2>5 DEF Dropped, Place, Actor
    <3> QED  BY <3>1, <3>2, <3>3
  <2>6. CASE f \in {"geo.postalCode", "geo.geolocation"}
    <3>1. f \notin Shown
      BY <1>14, <2>6, ShownBy
    <3> QED  BY <2>6, <3>1 DEF Read, Geo, Dropped
  <2>7. CASE f = "client.userAgent"
    <3>1. f \in Shown <=> Class(r) # 0
      BY <1>11, <1>14, <2>7, ShownBy
    <3>2. f \in Read(r)
      BY <2>7 DEF Read, Context
    <3>3. f \in Dropped(r) <=> Class(r) = 0
      BY <2>7 DEF Dropped, Place, Actor
    <3> QED  BY <3>1, <3>2, <3>3
  <2>8. CASE f = "externalSessionId"
    <3>1. f \in Shown <=> Class(r) \in {3002, 3003}
      BY <1>12, <1>14, <2>8, ShownBy
    <3>2. f \in Read(r)
      BY <2>8 DEF Read, Context
    <3>3. f \in Dropped(r) <=> Class(r) \notin {3002, 3003}
      BY <2>8 DEF Dropped, Place, Actor
    <3> QED  BY <3>1, <3>2, <3>3
  <2>9. CASE f \in Mfa
    <3>1. f \in Shown <=> Class(r) = 3002
      BY <1>13, <1>14, <2>9, ShownBy
    <3>2. f \in Read(r) <=> Class(r) = 3002
      BY <2>9 DEF Read, Plain, Geo, Place, Context, Mfa, Actor
    <3>3. f \notin Dropped(r)
      BY <2>9 DEF Dropped, Place, Actor, Mfa
    <3> QED  BY <3>1, <3>2, <3>3
  <2>10. CASE f \in {"target", "transaction"}
    <3>1. f \notin Read(r)
      BY <2>10 DEF Read, Plain, Geo, Place, Context, Mfa, Actor
    <3>2. f \notin Dropped(r)
      BY <2>10 DEF Dropped, Place, Actor
    <3> QED  BY <3>1, <3>2
  <2> QED
    BY <1>1, <2>1, <2>2, <2>3, <2>4, <2>5, <2>6, <2>7, <2>8, <2>9, <2>10
    DEF Fields, Plain, Geo, Context
<1> QED  BY <1>2, <1>15
=============================================================================
