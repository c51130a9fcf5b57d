------------------------------ MODULE MCAudit ------------------------------
(***************************************************************************)
(* Three records for two custom sources: two different events without a    *)
(* uid, the second with no usable timestamp either, and one event with a   *)
(* uid.  Asked for are the two records without one, whose padding reaches  *)
(* the third, and the third, with no readable row but its own.             *)
(***************************************************************************)
EXTENDS Audit

LogUid    == <<"", "", "a">>
LogEvent  == <<"b", "c", "a">>
LogBucket == [u \in {"a", ""} |-> [class |-> IF u = "a" THEN 3002 ELSE 3004, day |-> 1]]

Sources == <<3002, 3004>>
Closed  == {{1, 2}, {3}}
=============================================================================
