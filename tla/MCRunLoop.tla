----------------------------- MODULE MCRunLoop -----------------------------
(***************************************************************************)
(* Small logs for RunLoop.  A bucket is the (class, day) a uid maps to.    *)
(***************************************************************************)
EXTENDS RunLoop

\* Five records in two buckets; "a" and "b" are served twice, on two different pages
\* or on one, depending on where the pages are cut.
RepeatedUid    == <<"a", "b", "a", "c", "b">>
RepeatedBucket == [u \in {"a", "b", "c"} |-> IF u = "b" THEN "auth day 2" ELSE "auth day 1"]

\* Four distinct records in two buckets.
DistinctUid    == <<"a", "b", "c", "d">>
DistinctBucket == [u \in {"a", "b", "c", "d"} |->
                     IF u \in {"c", "d"} THEN "auth day 2" ELSE "auth day 1"]

\* Three records of which the last repeats the first.
EchoUid    == <<"a", "b", "a">>
EchoBucket == [u \in {"a", "b"} |-> "auth day 1"]
=============================================================================
