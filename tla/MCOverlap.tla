----------------------------- MODULE MCOverlap -----------------------------
(***************************************************************************)
(* A window of a few records in two buckets.                               *)
(***************************************************************************)
EXTENDS Overlap

WindowUid    == <<"a", "b", "c">>
WindowEvent  == WindowUid
WindowBucket == [u \in {"a", "b", "c"} |-> IF u = "c" THEN "auth day 2" ELSE "auth day 1"]
=============================================================================
