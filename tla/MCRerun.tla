------------------------------ MODULE MCRerun ------------------------------
(***************************************************************************)
(* A window of three records of one (class, day), the second of which is   *)
(* indexed after the window was first walked.                              *)
(***************************************************************************)
EXTENDS Rerun

WindowUid    == <<"a", "late", "b">>
WindowBucket == [u \in {"a", "late", "b"} |-> "auth day 1"]
=============================================================================
