--------------------------- MODULE MCStateStore ---------------------------
(***************************************************************************)
(* A tail and a backfill on one database, two batches and one; they share  *)
(* a uid.                                                                  *)
(***************************************************************************)
EXTENDS StateStore

TwoStreams == {"tail", "backfill"}
TwoBatches == [s \in TwoStreams |->
                 IF s = "tail" THEN <<{"a", "b"}, {"c"}>> ELSE <<{"a"}>>]
=============================================================================
