------------------------------ MODULE Overlap ------------------------------
(***************************************************************************)
(* A tail and a backfill over the same records at the same time, two       *)
(* processes on one state database.  Each stream has its own row and its   *)
(* own batch keys, so its own objects: their opening queries differ, and   *)
(* with them every cursor text.  What they share is the log and the        *)
(* seen-set, which is not per stream (state/sqlite.py, table seen).        *)
(***************************************************************************)
EXTENDS Naturals, FiniteSets

CONSTANTS
  N, Uid, Bucket, Limit, MaxBuffered, PageEnds, Lapsable, MaxEnds, None,
  Event,   \* Event[p]: which event the record at p is, with or without a uid
  Blank    \* the uid of a record without one

VARIABLES visible, seen, marked

\* the tail's row, objects and process
VARIABLES
  tailRow, tailLake, tailPc, tailCursor, tailBatchKey, tailBuffer,
  tailPending, tailPage, tailNextCursor, tailPut, tailAged, tailStampDue,
  tailEnds

\* the backfill's
VARIABLES
  fillRow, fillLake, fillPc, fillCursor, fillBatchKey, fillBuffer,
  fillPending, fillPage, fillNextCursor, fillPut, fillAged, fillStampDue,
  fillEnds

tailVars == <<tailRow, tailLake, tailPc, tailCursor, tailBatchKey,
              tailBuffer, tailPending, tailPage, tailNextCursor, tailPut,
              tailAged, tailStampDue, tailEnds>>
fillVars == <<fillRow, fillLake, fillPc, fillCursor, fillBatchKey,
              fillBuffer, fillPending, fillPage, fillNextCursor, fillPut,
              fillAged, fillStampDue, fillEnds>>
vars == <<visible, seen, marked, tailVars, fillVars>>

TailLoop == INSTANCE RunLoop WITH
  Bounded <- FALSE, Late <- {},
  row <- tailRow, lake <- tailLake, pc <- tailPc,
  cursor <- tailCursor, batchKey <- tailBatchKey, buffer <- tailBuffer,
  pending <- tailPending, page <- tailPage, nextCursor <- tailNextCursor,
  put <- tailPut, aged <- tailAged, stampDue <- tailStampDue,
  ends <- tailEnds

FillLoop == INSTANCE RunLoop WITH
  Bounded <- TRUE, Late <- {},
  row <- fillRow, lake <- fillLake, pc <- fillPc,
  cursor <- fillCursor, batchKey <- fillBatchKey, buffer <- fillBuffer,
  pending <- fillPending, page <- fillPage, nextCursor <- fillNextCursor,
  put <- fillPut, aged <- fillAged, stampDue <- fillStampDue,
  ends <- fillEnds

\* Records that share a uid are copies of one event.
ASSUME OverlapAssumption ==
  /\ TailLoop!LoopAssumption /\ FillLoop!LoopAssumption
  /\ \A p, q \in 1 .. N : Uid[p] = Uid[q] /\ Uid[p] # Blank => Event[p] = Event[q]

\* The window lies in the past: all its records are indexed when both run.
Init ==
  /\ visible = 1 .. N
  /\ TailLoop!InitDurable /\ TailLoop!InitProcess
  /\ FillLoop!InitDurable /\ FillLoop!InitProcess

TailStep == TailLoop!Next /\ UNCHANGED fillVars
FillStep == FillLoop!Next /\ UNCHANGED tailVars

Next == TailStep \/ FillStep

Spec == Init /\ [][Next]_vars

-----------------------------------------------------------------------------
\* The events in the lake, in objects of either stream.
Held == UNION {{Event[p] : p \in tailLake[k] \union fillLake[k]} : k \in 0 .. N}

\* The lake has the event of p; of those without a uid, which the seen-set takes
\* for one event (their uid is "", mapping/okta.py), it has some.
IsHeld(p) == \/ Event[p] \in Held
             \/ Uid[p] = Blank /\ Blank \in TailLoop!Delivered \union FillLoop!Delivered

(* Neither stream passes a record whose event is in no object of either,   *)
(* though each may skip it because the other delivered it; records without *)
(* a uid vouch for each other.                                             *)
NoLossAcross ==
  \A p \in visible : p <= TailLoop!Resume \/ p <= FillLoop!Resume => IsHeld(p)

(* A stream is stamped caught up only when the events of all it was served *)
(* are in the lake, what it skipped for the other's sake included, with    *)
(* the same reserve about records without a uid.  (A backfill is stamped   *)
(* when Okta answers it with an empty page that has a link.)               *)
StampsHonestAcross ==
  \A p \in visible :
    \/ tailPc = "stamp" /\ p <= tailCursor
    \/ fillPc = "stamp" /\ p <= fillCursor
      => IsHeld(p)

\* What both streams have written, and what either has recorded.
TailPromise == INSTANCE Delivery WITH
  held <- TailLoop!Delivered \union FillLoop!Delivered,
  settled <- marked, resume <- TailLoop!Resume
FillPromise == INSTANCE Delivery WITH
  held <- TailLoop!Delivered \union FillLoop!Delivered,
  settled <- marked, resume <- FillLoop!Resume

(* Sharing the seen-set breaks neither stream's promise: a uid that either *)
(* has settled stays in the lake, and neither resumes past one that is not.*)
OverlapKeepsPromises == TailPromise!Spec /\ FillPromise!Spec

(* The overlap of a tail and a backfill does not duplicate events.         *)
OverlapDoesNotDuplicate == TailLoop!Delivered \cap FillLoop!Delivered = {}
=============================================================================
