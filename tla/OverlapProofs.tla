--------------------------- MODULE OverlapProofs ---------------------------
(***************************************************************************)
(* A tail and a backfill on one seen-set lose nothing between them, for    *)
(* every window, page size and number of deaths of either: each keeps what *)
(* RunLoopProofs shows of a stream that is not alone.  From that follows   *)
(* that the verdict of an operator who reconciles meanwhile can be trusted.*)
(***************************************************************************)
EXTENDS Audit, TLAPS

T == INSTANCE RunLoopProofs WITH
  Bounded <- FALSE, Late <- {}, row <- tailRow, lake <- tailLake, pc <- tailPc,
  cursor <- tailCursor, batchKey <- tailBatchKey, buffer <- tailBuffer,
  pending <- tailPending, page <- tailPage, nextCursor <- tailNextCursor,
  put <- tailPut, aged <- tailAged, stampDue <- tailStampDue,
  ends <- tailEnds

F == INSTANCE RunLoopProofs WITH
  Bounded <- TRUE, Late <- {}, row <- fillRow, lake <- fillLake, pc <- fillPc,
  cursor <- fillCursor, batchKey <- fillBatchKey, buffer <- fillBuffer,
  pending <- fillPending, page <- fillPage, nextCursor <- fillNextCursor,
  put <- fillPut, aged <- fillAged, stampDue <- fillStampDue,
  ends <- fillEnds

(* What a window assumes is what each stream's loop assumes.               *)
LEMMA Assumptions == T!LoopAssumption /\ F!LoopAssumption
BY OverlapAssumption DEF T!LoopAssumption, T!Positions, T!Uids, T!Cuts, T!Served, T!Span,
  T!Cardinality, F!LoopAssumption, F!Positions, F!Uids, F!Cuts, F!Served, F!Span, F!Cardinality,
  TailLoop!LoopAssumption, TailLoop!Positions, TailLoop!Uids, TailLoop!Cuts, TailLoop!Served,
  TailLoop!Span, TailLoop!Cardinality, FillLoop!LoopAssumption, FillLoop!Positions,
  FillLoop!Uids, FillLoop!Cuts, FillLoop!Served, FillLoop!Span, FillLoop!Cardinality

(* The tail of Overlap and the tail the loop's lemmas speak of are one.    *)
LEMMA TailIsT == TailLoop!Next => T!Next
BY DEF
  TailLoop!Start, TailLoop!Open, TailLoop!Finished, TailLoop!Volatile, TailLoop!StoredCursor,
  TailLoop!End, TailLoop!logVars, TailLoop!durableVars, TailLoop!procVars, TailLoop!batchVars,
  TailLoop!pageVars, TailLoop!Stop, TailLoop!Die, TailLoop!Fetch, TailLoop!Response,
  TailLoop!Between, TailLoop!Filter, TailLoop!Fresh, TailLoop!ShouldFlush, TailLoop!PutObject,
  TailLoop!BucketOf, TailLoop!Acknowledge, TailLoop!Commit, TailLoop!UidsOf, TailLoop!Report,
  TailLoop!Exit, TailLoop!Advance, TailLoop!MarkCaughtUp, TailLoop!Publish, TailLoop!Positions,
  TailLoop!AgeBuffer, TailLoop!HourPasses, TailLoop!Lapse, TailLoop!Work, TailLoop!Next,
  TailLoop!Cursors, TailLoop!Cardinality, T!Start, T!Open, T!Finished, T!Volatile,
  T!StoredCursor, T!End, T!logVars, T!durableVars, T!procVars, T!batchVars, T!pageVars, T!Stop,
  T!Die, T!Fetch, T!Response, T!Between, T!Filter, T!Fresh, T!ShouldFlush, T!PutObject,
  T!BucketOf, T!Acknowledge, T!Commit, T!UidsOf, T!Report, T!Exit, T!Advance, T!MarkCaughtUp,
  T!Publish, T!Positions, T!AgeBuffer, T!HourPasses, T!Lapse, T!Work, T!Next, T!Cursors,
  T!Cardinality

(* The same for the backfill.                                              *)
LEMMA FillIsF == FillLoop!Next => F!Next
BY DEF
  FillLoop!Start, FillLoop!Open, FillLoop!Finished, FillLoop!Volatile, FillLoop!StoredCursor,
  FillLoop!End, FillLoop!logVars, FillLoop!durableVars, FillLoop!procVars, FillLoop!batchVars,
  FillLoop!pageVars, FillLoop!Stop, FillLoop!Die, FillLoop!Fetch, FillLoop!Response,
  FillLoop!Between, FillLoop!Filter, FillLoop!Fresh, FillLoop!ShouldFlush, FillLoop!PutObject,
  FillLoop!BucketOf, FillLoop!Acknowledge, FillLoop!Commit, FillLoop!UidsOf, FillLoop!Report,
  FillLoop!Exit, FillLoop!Advance, FillLoop!MarkCaughtUp, FillLoop!Publish, FillLoop!Positions,
  FillLoop!AgeBuffer, FillLoop!HourPasses, FillLoop!Lapse, FillLoop!Work, FillLoop!Next,
  FillLoop!Cursors, FillLoop!Cardinality, F!Start, F!Open, F!Finished, F!Volatile,
  F!StoredCursor, F!End, F!logVars, F!durableVars, F!procVars, F!batchVars, F!pageVars, F!Stop,
  F!Die, F!Fetch, F!Response, F!Between, F!Filter, F!Fresh, F!ShouldFlush, F!PutObject,
  F!BucketOf, F!Acknowledge, F!Commit, F!UidsOf, F!Report, F!Exit, F!Advance, F!MarkCaughtUp,
  F!Publish, F!Positions, F!AgeBuffer, F!HourPasses, F!Lapse, F!Work, F!Next, F!Cursors,
  F!Cardinality

(* Each stream keeps what holds of a stream that is not alone, and what    *)
(* either has marked is held behind the cursor of one of them.             *)
JointInvariant ==
  /\ visible = 1 .. N
  /\ T!StreamInvariant /\ F!StreamInvariant
  /\ \A u \in marked : T!HeldBehind(u) \/ F!HeldBehind(u)

Same == UNCHANGED <<visible, marked, tailRow, fillRow, tailLake, fillLake>>

\* A step writes objects, or settles and moves a cursor on, or does neither.
StepShape ==
  /\ marked \subseteq marked'
  /\ \/ Same
     \/ UNCHANGED <<visible, marked, tailRow, fillRow>>
     \/ /\ UNCHANGED <<visible, tailLake, fillLake>>
        /\ T!Resume' \in T!Resume .. N /\ F!Resume' \in F!Resume .. N

(* Both start with nothing, on a window that is served from end to end.    *)
LEMMA InitJoint ==
  ASSUME Init
  PROVE  JointInvariant
<1> USE DEF Init
<1>1. T!InitDurable /\ T!InitProcess /\ F!InitDurable /\ F!InitProcess
  BY DEF TailLoop!InitDurable, T!InitDurable, TailLoop!InitProcess, T!InitProcess,
    FillLoop!InitDurable, F!InitDurable, FillLoop!InitProcess, F!InitProcess,
    TailLoop!Cursors, T!Cursors, FillLoop!Cursors, F!Cursors
<1>2. T!StreamInvariant /\ F!StreamInvariant
  <2>1. /\ T!FreshDatabase /\ tailLake \in [T!Cursors -> SUBSET T!Positions]
        /\ F!FreshDatabase /\ fillLake \in [F!Cursors -> SUBSET F!Positions]
    BY <1>1 DEF T!FreshDatabase, T!InitDurable, F!FreshDatabase, F!InitDurable
  <2> QED  BY <1>1, <2>1, Assumptions, T!InitInv, F!InitInv DEF T!Positions, F!Positions
<1> QED  BY <1>1, <1>2 DEF JointInvariant, T!InitDurable

(* A step of the tail is one of the loop, and to the backfill it is        *)
(* interference with the seen-set and nothing else.                        *)
LEMMA TailStepKeeps ==
  ASSUME JointInvariant, TailStep
  PROVE  JointInvariant' /\ StepShape
<1> USE DEF JointInvariant
<1>1. T!Next /\ T!LoopAssumption /\ F!LoopAssumption
  BY Assumptions, TailIsT DEF TailStep
<1>2. T!StreamInvariant'
  BY <1>1, T!StreamNext
<1>3. /\ marked \subseteq marked'
      /\ \A u : T!HeldBehind(u) => T!HeldBehind(u)'
      /\ \A u \in marked' \ marked : T!HeldBehind(u)'
  BY <1>1, T!HeldStep
<1>4. \/ UNCHANGED <<visible, tailRow, marked, tailLake>>
      \/ T!PutObject
      \/ T!Commit
  BY <1>1, T!DurableSteps DEF T!Publish, T!Positions
<1>5. UNCHANGED visible
  BY <1>1, <1>4, T!PutAtResume, T!CommitForward
<1>6. F!StreamInvariant'
  <2>1. marked' \subseteq F!Uids /\ seen' \subseteq marked'
    BY <1>2 DEF T!StreamInvariant, T!TypeOK, T!SettledBehind, T!Uids, F!Uids, T!Positions,
      F!Positions
  <2>2. UNCHANGED <<visible, fillRow, fillLake, F!procVars, fillEnds>>
    BY <1>5 DEF TailStep, fillVars, F!procVars, F!batchVars, F!pageVars
  <2> QED  BY <1>1, <1>3, <2>1, <2>2, F!Interference
<1>7. \A u : F!HeldBehind(u)' <=> F!HeldBehind(u)
  BY DEF TailStep, fillVars, F!HeldBehind, F!UidsOf, F!Resume, F!End, F!Cursors
<1>8. JointInvariant'
  BY <1>2, <1>3, <1>5, <1>6, <1>7
<1>9. StepShape
  <2> USE <1>3
  <2>1. CASE UNCHANGED <<visible, tailRow, marked, tailLake>>
    BY <2>1 DEF TailStep, fillVars, StepShape, Same
  <2>2. CASE T!PutObject
    BY <1>1, <1>5, <2>2, T!PutAtResume DEF TailStep, fillVars, StepShape
  <2>3. CASE T!Commit
    BY <1>1, <1>5, <2>3, T!CommitForward, T!ResumeType, F!ResumeType DEF TailStep, fillVars,
      StepShape, F!Resume, F!End
  <2> QED  BY <1>4, <2>1, <2>2, <2>3
<1> QED  BY <1>8, <1>9

(* The same the other way round.                                           *)
LEMMA FillStepKeeps ==
  ASSUME JointInvariant, FillStep
  PROVE  JointInvariant' /\ StepShape
<1> USE DEF JointInvariant
<1>1. F!Next /\ F!LoopAssumption /\ T!LoopAssumption
  BY Assumptions, FillIsF DEF FillStep
<1>2. F!StreamInvariant'
  BY <1>1, F!StreamNext
<1>3. /\ marked \subseteq marked'
      /\ \A u : F!HeldBehind(u) => F!HeldBehind(u)'
      /\ \A u \in marked' \ marked : F!HeldBehind(u)'
  BY <1>1, F!HeldStep
<1>4. \/ UNCHANGED <<visible, fillRow, marked, fillLake>>
      \/ F!PutObject
      \/ F!Commit
  BY <1>1, F!DurableSteps DEF F!Publish, F!Positions
<1>5. UNCHANGED visible
  BY <1>1, <1>4, F!PutAtResume, F!CommitForward
<1>6. T!StreamInvariant'
  <2>1. marked' \subseteq T!Uids /\ seen' \subseteq marked'
    BY <1>2 DEF F!StreamInvariant, F!TypeOK, F!SettledBehind, F!Uids, T!Uids, F!Positions,
      T!Positions
  <2>2. UNCHANGED <<visible, tailRow, tailLake, T!procVars, tailEnds>>
    BY <1>5 DEF FillStep, tailVars, T!procVars, T!batchVars, T!pageVars
  <2> QED  BY <1>1, <1>3, <2>1, <2>2, T!Interference
<1>7. \A u : T!HeldBehind(u)' <=> T!HeldBehind(u)
  BY DEF FillStep, tailVars, T!HeldBehind, T!UidsOf, T!Resume, T!End, T!Cursors
<1>8. JointInvariant'
  BY <1>2, <1>3, <1>5, <1>6, <1>7
<1>9. StepShape
  <2> USE <1>3
  <2>1. CASE UNCHANGED <<visible, fillRow, marked, fillLake>>
    BY <2>1 DEF FillStep, tailVars, StepShape, Same
  <2>2. CASE F!PutObject
    BY <1>1, <1>5, <2>2, F!PutAtResume DEF FillStep, tailVars, StepShape
  <2>3. CASE F!Commit
    BY <1>1, <1>5, <2>3, F!CommitForward, F!ResumeType, T!ResumeType DEF FillStep, tailVars,
      StepShape, T!Resume, T!End
  <2> QED  BY <1>4, <2>1, <2>2, <2>3
<1> QED  BY <1>8, <1>9

(* A stuttering step keeps it too.                                         *)
LEMMA Stutter ==
  ASSUME JointInvariant, UNCHANGED vars
  PROVE  JointInvariant' /\ StepShape
<1> USE DEF JointInvariant, vars, tailVars, fillVars
<1>1. UNCHANGED T!vars /\ UNCHANGED F!vars
  BY DEF T!vars, F!vars, T!logVars, F!logVars, T!durableVars, F!durableVars, T!procVars,
    F!procVars, T!batchVars, F!batchVars, T!pageVars, F!pageVars
<1>2. T!StreamInvariant' /\ F!StreamInvariant'
  BY <1>1, Assumptions, T!StreamNext, F!StreamNext
<1>3. \A u : (T!HeldBehind(u)' <=> T!HeldBehind(u)) /\ (F!HeldBehind(u)' <=> F!HeldBehind(u))
  BY DEF T!HeldBehind, T!UidsOf, T!Resume, T!End, T!Cursors, F!HeldBehind, F!UidsOf, F!Resume,
    F!End, F!Cursors
<1> QED  BY <1>2, <1>3 DEF StepShape, Same

(* JointInvariant is inductive.                                            *)
LEMMA JointStep ==
  ASSUME JointInvariant, [Next]_vars
  PROVE  JointInvariant' /\ StepShape
BY TailStepKeeps, FillStepKeeps, Stutter DEF Next

(* So it holds in every reachable state.                                   *)
LEMMA JointHolds == Spec => []JointInvariant
<1>1. Init => JointInvariant
  BY InitJoint
<1>2. JointInvariant /\ [Next]_vars => JointInvariant'
  BY JointStep
<1> QED  BY <1>1, <1>2, PTL DEF Spec

(* The operators Overlap's properties are stated with.                     *)
LEMMA SameView ==
  /\ TailLoop!Resume = T!Resume /\ FillLoop!Resume = F!Resume
  /\ TailLoop!Delivered = T!Delivered /\ FillLoop!Delivered = F!Delivered
BY DEF TailLoop!Resume, TailLoop!End, T!Resume, T!End, FillLoop!Resume, FillLoop!End, F!Resume,
  F!End, TailLoop!Delivered, TailLoop!UidsOf, TailLoop!Cursors, T!Delivered, T!UidsOf, T!Cursors,
  FillLoop!Delivered, FillLoop!UidsOf, FillLoop!Cursors, F!Delivered, F!UidsOf, F!Cursors

(* What either stream has marked is in an object of one of them.           *)
LEMMA MarkedHeld ==
  ASSUME JointInvariant
  PROVE  marked \subseteq TailLoop!Delivered \union FillLoop!Delivered
BY SameView DEF JointInvariant, T!HeldBehind, T!Delivered, T!UidsOf, F!HeldBehind, F!Delivered,
  F!UidsOf

(* What the lake has a copy of by its uid, it has by what it is.           *)
LEMMA DeliveredIsHeld ==
  ASSUME JointInvariant, NEW p \in 1 .. N,
         Uid[p] \in TailLoop!Delivered \union FillLoop!Delivered
  PROVE  IsHeld(p)
<1>0. PICK k \in 0 .. N : \E r \in tailLake[k] \union fillLake[k] : Uid[r] = Uid[p]
  BY DEF TailLoop!Delivered, TailLoop!UidsOf, TailLoop!Cursors, FillLoop!Delivered,
    FillLoop!UidsOf, FillLoop!Cursors
<1>1. PICK q \in tailLake[k] \union fillLake[k] : Uid[q] = Uid[p]
  BY <1>0
<1>2. q \in 1 .. N
  BY <1>1 DEF JointInvariant, T!StreamInvariant, T!TypeOK, T!Cursors, T!Positions,
    F!StreamInvariant, F!TypeOK, F!Cursors, F!Positions
<1>3. CASE Uid[p] # Blank
  <2>1. Event[p] = Event[q]
    BY <1>1, <1>2, <1>3, OverlapAssumption
  <2> QED  BY <1>1, <2>1 DEF IsHeld, Held
<1> QED  BY <1>3 DEF IsHeld

(* What is behind either resume position is marked, so in the lake.        *)
LEMMA PassedIsDelivered ==
  ASSUME JointInvariant, NEW p \in visible, p <= TailLoop!Resume \/ p <= FillLoop!Resume
  PROVE  Uid[p] \in TailLoop!Delivered \union FillLoop!Delivered
BY SameView, MarkedHeld DEF JointInvariant, T!StreamInvariant, T!SettledBehind,
  F!StreamInvariant, F!SettledBehind

(* Neither stream passes a record whose event the lake does not hold,      *)
(* although each skips what the other has marked; of records without a uid *)
(* it holds one.                                                           *)
THEOREM NothingLostAcross == Spec => []NoLossAcross
<1>1. JointInvariant => NoLossAcross
  BY PassedIsDelivered, DeliveredIsHeld DEF NoLossAcross, JointInvariant
<1> QED  BY <1>1, JointHolds, PTL

(* A stamp of either says the same of everything it was served.            *)
THEOREM StampsAlwaysHonest == Spec => []StampsHonestAcross
<1>1. JointInvariant => StampsHonestAcross
  <2> SUFFICES ASSUME JointInvariant, NEW p \in visible,
                      \/ tailPc = "stamp" /\ p <= tailCursor
                      \/ fillPc = "stamp" /\ p <= fillCursor
               PROVE  IsHeld(p)
    BY DEF StampsHonestAcross
  <2>1. Uid[p] \in marked
    BY Assumptions, T!StampedMarked, F!StampedMarked DEF JointInvariant
  <2> QED  BY <2>1, MarkedHeld, DeliveredIsHeld DEF JointInvariant
<1> QED  BY <1>1, JointHolds, PTL

(* A step of one stream is invisible to what the other has settled, and    *)
(* none moves a cursor back or touches an object behind it.                *)
LEMMA SettledStep ==
  ASSUME JointInvariant, [Next]_vars
  PROVE  /\ T!Resume <= T!Resume' /\ (T!Finished => T!Finished')
         /\ \A k \in T!Cursors : k < T!Resume => tailLake'[k] = tailLake[k]
         /\ F!Resume <= F!Resume' /\ (F!Finished => F!Finished')
         /\ \A k \in F!Cursors : k < F!Resume => fillLake'[k] = fillLake[k]
<1> USE DEF JointInvariant
<1>0. T!LoopAssumption /\ F!LoopAssumption /\ T!Resume \in Nat /\ F!Resume \in Nat
  BY Assumptions, T!ResumeType, F!ResumeType
<1>1. ASSUME UNCHANGED tailVars
      PROVE  /\ T!Resume' = T!Resume /\ (T!Finished => T!Finished')
             /\ tailLake' = tailLake
  BY <1>1 DEF tailVars, T!Resume, T!End, T!Finished
<1>2. ASSUME UNCHANGED fillVars
      PROVE  /\ F!Resume' = F!Resume /\ (F!Finished => F!Finished')
             /\ fillLake' = fillLake
  BY <1>2 DEF fillVars, F!Resume, F!End, F!Finished
<1>3. CASE TailStep
  <2>1. T!Next /\ UNCHANGED fillVars
    BY <1>3, TailIsT DEF TailStep
  <2> QED  BY <1>0, <1>2, <2>1, T!ResumeStep, T!FrozenStep
<1>4. CASE FillStep
  <2>1. F!Next /\ UNCHANGED tailVars
    BY <1>4, FillIsF DEF FillStep
  <2> QED  BY <1>0, <1>1, <2>1, F!ResumeStep, F!FrozenStep
<1>5. CASE UNCHANGED vars
  BY <1>0, <1>1, <1>2, <1>5 DEF vars
<1> QED  BY <1>3, <1>4, <1>5 DEF Next

(* Two streams on one seen-set never move each other's cursor back, nor    *)
(* touch an object the other, or they themselves, have committed past.     *)
THEOREM NeitherDisturbed ==
  Spec => /\ TailLoop!CursorAdvances /\ TailLoop!SettledObjectsFrozen
          /\ FillLoop!CursorAdvances /\ FillLoop!SettledObjectsFrozen
<1>1. JointInvariant /\ [Next]_vars
        => /\ [TailLoop!Resume <= TailLoop!Resume'
                 /\ (TailLoop!Finished => TailLoop!Finished')]_(TailLoop!vars)
           /\ [\A k \in TailLoop!Cursors : k < TailLoop!Resume
                                          => tailLake'[k] = tailLake[k]]_(TailLoop!vars)
           /\ [FillLoop!Resume <= FillLoop!Resume'
                 /\ (FillLoop!Finished => FillLoop!Finished')]_(FillLoop!vars)
           /\ [\A k \in FillLoop!Cursors : k < FillLoop!Resume
                                          => fillLake'[k] = fillLake[k]]_(FillLoop!vars)
  <2>1. /\ TailLoop!Resume = T!Resume /\ TailLoop!Resume' = T!Resume'
        /\ FillLoop!Resume = F!Resume /\ FillLoop!Resume' = F!Resume'
    BY DEF TailLoop!Resume, TailLoop!End, T!Resume, T!End, FillLoop!Resume, FillLoop!End,
      F!Resume, F!End
  <2>2. /\ TailLoop!Finished = T!Finished /\ TailLoop!Finished' = T!Finished'
        /\ FillLoop!Finished = F!Finished /\ FillLoop!Finished' = F!Finished'
        /\ TailLoop!Cursors = T!Cursors /\ FillLoop!Cursors = F!Cursors
    BY DEF TailLoop!Finished, T!Finished, FillLoop!Finished, F!Finished, TailLoop!Cursors,
      T!Cursors, FillLoop!Cursors, F!Cursors
  <2> QED  BY <2>1, <2>2, SettledStep
<1> QED
  BY <1>1, JointHolds, PTL DEF Spec, TailLoop!CursorAdvances, TailLoop!SettledObjectsFrozen,
    FillLoop!CursorAdvances, FillLoop!SettledObjectsFrozen

(* What a record is written again costs the stream that wrote it an end of *)
(* its own: the other's deaths, and its marks, add no copy under its keys. *)
THEOREM CopiesBoundedForBoth ==
  Spec => [](TailLoop!CopiesBounded /\ FillLoop!CopiesBounded)
<1>1. Init => T!CopiesEarned /\ F!CopiesEarned
  <2> SUFFICES ASSUME Init
               PROVE  T!CopiesEarned /\ F!CopiesEarned
    OBVIOUS
  <2>1. T!InitDurable /\ T!InitProcess /\ F!InitDurable /\ F!InitProcess
    BY DEF Init, TailLoop!InitDurable, T!InitDurable, TailLoop!InitProcess, T!InitProcess,
      FillLoop!InitDurable, F!InitDurable, FillLoop!InitProcess, F!InitProcess,
      TailLoop!Cursors, T!Cursors, FillLoop!Cursors, F!Cursors
  <2> QED  BY <2>1, Assumptions, T!CopiesInit, F!CopiesInit
<1>2. JointInvariant /\ JointInvariant' /\ T!CopiesEarned /\ F!CopiesEarned /\ [Next]_vars
        => T!CopiesEarned' /\ F!CopiesEarned'
  <2> SUFFICES ASSUME JointInvariant, JointInvariant', T!CopiesEarned, F!CopiesEarned,
                      [Next]_vars
               PROVE  T!CopiesEarned' /\ F!CopiesEarned'
    OBVIOUS
  <2>1. UNCHANGED tailVars => T!CopiesEarned'
    BY DEF tailVars, T!CopiesEarned, T!Copies, T!Resume, T!End, T!Finished
  <2>2. UNCHANGED fillVars => F!CopiesEarned'
    BY DEF fillVars, F!CopiesEarned, F!Copies, F!Resume, F!End, F!Finished
  <2>3. T!Next => T!CopiesEarned'
    BY Assumptions, T!CopiesStep DEF JointInvariant
  <2>4. F!Next => F!CopiesEarned'
    BY Assumptions, F!CopiesStep DEF JointInvariant
  <2> QED  BY <2>1, <2>2, <2>3, <2>4, TailIsT, FillIsF DEF Next, TailStep, FillStep, vars
<1>3. T!CopiesEarned /\ F!CopiesEarned => TailLoop!CopiesBounded /\ FillLoop!CopiesBounded
  BY DEF T!CopiesEarned, T!Copies, T!Positions, T!Cursors, T!Cardinality,
    TailLoop!CopiesBounded, TailLoop!Copies, TailLoop!Positions, TailLoop!Cursors,
    TailLoop!Cardinality, F!CopiesEarned, F!Copies, F!Positions, F!Cursors, F!Cardinality,
    FillLoop!CopiesBounded, FillLoop!Copies, FillLoop!Positions, FillLoop!Cursors,
    FillLoop!Cardinality
<1> QED  BY <1>1, <1>2, <1>3, JointHolds, PTL DEF Spec

(* What overlapping streams may cost: an event whose seen row lasts lies   *)
(* under one key of each, and one more for each process of theirs that     *)
(* ended before its work.                                                  *)
THEOREM KeysBoundedForBoth ==
  Spec => [](TailLoop!KeysBounded /\ FillLoop!KeysBounded)
<1>1. Init => T!KeysEarned /\ F!KeysEarned
  <2> SUFFICES ASSUME Init
               PROVE  T!KeysEarned /\ F!KeysEarned
    OBVIOUS
  <2>1. T!InitDurable /\ T!InitProcess /\ F!InitDurable /\ F!InitProcess
    BY DEF Init, TailLoop!InitDurable, T!InitDurable, TailLoop!InitProcess, T!InitProcess,
      FillLoop!InitDurable, F!InitDurable, FillLoop!InitProcess, F!InitProcess,
      TailLoop!Cursors, T!Cursors, FillLoop!Cursors, F!Cursors
  <2> QED  BY <2>1, Assumptions, T!KeysInit, F!KeysInit
<1>2. JointInvariant /\ T!KeysEarned /\ F!KeysEarned /\ [Next]_vars
        => T!KeysEarned' /\ F!KeysEarned'
  <2> SUFFICES ASSUME JointInvariant, T!KeysEarned, F!KeysEarned, [Next]_vars
               PROVE  T!KeysEarned' /\ F!KeysEarned'
    OBVIOUS
  <2>1. marked \subseteq marked'
    BY TailStepKeeps, FillStepKeeps DEF Next, StepShape, vars
  <2>2. CASE TailStep
    <3>1. T!KeysEarned'
      BY <2>2, Assumptions, TailIsT, T!KeysStep DEF TailStep, JointInvariant
    <3>2. marked' \ Lapsable \subseteq seen'
      BY <3>1 DEF T!KeysEarned
    <3>3. UNCHANGED <<fillRow, fillLake, fillPending, fillEnds>>
      BY <2>2 DEF TailStep, fillVars
    <3> QED  BY <2>1, <3>1, <3>2, <3>3, Assumptions, F!KeysInterference
  <2>3. CASE FillStep
    <3>1. F!KeysEarned'
      BY <2>3, Assumptions, FillIsF, F!KeysStep DEF FillStep, JointInvariant
    <3>2. marked' \ Lapsable \subseteq seen'
      BY <3>1 DEF F!KeysEarned
    <3>3. UNCHANGED <<tailRow, tailLake, tailPending, tailEnds>>
      BY <2>3 DEF FillStep, tailVars
    <3> QED  BY <2>1, <3>1, <3>2, <3>3, Assumptions, T!KeysInterference
  <2>4. CASE UNCHANGED vars
    <3>1. /\ UNCHANGED <<seen, marked, tailRow, tailLake, tailPending, tailEnds>>
          /\ UNCHANGED <<fillRow, fillLake, fillPending, fillEnds>>
      BY <2>4 DEF vars, tailVars, fillVars
    <3>2. marked' \ Lapsable \subseteq seen'
      BY <3>1 DEF T!KeysEarned
    <3> QED  BY <3>1, <3>2, Assumptions, T!KeysInterference, F!KeysInterference
  <2> QED  BY <2>2, <2>3, <2>4 DEF Next
<1>3. T!KeysEarned /\ F!KeysEarned => TailLoop!KeysBounded /\ FillLoop!KeysBounded
  BY DEF T!KeysEarned, T!KeysOf, T!Lasting, T!Uids, T!Positions, T!Cursors, T!UidsOf,
    T!Cardinality, TailLoop!KeysBounded, TailLoop!KeysOf, TailLoop!Uids, TailLoop!Positions,
    TailLoop!Cursors, TailLoop!UidsOf, TailLoop!Cardinality, F!KeysEarned, F!KeysOf, F!Lasting,
    F!Uids, F!Positions, F!Cursors, F!UidsOf, F!Cardinality, FillLoop!KeysBounded,
    FillLoop!KeysOf, FillLoop!Uids, FillLoop!Positions, FillLoop!Cursors, FillLoop!UidsOf,
    FillLoop!Cardinality
<1> QED  BY <1>1, <1>2, <1>3, JointHolds, PTL DEF Spec

-----------------------------------------------------------------------------
(* Nothing is held, settled or passed at first.                            *)
LEMMA PromiseInit ==
  ASSUME Init
  PROVE  TailPromise!Init /\ FillPromise!Init
BY DEF Init, TailLoop!InitDurable, FillLoop!InitDurable, TailLoop!Resume, FillLoop!Resume,
  TailLoop!Delivered, FillLoop!Delivered, TailLoop!UidsOf, FillLoop!UidsOf, TailPromise!Init,
  FillPromise!Init, TailPromise!Positions, FillPromise!Positions

(* A put of either is a write of Delivery to both, a commit of either      *)
(* settles for both.                                                       *)
LEMMA PromiseStep ==
  ASSUME JointInvariant, JointInvariant', StepShape
  PROVE  /\ [TailPromise!Next]_(TailPromise!vars)
         /\ [FillPromise!Next]_(FillPromise!vars)
<1> DEFINE held == TailLoop!Delivered \union FillLoop!Delivered
<1> USE DEF JointInvariant
<1>1. /\ TailLoop!Resume = T!Resume /\ TailLoop!Resume' = T!Resume'
      /\ FillLoop!Resume = F!Resume /\ FillLoop!Resume' = F!Resume'
  BY DEF TailLoop!Resume, TailLoop!End, T!Resume, T!End, FillLoop!Resume, FillLoop!End, F!Resume,
    F!End
<1>2. marked' \subseteq held'
  BY DEF T!HeldBehind, T!UidsOf, F!HeldBehind, F!UidsOf, TailLoop!Delivered, TailLoop!UidsOf,
    TailLoop!Cursors, T!Cursors, FillLoop!Delivered, FillLoop!UidsOf, FillLoop!Cursors, F!Cursors
<1>3. held' \subseteq {Uid[p] : p \in 1 .. N}
  <2>1. tailLake' \in [0 .. N -> SUBSET (1 .. N)] /\ fillLake' \in [0 .. N -> SUBSET (1 .. N)]
    BY DEF T!StreamInvariant, T!TypeOK, T!Positions, T!Cursors, F!StreamInvariant, F!TypeOK,
      F!Positions, F!Cursors
  <2>2. TailLoop!Delivered' \subseteq {Uid[p] : p \in 1 .. N}
    BY <2>1 DEF TailLoop!Delivered, TailLoop!UidsOf, TailLoop!Cursors
  <2>3. FillLoop!Delivered' \subseteq {Uid[p] : p \in 1 .. N}
    BY <2>1 DEF FillLoop!Delivered, FillLoop!UidsOf, FillLoop!Cursors
  <2> QED  BY <2>2, <2>3
<1>4. CASE Same
  BY <1>4 DEF Same, TailPromise!vars, FillPromise!vars, TailLoop!Resume, TailLoop!End,
    FillLoop!Resume, FillLoop!End, TailLoop!Delivered, TailLoop!UidsOf, TailLoop!Cursors,
    FillLoop!Delivered, FillLoop!UidsOf, FillLoop!Cursors
<1>5. CASE UNCHANGED <<visible, marked, tailRow, fillRow>>
  <2>1. UNCHANGED <<TailLoop!Resume, FillLoop!Resume>>
    BY <1>5 DEF TailLoop!Resume, TailLoop!End, FillLoop!Resume, FillLoop!End
  <2>2. TailPromise!Write /\ FillPromise!Write
    BY <1>2, <1>3, <1>5, <2>1 DEF TailPromise!Write, FillPromise!Write, TailPromise!Uids,
      TailPromise!Positions, FillPromise!Uids, FillPromise!Positions
  <2> QED  BY <2>2 DEF TailPromise!Next, FillPromise!Next
<1>6. CASE /\ UNCHANGED <<visible, tailLake, fillLake>>
           /\ T!Resume' \in T!Resume .. N /\ F!Resume' \in F!Resume .. N
  <2>1. held' = held
    BY <1>6 DEF TailLoop!Delivered, TailLoop!UidsOf, TailLoop!Cursors, FillLoop!Delivered,
      FillLoop!UidsOf, FillLoop!Cursors
  <2>2. /\ TailPromise!Behind(TailLoop!Resume', marked')
        /\ FillPromise!Behind(FillLoop!Resume', marked')
    BY <1>1, <1>6 DEF TailPromise!Behind, FillPromise!Behind, T!StreamInvariant,
      T!SettledBehind, F!StreamInvariant, F!SettledBehind
  <2>3. TailPromise!Settle /\ FillPromise!Settle
    BY <1>1, <1>2, <1>6, <2>1, <2>2 DEF TailPromise!Settle, FillPromise!Settle, StepShape
  <2> QED  BY <2>3 DEF TailPromise!Next, FillPromise!Next
<1> QED  BY <1>4, <1>5, <1>6 DEF StepShape

(* Sharing the seen-set breaks neither stream's promise (Delivery).        *)
THEOREM BothPromisesKept == Spec => OverlapKeepsPromises
<1>1. Init => TailPromise!Init /\ FillPromise!Init
  BY PromiseInit
<1>2. JointInvariant /\ JointInvariant' /\ [Next]_vars
        => /\ [TailPromise!Next]_(TailPromise!vars)
           /\ [FillPromise!Next]_(FillPromise!vars)
  BY JointStep, PromiseStep
<1> QED
  BY <1>1, <1>2, JointHolds, PTL DEF Spec, OverlapKeepsPromises, TailPromise!Spec,
    FillPromise!Spec

-----------------------------------------------------------------------------
(* The operator's verdict (Audit).                                         *)

Stored == Rows("tail", tailLake) \union Rows("fill", fillLake)

Found(u) == \E r \in rows : Script!RowUid(r) = u

\* What the table c was asked for, it has answered.
Answered(c) ==
  \A p \in asked \cap Dated : Uid[p] # Blank /\ ClassOf[p] = c => Found(Uid[p])

Unread == {unread[i] : i \in 1 .. Len(unread)}

\* A window a stream was past stays behind it; a table is unread, was skipped,
\* or has answered.
AuditInvariant ==
  /\ unread \in Seq(TableNames)
  /\ window # Unasked =>
       /\ window \in Windows
       /\ asked \subseteq visible \cap Script!Padded(window)
       /\ \A p \in Script!Padded(window) :
            p \in visible /\ (p <= TailLoop!Resume \/ p <= FillLoop!Resume)
       /\ \A p \in 1 .. N : ClassOf[p] \in Unread \union schemaless \/ Answered(ClassOf[p])

(* What the lake has of a uid is a row of the table its class goes to, with*)
(* the timestamp of every other copy.                                      *)
LEMMA DeliveredIsStored ==
  ASSUME JointInvariant, NEW u \in TailLoop!Delivered \union FillLoop!Delivered
  PROVE  \E r \in Stored : r[2] \in 1 .. N /\ Uid[r[2]] = u
<1>1. CASE u \in TailLoop!Delivered
  <2>1. PICK k \in 0 .. N : \E q \in tailLake[k] : Uid[q] = u
    BY <1>1 DEF TailLoop!Delivered, TailLoop!UidsOf, TailLoop!Cursors
  <2>2. PICK q \in tailLake[k] : Uid[q] = u
    BY <2>1
  <2>3. q \in 1 .. N
    BY <2>2 DEF JointInvariant, T!StreamInvariant, T!TypeOK, T!Cursors, T!Positions
  <2>4. <<<<"tail", k>>, q>> \in Stored
    BY <2>2 DEF Stored, Rows
  <2> QED  BY <2>2, <2>3, <2>4
<1>2. CASE u \in FillLoop!Delivered
  <2>1. PICK k \in 0 .. N : \E q \in fillLake[k] : Uid[q] = u
    BY <1>2 DEF FillLoop!Delivered, FillLoop!UidsOf, FillLoop!Cursors
  <2>2. PICK q \in fillLake[k] : Uid[q] = u
    BY <2>1
  <2>3. q \in 1 .. N
    BY <2>2 DEF JointInvariant, F!StreamInvariant, F!TypeOK, F!Cursors, F!Positions
  <2>4. <<<<"fill", k>>, q>> \in Stored
    BY <2>2 DEF Stored, Rows
  <2> QED  BY <2>2, <2>3, <2>4
<1> QED  BY <1>1, <1>2

(* Neither resume position moves back.                                     *)
LEMMA ResumesForward ==
  ASSUME JointInvariant, JointInvariant', StepShape
  PROVE  \A p \in visible :
           p <= TailLoop!Resume \/ p <= FillLoop!Resume
             => p <= TailLoop!Resume' \/ p <= FillLoop!Resume'
<1>1. /\ TailLoop!Resume = T!Resume /\ TailLoop!Resume' = T!Resume'
      /\ FillLoop!Resume = F!Resume /\ FillLoop!Resume' = F!Resume'
  BY DEF TailLoop!Resume, TailLoop!End, T!Resume, T!End, FillLoop!Resume, FillLoop!End, F!Resume,
    F!End
<1>2. T!Resume \in Nat /\ F!Resume \in Nat
  BY Assumptions, T!ResumeType, F!ResumeType DEF JointInvariant
<1>3. CASE Same \/ UNCHANGED <<visible, marked, tailRow, fillRow>>
  BY <1>3 DEF Same, TailLoop!Resume, TailLoop!End, FillLoop!Resume, FillLoop!End
<1>4. CASE T!Resume' \in T!Resume .. N /\ F!Resume' \in F!Resume .. N
  BY <1>1, <1>2, <1>4 DEF JointInvariant
<1> QED  BY <1>3, <1>4 DEF StepShape

(* While the script waits the streams go on, and nothing it rests on moves.*)
LEMMA StreamKeepsAudit ==
  ASSUME JointInvariant, JointInvariant', StepShape, AuditInvariant, UNCHANGED auditVars
  PROVE  AuditInvariant'
<1>1. UNCHANGED visible
  BY DEF JointInvariant
<1>2. \A c : Answered(c)' <=> Answered(c)
  BY DEF auditVars, Answered, Found, Script!RowUid
<1>3. \A w : Script!Padded(w)' = Script!Padded(w)
  BY DEF Script!Padded
<1>4. \A p \in 1 .. N : ClassOf[p]' = ClassOf[p]
  BY DEF ClassOf
<1> QED  BY <1>1, <1>2, <1>3, <1>4, ResumesForward DEF AuditInvariant, auditVars, Unread

(* The first query: nothing is read yet, and the window is behind a stream.*)
LEMMA ReadOktaKeepsAudit ==
  ASSUME JointInvariant, AuditInvariant, Script!ReadOkta, UNCHANGED vars
  PROVE  AuditInvariant'
<1>1. /\ window' \in Windows
      /\ asked' \subseteq visible \cap Script!Padded(window')
      /\ unread' = Tables
      /\ Script!Padded(window')
           \subseteq {p \in visible : p <= TailLoop!Resume \/ p <= FillLoop!Resume}
  BY DEF Script!ReadOkta, Script!Answers
<1>2. UNCHANGED <<visible, TailLoop!Resume, FillLoop!Resume>>
  BY DEF vars, tailVars, fillVars, TailLoop!Resume, TailLoop!End, FillLoop!Resume, FillLoop!End
<1>3. /\ Script!Padded(window)' = Script!Padded(window')
      /\ \A p \in 1 .. N : ClassOf[p]' = ClassOf[p]
  BY DEF Script!Padded, ClassOf
<1>4. unread' \in Seq(TableNames)
  BY <1>1, AuditAssumption
<1>5. \A p \in 1 .. N : ClassOf[p] \in Unread'
  BY <1>1, AuditAssumption DEF Unread, TableNames
<1> QED  BY <1>1, <1>2, <1>3, <1>4, <1>5 DEF AuditInvariant

(* The next table answers for every record it was asked about, or is       *)
(* skipped.                                                                *)
LEMMA ReadTableKeepsAudit ==
  ASSUME JointInvariant, AuditInvariant, Script!ReadTable, UNCHANGED vars
  PROVE  AuditInvariant'
<1>0. PICK c : c = Head(unread)
  OBVIOUS
<1>1. /\ unread # << >> /\ unread' = Tail(unread)
      /\ UNCHANGED <<window, asked>>
  BY DEF Script!ReadTable
<1>2. UNCHANGED <<visible, TailLoop!Resume, FillLoop!Resume>>
  BY DEF vars, tailVars, fillVars, TailLoop!Resume, TailLoop!End, FillLoop!Resume, FillLoop!End
<1>3. /\ Script!Padded(window)' = Script!Padded(window)
      /\ \A p \in 1 .. N : ClassOf[p]' = ClassOf[p]
  BY <1>1 DEF Script!Padded, ClassOf
<1>4. /\ unread' \in Seq(TableNames)
      /\ Unread \subseteq Unread' \union {c}
  <2>1. unread \in Seq(TableNames)
    BY DEF AuditInvariant
  <2>2. /\ unread' \in Seq(TableNames)
        /\ Len(unread') = Len(unread) - 1
        /\ \A i \in 1 .. Len(unread') : unread'[i] = unread[i + 1]
    BY <1>1, <2>1
  <2>3. ASSUME NEW i \in 1 .. Len(unread), unread[i] # c
        PROVE  unread[i] \in Unread'
    <3>1. i # 1 /\ i - 1 \in 1 .. Len(unread')
      BY <1>0, <2>1, <2>2, <2>3
    <3>2. unread'[i - 1] = unread[i]
      BY <2>1, <2>2, <3>1
    <3> QED  BY <3>1, <3>2 DEF Unread
  <2> QED  BY <2>2, <2>3 DEF Unread
<1>5. \A d : Answered(d) => Answered(d)'
  <2>1. rows \subseteq rows'
    BY DEF Script!ReadTable
  <2> QED  BY <1>1, <2>1, <1>3 DEF Answered, Found, Script!RowUid, ClassOf
<1>6. schemaless \subseteq schemaless'
  BY DEF Script!ReadTable
<1>7. ASSUME window # Unasked
      PROVE  c \in schemaless' \/ Answered(c)'
  <2>1. CASE schemaless' = schemaless \union {c}
    BY <2>1
  <2>2. CASE rows' = rows \union {r \in Stored : /\ r[2] \in Script!Padded(window) \cap Dated
                                                 /\ ClassOf[r[2]] = c}
    <3> SUFFICES ASSUME NEW p \in asked \cap Dated, Uid[p] # Blank, ClassOf[p] = c
                 PROVE  \E r \in rows' : Uid[r[2]] = Uid[p]
      BY <1>1, <1>3 DEF Answered, Found, Script!RowUid, ClassOf
    <3>1. /\ p \in visible /\ p \in Script!Padded(window) /\ p \in 1 .. N /\ window \in Windows
          /\ p <= TailLoop!Resume \/ p <= FillLoop!Resume
      BY <1>7 DEF AuditInvariant, JointInvariant
    <3>2. Uid[p] \in TailLoop!Delivered \union FillLoop!Delivered
      BY <3>1, PassedIsDelivered
    <3>3. PICK r \in Stored : r[2] \in 1 .. N /\ Uid[r[2]] = Uid[p]
      BY <3>2, DeliveredIsStored
    <3>4. r[2] \in Script!Padded(window) \cap Dated
      BY <3>1, <3>3, AuditAssumption
    <3>5. ClassOf[r[2]] = c
      BY <3>1, <3>3 DEF ClassOf
    <3> QED  BY <2>2, <3>3, <3>4, <3>5
  <2> QED  BY <1>0, <2>1, <2>2 DEF Script!ReadTable, Stored
<1>8. ASSUME window' # Unasked, NEW p \in 1 .. N
      PROVE  ClassOf[p] \in Unread' \union schemaless' \/ Answered(ClassOf[p])'
  BY <1>1, <1>4, <1>5, <1>6, <1>7, <1>8 DEF AuditInvariant
<1> QED  BY <1>1, <1>2, <1>3, <1>4, <1>8 DEF AuditInvariant

(* The script and the streams together keep both invariants.               *)
LEMMA AuditHolds == AuditSpec => [](JointInvariant /\ AuditInvariant)
<1>1. AuditInit => JointInvariant /\ AuditInvariant
  <2>1. AuditInit => unread = << >> /\ window = Unasked
    BY DEF AuditInit, Script!Init
  <2> QED  BY <2>1, InitJoint DEF AuditInit, AuditInvariant
<1>2. JointInvariant /\ AuditInvariant /\ [AuditNext]_<<vars, auditVars>>
        => JointInvariant' /\ AuditInvariant'
  <2> SUFFICES ASSUME JointInvariant, AuditInvariant, [AuditNext]_<<vars, auditVars>>
               PROVE  JointInvariant' /\ AuditInvariant'
    OBVIOUS
  <2>1. CASE Stream \/ UNCHANGED <<vars, auditVars>>
    <3>1. [Next]_vars /\ UNCHANGED auditVars
      BY <2>1 DEF Stream
    <3> QED  BY <3>1, JointStep, StreamKeepsAudit
  <2>2. CASE Audit
    <3>1. UNCHANGED vars /\ (Script!ReadOkta \/ Script!ReadTable)
      BY <2>2 DEF Audit, Script!Next
    <3> QED  BY <3>1, JointStep, ReadOktaKeepsAudit, ReadTableKeepsAudit
  <2> QED  BY <2>1, <2>2 DEF AuditNext
<1> QED  BY <1>1, <1>2, PTL DEF AuditSpec

(* "missing" can be believed (reconcile.py, compare).                      *)
THEOREM MissingAlwaysTrue == AuditSpec => []MissingIsTrue
<1>1. JointInvariant /\ AuditInvariant => MissingIsTrue
  <2> SUFFICES ASSUME JointInvariant, AuditInvariant, Script!Judged,
                      NEW p \in asked \cap Dated, Uid[p] # Blank, ClassOf[p] \notin schemaless
               PROVE  Uid[p] \notin Script!Missing
    BY DEF MissingIsTrue
  <2>1. window # Unasked /\ Unread = {} /\ p \in 1 .. N
    BY DEF Script!Judged, Unread, AuditInvariant, JointInvariant
  <2>2. Found(Uid[p])
    BY <2>1 DEF AuditInvariant, Answered
  <2> QED  BY <2>2 DEF Found, Script!Missing
<1> QED  BY <1>1, AuditHolds, PTL

(* So can "clean": an event without a uid is no reason to doubt it, since  *)
(* a row without one is a reason not to give the verdict.                  *)
THEOREM CleanAlwaysTrue == AuditSpec => []CleanIsTrue
<1>1. JointInvariant /\ AuditInvariant => CleanIsTrue
  <2> SUFFICES ASSUME JointInvariant, AuditInvariant, Script!Judged, Script!Clean, NEW p \in asked
               PROVE  Event[p] \in Held
    BY DEF CleanIsTrue
  <2>1. p \in visible /\ p \in 1 .. N /\ (p <= TailLoop!Resume \/ p <= FillLoop!Resume)
    BY DEF Script!Judged, AuditInvariant, JointInvariant
  <2>2. Uid[p] # Blank
    <3>1. Uid[p] \in {Script!RowUid(s) : s \in rows}
      BY DEF Script!Clean, Script!Missing, Script!OktaUids
    <3> QED  BY <3>1 DEF Script!Clean
  <2> QED  BY <2>1, <2>2, PassedIsDelivered, DeliveredIsHeld DEF IsHeld
<1> QED  BY <1>1, AuditHolds, PTL
=============================================================================
