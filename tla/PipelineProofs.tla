--------------------------- MODULE PipelineProofs ---------------------------
(***************************************************************************)
(* The pipeline keeps what its parts promise: its steps are those of a run *)
(* loop or end the process, it uses the credential cache as ProviderRoles  *)
(* allows, and no put of it lacks a role.                                  *)
(***************************************************************************)
EXTENDS Pipeline, RunLoopProofs

Proved == INSTANCE ProviderRolesProofs

-----------------------------------------------------------------------------
(* The loop.                                                               *)

\* A put that fails is a death that nobody counts; all else is the loop's.
LEMMA LoopStep ==
  ASSUME [PipelineNext]_allVars, ~FlushFails
  PROVE  [Next]_vars
<1>1. CASE ResolveClient \/ AssumeRole \/ TimePasses
  BY <1>1 DEF ResolveClient, AssumeRole, TimePasses
<1>2. CASE Deliver
  BY <1>2 DEF Deliver, Next, Work
<1>3. CASE Around(Work) \/ Around(Next)
  BY <1>3 DEF Around, Next
<1>4. CASE UNCHANGED allVars
  BY <1>4 DEF allVars
<1> QED  BY <1>1, <1>2, <1>3, <1>4 DEF PipelineNext, PipelineWork

LEMMA FailureInv ==
  ASSUME LoopInvariant, FlushFails
  PROVE  LoopInvariant'
<1> USE DEF LoopInvariant
<1>1. ends' \in 0 .. MaxEnds
  BY DEF FlushFails, StreamInvariant, TypeOK
<1>2. StreamInvariant'
  BY <1>1, EndedInv DEF FlushFails
<1>3. \A u : HeldBehind(u)' = HeldBehind(u)
  BY DEF FlushFails, logVars, durableVars, HeldBehind, Resume, End, UidsOf
<1>4. marked' = marked
  BY DEF FlushFails, durableVars
<1> QED  BY <1>2, <1>3, <1>4

(* What holds of the loop with a put that cannot fail holds of the loop    *)
(* whose puts fail, time after time, in the middle of a flush.             *)
THEOREM PipelineInvariant == PipelineSpec => []LoopInvariant
<1>1. PipelineInit => LoopInvariant
  BY InitInv DEF PipelineInit, LoopInvariant, Init, InitLog, Served, InitDurable,
    FreshDatabase
<1>2. LoopInvariant /\ [PipelineNext]_allVars => LoopInvariant'
  BY LoopStep, NextInv, FailureInv
<1> QED  BY <1>1, <1>2, PTL DEF PipelineSpec

(* Nothing behind the committed cursor is missing from the lake.           *)
THEOREM PipelineLosesNothing == PipelineSpec => []NoLoss
<1>1. LoopInvariant => NoLoss
  BY InvariantGivesNoLoss
<1> QED  BY <1>1, PipelineInvariant, PTL

(* The pipeline implements Delivery.                                       *)
THEOREM PipelineImplementsDelivery == PipelineSpec => ImplementsDelivery
<1>1. PipelineInit => Promise!Init
  BY PromiseInit DEF PipelineInit
<1>2. LoopInvariant /\ LoopInvariant' /\ [PipelineNext]_allVars
        => [Promise!Next]_(Promise!vars)
  <2>1. FlushFails => UNCHANGED <<visible, row, marked, lake>>
    BY DEF FlushFails, logVars, durableVars
  <2>2. UNCHANGED <<visible, row, marked, lake>> => UNCHANGED Promise!vars
    BY DEF Promise!vars, Delivered, UidsOf, Resume, End
  <2> QED  BY <2>1, <2>2, LoopStep, DeliveryStep
<1> QED  BY <1>1, <1>2, PipelineInvariant, PTL DEF PipelineSpec, ImplementsDelivery, Promise!Spec

(* A put that fails, and the death that it is, move no cursor back and     *)
(* touch no object behind it.                                              *)
LEMMA FailureSettled ==
  ASSUME LoopInvariant, FlushFails
  PROVE  /\ Resume <= Resume' /\ (Finished => Finished')
         /\ \A k \in Cursors : k < Resume => lake'[k] = lake[k]
BY ResumeType DEF FlushFails, durableVars, Resume, End, Finished, LoopInvariant

THEOREM PipelineNeverBack == PipelineSpec => CursorAdvances
<1>1. LoopInvariant /\ [PipelineNext]_allVars
        => [Resume <= Resume' /\ (Finished => Finished')]_vars
  BY LoopStep, FailureSettled, ResumeStep DEF LoopInvariant
<1> QED  BY <1>1, PipelineInvariant, PTL DEF PipelineSpec, CursorAdvances

(* The objects of settled batches stay as they are, whatever fails.        *)
THEOREM PipelineFrozen == PipelineSpec => SettledObjectsFrozen
<1>1. LoopInvariant /\ [PipelineNext]_allVars
        => [\A k \in Cursors : k < Resume => lake'[k] = lake[k]]_vars
  BY LoopStep, FailureSettled, FrozenStep DEF LoopInvariant
<1> QED  BY <1>1, PipelineInvariant, PTL DEF PipelineSpec, SettledObjectsFrozen

(* A range delivered through the credential cache shrinks with every step  *)
(* of the loop but those on from empty pages with a link: failing puts end *)
(* processes, they make none read a record for ever.                       *)
THEOREM PipelineTerminates == PipelineSpec => RangeShrinks
<1>1. PipelineInit => LinkAhead
  BY DEF PipelineInit, Init, InitProcess, LinkAhead
<1>2. LoopInvariant /\ LinkAhead /\ [PipelineNext]_allVars => LinkAhead'
  <2>1. FlushFails => LinkAhead'
    BY DEF FlushFails, Volatile, LinkAhead
  <2> QED  BY <2>1, LoopStep, LinkAheadStep DEF LoopInvariant
<1>3. LoopInvariant /\ LinkAhead
        => [Bounded /\ Work => \/ Precedes(Remaining', Remaining)
                               \/ pc' = "down" /\ Finished'
                               \/ IdlePage]_vars
  <2>1. ASSUME LoopInvariant, LinkAhead, Bounded, Work
        PROVE  Precedes(Remaining', Remaining) \/ (pc' = "down" /\ Finished') \/ IdlePage
    BY <2>1, WorkShrinks DEF LoopInvariant
  <2> QED  BY <2>1
<1> QED  BY <1>1, <1>2, <1>3, PipelineInvariant, PTL DEF PipelineSpec, RangeShrinks

(* Nor do failing puts cost a range its exactly-once delivery.             *)
THEOREM PipelineOncePerRange == OnePageBatches /\ PipelineSpec => []EffectivelyOnce
<1>1. OnePageBatches /\ LoopInvariant /\ RangeInvariant /\ [PipelineNext]_allVars
        => RangeInvariant'
  <2>1. LoopInvariant /\ RangeInvariant /\ FlushFails => RangeInvariant'
    BY RangeEnded DEF FlushFails
  <2> QED  BY <2>1, LoopStep, RangeStep
<1>2. PipelineInit => RangeInvariant
  BY RangeInit DEF PipelineInit
<1>3. RangeInvariant => EffectivelyOnce
  BY DEF RangeInvariant
<1>4. OnePageBatches => []OnePageBatches
  <2>1. OnePageBatches => OnePageBatches'
    BY DEF OnePageBatches
  <2> QED  BY <2>1, PTL
<1> QED  BY <1>1, <1>2, <1>3, <1>4, PipelineInvariant, PTL DEF PipelineSpec

-----------------------------------------------------------------------------
(* The sink.                                                               *)

LEMMA SourceKnown ==
  ASSUME LoopInvariant, NEW p \in buffer
  PROVE  Source(p) \in Sources
<1>1. BucketOf(p) \in Buckets
  BY DEF LoopInvariant, StreamInvariant, TypeOK, BucketOf, Buckets, Uids
<1> QED
  BY <1>1, PipelineAssumption DEF Source, Sources, Config!AllSourceNames, Config!SourceName

\* Every step of the pipeline is one of the credential cache, or none.
LEMMA SinkStep ==
  ASSUME LoopInvariant, [PipelineNext]_allVars
  PROVE  [Sink!Next]_sinkVars
<1>1. CASE ResolveClient
  BY <1>1, SourceKnown DEF ResolveClient, Sink!Next
<1>2. CASE AssumeRole \/ Deliver \/ FlushFails \/ TimePasses
  BY <1>2 DEF AssumeRole, Deliver, FlushFails, TimePasses, Sink!Next
<1>3. CASE Around(Work) \/ Around(Next)
  BY <1>3 DEF Around, Sink!Next
<1>4. CASE UNCHANGED allVars
  BY <1>4 DEF allVars
<1> QED  BY <1>1, <1>2, <1>3, <1>4 DEF PipelineNext, PipelineWork

(* The cache keeps its invariant in the pipeline.                          *)
LEMMA RolesInPipeline == PipelineSpec => [](Proved!RolesAssumption /\ Proved!RolesInvariant)
<1>1. Proved!RolesAssumption
  BY PipelineAssumption DEF Sink!RolesAssumption, Proved!RolesAssumption
<1>2. PipelineInit => Proved!RolesInvariant
  <2>1. PipelineInit => Proved!Init
    BY DEF PipelineInit, Sink!Init, Sink!Nothing, Proved!Init, Proved!Nothing
  <2> QED  BY <1>1, <2>1, Proved!RolesInit
<1>3. LoopInvariant /\ Proved!RolesInvariant /\ [PipelineNext]_allVars
        => Proved!RolesInvariant'
  <2>1. [Sink!Next]_sinkVars => [Proved!Next]_(Proved!rolesVars)
    BY DEF sinkVars, Proved!rolesVars,
      Sink!Next, Sink!ClientFor, Sink!Trusted, Sink!Respond, Sink!Accept, Sink!Live,
      Sink!Raise, Sink!Forget, Sink!Nothing, Sink!Tick, Sink!Older, Sink!Oldest,
      Proved!Next, Proved!ClientFor, Proved!Trusted, Proved!Respond, Proved!Accept,
      Proved!Live, Proved!Raise, Proved!Forget, Proved!Nothing, Proved!Tick,
      Proved!Older, Proved!Oldest
  <2> QED  BY <1>1, <2>1, SinkStep, Proved!RolesStep
<1> QED  BY <1>1, <1>2, <1>3, PipelineInvariant, PTL DEF PipelineSpec

(* The loop and the credential cache stay in their types, whatever fails.  *)
THEOREM PipelineTypeCorrect == PipelineSpec => []PipelineTypeOK
<1>1. LoopInvariant /\ Proved!RolesAssumption /\ Proved!RolesInvariant => PipelineTypeOK
  BY DEF PipelineTypeOK, LoopInvariant, StreamInvariant, Proved!RolesInvariant, Proved!TypeOK,
    Sink!TypeOK
<1> QED  BY <1>1, RolesInPipeline, PipelineInvariant, PTL

(* With the clocks in step no put of a flush is sent with credentials that *)
(* expire before S3 has it.                                                *)
THEOREM NoPutExpires == PipelineSpec => []CredentialsLive
<1>1. Proved!RolesAssumption /\ Proved!RolesInvariant => CredentialsLive
  BY Proved!MarginIsEnough
  DEF CredentialsLive, Sink!CredentialsLive, Sink!Live, Proved!CredentialsLive, Proved!Live
<1> QED  BY <1>1, RolesInPipeline, PTL

\* The configuration names every source or none, and the call follows it.
RolesComplete ==
  /\ roles \in {{}, Sources}
  /\ call # "unregistered"

(* A configuration that was accepted never lets a flush fail half-way for  *)
(* a class without a role (config.py, _destination_matches_kind).          *)
THEOREM NeverWithoutRole == PipelineSpec => []NeverUnregistered
<1>1. PipelineInit => RolesComplete
  <2> SUFFICES ASSUME PipelineInit
               PROVE  RolesComplete
    OBVIOUS
  <2>1. PICK file \in Layers, env \in Layers :
          LET c == Config!Load(file, env, Default)
          IN  /\ Config!Accepted(c)
              /\ c.source_name = Prefix
              /\ roles = c.provider_roles
    BY DEF PipelineInit, Configure
  <2>2. roles = {} \/ roles = Config!AllSourceNames(Prefix)
    BY <2>1 DEF Config!Accepted, Config!DestinationMatches
  <2> QED  BY <2>2 DEF PipelineInit, Sink!Init, RolesComplete, Sources
<1>2. LoopInvariant /\ RolesComplete /\ [PipelineNext]_allVars => RolesComplete'
  <2> SUFFICES ASSUME LoopInvariant, RolesComplete, [PipelineNext]_allVars
               PROVE  RolesComplete'
    OBVIOUS
  <2>1. [Sink!Next]_sinkVars
    BY SinkStep
  <2>2. roles' = roles
    BY <2>1 DEF Sink!Next, Sink!ClientFor, Sink!Respond, Sink!Accept, Sink!Raise,
                Sink!Forget, Sink!Tick, sinkVars
  <2>3. ASSUME NEW s \in Sources, Sink!ClientFor(s)
        PROVE  call' # "unregistered"
    BY <2>3 DEF Sink!ClientFor, RolesComplete
  <2>4. call' # "unregistered"
    BY <2>1, <2>3 DEF Sink!Next, Sink!Respond, Sink!Accept, Sink!Raise,
                Sink!Forget, Sink!Tick, sinkVars, RolesComplete
  <2> QED  BY <2>2, <2>4 DEF RolesComplete, Sources
<1>3. RolesComplete => NeverUnregistered
  BY DEF RolesComplete, NeverUnregistered
<1> QED  BY <1>1, <1>2, <1>3, PipelineInvariant, PTL DEF PipelineSpec
=============================================================================
