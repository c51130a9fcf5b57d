------------------------------ MODULE Pipeline ------------------------------
(***************************************************************************)
(* The run loop delivering to Security Lake: each put of a flush is made   *)
(* with the credentials of its custom source (ProviderRoles), and the      *)
(* roles are those of the configuration that the process was given         *)
(* (Settings).  PutObject of RunLoop becomes three steps: the client of    *)
(* the source is looked up, a role may have to be assumed, S3 accepts the  *)
(* object or what it raises ends the process.                              *)
(*                                                                         *)
(* A process spends its time in calls to AWS and, between two pages,       *)
(* asleep: time passes there, and elsewhere a step takes none.             *)
(***************************************************************************)
EXTENDS RunLoop

CONSTANTS
  \* Settings
  Length, Malformed, Empty,
  Layers,    \* what a file or the environment may say
  Default,
  Prefix,    \* the prefix of the sources that exist in this account
  \* ProviderRoles
  Lifetime, Transit, Skews

VARIABLES roles, skew, cached, call, target, waited

Config == INSTANCE Settings

Source(p) == Config!SourceName(Prefix, BucketOf(p).class)
Sources   == Config!AllSourceNames(Prefix)

Sink == INSTANCE ProviderRoles

\* The class of every event is one of the schema's.
ASSUME PipelineAssumption ==
  /\ Sink!RolesAssumption
  /\ \A b \in Buckets : b.class \in Config!Classes

sinkVars == <<roles, skew, cached, call, target, waited>>
allVars  == <<vars, sinkVars>>

\* main loads the configuration and exits before anything else if it is
\* refused; an accepted one is what every process of the stream is given.
Configure ==
  \E file \in Layers, env \in Layers :
    LET c == Config!Load(file, env, Default)
    IN  /\ Config!Accepted(c)
        /\ c.source_name = Prefix
        /\ roles = c.provider_roles

PipelineInit == Init /\ Configure /\ Sink!Init

-----------------------------------------------------------------------------
\* put: the client of the next object's source.
ResolveClient ==
  /\ pc = "flush"
  /\ \E p \in buffer :
       /\ BucketOf(p) \notin put
       /\ \A q \in buffer : q < p => BucketOf(q) \in put
       /\ Sink!ClientFor(Source(p))
  /\ UNCHANGED vars

AssumeRole == Sink!Respond /\ UNCHANGED vars

Deliver == Sink!Accept /\ PutObject

\* What a put raises leaves run(): the process ends and is started again.
FlushFails ==
  /\ Sink!Raise
  /\ Volatile("down", 0)
  /\ UNCHANGED <<logVars, durableVars, ends>>

\* Any other step A of the loop.  A process that ends takes its cache along.
Around(A) ==
  /\ A
  /\ put' = put \/ pc' # pc
  /\ IF pc' = "down" THEN Sink!Forget ELSE UNCHANGED sinkVars

TimePasses ==
  /\ pc = "top" \/ call # "idle"
  /\ Sink!Tick
  /\ UNCHANGED vars

PipelineWork == ResolveClient \/ AssumeRole \/ Deliver \/ FlushFails \/ Around(Work)

PipelineNext == PipelineWork \/ Around(Next) \/ TimePasses

\* As in FairSpec; a call to AWS returns.
PipelineSpec ==
  /\ PipelineInit /\ [][PipelineNext]_allVars
  /\ WF_allVars(Around(Start))
  /\ WF_allVars(PipelineWork)
  /\ WF_allVars(Around(AgeBuffer))
  /\ SF_allVars(Around(LeadOn))

-----------------------------------------------------------------------------
PipelineTypeOK == TypeOK /\ Sink!TypeOK

(* A configuration that was accepted at start-up never lets a flush fail   *)
(* half-way for a class that has no provider role, which every replay of   *)
(* the batch would meet again.                                             *)
NeverUnregistered == call # "unregistered"

(* With the clocks in step no put is sent with credentials that expire     *)
(* before S3 has it, however long the process has kept them, and however   *)
(* the puts of a flush fall on the renewal.                                *)
CredentialsLive == Sink!CredentialsLive
=============================================================================
