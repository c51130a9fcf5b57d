------------------------ MODULE ProviderRolesProofs ------------------------
(***************************************************************************)
(* Credentials do not expire under a put: for every lifetime, every number *)
(* of sources and every way the round trips and renewals may fall.         *)
(***************************************************************************)
EXTENDS ProviderRoles, TLAPS

\* The margin, as every step keeps it: credentials in use were either within
\* four fifths of their life, or just issued, when the put began.
InUse ==
  call = "put" /\ roles # {} =>
    /\ cached[target] # None
    /\ \/ 5 * cached[target].age < 4 * (cached[target].expiry + skew) + 5 * waited
       \/ cached[target].age <= Transit + waited

Issued == \A s \in Sources : cached[s] # None => Lifetime <= cached[s].expiry

Target == call # "idle" => target \in Sources

RolesInvariant == TypeOK /\ Target /\ Issued /\ InUse

(* Within the margin, credentials outlive the put they are used for.       *)
LEMMA MarginIsEnough ==
  ASSUME RolesAssumption, RolesInvariant
  PROVE  CredentialsLive
<1> SUFFICES ASSUME skew = 0, call = "put", roles # {}
             PROVE  cached[target].age < cached[target].expiry
  BY DEF CredentialsLive, Live
<1>1. /\ target \in Sources
      /\ cached[target] \in [age : Nat, expiry : Nat]
      /\ waited \in 0 .. Transit
  BY DEF RolesInvariant, TypeOK, Target, InUse
<1>2. PICK a \in Nat, e \in Nat : cached[target] = [age |-> a, expiry |-> e]
  BY <1>1
<1>3. /\ Lifetime <= e
      /\ 5 * a < 4 * e + 5 * waited \/ a <= Transit + waited
  BY <1>1, <1>2 DEF RolesInvariant, Issued, InUse
<1>4. /\ Lifetime \in Nat \ {0} /\ Transit \in Nat /\ 5 * Transit <= Lifetime
  BY DEF RolesAssumption
<1>5. a < e
  BY <1>1, <1>3, <1>4
<1> QED  BY <1>2, <1>5

LEMMA RolesInit ==
  ASSUME RolesAssumption, Init
  PROVE  RolesInvariant
<1> QED  BY DEF RolesAssumption, Init, Nothing, RolesInvariant, TypeOK, Target, Issued, InUse

LEMMA ClientForKeeps ==
  ASSUME RolesAssumption, RolesInvariant, NEW s \in Sources, ClientFor(s)
  PROVE  RolesInvariant'
<1> USE DEF RolesInvariant
<1>1. cached[s] \in [age : Nat, expiry : Nat] \union {None}
  BY DEF TypeOK
<1>2. TypeOK'
  BY DEF ClientFor, TypeOK, RolesAssumption
<1>3. Target' /\ Issued'
  BY DEF ClientFor, Target, Issued
<1>4. InUse'
  <2> SUFFICES ASSUME call' = "put", roles # {}
               PROVE  /\ cached[s] # None
                      /\ 5 * cached[s].age < 4 * (cached[s].expiry + skew) + 5 * 0
    BY DEF ClientFor, InUse
  <2>1. cached[s] # None /\ Trusted(cached[s])
    BY DEF ClientFor
  <2>2. PICK a \in Nat, e \in Nat : cached[s] = [age |-> a, expiry |-> e]
    BY <1>1, <2>1
  <2>3. skew \in Nat
    BY DEF TypeOK, RolesAssumption
  <2>4. 5 * a < 4 * (e + skew)
    BY <2>1, <2>2 DEF Trusted
  <2>5. 5 * a < 4 * (e + skew) + 5 * 0
    BY <2>3, <2>4
  <2> QED  BY <2>1, <2>2, <2>5
<1> QED  BY <1>2, <1>3, <1>4

LEMMA RespondKeeps ==
  ASSUME RolesAssumption, RolesInvariant, Respond
  PROVE  RolesInvariant'
<1> USE DEF RolesInvariant
<1>1. target \in Sources
  BY DEF Respond, Target
<1>2. PICK i \in 0 .. waited :
        cached' = [cached EXCEPT ![target] = [age |-> waited, expiry |-> i + Lifetime]]
  BY DEF Respond
<1>3. /\ waited \in 0 .. Transit /\ Transit \in Nat /\ Lifetime \in Nat
  BY DEF TypeOK, RolesAssumption
<1>4. [age |-> waited, expiry |-> i + Lifetime] \in [age : Nat, expiry : Nat]
  BY <1>3
<1>5. /\ cached'[target] = [age |-> waited, expiry |-> i + Lifetime]
      /\ \A s \in Sources \ {target} : cached'[s] = cached[s]
      /\ cached' \in [Sources -> [age : Nat, expiry : Nat] \union {None}]
  BY <1>1, <1>2, <1>4 DEF TypeOK
<1>6. TypeOK'
  BY <1>3, <1>5 DEF Respond, TypeOK
<1>7. Target'
  BY <1>1 DEF Respond, Target
<1>8. Issued'
  <2> SUFFICES ASSUME NEW s \in Sources, cached'[s] # None
               PROVE  Lifetime <= cached'[s].expiry
    BY DEF Issued
  <2>1. CASE s = target
    BY <1>3, <1>5, <2>1
  <2>2. CASE s # target
    BY <1>5, <2>2 DEF Issued
  <2> QED  BY <2>1, <2>2
<1>9. InUse'
  <2>1. /\ cached'[target] # None
        /\ cached'[target].age <= Transit + 0
    BY <1>3, <1>4, <1>5 DEF RolesAssumption
  <2> QED  BY <2>1 DEF Respond, InUse
<1> QED  BY <1>6, <1>7, <1>8, <1>9

LEMMA AcceptKeeps ==
  ASSUME RolesAssumption, RolesInvariant, Accept
  PROVE  RolesInvariant'
<1> QED  BY DEF RolesAssumption, Accept, RolesInvariant, TypeOK, Target, Issued, InUse

LEMMA ForgetKeeps ==
  ASSUME RolesAssumption, RolesInvariant, Forget
  PROVE  RolesInvariant'
<1> QED  BY DEF RolesAssumption, Forget, Nothing, RolesInvariant, TypeOK, Target, Issued, InUse

\* A tick adds at most one to an age, and nothing to an expiry.
LEMMA OlderByOne ==
  ASSUME NEW c \in [age : Nat, expiry : Nat] \union {None}, c # None, RolesAssumption
  PROVE  /\ Older(c) \in [age : Nat, expiry : Nat]
         /\ Older(c).expiry = c.expiry
         /\ Older(c).age <= c.age + 1
<1>1. PICK a \in Nat, e \in Nat : c = [age |-> a, expiry |-> e]
  OBVIOUS
<1>2. Older(c) = c \/ Older(c) = [age |-> a + 1, expiry |-> e]
  BY <1>1 DEF Older
<1> QED  BY <1>1, <1>2

LEMMA TickKeeps ==
  ASSUME RolesAssumption, RolesInvariant, Tick
  PROVE  RolesInvariant'
<1> USE DEF RolesInvariant
<1>1. \A s \in Sources : cached'[s] = Older(cached[s])
  BY DEF Tick
<1>2. \A s \in Sources : cached[s] = None => cached'[s] = None
  BY <1>1 DEF Older
<1>3. \A s \in Sources : cached[s] # None =>
        /\ cached'[s] \in [age : Nat, expiry : Nat]
        /\ cached'[s].expiry = cached[s].expiry
        /\ cached'[s].age <= cached[s].age + 1
  BY <1>1, OlderByOne DEF TypeOK
<1>4. waited \in 0 .. Transit /\ Transit \in Nat /\ skew \in Nat
  BY DEF TypeOK, RolesAssumption
<1>5. waited' \in 0 .. Transit
  BY <1>4 DEF Tick
<1>6. TypeOK'
  <2>1. cached' \in [Sources -> [age : Nat, expiry : Nat] \union {None}]
    BY <1>2, <1>3 DEF Tick, TypeOK
  <2> QED  BY <1>5, <2>1 DEF Tick, TypeOK
<1>7. Target'
  BY DEF Tick, Target
<1>8. Issued'
  BY <1>2, <1>3 DEF Issued, Tick
<1>9. InUse'
  <2> SUFFICES ASSUME call = "put", roles # {}
               PROVE  /\ cached'[target] # None
                      /\ \/ 5 * cached'[target].age < 4 * (cached'[target].expiry + skew)
                                                        + 5 * waited'
                         \/ cached'[target].age <= Transit + waited'
    BY DEF Tick, InUse
  <2>1. target \in Sources /\ cached[target] # None /\ waited' = waited + 1
    BY DEF Target, InUse, Tick
  <2>2. PICK a \in Nat, e \in Nat : cached[target] = [age |-> a, expiry |-> e]
    BY <2>1 DEF TypeOK
  <2>3. PICK b \in Nat : cached'[target] = [age |-> b, expiry |-> e] /\ b <= a + 1
    BY <1>3, <2>1, <2>2
  <2>4. 5 * a < 4 * (e + skew) + 5 * waited \/ a <= Transit + waited
    BY <2>1, <2>2 DEF InUse
  <2>5. 5 * b < 4 * (e + skew) + 5 * (waited + 1) \/ b <= Transit + (waited + 1)
    BY <1>4, <2>3, <2>4
  <2>6. cached'[target] # None
    BY <2>3 DEF RolesAssumption
  <2> QED  BY <2>1, <2>3, <2>5, <2>6
<1> QED  BY <1>6, <1>7, <1>8, <1>9

LEMMA RolesStep ==
  ASSUME RolesAssumption, RolesInvariant, [Next]_rolesVars
  PROVE  RolesInvariant'
<1>1. CASE Next
  BY <1>1, ClientForKeeps, RespondKeeps, AcceptKeeps, ForgetKeeps, TickKeeps DEF Next, Raise
<1>2. CASE UNCHANGED rolesVars
  BY <1>2 DEF rolesVars, RolesInvariant, TypeOK, Target, Issued, InUse
<1> QED  BY <1>1, <1>2

(* The inductive invariant: the margin at which credentials are renewed.   *)
THEOREM RolesInvariantHolds ==
  ASSUME RolesAssumption
  PROVE  Spec => []RolesInvariant
<1>1. Init => RolesInvariant
  BY RolesInit
<1>2. RolesInvariant /\ [Next]_rolesVars => RolesInvariant'
  BY RolesStep
<1> QED  BY <1>1, <1>2, PTL DEF Spec

(* With the clocks in step no put is sent with credentials that expire     *)
(* before S3 has it (sinks/s3.py, RENEWAL_MARGIN).                         *)
THEOREM NoneExpiresInUse ==
  ASSUME RolesAssumption
  PROVE  Spec => []CredentialsLive
<1>1. RolesInvariant => CredentialsLive
  BY MarginIsEnough
<1> QED  BY <1>1, RolesInvariantHolds, PTL
=============================================================================
