--------------------------- MODULE ProviderRoles ---------------------------
(***************************************************************************)
(* The credentials a put is made with (sinks/s3.py).  Each custom source   *)
(* has a role; its credentials are cached and assumed again once 80 % of   *)
(* their lifetime is over.  A put resolves the client and sends the object *)
(* in one worker thread, so there is one call to AWS at a time.            *)
(*                                                                         *)
(* The age of credentials is counted from the clock reading before the     *)
(* request.  The expiry in the response is read off AWS's clock, which is  *)
(* `skew' ahead of the connector's: the lifetime comes out longer by it.   *)
(***************************************************************************)
EXTENDS Naturals

CONSTANTS
  Sources,
  Lifetime,  \* how long credentials live after they were issued
  Transit,   \* the longest a call to AWS takes, its retries included
  Skews,     \* how far the connector's clock may be behind
  None

\* A call takes a fifth of a lifetime at most: minutes against an hour.
RolesAssumption ==
  /\ Lifetime \in Nat \ {0}
  /\ Transit \in Nat
  /\ 5 * Transit <= Lifetime
  /\ Skews \subseteq Nat
  /\ None \notin Sources
  /\ None \notin [age : Nat, expiry : Nat]

VARIABLES
  roles,   \* sources with a configured role; {} for the caller's own credentials
  skew,
  cached,  \* _cached: [age, expiry] of a source, or None
  call,    \* idle, assume, put, or unregistered
  target,  \* the source of the put in progress
  waited   \* time since that call began

rolesVars == <<roles, skew, cached, call, target, waited>>

\* Nothing more can change about credentials of this age.
Oldest == Lifetime + Transit + skew

Nothing == [s \in Sources |-> None]

Init ==
  /\ roles \subseteq Sources
  /\ skew \in Skews
  /\ cached = Nothing
  /\ call = "idle" /\ target = None /\ waited = 0

\* Mutant: renewed at expiry, no margin.
TrustedToTheEnd(c) == c.age < c.expiry + skew

\* renew_at, four fifths of the lifetime as the connector works it out.
Trusted(c) == 5 * c.age < 4 * (c.expiry + skew)

\* What S3 accepts: the caller's own credentials, or unexpired ones.
Live == call = "put" /\ (roles # {} => cached[target].age < cached[target].expiry)

\* client_for: the cached client, or assume_role, or no role at all.
ClientFor(s) ==
  /\ call = "idle"
  /\ target' = s
  /\ waited' = 0
  /\ call' = IF roles = {} \/ (cached[s] # None /\ Trusted(cached[s])) THEN "put"
             ELSE IF s \in roles THEN "assume" ELSE "unregistered"
  /\ UNCHANGED <<roles, skew, cached>>

\* _assume goes on: STS issued the credentials some time after the request.
Respond ==
  /\ call = "assume"
  /\ \E issued \in 0 .. waited :
       cached' = [cached EXCEPT ![target] = [age |-> waited, expiry |-> issued + Lifetime]]
  /\ call' = "put"
  /\ waited' = 0
  /\ UNCHANGED <<roles, skew, target>>

\* put_object returns.
Accept ==
  /\ call = "put"
  /\ Live
  /\ call' = "idle" /\ target' = None /\ waited' = 0
  /\ UNCHANGED <<roles, skew, cached>>

\* put_object, or the look-up of a role, raises; nobody catches it, and the
\* cache goes with the process.
Forget ==
  /\ cached' = Nothing
  /\ call' = "idle" /\ target' = None /\ waited' = 0
  /\ UNCHANGED <<roles, skew>>

Raise ==
  /\ call \in {"put", "unregistered"}
  /\ ~Live
  /\ Forget

Older(c) == IF c = None \/ c.age = Oldest THEN c ELSE [c EXCEPT !.age = @ + 1]

Tick ==
  /\ call # "idle" => waited < Transit
  /\ cached' = [s \in Sources |-> Older(cached[s])]
  /\ waited' = IF call = "idle" THEN 0 ELSE waited + 1
  /\ UNCHANGED <<roles, skew, call, target>>

Next == Respond \/ Accept \/ Raise \/ Forget \/ Tick \/ \E s \in Sources : ClientFor(s)

Spec == Init /\ [][Next]_rolesVars

-----------------------------------------------------------------------------
TypeOK ==
  /\ roles \subseteq Sources
  /\ skew \in Skews
  /\ cached \in [Sources -> [age : Nat, expiry : Nat] \union {None}]
  /\ call \in {"idle", "assume", "put", "unregistered"}
  /\ target \in Sources \union {None}
  /\ waited \in 0 .. Transit

(* With the clocks in step a put is never sent with credentials that       *)
(* expire before S3 has it, however long a process has kept them and       *)
(* whatever the round trips took, as long as a call takes no more than a   *)
(* fifth of a lifetime.                                                    *)
CredentialsLive == skew = 0 /\ call = "put" => Live
=============================================================================
