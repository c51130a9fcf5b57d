---------------------------- MODULE AtomicStore ----------------------------
(***************************************************************************)
(* What StateStore promises (state/store.py): a stream's cursor moves to   *)
(* the end of its next batch and the uids of that batch are remembered, at *)
(* the same instant; a uid is forgotten when the expiry of its last commit *)
(* is reached, not before and not after, and nothing else changes either.  *)
(* RunLoop is written against this store.                                  *)
(***************************************************************************)
EXTENDS Naturals, Sequences

CONSTANTS Streams, Batches, Ttl

VARIABLES
  now,
  position,  \* how many batches of each stream are committed
  expires    \* when each uid that filter_unseen leaves out will be forgotten

Init ==
  /\ now = 0
  /\ position = [s \in Streams |-> 0]
  /\ expires = [u \in {} |-> 0]

\* The TTL counts from when commit was called, which may be an instant ago.  A
\* uid that is remembered already is remembered anew, even if another stream's
\* commit, called later and through earlier, had given it the later expiry.
Commit(s) ==
  /\ position[s] < Len(Batches[s])
  /\ position' = [position EXCEPT ![s] = @ + 1]
  /\ \E called \in {t \in 0 .. now : now <= t + 1} :
       LET batch == Batches[s][position'[s]]
       IN  expires' = [u \in DOMAIN expires \union batch |->
                         IF u \in batch THEN called + Ttl ELSE expires[u]]
  /\ UNCHANGED now

\* Time passes, and forgets what is due.
Lapse ==
  /\ now' = now + 1
  /\ expires' = [u \in {v \in DOMAIN expires : expires[v] > now'} |-> expires[u]]
  /\ UNCHANGED position

Next == Lapse \/ \E s \in Streams : Commit(s)

Spec == Init /\ [][Next]_<<now, position, expires>>
=============================================================================
