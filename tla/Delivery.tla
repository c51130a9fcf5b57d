------------------------------ MODULE Delivery ------------------------------
(***************************************************************************)
(* What the connector promises of one stream: the contracts of             *)
(* StateStore.commit (state/store.py) and Sink.flush (sinks/base.py), with *)
(* no batches, pages, buckets or processes in it.  The destination holds   *)
(* some uids; the stream resumes after a position; a uid that was once     *)
(* settled is held for ever, and the stream resumes only past settled uids.*)
(***************************************************************************)
EXTENDS Naturals

CONSTANTS N, Uid

Positions == 1 .. N
Uids      == {Uid[p] : p \in Positions}

VARIABLES
  visible,   \* positions the source serves
  held,      \* uids the destination holds
  settled,   \* uids acknowledged and committed
  resume     \* the position after which a new process starts

vars == <<visible, held, settled, resume>>

\* Everything behind r is recorded as delivered in S.
Behind(r, S) == \A p \in visible : p <= r => Uid[p] \in S

Init ==
  /\ visible \subseteq Positions
  /\ held = {} /\ settled = {}
  /\ resume = 0

\* New records come after the position the stream resumes from.
Appear ==
  /\ visible \subseteq visible'
  /\ visible' \subseteq Positions
  /\ \A p \in visible' \ visible : resume < p
  /\ UNCHANGED <<held, settled, resume>>

\* A write may add and replace, but never takes a settled uid away.
Write ==
  /\ held' \subseteq Uids
  /\ settled \subseteq held'
  /\ UNCHANGED <<visible, settled, resume>>

\* A commit settles only what is held and moves past nothing unsettled.
Settle ==
  /\ settled \subseteq settled'
  /\ settled' \subseteq held
  /\ resume' \in resume .. N
  /\ Behind(resume', settled')
  /\ UNCHANGED <<visible, held>>

Next == Appear \/ Write \/ Settle

Spec == Init /\ [][Next]_vars
=============================================================================
