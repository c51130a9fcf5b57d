------------------------------- MODULE Rerun -------------------------------
(***************************************************************************)
(* Running a finished backfill again, with the same window: get_cursor     *)
(* reads the committed None cursor as "no cursor", so run() opens the same *)
(* query under the same batch key, while the seen-set still remembers what *)
(* the first run delivered.  Between the runs the source may have indexed  *)
(* records of the window that were delayed when it was first walked.       *)
(***************************************************************************)
EXTENDS RunLoop

Reopen == Finished /\ Open

Arrive ==
  /\ pc = "down"
  /\ \E p \in Late \ visible : visible' = visible \union {p}
  /\ UNCHANGED <<durableVars, procVars, ends>>

RerunNext == Next \/ Reopen \/ Arrive

RerunSpec == Init /\ [][RerunNext]_vars

-----------------------------------------------------------------------------
\* The way out: a state database that remembers nothing, because it was set
\* aside or lost (tail --from-scratch), over whatever the source serves by then
\* and whatever is in the lake.
FreshDatabase ==
  /\ row = [cursor |-> None, committed |-> FALSE]
  /\ seen = {}
  /\ marked = {}

FreshInit ==
  /\ visible \in SUBSET Positions
  /\ ~Bounded => \A p \in visible, q \in Positions : q < p => q \in visible
  /\ FreshDatabase
  /\ lake \in [Cursors -> SUBSET Positions]
  /\ InitProcess

FreshSpec == FreshInit /\ [][Next]_vars

-----------------------------------------------------------------------------
(* What the first run delivered is still in the lake during and after the  *)
(* second: the second run overwrites objects, it does not lose events.     *)
RerunKeepsDelivered == AckedStaysDurable
=============================================================================
