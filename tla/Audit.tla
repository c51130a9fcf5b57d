------------------------------- MODULE Audit -------------------------------
(***************************************************************************)
(* Reconciling (scripts/reconcile.py) a lake that a tail and a backfill    *)
(* are both writing: Okta and the tables are read one after another while  *)
(* either stream flushes, commits, dies or replays.                        *)
(***************************************************************************)
EXTENDS Overlap, Sequences

CONSTANTS
  Dated, Windows, Unasked,
  Tables   \* classes of the custom sources, in the order of their names

VARIABLES window, asked, unread, rows, schemaless

auditVars == <<window, asked, unread, rows, schemaless>>

TableNames == {Tables[i] : i \in DOMAIN Tables}

ClassOf == [p \in 1 .. N |-> Bucket[Uid[p]].class]

\* An object is a stream's and has a batch key; it holds some positions.
Rows(stream, lake) == UNION {{<<<<stream, k>>, p>> : p \in lake[k]} : k \in 0 .. N}

Script == INSTANCE Reconcile WITH
  Table  <- ClassOf,
  stored <- Rows("tail", tailLake) \union Rows("fill", fillLake),
  behind <- {p \in visible : p <= TailLoop!Resume \/ p <= FillLoop!Resume}

\* Copies of a record carry one timestamp, and every class has its table.
ASSUME AuditAssumption ==
  /\ Unasked \notin Windows
  /\ Tables \in Seq(TableNames)
  /\ \A p \in 1 .. N : ClassOf[p] \in TableNames
  /\ \A p, q \in 1 .. N :
       Uid[p] = Uid[q] /\ Uid[p] # Blank =>
         /\ p \in Dated <=> q \in Dated
         /\ \A w \in Windows : p \in Script!Padded(w) <=> q \in Script!Padded(w)

Stream == Next /\ UNCHANGED auditVars
Audit  == Script!Next /\ UNCHANGED vars

AuditInit == Init /\ Script!Init
AuditNext == Stream \/ Audit
AuditSpec == AuditInit /\ [][AuditNext]_<<vars, auditVars>>

-----------------------------------------------------------------------------
(* CLEAN can be believed: every event that Okta answered with is in the    *)
(* lake, told apart by what it is and not by its id, so an event without a *)
(* uid counts for itself; a table that was skipped hides no loss, nor does *)
(* what a stream flushed or replayed between two queries.                  *)
CleanIsTrue ==
  Script!Judged /\ Script!Clean => \A p \in asked : Event[p] \in Held

(* "missing" can be believed: no event with a uid and a usable timestamp   *)
(* is reported lost while a queryable table holds it, whatever is flushed  *)
(* or replayed between the queries and wherever Okta draws the edges.      *)
MissingIsTrue ==
  Script!Judged =>
    \A p \in asked \cap Dated :
      Uid[p] # Blank /\ ClassOf[p] \notin schemaless => Uid[p] \notin Script!Missing
=============================================================================
