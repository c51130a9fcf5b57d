----------------------------- MODULE Reconcile -----------------------------
(***************************************************************************)
(* scripts/reconcile.py: an operator asks Okta for the ids of a window,    *)
(* then one custom source's table after another for its rows, and compares *)
(* them by id.  The script is a process of its own beside the connector    *)
(* and writes nothing.                                                     *)
(*                                                                         *)
(* A window is a set of consecutive positions, and the padding reaches one *)
(* position further on both sides.  A record whose timestamp does not      *)
(* parse lies in the epoch partition, so in no window.                     *)
(***************************************************************************)
EXTENDS Naturals, FiniteSets, Sequences

CONSTANTS
  N,
  Uid,
  Blank,      \* the uid of a record without one
  Table,      \* Table[p]: the custom source of the record at p
  Tables,     \* the custom sources, in the order of their names
  Dated,      \* positions whose timestamp parses
  Windows,    \* what an operator asks for
  Unasked

VARIABLES
  visible, stored, behind,  \* of the connector: what Okta serves, the lake's
                            \* <<object, position>>, what a stream is past
  window,      \* --since and --until, Unasked before the script runs
  asked,       \* positions in Okta's answer
  unread,      \* tables still to be read
  rows,        \* what the queries returned
  schemaless   \* tables that were skipped

scriptVars == <<window, asked, unread, rows, schemaless>>

Padded(w) == {p \in 1 .. N : \E q \in w : p \in (q - 1) .. (q + 1)}
Inner(w)  == {p \in w : (p - 1) .. (p + 1) \subseteq w \union {0, N + 1}}

\* Okta files an event a little off its own timestamp, so at either edge a
\* bounded query may leave one out or return one from outside.
Answers(w) == {S \in SUBSET visible : Inner(w) \subseteq S /\ S \subseteq Padded(w)}

Init ==
  /\ window = Unasked
  /\ asked = {} /\ unread = << >> /\ rows = {} /\ schemaless = {}

\* main's refusals and read_okta.  The window is not empty and Okta still holds
\* it; the operator picks it as the script's header says, settled for hours and
\* covered by a stream throughout.
ReadOkta ==
  /\ window = Unasked
  /\ window' \in {w \in Windows : w # {} /\ Padded(w) \subseteq behind}
  /\ asked' \in Answers(window')
  /\ unread' = Tables
  /\ UNCHANGED <<rows, schemaless>>

\* read_lake's next table: two queries, or none if it was never crawled.
ReadTable ==
  /\ unread # << >>
  /\ unread' = Tail(unread)
  /\ \/ /\ rows' = rows \union
                     {r \in stored : r[2] \in Padded(window) \cap Dated
                                       /\ Table[r[2]] = Head(unread)}
        /\ UNCHANGED schemaless
     \/ /\ schemaless' = schemaless \union {Head(unread)}
        /\ UNCHANGED rows
  /\ UNCHANGED <<window, asked>>

Next == ReadOkta \/ ReadTable

-----------------------------------------------------------------------------
(* compare: the whole judgement.                                           *)

OktaUids == {Uid[p] : p \in asked}
RowUid(r) == Uid[r[2]]
Strict == {r \in rows : r[2] \in window}

\* Mutant: padding forgotten, the lake is judged on the strict window.
MissingStrictly == OktaUids \ {RowUid(r) : r \in Strict}

Missing == OktaUids \ {RowUid(r) : r \in rows}
Extra == {RowUid(r) : r \in Strict} \ OktaUids

\* One id on two rows, of one table or of two.
Duplicated ==
  {RowUid(r) : r \in {s \in rows : \E t \in rows \ {s} :
                        RowUid(s) = RowUid(t) /\ Table[s[2]] = Table[t[2]]}}
CrossClass ==
  {RowUid(r) : r \in {s \in rows : \E t \in rows :
                        RowUid(s) = RowUid(t) /\ Table[s[2]] # Table[t[2]]}}

\* Mutant: blank ids are not looked for.
CleanIfBlank == Missing \union Extra \union Duplicated \union CrossClass = {}

Clean ==
  /\ Missing \union Extra \union Duplicated \union CrossClass = {}
  /\ Blank \notin {RowUid(r) : r \in rows}

Judged == window # Unasked /\ unread = << >>
=============================================================================
