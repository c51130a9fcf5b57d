------------------------------ MODULE Process ------------------------------
(***************************************************************************)
(* One process after another on one stream: cli.main, the mode it runs     *)
(* (runner/modes.py) and the signals that end it (runner/shutdown.py).     *)
(* A tail refuses to start without a cursor, a fresh query is refused past *)
(* Okta's retention, a stale resume is reported.  The run loop is reduced  *)
(* to its pages: what they deliver, commit and stamp.                      *)
(*                                                                         *)
(* Okta keeps an event for Retention units of time and then drops it from  *)
(* every answer without a word.  A page is one await as far as signals are *)
(* concerned: the handlers are callbacks, so they run while the task waits *)
(* and never between two awaits.                                           *)
(***************************************************************************)
EXTENDS Naturals, FiniteSets

CONSTANTS
  N,          \* events (bound)
  Retention,  \* RETENTION_SECONDS
  Since,      \* the opening bound: okta.since, or --since
  MaxNow,     \* last instant (bound)
  MaxEnds,    \* processes started (bound)
  None

SIGINT  == 2
SIGTERM == 15
SIGKILL == 9
Signals == {SIGINT, SIGTERM}
Modes   == {"tail", "backfill"}
Events  == 1 .. N
Times   == 0 .. MaxNow

ASSUME ProcessAssumption ==
  /\ {N, Retention, Since, MaxNow, MaxEnds} \subseteq Nat
  /\ None \notin Nat

VARIABLES
  mode, now,
  at,         \* at[e]: when Okta persisted e, or None
  \* the state database
  stored,     \* the committed cursor: None, or the last event behind it
  finished,   \* a bounded range has committed its end
  stamp,      \* caught_up_at
  delivered,
  \* the process
  pc,         \* down, opened, page, idle, closing
  scratch,    \* --from-scratch
  signum,     \* Shutdown._signum
  read,       \* the cursor in memory
  pending,    \* events delivered to the sink and not committed
  warned,     \* the retention gap was reported
  outcome,    \* what main will return
  code        \* the status a supervisor sees: the exit code, 128+n for a kill

\* History, for the properties.
VARIABLES
  checkedAt,  \* when the process looked at the bound or the stamp
  backlog,    \* events a stamp was set over although they were not read
  owed,       \* backlog when the process started
  accounted,  \* events once found to be gone
  silent,     \* of these, the ones nobody was told about
  fetched,    \* the process has asked Okta for a page
  signalled,  \* signals sent to the process
  launches

world   == <<mode, now, at>>
db      == <<stored, finished, stamp, delivered>>
process == <<scratch, signum, read, pending, warned, outcome>>
history == <<checkedAt, backlog, owed, accounted, silent, fetched, signalled,
             launches>>
vars    == <<world, db, pc, process, code, history>>

Persisted == {e \in Events : at[e] # None}
Aged(e, t) == t > at[e] + Retention

Init ==
  /\ mode \in Modes
  /\ now = 0
  /\ at = [e \in Events |-> None]
  /\ stored = None /\ finished = FALSE /\ stamp = None /\ delivered = {}
  /\ pc = "down" /\ scratch = FALSE /\ signum = None /\ read = 0
  /\ pending = {} /\ warned = FALSE /\ outcome = 1 /\ code = 0
  /\ checkedAt = 0 /\ backlog = {} /\ owed = {} /\ accounted = {}
  /\ silent = {} /\ fetched = TRUE /\ signalled = {} /\ launches = 0

-----------------------------------------------------------------------------
(* Starting.                                                               *)

\* assemble opens the store, with the default disposition of every signal.
\* A backfill has checked its bound by then.
Launch ==
  /\ pc = "down"
  /\ launches < MaxEnds
  /\ ~(finished /\ mode = "backfill")
  /\ launches' = launches + 1
  /\ scratch' \in (IF mode = "tail" THEN BOOLEAN ELSE {FALSE})
  /\ signum' = None /\ pending' = {} /\ warned' = FALSE
  /\ fetched' = FALSE /\ signalled' = {}
  /\ code' = None
  /\ pc' = "opened"
  /\ UNCHANGED <<world, db, read, outcome, checkedAt, backlog, owed, accounted,
                 silent>>

\* _check_opening_bound
BoundExpired == now > Since + Retention

\* A tail checks the bound only when it would open it, a backfill always.
Refused == \/ mode = "tail" /\ stored = None /\ ~scratch
           \/ (mode = "backfill" \/ stored = None) /\ BoundExpired

\* caught_up_age is known and exceeds what Okta keeps: _retention_gap_warning.
StaleResume == mode = "tail" /\ stored # None /\ stamp # None /\ now > stamp + Retention

Leave(n) == pc' = "closing" /\ outcome' = n

Refuse ==
  /\ pc = "opened"
  /\ Refused
  /\ Leave(2)
  /\ UNCHANGED <<world, db, scratch, signum, read, pending, warned, code, history>>

\* Mutant: the runner takes the store's None for a cursor.
OpensAtNone == stored

\* Mutant: resumes where the last process stopped reading.
OpensWhereReadEnded == IF stored = None THEN 0 ELSE read

\* start() only when the store has no cursor.
Opening == IF stored = None THEN 0 ELSE stored

\* The checks pass; stop_on_signals is entered and run asks for a page.
Run ==
  /\ pc = "opened"
  /\ ~Refused
  /\ warned' = StaleResume
  /\ read' = Opening
  /\ checkedAt' = now
  /\ owed' = backlog
  /\ fetched' = TRUE
  /\ pc' = "page"
  /\ UNCHANGED <<world, db, scratch, signum, pending, outcome, code, backlog,
                 accounted, silent, signalled, launches>>

-----------------------------------------------------------------------------
(* Pages.                                                                  *)

\* Mutant: the request is read but not acted on.
ProceedRegardless(next) == pc' = next /\ UNCHANGED outcome

\* Mutant: a stopped run is reported like one that ended on its own.
ProceedForgetful(next) ==
  IF signum = None THEN pc' = next /\ UNCHANGED outcome ELSE Leave(0)

\* The check at the top of the loop: ask for the next page, or return.
Proceed(next) ==
  IF signum = None
  THEN pc' = next /\ UNCHANGED outcome
  ELSE Leave(128 + signum)

\* Events in S that this answer leaves out because they have aged out.  They
\* are silent if they were gone when the process started, with no warning,
\* and the stamp it read was set when they were not yet waiting.
Skip(S) ==
  LET gone == {e \in S : Aged(e, now)} \ accounted
  IN  /\ accounted' = accounted \union gone
      /\ silent' = silent \union
                     {e \in gone : Aged(e, checkedAt) /\ ~warned /\ e \notin owed}

\* A page with events up to e, and the flush and commit that may follow.
Land ==
  /\ pc = "page"
  /\ \E e \in Persisted :
       LET passed == {f \in Persisted : read < f /\ f <= e}
           fresh  == {f \in passed : ~Aged(f, now)}
       IN  /\ fresh # {}
           /\ e \in fresh
           /\ Skip(passed)
           /\ read' = e
           /\ \/ /\ pending' = pending \union fresh
                 /\ UNCHANGED <<db, backlog>>
              \/ /\ pending' = {}
                 /\ delivered' = delivered \union pending \union fresh
                 /\ stored' = e
                 /\ stamp' = now
                 /\ backlog' = {f \in Persisted : f > e}
                 /\ UNCHANGED finished
  /\ Proceed("page")
  /\ UNCHANGED <<world, scratch, signum, warned, code, checkedAt, owed,
                 fetched, signalled, launches>>

\* Okta has nothing more that it still holds.
NothingServed == \A f \in Persisted : f > read => Aged(f, now)

\* Mutant: an empty page stamps whatever is still pending.
MarksWhilePending == stored # None

\* mark_caught_up, which stamps only a stream that has committed.
MarksCaughtUp == pending = {} /\ stored # None

\* An empty page of a tail: a stamp if nothing is pending, then on_idle.  The
\* hour between two stamps is far below the unit of time.  Due pending events
\* are flushed on an empty page too, and the sleep follows either way.
CaughtUp ==
  /\ pc = "page"
  /\ mode = "tail"
  /\ NothingServed
  /\ Skip({f \in Persisted : f > read})
  /\ \/ /\ pending # {}
        /\ delivered' = delivered \union pending
        /\ stored' = read
        /\ stamp' = now
        /\ pending' = {}
        /\ backlog' = {}
     \/ /\ stamp' = IF MarksCaughtUp THEN now ELSE stamp
        /\ backlog' = IF MarksCaughtUp THEN {} ELSE backlog
        /\ UNCHANGED <<stored, delivered, pending>>
  /\ pc' = "idle"
  /\ UNCHANGED <<world, finished, scratch, signum, read, warned, outcome, code,
                 checkedAt, owed, fetched, signalled, launches>>

\* The last page of a range commits its end, whatever has been asked since.
Exhaust ==
  /\ pc = "page"
  /\ mode = "backfill"
  /\ Skip({f \in Persisted : f > read})
  /\ delivered' = delivered \union pending
                    \union {f \in Persisted : f > read /\ ~Aged(f, now)}
  /\ pending' = {}
  /\ stored' = None
  /\ finished' = TRUE
  /\ stamp' = now
  /\ backlog' = {}
  /\ Leave(0)
  /\ UNCHANGED <<world, scratch, signum, read, warned, code, checkedAt, owed,
                 fetched, signalled, launches>>

\* Shutdown.sleep runs out.
Poll ==
  /\ pc = "idle"
  /\ signum = None
  /\ pc' = "page"
  /\ UNCHANGED <<world, db, process, code, history>>

\* Shutdown.sleep is cut short, and the loop finds the request.
Wake ==
  /\ pc = "idle"
  /\ signum # None
  /\ Proceed("page")
  /\ UNCHANGED <<world, db, scratch, signum, read, pending, warned, code, history>>

\* An exception out of the source, the sink or the store.
Raise ==
  /\ pc \in {"opened", "page"}
  /\ Leave(1)
  /\ UNCHANGED <<world, db, scratch, signum, read, pending, warned, code, history>>

-----------------------------------------------------------------------------
(* Ending.                                                                 *)

\* stop_on_signals: the first signal is noted, the second cancels the task.
Arrive(n) ==
  /\ pc \in {"page", "idle"}
  /\ IF signum = None
     THEN signum' = n /\ UNCHANGED <<pc, outcome>>
     ELSE Leave(130) /\ UNCHANGED signum
  /\ UNCHANGED <<world, db, scratch, read, pending, warned, code, checkedAt,
                 backlog, owed, accounted, silent, fetched, launches>>

\* Outside that block SIGINT becomes KeyboardInterrupt and SIGTERM kills.
Default(n) ==
  /\ pc \in {"opened", "closing"}
  /\ IF n = SIGINT
     THEN Leave(130) /\ UNCHANGED code
     ELSE pc' = "down" /\ code' = 128 + n /\ UNCHANGED outcome
  /\ UNCHANGED <<world, db, scratch, signum, read, pending, warned, checkedAt,
                 backlog, owed, accounted, silent, fetched, launches>>

Signal ==
  \E n \in Signals : /\ n \notin signalled \/ pc \in {"page", "idle"}
                     /\ signalled' = signalled \union {n}
                     /\ Arrive(n) \/ Default(n)

Kill ==
  /\ pc # "down"
  /\ pc' = "down"
  /\ code' = 128 + SIGKILL
  /\ UNCHANGED <<world, db, process, history>>

\* finally: parts.close(), and main returns.
Close ==
  /\ pc = "closing"
  /\ pc' = "down"
  /\ code' = outcome
  /\ UNCHANGED <<world, db, process, history>>

-----------------------------------------------------------------------------
(* The world.                                                              *)

Tick ==
  /\ now < MaxNow
  /\ now' = now + 1
  /\ UNCHANGED <<mode, at, db, pc, process, code, history>>

\* The events are those the opening query covers: none is older than its bound.
Persist ==
  /\ now >= Since
  /\ \E e \in Events \ Persisted :
       /\ \A f \in Events : f < e => f \in Persisted
       /\ at' = [at EXCEPT ![e] = now]
  /\ UNCHANGED <<mode, now, db, pc, process, code, history>>

\* The volume is gone, or the connector points at the wrong database.
LoseDatabase ==
  /\ pc = "down"
  /\ stored # None
  /\ stored' = None /\ stamp' = None /\ finished' = FALSE
  /\ backlog' = {}
  /\ UNCHANGED <<world, delivered, pc, process, code, checkedAt, owed,
                 accounted, silent, fetched, signalled, launches>>

Turn == Refuse \/ Run \/ Land \/ CaughtUp \/ Exhaust \/ Wake \/ Close

Next == Launch \/ Turn \/ Poll \/ Raise \/ Signal \/ Kill
        \/ Tick \/ Persist \/ LoseDatabase

\* Pages come back and the task runs.  The poll timer is left out, so what
\* follows a stop does not wait for it.
Spec == Init /\ [][Next]_vars /\ WF_vars(Turn)

-----------------------------------------------------------------------------
TypeOK ==
  /\ mode \in Modes /\ now \in Times
  /\ at \in [Events -> Times \union {None}]
  /\ stored \in Events \union {None} /\ finished \in BOOLEAN
  /\ stamp \in Times \union {None} /\ delivered \subseteq Events
  /\ pc \in {"down", "opened", "page", "idle", "closing"}
  /\ scratch \in BOOLEAN /\ signum \in Signals \union {None}
  /\ read \in 0 .. N /\ pending \subseteq Events /\ warned \in BOOLEAN
  /\ outcome \in {0, 1, 2, 130, 143}
  /\ code \in {0, 1, 2, 130, 137, 143, None}
  /\ checkedAt \in Times /\ owed \subseteq Events /\ backlog \subseteq Events
  /\ accounted \subseteq Events /\ silent \subseteq accounted
  /\ fetched \in BOOLEAN /\ signalled \subseteq Signals

(* An event that was gone when a process started is passed over only by a  *)
(* process that refused or warned.  Two losses stay silent, as in the code:*)
(* what was waiting behind the stamp when a commit set it over a backlog   *)
(* (the limit SPEC 2.6 states), and what ages out while a process runs.    *)
NoSilentGap == silent = {}

(* What a commit puts behind the cursor was delivered, or is accounted for *)
(* as gone: no process passes over what an earlier one had only pending.   *)
Behind(e) == finished \/ (stored # None /\ e <= stored)

NothingPassedOver ==
  [][\A e \in Persisted :
       ~Behind(e) /\ Behind(e)' => e \in delivered' \union accounted']_vars

(* What main returns can be believed by a supervisor: 0 is a finished      *)
(* range, 2 a process that asked Okta for nothing, 143 a SIGTERM and 130 a *)
(* signal of any kind.                                                     *)
ExitTellsTruth ==
  pc = "down" /\ launches > 0 =>
    /\ code = 0 => finished
    /\ code = 2 => ~fetched
    /\ code = 143 => SIGTERM \in signalled
    /\ code = 130 => signalled # {}

(* A signal ends the process without waiting for the poll interval.        *)
StopReturns == pc \in {"page", "idle"} /\ signum # None ~> pc = "down"
=============================================================================
