----------------------------- MODULE StateStore -----------------------------
(***************************************************************************)
(* SqliteStateStore (state/sqlite.py): one database file, and for each     *)
(* stream a process with one connection to it, which runs every statement  *)
(* in a worker thread.  The thread goes on when the task that awaits it is *)
(* cancelled, and close does not wait for it.  A write transaction excludes*)
(* those of other processes; a process that waits too long for it gets an  *)
(* error.  A process may die at any point.                                 *)
(*                                                                         *)
(* A stream is a sequence of batches; the cursor is the number of the last *)
(* batch committed.  SQLite itself is trusted: what BEGIN opened is seen   *)
(* by nobody until COMMIT and gone if the connection goes away first.      *)
(***************************************************************************)
EXTENDS Naturals, Sequences

CONSTANTS
  Streams,   \* one process each
  Batches,   \* Batches[s][n]: the uids of the n-th batch
  Ttl,       \* ttl_seconds
  MaxNow,    \* last instant (bound)
  None

Uids  == UNION {UNION {Batches[s][n] : n \in DOMAIN Batches[s]} : s \in Streams}
Times == 0 .. MaxNow

ASSUME StoreAssumption ==
  /\ \A s \in Streams : /\ Batches[s] \in Seq(SUBSET Uids)
                       /\ {} \notin {Batches[s][n] : n \in DOMAIN Batches[s]}
  /\ Ttl \in Nat /\ Ttl > 1  \* a call crosses one instant at most, see Tick
  /\ MaxNow \in Nat
  /\ None \notin Nat \union Streams

VARIABLES
  now,
  \* the file
  streams,   \* a row per stream: cursor, committed, last_published_ms, caught_up_at
  seen,      \* expires_at of each uid, None for no row
  writer,    \* the stream whose connection has a write transaction open
  \* a process
  task,      \* down, ready, waiting for the thread, unwinding, closed
  thread,    \* the statement its worker runs next
  call,      \* clock reading and batch of the call in progress
  tx,        \* what the open transaction has written: a row, and uids
  known,     \* _committed, the cache behind has_committed
  acked      \* history: the last batch whose commit returned

file  == <<streams, seen, writer>>
local == <<task, thread, call, tx, known>>
vars  == <<now, file, local, acked>>

\* Mutant: the committed column without its NOT NULL DEFAULT 0.
NullableRow == [cursor |-> None, committed |-> None, published |-> None, stamp |-> None]

NoRow == [cursor |-> None, committed |-> FALSE, published |-> None, stamp |-> None]
NoTx == [row |-> FALSE, uids |-> {}]
NoCall == [at |-> 0, batch |-> 0]

\* rows that filter_unseen finds at time t
Live(t) == {u \in Uids : seen[u] # None /\ seen[u] > t}

Position(s) == IF streams[s].cursor = None THEN 0 ELSE streams[s].cursor

Init ==
  /\ now = 0
  /\ streams = [s \in Streams |-> NoRow]
  /\ seen = [u \in Uids |-> None]
  /\ writer = None
  /\ task = [s \in Streams |-> "down"]
  /\ thread = [s \in Streams |-> "none"]
  /\ call = [s \in Streams |-> NoCall]
  /\ tx = [s \in Streams |-> NoTx]
  /\ known = [s \in Streams |-> FALSE]
  /\ acked = [s \in Streams |-> 0]

-----------------------------------------------------------------------------
(* The task: one call at a time, each in a worker thread.                  *)

\* __init__: connect, and read has_committed once.
Open(s) ==
  /\ task[s] = "down"
  /\ task' = [task EXCEPT ![s] = "ready"]
  /\ known' = [known EXCEPT ![s] = streams[s].committed]
  /\ UNCHANGED <<now, file, thread, call, tx, acked>>

\* A call reads the clock and hands its first statement to a thread.
Submit(s, statement) ==
  /\ task[s] = "ready"
  /\ task' = [task EXCEPT ![s] = "waiting"]
  /\ thread' = [thread EXCEPT ![s] = statement]
  /\ call' = [call EXCEPT ![s] = [at |-> now, batch |-> Position(s) + 1]]
  /\ UNCHANGED <<now, file, tx, known, acked>>

CallCommit(s) == Position(s) < Len(Batches[s]) /\ Submit(s, "begin")
CallRecordPublished(s) == Position(s) < Len(Batches[s]) /\ Submit(s, "record_published")
CallMarkCaughtUp(s) == Submit(s, "mark_caught_up")
CallPurge(s) == Submit(s, "purge_expired")

\* Mutant: the call returns while its thread is still at work.
ReturnEarly(s) ==
  /\ task[s] = "waiting"
  /\ thread[s] # "none"
  /\ task' = [task EXCEPT ![s] = "ready"]
  /\ known' = [known EXCEPT ![s] = @ \/ thread[s] # "done"]
  /\ acked' = [acked EXCEPT ![s] = IF thread[s] = "done" THEN @ ELSE call[s].batch]
  /\ UNCHANGED <<now, file, thread, call, tx>>

\* The thread is done and the task runs on.
Return(s) ==
  /\ task[s] = "waiting"
  /\ thread[s] \in {"done", "committed"}
  /\ task' = [task EXCEPT ![s] = "ready"]
  /\ thread' = [thread EXCEPT ![s] = "none"]
  /\ IF thread[s] = "committed"
     THEN /\ known' = [known EXCEPT ![s] = TRUE]
          /\ acked' = [acked EXCEPT ![s] = call[s].batch]
     ELSE UNCHANGED <<known, acked>>
  /\ call' = [call EXCEPT ![s] = NoCall]
  /\ UNCHANGED <<now, file, tx>>

-----------------------------------------------------------------------------
(* The worker thread.                                                      *)

Then(s, statement) == thread' = [thread EXCEPT ![s] = statement]

\* BEGIN IMMEDIATE
Begin(s) ==
  /\ thread[s] = "begin"
  /\ writer = None
  /\ writer' = s
  /\ Then(s, "upsert")
  /\ UNCHANGED <<now, streams, seen, task, call, tx, known, acked>>

\* Mutant: without BEGIN every statement is a transaction of its own.
UpsertAtOnce(s) ==
  /\ thread[s] = "upsert"
  /\ streams' = [streams EXCEPT ![s].cursor = call[s].batch, ![s].committed = TRUE]
  /\ Then(s, "insert")
  /\ UNCHANGED <<now, seen, writer, task, call, tx, known, acked>>

\* INSERT INTO streams ... ON CONFLICT DO UPDATE
Upsert(s) ==
  /\ thread[s] = "upsert"
  /\ tx' = [tx EXCEPT ![s].row = TRUE]
  /\ Then(s, "insert")
  /\ UNCHANGED <<now, file, task, call, known, acked>>

\* Mutant: without BEGIN every uid is there as soon as it is inserted.
InsertAtOnce(s) ==
  /\ thread[s] = "insert"
  /\ \E u \in Batches[s][call[s].batch] \ tx[s].uids :
       /\ tx' = [tx EXCEPT ![s].uids = @ \union {u}]
       /\ seen' = [seen EXCEPT ![u] = call[s].at + Ttl]
  /\ IF tx'[s].uids = Batches[s][call[s].batch]
     THEN Then(s, "commit")
     ELSE UNCHANGED thread
  /\ UNCHANGED <<now, streams, writer, task, call, known, acked>>

\* INSERT OR REPLACE INTO seen, uid by uid
Insert(s) ==
  /\ thread[s] = "insert"
  /\ \E u \in Batches[s][call[s].batch] \ tx[s].uids :
       tx' = [tx EXCEPT ![s].uids = @ \union {u}]
  /\ IF tx'[s].uids = Batches[s][call[s].batch]
     THEN Then(s, "commit")
     ELSE UNCHANGED thread
  /\ UNCHANGED <<now, file, task, call, known, acked>>

\* Mutant: INSERT OR IGNORE, so that a uid seen before keeps the expiry it had.
CommitKeepsExpiry(s) ==
  /\ thread[s] = "commit"
  /\ streams' = [streams EXCEPT ![s] = [cursor    |-> call[s].batch,
                                        committed |-> TRUE,
                                        published |-> @.published,
                                        stamp     |-> call[s].at]]
  /\ seen' = [u \in Uids |-> IF u \in tx[s].uids /\ seen[u] = None
                             THEN call[s].at + Ttl ELSE seen[u]]
  /\ writer' = None
  /\ tx' = [tx EXCEPT ![s] = NoTx]
  /\ Then(s, "committed")
  /\ UNCHANGED <<now, task, call, known, acked>>

\* COMMIT
Commit(s) ==
  /\ thread[s] = "commit"
  /\ streams' = [streams EXCEPT ![s] = [cursor    |-> call[s].batch,
                                        committed |-> TRUE,
                                        published |-> @.published,
                                        stamp     |-> call[s].at]]
  /\ seen' = [u \in Uids |-> IF u \in tx[s].uids THEN call[s].at + Ttl ELSE seen[u]]
  /\ writer' = None
  /\ tx' = [tx EXCEPT ![s] = NoTx]
  /\ Then(s, "committed")
  /\ UNCHANGED <<now, task, call, known, acked>>

InTransaction(s) == thread[s] \in {"upsert", "insert", "commit"}

\* The connection gives up whatever it had not committed.
Abandon(s) ==
  /\ tx' = [tx EXCEPT ![s] = NoTx]
  /\ writer' = IF writer = s THEN None ELSE writer

\* Mutant: the exception leaves the transaction open.
FailWithoutRollback(s) ==
  /\ InTransaction(s)
  /\ Then(s, "none")
  /\ task' = [task EXCEPT ![s] = "unwinding"]
  /\ UNCHANGED <<now, file, call, tx, known, acked>>

\* A statement inside the transaction fails: ROLLBACK, and raise.
Fail(s) ==
  /\ InTransaction(s)
  /\ Abandon(s)
  /\ Then(s, "none")
  /\ task' = [task EXCEPT ![s] = "unwinding"]
  /\ UNCHANGED <<now, streams, seen, call, known, acked>>

Statements == {"begin", "record_published", "mark_caught_up", "purge_expired"}

\* Another process held the write lock for too long: "database is locked".
Locked(s) ==
  /\ thread[s] \in Statements
  /\ writer # None
  /\ Then(s, "none")
  /\ task' = [task EXCEPT ![s] = "unwinding"]
  /\ UNCHANGED <<now, file, call, tx, known, acked>>

Later(a, b) == IF a # None /\ a > b THEN a ELSE b

\* A statement of its own: record_published only moves forward, and may insert
\* the stream's row before anything is committed.
RecordPublished(s) ==
  /\ thread[s] = "record_published"
  /\ writer = None
  /\ streams' = [streams EXCEPT ![s].published = Later(@, call[s].batch)]
  /\ Then(s, "done")
  /\ UNCHANGED <<now, seen, writer, task, call, tx, known, acked>>

\* Mutant: UPDATE ... WHERE stream = ?
MarkAnyRow(s) ==
  /\ thread[s] = "mark_caught_up"
  /\ writer = None
  /\ streams' = [streams EXCEPT ![s].stamp = call[s].at]
  /\ Then(s, "done")
  /\ UNCHANGED <<now, seen, writer, task, call, tx, known, acked>>

\* UPDATE ... WHERE stream = ? AND committed = 1
MarkCaughtUp(s) ==
  /\ thread[s] = "mark_caught_up"
  /\ writer = None
  /\ streams' = IF streams[s].committed
                THEN [streams EXCEPT ![s].stamp = call[s].at]
                ELSE streams
  /\ Then(s, "done")
  /\ UNCHANGED <<now, seen, writer, task, call, tx, known, acked>>

\* DELETE FROM seen WHERE expires_at <= clock(), read in the thread.
Purge(s) ==
  /\ thread[s] = "purge_expired"
  /\ writer = None
  /\ seen' = [u \in Uids |-> IF u \in Live(now) THEN seen[u] ELSE None]
  /\ Then(s, "done")
  /\ UNCHANGED <<now, streams, writer, task, call, tx, known, acked>>

-----------------------------------------------------------------------------
(* Ending.                                                                 *)

\* The second signal, wherever the task is; the thread does not notice.
Cancel(s) ==
  /\ task[s] \in {"ready", "waiting"}
  /\ task' = [task EXCEPT ![s] = "unwinding"]
  /\ UNCHANGED <<now, file, thread, call, tx, known, acked>>

\* close(), which any later statement of the thread trips over.
Close(s) ==
  /\ task[s] = "unwinding"
  /\ task' = [task EXCEPT ![s] = "closed"]
  /\ Abandon(s)
  /\ Then(s, "none")
  /\ call' = [call EXCEPT ![s] = NoCall]
  /\ UNCHANGED <<now, streams, seen, known, acked>>

\* The process is gone: it has returned, or it died somewhere else.
Gone(s) ==
  /\ task[s] # "down"
  /\ task' = [task EXCEPT ![s] = "down"]
  /\ Abandon(s)
  /\ Then(s, "none")
  /\ call' = [call EXCEPT ![s] = NoCall]
  /\ known' = [known EXCEPT ![s] = FALSE]
  /\ UNCHANGED <<now, streams, seen, acked>>

\* A call is over long before a TTL is: SQLite waits seconds for a lock.
Tick ==
  /\ now < MaxNow
  /\ \A s \in Streams : thread[s] # "none" => now = call[s].at
  /\ now' = now + 1
  /\ UNCHANGED <<file, local, acked>>

Next ==
  \/ Tick
  \/ \E s \in Streams :
       \/ Open(s)
       \/ CallCommit(s) \/ CallRecordPublished(s) \/ CallMarkCaughtUp(s) \/ CallPurge(s)
       \/ Begin(s) \/ Upsert(s) \/ Insert(s) \/ Commit(s) \/ Fail(s) \/ Locked(s)
       \/ RecordPublished(s) \/ MarkCaughtUp(s) \/ Purge(s)
       \/ Return(s) \/ Cancel(s) \/ Close(s) \/ Gone(s)

Spec == Init /\ [][Next]_vars

-----------------------------------------------------------------------------
TypeOK ==
  /\ now \in Times
  /\ streams \in [Streams -> [cursor : Nat \union {None}, committed : BOOLEAN,
                              published : Nat \union {None}, stamp : Times \union {None}]]
  /\ seen \in [Uids -> 0 .. MaxNow + Ttl \union {None}]
  /\ writer \in Streams \union {None}
  /\ task \in [Streams -> {"down", "ready", "waiting", "unwinding", "closed"}]
  /\ thread \in [Streams -> Statements \union {"none", "upsert", "insert", "commit",
                                               "committed", "done"}]
  /\ call \in [Streams -> [at : Times, batch : Nat]]
  /\ tx \in [Streams -> [row : BOOLEAN, uids : SUBSET Uids]]
  /\ known \in [Streams -> BOOLEAN]
  /\ acked \in [Streams -> Nat]

(* A commit that returned to the runner survives every death, and          *)
(* has_committed never says more than the file does.                       *)
AckedSurvives ==
  \A s \in Streams : /\ acked[s] <= Position(s)
                     /\ task[s] # "down" /\ known[s] => streams[s].committed

(* A stream that has committed nothing is never stamped caught up, even    *)
(* though record_published may have inserted its row.                      *)
StampNeedsCommit ==
  \A s \in Streams : streams[s].stamp # None => streams[s].committed

(* filter_unseen withholds an event only if a batch that is committed, of  *)
(* this stream or another, holds it: a commit that failed, was rolled back *)
(* or died leaves no uid behind to swallow the event when it is read again.*)
SeenOnlyCommitted ==
  \A u \in Uids : seen[u] # None
                    => \E s \in Streams : \E n \in 1 .. Position(s) : u \in Batches[s][n]

(* The write lock is never left behind: who holds it is in the middle of a *)
(* transaction that will end, however its task was cancelled or failed.    *)
NoAbandonedLock ==
  \A s \in Streams : writer = s => InTransaction(s) /\ task[s] \in {"waiting", "unwinding"}

\* u is withheld from now for a whole TTL, less the length of one call.
WholeTtl(u) == seen[u] # None /\ seen[u] + 1 >= now + Ttl

(* The clock of a commit is read before it waits for the write lock, so it *)
(* may replace the later expiry that another stream's commit has given the *)
(* same uid; a call older than that takes no more than its own length from *)
(* it.  Every COMMIT, whichever stream's came first, leaves its uids       *)
(* withheld for a TTL from that instant, give or take one call, and nothing*)
(* but another COMMIT touches a row before it is due.                      *)
TtlHonoured ==
  [][/\ \A s \in Streams : Position(s)' # Position(s)
                          => \A u \in Batches[s][Position(s)'] : WholeTtl(u)'
     /\ \A u \in Live(now) : seen'[u] = seen[u] \/ WholeTtl(u)']_vars

(* The file only ever holds whole batches: cursor and uids move together,  *)
(* across threads, cancellations, deaths and another process.  Each uid is *)
(* withheld until the expiry that the last commit gave it, whatever is     *)
(* purged, and no longer.                                                  *)
Atomic == INSTANCE AtomicStore WITH
  position <- [s \in Streams |-> Position(s)],
  expires  <- [u \in Live(now) |-> seen[u]]

ImplementsAtomicStore == Atomic!Spec
=============================================================================
