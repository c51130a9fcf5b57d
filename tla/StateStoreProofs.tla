-------------------------- MODULE StateStoreProofs --------------------------
(***************************************************************************)
(* What holds of the state database for any number of streams, batches and *)
(* processes: the write lock is never left behind, what was acknowledged   *)
(* is in the file, and the file implements AtomicStore.                    *)
(***************************************************************************)
EXTENDS StateStore, TLAPS

-----------------------------------------------------------------------------
(* The inductive invariant, a conjunct per concern.                        *)

\* The write lock belongs to the thread that is inside a transaction.
Locking(s) == writer = s <=> InTransaction(s)

\* A thread works for a call that somebody made, and that nobody else repeats.
Employed(s) == thread[s] # "none" => task[s] \in {"waiting", "unwinding"}

\* A call is over before the instant after the one it read is.
Timely(s) == thread[s] # "none" => call[s].at <= now /\ now <= call[s].at + 1

\* The batch a call is about is the next one, until its commit is through.
Aimed(s) ==
  /\ thread[s] \in {"begin", "upsert", "insert", "commit"}
       => call[s].batch = Position(s) + 1 /\ call[s].batch <= Len(Batches[s])
  /\ thread[s] = "committed" => call[s].batch <= Position(s) /\ streams[s].committed

\* What the open transaction has written so far.
Written(s) ==
  /\ thread[s] \notin {"insert", "commit"} => tx[s].uids = {}
  /\ thread[s] = "insert" => tx[s].uids \subseteq Batches[s][call[s].batch]
  /\ thread[s] = "commit" => tx[s].uids = Batches[s][call[s].batch]

\* The row, and what the process believes of it.
Honest(s) ==
  /\ streams[s].stamp # None => streams[s].committed
  /\ acked[s] <= Position(s)
  /\ task[s] # "down" /\ known[s] => streams[s].committed

StreamInvariant(s) ==
  Locking(s) /\ Employed(s) /\ Timely(s) /\ Aimed(s) /\ Written(s) /\ Honest(s)

StoreInvariant == TypeOK /\ \A s \in Streams : StreamInvariant(s)

-----------------------------------------------------------------------------
(* Facts about the data.                                                   *)

LEMMA NoneIsApart == None \notin Nat /\ None \notin Streams
BY StoreAssumption

LEMMA PositionNat ==
  ASSUME TypeOK, NEW s \in Streams
  PROVE  Position(s) \in Nat
BY DEF TypeOK, Position

LEMMA BatchUids ==
  ASSUME NEW s \in Streams, NEW n \in Nat, 1 <= n, n <= Len(Batches[s])
  PROVE  Batches[s][n] \subseteq Uids /\ Batches[s][n] # {}
<1>1. Batches[s] \in Seq(SUBSET Uids) /\ n \in DOMAIN Batches[s]
  BY StoreAssumption
<1> QED  BY <1>1, StoreAssumption

\* The rows of the table streams.
Rows == [cursor : Nat \union {None}, committed : BOOLEAN,
         published : Nat \union {None}, stamp : Times \union {None}]

LEMMA InitInv ==
  ASSUME Init
  PROVE  StoreInvariant
<1> USE StoreAssumption DEF Init, NoRow, NoCall, NoTx
<1>1. TypeOK
  BY DEF TypeOK, Times
<1>2. ASSUME NEW s \in Streams
      PROVE  StreamInvariant(s)
  BY <1>2 DEF StreamInvariant, Locking, InTransaction, Employed, Timely, Aimed, Written,
    Honest, Position
<1> QED  BY <1>1, <1>2 DEF StoreInvariant

-----------------------------------------------------------------------------
(* One lemma per action: the types, then the stream that acts and others.  *)

LEMMA OpenInv ==
  ASSUME StoreInvariant, NEW s \in Streams, Open(s)
  PROVE  StoreInvariant'
<1> USE NoneIsApart DEF Open, file
<1>1. TypeOK'
  BY StoreAssumption DEF StoreInvariant, TypeOK, Statements, Times
<1>2. ASSUME NEW t \in Streams
      PROVE  StreamInvariant(t)'
  BY <1>2 DEF StoreInvariant, TypeOK, StreamInvariant, Locking, InTransaction, Employed,
    Timely, Aimed, Written, Honest, Position
<1> QED  BY <1>1, <1>2 DEF StoreInvariant

LEMMA SubmitInv ==
  ASSUME StoreInvariant, NEW s \in Streams, NEW statement \in Statements,
         Submit(s, statement), statement = "begin" => Position(s) < Len(Batches[s])
  PROVE  StoreInvariant'
<1> USE NoneIsApart DEF Submit, file, Statements
<1>1. Position(s) \in Nat /\ Len(Batches[s]) \in Nat
  BY PositionNat, StoreAssumption DEF StoreInvariant
<1>2. call' \in [Streams -> [at : Times, batch : Nat]]
  BY <1>1 DEF StoreInvariant, TypeOK
<1>3. thread' \in [Streams -> Statements \union {"none", "upsert", "insert", "commit",
                                              "committed", "done"}]
  BY DEF StoreInvariant, TypeOK
<1>4. TypeOK'
  BY <1>2, <1>3 DEF StoreInvariant, TypeOK
<1>5. ASSUME NEW t \in Streams
      PROVE  StreamInvariant(t)'
  <2>1. CASE t = s
    <3>1. task[s] = "ready" /\ thread[s] = "none"
      BY DEF StoreInvariant, StreamInvariant, Employed
    <3>2. thread'[s] = statement /\ task'[s] = "waiting"
          /\ call'[s] = [at |-> now, batch |-> Position(s) + 1]
      BY DEF StoreInvariant, TypeOK
    <3>3. (Locking(s) /\ Employed(s) /\ Written(s) /\ Honest(s))'
      BY <3>1, <3>2 DEF StoreInvariant, TypeOK, StreamInvariant, Locking, InTransaction,
        Employed, Written, Honest, Position
    <3>4. Timely(s)'
      BY <3>2 DEF StoreInvariant, TypeOK, Timely, Times
    <3>5. Aimed(s)'
      BY <1>1, <3>2 DEF Aimed, Position
    <3> QED  BY <2>1, <3>3, <3>4, <3>5 DEF StreamInvariant
  <2>2. CASE t # s
    BY <2>2 DEF StoreInvariant, TypeOK, StreamInvariant, Locking, InTransaction, Employed,
      Timely, Aimed, Written, Honest, Position
  <2> QED  BY <2>1, <2>2
<1> QED  BY <1>4, <1>5 DEF StoreInvariant

LEMMA CallInv ==
  ASSUME StoreInvariant, NEW s \in Streams,
         CallCommit(s) \/ CallRecordPublished(s) \/ CallMarkCaughtUp(s) \/ CallPurge(s)
  PROVE  StoreInvariant'
BY SubmitInv DEF CallCommit, CallRecordPublished, CallMarkCaughtUp, CallPurge, Statements

LEMMA ReturnInv ==
  ASSUME StoreInvariant, NEW s \in Streams, Return(s)
  PROVE  StoreInvariant'
<1> USE NoneIsApart DEF Return, NoCall, file
<1>1. TypeOK'
  <2>1. acked' \in [Streams -> Nat] /\ known' \in [Streams -> BOOLEAN]
    <3>1. acked \in [Streams -> Nat] /\ known \in [Streams -> BOOLEAN] /\ call[s].batch \in Nat
      BY DEF StoreInvariant, TypeOK
    <3>2. CASE thread[s] = "committed"
      <4>1. /\ acked' = [acked EXCEPT ![s] = call[s].batch]
            /\ known' = [known EXCEPT ![s] = TRUE]
        BY <3>2
      <4> QED  BY ONLY <3>1, <4>1
    <3>3. CASE thread[s] # "committed"
      BY <3>1, <3>3
    <3> QED  BY <3>2, <3>3
  <2>2. call' \in [Streams -> [at : Times, batch : Nat]]
    BY StoreAssumption DEF StoreInvariant, TypeOK, Times
  <2> QED  BY <2>1, <2>2 DEF StoreInvariant, TypeOK, Statements
<1>2. ASSUME NEW t \in Streams
      PROVE  StreamInvariant(t)'
  BY <1>2 DEF StoreInvariant, TypeOK, StreamInvariant, Locking, InTransaction, Employed,
    Timely, Aimed, Written, Honest, Position
<1> QED  BY <1>1, <1>2 DEF StoreInvariant

LEMMA BeginInv ==
  ASSUME StoreInvariant, NEW s \in Streams, Begin(s)
  PROVE  StoreInvariant'
<1> USE NoneIsApart DEF Begin, Then
<1>1. TypeOK'
  BY StoreAssumption DEF StoreInvariant, TypeOK, Statements, Times
<1>2. ASSUME NEW t \in Streams
      PROVE  StreamInvariant(t)'
  BY <1>2 DEF StoreInvariant, TypeOK, StreamInvariant, Locking, InTransaction, Employed,
    Timely, Aimed, Written, Honest, Position
<1> QED  BY <1>1, <1>2 DEF StoreInvariant

LEMMA UpsertInv ==
  ASSUME StoreInvariant, NEW s \in Streams, Upsert(s)
  PROVE  StoreInvariant'
<1> USE NoneIsApart DEF Upsert, Then, file
<1>1. TypeOK'
  BY StoreAssumption DEF StoreInvariant, TypeOK, Statements, Times
<1>2. ASSUME NEW t \in Streams
      PROVE  StreamInvariant(t)'
  BY <1>2 DEF StoreInvariant, TypeOK, StreamInvariant, Locking, InTransaction, Employed,
    Timely, Aimed, Written, Honest, Position
<1> QED  BY <1>1, <1>2 DEF StoreInvariant

LEMMA InsertInv ==
  ASSUME StoreInvariant, NEW s \in Streams, Insert(s)
  PROVE  StoreInvariant'
<1> USE NoneIsApart DEF Insert, Then, file
<1>0. PICK u \in Batches[s][call[s].batch] \ tx[s].uids :
        tx' = [tx EXCEPT ![s].uids = @ \union {u}]
  OBVIOUS
<1>a. /\ call[s].batch \in Nat /\ 1 <= call[s].batch
      /\ call[s].batch <= Len(Batches[s])
  BY PositionNat DEF StoreInvariant, StreamInvariant, Aimed, TypeOK
<1>b. Batches[s][call[s].batch] \subseteq Uids
  BY <1>a, BatchUids
<1>1. TypeOK'
  <2>1. tx' \in [Streams -> [row : BOOLEAN, uids : SUBSET Uids]]
    <3>1. tx \in [Streams -> [row : BOOLEAN, uids : SUBSET Uids]] /\ u \in Uids
      BY <1>b DEF StoreInvariant, TypeOK
    <3>2. [tx[s] EXCEPT !.uids = @ \union {u}] \in [row : BOOLEAN, uids : SUBSET Uids]
      BY ONLY <3>1, s \in Streams
    <3>3. tx' = [tx EXCEPT ![s] = [tx[s] EXCEPT !.uids = @ \union {u}]]
      BY ONLY <1>0
    <3> QED  BY ONLY <3>1, <3>2, <3>3
  <2>2. thread' \in [Streams -> Statements \union {"none", "upsert", "insert", "commit",
                                                  "committed", "done"}]
    BY DEF StoreInvariant, TypeOK, Statements
  <2> QED  BY <2>1, <2>2 DEF StoreInvariant, TypeOK
<1>2. ASSUME NEW t \in Streams
      PROVE  StreamInvariant(t)'
  <2>1. CASE t = s
    <3>1. tx'[s].uids = tx[s].uids \union {u}
      BY <1>0 DEF StoreInvariant, TypeOK
    <3>2. thread'[s] \in {"insert", "commit"}
      BY DEF StoreInvariant, TypeOK
    <3>3. thread'[s] = "commit" <=> tx'[s].uids = Batches[s][call[s].batch]
      BY DEF StoreInvariant, TypeOK
    <3>4. Written(s)'
      BY <1>0, <3>1, <3>2, <3>3 DEF StoreInvariant, StreamInvariant, Written
    <3>5. (Locking(s) /\ Employed(s) /\ Timely(s) /\ Aimed(s) /\ Honest(s))'
      BY <3>2 DEF StoreInvariant, StreamInvariant, Locking, InTransaction, Employed,
        Timely, Aimed, Honest, Position
    <3> QED  BY <2>1, <3>4, <3>5 DEF StreamInvariant
  <2>2. CASE t # s
    BY <1>2, <2>2 DEF StoreInvariant, TypeOK, StreamInvariant, Locking, InTransaction,
      Employed, Timely, Aimed, Written, Honest, Position
  <2> QED  BY <2>1, <2>2
<1> QED  BY <1>1, <1>2 DEF StoreInvariant

LEMMA CommitInv ==
  ASSUME StoreInvariant, NEW s \in Streams, Commit(s)
  PROVE  StoreInvariant'
<1> USE NoneIsApart DEF Commit, Then, NoTx
<1>1. TypeOK'
  BY StoreAssumption DEF StoreInvariant, TypeOK, Statements, Times
<1>2. ASSUME NEW t \in Streams
      PROVE  StreamInvariant(t)'
  BY <1>2 DEF StoreInvariant, TypeOK, StreamInvariant, Locking, InTransaction, Employed,
    Timely, Aimed, Written, Honest, Position
<1> QED  BY <1>1, <1>2 DEF StoreInvariant

LEMMA FailInv ==
  ASSUME StoreInvariant, NEW s \in Streams, Fail(s)
  PROVE  StoreInvariant'
<1> USE NoneIsApart DEF Fail, Abandon, Then, NoTx
<1>1. TypeOK'
  BY StoreAssumption DEF StoreInvariant, TypeOK, Statements, Times
<1>2. ASSUME NEW t \in Streams
      PROVE  StreamInvariant(t)'
  BY <1>2 DEF StoreInvariant, TypeOK, StreamInvariant, Locking, InTransaction, Employed,
    Timely, Aimed, Written, Honest, Position
<1> QED  BY <1>1, <1>2 DEF StoreInvariant

LEMMA LockedInv ==
  ASSUME StoreInvariant, NEW s \in Streams, Locked(s)
  PROVE  StoreInvariant'
<1> USE NoneIsApart DEF Locked, Then, file, Statements
<1>1. TypeOK'
  BY StoreAssumption DEF StoreInvariant, TypeOK, Statements, Times
<1>2. ASSUME NEW t \in Streams
      PROVE  StreamInvariant(t)'
  BY <1>2 DEF StoreInvariant, TypeOK, StreamInvariant, Locking, InTransaction, Employed,
    Timely, Aimed, Written, Honest, Position
<1> QED  BY <1>1, <1>2 DEF StoreInvariant

LEMMA RecordPublishedInv ==
  ASSUME StoreInvariant, NEW s \in Streams, RecordPublished(s)
  PROVE  StoreInvariant'
<1> USE NoneIsApart DEF RecordPublished, Then, Later
<1>1. TypeOK'
  <2>1. Later(streams[s].published, call[s].batch) \in Nat \union {None}
    BY DEF StoreInvariant, TypeOK
  <2>2. streams[s] \in Rows
    BY DEF StoreInvariant, TypeOK, Rows
  <2>3. streams' \in [Streams -> Rows]
    BY <2>1, <2>2 DEF StoreInvariant, TypeOK, Rows
  <2> QED  BY <2>3 DEF StoreInvariant, TypeOK, Statements, Rows
<1>2. ASSUME NEW t \in Streams
      PROVE  StreamInvariant(t)'
  BY <1>2 DEF StoreInvariant, TypeOK, StreamInvariant, Locking, InTransaction, Employed,
    Timely, Aimed, Written, Honest, Position
<1> QED  BY <1>1, <1>2 DEF StoreInvariant

LEMMA MarkCaughtUpInv ==
  ASSUME StoreInvariant, NEW s \in Streams, MarkCaughtUp(s)
  PROVE  StoreInvariant'
<1> USE NoneIsApart DEF MarkCaughtUp, Then
<1>1. TypeOK'
  <2>1. call[s].at \in Times
    BY DEF StoreInvariant, TypeOK
  <2>2. streams[s] \in Rows
    BY DEF StoreInvariant, TypeOK, Rows
  <2>3. streams' \in [Streams -> Rows]
    BY <2>1, <2>2 DEF StoreInvariant, TypeOK, Rows
  <2> QED  BY <2>3 DEF StoreInvariant, TypeOK, Statements, Rows
<1>2. ASSUME NEW t \in Streams
      PROVE  StreamInvariant(t)'
  BY <1>2 DEF StoreInvariant, TypeOK, StreamInvariant, Locking, InTransaction, Employed,
    Timely, Aimed, Written, Honest, Position
<1> QED  BY <1>1, <1>2 DEF StoreInvariant

LEMMA PurgeInv ==
  ASSUME StoreInvariant, NEW s \in Streams, Purge(s)
  PROVE  StoreInvariant'
<1> USE NoneIsApart DEF Purge, Then
<1>1. TypeOK'
  BY StoreAssumption DEF StoreInvariant, TypeOK, Statements, Times
<1>2. ASSUME NEW t \in Streams
      PROVE  StreamInvariant(t)'
  BY <1>2 DEF StoreInvariant, TypeOK, StreamInvariant, Locking, InTransaction, Employed,
    Timely, Aimed, Written, Honest, Position
<1> QED  BY <1>1, <1>2 DEF StoreInvariant

LEMMA CancelInv ==
  ASSUME StoreInvariant, NEW s \in Streams, Cancel(s)
  PROVE  StoreInvariant'
<1> USE NoneIsApart DEF Cancel, file
<1>1. TypeOK'
  BY StoreAssumption DEF StoreInvariant, TypeOK, Statements, Times
<1>2. ASSUME NEW t \in Streams
      PROVE  StreamInvariant(t)'
  BY <1>2 DEF StoreInvariant, TypeOK, StreamInvariant, Locking, InTransaction, Employed,
    Timely, Aimed, Written, Honest, Position
<1> QED  BY <1>1, <1>2 DEF StoreInvariant

LEMMA CloseInv ==
  ASSUME StoreInvariant, NEW s \in Streams, Close(s)
  PROVE  StoreInvariant'
<1> USE NoneIsApart DEF Close, Abandon, Then, NoTx, NoCall
<1>1. TypeOK'
  BY StoreAssumption DEF StoreInvariant, TypeOK, Statements, Times
<1>2. ASSUME NEW t \in Streams
      PROVE  StreamInvariant(t)'
  BY <1>2 DEF StoreInvariant, TypeOK, StreamInvariant, Locking, InTransaction, Employed,
    Timely, Aimed, Written, Honest, Position
<1> QED  BY <1>1, <1>2 DEF StoreInvariant

LEMMA GoneInv ==
  ASSUME StoreInvariant, NEW s \in Streams, Gone(s)
  PROVE  StoreInvariant'
<1> USE NoneIsApart DEF Gone, Abandon, Then, NoTx, NoCall
<1>1. TypeOK'
  BY StoreAssumption DEF StoreInvariant, TypeOK, Statements, Times
<1>2. ASSUME NEW t \in Streams
      PROVE  StreamInvariant(t)'
  BY <1>2 DEF StoreInvariant, TypeOK, StreamInvariant, Locking, InTransaction, Employed,
    Timely, Aimed, Written, Honest, Position
<1> QED  BY <1>1, <1>2 DEF StoreInvariant

LEMMA TickInv ==
  ASSUME StoreInvariant, Tick
  PROVE  StoreInvariant'
<1> USE DEF Tick, file, local
<1>1. TypeOK'
  BY StoreAssumption DEF StoreInvariant, TypeOK, Times
<1>2. ASSUME NEW t \in Streams
      PROVE  StreamInvariant(t)'
  BY <1>2, StoreAssumption DEF Times, StoreInvariant, TypeOK, StreamInvariant, Locking,
    InTransaction, Employed, Timely, Aimed, Written, Honest, Position
<1> QED  BY <1>1, <1>2 DEF StoreInvariant

-----------------------------------------------------------------------------
LEMMA NextInv ==
  ASSUME StoreInvariant, [Next]_vars
  PROVE  StoreInvariant'
<1>1. CASE Tick
  BY <1>1, TickInv
<1>2. ASSUME NEW s \in Streams,
             \/ Open(s) \/ CallCommit(s) \/ CallRecordPublished(s) \/ CallMarkCaughtUp(s)
             \/ CallPurge(s) \/ Return(s)
      PROVE  StoreInvariant'
  BY <1>2, OpenInv, CallInv, ReturnInv
<1>3. ASSUME NEW s \in Streams,
             Begin(s) \/ Upsert(s) \/ Insert(s) \/ Commit(s) \/ Fail(s) \/ Locked(s)
      PROVE  StoreInvariant'
  BY <1>3, BeginInv, UpsertInv, InsertInv, CommitInv, FailInv, LockedInv
<1>4. ASSUME NEW s \in Streams, RecordPublished(s) \/ MarkCaughtUp(s) \/ Purge(s)
      PROVE  StoreInvariant'
  BY <1>4, RecordPublishedInv, MarkCaughtUpInv, PurgeInv
<1>5. ASSUME NEW s \in Streams, Cancel(s) \/ Close(s) \/ Gone(s)
      PROVE  StoreInvariant'
  BY <1>5, CancelInv, CloseInv, GoneInv
<1>6. CASE UNCHANGED vars
  BY <1>6 DEF vars, file, local, StoreInvariant, TypeOK, StreamInvariant, Locking,
    InTransaction, Employed, Timely, Aimed, Written, Honest, Position
<1> QED  BY <1>1, <1>2, <1>3, <1>4, <1>5, <1>6 DEF Next

(* Whatever dies, is cancelled or fails, in whatever order.                *)
THEOREM StoreInvariantHolds == Spec => []StoreInvariant
<1> QED  BY InitInv, NextInv, PTL DEF Spec

(* Every row has the columns and types the schema of sqlite.py gives it.   *)
THEOREM StoreTypeCorrect == Spec => []TypeOK
<1>1. StoreInvariant => TypeOK
  BY DEF StoreInvariant
<1> QED  BY <1>1, StoreInvariantHolds, PTL

(* What commit returned for is still there after any death, and the cache  *)
(* behind has_committed claims nothing the file does not hold.             *)
THEOREM AcknowledgedSurvives == Spec => []AckedSurvives
<1>1. StoreInvariant => AckedSurvives
  BY DEF StoreInvariant, StreamInvariant, Honest, AckedSurvives
<1> QED  BY <1>1, StoreInvariantHolds, PTL

(* mark_caught_up never stamps a row that record_published alone put there.*)
THEOREM StampsFollowCommits == Spec => []StampNeedsCommit
<1>1. StoreInvariant => StampNeedsCommit
  BY DEF StoreInvariant, StreamInvariant, Honest, StampNeedsCommit
<1> QED  BY <1>1, StoreInvariantHolds, PTL

(* The write lock is always held by a thread that will give it up, for any *)
(* number of processes on the database.                                    *)
THEOREM LockNeverAbandoned == Spec => []NoAbandonedLock
<1>1. StoreInvariant => NoAbandonedLock
  BY DEF StoreInvariant, StreamInvariant, Locking, InTransaction, Employed, NoAbandonedLock
<1> QED  BY <1>1, StoreInvariantHolds, PTL

-----------------------------------------------------------------------------
(* Whoever holds the write lock needs nobody to go on.                     *)

\* The guard of the next statement of a transaction.
CanGoOn(s) ==
  \/ thread[s] \in {"upsert", "commit"}
  \/ thread[s] = "insert" /\ Batches[s][call[s].batch] \ tx[s].uids # {}

\* A statement is through, and none is ever run again.
MovesOn(s) ==
  \/ UNCHANGED <<thread[s], call[s], tx[s]>>
  \/ thread[s] = "upsert" /\ thread'[s] = "insert"
  \/ /\ thread[s] = "insert" /\ thread'[s] \in {"insert", "commit"}
     /\ tx[s].uids \subseteq tx'[s].uids /\ tx[s].uids # tx'[s].uids
     /\ tx'[s].uids \subseteq Batches[s][call[s].batch]

Unfinished ==
  \A s \in Streams : thread[s] = "insert" => Batches[s][call[s].batch] \ tx[s].uids # {}

LEMMA UnfinishedStep ==
  ASSUME StoreInvariant, Unfinished, [Next]_vars
  PROVE  Unfinished'
<1>1. CASE Tick \/ UNCHANGED vars
  BY <1>1 DEF Tick, vars, local, Unfinished
<1>2. ASSUME NEW s \in Streams, Upsert(s)
      PROVE  Unfinished'
  <2>1. /\ call[s].batch = Position(s) + 1 /\ call[s].batch <= Len(Batches[s])
        /\ tx[s].uids = {} /\ Position(s) \in Nat
    BY <1>2, PositionNat DEF Upsert, StoreInvariant, StreamInvariant, Aimed, Written
  <2>2. Batches[s][call[s].batch] # {}
    BY <2>1, BatchUids
  <2>3. /\ call' = call /\ tx'[s].uids = {}
        /\ \A t \in Streams : t # s => thread'[t] = thread[t] /\ tx'[t] = tx[t]
    BY <1>2, <2>1 DEF Upsert, Then, StoreInvariant, TypeOK
  <2> QED  BY <2>2, <2>3 DEF Unfinished
<1>3. ASSUME NEW s \in Streams, Insert(s)
      PROVE  Unfinished'
  <2>1. tx[s].uids \subseteq Batches[s][call[s].batch]
    BY <1>3 DEF Insert, StoreInvariant, StreamInvariant, Written
  <2>2. PICK u \in Batches[s][call[s].batch] : tx' = [tx EXCEPT ![s].uids = @ \union {u}]
    BY <1>3 DEF Insert
  <2>3. tx'[s].uids \subseteq Batches[s][call[s].batch]
    BY <2>1, <2>2 DEF StoreInvariant, TypeOK
  <2>4. thread'[s] = "insert" => tx'[s].uids # Batches[s][call[s].batch]
    BY <1>3 DEF Insert, Then, StoreInvariant, TypeOK
  <2>5. /\ call' = call
        /\ \A t \in Streams : t # s => thread'[t] = thread[t] /\ tx'[t] = tx[t]
    BY <1>3, <2>2 DEF Insert, Then, StoreInvariant, TypeOK
  <2> QED  BY <2>3, <2>4, <2>5 DEF Unfinished
<1>4. ASSUME NEW s \in Streams,
             \/ Open(s) \/ CallCommit(s) \/ CallRecordPublished(s) \/ CallMarkCaughtUp(s)
             \/ CallPurge(s) \/ Return(s) \/ Begin(s) \/ Commit(s) \/ Fail(s) \/ Locked(s)
             \/ RecordPublished(s) \/ MarkCaughtUp(s) \/ Purge(s) \/ Cancel(s) \/ Close(s)
             \/ Gone(s)
      PROVE  Unfinished'
  <2>1. ASSUME NEW t \in Streams, thread'[t] = "insert"
        PROVE  thread[t] = "insert" /\ tx'[t] = tx[t] /\ call'[t] = call[t]
    BY <1>4, <2>1 DEF Open, CallCommit, CallRecordPublished, CallMarkCaughtUp, CallPurge,
      Submit, Return, Begin, Commit, Fail, Locked, RecordPublished, MarkCaughtUp, Purge,
      Cancel, Close, Gone, Abandon, Then, StoreInvariant, TypeOK
  <2> QED  BY <2>1 DEF Unfinished
<1> QED  BY <1>1, <1>2, <1>3, <1>4 DEF Next

LEMMA HolderStep ==
  ASSUME StoreInvariant, Next, NEW s \in Streams, writer = s, writer' = s
  PROVE  MovesOn(s)
<1>1. /\ thread[s] \in {"upsert", "insert", "commit"} /\ task[s] \in {"waiting", "unwinding"}
      /\ writer # None
  BY NoneIsApart DEF StoreInvariant, StreamInvariant, Locking, InTransaction, Employed
<1>2. ASSUME NEW t \in Streams, t # s,
             \/ Open(t) \/ CallCommit(t) \/ CallRecordPublished(t) \/ CallMarkCaughtUp(t)
             \/ CallPurge(t) \/ Return(t) \/ Begin(t) \/ Upsert(t) \/ Insert(t) \/ Commit(t)
             \/ Fail(t) \/ Locked(t) \/ RecordPublished(t) \/ MarkCaughtUp(t) \/ Purge(t)
             \/ Cancel(t) \/ Close(t) \/ Gone(t)
      PROVE  UNCHANGED <<thread[s], call[s], tx[s]>>
  BY <1>2 DEF Open, CallCommit, CallRecordPublished, CallMarkCaughtUp, CallPurge, Submit,
    Return, Begin, Upsert, Insert, Commit, Fail, Locked, RecordPublished, MarkCaughtUp, Purge,
    Cancel, Close, Gone, Abandon, Then, StoreInvariant, TypeOK
<1>3. CASE Open(s) \/ Cancel(s) \/ Tick
  BY <1>3 DEF Open, Cancel, Tick, local, MovesOn
<1>4. CASE Upsert(s)
  BY <1>4 DEF Upsert, Then, StoreInvariant, TypeOK, MovesOn
<1>5. CASE Insert(s)
  <2>1. tx[s].uids \subseteq Batches[s][call[s].batch] /\ thread[s] = "insert"
    BY <1>5 DEF Insert, StoreInvariant, StreamInvariant, Written
  <2>2. PICK u \in Batches[s][call[s].batch] \ tx[s].uids :
          tx' = [tx EXCEPT ![s].uids = @ \union {u}]
    BY <1>5 DEF Insert
  <2>3. tx'[s].uids = tx[s].uids \union {u}
    BY <2>2 DEF StoreInvariant, TypeOK
  <2>4. thread'[s] \in {"insert", "commit"}
    BY <1>5, <2>1 DEF Insert, Then, StoreInvariant, TypeOK
  <2> QED  BY <2>1, <2>2, <2>3, <2>4 DEF MovesOn
<1>6. ~(\/ CallCommit(s) \/ CallRecordPublished(s) \/ CallMarkCaughtUp(s) \/ CallPurge(s)
        \/ Return(s) \/ Begin(s) \/ Commit(s) \/ Fail(s) \/ Locked(s) \/ RecordPublished(s)
        \/ MarkCaughtUp(s) \/ Purge(s) \/ Close(s) \/ Gone(s))
  BY <1>1 DEF CallCommit, CallRecordPublished, CallMarkCaughtUp, CallPurge, Submit, Return,
    Begin, Commit, Fail, Locked, RecordPublished, MarkCaughtUp, Purge, Close, Gone, Abandon,
    Statements
<1> QED  BY <1>2, <1>3, <1>4, <1>5, <1>6 DEF Next, MovesOn

(* Nobody waits for the write lock in vain: its holder always has a        *)
(* statement that waits for nothing, and while it keeps the lock, whatever *)
(* is cancelled meanwhile, each statement leaves fewer to run.             *)
THEOREM HolderMovesOn ==
  Spec => /\ [](\A s \in Streams : writer = s => CanGoOn(s))
          /\ [][\A s \in Streams : writer = s /\ writer' = s => MovesOn(s)]_vars
<1>1. Init => Unfinished
  BY DEF Init, Unfinished
<1>2. StoreInvariant /\ Unfinished => \A s \in Streams : writer = s => CanGoOn(s)
  BY DEF StoreInvariant, StreamInvariant, Locking, InTransaction, Unfinished, CanGoOn
<1>3. StoreInvariant /\ [Next]_vars
        => [\A s \in Streams : writer = s /\ writer' = s => MovesOn(s)]_vars
  BY HolderStep
<1> QED  BY <1>1, <1>2, <1>3, UnfinishedStep, StoreInvariantHolds, PTL DEF Spec

-----------------------------------------------------------------------------
(* Where the uids of the table seen come from.                             *)

Committed(u) == \E s \in Streams : \E n \in 1 .. Position(s) : u \in Batches[s][n]

\* What is committed stays so while no cursor moves back.
LEMMA CommittedStays ==
  ASSUME StoreInvariant, NEW u, Committed(u),
         \A s \in Streams : Position(s)' \in Nat /\ Position(s)' >= Position(s)
  PROVE  Committed(u)'
<1>1. PICK s \in Streams : \E n \in 1 .. Position(s) : u \in Batches[s][n]
  BY DEF Committed
<1>2. PICK n \in 1 .. Position(s) : u \in Batches[s][n]
  BY <1>1
<1>3. Position(s) \in Nat
  BY PositionNat DEF StoreInvariant
<1>4. n \in 1 .. Position(s)'
  BY <1>3
<1> QED  BY <1>2, <1>4 DEF Committed

\* A statement that moves no cursor and adds no uid, like all but COMMIT.
LEMMA SeenShrinks ==
  ASSUME StoreInvariant, SeenOnlyCommitted,
         \A s \in Streams : streams'[s].cursor = streams[s].cursor,
         \A u \in Uids : seen'[u] # None => seen[u] # None
  PROVE  SeenOnlyCommitted'
<1>1. ASSUME NEW s \in Streams
      PROVE  Position(s)' \in Nat /\ Position(s)' >= Position(s)
  <2>1. Position(s)' = Position(s)
    BY DEF Position
  <2> QED  BY <2>1, PositionNat DEF StoreInvariant
<1>2. ASSUME NEW u \in Uids, seen'[u] # None
      PROVE  Committed(u)'
  <2>1. Committed(u)
    BY <1>2 DEF SeenOnlyCommitted, Committed
  <2> QED  BY <1>1, <2>1, CommittedStays
<1> QED  BY <1>2 DEF SeenOnlyCommitted, Committed

\* COMMIT adds the uids of the very batch it moves the cursor over.
LEMMA CommitCovers ==
  ASSUME StoreInvariant, SeenOnlyCommitted, NEW s \in Streams, Commit(s)
  PROVE  SeenOnlyCommitted'
<1> DEFINE n == call[s].batch
<1>1. n = Position(s) + 1 /\ tx[s].uids = Batches[s][n]
  BY DEF Commit, StoreInvariant, StreamInvariant, Aimed, Written
<1>2. ASSUME NEW t \in Streams
      PROVE  Position(t) \in Nat /\ Position(t)' = IF t = s THEN n ELSE Position(t)
  BY <1>1, PositionNat, NoneIsApart DEF Commit, Position, StoreInvariant, TypeOK
<1>3. ASSUME NEW t \in Streams
      PROVE  Position(t)' \in Nat /\ Position(t)' >= Position(t)
  BY <1>1, <1>2
<1>4. ASSUME NEW u \in Uids, seen'[u] # None
      PROVE  Committed(u)'
  <2>1. CASE u \in tx[s].uids
    <3>1. n \in 1 .. Position(s)'
      BY <1>1, <1>2
    <3> QED  BY <1>1, <2>1, <3>1 DEF Committed
  <2>2. CASE u \notin tx[s].uids
    <3>1. seen[u] # None
      BY <1>4, <2>2 DEF Commit
    <3>2. Committed(u)
      BY <3>1 DEF SeenOnlyCommitted, Committed
    <3> QED  BY <1>3, <3>2, CommittedStays
  <2> QED  BY <2>1, <2>2
<1> QED  BY <1>4 DEF SeenOnlyCommitted, Committed

LEMMA OwnRow ==
  ASSUME StoreInvariant, NEW s \in Streams, RecordPublished(s) \/ MarkCaughtUp(s)
  PROVE  /\ UNCHANGED <<now, seen>>
         /\ \A t \in Streams : streams'[t].cursor = streams[t].cursor
BY DEF StoreInvariant, TypeOK, RecordPublished, MarkCaughtUp

LEMMA SeenStep ==
  ASSUME StoreInvariant, SeenOnlyCommitted, [Next]_vars
  PROVE  SeenOnlyCommitted'
<1>1. CASE Tick \/ UNCHANGED vars
  BY <1>1, SeenShrinks DEF Tick, vars, file
<1>2. ASSUME NEW s \in Streams, Commit(s)
      PROVE  SeenOnlyCommitted'
  BY <1>2, CommitCovers
<1>3. ASSUME NEW s \in Streams, RecordPublished(s) \/ MarkCaughtUp(s)
      PROVE  SeenOnlyCommitted'
  BY <1>3, OwnRow, SeenShrinks
<1>4. ASSUME NEW s \in Streams, Purge(s)
      PROVE  SeenOnlyCommitted'
  BY <1>4, SeenShrinks DEF Purge
<1>5. ASSUME NEW s \in Streams,
             \/ Open(s) \/ CallCommit(s) \/ CallRecordPublished(s) \/ CallMarkCaughtUp(s)
             \/ CallPurge(s) \/ Return(s) \/ Begin(s) \/ Upsert(s) \/ Insert(s)
             \/ Fail(s) \/ Locked(s) \/ Cancel(s) \/ Close(s) \/ Gone(s)
      PROVE  SeenOnlyCommitted'
  <2>1. UNCHANGED <<streams, seen>>
    BY <1>5 DEF Open, CallCommit, CallRecordPublished, CallMarkCaughtUp, CallPurge, Submit,
      Return, Begin, Upsert, Insert, Fail, Locked, Cancel, Close, Gone, file
  <2> QED  BY <2>1, SeenShrinks
<1> QED  BY <1>1, <1>2, <1>3, <1>4, <1>5 DEF Next

(* filter_unseen swallows nothing that no batch has committed, for any     *)
(* number of streams sharing uids and any rollback, death or purge.        *)
THEOREM SeenAlwaysCommitted == Spec => []SeenOnlyCommitted
<1>1. Init => SeenOnlyCommitted
  BY DEF Init, SeenOnlyCommitted
<1> QED  BY <1>1, SeenStep, StoreInvariantHolds, PTL DEF Spec

-----------------------------------------------------------------------------
(* The refinement: COMMIT is the instant AtomicStore commits.              *)

Positions == [s \in Streams |-> Position(s)]
Expiry    == [u \in Live(now) |-> seen[u]]

\* A statement that touches neither the cursors nor the uids is not seen.
LEMMA Unseen ==
  ASSUME StoreInvariant, UNCHANGED <<now, seen>>,
         \A s \in Streams : streams'[s].cursor = streams[s].cursor
  PROVE  UNCHANGED <<now, Positions, Expiry>>
BY DEF Positions, Position, Expiry, Live

(* Purge reads the clock when it deletes: what goes is forgotten already.  *)
LEMMA PurgeForgets ==
  ASSUME StoreInvariant, NEW s \in Streams, Purge(s)
  PROVE  UNCHANGED <<now, Positions, Expiry>>
<1>1. UNCHANGED <<now, Positions>>
  BY DEF Purge, Positions, Position
<1>2. Live(now)' = Live(now) /\ \A u \in Live(now) : seen'[u] = seen[u]
  BY DEF Purge, Live
<1> QED  BY <1>1, <1>2 DEF Expiry

LEMMA TickForgets ==
  ASSUME StoreInvariant, Tick
  PROVE  Atomic!Lapse
<1>1. now' = now + 1 /\ seen' = seen /\ UNCHANGED Positions
  BY DEF Tick, file, Positions, Position
<1>2. \A u \in Uids : seen[u] # None => (seen[u] > now + 1 => seen[u] > now)
  BY StoreAssumption DEF StoreInvariant, TypeOK, Times
<1>3. Live(now)' = {u \in Live(now) : seen[u] > now'}
  BY <1>1, <1>2 DEF Live
<1>4. DOMAIN Expiry = Live(now) /\ \A u \in Live(now) : Expiry[u] = seen[u]
  BY DEF Expiry
<1>5. Expiry' = [u \in {v \in DOMAIN Expiry : Expiry[v] > now'} |-> Expiry[u]]
  <2>1. {v \in DOMAIN Expiry : Expiry[v] > now'} = Live(now)'
    BY <1>3, <1>4
  <2>2. \A u \in Live(now)' : seen'[u] = Expiry[u]
    BY <1>1, <1>3, <1>4
  <2> QED  BY <2>1, <2>2 DEF Expiry
<1> QED  BY <1>1, <1>5 DEF Atomic!Lapse, Positions, Expiry

LEMMA CommitIsAtomic ==
  ASSUME StoreInvariant, NEW s \in Streams, Commit(s)
  PROVE  Atomic!Commit(s)
<1> DEFINE n == call[s].batch
<1>1. /\ n = Position(s) + 1 /\ n <= Len(Batches[s])
      /\ tx[s].uids = Batches[s][n]
      /\ call[s].at <= now /\ now <= call[s].at + 1
  BY DEF Commit, StoreInvariant, StreamInvariant, Aimed, Written, Timely
<1>2. Position(s) \in Nat /\ Len(Batches[s]) \in Nat
  BY PositionNat, StoreAssumption DEF StoreInvariant
<1>3. tx[s].uids \subseteq Uids
  BY DEF StoreInvariant, TypeOK
<1>4. Positions' = [Positions EXCEPT ![s] = @ + 1]
  <2>1. ASSUME NEW t \in Streams
        PROVE  Position(t)' = IF t = s THEN n ELSE Position(t)
    BY <1>1, <1>2, NoneIsApart DEF Commit, Position, StoreInvariant, TypeOK
  <2> QED  BY <1>1, <2>1 DEF Positions
<1>5. /\ now' = now /\ now \in Nat /\ call[s].at \in Nat /\ call[s].at + Ttl > now
      /\ call[s].at \in {t \in 0 .. now : now <= t + 1}
  BY <1>1, StoreAssumption DEF Commit, StoreInvariant, TypeOK, Times
<1>6. ASSUME NEW u \in Uids
      PROVE  seen'[u] = IF u \in tx[s].uids THEN call[s].at + Ttl ELSE seen[u]
  BY DEF Commit
<1>7. Live(now)' = Live(now) \union tx[s].uids
  <2>1. call[s].at + Ttl # None
    BY <1>5, StoreAssumption
  <2> QED  BY <1>3, <1>5, <1>6, <2>1 DEF Live
<1>8. Expiry' = [u \in DOMAIN Expiry \union tx[s].uids |->
                   IF u \in tx[s].uids THEN call[s].at + Ttl ELSE Expiry[u]]
  <2>1. DOMAIN Expiry = Live(now) /\ \A u \in Live(now) : Expiry[u] = seen[u]
    BY DEF Expiry
  <2>2. Live(now) \subseteq Uids
    BY DEF Live
  <2>3. \A u \in Live(now)' :
          seen'[u] = IF u \in tx[s].uids THEN call[s].at + Ttl ELSE Expiry[u]
    BY <1>3, <1>6, <1>7, <2>1, <2>2
  <2> QED  BY <1>7, <2>1, <2>3 DEF Expiry
<1>9. Positions[s] = Position(s) /\ Positions'[s] = n
  BY <1>1, <1>4 DEF Positions
<1>10. /\ Positions[s] < Len(Batches[s])
       /\ Positions' = [Positions EXCEPT ![s] = @ + 1]
       /\ Expiry' = [u \in DOMAIN Expiry \union Batches[s][Positions'[s]] |->
                       IF u \in Batches[s][Positions'[s]] THEN call[s].at + Ttl ELSE Expiry[u]]
  BY <1>1, <1>2, <1>4, <1>8, <1>9
<1> QED  BY <1>5, <1>10 DEF Atomic!Commit, Positions, Expiry

LEMMA AtomicStep ==
  ASSUME StoreInvariant, [Next]_vars
  PROVE  [Atomic!Next]_<<now, Positions, Expiry>>
<1>1. CASE Tick
  BY <1>1, TickForgets DEF Atomic!Next
<1>2. ASSUME NEW s \in Streams, Commit(s)
      PROVE  Atomic!Next
  BY <1>2, CommitIsAtomic DEF Atomic!Next
<1>3. ASSUME NEW s \in Streams, RecordPublished(s) \/ MarkCaughtUp(s) \/ Purge(s)
      PROVE  UNCHANGED <<now, Positions, Expiry>>
  BY <1>3, OwnRow, Unseen, PurgeForgets
<1>4. ASSUME NEW s \in Streams,
             \/ Open(s) \/ CallCommit(s) \/ CallRecordPublished(s) \/ CallMarkCaughtUp(s)
             \/ CallPurge(s) \/ Return(s) \/ Begin(s) \/ Upsert(s) \/ Insert(s)
             \/ Fail(s) \/ Locked(s) \/ Cancel(s) \/ Close(s) \/ Gone(s)
      PROVE  UNCHANGED <<now, streams, seen>>
  BY <1>4 DEF Open, CallCommit, CallRecordPublished, CallMarkCaughtUp, CallPurge, Submit,
    Return, Begin, Upsert, Insert, Fail, Locked, Cancel, Close, Gone, file
<1>5. UNCHANGED vars => UNCHANGED <<now, streams, seen>>
  BY DEF vars, file
<1>6. UNCHANGED <<now, streams, seen>> => UNCHANGED <<now, Positions, Expiry>>
  BY Unseen
<1> QED  BY <1>1, <1>2, <1>3, <1>4, <1>5, <1>6 DEF Next

(* Every COMMIT, of whatever stream, gives its uids a TTL from the instant *)
(* it is through, less the length of its own call at most: that is all an  *)
(* older clock reading can take from another stream's later expiry.        *)
LEMMA CommitRenews ==
  ASSUME StoreInvariant, NEW s \in Streams, Commit(s)
  PROVE  /\ \A u \in tx[s].uids : WholeTtl(u)'
         /\ \A u \in Uids \ tx[s].uids : seen'[u] = seen[u]
         /\ \A t \in Streams : Position(t)' # Position(t)
                => t = s /\ Batches[t][Position(t)'] = tx[s].uids
<1>1. /\ call[s].batch = Position(s) + 1 /\ tx[s].uids = Batches[s][call[s].batch]
      /\ call[s].at <= now /\ now <= call[s].at + 1
  BY DEF Commit, StoreInvariant, StreamInvariant, Aimed, Written, Timely
<1>2. now' = now /\ now \in Nat /\ call[s].at \in Nat /\ tx[s].uids \subseteq Uids
  BY DEF Commit, StoreInvariant, TypeOK, Times
<1>3. ASSUME NEW u \in tx[s].uids
      PROVE  WholeTtl(u)'
  <2>1. seen'[u] = call[s].at + Ttl
    BY <1>2 DEF Commit
  <2> QED  BY <1>1, <1>2, <2>1, StoreAssumption DEF WholeTtl
<1>4. ASSUME NEW u \in Uids \ tx[s].uids
      PROVE  seen'[u] = seen[u]
  BY DEF Commit
<1>5. ASSUME NEW t \in Streams
      PROVE  Position(t)' = IF t = s THEN call[s].batch ELSE Position(t)
  BY <1>1, PositionNat, NoneIsApart DEF Commit, Position, StoreInvariant, TypeOK
<1> QED  BY <1>1, <1>3, <1>4, <1>5

LEMMA TtlStep ==
  ASSUME StoreInvariant, [Next]_vars
  PROVE  /\ \A s \in Streams : Position(s)' # Position(s)
                             => \A u \in Batches[s][Position(s)'] : WholeTtl(u)'
         /\ \A u \in Live(now) : seen'[u] = seen[u] \/ WholeTtl(u)'
<1> DEFINE Kept == /\ \A s \in Streams : Position(s)' = Position(s)
                   /\ \A u \in Live(now) : seen'[u] = seen[u]
<1>1. ASSUME NEW s \in Streams, Commit(s)
      PROVE  \/ Kept
             \/ /\ \A t \in Streams : Position(t)' # Position(t)
                        => \A u \in Batches[t][Position(t)'] : WholeTtl(u)'
                /\ \A u \in Live(now) : seen'[u] = seen[u] \/ WholeTtl(u)'
  BY <1>1, CommitRenews DEF Live
<1>2. ASSUME NEW s \in Streams, RecordPublished(s) \/ MarkCaughtUp(s)
      PROVE  Kept
  BY <1>2, OwnRow DEF Position
<1>3. ASSUME NEW s \in Streams, Purge(s)
      PROVE  Kept
  BY <1>3 DEF Purge, Position, Live
<1>4. ASSUME NEW s \in Streams,
             \/ Open(s) \/ CallCommit(s) \/ CallRecordPublished(s) \/ CallMarkCaughtUp(s)
             \/ CallPurge(s) \/ Return(s) \/ Begin(s) \/ Upsert(s) \/ Insert(s)
             \/ Fail(s) \/ Locked(s) \/ Cancel(s) \/ Close(s) \/ Gone(s)
      PROVE  UNCHANGED <<streams, seen>>
  BY <1>4 DEF Open, CallCommit, CallRecordPublished, CallMarkCaughtUp, CallPurge, Submit,
    Return, Begin, Upsert, Insert, Fail, Locked, Cancel, Close, Gone, file
<1>5. UNCHANGED vars \/ Tick => UNCHANGED <<streams, seen>>
  BY DEF vars, file, Tick
<1>6. UNCHANGED <<streams, seen>> => Kept
  BY DEF Position
<1> QED  BY <1>1, <1>2, <1>3, <1>4, <1>5, <1>6 DEF Next

(* A uid is withheld for a TTL, less one call, from the last COMMIT that   *)
(* holds it, whichever of the streams that share it commits last and       *)
(* whatever lapses, is purged, rolled back or dies meanwhile.              *)
THEOREM TtlAlwaysHonoured == Spec => TtlHonoured
BY TtlStep, StoreInvariantHolds, PTL DEF Spec, TtlHonoured

(* Statement by statement, in threads that outlive their tasks, the file   *)
(* does what StateStore.commit and filter_unseen promise in store.py: a    *)
(* COMMIT is one instant of AtomicStore, and no purge, rollback, failure or*)
(* death is seen there.                                                    *)
THEOREM FileImplementsAtomicStore == Spec => ImplementsAtomicStore
<1>1. Init => Atomic!Init
  <2> SUFFICES ASSUME Init
               PROVE  Atomic!Init
    OBVIOUS
  <2>1. Live(now) = {} /\ \A s \in Streams : Position(s) = 0
    BY DEF Init, NoRow, Position, Live
  <2> QED  BY <2>1 DEF Init, Atomic!Init
<1>2. StoreInvariant /\ [Next]_vars
        => [Atomic!Next]_<<now, [s \in Streams |-> Position(s)], [u \in Live(now) |-> seen[u]]>>
  BY AtomicStep DEF Positions, Expiry
<1> QED  BY <1>1, <1>2, StoreInvariantHolds, PTL DEF Spec, ImplementsAtomicStore, Atomic!Spec
=============================================================================
