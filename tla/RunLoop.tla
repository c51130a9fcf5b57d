------------------------------ MODULE RunLoop ------------------------------
(***************************************************************************)
(* One stream of the connector: runner/loop.py driving its source, the     *)
(* Security Lake sink and the state store.  A page is fetched, filtered    *)
(* against the seen-set and buffered; when the buffer is due the sink      *)
(* writes one object per (class, day) under the batch key, and only then   *)
(* are the cursor and the uids committed, in one transaction.  The process *)
(* may die between any two of these steps; what it buffered dies with it   *)
(* and the next process resumes from the committed cursor.                 *)
(*                                                                         *)
(* The log is a set of positions.  A cursor is the position after which to *)
(* read, so 0 is the opening query, which is the same text at every start  *)
(* because its bounds come from configuration or arguments.  Two positions *)
(* with the same uid are one event that the source delivers twice.         *)
(***************************************************************************)
EXTENDS Naturals, FiniteSets

CONSTANTS
  N,            \* last position of the log (bound)
  Uid,          \* Uid[p] is the uuid of the record at p
  Bucket,       \* Bucket[u] is the (class, event day) that u is mapped to
  Limit,        \* records per page
  MaxBuffered,  \* the sink's byte ceiling, as a number of events
  Bounded,      \* TRUE for a backfill's closed range, FALSE for a tail
  Late,         \* positions of a bounded range not yet indexed when it opens
  PageEnds,     \* positions at which a page of a bounded range may end
  Lapsable,     \* uids whose seen row may reach its TTL (bound)
  MaxEnds,      \* how often a process may be stopped or die (bound)
  None          \* Python's None, as a cursor

Positions == 1 .. N
Cursors   == 0 .. N
Uids      == {Uid[p] : p \in Positions}
Buckets   == {Bucket[u] : u \in Uids}
BucketOf(p) == Bucket[Uid[p]]

\* What a bounded range serves when it opens, the part of it after c up to e,
\* and where its pages begin.
Served     == Positions \ Late
Span(c, e) == {p \in Served : c < p /\ p <= e}
Cuts       == {0} \union (PageEnds \ Late)

\* The last one: a bounded query has finitely many pages (docs/SPEC.md 2.2), so
\* wherever one begins, one can be served that leads on or is the last.
ASSUME LoopAssumption ==
  /\ N \in Nat
  /\ DOMAIN Uid = Positions
  /\ Bounded \in BOOLEAN
  /\ Limit \in Nat \ {0}
  /\ MaxBuffered \in Nat \ {0}
  /\ {Late, PageEnds} \subseteq SUBSET Positions
  /\ Lapsable \subseteq Uids
  /\ MaxEnds \in Nat
  /\ None \notin Nat
  /\ Bounded => \A c \in Cuts :
       \/ Cardinality(Span(c, N)) <= Limit
       \/ \E e \in Cuts : c < e /\ Cardinality(Span(c, e)) <= Limit

VARIABLES
  visible,     \* positions the source serves
  row,         \* the stream's row: its cursor, and whether it ever committed
  seen,        \* uids with an unexpired seen row
  marked,      \* history: uids some commit recorded as delivered
  lake,        \* lake[k]: the events in the objects named by batch key k
  pc,          \* where the process is, "down" when there is none
  cursor, batchKey, buffer, pending, page, nextCursor,
  put,         \* buckets the running flush has already written
  aged,        \* the buffer has been open for the sink's max_seconds
  stampDue,    \* an hour since the last caught-up stamp, or none yet
  ends         \* processes ended before their work (bounds Stop and Die)

logVars     == <<visible>>
durableVars == <<row, seen, marked, lake>>
batchVars   == <<cursor, batchKey, buffer, pending>>
pageVars    == <<page, nextCursor>>
procVars    == <<pc, batchVars, pageVars, put, aged, stampDue>>
vars == <<logVars, durableVars, procVars, ends>>

-----------------------------------------------------------------------------
(* What the process and a reader of the lake can tell from the state.      *)

UidsOf(S) == {Uid[p] : p \in S}

\* uids some object in the lake holds
Delivered == UNION {UidsOf(lake[k]) : k \in Cursors}

\* A committed None cursor ends a bounded range (state/sqlite.py, committed).
Finished == row.committed /\ row.cursor = None

\* Mutants: the store's None taken for a cursor; a start that ignores the store.
StoredCursorUnchecked == row.cursor
StoredCursorForgotten == 0

\* Where get_cursor/start would open now, and how far a page reaches.
StoredCursor == IF row.cursor = None THEN 0 ELSE row.cursor
End(c)       == IF c = None THEN N ELSE c

\* Everything up to here is behind the committed cursor.
Resume == IF row.committed THEN End(row.cursor) ELSE 0

-----------------------------------------------------------------------------
(* The log: Okta's System Log as fetch sees it.                            *)

InitLog == visible = IF Bounded THEN Served ELSE {}

\* A polling query returns events in the order they were persisted.
Publish ==
  /\ ~Bounded
  /\ \E p \in Positions \ visible :
       /\ \A q \in Positions : q < p => q \in visible
       /\ visible' = visible \union {p}
  /\ UNCHANGED <<durableVars, procVars, ends>>

\* The records after c up to e.
Between(c, e) == {p \in visible : c < p /\ p <= e}

\* A response to `c': up to Limit records after it, and the next link, which is
\* where they end; a link after an empty page leads back.  A polling query
\* always has a link and leaves records out only when the page is full.  A page
\* of a bounded one may be short or empty and have a link all the same; one
\* without a link is the last.
Response(c, records, link) ==
  /\ Cardinality(records) <= Limit
  /\ \/ /\ link \in {c} \union (IF Bounded THEN PageEnds \cap visible ELSE visible)
        /\ c <= link
        /\ records = Between(c, link)
        /\ ~Bounded /\ Cardinality(records) < Limit => \A p \in visible : p <= link
     \/ Bounded /\ link = None /\ records = Between(c, N)

-----------------------------------------------------------------------------
(* The process.                                                            *)

InitDurable ==
  /\ row = [cursor |-> None, committed |-> FALSE]
  /\ seen = {}
  /\ marked = {}
  /\ lake = [k \in Cursors |-> {}]

\* Everything a process holds is gone when it ends.
Volatile(p, c) ==
  /\ pc' = p
  /\ cursor' = c
  /\ batchKey' = c
  /\ buffer' = {}
  /\ pending' = {}
  /\ page' = {}
  /\ nextCursor' = None
  /\ put' = {}
  /\ aged' = FALSE
  /\ stampDue' = TRUE

InitProcess ==
  /\ pc = "down"
  /\ cursor = 0 /\ batchKey = 0
  /\ buffer = {} /\ pending = {}
  /\ page = {} /\ nextCursor = None
  /\ put = {} /\ aged = FALSE /\ stampDue = TRUE
  /\ ends = 0

\* get_cursor, and start() only when there is none.
Open ==
  /\ pc = "down"
  /\ Volatile("top", StoredCursor)
  /\ UNCHANGED <<logVars, durableVars, ends>>

\* A supervisor starts a tail again and a job until its range is finished.
Start == ~Finished /\ Open

\* The check at the top of the loop: a stop does not flush the open batch.
Stop ==
  /\ pc = "top"
  /\ ends < MaxEnds
  /\ ends' = ends + 1
  /\ Volatile("down", 0)
  /\ UNCHANGED <<logVars, durableVars>>

\* A kill, a cancellation, or an exception out of any await of the loop.
Die ==
  /\ pc # "down"
  /\ ends < MaxEnds
  /\ ends' = ends + 1
  /\ Volatile("down", 0)
  /\ UNCHANGED <<logVars, durableVars>>

Fetch ==
  /\ pc = "top"
  /\ \E records \in SUBSET visible, link \in Cursors \union {None} :
       /\ Response(cursor, records, link)
       /\ page' = records
       /\ nextCursor' = link
  /\ pc' = "filter"
  /\ UNCHANGED <<logVars, durableVars, batchVars, put, aged, stampDue, ends>>

\* An answer of a bounded query that leads on, or ends it.
LeadOn == Bounded /\ Fetch /\ nextCursor' # cursor

\* Mutant: the page is collapsed, the seen-set not asked.
FreshInPageOnly == {p \in page : \A q \in page : Uid[q] = Uid[p] => p <= q}

\* filter_unseen asks the store alone; the loop keeps the first copy of a uid
\* within the page.  What the open batch already holds is not consulted.
Fresh == {p \in page : /\ Uid[p] \notin seen
                       /\ \A q \in page : Uid[q] = Uid[p] => p <= q}

\* Mutant: a buffer that is never old.
ShouldFlushWhenFull(b) == b # {} /\ Cardinality(b) >= MaxBuffered

\* SecurityLakeSink.should_flush on the buffer `b'.
ShouldFlush(b) == b # {} /\ (Cardinality(b) >= MaxBuffered \/ aged)

\* filter_unseen, write and pending.extend, then the flush decision.
Filter ==
  /\ pc = "filter"
  /\ buffer' = buffer \union Fresh
  /\ pending' = pending \union Fresh
  /\ pc' = IF nextCursor = None \/ ShouldFlush(buffer') THEN "flush" ELSE "report"
  /\ UNCHANGED <<logVars, durableVars, cursor, batchKey, pageVars, put, aged,
                 stampDue, ends>>

\* One put of SecurityLakeSink.flush: the buffer's events of one bucket replace
\* the object of that name.  Buckets go in order of first appearance.
PutObject ==
  /\ pc = "flush"
  /\ \E p \in buffer :
       /\ BucketOf(p) \notin put
       /\ \A q \in buffer : q < p => BucketOf(q) \in put
       /\ lake' = [lake EXCEPT ![batchKey] =
                     {q \in @ : BucketOf(q) # BucketOf(p)}
                       \union {q \in buffer : BucketOf(q) = BucketOf(p)}]
       /\ put' = put \union {BucketOf(p)}
  /\ UNCHANGED <<logVars, row, seen, marked, pc, batchVars, pageVars, aged,
                 stampDue, ends>>

\* Mutant: flush returns before every object is durable.
AcknowledgeUnwritten ==
  /\ pc = "flush"
  /\ buffer' = {}
  /\ put' = {}
  /\ aged' = FALSE
  /\ pc' = "commit"
  /\ UNCHANGED <<logVars, durableVars, cursor, batchKey, pending, pageVars,
                 stampDue, ends>>

\* Mutant: flush leaves the buffer as it is.
AcknowledgeKeepsBuffer ==
  /\ pc = "flush"
  /\ \A p \in buffer : BucketOf(p) \in put
  /\ put' = {}
  /\ aged' = FALSE
  /\ pc' = "commit"
  /\ UNCHANGED <<logVars, durableVars, cursor, batchKey, buffer, pending,
                 pageVars, stampDue, ends>>

\* flush returns: at once for an empty buffer, else once every object is
\* durable, and the sink is empty again.
Acknowledge ==
  /\ pc = "flush"
  /\ \A p \in buffer : BucketOf(p) \in put
  /\ buffer' = {}
  /\ put' = {}
  /\ aged' = FALSE
  /\ pc' = "commit"
  /\ UNCHANGED <<logVars, durableVars, cursor, batchKey, pending, pageVars,
                 stampDue, ends>>

\* Mutant: the next batch goes on under the key of the one just committed.
CommitKeepsKey ==
  /\ pc = "commit"
  /\ row' = [cursor |-> nextCursor, committed |-> TRUE]
  /\ seen' = seen \union UidsOf(pending)
  /\ marked' = marked \union UidsOf(pending)
  /\ pending' = {}
  /\ stampDue' = FALSE
  /\ pc' = "report"
  /\ UNCHANGED <<logVars, lake, cursor, batchKey, buffer, pageVars, put, aged, ends>>

\* store.commit, one transaction, and the loop's bookkeeping after it.  The
\* purge that may follow deletes only rows that filter_unseen already ignores.
Commit ==
  /\ pc = "commit"
  /\ row' = [cursor |-> nextCursor, committed |-> TRUE]
  /\ seen' = seen \union UidsOf(pending)
  /\ marked' = marked \union UidsOf(pending)
  /\ pending' = {}
  /\ batchKey' = IF nextCursor # None THEN nextCursor ELSE batchKey
  /\ stampDue' = FALSE
  /\ pc' = "report"
  /\ UNCHANGED <<logVars, lake, cursor, buffer, pageVars, put, aged, ends>>

\* The end of a range: run returns and the process exits.
Exit == Volatile("down", 0) /\ UNCHANGED <<logVars, durableVars, ends>>

\* Mutant: an empty page is stamped whatever is pending.
AdvanceStampsPending ==
  /\ cursor' = nextCursor
  /\ pc' = IF page = {} /\ stampDue THEN "stamp" ELSE "top"
  /\ page' = {}
  /\ nextCursor' = None
  /\ UNCHANGED <<logVars, durableVars, batchKey, buffer, pending, put, aged,
                 stampDue, ends>>

\* Mutant: the loop goes on from where the open batch began.
AdvanceRereads ==
  /\ cursor' = batchKey
  /\ pc' = IF page = {} /\ pending = {} /\ stampDue THEN "stamp" ELSE "top"
  /\ page' = {}
  /\ nextCursor' = None
  /\ UNCHANGED <<logVars, durableVars, batchKey, buffer, pending, put, aged,
                 stampDue, ends>>

\* The next page; an empty page with nothing pending is due a caught-up stamp,
\* at most one an hour.
Advance ==
  /\ cursor' = nextCursor
  /\ pc' = IF page = {} /\ pending = {} /\ stampDue THEN "stamp" ELSE "top"
  /\ page' = {}
  /\ nextCursor' = None
  /\ UNCHANGED <<logVars, durableVars, batchKey, buffer, pending, put, aged,
                 stampDue, ends>>

\* on_progress, and the loop's only way out of its own accord.
Report == pc = "report" /\ IF nextCursor = None THEN Exit ELSE Advance

\* store.mark_caught_up: an UPDATE of caught_up_at, which nothing here reads.
MarkCaughtUp ==
  /\ pc = "stamp"
  /\ stampDue' = FALSE
  /\ pc' = "top"
  /\ UNCHANGED <<logVars, durableVars, batchVars, pageVars, put, aged, ends>>

\* Five minutes since the buffer opened.
AgeBuffer ==
  /\ buffer # {}
  /\ ~aged
  /\ aged' = TRUE
  /\ UNCHANGED <<logVars, durableVars, pc, batchVars, pageVars, put, stampDue, ends>>

\* An hour since the last stamp.
HourPasses ==
  /\ pc = "top"
  /\ ~stampDue
  /\ stampDue' = TRUE
  /\ UNCHANGED <<logVars, durableVars, pc, batchVars, pageVars, put, aged, ends>>

\* A seen row reaches its TTL: from now on filter_unseen ignores it.
Lapse ==
  /\ \E u \in seen \cap Lapsable : seen' = seen \ {u}
  /\ UNCHANGED <<logVars, row, marked, lake, procVars, ends>>

-----------------------------------------------------------------------------
Init == InitLog /\ InitDurable /\ InitProcess

Work == \/ Fetch \/ Filter \/ PutObject \/ Acknowledge \/ Commit
        \/ Report \/ MarkCaughtUp

Next == \/ Start \/ Work \/ Stop \/ Die
        \/ Publish \/ AgeBuffer \/ HourPasses \/ Lapse

Spec == Init /\ [][Next]_vars

\* The event loop runs whatever is ready, a supervisor restarts what ended and
\* the clock moves.  A bounded query has finitely many pages (docs/SPEC.md 2.2),
\* so among its answers are always again some that lead on.  Nothing promises
\* new events, stops or deaths.
Fairness ==
  /\ WF_vars(Start) /\ WF_vars(Work) /\ WF_vars(AgeBuffer)
  /\ SF_vars(LeadOn)

FairSpec == Spec /\ Fairness

-----------------------------------------------------------------------------
TypeOK ==
  /\ visible \subseteq Positions
  /\ row \in [cursor : Cursors \union {None}, committed : BOOLEAN]
  /\ seen \subseteq Uids
  /\ marked \subseteq Uids
  /\ lake \in [Cursors -> SUBSET Positions]
  /\ pc \in {"down", "top", "filter", "flush", "commit", "report", "stamp"}
  /\ cursor \in Cursors
  /\ batchKey \in Cursors
  /\ buffer \subseteq Positions
  /\ pending \subseteq Positions
  /\ page \subseteq Positions
  /\ nextCursor \in Cursors \union {None}
  /\ put \subseteq Buckets
  /\ aged \in BOOLEAN
  /\ stampDue \in BOOLEAN
  /\ ends \in 0 .. MaxEnds

(* No event is lost: whatever the committed cursor has passed is in the    *)
(* lake, wherever processes died in between and however the batches of a   *)
(* replay were cut.  A finished range has passed everything.               *)
NoLoss == \A p \in visible : p <= Resume => Uid[p] \in Delivered

(* A uid a commit recorded as delivered stays in the lake: no later flush  *)
(* overwrites the object that holds its only copy.                         *)
AckedStaysDurable == marked \subseteq Delivered

(* The runner stamps a stream caught up only when nothing it has been      *)
(* served is still undelivered.                                            *)
CaughtUpHonest == pc = "stamp" => \A p \in Between(0, cursor) : Uid[p] \in Delivered

(* The cursor of a stream never moves back, and a finished range stays so. *)
CursorAdvances == [][Resume <= Resume' /\ (Finished => Finished')]_vars

(* Objects named by a key the stream has committed past never change       *)
(* again: a replay rewrites only the batch that was open.                  *)
SettledObjectsFrozen ==
  [][\A k \in Cursors : k < Resume => lake'[k] = lake[k]]_vars

(* The lake holds one copy of each uid.                                    *)
EffectivelyOnce ==
  \A j, k \in Cursors : \A p \in lake[j], q \in lake[k] :
    Uid[p] = Uid[q] => j = k /\ p = q

\* What it rests on (checked of Backfill): each page with news is flushed on its
\* own, no seen row lapses, and a repeated query is answered with pages that end
\* where they did before, since none that reaches over a page end fits.
OnePageBatches ==
  /\ Bounded /\ MaxBuffered = 1 /\ Lapsable = {}
  /\ \A c, e \in Cuts, d \in Cuts \union {N} :
       c < e /\ Span(e, d) # {} => Cardinality(Span(c, d)) > Limit

(* A record is written again only because a process ended: under at most   *)
(* one key more than there were ends, whatever a replay reads again.       *)
Copies(p) == {k \in Cursors : p \in lake[k]}

CopiesBounded == \A p \in Positions : Cardinality(Copies(p)) <= ends + 1

(* The same of the event itself, however often the source repeats it, while *)
(* its seen row lasts: further repeats land in the object that holds it.    *)
KeysOf(u) == {k \in Cursors : u \in UidsOf(lake[k])}

KeysBounded == \A u \in Uids \ Lapsable : Cardinality(KeysOf(u)) <= ends + 1

\* What a process has left of a bounded range, most significant first: the
\* records after the cursor, the steps of the page, the puts of the flush.
Stage == [top |-> 5, filter |-> 4, flush |-> 3, commit |-> 2, report |-> 1,
          stamp |-> 6, down |-> 0]
Remaining == <<N - cursor, Stage[pc], Cardinality({p \in buffer : BucketOf(p) \notin put})>>

Precedes(s, t) == \E i \in 1 .. 3 : s[i] < t[i] /\ \A j \in 1 .. i - 1 : s[j] = t[j]

\* Nothing lies between an empty page and its link, which is asked for next.
IdlePage == pc = "report" /\ page = {} /\ nextCursor # None

(* A process that is left alone gets to the end of its range: each of its  *)
(* steps leaves less to do or finishes the range, whatever page sizes and  *)
(* links it is given; the one exception is to go on from an empty page,    *)
(* since no page but the one without a link is taken for the last.         *)
RangeShrinks ==
  [][Bounded /\ Work => \/ Precedes(Remaining', Remaining)
                        \/ pc' = "down" /\ Finished'
                        \/ IdlePage]_vars

(* Every event the source serves reaches the lake and stays there.         *)
EventuallyDelivered ==
  \A p \in Positions : p \in visible ~> [](Uid[p] \in Delivered)

-----------------------------------------------------------------------------
(* Why NoLoss and AckedStaysDurable hold: the parts of an invariant that   *)
(* every step preserves.                                                   *)

\* How far the batch that is open has read.
Reach == IF pc \in {"top", "filter", "stamp"} THEN cursor ELSE End(nextCursor)

\* A polling query serves its records in order and always carries a link.
PollingInOrder ==
  ~Bounded => /\ \A p \in visible, q \in Positions : q < p => q \in visible
              /\ pc \notin {"down", "top", "stamp"} => nextCursor # None
              /\ row.committed => row.cursor # None

\* A cursor is the opening query or follows a record the source served.
CursorsServed ==
  /\ {cursor, batchKey} \subseteq {0} \union visible
  /\ {nextCursor, row.cursor} \subseteq {0, None} \union visible
  /\ row.cursor # None => row.committed
  /\ nextCursor # None => cursor <= nextCursor
  /\ pc \in {"down", "top", "stamp"} => nextCursor = None /\ page = {}

\* The open batch starts where the store would resume: the batch key is the
\* committed cursor, until the range is finished.
BatchAtCommit ==
  /\ pc # "down" /\ ~Finished => batchKey = StoredCursor /\ batchKey <= Reach
  /\ pc = "report" /\ nextCursor = None => Finished
  /\ Finished => \/ pc = "down"
                 \/ pc = "report" /\ nextCursor = None /\ pending = {}

\* What lies between the batch key and the last page read is either already
\* delivered or pending, and nothing else is pending.
BatchCovers ==
  /\ pending \subseteq {p \in visible : batchKey < p /\ p <= Reach}
  /\ buffer = IF pc = "commit" THEN {} ELSE pending
  /\ pc \in {"down", "stamp"} => pending = {}
  /\ pc # "down" /\ ~Finished =>
       \A p \in visible : batchKey < p /\ p <= Reach
                            => Uid[p] \in marked \union UidsOf(pending)

\* A fetched page misses nothing between the cursor and its link.
PageComplete == pc = "filter" => page = Between(cursor, End(nextCursor))

\* The flush has written what it has marked as written, and is acknowledged
\* only when everything pending is durable under the batch key.
FlushProgress ==
  /\ pc = "flush" => \A p \in buffer : BucketOf(p) \in put => p \in lake[batchKey]
  /\ pc # "flush" => put = {}
  /\ pc = "commit" => pending \subseteq lake[batchKey]

\* Behind the committed cursor everything is marked.
SettledBehind ==
  /\ seen \subseteq marked
  /\ \A p \in visible : p <= Resume => Uid[p] \in marked

\* These hold of a stream even when another one shares its seen-set.
StreamInvariant ==
  /\ TypeOK
  /\ PollingInOrder
  /\ CursorsServed
  /\ BatchAtCommit
  /\ BatchCovers
  /\ PageComplete
  /\ FlushProgress
  /\ SettledBehind

\* u is held under a key that no later flush of this stream uses.
HeldBehind(u) == \E k \in Cursors : k < Resume /\ u \in UidsOf(lake[k])

LoopInvariant == StreamInvariant /\ \A u \in marked : HeldBehind(u)

-----------------------------------------------------------------------------
(* The loop keeps the promise of Delivery: what the destination holds is   *)
(* the lake's uids, what is settled is what commits recorded.              *)
Promise == INSTANCE Delivery
             WITH held <- Delivered, settled <- marked, resume <- Resume

ImplementsDelivery == Promise!Spec
=============================================================================
