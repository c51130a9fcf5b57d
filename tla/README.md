# ocsf-connector: a TLA+ model

The connector reads Okta's System Log page by page, maps each record to OCSF,
writes Parquet objects for Security Lake and keeps its position in SQLite. Its
promise (docs/SPEC.md §5) is that every event arrives and that a crash neither
loses nor repeats one. This directory holds the models of the parts that carry
that promise, the TLC configurations that check them, and machine-checked
proofs of what they promise.

Line numbers below are of `src/ocsf_connector/` in the repository.

## 1. Inventory

| Part | State | Operations | What is hard | What makes it correct |
|---|---|---|---|---|
| run loop `runner/loop.py` | cursor, batch key, pending uids, last stamp | open, fetch, filter, write, flush, commit, stamp, idle, stop | a death between any two awaits; batches of a replay cut elsewhere; empty pages | nothing behind the committed cursor is missing; what was committed is not overwritten; stamps are honest |
| sink `sinks/security_lake.py` | buffer, its size, when it was opened | `write`, `should_flush`, `flush` | a flush is many puts and may end between them | the same key replaces; returns only when all is durable |
| provider roles, S3 `sinks/s3.py` | credentials per custom source | `client_for`, `_assume`, `put` | expiry between the check and the put, or between two puts of a flush; two clocks; a class without a role | renewal before expiry; every class of an accepted configuration has its role |
| state store `state/sqlite.py` | `streams`, `seen`, a connection, `_committed` | `commit`, `filter_unseen`, `record_published`, `mark_caught_up`, `purge_expired`, `close` | statements run in a thread that outlives a cancelled task; two processes on one file; TTL | cursor and uids move together or not at all; no lock left behind |
| source `sources/okta/source.py` | remembered budget and reset | `start_tail`, `start_backfill`, `fetch` | 429, 5xx, transport errors, a budget others spend | waits end; the reserve is kept; every page is answered or raises |
| credentials `sources/okta/auth.py` | cached token, cached nonce | `token`, `headers`, `_mint` | renewal against long sleeps; nonce renewal | no expired token is sent; the handshake takes one retry |
| modes and CLI `runner/modes.py`, `cli.py` | — | `tail`, `backfill`, `main` | lost database, expired bound, stale cursor, exit code | what had aged out at a start is announced, codes a supervisor can act on |
| shutdown `runner/shutdown.py` | first signal, event | `request`, `sleep`, `stop_on_signals` | first, second and early signals | a stop ends the process without waiting for the poll |
| configuration, names `config.py`, `sinks/naming.py` | — | `load_config` and its refusals | settings that meet from a file, the environment and defaults | what is accepted never fails later for what could have been refused |
| mapping `mapping/okta.py`, `ocsf/` | consumed paths of one record | `map` | what is read and then filtered out of the class | a total function; valid events; a known loss |
| reconcile `scripts/reconcile.py` | what it has read so far | read Okta, read each table, compare | reads one after another while the lake is written; edges of the window; blank ids | "clean" and "missing" can be believed |
| telemetry, live probe, deployment, stores for tests | counters, constants | — | — | not modelled (§7) |

How they interact: `main` loads the configuration and runs one mode, which
assembles the parts, looks at the store and enters the loop under a signal
handler. The loop calls source, mapper, store and sink one after another, never
two at once; all concurrency inside a process is between that task, the signal
callbacks and the worker threads of the store and of the puts. A put's thread is
joined when the process ends, so no put arrives after the next process began.
Across processes a tail and a backfill share one database file, so one seen-set
and one write lock, and the lake; `reconcile` reads the lake and Okta beside
them. With `config.stream` set the two modes would share a cursor as well
(config.py:358-362); that configuration is not modelled.

## 2. Modules

```
Delivery   <--refines--  RunLoop  <--instances (tail, fill)--  Overlap <-- Audit
                            ^                                             ^    |
                            |                              OverlapProofs -+  Reconcile
                            +-- Rerun, RunLoopProofs
                            +-- Pipeline --instances--> Settings, ProviderRoles
                                   ^                          ProviderRolesProofs
                              PipelineProofs
AtomicStore <--refines-- StateStore <-- StateStoreProofs
OktaFetch <-- OktaFetchProofs      Process <-- ProcessProofs
Mapper <-- Mapping, MapperProofs
```

**RunLoop** is one stream: log, process, lake and the row of the store. Each
await of `run()` is an action, and `pc` says which comes next:

| Action | Code |
|---|---|
| `Start`, `Open` | loop.py:103-122: `get_cursor`, `start()`, a fresh batch |
| `Stop` | 139-142: the batch in memory is dropped |
| `Fetch` | 144-149; what Okta may answer is `Response` |
| `Filter` | 151-188: map, `filter_unseen`, `write`, `pending.extend`, decide on a flush |
| `PutObject` | security_lake.py:141-153, one object per (class, day) |
| `Acknowledge` | 155-157: the buffer is cleared, `flush` returns |
| `Commit` | loop.py:199-225, one transaction |
| `Report` (`Advance` or `Exit`), `MarkCaughtUp` | 227-256 |
| `Die` | a kill, a cancellation or an exception at any of these |
| `Publish`, `AgeBuffer`, `HourPasses`, `Lapse` | the log, the clock, the TTL |

A position stands for a record and also for the cursor after it; 0 is the
opening query, whose text is the same at every start. A batch key is the cursor
its batch began at, so the lake is a function from cursors to records. Two
positions with one uid are an event that Okta serves twice, or two events
without a uid.

**Delivery** is the promise without any mechanism: uids that are settled are
held for ever, and the resume position moves only past settled uids. RunLoop is
shown to implement it. **Overlap** composes a tail and a backfill, two
instances of RunLoop with a shared log, a shared seen-set and separate objects.
**Rerun** adds running a finished range again, and a start from an empty
database over a lake that others have filled.

**Pipeline** is RunLoop delivering to Security Lake. `PutObject` becomes three
steps, `ResolveClient`, `AssumeRole`, `Deliver`, and a put may raise
(`FlushFails`), which ends the process in the middle of a flush as often as it
happens. Which credentials a put has is **ProviderRoles**: a cache per custom
source, renewed at four fifths of the lifetime (s3.py:146-183), where the
age is read off the connector's clock and the expiry off AWS's. Which roles a
process has is **Settings**: what a file, the environment and the defaults say,
and every refusal of the sink's part of the configuration.

**Audit** puts **Reconcile**, the operator's script, beside Overlap: it asks Okta
for a window, then reads one table after another, while both streams flush, die
and replay; the verdict is compared with what the lake holds.

**StateStore** is the SQLite store statement by statement. A task hands one
statement after another to a worker thread; the second signal cancels the task
and not the thread, and `close()` may then come at any point. **AtomicStore** is
what RunLoop takes the store to be: a commit is one step, each uid is withheld
until the expiry its last commit gave it and no longer, and a purge changes no
answer. StateStore
implements it.

**OktaFetch** is `fetch` with its credentials, with every instant a countdown.
**Process** is the life of a process from `main` to its exit code, with the loop
reduced to its pages; it adds what the loop cannot see, retention, signals, exit
codes and a lost database. **Mapper** is `map` as operators: what is read and so
consumed, what is built, what the class cuts away, what is filled in and what is
left under `unmapped`; **Mapping** sends records through it and is the model of
its one piece of state, the alarm for unknown types.

Operators whose comment begins with `Mutant` are not part of a specification:
each is a plausible mistake in the definition that follows it and shows that a
property notices it.

## 3. Runs

| Run | Question | Result |
|---|---|---|
| `Tail` | Does a tail over a growing log keep its promise through two deaths or stops, repeated uids and a lapsed seen row? | holds, and `EventuallyDelivered`; a record is written again only because a process ended (`CopiesBounded`), and so is an event while its seen row lasts, however often Okta repeats it (`KeysBounded`) |
| `Backfill` | The same of a bounded range with role credentials and a layered configuration (Pipeline); once each page is its own batch, is delivery exactly once? May a put lack a role, or carry expired credentials? Does every step bring the range nearer its end (`RangeShrinks`)? | holds (`NoLoss` with it, by `DeliveryPromises`); never with the clocks in step; all but the step on from an empty page that has a link |
| `Overlap` | Can a tail and a backfill lose an event between them, and can an operator who reconciles meanwhile believe the verdict (Audit)? Is a stamp honest although its stream skips what the other took? | no event with a uid, but of several without one the lake may hold only one (mapping/okta.py:141); "clean" yes, "missing" of events with a uid and a usable timestamp whose table was read; with the same reserve, yes |
| `StateStore` | Is a commit atomic under cancellation, close, death, lock waits and a second process, and is a uid withheld for a TTL from each COMMIT, although a commit reads its clock before it has the lock (`TtlHonoured`)? Can a uid be remembered that nothing committed (`SeenOnlyCommitted`)? | yes; yes, less the length of one call; no |
| `OktaFetch` | Do budget, token and nonce hold through every retry, and does each fetch end, each step leaving less ahead of it (`FetchShrinks`)? | yes |
| `Process` | Is what had aged out when a process started passed over in silence (`NoSilentGap`)? Can an exit code mislead? Does a commit pass over an event that is neither delivered nor accounted for as gone (`NothingPassedOver`)? Does a stop return? | no, but for the backlog behind a commit's stamp; no; no; yes |
| `RepeatAcrossPages`, `ShorterReplay`, `OverlapTwice`, `Rerun`, `TokenFlaky`, `UnknownEvent` | statements of the documentation that the code does not keep | refuted, §4 |

Bounds and why they are enough to meet the interesting cases:

- `Tail`: five records, pages of two, so a batch spans pages, a page is short,
  and the same uid may fall on one page or two; a byte ceiling of three events,
  so both triggers fire; two buckets, so a flush can be half done; two ends, so
  a replay can itself be cut off; uid `a` lapses and is served again. `MaxEnds`,
  `N` and `Lapsable` are the bounds.
- `Backfill`: six records, pages of two at most that end after the second, third,
  fifth or sixth: full ones, short ones, one with nothing new on it, empty ones
  with a link, met again and again, and a last one that is full or empty;
  two custom sources, so a flush
  is two puts. Credentials live five units and a call takes one at most, the
  tightest case `RolesAssumption` allows, so a renewal falls between the puts of
  a flush and a response may be slow; the connector's clock is in step or two
  units behind, in which case a put does fail on expired credentials and the
  process comes back. Eight layers for the file and for the environment: silent,
  complete, short of a role, for another prefix, malformed, an empty string.
- `Overlap`: three records for two tables: two different events without a uid,
  the second of them without a usable timestamp too, and one event with a uid.
  Two windows may be asked for: the first two records, whose padding reaches the
  third, so a blank row forbids "clean"; and the third alone, where "clean" is
  the verdict of a run that finds it. Either process ends once, a page of the
  backfill may be short, and any table may be skipped. A window is asked for
  once a stream is past it, padding included: the script's own condition
  (scripts/reconcile.py:35-39, "closed and settled", "covered by the tail
  throughout"). No seen row lapses here; lapses are in `Tail`, and in the proofs.
- `StateStore`: two batches and one, sharing a uid; a TTL of two and three
  instants, so a row expires while the other process writes. A call crosses at
  most one instant: SQLite gives up a lock within seconds and a TTL is a day.
- `OktaFetch`: a unit is half a rate-limit window. A window of two, a budget of
  three of which one is reserved, three attempts, two requests by others, a
  token life of ten units, so that renewal (at eight) falls in every place.
- `Process`: two events, a retention of one, five instants, three processes.

Deadlock is checked except in `Process`, where three processes are all there
are, in the bounded-range runs and the mapping, which end, and in the runs of
RunLoop that show one violation.

**Fairness.** `Tail` and `Backfill` assume weak fairness of `Start` (a
supervisor restarts a tail and a job that has not finished), of `Work` (the
event loop runs what is ready; in `Backfill` the puts and role calls are part of
it, since every call to AWS returns or raises) and of `AgeBuffer` (the clock
moves), and strong fairness of `LeadOn`: a bounded query has a finite number of
pages (SPEC §2.2), so Okta does not answer it with empty pages and a link back
for ever. The code itself would go on asking. Nothing promises new events, stops
or deaths. In `Backfill` a process
whose put failed forgets its credentials, so the next one assumes its roles
anew and gets past: that is why `EventuallyDelivered` needs no promise about
clocks. `OktaFetch` assumes it of the client's steps, every request being
bounded by a timeout, and of time. `Process` assumes it of the task but not of
the poll timer, so `StopReturns` means that a stop waits for no poll.

## 4. Where the code and its documentation part

1. **A uid repeated within an open batch** (`RepeatAcrossPages`). `filter_unseen`
   knows committed uids and loop.py:163 collapses one page; `pending` is not
   asked. tests/test_end_to_end.py:243 and tests/test_commit_order.py:132 state
   the opposite and pass because the sink they use (tests/doubles.py:112) flushes
   every page, the case that `Backfill` shows to be exact.
   The repeats share the key of their batch, so the objects that hold the event
   are no more for them (`KeysBounded`).
2. **A replay cut shorter** (`ShorterReplay`). Overwriting works object by
   object. A replayed batch that no longer has events of some (class, day)
   leaves that object, and its events come again under the next key. SPEC §5.2
   calls differing boundaries self-healing. No event is lost either way
   (`NoLoss` is proved), and each end costs one object more at most
   (`KeysBounded`).
3. **Tail and backfill at once** (`OverlapTwice`). Both filter before either
   commits; under its own keys each still keeps the bound
   (`KeysBoundedForBoth`). cli.py:205-209 and README.md:81-83 say that the overlap does not
   duplicate.
4. **Running a finished backfill again** (`Rerun`). The key is the same and the
   seen-set remembers the first run, so the object is replaced by the new
   records alone; with nothing new nothing is written. RUNBOOK.md:462-464
   recommends the identical window. Within the TTL (24 h) this loses the events
   the first run delivered; after it, or with a fresh database, the recipe works:
   over any lake, all that Okta still serves is there once the cursor has passed
   (`FreshDatabaseIsSafe`, §5).
5. **A busy token endpoint** (`TokenFlaky`). sources/base.py:72-73 says that
   429s and transient 5xx are absorbed; auth.py:153 raises for them.
6. **Unknown events** (`UnknownEvent`). Actor, client address, user agent and
   session are read, so consumed, and then cut away because Base Event has no
   such attribute. They are in no column and not under `unmapped`, although
   okta_ocsf.yaml:7 and SPEC §3.3 promise the full event.

Smaller ones, read and not run: `backfill`'s docstring says that every backfill
opens fresh, but an interrupted one resumes its cursor (even for another
window, and it may be refused for its bound although it would resume);
deploy/kubernetes/statefulset.yaml:46 says that a SIGTERM flushes and commits,
but the loop drops an open batch that is not due; `get_mapping_version` is said
to be read on startup (store.py:79-83) and is not; the session id of classes
without a session, the type of an actor that is not a person, and a location's
postal code and geolocation are lost as in 6 (`LossIsExact`, §5); a record
without a uuid maps to the uid `""`, and so to a duplicate.

## 5. Proofs

Each theorem holds for every value of the constants that satisfies the module's
`ASSUME`; the proofs use the specifications without their fairness.

**RunLoopProofs**: every log, page size, byte ceiling, bucket and number of
deaths, tails and ranges alike. `LoopAssumption` gives the constants their types
and says that `None` is not a number.

| Theorem | Says |
|---|---|
| `LoopInvariantHolds`, `TypeCorrect` | the inductive invariant, and `TypeOK` |
| `NothingLost` | `NoLoss`: whatever the committed cursor has passed is in the lake |
| `AckedDurable` | `AckedStaysDurable`: what a commit recorded is never overwritten |
| `StampIsHonest` | `CaughtUpHonest` |
| `CursorNeverBack`, `SettledFrozen` | `CursorAdvances`, `SettledObjectsFrozen` |
| `CopiesAlwaysBounded` | `CopiesBounded`: a record lies under at most one key more than processes ended |
| `KeysAlwaysBounded` | `KeysBounded`: the same of an event whose seen row lasts, over all its repeats |
| `OnceUndisturbed` | their special case: until a process ends, no record lies under two keys, nor does such an event |
| `OncePerRange` | `EffectivelyOnce`, for a range whose pages are flushed one by one |
| `RangeTerminates` | `RangeShrinks`: every step of a process leaves less of a bounded range |
| `LoopNeverStuck` | there is always an answer to the next request, and a flush always has a put left or is done |
| `FreshDatabaseIsSafe` | the promises hold from an empty database over any lake |
| `LoopImplementsDelivery` | every behaviour of RunLoop is one of Delivery |
| `DeliveryPromises` | whatever implements Delivery loses nothing, keeps what it settled and never goes back |

`NoLoss` is not inductive: it says nothing of the batch in memory. The argument
needs four facts that hold together. *BatchAtCommit*: the open batch starts at
the committed cursor. *BatchCovers*: every record between there and the last
page read is pending or recorded as delivered, and nothing else is pending.
*FlushProgress*: at the commit all that is pending is under the batch key.
*SettledBehind* and *HeldBehind*: all behind the committed cursor is recorded,
and what is recorded lies under a key smaller than the one in use, so a flush,
which writes under the key in use alone, cannot take it away. The last one is
what makes the proof of `AckedDurable` go through, and is why the batch key must
move on at every commit. `PageComplete`, `CursorsServed` and `PollingInOrder` say
of the log what these need: a page misses nothing up to its link, and a new
record never appears behind a cursor. There is one lemma per action, with one
step per conjunct the action can disturb; `FreshCovers` is the fact about
filtering, that each record of a page has its uid in the seen-set or in what is
kept.

`CopiesAlwaysBounded` says what the duplicates that at-least-once delivery leaves
can cost, `ShorterReplay`'s included. `CopiesBounded` alone is not inductive: a
flush adds a copy of a record that may have its full number already. What is
inductive (`CopiesEarned`) pays for each copy beforehand: a record that a process
may still write has no more copies, the open key's aside, than there were ends. A
commit moves the key past everything its batch wrote, so within one process no
record is written under two keys; only an end takes the reading position back
behind what was written, and it raises the bound by one. Replays, lapsed seen
rows and repeated uids are all in the model.

`KeysAlwaysBounded` needs more, since the source may repeat an event after the key
has moved on. `KeysEarned` adds that a lasting uid which a commit has marked is
still in the seen-set, so `filter_unseen` drops it and it is never pending again;
a commit, which marks it, settles what it has cost. The exception is the batch
that is open (§4.1), where every repeat goes under the same key.

`RangeTerminates` is the part of the argument for liveness that the prover can
check: the records after the cursor, the steps left of the page and the puts left
of the flush are three natural numbers, and every step of `Work` decreases them
lexicographically or finishes the range, with one exception. The loop follows any
link (source.py:245; SPEC §2.2 lets the link decide and not the page's size), so
after an empty page with a link it asks the same again (*IdlePage*); that it does
so only finitely often is what `LeadOn` assumes of Okta. The proof rests on
*LinkAhead*: a link of a page with records leads on. `LoopNeverStuck` adds that
there is always a step to take, and that from every place where a range's page
can begin there is an answer that leads on or is the last. What is left to TLC of
`EventuallyDelivered` is that the steps are taken, and that ends are few.

`FreshDatabaseIsSafe` starts with a database that remembers nothing, over any
lake, whatever wrote it and wherever that cut its batches (`FreshSpec`, in Rerun).
It is what makes `tail --from-scratch`, and rerunning a window with a database of
its own, safe, where the same database is not (§4.4). `DeliveryPromises` shows
that the contract is worth implementing: `NoLoss` and the rest follow from it
with no word of batches or processes.

`OncePerRange` assumes a closed range, a ceiling that every page with news
reaches, no lapsing seen row, and pages that end where they did when a query is
repeated (`OnePageBatches`); processes may die at every put. Every cursor of such
a range is one of the places where a page may begin (*Cuts*, `AtCuts`), so two
processes that read from different cursors still read the same pages, short ones
included, and what a flush left behind under the open key lies on one page
(*OpenPage*), the one that the next flush is about (`SamePage`): the replay writes
the same records to the same objects, and the commit moves past all of them.
Without one of the assumptions it fails, in the ways `ShorterReplay` and
`RepeatAcrossPages` show.

**OverlapProofs**: for every window, and however often either process ends,
`NothingLostAcross` (`NoLossAcross`) and `BothPromisesKept` (both streams
implement Delivery over what they have written together). The invariant of
RunLoop falls into what holds of a stream even when another shares its seen-set
(`StreamInvariant`) and what does not (that *this* stream holds what is marked).
Each stream keeps the first under its own steps and under the other's, which to
it are interference with `seen` and `marked` alone (`Interference`); in the
joint invariant what is marked is held by one or the other, hence
`StampsAlwaysHonest` (`StampsHonestAcross`). Both speak of events: equal uids
are one event unless blank (`OverlapAssumption`), and of records with a blank
uid, which the seen-set takes for one, they say only that the lake holds some.
`NeitherDisturbed`: no step of either takes a cursor back or touches an object
that either has committed past. `CopiesBoundedForBoth` and `KeysBoundedForBoth`:
the other's ends and marks add no copy under a stream's own keys; for the
second, because what the other marks it also puts into the shared seen-set. On
top stands the operator: `MissingAlwaysTrue` (`MissingIsTrue`) and
`CleanAlwaysTrue` (`CleanIsTrue`), for every window, padding and way Okta draws
its edges. `AuditAssumption` says that the copies of a uid are one event, with
one timestamp and on one side of every edge, blank ids exempt. The window stays
behind a stream, since a stream never goes back, so by `NoLossAcross` the row is
in the lake when its table is read. Each table is unread, was skipped, so that
what it holds is reported missing, or has answered; and a blank row forbids
"clean".

**ProviderRolesProofs** and **PipelineProofs**: the invariant of the cache
(`RolesInvariantHolds`) bounds what a cached credential has left: with the clocks
in step an age below four fifths leaves a fifth of the lifetime, and a call takes
no more (`5 * Transit <= Lifetime`, minutes of botocore's timeouts and attempts
against an hour). So `NoPutExpires`. `NeverWithoutRole`: no flush of an accepted
configuration lacks a role, for every prefix and every pair of layers. A put
that fails is a death `MaxEnds` does not count, so a behaviour of Pipeline is not
literally one of RunLoop; `PipelineInvariant`, `PipelineLosesNothing` and
`PipelineImplementsDelivery` show that the loop's promises survive it, and
`PipelineOncePerRange` that exactly-once does: no run of failing puts costs it.
`PipelineNeverBack`, `PipelineFrozen` and `PipelineTerminates` carry over
`CursorAdvances`, `SettledObjectsFrozen` and `RangeShrinks`, and
`PipelineTypeCorrect` is the types. `CopiesBounded` does not carry over: it counts
the ends, and these deaths are not counted.

**StateStoreProofs**: any streams, batches and TTL. `StoreAssumption` asks for
`Ttl > 1` because a call crosses at most one instant: rows stamped at its start
must not have expired at its commit. The invariant is per stream: *Locking* (the
lock belongs to the thread inside a transaction), *Employed* (a thread works for
a call that somebody made), *Timely*, *Aimed* (the call is about the batch after
the cursor), *Written* (what the open transaction holds so far), *Honest* (what
the row and the process say of it). From it `StoreTypeCorrect`,
`AcknowledgedSurvives`, `StampsFollowCommits`, `LockNeverAbandoned`,
`FileImplementsAtomicStore` and `TtlAlwaysHonoured`: only the COMMIT statement
is a step of AtomicStore's commit, all else in a transaction stutters, and only
the clock forgets, each uid when its expiry is reached; so `purge_expired`,
which may run at any time or never, changes no answer. The expiry counts from
when commit was called (sqlite.py:122-124), so a commit that waits for the lock
may replace a later expiry that another stream has given the uid meanwhile. That
is in AtomicStore too; `TtlHonoured` bounds it by the length of one call
(*Timely*). `SeenAlwaysCommitted` (`SeenOnlyCommitted`) stands beside it: COMMIT
adds the uids of the very batch it moves the cursor over, and no statement moves
a cursor back, so an event is withheld only on the strength of a batch that is
committed. `HolderMovesOn`: the holder of the write lock always has a statement
to run that waits for nothing (*Unfinished*), and every step that leaves it the
lock leaves fewer of them; so whoever waits for the lock waits for a bounded
number of statements, even of a call whose task is gone. That the thread does
run them is fairness.

**OktaFetchProofs**: any token life, window, budget, reserve and number of
attempts. `TokenAlwaysLive` rests on *Margin*: a cached token outlives its
renewal, and a request has the time it can take before it. It assumes that the
last fifth of a token's life is at least two half-windows (of an hour, twelve
minutes against one). `ReserveAlwaysKept` rests on *Told*: who has been told that
the budget is at its reserve still knows it or sleeps until the reset.
`NonceAlwaysAccepted` rests on *Handshake*; `FetchTypeCorrect` is the types.
`FetchTerminates` (`FetchShrinks`): five natural numbers, the failures and the
requests of others that may still come, whether the next request is bound for a
429, the places before it and the wait at this one, decrease lexicographically
with every step. The delicate one is the third: a 429 counts as no failure, but
the sleep after it reaches the reset, so another must be paid for by a request of
others or a failure in between. Others are bounded here (`MaxOthers`); a budget
that others always exhaust first keeps a fetch waiting, as the code intends.

**ProcessProofs**: any retention, opening bound, number of events and of
processes. `NeverSilent` (`NoSilentGap`) rests on *Vouched* (what a stamp says
of the events behind the cursor) and *Covered* (what had aged out when a process
looked is owed a warning or accounted for); it exempts events that were waiting
when a commit set its stamp (SPEC §2.6) and says nothing of those that age out
while a process runs. `ExitAlwaysTrue` rests on *Truthful*, `ProcessTypeCorrect`
on the same invariant. `NeverPassedOver` (`NothingPassedOver`) is about the
events themselves: whatever a commit puts behind the cursor is delivered or
accounted for as gone, through stops, kills, retries and a lost database. It
needs *Settled* (that of all behind the committed cursor), *Carried* (of all
behind the cursor in memory, or else it is pending) and *InOrder* (Okta persists
in order, and a cursor follows an event it has served): pending dies with its
process, but so does the cursor that had passed it. Which of the events that are
gone were announced is `NeverSilent`'s question, with its exemptions.
`LastPageAfterStop` is the half of `StopReturns` that is safety: once a signal
is noted no other page begins. Events are those the opening query covers, so
none is persisted before `Since`.

**MapperProofs**, for every table that the loader accepts and every record:
`WellFormed` (the attributes the class requires and none it lacks),
`TypeUidTells`, and `LossIsExact`, which says field by field what of a record is
in no column and not under `unmapped`: the postal code and geolocation of
`geographicalContext`, which is consumed whole; the session of a class that has
none; the type of an actor that is not shown; and of a Base Event the actor, the
place and the client.

Only model-checked: liveness (`EventuallyDelivered`, `FetchEnds`, `StopReturns`).
It needs ENABLED, fairness and an induction along the measures above, which are
out of the prover's reach; the measures and their decrease are proved. Every
other property of a passing run is stated by a theorem.

## 6. What could follow

A composition of RunLoop with StateStore, now joined only by AtomicStore, with a
cancellation between the two.

## 7. Not modelled

Of the configuration the Okta section, key material, telemetry and health: single
values that are refused or accepted before a process starts. Telemetry, summaries
and the heartbeat file decide nothing. The in-memory store and the local object
store serve tests. `live_probe.py` is a checklist run once by hand; the
deployment files are declarative, and what they promise, one process per stream
that is started again, is `Start` and `Launch`. Parquet encoding, the digest of a
key, JWT signing, the parsing of Link headers and the scalar conversions of the
mapper are data: the model needs of them that they are functions of their input.
Of `reconcile.py` the table ARNs, Athena's polling and the wording of the report
are left out. A mapping table that changes between a flush and its replay would
move an event to another object; in RunLoop the bucket of a uid is a constant,
and the copy left behind would be of the kind `ShorterReplay` shows. SQLite, S3,
STS and Okta are external: SQLite commits or forgets, S3 replaces an object, STS
issues credentials, and Okta serves a polling query in order and drops what is
past its retention. Okta's own skipping of events, which SPEC §2.1 quotes, is
outside what a client can repair.
