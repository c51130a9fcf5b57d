--------------------------- MODULE ProcessProofs ---------------------------
(***************************************************************************)
(* What holds of the processes on a stream for every retention, opening    *)
(* bound and number of events: what had aged out at a start is announced,  *)
(* the exit code tells the truth, and no commit passes over what an earlier*)
(* process had only pending.                                               *)
(***************************************************************************)
EXTENDS Process, TLAPS

-----------------------------------------------------------------------------
(* The inductive invariant, a conjunct per concern.                        *)

Running == pc \in {"page", "idle"}

Timeline ==
  /\ stamp # None => stamp <= now
  /\ checkedAt <= now
  /\ \A e \in Persisted : Since <= at[e] /\ at[e] <= now

\* A range that is finished has no cursor and is never run again.
Ranged ==
  finished => stored = None /\ mode = "backfill" /\ pc \in {"down", "closing"}

\* What a tail's stamp vouches for: an event behind the cursor that is older
\* than the stamp was waiting when a commit set it, or was found to be gone.
Vouched ==
  mode = "tail" /\ stored # None =>
    /\ stamp # None
    /\ \A e \in Persisted : e > stored /\ at[e] < stamp => e \in backlog \union accounted

\* With nothing pending, the cursor in memory is the one in the database.
Resumed ==
  Running => IF pending = {} THEN read = Opening ELSE read \in Events

\* An event that was gone when the process looked is warned of, or vouched for.
Covered ==
  Running /\ ~warned =>
    \A e \in Persisted : e > read /\ Aged(e, checkedAt) => e \in owed \union accounted

Starting == pc = "opened" => ~fetched /\ signum = None /\ pending = {}

Asked == Running /\ signum # None => signum \in signalled

\* Why a process may end with n.
Reason(n) ==
  /\ n = 0 => finished
  /\ n = 2 => ~fetched
  /\ n = 143 => SIGTERM \in signalled
  /\ n = 130 => signalled # {}

Truthful ==
  /\ pc = "closing" => Reason(outcome)
  /\ pc = "down" /\ launches > 0 => Reason(code)

Stored  == Timeline /\ Ranged /\ Vouched
Reading == Resumed /\ Covered /\ NoSilentGap
Leaving == Starting /\ Asked /\ Truthful

\* TypeOK, a part at a time.
WorldTypes ==
  /\ mode \in Modes /\ now \in Times
  /\ at \in [Events -> Times \union {None}]
DbTypes ==
  /\ stored \in Events \union {None} /\ finished \in BOOLEAN
  /\ stamp \in Times \union {None} /\ delivered \subseteq Events
PlaceTypes ==
  /\ pc \in {"down", "opened", "page", "idle", "closing"}
  /\ scratch \in BOOLEAN /\ warned \in BOOLEAN
SignalTypes ==
  /\ signum \in Signals \union {None} /\ signalled \subseteq Signals
  /\ outcome \in {0, 1, 2, 130, 143}
  /\ code \in {0, 1, 2, 130, 137, 143, None}
  /\ launches \in Nat
PageTypes ==
  /\ read \in 0 .. N /\ pending \subseteq Events /\ fetched \in BOOLEAN
  /\ checkedAt \in Times /\ owed \subseteq Events /\ backlog \subseteq Events
  /\ accounted \subseteq Events /\ silent \subseteq accounted
Types == WorldTypes /\ DbTypes /\ PlaceTypes /\ SignalTypes /\ PageTypes

ProcessInvariant == Types /\ Stored /\ Reading /\ Leaving

-----------------------------------------------------------------------------
LEMMA Constants ==
  /\ N \in Nat /\ Retention \in Nat /\ Since \in Nat /\ MaxNow \in Nat /\ MaxEnds \in Nat
  /\ None \notin Nat
BY ProcessAssumption

LEMMA InitInv ==
  ASSUME Init
  PROVE  ProcessInvariant
<1> USE Constants DEF Init, Running, Persisted
<1>1. Types
  <2>1. WorldTypes
    BY DEF WorldTypes, Modes, Events, Times
  <2>2. DbTypes /\ PlaceTypes
    BY DEF DbTypes, PlaceTypes
  <2>3. SignalTypes /\ PageTypes
    BY DEF SignalTypes, PageTypes, Times
  <2> QED  BY <2>1, <2>2, <2>3 DEF Types
<1>2. Stored
  BY DEF Stored, Timeline, Ranged, Vouched
<1>3. Reading
  BY DEF Reading, Resumed, Covered, NoSilentGap
<1>4. Leaving
  BY DEF Leaving, Starting, Asked, Truthful
<1> QED  BY <1>1, <1>2, <1>3, <1>4 DEF ProcessInvariant

LEMMA LaunchInv ==
  ASSUME ProcessInvariant, Launch
  PROVE  ProcessInvariant'
<1> USE Constants DEF ProcessInvariant, Launch, world, db
<1>1. Types'
  <2>1. WorldTypes'
    BY DEF Types, WorldTypes, Modes, Events, Times
  <2>2. DbTypes'
    BY DEF Types, WorldTypes, DbTypes, PlaceTypes, PageTypes, Events, Times, Persisted
  <2>3. PlaceTypes'
    BY DEF Types, PlaceTypes
  <2>4. SignalTypes'
    BY DEF Types, SignalTypes, Signals, SIGINT, SIGTERM
  <2>5. PageTypes'
    BY DEF Types, WorldTypes, DbTypes, PageTypes, Events, Times, Persisted
  <2> QED  BY <2>1, <2>2, <2>3, <2>4, <2>5 DEF Types
<1>2. Stored'
  BY DEF Types, WorldTypes, DbTypes, PageTypes, Events, Times, Stored, Timeline, Ranged,
    Vouched, Persisted
<1>3. Reading'
  BY DEF Types, WorldTypes, DbTypes, PageTypes, Events, Times, Reading, Resumed, Covered,
    NoSilentGap, Running, Persisted, Aged, Opening
<1>4. Leaving'
  BY DEF Types, SignalTypes, DbTypes, Signals, SIGINT, SIGTERM, Stored, Ranged, Leaving,
    Starting, Asked, Truthful, Reason,
    Running
<1> QED  BY <1>1, <1>2, <1>3, <1>4

LEMMA RefuseInv ==
  ASSUME ProcessInvariant, Refuse
  PROVE  ProcessInvariant'
<1> USE Constants DEF ProcessInvariant, Refuse, Leave, world, db, history
<1>1. Types'
  <2>1. WorldTypes'
    BY DEF Types, WorldTypes, Modes, Events, Times
  <2>2. DbTypes'
    BY DEF Types, WorldTypes, DbTypes, PlaceTypes, PageTypes, Events, Times, Persisted
  <2>3. PlaceTypes'
    BY DEF Types, PlaceTypes
  <2>4. SignalTypes'
    BY DEF Types, SignalTypes, Signals, SIGINT, SIGTERM
  <2>5. PageTypes'
    BY DEF Types, WorldTypes, DbTypes, PageTypes, Events, Times, Persisted
  <2> QED  BY <2>1, <2>2, <2>3, <2>4, <2>5 DEF Types
<1>2. Stored'
  BY DEF Types, WorldTypes, DbTypes, PageTypes, Events, Times, Stored, Timeline, Ranged,
    Vouched, Persisted
<1>3. Reading'
  BY DEF Types, WorldTypes, DbTypes, PageTypes, Events, Times, Reading, Resumed, Covered,
    NoSilentGap, Running, Persisted, Aged, Opening
<1>4. Leaving'
  BY DEF Types, SignalTypes, DbTypes, Signals, SIGINT, SIGTERM, Stored, Ranged, Leaving,
    Starting, Asked, Truthful, Reason,
    Running
<1> QED  BY <1>1, <1>2, <1>3, <1>4

LEMMA RunInv ==
  ASSUME ProcessInvariant, Run
  PROVE  ProcessInvariant'
<1> USE Constants DEF ProcessInvariant, Run, world, db
<1>1. Types'
  <2>1. WorldTypes' /\ DbTypes'
    BY DEF Types, WorldTypes, DbTypes
  <2>2. PlaceTypes'
    <3>1. StaleResume \in BOOLEAN
      BY DEF StaleResume
    <3>2. warned' \in BOOLEAN
      BY <3>1
    <3> QED  BY <3>2 DEF Types, PlaceTypes
  <2>3. SignalTypes'
    BY DEF Types, SignalTypes
  <2>4. PageTypes'
    BY DEF Types, WorldTypes, DbTypes, PageTypes, Events, Opening
  <2> QED  BY <2>1, <2>2, <2>3, <2>4 DEF Types
<1>2. Stored'
  BY DEF Types, WorldTypes, DbTypes, Times, Stored, Timeline, Ranged, Vouched, Persisted,
    Opening, Refused
<1>3. Reading'
  <2>1. Resumed' /\ NoSilentGap'
    BY DEF Reading, Resumed, NoSilentGap, Opening, Leaving, Starting
  <2>2. ASSUME ~warned', NEW e \in Persisted, e > read', Aged(e, now)
        PROVE  e \in owed' \union accounted'
    <3>1. at[e] \in Nat /\ now \in Nat /\ Since <= at[e]
      BY DEF Types, WorldTypes, Times, Stored, Timeline, Persisted
    <3>2. BoundExpired
      BY <2>2, <3>1 DEF BoundExpired, Aged
    <3>3. mode = "tail" /\ stored # None
      BY <3>2 DEF Refused, Types, WorldTypes, Modes
    <3>4. stamp \in Nat /\ ~(now > stamp + Retention)
      <4>1. ~StaleResume
        BY <2>2
      <4> QED  BY <4>1, <3>3 DEF StaleResume, Types, DbTypes, Times, Stored, Vouched
    <3>5. at[e] < stamp
      BY <2>2, <3>1, <3>4 DEF Aged
    <3>6. e \in backlog \union accounted
      BY <2>2, <3>3, <3>5 DEF Stored, Vouched, Opening
    <3> QED  BY <3>6
  <2>3. Covered'
    BY <2>2 DEF Covered, Persisted, Aged
  <2> QED  BY <2>1, <2>3 DEF Reading
<1>4. Leaving'
  BY DEF Leaving, Starting, Asked, Truthful, Running
<1> QED  BY <1>1, <1>2, <1>3, <1>4

\* What an answer leaves out is accounted for, and was not silent.
LEMMA SkipFacts ==
  ASSUME ProcessInvariant, pc = "page", NEW S, S \subseteq Persisted,
         \A f \in S : f > read, Skip(S)
  PROVE  /\ accounted \subseteq accounted' /\ accounted' \subseteq Events
         /\ \A f \in S : Aged(f, now) => f \in accounted'
         /\ silent' = {}
<1> DEFINE gone == {e \in S : Aged(e, now)} \ accounted
<1>1. accounted' = accounted \union gone
  BY DEF Skip
<1>2. accounted \subseteq Events /\ gone \subseteq Events
  BY DEF ProcessInvariant, Types, PageTypes, Persisted
<1>3. ASSUME NEW e \in gone, Aged(e, checkedAt), ~warned
      PROVE  e \in owed
  BY <1>3 DEF ProcessInvariant, Reading, Covered, Running
<1>4. silent = {}
  BY DEF ProcessInvariant, Reading, NoSilentGap
<1>5. silent' = {}
  BY <1>3, <1>4 DEF Skip
<1> QED  BY <1>1, <1>2, <1>5

LEMMA LandInv ==
  ASSUME ProcessInvariant, Land
  PROVE  ProcessInvariant'
<1> USE Constants DEF ProcessInvariant, Proceed, Leave, world
<1> DEFINE passed(e) == {f \in Persisted : read < f /\ f <= e}
           fresh(e)  == {f \in passed(e) : ~Aged(f, now)}
<1>l. pc = "page" /\ UNCHANGED <<world, scratch, signum, warned, code, checkedAt, owed,
                                fetched, signalled, launches>>
  BY DEF Land
<1>e. PICK e \in Persisted :
        /\ e \in fresh(e) /\ Skip(passed(e)) /\ read' = e
        /\ \/ pending' = pending \union fresh(e) /\ UNCHANGED <<db, backlog>>
           \/ /\ pending' = {} /\ stored' = e /\ stamp' = now /\ UNCHANGED finished
              /\ delivered' = delivered \union pending \union fresh(e)
              /\ backlog' = {f \in Persisted : f > e}
  BY DEF Land
<1>n. (pc' = "page" /\ signum = None /\ UNCHANGED outcome)
      \/ (pc' = "closing" /\ signum # None /\ outcome' = 128 + signum)
  BY DEF Land
<1>p. e \in Events /\ e \in 1 .. N /\ e > read /\ fresh(e) \subseteq Events
  BY <1>e DEF Persisted, Events
<1>s. /\ accounted \subseteq accounted' /\ accounted' \subseteq Events
      /\ silent' = {}
  <2>1. \A f \in passed(e) : f > read
    BY DEF Types, PageTypes, Persisted, Events
  <2> QED  BY <1>l, <1>e, <2>1, SkipFacts
<1> HIDE DEF passed, fresh
<1>1. Types'
  <2>1. WorldTypes' /\ PlaceTypes'
    BY <1>l, <1>n DEF Types, WorldTypes, PlaceTypes
  <2>2. DbTypes'
    <3>1. pending \subseteq Events
      BY DEF Types, PageTypes
    <3> QED  BY <1>p, <1>e, <3>1 DEF Types, WorldTypes, DbTypes, db
  <2>3. SignalTypes'
    BY <1>l, <1>n DEF Types, SignalTypes, Signals, SIGINT, SIGTERM
  <2>4. PageTypes'
    <3>1. backlog' \subseteq Events
      BY <1>e DEF Types, PageTypes, Persisted
    <3>2. read' \in 0 .. N
      BY <1>e, <1>p
    <3>3. pending \subseteq Events
      BY DEF Types, PageTypes
    <3>4. pending' \subseteq Events
      BY <1>e, <1>p, <3>3
    <3> QED  BY <1>l, <1>s, <3>1, <3>2, <3>4 DEF Types, PageTypes
  <2> QED  BY <2>1, <2>2, <2>3, <2>4 DEF Types
<1>2. Stored'
  <2>1. Persisted' = Persisted /\ \A f \in Persisted : at[f] \in Nat /\ at'[f] = at[f]
    BY <1>l DEF Persisted, Types, WorldTypes, Times
  <2>2. Timeline'
    BY <1>l, <1>e, <2>1 DEF db, Stored, Timeline, Types, WorldTypes, Times
  <2>3. Ranged'
    BY <1>l, <1>e DEF db, Stored, Ranged
  <2>4. Vouched'
    BY <1>l, <1>e, <1>s, <2>1 DEF db, Stored, Vouched, Types, WorldTypes, Times
  <2> QED  BY <2>2, <2>3, <2>4 DEF Stored
<1>3. Reading'
  <2>1. Resumed'
    BY <1>e, <1>p DEF Resumed, Opening, Events
  <2>2. Covered'
    BY <1>l, <1>e, <1>p, <1>s DEF Types, PageTypes, Reading, Covered, Running, Persisted,
      Events,
      Aged
  <2> QED  BY <1>s, <2>1, <2>2 DEF Reading, NoSilentGap
<1>4. Leaving'
  BY <1>l, <1>n, <1>e DEF Types, SignalTypes, Signals, SIGINT, SIGTERM, Leaving, Starting,
    Asked,
    Truthful, Reason, Running
<1> QED  BY <1>1, <1>2, <1>3, <1>4

LEMMA CaughtUpInv ==
  ASSUME ProcessInvariant, CaughtUp
  PROVE  ProcessInvariant'
<1> USE Constants DEF ProcessInvariant
<1> DEFINE waiting == {f \in Persisted : f > read}
<1>l. /\ pc = "page" /\ mode = "tail" /\ pc' = "idle" /\ Skip(waiting) /\ NothingServed
      /\ UNCHANGED <<world, finished, scratch, signum, read, warned, outcome, code,
                     checkedAt, owed, fetched, signalled, launches>>
  BY DEF CaughtUp
<1>o. \/ /\ pending # {} /\ stored' = read /\ stamp' = now /\ pending' = {}
         /\ delivered' = delivered \union pending /\ backlog' = {}
      \/ /\ pending = {} /\ stored # None
         /\ stamp' = now /\ backlog' = {} /\ UNCHANGED <<stored, delivered, pending>>
      \/ UNCHANGED <<stamp, backlog, stored, delivered, pending>>
  BY DEF CaughtUp, MarksCaughtUp
<1>s. /\ accounted \subseteq accounted' /\ accounted' \subseteq Events
      /\ \A f \in Persisted : f > read => f \in accounted'
      /\ silent' = {}
  BY <1>l, SkipFacts DEF NothingServed
<1>r. read \in Nat /\ (pending # {} => read \in Events) /\ (pending = {} => read = Opening)
  BY <1>l DEF Types, PageTypes, Reading, Resumed, Running
<1>w. mode' = mode /\ now' = now /\ at' = at
  BY <1>l DEF world
<1>1. Types'
  <2>1. WorldTypes' /\ PlaceTypes'
    BY <1>l, <1>w DEF Types, WorldTypes, PlaceTypes
  <2>2. DbTypes'
    <3>1. pending \subseteq Events /\ now \in Times
      BY DEF Types, PageTypes, WorldTypes
    <3> QED  BY <1>l, <1>o, <1>r, <3>1 DEF Types, DbTypes
  <2>3. SignalTypes'
    BY <1>l DEF Types, SignalTypes
  <2>4. PageTypes'
    BY <1>l, <1>o, <1>s DEF Types, PageTypes
  <2> QED  BY <2>1, <2>2, <2>3, <2>4 DEF Types
<1>2. Stored'
  <2>1. Persisted' = Persisted
    BY <1>w DEF Persisted
  <2>2. Timeline'
    BY <1>l, <1>o, <1>w, <2>1 DEF Stored, Timeline, Types, WorldTypes, Times
  <2>3. Ranged'
    BY <1>l, <1>w DEF Stored, Ranged
  <2>4. Vouched'
    <3>1. CASE UNCHANGED <<stamp, backlog, stored>>
      BY <1>s, <1>w, <2>1, <3>1 DEF Stored, Vouched
    <3>2. CASE stamp' = now /\ stored' = read
      BY <1>s, <1>w, <2>1, <3>2 DEF Vouched, Types, WorldTypes, Times
    <3> QED  BY <1>o, <1>r, <3>1, <3>2 DEF Opening
  <2> QED  BY <2>2, <2>3, <2>4 DEF Stored
<1>3. Reading'
  <2>1. Resumed'
    BY <1>l, <1>o, <1>r DEF Resumed, Opening
  <2>2. Covered'
    BY <1>l, <1>w, <1>s DEF Covered, Persisted
  <2> QED  BY <1>s, <2>1, <2>2 DEF Reading, NoSilentGap
<1>4. Leaving'
  BY <1>l DEF Leaving, Starting, Asked, Truthful, Reason, Running
<1> QED  BY <1>1, <1>2, <1>3, <1>4

LEMMA ExhaustInv ==
  ASSUME ProcessInvariant, Exhaust
  PROVE  ProcessInvariant'
<1> USE Constants DEF ProcessInvariant, Exhaust, Leave, world
<1>s. /\ accounted \subseteq accounted' /\ accounted' \subseteq Events
      /\ silent' = {}
  BY SkipFacts
<1>1. Types'
  <2>1. WorldTypes' /\ PlaceTypes'
    BY DEF Types, WorldTypes, PlaceTypes
  <2>2. DbTypes'
    BY DEF Types, WorldTypes, DbTypes, PageTypes, Persisted
  <2>3. SignalTypes'
    BY DEF Types, SignalTypes
  <2>4. PageTypes'
    BY <1>s DEF Types, PageTypes
  <2> QED  BY <2>1, <2>2, <2>3, <2>4 DEF Types
<1>2. Stored'
  BY DEF Types, WorldTypes, DbTypes, Times, Stored, Timeline, Ranged, Vouched, Persisted
<1>3. Reading'
  BY <1>s DEF Reading, Resumed, Covered, NoSilentGap, Running
<1>4. Leaving'
  BY DEF Leaving, Starting, Asked, Truthful, Reason, Running
<1> QED  BY <1>1, <1>2, <1>3, <1>4

LEMMA PollInv ==
  ASSUME ProcessInvariant, Poll
  PROVE  ProcessInvariant'
<1> USE Constants DEF ProcessInvariant, Poll, world, db, process, history
<1>1. Types'
  <2>1. WorldTypes'
    BY DEF Types, WorldTypes, Modes, Events, Times
  <2>2. DbTypes'
    BY DEF Types, WorldTypes, DbTypes, PlaceTypes, PageTypes, Events, Times, Persisted
  <2>3. PlaceTypes'
    BY DEF Types, PlaceTypes
  <2>4. SignalTypes'
    BY DEF Types, SignalTypes, Signals, SIGINT, SIGTERM
  <2>5. PageTypes'
    BY DEF Types, WorldTypes, DbTypes, PageTypes, Events, Times, Persisted
  <2> QED  BY <2>1, <2>2, <2>3, <2>4, <2>5 DEF Types
<1>2. Stored'
  BY DEF Types, WorldTypes, DbTypes, PageTypes, Events, Times, Stored, Timeline, Ranged,
    Vouched, Persisted
<1>3. Reading'
  BY DEF Types, WorldTypes, DbTypes, PageTypes, Events, Times, Reading, Resumed, Covered,
    NoSilentGap, Running, Persisted, Aged, Opening
<1>4. Leaving'
  BY DEF Types, SignalTypes, DbTypes, Signals, SIGINT, SIGTERM, Stored, Ranged, Leaving,
    Starting, Asked, Truthful, Reason,
    Running
<1> QED  BY <1>1, <1>2, <1>3, <1>4

LEMMA WakeInv ==
  ASSUME ProcessInvariant, Wake
  PROVE  ProcessInvariant'
<1> USE Constants DEF ProcessInvariant, Wake, Proceed, Leave, world, db, history
<1>1. Types'
  <2>1. WorldTypes'
    BY DEF Types, WorldTypes, Modes, Events, Times
  <2>2. DbTypes'
    BY DEF Types, WorldTypes, DbTypes, PlaceTypes, PageTypes, Events, Times, Persisted
  <2>3. PlaceTypes'
    BY DEF Types, PlaceTypes
  <2>4. SignalTypes'
    BY DEF Types, SignalTypes, Signals, SIGINT, SIGTERM
  <2>5. PageTypes'
    BY DEF Types, WorldTypes, DbTypes, PageTypes, Events, Times, Persisted
  <2> QED  BY <2>1, <2>2, <2>3, <2>4, <2>5 DEF Types
<1>2. Stored'
  BY DEF Types, WorldTypes, DbTypes, PageTypes, Events, Times, Stored, Timeline, Ranged,
    Vouched, Persisted
<1>3. Reading'
  BY DEF Types, WorldTypes, DbTypes, PageTypes, Events, Times, Reading, Resumed, Covered,
    NoSilentGap, Running, Persisted, Aged, Opening
<1>4. Leaving'
  BY DEF Types, SignalTypes, DbTypes, Signals, SIGINT, SIGTERM, Stored, Ranged, Leaving,
    Starting, Asked, Truthful, Reason,
    Running
<1> QED  BY <1>1, <1>2, <1>3, <1>4

LEMMA RaiseInv ==
  ASSUME ProcessInvariant, Raise
  PROVE  ProcessInvariant'
<1> USE Constants DEF ProcessInvariant, Raise, Leave, world, db, history
<1>1. Types'
  <2>1. WorldTypes'
    BY DEF Types, WorldTypes, Modes, Events, Times
  <2>2. DbTypes'
    BY DEF Types, WorldTypes, DbTypes, PlaceTypes, PageTypes, Events, Times, Persisted
  <2>3. PlaceTypes'
    BY DEF Types, PlaceTypes
  <2>4. SignalTypes'
    BY DEF Types, SignalTypes, Signals, SIGINT, SIGTERM
  <2>5. PageTypes'
    BY DEF Types, WorldTypes, DbTypes, PageTypes, Events, Times, Persisted
  <2> QED  BY <2>1, <2>2, <2>3, <2>4, <2>5 DEF Types
<1>2. Stored'
  BY DEF Types, WorldTypes, DbTypes, PageTypes, Events, Times, Stored, Timeline, Ranged,
    Vouched, Persisted
<1>3. Reading'
  BY DEF Types, WorldTypes, DbTypes, PageTypes, Events, Times, Reading, Resumed, Covered,
    NoSilentGap, Running, Persisted, Aged, Opening
<1>4. Leaving'
  BY DEF Types, SignalTypes, DbTypes, Signals, SIGINT, SIGTERM, Stored, Ranged, Leaving,
    Starting, Asked, Truthful, Reason,
    Running
<1> QED  BY <1>1, <1>2, <1>3, <1>4

LEMMA SignalInv ==
  ASSUME ProcessInvariant, Signal
  PROVE  ProcessInvariant'
<1> USE Constants DEF ProcessInvariant, Signal, Arrive, Default, Leave, SIGINT, SIGTERM,
world, db
<1>1. Types'
  <2>1. WorldTypes'
    BY DEF Types, WorldTypes, Modes, Events, Times
  <2>2. DbTypes'
    BY DEF Types, DbTypes
  <2>3. PlaceTypes'
    BY DEF Types, PlaceTypes
  <2>4. SignalTypes'
    BY DEF Types, SignalTypes, Signals, SIGINT, SIGTERM
  <2>5. PageTypes'
    BY DEF Types, PageTypes
  <2> QED  BY <2>1, <2>2, <2>3, <2>4, <2>5 DEF Types
<1>2. Stored'
  BY DEF Types, WorldTypes, DbTypes, PageTypes, Events, Times, Stored, Timeline, Ranged,
    Vouched, Persisted
<1>3. Reading'
  <2>1. /\ Running' => Running
        /\ UNCHANGED <<at, stored, read, pending, warned, checkedAt, owed, accounted, silent>>
    BY DEF Running
  <2> QED  BY <2>1 DEF Reading, Resumed, Covered, NoSilentGap, Persisted, Aged, Opening
<1>4. Leaving'
  BY DEF Types, SignalTypes, DbTypes, Signals, SIGINT, SIGTERM, Stored, Ranged, Leaving,
    Starting, Asked, Truthful, Reason,
    Running
<1> QED  BY <1>1, <1>2, <1>3, <1>4

LEMMA KillInv ==
  ASSUME ProcessInvariant, Kill
  PROVE  ProcessInvariant'
<1> USE Constants DEF ProcessInvariant, Kill, SIGKILL, world, db, process, history
<1>1. Types'
  <2>1. WorldTypes'
    BY DEF Types, WorldTypes, Modes, Events, Times
  <2>2. DbTypes'
    BY DEF Types, WorldTypes, DbTypes, PlaceTypes, PageTypes, Events, Times, Persisted
  <2>3. PlaceTypes'
    BY DEF Types, PlaceTypes
  <2>4. SignalTypes'
    BY DEF Types, SignalTypes, Signals, SIGINT, SIGTERM
  <2>5. PageTypes'
    BY DEF Types, WorldTypes, DbTypes, PageTypes, Events, Times, Persisted
  <2> QED  BY <2>1, <2>2, <2>3, <2>4, <2>5 DEF Types
<1>2. Stored'
  BY DEF Types, WorldTypes, DbTypes, PageTypes, Events, Times, Stored, Timeline, Ranged,
    Vouched, Persisted
<1>3. Reading'
  BY DEF Types, WorldTypes, DbTypes, PageTypes, Events, Times, Reading, Resumed, Covered,
    NoSilentGap, Running, Persisted, Aged, Opening
<1>4. Leaving'
  BY DEF Types, SignalTypes, DbTypes, Signals, SIGINT, SIGTERM, Stored, Ranged, Leaving,
    Starting, Asked, Truthful, Reason,
    Running
<1> QED  BY <1>1, <1>2, <1>3, <1>4

LEMMA CloseInv ==
  ASSUME ProcessInvariant, Close
  PROVE  ProcessInvariant'
<1> USE Constants DEF ProcessInvariant, Close, world, db, process, history
<1>1. Types'
  <2>1. WorldTypes'
    BY DEF Types, WorldTypes, Modes, Events, Times
  <2>2. DbTypes'
    BY DEF Types, WorldTypes, DbTypes, PlaceTypes, PageTypes, Events, Times, Persisted
  <2>3. PlaceTypes'
    BY DEF Types, PlaceTypes
  <2>4. SignalTypes'
    BY DEF Types, SignalTypes, Signals, SIGINT, SIGTERM
  <2>5. PageTypes'
    BY DEF Types, WorldTypes, DbTypes, PageTypes, Events, Times, Persisted
  <2> QED  BY <2>1, <2>2, <2>3, <2>4, <2>5 DEF Types
<1>2. Stored'
  BY DEF Types, WorldTypes, DbTypes, PageTypes, Events, Times, Stored, Timeline, Ranged,
    Vouched, Persisted
<1>3. Reading'
  BY DEF Types, WorldTypes, DbTypes, PageTypes, Events, Times, Reading, Resumed, Covered,
    NoSilentGap, Running, Persisted, Aged, Opening
<1>4. Leaving'
  BY DEF Types, SignalTypes, DbTypes, Signals, SIGINT, SIGTERM, Stored, Ranged, Leaving,
    Starting, Asked, Truthful, Reason,
    Running
<1> QED  BY <1>1, <1>2, <1>3, <1>4

LEMMA TickInv ==
  ASSUME ProcessInvariant, Tick
  PROVE  ProcessInvariant'
<1> USE Constants DEF ProcessInvariant, Tick, db, process, history
<1>1. Types'
  <2>1. WorldTypes'
    BY DEF Types, WorldTypes, Modes, Events, Times
  <2>2. DbTypes'
    BY DEF Types, WorldTypes, DbTypes, PlaceTypes, PageTypes, Events, Times, Persisted
  <2>3. PlaceTypes'
    BY DEF Types, PlaceTypes
  <2>4. SignalTypes'
    BY DEF Types, SignalTypes, Signals, SIGINT, SIGTERM
  <2>5. PageTypes'
    BY DEF Types, WorldTypes, DbTypes, PageTypes, Events, Times, Persisted
  <2> QED  BY <2>1, <2>2, <2>3, <2>4, <2>5 DEF Types
<1>2. Stored'
  BY DEF Types, WorldTypes, DbTypes, PageTypes, Events, Times, Stored, Timeline, Ranged,
    Vouched, Persisted
<1>3. Reading'
  BY DEF Types, WorldTypes, DbTypes, PageTypes, Events, Times, Reading, Resumed, Covered,
    NoSilentGap, Running, Persisted, Aged, Opening
<1>4. Leaving'
  BY DEF Types, SignalTypes, DbTypes, Signals, SIGINT, SIGTERM, Stored, Ranged, Leaving,
    Starting, Asked, Truthful, Reason,
    Running
<1> QED  BY <1>1, <1>2, <1>3, <1>4

LEMMA PersistInv ==
  ASSUME ProcessInvariant, Persist
  PROVE  ProcessInvariant'
<1> USE Constants DEF ProcessInvariant, Persist, db, process, history
<1>1. Types'
  <2>1. WorldTypes'
    BY DEF Types, WorldTypes, Modes, Events, Times
  <2>2. DbTypes'
    BY DEF Types, WorldTypes, DbTypes, PlaceTypes, PageTypes, Events, Times, Persisted
  <2>3. PlaceTypes'
    BY DEF Types, PlaceTypes
  <2>4. SignalTypes'
    BY DEF Types, SignalTypes, Signals, SIGINT, SIGTERM
  <2>5. PageTypes'
    BY DEF Types, WorldTypes, DbTypes, PageTypes, Events, Times, Persisted
  <2> QED  BY <2>1, <2>2, <2>3, <2>4, <2>5 DEF Types
<1>2. Stored'
  BY DEF Types, WorldTypes, DbTypes, PageTypes, Events, Times, Stored, Timeline, Ranged,
    Vouched, Persisted
<1>3. Reading'
  <2>1. PICK e \in Events \ Persisted : at' = [at EXCEPT ![e] = now]
    OBVIOUS
  <2>2. ASSUME NEW f \in Persisted', Aged(f, checkedAt)'
        PROVE  f \in Persisted /\ Aged(f, checkedAt)
    <3>1. f # e
      BY <2>1, <2>2 DEF Aged, Types, WorldTypes, PageTypes, Times, Stored, Timeline
    <3> QED  BY <2>1, <2>2, <3>1 DEF Persisted, Aged, Types, WorldTypes
  <2>3. Covered'
    BY <2>2 DEF Reading, Covered, Running
  <2> QED  BY <2>3 DEF Reading, Resumed, NoSilentGap, Running, Opening
<1>4. Leaving'
  BY DEF Types, SignalTypes, DbTypes, Signals, SIGINT, SIGTERM, Stored, Ranged, Leaving,
    Starting, Asked, Truthful, Reason,
    Running
<1> QED  BY <1>1, <1>2, <1>3, <1>4

LEMMA LoseDatabaseInv ==
  ASSUME ProcessInvariant, LoseDatabase
  PROVE  ProcessInvariant'
<1> USE Constants DEF ProcessInvariant, LoseDatabase, world, process
<1>1. Types'
  <2>1. WorldTypes'
    BY DEF Types, WorldTypes, Modes, Events, Times
  <2>2. DbTypes'
    BY DEF Types, WorldTypes, DbTypes, PlaceTypes, PageTypes, Events, Times, Persisted
  <2>3. PlaceTypes'
    BY DEF Types, PlaceTypes
  <2>4. SignalTypes'
    BY DEF Types, SignalTypes, Signals, SIGINT, SIGTERM
  <2>5. PageTypes'
    BY DEF Types, WorldTypes, DbTypes, PageTypes, Events, Times, Persisted
  <2> QED  BY <2>1, <2>2, <2>3, <2>4, <2>5 DEF Types
<1>2. Stored'
  BY DEF Types, WorldTypes, DbTypes, PageTypes, Events, Times, Stored, Timeline, Ranged,
    Vouched, Persisted
<1>3. Reading'
  BY DEF Types, WorldTypes, DbTypes, PageTypes, Events, Times, Reading, Resumed, Covered,
    NoSilentGap, Running, Persisted, Aged, Opening
<1>4. Leaving'
  BY DEF Types, SignalTypes, DbTypes, Signals, SIGINT, SIGTERM, Stored, Ranged, Leaving,
    Starting, Asked, Truthful, Reason,
    Running
<1> QED  BY <1>1, <1>2, <1>3, <1>4

LEMMA NextInv ==
  ASSUME ProcessInvariant, [Next]_vars
  PROVE  ProcessInvariant'
<1>1. CASE Launch \/ Poll \/ Raise \/ Signal \/ Kill
  BY <1>1, LaunchInv, PollInv, RaiseInv, SignalInv, KillInv
<1>2. CASE Turn
  BY <1>2, RefuseInv, RunInv, LandInv, CaughtUpInv, ExhaustInv, WakeInv, CloseInv DEF Turn
<1>3. CASE Tick \/ Persist \/ LoseDatabase
  BY <1>3, TickInv, PersistInv, LoseDatabaseInv
<1>4. CASE UNCHANGED vars
  BY <1>4 DEF vars, world, db, process, history, ProcessInvariant, Types, WorldTypes,
    DbTypes, PlaceTypes, SignalTypes,
    PageTypes, Stored, Timeline, Ranged, Vouched, Persisted, Reading, Resumed, Covered,
    NoSilentGap, Running, Aged, Opening,
    Leaving, Starting, Asked, Truthful, Reason
<1> QED  BY <1>1, <1>2, <1>3, <1>4 DEF Next

-----------------------------------------------------------------------------
(* The invariant holds through every signal, death and loss of database.   *)
THEOREM ProcessInvariantHolds == Spec => []ProcessInvariant
<1> QED  BY InitInv, NextInv, PTL DEF Spec

(* The status main returns is one of those cli.py documents.               *)
THEOREM ProcessTypeCorrect == Spec => []TypeOK
<1>1. ProcessInvariant => TypeOK
  BY DEF ProcessInvariant, Types, WorldTypes, DbTypes, PlaceTypes, SignalTypes, PageTypes,
    TypeOK
<1> QED  BY <1>1, ProcessInvariantHolds, PTL

(* For any retention and bound: what Okta dropped before a tail or a       *)
(* backfill started is refused, warned of, or was waiting when a commit set*)
(* its stamp.  Nothing is said of what ages out while a process runs.      *)
THEOREM NeverSilent == Spec => []NoSilentGap
<1>1. ProcessInvariant => NoSilentGap
  BY DEF ProcessInvariant, Reading
<1> QED  BY <1>1, ProcessInvariantHolds, PTL

(* A supervisor can act on the exit code, whichever signals raced the end. *)
THEOREM ExitAlwaysTrue == Spec => []ExitTellsTruth
<1>1. ProcessInvariant => ExitTellsTruth
  BY DEF ProcessInvariant, Leaving, Truthful, Reason, ExitTellsTruth
<1> QED  BY <1>1, ProcessInvariantHolds, PTL

-----------------------------------------------------------------------------
(* Nothing is passed over: what lies behind the cursor in memory is        *)
(* delivered, gone or pending, and what lies behind the committed one is   *)
(* no longer pending, so it does not matter that pending dies with its     *)
(* process.                                                                *)

\* Okta persists in order, and a cursor follows an event it has served.
InOrder ==
  /\ \A f \in Persisted, e \in Events : e < f => e \in Persisted
  /\ stored # None => stored \in Persisted
  /\ Running => read \in {0} \union Persisted

Settled ==
  stored # None => \A e \in Persisted : e <= stored => e \in delivered \union accounted

Carried ==
  Running => \A e \in Persisted : e <= read => e \in delivered \union accounted \union pending

Accounting == InOrder /\ Settled /\ Carried

(* Steps of the process that neither read nor commit, and the clock's.     *)
LEMMA QuietAccount ==
  ASSUME Accounting, UNCHANGED <<at, stored, delivered, accounted>>,
         Running' => Running /\ UNCHANGED <<read, pending>>
  PROVE  Accounting'
<1>1. Persisted' = Persisted
  BY DEF Persisted
<1> QED  BY <1>1 DEF Accounting, InOrder, Settled, Carried

(* A new process reads on from the committed cursor.                       *)
LEMMA RunAccount ==
  ASSUME ProcessInvariant, Accounting, Run
  PROVE  Accounting'
<1>1. /\ UNCHANGED <<at, stored, delivered, accounted>> /\ Persisted' = Persisted
      /\ read' = IF stored = None THEN 0 ELSE stored
  BY DEF Run, world, db, Persisted, Opening
<1>2. \A e \in Persisted : e \in Nat /\ e > 0
  BY Constants DEF Persisted, Events
<1> QED  BY <1>1, <1>2 DEF Accounting, InOrder, Settled, Carried

(* A page takes up what it passes, and its commit delivers what is pending.*)
LEMMA LandAccount ==
  ASSUME ProcessInvariant, Accounting, Land
  PROVE  Accounting'
<1> DEFINE passed(e) == {f \in Persisted : read < f /\ f <= e}
           fresh(e)  == {f \in passed(e) : ~Aged(f, now)}
<1>1. pc = "page" /\ Persisted' = Persisted /\ read \in Nat
  BY Constants DEF Land, world, Persisted, ProcessInvariant, Types, PageTypes
<1>2. PICK e \in Persisted :
        /\ e \in fresh(e) /\ Skip(passed(e)) /\ read' = e
        /\ \/ pending' = pending \union fresh(e) /\ UNCHANGED <<stored, delivered>>
           \/ stored' = e /\ delivered' = delivered \union pending \union fresh(e)
  BY DEF Land, db
<1>3. /\ accounted \subseteq accounted'
      /\ \A f \in passed(e) : Aged(f, now) => f \in accounted'
  <2>1. passed(e) \subseteq Persisted /\ \A f \in passed(e) : f > read
    BY <1>1, Constants DEF Persisted, Events
  <2> QED  BY <1>1, <1>2, <2>1, SkipFacts
<1>4. \A f \in Persisted : f \in Nat
  BY Constants DEF Persisted, Events
<1>5. \A f \in Persisted : f <= read => f \in delivered \union accounted \union pending
  BY <1>1 DEF Accounting, Carried, Running
<1>6. ASSUME NEW f \in Persisted, f <= e
      PROVE  f \in delivered \union pending \union fresh(e) \union accounted'
  <2>1. CASE f <= read
    BY <1>3, <1>5, <2>1
  <2>2. CASE f \in passed(e)
    BY <1>3, <2>2
  <2> QED  BY <1>1, <1>4, <1>6, <2>1, <2>2
<1> HIDE DEF passed, fresh
<1>7. InOrder'
  BY <1>1, <1>2 DEF Accounting, InOrder
<1>8. Settled' /\ Carried'
  <2>1. CASE pending' = pending \union fresh(e) /\ UNCHANGED <<stored, delivered>>
    <3>1. Settled'
      BY <1>1, <1>3, <2>1 DEF Accounting, Settled
    <3>2. Carried'
      BY <1>1, <1>2, <1>6, <2>1 DEF Carried
    <3> QED  BY <3>1, <3>2
  <2>2. CASE stored' = e /\ delivered' = delivered \union pending \union fresh(e)
    BY <1>1, <1>2, <1>6, <2>2 DEF Settled, Carried
  <2> QED  BY <1>2, <2>1, <2>2
<1> QED  BY <1>7, <1>8 DEF Accounting

(* On an empty page only what is pending can be committed.                 *)
LEMMA CaughtUpAccount ==
  ASSUME ProcessInvariant, Accounting, CaughtUp
  PROVE  Accounting'
<1>1. /\ pc = "page" /\ Persisted' = Persisted /\ read' = read
      /\ Skip({f \in Persisted : f > read})
      /\ \/ /\ pending # {} /\ stored' = read /\ delivered' = delivered \union pending
         \/ UNCHANGED <<stored, delivered, pending>>
  BY DEF CaughtUp, world, Persisted
<1>2. accounted \subseteq accounted'
  BY <1>1, SkipFacts
<1>3. /\ read \in {0} \union Persisted
      /\ \A f \in Persisted : f <= read => f \in delivered \union accounted \union pending
  BY <1>1 DEF Accounting, InOrder, Carried, Running
<1>4. CASE pending # {} /\ stored' = read /\ delivered' = delivered \union pending
  <2>1. read \in Persisted
    <3>1. read \in Events
      BY <1>1, <1>4 DEF ProcessInvariant, Reading, Resumed, Running
    <3> QED  BY <1>3, <3>1, Constants DEF Events
  <2> QED  BY <1>1, <1>2, <1>3, <1>4, <2>1 DEF Accounting, InOrder, Settled, Carried
<1>5. CASE UNCHANGED <<stored, delivered, pending>>
  BY <1>1, <1>2, <1>3, <1>5 DEF Accounting, InOrder, Settled, Carried
<1> QED  BY <1>1, <1>4, <1>5

(* The end of a range leaves nothing pending and nothing unread.           *)
LEMMA ExhaustAccount ==
  ASSUME ProcessInvariant, Accounting, Exhaust
  PROVE  Accounting' /\ Persisted \subseteq delivered' \union accounted'
<1>1. /\ pc = "page" /\ pc' = "closing" /\ Persisted' = Persisted /\ stored' = None
      /\ Skip({f \in Persisted : f > read})
      /\ delivered' = delivered \union pending
                        \union {f \in Persisted : f > read /\ ~Aged(f, now)}
  BY DEF Exhaust, Leave, world, Persisted
<1>2. /\ accounted \subseteq accounted'
      /\ \A f \in Persisted : f > read /\ Aged(f, now) => f \in accounted'
  BY <1>1, SkipFacts
<1>3. \A f \in Persisted : f <= read => f \in delivered \union accounted \union pending
  BY <1>1 DEF Accounting, Carried, Running
<1>4. \A f \in Persisted : f <= read \/ f > read
  BY Constants DEF Persisted, Events, ProcessInvariant, Types, PageTypes
<1>5. Persisted \subseteq delivered' \union accounted'
  BY <1>1, <1>2, <1>3, <1>4
<1>6. Accounting'
  BY <1>1 DEF Accounting, InOrder, Settled, Carried, Running
<1> QED  BY <1>5, <1>6

(* A new event comes after every cursor.                                   *)
LEMMA PersistAccount ==
  ASSUME ProcessInvariant, Accounting, Persist
  PROVE  Accounting'
<1>1. /\ now \in Nat /\ now # None /\ at \in [Events -> Times \union {None}]
  BY Constants DEF ProcessInvariant, Types, WorldTypes, Times
<1>2. PICK e \in Events \ Persisted : /\ \A f \in Events : f < e => f \in Persisted
                                      /\ at' = [at EXCEPT ![e] = now]
  BY DEF Persist
<1>3. UNCHANGED <<stored, delivered, accounted, pc, read, pending>>
  BY DEF Persist, db, process, history
<1>4. Persisted' = Persisted \union {e}
  BY <1>1, <1>2 DEF Persisted
<1>5. \A f \in Events : f \in Nat /\ f > 0
  BY Constants DEF Events
<1>6. ASSUME NEW c \in {0} \union Persisted
      PROVE  ~(e <= c)
  <2>1. c # e /\ (c \in Persisted => ~(e < c))
    BY <1>2, <1>5 DEF Accounting, InOrder
  <2> QED  BY <1>2, <1>5, <1>6, <2>1 DEF Persisted
<1>7. InOrder'
  <2>1. \A f \in Persisted', g \in Events : g < f => g \in Persisted'
    BY <1>2, <1>4 DEF Accounting, InOrder
  <2> QED  BY <1>3, <1>4, <2>1 DEF Accounting, InOrder, Running
<1>8. Settled'
  BY <1>3, <1>4, <1>6 DEF Accounting, InOrder, Settled
<1>9. Carried'
  BY <1>3, <1>4, <1>6 DEF Accounting, InOrder, Carried, Running
<1> QED  BY <1>7, <1>8, <1>9 DEF Accounting

LEMMA NextAccount ==
  ASSUME ProcessInvariant, Accounting, [Next]_vars
  PROVE  Accounting'
<1>1. CASE Run \/ Land \/ CaughtUp \/ Exhaust \/ Persist
  BY <1>1, RunAccount, LandAccount, CaughtUpAccount, ExhaustAccount, PersistAccount
<1>2. CASE LoseDatabase
  BY <1>2, Constants DEF LoseDatabase, world, process, Accounting, InOrder, Settled, Carried,
    Running, Persisted
<1>3. CASE Launch \/ Refuse \/ Wake \/ Close \/ Poll \/ Raise \/ Kill
  <2>1. UNCHANGED <<at, stored, delivered, accounted>>
    BY <1>3 DEF Launch, Refuse, Wake, Close, Poll, Raise, Kill, world, db, history
  <2>2. Running' => Running /\ UNCHANGED <<read, pending>>
    BY <1>3 DEF Launch, Refuse, Wake, Close, Poll, Raise, Kill, Leave, process, Running
  <2> QED  BY <2>1, <2>2, QuietAccount
<1>4. CASE Signal \/ Tick \/ UNCHANGED vars
  <2>1. UNCHANGED <<at, stored, delivered, accounted>>
    BY <1>4 DEF Signal, Arrive, Default, Tick, vars, world, db, history
  <2>2. Running' => Running /\ UNCHANGED <<read, pending>>
    BY <1>4 DEF Signal, Arrive, Default, Leave, Tick, vars, process, Running
  <2> QED  BY <2>1, <2>2, QuietAccount
<1> QED  BY <1>1, <1>2, <1>3, <1>4 DEF Next, Turn

(* Through every stop, kill, retry and loss of the database: a commit puts *)
(* behind the cursor only what the lake holds, or what is accounted for as *)
(* gone.  NeverSilent says which of these somebody was told about.         *)
THEOREM NeverPassedOver == Spec => NothingPassedOver
<1>1. Init => Accounting
  BY DEF Init, Accounting, InOrder, Settled, Carried, Running, Persisted
<1>2. ProcessInvariant /\ Accounting /\ [Next]_vars
        => [\A e \in Persisted :
              ~Behind(e) /\ Behind(e)' => e \in delivered' \union accounted']_vars
  <2> SUFFICES ASSUME ProcessInvariant, Accounting, Next,
                      NEW e \in Persisted, ~Behind(e), Behind(e)'
               PROVE  e \in delivered' \union accounted'
    OBVIOUS
  <2>1. CASE Exhaust
    BY <2>1, ExhaustAccount
  <2>2. CASE ~Exhaust
    <3>1. ~finished'
      BY <2>2 DEF Behind, Next, Turn, Launch, Poll, Raise, Signal, Arrive, Default, Kill, Tick,
        Persist, LoseDatabase, Refuse, Run, Land, CaughtUp, Wake, Close, db
    <3>2. stored' # None /\ e <= stored'
      BY <3>1 DEF Behind
    <3>3. e \in Persisted'
      BY DEF Next, Turn, Launch, Poll, Raise, Signal, Arrive, Default, Kill, Tick, Persist,
        LoseDatabase, Refuse, Run, Land, CaughtUp, Exhaust, Wake, Close, world, Persisted,
        ProcessInvariant, Types, WorldTypes, Times
    <3>4. Settled'
      BY NextAccount DEF Accounting
    <3> QED  BY <3>2, <3>3, <3>4 DEF Settled
  <2> QED  BY <2>1, <2>2
<1>3. ProcessInvariant /\ Accounting /\ [Next]_vars => Accounting'
  BY NextAccount
<1> QED  BY <1>1, <1>2, <1>3, ProcessInvariantHolds, PTL DEF Spec, NothingPassedOver

(* The half of StopReturns that is safety: once a signal is noted, the page *)
(* that is under way is the last; none follows it, and none follows a sleep.*)
THEOREM LastPageAfterStop ==
  Spec => [][signum # None /\ pc' = "page" => pc = "page" /\ UNCHANGED <<db, read, pending>>]_vars
<1>1. ProcessInvariant /\ [Next]_vars
        => [signum # None /\ pc' = "page"
              => pc = "page" /\ UNCHANGED <<db, read, pending>>]_vars
  <2> SUFFICES ASSUME ProcessInvariant, Next, signum # None, pc' = "page"
               PROVE  pc = "page" /\ UNCHANGED <<db, read, pending>>
    OBVIOUS
  <2>1. pc # "opened"
    BY DEF ProcessInvariant, Leaving, Starting
  <2>2. ~(Launch \/ Turn \/ Poll \/ Raise \/ Kill)
    BY <2>1 DEF Launch, Turn, Refuse, Run, Land, CaughtUp, Exhaust, Wake, Close, Poll, Raise,
      Kill, Leave, Proceed
  <2>3. CASE Signal
    BY <2>3 DEF Signal, Arrive, Default, Leave, ProcessInvariant, Leaving, Starting
  <2>4. CASE Tick \/ Persist \/ LoseDatabase
    BY <2>4 DEF Tick, Persist, LoseDatabase, process, db
  <2> QED  BY <2>2, <2>3, <2>4 DEF Next
<1> QED  BY <1>1, ProcessInvariantHolds, PTL DEF Spec
=============================================================================
