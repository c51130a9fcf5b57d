--------------------------- MODULE RunLoopProofs ---------------------------
(***************************************************************************)
(* LoopInvariant is inductive, for every log, page size, byte ceiling and  *)
(* number of deaths; the safety properties of RunLoop and the refinement   *)
(* of Delivery follow from it.  Two stronger promises hold in part: nothing*)
(* is written twice until a process ends, nor ever in a range whose pages  *)
(* are flushed one by one.                                                 *)
(***************************************************************************)
EXTENDS Rerun, WellFoundedInduction, FiniteSetTheorems, TLAPS

USE LoopAssumption

(* Every nonempty set of naturals has a least member.                      *)
LEMMA LeastMember ==
  ASSUME NEW S \in SUBSET Nat, S # {}
  PROVE  \E m \in S : \A n \in S : m <= n
<1>1. IsWellFoundedOn(OpToRel(<, Nat), Nat)
  BY NatLessThanWellFounded
<1>2. PICK m \in S : \A n \in S : ~(<<n, m>> \in OpToRel(<, Nat))
  BY <1>1, WFMin
<1>3. \A n \in S : ~(n < m)
  BY <1>2 DEF OpToRel
<1>4. \A n \in S : m <= n
  BY <1>3
<1> QED
  BY <1>4

(* Filtering a page drops no uid that has not been delivered: what is not  *)
(* seen is represented by its first copy in the page.                      *)
LEMMA FreshCovers ==
  ASSUME page \in SUBSET Positions
  PROVE  \A p \in page : Uid[p] \in seen \/ Uid[p] \in UidsOf(Fresh)
<1> SUFFICES ASSUME NEW p \in page, Uid[p] \notin seen
             PROVE  Uid[p] \in UidsOf(Fresh)
  OBVIOUS
<1> DEFINE Same == {q \in page : Uid[q] = Uid[p]}
<1>1. PICK m \in Same : \A q \in Same : m <= q
  <2>1. page \subseteq Nat
    BY DEF Positions
  <2>2. Same \in SUBSET Nat
    BY <2>1
  <2>3. p \in Same
    OBVIOUS
  <2> HIDE DEF Same
  <2> QED
    BY <2>2, <2>3, LeastMember
<1>2. m \in Fresh
  BY <1>1 DEF Fresh
<1> QED
  BY <1>1, <1>2 DEF UidsOf

(* Before any process there is nothing to keep, whatever the source serves *)
(* by then and whatever the lake holds.                                    *)
LEMMA InitInv ==
  ASSUME visible \subseteq Positions,
         ~Bounded => \A p \in visible, q \in Positions : q < p => q \in visible,
         FreshDatabase, lake \in [Cursors -> SUBSET Positions], InitProcess
  PROVE  StreamInvariant
<1> USE DEF FreshDatabase, InitProcess
<1>1. TypeOK
  <2>1. visible \subseteq Positions
    OBVIOUS
  <2>2. 0 \in Cursors /\ 0 \in 0 .. MaxEnds
    BY DEF Cursors
  <2> QED
    BY <2>1, <2>2 DEF TypeOK
<1>2. PollingInOrder /\ CursorsServed
  BY DEF PollingInOrder, CursorsServed
<1>3. BatchAtCommit /\ BatchCovers
  BY DEF BatchAtCommit, BatchCovers, Finished, UidsOf
<1>4. PageComplete /\ FlushProgress
  BY DEF PageComplete, FlushProgress
<1>5. SettledBehind
  BY DEF SettledBehind, Resume, Positions
<1> QED
  BY <1>1, <1>2, <1>3, <1>4, <1>5 DEF StreamInvariant

(* A polling query serves a new record after all it has served.  So nothing*)
(* read or committed lies beyond it.                                       *)
LEMMA PublishInv ==
  ASSUME StreamInvariant, Publish
  PROVE  StreamInvariant'
<1> USE DEF StreamInvariant, logVars, durableVars, procVars, batchVars, pageVars
<1>1. PICK n \in Positions \ visible :
        /\ \A q \in Positions : q < n => q \in visible
        /\ visible' = visible \union {n}
  BY DEF Publish
<1>2. ~Bounded /\ UNCHANGED <<durableVars, procVars, ends>>
  BY DEF Publish
<1>3. n \in Nat /\ \A q \in visible : q \in Nat /\ q < n
  BY <1>1, <1>2 DEF PollingInOrder, TypeOK, Positions
<1>4. /\ cursor < n /\ batchKey < n
      /\ row.cursor # None => row.cursor < n
      /\ nextCursor # None => nextCursor < n
  BY <1>1, <1>3 DEF CursorsServed, Positions
<1>5. pc # "down" => Reach < n
  BY <1>2, <1>4 DEF Reach, End, PollingInOrder
<1>6. Resume < n
  BY <1>1, <1>2, <1>4 DEF Resume, End, PollingInOrder, Positions
<1>7. TypeOK'
  BY <1>1, <1>2 DEF TypeOK
<1>8. PollingInOrder'
  BY <1>1, <1>2, <1>3 DEF PollingInOrder, TypeOK, Positions
<1>9. CursorsServed'
  BY <1>1, <1>2 DEF CursorsServed
<1>10. BatchAtCommit'
  BY <1>2 DEF BatchAtCommit, Finished, StoredCursor, Reach, End
<1>11. BatchCovers'
  <2>1. Reach' = Reach
    BY <1>2 DEF Reach, End
  <2>2. pc # "down" => ~(n <= Reach)
    BY <1>3, <1>5 DEF Reach, End, TypeOK, Cursors
  <2> QED
    BY <1>1, <1>2, <2>1, <2>2 DEF BatchCovers, Finished, UidsOf
<1>12. PageComplete'
  <2> SUFFICES ASSUME pc = "filter"
               PROVE  page = Between(cursor, End(nextCursor))'
    BY <1>2 DEF PageComplete
  <2>1. End(nextCursor) < n /\ End(nextCursor) \in Nat
    BY <1>2, <1>4 DEF End, PollingInOrder, TypeOK, Cursors
  <2>2. ~(n <= End(nextCursor))
    BY <1>3, <2>1
  <2>3. Between(cursor, End(nextCursor))' = Between(cursor, End(nextCursor))
    BY <1>1, <1>2, <2>2 DEF Between, End
  <2> QED
    BY <1>2, <2>3 DEF PageComplete
<1>13. FlushProgress'
  BY <1>2 DEF FlushProgress, BucketOf
<1>14. SettledBehind'
  <2>1. Resume' = Resume /\ Resume \in Nat
    BY <1>2 DEF Resume, End, TypeOK, Cursors
  <2>2. ~(n <= Resume)
    BY <1>3, <1>6, <2>1
  <2> QED
    BY <1>1, <1>2, <2>1, <2>2 DEF SettledBehind, UidsOf
<1> QED
  BY <1>7, <1>8, <1>9, <1>10, <1>11, <1>12, <1>13, <1>14

(* A new process opens its batch at the committed cursor, with nothing     *)
(* pending.                                                                *)
LEMMA StartInv ==
  ASSUME StreamInvariant, Start
  PROVE  StreamInvariant'
<1> USE DEF StreamInvariant, Start, Open, Volatile, logVars, durableVars,
            procVars, batchVars, pageVars
<1>0. StoredCursor \in Cursors /\ StoredCursor \in {0} \union visible
  BY DEF StoredCursor, TypeOK, CursorsServed, Cursors
<1>1. TypeOK'
  BY <1>0 DEF TypeOK, Cursors
<1>2. PollingInOrder'
  BY DEF TypeOK, PollingInOrder, Positions
<1>3. CursorsServed'
  BY <1>0 DEF CursorsServed, TypeOK
<1>4. BatchAtCommit'
  BY <1>0 DEF BatchAtCommit, StoredCursor, Finished, Reach, Cursors
<1>5. BatchCovers'
  BY <1>0 DEF TypeOK, BatchCovers, Reach, Cursors, Positions
<1>6. PageComplete'
  BY DEF TypeOK, PageComplete, Positions, Cursors, Between, End
<1>7. FlushProgress'
  BY DEF TypeOK, FlushProgress, Positions, Cursors, BucketOf
<1>8. SettledBehind'
  BY DEF TypeOK, SettledBehind, Positions, Cursors, Resume, End, UidsOf
<1> QED
  BY <1>1, <1>2, <1>3, <1>4, <1>5, <1>6, <1>7, <1>8

(* However a process ends, only what was volatile goes with it.            *)
LEMMA EndedInv ==
  ASSUME StreamInvariant, Volatile("down", 0), UNCHANGED <<logVars,
         durableVars>>,
         ends' \in 0 .. MaxEnds
  PROVE  StreamInvariant'
<1> USE DEF StreamInvariant, Volatile, logVars, durableVars
<1>1. TypeOK'
  <2>1. 0 \in Cursors
    BY DEF Cursors
  <2> QED
    BY <2>1 DEF TypeOK
<1>2. PollingInOrder'
  BY DEF TypeOK, PollingInOrder, Positions
<1>3. CursorsServed'
  BY DEF TypeOK, CursorsServed, Positions, Cursors
<1>4. BatchAtCommit'
  BY DEF TypeOK, BatchAtCommit, Positions, Cursors, Finished, StoredCursor,
         Reach, End
<1>5. BatchCovers'
  BY DEF TypeOK, BatchCovers, Positions, Cursors, Finished, Reach, End, UidsOf
<1>6. PageComplete'
  BY DEF TypeOK, PageComplete, Positions, Cursors, Between, End
<1>7. FlushProgress'
  BY DEF TypeOK, FlushProgress, Positions, Cursors, BucketOf
<1>8. SettledBehind'
  BY DEF TypeOK, SettledBehind, Positions, Cursors, Resume, End, UidsOf
<1> QED
  BY <1>1, <1>2, <1>3, <1>4, <1>5, <1>6, <1>7, <1>8

(* A stop, a death and the end of a range are such ends.                   *)
LEMMA EndsInv ==
  ASSUME StreamInvariant, Stop \/ Die \/ Exit
  PROVE  StreamInvariant'
<1>1. ends' \in 0 .. MaxEnds
  BY DEF StreamInvariant, TypeOK, Stop, Die, Exit
<1>2. Volatile("down", 0) /\ UNCHANGED <<logVars, durableVars>>
  BY DEF Stop, Die, Exit
<1> QED
  BY <1>1, <1>2, EndedInv

(* A response holds everything between its cursor and its link.            *)
LEMMA FetchInv ==
  ASSUME StreamInvariant, Fetch
  PROVE  StreamInvariant'
<1> USE DEF StreamInvariant, Fetch, logVars, durableVars, procVars, batchVars,
            pageVars
<1>0. PICK records \in SUBSET visible, link \in Cursors \union {None} :
        /\ page' = records /\ nextCursor' = link
        /\ \/ link \in {cursor} \union visible /\ cursor <= link /\ records = Between(cursor, link)
           \/ link = None /\ Bounded /\ records = Between(cursor, N)
  BY DEF Response
<1>1. TypeOK'
  BY <1>0 DEF TypeOK, Cursors, Positions
<1>2. PollingInOrder'
  BY <1>0 DEF TypeOK, PollingInOrder, Cursors
<1>3. CursorsServed'
  BY <1>0 DEF TypeOK, CursorsServed, Cursors, Positions
<1>4. BatchAtCommit'
  BY <1>0 DEF TypeOK, BatchAtCommit, Finished, StoredCursor, Reach
<1>5. BatchCovers'
  BY DEF TypeOK, BatchCovers, Positions, Cursors, Finished, Reach, End, UidsOf
<1>6. PageComplete'
  <2>1. page' = Between(cursor, End(nextCursor'))
    BY <1>0 DEF End, TypeOK, Cursors, Positions
  <2>2. page' = Between(cursor, End(nextCursor))'
    BY <2>1 DEF Between, End
  <2> QED
    BY <2>2 DEF PageComplete
<1>7. FlushProgress'
  BY DEF TypeOK, FlushProgress, Positions, Cursors, BucketOf
<1>8. SettledBehind'
  BY DEF TypeOK, SettledBehind, Positions, Cursors, Resume, End, UidsOf
<1> QED
  BY <1>1, <1>2, <1>3, <1>4, <1>5, <1>6, <1>7, <1>8

(* What a page adds to the batch is pending or already delivered           *)
(* (FreshCovers).                                                          *)
LEMMA FilterInv ==
  ASSUME StreamInvariant, Filter
  PROVE  StreamInvariant'
<1> USE DEF StreamInvariant, Filter, logVars, durableVars, procVars, batchVars,
            pageVars
<1>0. Fresh \subseteq page /\ page \in SUBSET Positions
  BY DEF Fresh, TypeOK
<1>1. TypeOK'
  BY <1>0 DEF TypeOK
<1>2. PollingInOrder'
  BY DEF TypeOK, PollingInOrder, Positions
<1>3. CursorsServed'
  BY DEF TypeOK, CursorsServed, Positions, Cursors
<1>4. BatchAtCommit'
  BY DEF TypeOK, CursorsServed, BatchAtCommit, Finished, StoredCursor, Reach,
         End, Cursors
<1>5. BatchCovers'
  <2>1. /\ page = {p \in visible : cursor < p /\ p <= End(nextCursor)}
        /\ Reach = cursor /\ Reach' = End(nextCursor)
        /\ ~Finished /\ batchKey <= cursor /\ cursor <= End(nextCursor)
    BY DEF PageComplete, Between, Reach, End, BatchAtCommit, CursorsServed,
           TypeOK,
           Cursors
  <2>2. End(nextCursor) \in Nat /\ cursor \in Nat /\ batchKey \in Nat /\ visible \subseteq Nat
    BY DEF End, TypeOK, Cursors, Positions
  <2>3. pending' \subseteq {p \in visible' : batchKey' < p /\ p <= Reach'}
    BY <1>0, <2>1, <2>2 DEF BatchCovers
  <2>4. /\ buffer' = IF pc' = "commit" THEN {} ELSE pending'
        /\ pc' \notin {"down", "stamp"}
    BY DEF BatchCovers
  <2>5. ASSUME NEW p \in visible, batchKey < p, p <= End(nextCursor)
        PROVE  Uid[p] \in marked \union UidsOf(pending')
    <3>1. CASE p <= cursor
      BY <2>1, <2>5, <3>1 DEF BatchCovers, UidsOf
    <3>2. CASE cursor < p
      <4>1. p \in page
        BY <2>1, <2>5, <3>2
      <4>2. Uid[p] \in seen \/ Uid[p] \in UidsOf(Fresh)
        BY <1>0, <4>1, FreshCovers
      <4> QED
        BY <4>2 DEF SettledBehind, UidsOf
    <3> QED
      BY <2>2, <3>1, <3>2
  <2>6. UidsOf(pending)' = UidsOf(pending')
    BY DEF UidsOf
  <2> QED
    BY <2>1, <2>3, <2>4, <2>5, <2>6 DEF BatchCovers
<1>6. PageComplete'
  BY DEF TypeOK, PageComplete, Positions, Cursors, Between, End
<1>7. FlushProgress'
  BY DEF TypeOK, FlushProgress, Positions, Cursors, BucketOf
<1>8. SettledBehind'
  BY DEF TypeOK, SettledBehind, Positions, Cursors, Resume, End, UidsOf
<1> QED
  BY <1>1, <1>2, <1>3, <1>4, <1>5, <1>6, <1>7, <1>8

(* A put touches only the open batch's key, which no settled uid rests on. *)
LEMMA PutObjectInv ==
  ASSUME StreamInvariant, PutObject
  PROVE  StreamInvariant'
<1> USE DEF StreamInvariant, logVars, durableVars, procVars, batchVars, pageVars
<1>0. PICK p \in buffer :
        /\ BucketOf(p) \notin put
        /\ lake' = [lake EXCEPT ![batchKey] =
                      {q \in lake[batchKey] : BucketOf(q) # BucketOf(p)}
                        \union {q \in buffer : BucketOf(q) = BucketOf(p)}]
        /\ put' = put \union {BucketOf(p)}
  BY DEF PutObject
<1>a. pc = "flush" /\ UNCHANGED <<logVars, row, seen, marked, pc, batchVars,
       pageVars, aged, stampDue, ends>>
  BY DEF PutObject
<1>b. ~Finished /\ Resume = batchKey
  BY <1>a DEF BatchAtCommit, CursorsServed, Finished, StoredCursor, Resume, End
<1>1. TypeOK'
  <2>1. lake' \in [Cursors -> SUBSET Positions]
    BY <1>0 DEF TypeOK
  <2>2. put' \subseteq Buckets
    BY <1>0 DEF TypeOK, Buckets, Uids, BucketOf
  <2> QED
    BY <1>a, <2>1, <2>2 DEF TypeOK
<1>2. PollingInOrder'
  BY <1>a DEF PollingInOrder
<1>3. CursorsServed'
  BY <1>a DEF CursorsServed
<1>4. BatchAtCommit'
  BY <1>a DEF BatchAtCommit, Finished, StoredCursor, Reach, End
<1>5. BatchCovers'
  BY <1>a DEF BatchCovers, Finished, Reach, End, UidsOf
<1>6. PageComplete'
  BY <1>a DEF PageComplete
<1>7. FlushProgress'
  <2>1. lake'[batchKey] = {q \in lake[batchKey] : BucketOf(q) # BucketOf(p)}
                           \union {q \in buffer : BucketOf(q) = BucketOf(p)}
    BY <1>0 DEF TypeOK
  <2>2. ASSUME NEW q \in buffer, BucketOf(q) \in put'
        PROVE  q \in lake'[batchKey]
    BY <1>0, <1>a, <2>1, <2>2 DEF FlushProgress
  <2>3. \A q : BucketOf(q)' = BucketOf(q)
    BY DEF BucketOf
  <2> QED
    BY <1>a, <2>2, <2>3 DEF FlushProgress
<1>8. SettledBehind'
  <2>1. \A k \in Cursors : k < Resume => lake'[k] = lake[k]
    BY <1>0, <1>b DEF TypeOK, Cursors
  <2>2. Resume' = Resume
    BY <1>a DEF Resume, End
  <2> QED
    BY <1>a, <2>1, <2>2 DEF SettledBehind, UidsOf
<1> QED
  BY <1>1, <1>2, <1>3, <1>4, <1>5, <1>6, <1>7, <1>8

(* The sink acknowledges when every pending event is durable under the     *)
(* batch key.                                                              *)
LEMMA AcknowledgeInv ==
  ASSUME StreamInvariant, Acknowledge
  PROVE  StreamInvariant'
<1> USE DEF StreamInvariant, Acknowledge, logVars, durableVars, procVars,
            batchVars, pageVars
<1>1. TypeOK'
  BY DEF TypeOK, Positions, Cursors, Uids, Buckets, UidsOf, BucketOf
<1>2. PollingInOrder'
  BY DEF TypeOK, PollingInOrder, Positions
<1>3. CursorsServed'
  BY DEF TypeOK, CursorsServed, Positions, Cursors
<1>4. BatchAtCommit'
  BY DEF TypeOK, BatchAtCommit, Positions, Cursors, Finished, StoredCursor,
         Reach, End
<1>5. BatchCovers'
  BY DEF TypeOK, BatchCovers, Positions, Cursors, Finished, Reach, End, UidsOf
<1>6. PageComplete'
  BY DEF TypeOK, PageComplete, Positions, Cursors, Between, End
<1>7. FlushProgress'
  BY DEF BatchCovers, FlushProgress
<1>8. SettledBehind'
  BY DEF TypeOK, SettledBehind, Positions, Cursors, Resume, End, UidsOf
<1> QED
  BY <1>1, <1>2, <1>3, <1>4, <1>5, <1>6, <1>7, <1>8

(* A commit moves the cursor to the end of the batch, and marks what the   *)
(* flush just wrote under a key that is then behind it.                    *)
LEMMA CommitInv ==
  ASSUME StreamInvariant, Commit
  PROVE  StreamInvariant'
<1> USE DEF StreamInvariant, Commit, logVars, durableVars, procVars, batchVars,
            pageVars
<1>0. /\ ~Finished /\ Resume = batchKey /\ batchKey \in Nat
      /\ Resume' = End(nextCursor) /\ End(nextCursor) \in Nat
      /\ Reach = End(nextCursor) /\ batchKey <= Reach
  BY DEF BatchAtCommit, CursorsServed, TypeOK, Finished, StoredCursor,
         Resume, End, Reach, Cursors
<1>1. TypeOK'
  BY DEF TypeOK, Positions, Cursors, Uids, Buckets, UidsOf, BucketOf
<1>2. PollingInOrder'
  BY DEF TypeOK, PollingInOrder, Positions
<1>3. CursorsServed'
  BY DEF TypeOK, CursorsServed, Positions, Cursors
<1>4. BatchAtCommit'
  BY DEF TypeOK, BatchAtCommit, Positions, Cursors, Finished, StoredCursor,
         Reach, End
<1>5. BatchCovers'
  BY DEF TypeOK, BatchCovers, Positions, Cursors, Finished, Reach, End, UidsOf
<1>6. PageComplete'
  BY DEF TypeOK, PageComplete, Positions, Cursors, Between, End
<1>7. FlushProgress'
  BY DEF TypeOK, FlushProgress, Positions, Cursors, BucketOf
<1>8. SettledBehind'
  <2>1. \A p \in visible : p <= Resume' => Uid[p] \in marked'
    <3> SUFFICES ASSUME NEW p \in visible, p <= Resume'
                 PROVE  Uid[p] \in marked'
      OBVIOUS
    <3>1. CASE p <= batchKey
      BY <1>0, <3>1 DEF SettledBehind
    <3>2. CASE batchKey < p
      BY <1>0, <3>2 DEF BatchCovers
    <3> QED
      BY <1>0, <3>1, <3>2 DEF TypeOK, Positions
  <2>2. seen' \subseteq marked'
    BY DEF SettledBehind
  <2> QED
    BY <2>1, <2>2 DEF SettledBehind
<1> QED
  BY <1>1, <1>2, <1>3, <1>4, <1>5, <1>6, <1>7, <1>8

(* The next page starts where this one ended.                              *)
LEMMA AdvanceInv ==
  ASSUME StreamInvariant, pc = "report", nextCursor # None, Advance
  PROVE  StreamInvariant'
<1> USE DEF StreamInvariant, Advance, logVars, durableVars, procVars,
            batchVars, pageVars
<1>1. TypeOK'
  BY DEF TypeOK, Positions, Cursors, Uids, Buckets, UidsOf, BucketOf
<1>2. PollingInOrder'
  BY DEF TypeOK, PollingInOrder, Positions
<1>3. CursorsServed'
  BY DEF TypeOK, CursorsServed, Positions, Cursors
<1>4. BatchAtCommit'
  BY DEF TypeOK, BatchAtCommit, Positions, Cursors, Finished, StoredCursor,
         Reach, End
<1>5. BatchCovers'
  BY DEF TypeOK, BatchCovers, Positions, Cursors, Finished, Reach, End, UidsOf
<1>6. PageComplete'
  BY DEF TypeOK, PageComplete, Positions, Cursors, Between, End
<1>7. FlushProgress'
  BY DEF TypeOK, FlushProgress, Positions, Cursors, BucketOf
<1>8. SettledBehind'
  BY DEF TypeOK, SettledBehind, Positions, Cursors, Resume, End, UidsOf
<1> QED
  BY <1>1, <1>2, <1>3, <1>4, <1>5, <1>6, <1>7, <1>8

(* A stamp changes no position.                                            *)
LEMMA MarkCaughtUpInv ==
  ASSUME StreamInvariant, MarkCaughtUp
  PROVE  StreamInvariant'
<1> USE DEF StreamInvariant, MarkCaughtUp, logVars, durableVars, procVars,
            batchVars, pageVars
<1>1. TypeOK'
  BY DEF TypeOK, Positions, Cursors, Uids, Buckets, UidsOf, BucketOf
<1>2. PollingInOrder'
  BY DEF TypeOK, PollingInOrder, Positions
<1>3. CursorsServed'
  BY DEF TypeOK, CursorsServed, Positions, Cursors
<1>4. BatchAtCommit'
  BY DEF TypeOK, BatchAtCommit, Positions, Cursors, Finished, StoredCursor,
         Reach, End
<1>5. BatchCovers'
  BY DEF TypeOK, BatchCovers, Positions, Cursors, Finished, Reach, End, UidsOf
<1>6. PageComplete'
  BY DEF TypeOK, PageComplete, Positions, Cursors, Between, End
<1>7. FlushProgress'
  BY DEF TypeOK, FlushProgress, Positions, Cursors, BucketOf
<1>8. SettledBehind'
  BY DEF TypeOK, SettledBehind, Positions, Cursors, Resume, End, UidsOf
<1> QED
  BY <1>1, <1>2, <1>3, <1>4, <1>5, <1>6, <1>7, <1>8

(* Neither do the clocks,                                                  *)
LEMMA AgeBufferInv ==
  ASSUME StreamInvariant, AgeBuffer
  PROVE  StreamInvariant'
<1> USE DEF StreamInvariant, AgeBuffer, logVars, durableVars, procVars,
            batchVars, pageVars
<1>1. TypeOK'
  BY DEF TypeOK, Positions, Cursors, Uids, Buckets, UidsOf, BucketOf
<1>2. PollingInOrder'
  BY DEF TypeOK, PollingInOrder, Positions
<1>3. CursorsServed'
  BY DEF TypeOK, CursorsServed, Positions, Cursors
<1>4. BatchAtCommit'
  BY DEF TypeOK, BatchAtCommit, Positions, Cursors, Finished, StoredCursor,
         Reach, End
<1>5. BatchCovers'
  BY DEF TypeOK, BatchCovers, Positions, Cursors, Finished, Reach, End, UidsOf
<1>6. PageComplete'
  BY DEF TypeOK, PageComplete, Positions, Cursors, Between, End
<1>7. FlushProgress'
  BY DEF TypeOK, FlushProgress, Positions, Cursors, BucketOf
<1>8. SettledBehind'
  BY DEF TypeOK, SettledBehind, Positions, Cursors, Resume, End, UidsOf
<1> QED
  BY <1>1, <1>2, <1>3, <1>4, <1>5, <1>6, <1>7, <1>8

(* nor the hourly pacing,                                                  *)
LEMMA HourPassesInv ==
  ASSUME StreamInvariant, HourPasses
  PROVE  StreamInvariant'
<1> USE DEF StreamInvariant, HourPasses, logVars, durableVars, procVars,
            batchVars, pageVars
<1>1. TypeOK'
  BY DEF TypeOK, Positions, Cursors, Uids, Buckets, UidsOf, BucketOf
<1>2. PollingInOrder'
  BY DEF TypeOK, PollingInOrder, Positions
<1>3. CursorsServed'
  BY DEF TypeOK, CursorsServed, Positions, Cursors
<1>4. BatchAtCommit'
  BY DEF TypeOK, BatchAtCommit, Positions, Cursors, Finished, StoredCursor,
         Reach, End
<1>5. BatchCovers'
  BY DEF TypeOK, BatchCovers, Positions, Cursors, Finished, Reach, End, UidsOf
<1>6. PageComplete'
  BY DEF TypeOK, PageComplete, Positions, Cursors, Between, End
<1>7. FlushProgress'
  BY DEF TypeOK, FlushProgress, Positions, Cursors, BucketOf
<1>8. SettledBehind'
  BY DEF TypeOK, SettledBehind, Positions, Cursors, Resume, End, UidsOf
<1> QED
  BY <1>1, <1>2, <1>3, <1>4, <1>5, <1>6, <1>7, <1>8

(* and an expired row only makes the seen-set smaller.                     *)
LEMMA LapseInv ==
  ASSUME StreamInvariant, Lapse
  PROVE  StreamInvariant'
<1> USE DEF StreamInvariant, Lapse, logVars, durableVars, procVars, batchVars,
            pageVars
<1>1. TypeOK'
  BY DEF TypeOK, Positions, Cursors, Uids, Buckets, UidsOf, BucketOf
<1>2. PollingInOrder'
  BY DEF TypeOK, PollingInOrder, Positions
<1>3. CursorsServed'
  BY DEF TypeOK, CursorsServed, Positions, Cursors
<1>4. BatchAtCommit'
  BY DEF TypeOK, BatchAtCommit, Positions, Cursors, Finished, StoredCursor,
         Reach, End
<1>5. BatchCovers'
  BY DEF TypeOK, BatchCovers, Positions, Cursors, Finished, Reach, End, UidsOf
<1>6. PageComplete'
  BY DEF TypeOK, PageComplete, Positions, Cursors, Between, End
<1>7. FlushProgress'
  BY DEF TypeOK, FlushProgress, Positions, Cursors, BucketOf
<1>8. SettledBehind'
  BY DEF TypeOK, SettledBehind, Positions, Cursors, Resume, End, UidsOf
<1> QED
  BY <1>1, <1>2, <1>3, <1>4, <1>5, <1>6, <1>7, <1>8

(* A step that changes nothing.                                            *)
LEMMA StutterInv ==
  ASSUME StreamInvariant, UNCHANGED vars
  PROVE  StreamInvariant'
<1> USE DEF StreamInvariant, vars, logVars, durableVars, procVars, batchVars,
            pageVars
<1>1. TypeOK'
  BY DEF TypeOK, Positions, Cursors, Uids, Buckets, UidsOf, BucketOf
<1>2. PollingInOrder'
  BY DEF TypeOK, PollingInOrder, Positions
<1>3. CursorsServed'
  BY DEF TypeOK, CursorsServed, Positions, Cursors
<1>4. BatchAtCommit'
  BY DEF TypeOK, BatchAtCommit, Positions, Cursors, Finished, StoredCursor,
         Reach, End
<1>5. BatchCovers'
  BY DEF TypeOK, BatchCovers, Positions, Cursors, Finished, Reach, End, UidsOf
<1>6. PageComplete'
  BY DEF TypeOK, PageComplete, Positions, Cursors, Between, End
<1>7. FlushProgress'
  BY DEF TypeOK, FlushProgress, Positions, Cursors, BucketOf
<1>8. SettledBehind'
  BY DEF TypeOK, SettledBehind, Positions, Cursors, Resume, End, UidsOf
<1> QED
  BY <1>1, <1>2, <1>3, <1>4, <1>5, <1>6, <1>7, <1>8

(* Every step of the loop keeps what holds of a stream.                    *)
LEMMA StreamNext ==
  ASSUME StreamInvariant, [Next]_vars
  PROVE  StreamInvariant'
<1>1. CASE Start \/ Stop \/ Die \/ Exit
  BY <1>1, StartInv, EndsInv
<1>2. CASE Fetch \/ Filter
  BY <1>2, FetchInv, FilterInv
<1>3. CASE PutObject \/ Acknowledge \/ Commit
  BY <1>3, PutObjectInv, AcknowledgeInv, CommitInv
<1>4. CASE (pc = "report" /\ nextCursor # None /\ Advance) \/ MarkCaughtUp
  BY <1>4, AdvanceInv, MarkCaughtUpInv
<1>5. CASE Publish \/ AgeBuffer \/ HourPasses \/ Lapse
  BY <1>5, PublishInv, AgeBufferInv, HourPassesInv, LapseInv
<1>6. CASE UNCHANGED vars
  BY <1>6, StutterInv
<1> QED
  BY <1>1, <1>2, <1>3, <1>4, <1>5, <1>6 DEF Next, Work, Report

(* A step leaves the log and the durable state alone, or is one of three:  *)
(* a put under the batch key, a commit, a new or a lapsed record.          *)
LEMMA DurableSteps ==
  ASSUME StreamInvariant, [Next]_vars
  PROVE  \/ UNCHANGED <<visible, row, marked, lake>>
         \/ Publish
         \/ PutObject
         \/ Commit
BY DEF Next, Work, Start, Open, Stop, Die, Exit, Report, Fetch, Filter, Acknowledge,
       Advance, MarkCaughtUp, AgeBuffer, HourPasses, Lapse, vars, logVars,
       durableVars

(* A put of the open batch: its key is the position the stream resumes at. *)
LEMMA PutAtResume ==
  ASSUME StreamInvariant, PutObject
  PROVE  /\ UNCHANGED <<visible, row, marked>>
         /\ \A k \in Cursors : k # Resume => lake'[k] = lake[k]
<1> USE DEF StreamInvariant
<1>1. pc = "flush" /\ UNCHANGED <<visible, row, marked>>
  BY DEF PutObject, logVars
<1>2. Resume = batchKey
  BY <1>1 DEF BatchAtCommit, CursorsServed, Finished, StoredCursor, Resume, End
<1>3. \A k \in Cursors : k # batchKey => lake'[k] = lake[k]
  BY DEF PutObject, TypeOK
<1> QED
  BY <1>1, <1>2, <1>3

(* A commit moves the resume position forward, never past the log.         *)
LEMMA CommitForward ==
  ASSUME StreamInvariant, Commit
  PROVE  /\ UNCHANGED <<visible, lake>>
         /\ Resume \in Nat /\ Resume' \in Nat
         /\ Resume <= Resume' /\ Resume' <= N
         /\ ~Finished
<1> USE DEF StreamInvariant
<1>1. pc = "commit" /\ UNCHANGED <<visible, lake>>
  BY DEF Commit, logVars
<1>2. ~Finished /\ batchKey = StoredCursor /\ batchKey <= Reach
  BY <1>1 DEF BatchAtCommit
<1>3. Resume = batchKey /\ Reach = End(nextCursor) /\ Resume' = End(nextCursor)
  BY <1>1, <1>2 DEF Commit, CursorsServed, Finished, StoredCursor, Resume,
                    End, Reach
<1>4. batchKey \in Nat /\ End(nextCursor) \in Nat /\ End(nextCursor) <= N
  BY DEF TypeOK, Cursors, End
<1> QED
  BY <1>1, <1>2, <1>3, <1>4

(* A resume position is a number, at most the end of the log.              *)
LEMMA ResumeType ==
  ASSUME StreamInvariant
  PROVE  Resume \in Nat /\ Resume <= N
BY DEF StreamInvariant, TypeOK, Resume, End, Cursors

(* A step takes nothing away that lies behind the resume position, and what*)
(* it marks then lies there.                                               *)
LEMMA HeldStep ==
  ASSUME StreamInvariant, [Next]_vars
  PROVE  /\ marked \subseteq marked'
         /\ \A u : HeldBehind(u) => HeldBehind(u)'
         /\ \A u \in marked' \ marked : HeldBehind(u)'
<1> USE DEF HeldBehind, UidsOf
<1>1. CASE UNCHANGED <<visible, row, marked, lake>>
  BY <1>1 DEF Resume, End
<1>2. CASE Publish
  BY <1>2 DEF Publish, durableVars, Resume, End
<1>3. CASE PutObject
  <2>1. UNCHANGED <<row, marked>> /\ \A k \in Cursors : k # Resume => lake'[k] = lake[k]
    BY <1>3, PutAtResume
  <2>2. Resume' = Resume
    BY <2>1 DEF Resume, End
  <2> QED  BY <2>1, <2>2, ResumeType DEF Cursors
<1>4. CASE Commit
  <2> USE DEF StreamInvariant
  <2>1. /\ UNCHANGED lake /\ marked' = marked \union UidsOf(pending)
        /\ Resume \in Nat /\ Resume' \in Nat /\ Resume <= Resume'
    BY <1>4, CommitForward DEF Commit
  <2>2. \A u : HeldBehind(u) => HeldBehind(u)'
    BY <2>1 DEF Cursors
  <2>3. ASSUME NEW p \in pending
        PROVE  HeldBehind(Uid[p])'
    <3>1. batchKey \in Cursors /\ batchKey < Resume' /\ p \in lake'[batchKey]
      BY <1>4, <2>1 DEF Commit, BatchAtCommit, BatchCovers, FlushProgress, TypeOK, Cursors,
        Positions, Reach, Resume, End
    <3> QED  BY <3>1
  <2> QED  BY <2>1, <2>2, <2>3
<1> QED  BY <1>1, <1>2, <1>3, <1>4, DurableSteps

(* Every step of the loop keeps the invariant.                             *)
LEMMA NextInv ==
  ASSUME LoopInvariant, [Next]_vars
  PROVE  LoopInvariant'
BY StreamNext, HeldStep DEF LoopInvariant

(* What another process does to the seen-set and to the record of what was *)
(* delivered leaves a stream's invariant as it is.                         *)
LEMMA Interference ==
  ASSUME StreamInvariant, UNCHANGED <<visible, row, lake, procVars, ends>>,
         marked \subseteq marked', marked' \subseteq Uids, seen' \subseteq marked'
  PROVE  StreamInvariant'
<1> USE DEF StreamInvariant, procVars, batchVars, pageVars
<1>1. TypeOK'
  BY DEF TypeOK
<1>2. PollingInOrder' /\ CursorsServed' /\ PageComplete' /\ FlushProgress'
  BY DEF PollingInOrder, CursorsServed, PageComplete, FlushProgress, Between, End, BucketOf
<1>3. BatchAtCommit' /\ BatchCovers'
  BY DEF BatchAtCommit, BatchCovers, Finished, StoredCursor, Reach, End, UidsOf
<1>4. SettledBehind'
  BY DEF SettledBehind, Resume, End
<1> QED  BY <1>1, <1>2, <1>3, <1>4

(* The invariant holds in every reachable state of the run loop.           *)
THEOREM LoopInvariantHolds == Spec => []LoopInvariant
<1>1. Init => LoopInvariant
  BY InitInv DEF LoopInvariant, Init, InitLog, Served, InitDurable, FreshDatabase
<1>2. LoopInvariant /\ [Next]_vars => LoopInvariant'
  BY NextInv
<1> QED
  BY <1>1, <1>2, PTL DEF Spec

(* The variables of the run loop keep their types.                         *)
THEOREM TypeCorrect == Spec => []TypeOK
<1>1. LoopInvariant => TypeOK
  BY DEF LoopInvariant, StreamInvariant
<1> QED
  BY <1>1, LoopInvariantHolds, PTL

(* What is settled is held: a marked uid is in an object under a key       *)
(* behind the committed cursor.                                            *)
LEMMA SettledIsHeld ==
  ASSUME LoopInvariant
  PROVE  AckedStaysDurable
BY DEF LoopInvariant, StreamInvariant, HeldBehind, AckedStaysDurable, Delivered

(* However processes die and however a replay is cut, a uid a commit       *)
(* recorded as delivered stays in the lake (store.commit, sink.flush).     *)
THEOREM AckedDurable == Spec => []AckedStaysDurable
BY SettledIsHeld, LoopInvariantHolds, PTL

LEMMA InvariantGivesNoLoss ==
  ASSUME LoopInvariant
  PROVE  NoLoss
<1> SUFFICES ASSUME NEW p \in visible, p <= Resume
             PROVE  Uid[p] \in Delivered
  BY DEF NoLoss
<1>1. Uid[p] \in marked
  BY DEF LoopInvariant, StreamInvariant, SettledBehind
<1> QED
  BY <1>1, SettledIsHeld DEF AckedStaysDurable

(* The committed cursor passes no event the lake lacks (runner/loop.py:    *)
(* flush, acknowledgement, commit, in that order).                         *)
THEOREM NothingLost == Spec => []NoLoss
<1>1. LoopInvariant => NoLoss
  BY InvariantGivesNoLoss
<1> QED
  BY <1>1, LoopInvariantHolds, PTL

(* When an idle stream is stamped, all it was served is marked.            *)
LEMMA StampedMarked ==
  ASSUME StreamInvariant, pc = "stamp", NEW p \in visible, p <= cursor
  PROVE  Uid[p] \in marked
<1> USE DEF StreamInvariant
<1>1. ~Finished /\ batchKey = StoredCursor /\ Reach = cursor /\ pending = {}
  BY DEF BatchAtCommit, BatchCovers, Reach
<1>2. Resume = batchKey
  BY <1>1 DEF Resume, End, StoredCursor, Finished, CursorsServed
<1>3. p <= batchKey => Uid[p] \in marked
  BY <1>2 DEF SettledBehind
<1>4. batchKey < p => Uid[p] \in marked
  BY <1>1 DEF BatchCovers, UidsOf
<1> QED  BY <1>3, <1>4 DEF TypeOK, Cursors, Positions

(* An idle stream is stamped caught up only when nothing it was served is  *)
(* undelivered (mark_caught_up after an empty page with nothing pending).  *)
THEOREM StampIsHonest == Spec => []CaughtUpHonest
<1>1. LoopInvariant => CaughtUpHonest
  BY StampedMarked, SettledIsHeld DEF CaughtUpHonest, Between, AckedStaysDurable, LoopInvariant
<1> QED
  BY <1>1, LoopInvariantHolds, PTL

(* No step takes the resume position back or a finished range up again.    *)
LEMMA ResumeStep ==
  ASSUME StreamInvariant, [Next]_vars
  PROVE  Resume <= Resume' /\ (Finished => Finished')
<1>1. CASE UNCHANGED row
  BY <1>1, ResumeType DEF Resume, Finished, End
<1>2. CASE Commit
  BY <1>2, CommitForward
<1> QED
  BY <1>1, <1>2, DurableSteps, PutAtResume DEF Publish, durableVars

(* No step touches an object behind the resume position.                   *)
LEMMA FrozenStep ==
  ASSUME StreamInvariant, [Next]_vars
  PROVE  \A k \in Cursors : k < Resume => lake'[k] = lake[k]
<1>1. CASE UNCHANGED lake
  BY <1>1
<1>2. CASE PutObject
  BY <1>2, PutAtResume, ResumeType DEF Cursors
<1> QED
  BY <1>1, <1>2, DurableSteps, CommitForward DEF Publish, durableVars

(* The committed cursor never moves back (StateStore.commit is its only    *)
(* writer, and the batch key it started from never exceeds it).            *)
THEOREM CursorNeverBack == Spec => CursorAdvances
<1>1. LoopInvariant /\ [Next]_vars
        => [Resume <= Resume' /\ (Finished => Finished')]_vars
  BY ResumeStep DEF LoopInvariant
<1> QED
  BY <1>1, LoopInvariantHolds, PTL DEF Spec, CursorAdvances

(* Objects under a key the stream has committed past never change again.   *)
THEOREM SettledFrozen == Spec => SettledObjectsFrozen
<1>1. LoopInvariant /\ [Next]_vars
        => [\A k \in Cursors : k < Resume => lake'[k] = lake[k]]_vars
  BY FrozenStep DEF LoopInvariant
<1> QED
  BY <1>1, LoopInvariantHolds, PTL DEF Spec, SettledObjectsFrozen

(* A database that remembers nothing is safe over any lake: whatever other *)
(* processes left there, under the same keys and cut anyhow, a stream that *)
(* starts from its opening query passes no event the lake lacks, keeps what*)
(* it settles and stamps honestly (modes.py, tail --from-scratch; the rerun*)
(* of a window with a database of its own).                                *)
THEOREM FreshDatabaseIsSafe ==
  FreshSpec => /\ []NoLoss /\ []AckedStaysDurable /\ []CaughtUpHonest
               /\ CursorAdvances /\ SettledObjectsFrozen
<1>1. FreshInit => LoopInvariant
  BY InitInv DEF LoopInvariant, FreshInit, FreshDatabase
<1>2. LoopInvariant /\ [Next]_vars => LoopInvariant'
  BY NextInv
<1>3. LoopInvariant => NoLoss /\ AckedStaysDurable /\ CaughtUpHonest
  <2>1. LoopInvariant => CaughtUpHonest
    BY StampedMarked, SettledIsHeld DEF CaughtUpHonest, Between, AckedStaysDurable, LoopInvariant
  <2> QED  BY <2>1, InvariantGivesNoLoss, SettledIsHeld
<1>4. LoopInvariant /\ [Next]_vars
        => /\ [Resume <= Resume' /\ (Finished => Finished')]_vars
           /\ [\A k \in Cursors : k < Resume => lake'[k] = lake[k]]_vars
  BY ResumeStep, FrozenStep DEF LoopInvariant
<1> QED
  BY <1>1, <1>2, <1>3, <1>4, PTL DEF FreshSpec, CursorAdvances, SettledObjectsFrozen

-----------------------------------------------------------------------------
(* A backfill gets to its end: of what is left no step of its process but  *)
(* going on from an empty page leaves as much, and none waits for something*)
(* that may not come.                                                      *)

(* The first component that differs decides.                               *)
LEMMA Lexicographic ==
  ASSUME NEW a, NEW b, NEW c, NEW x, NEW y, NEW z,
         \/ a < x
         \/ a = x /\ b < y
         \/ a = x /\ b = y /\ c < z
  PROVE  Precedes(<<a, b, c>>, <<x, y, z>>)
<1>1. CASE a < x
  <2>1. 1 \in 1 .. 3 /\ 1 .. 1 - 1 = {}
    OBVIOUS
  <2> QED  BY <1>1, <2>1 DEF Precedes
<1>2. CASE a = x /\ b < y
  <2>1. 2 \in 1 .. 3 /\ 1 .. 2 - 1 = {1}
    OBVIOUS
  <2> QED  BY <1>2, <2>1 DEF Precedes
<1>3. CASE a = x /\ b = y /\ c < z
  <2>1. 3 \in 1 .. 3 /\ 1 .. 3 - 1 = {1, 2}
    OBVIOUS
  <2> QED  BY <1>3, <2>1 DEF Precedes
<1> QED  BY <1>1, <1>2, <1>3

\* Unless a page is empty, its link leads on.
LinkAhead == nextCursor # None => cursor < nextCursor \/ page = {}

LEMMA LinkAheadStep ==
  ASSUME StreamInvariant, LinkAhead, [Next]_vars
  PROVE  LinkAhead'
<1>1. CASE Fetch
  <2> SUFFICES ASSUME nextCursor' # None, ~(cursor < nextCursor')
               PROVE  page' = {}
    BY <1>1 DEF LinkAhead, Fetch, batchVars
  <2>1. nextCursor' \in {cursor} \union visible /\ page' = Between(cursor, nextCursor')
    BY <1>1 DEF Fetch, Response
  <2>2. nextCursor' \in Nat /\ cursor \in Nat /\ visible \subseteq Nat
    BY <2>1 DEF StreamInvariant, TypeOK, Cursors, Positions
  <2>3. \A p \in visible : ~(cursor < p /\ p <= nextCursor')
    BY <2>2
  <2> QED  BY <2>1, <2>3 DEF Between
<1>2. CASE Start \/ Stop \/ Die \/ Report
  BY <1>2 DEF Start, Open, Stop, Die, Report, Exit, Advance, Volatile, LinkAhead
<1>3. CASE Filter \/ PutObject \/ Acknowledge \/ Commit \/ MarkCaughtUp
  BY <1>3 DEF Filter, PutObject, Acknowledge, Commit, MarkCaughtUp, batchVars, pageVars, LinkAhead
<1>4. CASE Publish \/ AgeBuffer \/ HourPasses \/ Lapse \/ UNCHANGED vars
  BY <1>4 DEF Publish, AgeBuffer, HourPasses, Lapse, vars, procVars, batchVars, pageVars, LinkAhead
<1> QED  BY <1>1, <1>2, <1>3, <1>4 DEF Next, Work

(* What is left is three natural numbers, so it cannot shrink for ever.    *)
LEMMA RemainingType ==
  ASSUME StreamInvariant
  PROVE  /\ N - cursor \in Nat /\ Stage[pc] \in Nat
         /\ IsFiniteSet(buffer)
         /\ Cardinality({p \in buffer : BucketOf(p) \notin put}) \in Nat
<1> USE DEF StreamInvariant, TypeOK
<1>1. IsFiniteSet(buffer)
  <2>1. IsFiniteSet(Positions)
    BY FS_Interval DEF Positions
  <2> QED  BY <2>1, FS_Subset
<1>2. IsFiniteSet({p \in buffer : BucketOf(p) \notin put})
  BY <1>1, FS_Subset
<1>3. Cardinality({p \in buffer : BucketOf(p) \notin put}) \in Nat
  BY <1>2, FS_CardinalityType
<1>4. N - cursor \in Nat
  BY DEF Cursors
<1>5. Stage[pc] \in Nat
  BY DEF Stage
<1> QED  BY <1>1, <1>3, <1>4, <1>5

(* A put leaves one bucket less to write.                                  *)
LEMMA PutShrinks ==
  ASSUME StreamInvariant, PutObject
  PROVE  Precedes(Remaining', Remaining)
<1> DEFINE Left == {p \in buffer : BucketOf(p) \notin put}
<1>1. PICK p \in buffer : BucketOf(p) \notin put /\ put' = put \union {BucketOf(p)}
  BY DEF PutObject
<1>2. UNCHANGED <<pc, cursor, buffer>>
  BY DEF PutObject, batchVars
<1>3. IsFiniteSet(Left)
  BY RemainingType, FS_Subset
<1>4. Left' \subseteq Left /\ p \in Left /\ p \notin Left'
  BY <1>1, <1>2 DEF BucketOf
<1>5. Cardinality(Left') < Cardinality(Left)
  <2> HIDE DEF Left
  <2>1. Left' \subseteq Left /\ Left' # Left
    BY <1>4
  <2>2. IsFiniteSet(Left') /\ Cardinality(Left') <= Cardinality(Left)
    BY <1>3, <2>1, FS_Subset
  <2>3. Cardinality(Left') # Cardinality(Left)
    BY <1>3, <2>1, FS_Subset
  <2> QED  BY <1>3, <2>2, <2>3, FS_CardinalityType
<1> QED  BY <1>2, <1>5, Lexicographic DEF Remaining, BucketOf

LEMMA WorkShrinks ==
  ASSUME StreamInvariant, LinkAhead, Bounded, Work
  PROVE  Precedes(Remaining', Remaining) \/ (pc' = "down" /\ Finished') \/ IdlePage
<1>1. ASSUME cursor' = cursor, Stage[pc'] < Stage[pc]
      PROVE  Precedes(Remaining', Remaining)
  BY <1>1, Lexicographic DEF Remaining, Stage, BucketOf
<1>2. CASE Fetch \/ Filter \/ Acknowledge \/ Commit \/ MarkCaughtUp
  <2>1. cursor' = cursor
    BY <1>2 DEF Fetch, Filter, Acknowledge, Commit, MarkCaughtUp, batchVars
  <2>2. Stage[pc'] < Stage[pc]
    BY <1>2 DEF Fetch, Filter, Acknowledge, Commit, MarkCaughtUp, Stage
  <2> QED  BY <1>1, <2>1, <2>2
<1>3. CASE PutObject
  BY <1>3, PutShrinks
<1>4. CASE pc = "report" /\ nextCursor # None /\ ~IdlePage /\ Advance
  <2>1. cursor < nextCursor /\ cursor \in Nat /\ nextCursor \in Nat /\ nextCursor <= N
    BY <1>4 DEF LinkAhead, IdlePage, StreamInvariant, TypeOK, Cursors
  <2>2. N - cursor' < N - cursor
    BY <1>4, <2>1 DEF Advance
  <2> QED  BY <2>2, Lexicographic DEF Remaining, Stage, BucketOf
<1>5. CASE pc = "report" /\ nextCursor = None /\ Exit
  <2>1. Finished /\ pc' = "down" /\ row' = row
    BY <1>5 DEF StreamInvariant, BatchAtCommit, Exit, Volatile, durableVars
  <2> QED  BY <2>1 DEF Finished
<1> QED  BY <1>2, <1>3, <1>4, <1>5 DEF Work, Report

(* A backfill reads no record for ever (runner/loop.py: the loop leaves    *)
(* only when next_cursor is None): every step of its process makes less of *)
(* what is left, which is a triple of naturals, or finishes the range, for *)
(* every size of page and every link, but a step on from an empty page with*)
(* a link.  Those it takes as often as Okta serves such pages.             *)
THEOREM RangeTerminates ==
  Spec => [](Remaining \in Nat \X Nat \X Nat) /\ RangeShrinks
<1>1. Init => LinkAhead
  BY DEF Init, InitProcess, LinkAhead
<1>2. LoopInvariant /\ LinkAhead /\ [Next]_vars => LinkAhead'
  BY LinkAheadStep DEF LoopInvariant
<1>3. LoopInvariant => Remaining \in Nat \X Nat \X Nat
  BY RemainingType DEF LoopInvariant, Remaining
<1>4. LoopInvariant /\ LinkAhead
        => [Bounded /\ Work => \/ Precedes(Remaining', Remaining)
                               \/ pc' = "down" /\ Finished'
                               \/ IdlePage]_vars
  <2>1. ASSUME LoopInvariant, LinkAhead, Bounded, Work
        PROVE  Precedes(Remaining', Remaining) \/ (pc' = "down" /\ Finished') \/ IdlePage
    BY <2>1, WorkShrinks DEF LoopInvariant
  <2> QED  BY <2>1
<1> QED  BY <1>1, <1>2, <1>3, <1>4, LoopInvariantHolds, PTL DEF Spec, RangeShrinks

\* Whatever is left, the next page can be answered, of a range with one that
\* leads on or is the last, and the next put made.
NeverStuck ==
  /\ pc = "top" => \E records \in SUBSET visible, link \in Cursors \union {None} :
                     Response(cursor, records, link) /\ (Bounded => link # cursor)
  /\ pc = "flush" => \/ \A p \in buffer : BucketOf(p) \in put
                     \/ \E p \in buffer : /\ BucketOf(p) \notin put
                                          /\ \A q \in buffer : q < p => BucketOf(q) \in put

\* A range serves what it did when it opened, and is asked for page by page.
AtCuts ==
  Bounded => visible = Served /\ {cursor, nextCursor, row.cursor} \subseteq Cuts \union {None}

(* AtCuts is inductive, whoever ends a process.                            *)
LEMMA AtCutsStep ==
  ASSUME AtCuts, [Next]_vars \/ (Volatile("down", 0) /\ UNCHANGED <<logVars, durableVars>>)
  PROVE  AtCuts'
<1> SUFFICES ASSUME Bounded
             PROVE  /\ visible' = Served
                    /\ {cursor', nextCursor', row'.cursor} \subseteq Cuts \union {None}
  BY DEF AtCuts, Served, Cuts
<1> USE DEF AtCuts, logVars, durableVars, batchVars, pageVars
<1>0. 0 \in Cuts
  BY DEF Cuts
<1>1. CASE Fetch
  <2>1. UNCHANGED <<visible, row, cursor>>
    BY <1>1 DEF Fetch
  <2>2. nextCursor' \in {cursor, None} \union (PageEnds \cap Served)
    BY <1>1 DEF Fetch, Response
  <2> QED  BY <2>1, <2>2 DEF Cuts, Served
<1>2. CASE \/ Start \/ Stop \/ Die \/ Exit
           \/ Volatile("down", 0) /\ UNCHANGED <<logVars, durableVars>>
  BY <1>0, <1>2 DEF Start, Open, Stop, Die, Exit, Volatile, StoredCursor
<1>3. CASE Filter \/ PutObject \/ Acknowledge \/ Commit \/ MarkCaughtUp
  BY <1>3 DEF Filter, PutObject, Acknowledge, Commit, MarkCaughtUp
<1>4. CASE pc = "report" /\ nextCursor # None /\ Advance
  BY <1>4 DEF Advance
<1>5. CASE AgeBuffer \/ HourPasses \/ Lapse \/ UNCHANGED vars
  BY <1>5 DEF AgeBuffer, HourPasses, Lapse, vars, procVars
<1>6. ~Publish
  BY DEF Publish
<1> QED  BY <1>1, <1>2, <1>3, <1>4, <1>5, <1>6 DEF Next, Work, Report

(* A range opens at its first page.                                        *)
LEMMA AtCutsInit ==
  ASSUME Init
  PROVE  AtCuts
BY DEF Init, InitLog, InitDurable, InitProcess, AtCuts, Cuts

(* Wherever a page of a range begins there is one that leads on, or ends   *)
(* it.                                                                     *)
LEMMA RangePageAfter ==
  ASSUME Bounded, visible = Served, NEW c \in Cuts
  PROVE  \E records \in SUBSET visible, link \in Cuts \union {None} :
           Response(c, records, link) /\ link # c
<1>1. \A d, e : Between(d, e) = Span(d, e) /\ Between(d, e) \in SUBSET visible
  BY DEF Between, Span
<1>2. Cuts \subseteq Nat
  BY DEF Cuts, Positions
<1>3. CASE Cardinality(Span(c, N)) <= Limit
  <2>1. Response(c, Between(c, N), None) /\ None # c
    BY <1>1, <1>2, <1>3 DEF Response
  <2> QED  BY <1>1, <2>1
<1>4. ASSUME NEW e \in Cuts, c < e, Cardinality(Span(c, e)) <= Limit
      PROVE  Response(c, Between(c, e), e) /\ e # c
  <2>1. e \in PageEnds \cap visible
    BY <1>2, <1>4 DEF Cuts, Served
  <2> QED  BY <1>1, <1>2, <1>4, <2>1 DEF Response
<1>5. \/ Cardinality(Span(c, N)) <= Limit
      \/ \E e \in Cuts : c < e /\ Cardinality(Span(c, e)) <= Limit
  BY LoopAssumption DEF LoopAssumption
<1> QED  BY <1>1, <1>3, <1>4, <1>5

(* A tail has a page after every cursor: the longest that is not too long. *)
LEMMA PageAfter ==
  ASSUME ~Bounded, visible \subseteq Positions, NEW c \in Cursors
  PROVE  \E records \in SUBSET visible, link \in {c} \union visible :
           Response(c, records, link)
<1>1. \A e : IsFiniteSet(Between(c, e)) /\ Cardinality(Between(c, e)) \in Nat
  <2> TAKE e
  <2>1. IsFiniteSet(Positions)
    BY FS_Interval DEF Positions
  <2>2. Between(c, e) \subseteq Positions
    BY DEF Between
  <2> QED  BY <2>1, <2>2, FS_Subset, FS_CardinalityType
<1> DEFINE Fits == {e \in {c} \union visible : c <= e /\ Cardinality(Between(c, e)) <= Limit}
<1>2. c \in Fits
  <2>1. Between(c, c) = {}
    <3>1. \A p \in visible : ~(c < p /\ p <= c)
      BY DEF Positions, Cursors
    <3> QED  BY <3>1 DEF Between
  <2>2. Cardinality(Between(c, c)) <= Limit /\ c <= c
    BY <2>1, FS_EmptySet DEF Cursors
  <2> QED  BY <2>2
<1>3. \A e \in Fits : e \in Cursors /\ e \in Nat /\ e <= N
  BY DEF Cursors, Positions
<1>4. PICK e \in Fits : \A f \in Fits : f <= e
  <2> DEFINE Short == {N - f : f \in Fits}
  <2>1. Short \in SUBSET Nat /\ Short # {}
    BY <1>2, <1>3
  <2>2. PICK m \in Short : \A n \in Short : m <= n
    <3> HIDE DEF Short
    <3> QED  BY <2>1, LeastMember
  <2>3. PICK e \in Fits : m = N - e
    BY <2>2
  <2>4. \A f \in Fits : N - e <= N - f
    BY <2>2, <2>3
  <2>5. \A f \in Fits : f <= e
    BY <1>3, <2>4
  <2> QED  BY <2>5
<1>5. ASSUME Cardinality(Between(c, e)) < Limit, NEW p \in visible, ~(p <= e)
      PROVE  FALSE
  <2> DEFINE Beyond == {q \in visible : e < q}
  <2>1. Beyond \in SUBSET Nat /\ p \in Beyond
    <3>1. visible \subseteq Nat /\ p \in Nat /\ e \in Nat
      BY <1>3, <1>5 DEF Positions
    <3>2. e < p
      BY <1>5, <3>1
    <3> QED  BY <3>1, <3>2
  <2>2. PICK q \in Beyond : \A r \in Beyond : q <= r
    <3> HIDE DEF Beyond
    <3> QED  BY <2>1, LeastMember
  <2>3. Between(c, q) = Between(c, e) \union {q} /\ q \notin Between(c, e)
    <3>1. c <= e /\ e < q /\ q \in visible /\ c \in Nat /\ e \in Nat /\ visible \subseteq Nat
      BY <1>3, <2>2 DEF Positions, Cursors
    <3>2. \A r \in visible : r <= q /\ ~(r <= e) => r = q
      <4> SUFFICES ASSUME NEW r \in visible, r <= q, ~(r <= e)
                   PROVE  r = q
        OBVIOUS
      <4>1. r \in Beyond /\ r \in Nat /\ q \in Nat
        BY <3>1
      <4> QED  BY <2>2, <4>1
    <3>3. c < q /\ q <= q /\ ~(q <= e) /\ \A r \in visible : r <= e => r <= q
      BY <3>1
    <3>4. \A r \in visible : c < r /\ r <= q <=> (c < r /\ r <= e) \/ r = q
      BY <3>2, <3>3
    <3> QED  BY <3>1, <3>3, <3>4 DEF Between
  <2>4. Cardinality(Between(c, q)) = Cardinality(Between(c, e)) + 1
    BY <1>1, <2>3, FS_AddElement
  <2>5. q \in Fits
    <3>1. Cardinality(Between(c, q)) <= Limit
      BY <1>1, <1>5, <2>4
    <3>2. c <= q
      BY <1>3, <2>2 DEF Positions, Cursors
    <3> QED  BY <2>2, <3>1, <3>2
  <2> QED  BY <1>3, <1>4, <2>2, <2>5 DEF Positions
<1>6. /\ e \in {c} \union visible /\ c <= e /\ Cardinality(Between(c, e)) <= Limit
      /\ Between(c, e) \in SUBSET visible
      /\ Cardinality(Between(c, e)) < Limit => \A p \in visible : p <= e
  BY <1>5 DEF Between
<1>7. Response(c, Between(c, e), e)
  BY <1>6 DEF Response
<1> QED  BY <1>6, <1>7

(* The loop waits for nothing but its source, its sink and its store: after*)
(* every cursor it comes to there is a page the source may answer with,    *)
(* and of a range one that leads on or is the last; a flush either has an  *)
(* object to put next or is done.                                          *)
THEOREM LoopNeverStuck == Spec => []NeverStuck
<1>1. LoopInvariant /\ AtCuts => NeverStuck
  <2> SUFFICES ASSUME LoopInvariant, AtCuts
               PROVE  NeverStuck
    OBVIOUS
  <2> USE DEF LoopInvariant, StreamInvariant, TypeOK
  <2>0. Positions \subseteq Cursors /\ Cuts \subseteq Cursors /\ None \notin Cursors
    BY DEF Positions, Cursors, Cuts
  <2>1. \E records \in SUBSET visible, link \in Cursors \union {None} :
          Response(cursor, records, link) /\ (Bounded => link # cursor)
    <3>1. CASE Bounded
      <4>1. visible = Served /\ cursor \in Cuts
        BY <2>0, <3>1 DEF AtCuts
      <4>2. PICK records \in SUBSET visible, link \in Cuts \union {None} :
              Response(cursor, records, link) /\ link # cursor
        BY <3>1, <4>1, RangePageAfter
      <4> QED  BY <2>0, <4>2
    <3>2. CASE ~Bounded
      <4>1. PICK records \in SUBSET visible, link \in {cursor} \union visible :
              Response(cursor, records, link)
        BY <3>2, PageAfter
      <4> QED  BY <2>0, <3>2, <4>1
    <3> QED  BY <3>1, <3>2
  <2>2. ASSUME NEW r \in buffer, BucketOf(r) \notin put
        PROVE  \E p \in buffer : /\ BucketOf(p) \notin put
                                 /\ \A q \in buffer : q < p => BucketOf(q) \in put
    <3> DEFINE Left == {p \in buffer : BucketOf(p) \notin put}
    <3>1. Left \in SUBSET Nat /\ Left # {}
      <4>1. Positions \subseteq Nat
        BY DEF Positions
      <4> QED  BY <2>2, <4>1
    <3>2. PICK p \in Left : \A q \in Left : p <= q
      <4> HIDE DEF Left
      <4> QED  BY <3>1, LeastMember
    <3>3. \A q \in buffer : q < p => BucketOf(q) \in put
      BY <3>1, <3>2 DEF Positions
    <3> QED  BY <3>2, <3>3
  <2> QED  BY <2>1, <2>2 DEF NeverStuck
<1>2. Init => AtCuts
  BY AtCutsInit
<1>3. AtCuts /\ [Next]_vars => AtCuts'
  BY AtCutsStep
<1> QED  BY <1>1, <1>2, <1>3, LoopInvariantHolds, PTL DEF Spec

-----------------------------------------------------------------------------
(* A put is a write of Delivery that takes nothing settled away, a commit  *)
(* settles only what is held, and every other step but a new record is     *)
(* invisible.                                                              *)
LEMMA DeliveryStep ==
  ASSUME LoopInvariant, LoopInvariant', [Next]_vars
  PROVE  [Promise!Next]_(Promise!vars)
<1> USE DEF LoopInvariant, Promise!Positions, Promise!Uids, Positions, Uids
<1>1. CASE UNCHANGED <<visible, row, marked, lake>>
  BY <1>1 DEF Promise!vars, Delivered, UidsOf, Resume, End
<1>2. CASE Publish
  <2>1. UNCHANGED <<row, marked, lake>>
    BY <1>2 DEF Publish, durableVars
  <2>2. Promise!Appear
    <3>1. PICK n \in Positions \ visible :
            /\ \A q \in Positions : q < n => q \in visible
            /\ visible' = visible \union {n}
      BY <1>2 DEF Publish
    <3>2. ~Bounded /\ \A q \in visible : q < n
      BY <1>2, <3>1 DEF Publish, LoopInvariant, StreamInvariant, PollingInOrder, TypeOK
    <3>3. Resume < n
      BY <3>1, <3>2 DEF LoopInvariant, StreamInvariant, CursorsServed, PollingInOrder,
                        Resume, End
    <3> QED
      BY <2>1, <3>1, <3>3 DEF Promise!Appear, LoopInvariant, StreamInvariant, TypeOK,
                              Delivered, UidsOf,
         Resume, End
  <2> QED
    BY <2>2 DEF Promise!Next
<1>3. CASE PutObject
  <2>1. UNCHANGED <<visible, row, marked>>
    BY <1>3, PutAtResume
  <2>2. Delivered' \subseteq Uids /\ marked' \subseteq Delivered'
    BY DEF StreamInvariant, TypeOK, HeldBehind, Delivered, UidsOf
  <2> QED
    BY <2>1, <2>2 DEF Promise!Next, Promise!Write, Resume, End
<1>4. CASE Commit
  <2>1. /\ UNCHANGED <<visible, lake>>
        /\ Resume' \in Resume .. N
    BY <1>4, CommitForward
  <2>2. marked \subseteq marked' /\ marked' \subseteq Delivered' /\ Delivered' = Delivered
    BY <1>4, <2>1 DEF Commit, HeldBehind, Delivered, UidsOf
  <2>3. Promise!Behind(Resume', marked')
    BY <2>1 DEF Promise!Behind, LoopInvariant, StreamInvariant, SettledBehind
  <2> QED
    BY <2>1, <2>2, <2>3 DEF Promise!Next, Promise!Settle
<1> QED
  BY <1>1, <1>2, <1>3, <1>4, DurableSteps

LEMMA PromiseInit ==
  ASSUME Init
  PROVE  Promise!Init
BY DEF Init, InitLog, Served, InitDurable, Promise!Init, Delivered, Resume, UidsOf,
       Promise!Positions, Positions

(* The run loop implements Delivery.                                       *)
THEOREM LoopImplementsDelivery == Spec => ImplementsDelivery
<1>1. Init => Promise!Init
  BY PromiseInit
<1>2. LoopInvariant /\ LoopInvariant' /\ [Next]_vars => [Promise!Next]_(Promise!vars)
  BY DeliveryStep
<1> QED
  BY <1>1, <1>2, LoopInvariantHolds, PTL DEF Spec, ImplementsDelivery,
         Promise!Spec

(* The contract is worth implementing: whatever keeps it loses nothing,    *)
(* keeps what it settled and never resumes further back, with no word of   *)
(* batches, pages or processes.                                            *)
THEOREM DeliveryPromises ==
  ImplementsDelivery => [](NoLoss /\ AckedStaysDurable) /\ [][Resume <= Resume']_Resume
<1> DEFINE Kept == /\ Resume \in Nat
                   /\ marked \subseteq Delivered
                   /\ Promise!Behind(Resume, marked)
<1>1. Promise!Init => Kept
  BY DEF Promise!Init, Promise!Behind, Promise!Positions
<1>2. Kept /\ [Promise!Next]_(Promise!vars) => Kept' /\ [Resume <= Resume']_Resume
  <2> SUFFICES ASSUME Kept, [Promise!Next]_(Promise!vars)
               PROVE  Kept' /\ Resume <= Resume'
    OBVIOUS
  <2> HIDE DEF Kept
  <2>0. Resume \in Nat /\ marked \subseteq Delivered /\ Promise!Behind(Resume, marked)
    BY DEF Kept
  <2>1. CASE Promise!Appear
    <3>1. UNCHANGED <<Delivered, marked, Resume>>
      BY <2>1 DEF Promise!Appear
    <3>2. \A p \in visible' : p \in Nat /\ (p \in visible \/ Resume < p)
      BY <2>1 DEF Promise!Appear, Promise!Positions
    <3>3. Promise!Behind(Resume, marked)'
      BY <2>0, <3>1, <3>2 DEF Promise!Behind
    <3> QED  BY <2>0, <3>1, <3>3 DEF Kept
  <2>2. CASE Promise!Write
    <3>1. UNCHANGED <<visible, marked, Resume>> /\ marked \subseteq Delivered'
      BY <2>2 DEF Promise!Write
    <3>2. Promise!Behind(Resume, marked)'
      BY <2>0, <3>1 DEF Promise!Behind
    <3> QED  BY <2>0, <3>1, <3>2 DEF Kept
  <2>3. CASE Promise!Settle
    <3>1. /\ UNCHANGED <<visible, Delivered>> /\ marked' \subseteq Delivered
          /\ Resume' \in Resume .. N /\ Promise!Behind(Resume', marked')
      BY <2>3 DEF Promise!Settle
    <3>2. Promise!Behind(Resume, marked)'
      BY <3>1 DEF Promise!Behind
    <3>3. Resume' \in Nat /\ Resume <= Resume'
      BY <2>0, <3>1
    <3> QED  BY <3>1, <3>2, <3>3 DEF Kept
  <2>4. CASE UNCHANGED Promise!vars
    <3>1. UNCHANGED <<visible, Delivered, marked, Resume>>
      BY <2>4 DEF Promise!vars
    <3>2. Promise!Behind(Resume, marked)'
      BY <2>0, <3>1 DEF Promise!Behind
    <3> QED  BY <2>0, <3>1, <3>2 DEF Kept
  <2> QED  BY <2>1, <2>2, <2>3, <2>4 DEF Promise!Next
<1>3. Kept => NoLoss /\ AckedStaysDurable
  BY DEF Promise!Behind, NoLoss, AckedStaysDurable
<1> QED  BY <1>1, <1>2, <1>3, PTL DEF ImplementsDelivery, Promise!Spec

-----------------------------------------------------------------------------
(* A record is written under one more key than the processes that ended    *)
(* account for only while it is pending: it was put under other keys by    *)
(* processes that ended with it, and an end takes it out of the batch.     *)
CopiesEarned ==
  \A p \in Positions :
    /\ Cardinality(Copies(p)) <= ends + 1
    /\ p \in pending => Cardinality(Copies(p) \ {Resume}) <= ends
    /\ Resume < p /\ ~Finished /\ p \notin pending => Cardinality(Copies(p)) <= ends

LEMMA CopiesFinite ==
  ASSUME NEW p
  PROVE  IsFiniteSet(Copies(p)) /\ \A k : IsFiniteSet(Copies(p) \ {k})
<1>1. IsFiniteSet(Cursors)
  BY FS_Interval DEF Cursors
<1>2. Copies(p) \subseteq Cursors /\ \A k : Copies(p) \ {k} \subseteq Cursors
  BY DEF Copies
<1> QED  BY <1>1, <1>2, FS_Subset

(* A set of copies with one of them left out, or one added.                *)
LEMMA CopiesBut ==
  ASSUME NEW p, NEW k
  PROVE  /\ Cardinality(Copies(p)) \in Nat /\ Cardinality(Copies(p) \ {k}) \in Nat
         /\ Cardinality(Copies(p) \ {k}) <= Cardinality(Copies(p))
         /\ Cardinality(Copies(p)) <= Cardinality(Copies(p) \ {k}) + 1
<1>1. IsFiniteSet(Copies(p)) /\ IsFiniteSet(Copies(p) \ {k})
  BY CopiesFinite
<1>2. Cardinality(Copies(p) \ {k})
        = IF k \in Copies(p) THEN Cardinality(Copies(p)) - 1 ELSE Cardinality(Copies(p))
  BY <1>1, FS_RemoveElement
<1> QED  BY <1>1, <1>2, FS_CardinalityType

(* A put adds a copy only of what is pending, and only under the key at    *)
(* which the stream would resume.                                          *)
LEMMA PutCopies ==
  ASSUME StreamInvariant, CopiesEarned, PutObject
  PROVE  CopiesEarned'
<1> USE DEF StreamInvariant
<1>1. /\ pc = "flush" /\ UNCHANGED <<row, pending, ends>> /\ buffer = pending /\ ends \in Nat
      /\ Resume' = Resume /\ (Finished' <=> Finished)
  BY DEF PutObject, batchVars, BatchCovers, TypeOK, Resume, End, Finished
<1>2. \A k \in Cursors : k # Resume => lake'[k] = lake[k]
  BY PutAtResume
<1>3. \A k \in Cursors : lake'[k] \subseteq lake[k] \union pending
  BY <1>1 DEF PutObject, TypeOK
<1> SUFFICES ASSUME NEW p \in Positions
             PROVE  /\ Cardinality(Copies(p)') <= ends + 1
                    /\ p \in pending => Cardinality(Copies(p)' \ {Resume}) <= ends
                    /\ Resume < p /\ ~Finished /\ p \notin pending
                         => Cardinality(Copies(p)') <= ends
  BY <1>1 DEF CopiesEarned, Copies
<1>4. Copies(p)' \ {Resume} = Copies(p) \ {Resume}
  BY <1>2 DEF Copies
<1>5. /\ IsFiniteSet(Copies(p)') /\ Cardinality(Copies(p)') \in Nat
      /\ Cardinality(Copies(p)') <= Cardinality(Copies(p)' \ {Resume}) + 1
  <2>1. IsFiniteSet(Cursors)
    BY FS_Interval DEF Cursors
  <2>2. IsFiniteSet(Copies(p)')
    BY <2>1, FS_Subset DEF Copies
  <2>3. Cardinality(Copies(p)' \ {Resume})
          = IF Resume \in Copies(p)' THEN Cardinality(Copies(p)') - 1 ELSE Cardinality(Copies(p)')
    BY <2>2, FS_RemoveElement
  <2> QED  BY <2>2, <2>3, FS_CardinalityType
<1>6. /\ Cardinality(Copies(p)) \in Nat /\ Cardinality(Copies(p) \ {Resume}) \in Nat
      /\ Cardinality(Copies(p)) <= ends + 1
      /\ p \in pending => Cardinality(Copies(p) \ {Resume}) <= ends
      /\ Resume < p /\ ~Finished /\ p \notin pending => Cardinality(Copies(p)) <= ends
  BY CopiesBut DEF CopiesEarned
<1>7. CASE p \in pending
  BY <1>1, <1>4, <1>5, <1>6, <1>7
<1>8. CASE p \notin pending
  <2>1. Copies(p)' \subseteq Copies(p)
    BY <1>3, <1>8 DEF Copies
  <2>2. Cardinality(Copies(p)') <= Cardinality(Copies(p))
    BY <2>1, CopiesFinite, FS_Subset
  <2> QED  BY <1>1, <1>5, <1>6, <1>8, <2>2
<1> QED  BY <1>7, <1>8

(* A commit leaves what is pending behind; what lies after it was not in   *)
(* this batch.                                                             *)
LEMMA CommitCopies ==
  ASSUME StreamInvariant, CopiesEarned, Commit
  PROVE  CopiesEarned'
<1> USE DEF StreamInvariant
<1>1. /\ pc = "commit" /\ UNCHANGED <<lake, ends>> /\ pending' = {}
      /\ Resume \in Nat /\ Resume' \in Nat /\ Resume <= Resume' /\ ~Finished
  BY CommitForward DEF Commit
<1>2. Resume' = Reach /\ \A p \in pending : p <= Reach
  BY <1>1 DEF Commit, BatchCovers, Resume, End, Reach
<1>3. \A p \in Positions : Resume' < p => Resume < p /\ p \notin pending
  BY <1>1, <1>2 DEF Positions
<1>4. \A p : Copies(p)' = Copies(p)
  BY <1>1 DEF Copies
<1> QED  BY <1>1, <1>3, <1>4 DEF CopiesEarned

(* An end costs the record its place in the batch and pays for the copy.   *)
LEMMA EndedCopies ==
  ASSUME StreamInvariant, CopiesEarned, UNCHANGED <<row, lake>>, pending' \in {pending, {}},
         ends' = ends + 1
  PROVE  CopiesEarned'
<1>1. /\ Resume' = Resume /\ (Finished' <=> Finished) /\ ends \in Nat
      /\ \A p : Copies(p)' = Copies(p)
  BY DEF StreamInvariant, TypeOK, Resume, End, Finished, Copies
<1>2. ASSUME NEW p \in Positions
      PROVE  /\ Cardinality(Copies(p)) \in Nat /\ Cardinality(Copies(p) \ {Resume}) \in Nat
             /\ Cardinality(Copies(p) \ {Resume}) <= Cardinality(Copies(p))
             /\ Cardinality(Copies(p)) <= ends + 1
             /\ p \in pending => Cardinality(Copies(p) \ {Resume}) <= ends
  BY CopiesBut DEF CopiesEarned
<1> QED  BY <1>1, <1>2 DEF CopiesEarned

(* Steps that leave the lake, the row and the ends alone add at most       *)
(* records to what is pending, or finish.                                  *)
LEMMA OtherCopies ==
  ASSUME StreamInvariant, CopiesEarned, UNCHANGED <<row, lake, ends>>,
         \/ pending \subseteq pending' /\ \A p \in pending' : Resume < p /\ ~Finished
         \/ pending = {} /\ pending' = {}
  PROVE  CopiesEarned'
<1>1. /\ Resume' = Resume /\ (Finished' <=> Finished) /\ ends \in Nat
      /\ \A p : Copies(p)' = Copies(p)
  BY DEF StreamInvariant, TypeOK, Resume, End, Finished, Copies
<1> SUFFICES ASSUME NEW p \in Positions
             PROVE  /\ Cardinality(Copies(p)) <= ends + 1
                    /\ p \in pending' => Cardinality(Copies(p) \ {Resume}) <= ends
                    /\ Resume < p /\ ~Finished /\ p \notin pending'
                         => Cardinality(Copies(p)) <= ends
  BY <1>1 DEF CopiesEarned
<1>2. /\ Cardinality(Copies(p)) \in Nat /\ Cardinality(Copies(p) \ {Resume}) \in Nat
      /\ Cardinality(Copies(p) \ {Resume}) <= Cardinality(Copies(p))
  BY CopiesBut
<1> QED  BY <1>1, <1>2 DEF CopiesEarned

(* Whatever is pending lies after the resume position of a range that is   *)
(* not finished.                                                           *)
LEMMA PendingAhead ==
  ASSUME StreamInvariant
  PROVE  \A p \in pending : Resume < p /\ ~Finished
BY DEF StreamInvariant, BatchAtCommit, BatchCovers, CursorsServed, Finished, StoredCursor, Resume,
       End

LEMMA CopiesStep ==
  ASSUME StreamInvariant, StreamInvariant', CopiesEarned, [Next]_vars
  PROVE  CopiesEarned'
<1>1. CASE PutObject \/ Commit
  BY <1>1, PutCopies, CommitCopies
<1>2. CASE Stop \/ Die
  BY <1>2, EndedCopies DEF Stop, Die, Volatile, durableVars
<1>3. CASE Start \/ Fetch \/ Filter \/ Acknowledge \/ MarkCaughtUp \/ Publish \/ AgeBuffer
             \/ HourPasses \/ Lapse \/ UNCHANGED vars
  <2>1. /\ UNCHANGED <<row, lake, ends>> /\ Resume' = Resume /\ (Finished' <=> Finished)
    BY <1>3 DEF Start, Open, Fetch, Filter, Acknowledge, MarkCaughtUp, Publish, AgeBuffer,
      HourPasses, Lapse, vars, durableVars, Resume, End, Finished
  <2>2. pending \subseteq pending'
    BY <1>3 DEF Start, Open, Volatile, Fetch, Filter, Acknowledge, MarkCaughtUp, Publish,
      AgeBuffer, HourPasses, Lapse, vars, procVars, batchVars, StreamInvariant, BatchCovers
  <2>3. \A p \in pending' : Resume < p /\ ~Finished
    BY <2>1 DEF StreamInvariant, BatchAtCommit, BatchCovers, CursorsServed, Finished,
      StoredCursor, Resume, End
  <2> QED  BY <2>1, <2>2, <2>3, OtherCopies
<1>4. CASE Report
  <2>1. CASE nextCursor = None
    <3>1. Exit /\ pending = {}
      BY <1>4, <2>1 DEF Report, StreamInvariant, BatchAtCommit
    <3> QED  BY <3>1, OtherCopies DEF Exit, Volatile, durableVars
  <2>2. CASE nextCursor # None
    <3>1. Advance
      BY <1>4, <2>2 DEF Report
    <3> QED  BY <3>1, PendingAhead, OtherCopies DEF Advance, durableVars
  <2> QED  BY <2>1, <2>2
<1> QED  BY <1>1, <1>2, <1>3, <1>4 DEF Next, Work

LEMMA CopiesInit ==
  ASSUME InitDurable, InitProcess
  PROVE  CopiesEarned
<1>1. \A p : Copies(p) = {}
  BY DEF InitDurable, Copies
<1>2. Cardinality({}) = 0 /\ \A k : {} \ {k} = {}
  BY FS_EmptySet
<1> QED  BY <1>1, <1>2 DEF CopiesEarned, InitProcess

(* The lake's surplus is paid for by ends: whatever a replay reads again,  *)
(* however its batches are cut and whatever lapses, a record lies under at *)
(* most one key more than processes ended before their work.               *)
THEOREM CopiesAlwaysBounded == Spec => []CopiesBounded
<1>1. Init => CopiesEarned
  BY CopiesInit DEF Init
<1>2. LoopInvariant /\ LoopInvariant' /\ CopiesEarned /\ [Next]_vars => CopiesEarned'
  BY CopiesStep DEF LoopInvariant
<1>3. CopiesEarned => CopiesBounded
  BY DEF CopiesEarned, CopiesBounded
<1> QED  BY <1>1, <1>2, <1>3, LoopInvariantHolds, PTL DEF Spec

(* The same of an event whose seen row lasts.  It is pending only before a  *)
(* commit has marked it, because filter_unseen drops it afterwards; so all  *)
(* its copies but the one being written were left by processes that ended.  *)
Lasting == Uids \ Lapsable

KeysEarned ==
  /\ marked \ Lapsable \subseteq seen
  /\ \A u \in Lasting :
       /\ Cardinality(KeysOf(u)) <= ends + 1
       /\ u \in UidsOf(pending) => Cardinality(KeysOf(u) \ {Resume}) <= ends
       /\ u \notin marked \union UidsOf(pending) => Cardinality(KeysOf(u)) <= ends

LEMMA KeysBut ==
  ASSUME NEW u, NEW k
  PROVE  /\ IsFiniteSet(KeysOf(u))
         /\ Cardinality(KeysOf(u)) \in Nat /\ Cardinality(KeysOf(u) \ {k}) \in Nat
         /\ Cardinality(KeysOf(u) \ {k}) <= Cardinality(KeysOf(u))
         /\ Cardinality(KeysOf(u)) <= Cardinality(KeysOf(u) \ {k}) + 1
<1>1. IsFiniteSet(Cursors)
  BY FS_Interval DEF Cursors
<1>2. IsFiniteSet(KeysOf(u))
  BY <1>1, FS_Subset DEF KeysOf
<1>3. IsFiniteSet(KeysOf(u) \ {k})
  BY <1>2, FS_Subset
<1>4. Cardinality(KeysOf(u) \ {k})
        = IF k \in KeysOf(u) THEN Cardinality(KeysOf(u)) - 1 ELSE Cardinality(KeysOf(u))
  BY <1>2, FS_RemoveElement
<1> QED  BY <1>2, <1>3, <1>4, FS_CardinalityType

(* A put brings an event under the key at which the stream would resume,   *)
(* and only if it is pending.                                              *)
LEMMA PutKeys ==
  ASSUME StreamInvariant, KeysEarned, PutObject
  PROVE  KeysEarned'
<1> USE DEF StreamInvariant
<1>1. /\ UNCHANGED <<row, seen, marked, pending, ends>> /\ buffer = pending /\ ends \in Nat
      /\ Resume' = Resume /\ Lasting' = Lasting
  BY DEF PutObject, batchVars, BatchCovers, TypeOK, Resume, End, Lasting
<1>2. \A k \in Cursors : k # Resume => lake'[k] = lake[k]
  BY PutAtResume
<1>3. \A k \in Cursors : lake'[k] \subseteq lake[k] \union pending
  BY <1>1 DEF PutObject, TypeOK
<1> SUFFICES ASSUME NEW u \in Lasting
             PROVE  /\ Cardinality(KeysOf(u)') <= ends + 1
                    /\ u \in UidsOf(pending) => Cardinality(KeysOf(u)' \ {Resume}) <= ends
                    /\ u \notin marked \union UidsOf(pending) => Cardinality(KeysOf(u)') <= ends
  BY <1>1 DEF KeysEarned, KeysOf, UidsOf
<1>4. KeysOf(u)' \ {Resume} = KeysOf(u) \ {Resume}
  BY <1>2 DEF KeysOf, UidsOf
<1>5. /\ IsFiniteSet(KeysOf(u)') /\ Cardinality(KeysOf(u)') \in Nat
      /\ Cardinality(KeysOf(u)') <= Cardinality(KeysOf(u)' \ {Resume}) + 1
  <2>1. IsFiniteSet(Cursors)
    BY FS_Interval DEF Cursors
  <2>2. IsFiniteSet(KeysOf(u)')
    BY <2>1, FS_Subset DEF KeysOf
  <2>3. Cardinality(KeysOf(u)' \ {Resume})
          = IF Resume \in KeysOf(u)' THEN Cardinality(KeysOf(u)') - 1 ELSE Cardinality(KeysOf(u)')
    BY <2>2, FS_RemoveElement
  <2> QED  BY <2>2, <2>3, FS_CardinalityType
<1>6. /\ Cardinality(KeysOf(u)) \in Nat /\ Cardinality(KeysOf(u) \ {Resume}) \in Nat
      /\ Cardinality(KeysOf(u)) <= ends + 1
      /\ u \in UidsOf(pending) => Cardinality(KeysOf(u) \ {Resume}) <= ends
      /\ u \notin marked \union UidsOf(pending) => Cardinality(KeysOf(u)) <= ends
  BY KeysBut DEF KeysEarned
<1>7. CASE u \in UidsOf(pending)
  <2>1. Cardinality(KeysOf(u)' \ {Resume}) <= ends
    BY <1>4, <1>6, <1>7
  <2>2. Cardinality(KeysOf(u)' \ {Resume}) \in Nat
    BY <1>4, <1>6
  <2>3. Cardinality(KeysOf(u)') <= ends + 1
    BY <1>1, <1>5, <2>1, <2>2
  <2> QED  BY <1>7, <2>1, <2>3
<1>8. CASE u \notin UidsOf(pending)
  <2>1. KeysOf(u)' \subseteq KeysOf(u)
    BY <1>3, <1>8 DEF KeysOf, UidsOf
  <2>2. Cardinality(KeysOf(u)') <= Cardinality(KeysOf(u))
    BY <2>1, KeysBut, FS_Subset
  <2> QED  BY <1>1, <1>5, <1>6, <1>8, <2>2
<1> QED  BY <1>7, <1>8

(* An end gives up what is pending and pays for the copy it may have left. *)
LEMMA EndedKeys ==
  ASSUME StreamInvariant, KeysEarned, Stop \/ Die
  PROVE  KeysEarned'
<1>1. /\ Resume' = Resume /\ Lasting' = Lasting /\ ends \in Nat /\ ends' = ends + 1
      /\ UNCHANGED <<seen, marked>> /\ UidsOf(pending)' = {}
      /\ \A u : KeysOf(u)' = KeysOf(u)
  BY DEF Stop, Die, Volatile, durableVars, StreamInvariant, TypeOK, Resume, End, KeysOf, UidsOf,
    Lasting
<1>2. ASSUME NEW u \in Lasting
      PROVE  /\ Cardinality(KeysOf(u)) \in Nat /\ Cardinality(KeysOf(u) \ {Resume}) \in Nat
             /\ Cardinality(KeysOf(u) \ {Resume}) <= Cardinality(KeysOf(u))
             /\ Cardinality(KeysOf(u)) <= ends + 1
  BY KeysBut DEF KeysEarned
<1>3. ASSUME NEW u \in Lasting
      PROVE  /\ Cardinality(KeysOf(u)') <= ends' + 1
             /\ Cardinality(KeysOf(u)') <= ends'
  <2>1. KeysOf(u)' = KeysOf(u)
    BY <1>1
  <2>2. Cardinality(KeysOf(u)) <= ends + 1 /\ Cardinality(KeysOf(u)) \in Nat
    BY <1>2
  <2>3. Cardinality(KeysOf(u)) <= ends' /\ Cardinality(KeysOf(u)) <= ends' + 1
    BY <1>1, <2>2
  <2> QED  BY <2>1, <2>3
<1>4. (marked \ Lapsable \subseteq seen)'
  BY <1>1 DEF KeysEarned
<1> QED  BY <1>1, <1>3, <1>4 DEF KeysEarned

(* A step that writes nothing keeps the account when what it adds to the   *)
(* batch is not marked, and what it takes from it is.                      *)
LEMMA OtherKeys ==
  ASSUME StreamInvariant, KeysEarned, UNCHANGED <<lake, ends>>,
         marked' \ Lapsable \subseteq seen', marked \subseteq marked',
         UidsOf(pending) \subseteq marked' \union UidsOf(pending)',
         UidsOf(pending)' # {} => Resume' = Resume,
         \A u \in UidsOf(pending)' \ Lapsable :
           u \notin UidsOf(pending) => u \notin marked
  PROVE  KeysEarned'
<1>1. ends \in Nat /\ Lasting' = Lasting /\ \A u : KeysOf(u)' = KeysOf(u)
  BY DEF StreamInvariant, TypeOK, KeysOf, UidsOf, Lasting
<1> SUFFICES ASSUME NEW u \in Lasting
             PROVE  /\ Cardinality(KeysOf(u)) <= ends + 1
                    /\ u \in UidsOf(pending)' => Cardinality(KeysOf(u) \ {Resume'}) <= ends
                    /\ u \notin marked' \union UidsOf(pending)' => Cardinality(KeysOf(u)) <= ends
  BY <1>1 DEF KeysEarned
<1>2. /\ Cardinality(KeysOf(u)) \in Nat /\ Cardinality(KeysOf(u) \ {Resume}) \in Nat
      /\ Cardinality(KeysOf(u) \ {Resume}) <= Cardinality(KeysOf(u))
  BY KeysBut
<1>3. /\ Cardinality(KeysOf(u)) <= ends + 1
      /\ u \in UidsOf(pending) => Cardinality(KeysOf(u) \ {Resume}) <= ends
      /\ u \notin marked \union UidsOf(pending) => Cardinality(KeysOf(u)) <= ends
  BY DEF KeysEarned
<1>4. u \in UidsOf(pending)' => Resume' = Resume /\ Cardinality(KeysOf(u) \ {Resume}) <= ends
  BY <1>1, <1>2, <1>3 DEF Lasting
<1>5. u \notin marked' \union UidsOf(pending)' => Cardinality(KeysOf(u)) <= ends
  BY <1>3
<1> QED  BY <1>3, <1>4, <1>5

LEMMA KeysStep ==
  ASSUME StreamInvariant, KeysEarned, [Next]_vars
  PROVE  KeysEarned'
<1>1. CASE PutObject
  BY <1>1, PutKeys
<1>2. CASE Stop \/ Die
  BY <1>2, EndedKeys
<1>3. CASE Commit
  <2>1. /\ UNCHANGED <<lake, ends>> /\ UidsOf(pending)' = {}
        /\ marked' = marked \union UidsOf(pending) /\ seen' = seen \union UidsOf(pending)
    BY <1>3 DEF Commit, UidsOf
  <2> QED  BY <2>1, OtherKeys DEF KeysEarned
<1>4. CASE Filter
  <2>1. /\ UNCHANGED <<row, lake, ends, marked, seen>> /\ Resume' = Resume
        /\ UidsOf(pending)' = UidsOf(pending) \union UidsOf(Fresh)
    BY <1>4 DEF Filter, durableVars, Resume, End, UidsOf
  <2>2. \A u \in UidsOf(Fresh) \ Lapsable : u \notin marked
    BY DEF Fresh, UidsOf, KeysEarned
  <2> QED  BY <2>1, <2>2, OtherKeys DEF KeysEarned
<1>5. CASE \/ Start \/ Fetch \/ Acknowledge \/ MarkCaughtUp \/ Publish \/ AgeBuffer \/ HourPasses
           \/ Lapse \/ Report \/ UNCHANGED vars
  <2>1. UNCHANGED <<row, lake, ends, marked>> /\ Resume' = Resume
    BY <1>5 DEF Start, Open, Fetch, Acknowledge, MarkCaughtUp, Publish, AgeBuffer, HourPasses,
      Lapse, Report, Exit, Advance, vars, durableVars, Resume, End
  <2>2. pending' = pending
    <3>1. Report => pending' = pending
      BY DEF Report, Exit, Advance, Volatile, StreamInvariant, BatchAtCommit
    <3>2. Start => pending' = pending
      BY DEF Start, Open, Volatile, StreamInvariant, BatchCovers
    <3> QED  BY <1>5, <3>1, <3>2 DEF Fetch, Acknowledge, MarkCaughtUp, Publish, AgeBuffer,
      HourPasses, Lapse, vars, procVars, batchVars
  <2>3. UidsOf(pending)' = UidsOf(pending)
    BY <2>2 DEF UidsOf
  <2>4. marked' \ Lapsable \subseteq seen'
    <3>1. Lapse => marked' \ Lapsable \subseteq seen'
      BY DEF Lapse, KeysEarned
    <3>2. ~Lapse => seen' = seen
      BY <1>5 DEF Start, Open, Fetch, Acknowledge, MarkCaughtUp, Publish, AgeBuffer, HourPasses,
        Report, Exit, Advance, vars, durableVars
    <3> QED  BY <2>1, <3>1, <3>2 DEF KeysEarned
  <2> QED  BY <2>1, <2>3, <2>4, OtherKeys
<1> QED  BY <1>1, <1>2, <1>3, <1>4, <1>5 DEF Next, Work

(* Another stream's marks only take events out of this stream's account.   *)
LEMMA KeysInterference ==
  ASSUME KeysEarned, UNCHANGED <<row, lake, pending, ends>>, marked \subseteq marked',
         marked' \ Lapsable \subseteq seen'
  PROVE  KeysEarned'
<1>1. /\ Resume' = Resume /\ Lasting' = Lasting /\ UidsOf(pending)' = UidsOf(pending)
      /\ \A u : KeysOf(u)' = KeysOf(u)
  BY DEF Resume, End, Lasting, UidsOf, KeysOf
<1>2. ASSUME NEW u \in Lasting, u \notin marked' \union UidsOf(pending)
      PROVE  u \notin marked \union UidsOf(pending)
  BY <1>2
<1> QED  BY <1>1, <1>2 DEF KeysEarned

LEMMA KeysInit ==
  ASSUME InitDurable, InitProcess
  PROVE  KeysEarned
<1>1. \A u : KeysOf(u) = {}
  BY DEF InitDurable, KeysOf, UidsOf
<1>2. Cardinality({}) = 0 /\ \A k : {} \ {k} = {}
  BY FS_EmptySet
<1> QED  BY <1>1, <1>2 DEF KeysEarned, InitDurable, InitProcess

(* However often the source repeats an event, and however batches and      *)
(* replays are cut: while its seen row lasts, the objects that hold it are *)
(* at most one more than the processes that ended before their work.       *)
THEOREM KeysAlwaysBounded == Spec => []KeysBounded
<1>1. Init => KeysEarned
  BY KeysInit DEF Init
<1>2. LoopInvariant /\ KeysEarned /\ [Next]_vars => KeysEarned'
  BY KeysStep DEF LoopInvariant
<1>3. KeysEarned => KeysBounded
  BY DEF KeysEarned, KeysBounded, Lasting
<1> QED  BY <1>1, <1>2, <1>3, LoopInvariantHolds, PTL DEF Spec

LEMMA AtMostOne ==
  ASSUME NEW S, IsFiniteSet(S), Cardinality(S) <= 1, NEW j \in S, NEW k \in S
  PROVE  j = k
<1> SUFFICES ASSUME j # k
             PROVE  FALSE
  OBVIOUS
<1>1. k \in S \ {j} /\ IsFiniteSet(S \ {j})
  BY FS_Subset
<1>2. Cardinality(S \ {j}) = Cardinality(S) - 1
  BY FS_RemoveElement
<1>3. Cardinality(S \ {j}) # 0 /\ Cardinality(S \ {j}) \in Nat /\ Cardinality(S) \in Nat
  BY <1>1, FS_EmptySet, FS_CardinalityType
<1> QED  BY <1>2, <1>3

(* Until a process ends before its work, no record is in two objects, nor  *)
(* is an event in two whose seen row lasts, however often it is served.    *)
THEOREM OnceUndisturbed ==
  Spec => [](ends = 0 => \A j, k \in Cursors : j # k =>
                           /\ lake[j] \cap lake[k] = {}
                           /\ UidsOf(lake[j]) \cap UidsOf(lake[k]) \subseteq Lapsable)
<1>1. LoopInvariant /\ CopiesBounded /\ KeysBounded /\ ends = 0
        => \A j, k \in Cursors : j # k =>
             /\ lake[j] \cap lake[k] = {}
             /\ UidsOf(lake[j]) \cap UidsOf(lake[k]) \subseteq Lapsable
  <2> SUFFICES ASSUME LoopInvariant, CopiesBounded, KeysBounded, ends = 0,
                      NEW j \in Cursors, NEW k \in Cursors, j # k
               PROVE  /\ lake[j] \cap lake[k] = {}
                      /\ UidsOf(lake[j]) \cap UidsOf(lake[k]) \subseteq Lapsable
    OBVIOUS
  <2>1. lake[j] \subseteq Positions
    BY DEF LoopInvariant, StreamInvariant, TypeOK
  <2>2. ASSUME NEW p \in lake[j] \cap lake[k]
        PROVE  FALSE
    <3>1. j \in Copies(p) /\ k \in Copies(p) /\ IsFiniteSet(Copies(p))
      BY CopiesFinite DEF Copies
    <3>2. Cardinality(Copies(p)) <= 1
      BY <2>1 DEF CopiesBounded
    <3> QED  BY <3>1, <3>2, AtMostOne
  <2>3. ASSUME NEW u \in UidsOf(lake[j]) \cap UidsOf(lake[k]), u \notin Lapsable
        PROVE  FALSE
    <3>1. j \in KeysOf(u) /\ k \in KeysOf(u) /\ IsFiniteSet(KeysOf(u))
      BY KeysBut DEF KeysOf
    <3>2. u \in Uids \ Lapsable
      BY <2>1, <2>3 DEF UidsOf, Uids
    <3>3. Cardinality(KeysOf(u)) <= 1
      BY <3>2 DEF KeysBounded
    <3> QED  BY <3>1, <3>3, AtMostOne
  <2> QED  BY <2>2, <2>3
<1> QED  BY <1>1, CopiesAlwaysBounded, KeysAlwaysBounded, LoopInvariantHolds, PTL

-----------------------------------------------------------------------------
(* Exactly once: a range whose pages are batches of their own, while no    *)
(* seen row lapses.  Its pages end at the same places whatever process     *)
(* reads them, so a replay flushes the very page it replays.               *)

\* No page of the range ends between c and p.
Unbroken(c, p) == \A e \in Cuts : c < e => ~(e < p)

\* What is pending is on the page last read.
WholePages ==
  /\ pc \in {"filter", "flush", "commit", "report"} =>
       /\ page = Between(cursor, End(nextCursor))
       /\ \A p \in page : Unbroken(cursor, p)
  /\ pending # {} => pc \in {"flush", "commit"} /\ pending \subseteq page
  /\ pc \in {"flush", "commit"} /\ nextCursor # None => pending # {}

\* p is on the page that begins after c, and the first there with its uid.
OnPage(c, p) ==
  /\ p \in visible /\ c < p /\ Unbroken(c, p)
  /\ Uid[p] \notin marked
  /\ \A q \in visible : c < q /\ q < p => Uid[q] # Uid[p]

\* What was written under the open key is all from one page, the one that the
\* next flush is about.
OpenPage ==
  ~Finished =>
    \E c \in Cursors :
      /\ c \in Cuts /\ Resume <= c
      /\ \A q \in visible : q <= c => Uid[q] \in marked
      /\ \A p \in lake[Resume] \union pending : OnPage(c, p)

ClosedKeys ==
  /\ seen = marked
  /\ \A k \in Cursors : k < Resume \/ Finished => UidsOf(lake[k]) \subseteq marked
  /\ ~Finished => \A k \in Cursors : Resume < k => lake[k] = {}

RangeInvariant == AtCuts /\ WholePages /\ OpenPage /\ ClosedKeys /\ EffectivelyOnce

(* No page begins inside another: if each of two cuts has a record on its  *)
(* page that comes after the other, they are the same.                     *)
LEMMA SamePage ==
  ASSUME NEW c \in Cuts, NEW d \in Cuts,
         NEW p, c < p, d < p, Unbroken(c, p),
         NEW q, c < q, d < q, Unbroken(d, q)
  PROVE  c = d
BY DEF Unbroken, Cuts, Positions

(* Steps that leave the log, the durable state and what is pending alone.  *)
LEMMA RangeQuiet ==
  ASSUME RangeInvariant, UNCHANGED <<visible, row, seen, marked, lake>>,
         pending' \in {pending, {}}
  PROVE  OpenPage' /\ ClosedKeys' /\ EffectivelyOnce'
<1>1. OpenPage'
  BY DEF RangeInvariant, OpenPage, Finished, Resume, End, OnPage
<1>2. ClosedKeys' /\ EffectivelyOnce'
  BY DEF RangeInvariant, ClosedKeys, EffectivelyOnce, Finished, Resume, End, UidsOf
<1> QED  BY <1>1, <1>2

(* The page that is open may also be another one.                          *)
LEMMA OpenedAt ==
  ASSUME NEW d \in Cursors, d \in Cuts, Resume <= d,
         \A q \in visible : q <= d => Uid[q] \in marked,
         \A p \in lake[Resume] \union pending' : OnPage(d, p),
         UNCHANGED <<visible, row, marked, lake>>
  PROVE  OpenPage'
<1>1. Resume' = Resume /\ (Finished' <=> Finished)
  BY DEF Resume, End, Finished
<1>2. \A p : OnPage(d, p)' <=> OnPage(d, p)
  BY DEF OnPage, Unbroken, Cuts
<1> QED  BY <1>1, <1>2 DEF OpenPage, Cuts

\* A process that starts, or ends.
LEMMA RangeEnded ==
  ASSUME LoopInvariant, RangeInvariant,
         NEW p \in {"top", "down"}, NEW c \in {0, StoredCursor}, Volatile(p, c),
         UNCHANGED <<logVars, durableVars>>
  PROVE  RangeInvariant'
<1>1. UNCHANGED <<visible, row, seen, marked, lake>>
  BY DEF logVars, durableVars
<1>2. AtCuts'
  BY <1>1 DEF Volatile, RangeInvariant, AtCuts, StoredCursor, Cuts, Served
<1>3. WholePages'
  BY DEF Volatile, WholePages
<1>4. pending' = {}
  BY DEF Volatile
<1> QED  BY <1>1, <1>2, <1>3, <1>4, RangeQuiet DEF RangeInvariant

(* A page that is fetched ends at the first page end after its cursor.     *)
LEMMA RangeFetch ==
  ASSUME OnePageBatches, LoopInvariant, RangeInvariant, Fetch
  PROVE  WholePages'
<1> USE DEF LoopInvariant, StreamInvariant, RangeInvariant
<1>1. /\ page' = Between(cursor, End(nextCursor')) /\ Cardinality(page') <= Limit
      /\ nextCursor' \in {cursor} \union Cuts \union {None}
  BY DEF Fetch, Response, OnePageBatches, End, AtCuts, Cuts, Served, TypeOK, Cursors
<1>2. /\ pc' = "filter" /\ pending = {} /\ pending' = {} /\ cursor' = cursor
      /\ UNCHANGED visible /\ cursor \in Cuts /\ visible = Served
  BY DEF Fetch, logVars, batchVars, WholePages, AtCuts, TypeOK, Cursors, OnePageBatches
<1>3. ASSUME NEW p \in page', NEW e \in Cuts, cursor < e, e < p
      PROVE  FALSE
  <2>1. PICK d \in Cuts \union {N} : d = End(nextCursor')
    BY <1>1, <1>2 DEF End
  <2>2. page' = Span(cursor, d)
    BY <1>1, <1>2, <2>1 DEF Between, Span
  <2>3. p \in Span(e, d)
    BY <1>3, <2>2 DEF Span
  <2>4. Cardinality(Span(cursor, d)) > Limit
    BY <1>2, <1>3, <2>3 DEF OnePageBatches
  <2>5. IsFiniteSet(Span(cursor, d))
    <3>1. IsFiniteSet(Positions)
      BY FS_Interval DEF Positions
    <3> QED  BY <3>1, FS_Subset DEF Span, Served
  <2> QED  BY <1>1, <2>2, <2>4, <2>5, FS_CardinalityType
<1>4. page' = Between(cursor, End(nextCursor))'
  BY <1>1, <1>2 DEF Between, End
<1> QED  BY <1>2, <1>3, <1>4 DEF WholePages, Unbroken, Cuts

LEMMA RangeFilter ==
  ASSUME OnePageBatches, LoopInvariant, RangeInvariant, Filter
  PROVE  RangeInvariant'
<1> USE DEF LoopInvariant, StreamInvariant, RangeInvariant
<1>1. /\ pc = "filter" /\ pending = {} /\ buffer = {} /\ pending' = Fresh /\ ~Finished
      /\ pc' = IF nextCursor = None \/ ShouldFlush(Fresh) THEN "flush" ELSE "report"
      /\ UNCHANGED <<visible, row, seen, marked, lake, cursor, page, nextCursor>>
      /\ Fresh \subseteq page /\ visible \subseteq Positions
  BY DEF Filter, logVars, durableVars, pageVars, WholePages, BatchCovers, BatchAtCommit, Fresh,
    TypeOK
<1>2. /\ page = Between(cursor, End(nextCursor)) /\ \A p \in page : Unbroken(cursor, p)
      /\ cursor \in Cursors /\ cursor \in Cuts /\ End(nextCursor) \in Cursors
  BY <1>1 DEF WholePages, AtCuts, OnePageBatches, TypeOK, End, Cursors
<1>3. \A c, d : Between(c, d)' = Between(c, d) /\ (Unbroken(c, d)' <=> Unbroken(c, d))
  BY <1>1 DEF Between, Unbroken, Cuts
<1>4. Fresh # {} => ShouldFlush(Fresh)
  <2>1. IsFiniteSet(Positions)
    BY FS_Interval DEF Positions
  <2>2. IsFiniteSet(Fresh)
    BY <1>1, <2>1, FS_Subset DEF TypeOK
  <2>3. Cardinality(Fresh) \in Nat /\ (Cardinality(Fresh) = 0 <=> Fresh = {})
    BY <2>2, FS_CardinalityType, FS_EmptySet
  <2> QED  BY <2>3 DEF ShouldFlush, OnePageBatches
<1>5. AtCuts' /\ WholePages'
  <2>1. AtCuts'
    BY AtCutsStep DEF Next, Work
  <2> QED  BY <1>1, <1>3, <1>4, <2>1 DEF WholePages, End, ShouldFlush
<1>6. ClosedKeys' /\ EffectivelyOnce'
  BY <1>1 DEF ClosedKeys, EffectivelyOnce, Finished, Resume, End, UidsOf
<1>7. ASSUME NEW p \in Fresh
      PROVE  OnPage(cursor, p)
  <2>1. p \in page /\ p \in visible /\ cursor < p /\ Unbroken(cursor, p)
    BY <1>1, <1>2 DEF Between
  <2>2. Uid[p] \notin marked
    BY DEF Fresh, ClosedKeys
  <2>3. ASSUME NEW q \in visible, cursor < q, q < p, Uid[q] = Uid[p]
        PROVE  FALSE
    <3>1. q \in page
      BY <1>1, <1>2, <2>1, <2>3 DEF Between, Cursors, Positions
    <3>2. p <= q
      BY <2>3, <3>1 DEF Fresh
    <3> QED  BY <1>1, <2>1, <2>3, <3>2 DEF Positions
  <2> QED  BY <2>1, <2>2, <2>3 DEF OnPage
<1>8. Resume <= cursor /\ \A q \in visible : q <= cursor => Uid[q] \in marked
  <2>1. Resume = batchKey /\ Reach = cursor /\ batchKey \in Nat
    BY <1>1 DEF BatchAtCommit, CursorsServed, Finished, StoredCursor, Resume, End, Reach, TypeOK,
      Cursors
  <2>2. ASSUME NEW q \in visible, q <= cursor
        PROVE  Uid[q] \in marked
    <3>1. q <= batchKey \/ batchKey < q
      BY <1>1, <2>1 DEF Positions
    <3> QED  BY <1>1, <2>1, <2>2, <3>1 DEF BatchCovers, SettledBehind, UidsOf
  <2> QED  BY <1>1, <2>1, <2>2 DEF BatchAtCommit
<1>9. PICK c \in Cursors :
        /\ c \in Cuts /\ Resume <= c
        /\ \A q \in visible : q <= c => Uid[q] \in marked
        /\ \A p \in lake[Resume] : OnPage(c, p)
  BY <1>1 DEF OpenPage
<1>10. ASSUME Fresh = {}
       PROVE  OpenPage'
  <2>1. \A p \in lake[Resume] \union pending' : OnPage(c, p)
    BY <1>1, <1>9, <1>10
  <2> QED  BY <1>1, <1>9, <2>1, OpenedAt
<1>11. ASSUME lake[Resume] = {}
       PROVE  OpenPage'
  <2>1. \A p \in lake[Resume] \union pending' : OnPage(cursor, p)
    BY <1>1, <1>7, <1>11
  <2> QED  BY <1>1, <1>2, <1>8, <2>1, OpenedAt
<1>12. ASSUME Fresh # {} /\ lake[Resume] # {}
       PROVE  OpenPage'
  <2>1. PICK f \in Fresh, p \in lake[Resume] : TRUE
    BY <1>12
  <2>2. OnPage(cursor, f) /\ OnPage(c, p)
    BY <1>7, <1>9
  <2>3. c < f /\ cursor < p
    <3>1. ASSUME NEW d \in Cursors, NEW g \in visible, Uid[g] \notin marked,
                 \A q \in visible : q <= d => Uid[q] \in marked
          PROVE  d < g
      BY <1>1, <3>1 DEF Cursors, Positions
    <3> QED  BY <1>2, <1>8, <1>9, <2>2, <3>1 DEF OnPage
  <2>4. c = cursor
    BY <1>2, <1>9, <2>2, <2>3, SamePage DEF OnPage
  <2>5. \A q \in lake[Resume] \union pending' : OnPage(cursor, q)
    BY <1>1, <1>7, <1>9, <2>4
  <2> QED  BY <1>1, <1>2, <1>8, <2>5, OpenedAt
<1>13. OpenPage'
  BY <1>10, <1>11, <1>12
<1> QED  BY <1>5, <1>6, <1>13

LEMMA RangePut ==
  ASSUME LoopInvariant, RangeInvariant, PutObject
  PROVE  RangeInvariant'
<1> USE DEF LoopInvariant, StreamInvariant, RangeInvariant
<1>1. /\ pc = "flush"
      /\ UNCHANGED <<visible, row, seen, marked, pc, cursor, page, nextCursor, pending>>
      /\ ~Finished /\ buffer = pending /\ visible \subseteq Positions
  BY DEF PutObject, logVars, batchVars, pageVars, BatchAtCommit, BatchCovers, TypeOK
<1>2. Resume = batchKey /\ Resume \in Cursors /\ Resume' = Resume /\ ~Finished'
  BY <1>1 DEF BatchAtCommit, CursorsServed, Finished, StoredCursor, Resume, End, TypeOK
<1>3. /\ \A k \in Cursors : k # Resume => lake'[k] = lake[k]
      /\ lake'[Resume] \subseteq lake[Resume] \union pending
  BY <1>1, <1>2 DEF PutObject, TypeOK
<1>4. \A c, d : Between(c, d)' = Between(c, d) /\ (Unbroken(c, d)' <=> Unbroken(c, d))
  BY <1>1 DEF Between, Unbroken, Cuts
<1>5. AtCuts' /\ WholePages'
  <2>1. AtCuts'
    BY AtCutsStep DEF Next, Work
  <2> QED  BY <1>1, <1>4, <2>1 DEF WholePages, End
<1>6. PICK c \in Cursors :
        /\ c \in Cuts /\ Resume <= c
        /\ \A q \in visible : q <= c => Uid[q] \in marked
        /\ \A p \in lake[Resume] \union pending : OnPage(c, p)
  BY <1>1 DEF OpenPage
<1>7. \A d, p : OnPage(d, p)' <=> OnPage(d, p)
  BY <1>1, <1>4 DEF OnPage
<1>8. OpenPage'
  BY <1>1, <1>2, <1>3, <1>6, <1>7 DEF OpenPage, Cuts
<1>9. ClosedKeys'
  <2>1. \A k \in Cursors : k < Resume \/ Resume < k => lake'[k] = lake[k]
    BY <1>2, <1>3 DEF Cursors
  <2> QED  BY <1>1, <1>2, <2>1 DEF ClosedKeys, UidsOf
<1>10. ASSUME NEW k \in Cursors, k # Resume, NEW p \in lake'[k]
       PROVE  Uid[p] \in marked
  BY <1>1, <1>2, <1>3, <1>10 DEF ClosedKeys, UidsOf, Cursors
<1>11. ASSUME NEW p \in lake'[Resume], NEW q \in lake'[Resume], Uid[p] = Uid[q]
       PROVE  p = q
  <2>1. OnPage(c, p) /\ OnPage(c, q)
    BY <1>3, <1>6
  <2>2. /\ p \in visible /\ c < p /\ \A r \in visible : c < r /\ r < p => Uid[r] # Uid[p]
        /\ q \in visible /\ c < q /\ \A r \in visible : c < r /\ r < q => Uid[r] # Uid[q]
    BY ONLY <2>1 DEF OnPage
  <2>3. ~(p < q) /\ ~(q < p)
    BY ONLY <1>11, <2>2
  <2>4. p \in Nat /\ q \in Nat
    BY ONLY <1>1, <2>2, LoopAssumption DEF Positions, LoopAssumption
  <2> QED  BY ONLY <2>3, <2>4
<1>12. \A p \in lake'[Resume] : Uid[p] \notin marked
  BY <1>3, <1>6 DEF OnPage
<1>13. EffectivelyOnce'
  BY <1>2, <1>3, <1>10, <1>11, <1>12 DEF EffectivelyOnce
<1> QED  BY <1>5, <1>8, <1>9, <1>13

LEMMA RangeCommit ==
  ASSUME OnePageBatches, LoopInvariant, RangeInvariant, Commit
  PROVE  RangeInvariant'
<1> USE DEF LoopInvariant, StreamInvariant, RangeInvariant
<1>1. /\ pc = "commit" /\ pc' = "report" /\ pending' = {} /\ ~Finished
      /\ row' = [cursor |-> nextCursor, committed |-> TRUE]
      /\ UNCHANGED <<visible, lake, cursor, page, nextCursor>>
      /\ seen' = marked' /\ marked' = marked \union UidsOf(pending)
      /\ visible \subseteq Positions /\ cursor \in Cursors /\ nextCursor \in Cursors \union {None}
      /\ lake \in [Cursors -> SUBSET Positions] /\ Resume \in Cursors
  BY DEF Commit, logVars, pageVars, BatchAtCommit, ClosedKeys, TypeOK, Resume, End, Cursors
<1>2. /\ Resume' = End(nextCursor) /\ (Finished' <=> nextCursor = None)
      /\ Resume' \in Cursors
  BY <1>1 DEF Resume, End, Finished, Cursors
<1>3. \A c, d : Between(c, d)' = Between(c, d) /\ (Unbroken(c, d)' <=> Unbroken(c, d))
  BY <1>1 DEF Between, Unbroken, Cuts
<1>4. AtCuts' /\ WholePages'
  <2>1. AtCuts'
    BY AtCutsStep DEF Next, Work
  <2> QED  BY <1>1, <1>3, <2>1 DEF WholePages, End
<1>5. EffectivelyOnce'
  BY <1>1 DEF EffectivelyOnce
<1>6. SettledBehind'
  BY CommitInv
<1>7. PICK c \in Cursors :
        /\ c \in Cuts /\ Resume <= c
        /\ \A q \in visible : q <= c => Uid[q] \in marked
        /\ \A p \in lake[Resume] \union pending : OnPage(c, p)
  BY <1>1 DEF OpenPage
<1>8. ASSUME nextCursor # None
      PROVE  Resume < nextCursor /\ \A p \in lake[Resume] : p <= nextCursor
  <2>1. PICK f \in pending : f \in page
    BY <1>1, <1>8 DEF WholePages
  <2>2. /\ page = Between(cursor, nextCursor) /\ Unbroken(cursor, f)
        /\ cursor \in Cuts /\ nextCursor \in Cuts /\ nextCursor \in Cursors
    BY <1>1, <1>8, <2>1 DEF WholePages, AtCuts, OnePageBatches, End, Cursors
  <2>3. f \in visible /\ cursor < f /\ f <= nextCursor
    BY <2>1, <2>2 DEF Between
  <2>4. OnPage(c, f)
    BY <1>7, <2>1
  <2>5. c = cursor
    BY <1>7, <2>2, <2>3, <2>4, SamePage DEF OnPage
  <2>6. Resume < nextCursor /\ cursor < nextCursor
    BY <1>1, <1>7, <2>2, <2>3, <2>5 DEF Cursors, Positions
  <2>7. ASSUME NEW p \in lake[Resume], nextCursor < p
        PROVE  FALSE
    <3>1. Unbroken(cursor, p)
      BY <1>7, <2>5 DEF OnPage
    <3> QED  BY <2>2, <2>6, <2>7, <3>1 DEF Unbroken
  <2>8. \A p \in lake[Resume] : p \in Nat
    BY <1>1 DEF Positions
  <2> QED  BY <2>2, <2>6, <2>7, <2>8 DEF Cursors
<1>9. UidsOf(lake[Resume]) \subseteq marked'
  <2> SUFFICES ASSUME NEW p \in lake[Resume]
               PROVE  Uid[p] \in marked'
    BY DEF UidsOf
  <2>1. p \in visible
    BY <1>7 DEF OnPage
  <2>2. p <= Resume'
    BY <1>1, <1>2, <1>8, <2>1 DEF End, Positions
  <2> QED  BY <1>1, <1>6, <2>1, <2>2 DEF SettledBehind
<1>10. ClosedKeys'
  <2>1. \A k \in Cursors : UidsOf(lake[k]) \subseteq marked'
    <3> TAKE k \in Cursors
    <3>1. CASE k < Resume
      BY <1>1, <3>1 DEF ClosedKeys
    <3>2. CASE Resume < k
      BY <1>1, <3>2 DEF ClosedKeys, UidsOf
    <3>3. CASE k = Resume
      BY <1>9, <3>3
    <3> QED  BY <1>1, <3>1, <3>2, <3>3 DEF Cursors
  <2>2. \A k : UidsOf(lake[k])' = UidsOf(lake[k])
    BY <1>1 DEF UidsOf
  <2>3. nextCursor # None => \A k \in Cursors : Resume' < k => lake[k] = {}
    BY <1>1, <1>2, <1>8 DEF ClosedKeys, End, Cursors
  <2> QED  BY <1>1, <1>2, <2>1, <2>2, <2>3 DEF ClosedKeys
<1>11. OpenPage'
  <2> SUFFICES ASSUME nextCursor # None
               PROVE  OpenPage'
    BY <1>2 DEF OpenPage
  <2>1. PICK e \in Cursors : e = nextCursor /\ Resume' = e /\ Resume < e /\ e \in Cuts
    BY <1>1, <1>2, <1>8 DEF End, AtCuts, OnePageBatches
  <2>2. lake'[Resume'] \union pending' = {}
    BY <1>1, <2>1 DEF ClosedKeys
  <2>3. e \in Cuts'
    BY <2>1 DEF Cuts
  <2>4. \A q \in visible' : q <= e => Uid[q] \in marked'
    BY <1>6, <2>1 DEF SettledBehind
  <2>5. Resume' <= e
    BY <2>1 DEF Cursors
  <2> QED  BY <2>2, <2>3, <2>4, <2>5 DEF OpenPage
<1> QED  BY <1>4, <1>5, <1>10, <1>11

\* The rest of the loop's steps.
LEMMA RangeOther ==
  ASSUME LoopInvariant, RangeInvariant,
         \/ Acknowledge \/ MarkCaughtUp \/ AgeBuffer \/ HourPasses \/ UNCHANGED vars
         \/ pc = "report" /\ nextCursor # None /\ Advance
  PROVE  RangeInvariant'
<1> USE DEF LoopInvariant, StreamInvariant, RangeInvariant
<1>1. UNCHANGED <<visible, row, seen, marked, lake, pending>>
  BY DEF Acknowledge, MarkCaughtUp, AgeBuffer, HourPasses, Advance, vars, logVars, durableVars,
    procVars, batchVars
<1>2. \A c, d : Between(c, d)' = Between(c, d) /\ (Unbroken(c, d)' <=> Unbroken(c, d))
  BY <1>1 DEF Between, Unbroken, Cuts
<1>3. CASE pc = "report" /\ nextCursor # None /\ Advance
  <2>1. /\ cursor' = nextCursor /\ nextCursor' = None /\ pc' \in {"top", "stamp"}
        /\ pending = {} /\ pending' = {} /\ row' = row
    BY <1>1, <1>3 DEF Advance, WholePages
  <2>2. AtCuts'
    BY <1>3, AtCutsStep DEF Next, Work, Report
  <2>3. WholePages'
    BY <2>1 DEF WholePages
  <2> QED  BY <1>1, <2>2, <2>3, RangeQuiet
<1>4. CASE Acknowledge \/ MarkCaughtUp \/ AgeBuffer \/ HourPasses \/ UNCHANGED vars
  <2>1. /\ UNCHANGED <<cursor, page, nextCursor>>
        /\ pc' = pc \/ (pc = "flush" /\ pc' = "commit") \/ (pc = "stamp" /\ pc' = "top")
    <3>1. CASE Acknowledge
      BY <3>1 DEF Acknowledge, pageVars
    <3>2. CASE MarkCaughtUp
      BY <3>2 DEF MarkCaughtUp, batchVars, pageVars
    <3>3. CASE AgeBuffer \/ HourPasses \/ UNCHANGED vars
      BY <3>3 DEF AgeBuffer, HourPasses, vars, procVars, batchVars, pageVars
    <3> QED  BY <1>4, <3>1, <3>2, <3>3
  <2>2. AtCuts'
    BY <1>4, AtCutsStep DEF Next, Work
  <2>3. pc' \in {"filter", "flush", "commit", "report"}
          => pc \in {"filter", "flush", "commit", "report"}
    BY <2>1
  <2>4. (pc' \in {"flush", "commit"} <=> pc \in {"flush", "commit"})
    BY <2>1
  <2>5. WholePages'
    BY <1>1, <1>2, <2>1, <2>3, <2>4 DEF WholePages, End
  <2> QED  BY <1>1, <2>2, <2>5, RangeQuiet
<1> QED  BY <1>3, <1>4

LEMMA RangeStep ==
  ASSUME OnePageBatches, LoopInvariant, RangeInvariant, [Next]_vars
  PROVE  RangeInvariant'
<1>1. CASE Start \/ Stop \/ Die \/ Exit
  BY <1>1, RangeEnded DEF Start, Open, Stop, Die, Exit
<1>2. CASE Fetch
  <2>1. UNCHANGED <<visible, row, seen, marked, lake, pending>>
    BY <1>2 DEF Fetch, logVars, durableVars, batchVars
  <2>2. AtCuts'
    BY <1>2, AtCutsStep DEF RangeInvariant, Next, Work
  <2> QED  BY <1>2, <2>1, <2>2, RangeFetch, RangeQuiet DEF RangeInvariant
<1>3. CASE Filter \/ PutObject \/ Commit
  BY <1>3, RangeFilter, RangePut, RangeCommit
<1>4. CASE Report
  BY <1>1, <1>4, RangeOther DEF Report
<1>5. ~Publish /\ ~Lapse
  BY DEF OnePageBatches, Publish, Lapse
<1> QED  BY <1>1, <1>2, <1>3, <1>4, <1>5, RangeOther DEF Next, Work

LEMMA RangeInit ==
  ASSUME Init
  PROVE  RangeInvariant
<1> USE DEF Init, InitLog, Served, InitDurable, InitProcess
<1>1. row.cursor = None /\ pc = "down" /\ pending = {} /\ cursor = 0 /\ nextCursor = None
      /\ Resume = 0 /\ 0 \in Cursors /\ visible \subseteq Positions
  BY DEF Resume, Cursors
<1>3. AtCuts /\ WholePages
  BY <1>1, AtCutsInit DEF WholePages
<1>4. OpenPage
  <2>1. /\ lake[Resume] \union pending = {} /\ 0 <= 0 /\ \A q \in visible : ~(q <= 0)
        /\ 0 \in Cuts
    BY <1>1 DEF Positions, Cuts
  <2> QED  BY <1>1, <2>1 DEF OpenPage
<1>5. ClosedKeys /\ EffectivelyOnce
  BY DEF ClosedKeys, EffectivelyOnce, UidsOf
<1> QED  BY <1>3, <1>4, <1>5 DEF RangeInvariant

(* A range whose every page with news is a batch of its own leaves one     *)
(* copy of each uid, whatever processes die, at whatever put and with      *)
(* whatever part of a flush done, while no seen row lapses.                *)
THEOREM OncePerRange == OnePageBatches /\ Spec => []EffectivelyOnce
<1>1. OnePageBatches /\ LoopInvariant /\ RangeInvariant /\ [Next]_vars => RangeInvariant'
  BY RangeStep
<1>2. Init => RangeInvariant
  BY RangeInit
<1>3. RangeInvariant => EffectivelyOnce
  BY DEF RangeInvariant
<1>4. OnePageBatches => []OnePageBatches
  <2>1. OnePageBatches => OnePageBatches'
    BY DEF OnePageBatches
  <2> QED  BY <2>1, PTL
<1> QED  BY <1>1, <1>2, <1>3, <1>4, LoopInvariantHolds, PTL DEF Spec
=============================================================================
