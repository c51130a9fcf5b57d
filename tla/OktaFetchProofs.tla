-------------------------- MODULE OktaFetchProofs --------------------------
(***************************************************************************)
(* What holds of every fetch, for every token lifetime, rate limit and     *)
(* number of attempts: the types, the margin of the token, the reserve of  *)
(* the budget, the nonce handshake and that it ends.                       *)
(***************************************************************************)
EXTENDS OktaFetch, TLAPS

-----------------------------------------------------------------------------
(* The inductive invariant.                                                *)

\* A cached token outlives its renewal, and a request that has not taken its
\* unit of time has two left.
Margin ==
  /\ renewIn > 0 => expiresIn > renewIn
  /\ pc = "get" => expiresIn > (IF waited THEN 0 ELSE 1)

\* Who was told that the budget is at its reserve either still knows it, with
\* the moment it resets, or is asleep until then.
Told ==
  low => \/ /\ remaining <= Reserve
            /\ resetAt = resetIn
            /\ \/ pc \in {"idle", "budget", "raised"}
               \/ pc = "sleep" /\ after = "budget"
         \/ pc = "sleep" /\ sleepLeft >= resetIn

\* The second attempt of a mint carries the nonce that was just handed out.
Handshake ==
  /\ pc = "post" /\ attempt = 2 => nonce = "current"
  /\ cause # "nonce"

\* The two halves of TypeOK.
Places ==
  /\ pc \in {"idle", "budget", "auth", "post", "get", "sleep", "raised"}
  /\ after \in {"budget", "auth"}
  /\ nonce \in {"none", "stale", "current"}
  /\ attempt \in {1, 2}
  /\ cause \in {"none", "transient", "client", "token", "nonce"}
  /\ waited \in BOOLEAN
  /\ low \in BOOLEAN

Counts ==
  /\ sleepLeft \in 0 .. 2 * Window + 1
  /\ failures \in 0 .. MaxAttempts
  /\ renewIn \in 0 .. RenewAfter
  /\ remaining \in 0 .. Unknown
  /\ resetAt \in 0 .. Window
  /\ expiresIn \in 0 .. Life
  /\ left \in 0 .. Budget
  /\ resetIn \in 1 .. Window
  /\ others \in 0 .. MaxOthers

\* A fetch that goes on has an attempt left.
Trying == pc \notin {"idle", "raised"} => failures < MaxAttempts

FetchInvariant == Places /\ Counts /\ Trying /\ Margin /\ Told /\ Handshake

-----------------------------------------------------------------------------
(* What FetchAssumption says of the numbers, one at a time.                *)
LEMMA Constants ==
  /\ Life \in Nat /\ Life >= 3 /\ RenewAfter \in Nat /\ RenewAfter + 2 <= Life
  /\ Window \in Nat \ {0} /\ Budget \in Nat \ {0} /\ MaxAttempts \in Nat \ {0}
  /\ Reserve \in Nat /\ Reserve < Budget /\ MaxOthers \in Nat
  /\ Unknown \in Nat /\ Unknown = Budget + 1 /\ NoHeader = 2 * Window + 1
<1>1. Life \in Nat /\ Life >= 1
  BY FetchAssumption
<1>2. RenewAfter \in Nat
  BY <1>1 DEF RenewAfter
<1>3. RenewAfter + 2 <= Life
  BY <1>1, <1>2, FetchAssumption DEF RenewAfter
<1>4. Life # 2
  BY <1>3 DEF RenewAfter
<1> QED  BY <1>1, <1>2, <1>3, <1>4, FetchAssumption DEF Unknown, NoHeader

(* Every action keeps the invariant, part by part.                         *)

LEMMA InitInv ==
  ASSUME Init
  PROVE  FetchInvariant
<1> USE Constants DEF Init
<1>1. Places
  BY DEF Places
<1>2. Counts
  BY DEF Counts
<1>3. Trying /\ Margin /\ Told /\ Handshake
  BY DEF Trying, Margin, Told, Handshake
<1> QED  BY <1>1, <1>2, <1>3 DEF FetchInvariant

LEMMA CallInv ==
  ASSUME FetchInvariant, Call
  PROVE  FetchInvariant'
<1> USE Constants DEF Call, Goto, Raise, okta
<1>1. Places'
  BY DEF FetchInvariant, Places
<1>2. Counts' /\ Trying'
  BY DEF FetchInvariant, Places, Counts, Trying
<1>3. Margin'
  BY DEF FetchInvariant, Places, Counts, Margin
<1>4. Told'
  BY DEF FetchInvariant, Places, Counts, Told
<1>5. Handshake'
  BY DEF FetchInvariant, Places, Handshake
<1> QED  BY <1>1, <1>2, <1>3, <1>4, <1>5 DEF FetchInvariant

LEMMA RespectBudgetInv ==
  ASSUME FetchInvariant, RespectBudget
  PROVE  FetchInvariant'
<1> USE Constants DEF RespectBudget, Goto, Sleep, Until, Least, okta
<1>1. Places'
  BY DEF FetchInvariant, Places
<1>2. Counts' /\ Trying'
  BY DEF FetchInvariant, Places, Counts, Trying
<1>3. Margin'
  BY DEF FetchInvariant, Places, Counts, Margin
<1>4. Told'
  BY DEF FetchInvariant, Places, Counts, Told
<1>5. Handshake'
  BY DEF FetchInvariant, Places, Handshake
<1> QED  BY <1>1, <1>2, <1>3, <1>4, <1>5 DEF FetchInvariant

LEMMA HeadersInv ==
  ASSUME FetchInvariant, Headers
  PROVE  FetchInvariant'
<1> USE Constants DEF Headers, Goto, okta
<1>1. Places'
  BY DEF FetchInvariant, Places
<1>2. Counts' /\ Trying'
  BY DEF FetchInvariant, Places, Counts, Trying
<1>3. Margin'
  BY DEF FetchInvariant, Places, Counts, Margin
<1>4. Told'
  BY DEF FetchInvariant, Places, Counts, Told
<1>5. Handshake'
  BY DEF FetchInvariant, Places, Handshake
<1> QED  BY <1>1, <1>2, <1>3, <1>4, <1>5 DEF FetchInvariant

LEMMA ChallengeInv ==
  ASSUME FetchInvariant, Challenge
  PROVE  FetchInvariant'
<1> USE Constants DEF Challenge, Goto, Raise, okta
<1>1. Places'
  BY DEF FetchInvariant, Places
<1>2. Counts' /\ Trying'
  BY DEF FetchInvariant, Places, Counts, Trying
<1>3. Margin'
  BY DEF FetchInvariant, Places, Counts, Margin
<1>4. Told'
  BY DEF FetchInvariant, Places, Counts, Told
<1>5. Handshake'
  BY DEF FetchInvariant, Places, Handshake
<1> QED  BY <1>1, <1>2, <1>3, <1>4, <1>5 DEF FetchInvariant

LEMMA MintedInv ==
  ASSUME FetchInvariant, Minted
  PROVE  FetchInvariant'
<1> USE Constants DEF Minted, Goto
<1>1. Places'
  BY DEF FetchInvariant, Places
<1>2. Counts' /\ Trying'
  BY DEF FetchInvariant, Places, Counts, Trying
<1>3. Margin'
  BY DEF FetchInvariant, Places, Counts, Margin
<1>4. Told'
  BY DEF FetchInvariant, Places, Counts, Told
<1>5. Handshake'
  BY DEF FetchInvariant, Places, Handshake
<1> QED  BY <1>1, <1>2, <1>3, <1>4, <1>5 DEF FetchInvariant

LEMMA MintRefusedInv ==
  ASSUME FetchInvariant, MintRefused
  PROVE  FetchInvariant'
<1> USE Constants DEF MintRefused, Raise, okta
<1>1. Places'
  BY DEF FetchInvariant, Places
<1>2. Counts' /\ Trying'
  BY DEF FetchInvariant, Places, Counts, Trying
<1>3. Margin'
  BY DEF FetchInvariant, Places, Counts, Margin
<1>4. Told'
  BY DEF FetchInvariant, Places, Counts, Told
<1>5. Handshake'
  BY DEF FetchInvariant, Places, Handshake
<1> QED  BY <1>1, <1>2, <1>3, <1>4, <1>5 DEF FetchInvariant

LEMMA TransportErrorInv ==
  ASSUME FetchInvariant, TransportError
  PROVE  FetchInvariant'
<1> USE Constants DEF TransportError, Transient, Raise, Sleep, Backoff
<1>1. Places'
  BY DEF FetchInvariant, Places
<1>2. Counts' /\ Trying'
  BY DEF FetchInvariant, Places, Counts, Trying
<1>3. Margin'
  BY DEF FetchInvariant, Places, Counts, Margin
<1>4. Told'
  BY DEF FetchInvariant, Places, Counts, Told
<1>5. Handshake'
  BY DEF FetchInvariant, Places, Handshake
<1> QED  BY <1>1, <1>2, <1>3, <1>4, <1>5 DEF FetchInvariant

LEMMA AnsweredInv ==
  ASSUME FetchInvariant, Answered
  PROVE  FetchInvariant'
<1> USE Constants DEF Answered, Observe, Goto, Transient, Raise, Sleep, Backoff
<1>1. Places'
  <2>1. low' \in BOOLEAN
    <3>1. (left - 1 <= Reserve) \in BOOLEAN
      OBVIOUS
    <3>2. low' = (left - 1 <= Reserve) \/ low' = low
      BY Zenon DEF Answered, Observe
    <3> QED  BY <3>1, <3>2, Zenon DEF FetchInvariant, Places
  <2> QED  BY <2>1 DEF FetchInvariant, Places
<1>2. Counts' /\ Trying'
  <2>1. failures' \in 0 .. MaxAttempts /\ sleepLeft' \in 0 .. 2 * Window + 1 /\ Trying'
    BY DEF FetchInvariant, Places, Counts, Trying
  <2>2. left' \in 0 .. Budget /\ remaining' \in 0 .. Unknown /\ resetAt' \in 0 .. Window
    BY DEF FetchInvariant, Counts
  <2> QED  BY <2>1, <2>2 DEF FetchInvariant, Counts
<1>3. Margin'
  BY DEF FetchInvariant, Places, Counts, Margin
<1>4. Told'
  BY DEF FetchInvariant, Places, Counts, Told
<1>5. Handshake'
  BY DEF FetchInvariant, Places, Handshake
<1> QED  BY <1>1, <1>2, <1>3, <1>4, <1>5 DEF FetchInvariant

LEMMA RateLimitedInv ==
  ASSUME FetchInvariant, RateLimited
  PROVE  FetchInvariant'
<1> USE Constants DEF RateLimited, Sleep, Until, Least
<1>1. Places'
  BY DEF FetchInvariant, Places
<1>2. Counts' /\ Trying'
  BY DEF FetchInvariant, Places, Counts, Trying
<1>3. Margin'
  BY DEF FetchInvariant, Places, Counts, Margin
<1>4. Told'
  BY DEF FetchInvariant, Places, Counts, Told
<1>5. Handshake'
  BY DEF FetchInvariant, Places, Handshake
<1> QED  BY <1>1, <1>2, <1>3, <1>4, <1>5 DEF FetchInvariant

LEMMA WakeInv ==
  ASSUME FetchInvariant, Wake
  PROVE  FetchInvariant'
<1> USE Constants DEF Wake, Goto, okta
<1>1. Places'
  BY DEF FetchInvariant, Places
<1>2. Counts' /\ Trying'
  BY DEF FetchInvariant, Places, Counts, Trying
<1>3. Margin'
  BY DEF FetchInvariant, Places, Counts, Margin
<1>4. Told'
  BY DEF FetchInvariant, Places, Counts, Told
<1>5. Handshake'
  BY DEF FetchInvariant, Places, Handshake
<1> QED  BY <1>1, <1>2, <1>3, <1>4, <1>5 DEF FetchInvariant

LEMMA RestartInv ==
  ASSUME FetchInvariant, Restart
  PROVE  FetchInvariant'
<1> USE Constants DEF Restart, Fresh
<1>1. Places'
  BY DEF FetchInvariant, Places
<1>2. Counts' /\ Trying'
  BY DEF FetchInvariant, Places, Counts, Trying
<1>3. Margin'
  BY DEF FetchInvariant, Places, Counts, Margin
<1>4. Told'
  BY DEF FetchInvariant, Places, Counts, Told
<1>5. Handshake'
  BY DEF FetchInvariant, Places, Handshake
<1> QED  BY <1>1, <1>2, <1>3, <1>4, <1>5 DEF FetchInvariant

LEMMA TickInv ==
  ASSUME FetchInvariant, Tick
  PROVE  FetchInvariant'
<1> USE Constants DEF Tick, Less
<1>1. Places'
  BY DEF FetchInvariant, Places
<1>2. Counts' /\ Trying'
  BY DEF FetchInvariant, Places, Counts, Trying
<1>3. Margin'
  BY DEF FetchInvariant, Places, Counts, Margin
<1>4. Told'
  <2>1. CASE resetIn = 1
    BY <2>1 DEF Told
  <2>2. CASE resetIn # 1
    <3>1. low' = low /\ resetIn' = resetIn - 1 /\ resetAt' = Less(resetAt)
      BY <2>2
    <3>2. CASE pc = "sleep" /\ sleepLeft >= resetIn
      BY <2>2, <3>1, <3>2 DEF FetchInvariant, Counts, Told
    <3>3. CASE remaining <= Reserve /\ resetAt = resetIn
      BY <2>2, <3>1, <3>3 DEF FetchInvariant, Counts, Told
    <3>4. CASE ~low
      BY <3>1, <3>4 DEF Told
    <3> QED  BY <3>2, <3>3, <3>4 DEF FetchInvariant, Told
  <2> QED  BY <2>1, <2>2
<1>5. Handshake'
  BY DEF FetchInvariant, Places, Handshake
<1> QED  BY <1>1, <1>2, <1>3, <1>4, <1>5 DEF FetchInvariant

LEMMA WorldInv ==
  ASSUME FetchInvariant, OthersSpend \/ RenewNonce
  PROVE  FetchInvariant'
<1> USE Constants DEF OthersSpend, RenewNonce, client, okta
<1>1. Places'
  BY DEF FetchInvariant, Places
<1>2. Counts' /\ Trying'
  BY DEF FetchInvariant, Places, Counts, Trying
<1>3. Margin'
  BY DEF FetchInvariant, Places, Counts, Margin
<1>4. Told'
  BY DEF FetchInvariant, Places, Counts, Told
<1>5. Handshake'
  BY DEF FetchInvariant, Places, Handshake
<1> QED  BY <1>1, <1>2, <1>3, <1>4, <1>5 DEF FetchInvariant

LEMMA NextInv ==
  ASSUME FetchInvariant, [Next]_vars
  PROVE  FetchInvariant'
<1>1. CASE Call \/ Restart \/ Tick \/ OthersSpend \/ RenewNonce
  BY <1>1, CallInv, RestartInv, TickInv, WorldInv
<1>2. CASE RespectBudget \/ Headers \/ Wake
  BY <1>2, RespectBudgetInv, HeadersInv, WakeInv
<1>3. CASE Challenge \/ Minted \/ MintRefused
  BY <1>3, ChallengeInv, MintedInv, MintRefusedInv
<1>4. CASE TransportError \/ Answered \/ RateLimited
  BY <1>4, TransportErrorInv, AnsweredInv, RateLimitedInv
<1>5. CASE UNCHANGED vars
  BY <1>5 DEF vars, client, okta, FetchInvariant, Places, Counts, Trying, Margin, Told, Handshake
<1> QED  BY <1>1, <1>2, <1>3, <1>4, <1>5 DEF Next, Step

-----------------------------------------------------------------------------
(* The clock, the budget and the token of OktaSource.fetch stay in step.   *)
THEOREM FetchInvariantHolds == Spec => []FetchInvariant
<1> QED  BY InitInv, NextInv, PTL DEF Spec

(* No wait is longer than two windows and a fetch never fails more often   *)
(* than max_attempts, the counter of the loop of fetch.                    *)
THEOREM FetchTypeCorrect == Spec => []TypeOK
<1>1. FetchInvariant => TypeOK
  BY DEF FetchInvariant, Places, Counts, TypeOK
<1> QED  BY <1>1, FetchInvariantHolds, PTL

(* authorize hands out no token that expires before the page request that  *)
(* carries it is read, for every lifetime Okta gives a token.              *)
THEOREM TokenAlwaysLive == Spec => []TokenLive
<1>1. FetchInvariant => TokenLive
  BY DEF FetchInvariant, Places, Counts, Margin, TokenLive
<1> QED  BY <1>1, FetchInvariantHolds, PTL

(* After an answer that shows the reserve reached, or a 429, the source    *)
(* sends nothing until the window resets, through retries and new fetches. *)
THEOREM ReserveAlwaysKept == Spec => []ReserveKept
<1>1. FetchInvariant => ReserveKept
  BY DEF FetchInvariant, Told, ReserveKept
<1> QED  BY <1>1, FetchInvariantHolds, PTL

(* The second post of a mint has the nonce the first was refused for, so   *)
(* DPoP's challenge never ends in an error.                                *)
THEOREM NonceAlwaysAccepted == Spec => []NonceNeverFatal
<1>1. FetchInvariant => NonceNeverFatal
  BY DEF FetchInvariant, Handshake, NonceNeverFatal
<1> QED  BY <1>1, FetchInvariantHolds, PTL
-----------------------------------------------------------------------------
(* A fetch that is going on comes nearer its end with every step.          *)

LEMMA Lexicographic ==
  ASSUME NEW a, NEW b, NEW c, NEW d, NEW e, NEW v, NEW w, NEW x, NEW y, NEW z,
         \/ a < v
         \/ a = v /\ b < w
         \/ a = v /\ b = w /\ c < x
         \/ a = v /\ b = w /\ c = x /\ d < y
         \/ a = v /\ b = w /\ c = x /\ d = y /\ e < z
  PROVE  Precedes(<<a, b, c, d, e>>, <<v, w, x, y, z>>)
<1> DEFINE s == <<a, b, c, d, e>>
           t == <<v, w, x, y, z>>
<1>1. CASE a < v
  <2>1. 1 \in 1 .. 5 /\ 1 .. 1 - 1 = {}
    OBVIOUS
  <2> QED  BY <1>1, <2>1 DEF Precedes
<1>2. CASE a = v /\ b < w
  <2>1. 2 \in 1 .. 5 /\ 1 .. 2 - 1 = {1}
    OBVIOUS
  <2> QED  BY <1>2, <2>1 DEF Precedes
<1>3. CASE a = v /\ b = w /\ c < x
  <2>1. 3 \in 1 .. 5 /\ 1 .. 3 - 1 = {1, 2}
    OBVIOUS
  <2> QED  BY <1>3, <2>1 DEF Precedes
<1>4. CASE a = v /\ b = w /\ c = x /\ d < y
  <2>1. 4 \in 1 .. 5 /\ 1 .. 4 - 1 = {1, 2, 3}
    OBVIOUS
  <2> QED  BY <1>4, <2>1 DEF Precedes
<1>5. CASE a = v /\ b = w /\ c = x /\ d = y /\ e < z
  <2>1. 5 \in 1 .. 5 /\ 1 .. 5 - 1 = {1, 2, 3, 4}
    OBVIOUS
  <2> QED  BY <1>5, <2>1 DEF Precedes
<1> QED  BY <1>1, <1>2, <1>3, <1>4, <1>5

\* The fetch is over, or has less ahead of it.
Nearer == pc' \in {"idle", "raised"} \/ Precedes(Ahead', Ahead)

Drought == IF Dry THEN 1 ELSE 0
Rest == IF pc = "sleep" THEN sleepLeft ELSE IF waited THEN 0 ELSE 1

LEMMA NearerIf ==
  ASSUME \/ MaxAttempts - failures' < MaxAttempts - failures
         \/ failures' = failures /\ MaxOthers - others' < MaxOthers - others
         \/ failures' = failures /\ others' = others /\ Drought' < Drought
         \/ /\ failures' = failures /\ others' = others /\ Drought' = Drought
            /\ Place' < Place
         \/ /\ failures' = failures /\ others' = others /\ Drought' = Drought
            /\ Place' = Place /\ Rest' < Rest
  PROVE  Precedes(Ahead', Ahead)
<1>1. Ahead = <<MaxAttempts - failures, MaxOthers - others, Drought, Place, Rest>>
  BY DEF Ahead, Drought, Rest
<1>2. Ahead' = <<MaxAttempts - failures', MaxOthers - others', Drought', Place', Rest'>>
  BY DEF Ahead, Drought, Rest
<1> QED  BY <1>1, <1>2, Lexicographic, Zenon

\* A request that is made or a place that is passed changes neither the clock
\* nor the budget, unless the fetch fails or ends.
LEMMA PassNearer ==
  ASSUME FetchInvariant, pc \notin {"idle", "raised"},
         RespectBudget \/ Headers \/ Challenge \/ Minted \/ Wake
  PROVE  Nearer
<1> USE Constants
<1>1. failures' = failures /\ others' = others /\ left' = left /\ resetIn' = resetIn
  BY DEF RespectBudget, Headers, Challenge, Minted, Wake, okta
<1>2. pc' \in {"idle", "raised"} \/ Place' < Place
  BY DEF RespectBudget, Headers, Challenge, Minted, Wake, Goto, Sleep, Raise, Place,
    FetchInvariant, Places
<1>3. Drought' = Drought \/ Drought' < Drought
  <2>1. Dry' => Dry
    <3>1. CASE Wake
      BY <1>1, <3>1 DEF Wake, Dry, FetchInvariant, Counts
    <3>2. CASE RespectBudget \/ Headers \/ Challenge \/ Minted
      BY <1>1, <3>2 DEF RespectBudget, Headers, Challenge, Minted, Dry
    <3> QED  BY <3>1, <3>2
  <2> QED  BY <2>1 DEF Drought
<1>4. CASE pc' \in {"idle", "raised"}
  BY <1>4 DEF Nearer
<1>5. CASE Place' < Place
  BY <1>1, <1>3, <1>5, NearerIf DEF Nearer
<1> QED  BY <1>2, <1>4, <1>5

\* A failure is counted before the fetch goes on.
LEMMA AnswerNearer ==
  ASSUME FetchInvariant, MintRefused \/ TransportError \/ Answered
  PROVE  Nearer
<1> USE Constants
<1>1. pc' \in {"idle", "raised"} \/ failures' = failures + 1
  BY DEF MintRefused, TransportError, Answered, Transient, Raise, Goto
<1>2. failures' = failures + 1 => MaxAttempts - failures' < MaxAttempts - failures
  BY DEF FetchInvariant, Counts
<1> QED  BY <1>1, <1>2, NearerIf DEF Nearer

\* After a 429 the fetch sleeps past the reset.
LEMMA RateLimitedNearer ==
  ASSUME FetchInvariant, RateLimited
  PROVE  Nearer
<1> USE Constants
<1>1. failures' = failures /\ others' = others
  BY DEF RateLimited
<1>2. Dry
  BY DEF RateLimited, Dry
<1>3. pc' = "sleep" /\ sleepLeft' >= resetIn'
  BY DEF RateLimited, Sleep, Until, Least, FetchInvariant, Counts
<1>4. Drought' < Drought
  BY <1>2, <1>3 DEF Drought, Dry
<1> QED  BY <1>1, <1>4, NearerIf DEF Nearer

\* Time shortens a wait or is spent on the request, and a reset ends a drought.
LEMMA TickNearer ==
  ASSUME FetchInvariant, pc \notin {"idle", "raised"}, Tick
  PROVE  Nearer
<1> USE Constants
<1>1. failures' = failures /\ others' = others
  BY DEF Tick
<1>2. Place' = Place
  BY DEF Tick, Place
<1>3. Rest' < Rest
  BY DEF Tick, Rest, FetchInvariant, Counts, Places
<1>4. Dry' => Dry
  BY DEF Tick, Dry, FetchInvariant, Counts
<1>5. Drought' = Drought \/ Drought' < Drought
  BY <1>4 DEF Drought
<1> QED  BY <1>1, <1>2, <1>3, <1>5, NearerIf DEF Nearer

LEMMA OthersNearer ==
  ASSUME FetchInvariant, OthersSpend
  PROVE  Nearer
<1>1. failures' = failures /\ MaxOthers - others' < MaxOthers - others
  BY Constants DEF OthersSpend, client, FetchInvariant, Counts
<1> QED  BY <1>1, NearerIf DEF Nearer

(* Every fetch is finite, whatever the org answers and however its budget  *)
(* is shared: the loop of fetch and the waits of _until and _backoff each  *)
(* bring it nearer a page or an exception, and what is ahead of it is five *)
(* natural numbers.                                                        *)
THEOREM FetchTerminates ==
  Spec => [](Ahead \in Nat \X Nat \X Nat \X Nat \X Nat) /\ FetchShrinks
<1> DEFINE Going == pc \notin {"idle", "raised"}
<1>1. FetchInvariant /\ [Next]_vars => [Going => Nearer]_vars
  <2>1. ASSUME FetchInvariant, Next, Going
        PROVE  Nearer
    <3>1. CASE Call \/ Restart \/ RenewNonce
      BY <2>1, <3>1 DEF Call, Restart, RenewNonce
    <3>2. CASE Tick \/ OthersSpend
      BY <2>1, <3>2, TickNearer, OthersNearer
    <3>3. CASE RespectBudget \/ Headers \/ Challenge \/ Minted \/ Wake
      BY <2>1, <3>3, PassNearer
    <3>4. CASE MintRefused \/ TransportError \/ Answered \/ RateLimited
      BY <2>1, <3>4, AnswerNearer, RateLimitedNearer
    <3> QED  BY <2>1, <3>1, <3>2, <3>3, <3>4 DEF Next, Step
  <2> QED  BY <2>1
<1>2. FetchInvariant => Ahead \in Nat \X Nat \X Nat \X Nat \X Nat
  <2> SUFFICES ASSUME FetchInvariant
               PROVE  Ahead \in Nat \X Nat \X Nat \X Nat \X Nat
    OBVIOUS
  <2>1. MaxAttempts - failures \in Nat /\ MaxOthers - others \in Nat
    BY Constants DEF FetchInvariant, Counts
  <2>2. Place \in Nat /\ Rest \in Nat /\ Drought \in Nat
    BY Constants DEF FetchInvariant, Places, Counts, Place, Rest, Drought
  <2> QED  BY <2>1, <2>2 DEF Ahead, Rest, Drought
<1> QED  BY <1>1, <1>2, FetchInvariantHolds, PTL DEF Spec, FetchShrinks, Nearer
=============================================================================
