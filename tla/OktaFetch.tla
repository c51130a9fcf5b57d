----------------------------- MODULE OktaFetch -----------------------------
(***************************************************************************)
(* OktaSource.fetch (sources/okta/source.py) with the credentials it asks  *)
(* for headers (sources/okta/auth.py): one page is requested until it is   *)
(* answered, through rate limits, transient failures, the DPoP nonce       *)
(* handshake and token renewal.                                            *)
(*                                                                         *)
(* Time passes in units of half a rate-limit window (30 s).  Every instant *)
(* is kept as a countdown from now.  The org's budget is shared: other     *)
(* clients spend it too.  The clocks of Okta and the connector agree.      *)
(***************************************************************************)
EXTENDS Naturals

CONSTANTS
  Dpop,         \* the app requires proof-of-possession (DpopAuth)
  Life,         \* expires_in of an access token
  Window,       \* RATE_LIMIT_WINDOW_SECONDS
  Budget,       \* requests the org may make per window
  Reserve,      \* rate_limit_reserve
  MaxAttempts,  \* max_attempts
  MaxOthers,    \* requests other clients make (bound)
  TokenFlaky    \* whether the token endpoint may fail transiently

ASSUME FetchAssumption ==
  /\ {Dpop, TokenFlaky} \subseteq BOOLEAN
  /\ {Life, Window, Budget, MaxAttempts} \subseteq Nat \ {0}
  /\ {Reserve, MaxOthers} \subseteq Nat
  /\ Reserve < Budget
  /\ Life - (Life * 4) \div 5 >= 2

VARIABLES
  pc,         \* where fetch is: idle, budget, auth, post, get, sleep, raised
  after,      \* where it goes on after a sleep
  sleepLeft,
  waited,     \* the request in flight has already taken a unit of time
  failures,   \* transient failures of this fetch
  renewIn,    \* until the cached token is due for renewal; 0 is no token
  nonce,      \* the cached DPoP nonce: none, stale or current
  attempt,    \* token requests of this mint
  remaining,  \* _remaining: 0 .. Budget, or Unknown
  resetAt,    \* until _reset_at
  cause       \* why fetch raised

\* Okta and the rest of the org
VARIABLES
  expiresIn,  \* until the cached token expires
  left,       \* requests left in this window
  resetIn,    \* until the window ends
  others,     \* requests made by other clients
  low         \* this process was told in this window that the budget is at
              \* its reserve

client == <<pc, after, sleepLeft, waited, failures, renewIn, nonce, attempt,
            remaining, resetAt, cause>>
okta   == <<expiresIn, left, resetIn, others, low>>
vars   == <<client, okta>>

Unknown == Budget + 1
NoHeader == 2 * Window + 1

\* Mutant: the token is used for all of its lifetime.
RenewAtExpiry == Life

\* RENEWAL_MARGIN of 0.8
RenewAfter == (Life * 4) \div 5

\* The whole fetch state of a process that has just started.
Fresh ==
  /\ pc' = "idle" /\ after' = "budget" /\ sleepLeft' = 0 /\ waited' = FALSE
  /\ failures' = 0 /\ renewIn' = 0 /\ nonce' = "none" /\ attempt' = 1
  /\ remaining' = Unknown /\ resetAt' = 0 /\ cause' = "none"
  /\ expiresIn' = 0 /\ low' = FALSE

Init ==
  /\ pc = "idle" /\ after = "budget" /\ sleepLeft = 0 /\ waited = FALSE
  /\ failures = 0 /\ renewIn = 0 /\ nonce = "none" /\ attempt = 1
  /\ remaining = Unknown /\ resetAt = 0 /\ cause = "none"
  /\ expiresIn = 0 /\ low = FALSE
  /\ left = Budget /\ resetIn = Window /\ others = 0

-----------------------------------------------------------------------------
(* Sleeping and raising.                                                   *)

Least(a, b) == IF a < b THEN a ELSE b

\* _until: bounded by two windows, plus jitter of less than a unit.
Until(reset) ==
  {Least(IF reset = NoHeader THEN Window ELSE reset, 2 * Window) + j : j \in {0, 1}}

\* _backoff: at most 30 s, with full jitter.
Backoff == {0, 1}

Sleep(waits, next) ==
  /\ sleepLeft' \in waits
  /\ after' = next
  /\ pc' = "sleep"
  /\ UNCHANGED cause

Raise(why) ==
  /\ pc' = "raised"
  /\ cause' = why
  /\ UNCHANGED <<sleepLeft, after>>

Goto(next) ==
  /\ pc' = next
  /\ UNCHANGED <<sleepLeft, after, cause>>

\* Mutants: one attempt too many; attempts that are not counted.
TransientOneMore ==
  /\ failures' = failures + 1
  /\ IF failures' > MaxAttempts THEN Raise("transient") ELSE Sleep(Backoff, "budget")
TransientForever ==
  /\ UNCHANGED failures
  /\ Sleep(Backoff, "budget")

\* A transport error or a retryable status, on whichever request it hits.
Transient ==
  /\ failures' = failures + 1
  /\ IF failures' >= MaxAttempts THEN Raise("transient") ELSE Sleep(Backoff, "budget")

-----------------------------------------------------------------------------
(* fetch.                                                                  *)

\* A cursor that is no query on this org's endpoint is refused unread.
Call ==
  /\ pc = "idle"
  /\ Goto("budget") \/ Raise("client")
  /\ failures' = 0
  /\ UNCHANGED <<waited, renewIn, nonce, attempt, remaining, resetAt, okta>>

\* Mutant: the last reserved request is spent.
RespectBudgetLate ==
  /\ pc = "budget"
  /\ IF remaining = Unknown \/ remaining >= Reserve
     THEN Goto("auth") /\ UNCHANGED remaining
     ELSE Sleep(Until(resetAt), "auth") /\ remaining' = Unknown
  /\ UNCHANGED <<waited, failures, renewIn, nonce, attempt, resetAt, okta>>

\* _respect_budget: wait for the reset before the 429, not after it.
RespectBudget ==
  /\ pc = "budget"
  /\ IF remaining = Unknown \/ remaining > Reserve
     THEN Goto("auth") /\ UNCHANGED remaining
     ELSE Sleep(Until(resetAt), "auth") /\ remaining' = Unknown
  /\ UNCHANGED <<waited, failures, renewIn, nonce, attempt, resetAt, okta>>

\* auth.headers, asked for by every attempt: the cached token, or a new mint.
Headers ==
  /\ pc = "auth"
  /\ Goto(IF renewIn > 0 THEN "get" ELSE "post")
  /\ waited' = FALSE
  /\ attempt' = 1
  /\ UNCHANGED <<failures, renewIn, nonce, remaining, resetAt, okta>>

\* Mutant: the retry repeats the proof that was refused.
ChallengeIgnored ==
  /\ pc = "post"
  /\ Dpop /\ nonce # "current"
  /\ IF attempt = 1
     THEN /\ attempt' = 2
          /\ waited' = FALSE
          /\ Goto("post")
     ELSE Raise("nonce") /\ UNCHANGED <<attempt, waited>>
  /\ UNCHANGED <<failures, renewIn, nonce, remaining, resetAt, okta>>

\* A nonce Okta has renewed is still honoured for three days, so it may refuse
\* a missing or a renewed one, and never the one it has just handed out.
Challenge ==
  /\ pc = "post"
  /\ Dpop /\ nonce # "current"
  /\ IF attempt = 1
     THEN /\ nonce' = "current"
          /\ attempt' = 2
          /\ waited' = FALSE
          /\ Goto("post")
     ELSE Raise("nonce") /\ UNCHANGED <<nonce, attempt, waited>>
  /\ UNCHANGED <<failures, renewIn, remaining, resetAt, okta>>

\* Okta issued the token at some moment of the request; the connector counts
\* the margin from the answer.
Minted ==
  /\ pc = "post"
  /\ Dpop => nonce # "none"
  /\ renewIn' = RenewAfter
  /\ \E elapsed \in IF waited THEN {0, 1} ELSE {0} : expiresIn' = Life - elapsed
  /\ waited' = FALSE
  /\ Goto("get")
  /\ UNCHANGED <<failures, nonce, attempt, remaining, resetAt, left, resetIn,
                 others, low>>

\* Any status of the token endpoint but 200 is an AuthError.
MintRefused ==
  /\ pc = "post"
  /\ \E why \in {"client"} \union (IF TokenFlaky THEN {"token"} ELSE {}) : Raise(why)
  /\ UNCHANGED <<waited, failures, renewIn, nonce, attempt, remaining, resetAt, okta>>

\* httpx.TransportError, from either request: both are inside the try.
TransportError ==
  /\ pc \in {"post", "get"}
  /\ Transient
  /\ \/ UNCHANGED left
     \/ pc = "get" /\ left > 0 /\ left' = left - 1
  /\ UNCHANGED <<waited, renewIn, nonce, attempt, remaining, resetAt, expiresIn,
                 resetIn, others, low>>

\* _observe_budget on a response that leaves n requests; the headers are there
\* or not.
Observe(n) ==
  \/ /\ remaining' = n
     /\ resetAt' = resetIn
     /\ low' = (n <= Reserve)
  \/ UNCHANGED <<remaining, resetAt, low>>

\* An answer that is no 429: the page, a retryable status, or anything else.
Answered ==
  /\ pc = "get"
  /\ left > 0
  /\ left' = left - 1
  /\ Observe(left - 1)
  /\ \/ Goto("idle") /\ UNCHANGED failures
     \/ Transient
     \/ Raise("client") /\ UNCHANGED failures
  /\ UNCHANGED <<waited, renewIn, nonce, attempt, expiresIn, resetIn, others>>

\* 429: a wait, not a failure.
RateLimited ==
  /\ pc = "get"
  /\ left = 0
  /\ remaining' = Unknown
  /\ low' = TRUE
  /\ \/ Sleep(Until(resetIn), "budget") /\ resetAt' = resetIn
     \/ Sleep(Until(NoHeader), "budget") /\ UNCHANGED resetAt
  /\ UNCHANGED <<waited, failures, renewIn, nonce, attempt, expiresIn, left,
                 resetIn, others>>

Wake ==
  /\ pc = "sleep"
  /\ sleepLeft = 0
  /\ Goto(after)
  /\ UNCHANGED <<waited, failures, renewIn, nonce, attempt, remaining, resetAt, okta>>

\* The run died of the exception; the next process knows nothing.
Restart ==
  /\ pc = "raised"
  /\ Fresh
  /\ UNCHANGED <<left, resetIn, others>>

-----------------------------------------------------------------------------
(* The world.                                                              *)

Less(n) == IF n = 0 THEN 0 ELSE n - 1

\* A unit of time passes: between calls, during a sleep, and at most once
\* during a request, whose timeout is about that.
Tick ==
  /\ \/ pc = "idle" /\ UNCHANGED <<sleepLeft, waited>>
     \/ pc = "sleep" /\ sleepLeft > 0 /\ sleepLeft' = sleepLeft - 1 /\ UNCHANGED waited
     \/ pc \in {"post", "get"} /\ ~waited /\ waited' = TRUE /\ UNCHANGED sleepLeft
  /\ renewIn' = Less(renewIn)
  /\ expiresIn' = Less(expiresIn)
  /\ resetAt' = Less(resetAt)
  /\ IF resetIn = 1
     THEN resetIn' = Window /\ left' = Budget /\ low' = FALSE
     ELSE resetIn' = resetIn - 1 /\ UNCHANGED <<left, low>>
  /\ UNCHANGED <<pc, after, failures, nonce, attempt, remaining, cause, others>>

OthersSpend ==
  /\ left > 0
  /\ others < MaxOthers
  /\ left' = left - 1
  /\ others' = others + 1
  /\ UNCHANGED <<client, expiresIn, resetIn, low>>

RenewNonce ==
  /\ pc = "idle"
  /\ nonce = "current"
  /\ nonce' = "stale"
  /\ UNCHANGED <<pc, after, sleepLeft, waited, failures, renewIn, attempt,
                 remaining, resetAt, cause, okta>>

Step == \/ RespectBudget \/ Headers \/ Wake
        \/ Challenge \/ Minted \/ MintRefused \/ TransportError
        \/ Answered \/ RateLimited

Next == Call \/ Step \/ Restart \/ Tick \/ OthersSpend \/ RenewNonce

\* What is ready runs, requests are answered or time out, and time passes.
Spec == Init /\ [][Next]_vars /\ WF_vars(Step) /\ WF_vars(Tick)

-----------------------------------------------------------------------------
TypeOK ==
  /\ pc \in {"idle", "budget", "auth", "post", "get", "sleep", "raised"}
  /\ after \in {"budget", "auth"}
  /\ sleepLeft \in 0 .. 2 * Window + 1
  /\ waited \in BOOLEAN
  /\ failures \in 0 .. MaxAttempts
  /\ renewIn \in 0 .. RenewAfter
  /\ nonce \in {"none", "stale", "current"}
  /\ attempt \in {1, 2}
  /\ remaining \in 0 .. Unknown
  /\ resetAt \in 0 .. Window
  /\ cause \in {"none", "transient", "client", "token", "nonce"}
  /\ expiresIn \in 0 .. Life
  /\ left \in 0 .. Budget
  /\ resetIn \in 1 .. Window
  /\ others \in 0 .. MaxOthers
  /\ low \in BOOLEAN

(* A page is never asked for with a token that expires before Okta reads   *)
(* the request: the margin covers the mint, the caching and the request,   *)
(* whatever the attempt slept through before.                              *)
TokenLive == pc = "get" => expiresIn > 0

(* Once told that the budget is at its reserve, or dry, the connector asks *)
(* for nothing more before the window resets, across retries and calls.    *)
ReserveKept == pc = "get" => ~low

(* The nonce handshake never fails a mint.                                 *)
NonceNeverFatal == cause # "nonce"

(* A fetch comes to an end: rate limits wait and failures run out.         *)
FetchEnds == pc = "budget" ~> pc \in {"idle", "raised"}

\* How far a fetch is from its end: the failures and the competition it can
\* still meet, whether the next page request is bound to be rate-limited, the
\* places to pass before it is made, and the wait at this one.
Place ==
  CASE pc = "sleep"  -> IF after = "budget" THEN 7 ELSE 5
    [] pc = "budget" -> 6
    [] pc = "auth"   -> 4
    [] pc = "post"   -> 4 - attempt
    [] OTHER         -> 1
Dry == left = 0 /\ ~(pc = "sleep" /\ sleepLeft >= resetIn)
Ahead ==
  <<MaxAttempts - failures, MaxOthers - others, IF Dry THEN 1 ELSE 0, Place,
    IF pc = "sleep" THEN sleepLeft ELSE IF waited THEN 0 ELSE 1>>

Precedes(s, t) == \E i \in 1 .. 5 : s[i] < t[i] /\ \A j \in 1 .. i - 1 : s[j] = t[j]

(* Nothing a fetch goes through is repeated without end: each step until   *)
(* it has a page or raises, the waits and the requests of others included, *)
(* leaves less ahead of it.  A 429 follows a 429 only if others spend or a *)
(* request fails in between.                                               *)
FetchShrinks ==
  [][pc \notin {"idle", "raised"}
       => pc' \in {"idle", "raised"} \/ Precedes(Ahead', Ahead)]_vars

(* "Raises only on non-recoverable failures; 429s and transient 5xx are    *)
(* absorbed internally" (sources/base.py, Source.fetch).                   *)
TransientAbsorbed == cause # "token"
=============================================================================
