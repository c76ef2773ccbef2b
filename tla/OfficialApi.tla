---------------------------- MODULE OfficialApi ----------------------------
(***************************************************************************)
(* The client of the official APIs (jurisearch-official-api): exchanges    *)
(* with Judilibre (a key) and Legifrance (an OAuth token the client caches *)
(* until shortly before it expires), each sent again after a back-off when *)
(* the server answers 429 or 5xx.  An exchange never fails: it ends in an  *)
(* outcome its caller archives.                                            *)
(*                                                                         *)
(* Time is relative: a token carries what is left of it, at the server and *)
(* by the client's clock, and every wait takes some off.  No call has a    *)
(* timeout of its own: the client gives up when nothing comes for          *)
(* ReadTimeout, and an answer whose pieces keep coming takes as long as    *)
(* they do.                                                                *)
(***************************************************************************)
EXTENDS Naturals

CONSTANTS MaxRetries,   \* RetryPolicy::max_retries
          BaseDelay,    \* RetryPolicy::base_delay
          MaxDelay,     \* RetryPolicy::max_delay
          Width,        \* bits of the back-off factor (32 in the code)
          Skew,         \* LEGIFRANCE_TOKEN_SKEW
          ReadTimeout,  \* READ_TIMEOUT, the longest silence within an answer
          MaxLatency,   \* bound on the time seen to pass within an answer
          Lifetimes,    \* how long the tokens live that the server gives
          MaxRevoked,   \* bound on the tokens the server takes back
          None          \* no token, no expires_in, no Retry-After, no outcome

BoundsAssumption ==
  /\ {MaxRetries, BaseDelay, MaxDelay, Width, Skew, ReadTimeout, MaxLatency, MaxRevoked} \subseteq Nat
  /\ Lifetimes \subseteq Nat
NoneAssumption == None \notin Nat

VARIABLES keys,     \* the credentials that are configured
          phase,    \* "idle", "auth" or "send", or the wait before one of these: "auth wait", "send wait"
          provider, \* whom the current exchange is with
          attempt,  \* retries made in the current phase
          delay,    \* the last back-off of the current phase
          late,     \* how long the answer awaited has been coming in
          token,    \* the cached token: what is left of it at the server and by expires_at,
                    \* the expires_in it came with and how long its answer took
          bearer,   \* the token of the request, by what was left of it when the request was sent
          outcome,  \* how the exchange ended
          revoked   \* tokens taken back so far

apiVars == <<keys, phase, provider, attempt, delay, late, token, bearer, outcome, revoked>>

Providers == {"judilibre", "legifrance"}
Outcomes  == {"ok", "upstream_error", "parse_error"}
Tokens    == [server : Nat, client : Nat \cup {None}, expires_in : Nat \cup {None}, took : Nat]

TypeOK ==
  /\ keys \subseteq Providers
  /\ phase \in {"idle", "auth", "auth wait", "send", "send wait"}
  /\ provider \in Providers
  /\ attempt \in 0 .. MaxRetries
  /\ delay \in 0 .. MaxDelay
  /\ late \in 0 .. MaxLatency
  /\ token \in Tokens \cup {None}
  /\ bearer \in Nat \cup {None}
  /\ outcome \in Outcomes \cup {None}
  /\ revoked \in 0 .. MaxRevoked

Init ==
  /\ keys \in SUBSET Providers
  /\ phase = "idle" /\ provider = "judilibre"
  /\ attempt = 0 /\ delay = 0 /\ late = 0
  /\ token = None /\ bearer = None /\ outcome = None
  /\ revoked = 0

Less(a, b)  == IF a > b THEN a - b ELSE 0
Lower(a, b) == IF a < b THEN a ELSE b

(***************************************************************************)
(* What time does to the tokens: one expires at the server, and for the    *)
(* client by is_valid, for which a token without expires_in never does.    *)
(***************************************************************************)
Left(n, d) == IF n = None THEN None ELSE Less(n, d)
Aged(t, d) == IF t = None THEN None
              ELSE [t EXCEPT !.server = Less(@, d), !.client = Left(@, d)]

(* Fault: the shift wraps around the width of the factor.                  *)
Factor_Wraps(n) == 2 ^ (n % Width)

(***************************************************************************)
(* retry_delay: a Retry-After wins; else base_delay times 2^attempt, where *)
(* a shift past the width saturates (checked_shl); both capped.            *)
(***************************************************************************)
Factor(n) == IF n < Width THEN 2 ^ n ELSE 2 ^ Width - 1

RetryDelay(after, n) ==
  IF after # None THEN Lower(after, MaxDelay) ELSE Lower(BaseDelay * Factor(n), MaxDelay)

RetryAfters == {None, 1, MaxDelay + 1}

End(o) ==
  /\ phase' = "idle"
  /\ outcome' = o
  /\ attempt' = 0 /\ delay' = 0 /\ late' = 0
  /\ bearer' = None

\* is_none_or: what has no expires_at is always valid.
CacheIsValid == token # None /\ token.client # 0

(***************************************************************************)
(* An exchange begins: without its credential it ends at once, archived    *)
(* all the same; a Legifrance exchange takes the cached token if it is     *)
(* valid and asks for one if not.                                          *)
(***************************************************************************)
Begin(p) ==
  /\ phase = "idle"
  /\ provider' = p
  /\ UNCHANGED <<keys, token, revoked>>
  /\ \/ p = "legifrance" /\ CacheIsValid
        /\ phase' = "send" /\ bearer' = token.server
        /\ attempt' = 0 /\ delay' = 0 /\ late' = 0 /\ outcome' = None
     \/ p = "legifrance" /\ ~ CacheIsValid /\ p \in keys
        /\ phase' = "auth" /\ bearer' = None
        /\ attempt' = 0 /\ delay' = 0 /\ late' = 0 /\ outcome' = None
     \/ p = "judilibre" /\ p \in keys
        /\ phase' = "send" /\ bearer' = None
        /\ attempt' = 0 /\ delay' = 0 /\ late' = 0 /\ outcome' = None
     \/ p \notin keys /\ (p = "legifrance" => ~ CacheIsValid)
        /\ End("upstream_error")

(* Fault: the attempts are not counted.                                    *)
Retryable_Uncounted(after) ==
  /\ attempt < MaxRetries
  /\ phase' = IF phase = "auth" THEN "auth wait" ELSE "send wait"
  /\ delay' = RetryDelay(after, attempt)
  /\ late' = 0 /\ bearer' = Left(bearer, late)
  /\ UNCHANGED <<attempt, outcome>>

(***************************************************************************)
(* send_with_retry: a retryable status is waited out while retries are     *)
(* left; any other error ends the exchange.                                *)
(***************************************************************************)
Retryable(after) ==
  /\ attempt < MaxRetries
  /\ phase' = IF phase = "auth" THEN "auth wait" ELSE "send wait"
  /\ delay' = RetryDelay(after, attempt)
  /\ attempt' = attempt + 1
  /\ late' = 0 /\ bearer' = Left(bearer, late)
  /\ UNCHANGED outcome

Rejected == End("upstream_error")

ErrorAnswer ==
  \/ \E after \in RetryAfters : Retryable(after)
  \/ Rejected

Wait ==
  /\ phase \in {"auth wait", "send wait"}
  /\ phase' = IF phase = "auth wait" THEN "auth" ELSE "send"
  /\ token' = Aged(token, delay) /\ bearer' = Left(bearer, delay)
  /\ UNCHANGED <<keys, provider, attempt, delay, late, outcome, revoked>>

(***************************************************************************)
(* The timeouts of the client (client.rs:15-18) are those of one           *)
(* connection and of one read: while pieces of an answer come in, each     *)
(* within ReadTimeout of the one before, the call goes on.  Past           *)
(* MaxLatency its time is no longer counted.                               *)
(***************************************************************************)
Awaiting == phase \in {"auth", "send"}
Overdue  == Awaiting /\ late = MaxLatency

Trickle ==
  /\ Awaiting
  /\ \E d \in 1 .. ReadTimeout :
       /\ late + d <= MaxLatency
       /\ late' = late + d
       /\ token' = Aged(token, d)
  /\ UNCHANGED <<keys, phase, provider, attempt, delay, bearer, outcome, revoked>>

(* Fault: the token is kept to the last second the server named.           *)
ExpiresIn_NoSkew(expires_in) == expires_in

\* expires_at of a token that has just arrived; None if the server names no expires_in.
ExpiresIn(expires_in) == IF expires_in = None THEN None ELSE Less(expires_in, Skew)

(***************************************************************************)
(* The token request: the server counts from when it answered, the client  *)
(* from when it has read the answer.                                       *)
(***************************************************************************)
TokenArrives ==
  /\ \E life \in Lifetimes : \E expires_in \in {life, None} :
       /\ token' = [server |-> Less(life, late), client |-> ExpiresIn(expires_in),
                    expires_in |-> expires_in, took |-> late]
       /\ bearer' = Less(life, late)
  /\ phase' = "send" /\ attempt' = 0 /\ delay' = 0 /\ late' = 0
  /\ UNCHANGED outcome

Authenticate ==
  /\ phase = "auth"
  /\ \/ TokenArrives
     \/ ErrorAnswer /\ UNCHANGED token
  /\ UNCHANGED <<keys, provider, revoked>>

(***************************************************************************)
(* The answer to the request itself; a server that did not know the bearer *)
(* when it was asked says 401, which is not retried and leaves the cache   *)
(* as it is.                                                               *)
(***************************************************************************)
Unauthorised == provider = "legifrance" /\ bearer = 0

Send ==
  /\ phase = "send"
  /\ \/ Unauthorised /\ Rejected
     \/ ~ Unauthorised /\ (ErrorAnswer \/ End("ok") \/ End("parse_error"))
  /\ UNCHANGED <<keys, provider, token, revoked>>

\* The server takes the cached token back before its time.
Revoke ==
  /\ revoked < MaxRevoked
  /\ phase = "idle" /\ token # None
  /\ token' = [token EXCEPT !.server = 0]
  /\ revoked' = revoked + 1
  /\ UNCHANGED <<keys, phase, provider, attempt, delay, late, bearer, outcome>>

\* Time between two exchanges.
Idle ==
  /\ phase = "idle" /\ token # None
  /\ token' = Aged(token, 1)
  /\ UNCHANGED <<keys, phase, provider, attempt, delay, late, bearer, outcome, revoked>>

ApiStep == Authenticate \/ Send \/ Wait \/ Trickle

Next == (\E p \in Providers : Begin(p)) \/ ApiStep \/ Revoke \/ Idle

Spec == Init /\ [][Next]_apiVars

-----------------------------------------------------------------------------
(***************************************************************************)
(* The first attempt of a Legifrance request carries a live token, unless  *)
(* the server named no expires_in, or took longer to deliver the token     *)
(* than the skew or than the token lives: the client counts its life from  *)
(* when the answer was read and the server from when it was given, and the *)
(* skew (client.rs:317-321) pays for the difference.  A token without      *)
(* expires_in is kept for ever, dead or alive (client.rs:522-526).         *)
(***************************************************************************)
TokenCameInTime ==
  token.expires_in # None /\ token.took <= Skew /\ token.took < token.expires_in

FirstAttemptIsAuthorised ==
  phase = "send" /\ provider = "legifrance" /\ attempt = 0 /\ revoked = 0 /\ TokenCameInTime
    => bearer > 0

(***************************************************************************)
(* However often it retries, the client's own back-off never shrinks: it   *)
(* grows to its cap and stays there, past the width of its factor too.     *)
(***************************************************************************)
BackoffNeverShrinks ==
  phase \in {"auth wait", "send wait"} =>
    \A n \in 1 .. attempt - 1 : RetryDelay(None, n) >= RetryDelay(None, n - 1)

(***************************************************************************)
(* Every exchange ends, however the server answers, unless an answer keeps *)
(* coming in for ever: no timeout covers a whole call.                     *)
(***************************************************************************)
ExchangesEnd == []<>(phase = "idle") \/ <>[]Overdue
=============================================================================
