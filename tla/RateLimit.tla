----------------------------- MODULE RateLimit -----------------------------
(***************************************************************************)
(* The Redis sliding-window rate limiter (internal/ratelimit) as one       *)
(* client key sees it.  Any number of handler goroutines, of any number of *)
(* replicas, read their clock, then run the Lua script; Redis executes it  *)
(* atomically, later, in any order.  go-redis sends the same command again *)
(* when the reply is lost; Middleware lets the request through when Allow  *)
(* returns an error.  Keys do not share state, so one key is enough.       *)
(***************************************************************************)
EXTENDS Integers, FiniteSets

CONSTANTS
    Requests,     \* HTTP requests of one client key, each with its own token
    Bypassed,     \* those for a path of Middleware's bypass list
    Limit,        \* requestsPerMinute + burst
    Window,       \* window_ms
    Second,       \* ticks per second
    MaxLag,       \* bound: how far behind Redis a timestamp may be when used
    MaxAttempts,  \* bound: times go-redis sends one command
    MaxTime       \* bound: the clock

ASSUME LimitAssumption ==
    /\ IsFiniteSet(Requests)
    /\ Bypassed \subseteq Requests
    /\ Limit \in Nat
    /\ Window \in Nat \ {0}
    /\ Second \in Nat \ {0}
    /\ MaxLag \in Nat
    /\ MaxAttempts \in Nat
    /\ MaxTime \in Nat

VARIABLES
    now,       \* Redis's clock
    bucket,    \* tokens in the sorted set
    expireAt,  \* when Redis deletes the key
    req,       \* req[r]: progress of a request
    ts,        \* ts[r]: nowMS of a request, the score of its token
    attempts,  \* attempts[r]: executions of its script
    hint,      \* hint[r]: Retry-After header, in seconds
    admitted   \* history: tokens the script has ever added

vars == <<now, bucket, expireAt, req, ts, attempts, hint, admitted>>

\* Allow has read its clock and has no final reply yet; in "allowed" and
\* "denied" the script has run and its reply is on its way.
InFlight == {"sent", "allowed", "denied"}
Final == {"passed", "rejected", "failedopen"}

Init ==
    /\ now = 0
    /\ bucket = {}
    /\ expireAt = 0
    /\ req = [r \in Requests |-> "idle"]
    /\ ts = [r \in Requests |-> 0]
    /\ attempts = [r \in Requests |-> 0]
    /\ hint = [r \in Requests |-> 0]
    /\ admitted = {}

\* Time passes, and Redis deletes a key whose PEXPIRE is due.  A timestamp
\* is used within MaxLag: the request's latency and the retries on the way
\* to Redis, plus how far its replica's clock is behind.
TickWithoutExpiry ==
    /\ now < MaxTime
    /\ \A r \in Requests : req[r] \in InFlight => now + 1 - ts[r] <= MaxLag
    /\ now' = now + 1
    /\ UNCHANGED <<bucket, expireAt, req, ts, attempts, hint, admitted>>

Tick ==
    /\ now < MaxTime
    /\ \A r \in Requests : req[r] \in InFlight => now + 1 - ts[r] <= MaxLag
    /\ now' = now + 1
    /\ bucket' = IF expireAt <= now + 1 THEN {} ELSE bucket
    /\ UNCHANGED <<expireAt, req, ts, attempts, hint, admitted>>

-----------------------------------------------------------------------------
\* Middleware: a path of the bypass set is served without asking Allow.
Bypass(r) ==
    /\ req[r] = "idle"
    /\ r \in Bypassed
    /\ req' = [req EXCEPT ![r] = "passed"]
    /\ UNCHANGED <<now, bucket, expireAt, ts, attempts, hint, admitted>>

\* Allow reads the clock and makes its token.
Arrive(r) ==
    /\ req[r] = "idle"
    /\ r \notin Bypassed
    /\ req' = [req EXCEPT ![r] = "sent"]
    /\ ts' = [ts EXCEPT ![r] = now]
    /\ UNCHANGED <<now, bucket, expireAt, attempts, hint, admitted>>

\* ZREMRANGEBYSCORE key -inf (now_ms - window_ms)
TrimmedLate(r) == {x \in bucket : ts[x] >= ts[r] - Window}

Trimmed(r) == {x \in bucket : ts[x] > ts[r] - Window}

\* ZRANGE key 0 0: a token with the lowest score
Oldest(tokens) == {x \in tokens : \A y \in tokens : ts[x] <= ts[y]}

\* The script's retry_ms: the whole window when no token is there (a limit of
\* zero), else until the oldest leaves the window, at least 0.  Tokens of the
\* same score give the same answer.
RetryTicks(r) ==
    LET left(x) == ts[x] + Window - ts[r]
    IN  IF Trimmed(r) = {} THEN {Window}
        ELSE {IF left(x) < 0 THEN 0 ELSE left(x) : x \in Oldest(Trimmed(r))}

\* Allow raises RetryAfter to one second; Middleware truncates it to whole
\* seconds.
RetryAfter(ticks) == (IF ticks < Second THEN Second ELSE ticks) \div Second

\* The script's test of the count.
FullOffByOne(tokens) == Cardinality(tokens) > Limit

Full(tokens) == Cardinality(tokens) >= Limit

\* go-redis gives up after MaxAttempts.
RetriesForEver(r) == r \in Requests

HasAttempts(r) == attempts[r] < MaxAttempts

\* One atomic execution of the script for r.  ZADD of a token that is there
\* already adds nothing.
Script(r) ==
    /\ HasAttempts(r)
    /\ attempts' = [attempts EXCEPT ![r] = @ + 1]
    /\ \/ /\ Full(Trimmed(r))
          /\ bucket' = Trimmed(r)
          /\ req' = [req EXCEPT ![r] = "denied"]
          /\ \E ticks \in RetryTicks(r) :
                hint' = [hint EXCEPT ![r] = RetryAfter(ticks)]
          /\ UNCHANGED <<expireAt, admitted>>
       \/ /\ ~Full(Trimmed(r))
          /\ bucket' = Trimmed(r) \cup {r}
          /\ expireAt' = now + Window
          /\ req' = [req EXCEPT ![r] = "allowed"]
          /\ admitted' = admitted \cup {r}
          /\ UNCHANGED hint
    /\ UNCHANGED <<now, ts>>

\* The script reaches Redis.
Execute(r) == req[r] = "sent" /\ Script(r)

\* The reply was lost, and go-redis sends the same command again.
Retransmit(r) == req[r] \in {"allowed", "denied"} /\ Script(r)

\* The reply arrives: the request is served, or answered with a 429.
Reply(r) ==
    /\ \/ req[r] = "allowed" /\ req' = [req EXCEPT ![r] = "passed"]
       \/ req[r] = "denied" /\ req' = [req EXCEPT ![r] = "rejected"]
    /\ UNCHANGED <<now, bucket, expireAt, ts, attempts, hint, admitted>>

\* Allow returns an error (Redis down, timeout, context ended), whether or
\* not the script has run: Middleware serves the request.
FailOpen(r) ==
    /\ req[r] \in InFlight
    /\ req' = [req EXCEPT ![r] = "failedopen"]
    /\ UNCHANGED <<now, bucket, expireAt, ts, attempts, hint, admitted>>

Next ==
    \/ Tick
    \/ \E r \in Requests :
          \/ Bypass(r) \/ Arrive(r) \/ Execute(r) \/ Retransmit(r)
          \/ Reply(r) \/ FailOpen(r)

Spec == Init /\ [][Next]_vars

-----------------------------------------------------------------------------

TypeOK ==
    /\ now \in Nat
    /\ bucket \subseteq Requests
    /\ expireAt \in Nat
    /\ req \in [Requests -> {"idle"} \cup InFlight \cup Final]
    /\ ts \in [Requests -> Nat]
    /\ attempts \in [Requests -> 0..MaxAttempts]
    /\ hint \in [Requests -> Nat]
    /\ admitted \subseteq Requests

\* Tokens with a timestamp in the len ticks after t.
AdmittedIn(t, len) == {x \in admitted : t < ts[x] /\ ts[x] <= t + len}

\* However the requests of several replicas are delayed, reordered and
\* retransmitted, the script admits at most Limit in any Window - MaxLag
\* consecutive ticks, counted from any admitted request: a late timestamp
\* costs at most its own lateness (slidingWindowScript).
WindowBound ==
    \A r \in admitted :
        Cardinality(AdmittedIn(ts[r] - 1, Window - MaxLag)) <= Limit

\* A request is denied only for Limit tokens, its own of an earlier attempt
\* included, each stamped in the window that ends with it or, because the
\* request came late to Redis, after it by at most the lag (the script trims
\* from below only).
DeniedOnlyWhenFull ==
    \A r \in Requests : req[r] \in {"denied", "rejected"} =>
        Cardinality(AdmittedIn(ts[r] - Window, Window + MaxLag)) >= Limit

\* A key does not stick around: while it exists, one of its tokens is still
\* in the window, give or take the lag (the script's PEXPIRE).
NoStickyKey ==
    bucket # {} => \E x \in bucket : now < ts[x] + Window + MaxLag

\* middleware.go: "request rate exceeded; retry after Retry-After seconds"
\* -- a client that waits that long and is denied again lost its place to a
\* request admitted since.
RetryAfterSuffices ==
    \A r, q \in Requests :
        /\ req[r] \in {"denied", "rejected"}
        /\ req[q] \in {"denied", "rejected"}
        /\ ts[q] >= ts[r] + hint[r] * Second
        => \E x \in admitted : ts[x] >= ts[r]
=============================================================================
