----------------------------- MODULE Middleware -----------------------------
(***************************************************************************)
(* The middleware chain of the public listener (handlers.Register,         *)
(* internal/middleware, metrics.Middleware, ratelimit.Middleware,          *)
(* ratelimit.ClientIP).                                                    *)
(*                                                                         *)
(* A request descends through the layers, outermost first, until one of    *)
(* them answers; then the layers return in the opposite order.  A panic    *)
(* unwinds them without running what follows next.ServeHTTP, until         *)
(* Recovery.  The two status recorders see a WriteHeader only when it      *)
(* comes from a layer inside them, and never the implicit 200 of a Write.  *)
(***************************************************************************)
EXTENDS Integers, Sequences, FiniteSets

CONSTANTS
    Requests,        \* the requests of a behaviour
    Shapes,          \* what a request may look like
    Hosts,           \* network addresses
    TrustedProxies,  \* the configured entries, each the set of its hosts
    AllowedOrigins,  \* http.cors_origins
    Limit,           \* tokens a key has per window
    None             \* an absent header or address

\* A limiter key: an address, or the one for requests without.
Unknown == "unknown"
Keys == Hosts \cup {Unknown}

\* A request: what it asks for ("apiOther" and "other" are the paths, and the
\* methods on a path, that no route serves), the host it comes from, the
\* X-Forwarded-For entries that host wrote itself, and the host it came via,
\* None if it came directly.
ASSUME MiddlewareAssumption ==
    /\ None \notin Keys \cup AllowedOrigins \cup Requests
    /\ Unknown \notin Hosts
    /\ IsFiniteSet(Requests)
    /\ TrustedProxies \subseteq SUBSET Hosts
    /\ Limit \in Nat
    /\ \A s \in Shapes :
          /\ s.method \in {"GET", "OPTIONS"}
          /\ s.path \in {"data", "health", "docs", "apiOther", "ws", "other"}
          /\ s.from \in Hosts \cup {None}
          /\ s.own \in Seq(Keys \cup {None})
          /\ s.via \in Hosts \cup {None}
          /\ s.relay \in {"sets", "appends", "forwards"}

isTrusted(host) == \E t \in TrustedProxies : host \in t

\* r.RemoteAddr's host, and the comma-separated entries of X-Forwarded-For
\* (None is a blank one) as they arrive: a proxy sets the header to the host
\* it speaks for, appends that host to it, or forwards it as it is.
Peer(s) == IF s.via = None THEN s.from ELSE s.via

XFF(s) == CASE s.via = None \/ s.relay = "forwards" -> s.own
            [] s.via # None /\ s.relay = "sets" -> <<s.from>>
            [] s.via # None /\ s.relay = "appends" -> Append(s.own, s.from)

VARIABLES
    shape,     \* shape[r]: the request, once it has arrived
    at,        \* at[r]: the layer r is in, counted from the outside
    mode,      \* "idle", "call", "return", "panic" or "done"
    recorder,  \* recorder[r]: the status recorders of r
    header,    \* header[r]: the response header map the layers share
    wire,      \* wire[r]: the response the client gets
    hijacked,  \* the requests whose connection a handler took over
    lines,     \* lines[r]: r's access-log lines
    panicked,  \* history: the requests whose handler panicked
    key,       \* key[r]: the limiter key r was charged to
    bucket,    \* bucket[k]: the requests with a token in k's window
    denied,    \* history: denied[r], the bucket that got r a 429
    httpRequestsTotal,      \* http_requests_total by status
    rateLimitRejectedTotal  \* ratelimit_rejected_total

vars == <<shape, at, mode, recorder, header, wire, hijacked, lines, panicked, key,
          bucket, denied, httpRequestsTotal, rateLimitRejectedTotal>>

chainVars == <<shape, header, key, bucket, denied>>
answerVars == <<recorder, wire, hijacked>>
reportVars == <<lines, httpRequestsTotal, rateLimitRejectedTotal>>

Statuses == {101, 200, 204, 400, 404, 429, 500, 502}

\* The header map, of which the request id and the allowed origin matter.
RequestIDs == Requests \cup {s.id : s \in Shapes} \cup {None}
Headers == [id : RequestIDs, origin : AllowedOrigins \cup {None}]
NoHeader == [id |-> None, origin |-> None]
NoResponse == [status |-> 0, header |-> NoHeader]

Init ==
    /\ shape = [r \in Requests |-> None]
    /\ at = [r \in Requests |-> 0]
    /\ mode = [r \in Requests |-> "idle"]
    /\ recorder = [r \in Requests |->
                     [l \in {"accesslog", "metrics"} |->
                        [status |-> 200, wrote |-> FALSE]]]
    /\ header = [r \in Requests |-> NoHeader]
    /\ wire = [r \in Requests |-> NoResponse]
    /\ hijacked = {}
    /\ lines = [r \in Requests |-> <<>>]
    /\ panicked = {}
    /\ key = [r \in Requests |-> None]
    /\ bucket = [k \in Keys |-> {}]
    /\ denied = [r \in Requests |-> {}]
    /\ httpRequestsTotal = [s \in Statuses |-> 0]
    /\ rateLimitRejectedTotal = 0

-----------------------------------------------------------------------------
(***************************************************************************)
(* The chain                                                               *)
(***************************************************************************)

UnderApi(path) == path \in {"data", "health", "docs", "apiOther"}

\* The paths ratelimit.Middleware is told to skip.
Bypass == {"health", "docs"}

LayersLimitFirst(path) ==
    <<"requestid", "accesslog", "recovery", "metrics">>
    \o (IF UnderApi(path) THEN <<"ratelimit">> ELSE <<>>)
    \o <<"cors", "handler">>

LayersRecoveryFirst(path) ==
    <<"requestid", "recovery", "accesslog", "metrics", "cors">>
    \o (IF UnderApi(path) THEN <<"ratelimit">> ELSE <<>>)
    \o <<"handler">>

\* The order of Register's Use calls.  The limiter belongs to the /api/v1
\* sub-router, and runs for its unknown paths too.
Layers(path) ==
    <<"requestid", "accesslog", "recovery", "metrics", "cors">>
    \o (IF UnderApi(path) THEN <<"ratelimit">> ELSE <<>>)
    \o <<"handler">>

Layer(r) == Layers(shape[r].path)[at[r]]

In(r, l) == mode[r] = "call" /\ Layer(r) = l

\* The recorders r has passed, that is, the ones outside its current layer.
Around(r) == {Layers(shape[r].path)[i] : i \in 1..(at[r] - 1)}

\* next.ServeHTTP(w, r)
Descend(r) == at' = [at EXCEPT ![r] = @ + 1] /\ UNCHANGED mode

\* The layer is through: the one around it goes on after its call.
Ascend(r) ==
    /\ at' = [at EXCEPT ![r] = @ - 1]
    /\ mode' = [mode EXCEPT ![r] = IF at[r] = 1 THEN "done" ELSE "return"]

Unwind(r) ==
    /\ at' = [at EXCEPT ![r] = @ - 1]
    /\ mode' = [mode EXCEPT ![r] = IF at[r] = 1 THEN "done" ELSE "panic"]

-----------------------------------------------------------------------------
(***************************************************************************)
(* The response writer.  h is the header map at the time of the call.      *)
(***************************************************************************)

\* net/http takes no further status line: one is sent, or the connection
\* is not its own any more.
Answered(r) == wire[r] # NoResponse \/ r \in hijacked

Recorded(r, code) ==
    [recorder EXCEPT ![r] =
        [l \in DOMAIN @ |-> IF l \in Around(r) /\ ~@[l].wrote
                            THEN [status |-> code, wrote |-> TRUE]
                            ELSE @[l]]]

\* w.WriteHeader(code): each recorder keeps its first status; net/http sends
\* the first one and the headers set so far, and ignores the others.
WriteHeader(r, code, h) ==
    /\ recorder' = Recorded(r, code)
    /\ wire' = IF Answered(r) THEN wire
               ELSE [wire EXCEPT ![r] = [status |-> code, header |-> h]]
    /\ UNCHANGED hijacked

\* w.Write without a WriteHeader: the recorders embed the writer and do not
\* see the 200 that net/http adds.
Write(r) ==
    /\ wire' = [wire EXCEPT ![r] = [status |-> 200, header |-> header[r]]]
    /\ UNCHANGED <<recorder, hijacked>>

\* w.(http.Hijacker).Hijack(), then gorilla writes the 101 itself, with none
\* of w's headers -- or closes the connection without an answer.  net/http's
\* own Hijack fails only on a connection already taken over, and the handler
\* takes over once.
HijackUnrecorded(r) ==
    /\ UNCHANGED recorder
    /\ hijacked' = hijacked \cup {r}
    /\ wire' \in {wire, [wire EXCEPT ![r] = [status |-> 101, header |-> NoHeader]]}

Hijack(r) ==
    /\ recorder' = Recorded(r, 101)
    /\ hijacked' = hijacked \cup {r}
    /\ wire' \in {wire, [wire EXCEPT ![r] = [status |-> 101, header |-> NoHeader]]}

-----------------------------------------------------------------------------
(***************************************************************************)
(* Requests and the layers' way in                                         *)
(***************************************************************************)

Arrive(r, s) ==
    /\ mode[r] = "idle"
    /\ shape' = [shape EXCEPT ![r] = s]
    /\ at' = [at EXCEPT ![r] = 1]
    /\ mode' = [mode EXCEPT ![r] = "call"]
    /\ UNCHANGED <<header, key, bucket, denied, answerVars, reportVars,
                   panicked>>

\* The client's X-Request-Id, or a fresh one (r's own name).
RequestID(r) ==
    /\ In(r, "requestid")
    /\ header' = [header EXCEPT ![r].id =
                    IF shape[r].id = None THEN r ELSE shape[r].id]
    /\ Descend(r)
    /\ UNCHANGED <<shape, key, bucket, denied, answerVars, reportVars,
                   panicked>>

\* AccessLog, Recovery and metrics.Middleware only wrap the writer or defer.
Wrap(r) ==
    /\ In(r, "accesslog") \/ In(r, "recovery") \/ In(r, "metrics")
    /\ Descend(r)
    /\ UNCHANGED <<chainVars, answerVars, reportVars, panicked>>

\* An Origin the policy allows is echoed; a preflight is answered here.
CORS(r) ==
    LET h == [header[r] EXCEPT !.origin =
                IF shape[r].origin \in AllowedOrigins THEN shape[r].origin
                                                      ELSE @]
    IN  /\ In(r, "cors")
        /\ header' = [header EXCEPT ![r] = h]
        /\ \/ /\ shape[r].method = "OPTIONS"
              /\ WriteHeader(r, 204, h)
              /\ Ascend(r)
           \/ /\ shape[r].method # "OPTIONS"
              /\ Descend(r)
              /\ UNCHANGED answerVars
        /\ UNCHANGED <<shape, key, bucket, denied, reportVars, panicked>>

-----------------------------------------------------------------------------
(***************************************************************************)
(* The rate limit                                                          *)
(***************************************************************************)

\* X-Forwarded-For's leftmost entry, when a trusted proxy sent it.
ClientIPFromHeader(s) ==
    IF XFF(s) # <<>> /\ Head(XFF(s)) # None
    THEN Head(XFF(s))
    ELSE IF Peer(s) = None THEN Unknown ELSE Peer(s)

ClientIP(s) ==
    IF isTrusted(Peer(s)) /\ XFF(s) # <<>> /\ Head(XFF(s)) # None
    THEN Head(XFF(s))
    ELSE IF Peer(s) = None THEN Unknown ELSE Peer(s)

Skip(r) ==
    /\ In(r, "ratelimit")
    /\ shape[r].path \in Bypass
    /\ Descend(r)
    /\ UNCHANGED <<chainVars, answerVars, reportVars, panicked>>

\* What RateLimit promises of limiter.Allow: a token while there is room.
TakeWithoutLimit(r, k) ==
    /\ k \in Keys
    /\ bucket' = [bucket EXCEPT ![k] = @ \cup {r}]

Take(r, k) ==
    /\ Cardinality(bucket[k]) < Limit
    /\ bucket' = [bucket EXCEPT ![k] = @ \cup {r}]

\* Allowed, or Allow failed, before or after its script ran: fail open.
Admit(r) ==
    LET k == ClientIP(shape[r])
    IN  /\ In(r, "ratelimit")
        /\ shape[r].path \notin Bypass
        /\ key' = [key EXCEPT ![r] = k]
        /\ Take(r, k) \/ UNCHANGED bucket
        /\ Descend(r)
        /\ UNCHANGED <<shape, header, denied, answerVars, reportVars, panicked>>

Reject(r) ==
    LET k == ClientIP(shape[r])
    IN  /\ In(r, "ratelimit")
        /\ shape[r].path \notin Bypass
        /\ Cardinality(bucket[k]) >= Limit
        /\ key' = [key EXCEPT ![r] = k]
        /\ denied' = [denied EXCEPT ![r] = bucket[k]]
        /\ rateLimitRejectedTotal' = rateLimitRejectedTotal + 1
        /\ WriteHeader(r, 429, header[r])
        /\ Ascend(r)
        /\ UNCHANGED <<shape, header, bucket, lines, httpRequestsTotal, panicked>>

\* The window slides past a token.
Expire(k) ==
    /\ \E r \in bucket[k] : bucket' = [bucket EXCEPT ![k] = @ \ {r}]
    /\ UNCHANGED <<shape, at, mode, header, key, denied, answerVars,
                   reportVars, panicked>>

-----------------------------------------------------------------------------
(***************************************************************************)
(* The handlers, and the router's own 404                                  *)
(***************************************************************************)

\* The statuses a handler passes to WriteHeader.
Answers(path) ==
    CASE path = "data"   -> {200, 400, 404, 502}
      [] path = "health" -> {200}
      [] path = "ws"     -> {400}
      [] path \in {"apiOther", "other"} -> {404}
      [] path = "docs"   -> {}

Respond(r) ==
    /\ In(r, "handler")
    /\ ~Answered(r)
    /\ \/ \E code \in Answers(shape[r].path) : WriteHeader(r, code, header[r])
       \/ shape[r].path = "docs" /\ Write(r)
       \/ shape[r].path = "ws" /\ Hijack(r)
    /\ UNCHANGED <<at, mode, chainVars, reportVars, panicked>>

HandlerReturns(r) ==
    /\ In(r, "handler")
    /\ Answered(r)
    /\ Ascend(r)
    /\ UNCHANGED <<chainVars, answerVars, reportVars, panicked>>

\* A handler of this repository panics, before or after its answer; the docs
\* pages end with their Write.
HandlerPanics(r) ==
    /\ In(r, "handler")
    /\ shape[r].path \in {"data", "health", "ws"}
    /\ panicked' = panicked \cup {r}
    /\ Unwind(r)
    /\ UNCHANGED <<chainVars, answerVars, reportVars>>

-----------------------------------------------------------------------------
(***************************************************************************)
(* The way out                                                             *)
(***************************************************************************)

\* Layers that do nothing after next.ServeHTTP; Recovery finds no panic.
Pass(r) ==
    /\ mode[r] = "return"
    /\ Layer(r) \notin {"accesslog", "metrics"}
    /\ Ascend(r)
    /\ UNCHANGED <<chainVars, answerVars, reportVars, panicked>>

CountRequest(r) ==
    /\ mode[r] = "return"
    /\ Layer(r) = "metrics"
    /\ httpRequestsTotal' =
          [httpRequestsTotal EXCEPT ![recorder[r]["metrics"].status] = @ + 1]
    /\ Ascend(r)
    /\ UNCHANGED <<chainVars, answerVars, lines, rateLimitRejectedTotal, panicked>>

AccessLog(r) ==
    /\ mode[r] = "return"
    /\ Layer(r) = "accesslog"
    /\ lines' = [lines EXCEPT ![r] =
                   Append(@, [status |-> recorder[r]["accesslog"].status,
                              id |-> header[r].id])]
    /\ Ascend(r)
    /\ UNCHANGED <<chainVars, answerVars, httpRequestsTotal,
                   rateLimitRejectedTotal, panicked>>

\* A layer without a deferred function is unwound.
UnwindLayer(r) ==
    /\ mode[r] = "panic"
    /\ Layer(r) # "recovery"
    /\ Unwind(r)
    /\ UNCHANGED <<chainVars, answerVars, reportVars, panicked>>

\* recover(), and http.Error(w, ..., 500) with the writer Recovery was given.
Recovery(r) ==
    /\ mode[r] = "panic"
    /\ Layer(r) = "recovery"
    /\ WriteHeader(r, 500, header[r])
    /\ Ascend(r)
    /\ UNCHANGED <<chainVars, reportVars, panicked>>

Next ==
    \/ \E r \in Requests : \E s \in Shapes : Arrive(r, s)
    \/ \E r \in Requests :
          \/ RequestID(r) \/ Wrap(r) \/ CORS(r)
          \/ Skip(r) \/ Admit(r) \/ Reject(r)
          \/ Respond(r) \/ HandlerReturns(r) \/ HandlerPanics(r)
          \/ Pass(r) \/ CountRequest(r) \/ AccessLog(r)
          \/ UnwindLayer(r) \/ Recovery(r)
    \/ \E k \in Keys : Expire(k)

Spec == Init /\ [][Next]_vars

-----------------------------------------------------------------------------
(***************************************************************************)
(* Properties                                                              *)
(***************************************************************************)

\* Types; every request is charged to an address or to the one key for
\* requests without (ClientIP), and no bucket is ever over its limit.
TypeOK ==
    /\ shape \in [Requests -> Shapes \cup {None}]
    /\ at \in [Requests -> 0..7]
    /\ mode \in [Requests -> {"idle", "call", "return", "panic", "done"}]
    /\ recorder \in [Requests -> [{"accesslog", "metrics"} ->
                       [status : Statuses, wrote : BOOLEAN]]]
    /\ header \in [Requests -> Headers]
    /\ wire \in [Requests -> [status : Statuses \cup {0}, header : Headers]]
    /\ lines \in [Requests -> Seq([status : Statuses, id : RequestIDs])]
    /\ hijacked \subseteq Requests
    /\ key \in [Requests -> Keys \cup {None}]
    /\ bucket \in [Keys -> SUBSET Requests]
    /\ \A k \in Keys : Cardinality(bucket[k]) <= Limit
    /\ denied \in [Requests -> SUBSET Requests]
    /\ panicked \subseteq Requests
    /\ httpRequestsTotal \in [Statuses -> Nat]
    /\ rateLimitRejectedTotal \in Nat

Done(r) == mode[r] = "done"

\* A finished request has exactly one access-log line, with the status and
\* the request id its client got, panics, preflights, 429s and implicit 200s
\* included; only a hijacked connection may have got no answer (AccessLog,
\* Recovery, statusRecorder).
LogMatchesWire ==
    \A r \in Requests : Done(r) =>
        /\ Len(lines[r]) = 1
        /\ lines[r][1].id # None
        /\ wire[r].status = lines[r][1].status
           \/ (r \in hijacked /\ wire[r] = NoResponse)
        /\ wire[r].header.id = lines[r][1].id \/ r \in hijacked

\* With no request under way, http_requests_total has counted every request
\* that did not panic once, under the status its client got (101 for a
\* connection taken over), and ratelimit_rejected_total every 429 (metrics.Middleware, onReject).
CountedOnce ==
    LET quiet == \A r \in Requests : mode[r] \in {"idle", "done"}
        got(s) == {r \in Requests \ panicked :
                     /\ Done(r)
                     /\ s = IF r \in hijacked THEN 101 ELSE wire[r].status}
    IN  quiet => /\ \A s \in Statuses :
                       httpRequestsTotal[s] = Cardinality(got(s))
                 /\ rateLimitRejectedTotal = httpRequestsTotal[429]

\* A browser can read every answer to an allowed origin, also a 429, a 404
\* or the 500 after a panic, and every answer names the request; another
\* origin is never echoed (CORS outside the limiter and the handlers).
ReadableByBrowser ==
    \A r \in Requests : wire[r].status \notin {0, 101} =>
        /\ wire[r].header.origin = (IF shape[r].origin \in AllowedOrigins
                                    THEN shape[r].origin ELSE None)
        /\ wire[r].header.id # None

\* Whose request it is: the host it comes from, if it came directly or a
\* trusted proxy names that host, else the one that opened the connection.
Sender(s) ==
    IF isTrusted(s.via) /\ s.relay # "forwards" /\ s.from # None
    THEN s.from ELSE Peer(s)

\* ClientIP does not read what the sender itself wrote into the header: it
\* wrote nothing, or the host that connects is not trusted, or is a proxy that
\* sets the header.
Vouched(s) ==
    isTrusted(Peer(s)) /\ s.own # <<>> => s.via # None /\ s.relay = "sets"

\* The limit is per sender: two requests share a bucket exactly if they have
\* the same sender, and a 429 is due to Limit requests of that sender.  This
\* holds of any header a host outside the trusted proxies sends, and through a
\* trusted proxy that sets X-Forwarded-For; it is not said of requests whose
\* sender had the leftmost entry to itself, as behind a trusted proxy that
\* appends, and of the 429s they cause (ClientIP, ratelimit.Middleware).
PerSender ==
    \A r \in Requests :
        /\ \A q \in Requests :
              /\ key[r] # None /\ Vouched(shape[r])
              /\ key[q] # None /\ Vouched(shape[q])
              => (key[r] = key[q] <=> Sender(shape[r]) = Sender(shape[q]))
        /\ wire[r].status = 429 =>
              /\ Cardinality(denied[r]) >= Limit
              /\ \A q \in denied[r] :
                    Vouched(shape[q]) /\ Vouched(shape[r])
                       => Sender(shape[q]) = Sender(shape[r])

\* Preflights, the bypassed paths and WebSocket connections take no token,
\* so that they never cost a client one of its own requests (Register,
\* bypassSet).
OnlyDataCharged ==
    \A k \in Keys : \A r \in bucket[k] :
        shape[r].method = "GET" /\ shape[r].path \in {"data", "apiOther"}
=============================================================================
