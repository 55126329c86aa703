-------------------------- MODULE MiddlewareProofs --------------------------
(***************************************************************************)
(* Proofs about Middleware, for any set of requests in flight, any hosts,  *)
(* proxies and origins, and any limit.                                     *)
(***************************************************************************)
EXTENDS Middleware, FiniteSetTheorems, TLAPS

(***************************************************************************)
(* The inductive invariant.  The properties speak of what was logged,      *)
(* counted and sent once a request is through; the invariant follows one   *)
(* request down the chain and back up: which layers it has passed, what    *)
(* they have put into its header, what its two status recorders have seen  *)
(* of its answer, and that every request is counted in the one step in     *)
(* which it leaves the metrics layer.                                      *)
(***************************************************************************)

\* The number of layers around and including the handler of a path.
Depth(path) == IF UnderApi(path) THEN 7 ELSE 6

\* r is on its way out; it went through CORS on its way in.
Turned(r) == mode[r] \in {"return", "panic", "done"}

\* Where r can be in each mode.  A panic stops at Recovery, layer 3.
Position(r) ==
    /\ mode[r] \in {"idle", "done"} => at[r] = 0
    /\ mode[r] = "call" => at[r] \in 1..Depth(shape[r].path)
    /\ mode[r] = "return" => at[r] \in 1..(Depth(shape[r].path) - 1)
    /\ mode[r] = "panic" => at[r] \in 3..(Depth(shape[r].path) - 1)
    /\ mode[r] # "idle" => shape[r] \in Shapes
    /\ mode[r] = "call" /\ at[r] > 5 => shape[r].method # "OPTIONS"
    /\ mode[r] = "panic" => r \in panicked /\ shape[r].path # "docs"
    /\ r \in panicked => \/ mode[r] \in {"panic", "done"}
                         \/ mode[r] = "return" /\ at[r] < 3

\* The origin CORS echoes.
Echo(r) == IF shape[r].origin \in AllowedOrigins THEN shape[r].origin ELSE None

\* RequestID is layer 1 and CORS layer 5.
HeaderSet(r) ==
    /\ Turned(r) \/ (mode[r] = "call" /\ at[r] > 1) => header[r].id # None
    /\ header[r].origin = IF Turned(r) \/ (mode[r] = "call" /\ at[r] > 5)
                          THEN Echo(r) ELSE None

\* The answer comes from the innermost layer reached, and carries the header
\* as it stands; a connection that was taken over carries none.
Answering(r) ==
    /\ mode[r] = "idle" \/ (mode[r] = "call" /\ at[r] < Depth(shape[r].path)) =>
          wire[r] = NoResponse /\ r \notin hijacked
    /\ mode[r] \in {"return", "done"} => Answered(r)
    /\ r \in hijacked => wire[r] = NoResponse \/ wire[r].status = 101
    /\ r \notin hijacked /\ wire[r] # NoResponse =>
          wire[r].status \notin {0, 101} /\ wire[r].header = header[r]

\* What the client of r got.
Got(r) == IF r \in hijacked THEN 101 ELSE wire[r].status

\* A recorder whose layer r has not left holds what the client got, although
\* a Write without WriteHeader does not mark it.
Recording(r) ==
    /\ ~Answered(r) => \A l \in {"accesslog", "metrics"} :
                          recorder[r][l] = [status |-> 200, wrote |-> FALSE]
    /\ Answered(r) => recorder[r]["accesslog"].status = Got(r)
    /\ Answered(r) /\ r \notin panicked => recorder[r]["metrics"].status = Got(r)
    /\ Answered(r) /\ mode[r] \in {"call", "panic"} /\ shape[r].path # "docs" =>
          recorder[r]["accesslog"].wrote = TRUE

\* AccessLog, layer 2, writes its line on the way out.
Logged(r) ==
    lines[r] = IF mode[r] = "done" \/ (mode[r] = "return" /\ at[r] = 1)
               THEN <<[status |-> recorder[r]["accesslog"].status,
                       id |-> header[r].id]>>
               ELSE <<>>

\* A request is charged to its own key; only requests of data take a token;
\* a 429 is due to requests of the same key.
Charged(r) ==
    /\ key[r] # None => mode[r] # "idle" /\ key[r] = ClientIP(shape[r])
    /\ \A k \in Keys : r \in bucket[k] =>
          /\ key[r] = k
          /\ shape[r].method = "GET" /\ shape[r].path \in {"data", "apiOther"}
    /\ wire[r].status = 429 =>
          /\ r \notin panicked /\ mode[r] \in {"return", "done"}
          /\ key[r] # None
          /\ Cardinality(denied[r]) >= Limit
          /\ \A q \in denied[r] : key[q] = key[r]

\* r has left the metrics layer, layer 4, without a panic.
Through(r) ==
    /\ r \notin panicked
    /\ mode[r] = "done" \/ (mode[r] = "return" /\ at[r] < 4)

Counted(s) == {r \in Requests : Through(r) /\ s = Got(r)}

Rejected == {r \in Requests : wire[r].status = 429}

Counting ==
    /\ \A s \in Statuses : httpRequestsTotal[s] = Cardinality(Counted(s))
    /\ rateLimitRejectedTotal = Cardinality(Rejected)

Local(r) == Position(r) /\ HeaderSet(r) /\ Answering(r) /\ Recording(r) /\ Logged(r)

Inv == /\ TypeOK /\ Counting
       /\ \A r \in Requests : Local(r) /\ Charged(r)

\* What a request itself does: an arrival, a step that decides on its token, or
\* a step that the limiter has no part in.
Plain(r) ==
    \/ RequestID(r) \/ Wrap(r) \/ CORS(r) \/ Skip(r)
    \/ Respond(r) \/ HandlerReturns(r) \/ HandlerPanics(r)
    \/ Pass(r) \/ CountRequest(r) \/ AccessLog(r)
    \/ UnwindLayer(r) \/ Recovery(r)

Step(r) ==
    \/ \E s \in Shapes : Arrive(r, s)
    \/ Admit(r) \/ Reject(r) \/ Plain(r)

-----------------------------------------------------------------------------
\* The layers of a path, by their place.
LEMMA LayerAt ==
    ASSUME NEW path
    PROVE  /\ Layers(path)[1] = "requestid" /\ Layers(path)[2] = "accesslog"
           /\ Layers(path)[3] = "recovery" /\ Layers(path)[4] = "metrics"
           /\ Layers(path)[5] = "cors"
           /\ UnderApi(path) => Layers(path)[6] = "ratelimit"
           /\ Layers(path)[Depth(path)] = "handler"
           /\ Depth(path) \in {6, 7}
<1> DEFINE outer == <<"requestid", "accesslog", "recovery", "metrics", "cors">>
<1>1. CASE UnderApi(path)
  <2>1. Layers(path) = (outer \o <<"ratelimit">>) \o <<"handler">>
    BY <1>1 DEF Layers
  <2> QED BY <1>1, <2>1 DEF Depth
<1>2. CASE ~UnderApi(path)
  <2>1. Layers(path) = (outer \o <<>>) \o <<"handler">>
    BY <1>2 DEF Layers
  <2> QED BY <1>2, <2>1 DEF Depth
<1> QED BY <1>1, <1>2

\* Which layer a request is in.
LEMMA LayerOf ==
    ASSUME NEW r, at[r] \in 1..Depth(shape[r].path)
    PROVE  /\ Layer(r) = "requestid" <=> at[r] = 1
           /\ Layer(r) = "accesslog" <=> at[r] = 2
           /\ Layer(r) = "recovery" <=> at[r] = 3
           /\ Layer(r) = "metrics" <=> at[r] = 4
           /\ Layer(r) = "cors" <=> at[r] = 5
           /\ Layer(r) = "ratelimit" <=> at[r] = 6 /\ UnderApi(shape[r].path)
           /\ Layer(r) = "handler" <=> at[r] = Depth(shape[r].path)
<1> DEFINE p == shape[r].path
<1>1. /\ Layers(p)[1] = "requestid" /\ Layers(p)[2] = "accesslog"
      /\ Layers(p)[3] = "recovery" /\ Layers(p)[4] = "metrics"
      /\ Layers(p)[5] = "cors"
      /\ UnderApi(p) => Layers(p)[6] = "ratelimit"
      /\ Layers(p)[Depth(p)] = "handler"
      /\ Depth(p) \in {6, 7}
  BY LayerAt
<1>2. Depth(p) = (IF UnderApi(p) THEN 7 ELSE 6)
  BY DEF Depth
<1>3. at[r] \in {1, 2, 3, 4, 5, 6, 7} /\ Layer(r) = Layers(p)[at[r]]
  BY <1>1 DEF Layer
<1> HIDE DEF p
<1>4. p = shape[r].path
  BY DEF p
<1> QED BY <1>1, <1>2, <1>3, <1>4

\* The recorders around a layer.
LEMMA AroundOf ==
    ASSUME NEW r, at[r] \in 1..7
    PROVE  /\ "accesslog" \in Around(r) <=> at[r] > 2
           /\ at[r] > 4 => "metrics" \in Around(r)
           /\ at[r] < 4 => "metrics" \notin Around(r)
<1>1. /\ Layers(shape[r].path)[1] = "requestid"
      /\ Layers(shape[r].path)[2] = "accesslog"
      /\ Layers(shape[r].path)[3] = "recovery"
      /\ Layers(shape[r].path)[4] = "metrics"
  BY LayerAt
<1>2. "accesslog" \in Around(r) <=> at[r] > 2
  <2>1. CASE at[r] > 2
    <3>1. 2 \in 1..(at[r] - 1)
      BY <2>1
    <3> QED BY <1>1, <2>1, <3>1 DEF Around
  <2>2. CASE ~(at[r] > 2)
    <3>1. \A i \in 1..(at[r] - 1) : i = 1
      BY <2>2
    <3> QED BY <1>1, <2>2, <3>1 DEF Around
  <2> QED BY <2>1, <2>2
<1>3. at[r] > 4 => "metrics" \in Around(r)
  <2>1. at[r] > 4 => 4 \in 1..(at[r] - 1)
    OBVIOUS
  <2> QED BY <1>1, <2>1 DEF Around
<1>4. at[r] < 4 => "metrics" \notin Around(r)
  <2>1. at[r] < 4 => \A i \in 1..(at[r] - 1) : i = 1 \/ i = 2
    OBVIOUS
  <2> QED BY <1>1, <2>1 DEF Around
<1> QED BY <1>2, <1>3, <1>4

\* Recorded only touches r's recorders, those around r that have seen nothing.
LEMMA RecordedBy ==
    ASSUME TypeOK, NEW r \in Requests, NEW code \in Statuses,
           recorder' = Recorded(r, code)
    PROVE  /\ recorder' \in [Requests -> [{"accesslog", "metrics"} ->
                               [status : Statuses, wrote : BOOLEAN]]]
           /\ \A q \in Requests \ {r} : recorder'[q] = recorder[q]
           /\ \A l \in {"accesslog", "metrics"} :
                 recorder'[r][l] = IF l \in Around(r) /\ ~recorder[r][l].wrote
                                   THEN [status |-> code, wrote |-> TRUE]
                                   ELSE recorder[r][l]
<1> DEFINE L == {"accesslog", "metrics"}
           S == [status : Statuses, wrote : BOOLEAN]
           new == [l \in L |-> IF l \in Around(r) /\ ~recorder[r][l].wrote
                               THEN [status |-> code, wrote |-> TRUE]
                               ELSE recorder[r][l]]
<1>1. recorder \in [Requests -> [L -> S]]
  BY DEF TypeOK
<1>2. DOMAIN recorder[r] = L /\ \A l \in L : recorder[r][l] \in S
  BY <1>1
<1>3. recorder' = [recorder EXCEPT ![r] = new]
  BY <1>2 DEF Recorded
<1>4. [status |-> code, wrote |-> TRUE] \in S
  OBVIOUS
<1>5. new \in [L -> S]
  <2> HIDE DEF S
  <2> QED BY <1>2, <1>4
<1> HIDE DEF S, new
<1>6. /\ recorder' \in [Requests -> [L -> S]]
      /\ \A q \in Requests \ {r} : recorder'[q] = recorder[q]
      /\ recorder'[r] = new
  BY <1>1, <1>3, <1>5
<1> QED BY <1>6 DEF S, new

\* Where a request under way is.
LEMMA Where ==
    ASSUME Inv, NEW r \in Requests, mode[r] \in {"call", "return", "panic"}
    PROVE  /\ shape[r] \in Shapes
           /\ Depth(shape[r].path) \in {6, 7}
           /\ Depth(shape[r].path) = 7 <=> UnderApi(shape[r].path)
           /\ at[r] \in 1..Depth(shape[r].path)
           /\ mode[r] # "call" => at[r] < Depth(shape[r].path)
           /\ Layer(r) = "requestid" <=> at[r] = 1
           /\ Layer(r) = "accesslog" <=> at[r] = 2
           /\ Layer(r) = "recovery" <=> at[r] = 3
           /\ Layer(r) = "metrics" <=> at[r] = 4
           /\ Layer(r) = "cors" <=> at[r] = 5
           /\ Layer(r) = "ratelimit" <=> at[r] = 6 /\ UnderApi(shape[r].path)
           /\ Layer(r) = "handler" <=> at[r] = Depth(shape[r].path)
<1>1. Depth(shape[r].path) \in {6, 7}
      /\ (Depth(shape[r].path) = 7 <=> UnderApi(shape[r].path))
  BY DEF Depth
<1>2. Position(r)
  BY DEF Inv, Local
<1>3. /\ shape[r] \in Shapes /\ at[r] \in 1..Depth(shape[r].path)
      /\ mode[r] # "call" => at[r] < Depth(shape[r].path)
  BY <1>1, <1>2 DEF Position
<1> QED BY <1>1, <1>3, LayerOf

\* What an action on another request leaves alone.
Same(q) ==
    /\ shape'[q] = shape[q] /\ at'[q] = at[q] /\ mode'[q] = mode[q]
    /\ recorder'[q] = recorder[q] /\ header'[q] = header[q] /\ wire'[q] = wire[q]
    /\ lines'[q] = lines[q]
    /\ q \in hijacked' <=> q \in hijacked
    /\ q \in panicked' <=> q \in panicked

\* So its own part of the invariant is kept.
LEMMA LocalKept ==
    ASSUME NEW q, Same(q), Local(q)
    PROVE  Local(q)'
<1> USE DEF Same
<1>1. Position(q)' /\ HeaderSet(q)'
  BY DEF Local, Position, HeaderSet, Turned, Echo
<1>2. Answered(q)' <=> Answered(q)
  BY DEF Answered
<1>3. Answering(q)'
  BY <1>2 DEF Local, Answering
<1>4. Recording(q)' /\ Logged(q)'
  BY <1>2 DEF Local, Recording, Logged, Got
<1> QED BY <1>1, <1>3, <1>4 DEF Local

\* What a step up or down the chain leaves alone.
Carried ==
    UNCHANGED <<shape, header, recorder, wire, hijacked, lines>>

\* Going on to the next layer, past the layers that leave no trace.
LEMMA DescendKeeps ==
    ASSUME Inv, NEW r \in Requests, mode[r] = "call", Descend(r), Carried,
           UNCHANGED panicked,
           at[r] \in {2, 3, 4} \/ (at[r] = 6 /\ Depth(shape[r].path) = 7)
    PROVE  /\ at' \in [Requests -> 0..7]
           /\ mode' \in [Requests -> {"idle", "call", "return", "panic", "done"}]
           /\ Local(r)'
<1>1. at \in [Requests -> 0..7]
      /\ mode \in [Requests -> {"idle", "call", "return", "panic", "done"}]
  BY DEF Inv, TypeOK
<1>2. at' = [at EXCEPT ![r] = @ + 1] /\ mode' = mode /\ at'[r] = at[r] + 1
  BY <1>1 DEF Descend
<1>3. Depth(shape[r].path) \in {6, 7} /\ shape[r] \in Shapes
  BY Where
<1>4. at[r] + 1 \in 3..Depth(shape[r].path)
  BY <1>3
<1>5. at' \in [Requests -> 0..7]
  BY <1>1, <1>2, <1>3, <1>4
<1>6. Local(r)
  BY DEF Inv
<1>7. Position(r)' /\ HeaderSet(r)'
  BY <1>2, <1>3, <1>4, <1>6 DEF Local, Position, HeaderSet, Turned, Echo, Carried
<1>8. Answered(r)' <=> Answered(r)
  BY DEF Answered, Carried
<1>9. Answering(r)' /\ Recording(r)'
  BY <1>2, <1>3, <1>6, <1>8 DEF Local, Answering, Recording, Got, Carried
<1>10. Logged(r)'
  BY <1>2, <1>6 DEF Local, Logged, Carried
<1> QED BY <1>1, <1>2, <1>5, <1>7, <1>9, <1>10 DEF Local

\* Going back to the layer outside, with an answer.
LEMMA AscendKeeps ==
    ASSUME Inv, NEW r \in Requests, Ascend(r), Carried, UNCHANGED panicked,
           \/ mode[r] = "call" /\ at[r] = Depth(shape[r].path) /\ Answered(r)
           \/ mode[r] = "return" /\ at[r] # 2
    PROVE  /\ at' \in [Requests -> 0..7]
           /\ mode' \in [Requests -> {"idle", "call", "return", "panic", "done"}]
           /\ Local(r)'
<1>1. at \in [Requests -> 0..7]
      /\ mode \in [Requests -> {"idle", "call", "return", "panic", "done"}]
  BY DEF Inv, TypeOK
<1>2. /\ shape[r] \in Shapes /\ Depth(shape[r].path) \in {6, 7}
      /\ at[r] \in 1..Depth(shape[r].path)
      /\ mode[r] # "call" => at[r] < Depth(shape[r].path)
  BY Where
<1>3. /\ at' = [at EXCEPT ![r] = at[r] - 1] /\ at'[r] = at[r] - 1
      /\ mode' = [mode EXCEPT ![r] = IF at[r] = 1 THEN "done" ELSE "return"]
      /\ mode'[r] = IF at[r] = 1 THEN "done" ELSE "return"
  BY <1>1 DEF Ascend
<1>4. at' \in [Requests -> 0..7]
  BY <1>1, <1>2, <1>3
<1>5. mode' \in [Requests -> {"idle", "call", "return", "panic", "done"}]
  BY <1>1, <1>3
<1>6. Local(r)
  BY DEF Inv
<1>7. Position(r)'
  BY <1>2, <1>3, <1>6 DEF Local, Position, Carried
<1>8. HeaderSet(r)'
  BY <1>2, <1>3, <1>6 DEF Local, HeaderSet, Turned, Echo, Carried
<1>9. Answered(r)' /\ Answered(r)
  BY <1>6 DEF Local, Answering, Answered, Carried
<1>10. Answering(r)'
  BY <1>2, <1>3, <1>6, <1>9 DEF Local, Answering, Carried
<1>11. Recording(r)'
  BY <1>3, <1>6, <1>9 DEF Local, Recording, Got, Carried
<1>12. Logged(r)'
  BY <1>2, <1>3, <1>6 DEF Local, Logged, Carried
<1> QED BY <1>4, <1>5, <1>7, <1>8, <1>10, <1>11, <1>12 DEF Local

\* A panic unwinds a layer.
LEMMA UnwindKeeps ==
    ASSUME Inv, NEW r \in Requests, Unwind(r), Carried,
           panicked' = panicked \cup {r},
           \/ /\ mode[r] = "call" /\ at[r] = Depth(shape[r].path)
              /\ shape[r].path # "docs"
           \/ mode[r] = "panic" /\ at[r] # 3
    PROVE  /\ at' \in [Requests -> 0..7]
           /\ mode' \in [Requests -> {"idle", "call", "return", "panic", "done"}]
           /\ Local(r)'
<1>1. at \in [Requests -> 0..7]
      /\ mode \in [Requests -> {"idle", "call", "return", "panic", "done"}]
  BY DEF Inv, TypeOK
<1>2. /\ shape[r] \in Shapes /\ Depth(shape[r].path) \in {6, 7}
      /\ at[r] \in 1..Depth(shape[r].path)
      /\ mode[r] # "call" => at[r] < Depth(shape[r].path)
  BY Where
<1>3. Local(r)
  BY DEF Inv
<1>4. at[r] > 3 /\ shape[r].path # "docs"
  BY <1>2, <1>3 DEF Local, Position
<1>5. /\ at' = [at EXCEPT ![r] = at[r] - 1] /\ at'[r] = at[r] - 1
      /\ mode' = [mode EXCEPT ![r] = "panic"] /\ mode'[r] = "panic"
  <2>1. at[r] # 1
    BY <1>2, <1>4
  <2>2. /\ at' = [at EXCEPT ![r] = at[r] - 1]
        /\ mode' = [mode EXCEPT ![r] = "panic"]
    BY <2>1 DEF Unwind
  <2> QED BY <1>1, <2>2
<1>6. at' \in [Requests -> 0..7]
  BY <1>1, <1>2, <1>5
<1>7. mode' \in [Requests -> {"idle", "call", "return", "panic", "done"}]
  BY <1>1, <1>5
<1>8. Position(r)'
  BY <1>2, <1>3, <1>4, <1>5 DEF Local, Position, Carried
<1>9. HeaderSet(r)'
  BY <1>2, <1>3, <1>4, <1>5 DEF Local, HeaderSet, Turned, Echo, Carried
<1>10. Answered(r)' <=> Answered(r)
  BY DEF Answered, Carried
<1>11. Answering(r)'
  BY <1>2, <1>3, <1>5, <1>10 DEF Local, Answering, Carried
<1>12. Recording(r)'
  BY <1>3, <1>4, <1>5, <1>10 DEF Local, Recording, Got, Carried
<1>13. Logged(r)'
  BY <1>2, <1>3, <1>4, <1>5 DEF Local, Logged, Carried
<1> QED BY <1>6, <1>7, <1>8, <1>9, <1>11, <1>12, <1>13 DEF Local

\* A request arrives.
LEMMA ArriveKeeps ==
    ASSUME Inv, NEW r \in Requests, NEW s \in Shapes, Arrive(r, s)
    PROVE  TypeOK' /\ Local(r)'
<1>1. /\ mode[r] = "idle" /\ shape'[r] = s /\ at'[r] = 1 /\ mode'[r] = "call"
      /\ UNCHANGED <<header, recorder, wire, hijacked, lines, panicked>>
  BY DEF Arrive, Inv, TypeOK, answerVars, reportVars
<1>2. TypeOK'
  <2>1. /\ shape' \in [Requests -> Shapes \cup {None}]
        /\ at' \in [Requests -> 0..7]
        /\ mode' \in [Requests -> {"idle", "call", "return", "panic", "done"}]
    <3>1. /\ shape \in [Requests -> Shapes \cup {None}]
          /\ at \in [Requests -> 0..7]
          /\ mode \in [Requests -> {"idle", "call", "return", "panic", "done"}]
      BY DEF Inv, TypeOK
    <3> QED BY <3>1 DEF Arrive
  <2> QED BY <2>1 DEF Arrive, Inv, TypeOK, answerVars, reportVars
<1>3. Local(r)
  BY DEF Inv
<1>4. Depth(s.path) \in {6, 7}
  BY DEF Depth
<1>5. Answered(r)' <=> Answered(r)
  BY <1>1 DEF Answered
<1>6. ~Answered(r)
  BY <1>1, <1>3 DEF Local, Answering, Answered
<1>7. Position(r)'
  BY <1>1, <1>3, <1>4 DEF Local, Position
<1>8. HeaderSet(r)'
  BY <1>1, <1>3 DEF Local, HeaderSet, Turned
<1>9. Answering(r)' /\ Recording(r)'
  BY <1>1, <1>3, <1>5, <1>6 DEF Local, Answering, Recording
<1>10. Logged(r)'
  BY <1>1, <1>3 DEF Local, Logged
<1> QED BY <1>2, <1>7, <1>8, <1>9, <1>10 DEF Local

\* RequestID names the request.
LEMMA RequestIDKeeps ==
    ASSUME Inv, NEW r \in Requests, RequestID(r)
    PROVE  TypeOK' /\ Local(r)'
<1>1. /\ at[r] = 1 /\ mode[r] = "call" /\ shape[r] \in Shapes
      /\ Depth(shape[r].path) \in {6, 7}
  BY Where DEF RequestID, In
<1> DEFINE id == IF shape[r].id = None THEN r ELSE shape[r].id
<1>2. id # None /\ id \in RequestIDs
  BY <1>1, MiddlewareAssumption DEF RequestIDs
<1>3. header' = [header EXCEPT ![r].id = id]
  BY DEF RequestID
<1> HIDE DEF id
<1>4. header \in [Requests -> Headers]
  BY DEF Inv, TypeOK
<1>5. /\ header' \in [Requests -> Headers]
      /\ header'[r].id = id /\ header'[r].origin = header[r].origin
  BY <1>2, <1>3, <1>4 DEF Headers
<1>6. /\ at'[r] = 2 /\ mode' = mode /\ at' \in [Requests -> 0..7]
      /\ UNCHANGED <<shape, key, bucket, denied, recorder, wire, hijacked, lines,
                     httpRequestsTotal, rateLimitRejectedTotal, panicked>>
  BY <1>1 DEF RequestID, Descend, answerVars, reportVars, Inv, TypeOK
<1>7. TypeOK'
  BY <1>5, <1>6 DEF Inv, TypeOK
<1>8. Local(r)
  BY DEF Inv
<1>9. wire[r] = NoResponse /\ r \notin hijacked
  BY <1>1, <1>8 DEF Local, Answering
<1>10. Position(r)'
  BY <1>1, <1>6, <1>8 DEF Local, Position
<1>11. HeaderSet(r)'
  BY <1>1, <1>2, <1>5, <1>6, <1>8 DEF Local, HeaderSet, Turned
<1>12. Answering(r)' /\ Recording(r)'
  BY <1>1, <1>6, <1>8, <1>9 DEF Local, Answering, Recording, Answered
<1>13. Logged(r)'
  BY <1>1, <1>6, <1>8 DEF Local, Logged
<1> QED BY <1>7, <1>10, <1>11, <1>12, <1>13 DEF Local

\* Wrap and Skip go on.
LEMMA WrapKeeps ==
    ASSUME Inv, NEW r \in Requests, Wrap(r) \/ Skip(r)
    PROVE  TypeOK' /\ Local(r)'
<1>1. mode[r] = "call" /\ Descend(r)
      /\ UNCHANGED <<chainVars, answerVars, reportVars, panicked>>
  BY DEF Wrap, Skip, In
<1>2. at[r] \in {2, 3, 4} \/ (at[r] = 6 /\ Depth(shape[r].path) = 7)
  BY Where DEF Wrap, Skip, In
<1>3. Carried
  BY <1>1 DEF Carried, chainVars, answerVars, reportVars
<1>4. /\ at' \in [Requests -> 0..7]
      /\ mode' \in [Requests -> {"idle", "call", "return", "panic", "done"}]
      /\ Local(r)'
  BY <1>1, <1>2, <1>3, DescendKeeps
<1>5. TypeOK'
  BY <1>1, <1>4 DEF Inv, TypeOK, chainVars, answerVars, reportVars
<1> QED BY <1>4, <1>5

\* Pass, CountRequest and a handler's return go back.
LEMMA PassKeeps ==
    ASSUME Inv, NEW r \in Requests, HandlerReturns(r) \/ Pass(r) \/ CountRequest(r)
    PROVE  TypeOK' /\ Local(r)'
<1>1. Ascend(r) /\ UNCHANGED <<chainVars, answerVars, lines,
                                rateLimitRejectedTotal, panicked>>
  BY DEF HandlerReturns, Pass, CountRequest, reportVars
<1>2. \/ mode[r] = "call" /\ at[r] = Depth(shape[r].path) /\ Answered(r)
      \/ mode[r] = "return" /\ at[r] # 2
  BY Where DEF HandlerReturns, Pass, CountRequest, In
<1>3. Carried
  BY <1>1 DEF Carried, chainVars, answerVars
<1>4. /\ at' \in [Requests -> 0..7]
      /\ mode' \in [Requests -> {"idle", "call", "return", "panic", "done"}]
      /\ Local(r)'
  BY <1>1, <1>2, <1>3, AscendKeeps
<1>5. httpRequestsTotal' \in [Statuses -> Nat]
  <2>1. httpRequestsTotal \in [Statuses -> Nat]
    BY DEF Inv, TypeOK
  <2>2. CASE CountRequest(r)
    <3> DEFINE s == recorder[r]["metrics"].status
    <3>1. httpRequestsTotal' = [httpRequestsTotal EXCEPT ![s] = @ + 1]
      BY <2>2 DEF CountRequest
    <3>2. s \in Statuses
      BY DEF Inv, TypeOK
    <3> HIDE DEF s
    <3> QED BY <2>1, <3>1, <3>2
  <2>3. CASE HandlerReturns(r) \/ Pass(r)
    BY <2>1, <2>3 DEF HandlerReturns, Pass, reportVars
  <2> QED BY <2>2, <2>3
<1>6. TypeOK'
  BY <1>1, <1>4, <1>5 DEF Inv, TypeOK, chainVars, answerVars
<1> QED BY <1>4, <1>6

\* A panic, and its way up to Recovery.
LEMMA PanicKeeps ==
    ASSUME Inv, NEW r \in Requests, HandlerPanics(r) \/ UnwindLayer(r)
    PROVE  TypeOK' /\ Local(r)'
<1>1. Unwind(r) /\ UNCHANGED <<chainVars, answerVars, reportVars>>
  BY DEF HandlerPanics, UnwindLayer
<1>2. \/ /\ mode[r] = "call" /\ at[r] = Depth(shape[r].path)
         /\ shape[r].path # "docs"
      \/ mode[r] = "panic" /\ at[r] # 3
  BY Where DEF HandlerPanics, UnwindLayer, In
<1>3. panicked' = panicked \cup {r} /\ panicked' \subseteq Requests
  BY DEF HandlerPanics, UnwindLayer, Inv, Local, Position, TypeOK
<1>4. Carried
  BY <1>1 DEF Carried, chainVars, answerVars, reportVars
<1>5. /\ at' \in [Requests -> 0..7]
      /\ mode' \in [Requests -> {"idle", "call", "return", "panic", "done"}]
      /\ Local(r)'
  BY <1>1, <1>2, <1>3, <1>4, UnwindKeeps
<1>6. TypeOK'
  BY <1>1, <1>3, <1>5 DEF Inv, TypeOK, chainVars, answerVars, reportVars
<1> QED BY <1>5, <1>6

\* A request is charged to an address or to the one key for those without.
LEMMA KeyOf ==
    ASSUME NEW s \in Shapes
    PROVE  ClientIP(s) \in Keys
<1>1. Peer(s) \in Hosts \cup {None} /\ XFF(s) \in Seq(Keys \cup {None})
  <2>1. /\ s.from \in Hosts \cup {None} /\ s.via \in Hosts \cup {None}
        /\ s.own \in Seq(Keys \cup {None})
        /\ s.relay \in {"sets", "appends", "forwards"}
    BY MiddlewareAssumption
  <2>2. s.from \in Keys \cup {None}
    BY <2>1 DEF Keys
  <2> HIDE DEF Keys
  <2>3. /\ <<s.from>> \in Seq(Keys \cup {None})
        /\ Append(s.own, s.from) \in Seq(Keys \cup {None})
    BY <2>1, <2>2
  <2> QED BY <2>1, <2>3 DEF Peer, XFF
<1>2. XFF(s) # <<>> => Head(XFF(s)) \in Keys \cup {None}
  BY <1>1
<1> QED BY <1>1, <1>2 DEF ClientIP, Keys

\* Admit charges the request to its key and goes on.
LEMMA AdmitKeeps ==
    ASSUME Inv, NEW r \in Requests, Admit(r)
    PROVE  TypeOK' /\ Local(r)' /\ ClientIP(shape[r]) \in Keys
<1> DEFINE k == ClientIP(shape[r])
<1>1. /\ mode[r] = "call" /\ Descend(r) /\ key' = [key EXCEPT ![r] = k]
      /\ Take(r, k) \/ UNCHANGED bucket
      /\ UNCHANGED <<shape, header, denied, answerVars, reportVars, panicked>>
  BY DEF Admit, In
<1>2. at[r] = 6 /\ Depth(shape[r].path) = 7 /\ shape[r] \in Shapes
  BY Where DEF Admit, In
<1>3. k \in Keys
  BY <1>2, KeyOf
<1> HIDE DEF k
<1>4. Carried
  BY <1>1 DEF Carried, answerVars, reportVars
<1>5. /\ at' \in [Requests -> 0..7]
      /\ mode' \in [Requests -> {"idle", "call", "return", "panic", "done"}]
      /\ Local(r)'
  BY <1>1, <1>2, <1>4, DescendKeeps
<1>6. /\ bucket' \in [Keys -> SUBSET Requests]
      /\ \A j \in Keys : Cardinality(bucket'[j]) <= Limit
  <2>1. /\ bucket \in [Keys -> SUBSET Requests]
        /\ \A j \in Keys : Cardinality(bucket[j]) <= Limit
    BY DEF Inv, TypeOK
  <2>2. CASE Take(r, k)
    <3>1. IsFiniteSet(bucket[k])
      BY <1>3, <2>1, MiddlewareAssumption, FS_Subset
    <3>2. /\ Cardinality(bucket[k]) \in Nat
          /\ Cardinality(bucket[k] \cup {r}) =
                IF r \in bucket[k] THEN Cardinality(bucket[k])
                                   ELSE Cardinality(bucket[k]) + 1
      BY <3>1, FS_AddElement, FS_CardinalityType
    <3>3. /\ Cardinality(bucket[k]) < Limit
          /\ bucket' = [bucket EXCEPT ![k] = bucket[k] \cup {r}]
      BY <2>2 DEF Take
    <3>4. Cardinality(bucket[k] \cup {r}) <= Limit
      BY <3>2, <3>3, MiddlewareAssumption
    <3> QED BY <1>3, <2>1, <3>3, <3>4
  <2>3. CASE UNCHANGED bucket
    BY <2>1, <2>3
  <2> QED BY <1>1, <2>2, <2>3
<1>7. key' \in [Requests -> Keys \cup {None}]
  BY <1>1, <1>3 DEF Inv, TypeOK
<1>8. TypeOK'
  BY <1>1, <1>5, <1>6, <1>7 DEF Inv, TypeOK, answerVars, reportVars
<1> QED BY <1>3, <1>5, <1>8 DEF k

\* A layer on the way in answers, with the header h, and turns around.
LEMMA TurnKeeps ==
    ASSUME Inv, NEW r \in Requests, mode[r] = "call", at[r] \in {5, 6},
           at[r] < Depth(shape[r].path),
           NEW h \in Headers, h.id # None, h.origin = Echo(r),
           NEW code \in {204, 429},
           header'[r] = h, shape' = shape, lines' = lines, panicked' = panicked,
           WriteHeader(r, code, h), Ascend(r)
    PROVE  /\ at' \in [Requests -> 0..7]
           /\ mode' \in [Requests -> {"idle", "call", "return", "panic", "done"}]
           /\ recorder' \in [Requests -> [{"accesslog", "metrics"} ->
                               [status : Statuses, wrote : BOOLEAN]]]
           /\ \A q \in Requests \ {r} : recorder'[q] = recorder[q]
           /\ wire' \in [Requests -> [status : Statuses \cup {0}, header : Headers]]
           /\ wire' = [wire EXCEPT ![r] = [status |-> code, header |-> h]]
           /\ hijacked' = hijacked
           /\ Local(r)'
<1>1. /\ at \in [Requests -> 0..7]
      /\ mode \in [Requests -> {"idle", "call", "return", "panic", "done"}]
      /\ wire \in [Requests -> [status : Statuses \cup {0}, header : Headers]]
  BY DEF Inv, TypeOK
<1>2. Depth(shape[r].path) \in {6, 7} /\ shape[r] \in Shapes
  BY Where
<1>3. Local(r)
  BY DEF Inv
<1>4. /\ ~Answered(r) /\ wire[r] = NoResponse /\ r \notin hijacked
      /\ r \notin panicked /\ lines[r] = <<>>
  BY <1>3 DEF Local, Answering, Answered, Position, Logged
<1>5. code \in Statuses
  BY DEF Statuses
<1>6. /\ recorder' = Recorded(r, code) /\ UNCHANGED hijacked
      /\ wire' = [wire EXCEPT ![r] = [status |-> code, header |-> h]]
  BY <1>4 DEF WriteHeader
<1>7. [status |-> code, header |-> h] \in [status : Statuses \cup {0}, header : Headers]
  BY <1>5
<1>8. /\ wire' \in [Requests -> [status : Statuses \cup {0}, header : Headers]]
      /\ wire'[r] = [status |-> code, header |-> h]
  BY <1>1, <1>6, <1>7
<1>9. /\ recorder' \in [Requests -> [{"accesslog", "metrics"} ->
                          [status : Statuses, wrote : BOOLEAN]]]
      /\ \A q \in Requests \ {r} : recorder'[q] = recorder[q]
      /\ \A l \in {"accesslog", "metrics"} :
            recorder'[r][l] = IF l \in Around(r) /\ ~recorder[r][l].wrote
                              THEN [status |-> code, wrote |-> TRUE]
                              ELSE recorder[r][l]
  BY <1>5, <1>6, RecordedBy DEF Inv
<1>10. \A l \in {"accesslog", "metrics"} :
          recorder'[r][l] = [status |-> code, wrote |-> TRUE]
  <2>1. "accesslog" \in Around(r) /\ "metrics" \in Around(r)
    BY AroundOf
  <2>2. \A l \in {"accesslog", "metrics"} :
           recorder[r][l] = [status |-> 200, wrote |-> FALSE]
    BY <1>3, <1>4 DEF Local, Recording
  <2>3. \A l \in {"accesslog", "metrics"} : ~recorder[r][l].wrote
    BY <2>2
  <2> QED BY <1>9, <2>1, <2>3, Zenon
<1>11. /\ at' = [at EXCEPT ![r] = at[r] - 1] /\ at'[r] = at[r] - 1
       /\ mode' = [mode EXCEPT ![r] = "return"] /\ mode'[r] = "return"
  <2>1. at[r] # 1
    OBVIOUS
  <2>2. /\ at' = [at EXCEPT ![r] = at[r] - 1]
        /\ mode' = [mode EXCEPT ![r] = "return"]
    BY <2>1 DEF Ascend
  <2> QED BY <1>1, <2>2
<1>12. at' \in [Requests -> 0..7]
  BY <1>1, <1>11
<1>13. mode' \in [Requests -> {"idle", "call", "return", "panic", "done"}]
  BY <1>1, <1>11
<1>14. Position(r)'
  BY <1>2, <1>4, <1>11 DEF Position
<1>15. HeaderSet(r)'
  BY <1>11 DEF HeaderSet, Turned, Echo
<1>16. Answered(r)'
  BY <1>8 DEF Answered, NoResponse
<1>17. Answering(r)'
  BY <1>4, <1>6, <1>8, <1>11, <1>16 DEF Answering
<1>18. Recording(r)'
  <2>1. Got(r)' = code
    BY <1>4, <1>6, <1>8 DEF Got
  <2>2. /\ recorder'[r]["accesslog"].status = code
        /\ recorder'[r]["metrics"].status = code
    BY <1>10
  <2> QED BY <1>11, <1>16, <2>1, <2>2 DEF Recording
<1>19. Logged(r)'
  BY <1>4, <1>11 DEF Logged
<1> QED BY <1>6, <1>8, <1>9, <1>12, <1>13, <1>14, <1>15, <1>17, <1>18,
           <1>19 DEF Local

\* Reject answers 429.
LEMMA RejectKeeps ==
    ASSUME Inv, NEW r \in Requests, Reject(r)
    PROVE  /\ TypeOK' /\ Local(r)' /\ ClientIP(shape[r]) \in Keys
           /\ \A q \in Requests \ {r} : recorder'[q] = recorder[q]
           /\ wire' = [wire EXCEPT ![r] = [status |-> 429, header |-> header[r]]]
           /\ wire[r] = NoResponse /\ UNCHANGED hijacked
<1> DEFINE k == ClientIP(shape[r])
<1>1. /\ mode[r] = "call" /\ WriteHeader(r, 429, header[r]) /\ Ascend(r)
      /\ key' = [key EXCEPT ![r] = k] /\ denied' = [denied EXCEPT ![r] = bucket[k]]
      /\ rateLimitRejectedTotal' = rateLimitRejectedTotal + 1
      /\ UNCHANGED <<shape, header, bucket, lines, httpRequestsTotal, panicked>>
  BY DEF Reject, In
<1>2. at[r] = 6 /\ Depth(shape[r].path) = 7 /\ shape[r] \in Shapes
  BY Where DEF Reject, In
<1>3. k \in Keys
  BY <1>2, KeyOf
<1> HIDE DEF k
<1>4. header \in [Requests -> Headers] /\ header[r] \in Headers
  BY DEF Inv, TypeOK
<1>5. header'[r] = header[r]
  BY <1>1
<1>6. header[r].id # None /\ header[r].origin = Echo(r)
  BY <1>1, <1>2 DEF Inv, Local, HeaderSet
<1>7. /\ at' \in [Requests -> 0..7]
      /\ mode' \in [Requests -> {"idle", "call", "return", "panic", "done"}]
      /\ recorder' \in [Requests -> [{"accesslog", "metrics"} ->
                          [status : Statuses, wrote : BOOLEAN]]]
      /\ \A q \in Requests \ {r} : recorder'[q] = recorder[q]
      /\ wire' \in [Requests -> [status : Statuses \cup {0}, header : Headers]]
      /\ wire' = [wire EXCEPT ![r] = [status |-> 429, header |-> header[r]]]
      /\ UNCHANGED hijacked
      /\ Local(r)'
  <2>1. /\ 429 \in {204, 429} /\ at[r] \in {5, 6} /\ at[r] < Depth(shape[r].path)
        /\ shape' = shape /\ lines' = lines /\ panicked' = panicked
    BY <1>1, <1>2
  <2> QED BY <1>1, <1>4, <1>5, <1>6, <2>1, TurnKeeps
<1>8. key' \in [Requests -> Keys \cup {None}]
  BY <1>1, <1>3 DEF Inv, TypeOK
<1>9. denied' \in [Requests -> SUBSET Requests]
  BY <1>1, <1>3 DEF Inv, TypeOK
<1>10. rateLimitRejectedTotal' \in Nat
  BY <1>1 DEF Inv, TypeOK
<1>11. TypeOK'
  BY <1>1, <1>7, <1>8, <1>9, <1>10 DEF Inv, TypeOK
<1>12. wire[r] = NoResponse
  BY <1>1, <1>2 DEF Inv, Local, Answering
<1> QED BY <1>3, <1>7, <1>11, <1>12 DEF k

\* CORS sets the origin, and answers a preflight.
LEMMA CORSKeeps ==
    ASSUME Inv, NEW r \in Requests, CORS(r)
    PROVE  /\ TypeOK' /\ Local(r)'
           /\ \A q \in Requests \ {r} : /\ recorder'[q] = recorder[q]
                                        /\ header'[q] = header[q]
                                        /\ wire'[q] = wire[q]
           /\ wire'[r].status # 429 /\ wire[r] = NoResponse
           /\ UNCHANGED hijacked
<1> DEFINE h == [header[r] EXCEPT !.origin =
                   IF shape[r].origin \in AllowedOrigins THEN shape[r].origin
                                                         ELSE @]
<1>1. /\ mode[r] = "call" /\ header' = [header EXCEPT ![r] = h]
      /\ UNCHANGED <<shape, key, bucket, denied, reportVars, panicked>>
      /\ \/ WriteHeader(r, 204, h) /\ Ascend(r)
         \/ /\ shape[r].method # "OPTIONS" /\ Descend(r)
            /\ UNCHANGED answerVars
  BY DEF CORS, In
<1>2. at[r] = 5 /\ Depth(shape[r].path) \in {6, 7} /\ shape[r] \in Shapes
  BY Where DEF CORS, In
<1>3. header \in [Requests -> Headers] /\ header[r] \in Headers
  BY DEF Inv, TypeOK
<1>4. Local(r)
  BY DEF Inv
<1>5. /\ header[r].id # None /\ header[r].origin = None
      /\ wire[r] = NoResponse /\ r \notin hijacked /\ lines[r] = <<>>
  BY <1>1, <1>2, <1>4 DEF Local, HeaderSet, Turned, Answering, Logged
<1>6. h \in Headers /\ h.id = header[r].id /\ h.origin = Echo(r)
  BY <1>3, <1>5 DEF Headers, Echo
<1> HIDE DEF h
<1>7. header' \in [Requests -> Headers] /\ header'[r] = h
      /\ \A q \in Requests \ {r} : header'[q] = header[q]
  BY <1>1, <1>3, <1>6
<1>8. CASE WriteHeader(r, 204, h) /\ Ascend(r)
  <2>1. /\ 204 \in {204, 429} /\ at[r] \in {5, 6} /\ at[r] < Depth(shape[r].path)
        /\ shape' = shape /\ lines' = lines /\ panicked' = panicked
        /\ h.id # None
    BY <1>1, <1>2, <1>5, <1>6 DEF reportVars
  <2>2. /\ at' \in [Requests -> 0..7]
        /\ mode' \in [Requests -> {"idle", "call", "return", "panic", "done"}]
        /\ recorder' \in [Requests -> [{"accesslog", "metrics"} ->
                            [status : Statuses, wrote : BOOLEAN]]]
        /\ \A q \in Requests \ {r} : recorder'[q] = recorder[q]
        /\ wire' \in [Requests -> [status : Statuses \cup {0}, header : Headers]]
        /\ wire' = [wire EXCEPT ![r] = [status |-> 204, header |-> h]]
        /\ UNCHANGED hijacked
        /\ Local(r)'
    BY <1>1, <1>6, <1>7, <1>8, <2>1, TurnKeeps
  <2>3. TypeOK'
    BY <1>1, <1>7, <2>2 DEF Inv, TypeOK, reportVars
  <2>4. /\ \A q \in Requests \ {r} : wire'[q] = wire[q]
        /\ wire'[r].status = 204
    BY <2>2 DEF Inv, TypeOK
  <2> QED BY <1>5, <1>7, <2>2, <2>3, <2>4
<1>9. CASE shape[r].method # "OPTIONS" /\ Descend(r) /\ UNCHANGED answerVars
  <2>1. at'[r] = 6 /\ mode' = mode /\ at' \in [Requests -> 0..7]
    BY <1>2, <1>9 DEF Descend, Inv, TypeOK
  <2>2. UNCHANGED <<shape, key, bucket, denied, recorder, wire, hijacked, lines,
                    httpRequestsTotal, rateLimitRejectedTotal, panicked>>
    BY <1>1, <1>9 DEF answerVars, reportVars
  <2>3. TypeOK'
    BY <1>7, <2>1, <2>2 DEF Inv, TypeOK
  <2>4. Position(r)'
    BY <1>1, <1>2, <1>4, <1>9, <2>1, <2>2 DEF Local, Position
  <2>5. HeaderSet(r)'
    BY <1>1, <1>5, <1>6, <1>7, <2>1, <2>2 DEF HeaderSet, Turned, Echo
  <2>6. ~Answered(r) /\ ~Answered(r)'
    BY <1>5, <2>2 DEF Answered
  <2>7. Answering(r)' /\ Recording(r)'
    BY <1>1, <1>4, <1>5, <2>1, <2>2, <2>6 DEF Local, Answering, Recording
  <2>8. Logged(r)'
    BY <1>1, <1>5, <2>1, <2>2 DEF Logged
  <2>9. wire'[r].status # 429
    BY <1>5, <2>2 DEF NoResponse
  <2> QED BY <1>5, <1>7, <2>2, <2>3, <2>4, <2>5, <2>7, <2>8, <2>9 DEF Local
<1> QED BY <1>1, <1>8, <1>9

\* The handler answers, sends a body, or takes the connection over.
LEMMA RespondKeeps ==
    ASSUME Inv, NEW r \in Requests, Respond(r)
    PROVE  /\ TypeOK' /\ Local(r)'
           /\ \A q \in Requests \ {r} : /\ recorder'[q] = recorder[q]
                                        /\ wire'[q] = wire[q]
                                        /\ q \in hijacked' <=> q \in hijacked
           /\ wire'[r].status # 429 /\ wire[r] = NoResponse
<1>1. /\ mode[r] = "call" /\ ~Answered(r)
      /\ UNCHANGED <<shape, at, mode, header, key, bucket, denied, lines,
                     httpRequestsTotal, rateLimitRejectedTotal, panicked>>
  BY DEF Respond, In, chainVars, reportVars
<1>2. /\ at[r] = Depth(shape[r].path) /\ Depth(shape[r].path) \in {6, 7}
      /\ shape[r] \in Shapes
  BY Where DEF Respond, In
<1>3. Local(r)
  BY DEF Inv
<1>4. wire[r] = NoResponse /\ r \notin hijacked /\ r \notin panicked
  BY <1>1, <1>3 DEF Answered, Local, Position
<1>5. /\ wire \in [Requests -> [status : Statuses \cup {0}, header : Headers]]
      /\ header[r] \in Headers /\ hijacked \subseteq Requests
      /\ recorder \in [Requests -> [{"accesslog", "metrics"} ->
                         [status : Statuses, wrote : BOOLEAN]]]
  BY DEF Inv, TypeOK
<1>6. \A l \in {"accesslog", "metrics"} :
         recorder[r][l] = [status |-> 200, wrote |-> FALSE]
  BY <1>1, <1>3 DEF Local, Recording
<1>7. \A code \in Statuses : recorder' = Recorded(r, code) =>
         /\ recorder' \in [Requests -> [{"accesslog", "metrics"} ->
                             [status : Statuses, wrote : BOOLEAN]]]
         /\ \A q \in Requests \ {r} : recorder'[q] = recorder[q]
         /\ recorder'[r]["accesslog"] = [status |-> code, wrote |-> TRUE]
         /\ recorder'[r]["metrics"] = [status |-> code, wrote |-> TRUE]
  <2> SUFFICES ASSUME NEW code \in Statuses, recorder' = Recorded(r, code)
               PROVE  /\ recorder' \in [Requests -> [{"accesslog", "metrics"} ->
                                          [status : Statuses, wrote : BOOLEAN]]]
                      /\ \A q \in Requests \ {r} : recorder'[q] = recorder[q]
                      /\ \A l \in {"accesslog", "metrics"} :
                            recorder'[r][l] = [status |-> code, wrote |-> TRUE]
    OBVIOUS
  <2>1. "accesslog" \in Around(r) /\ "metrics" \in Around(r)
    BY <1>2, AroundOf
  <2>2. \A l \in {"accesslog", "metrics"} : ~recorder[r][l].wrote
    BY <1>6
  <2>3. /\ recorder' \in [Requests -> [{"accesslog", "metrics"} ->
                            [status : Statuses, wrote : BOOLEAN]]]
        /\ \A q \in Requests \ {r} : recorder'[q] = recorder[q]
        /\ \A l \in {"accesslog", "metrics"} :
              recorder'[r][l] = IF l \in Around(r) /\ ~recorder[r][l].wrote
                                THEN [status |-> code, wrote |-> TRUE]
                                ELSE recorder[r][l]
    BY RecordedBy DEF Inv
  <2>4. \A l \in {"accesslog", "metrics"} :
           recorder'[r][l] = [status |-> code, wrote |-> TRUE]
    BY <2>1, <2>2, <2>3, Zenon
  <2> QED BY <2>3, <2>4
\* What each of the three ways to answer comes down to.
<1> DEFINE Spoke(c) ==
      /\ recorder' \in [Requests -> [{"accesslog", "metrics"} ->
                          [status : Statuses, wrote : BOOLEAN]]]
      /\ wire' \in [Requests -> [status : Statuses \cup {0}, header : Headers]]
      /\ \A q \in Requests \ {r} : /\ recorder'[q] = recorder[q]
                                   /\ wire'[q] = wire[q]
                                   /\ q \in hijacked' <=> q \in hijacked
      /\ hijacked' \subseteq Requests
      /\ recorder'[r]["accesslog"].status = c /\ recorder'[r]["metrics"].status = c
      /\ shape[r].path # "docs" => recorder'[r]["accesslog"].wrote = TRUE
      /\ \/ /\ r \notin hijacked' /\ c \notin {0, 101, 429}
            /\ wire'[r] = [status |-> c, header |-> header[r]]
         \/ /\ r \in hijacked' /\ c = 101
            /\ wire'[r] = NoResponse \/ wire'[r] = [status |-> 101, header |-> NoHeader]
<1>8. ASSUME NEW code \in Answers(shape[r].path), WriteHeader(r, code, header[r])
      PROVE  Spoke(code)
  <2>1. code \in {200, 400, 404, 502} /\ code \in Statuses
    <3>1. shape[r].path \in {"data", "health", "docs", "apiOther", "ws", "other"}
      BY <1>2, MiddlewareAssumption
    <3> QED BY <3>1, <1>8 DEF Answers, Statuses
  <2>2. /\ recorder' = Recorded(r, code) /\ hijacked' = hijacked
        /\ wire' = [wire EXCEPT ![r] = [status |-> code, header |-> header[r]]]
    BY <1>1, <1>8 DEF WriteHeader
  <2>3. [status |-> code, header |-> header[r]]
           \in [status : Statuses \cup {0}, header : Headers]
    BY <1>5, <2>1
  <2>4. /\ wire' \in [Requests -> [status : Statuses \cup {0}, header : Headers]]
        /\ wire'[r] = [status |-> code, header |-> header[r]]
        /\ \A q \in Requests \ {r} : wire'[q] = wire[q]
    BY <1>5, <2>2, <2>3
  <2>5. /\ recorder' \in [Requests -> [{"accesslog", "metrics"} ->
                            [status : Statuses, wrote : BOOLEAN]]]
        /\ \A q \in Requests \ {r} : recorder'[q] = recorder[q]
        /\ recorder'[r]["accesslog"] = [status |-> code, wrote |-> TRUE]
        /\ recorder'[r]["metrics"] = [status |-> code, wrote |-> TRUE]
    BY <1>7, <2>1, <2>2
  <2>6. /\ recorder'[r]["accesslog"].status = code
        /\ recorder'[r]["metrics"].status = code
        /\ recorder'[r]["accesslog"].wrote = TRUE
    BY <2>5
  <2>7. code \notin {0, 101, 429} /\ r \notin hijacked'
    BY <1>4, <2>1, <2>2
  <2> QED BY <1>5, <2>2, <2>4, <2>5, <2>6, <2>7
<1>9. ASSUME shape[r].path = "docs", Write(r)
      PROVE  Spoke(200)
  <2>1. /\ recorder' = recorder /\ hijacked' = hijacked
        /\ wire' = [wire EXCEPT ![r] = [status |-> 200, header |-> header[r]]]
    BY <1>9 DEF Write
  <2>2. [status |-> 200, header |-> header[r]]
           \in [status : Statuses \cup {0}, header : Headers]
    BY <1>5 DEF Statuses
  <2>3. /\ wire' \in [Requests -> [status : Statuses \cup {0}, header : Headers]]
        /\ wire'[r] = [status |-> 200, header |-> header[r]]
        /\ \A q \in Requests \ {r} : wire'[q] = wire[q]
    BY <1>5, <2>1, <2>2
  <2>4. /\ recorder'[r]["accesslog"].status = 200
        /\ recorder'[r]["metrics"].status = 200
    BY <1>6, <2>1
  <2> QED BY <1>4, <1>5, <1>9, <2>1, <2>3, <2>4
<1>10. ASSUME Hijack(r)
       PROVE  Spoke(101)
  <2>1. /\ recorder' = Recorded(r, 101) /\ hijacked' = hijacked \cup {r}
        /\ \/ wire' = wire
           \/ wire' = [wire EXCEPT ![r] = [status |-> 101, header |-> NoHeader]]
    BY <1>10 DEF Hijack
  <2>2. 101 \in Statuses
    BY DEF Statuses
  <2>3. [status |-> 101, header |-> NoHeader]
           \in [status : Statuses \cup {0}, header : Headers]
    BY <2>2 DEF NoHeader, Headers, RequestIDs
  <2>4. /\ wire' \in [Requests -> [status : Statuses \cup {0}, header : Headers]]
        /\ wire'[r] = NoResponse \/ wire'[r] = [status |-> 101, header |-> NoHeader]
        /\ \A q \in Requests \ {r} : wire'[q] = wire[q]
    BY <1>4, <1>5, <2>1, <2>3
  <2>5. /\ recorder' \in [Requests -> [{"accesslog", "metrics"} ->
                            [status : Statuses, wrote : BOOLEAN]]]
        /\ \A q \in Requests \ {r} : recorder'[q] = recorder[q]
        /\ recorder'[r]["accesslog"] = [status |-> 101, wrote |-> TRUE]
        /\ recorder'[r]["metrics"] = [status |-> 101, wrote |-> TRUE]
    BY <1>7, <2>1, <2>2
  <2>6. /\ recorder'[r]["accesslog"].status = 101
        /\ recorder'[r]["metrics"].status = 101
        /\ recorder'[r]["accesslog"].wrote = TRUE
    BY <2>5
  <2>7. /\ hijacked' \subseteq Requests /\ r \in hijacked'
        /\ \A q \in Requests \ {r} : q \in hijacked' <=> q \in hijacked
    BY <1>5, <2>1
  <2> QED BY <2>4, <2>5, <2>6, <2>7
<1>11. PICK c : Spoke(c)
  BY <1>8, <1>9, <1>10 DEF Respond
<1>12. TypeOK'
  BY <1>1, <1>11 DEF Inv, TypeOK
<1>13. Position(r)' /\ HeaderSet(r)' /\ Logged(r)'
  <2>1. Position(r)' /\ HeaderSet(r)'
    BY <1>1, <1>3 DEF Local, Position, HeaderSet, Turned, Echo
  <2>2. Logged(r)'
    BY <1>1, <1>3 DEF Local, Logged
  <2> QED BY <2>1, <2>2
<1>14. /\ Answered(r)' /\ Got(r)' = c
       /\ wire'[r].status # 429
  BY <1>11 DEF Answered, Got, NoResponse
<1>15. Answering(r)'
  BY <1>1, <1>2, <1>11, <1>14 DEF Answering
<1>16. Recording(r)'
  BY <1>1, <1>11, <1>14 DEF Recording
<1> QED BY <1>4, <1>11, <1>12, <1>13, <1>14, <1>15, <1>16 DEF Local

\* AccessLog writes its line and goes back.
LEMMA AccessLogKeeps ==
    ASSUME Inv, NEW r \in Requests, AccessLog(r)
    PROVE  TypeOK' /\ Local(r)' /\ \A q \in Requests \ {r} : lines'[q] = lines[q]
<1> DEFINE line == [status |-> recorder[r]["accesslog"].status, id |-> header[r].id]
<1>1. /\ mode[r] = "return" /\ Ascend(r)
      /\ lines' = [lines EXCEPT ![r] = Append(lines[r], line)]
      /\ UNCHANGED <<shape, header, key, bucket, denied, recorder, wire, hijacked,
                     httpRequestsTotal, rateLimitRejectedTotal, panicked>>
  BY DEF AccessLog, chainVars, answerVars
<1>2. at[r] = 2 /\ shape[r] \in Shapes /\ Depth(shape[r].path) \in {6, 7}
  BY Where DEF AccessLog
<1>3. Local(r)
  BY DEF Inv
<1>4. line \in [status : Statuses, id : RequestIDs]
  <2>1. header[r] \in Headers /\ recorder[r]["accesslog"].status \in Statuses
    BY DEF Inv, TypeOK
  <2>2. header[r].id \in RequestIDs
    BY <2>1 DEF Headers
  <2> QED BY <2>1, <2>2
<1>5. lines[r] = <<>>
  BY <1>1, <1>2, <1>3 DEF Local, Logged
<1> HIDE DEF line
<1>6. Append(lines[r], line) = <<line>>
  BY <1>5
<1>7. /\ lines' \in [Requests -> Seq([status : Statuses, id : RequestIDs])]
      /\ lines'[r] = <<line>>
      /\ \A q \in Requests \ {r} : lines'[q] = lines[q]
  <2>1. <<line>> \in Seq([status : Statuses, id : RequestIDs])
    BY <1>4
  <2>2. lines \in [Requests -> Seq([status : Statuses, id : RequestIDs])]
    BY DEF Inv, TypeOK
  <2> QED BY <1>1, <1>6, <2>1, <2>2
<1>8. /\ at' = [at EXCEPT ![r] = 1] /\ mode' = mode
      /\ at \in [Requests -> 0..7]
      /\ mode \in [Requests -> {"idle", "call", "return", "panic", "done"}]
  BY <1>1, <1>2 DEF Ascend, Inv, TypeOK
<1>9. at' \in [Requests -> 0..7] /\ at'[r] = 1
  BY <1>8
<1>10. TypeOK'
  BY <1>1, <1>7, <1>8, <1>9 DEF Inv, TypeOK
<1>11. Position(r)'
  BY <1>1, <1>2, <1>3, <1>8, <1>9 DEF Local, Position
<1>12. HeaderSet(r)'
  BY <1>1, <1>3, <1>8 DEF Local, HeaderSet, Turned, Echo
<1>13. Answered(r)' <=> Answered(r)
  BY <1>1 DEF Answered
<1>14. Answering(r)' /\ Recording(r)'
  BY <1>1, <1>3, <1>8, <1>13 DEF Local, Answering, Recording, Got
<1>15. Logged(r)'
  BY <1>1, <1>7, <1>8, <1>9 DEF Logged, line
<1> QED BY <1>7, <1>10, <1>11, <1>12, <1>14, <1>15 DEF Local

\* Recovery answers 500 unless the handler has answered before it panicked.
LEMMA RecoveryKeeps ==
    ASSUME Inv, NEW r \in Requests, Recovery(r)
    PROVE  /\ TypeOK' /\ Local(r)'
           /\ \A q \in Requests \ {r} : recorder'[q] = recorder[q] /\ wire'[q] = wire[q]
           /\ UNCHANGED hijacked
           /\ wire'[r] = wire[r] \/ (wire[r] = NoResponse /\ wire'[r].status = 500)
<1>1. /\ mode[r] = "panic" /\ WriteHeader(r, 500, header[r]) /\ Ascend(r)
      /\ UNCHANGED <<shape, header, key, bucket, denied, lines, httpRequestsTotal,
                     rateLimitRejectedTotal, panicked>>
  BY DEF Recovery, chainVars, reportVars
<1>2. at[r] = 3 /\ shape[r] \in Shapes /\ Depth(shape[r].path) \in {6, 7}
  BY Where DEF Recovery
<1>3. Local(r)
  BY DEF Inv
<1>4. r \in panicked /\ shape[r].path # "docs" /\ lines[r] = <<>>
  BY <1>1, <1>3 DEF Local, Position, Logged
<1>5. 500 \in Statuses
  BY DEF Statuses
<1>6. /\ recorder' = Recorded(r, 500) /\ UNCHANGED hijacked
      /\ wire' = IF Answered(r) THEN wire
                 ELSE [wire EXCEPT ![r] = [status |-> 500, header |-> header[r]]]
  BY <1>1 DEF WriteHeader
<1>7. /\ recorder' \in [Requests -> [{"accesslog", "metrics"} ->
                          [status : Statuses, wrote : BOOLEAN]]]
      /\ \A q \in Requests \ {r} : recorder'[q] = recorder[q]
      /\ \A l \in {"accesslog", "metrics"} :
            recorder'[r][l] = IF l \in Around(r) /\ ~recorder[r][l].wrote
                              THEN [status |-> 500, wrote |-> TRUE]
                              ELSE recorder[r][l]
  BY <1>5, <1>6, RecordedBy DEF Inv
<1>8. "accesslog" \in Around(r)
  BY <1>2, AroundOf
<1>9. /\ wire \in [Requests -> [status : Statuses \cup {0}, header : Headers]]
      /\ header[r] \in Headers
  BY DEF Inv, TypeOK
<1>10. /\ wire' \in [Requests -> [status : Statuses \cup {0}, header : Headers]]
       /\ \A q \in Requests \ {r} : wire'[q] = wire[q]
       /\ Answered(r) => wire'[r] = wire[r]
       /\ ~Answered(r) => wire'[r] = [status |-> 500, header |-> header[r]]
  <2>1. [status |-> 500, header |-> header[r]]
           \in [status : Statuses \cup {0}, header : Headers]
    BY <1>5, <1>9
  <2> QED BY <1>6, <1>9, <2>1
<1>11. /\ at' = [at EXCEPT ![r] = 2] /\ mode' = [mode EXCEPT ![r] = "return"]
       /\ at \in [Requests -> 0..7]
       /\ mode \in [Requests -> {"idle", "call", "return", "panic", "done"}]
  BY <1>1, <1>2 DEF Ascend, Inv, TypeOK
<1>12. /\ at' \in [Requests -> 0..7] /\ at'[r] = 2
       /\ mode' \in [Requests -> {"idle", "call", "return", "panic", "done"}]
       /\ mode'[r] = "return"
  BY <1>11
<1>13. TypeOK'
  BY <1>1, <1>6, <1>7, <1>10, <1>12 DEF Inv, TypeOK
<1>14. Position(r)'
  BY <1>1, <1>2, <1>12 DEF Position
<1>15. HeaderSet(r)'
  BY <1>1, <1>3, <1>12 DEF Local, HeaderSet, Turned, Echo
<1>16. Logged(r)'
  BY <1>1, <1>4, <1>12 DEF Logged
<1>17. CASE Answered(r)
  <2>1. wire'[r] = wire[r] /\ Answered(r)'
    BY <1>6, <1>10, <1>17 DEF Answered
  <2>2. recorder[r]["accesslog"].wrote = TRUE
    BY <1>1, <1>3, <1>4, <1>17 DEF Local, Recording
  <2>3. recorder'[r]["accesslog"] = recorder[r]["accesslog"]
    BY <1>7, <2>2, Zenon
  <2>4. Answering(r)'
    BY <1>1, <1>3, <1>6, <1>12, <2>1 DEF Local, Answering
  <2>5. Recording(r)'
    BY <1>1, <1>3, <1>4, <1>6, <1>12, <1>17, <2>1, <2>3 DEF Local, Recording, Got
  <2> QED BY <1>6, <1>7, <1>10, <1>13, <1>14, <1>15, <1>16, <2>1, <2>4, <2>5
          DEF Local
<1>18. CASE ~Answered(r)
  <2>1. /\ wire'[r] = [status |-> 500, header |-> header[r]]
        /\ r \notin hijacked' /\ wire[r] = NoResponse
    BY <1>6, <1>10, <1>18 DEF Answered
  <2>2. Answered(r)' /\ Got(r)' = 500
    BY <2>1 DEF Answered, NoResponse, Got
  <2>3. ~recorder[r]["accesslog"].wrote
    BY <1>3, <1>18 DEF Local, Recording
  <2>4. recorder'[r]["accesslog"] = [status |-> 500, wrote |-> TRUE]
    BY <1>7, <1>8, <2>3, Zenon
  <2>5. Answering(r)'
    BY <1>1, <1>12, <2>1, <2>2 DEF Answering
  <2>6. recorder'[r]["accesslog"].status = 500
    BY <2>4
  <2>7. Recording(r)'
    BY <1>1, <1>4, <1>12, <2>2, <2>6 DEF Recording
  <2> QED BY <1>6, <1>7, <1>10, <1>13, <1>14, <1>15, <1>16, <2>1, <2>5, <2>7
          DEF Local
<1> QED BY <1>17, <1>18

-----------------------------------------------------------------------------
\* A step of r keeps the types and what the invariant says of r, and touches
\* no other request.
LEMMA StepLocal ==
    ASSUME Inv, NEW r \in Requests, Step(r)
    PROVE  TypeOK' /\ Local(r)' /\ \A q \in Requests \ {r} : Same(q)
<1>1. /\ shape \in [Requests -> Shapes \cup {None}]
      /\ at \in [Requests -> 0..7]
      /\ mode \in [Requests -> {"idle", "call", "return", "panic", "done"}]
      /\ header \in [Requests -> Headers]
      /\ wire \in [Requests -> [status : Statuses \cup {0}, header : Headers]]
  BY DEF Inv, TypeOK
<1>2. CASE \E s \in Shapes : Arrive(r, s)
  <2>1. PICK s \in Shapes : Arrive(r, s)
    BY <1>2
  <2>2. \A q \in Requests \ {r} : Same(q)
    BY <1>1, <2>1 DEF Arrive, Same, answerVars, reportVars
  <2> QED BY <2>1, <2>2, ArriveKeeps
<1>3. CASE RequestID(r)
  <2>1. \A q \in Requests \ {r} : Same(q)
    BY <1>1, <1>3 DEF RequestID, Descend, Same, answerVars, reportVars
  <2> QED BY <1>3, <2>1, RequestIDKeeps
<1>4. CASE Wrap(r) \/ Skip(r)
  <2>1. \A q \in Requests \ {r} : Same(q)
    BY <1>1, <1>4 DEF Wrap, Skip, Descend, Same, chainVars, answerVars, reportVars
  <2> QED BY <1>4, <2>1, WrapKeeps
<1>5. CASE CORS(r)
  <2>1. /\ \A q \in Requests \ {r} : at'[q] = at[q] /\ mode'[q] = mode[q]
        /\ UNCHANGED <<shape, lines, panicked>>
    BY <1>1, <1>5 DEF CORS, Ascend, Descend, reportVars
  <2> QED BY <1>5, <2>1, CORSKeeps DEF Same
<1>6. CASE Admit(r)
  <2>1. \A q \in Requests \ {r} : Same(q)
    BY <1>1, <1>6 DEF Admit, Descend, Same, answerVars, reportVars
  <2> QED BY <1>6, <2>1, AdmitKeeps
<1>7. CASE Reject(r)
  <2>1. /\ \A q \in Requests \ {r} : at'[q] = at[q] /\ mode'[q] = mode[q]
        /\ UNCHANGED <<shape, header, lines, panicked>>
    BY <1>1, <1>7 DEF Reject, Ascend
  <2>2. /\ TypeOK' /\ Local(r)' /\ UNCHANGED hijacked
        /\ \A q \in Requests \ {r} : recorder'[q] = recorder[q]
        /\ wire' = [wire EXCEPT ![r] = [status |-> 429, header |-> header[r]]]
    BY <1>7, RejectKeeps
  <2>3. \A q \in Requests \ {r} : wire'[q] = wire[q]
    BY <1>1, <2>2
  <2> QED BY <2>1, <2>2, <2>3 DEF Same
<1>8. CASE Respond(r)
  <2>1. UNCHANGED <<shape, at, mode, header, lines, panicked>>
    BY <1>8 DEF Respond, chainVars, reportVars
  <2> QED BY <1>8, <2>1, RespondKeeps DEF Same
<1>9. CASE HandlerReturns(r) \/ Pass(r) \/ CountRequest(r)
  <2>1. \A q \in Requests \ {r} : Same(q)
    BY <1>1, <1>9 DEF HandlerReturns, Pass, CountRequest, Ascend, Same, chainVars,
                      answerVars, reportVars
  <2> QED BY <1>9, <2>1, PassKeeps
<1>10. CASE HandlerPanics(r) \/ UnwindLayer(r)
  <2>1. \A q \in Requests \ {r} : Same(q)
    BY <1>1, <1>10 DEF HandlerPanics, UnwindLayer, Unwind, Same, chainVars,
                       answerVars, reportVars
  <2> QED BY <1>10, <2>1, PanicKeeps
<1>11. CASE AccessLog(r)
  <2>1. /\ \A q \in Requests \ {r} : at'[q] = at[q] /\ mode'[q] = mode[q]
        /\ UNCHANGED <<shape, header, recorder, wire, hijacked, panicked>>
    BY <1>1, <1>11 DEF AccessLog, Ascend, chainVars, answerVars
  <2> QED BY <1>11, <2>1, AccessLogKeeps DEF Same
<1>12. CASE Recovery(r)
  <2>1. /\ \A q \in Requests \ {r} : at'[q] = at[q] /\ mode'[q] = mode[q]
        /\ UNCHANGED <<shape, header, lines, panicked>>
    BY <1>1, <1>12 DEF Recovery, Ascend, chainVars, reportVars
  <2> QED BY <1>12, <2>1, RecoveryKeeps DEF Same
<1> QED BY <1>2, <1>3, <1>4, <1>5, <1>6, <1>7, <1>8, <1>9, <1>10, <1>11, <1>12
        DEF Step, Plain

\* A plain step has no part in the limit: no 429 comes or goes, and a request
\* that has its 429 only goes on out.
LEMMA PlainEffect ==
    ASSUME Inv, NEW r \in Requests, Plain(r)
    PROVE  /\ UNCHANGED <<shape, key, bucket, denied, rateLimitRejectedTotal>>
           /\ mode'[r] # "idle"
           /\ wire'[r].status = 429 <=> wire[r].status = 429
           /\ wire[r].status = 429 => /\ r \notin panicked'
                                      /\ mode'[r] \in {"return", "done"}
<1>1. mode \in [Requests -> {"idle", "call", "return", "panic", "done"}]
  BY DEF Inv, TypeOK
<1>2. wire[r].status = 429 => mode[r] \in {"return", "done"} /\ r \notin panicked
  BY DEF Inv, Charged
<1>3. wire[r] = NoResponse => wire[r].status # 429
  BY DEF NoResponse
<1>4. CASE RequestID(r) \/ Wrap(r) \/ Skip(r)
  <2>1. /\ mode[r] = "call" /\ mode' = mode /\ wire' = wire
        /\ UNCHANGED <<shape, key, bucket, denied, rateLimitRejectedTotal>>
    BY <1>4 DEF RequestID, Wrap, Skip, In, Descend, chainVars, answerVars, reportVars
  <2> QED BY <1>2, <2>1
<1>5. CASE CORS(r)
  <2>1. /\ mode[r] = "call" /\ mode'[r] # "idle"
        /\ UNCHANGED <<shape, key, bucket, denied, rateLimitRejectedTotal>>
    BY <1>1, <1>5 DEF CORS, In, Descend, Ascend, reportVars
  <2>2. wire'[r].status # 429 /\ wire[r].status # 429
    BY <1>3, <1>5, CORSKeeps
  <2> QED BY <2>1, <2>2
<1>6. CASE Respond(r)
  <2>1. /\ mode[r] = "call" /\ mode'[r] # "idle"
        /\ UNCHANGED <<shape, key, bucket, denied, rateLimitRejectedTotal>>
    BY <1>6 DEF Respond, In, chainVars, reportVars
  <2>2. wire'[r].status # 429 /\ wire[r].status # 429
    BY <1>3, <1>6, RespondKeeps
  <2> QED BY <2>1, <2>2
<1>7. CASE HandlerReturns(r) \/ Pass(r) \/ CountRequest(r) \/ AccessLog(r)
  <2>1. /\ mode'[r] \in {"return", "done"} /\ wire' = wire /\ panicked' = panicked
        /\ UNCHANGED <<shape, key, bucket, denied, rateLimitRejectedTotal>>
    BY <1>1, <1>7 DEF HandlerReturns, Pass, CountRequest, AccessLog, Ascend,
                      chainVars, answerVars, reportVars
  <2> QED BY <1>2, <2>1
<1>8. CASE HandlerPanics(r) \/ UnwindLayer(r)
  <2>1. /\ mode[r] \in {"call", "panic"} /\ mode'[r] # "idle" /\ wire' = wire
        /\ UNCHANGED <<shape, key, bucket, denied, rateLimitRejectedTotal>>
    BY <1>1, <1>8 DEF HandlerPanics, UnwindLayer, In, Unwind, chainVars, answerVars,
                      reportVars
  <2> QED BY <1>2, <2>1
<1>9. CASE Recovery(r)
  <2>1. /\ mode[r] = "panic" /\ mode'[r] # "idle"
        /\ UNCHANGED <<shape, key, bucket, denied, rateLimitRejectedTotal>>
    BY <1>1, <1>9 DEF Recovery, Ascend, chainVars, reportVars
  <2>2. wire'[r].status = 429 <=> wire[r].status = 429
    BY <1>3, <1>9, RecoveryKeeps
  <2> QED BY <1>2, <2>1, <2>2
<1> QED BY <1>4, <1>5, <1>6, <1>7, <1>8, <1>9 DEF Plain

\* A key is given once; then what a request is charged stays right, as long as
\* it gets no token and no 429.
LEMMA ChargedKept ==
    ASSUME Inv, NEW q \in Requests,
           key'[q] = key[q], \A p \in Requests : key[p] # None => key'[p] = key[p],
           shape'[q] = shape[q], mode[q] # "idle" => mode'[q] # "idle",
           \A k \in Keys : q \in bucket'[k] => q \in bucket[k],
           wire'[q].status = 429 => wire[q].status = 429,
           wire[q].status = 429 => q \notin panicked' /\ mode'[q] \in {"return", "done"},
           denied'[q] = denied[q]
    PROVE  Charged(q)'
<1>1. Charged(q)
  BY DEF Inv
<1>2. denied[q] \subseteq Requests
  BY DEF Inv, TypeOK
<1>3. wire'[q].status = 429 => \A p \in denied[q] : key'[p] = key'[q]
  BY <1>1, <1>2 DEF Charged
<1>4. key'[q] # None => mode'[q] # "idle" /\ key'[q] = ClientIP(shape'[q])
  BY <1>1 DEF Charged
<1>5. ClientIP(shape[q])' = ClientIP(shape'[q])
  BY DEF ClientIP, isTrusted, Unknown, Peer, XFF
<1> QED BY <1>1, <1>3, <1>4, <1>5 DEF Charged

\* Every step of a request keeps the charges right.
LEMMA StepCharged ==
    ASSUME Inv, NEW r \in Requests, Step(r)
    PROVE  \A q \in Requests : Charged(q)'
<1>1. /\ key \in [Requests -> Keys \cup {None}]
      /\ bucket \in [Keys -> SUBSET Requests]
      /\ denied \in [Requests -> SUBSET Requests]
      /\ mode \in [Requests -> {"idle", "call", "return", "panic", "done"}]
      /\ wire \in [Requests -> [status : Statuses \cup {0}, header : Headers]]
      /\ shape \in [Requests -> Shapes \cup {None}]
  BY DEF Inv, TypeOK
<1>2. \A q \in Requests \ {r} : Same(q)
  BY StepLocal
<1>3. \A q \in Requests : Charged(q)
  BY DEF Inv
<1>4. None \notin Keys
  BY MiddlewareAssumption
\* The others: only r's key, bucket place and denial change.
<1>5. ASSUME \A q \in Requests \ {r} : key'[q] = key[q] /\ denied'[q] = denied[q],
             key[r] # None => key'[r] = key[r],
             \A k \in Keys : bucket'[k] \subseteq bucket[k] \cup {r}
      PROVE  \A q \in Requests \ {r} : Charged(q)'
  <2> SUFFICES ASSUME NEW q \in Requests \ {r}
               PROVE  Charged(q)'
    OBVIOUS
  <2>1. /\ shape'[q] = shape[q] /\ mode'[q] = mode[q] /\ wire'[q] = wire[q]
        /\ q \in panicked' <=> q \in panicked
    BY <1>2 DEF Same
  <2>2. wire[q].status = 429 => q \notin panicked /\ mode[q] \in {"return", "done"}
    BY <1>3 DEF Charged
  <2> QED BY <1>5, <2>1, <2>2, ChargedKept
<1>6. CASE \E s \in Shapes : Arrive(r, s)
  <2>1. /\ mode[r] = "idle"
        /\ UNCHANGED <<key, bucket, denied, wire, panicked>>
    BY <1>6 DEF Arrive, answerVars
  <2>2. key[r] = None /\ \A k \in Keys : r \notin bucket[k]
    BY <1>3, <1>4, <2>1 DEF Charged
  <2>3. wire[r].status # 429
    BY <1>3, <2>1 DEF Charged
  <2>4. Charged(r)'
    BY <2>1, <2>2, <2>3 DEF Charged
  <2> QED BY <1>5, <2>1, <2>4
<1>7. CASE Admit(r)
  <2> DEFINE k == ClientIP(shape[r])
  <2>1. /\ mode[r] = "call" /\ mode' = mode /\ key' = [key EXCEPT ![r] = k]
        /\ UNCHANGED <<shape, denied, wire, panicked>>
        /\ bucket' = [bucket EXCEPT ![k] = @ \cup {r}] \/ UNCHANGED bucket
        /\ shape[r].path \notin Bypass
    BY <1>7 DEF Admit, In, Descend, Take, answerVars
  <2>2. k \in Keys
    BY <1>7, AdmitKeeps
  <2>3. ClientIP(shape[r])' = k
    <3>1. ClientIP(shape[r])' = ClientIP(shape'[r])
      BY DEF ClientIP, isTrusted, Unknown, Peer, XFF
    <3> QED BY <2>1, <3>1
  <2>4. shape[r].method = "GET" /\ shape[r].path \in {"data", "apiOther"}
    <3>1. at[r] = 6 /\ UnderApi(shape[r].path) /\ shape[r] \in Shapes
      BY <2>1, <1>7, Where DEF Admit, In
    <3>2. shape[r].method # "OPTIONS"
      BY <2>1, <3>1 DEF Inv, Local, Position
    <3> QED BY <2>1, <3>1, <3>2, MiddlewareAssumption DEF UnderApi, Bypass
  <2>5. wire[r].status # 429
    BY <1>3, <2>1 DEF Charged
  <2> HIDE DEF k
  <2>6. key[r] # None => key[r] = k
    BY <1>3 DEF Charged, k
  <2>7. /\ key'[r] = k /\ \A q \in Requests \ {r} : key'[q] = key[q]
        /\ \A j \in Keys : bucket'[j] \subseteq bucket[j] \cup {r}
    BY <1>1, <2>1, <2>2
  <2>8. \A j \in Keys : r \in bucket'[j] => j = k
    <3> SUFFICES ASSUME NEW j \in Keys, r \in bucket'[j], j # k
                 PROVE  FALSE
      OBVIOUS
    <3>1. bucket'[j] = bucket[j]
      BY <1>1, <2>1, <2>2
    <3>2. key[r] = j
      BY <1>3, <3>1 DEF Charged
    <3> QED BY <1>4, <2>6, <3>2
  <2>9. Charged(r)'
    BY <2>1, <2>3, <2>4, <2>5, <2>7, <2>8 DEF Charged
  <2> QED BY <1>5, <2>1, <2>6, <2>7, <2>9
<1>8. CASE Reject(r)
  <2> DEFINE k == ClientIP(shape[r])
  <2>1. /\ mode[r] = "call" /\ key' = [key EXCEPT ![r] = k]
        /\ denied' = [denied EXCEPT ![r] = bucket[k]]
        /\ Cardinality(bucket[k]) >= Limit
        /\ UNCHANGED <<shape, bucket, panicked>>
        /\ mode' = [mode EXCEPT ![r] = IF at[r] = 1 THEN "done" ELSE "return"]
    BY <1>8 DEF Reject, In, Ascend
  <2>2. k \in Keys
    BY <1>8, RejectKeeps
  <2>3. ClientIP(shape[r])' = k
    <3>1. ClientIP(shape[r])' = ClientIP(shape'[r])
      BY DEF ClientIP, isTrusted, Unknown, Peer, XFF
    <3> QED BY <2>1, <3>1
  <2>4. r \notin panicked
    BY <2>1 DEF Inv, Local, Position
  <2> HIDE DEF k
  <2>5. key[r] # None => key[r] = k
    BY <1>3 DEF Charged, k
  <2>6. /\ key'[r] = k /\ denied'[r] = bucket[k] /\ mode'[r] \in {"return", "done"}
        /\ \A q \in Requests \ {r} : key'[q] = key[q] /\ denied'[q] = denied[q]
    BY <1>1, <2>1, <2>2
  <2>7. \A p \in bucket[k] : key'[p] = k
    <3> SUFFICES ASSUME NEW p \in bucket[k]
                 PROVE  key'[p] = k
      OBVIOUS
    <3>1. p \in Requests
      BY <1>1, <2>2
    <3>2. key[p] = k
      BY <1>3, <2>2, <3>1 DEF Charged
    <3> QED BY <2>6, <3>1, <3>2
  <2>8. \A j \in Keys : r \in bucket[j] =>
           /\ j = k
           /\ shape[r].method = "GET" /\ shape[r].path \in {"data", "apiOther"}
    BY <1>3, <1>4, <2>5 DEF Charged
  <2>9. k # None
    BY <1>4, <2>2
  <2>10. Charged(r)'
    BY <2>1, <2>3, <2>4, <2>6, <2>7, <2>8, <2>9 DEF Charged
  <2> QED BY <1>5, <2>1, <2>5, <2>6, <2>10
<1>9. CASE Plain(r)
  <2>1. /\ UNCHANGED <<shape, key, bucket, denied>>
        /\ mode'[r] # "idle"
        /\ wire'[r].status = 429 <=> wire[r].status = 429
        /\ wire[r].status = 429 => /\ r \notin panicked'
                                   /\ mode'[r] \in {"return", "done"}
    BY <1>9, PlainEffect
  <2>2. Charged(r)'
    BY <2>1, ChargedKept
  <2> QED BY <1>5, <2>1, <2>2
<1> QED BY <1>6, <1>7, <1>8, <1>9 DEF Step

\* Each counter goes with its set, in every step of a request.
LEMMA StepCounting ==
    ASSUME Inv, NEW r \in Requests, Step(r)
    PROVE  Counting'
<1>1. /\ httpRequestsTotal \in [Statuses -> Nat]
      /\ at \in [Requests -> 0..7]
      /\ mode \in [Requests -> {"idle", "call", "return", "panic", "done"}]
      /\ wire \in [Requests -> [status : Statuses \cup {0}, header : Headers]]
  BY DEF Inv, TypeOK
<1>2. \A q \in Requests \ {r} : Same(q)
  BY StepLocal
<1>3. /\ \A s \in Statuses : httpRequestsTotal[s] = Cardinality(Counted(s))
      /\ rateLimitRejectedTotal = Cardinality(Rejected)
  BY DEF Inv, Counting
<1>4. \A q \in Requests \ {r} : /\ Through(q)' <=> Through(q)
                                /\ Got(q)' = Got(q)
                                /\ wire'[q] = wire[q]
  BY <1>2 DEF Same, Through, Got
<1>5. mode[r] \in {"call", "return", "panic"} =>
         /\ at[r] \in 1..7
         /\ Layer(r) = "accesslog" <=> at[r] = 2
         /\ Layer(r) = "metrics" <=> at[r] = 4
         /\ Layer(r) = "cors" <=> at[r] = 5
         /\ Layer(r) = "ratelimit" => at[r] = 6
         /\ Layer(r) = "handler" => at[r] > 5
  BY Where
<1>6. rateLimitRejectedTotal' = Cardinality(Rejected')
  <2>1. CASE Reject(r)
    <3>1. /\ rateLimitRejectedTotal' = rateLimitRejectedTotal + 1
          /\ wire[r] = NoResponse
          /\ wire' = [wire EXCEPT ![r] = [status |-> 429, header |-> header[r]]]
      BY <2>1, RejectKeeps DEF Reject
    <3>2. wire'[r].status = 429 /\ wire[r].status # 429
      BY <1>1, <3>1 DEF NoResponse
    <3>3. Rejected' = Rejected \cup {r} /\ r \notin Rejected
      BY <1>4, <3>2 DEF Rejected
    <3>4. IsFiniteSet(Rejected)
      BY FS_Subset, MiddlewareAssumption DEF Rejected
    <3>5. Cardinality(Rejected \cup {r}) = Cardinality(Rejected) + 1
      BY <3>3, <3>4, FS_AddElement
    <3> QED BY <1>3, <3>1, <3>3, <3>5
  <2>2. CASE ~Reject(r)
    <3>1. /\ rateLimitRejectedTotal' = rateLimitRejectedTotal
          /\ wire'[r].status = 429 <=> wire[r].status = 429
      <4>1. CASE \E s \in Shapes : Arrive(r, s)
        BY <4>1 DEF Arrive, answerVars, reportVars
      <4>2. CASE Admit(r)
        BY <4>2 DEF Admit, answerVars, reportVars
      <4>3. CASE Plain(r)
        BY <4>3, PlainEffect
      <4> QED BY <2>2, <4>1, <4>2, <4>3 DEF Step
    <3>2. Rejected' = Rejected
      BY <1>4, <3>1 DEF Rejected
    <3> QED BY <1>3, <3>1, <3>2
  <2> QED BY <2>1, <2>2
<1>7. ASSUME Through(r)' <=> Through(r), Through(r) => Got(r)' = Got(r),
             UNCHANGED httpRequestsTotal
      PROVE  \A s \in Statuses : httpRequestsTotal'[s] = Cardinality(Counted(s)')
  <2> SUFFICES ASSUME NEW s \in Statuses
               PROVE  httpRequestsTotal'[s] = Cardinality(Counted(s)')
    OBVIOUS
  <2>1. Counted(s)' = Counted(s)
    BY <1>4, <1>7 DEF Counted
  <2> QED BY <1>3, <1>7, <2>1
<1>8. \A s \in Statuses : httpRequestsTotal'[s] = Cardinality(Counted(s)')
  <2>1. CASE CountRequest(r)
    <3> DEFINE c == recorder[r]["metrics"].status
    <3>1. /\ mode[r] = "return" /\ Layer(r) = "metrics"
          /\ httpRequestsTotal' = [httpRequestsTotal EXCEPT ![c] = @ + 1]
          /\ at' = [at EXCEPT ![r] = at[r] - 1]
          /\ mode' = [mode EXCEPT ![r] = IF at[r] = 1 THEN "done" ELSE "return"]
          /\ UNCHANGED <<wire, hijacked, panicked>>
      BY <2>1 DEF CountRequest, Ascend, chainVars, answerVars
    <3>2. at[r] = 4
      BY <1>5, <3>1
    <3>3. at'[r] = 3 /\ mode'[r] = "return"
      BY <1>1, <3>1, <3>2
    <3>4. r \notin panicked /\ Answered(r)
      BY <3>1, <3>2 DEF Inv, Local, Position, Answering
    <3>5. c = Got(r) /\ c \in Statuses
      BY <3>4 DEF Inv, TypeOK, Local, Recording
    <3>6. ~Through(r) /\ Through(r)' /\ Got(r)' = Got(r)
      BY <3>1, <3>2, <3>3, <3>4 DEF Through, Got
    <3> HIDE DEF c
    <3> SUFFICES ASSUME NEW s \in Statuses
                 PROVE  httpRequestsTotal'[s] = Cardinality(Counted(s)')
      OBVIOUS
    <3>7. CASE s = c
      <4>1. Counted(s)' = Counted(s) \cup {r} /\ r \notin Counted(s)
        BY <1>4, <3>5, <3>6, <3>7 DEF Counted
      <4>2. IsFiniteSet(Counted(s))
        BY FS_Subset, MiddlewareAssumption DEF Counted
      <4>3. Cardinality(Counted(s) \cup {r}) = Cardinality(Counted(s)) + 1
        BY <4>1, <4>2, FS_AddElement
      <4>4. httpRequestsTotal'[s] = httpRequestsTotal[s] + 1
        BY <1>1, <3>1, <3>5, <3>7
      <4> QED BY <1>3, <4>1, <4>3, <4>4
    <3>8. CASE s # c
      <4>1. Counted(s)' = Counted(s)
        BY <1>4, <3>5, <3>6, <3>8 DEF Counted
      <4>2. httpRequestsTotal'[s] = httpRequestsTotal[s]
        BY <1>1, <3>1, <3>8
      <4> QED BY <1>3, <4>1, <4>2
    <3> QED BY <3>7, <3>8
  <2>2. CASE \E s \in Shapes : Arrive(r, s)
    <3>1. mode[r] = "idle" /\ mode'[r] = "call" /\ UNCHANGED httpRequestsTotal
      BY <1>1, <2>2 DEF Arrive, reportVars
    <3> QED BY <1>7, <3>1 DEF Through
  <2>3. CASE RequestID(r) \/ Wrap(r) \/ Skip(r) \/ Admit(r) \/ Respond(r)
    <3>1. mode[r] = "call" /\ mode' = mode /\ UNCHANGED httpRequestsTotal
      BY <2>3 DEF RequestID, Wrap, Skip, Admit, Respond, In, Descend, reportVars
    <3> QED BY <1>7, <3>1 DEF Through
  <2>4. CASE CORS(r) \/ Reject(r) \/ HandlerReturns(r)
    <3>1. /\ mode[r] = "call" /\ UNCHANGED httpRequestsTotal
          /\ Layer(r) \in {"cors", "ratelimit", "handler"}
          /\ Ascend(r) \/ Descend(r)
      BY <2>4 DEF CORS, Reject, HandlerReturns, In, reportVars
    <3>2. at[r] > 4 /\ at[r] \in 1..7
      BY <1>5, <3>1
    <3>3. mode'[r] \in {"call", "return"} /\ at'[r] > 3 /\ at'[r] \in Int
      BY <1>1, <3>1, <3>2 DEF Ascend, Descend
    <3>4. ~Through(r) /\ ~Through(r)'
      BY <3>1, <3>3 DEF Through
    <3> QED BY <1>7, <3>1, <3>4
  <2>5. CASE Pass(r) \/ AccessLog(r)
    <3>1. /\ mode[r] = "return" /\ Layer(r) # "metrics" /\ Ascend(r)
          /\ UNCHANGED <<wire, hijacked, panicked, httpRequestsTotal>>
      BY <2>5 DEF Pass, AccessLog, answerVars, reportVars
    <3>2. at[r] # 4 /\ at[r] \in 1..7
      BY <1>5, <3>1
    <3>3. /\ at'[r] = at[r] - 1
          /\ mode'[r] = IF at[r] = 1 THEN "done" ELSE "return"
      BY <1>1, <3>1 DEF Ascend
    <3>4. (Through(r)' <=> Through(r)) /\ Got(r)' = Got(r)
      BY <3>1, <3>2, <3>3 DEF Through, Got
    <3> QED BY <1>7, <3>1, <3>4
  <2>6. CASE HandlerPanics(r) \/ UnwindLayer(r)
    <3>1. /\ mode[r] \in {"call", "panic"} /\ UNCHANGED httpRequestsTotal
          /\ r \in panicked'
      BY <2>6 DEF HandlerPanics, UnwindLayer, In, reportVars, Inv, Local, Position
    <3> QED BY <1>7, <3>1 DEF Through
  <2>7. CASE Recovery(r)
    <3>1. /\ r \in panicked /\ UNCHANGED <<panicked, httpRequestsTotal>>
      BY <2>7 DEF Recovery, reportVars, Inv, Local, Position
    <3> QED BY <1>7, <3>1 DEF Through
  <2> QED BY <2>1, <2>2, <2>3, <2>4, <2>5, <2>6, <2>7 DEF Step, Plain
<1> QED BY <1>6, <1>8 DEF Counting

\* The window sliding past a token takes no part in anything else.
LEMMA ExpireKeeps ==
    ASSUME Inv, NEW k \in Keys, Expire(k)
    PROVE  Inv'
<1>1. PICK r \in bucket[k] : bucket' = [bucket EXCEPT ![k] = bucket[k] \ {r}]
  BY DEF Expire
<1>2. UNCHANGED <<shape, at, mode, header, key, denied, recorder, wire, hijacked,
                  lines, httpRequestsTotal, rateLimitRejectedTotal, panicked>>
  BY DEF Expire, answerVars, reportVars
<1>3. /\ bucket \in [Keys -> SUBSET Requests]
      /\ \A j \in Keys : Cardinality(bucket[j]) <= Limit
  BY DEF Inv, TypeOK
<1>4. IsFiniteSet(bucket[k])
  BY <1>3, MiddlewareAssumption, FS_Subset
<1>5. /\ Cardinality(bucket[k]) \in Nat
      /\ Cardinality(bucket[k] \ {r}) = Cardinality(bucket[k]) - 1
  BY <1>4, FS_RemoveElement, FS_CardinalityType
<1>6. /\ bucket' \in [Keys -> SUBSET Requests]
      /\ \A j \in Keys : bucket'[j] \subseteq bucket[j]
      /\ \A j \in Keys : j # k => bucket'[j] = bucket[j]
      /\ bucket'[k] = bucket[k] \ {r}
  BY <1>1, <1>3
<1>7. \A j \in Keys : Cardinality(bucket'[j]) <= Limit
  <2>1. Cardinality(bucket'[k]) <= Limit
    BY <1>3, <1>5, <1>6, MiddlewareAssumption
  <2>2. \A j \in Keys : j # k => Cardinality(bucket'[j]) <= Limit
    BY <1>3, <1>6
  <2> QED BY <2>1, <2>2
<1>8. TypeOK'
  BY <1>2, <1>6, <1>7 DEF Inv, TypeOK
<1>9. \A q \in Requests : Local(q)'
  <2>1. \A q \in Requests : Same(q)
    BY <1>2 DEF Same
  <2> QED BY <2>1, LocalKept DEF Inv
<1>10. \A q \in Requests : Charged(q)'
  <2> SUFFICES ASSUME NEW q \in Requests
               PROVE  Charged(q)'
    OBVIOUS
  <2>1. wire[q].status = 429 => q \notin panicked /\ mode[q] \in {"return", "done"}
    BY DEF Inv, Charged
  <2> QED BY <1>2, <1>6, <2>1, ChargedKept
<1>11. Counting'
  <2>1. Rejected' = Rejected /\ \A s \in Statuses : Counted(s)' = Counted(s)
    BY <1>2 DEF Rejected, Counted, Through, Got
  <2> QED BY <1>2, <2>1 DEF Inv, Counting
<1> QED BY <1>8, <1>9, <1>10, <1>11 DEF Inv

\* The invariant holds before the first request.
LEMMA InitInv ==
    Init => Inv
<1> SUFFICES ASSUME Init
             PROVE  Inv
  OBVIOUS
<1>1. NoHeader \in Headers
  BY DEF NoHeader, Headers, RequestIDs
<1>2. NoResponse \in [status : Statuses \cup {0}, header : Headers]
  BY <1>1 DEF NoResponse
<1>3. Limit \in Nat /\ Cardinality({}) = 0 /\ None \notin Keys
  BY MiddlewareAssumption, FS_EmptySet
<1>4. 200 \in Statuses
  BY DEF Statuses
<1>5. TypeOK
  <2>1. /\ at \in [Requests -> 0..7]
        /\ mode \in [Requests -> {"idle", "call", "return", "panic", "done"}]
        /\ shape \in [Requests -> Shapes \cup {None}]
        /\ hijacked \subseteq Requests /\ panicked \subseteq Requests
        /\ key \in [Requests -> Keys \cup {None}]
        /\ denied \in [Requests -> SUBSET Requests]
        /\ httpRequestsTotal \in [Statuses -> Nat]
        /\ rateLimitRejectedTotal \in Nat
    BY DEF Init
  <2>2. /\ bucket \in [Keys -> SUBSET Requests]
        /\ \A k \in Keys : Cardinality(bucket[k]) <= Limit
    BY <1>3 DEF Init
  <2>3. recorder \in [Requests -> [{"accesslog", "metrics"} ->
                        [status : Statuses, wrote : BOOLEAN]]]
    BY <1>4 DEF Init
  <2>4. /\ header \in [Requests -> Headers]
        /\ wire \in [Requests -> [status : Statuses \cup {0}, header : Headers]]
    BY <1>1, <1>2 DEF Init
  <2>5. lines \in [Requests -> Seq([status : Statuses, id : RequestIDs])]
    BY DEF Init
  <2> QED BY <2>1, <2>2, <2>3, <2>4, <2>5 DEF TypeOK
<1>6. Counting
  <2>1. Rejected = {}
    BY DEF Init, Rejected, NoResponse
  <2>2. \A s \in Statuses : Counted(s) = {}
    BY DEF Init, Counted, Through
  <2> QED BY <1>3, <2>1, <2>2 DEF Init, Counting
<1>7. ASSUME NEW r \in Requests
      PROVE  Local(r) /\ Charged(r)
  <2>1. Position(r) /\ HeaderSet(r)
    BY DEF Init, Position, HeaderSet, Turned, NoHeader
  <2>2. ~Answered(r)
    BY DEF Init, Answered
  <2>3. Answering(r) /\ Logged(r)
    BY <2>2 DEF Init, Answering, Logged
  <2>4. Recording(r)
    BY <2>2 DEF Init, Recording
  <2>5. Charged(r)
    BY DEF Init, Charged, NoResponse
  <2> QED BY <2>1, <2>3, <2>4, <2>5 DEF Local
<1> QED BY <1>5, <1>6, <1>7 DEF Inv

\* The invariant is inductive: every step of the chain keeps it.
THEOREM Inductive == Spec => []Inv
<1>1. Init => Inv
  BY InitInv
<1>2. Inv /\ [Next]_vars => Inv'
  <2> SUFFICES ASSUME Inv, [Next]_vars
               PROVE  Inv'
    OBVIOUS
  <2>1. ASSUME NEW r \in Requests, Step(r)
        PROVE  Inv'
    <3>1. TypeOK' /\ Local(r)' /\ \A q \in Requests \ {r} : Same(q)
      BY <2>1, StepLocal
    <3>2. \A q \in Requests \ {r} : Local(q)'
      BY <3>1, LocalKept DEF Inv
    <3>3. \A q \in Requests : Charged(q)'
      BY <2>1, StepCharged
    <3>4. Counting'
      BY <2>1, StepCounting
    <3> QED BY <3>1, <3>2, <3>3, <3>4 DEF Inv
  <2>2. ASSUME NEW k \in Keys, Expire(k)
        PROVE  Inv'
    BY <2>2, ExpireKeeps
  <2>3. CASE UNCHANGED vars
    <3>1. TypeOK'
      BY <2>3 DEF vars, Inv, TypeOK
    <3>2. \A q \in Requests : Same(q)
      BY <2>3 DEF vars, Same
    <3>3. \A q \in Requests : Local(q)'
      BY <3>2, LocalKept DEF Inv
    <3>4. \A q \in Requests : Charged(q)'
      <4>1. \A q \in Requests : ClientIP(shape[q])' = ClientIP(shape'[q])
        BY DEF ClientIP, isTrusted, Unknown, Peer, XFF
      <4> QED BY <2>3, <4>1 DEF vars, Inv, Charged
    <3>5. Counting'
      BY <2>3 DEF vars, Inv, Counting, Rejected, Counted, Through, Got
    <3> QED BY <3>1, <3>3, <3>4, <3>5 DEF Inv
  <2> QED BY <2>1, <2>2, <2>3 DEF Next, Step, Plain
<1> QED BY <1>1, <1>2, PTL DEF Spec

\* The variables have their types and no bucket is ever over its limit.
THEOREM TypeCorrect == Spec => []TypeOK
<1>1. Inv => TypeOK
  BY DEF Inv
<1> QED BY <1>1, Inductive, PTL

\* A finished request has one access-log line, with the status and the request
\* id its client got, however many requests are in the chain at a time.
THEOREM LogFaithful == Spec => []LogMatchesWire
<1>1. Inv => LogMatchesWire
  <2> SUFFICES ASSUME Inv, NEW r \in Requests, Done(r)
               PROVE  /\ Len(lines[r]) = 1
                      /\ lines[r][1].id # None
                      /\ wire[r].status = lines[r][1].status
                         \/ (r \in hijacked /\ wire[r] = NoResponse)
                      /\ wire[r].header.id = lines[r][1].id \/ r \in hijacked
    BY DEF LogMatchesWire
  <2>1. mode[r] = "done" /\ Local(r)
    BY DEF Done, Inv
  <2>2. lines[r] = <<[status |-> recorder[r]["accesslog"].status,
                      id |-> header[r].id]>>
    BY <2>1 DEF Local, Logged
  <2>3. /\ Len(lines[r]) = 1 /\ lines[r][1].id = header[r].id
        /\ lines[r][1].status = recorder[r]["accesslog"].status
    BY <2>2
  <2>4. header[r].id # None
    BY <2>1 DEF Local, HeaderSet, Turned
  <2>5. Answered(r) /\ recorder[r]["accesslog"].status = Got(r)
    BY <2>1 DEF Local, Answering, Recording
  <2>6. CASE r \in hijacked
    BY <2>1, <2>3, <2>4, <2>5, <2>6 DEF Local, Answering, Got
  <2>7. CASE r \notin hijacked
    BY <2>1, <2>3, <2>4, <2>5, <2>7 DEF Local, Answering, Answered, Got
  <2> QED BY <2>6, <2>7
<1> QED BY <1>1, Inductive, PTL

\* Every answer but an upgrade names the request and the allowed origin it came
\* from, whichever layer gave it.
THEOREM BrowserCanRead == Spec => []ReadableByBrowser
<1>1. Inv => ReadableByBrowser
  <2> SUFFICES ASSUME Inv, NEW r \in Requests, wire[r].status \notin {0, 101}
               PROVE  /\ wire[r].header.origin = Echo(r)
                      /\ wire[r].header.id # None
    BY DEF ReadableByBrowser, Echo
  <2>1. Local(r) /\ mode[r] \in {"idle", "call", "return", "panic", "done"}
    BY DEF Inv, TypeOK
  <2>2. wire[r] # NoResponse
    BY DEF NoResponse
  <2>3. wire[r].header = header[r]
    BY <2>1, <2>2 DEF Local, Answering
  <2>4. Turned(r) \/ (mode[r] = "call" /\ at[r] > 5)
    <3>1. mode[r] # "idle"
      BY <2>1, <2>2 DEF Local, Answering
    <3>2. CASE mode[r] = "call"
      <4>1. /\ Depth(shape[r].path) \in {6, 7}
            /\ at[r] \in 1..Depth(shape[r].path)
        BY <3>2, Where
      <4>2. ~(at[r] < Depth(shape[r].path))
        BY <2>1, <2>2, <3>2 DEF Local, Answering
      <4> QED BY <3>2, <4>1, <4>2
    <3> QED BY <2>1, <3>1, <3>2 DEF Turned
  <2>5. header[r].origin = Echo(r)
    BY <2>1, <2>4 DEF Local, HeaderSet
  <2>6. header[r].id # None
    <3>1. Turned(r) \/ (mode[r] = "call" /\ at[r] > 1)
      <4>1. at[r] \in 0..7
        BY DEF Inv, TypeOK
      <4> QED BY <2>4, <4>1
    <3> QED BY <2>1, <3>1 DEF Local, HeaderSet
  <2> QED BY <2>3, <2>5, <2>6
<1> QED BY <1>1, Inductive, PTL

\* Only GETs of data, and of unknown paths beside it, ever hold a token.
THEOREM TokensForData == Spec => []OnlyDataCharged
<1>1. Inv => OnlyDataCharged
  BY DEF Inv, TypeOK, Charged, OnlyDataCharged
<1> QED BY <1>1, Inductive, PTL

\* The limit is one per sender: requests whose sender did not write the entry
\* ClientIP reads share a bucket exactly if they have the same sender.
THEOREM LimitPerSender == Spec => []PerSender
<1>1. ASSUME NEW s \in Shapes, Vouched(s)
      PROVE  /\ ClientIP(s) = IF Sender(s) = None THEN Unknown ELSE Sender(s)
             /\ Sender(s) # Unknown
  <2>1. /\ s.from \in Hosts \cup {None} /\ s.via \in Hosts \cup {None}
        /\ s.own \in Seq(Keys \cup {None})
        /\ s.relay \in {"sets", "appends", "forwards"}
        /\ None \notin Hosts /\ Unknown \notin Hosts /\ Unknown # None
    BY MiddlewareAssumption DEF Keys
  <2>2. ~isTrusted(None)
    BY <2>1, MiddlewareAssumption DEF isTrusted
  <2>3. Sender(s) # Unknown
    BY <2>1 DEF Sender, Peer
  <2>4. CASE ~isTrusted(Peer(s))
    <3>1. Sender(s) = Peer(s)
      BY <2>2, <2>4 DEF Sender, Peer
    <3> QED BY <2>3, <2>4, <3>1 DEF ClientIP
  <2>5. CASE isTrusted(Peer(s)) /\ s.via = None
    <3>1. XFF(s) = <<>> /\ Sender(s) = Peer(s)
      BY <2>2, <2>5, <1>1 DEF Sender, Vouched, XFF
    <3> QED BY <2>3, <3>1 DEF ClientIP
  <2>6. CASE isTrusted(Peer(s)) /\ s.via # None /\ s.relay = "forwards"
    <3>1. XFF(s) = <<>> /\ Sender(s) = Peer(s)
      BY <2>6, <1>1 DEF Sender, Vouched, XFF
    <3> QED BY <2>3, <3>1 DEF ClientIP
  <2>7. CASE isTrusted(Peer(s)) /\ s.via # None /\ s.relay # "forwards"
    <3>1. Peer(s) = s.via
      BY <2>7 DEF Peer
    <3>2. XFF(s) = <<s.from>>
      <4>1. CASE s.relay = "sets"
        BY <4>1, <2>7 DEF XFF
      <4>2. CASE s.relay = "appends"
        <5>1. s.own = <<>>
          BY <4>2, <2>7, <1>1 DEF Vouched
        <5>2. Append(<<>>, s.from) = <<s.from>>
          OBVIOUS
        <5>3. XFF(s) = Append(s.own, s.from)
          BY <4>2, <2>7 DEF XFF
        <5> QED BY <5>1, <5>2, <5>3
      <4> QED BY <2>1, <2>7, <4>1, <4>2
    <3>3. XFF(s) # <<>> /\ Head(XFF(s)) = s.from
      BY <3>2
    <3>4. Sender(s) = IF s.from # None THEN s.from ELSE s.via
      BY <2>7, <3>1 DEF Sender
    <3> QED BY <2>1, <2>3, <2>7, <3>1, <3>3, <3>4 DEF ClientIP
  <2> QED BY <2>4, <2>5, <2>6, <2>7
<1>2. Inv => PerSender
  <2> SUFFICES ASSUME Inv
               PROVE  PerSender
    OBVIOUS
  <2> DEFINE Of(q) == Sender(shape[q])
             OK(q) == key[q] # None /\ Vouched(shape[q])
  <2>1. ASSUME NEW q \in Requests, OK(q)
        PROVE  /\ key[q] = IF Of(q) = None THEN Unknown ELSE Of(q)
               /\ Of(q) # Unknown
    <3>1. mode[q] # "idle" /\ key[q] = ClientIP(shape[q])
      BY <2>1 DEF Inv, Charged
    <3>2. shape[q] \in Shapes
      BY <3>1 DEF Inv, Local, Position
    <3> QED BY <1>1, <2>1, <3>1, <3>2
  <2>2. ASSUME NEW r \in Requests, NEW q \in Requests, OK(r), OK(q)
        PROVE  key[r] = key[q] <=> Of(r) = Of(q)
    <3> HIDE DEF Of, OK
    <3> QED BY <2>1, <2>2
  <2>3. ASSUME NEW r \in Requests, wire[r].status = 429
        PROVE  /\ Cardinality(denied[r]) >= Limit
               /\ \A q \in denied[r] : Vouched(shape[q]) /\ Vouched(shape[r])
                                          => Of(q) = Of(r)
    <3>1. /\ key[r] # None /\ Cardinality(denied[r]) >= Limit
          /\ \A q \in denied[r] : key[q] = key[r]
      BY <2>3 DEF Inv, Charged
    <3>2. denied[r] \subseteq Requests
      BY DEF Inv, TypeOK
    <3> HIDE DEF Of
    <3> QED BY <2>2, <3>1, <3>2
  <2> QED BY <2>2, <2>3 DEF PerSender
<1> QED BY <1>2, Inductive, PTL

\* With no request under way, the two metrics have counted every request that
\* did not panic, once, under what its client got.
THEOREM MetricsExact == Spec => []CountedOnce
<1>1. Inv => CountedOnce
  <2> DEFINE quiet == \A r \in Requests : mode[r] \in {"idle", "done"}
             got(s) == {r \in Requests \ panicked :
                          /\ Done(r)
                          /\ s = IF r \in hijacked THEN 101 ELSE wire[r].status}
  <2> SUFFICES ASSUME Inv, quiet
               PROVE  /\ \A s \in Statuses :
                            httpRequestsTotal[s] = Cardinality(got(s))
                      /\ rateLimitRejectedTotal = httpRequestsTotal[429]
    BY DEF CountedOnce
  <2>1. \A s \in Statuses : Counted(s) = got(s)
    BY DEF Counted, Through, Got, Done
  <2>2. Rejected = Counted(429)
    <3>1. ASSUME NEW r \in Requests, wire[r].status = 429
          PROVE  Through(r) /\ Got(r) = 429
      <4>1. r \notin panicked /\ mode[r] \in {"return", "done"}
        BY <3>1 DEF Inv, Charged
      <4>2. mode[r] = "done"
        BY <4>1
      <4>3. r \notin hijacked
        BY <3>1 DEF Inv, Local, Answering, NoResponse
      <4> QED BY <3>1, <4>1, <4>2, <4>3 DEF Through, Got
    <3>2. ASSUME NEW r \in Requests, Got(r) = 429
          PROVE  wire[r].status = 429
      BY <3>2 DEF Got
    <3> QED BY <3>1, <3>2 DEF Rejected, Counted
  <2>3. 429 \in Statuses
    BY DEF Statuses
  <2>4. /\ \A s \in Statuses : httpRequestsTotal[s] = Cardinality(Counted(s))
        /\ rateLimitRejectedTotal = Cardinality(Rejected)
    BY DEF Inv, Counting
  <2>5. rateLimitRejectedTotal = httpRequestsTotal[429]
    BY <2>2, <2>3, <2>4
  <2> HIDE DEF got
  <2> QED BY <2>1, <2>4, <2>5
<1> QED BY <1>1, Inductive, PTL
=============================================================================
