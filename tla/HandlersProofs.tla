--------------------------- MODULE HandlersProofs ---------------------------
(***************************************************************************)
(* Proofs about Handlers, for any catalog, any query parameters, any page  *)
(* limits and any keepalive, and however often prices, rounds and          *)
(* registrations change during the request.                                *)
(***************************************************************************)
EXTENDS Handlers, TLAPS

(***************************************************************************)
(* The inductive invariant.  The properties speak of the finished answer;  *)
(* the invariant says the same of the answer under construction: which     *)
(* fields of which assets are already in it, by the place of the handler,  *)
(* and how what it holds relates to the world when the request began and   *)
(* to the world now.                                                       *)
(***************************************************************************)

\* The joins serve the endpoints that have one, and the single calls the rest;
\* nothing has been answered before the request.
Places ==
    /\ at = "idle" => out = NoAnswer /\ faults = {} /\ i = 1
    /\ InJoin => req.endpoint \in {"assets", "price"}
    /\ at = "lookup" => req.endpoint \in {"request", "submissions", "submission"}

\* Prices and rounds only grow, and registrations stay.
Monotone ==
    /\ \A a \in Assets : began.price[a] <= price[a] /\ began.round[a] <= round[a]
    /\ began.known \subseteq known

\* What the answer holds so far was true at some moment of the request.
Genuine ==
    \A a \in Assets :
        /\ out.price[a] # 0 => began.price[a] <= out.price[a] /\ out.price[a] <= price[a]
        /\ out.round[a] # 0 => began.round[a] <= out.round[a] /\ out.round[a] <= round[a]
        /\ a \in out.addr => a \in known

\* The record has a status of its kind, which was seen; an answer's status
\* stands for one that was seen.
RecordSeen ==
    /\ record \in seen
    /\ record \in (IF req.endpoint = "request" THEN RequestStatuses
                   ELSE SubmissionStatuses) \cup {"absent"}
    /\ out.record # "absent" =>
          (IF out.record = "" THEN "NEWER" ELSE Meaning[out.record]) \in seen

\* StatusHonest, from the moment the status is chosen.
Honest ==
    at \in {"write", "done"} /\ client # "gone" =>
        /\ out.status = 502 => faults # {}
        /\ out.status = 404 => IF req.endpoint = "price"
                               THEN \/ req.asset = Untracked
                                    \/ began.price[req.asset] = 0
                               ELSE "absent" \in seen
        /\ req.endpoint = "assets" => out.status = 200

\* The three fields of an asset: filled in, or lost to the call for it.
PriceServed(a) ==
    began.price[a] # 0 => out.price[a] # 0 \/ <<"price", a>> \in faults
RoundServed(a) ==
    began.round[a] # 0 => out.round[a] # 0 \/ <<"indexer", a>> \in faults
AddrServed(a) == a \in began.known => a \in out.addr
Served(a) == PriceServed(a) /\ RoundServed(a) /\ AddrServed(a)

\* ListAssets has served the assets before i, and asset i as far as it has
\* come: registry, price, round.
AssetsProgress ==
    req.endpoint = "assets" /\ client # "gone" =>
        /\ InHandler \/ at = "done" => \A a \in 1..(i - 1) : Served(a)
        /\ at \in {"getprice", "round"} => AddrServed(i)
        /\ at = "round" => PriceServed(i)
        /\ at \in {"write", "done"} => i = NumAssets /\ Served(i)

\* GetAssetPrice serves the asset it was asked for: price, registry, round.
PriceProgress ==
    req.endpoint = "price" /\ client # "gone" =>
        /\ InJoin => i = req.asset
        /\ at \in {"registry", "round"} => PriceServed(i)
        /\ at = "round" => AddrServed(i)
        /\ at \in {"write", "done"} /\ out.status = 200 =>
              i = req.asset /\ Served(i)

Inv == /\ TypeOK /\ PageInRange /\ Places /\ Monotone /\ Genuine /\ RecordSeen
       /\ Honest /\ AssetsProgress /\ PriceProgress

-----------------------------------------------------------------------------
\* A call that goes wrong is remembered, unless the client has left.
LEMMA FaultKept ==
    ASSUME TypeOK, InCall, Fault
    PROVE  /\ faults \subseteq faults'
           /\ client # "gone" => <<Service, i>> \in faults'
           /\ faults' \subseteq Services \X Assets
<1>1. Service \in Services
  BY DEF InCall, Service, Services
<1> QED BY <1>1 DEF Fault, TypeOK

\* The empty answer.
LEMMA NoAnswerFields ==
    /\ NoAnswer \in Answers
    /\ NoAnswer.status = 0 /\ NoAnswer.addr = {} /\ NoAnswer.record = "absent"
    /\ \A a \in Assets : NoAnswer.price[a] = 0 /\ NoAnswer.round[a] = 0
BY HandlersAssumption DEF NoAnswer, Answers, Versions, Shown

\* Before the request nothing has been answered, and the history is empty.
LEMMA InitInv == Init => Inv
<1> SUFFICES ASSUME Init PROVE Inv
  OBVIOUS
<1>1. price \in Versions /\ round \in Versions /\ known \subseteq Assets
  BY HandlersAssumption DEF Init, Versions
<1>2. began = [price |-> price, round |-> round, known |-> known]
  BY DEF Init
<1>3. began \in [price : Versions, round : Versions, known : SUBSET Assets]
  BY <1>1, <1>2
<1>5. TypeOK
  BY <1>1, <1>3, NoAnswerFields, HandlersAssumption
     DEF Init, TypeOK, Assets, Untracked, Endpoints, Statuses
<1>6. PageInRange
  BY HandlersAssumption DEF Init, PageInRange
<1>7. Places
  BY DEF Init, Places, InJoin
<1>8. Monotone
  BY <1>1, <1>2, HandlersAssumption DEF Monotone, Versions
<1>9. Genuine /\ RecordSeen
  BY NoAnswerFields DEF Init, Genuine, RecordSeen
<1>10. Honest /\ AssetsProgress /\ PriceProgress
  BY DEF Init, Honest, AssetsProgress, PriceProgress
<1> QED BY <1>5, <1>6, <1>7, <1>8, <1>9, <1>10 DEF Inv

\* A query parameter becomes a page number in range.
LEMMA PageParam ==
    ASSUME NEW n \in QueryParams, NEW def \in 1..MaxPageNumber
    PROVE  parsePositivePageParam(n, def) \in 1..MaxPageNumber
BY HandlersAssumption DEF parsePositivePageParam

\* The page asked of oracle-service stays one it can serve.
LEMMA PageNext ==
    ASSUME NEW filtered, NEW id, NEW page \in QueryParams, NEW size \in QueryParams,
           NEW rec, ListSubmissions(filtered, id, page, size, rec), PageInRange
    PROVE  PageInRange'
<1> DEFINE n == parsePositivePageParam(size, DefaultPageSize)
<1>1. n \in 1..MaxPageNumber /\ parsePositivePageParam(page, 1) \in 1..MaxPageNumber
  BY PageParam, HandlersAssumption
<1> HIDE DEF n
<1>2. (IF n > MaxPageSize THEN MaxPageSize ELSE n) \in 1..MaxPageSize
  BY <1>1, HandlersAssumption
<1>3. \/ asked' = asked
      \/ asked' = <<parsePositivePageParam(page, 1),
                    IF n > MaxPageSize THEN MaxPageSize ELSE n>>
  BY DEF ListSubmissions, n
<1> QED BY <1>1, <1>2, <1>3 DEF PageInRange

\* What Goto leaves alone, and what it resets.
LEMMA GotoEffect ==
    ASSUME NEW l, Goto(l)
    PROVE  /\ at' = l /\ wait' = 0 /\ link' = "alive"
           /\ UNCHANGED <<price, round, known, record, req, client, began, seen>>
BY DEF Goto

\* Every step of the world keeps the types.
LEMMA WorldTypes == TypeOK /\ World => TypeOK'
<1> SUFFICES ASSUME TypeOK, World PROVE TypeOK'
  OBVIOUS
<1>1. ASSUME NEW a \in Assets, PriceUpdated(a) \/ RoundFulfilled(a) \/ Set(a)
      PROVE TypeOK'
  <2>1. price' \in Versions /\ round' \in Versions /\ known' \subseteq Assets
    <3>1. price \in Versions /\ round \in Versions /\ known \subseteq Assets
      BY DEF TypeOK
    <3> QED BY <1>1, <3>1, HandlersAssumption
            DEF PriceUpdated, RoundFulfilled, Set, Versions
  <2> QED BY <1>1, <2>1 DEF PriceUpdated, RoundFulfilled, Set, handler, TypeOK
<1>2. CASE RecordMoves
  BY <1>2 DEF RecordMoves, TypeOK, handler, Statuses, RequestStatuses,
     SubmissionStatuses
<1>3. CASE ServiceHangs \/ LinkBreaks
  BY <1>3 DEF ServiceHangs, ServiceHangs, LinkBreaks, TypeOK, handler
<1>4. CASE ClientLeaves
  BY <1>4 DEF ClientLeaves, TypeOK, world
<1> QED BY <1>1, <1>2, <1>3, <1>4 DEF World

\* What every handler's first step has in common.
LEMMA RouteEffect ==
    ASSUME TypeOK, Places, NEW ep \in Endpoints, NEW a \in Assets \cup {Untracked},
           NEW p \in Versions, NEW n \in Versions, NEW k \in SUBSET Assets,
           NEW rec \in Statuses, Route(ep, a, p, n, k, rec)
    PROVE  /\ at = "idle" /\ out = NoAnswer /\ faults = {} /\ i = 1
           /\ req' = [endpoint |-> ep, asset |-> a]
           /\ req' \in [endpoint : Endpoints, asset : Assets \cup {Untracked}]
           /\ record' = rec /\ seen' = {rec}
           /\ price' \in Versions /\ round' \in Versions /\ known' \subseteq Assets
           /\ began' = [price |-> price', round |-> round', known |-> known']
           /\ began' \in [price : Versions, round : Versions, known : SUBSET Assets]
           /\ UNCHANGED <<link, wait, client, faults>>
BY DEF Route, Places, TypeOK

\* FindAsset finds the asset an id names, however it is spelled.
LEMMA FindAssetFinds ==
    ASSUME NEW id \in Spellings
    PROVE  /\ id[1] \in Assets \cup {Untracked}
           /\ FindAsset(id) \subseteq {id[1]}
           /\ FindAsset(id) = {} => id[1] = Untracked
<1>1. id[1] \in Assets \cup {Untracked}
  BY DEF Spellings
<1>2. \A a \in Assets : a \in FindAsset(id) <=> a = id[1]
  BY DEF FindAsset, NormaliseAssetID
<1>3. FindAsset(id) \subseteq Assets
  BY DEF FindAsset
<1> QED BY <1>1, <1>2, <1>3

\* The six ways a request begins.
BeginsAs(ep, a, rec) ==
    /\ \E p, n \in Versions, k \in SUBSET Assets : Route(ep, a, p, n, k, rec)
    /\ rec \in (IF ep = "request" THEN RequestStatuses
                ELSE SubmissionStatuses) \cup {"absent"}
    /\ \/ /\ ep = "health" /\ at' = "write" /\ UNCHANGED i
          /\ out' = [out EXCEPT !.status = 200]
       \/ ep = "assets" /\ at' = "registry" /\ UNCHANGED <<i, out>>
       \/ ep = "price" /\ a \in Assets /\ at' = "getprice" /\ i' = a /\ UNCHANGED out
       \/ /\ ep = "price" /\ a = Untracked /\ at' = "write" /\ UNCHANGED i
          /\ out' = [out EXCEPT !.status = 404]
       \/ /\ ep \in {"request", "submission", "submissions"} /\ UNCHANGED i
          /\ \/ at' = "lookup" /\ UNCHANGED out
             \/ at' = "write" /\ out' = [out EXCEPT !.status = 400]

\* Begin does so.
LEMMA BeginEffect ==
    ASSUME TypeOK, Begin, PageInRange
    PROVE  /\ PageInRange'
           /\ \E ep \in Endpoints, a \in Assets \cup {Untracked}, rec \in Statuses :
                 BeginsAs(ep, a, rec)
<1> DEFINE Kind(ep, a, rec) == /\ ep \in Endpoints /\ a \in Assets \cup {Untracked}
                               /\ rec \in Statuses /\ BeginsAs(ep, a, rec)
<1>0. ASSUME NEW ep, NEW a, NEW rec, RouteLookup(ep, a, rec)
      PROVE  \E p, n \in Versions, k \in SUBSET Assets : Route(ep, a, p, n, k, rec)
  BY <1>0 DEF RouteLookup, TypeOK
<1>1. CASE Health
  <2>1. Kind("health", Untracked, "absent")
    BY <1>0, <1>1 DEF Health, BeginsAs, Endpoints, Statuses
  <2> QED BY <1>1, <2>1 DEF Health, PageInRange
<1>2. ASSUME NEW p \in Versions, NEW n \in Versions, NEW k \in SUBSET Assets,
             ListAssets(p, n, k)
      PROVE  Kind("assets", Untracked, "absent") /\ PageInRange'
  BY <1>2 DEF ListAssets, BeginsAs, Endpoints, Statuses, PageInRange
<1>3. ASSUME NEW id \in Spellings, NEW p \in Versions, NEW n \in Versions,
             NEW k \in SUBSET Assets, GetAssetPrice(id, p, n, k)
      PROVE Kind("price", id[1], "absent") /\ PageInRange'
  <2>1. /\ id[1] \in Assets \cup {Untracked}
        /\ FindAsset(id) \subseteq {id[1]}
        /\ FindAsset(id) = {} => id[1] = Untracked
    BY FindAssetFinds
  <2>2. FindAsset(id) \subseteq Assets
    BY DEF FindAsset
  <2> QED BY <1>3, <2>1, <2>2
          DEF GetAssetPrice, BeginsAs, Endpoints, Statuses, PageInRange
<1>4. ASSUME NEW filtered \in BOOLEAN, NEW id \in Spellings, NEW page \in QueryParams,
             NEW size \in QueryParams, NEW rec \in SubmissionStatuses \cup {"absent"},
             ListSubmissions(filtered, id, page, size, rec)
      PROVE Kind("submissions", id[1], rec) /\ PageInRange'
  <2>1. PageInRange'
    BY <1>4, PageNext
  <2>2. id[1] \in Assets \cup {Untracked}
    BY FindAssetFinds
  <2>3. BeginsAs("submissions", id[1], rec)
    BY <1>0, <1>4 DEF ListSubmissions, BeginsAs
  <2> QED BY <2>1, <2>2, <2>3 DEF Endpoints, Statuses
<1>5. ASSUME NEW id \in Ids, NEW rec \in RequestStatuses \cup {"absent"},
             GetRequest(id, rec)
      PROVE Kind("request", Untracked, rec) /\ PageInRange'
  BY <1>0, <1>5 DEF GetRequest, BeginsAs, Endpoints, Statuses, PageInRange
<1>6. ASSUME NEW id \in Ids, NEW rec \in SubmissionStatuses \cup {"absent"},
             GetSubmission(id, rec)
      PROVE Kind("submission", Untracked, rec) /\ PageInRange'
  BY <1>0, <1>6 DEF GetSubmission, BeginsAs, Endpoints, Statuses, PageInRange
<1>7. \/ Health
      \/ \E p, n \in Versions, k \in SUBSET Assets :
            \/ ListAssets(p, n, k)
            \/ \E id \in Spellings : GetAssetPrice(id, p, n, k)
      \/ \E filtered \in BOOLEAN, id \in Spellings, page, size \in QueryParams,
            rec \in SubmissionStatuses \cup {"absent"} :
               ListSubmissions(filtered, id, page, size, rec)
      \/ \E id \in Ids, rec \in RequestStatuses \cup {"absent"} : GetRequest(id, rec)
      \/ \E id \in Ids, rec \in SubmissionStatuses \cup {"absent"} :
            GetSubmission(id, rec)
  BY DEF Begin
<1> QED BY <1>1, <1>2, <1>3, <1>4, <1>5, <1>6, <1>7

\* A request's first step keeps the invariant.
LEMMA BeginKeeps == Inv /\ Begin => Inv'
<1> SUFFICES ASSUME Inv, Begin PROVE Inv'
  OBVIOUS
<1>0. PageInRange'
  BY BeginEffect DEF Inv
<1>1. PICK ep \in Endpoints, a \in Assets \cup {Untracked}, rec \in Statuses :
         BeginsAs(ep, a, rec)
  BY BeginEffect DEF Inv
<1>2. /\ at = "idle" /\ out = NoAnswer /\ faults = {} /\ i = 1
      /\ req' = [endpoint |-> ep, asset |-> a]
      /\ req' \in [endpoint : Endpoints, asset : Assets \cup {Untracked}]
      /\ record' = rec /\ seen' = {rec}
      /\ price' \in Versions /\ round' \in Versions /\ known' \subseteq Assets
      /\ began' = [price |-> price', round |-> round', known |-> known']
      /\ began' \in [price : Versions, round : Versions, known : SUBSET Assets]
      /\ UNCHANGED <<link, wait, client, faults>>
  <2>1. PICK p \in Versions, n \in Versions, k \in SUBSET Assets :
           Route(ep, a, p, n, k, rec)
    BY <1>1 DEF BeginsAs
  <2> QED BY <2>1, RouteEffect DEF Inv
<1>3. /\ out' \in Answers /\ out'.addr = {} /\ out'.record = "absent"
      /\ \A b \in Assets : out'.price[b] = 0 /\ out'.round[b] = 0
      /\ \/ /\ at' = "write"
            /\ \/ ep = "health" /\ out'.status = 200
               \/ ep = "price" /\ a = Untracked /\ out'.status = 404
               \/ ep \in {"request", "submission", "submissions"} /\ out'.status = 400
         \/ ep = "assets" /\ at' = "registry" /\ i' = 1
         \/ ep = "price" /\ at' = "getprice" /\ i' = a
         \/ ep \in {"request", "submission", "submissions"} /\ at' = "lookup"
  <2>1. ASSUME NEW s \in {200, 400, 404, 502}, out' = [out EXCEPT !.status = s]
        PROVE  /\ out' \in Answers /\ out'.addr = {} /\ out'.record = "absent"
               /\ \A b \in Assets : out'.price[b] = 0 /\ out'.round[b] = 0
               /\ out'.status = s
    <3>1. /\ out \in Answers /\ out.addr = {} /\ out.record = "absent"
          /\ \A b \in Assets : out.price[b] = 0 /\ out.round[b] = 0
      BY <1>2, NoAnswerFields
    <3>2. /\ out' \in Answers /\ out'.status = s /\ out'.addr = out.addr
          /\ out'.price = out.price /\ out'.round = out.round
          /\ out'.record = out.record
      BY <2>1, <3>1 DEF Answers
    <3> QED BY <3>1, <3>2
  <2>2. CASE at' # "write"
    <3>1. out' = NoAnswer
      BY <1>1, <1>2, <2>2 DEF BeginsAs
    <3>2. /\ out' \in Answers /\ out'.addr = {} /\ out'.record = "absent"
          /\ \A b \in Assets : out'.price[b] = 0 /\ out'.round[b] = 0
      BY <3>1, NoAnswerFields
    <3> QED BY <1>1, <1>2, <2>2, <3>2 DEF BeginsAs
  <2>3. CASE at' = "write"
    <3>1. PICK s \in {200, 400, 404} : out' = [out EXCEPT !.status = s]
      BY <1>1, <2>3 DEF BeginsAs
    <3>2. /\ out' \in Answers /\ out'.addr = {} /\ out'.record = "absent"
          /\ \A b \in Assets : out'.price[b] = 0 /\ out'.round[b] = 0
      BY <2>1, <3>1
    <3>3. \A t \in {200, 400, 404} : out' = [out EXCEPT !.status = t] => out'.status = t
      BY <2>1
    <3> QED BY <1>1, <2>3, <3>2, <3>3 DEF BeginsAs
  <2> QED BY <2>2, <2>3
<1>4. i' \in Assets
  BY <1>1, <1>2 DEF BeginsAs, Inv, TypeOK
<1>5. at' \in {"registry", "getprice", "lookup", "write"}
  BY <1>3
<1>6. asked' \in Nat \X Nat
  BY <1>0, HandlersAssumption DEF PageInRange
<1>7. TypeOK'
  BY <1>2, <1>3, <1>4, <1>5, <1>6 DEF Inv, TypeOK
<1>8. Places'
  BY <1>2, <1>3, <1>5 DEF Places, InJoin
<1>9. Monotone'
  BY <1>2, HandlersAssumption DEF Monotone, Versions
<1>10. Genuine'
  BY <1>3 DEF Genuine
<1>11. RecordSeen'
  BY <1>1, <1>2, <1>3 DEF RecordSeen, BeginsAs
<1>12. Honest'
  BY <1>2, <1>3 DEF Honest
<1>13. AssetsProgress'
  BY <1>2, <1>3 DEF AssetsProgress
<1>14. PriceProgress'
  BY <1>2, <1>3 DEF PriceProgress, InJoin
<1> QED BY <1>0, <1>7, <1>8, <1>9, <1>10, <1>11, <1>12, <1>13, <1>14 DEF Inv

\* The world's steps keep the invariant: prices and rounds only grow, and the
\* handler's own state stays.
LEMMA WorldKeeps == Inv /\ World => Inv'
<1> SUFFICES ASSUME Inv, World PROVE Inv'
  OBVIOUS
<1>1. TypeOK'
  BY WorldTypes DEF Inv
<1>2. /\ UNCHANGED <<at, req, i, out, asked, began, faults>>
      /\ client' \in {client, "gone"}
  BY DEF World, PriceUpdated, RoundFulfilled, Set, RecordMoves, ServiceHangs, LinkBreaks,
     ClientLeaves, handler
<1>3. PageInRange' /\ Places'
  BY <1>2 DEF Inv, PageInRange, Places, InJoin
<1>4. /\ \A a \in Assets : price[a] <= price'[a] /\ round[a] <= round'[a]
      /\ known \subseteq known'
  <2>1. price \in Versions /\ round \in Versions
    BY DEF Inv, TypeOK
  <2>2. ASSUME NEW b \in Assets, PriceUpdated(b) \/ RoundFulfilled(b) \/ Set(b)
        PROVE  /\ \A a \in Assets : price[a] <= price'[a] /\ round[a] <= round'[a]
               /\ known \subseteq known'
    BY <2>1, <2>2, HandlersAssumption DEF PriceUpdated, RoundFulfilled, Set, Versions
  <2>3. CASE UNCHANGED <<price, round, known>>
    BY <2>1, <2>3, HandlersAssumption DEF Versions
  <2> QED BY <2>2, <2>3 DEF World, RecordMoves, ServiceHangs, LinkBreaks, ClientLeaves, world
<1>5. Monotone' /\ Genuine'
  <2>1. /\ price \in Versions /\ round \in Versions /\ price' \in Versions
        /\ round' \in Versions /\ out.price \in Versions /\ out.round \in Versions
        /\ began.price \in Versions /\ began.round \in Versions
    BY <1>1 DEF Inv, TypeOK, Answers
  <2>2. Monotone'
    BY <1>2, <1>4, <2>1, HandlersAssumption DEF Inv, Monotone, Versions
  <2>3. Genuine'
    BY <1>2, <1>4, <2>1, HandlersAssumption DEF Inv, Genuine, Versions
  <2> QED BY <2>2, <2>3
<1>6. seen \subseteq seen'
  BY DEF World, PriceUpdated, RoundFulfilled, Set, RecordMoves, ServiceHangs, LinkBreaks,
     ClientLeaves
<1>7. RecordSeen'
  <2>1. /\ record' \in seen'
        /\ record' \in (IF req.endpoint = "request" THEN RequestStatuses
                        ELSE SubmissionStatuses) \cup {"absent"}
    <3>1. CASE RecordMoves
      BY <3>1 DEF RecordMoves, RequestStatuses, SubmissionStatuses
    <3>2. CASE UNCHANGED <<record, seen>>
      BY <3>2 DEF Inv, RecordSeen
    <3> QED BY <3>1, <3>2 DEF World, PriceUpdated, RoundFulfilled, Set, ServiceHangs, LinkBreaks,
              ClientLeaves, world
  <2> QED BY <1>2, <1>6, <2>1 DEF Inv, RecordSeen
<1>8. Honest'
  BY <1>2, <1>6 DEF Inv, Honest
<1>9. AssetsProgress' /\ PriceProgress'
  BY <1>2 DEF Inv, AssetsProgress, PriceProgress, Served, PriceServed, RoundServed,
     AddrServed, InHandler, InJoin
<1> QED BY <1>1, <1>3, <1>5, <1>7, <1>8, <1>9 DEF Inv

\* So do the passing of time and the writing of the answer.
LEMMA QuietKeeps == Inv /\ (Tick \/ writeJSON \/ UNCHANGED vars) => Inv'
<1> SUFFICES ASSUME Inv, Tick \/ writeJSON \/ UNCHANGED vars PROVE Inv'
  OBVIOUS
<1>1. /\ UNCHANGED <<price, round, known, record, link>>
      /\ UNCHANGED <<req, i, out, asked, client, began, seen, faults>>
      /\ at' = at \/ (at = "write" /\ at' = "done")
  BY DEF Tick, writeJSON, vars, world
<1>2. wait' \in 0..KeepAlive
  <2>1. wait \in 0..KeepAlive
    BY DEF Inv, TypeOK
  <2>2. wait' = wait \/ (wait < KeepAlive /\ wait' = wait + 1)
    BY DEF Tick, writeJSON, vars
  <2> QED BY <2>1, <2>2, HandlersAssumption
<1>3. TypeOK'
  BY <1>1, <1>2 DEF Inv, TypeOK
<1>4. PageInRange' /\ Places' /\ Monotone' /\ Genuine' /\ RecordSeen'
  BY <1>1 DEF Inv, PageInRange, Places, InJoin, Monotone, Genuine, RecordSeen
<1>5. Honest'
  BY <1>1 DEF Inv, Honest
<1>6. AssetsProgress' /\ PriceProgress'
  BY <1>1 DEF Inv, AssetsProgress, PriceProgress, Served, PriceServed, RoundServed,
     AddrServed, InHandler, InJoin
<1> QED BY <1>3, <1>4, <1>5, <1>6 DEF Inv

\* What every step of the joins keeps, whatever it adds to the answer.
LEMMA JoinStep ==
    ASSUME Inv, InJoin, NEW l \in {"registry", "getprice", "round", "write"}, Goto(l),
           UNCHANGED asked, i' \in Assets, out' \in Answers, out'.record = out.record,
           faults' \subseteq Services \X Assets
    PROVE  TypeOK' /\ PageInRange' /\ Places' /\ Monotone' /\ RecordSeen'
<1>1. /\ at' = l /\ wait' = 0 /\ link' = "alive"
      /\ UNCHANGED <<price, round, known, record, req, client, began, seen>>
  BY GotoEffect
<1>2. TypeOK'
  BY <1>1, HandlersAssumption DEF Inv, TypeOK
<1>3. PageInRange' /\ Places' /\ Monotone' /\ RecordSeen'
  BY <1>1 DEF Inv, PageInRange, Places, InJoin, Monotone, RecordSeen
<1> QED BY <1>2, <1>3

\* What is served stays served while the answer and the faults only grow.
LEMMA ServedKept ==
    ASSUME NEW a, UNCHANGED began, faults \subseteq faults', out.addr \subseteq out'.addr,
           out.price[a] # 0 => out'.price[a] # 0,
           out.round[a] # 0 => out'.round[a] # 0
    PROVE  /\ PriceServed(a) => PriceServed(a)'
           /\ RoundServed(a) => RoundServed(a)'
           /\ AddrServed(a) => AddrServed(a)'
           /\ Served(a) => Served(a)'
BY DEF PriceServed, RoundServed, AddrServed, Served

\* The assets before i are assets.
LEMMA Before == ASSUME TypeOK PROVE 1..(i - 1) \subseteq Assets /\ i \in Assets
BY HandlersAssumption DEF TypeOK, Assets

\* Registry.Aggregator: an address known when the request began still is.
LEMMA AggregatorKeeps == Inv /\ Aggregator => Inv'
<1> SUFFICES ASSUME Inv, Aggregator PROVE Inv'
  OBVIOUS
<1> DEFINE l == IF req.endpoint = "assets" THEN "getprice" ELSE "round"
<1>1. at = "registry" /\ Goto(l) /\ UNCHANGED <<i, asked, faults>>
  BY DEF Aggregator
<1>2. /\ at' = l
      /\ UNCHANGED <<price, round, known, record, req, client, began, seen>>
  BY <1>1, GotoEffect
<1>3. i \in Assets /\ out \in Answers /\ 1..(i - 1) \subseteq Assets
  BY Before DEF Inv, TypeOK
<1>4. /\ out' \in Answers /\ out'.status = out.status /\ out'.record = out.record
      /\ out'.price = out.price /\ out'.round = out.round
      /\ out'.addr = out.addr \cup ({i} \cap known)
  <2>1. out' = [out EXCEPT !.addr = @ \cup ({i} \cap known)]
    BY DEF Aggregator
  <2> QED BY <1>3, <2>1 DEF Answers
<1>5. l \in {"getprice", "round"}
  OBVIOUS
<1>6. TypeOK' /\ PageInRange' /\ Places' /\ Monotone' /\ RecordSeen'
  BY <1>1, <1>3, <1>4, <1>5, JoinStep DEF InJoin, Inv, TypeOK
<1>7. Genuine'
  BY <1>2, <1>4 DEF Inv, Genuine
<1>8. Honest'
  BY <1>2, <1>5 DEF Honest
<1>9. \A a \in Assets : Served(a) => Served(a)'
  BY <1>1, <1>2, <1>4, ServedKept
<1>10. AddrServed(i)'
  BY <1>1, <1>2, <1>4 DEF Inv, Monotone, AddrServed
<1>11. /\ req.endpoint = "assets" => at' = "getprice"
       /\ req.endpoint = "price" => at' = "round"
  BY <1>2
<1>12. PriceServed(i) => PriceServed(i)'
  BY <1>1, <1>2, <1>4 DEF PriceServed
<1> HIDE DEF l
<1>13. AssetsProgress'
  BY <1>1, <1>2, <1>3, <1>9, <1>10, <1>11
     DEF Inv, AssetsProgress, InHandler
<1>14. PriceProgress'
  BY <1>1, <1>2, <1>10, <1>11, <1>12 DEF Inv, PriceProgress, InJoin
<1> QED BY <1>6, <1>7, <1>8, <1>13, <1>14 DEF Inv

\* priceclient.GetPrice, with a price, without one, or with an error: the
\* price is in the answer, did not exist, or its call is at fault.
LEMMA GetPriceKeeps == Inv /\ (GetPrice \/ GetPriceFails) => Inv'
<1> SUFFICES ASSUME Inv, GetPrice \/ GetPriceFails PROVE Inv'
  OBVIOUS
<1>1. at = "getprice" /\ UNCHANGED <<i, asked>> /\ InCall /\ Service = "price"
  BY DEF GetPrice, GetPriceFails, CallCanReturn, CallCanFail, Service, InCall
<1>2. i \in Assets /\ out \in Answers /\ 1..(i - 1) \subseteq Assets
      /\ price \in Versions /\ began.price \in Versions
      /\ req.endpoint \in {"assets", "price"}
  BY <1>1, Before DEF Inv, TypeOK, Places, InJoin
<1>3. \/ /\ price[i] # 0 /\ UNCHANGED faults
         /\ out' = [out EXCEPT !.price[i] = price[i]]
         /\ Goto(IF req.endpoint = "assets" THEN "round" ELSE "registry")
      \/ price[i] = 0 /\ req.endpoint = "price" /\ Answer(404) /\ UNCHANGED faults
      \/ price[i] = 0 /\ req.endpoint = "assets" /\ Goto("round") /\ UNCHANGED <<out, faults>>
      \/ Fault /\ req.endpoint = "price" /\ Answer(502)
      \/ Fault /\ req.endpoint = "assets" /\ Goto("round") /\ UNCHANGED out
  BY DEF GetPrice, GetPriceFails
<1>4. /\ faults \subseteq faults' /\ faults' \subseteq Services \X Assets
      /\ UNCHANGED faults \/ (client # "gone" => <<"price", i>> \in faults')
  BY <1>1, <1>3, FaultKept DEF Inv, TypeOK
<1>5. \E l \in {"registry", "round", "write"} : Goto(l)
  BY <1>3 DEF Answer
<1>6. UNCHANGED <<price, round, known, record, req, client, began, seen>>
  BY <1>5, GotoEffect
<1>7. /\ out' \in Answers /\ out'.record = out.record /\ out'.addr = out.addr
      /\ out'.round = out.round
      /\ \A a \in Assets : \/ out'.price[a] = out.price[a]
                           \/ a = i /\ price[i] # 0 /\ out'.price[a] = price[i]
      /\ at' = "write" => \/ out'.status = 404 /\ req.endpoint = "price" /\ price[i] = 0
                          \/ /\ out'.status = 502 /\ req.endpoint = "price"
                             /\ client # "gone" => <<"price", i>> \in faults'
      /\ at' # "write" =>
            /\ \/ out'.price[i] # 0 \/ price[i] = 0
               \/ client # "gone" => <<"price", i>> \in faults'
            /\ at' = IF req.endpoint = "assets" THEN "round" ELSE "registry"
  <2>1. CASE /\ price[i] # 0
             /\ out' = [out EXCEPT !.price[i] = price[i]]
             /\ Goto(IF req.endpoint = "assets" THEN "round" ELSE "registry")
    <3>1. price[i] \in 0..MaxVersion
      BY <1>2 DEF Versions
    <3>2. at' = IF req.endpoint = "assets" THEN "round" ELSE "registry"
      BY <2>1 DEF Goto
    <3>3. /\ out' \in Answers /\ out'.record = out.record /\ out'.addr = out.addr
          /\ out'.round = out.round
      BY <1>2, <2>1, <3>1 DEF Answers, Versions
    <3>4. out'.price = [out.price EXCEPT ![i] = price[i]] /\ out.price \in Versions
      BY <1>2, <2>1 DEF Answers
    <3> QED BY <1>2, <2>1, <3>2, <3>3, <3>4 DEF Versions
  <2>2. ASSUME NEW s \in {404, 502}, Answer(s)
        PROVE /\ out' \in Answers /\ out'.record = out.record /\ out'.addr = out.addr
              /\ out'.round = out.round /\ out'.price = out.price
              /\ out'.status = s /\ at' = "write"
    BY <1>2, <2>2 DEF Answer, Goto, Answers
  <2>3. CASE price[i] = 0 /\ req.endpoint = "price" /\ Answer(404)
    BY <2>2, <2>3
  <2>4. CASE Fault /\ req.endpoint = "price" /\ Answer(502)
    BY <1>1, <2>2, <2>4, FaultKept DEF Inv
  <2>5. CASE /\ price[i] = 0 \/ Fault
             /\ req.endpoint = "assets" /\ Goto("round") /\ UNCHANGED out
    BY <1>1, <1>2, <2>5, FaultKept DEF Goto, Inv
  <2> QED BY <1>3, <2>1, <2>3, <2>4, <2>5
<1>8. TypeOK' /\ PageInRange' /\ Places' /\ Monotone' /\ RecordSeen'
  BY <1>1, <1>2, <1>4, <1>5, <1>7, JoinStep DEF InJoin
<1>9. began.price[i] <= price[i] /\ began.price[i] \in Nat /\ price[i] \in Nat
  BY <1>2, HandlersAssumption DEF Inv, Monotone, Versions
<1>10. Genuine'
  BY <1>2, <1>6, <1>7, <1>9 DEF Inv, Genuine
<1>11. at' \in {"registry", "round", "write"}
  BY <1>7
<1>12. Honest'
  <2> SUFFICES ASSUME at' = "write", client # "gone"
               PROVE /\ out'.status = 502 => faults' # {}
                     /\ out'.status = 404 => began.price[req.asset] = 0
                     /\ req.endpoint = "price"
    BY <1>6, <1>11 DEF Honest
  <2>1. req.asset = i
    BY <1>1, <1>7 DEF Inv, PriceProgress, InJoin
  <2> QED BY <1>7, <1>9, <2>1
<1>13. \A a \in Assets : Served(a) => Served(a)'
  BY <1>4, <1>6, <1>7, ServedKept
<1>14. AddrServed(i) => AddrServed(i)'
  BY <1>1, <1>6, <1>7 DEF AddrServed
<1>15. at' # "write" /\ client # "gone" => PriceServed(i)'
  BY <1>1, <1>6, <1>7, <1>9 DEF PriceServed
<1>16. AssetsProgress'
  BY <1>1, <1>2, <1>6, <1>7, <1>11, <1>13, <1>14, <1>15
     DEF Inv, AssetsProgress, InHandler
<1>17. PriceProgress'
  BY <1>1, <1>6, <1>7, <1>11, <1>15 DEF Inv, PriceProgress, InJoin
<1> QED BY <1>8, <1>10, <1>12, <1>16, <1>17 DEF Inv

\* What an answer is after the call for asset i's round: nothing but that
\* round has changed, and it is the indexer's.
RoundAttached(new) ==
    /\ new \in Answers /\ new.record = out.record /\ new.addr = out.addr
    /\ new.price = out.price
    /\ \A a \in Assets : \/ new.round[a] = out.round[a]
                         \/ a = i /\ round[i] # 0 /\ new.round[a] = round[i]

\* The indexer's row, or its failure, as the answer sees it: the round is in
\* the answer, does not exist, or its call is at fault.
LEMMA RoundEffect ==
    ASSUME Inv, ListEvents \/ ListEventsFails
    PROVE  /\ at = "round" /\ UNCHANGED asked
           /\ faults \subseteq faults' /\ faults' \subseteq Services \X Assets
           /\ \E new : /\ RoundAttached(new)
                       /\ NextAsset(new) \/ Finish(new)
                       /\ client # "gone" => \/ new.round[i] # 0 \/ round[i] = 0
                                             \/ <<"indexer", i>> \in faults'
<1>1. at = "round" /\ UNCHANGED asked /\ InCall /\ Service = "indexer"
  BY DEF ListEvents, ListEventsFails, CallCanReturn, CallCanFail, InCall, Service
<1>2. i \in Assets /\ out \in Answers /\ round \in Versions
      /\ faults \subseteq Services \X Assets
  BY DEF Inv, TypeOK
<1>3. RoundAttached(out)
  BY <1>2 DEF RoundAttached
<1>4. Fault => /\ faults \subseteq faults' /\ faults' \subseteq Services \X Assets
               /\ client # "gone" => <<"indexer", i>> \in faults'
  BY <1>1, FaultKept DEF Inv
<1>5. CASE ListEventsFails
  <2>1. Fault /\ (NextAsset(out) \/ Finish(out))
    BY <1>5 DEF ListEventsFails
  <2> QED BY <1>1, <1>3, <1>4, <2>1
<1>6. CASE ListEvents
  <2>1. PICK row \in [asset : Assets \cup {Untracked}, round : 0..MaxVersion] :
          /\ row.asset = i => row.round \in {0, round[i]}
          /\ NextAsset(attachLastOnChain(row)) \/ Finish(attachLastOnChain(row))
          /\ IF row = [asset |-> i, round |-> round[i]] THEN UNCHANGED faults
             ELSE Fault
    BY <1>6 DEF ListEvents, LastRound
  <2> DEFINE new == attachLastOnChain(row)
  <2>2. RoundAttached(new) /\ (Trusted(row) => new.round[i] # 0)
    <3>1. CASE Trusted(row)
      <4>1. row.round = round[i] /\ round[i] # 0 /\ round[i] \in 0..MaxVersion
        BY <1>2, <2>1, <3>1 DEF Trusted, Versions
      <4>2. new = [out EXCEPT !.round[i] = round[i]]
        BY <3>1, <4>1 DEF attachLastOnChain
      <4> HIDE DEF new
      <4>3. /\ new \in Answers /\ new.record = out.record /\ new.addr = out.addr
            /\ new.price = out.price
        BY <1>2, <4>1, <4>2 DEF Answers, Versions
      <4>4. new.round = [out.round EXCEPT ![i] = round[i]] /\ out.round \in Versions
        BY <1>2, <4>2 DEF Answers
      <4> QED BY <1>2, <4>1, <4>3, <4>4 DEF RoundAttached, Versions
    <3>2. CASE ~Trusted(row)
      BY <1>3, <3>2 DEF attachLastOnChain
    <3> QED BY <3>1, <3>2
  <2>3. NextAsset(new) \/ Finish(new)
    BY <2>1
  <2>4. row = [asset |-> i, round |-> round[i]] => Trusted(row) \/ round[i] = 0
    BY DEF Trusted
  <2> HIDE DEF new
  <2> QED BY <1>1, <1>2, <1>4, <2>1, <2>2, <2>3, <2>4
<1> QED BY <1>5, <1>6

\* The call for the last on-chain round, the asset's last one: ListAssets goes
\* on with the next asset, and both finish with a complete answer.
LEMMA RoundKeeps == Inv /\ (ListEvents \/ ListEventsFails) => Inv'
<1> SUFFICES ASSUME Inv, ListEvents \/ ListEventsFails PROVE Inv'
  OBVIOUS
<1>1. /\ at = "round" /\ UNCHANGED asked
      /\ faults \subseteq faults' /\ faults' \subseteq Services \X Assets
  BY RoundEffect
<1>2. PICK new : /\ RoundAttached(new)
                 /\ NextAsset(new) \/ Finish(new)
                 /\ client # "gone" => \/ new.round[i] # 0 \/ round[i] = 0
                                       \/ <<"indexer", i>> \in faults'
  BY RoundEffect
<1>3. i \in Assets /\ 1..(i - 1) \subseteq Assets /\ out \in Answers
      /\ round \in Versions /\ began.round \in Versions
      /\ req.endpoint \in {"assets", "price"}
  BY <1>1, Before DEF Inv, TypeOK, Places, InJoin
<1>4. \E l \in {"registry", "write"} : Goto(l)
  BY <1>2 DEF NextAsset, Finish
<1>5. UNCHANGED <<price, round, known, record, req, client, began, seen>>
  BY <1>4, GotoEffect
<1>6. /\ out' \in Answers /\ out'.record = out.record /\ out'.addr = out.addr
      /\ out'.price = out.price /\ out'.round = new.round
  <2>1. CASE out' = new
    BY <1>2, <2>1 DEF RoundAttached
  <2>2. CASE out' = [new EXCEPT !.status = 200]
    BY <1>2, <2>2 DEF RoundAttached, Answers
  <2> QED BY <1>2, <2>1, <2>2 DEF NextAsset, Finish
<1>7. \/ req.endpoint = "assets" /\ i < NumAssets /\ i' = i + 1 /\ at' = "registry"
      \/ /\ req.endpoint = "price" \/ i = NumAssets
         /\ out'.status = 200 /\ i' = i /\ at' = "write"
  <2>1. CASE NextAsset(new)
    BY <2>1 DEF NextAsset, Goto
  <2>2. CASE Finish(new)
    <3>1. out' = [new EXCEPT !.status = 200] /\ new \in Answers
      BY <1>2, <2>2 DEF Finish, RoundAttached
    <3>2. out'.status = 200
      BY <3>1 DEF Answers
    <3> QED BY <2>2, <3>2 DEF Finish, Goto
  <2> QED BY <1>2, <2>1, <2>2
<1>8. i' \in Assets
  BY <1>3, <1>7, HandlersAssumption DEF Assets
<1>9. TypeOK' /\ PageInRange' /\ Places' /\ Monotone' /\ RecordSeen'
  BY <1>1, <1>4, <1>6, <1>8, JoinStep DEF InJoin
<1>10. began.round[i] <= round[i] /\ began.round[i] \in Nat /\ round[i] \in Nat
  BY <1>3, HandlersAssumption DEF Inv, Monotone, Versions
<1>11. \A a \in Assets : \/ out'.round[a] = out.round[a]
                         \/ a = i /\ round[i] # 0 /\ out'.round[a] = round[i]
  <2>1. \A a \in Assets : \/ new.round[a] = out.round[a]
                          \/ a = i /\ round[i] # 0 /\ new.round[a] = round[i]
    <3>1. RoundAttached(new)
      BY <1>2
    <3> QED BY <3>1 DEF RoundAttached
  <2> QED BY <1>6, <2>1
<1>12. Genuine'
  BY <1>3, <1>5, <1>6, <1>10, <1>11 DEF Inv, Genuine
<1>13. Honest'
  BY <1>5, <1>7 DEF Honest
<1>14. \A a \in Assets : Served(a) => Served(a)'
  BY <1>1, <1>5, <1>6, <1>11, ServedKept
<1>15. client # "gone" =>
          /\ began.price[i] # 0 => out'.price[i] # 0 \/ <<"price", i>> \in faults'
          /\ began.round[i] # 0 => out'.round[i] # 0 \/ <<"indexer", i>> \in faults'
          /\ i \in began.known => i \in out'.addr
  <2> SUFFICES ASSUME client # "gone"
               PROVE /\ PriceServed(i) /\ AddrServed(i)
                     /\ began.round[i] # 0 =>
                           out'.round[i] # 0 \/ <<"indexer", i>> \in faults'
    BY <1>1, <1>6 DEF PriceServed, AddrServed
  <2>1. PriceServed(i) /\ AddrServed(i)
    BY <1>1, <1>3 DEF Inv, AssetsProgress, PriceProgress
  <2>2. began.round[i] # 0 => out'.round[i] # 0 \/ <<"indexer", i>> \in faults'
    BY <1>2, <1>6, <1>10
  <2> QED BY <2>1, <2>2
<1>16. AssetsProgress'
  <2> SUFFICES ASSUME req.endpoint = "assets", client # "gone"
               PROVE /\ \A a \in 1..(i' - 1) : Served(a)'
                     /\ at' = "write" => i' = NumAssets /\ Served(i)'
    BY <1>5, <1>7 DEF AssetsProgress
  <2>1. \A a \in 1..(i - 1) : Served(a)'
    BY <1>1, <1>3, <1>14 DEF Inv, AssetsProgress, InHandler
  <2>2. ASSUME NEW a \in Assets, a = i PROVE Served(a)'
    BY <1>5, <1>15, <2>2 DEF Served, PriceServed, RoundServed, AddrServed
  <2>3. CASE i' = i + 1 /\ at' = "registry"
    <3>1. \A a \in 1..(i' - 1) : a \in 1..(i - 1) \/ a = i
      BY <1>3, <2>3 DEF Assets
    <3> QED BY <1>3, <2>1, <2>2, <2>3, <3>1
  <2>4. CASE i' = i /\ at' = "write" /\ i = NumAssets
    <3>1. Served(i)'
      BY <1>5, <1>15, <2>4 DEF Served, PriceServed, RoundServed, AddrServed
    <3> QED BY <2>1, <2>4, <3>1
  <2> QED BY <1>7, <2>3, <2>4
<1>17. PriceProgress'
  <2> SUFFICES ASSUME req.endpoint = "price", client # "gone"
               PROVE i' = req.asset /\ Served(i)'
    BY <1>5, <1>7 DEF PriceProgress, InJoin
  <2>1. i = req.asset /\ i' = i
    BY <1>1, <1>7 DEF Inv, PriceProgress, InJoin
  <2> QED BY <1>5, <1>15, <2>1 DEF Served, PriceServed, RoundServed, AddrServed
<1> QED BY <1>9, <1>12, <1>13, <1>16, <1>17 DEF Inv

\* The statuses of answers and those of records stand for each other.
LEMMA FromProtoFaithful ==
    ASSUME record # "absent",
           record \in (IF req.endpoint = "request" THEN RequestStatuses
                      ELSE SubmissionStatuses) \cup {"absent"}
    PROVE  /\ FromProto(record) \in Shown
           /\ (IF FromProto(record) = "" THEN "NEWER"
              ELSE Meaning[FromProto(record)]) = record
<1>1. CASE req.endpoint = "request"
  BY <1>1 DEF FromProto, RequestStatusFromProto, RequestStatuses, Meaning, Shown
<1>2. CASE req.endpoint # "request"
  BY <1>2 DEF FromProto, SubmissionStatusKindFromProto, SubmissionStatuses, Meaning,
     Shown
<1> QED BY <1>1, <1>2

\* The single calls: the status of the answer fits what was seen.
LEMMA LookupKeeps == Inv /\ (Lookup \/ InvalidArgument \/ LookupFails) => Inv'
<1> SUFFICES ASSUME Inv, Lookup \/ InvalidArgument \/ LookupFails PROVE Inv'
  OBVIOUS
<1>1. at = "lookup" /\ Goto("write") /\ UNCHANGED <<i, asked>> /\ InCall
  BY DEF Lookup, InvalidArgument, LookupFails, Answer, CallCanReturn, CallCanFail
<1>2. /\ at' = "write" /\ wait' = 0 /\ link' = "alive"
      /\ UNCHANGED <<price, round, known, record, req, client, began, seen>>
  BY <1>1, GotoEffect
<1>3. /\ out \in Answers /\ req.endpoint \in {"request", "submissions", "submission"}
      /\ record \in seen
  BY <1>1 DEF Inv, TypeOK, Places, RecordSeen
<1>4. /\ faults' \subseteq Services \X Assets
      /\ LookupFails /\ client # "gone" => faults' # {}
  <2>1. CASE LookupFails
    BY <1>1, <2>1, FaultKept DEF LookupFails, Inv
  <2>2. CASE Lookup \/ InvalidArgument
    BY <1>1, <2>2, FaultKept DEF Lookup, InvalidArgument, LookupFails, Inv, TypeOK
  <2> QED BY <2>1, <2>2
<1>5. ASSUME NEW s \in {200, 400, 404, 502}, out' = [out EXCEPT !.status = s]
      PROVE /\ out' \in Answers /\ out'.status = s /\ out'.addr = out.addr
            /\ out'.price = out.price /\ out'.round = out.round
            /\ out'.record = out.record
  BY <1>3, <1>5 DEF Answers
<1>6. ASSUME record # "absent",
             out' = [out EXCEPT !.status = 200, !.record = FromProto(record)]
      PROVE /\ out' \in Answers /\ out'.status = 200 /\ out'.addr = out.addr
            /\ out'.price = out.price /\ out'.round = out.round
            /\ out'.record = FromProto(record)
  <2>1. FromProto(record) \in Shown
    BY <1>6, FromProtoFaithful DEF Inv, RecordSeen
  <2> DEFINE v == FromProto(record)
  <2>2. v \in Shown /\ out' = [out EXCEPT !.status = 200, !.record = v]
    BY <1>6, <2>1
  <2> HIDE DEF v
  <2>3. /\ out' \in Answers /\ out'.status = 200 /\ out'.addr = out.addr
        /\ out'.price = out.price /\ out'.round = out.round /\ out'.record = v
    <3> DEFINE o == [out EXCEPT !.status = 200]
    <3>1. /\ o \in Answers /\ o.status = 200 /\ o.addr = out.addr
          /\ o.price = out.price /\ o.round = out.round
      BY <1>3 DEF Answers
    <3>2. out' = [o EXCEPT !.record = v]
      BY <2>2
    <3> HIDE DEF o
    <3> QED BY <2>2, <3>1, <3>2 DEF Answers
  <2> QED BY <2>3 DEF v
<1>7. \/ record # "absent"
         /\ out' = [out EXCEPT !.status = 200, !.record = FromProto(record)]
      \/ out' = [out EXCEPT !.status = 200]
      \/ record = "absent" /\ out' = [out EXCEPT !.status = 404]
      \/ out' = [out EXCEPT !.status = 400]
      \/ LookupFails /\ out' = [out EXCEPT !.status = 502]
  BY DEF Lookup, InvalidArgument, LookupFails, Answer
<1>8. /\ out' \in Answers /\ out'.addr = out.addr
      /\ out'.price = out.price /\ out'.round = out.round
      /\ \/ out'.record = out.record
         \/ record # "absent" /\ out'.record = FromProto(record)
      /\ out'.status = 404 => record = "absent"
      /\ out'.status = 502 => LookupFails
  <2>1. CASE /\ record # "absent"
             /\ out' = [out EXCEPT !.status = 200, !.record = FromProto(record)]
    BY <1>6, <2>1
  <2>2. CASE out' = [out EXCEPT !.status = 200] \/ out' = [out EXCEPT !.status = 400]
    BY <1>5, <2>2
  <2>3. CASE record = "absent" /\ out' = [out EXCEPT !.status = 404]
    BY <1>5, <2>3
  <2>4. CASE LookupFails /\ out' = [out EXCEPT !.status = 502]
    BY <1>5, <2>4
  <2> QED BY <1>7, <2>1, <2>2, <2>3, <2>4
<1>9. TypeOK'
  BY <1>1, <1>2, <1>4, <1>8, HandlersAssumption DEF Inv, TypeOK
<1>10. PageInRange' /\ Places' /\ Monotone' /\ Genuine'
  BY <1>1, <1>2, <1>8 DEF Inv, PageInRange, Places, InJoin, Monotone, Genuine
<1>11. RecordSeen'
  <2>1. CASE out'.record = out.record
    BY <1>2, <2>1 DEF Inv, RecordSeen
  <2>2. CASE record # "absent" /\ out'.record = FromProto(record)
    <3>1. (IF out'.record = "" THEN "NEWER" ELSE Meaning[out'.record]) = record
      BY <2>2, FromProtoFaithful DEF Inv, RecordSeen
    <3> QED BY <1>2, <1>3, <3>1 DEF Inv, RecordSeen
  <2> QED BY <1>8, <2>1, <2>2
<1>12. Honest'
  BY <1>2, <1>3, <1>4, <1>8 DEF Honest
<1>13. AssetsProgress' /\ PriceProgress'
  BY <1>2, <1>3 DEF AssetsProgress, PriceProgress
<1> QED BY <1>9, <1>10, <1>11, <1>12, <1>13 DEF Inv

\* The invariant holds in every reachable state.
THEOREM Inductive == Spec => []Inv
<1>1. Inv /\ [Next]_vars => Inv'
  BY WorldKeeps, BeginKeeps, QuietKeeps, AggregatorKeeps, GetPriceKeeps, RoundKeeps,
     LookupKeeps DEF Next, CallEnds
<1> QED BY InitInv, <1>1, PTL DEF Spec

-----------------------------------------------------------------------------
\* Every variable keeps its type: the loop over the catalog never runs past
\* its end, and only the five statuses are answered.
THEOREM TypeCorrect == Spec => []TypeOK
<1>1. Inv => TypeOK
  BY DEF Inv
<1> QED BY Inductive, <1>1, PTL

\* Whatever ?page and ?page_size say, the page asked for is in range.
THEOREM PagesInRange == Spec => []PageInRange
<1>1. Inv => PageInRange
  BY DEF Inv
<1> QED BY Inductive, <1>1, PTL

\* A price, a round or an address in an answer was the asset's own, at a
\* moment of the request.
THEOREM AnswersGenuine == Spec => []NothingInvented
<1>1. Inv => NothingInvented
  <2> SUFFICES ASSUME Inv, NEW a \in Assets
               PROVE /\ out.price[a] # 0 => out.price[a] \in began.price[a]..price[a]
                     /\ out.round[a] # 0 => out.round[a] \in began.round[a]..round[a]
                     /\ a \in out.addr => a \in known
    BY DEF NothingInvented
  <2>1. /\ out.price[a] \in Int /\ began.price[a] \in Int /\ price[a] \in Int
        /\ out.round[a] \in Int /\ began.round[a] \in Int /\ round[a] \in Int
    BY HandlersAssumption DEF Inv, TypeOK, Answers, Versions
  <2> QED BY <2>1 DEF Inv, Genuine
<1> QED BY Inductive, <1>1, PTL

\* An answer lacks what existed when the request began only through the very
\* call for it.
THEOREM AnswersComplete == Spec => []NothingLeftOut
<1>1. Inv => NothingLeftOut
  <2> SUFFICES ASSUME Inv, at = "done", out.status = 200, client # "gone",
                      NEW a \in Covered
               PROVE /\ began.price[a] # 0 => out.price[a] # 0 \/ <<"price", a>> \in faults
                     /\ began.round[a] # 0 => out.round[a] # 0 \/ <<"indexer", a>> \in faults
                     /\ began.known \cap {a} \subseteq out.addr
    BY DEF NothingLeftOut
  <2> SUFFICES Served(a)
    BY DEF Served, PriceServed, RoundServed, AddrServed
  <2>1. CASE req.endpoint = "assets"
    <3>1. i = NumAssets /\ Served(i) /\ \A b \in 1..(i - 1) : Served(b)
      BY <2>1 DEF Inv, AssetsProgress
    <3>2. a \in 1..NumAssets
      BY <2>1 DEF Covered, Assets
    <3>3. a \in 1..(i - 1) \/ a = i
      BY <3>1, <3>2, HandlersAssumption
    <3> QED BY <3>1, <3>3
  <2>2. CASE req.endpoint = "price"
    BY <2>2 DEF Covered, Inv, PriceProgress
  <2> QED BY <2>1, <2>2 DEF Covered
<1> QED BY Inductive, <1>1, PTL

\* 502 only when a service failed, 404 only for what was not there.
THEOREM StatusesHonest == Spec => []StatusHonest
<1>1. Inv => StatusHonest
  BY DEF Inv, Honest, StatusHonest
<1> QED BY Inductive, <1>1, PTL

\* The status an answer gives of a record is one the record had.
THEOREM OutcomesFaithful == Spec => []OutcomeFaithful
<1>1. Inv => OutcomeFaithful
  BY DEF Inv, RecordSeen, OutcomeFaithful
<1> QED BY Inductive, <1>1, PTL
=============================================================================
