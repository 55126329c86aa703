------------------------------ MODULE Handlers ------------------------------
(***************************************************************************)
(* One REST request (internal/handlers) from its header to its answer,     *)
(* with the upstream calls it makes one after the other while prices,      *)
(* rounds and registrations go on, services fail or hang, their            *)
(* connections go silent, and the client leaves.  The handlers keep        *)
(* nothing between requests, so one request is enough.                     *)
(*                                                                         *)
(* An asset is its position in models.AssetCatalog; 0 is any other asset.  *)
(* A price and an on-chain round are their version: the number of updates  *)
(* so far, 0 when there is none.  What a path's id names, a price request  *)
(* of the indexer or a submission of oracle-service, is its proto status.  *)
(***************************************************************************)
EXTENDS Integers, FiniteSets

CONSTANTS
    NumAssets,      \* entries of AssetCatalog
    QueryParams,    \* values of ?page and ?page_size; below 1: absent or bad
    DefaultPageSize, MaxPageSize, MaxPageNumber,
    KeepAlive,      \* ticks until keepalive closes a silent connection:
                    \* keep_alive.time + keep_alive.timeout
    MaxVersion,     \* bound: versions of a price, and of a round
    MaxMoved        \* bound: fields of assets that change during the request

ASSUME HandlersAssumption ==
    /\ NumAssets \in Nat \ {0}
    /\ QueryParams \subseteq Int
    /\ MaxPageSize \in Nat \ {0} /\ DefaultPageSize \in 1..MaxPageSize
    /\ MaxPageNumber \in Nat /\ MaxPageSize <= MaxPageNumber
    /\ KeepAlive \in Nat
    /\ MaxVersion \in Nat \ {0}
    /\ MaxMoved \in Nat

Assets == 1..NumAssets
Untracked == 0
Services == {"price", "indexer", "oracle"}
Endpoints == {"health", "assets", "price", "request", "submissions",
              "submission"}

\* An asset's id as a client may spell it, and the catalog's spelling.
Spellings == (Assets \cup {Untracked}) \X {"lower", "upper"}
NormaliseAssetID(id) == <<id[1], "lower">>

\* The entry with that id: {} if there is none.
FindAsset(id) == {a \in Assets : <<a, "lower">> = NormaliseAssetID(id)}

\* The shapes of the id in a path: a base-10 number other than "0", "0", a
\* transaction hash, anything else.
Ids == {"decimal", "zero", "txhash", "other"}
isDecimal(id) == id \in {"decimal", "zero"}
isTxHash(id) == id = "txhash"

\* Proto statuses.  "NEWER" is one that a service knows and this build not.
RequestStatuses == {"PENDING", "FULFILLED", "FAILED", "NEWER"}
SubmissionStatuses ==
    {"PENDING", "CONFIRMED", "FAILED", "DROPPED", "EXPIRED", "NEWER"}

RequestStatusFromProto(s) ==
    CASE s = "PENDING" -> "pending"
      [] s = "FULFILLED" -> "fulfilled"
      [] s = "FAILED" -> "failed"
      [] OTHER -> ""

SubmissionStatusKindFromProtoBeforeExpired(s) ==
    CASE s = "PENDING" -> "pending"
      [] s = "CONFIRMED" -> "confirmed"
      [] s = "FAILED" -> "failed"
      [] s = "DROPPED" -> "dropped"
      [] OTHER -> ""

SubmissionStatusKindFromProto(s) ==
    CASE s = "PENDING" -> "pending"
      [] s = "CONFIRMED" -> "confirmed"
      [] s = "FAILED" -> "failed"
      [] s = "DROPPED" -> "dropped"
      [] s = "EXPIRED" -> "expired"
      [] OTHER -> ""

VARIABLES
    price,     \* price-service: price[a], the latest aggregated price
    round,     \* indexer: round[a], the last PriceFulfilled event
    known,     \* the aggregator registry: assets with an address
    record,    \* the status of what the path's id names, or of a listed
               \* submission, at the service asked; "absent"
    link,      \* the call's: "alive"; "hung": the service never answers it,
               \* while its transport does; "silent": nothing comes back
    at,        \* where the handler is
    req,       \* the request: endpoint and asset
    i,         \* the asset being served
    out,       \* the answer under construction
    asked,     \* the page ListSubmissions asked for
    wait,      \* ticks the link of the call in flight has been silent
    client,    \* "waiting", or "gone"
    began,     \* history: the upstream state when the request began
    seen,      \* history: what record was since the request began
    faults     \* history: <<service, asset>> of calls that went wrong

world == <<price, round, known, record, link>>
vars == <<world, at, req, i, out, asked, wait, client, began, seen, faults>>

Versions == [Assets -> 0..MaxVersion]

NoAnswer == [status |-> 0, addr |-> {}, price |-> [a \in Assets |-> 0],
             round |-> [a \in Assets |-> 0], record |-> "absent"]

Init ==
    /\ price = [a \in Assets |-> 0]
    /\ round = [a \in Assets |-> 0]
    /\ known = {}
    /\ record = "absent"
    /\ link = "alive"
    /\ at = "idle"
    /\ req = [endpoint |-> "health", asset |-> Untracked]
    /\ i = 1
    /\ out = NoAnswer
    /\ asked = <<1, 1>>
    /\ wait = 0
    /\ client = "waiting"
    /\ began = [price |-> price, round |-> round, known |-> known]
    /\ seen = {record}
    /\ faults = {}

\* The service of the call in flight.
Service == CASE at = "getprice" -> "price"
             [] at = "round" -> "indexer"
             [] at = "lookup" -> IF req.endpoint = "request" THEN "indexer"
                                                             ELSE "oracle"
             [] OTHER -> "none"

InCall == Service # "none"

handler == <<at, req, i, out, asked, wait, client, began, faults>>

-----------------------------------------------------------------------------
(* The world outside the handler.  What happens before the request is in   *)
(* Route's choice; what happens after it, or to what it does not ask for,  *)
(* does not matter.                                                        *)

InHandler == at \notin {"idle", "done"}
InJoin == at \in {"registry", "getprice", "round"}

\* The request has yet to ask for something of asset a, and somebody waits
\* for it.
Ahead(a) ==
    /\ InJoin
    /\ client = "waiting"
    /\ a = i \/ (req.endpoint = "assets" /\ a > i)

\* What has changed since the request began, and what may change yet.
Moved == {x \in {"price", "round", "known"} \X Assets :
            CASE x[1] = "price" -> price[x[2]] # began.price[x[2]]
              [] x[1] = "round" -> round[x[2]] # began.round[x[2]]
              [] x[1] = "known" -> x[2] \in known \ began.known}

MayMove(x) == x \in Moved \/ Cardinality(Moved) < MaxMoved

PriceUpdated(a) ==
    /\ Ahead(a)
    /\ at # "round" \/ a # i
    /\ MayMove(<<"price", a>>)
    /\ price[a] < MaxVersion
    /\ price' = [price EXCEPT ![a] = @ + 1]
    /\ UNCHANGED <<round, known, record, seen, link, handler>>

RoundFulfilled(a) ==
    /\ Ahead(a)
    /\ MayMove(<<"round", a>>)
    /\ round[a] < MaxVersion
    /\ round' = [round EXCEPT ![a] = @ + 1]
    /\ UNCHANGED <<price, known, record, seen, link, handler>>

\* Registry.Set, by the hub's indexer loop.
Set(a) ==
    /\ Ahead(a)
    /\ a \notin known
    /\ MayMove(<<"known", a>>)
    /\ known' = known \cup {a}
    /\ UNCHANGED <<price, round, record, seen, link, handler>>

\* The service stores the record, or a pending one reaches its outcome.
RecordMoves ==
    /\ at = "lookup"
    /\ \/ record = "absent" /\ record' = "PENDING"
       \/ /\ record = "PENDING"
          /\ record' \in (IF req.endpoint = "request" THEN RequestStatuses
                          ELSE SubmissionStatuses) \ {"PENDING"}
    /\ seen' = seen \cup {record'}
    /\ UNCHANGED <<price, round, known, link, handler>>

\* The service's handler never returns: it waits for a lock, or for a service
\* of its own.  (One that returns in the end is a slow call.)
ServiceHangs ==
    /\ InCall
    /\ link = "alive"
    /\ link' = "hung"
    /\ UNCHANGED <<price, round, known, record, seen, handler>>

\* The network loses everything, or the service's process stops, without the
\* connection being closed.
LinkBreaks ==
    /\ InCall
    /\ link # "silent"
    /\ link' = "silent"
    /\ UNCHANGED <<price, round, known, record, seen, handler>>

\* The client closes its connection, which cancels the request's context.
ClientLeaves ==
    /\ InHandler
    /\ client = "waiting"
    /\ client' = "gone"
    /\ UNCHANGED <<world, at, req, i, out, asked, wait, began, seen, faults>>

-----------------------------------------------------------------------------
(* Calls.  The handler passes r.Context() on: no deadline of its own.      *)

\* The keepalive ping has stayed unanswered, and gRPC closes the connection.
\* A ping is answered by the transport, whatever the service's handler does.
NoKeepAlive == FALSE

Expired == wait >= KeepAlive

\* An error status, a closed connection, or the context's end.
CallCanFail == /\ InCall
               /\ \/ link = "alive"
                  \/ link = "silent" /\ Expired
                  \/ client = "gone"

CallCanReturn == InCall /\ link = "alive" /\ client = "waiting"

Fault == faults' = IF client = "gone" THEN faults
                   ELSE faults \cup {<<Service, i>>}

\* Time passes; it matters on a silent link only.
Tick ==
    /\ InCall
    /\ link = "silent"
    /\ wait < KeepAlive
    /\ wait' = wait + 1
    /\ UNCHANGED <<world, at, req, i, out, asked, client, began, seen, faults>>

\* The handler goes on at l.
Goto(l) ==
    /\ at' = l
    /\ wait' = 0
    /\ link' = "alive"
    /\ UNCHANGED <<price, round, known, record, req, client, began, seen>>

Answer(status) == Goto("write") /\ out' = [out EXCEPT !.status = status]

\* What a query parameter asks for.
parsePositivePageParamUnclamped(n, def) == IF n < 1 THEN def ELSE n

parsePositivePageParam(n, def) ==
    IF n < 1 THEN def ELSE IF n > MaxPageNumber THEN MaxPageNumber ELSE n

-----------------------------------------------------------------------------
(* The handlers up to their first call.                                    *)

\* Register: the router picks the handler.  By now the services and the
\* registry hold the prices p, the rounds n, the addresses k and, where the
\* handler asks for one, the record rec.
Route(endpoint, a, p, n, k, rec) ==
    /\ at = "idle"
    /\ req' = [endpoint |-> endpoint, asset |-> a]
    /\ price' = p
    /\ round' = n
    /\ known' = k
    /\ record' = rec
    /\ began' = [price |-> p, round |-> n, known |-> k]
    /\ seen' = {rec}
    /\ UNCHANGED <<link, wait, client, faults>>

\* A handler that asks for neither prices nor rounds nor addresses.
RouteLookup(endpoint, a, rec) == Route(endpoint, a, price, round, known, rec)

Health ==
    /\ RouteLookup("health", Untracked, "absent")
    /\ at' = "write"
    /\ out' = [out EXCEPT !.status = 200]
    /\ UNCHANGED <<i, asked>>

ListAssets(p, n, k) ==
    /\ Route("assets", Untracked, p, n, k, "absent")
    /\ at' = "registry"
    /\ UNCHANGED <<i, out, asked>>

GetAssetPrice(id, p, n, k) ==
    /\ Route("price", id[1], p, n, k, "absent")
    /\ \/ \E a \in FindAsset(id) : at' = "getprice" /\ i' = a /\ UNCHANGED out
       \/ /\ FindAsset(id) = {}
          /\ at' = "write"
          /\ out' = [out EXCEPT !.status = 404]
          /\ UNCHANGED i
    /\ UNCHANGED asked

GetRequest(id, rec) ==
    /\ RouteLookup("request", Untracked, rec)
    /\ \/ isDecimal(id) /\ at' = "lookup" /\ UNCHANGED out
       \/ ~isDecimal(id) /\ at' = "write" /\ out' = [out EXCEPT !.status = 400]
    /\ UNCHANGED <<i, asked>>

GetSubmission(id, rec) ==
    /\ RouteLookup("submission", Untracked, rec)
    /\ LET valid == isTxHash(id) \/ (isDecimal(id) /\ id # "zero")
       IN  \/ valid /\ at' = "lookup" /\ UNCHANGED out
           \/ ~valid /\ at' = "write" /\ out' = [out EXCEPT !.status = 400]
    /\ UNCHANGED <<i, asked>>

\* filtered: ?asset_id is not empty.
ListSubmissions(filtered, id, page, size, rec) ==
    /\ RouteLookup("submissions", id[1], rec)
    /\ \/ /\ filtered /\ FindAsset(id) = {}
          /\ at' = "write"
          /\ out' = [out EXCEPT !.status = 400]
          /\ UNCHANGED asked
       \/ /\ ~(filtered /\ FindAsset(id) = {})
          /\ at' = "lookup"
          /\ LET n == parsePositivePageParam(size, DefaultPageSize)
             IN  asked' = <<parsePositivePageParam(page, 1),
                            IF n > MaxPageSize THEN MaxPageSize ELSE n>>
          /\ UNCHANGED out
    /\ UNCHANGED i

-----------------------------------------------------------------------------
(* The joins of ListAssets and GetAssetPrice.                              *)

\* Registry.Aggregator; GetAssetPrice asks it after the price.
Aggregator ==
    /\ at = "registry"
    /\ out' = [out EXCEPT !.addr = @ \cup ({i} \cap known)]
    /\ Goto(IF req.endpoint = "assets" THEN "getprice" ELSE "round")
    /\ UNCHANGED <<i, asked, faults>>

\* priceclient.GetPrice returns a price, or NotFound.
GetPrice ==
    /\ at = "getprice"
    /\ CallCanReturn
    /\ \/ /\ price[i] # 0
          /\ out' = [out EXCEPT !.price[i] = price[i]]
          /\ Goto(IF req.endpoint = "assets" THEN "round" ELSE "registry")
       \/ price[i] = 0 /\ req.endpoint = "price" /\ Answer(404)
       \/ /\ price[i] = 0 /\ req.endpoint = "assets"
          /\ Goto("round")
          /\ UNCHANGED out
    /\ UNCHANGED <<i, asked, faults>>

\* It returns any other error: ListAssets leaves the price out.
GetPriceFailsAsNotFound ==
    /\ at = "getprice"
    /\ CallCanFail
    /\ Fault
    /\ \/ req.endpoint = "price" /\ Answer(404)
       \/ req.endpoint = "assets" /\ Goto("round") /\ UNCHANGED out
    /\ UNCHANGED <<i, asked>>

GetPriceFailsSkippingRound ==
    /\ at = "getprice"
    /\ CallCanFail
    /\ Fault
    /\ \/ req.endpoint = "price" /\ Answer(502) /\ UNCHANGED i
       \/ /\ req.endpoint = "assets" /\ i < NumAssets
          /\ i' = i + 1
          /\ Goto("registry")
          /\ UNCHANGED out
       \/ req.endpoint = "assets" /\ i = NumAssets /\ Answer(200) /\ UNCHANGED i
    /\ UNCHANGED asked

GetPriceFails ==
    /\ at = "getprice"
    /\ CallCanFail
    /\ Fault
    /\ \/ req.endpoint = "price" /\ Answer(502)
       \/ req.endpoint = "assets" /\ Goto("round") /\ UNCHANGED out
    /\ UNCHANGED <<i, asked>>

\* ListAssets goes on with the next asset.
NextAssetPastTheEnd(lastOut) ==
    /\ req.endpoint = "assets"
    /\ i' = i + 1
    /\ out' = lastOut
    /\ Goto("registry")

NextAsset(lastOut) ==
    /\ req.endpoint = "assets" /\ i < NumAssets
    /\ i' = i + 1
    /\ out' = lastOut
    /\ Goto("registry")

Finish(lastOut) ==
    /\ req.endpoint = "price" \/ i = NumAssets
    /\ out' = [lastOut EXCEPT !.status = 200]
    /\ Goto("write")
    /\ UNCHANGED i

\* latestOnChainRound trusts the row only if it is a PriceFulfilled event of
\* the asset it asked for.
TrustedAlways(row) == row.round # 0

Trusted(row) == row.round # 0 /\ row.asset = i

attachLastOnChain(row) ==
    IF Trusted(row) THEN [out EXCEPT !.round[i] = row.round] ELSE out

\* The row on the page asked for, the first of size 1: the asset's last round
\* (0: no row).
LastRoundOnSecondPage(a) == IF round[a] > 0 THEN round[a] - 1 ELSE 0

LastRound(a) == round[a]

\* The indexer answers with that row, with none, or with one that ignores the
\* filter: another asset's, or another kind's.
ListEvents ==
    /\ at = "round"
    /\ CallCanReturn
    /\ \E row \in [asset : Assets \cup {Untracked}, round : 0..MaxVersion] :
          /\ row.asset = i => row.round \in {0, LastRound(i)}
          /\ LET new == attachLastOnChain(row) IN NextAsset(new) \/ Finish(new)
          /\ IF row = [asset |-> i, round |-> LastRound(i)] THEN UNCHANGED faults
             ELSE Fault
    /\ UNCHANGED asked

ListEventsFails ==
    /\ at = "round"
    /\ CallCanFail
    /\ Fault
    /\ NextAsset(out) \/ Finish(out)
    /\ UNCHANGED asked

-----------------------------------------------------------------------------
(* The handlers of a single call.                                          *)

\* RequestSummaryFromProto, SubmissionStatusFromProto: the record's status as
\* the answer has it.
FromProto(s) == IF req.endpoint = "request" THEN RequestStatusFromProto(s)
                ELSE SubmissionStatusKindFromProto(s)

\* GetRequest, getSubmission or ListSubmissions of the client returns.  A
\* list may be empty; a record that is not there is NotFound.
Lookup ==
    /\ at = "lookup"
    /\ CallCanReturn
    /\ \/ /\ record # "absent"
          /\ out' = [out EXCEPT !.status = 200, !.record = FromProto(record)]
          /\ Goto("write")
       \/ record = "absent" /\ req.endpoint = "submissions" /\ Answer(200)
       \/ record = "absent" /\ req.endpoint # "submissions" /\ Answer(404)
    /\ UNCHANGED <<i, asked, faults>>

\* oracle-service finds the key invalid.
InvalidArgument ==
    /\ at = "lookup"
    /\ CallCanReturn
    /\ req.endpoint = "submission"
    /\ Answer(400)
    /\ UNCHANGED <<i, asked, faults>>

LookupFails ==
    /\ at = "lookup"
    /\ CallCanFail
    /\ Fault
    /\ Answer(502)
    /\ UNCHANGED <<i, asked>>

writeJSON ==
    /\ at = "write"
    /\ at' = "done"
    /\ UNCHANGED <<world, req, i, out, asked, wait, client, began, seen, faults>>

-----------------------------------------------------------------------------
World ==
    \/ \E a \in Assets : PriceUpdated(a) \/ RoundFulfilled(a) \/ Set(a)
    \/ RecordMoves \/ ServiceHangs \/ LinkBreaks \/ ClientLeaves

Begin == at = "idle" /\
    ( \/ Health
      \/ \E p, n \in Versions, k \in SUBSET Assets :
            \/ ListAssets(p, n, k)
            \/ \E id \in Spellings : GetAssetPrice(id, p, n, k)
      \/ \E filtered \in BOOLEAN, id \in Spellings, page, size \in QueryParams,
            rec \in SubmissionStatuses \cup {"absent"} :
               ListSubmissions(filtered, id, page, size, rec)
      \/ \E id \in Ids, rec \in RequestStatuses \cup {"absent"} :
               GetRequest(id, rec)
      \/ \E id \in Ids, rec \in SubmissionStatuses \cup {"absent"} :
               GetSubmission(id, rec) )

CallEnds ==
    \/ GetPrice \/ GetPriceFails \/ ListEvents \/ ListEventsFails
    \/ Lookup \/ InvalidArgument \/ LookupFails

Next == World \/ Begin \/ Tick \/ Aggregator \/ CallEnds \/ writeJSON

Spec == Init /\ [][Next]_vars

\* A handler's own steps are taken, time passes, and a call that can end, ends.
\* That one on a silent link can is the keepalive's doing, and that one whose
\* client has left can, the context's.  Nothing makes a hung service answer.
FairSpec ==
    /\ Spec
    /\ WF_vars(Aggregator \/ writeJSON \/ Tick)
    /\ WF_vars(CallEnds)

-----------------------------------------------------------------------------

Statuses == RequestStatuses \cup SubmissionStatuses \cup {"absent"}

\* What each status of the answer stands for (openapi.yaml lists them).
Meaning == [pending |-> "PENDING", fulfilled |-> "FULFILLED",
            confirmed |-> "CONFIRMED", failed |-> "FAILED",
            dropped |-> "DROPPED", expired |-> "EXPIRED"]

\* What an answer may show of a record.
Shown == DOMAIN Meaning \cup {"", "absent"}

Answers == [status : {0, 200, 400, 404, 502}, addr : SUBSET Assets,
            price : Versions, round : Versions,
            record : Shown]

TypeOK ==
    /\ price \in Versions
    /\ round \in Versions
    /\ known \subseteq Assets
    /\ record \in Statuses
    /\ seen \subseteq Statuses
    /\ link \in {"alive", "hung", "silent"}
    /\ at \in {"idle", "registry", "getprice", "round", "lookup", "write",
               "done"}
    /\ req \in [endpoint : Endpoints, asset : Assets \cup {Untracked}]
    /\ i \in Assets
    /\ out \in Answers
    /\ asked \in Nat \X Nat
    /\ wait \in 0..KeepAlive
    /\ client \in {"waiting", "gone"}
    /\ began \in [price : Versions, round : Versions, known : SUBSET Assets]
    /\ faults \subseteq Services \X Assets

\* Assets the answer is about.
Covered == CASE req.endpoint = "assets" -> Assets
             [] req.endpoint = "price" -> {req.asset}
             [] OTHER -> {}

\* A price or a round in an answer is the asset's own, and as fresh as the
\* request: not older than when it began, although the calls of one request
\* see different moments and the indexer may answer with another asset's row.
NothingInvented ==
    at = "done" /\ out.status = 200 => \A a \in Assets :
        /\ out.price[a] # 0 => out.price[a] \in began.price[a]..price[a]
        /\ out.round[a] # 0 => out.round[a] \in began.round[a]..round[a]
        /\ a \in out.addr => a \in known

\* Graceful degradation is confined: an answer lacks a field that existed
\* when the request began only if the very call for it went wrong (or the
\* client has left).  Failures of one service, or for one asset, take
\* nothing away from the others.
NothingLeftOut ==
    at = "done" /\ out.status = 200 /\ client # "gone" => \A a \in Covered :
        /\ began.price[a] # 0 => out.price[a] # 0 \/ <<"price", a>> \in faults
        /\ began.round[a] # 0 => out.round[a] # 0 \/ <<"indexer", a>> \in faults
        /\ began.known \cap {a} \subseteq out.addr

\* The status tells the client whose fault it was: 502 only when a service
\* failed, 404 only for what did not exist when the request began.
StatusHonest ==
    at = "done" /\ client # "gone" =>
        /\ out.status = 502 => faults # {}
        /\ out.status = 404 => IF req.endpoint = "price"
                               THEN \/ req.asset = Untracked
                                    \/ began.price[req.asset] = 0
                               ELSE "absent" \in seen
        /\ req.endpoint = "assets" => out.status = 200

\* Whatever the query says, the page asked of oracle-service is one it can
\* serve, and fits the proto's int32.
PageInRange == asked \in (1..MaxPageNumber) \X (1..MaxPageSize)

\* Every request ends, on silent links too (grpcdial.Options) and when its
\* client leaves (r.Context()), with one exception: the handlers set no
\* deadline, so that a service which hangs behind a live transport holds the
\* request for as long as the client waits.
RequestEnds ==
    InHandler ~> \/ at = "done"
                 \/ link = "hung" /\ client = "waiting"

\* The status an answer gives of a record is one the record had while the
\* request was served, whatever outcome it reached meanwhile: an outcome is
\* never taken back to pending, nor confused with another one, and it is left
\* blank only where the service sent one this build does not know.
OutcomeFaithful ==
    at = "done" /\ out.record # "absent" =>
        (IF out.record = "" THEN "NEWER" ELSE Meaning[out.record]) \in seen
=============================================================================
