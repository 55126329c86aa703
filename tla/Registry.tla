------------------------------ MODULE Registry ------------------------------
(***************************************************************************)
(* The aggregator registry (internal/aggregatorregistry): seeded once by   *)
(* Load in App.Init, then fed by the hub's indexer loop, whose stream is   *)
(* live-only and carries every kind of event.  An aggregator address is    *)
(* represented by the position, in the indexer's list of events, of the    *)
(* event that carries it.  An asset is registered once ("Aggregator        *)
(* addresses don't change during the lifetime of a deployment",            *)
(* registry.go).                                                           *)
(***************************************************************************)
EXTENDS Integers, Sequences, FiniteSets

CONSTANTS
    Assets,    \* assets that may be registered on chain
    Catalog,   \* those of models.AssetCatalog, the ones AssetByIDHash knows
    PageSize,  \* events Load asks for
    MaxOther,  \* bound: events of other kinds
    None       \* no AssetRegistered payload

ASSUME RegistryAssumption ==
    /\ Catalog \subseteq Assets
    /\ None \notin Assets
    /\ PageSize \in Nat \ {0}
    /\ MaxOther \in Nat

VARIABLES
    chain,      \* the indexer's events past the confirmation threshold
    byAsset,    \* Registry.byAsset: position of the event, 0 when absent
    load,       \* outcome of Load: "none", "ok" or "failed"
    stream,     \* "off", "closed", "open"; "set" or "marshal" in onMsg
    inbox,      \* events the open stream has still to deliver
    announced,  \* events that have been broadcast to the clients
    gap         \* history: events neither Load nor the stream delivers

vars == <<chain, byAsset, load, stream, inbox, announced, gap>>

Init ==
    /\ chain = <<>>
    /\ byAsset = [a \in Catalog |-> 0]
    /\ load = "none"
    /\ stream = "off"
    /\ inbox = <<>>
    /\ announced = {}
    /\ gap = {}

\* The elements of a sequence.
Elems(s) == {s[i] : i \in DOMAIN s}

-----------------------------------------------------------------------------
(***************************************************************************)
(* Event kinds and their conversions.  A newer indexer may send a kind     *)
(* this build's enum does not have.                                        *)
(***************************************************************************)
ProtoKinds == {"EVENT_KIND_PRICE_REQUESTED", "EVENT_KIND_PRICE_FULFILLED",
               "EVENT_KIND_ASSET_REGISTERED", "EVENT_KIND_NEWER"}

EventKindFromProto(k) ==
    CASE k = "EVENT_KIND_PRICE_REQUESTED"  -> "PRICE_REQUESTED"
      [] k = "EVENT_KIND_PRICE_FULFILLED"  -> "PRICE_FULFILLED"
      [] k = "EVENT_KIND_ASSET_REGISTERED" -> "ASSET_REGISTERED"
      [] OTHER -> ""

EventKindToProtoIncomplete(k) ==
    CASE k = "PRICE_REQUESTED"  -> "EVENT_KIND_PRICE_REQUESTED"
      [] k = "PRICE_FULFILLED"  -> "EVENT_KIND_PRICE_FULFILLED"
      [] OTHER -> "EVENT_KIND_UNSPECIFIED"

EventKindToProto(k) ==
    CASE k = "PRICE_REQUESTED"  -> "EVENT_KIND_PRICE_REQUESTED"
      [] k = "PRICE_FULFILLED"  -> "EVENT_KIND_PRICE_FULFILLED"
      [] k = "ASSET_REGISTERED" -> "EVENT_KIND_ASSET_REGISTERED"
      [] OTHER -> "EVENT_KIND_UNSPECIFIED"

\* The filter of a request: what cannot be named is left out, and a filter
\* with nothing left asks for every kind.
toProtoKinds(kinds) ==
    {EventKindToProto(k) : k \in kinds} \ {"EVENT_KIND_UNSPECIFIED"}

\* The domain event, of which only the registration payload matters here.
EventFromProto(e) == [kind |-> EventKindFromProto(e.kind),
                      AssetRegistered |-> e.registered]

-----------------------------------------------------------------------------
(***************************************************************************)
(* The indexer: confirmed events, the paged log and the live stream        *)
(***************************************************************************)

\* The stream is up: the indexer pushes new events into it.
Connected == stream \in {"open", "set", "marshal"}

Registrations == {n \in DOMAIN chain : chain[n].registered # None}
Registered == {chain[n].registered : n \in Registrations}

\* A new event is confirmed.  Before Load it is history that Load may read;
\* after it, without a stream, it is lost.
Emit(e) ==
    /\ chain' = Append(chain, e)
    /\ inbox' = IF Connected THEN Append(inbox, Len(chain) + 1) ELSE inbox
    /\ gap' = IF Connected \/ load = "none" THEN gap
              ELSE gap \cup {Len(chain) + 1}
    /\ UNCHANGED <<byAsset, load, stream, announced>>

\* OracleRegistry.registerAsset
RegisterAsset(a) ==
    /\ a \notin Registered
    /\ Emit([kind |-> "EVENT_KIND_ASSET_REGISTERED", registered |-> a])

\* Price requests, fulfilments and whatever else the indexer records.
OtherEvent(k) ==
    /\ k # "EVENT_KIND_ASSET_REGISTERED"
    /\ Cardinality(DOMAIN chain \ Registrations) < MaxOther
    /\ Emit([kind |-> k, registered |-> None])

\* The PageSize last elements of a set of positions.
Newest(ns) == {n \in ns : Cardinality({m \in ns : m > n}) < PageSize}

\* ListEvents, page 1, newest first, of the kinds asked for.
ListEvents(kinds) ==
    Newest({n \in DOMAIN chain : kinds = {} \/ chain[n].kind \in kinds})

-----------------------------------------------------------------------------
(***************************************************************************)
(* The registry                                                            *)
(***************************************************************************)

\* AssetByIDHash and Registry.Set for the events at the positions ns; an id
\* outside the catalog is skipped.
SetUnfiltered(ns) ==
    byAsset' = [a \in Catalog \cup {chain[n].registered : n \in ns} |->
                   IF \E n \in ns : chain[n].registered = a
                   THEN CHOOSE n \in ns : chain[n].registered = a
                   ELSE byAsset[a]]

Set(ns) ==
    byAsset' = [a \in Catalog |->
                   IF \E n \in ns : chain[n].registered = a
                   THEN CHOOSE n \in ns : chain[n].registered = a
                   ELSE byAsset[a]]

\* Load's page of registrations.
Page == {n \in ListEvents(toProtoKinds({"ASSET_REGISTERED"})) :
            EventFromProto(chain[n]).AssetRegistered # None}

\* App.Init: the seed succeeds, or it fails and the application goes on.
\* What one page cannot hold is beyond Load.
LoadOk ==
    /\ load = "none"
    /\ load' = "ok"
    /\ Set(Page)
    /\ gap' = Registrations \ Newest(Registrations)
    /\ UNCHANGED <<chain, stream, inbox, announced>>

LoadFails ==
    /\ load = "none"
    /\ load' = "failed"
    /\ gap' = DOMAIN chain
    /\ UNCHANGED <<chain, byAsset, stream, inbox, announced>>

\* App.Serve: Hub.Start spawns runIndexerStream.
Start ==
    /\ load # "none"
    /\ stream = "off"
    /\ stream' = "closed"
    /\ UNCHANGED <<chain, byAsset, load, inbox, announced, gap>>

\* StreamEvents with an empty filter: from_block = 0, live-only.
StreamOpens ==
    /\ stream = "closed"
    /\ stream' = "open"
    /\ UNCHANGED <<chain, byAsset, load, inbox, announced, gap>>

\* Recv fails; what the stream had not delivered is lost, and the loop backs
\* off.
StreamBreaks ==
    /\ stream = "open"
    /\ stream' = "closed"
    /\ inbox' = <<>>
    /\ gap' = gap \cup Elems(inbox)
    /\ UNCHANGED <<chain, byAsset, load, announced>>

\* Recv returns an event, and onMsg is called with it.
Receive ==
    /\ stream = "open"
    /\ inbox # <<>>
    /\ stream' = "set"
    /\ UNCHANGED <<chain, byAsset, load, inbox, announced, gap>>

\* onMsg: a registration of a catalog asset goes into the registry.
SetLeavesOut ==
    /\ stream = "set"
    /\ stream' = "marshal"
    /\ UNCHANGED <<chain, byAsset, load, inbox, announced, gap>>

SetFromStream ==
    LET e == EventFromProto(chain[Head(inbox)])
    IN  /\ stream = "set"
        /\ IF e.kind = "ASSET_REGISTERED" /\ e.AssetRegistered # None
           THEN Set({Head(inbox)})
           ELSE UNCHANGED byAsset
        /\ stream' = "marshal"
        /\ UNCHANGED <<chain, load, inbox, announced, gap>>

\* onMsg: MarshalEvent and broadcast, whatever the kind.
BroadcastFirst ==
    /\ stream \in {"set", "marshal"}
    /\ announced' = announced \cup {Head(inbox)}
    /\ inbox' = IF stream = "set" THEN inbox ELSE Tail(inbox)
    /\ stream' = IF stream = "set" THEN "set" ELSE "open"
    /\ UNCHANGED <<chain, byAsset, load, gap>>

Broadcast ==
    /\ stream = "marshal"
    /\ announced' = announced \cup {Head(inbox)}
    /\ inbox' = Tail(inbox)
    /\ stream' = "open"
    /\ UNCHANGED <<chain, byAsset, load, gap>>

\* onMsg: MarshalEvent fails, and the event is not broadcast.
MarshalFails ==
    /\ stream = "marshal"
    /\ inbox' = Tail(inbox)
    /\ stream' = "open"
    /\ UNCHANGED <<chain, byAsset, load, announced, gap>>

Next ==
    \/ \E a \in Assets : RegisterAsset(a)
    \/ \E k \in ProtoKinds : OtherEvent(k)
    \/ LoadOk \/ LoadFails \/ Start
    \/ StreamOpens \/ StreamBreaks \/ Receive \/ SetFromStream \/ Broadcast
    \/ MarshalFails

Spec == Init /\ [][Next]_vars

\* The loop's own steps are taken; the application gets through Load (it has
\* a 10 s deadline) and starts the hub; a closed stream is reopened after the
\* backoff.  The chain, and the network's failures, are not fair.
FairSpec ==
    /\ Spec
    /\ WF_vars(LoadOk \/ LoadFails)
    /\ WF_vars(Start)
    /\ WF_vars(StreamOpens)
    /\ WF_vars(Receive)
    /\ WF_vars(SetFromStream)
    /\ WF_vars(Broadcast \/ MarshalFails)

-----------------------------------------------------------------------------

\* Types: what the registry, the stream and the history hold are positions of
\* events the chain has.
TypeOK ==
    /\ chain \in Seq([kind : ProtoKinds, registered : Assets \cup {None}])
    /\ byAsset \in [Catalog -> 0..Len(chain)]
    /\ load \in {"none", "ok", "failed"}
    /\ stream \in {"off", "closed", "open", "set", "marshal"}
    /\ inbox \in Seq(DOMAIN chain)
    /\ announced \subseteq DOMAIN chain
    /\ gap \subseteq DOMAIN chain

\* The registrations the catalog filter lets through.
Relevant == {n \in Registrations : chain[n].registered \in Catalog}

Known(a) == byAsset[a] # 0

\* A client that has just been told of a registration and asks the REST API
\* gets that aggregator: the registry is updated before the event is
\* broadcast (hub.go runIndexerStream).
AnnouncedIsKnown ==
    \A n \in announced \cap Relevant : byAsset[chain[n].registered] = n

\* The registry lacks a registered asset only if its event fell into a gap:
\* a failed Load, more registrations than Load's page holds (events of other
\* kinds do not push them out), or no open stream; otherwise the event is
\* still on its way.  And an address is the asset's own.
MissingOnlyInGap ==
    load # "none" =>
        \A n \in Relevant :
            \/ byAsset[chain[n].registered] = n
            \/ byAsset[chain[n].registered] = 0 /\ n \in gap \cup Elems(inbox)

\* A registration the open stream carries is applied, unless the stream
\* breaks (runIndexerStream).
StreamedBecomesKnown ==
    \A a \in Catalog :
        (\E n \in Elems(inbox) : chain[n].registered = a)
            ~> (Known(a) \/ stream = "closed")

\* application.go: "initial load failed (will retry on first live event)" --
\* once a live event has been handled, what Load missed is known.
RetriedOnLiveEvent ==
    load = "failed" /\ announced # {} /\ stream = "open" /\ inbox = <<>> =>
        \A a \in Registered \cap Catalog : Known(a)
=============================================================================
