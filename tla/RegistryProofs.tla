--------------------------- MODULE RegistryProofs ---------------------------
(***************************************************************************)
(* Proofs about Registry, for any assets, any catalog, any page size and   *)
(* any number of events.                                                   *)
(***************************************************************************)
EXTENDS Registry, TLAPS

(***************************************************************************)
(* The inductive invariant.  That a broadcast registration is known holds  *)
(* because of what onMsg did one step earlier, and that a missing one fell *)
(* into a gap depends on addresses never moving to another event: the      *)
(* invariant keeps both, and what the chain guarantees.                    *)
(***************************************************************************)

Events == [kind : ProtoKinds, registered : Assets \cup {None}]

\* The events that carry a registration are those of that kind ...
KindsMatch ==
    \A n \in DOMAIN chain :
        chain[n].kind = "EVENT_KIND_ASSET_REGISTERED" <=> chain[n].registered # None

\* ... and no asset is registered twice.
RegisteredOnce ==
    \A m, n \in Registrations : chain[m].registered = chain[n].registered => m = n

\* An address the registry holds is the one the asset was registered with.
OwnAddress ==
    \A a \in Catalog : byAsset[a] # 0 => chain[byAsset[a]].registered = a

\* Before Load there is no stream and nothing is known; without a stream no
\* event is on its way.
BeforeLoad ==
    /\ stream # "off" => load # "none"
    /\ ~Connected => inbox = <<>>
    /\ load = "none" =>
          announced = {} /\ gap = {} /\ \A a \in Catalog : byAsset[a] = 0

\* onMsg works on the event at the head of the inbox, and has put it into the
\* registry before it marshals it.
InOnMsg ==
    /\ stream \in {"set", "marshal"} => inbox # <<>>
    /\ stream = "marshal" /\ Head(inbox) \in Relevant =>
          byAsset[chain[Head(inbox)].registered] = Head(inbox)

Inv == /\ TypeOK /\ KindsMatch /\ RegisteredOnce /\ OwnAddress /\ BeforeLoad
       /\ InOnMsg /\ AnnouncedIsKnown /\ MissingOnlyInGap

-----------------------------------------------------------------------------
\* What Append adds to the elements of a sequence.
LEMMA ElemsAppend ==
    ASSUME NEW S, NEW s \in Seq(S), NEW x
    PROVE  Elems(Append(s, x)) = Elems(s) \cup {x}
BY DEF Elems

\* A sequence's elements are its head and those of its tail.
LEMMA ElemsTail ==
    ASSUME NEW S, NEW s \in Seq(S), s # <<>>
    PROVE  /\ Tail(s) \in Seq(S)
           /\ Head(s) \in S
           /\ Elems(s) = {Head(s)} \cup Elems(Tail(s))
<1>1. Len(s) \in Nat /\ Len(s) > 0 /\ DOMAIN s = 1..Len(s)
  OBVIOUS
<1>2. Len(Tail(s)) = Len(s) - 1 /\ DOMAIN Tail(s) = 1..(Len(s) - 1)
  BY <1>1
<1>3. \A i \in 1..(Len(s) - 1) : Tail(s)[i] = s[i + 1]
  BY <1>1
<1>4. Head(s) = s[1] /\ Head(s) \in S /\ Tail(s) \in Seq(S)
  BY <1>1
<1>5. ASSUME NEW i \in DOMAIN s PROVE s[i] \in {Head(s)} \cup Elems(Tail(s))
  <2>1. CASE i = 1
    BY <2>1, <1>4
  <2>2. CASE i # 1
    <3>1. i - 1 \in 1..(Len(s) - 1) /\ (i - 1) + 1 = i
      BY <1>1, <2>2
    <3> QED BY <3>1, <1>2, <1>3 DEF Elems
  <2> QED BY <2>1, <2>2
<1>6. ASSUME NEW i \in DOMAIN Tail(s) PROVE Tail(s)[i] \in Elems(s)
  <2>1. i + 1 \in DOMAIN s
    BY <1>1, <1>2
  <2> QED BY <2>1, <1>2, <1>3 DEF Elems
<1>7. Head(s) \in Elems(s)
  BY <1>1, <1>4 DEF Elems
<1> QED BY <1>4, <1>5, <1>6, <1>7 DEF Elems

\* The elements of a sequence over S are in S.
LEMMA ElemsIn ==
    ASSUME NEW S, NEW s \in Seq(S)
    PROVE  Elems(s) \subseteq S
BY DEF Elems

\* A sequence over S is one over any larger set.
LEMMA SeqSubset ==
    ASSUME NEW S, NEW T, S \subseteq T, NEW s \in Seq(S)
    PROVE  s \in Seq(T)
<1>1. s \in [1..Len(s) -> S] /\ Len(s) \in Nat
  OBVIOUS
<1>2. s \in [1..Len(s) -> T]
  BY <1>1
<1> QED BY <1>1, <1>2

\* Confirming an event leaves the earlier ones where they are.
LEMMA ChainGrows ==
    ASSUME TypeOK, NEW e \in Events, Emit(e)
    PROVE  /\ Len(chain) \in Nat
           /\ DOMAIN chain = 1..Len(chain)
           /\ chain' \in Seq(Events)
           /\ Len(chain') = Len(chain) + 1
           /\ DOMAIN chain' = DOMAIN chain \cup {Len(chain) + 1}
           /\ Len(chain) + 1 \notin DOMAIN chain
           /\ \A n \in DOMAIN chain : chain'[n] = chain[n]
           /\ chain'[Len(chain) + 1] = e
<1>1. chain \in Seq(Events) /\ chain' = Append(chain, e)
  BY DEF TypeOK, Events, Emit
<1> QED BY <1>1

\* A new event keeps the invariant, if its kind matches its payload and its
\* asset is not registered yet.
LEMMA EmitKeeps ==
    ASSUME Inv, NEW e \in Events, Emit(e),
           e.kind = "EVENT_KIND_ASSET_REGISTERED" <=> e.registered # None,
           e.registered # None => e.registered \notin Registered
    PROVE  Inv'
<1> DEFINE new == Len(chain) + 1
<1>1. /\ Len(chain) \in Nat
      /\ DOMAIN chain = 1..Len(chain)
      /\ chain' \in Seq(Events)
      /\ Len(chain') = new
      /\ DOMAIN chain' = DOMAIN chain \cup {new}
      /\ new \notin DOMAIN chain
      /\ \A n \in DOMAIN chain : chain'[n] = chain[n]
      /\ chain'[new] = e
  BY ChainGrows DEF Inv
<1>2. /\ UNCHANGED <<byAsset, load, stream, announced>>
      /\ inbox' = IF Connected THEN Append(inbox, new) ELSE inbox
      /\ gap' = IF Connected \/ load = "none" THEN gap ELSE gap \cup {new}
  BY DEF Emit
<1>3. Connected' <=> Connected
  BY <1>2 DEF Connected
<1>4. inbox \in Seq(DOMAIN chain)
  BY DEF Inv, TypeOK
<1>5. Elems(inbox') = Elems(inbox) \cup (IF Connected THEN {new} ELSE {})
  BY <1>2, <1>4, ElemsAppend
<1>6. inbox # <<>> => inbox' # <<>> /\ Head(inbox') = Head(inbox)
  BY <1>2, <1>4
<1>7. inbox' \in Seq(DOMAIN chain')
  <2>1. inbox \in Seq(DOMAIN chain')
    BY <1>1, <1>4, SeqSubset
  <2>2. new \in DOMAIN chain'
    BY <1>1
  <2> HIDE DEF new
  <2>3. Append(inbox, new) \in Seq(DOMAIN chain')
    BY <2>1, <2>2
  <2> QED BY <1>2, <2>1, <2>3
<1> HIDE DEF new
<1>8. Registrations' = Registrations \cup (IF e.registered # None THEN {new} ELSE {})
  BY <1>1 DEF Registrations
<1>9. \A n \in Registrations : n \in DOMAIN chain /\ chain'[n] = chain[n]
  BY <1>1 DEF Registrations
<1>10. Relevant' = Relevant \cup
          (IF e.registered # None /\ e.registered \in Catalog THEN {new} ELSE {})
  BY <1>1, <1>8, <1>9 DEF Relevant
<1>11. TypeOK'
  <2>1. byAsset' \in [Catalog -> 0..Len(chain')]
    <3>1. 0..Len(chain) \subseteq 0..Len(chain')
      BY <1>1 DEF new
    <3> QED BY <1>2, <3>1 DEF Inv, TypeOK
  <2>2. announced' \subseteq DOMAIN chain' /\ gap' \subseteq DOMAIN chain'
    BY <1>1, <1>2 DEF Inv, TypeOK
  <2> QED BY <1>1, <1>2, <1>7, <2>1, <2>2 DEF Inv, TypeOK, Events
<1>12. KindsMatch'
  BY <1>1 DEF Inv, KindsMatch
<1>13. RegisteredOnce'
  <2>1. \A n \in Registrations : chain[n].registered \in Registered
    BY DEF Registered
  <2> QED BY <1>1, <1>8, <1>9, <2>1 DEF Inv, RegisteredOnce
<1>14. OwnAddress'
  <2> SUFFICES ASSUME NEW a \in Catalog, byAsset[a] # 0
               PROVE chain'[byAsset[a]].registered = a
    BY <1>2 DEF OwnAddress
  <2>1. byAsset[a] \in DOMAIN chain
    BY <1>1 DEF Inv, TypeOK
  <2> QED BY <1>1, <2>1 DEF Inv, OwnAddress
<1>15. BeforeLoad'
  BY <1>2, <1>3 DEF Inv, BeforeLoad
<1>16. InOnMsg'
  <2> SUFFICES ASSUME stream \in {"set", "marshal"}
               PROVE /\ inbox' # <<>>
                     /\ stream = "marshal" /\ Head(inbox') \in Relevant' =>
                          byAsset[chain'[Head(inbox')].registered] = Head(inbox')
    BY <1>2 DEF InOnMsg
  <2>1. inbox # <<>> /\ inbox' # <<>> /\ Head(inbox') = Head(inbox)
    BY <1>6 DEF Inv, InOnMsg
  <2>2. Head(inbox) \in DOMAIN chain
    BY <1>4, <2>1
  <2>3. Head(inbox) \in Relevant' => Head(inbox) \in Relevant
    BY <1>1, <1>10, <2>2
  <2> QED BY <1>1, <2>1, <2>2, <2>3 DEF Inv, InOnMsg
<1>17. AnnouncedIsKnown'
  <2> SUFFICES ASSUME NEW n \in announced, n \in Relevant'
               PROVE byAsset[chain'[n].registered] = n
    BY <1>2 DEF AnnouncedIsKnown
  <2>1. n \in DOMAIN chain /\ n \in Relevant
    BY <1>1, <1>10 DEF Inv, TypeOK
  <2> QED BY <1>1, <2>1 DEF Inv, AnnouncedIsKnown
<1>18. MissingOnlyInGap'
  <2> SUFFICES ASSUME load # "none", NEW n \in Relevant'
               PROVE \/ byAsset[chain'[n].registered] = n
                     \/ /\ byAsset[chain'[n].registered] = 0
                        /\ n \in gap' \cup Elems(inbox')
    BY <1>2 DEF MissingOnlyInGap
  <2>1. CASE n \in Relevant
    <3>1. chain'[n] = chain[n]
      BY <1>1, <2>1 DEF Relevant, Registrations
    <3> QED BY <1>2, <1>5, <2>1, <3>1 DEF Inv, MissingOnlyInGap
  <2>2. CASE n = new /\ e.registered # None /\ e.registered \in Catalog
    <3>1. byAsset[e.registered] = 0
      <4> SUFFICES ASSUME byAsset[e.registered] # 0 PROVE FALSE
        OBVIOUS
      <4>1. byAsset[e.registered] \in DOMAIN chain
        BY <1>1, <2>2 DEF Inv, TypeOK
      <4>2. chain[byAsset[e.registered]].registered = e.registered
        BY <2>2 DEF Inv, OwnAddress
      <4>3. byAsset[e.registered] \in Registrations
        BY <2>2, <4>1, <4>2 DEF Registrations
      <4> QED BY <2>2, <4>2, <4>3 DEF Registered
    <3>2. n \in gap' \cup Elems(inbox')
      BY <1>2, <1>5, <2>2
    <3> QED BY <1>1, <2>2, <3>1, <3>2
  <2> QED BY <1>10, <2>1, <2>2
<1> QED BY <1>11, <1>12, <1>13, <1>14, <1>15, <1>16, <1>17, <1>18 DEF Inv

\* Set writes each position it is given under the asset it registers, if the
\* catalog has that asset, and nothing else.
LEMMA SetWrites ==
    ASSUME Inv, NEW ns \in SUBSET Registrations, Set(ns)
    PROVE  /\ byAsset' \in [Catalog -> 0..Len(chain)]
           /\ \A n \in ns \cap Relevant : byAsset'[chain[n].registered] = n
           /\ \A a \in Catalog :
                 \/ byAsset'[a] = byAsset[a]
                 \/ byAsset'[a] \in ns /\ chain[byAsset'[a]].registered = a
<1>1. DOMAIN chain = 1..Len(chain) /\ Len(chain) \in Nat
  BY DEF Inv, TypeOK
<1>2. ns \subseteq 0..Len(chain)
  BY <1>1 DEF Registrations
<1>3. \A a \in Catalog : byAsset'[a] = IF \E n \in ns : chain[n].registered = a
                                       THEN CHOOSE n \in ns : chain[n].registered = a
                                       ELSE byAsset[a]
  BY DEF Set
<1>4. ASSUME NEW a \in Catalog, \E n \in ns : chain[n].registered = a
      PROVE byAsset'[a] \in ns /\ chain[byAsset'[a]].registered = a
  <2>1. byAsset'[a] = CHOOSE n \in ns : chain[n].registered = a
    BY <1>3, <1>4
  <2> QED BY <1>4, <2>1
<1>5. ASSUME NEW a \in Catalog, ~\E n \in ns : chain[n].registered = a
      PROVE byAsset'[a] = byAsset[a]
  BY <1>3, <1>5
<1>6. DOMAIN byAsset' = Catalog /\ byAsset' = [a \in Catalog |-> byAsset'[a]]
  BY DEF Set
<1>7. \A a \in Catalog : byAsset'[a] \in 0..Len(chain)
  BY <1>2, <1>4, <1>5 DEF Inv, TypeOK
<1>8. ASSUME NEW n \in ns \cap Relevant PROVE byAsset'[chain[n].registered] = n
  <2>1. chain[n].registered \in Catalog
    BY DEF Relevant
  <2>2. byAsset'[chain[n].registered] \in ns
        /\ chain[byAsset'[chain[n].registered]].registered = chain[n].registered
    BY <1>4, <2>1
  <2> QED BY <2>2 DEF Inv, RegisteredOnce
<1> QED BY <1>4, <1>5, <1>6, <1>7, <1>8

\* Load reads the newest registrations: events of other kinds take no room on
\* its page.
LEMMA PageIsNewest ==
    ASSUME KindsMatch
    PROVE  Page = Newest(Registrations) /\ Page \subseteq Registrations
<1>1. toProtoKinds({"ASSET_REGISTERED"}) = {"EVENT_KIND_ASSET_REGISTERED"}
  BY DEF toProtoKinds, EventKindToProto
<1>2. {n \in DOMAIN chain : \/ toProtoKinds({"ASSET_REGISTERED"}) = {}
                            \/ chain[n].kind \in toProtoKinds({"ASSET_REGISTERED"})}
         = Registrations
  BY <1>1 DEF KindsMatch, Registrations
<1>3. ListEvents(toProtoKinds({"ASSET_REGISTERED"})) = Newest(Registrations)
  BY <1>2 DEF ListEvents
<1>4. Newest(Registrations) \subseteq Registrations
  BY DEF Newest
<1>5. \A n \in Registrations : EventFromProto(chain[n]).AssetRegistered # None
  BY DEF Registrations, EventFromProto
<1> QED BY <1>3, <1>4, <1>5 DEF Page

\* Nothing is on chain, known or streamed at the start.
LEMMA InitInv == Init => Inv
<1> SUFFICES ASSUME Init PROVE Inv
  OBVIOUS
<1>1. DOMAIN chain = {} /\ Len(chain) = 0
  BY DEF Init
<1>2. TypeOK
  BY <1>1 DEF Init, TypeOK
<1>3. KindsMatch /\ RegisteredOnce /\ AnnouncedIsKnown /\ MissingOnlyInGap
  BY <1>1 DEF Init, KindsMatch, RegisteredOnce, Registrations, Relevant,
     AnnouncedIsKnown, MissingOnlyInGap
<1>4. OwnAddress /\ BeforeLoad /\ InOnMsg
  BY DEF Init, OwnAddress, BeforeLoad, InOnMsg, Connected
<1> QED BY <1>2, <1>3, <1>4 DEF Inv

\* The seed, the stream and onMsg leave the chain alone.
LEMMA ChainKept ==
    ASSUME Inv, UNCHANGED chain
    PROVE  /\ KindsMatch' /\ RegisteredOnce'
           /\ Registrations' = Registrations /\ Relevant' = Relevant
BY DEF Inv, KindsMatch, RegisteredOnce, Registrations, Relevant

\* The seed keeps the invariant: what Load's page holds is known, the rest is
\* in the gap.
LEMMA LoadKeeps == Inv /\ (LoadOk \/ LoadFails) => Inv'
<1> SUFFICES ASSUME Inv, LoadOk \/ LoadFails PROVE Inv'
  OBVIOUS
<1>1. /\ load = "none" /\ load' # "none" /\ load' \in {"ok", "failed"}
      /\ UNCHANGED <<chain, stream, inbox, announced>>
  BY DEF LoadOk, LoadFails
<1>2. stream = "off" /\ announced = {} /\ \A a \in Catalog : byAsset[a] = 0
  BY <1>1 DEF Inv, BeforeLoad
<1>3. /\ KindsMatch' /\ RegisteredOnce'
      /\ Registrations' = Registrations /\ Relevant' = Relevant
  BY <1>1, ChainKept
<1>4. BeforeLoad' /\ InOnMsg' /\ AnnouncedIsKnown'
  BY <1>1, <1>2 DEF Inv, BeforeLoad, InOnMsg, AnnouncedIsKnown, Connected
<1>5. CASE LoadOk
  <2>1. Page = Newest(Registrations) /\ Page \subseteq Registrations
    BY PageIsNewest DEF Inv
  <2>2. Set(Page) /\ gap' = Registrations \ Page
    BY <1>5, <2>1 DEF LoadOk
  <2>3. /\ byAsset' \in [Catalog -> 0..Len(chain)]
        /\ \A n \in Page \cap Relevant : byAsset'[chain[n].registered] = n
        /\ \A a \in Catalog :
              \/ byAsset'[a] = 0
              \/ byAsset'[a] \in Page /\ chain[byAsset'[a]].registered = a
    BY <1>2, <2>1, <2>2, SetWrites
  <2>4. TypeOK'
    BY <1>1, <2>2, <2>3 DEF Inv, TypeOK, Registrations
  <2>5. OwnAddress'
    BY <1>1, <2>3 DEF OwnAddress
  <2>6. MissingOnlyInGap'
    <3> SUFFICES ASSUME NEW n \in Relevant
                 PROVE \/ byAsset'[chain[n].registered] = n
                       \/ byAsset'[chain[n].registered] = 0 /\ n \in gap'
      BY <1>1, <1>3 DEF MissingOnlyInGap
    <3>1. n \in Registrations /\ chain[n].registered \in Catalog
      BY DEF Relevant
    <3>2. CASE n \in Page
      BY <2>3, <3>2
    <3>3. CASE n \notin Page
      <4>1. n \in gap'
        BY <2>2, <3>1, <3>3
      <4>2. byAsset'[chain[n].registered] = 0
        BY <2>1, <2>3, <3>1, <3>3 DEF Inv, RegisteredOnce
      <4> QED BY <4>1, <4>2
    <3> QED BY <3>2, <3>3
  <2> QED BY <1>3, <1>4, <2>4, <2>5, <2>6 DEF Inv
<1>6. CASE LoadFails
  <2>1. byAsset' = byAsset /\ gap' = DOMAIN chain
    BY <1>6 DEF LoadFails
  <2>2. TypeOK' /\ OwnAddress'
    BY <1>1, <2>1 DEF Inv, TypeOK, OwnAddress
  <2>3. MissingOnlyInGap'
    BY <1>1, <1>2, <1>3, <2>1 DEF MissingOnlyInGap, Relevant, Registrations
  <2> QED BY <1>3, <1>4, <2>2, <2>3 DEF Inv
<1> QED BY <1>5, <1>6

\* onMsg's first half keeps the invariant: the event at the head of the inbox
\* is in the registry before it is marshalled.
LEMMA SetFromStreamKeeps == Inv /\ SetFromStream => Inv'
<1> SUFFICES ASSUME Inv, SetFromStream PROVE Inv'
  OBVIOUS
<1> DEFINE h == Head(inbox)
<1>1. /\ stream = "set" /\ stream' = "marshal"
      /\ UNCHANGED <<chain, load, inbox, announced, gap>>
  BY DEF SetFromStream
<1>2. inbox # <<>> /\ h \in DOMAIN chain /\ load # "none"
  BY <1>1 DEF Inv, InOnMsg, BeforeLoad, TypeOK
<1>3. /\ KindsMatch' /\ RegisteredOnce'
      /\ Registrations' = Registrations /\ Relevant' = Relevant
  BY <1>1, ChainKept
<1>4. BeforeLoad'
  BY <1>1, <1>2 DEF BeforeLoad, Connected
<1>5. h \in Registrations <=>
        /\ EventFromProto(chain[h]).kind = "ASSET_REGISTERED"
        /\ EventFromProto(chain[h]).AssetRegistered # None
  <2> HIDE DEF h
  <2>1. chain \in Seq(Events)
    BY DEF Inv, TypeOK, Events
  <2>2. chain[h] \in Events
    BY <1>2, <2>1
  <2>3. chain[h].kind \in ProtoKinds
    BY <2>2 DEF Events
  <2> QED BY <1>2, <2>3 DEF Inv, KindsMatch, Registrations, EventFromProto,
            EventKindFromProto, ProtoKinds
<1>6. /\ byAsset' \in [Catalog -> 0..Len(chain)]
      /\ h \in Relevant => byAsset'[chain[h].registered] = h
      /\ \A a \in Catalog :
            \/ byAsset'[a] = byAsset[a]
            \/ h \in Registrations /\ byAsset'[a] = h /\ chain[h].registered = a
  <2>1. CASE h \in Registrations
    <3>1. Set({h})
      BY <1>5, <2>1 DEF SetFromStream
    <3>2. {h} \in SUBSET Registrations
      BY <2>1
    <3> HIDE DEF h
    <3> QED BY <2>1, <3>1, <3>2, SetWrites
  <2>2. CASE h \notin Registrations
    <3>1. byAsset' = byAsset
      BY <1>5, <2>2 DEF SetFromStream
    <3> QED BY <2>2, <3>1 DEF Inv, TypeOK, Relevant
  <2> QED BY <2>1, <2>2
<1>7. TypeOK'
  BY <1>1, <1>6 DEF Inv, TypeOK
<1>8. OwnAddress'
  BY <1>1, <1>6 DEF Inv, OwnAddress
<1>9. InOnMsg'
  BY <1>1, <1>2, <1>3, <1>6 DEF InOnMsg
<1> HIDE DEF h
<1>10. ASSUME NEW n \in Relevant
       PROVE byAsset'[chain[n].registered] \in {n, byAsset[chain[n].registered]}
  <2>1. chain[n].registered \in Catalog /\ n \in Registrations
    BY DEF Relevant
  <2> QED BY <1>6, <2>1 DEF Inv, RegisteredOnce
<1>11. AnnouncedIsKnown'
  BY <1>1, <1>3, <1>10 DEF Inv, AnnouncedIsKnown
<1>12. MissingOnlyInGap'
  BY <1>1, <1>2, <1>3, <1>10 DEF Inv, MissingOnlyInGap
<1> QED BY <1>3, <1>4, <1>7, <1>8, <1>9, <1>11, <1>12 DEF Inv

\* onMsg's second half keeps it: what leaves the inbox is in the registry.
LEMMA OnMsgEndsKeeps == Inv /\ (Broadcast \/ MarshalFails) => Inv'
<1> SUFFICES ASSUME Inv, Broadcast \/ MarshalFails PROVE Inv'
  OBVIOUS
<1>1. /\ stream = "marshal" /\ stream' = "open" /\ inbox' = Tail(inbox)
      /\ UNCHANGED <<chain, byAsset, load, gap>>
      /\ announced' \in {announced, announced \cup {Head(inbox)}}
  BY DEF Broadcast, MarshalFails
<1>2. inbox # <<>> /\ inbox \in Seq(DOMAIN chain) /\ load # "none"
  BY <1>1 DEF Inv, InOnMsg, BeforeLoad, TypeOK
<1>3. /\ inbox' \in Seq(DOMAIN chain) /\ Head(inbox) \in DOMAIN chain
      /\ Elems(inbox) = {Head(inbox)} \cup Elems(inbox')
  BY <1>1, <1>2, ElemsTail
<1>4. /\ KindsMatch' /\ RegisteredOnce'
      /\ Registrations' = Registrations /\ Relevant' = Relevant
  BY <1>1, ChainKept
<1>5. Head(inbox) \in Relevant =>
         byAsset[chain[Head(inbox)].registered] = Head(inbox)
  BY <1>1 DEF Inv, InOnMsg
<1>6. TypeOK'
  BY <1>1, <1>3 DEF Inv, TypeOK
<1>7. OwnAddress' /\ BeforeLoad' /\ InOnMsg'
  BY <1>1, <1>2 DEF Inv, OwnAddress, BeforeLoad, InOnMsg, Connected
<1>8. AnnouncedIsKnown'
  BY <1>1, <1>4, <1>5 DEF Inv, AnnouncedIsKnown
<1>9. MissingOnlyInGap'
  BY <1>1, <1>2, <1>3, <1>4, <1>5 DEF Inv, MissingOnlyInGap
<1> QED BY <1>4, <1>6, <1>7, <1>8, <1>9 DEF Inv

\* The stream's other steps keep it: what a broken stream loses is in the gap.
LEMMA StreamKeeps ==
    Inv /\ (Start \/ StreamOpens \/ StreamBreaks \/ Receive) => Inv'
<1> SUFFICES ASSUME Inv, Start \/ StreamOpens \/ StreamBreaks \/ Receive PROVE Inv'
  OBVIOUS
<1>1. /\ UNCHANGED <<chain, byAsset, load, announced>>
      /\ stream' \in {"closed", "open", "set"}
      /\ \/ inbox' = inbox /\ gap' = gap
         \/ inbox' = <<>> /\ gap' = gap \cup Elems(inbox)
  BY DEF Start, StreamOpens, StreamBreaks, Receive
<1>2. /\ KindsMatch' /\ RegisteredOnce'
      /\ Registrations' = Registrations /\ Relevant' = Relevant
  BY <1>1, ChainKept
<1>3. Elems(inbox) \subseteq DOMAIN chain
  BY ElemsIn DEF Inv, TypeOK
<1>4. gap \cup Elems(inbox) = gap' \cup Elems(inbox')
  BY <1>1 DEF Elems
<1>5. TypeOK'
  <2>1. <<>> \in Seq(DOMAIN chain) /\ inbox \in Seq(DOMAIN chain)
    BY DEF Inv, TypeOK
  <2>2. inbox' \in Seq(DOMAIN chain)
    BY <1>1, <2>1
  <2> QED BY <1>1, <1>3, <2>2 DEF Inv, TypeOK
<1>6. OwnAddress' /\ AnnouncedIsKnown'
  BY <1>1, <1>2 DEF Inv, OwnAddress, AnnouncedIsKnown
<1>7. BeforeLoad'
  BY DEF Inv, BeforeLoad, Connected, Start, StreamOpens, StreamBreaks, Receive
<1>8. InOnMsg'
  BY DEF Inv, InOnMsg, Start, StreamOpens, StreamBreaks, Receive
<1>9. MissingOnlyInGap'
  BY <1>1, <1>2, <1>4 DEF Inv, MissingOnlyInGap
<1> QED BY <1>2, <1>5, <1>6, <1>7, <1>8, <1>9 DEF Inv

\* The invariant holds in every reachable state.
THEOREM Inductive == Spec => []Inv
<1>1. Inv /\ [Next]_vars => Inv'
  <2> SUFFICES ASSUME Inv, [Next]_vars PROVE Inv'
    OBVIOUS
  <2>1. ASSUME NEW a \in Assets, RegisterAsset(a) PROVE Inv'
    <3> DEFINE e == [kind |-> "EVENT_KIND_ASSET_REGISTERED", registered |-> a]
    <3>1. e \in Events /\ e.registered = a /\ a # None
          /\ e.kind = "EVENT_KIND_ASSET_REGISTERED"
      BY RegistryAssumption DEF Events, ProtoKinds
    <3>2. Emit(e) /\ a \notin Registered
      BY <2>1 DEF RegisterAsset
    <3> HIDE DEF e
    <3> QED BY <3>1, <3>2, EmitKeeps
  <2>2. ASSUME NEW k \in ProtoKinds, OtherEvent(k) PROVE Inv'
    <3> DEFINE e == [kind |-> k, registered |-> None]
    <3>1. e \in Events /\ e.registered = None
          /\ e.kind # "EVENT_KIND_ASSET_REGISTERED"
      BY <2>2 DEF Events, OtherEvent
    <3>2. Emit(e)
      BY <2>2 DEF OtherEvent
    <3> HIDE DEF e
    <3> QED BY <3>1, <3>2, EmitKeeps
  <2>3. CASE UNCHANGED vars
    BY <2>3 DEF vars, Inv, TypeOK, KindsMatch, RegisteredOnce, OwnAddress,
       BeforeLoad, InOnMsg, AnnouncedIsKnown, MissingOnlyInGap, Registrations,
       Relevant, Connected, Elems
  <2> QED BY <2>1, <2>2, <2>3, LoadKeeps, SetFromStreamKeeps, OnMsgEndsKeeps,
             StreamKeeps DEF Next
<1> QED BY InitInv, <1>1, PTL DEF Spec

-----------------------------------------------------------------------------
\* Every variable keeps its type: the registry only holds positions of events
\* the chain has.
THEOREM TypeCorrect == Spec => []TypeOK
<1>1. Inv => TypeOK
  BY DEF Inv
<1> QED BY Inductive, <1>1, PTL

\* A registration is in the registry before any client hears of it.
THEOREM SetBeforeBroadcast == Spec => []AnnouncedIsKnown
<1>1. Inv => AnnouncedIsKnown
  BY DEF Inv
<1> QED BY Inductive, <1>1, PTL

\* Only a gap hides a registration, and no asset ever gets another's address.
THEOREM OnlyGapsHide == Spec => []MissingOnlyInGap
<1>1. Inv => MissingOnlyInGap
  BY DEF Inv
<1> QED BY Inductive, <1>1, PTL
=============================================================================
