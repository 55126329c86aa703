----------------------------- MODULE WsHubDrops -----------------------------
(***************************************************************************)
(* Proof that the hub counts a slow client at most once per feed.          *)
(***************************************************************************)
EXTENDS WsHubProofs, FiniteSetTheorems

(***************************************************************************)
(* The state does not say which drops were counted: a feed forgets a       *)
(* client when close() returns to it.  But the drops can be booked to      *)
(* distinct pairs of a feed and a client, each spent for good: the feed is *)
(* still inside that client's close(), or the client has left h.clients    *)
(* and the feed's snapshot, and nobody registers it again.                 *)
(***************************************************************************)
Spent(f, c) ==
    \/ c \in closing[f]
    \/ c \notin clients /\ c \notin snapshot[f] /\ once[c] # "open"

Booked ==
    \E D \in SUBSET (Feeds \X Clients) :
        /\ Cardinality(D) = drops
        /\ \A d \in D : Spent(d[1], d[2])

-----------------------------------------------------------------------------
\* Nothing ever unspends a pair: a client that has left is not copied into a
\* snapshot again, and close() returns only once its client has left.
LEMMA StaysSpent ==
    ASSUME TypeOK, Structure, [Next]_vars,
           NEW f \in Feeds, NEW c \in Clients, Spent(f, c)
    PROVE  Spent(f, c)'
<1> DEFINE Frozen == UNCHANGED <<clients, snapshot, closing, once>>
<1>1. f \in Procs /\ f # Stopper /\ Stopper \in Procs
  BY HubAssumption DEF Procs
<1>2. /\ snapshot \in [Procs -> SUBSET Clients]
      /\ closing \in [Procs -> SUBSET Clients]
      /\ once \in [Clients -> {"open", "closed", "connclosed", "done"}]
  BY DEF TypeOK
<1>3. CASE Frozen
  BY <1>3 DEF Spent
<1>4. CASE Start \/ Stop \/ StopWaits \/ StopReturns
  <2>1. Frozen
    BY <1>4 DEF Start, Stop, StopWaits, StopReturns, clientVars
  <2> QED BY <1>3, <2>1
<1>5. ASSUME NEW g \in Feeds,
             Subscribe(g) \/ StreamEnds(g) \/ Wake(g) \/ Receive(g) \/ EndBroadcast(g)
      PROVE  Spent(f, c)'
  <2>1. Frozen
    BY <1>5 DEF Subscribe, StreamEnds, Wake, Receive, EndBroadcast, clientVars
  <2> QED BY <1>3, <2>1
<1>6. ASSUME NEW p \in Procs, Snapshot(p)
      PROVE  Spent(f, c)'
  <2>1. /\ snapshot' = [snapshot EXCEPT ![p] = clients]
        /\ UNCHANGED <<clients, closing, once>>
    BY <1>6 DEF Snapshot, clientVars
  <2> QED BY <1>1, <1>2, <2>1 DEF Spent
<1>7. ASSUME NEW p \in Procs, RUnlock(p)
      PROVE  Spent(f, c)'
  <2>1. Frozen
    BY <1>7 DEF RUnlock, clientVars
  <2> QED BY <1>3, <2>1
<1>8. ASSUME NEW g \in Feeds, NEW d \in Clients, Offer(g, d)
      PROVE  Spent(f, c)'
  <2>1. /\ snapshot' = [snapshot EXCEPT ![g] = snapshot[g] \ {d}]
        /\ UNCHANGED <<clients, closing, once>>
    BY <1>8 DEF Offer, clientVars
  <2> QED BY <1>1, <1>2, <2>1 DEF Spent, Procs
<1>9. ASSUME NEW g \in Feeds, NEW d \in Clients, Drop(g, d)
      PROVE  Spent(f, c)'
  <2>1. /\ closing[g] = {} /\ closing' = [closing EXCEPT ![g] = {d}]
        /\ UNCHANGED <<clients, snapshot, once>>
    BY <1>9 DEF Drop, Handles, clientVars
  <2> QED BY <1>1, <1>2, <2>1 DEF Spent, Procs
<1>10. ASSUME NEW p \in Procs, NEW d \in Clients, CloseReturns(p, d)
       PROVE  Spent(f, c)'
  <2>1. /\ closing[p] = {d} /\ once[d] = "done"
        /\ closing' = [closing EXCEPT ![p] = {}]
        /\ snapshot' = [snapshot EXCEPT ![p] = snapshot[p] \ {d}]
        /\ UNCHANGED <<clients, once>>
    BY <1>10 DEF CloseReturns, clientVars
  <2>2. d \notin clients
    BY <2>1 DEF Structure, NoZombie
  <2> QED BY <1>1, <1>2, <2>1, <2>2 DEF Spent
<1>11. ASSUME NEW d \in Clients, StopCloses(d)
       PROVE  Spent(f, c)'
  <2>1. /\ closing' = [closing EXCEPT ![Stopper] = {d}]
        /\ UNCHANGED <<clients, snapshot, once>>
    BY <1>11 DEF StopCloses, clientVars
  <2> QED BY <1>1, <1>2, <2>1 DEF Spent
<1>12. ASSUME NEW d \in Clients, Register(d)
       PROVE  Spent(f, c)'
  <2>1. /\ serve[d] = "upgraded" /\ clients' = clients \cup {d}
        /\ UNCHANGED <<snapshot, closing, once>>
    BY <1>12 DEF Register, hubVars
  <2>2. once[d] = "open"
    BY <2>1 DEF Structure, UnknownBeforeRegister, Unknown
  <2> QED BY <2>1, <2>2 DEF Spent
<1>13. ASSUME NEW d \in Clients,
              \/ Upgrade(d) \/ StartPumps(d) \/ ReadFails(d) \/ ServeReturns(d)
              \/ Take(d) \/ WriteOk(d) \/ WriteFails(d) \/ PingFails(d)
              \/ SeesClosed(d) \/ WriterReturns(d)
       PROVE  Spent(f, c)'
  <2>1. Frozen
    BY <1>13 DEF Upgrade, StartPumps, ReadFails, ServeReturns, Take, WriteOk,
                 WriteFails, PingFails, SeesClosed, WriterReturns, hubVars
  <2> QED BY <1>3, <2>1
<1>14. ASSUME NEW d \in Clients, CloseSignals(d) \/ CloseConn(d) \/ Unregister(d)
       PROVE  Spent(f, c)'
  <2>1. /\ once' \in {[once EXCEPT ![d] = "closed"], [once EXCEPT ![d] = "connclosed"],
                      [once EXCEPT ![d] = "done"]}
        /\ clients' \subseteq clients /\ UNCHANGED <<snapshot, closing>>
    BY <1>14 DEF CloseSignals, CloseConn, Unregister, hubVars
  <2>2. once[c] # "open" => once'[c] # "open"
    BY <1>2, <2>1
  <2> QED BY <2>1, <2>2 DEF Spent
<1>15. CASE UNCHANGED vars
  BY <1>3, <1>15 DEF vars
<1> QED BY NextCases, <1>4, <1>5, <1>6, <1>7, <1>8, <1>9, <1>10, <1>11, <1>12,
           <1>13, <1>14, <1>15

\* Only Drop counts, and it counts a pair that was not spent.
LEMMA DropSpends ==
    ASSUME TypeOK, Structure, [Next]_vars
    PROVE  \/ UNCHANGED drops
           \/ \E f \in Feeds, c \in Clients :
                 ~Spent(f, c) /\ Spent(f, c)' /\ drops' = drops + 1
<1>1. ASSUME NEW f \in Feeds, NEW c \in Clients, Drop(f, c)
      PROVE  ~Spent(f, c) /\ Spent(f, c)' /\ drops' = drops + 1
  <2>1. /\ closing[f] = {} /\ c \in snapshot[f] /\ drops' = drops + 1
        /\ closing' = [closing EXCEPT ![f] = {c}]
    BY <1>1 DEF Drop, Handles
  <2> QED BY <2>1 DEF Spent, TypeOK, Procs
<1>2. ASSUME ~\E f \in Feeds, c \in Clients : Drop(f, c)
      PROVE  UNCHANGED drops
  <2>1. CASE UNCHANGED vars
    BY <2>1 DEF vars
  <2>2. CASE \/ Start \/ Stop \/ StopWaits \/ StopReturns
             \/ \E f \in Feeds : \/ Subscribe(f) \/ StreamEnds(f) \/ Wake(f)
                                 \/ Receive(f) \/ EndBroadcast(f)
    BY <2>2 DEF Start, Stop, StopWaits, StopReturns, Subscribe, StreamEnds, Wake,
                Receive, EndBroadcast
  <2>3. CASE \/ \E p \in Procs : Snapshot(p) \/ RUnlock(p)
             \/ \E f \in Feeds, c \in Clients : Offer(f, c)
             \/ \E p \in Procs, c \in Clients : CloseReturns(p, c)
             \/ \E c \in Clients : StopCloses(c)
    BY <2>3 DEF Snapshot, RUnlock, Offer, CloseReturns, StopCloses
  <2>4. CASE \E c \in Clients :
                \/ Upgrade(c) \/ Register(c)
                \/ StartPumps(c) \/ ReadFails(c) \/ ServeReturns(c)
                \/ Take(c) \/ WriteOk(c) \/ WriteFails(c) \/ PingFails(c)
                \/ SeesClosed(c) \/ WriterReturns(c)
                \/ CloseSignals(c) \/ CloseConn(c) \/ Unregister(c)
    BY <2>4 DEF Upgrade, Register, StartPumps, ReadFails, ServeReturns, Take,
                WriteOk, WriteFails, PingFails, SeesClosed, WriterReturns,
                CloseSignals, CloseConn, Unregister, hubVars
  <2> QED BY NextCases, <1>2, <2>1, <2>2, <2>3, <2>4
<1> QED BY <1>1, <1>2

\* Every step keeps the books.
LEMMA BookedNext ==
    ASSUME TypeOK, Structure, Booked, [Next]_vars
    PROVE  Booked'
<1>1. PICK D \in SUBSET (Feeds \X Clients) :
         Cardinality(D) = drops /\ \A d \in D : Spent(d[1], d[2])
  BY DEF Booked
<1>2. \A d \in D : Spent(d[1], d[2])'
  <2> SUFFICES ASSUME NEW d \in D
               PROVE  Spent(d[1], d[2])'
    OBVIOUS
  <2>1. d[1] \in Feeds /\ d[2] \in Clients /\ Spent(d[1], d[2])
    BY <1>1
  <2> QED BY <2>1, StaysSpent
<1>3. CASE UNCHANGED drops
  BY <1>1, <1>2, <1>3 DEF Booked
<1>4. ASSUME NEW f \in Feeds, NEW c \in Clients,
             ~Spent(f, c), Spent(f, c)', drops' = drops + 1
      PROVE  Booked'
  <2> DEFINE E == D \cup {<<f, c>>}
  <2>1. <<f, c>> \notin D
    BY <1>1, <1>4
  <2>2. IsFiniteSet(D)
    BY FinitelyMany, FS_Product, FS_Subset
  <2>3. Cardinality(E) = drops'
    BY <1>1, <1>4, <2>1, <2>2, FS_AddElement
  <2>4. \A d \in E : Spent(d[1], d[2])'
    BY <1>2, <1>4
  <2>5. E \in SUBSET (Feeds \X Clients)
    OBVIOUS
  <2> HIDE DEF E
  <2> QED BY <2>3, <2>4, <2>5 DEF Booked
<1> QED BY <1>3, <1>4, DropSpends

\* A booked pair names a client that is closed or about to be, so there are no
\* more of them than feeds times such clients.
LEMMA BookedBounds ==
    ASSUME TypeOK, Booked
    PROVE  DropsBounded
<1> DEFINE S == {c \in Clients : InClose(c) \/ once[c] # "open"}
<1>1. PICK D \in SUBSET (Feeds \X Clients) :
         Cardinality(D) = drops /\ \A d \in D : Spent(d[1], d[2])
  BY DEF Booked
<1>2. D \subseteq Feeds \X S
  <2> SUFFICES ASSUME NEW d \in D
               PROVE  d \in Feeds \X S
    OBVIOUS
  <2>1. d \in Feeds \X Clients /\ Spent(d[1], d[2])
    BY <1>1
  <2>2. d[2] \in S
    BY <2>1 DEF Spent, InClose, Procs
  <2> QED BY <2>1, <2>2
<1>3. IsFiniteSet(S)
  BY FinitelyMany, FS_Subset
<1> HIDE DEF S
<1>4. /\ IsFiniteSet(Feeds \X S)
      /\ Cardinality(Feeds \X S) = Cardinality(Feeds) * Cardinality(S)
  BY <1>3, FinitelyMany, FS_Product
<1>5. Cardinality(D) <= Cardinality(Feeds \X S)
  BY <1>2, <1>4, FS_Subset
<1> QED BY <1>1, <1>4, <1>5 DEF DropsBounded, S

\* drops counts a slow client at most once per feed, and only clients that are
\* closed or about to be, for any number of feeds and clients.
THEOREM SlowClientsCountedOnce == Spec => []DropsBounded
<1>1. Init => Inv /\ Booked
  <2> SUFFICES ASSUME Init
               PROVE  Booked
    BY InitInv
  <2>1. /\ {} \in SUBSET (Feeds \X Clients) /\ Cardinality({}) = drops
        /\ \A d \in {} : Spent(d[1], d[2])
    BY FS_EmptySet DEF Init
  <2> QED BY <2>1 DEF Booked
<1>2. Inv /\ Booked /\ [Next]_vars => Inv' /\ Booked'
  BY InvNext, BookedNext DEF Inv
<1>3. Inv /\ Booked => DropsBounded
  BY BookedBounds DEF Inv
<1> QED BY <1>1, <1>2, <1>3, PTL DEF Spec
=============================================================================
