---------------------------- MODULE WsHubProofs ----------------------------
(***************************************************************************)
(* Proofs about WsHub, for any number of feeds and clients, any channel    *)
(* capacity and any number of frames.                                      *)
(***************************************************************************)
EXTENDS WsHub, TLAPS

(***************************************************************************)
(* The inductive invariant.  NobodySkipped is not inductive: a client may  *)
(* have left h.clients and still be in a feed's snapshot, and that feed    *)
(* may still append to its channel.  What makes the argument work is that  *)
(* a feed forgets a client it dropped only once close() has returned, that *)
(* is, once the client is out of h.clients.                                *)
(***************************************************************************)

\* The loops do not run before Start.
NotStarted == pc[Stopper] = "off" => \A f \in Feeds : pc[f] = "off"

\* There is a snapshot only between its copy and the end of the loop over
\* it, and a feed inside broadcast has a frame to send.
InBroadcast ==
    /\ \A p \in Procs : pc[p] \notin {"unlock", "fanout"} => snapshot[p] = {}
    /\ \A f \in Feeds : pc[f] \in {"rlock", "unlock", "fanout"} => seq[f] > 0

\* A goroutine closes only clients of its own snapshot.
ClosesOwn == \A p \in Procs : closing[p] \subseteq snapshot[p]

\* Before register, nobody else knows the client.
Unknown(c) ==
    /\ once[c] = "open"
    /\ writer[c] = "off"
    /\ c \notin clients
    /\ \A p \in Procs : c \notin snapshot[p]
    /\ log[c] = <<>>

UnknownBeforeRegister ==
    \A c \in Clients : serve[c] \in {"idle", "upgraded"} => Unknown(c)

\* Both for members of h.clients and for those a feed still holds.
GivenAll ==
    \A f \in Feeds : \A c \in clients \cup snapshot[f] :
        /\ joined[c][f] <= Offered(c, f)
        /\ Accepted(c, f) = (joined[c][f] + 1)..Offered(c, f)

Structure ==
    /\ NotStarted
    /\ InBroadcast
    /\ ClosesOwn
    /\ UnknownBeforeRegister
    /\ NoZombie

Inv == TypeOK /\ Structure /\ GivenAll /\ InOrderNoGap

-----------------------------------------------------------------------------
\* What appending one frame does to a channel's history: its number joins
\* the numbers of its own feed, the other feeds' are as before.
LEMMA NumbersAppend ==
    ASSUME NEW s \in Seq(Frame), NEW x \in Frame, NEW f
    PROVE  Numbers(Append(s, x), f)
              = Numbers(s, f) \cup (IF x.feed = f THEN {x.n} ELSE {})
<1> DEFINE t == Append(s, x)
<1>1. /\ DOMAIN t = DOMAIN s \cup {Len(s) + 1}
      /\ \A i \in DOMAIN s : t[i] = s[i]
      /\ t[Len(s) + 1] = x
  OBVIOUS
<1> HIDE DEF t
<1>2. Numbers(t, f) = Numbers(s, f) \cup (IF x.feed = f THEN {x.n} ELSE {})
  BY <1>1 DEF Numbers
<1> QED BY <1>2 DEF t

\* Appending a frame numbered above all of its feed keeps the order.
LEMMA IncreasingAppend ==
    ASSUME NEW s \in Seq(Frame), NEW x \in Frame, NEW f,
           Increasing(s, f),
           x.feed = f => \A m \in Numbers(s, f) : m < x.n
    PROVE  Increasing(Append(s, x), f)
<1> DEFINE t == Append(s, x)
<1>1. /\ DOMAIN t = DOMAIN s \cup {Len(s) + 1}
      /\ \A i \in DOMAIN s : t[i] = s[i] /\ i \in Nat /\ i < Len(s) + 1
      /\ t[Len(s) + 1] = x
  OBVIOUS
<1> HIDE DEF t
<1> SUFFICES ASSUME NEW i \in DOMAIN t, NEW j \in DOMAIN t, i < j,
                    t[i].feed = f, t[j].feed = f
             PROVE  t[i].n < t[j].n
  BY DEF Increasing, t
<1>2. i \in DOMAIN s
  BY <1>1
<1>3. CASE j \in DOMAIN s
  BY <1>1, <1>2, <1>3 DEF Increasing
<1>4. CASE j = Len(s) + 1
  <2>1. t[i].n \in Numbers(s, f)
    BY <1>1, <1>2 DEF Numbers
  <2> QED BY <2>1, <1>1, <1>4
<1> QED BY <1>1, <1>3, <1>4

-----------------------------------------------------------------------------
\* The actions of Next, one by one.
LEMMA NextCases ==
    ASSUME Next
    PROVE  \/ Start \/ Stop \/ StopWaits \/ StopReturns
           \/ \E f \in Feeds : \/ Subscribe(f) \/ StreamEnds(f) \/ Wake(f)
                              \/ Receive(f) \/ EndBroadcast(f)
           \/ \E p \in Procs : Snapshot(p) \/ RUnlock(p)
           \/ \E f \in Feeds, c \in Clients : Offer(f, c) \/ Drop(f, c)
           \/ \E p \in Procs, c \in Clients : CloseReturns(p, c)
           \/ \E c \in Clients :
                 \/ StopCloses(c) \/ Upgrade(c) \/ Register(c)
                 \/ StartPumps(c) \/ ReadFails(c) \/ ServeReturns(c)
                 \/ Take(c) \/ WriteOk(c) \/ WriteFails(c) \/ PingFails(c)
                 \/ SeesClosed(c) \/ WriterReturns(c)
                 \/ CloseSignals(c) \/ CloseConn(c) \/ Unregister(c)
<1>1. \A f \in Feeds : f \in Procs
  BY DEF Procs
<1>2. Stopper \in Procs
  BY DEF Procs
<1> QED BY <1>1, <1>2 DEF Next, FeedNext, StopNext, ServeNext, WriterNext, CloseNext

\* Every step keeps the types and the capacity of the channels.
LEMMA TypeNext == TypeOK /\ InBroadcast /\ [Next]_vars => TypeOK'
<1> SUFFICES ASSUME TypeOK, InBroadcast, [Next]_vars PROVE TypeOK'
  OBVIOUS
<1> USE HubAssumption DEF TypeOK, Procs, FeedPc, StopPc, Buffered, Frame,
        hubVars, clientVars
<1>1. CASE Start
  BY <1>1 DEF Start
<1>2. CASE Stop
  BY <1>2 DEF Stop
<1>3. CASE StopWaits
  BY <1>3 DEF StopWaits
<1>4. CASE StopReturns
  BY <1>4 DEF StopReturns
<1>5. ASSUME NEW f \in Feeds, Subscribe(f) PROVE TypeOK'
  BY <1>5 DEF Subscribe
<1>6. ASSUME NEW f \in Feeds, StreamEnds(f) PROVE TypeOK'
  BY <1>6 DEF StreamEnds
<1>7. ASSUME NEW f \in Feeds, Wake(f) PROVE TypeOK'
  BY <1>7 DEF Wake
<1>8. ASSUME NEW f \in Feeds, Receive(f) PROVE TypeOK'
  BY <1>8 DEF Receive
<1>9. ASSUME NEW f \in Feeds, EndBroadcast(f) PROVE TypeOK'
  BY <1>9 DEF EndBroadcast
<1>10. ASSUME NEW p \in Procs, Snapshot(p) PROVE TypeOK'
  BY <1>10 DEF Snapshot
<1>11. ASSUME NEW p \in Procs, RUnlock(p) PROVE TypeOK'
  BY <1>11 DEF RUnlock
<1>12. ASSUME NEW f \in Feeds, NEW c \in Clients, Offer(f, c) PROVE TypeOK'
  <2> DEFINE x == [feed |-> f, n |-> seq[f]]
  <2>0. x \in Frame /\ log[c] \in Seq(Frame)
    OBVIOUS
  <2>a. log' = [log EXCEPT ![c] = Append(log[c], x)]
    BY <1>12 DEF Offer
  <2> HIDE DEF x, Frame
  <2>1. log' \in [Clients -> Seq(Frame)]
    BY <2>0, <2>a
  <2>2. \A d \in Clients : Buffered(d)' \in 0..ClientBufferSize
    <3> SUFFICES ASSUME NEW d \in Clients
                 PROVE  Buffered(d)' \in 0..ClientBufferSize
      OBVIOUS
    <3>1. CASE d = c
      <4>1. Len(log'[c]) = Len(log[c]) + 1
        BY <2>0, <2>a
      <4> QED BY <1>12, <3>1, <4>1 DEF Offer
    <3>2. CASE d # c
      BY <1>12, <3>2 DEF Offer, Handles
    <3> QED BY <3>1, <3>2
  <2>3. snapshot' \in [Procs -> SUBSET Clients]
    BY <1>12 DEF Offer, Handles
  <2> QED BY <1>12, <2>1, <2>2, <2>3 DEF Offer
<1>13. ASSUME NEW f \in Feeds, NEW c \in Clients, Drop(f, c) PROVE TypeOK'
  <2>1. drops' \in Nat
    BY <1>13 DEF Drop
  <2>2. closing' \in [Procs -> SUBSET Clients]
    BY <1>13 DEF Drop
  <2> QED BY <1>13, <2>1, <2>2 DEF Drop
<1>14. ASSUME NEW p \in Procs, NEW c \in Clients, CloseReturns(p, c) PROVE TypeOK'
  BY <1>14 DEF CloseReturns
<1>15. ASSUME NEW c \in Clients, StopCloses(c) PROVE TypeOK'
  BY <1>15 DEF StopCloses, Handles
<1>16. ASSUME NEW c \in Clients, Upgrade(c) PROVE TypeOK'
  BY <1>16 DEF Upgrade
<1>17. ASSUME NEW c \in Clients, Register(c) PROVE TypeOK'
  <2>1. [f \in Feeds |-> Offered(c, f)] \in [Feeds -> Nat]
    BY DEF Offered, InBroadcast
  <2>2. joined' \in [Clients -> [Feeds -> Nat]]
    BY <1>17, <2>1 DEF Register
  <2>3. serve' \in [Clients -> {"idle", "upgraded", "registered", "read",
                               "close", "done"}]
    BY <1>17 DEF Register
  <2> QED BY <1>17, <2>2, <2>3 DEF Register
<1>18. ASSUME NEW c \in Clients, StartPumps(c) PROVE TypeOK'
  BY <1>18 DEF StartPumps
<1>19. ASSUME NEW c \in Clients, ReadFails(c) PROVE TypeOK'
  BY <1>19 DEF ReadFails
<1>20. ASSUME NEW c \in Clients, ServeReturns(c) PROVE TypeOK'
  BY <1>20 DEF ServeReturns
<1>21. ASSUME NEW c \in Clients, Take(c) PROVE TypeOK'
  <2>1. taken' \in [Clients -> Nat]
    <3>1. taken \in [Clients -> Nat] /\ taken' = [taken EXCEPT ![c] = @ + 1]
      BY <1>21 DEF Take
    <3> HIDE DEF TypeOK
    <3> QED BY <3>1
  <2>2. \A d \in Clients : Buffered(d)' \in 0..ClientBufferSize
    <3> SUFFICES ASSUME NEW d \in Clients
                 PROVE  Buffered(d)' \in 0..ClientBufferSize
      OBVIOUS
    <3>1. CASE d = c
      <4>1. Len(log[c]) \in Nat /\ taken'[c] = taken[c] + 1 /\ log' = log
        BY <1>21 DEF Take
      <4>2. taken[c] \in Nat /\ Buffered(c) \in 0..ClientBufferSize
        OBVIOUS
      <4>3. Buffered(c) > 0
        BY <1>21 DEF Take
      <4> HIDE DEF TypeOK
      <4> QED BY <3>1, <4>1, <4>2, <4>3
    <3>2. CASE d # c
      BY <1>21, <3>2 DEF Take
    <3> QED BY <3>1, <3>2
  <2>3. writer' \in [Clients -> {"off", "select", "write", "close", "done"}]
    BY <1>21 DEF Take
  <2> QED BY <1>21, <2>1, <2>2, <2>3 DEF Take
<1>22. ASSUME NEW c \in Clients, WriteOk(c) PROVE TypeOK'
  <2>1. written' \in [Clients -> Nat]
    <3>1. written \in [Clients -> Nat] /\ written' = [written EXCEPT ![c] = @ + 1]
      BY <1>22 DEF WriteOk
    <3> HIDE DEF TypeOK
    <3> QED BY <3>1
  <2>2. writer' \in [Clients -> {"off", "select", "write", "close", "done"}]
    BY <1>22 DEF WriteOk
  <2> QED BY <1>22, <2>1, <2>2 DEF WriteOk
<1>23. ASSUME NEW c \in Clients, WriteFails(c) PROVE TypeOK'
  BY <1>23 DEF WriteFails
<1>24. ASSUME NEW c \in Clients, PingFails(c) PROVE TypeOK'
  BY <1>24 DEF PingFails
<1>25. ASSUME NEW c \in Clients, SeesClosed(c) PROVE TypeOK'
  BY <1>25 DEF SeesClosed
<1>26. ASSUME NEW c \in Clients, WriterReturns(c) PROVE TypeOK'
  BY <1>26 DEF WriterReturns
<1>27. ASSUME NEW c \in Clients, CloseSignals(c) PROVE TypeOK'
  BY <1>27 DEF CloseSignals
<1>28. ASSUME NEW c \in Clients, CloseConn(c) PROVE TypeOK'
  BY <1>28 DEF CloseConn
<1>29. ASSUME NEW c \in Clients, Unregister(c) PROVE TypeOK'
  BY <1>29 DEF Unregister
<1>30. CASE UNCHANGED vars
  BY <1>30 DEF vars
<1> QED BY NextCases, <1>1, <1>2, <1>3, <1>4, <1>5, <1>6, <1>7, <1>8, <1>9,
           <1>10, <1>11, <1>12, <1>13, <1>14, <1>15, <1>16, <1>17, <1>18,
           <1>19, <1>20, <1>21, <1>22, <1>23, <1>24, <1>25, <1>26, <1>27,
           <1>28, <1>29, <1>30

\* Every step keeps the structural part of the invariant.
LEMMA StructureNext == TypeOK /\ Structure /\ [Next]_vars => Structure'
<1> SUFFICES ASSUME TypeOK, Structure, [Next]_vars PROVE Structure'
  OBVIOUS
<1> USE HubAssumption DEF TypeOK, Structure, NotStarted, InBroadcast,
        ClosesOwn, UnknownBeforeRegister, Unknown, NoZombie, Procs, FeedPc,
        StopPc, hubVars, clientVars
<1>1. CASE Start
  BY <1>1 DEF Start
<1>2. CASE Stop
  BY <1>2 DEF Stop
<1>3. CASE StopWaits
  BY <1>3 DEF StopWaits
<1>4. CASE StopReturns
  BY <1>4 DEF StopReturns
<1>5. ASSUME NEW f \in Feeds, Subscribe(f) PROVE Structure'
  BY <1>5 DEF Subscribe
<1>6. ASSUME NEW f \in Feeds, StreamEnds(f) PROVE Structure'
  BY <1>6 DEF StreamEnds
<1>7. ASSUME NEW f \in Feeds, Wake(f) PROVE Structure'
  BY <1>7 DEF Wake
<1>8. ASSUME NEW f \in Feeds, Receive(f) PROVE Structure'
  BY <1>8 DEF Receive
<1>9. ASSUME NEW f \in Feeds, EndBroadcast(f) PROVE Structure'
  BY <1>9 DEF EndBroadcast
<1>10. ASSUME NEW p \in Procs, Snapshot(p) PROVE Structure'
  BY <1>10 DEF Snapshot
<1>11. ASSUME NEW p \in Procs, RUnlock(p) PROVE Structure'
  BY <1>11 DEF RUnlock
<1>12. ASSUME NEW f \in Feeds, NEW c \in Clients, Offer(f, c) PROVE Structure'
  BY <1>12 DEF Offer, Handles
<1>13. ASSUME NEW f \in Feeds, NEW c \in Clients, Drop(f, c) PROVE Structure'
  BY <1>13 DEF Drop, Handles
<1>14. ASSUME NEW p \in Procs, NEW c \in Clients, CloseReturns(p, c) PROVE Structure'
  BY <1>14 DEF CloseReturns
<1>15. ASSUME NEW c \in Clients, StopCloses(c) PROVE Structure'
  BY <1>15 DEF StopCloses, Handles
<1>16. ASSUME NEW c \in Clients, Upgrade(c) PROVE Structure'
  BY <1>16 DEF Upgrade
<1>17. ASSUME NEW c \in Clients, Register(c) PROVE Structure'
  BY <1>17 DEF Register
<1>18. ASSUME NEW c \in Clients, StartPumps(c) PROVE Structure'
  BY <1>18 DEF StartPumps
<1>19. ASSUME NEW c \in Clients, ReadFails(c) PROVE Structure'
  BY <1>19 DEF ReadFails
<1>20. ASSUME NEW c \in Clients, ServeReturns(c) PROVE Structure'
  BY <1>20 DEF ServeReturns
<1>21. ASSUME NEW c \in Clients, Take(c) PROVE Structure'
  BY <1>21 DEF Take
<1>22. ASSUME NEW c \in Clients, WriteOk(c) PROVE Structure'
  BY <1>22 DEF WriteOk
<1>23. ASSUME NEW c \in Clients, WriteFails(c) PROVE Structure'
  BY <1>23 DEF WriteFails
<1>24. ASSUME NEW c \in Clients, PingFails(c) PROVE Structure'
  BY <1>24 DEF PingFails
<1>25. ASSUME NEW c \in Clients, SeesClosed(c) PROVE Structure'
  BY <1>25 DEF SeesClosed
<1>26. ASSUME NEW c \in Clients, WriterReturns(c) PROVE Structure'
  BY <1>26 DEF WriterReturns
<1>27. ASSUME NEW c \in Clients, CloseSignals(c) PROVE Structure'
  BY <1>27 DEF CloseSignals, InClose
<1>28. ASSUME NEW c \in Clients, CloseConn(c) PROVE Structure'
  BY <1>28 DEF CloseConn
<1>29. ASSUME NEW c \in Clients, Unregister(c) PROVE Structure'
  BY <1>29 DEF Unregister
<1>30. CASE UNCHANGED vars
  BY <1>30 DEF vars
<1> QED BY NextCases, <1>1, <1>2, <1>3, <1>4, <1>5, <1>6, <1>7, <1>8, <1>9,
           <1>10, <1>11, <1>12, <1>13, <1>14, <1>15, <1>16, <1>17, <1>18,
           <1>19, <1>20, <1>21, <1>22, <1>23, <1>24, <1>25, <1>26, <1>27,
           <1>28, <1>29, <1>30

-----------------------------------------------------------------------------
(***************************************************************************)
(* Delivery.  All actions but Offer and Register are quiet: no channel     *)
(* receives, nobody new is owed frames, and what is owed is as before.     *)
(***************************************************************************)
Quiet ==
    /\ log' = log
    /\ joined' = joined
    /\ seq' \in [Feeds -> Nat]
    /\ \A f \in Feeds : seq[f] <= seq'[f]
    /\ \A f \in Feeds : \A c \in clients' \cup snapshot'[f] :
          /\ c \in clients \cup snapshot[f]
          /\ Offered(c, f)' = Offered(c, f)

\* An interval and the number after it.
LEMMA IntervalGrows ==
    ASSUME NEW j \in Nat, NEW s \in Nat, j <= s - 1
    PROVE  ((j + 1)..(s - 1)) \cup {s} = (j + 1)..s
OBVIOUS

\* A quiet step keeps what has been delivered as it was.
LEMMA QuietKeeps ==
    ASSUME TypeOK, GivenAll, InOrderNoGap, Quiet
    PROVE  GivenAll' /\ InOrderNoGap'
<1>1. GivenAll'
  BY DEF GivenAll, Quiet, Accepted
<1>2. InOrderNoGap'
  <2> SUFFICES ASSUME NEW c \in Clients, NEW f \in Feeds
               PROVE  /\ Increasing(log[c], f)
                      /\ \E k \in 0..seq'[f] :
                            Accepted(c, f) = (joined[c][f] + 1)..k
    BY DEF InOrderNoGap, Quiet, Accepted
  <2>1. PICK k \in 0..seq[f] : Accepted(c, f) = (joined[c][f] + 1)..k
    BY DEF InOrderNoGap
  <2>2. k \in 0..seq'[f]
    BY DEF Quiet, TypeOK
  <2> QED BY <2>1, <2>2 DEF InOrderNoGap
<1> QED BY <1>1, <1>2

\* Every step keeps the order, the absence of gaps, and completeness.
LEMMA DeliveryNext == Inv /\ [Next]_vars => GivenAll' /\ InOrderNoGap'
<1> SUFFICES ASSUME Inv, [Next]_vars PROVE GivenAll' /\ InOrderNoGap'
  OBVIOUS
<1>0. TypeOK /\ Structure /\ GivenAll /\ InOrderNoGap
  BY DEF Inv
<1> USE HubAssumption, <1>0
<1>a. ASSUME Quiet PROVE GivenAll' /\ InOrderNoGap'
  BY <1>a, QuietKeeps
<1>1. ASSUME Start PROVE Quiet
  BY <1>1 DEF Start, Quiet, Offered, TypeOK, Structure, NotStarted,
     InBroadcast, NoZombie, Procs, hubVars, clientVars
<1>2. ASSUME Stop PROVE Quiet
  BY <1>2 DEF Stop, Quiet, Offered, TypeOK, Structure, NotStarted,
     InBroadcast, NoZombie, Procs, hubVars, clientVars
<1>3. ASSUME StopWaits PROVE Quiet
  BY <1>3 DEF StopWaits, Quiet, Offered, TypeOK, Structure, NotStarted,
     InBroadcast, NoZombie, Procs, hubVars, clientVars
<1>4. ASSUME StopReturns PROVE Quiet
  BY <1>4 DEF StopReturns, Quiet, Offered, TypeOK, Structure, NotStarted,
     InBroadcast, NoZombie, Procs, hubVars, clientVars
<1>5. ASSUME NEW f \in Feeds, Subscribe(f) PROVE Quiet
  BY <1>5 DEF Subscribe, Quiet, Offered, TypeOK, Structure, NotStarted,
     InBroadcast, NoZombie, Procs, hubVars, clientVars
<1>6. ASSUME NEW f \in Feeds, StreamEnds(f) PROVE Quiet
  BY <1>6 DEF StreamEnds, Quiet, Offered, TypeOK, Structure, NotStarted,
     InBroadcast, NoZombie, Procs, hubVars, clientVars
<1>7. ASSUME NEW f \in Feeds, Wake(f) PROVE Quiet
  BY <1>7 DEF Wake, Quiet, Offered, TypeOK, Structure, NotStarted,
     InBroadcast, NoZombie, Procs, hubVars, clientVars
<1>8. ASSUME NEW f \in Feeds, Receive(f) PROVE Quiet
  <2>1. /\ seq' = [seq EXCEPT ![f] = seq[f] + 1] /\ seq[f] \in Nat
        /\ pc' = [pc EXCEPT ![f] = "rlock"] /\ pc[f] = "stream"
        /\ UNCHANGED <<snapshot, clients, log, joined>>
        /\ snapshot[f] = {}
    BY <1>8 DEF Receive, clientVars, TypeOK, Structure, InBroadcast, Procs
  <2>2. seq' \in [Feeds -> Nat] /\ \A g \in Feeds : seq[g] <= seq'[g]
    BY <2>1 DEF TypeOK
  <2>3. \A g \in Feeds, c \in Clients : Offered(c, g)' = Offered(c, g)
    <3> TAKE g \in Feeds, c \in Clients
    <3>1. CASE g = f
      <4>1. seq'[f] = seq[f] + 1 /\ pc'[f] = "rlock"
        BY <2>1 DEF TypeOK, Procs
      <4>2. Offered(c, f) = seq[f]
        BY <2>1 DEF Offered
      <4>3. Offered(c, f)' = seq'[f] - 1
        BY <4>1 DEF Offered
      <4> QED BY <2>1, <3>1, <4>1, <4>2, <4>3
    <3>2. CASE g # f
      BY <2>1, <3>2 DEF Offered, TypeOK, Procs
    <3> QED BY <3>1, <3>2
  <2> QED BY <2>1, <2>2, <2>3 DEF Quiet, TypeOK, Procs
<1>9. ASSUME NEW f \in Feeds, EndBroadcast(f) PROVE Quiet
  BY <1>9 DEF EndBroadcast, Quiet, Offered, TypeOK, Structure, NotStarted,
     InBroadcast, NoZombie, Procs, hubVars, clientVars
<1>10. ASSUME NEW p \in Procs, Snapshot(p) PROVE Quiet
  BY <1>10 DEF Snapshot, Quiet, Offered, TypeOK, Structure, NotStarted,
     InBroadcast, NoZombie, Procs, hubVars, clientVars
<1>11. ASSUME NEW p \in Procs, RUnlock(p) PROVE Quiet
  BY <1>11 DEF RUnlock, Quiet, Offered, TypeOK, Structure, NotStarted,
     InBroadcast, NoZombie, Procs, hubVars, clientVars
<1>12. ASSUME NEW f \in Feeds, NEW c \in Clients, Drop(f, c) PROVE Quiet
  BY <1>12 DEF Drop, Handles, Quiet, Offered, TypeOK, Structure, NotStarted,
     InBroadcast, NoZombie, Procs, hubVars, clientVars
<1>13. ASSUME NEW p \in Procs, NEW c \in Clients, CloseReturns(p, c) PROVE Quiet
  BY <1>13 DEF CloseReturns, Quiet, Offered, TypeOK, Structure, NotStarted,
     InBroadcast, NoZombie, Procs, hubVars, clientVars
<1>14. ASSUME NEW c \in Clients, StopCloses(c) PROVE Quiet
  BY <1>14 DEF StopCloses, Handles, Quiet, Offered, TypeOK, Structure, NotStarted,
     InBroadcast, NoZombie, Procs, hubVars, clientVars
<1>15. ASSUME NEW c \in Clients, Upgrade(c) PROVE Quiet
  BY <1>15 DEF Upgrade, Quiet, Offered, TypeOK, Structure, NotStarted,
     InBroadcast, NoZombie, Procs, hubVars, clientVars
<1>16. ASSUME NEW c \in Clients, StartPumps(c) PROVE Quiet
  BY <1>16 DEF StartPumps, Quiet, Offered, TypeOK, Structure, NotStarted,
     InBroadcast, NoZombie, Procs, hubVars, clientVars
<1>17. ASSUME NEW c \in Clients, ReadFails(c) PROVE Quiet
  BY <1>17 DEF ReadFails, Quiet, Offered, TypeOK, Structure, NotStarted,
     InBroadcast, NoZombie, Procs, hubVars, clientVars
<1>18. ASSUME NEW c \in Clients, ServeReturns(c) PROVE Quiet
  BY <1>18 DEF ServeReturns, Quiet, Offered, TypeOK, Structure, NotStarted,
     InBroadcast, NoZombie, Procs, hubVars, clientVars
<1>19. ASSUME NEW c \in Clients, Take(c) PROVE Quiet
  BY <1>19 DEF Take, Quiet, Offered, TypeOK, Structure, NotStarted,
     InBroadcast, NoZombie, Procs, hubVars, clientVars
<1>20. ASSUME NEW c \in Clients, WriteOk(c) PROVE Quiet
  BY <1>20 DEF WriteOk, Quiet, Offered, TypeOK, Structure, NotStarted,
     InBroadcast, NoZombie, Procs, hubVars, clientVars
<1>21. ASSUME NEW c \in Clients, WriteFails(c) PROVE Quiet
  BY <1>21 DEF WriteFails, Quiet, Offered, TypeOK, Structure, NotStarted,
     InBroadcast, NoZombie, Procs, hubVars, clientVars
<1>22. ASSUME NEW c \in Clients, PingFails(c) PROVE Quiet
  BY <1>22 DEF PingFails, Quiet, Offered, TypeOK, Structure, NotStarted,
     InBroadcast, NoZombie, Procs, hubVars, clientVars
<1>23. ASSUME NEW c \in Clients, SeesClosed(c) PROVE Quiet
  BY <1>23 DEF SeesClosed, Quiet, Offered, TypeOK, Structure, NotStarted,
     InBroadcast, NoZombie, Procs, hubVars, clientVars
<1>24. ASSUME NEW c \in Clients, WriterReturns(c) PROVE Quiet
  BY <1>24 DEF WriterReturns, Quiet, Offered, TypeOK, Structure, NotStarted,
     InBroadcast, NoZombie, Procs, hubVars, clientVars
<1>25. ASSUME NEW c \in Clients, CloseSignals(c) PROVE Quiet
  BY <1>25 DEF CloseSignals, Quiet, Offered, TypeOK, Structure, NotStarted,
     InBroadcast, NoZombie, Procs, hubVars, clientVars
<1>26. ASSUME NEW c \in Clients, CloseConn(c) PROVE Quiet
  BY <1>26 DEF CloseConn, Quiet, Offered, TypeOK, Structure, NotStarted,
     InBroadcast, NoZombie, Procs, hubVars, clientVars
<1>27. ASSUME NEW c \in Clients, Unregister(c) PROVE Quiet
  BY <1>27 DEF Unregister, Quiet, Offered, TypeOK, Structure, NotStarted,
     InBroadcast, NoZombie, Procs, hubVars, clientVars
<1>28. ASSUME UNCHANGED vars PROVE Quiet
  BY <1>28 DEF vars, Quiet, Offered, TypeOK, Structure, NotStarted,
     InBroadcast, NoZombie, Procs, hubVars, clientVars
<1>29. ASSUME NEW f \in Feeds, NEW c \in Clients, Offer(f, c)
       PROVE  GivenAll' /\ InOrderNoGap'
  <2> DEFINE x == [feed |-> f, n |-> seq[f]]
  <2>1. /\ x \in Frame /\ log[c] \in Seq(Frame)
        /\ log' = [log EXCEPT ![c] = Append(log[c], x)]
        /\ x.feed = f /\ x.n = seq[f]
    BY <1>29 DEF Offer, TypeOK, Frame
  <2>2. UNCHANGED <<pc, seq, clients, joined>> /\ c \in snapshot[f]
    BY <1>29 DEF Offer, Handles, clientVars
  <2>3. /\ Offered(c, f) = seq[f] - 1
        /\ Offered(c, f)' = seq[f]
        /\ seq[f] \in Nat \ {0}
    BY <1>29 DEF Offer, Handles, Offered, TypeOK, Structure, InBroadcast, Procs
  <2>4. /\ Accepted(c, f) = (joined[c][f] + 1)..(seq[f] - 1)
        /\ joined[c][f] <= seq[f] - 1
    BY <2>2, <2>3 DEF GivenAll
  <2> HIDE DEF x
  <2>5. \A g \in Feeds :
          Accepted(c, g)' = Accepted(c, g) \cup (IF g = f THEN {seq[f]} ELSE {})
    BY <2>1, NumbersAppend DEF Accepted, TypeOK
  <2>6. \A d \in Clients : d # c => log'[d] = log[d]
    BY <2>1 DEF TypeOK
  <2>7. GivenAll'
    <3> SUFFICES ASSUME NEW g \in Feeds, NEW d \in clients \cup snapshot'[g]
                 PROVE  /\ joined[d][g] <= Offered(d, g)'
                        /\ Accepted(d, g)' = (joined[d][g] + 1)..Offered(d, g)'
      BY <2>2 DEF GivenAll
    <3>1. d \in Clients /\ d \in clients \cup snapshot[g]
      BY <1>29 DEF Offer, TypeOK, Procs
    <3>2. CASE d = c /\ g = f
      <4>0. joined[c][f] \in Nat
        BY DEF TypeOK
      <4>1. Accepted(d, g)' = (joined[c][f] + 1)..seq[f]
        BY <2>3, <2>4, <2>5, <3>2, <4>0, IntervalGrows
      <4>2. joined[c][f] <= seq[f]
        BY <2>3, <2>4 DEF TypeOK
      <4> QED BY <2>3, <4>1, <4>2, <3>2
    <3>3. CASE ~(d = c /\ g = f)
      <4>1. Offered(d, g)' = Offered(d, g)
        BY <1>29, <3>3 DEF Offer, Offered, TypeOK, Procs
      <4>2. Accepted(d, g)' = Accepted(d, g)
        BY <2>5, <2>6, <3>1, <3>3 DEF Accepted
      <4> QED BY <4>1, <4>2, <3>1 DEF GivenAll
    <3> QED BY <3>2, <3>3
  <2>8. InOrderNoGap'
    <3> SUFFICES ASSUME NEW d \in Clients, NEW g \in Feeds
                 PROVE  /\ Increasing(log'[d], g)
                        /\ \E k \in 0..seq[g] :
                              Accepted(d, g)' = (joined[d][g] + 1)..k
      BY <2>2 DEF InOrderNoGap
    <3>1. Increasing(log'[d], g)
      <4>1. CASE d = c
        <5>1. x.feed = g => \A m \in Numbers(log[c], g) : m < x.n
          BY <2>1, <2>3, <2>4 DEF Accepted, TypeOK
        <5>2. Increasing(Append(log[c], x), g)
          BY <2>1, <5>1, IncreasingAppend DEF InOrderNoGap
        <5> QED BY <2>1, <4>1, <5>2 DEF TypeOK
      <4>2. CASE d # c
        BY <2>6, <4>2 DEF InOrderNoGap
      <4> QED BY <4>1, <4>2
    <3>2. \E k \in 0..seq[g] : Accepted(d, g)' = (joined[d][g] + 1)..k
      <4>1. CASE d = c /\ g = f
        <5>1. joined[c][f] \in Nat
          BY DEF TypeOK
        <5>2. Accepted(c, f)' = (joined[c][f] + 1)..seq[f]
          BY <2>3, <2>4, <2>5, <5>1, IntervalGrows
        <5>3. seq[f] \in 0..seq[f]
          BY <2>3
        <5> QED BY <4>1, <5>2, <5>3
      <4>2. CASE ~(d = c /\ g = f)
        <5>1. Accepted(d, g)' = Accepted(d, g)
          BY <2>5, <2>6, <4>2 DEF Accepted
        <5> QED BY <5>1 DEF InOrderNoGap
      <4> QED BY <4>1, <4>2
    <3> QED BY <3>1, <3>2
  <2> QED BY <2>7, <2>8
<1>30. ASSUME NEW c \in Clients, Register(c)
       PROVE  GivenAll' /\ InOrderNoGap'
  <2>1. /\ UNCHANGED <<pc, seq, snapshot, log>>
        /\ clients' = clients \cup {c}
        /\ joined' = [joined EXCEPT ![c] = [f \in Feeds |-> Offered(c, f)]]
    BY <1>30 DEF Register, hubVars
  <2>2. \A f \in Feeds : c \notin clients \cup snapshot[f] /\ Accepted(c, f) = {}
    BY <1>30 DEF Register, Structure, UnknownBeforeRegister, Unknown, Procs,
                  Accepted, Numbers
  <2>3. \A d \in Clients, g \in Feeds : /\ Offered(d, g)' = Offered(d, g)
                                        /\ Accepted(d, g)' = Accepted(d, g)
    BY <2>1 DEF Offered, Accepted
  <2>4. \A g \in Feeds : Offered(c, g) \in 0..seq[g] /\ joined'[c][g] = Offered(c, g)
    BY <2>1 DEF Offered, Structure, InBroadcast, TypeOK, Procs
  <2>5. \A d \in Clients : d # c => joined'[d] = joined[d]
    BY <2>1 DEF TypeOK
  <2>6. \A g \in Feeds : (Offered(c, g) + 1)..Offered(c, g) = {}
    BY <2>4
  <2>7. GivenAll'
    <3> SUFFICES ASSUME NEW g \in Feeds, NEW d \in clients' \cup snapshot'[g]
                 PROVE  /\ joined'[d][g] <= Offered(d, g)'
                        /\ Accepted(d, g)' = (joined'[d][g] + 1)..Offered(d, g)'
      BY DEF GivenAll
    <3>1. d \in Clients
      BY <2>1 DEF TypeOK, Procs
    <3>2. CASE d = c
      <4>1. /\ joined'[d][g] = Offered(c, g) /\ Offered(d, g)' = Offered(c, g)
            /\ Accepted(d, g)' = {}
        BY <2>2, <2>3, <2>4, <3>2
      <4>2. Offered(c, g) \in Int
        BY <2>4 DEF TypeOK
      <4> QED BY <4>1, <4>2, <2>6
    <3>3. CASE d # c
      BY <2>1, <2>3, <2>5, <3>1, <3>3 DEF GivenAll
    <3> QED BY <3>2, <3>3
  <2>8. InOrderNoGap'
    <3> SUFFICES ASSUME NEW d \in Clients, NEW g \in Feeds
                 PROVE  /\ Increasing(log[d], g)
                        /\ \E k \in 0..seq[g] :
                              Accepted(d, g)' = (joined'[d][g] + 1)..k
      BY <2>1 DEF InOrderNoGap
    <3>1. CASE d = c
      BY <2>2, <2>3, <2>4, <2>6, <3>1 DEF InOrderNoGap
    <3>2. CASE d # c
      BY <2>3, <2>5, <3>2 DEF InOrderNoGap
    <3> QED BY <3>1, <3>2
  <2> QED BY <2>7, <2>8
<1> QED BY NextCases, <1>a, <1>1, <1>2, <1>3, <1>4, <1>5, <1>6, <1>7, <1>8,
           <1>9, <1>10, <1>11, <1>12, <1>13, <1>14, <1>15, <1>16, <1>17,
           <1>18, <1>19, <1>20, <1>21, <1>22, <1>23, <1>24, <1>25, <1>26,
           <1>27, <1>28, <1>29, <1>30

-----------------------------------------------------------------------------
\* Inv holds initially.
LEMMA InitInv == Init => Inv
<1> SUFFICES ASSUME Init PROVE Inv
  OBVIOUS
<1> USE HubAssumption
<1>1. TypeOK
  BY DEF Init, TypeOK, Procs, FeedPc, StopPc, Buffered, Frame
<1>2. Structure
  BY DEF Init, Structure, NotStarted, InBroadcast, ClosesOwn,
         UnknownBeforeRegister, Unknown, NoZombie, Procs
<1>3. GivenAll
  BY DEF Init, GivenAll, Procs
<1>4. InOrderNoGap
  <2> SUFFICES ASSUME NEW c \in Clients, NEW f \in Feeds
               PROVE  /\ Increasing(log[c], f)
                      /\ \E k \in 0..seq[f] :
                            Accepted(c, f) = (joined[c][f] + 1)..k
    BY DEF InOrderNoGap
  <2>1. Increasing(log[c], f)
    BY DEF Init, Increasing
  <2>2. Accepted(c, f) = {} /\ joined[c][f] = 0 /\ seq[f] = 0
    BY DEF Init, Accepted, Numbers
  <2>3. (0 + 1)..0 = {} /\ 0 \in 0..0
    OBVIOUS
  <2> QED BY <2>1, <2>2, <2>3
<1> QED BY <1>1, <1>2, <1>3, <1>4 DEF Inv

\* Every step keeps Inv.
LEMMA InvNext == Inv /\ [Next]_vars => Inv'
BY TypeNext, StructureNext, DeliveryNext DEF Inv, Structure

\* Types and channel capacity, in every behaviour of the hub.
THEOREM TypeCorrect == Spec => []TypeOK
<1>1. Inv => TypeOK
  BY DEF Inv
<1> QED BY InitInv, InvNext, <1>1, PTL DEF Spec

\* A client whose close() is over is not in the fan-out set, whoever raced
\* to close it and whenever it registered.
THEOREM ClosedClientsAreGone == Spec => []NoZombie
<1>1. Inv => NoZombie
  BY DEF Inv, Structure
<1> QED BY InitInv, InvNext, <1>1, PTL DEF Spec

\* Per feed and client, what the channel accepted is in order, without
\* duplicates and without gaps.
THEOREM DeliveryInOrder == Spec => []InOrderNoGap
<1>1. Inv => InOrderNoGap
  BY DEF Inv
<1> QED BY InitInv, InvNext, <1>1, PTL DEF Spec

\* A client in the fan-out set has been given every frame broadcast since it
\* registered.
THEOREM DeliveryComplete == Spec => []NobodySkipped
<1>1. Inv => NobodySkipped
  BY DEF Inv, GivenAll, NobodySkipped
<1> QED BY InitInv, InvNext, <1>1, PTL DEF Spec

=============================================================================
