-------------------------- MODULE WsHubRefinement --------------------------
(***************************************************************************)
(* WsHub implements Relay, for any number of feeds and clients, any        *)
(* channel capacity and any number of frames.                              *)
(*                                                                         *)
(* Snapshot publishes, Offer delivers, CloseReturns abandons, Register     *)
(* joins, Unregister leaves and WriteOk writes; every other step is        *)
(* invisible.  The mapping needs the invariant of WsHubProofs (a feed has  *)
(* no snapshot left when it copies the next one; a client that close() is  *)
(* through with has left) and one more: writePump writes only what it took.*)
(***************************************************************************)
EXTENDS WsHubProofs

\* writePump has written what it took, but for the frame it is writing.
WritesTaken ==
    \A c \in Clients :
        /\ written[c] <= taken[c]
        /\ writer[c] = "write" => written[c] < taken[c]

\* Every step keeps WritesTaken.
LEMMA WritesTakenNext == TypeOK /\ WritesTaken /\ [Next]_vars => WritesTaken'
<1> SUFFICES ASSUME TypeOK, WritesTaken, [Next]_vars PROVE WritesTaken'
  OBVIOUS
<1>0. /\ taken \in [Clients -> Nat] /\ written \in [Clients -> Nat]
      /\ writer \in [Clients -> {"off", "select", "write", "close", "done"}]
  BY DEF TypeOK
<1> USE <1>0
<1>1. CASE UNCHANGED <<taken, written, writer>>
  BY <1>1 DEF WritesTaken
<1>2. ASSUME NEW c \in Clients, UNCHANGED <<taken, written>>,
             \E w \in {"select", "close", "done"} :
                writer' = [writer EXCEPT ![c] = w]
      PROVE  WritesTaken'
  BY <1>2 DEF WritesTaken
<1>3. ASSUME NEW c \in Clients, Take(c), writer[c] = "select" PROVE WritesTaken'
  <2>1. /\ taken' = [taken EXCEPT ![c] = taken[c] + 1] /\ written' = written
        /\ writer' = [writer EXCEPT ![c] = "write"]
    BY <1>3 DEF Take
  <2> QED BY <2>1 DEF WritesTaken
<1>4. ASSUME NEW c \in Clients, WriteOk(c) PROVE WritesTaken'
  <2>1. /\ written' = [written EXCEPT ![c] = written[c] + 1] /\ taken' = taken
        /\ writer' = [writer EXCEPT ![c] = "select"] /\ writer[c] = "write"
    BY <1>4 DEF WriteOk
  <2> QED BY <2>1 DEF WritesTaken
<1>5. CASE Next
  <2> USE NextCases, <1>5 DEF hubVars, clientVars
  <2>1. ASSUME NEW c \in Clients,
               \/ StartPumps(c) \/ WriteFails(c) \/ PingFails(c)
               \/ SeesClosed(c) \/ WriterReturns(c)
        PROVE  WritesTaken'
    BY <1>2, <2>1 DEF StartPumps, WriteFails, PingFails, SeesClosed, WriterReturns
  <2>2. ASSUME NEW c \in Clients,
               \/ StopCloses(c) \/ Upgrade(c) \/ Register(c) \/ ReadFails(c)
               \/ ServeReturns(c) \/ CloseSignals(c) \/ CloseConn(c)
               \/ Unregister(c)
        PROVE  UNCHANGED <<taken, written, writer>>
    BY <2>2 DEF StopCloses, Upgrade, Register, ReadFails, ServeReturns,
                CloseSignals, CloseConn, Unregister
  <2>3. ASSUME NEW f \in Feeds, NEW c \in Clients, Offer(f, c) \/ Drop(f, c)
        PROVE  UNCHANGED <<taken, written, writer>>
    BY <2>3 DEF Offer, Drop
  <2>4. ASSUME NEW p \in Procs, NEW c \in Clients, CloseReturns(p, c)
        PROVE  UNCHANGED <<taken, written, writer>>
    BY <2>4 DEF CloseReturns
  <2>5. ASSUME NEW p \in Procs, Snapshot(p) \/ RUnlock(p)
        PROVE  UNCHANGED <<taken, written, writer>>
    BY <2>5 DEF Snapshot, RUnlock
  <2>6. ASSUME NEW f \in Feeds,
               \/ Subscribe(f) \/ StreamEnds(f) \/ Wake(f) \/ Receive(f)
               \/ EndBroadcast(f)
        PROVE  UNCHANGED <<taken, written, writer>>
    BY <2>6 DEF Subscribe, StreamEnds, Wake, Receive, EndBroadcast
  <2>7. ASSUME Start \/ Stop \/ StopWaits \/ StopReturns
        PROVE  UNCHANGED <<taken, written, writer>>
    BY <2>7 DEF Start, Stop, StopWaits, StopReturns
  <2>8. ASSUME NEW c \in Clients, Take(c) PROVE WritesTaken'
    BY <1>3, <2>8 DEF Take
  <2> QED BY <1>1, <1>4, <2>1, <2>2, <2>3, <2>4, <2>5, <2>6, <2>7, <2>8
<1>6. CASE UNCHANGED vars
  BY <1>1, <1>6 DEF vars
<1> QED BY <1>5, <1>6

-----------------------------------------------------------------------------
\* The initial state is one of Relay's.
LEMMA RefinesInit == Init => Promise!Init
BY DEF Init, Promise!Init, Published, Owed, Procs

\* A step that Relay does not see.
Silent ==
    /\ UNCHANGED <<clients, log, written>>
    /\ \A f \in Feeds :
          /\ snapshot'[f] = snapshot[f]
          /\ Published[f]' = Published[f]

LEMMA SilentStutters == Silent => UNCHANGED Promise!vars
BY DEF Silent, Promise!vars, Published, Owed

\* Every step of the hub is a step of Relay, or invisible.
LEMMA RefinesNext ==
    Inv /\ WritesTaken /\ [Next]_vars => [Promise!Next]_(Promise!vars)
<1> SUFFICES ASSUME Inv, WritesTaken, [Next]_vars
             PROVE  Promise!Next \/ UNCHANGED Promise!vars
  OBVIOUS
<1>0. TypeOK /\ Structure
  BY DEF Inv
<1>a. /\ seq \in [Feeds -> Nat] /\ snapshot \in [Procs -> SUBSET Clients]
      /\ closing \in [Procs -> SUBSET Clients]
      /\ pc \in [Procs -> FeedPc \cup StopPc]
      /\ Feeds \subseteq Procs /\ Stopper \in Procs /\ Stopper \notin Feeds
  BY <1>0, HubAssumption DEF TypeOK, Procs
<1>b. InBroadcast /\ ClosesOwn /\ UnknownBeforeRegister /\ NoZombie /\ NotStarted
  BY <1>0 DEF Structure
<1>c. ASSUME Silent PROVE UNCHANGED Promise!vars
  BY <1>c, SilentStutters
<1>1. ASSUME NEW f \in Feeds, Snapshot(f) PROVE Promise!Publish(f)
  <2>1. /\ pc[f] = "rlock" /\ pc' = [pc EXCEPT ![f] = "unlock"]
        /\ snapshot' = [snapshot EXCEPT ![f] = clients]
        /\ UNCHANGED <<seq, clients, log, written>>
    BY <1>1 DEF Snapshot, clientVars
  <2>2. snapshot[f] = {}
    BY <1>a, <1>b, <2>1 DEF InBroadcast
  <2>3. Published' = [Published EXCEPT ![f] = Published[f] + 1]
    <3>1. Published[f] = seq[f] - 1 /\ seq[f] \in Nat /\ Published'[f] = seq[f]
      BY <1>a, <2>1 DEF Published
    <3>2. \A g \in Feeds : g # f => Published'[g] = Published[g]
      BY <1>a, <2>1 DEF Published
    <3>3. Published'[f] = Published[f] + 1
      BY <3>1
    <3> QED BY <3>2, <3>3 DEF Published
  <2>4. Owed[f] = {} /\ Owed' = [Owed EXCEPT ![f] = clients]
    BY <1>a, <2>1, <2>2 DEF Owed
  <2> QED BY <2>1, <2>3, <2>4 DEF Promise!Publish
<1>2. ASSUME Snapshot(Stopper) PROVE Silent
  BY <1>2, <1>a DEF Silent, Snapshot, Published, clientVars
<1>3. ASSUME NEW f \in Feeds, NEW c \in Clients, Offer(f, c)
      PROVE  Promise!Deliver(f, c)
  <2>1. /\ pc[f] = "fanout" /\ pc' = pc /\ c \in snapshot[f]
        /\ snapshot' = [snapshot EXCEPT ![f] = @ \ {c}]
        /\ log' = [log EXCEPT ![c] = Append(@, [feed |-> f, n |-> seq[f]])]
        /\ UNCHANGED <<seq, clients, written>>
    BY <1>3 DEF Offer, Handles, clientVars
  <2>2. Published' = Published /\ Published[f] = seq[f]
    BY <2>1 DEF Published
  <2>3. c \in Owed[f] /\ Owed' = [Owed EXCEPT ![f] = @ \ {c}]
    BY <1>a, <2>1 DEF Owed
  <2> QED BY <2>1, <2>2, <2>3 DEF Promise!Deliver
<1>4. ASSUME NEW f \in Feeds, NEW c \in Clients, CloseReturns(f, c)
      PROVE  Promise!Abandon(f, c)
  <2>1. /\ closing[f] = {c} /\ once[c] = "done"
        /\ snapshot' = [snapshot EXCEPT ![f] = @ \ {c}]
        /\ UNCHANGED <<pc, seq, clients, log, written>>
    BY <1>4 DEF CloseReturns, clientVars
  <2>2. c \in snapshot[f] /\ c \notin clients
    BY <1>a, <1>b, <2>1 DEF ClosesOwn, NoZombie
  <2>3. Published' = Published
    BY <2>1 DEF Published
  <2>4. c \in Owed[f] /\ Owed' = [Owed EXCEPT ![f] = @ \ {c}]
    BY <1>a, <2>1, <2>2 DEF Owed
  <2> QED BY <2>1, <2>2, <2>3, <2>4 DEF Promise!Abandon
<1>5. ASSUME NEW c \in Clients, CloseReturns(Stopper, c) PROVE Silent
  BY <1>5, <1>a DEF Silent, CloseReturns, Published, clientVars
<1>6. ASSUME NEW c \in Clients, Register(c) PROVE Promise!Join(c)
  BY <1>6, <1>b DEF Register, Promise!Join, UnknownBeforeRegister, Unknown,
                    Published, Owed, hubVars
<1>7. ASSUME NEW c \in Clients, Unregister(c) PROVE Promise!Leave(c)
  BY <1>7 DEF Unregister, Promise!Leave, Published, Owed, hubVars
<1>8. ASSUME NEW c \in Clients, WriteOk(c) PROVE Promise!Write(c)
  <2>1. /\ writer[c] = "write" /\ written' = [written EXCEPT ![c] = @ + 1]
        /\ UNCHANGED <<pc, seq, snapshot, clients, log>>
    BY <1>8 DEF WriteOk, hubVars
  <2>2. written[c] < taken[c]
    BY <2>1 DEF WritesTaken
  <2>3. /\ Len(log[c]) \in Nat /\ taken[c] \in Nat /\ written[c] \in Nat
        /\ Len(log[c]) - taken[c] \in 0..ClientBufferSize
    BY <1>0 DEF TypeOK, Buffered
  <2>4. written[c] < Len(log[c])
    BY <2>2, <2>3, HubAssumption
  <2> QED BY <2>1, <2>4 DEF Promise!Write, Published, Owed
<1>9. ASSUME NEW c \in Clients,
             \/ Upgrade(c) \/ StartPumps(c) \/ ReadFails(c) \/ ServeReturns(c)
             \/ Take(c) \/ WriteFails(c) \/ PingFails(c) \/ SeesClosed(c)
             \/ WriterReturns(c) \/ CloseSignals(c) \/ CloseConn(c)
             \/ StopCloses(c)
      PROVE  Silent
  BY <1>9 DEF Silent, Published, hubVars, clientVars, Upgrade, StartPumps,
              ReadFails, ServeReturns, Take, WriteFails, PingFails, SeesClosed,
              WriterReturns, CloseSignals, CloseConn, StopCloses
<1>10. ASSUME NEW f \in Feeds, NEW c \in Clients, Drop(f, c) PROVE Silent
  BY <1>10 DEF Silent, Published, Drop, clientVars
<1>11. ASSUME NEW f \in Feeds, Receive(f) PROVE Silent
  <2>1. /\ pc[f] = "stream" /\ pc' = [pc EXCEPT ![f] = "rlock"]
        /\ seq' = [seq EXCEPT ![f] = seq[f] + 1]
        /\ UNCHANGED <<snapshot, clients, log, written>>
    BY <1>11 DEF Receive, clientVars
  <2> QED BY <1>a, <2>1 DEF Silent, Published
<1>12. ASSUME NEW f \in Feeds,
              Subscribe(f) \/ StreamEnds(f) \/ Wake(f) \/ EndBroadcast(f)
       PROVE  Silent
  BY <1>12, <1>a DEF Silent, Published, Subscribe, StreamEnds, Wake,
                     EndBroadcast, clientVars
<1>13. ASSUME NEW p \in Procs, RUnlock(p) PROVE Silent
  BY <1>13, <1>a DEF Silent, Published, RUnlock, clientVars
<1>14. ASSUME Stop \/ StopWaits \/ StopReturns PROVE Silent
  BY <1>14, <1>a DEF Silent, Published, Stop, StopWaits, StopReturns, clientVars
<1>15. ASSUME Start PROVE Silent
  BY <1>15, <1>a, <1>b DEF Silent, Published, Start, NotStarted, clientVars
<1>16. CASE Next
  <2>1. \A p \in Procs : p \in Feeds \/ p = Stopper
    BY DEF Procs
  <2> QED BY <1>16, NextCases, <2>1, <1>c, <1>1, <1>2, <1>3, <1>4, <1>5, <1>6,
             <1>7, <1>8, <1>9, <1>10, <1>11, <1>12, <1>13, <1>14, <1>15
          DEF Promise!Next
<1>17. CASE UNCHANGED vars
  BY <1>17, <1>c DEF vars, Silent, Published
<1> QED BY <1>16, <1>17

\* The hub implements the relay: whatever the locks, the two feeds, the pumps
\* and Stop do meanwhile, a frame is delivered to everyone who was in
\* h.clients when broadcast copied it and has not left, in order, and the
\* next one waits for that (hub.go broadcast).
THEOREM HubImplementsRelay == Spec => ImplementsRelay
<1>1. Init => Inv /\ WritesTaken
  BY InitInv DEF Init, WritesTaken
<1>2. Inv /\ WritesTaken /\ [Next]_vars => Inv' /\ WritesTaken'
  BY InvNext, WritesTakenNext DEF Inv
<1> QED BY <1>1, <1>2, RefinesInit, RefinesNext, PTL
        DEF Spec, ImplementsRelay, Promise!Spec
=============================================================================
