------------------------------- MODULE WsHub -------------------------------
(***************************************************************************)
(* The WebSocket fan-out hub (internal/wshub).                             *)
(*                                                                         *)
(* Two upstream loops (the feeds: price.Subscribe and indexer.StreamEvents) *)
(* call broadcast for every message; broadcast copies the client set under *)
(* a read lock, releases the lock and offers the frame to every client of  *)
(* the copy, closing those whose send channel is full.  Every client has a *)
(* handler goroutine (Serve, then readPump) and a writePump; any of them,  *)
(* a feed, or Stop may be the one that runs the body of close().           *)
(*                                                                         *)
(* A frame is the n-th payload a feed passes to broadcast.  A payload that *)
(* fails to marshal never gets there and changes nothing.                  *)
(***************************************************************************)
EXTENDS Integers, Sequences, FiniteSets

CONSTANTS
    Feeds,             \* the upstream loops
    Clients,           \* every WebSocket connection that may ever be made
    Stopper,           \* the goroutine that calls Hub.Stop
    ClientBufferSize,  \* capacity of a client's send channel
    MaxFrames          \* bound: frames a feed broadcasts

ASSUME HubAssumption ==
    /\ Stopper \notin Feeds
    /\ ClientBufferSize \in Nat \ {0}    \* NewHub replaces buf <= 0 by 256
    /\ MaxFrames \in Nat

\* Start spawns two feeds; a process ever serves finitely many connections.
ASSUME FinitelyMany == IsFiniteSet(Feeds) /\ IsFiniteSet(Clients)

VARIABLES
    pc,        \* where each feed and the stopper are
    seq,       \* seq[f]: number of f's latest frame
    snapshot,  \* snapshot[p]: clients of p's copy that p has not handled yet
    closing,   \* closing[p]: the client whose close() p is in, if any
    readers,   \* holders of h.mu's read lock
    clients,   \* h.clients
    serve,     \* serve[c]: where c's handler goroutine (Serve, readPump) is
    writer,    \* writer[c]: where c's writePump goroutine is
    once,      \* once[c]: progress of the body closeOnce runs
    log,       \* log[c]: every frame c.send has accepted, oldest first
    taken,     \* taken[c]: how many of log[c] writePump has received
    written,   \* written[c]: how many it has written to the connection
    drops,     \* h.drops
    joined     \* history: joined[c][f], f's last frame c was too late for

vars == <<pc, seq, snapshot, closing, readers, clients, serve, writer, once,
          log, taken, written, drops, joined>>

hubVars == <<pc, seq, snapshot, closing, readers, drops>>
clientVars == <<serve, writer, once, taken, written, joined>>

Procs == Feeds \cup {Stopper}

Frame == [feed : Feeds, n : Nat]

FeedPc == {"off", "top", "stream", "rlock", "unlock", "fanout", "backoff",
           "exit"}
StopPc == {"off", "running", "rlock", "unlock", "fanout", "wait", "done"}

\* ctx.Done(): Stop has called h.cancel()
cancelled == pc[Stopper] \notin {"off", "running"}

\* frames waiting in c.send
Buffered(c) == Len(log[c]) - taken[c]

ConnClosed(c) == once[c] \in {"connclosed", "done"}

\* Some goroutine is inside c.close().
InClose(c) == \/ \E p \in Procs : c \in closing[p]
              \/ serve[c] = "close"
              \/ writer[c] = "close"

\* The last frame of f that c, if registered, has been offered.
Offered(c, f) == IF pc[f] = "rlock" \/ c \in snapshot[f]
                 THEN seq[f] - 1 ELSE seq[f]

Init ==
    /\ pc = [p \in Procs |-> "off"]
    /\ seq = [f \in Feeds |-> 0]
    /\ snapshot = [p \in Procs |-> {}]
    /\ closing = [p \in Procs |-> {}]
    /\ readers = {}
    /\ clients = {}
    /\ serve = [c \in Clients |-> "idle"]
    /\ writer = [c \in Clients |-> "off"]
    /\ once = [c \in Clients |-> "open"]
    /\ log = [c \in Clients |-> <<>>]
    /\ taken = [c \in Clients |-> 0]
    /\ written = [c \in Clients |-> 0]
    /\ drops = 0
    /\ joined = [c \in Clients |-> [f \in Feeds |-> 0]]

-----------------------------------------------------------------------------
(***************************************************************************)
(* Start and the upstream loops                                            *)
(***************************************************************************)

\* Hub.Start: the context is created and both loops are spawned.
Start ==
    /\ pc[Stopper] = "off"
    /\ pc' = [p \in Procs |-> IF p = Stopper THEN "running" ELSE "top"]
    /\ UNCHANGED <<seq, snapshot, closing, readers, drops, clients, log,
                   clientVars>>

\* The loop's test of ctx.Err(), and the call of the upstream subscription.
Subscribe(f) ==
    /\ pc[f] = "top"
    /\ pc' = [pc EXCEPT ![f] = IF cancelled THEN "exit" ELSE "stream"]
    /\ UNCHANGED <<seq, snapshot, closing, readers, drops, clients, log,
                   clientVars>>

\* The subscription returns (it could not be opened, the stream broke, or
\* the context ended): exit when cancelled, otherwise sleep and retry.
StreamEndsOnErrorOnly(f) ==
    /\ pc[f] = "stream"
    /\ ~cancelled
    /\ pc' = [pc EXCEPT ![f] = "backoff"]
    /\ UNCHANGED <<seq, snapshot, closing, readers, drops, clients, log,
                   clientVars>>

StreamEnds(f) ==
    /\ pc[f] = "stream"
    /\ pc' = [pc EXCEPT ![f] = IF cancelled THEN "exit" ELSE "backoff"]
    /\ UNCHANGED <<seq, snapshot, closing, readers, drops, clients, log,
                   clientVars>>

\* sleepWithCtx returns: the timer fired or the context ended.
Wake(f) ==
    /\ pc[f] = "backoff"
    /\ pc' = [pc EXCEPT ![f] = "top"]
    /\ UNCHANGED <<seq, snapshot, closing, readers, drops, clients, log,
                   clientVars>>

\* A message arrives and is marshalled; broadcast is called.  gRPC may hand
\* over a message it had already received when the context ended.
Receive(f) ==
    /\ pc[f] = "stream"
    /\ seq[f] < MaxFrames
    /\ seq' = [seq EXCEPT ![f] = @ + 1]
    /\ pc' = [pc EXCEPT ![f] = "rlock"]
    /\ UNCHANGED <<snapshot, closing, readers, drops, clients, log,
                   clientVars>>

-----------------------------------------------------------------------------
(***************************************************************************)
(* The client-set snapshot broadcast and Stop share, and close() calls     *)
(***************************************************************************)

\* h.mu.RLock() and the copy of h.clients.  Register and Unregister hold the
\* write lock for one step only, so a reader never has to wait here.
Snapshot(p) ==
    /\ pc[p] = "rlock"
    /\ pc' = [pc EXCEPT ![p] = "unlock"]
    /\ snapshot' = [snapshot EXCEPT ![p] = clients]
    /\ readers' = readers \cup {p}
    /\ UNCHANGED <<seq, closing, drops, clients, log, clientVars>>

\* h.mu.RUnlock(): only now are clients offered a frame or closed.
RUnlockForgotten(p) ==
    /\ pc[p] = "unlock"
    /\ pc' = [pc EXCEPT ![p] = "fanout"]
    /\ UNCHANGED <<seq, snapshot, closing, readers, drops, clients, log,
                   clientVars>>

RUnlock(p) ==
    /\ pc[p] = "unlock"
    /\ pc' = [pc EXCEPT ![p] = "fanout"]
    /\ readers' = readers \ {p}
    /\ UNCHANGED <<seq, snapshot, closing, drops, clients, log, clientVars>>

\* c.close() returns to p: this or another caller's run of the closeOnce
\* body is over.
CloseReturns(p, c) ==
    /\ closing[p] = {c}
    /\ once[c] = "done"
    /\ closing' = [closing EXCEPT ![p] = {}]
    /\ snapshot' = [snapshot EXCEPT ![p] = @ \ {c}]
    /\ UNCHANGED <<pc, seq, readers, drops, clients, log, clientVars>>

-----------------------------------------------------------------------------
(***************************************************************************)
(* broadcast: one non-blocking send per client of the snapshot             *)
(***************************************************************************)

\* p is between two clients of its snapshot, and c is the next one.
Handles(p, c) ==
    /\ pc[p] = "fanout"
    /\ closing[p] = {}
    /\ c \in snapshot[p]

\* case c.send <- payload
OfferWithoutLimit(f, c) ==
    /\ Handles(f, c)
    /\ log' = [log EXCEPT ![c] = Append(@, [feed |-> f, n |-> seq[f]])]
    /\ snapshot' = [snapshot EXCEPT ![f] = @ \ {c}]
    /\ UNCHANGED <<pc, seq, closing, readers, drops, clients, clientVars>>

Offer(f, c) ==
    /\ Handles(f, c)
    /\ Buffered(c) < ClientBufferSize
    /\ log' = [log EXCEPT ![c] = Append(@, [feed |-> f, n |-> seq[f]])]
    /\ snapshot' = [snapshot EXCEPT ![f] = @ \ {c}]
    /\ UNCHANGED <<pc, seq, closing, readers, drops, clients, clientVars>>

\* default: the channel is full; count the drop and call c.close().
DropKeepingClient(f, c) ==
    /\ Handles(f, c)
    /\ Buffered(c) >= ClientBufferSize
    /\ drops' = drops + 1
    /\ snapshot' = [snapshot EXCEPT ![f] = @ \ {c}]
    /\ UNCHANGED <<pc, seq, closing, readers, clients, log, clientVars>>

DropRetryingSend(f, c) ==
    /\ Handles(f, c)
    /\ Buffered(c) >= ClientBufferSize
    /\ drops <= Cardinality(Feeds) * Cardinality(Clients)
    /\ drops' = drops + 1
    /\ UNCHANGED <<pc, seq, snapshot, closing, readers, clients, log,
                   clientVars>>

Drop(f, c) ==
    /\ Handles(f, c)
    /\ Buffered(c) >= ClientBufferSize
    /\ drops' = drops + 1
    /\ closing' = [closing EXCEPT ![f] = {c}]
    /\ UNCHANGED <<pc, seq, snapshot, readers, clients, log, clientVars>>

\* broadcast returns to the stream's receive loop.
EndBroadcast(f) ==
    /\ pc[f] = "fanout"
    /\ snapshot[f] = {}
    /\ pc' = [pc EXCEPT ![f] = "stream"]
    /\ UNCHANGED <<seq, snapshot, closing, readers, drops, clients, log,
                   clientVars>>

-----------------------------------------------------------------------------
(***************************************************************************)
(* Stop                                                                    *)
(***************************************************************************)

\* h.cancel()
Stop ==
    /\ pc[Stopper] = "running"
    /\ pc' = [pc EXCEPT ![Stopper] = "rlock"]
    /\ UNCHANGED <<seq, snapshot, closing, readers, drops, clients, log,
                   clientVars>>

\* for _, c := range snapshot { c.close() }
StopCloses(c) ==
    /\ Handles(Stopper, c)
    /\ closing' = [closing EXCEPT ![Stopper] = {c}]
    /\ UNCHANGED <<pc, seq, snapshot, readers, drops, clients, log,
                   clientVars>>

\* h.wg.Wait() is reached, and returns when both loops have.
StopWaitsAtOnce ==
    /\ pc[Stopper] = "fanout"
    /\ snapshot' = [snapshot EXCEPT ![Stopper] = {}]
    /\ pc' = [pc EXCEPT ![Stopper] = "wait"]
    /\ UNCHANGED <<seq, closing, readers, drops, clients, log, clientVars>>

StopWaits ==
    /\ pc[Stopper] = "fanout"
    /\ snapshot[Stopper] = {}
    /\ pc' = [pc EXCEPT ![Stopper] = "wait"]
    /\ UNCHANGED <<seq, snapshot, closing, readers, drops, clients, log,
                   clientVars>>

StopReturns ==
    /\ pc[Stopper] = "wait"
    /\ \A f \in Feeds : pc[f] = "exit"
    /\ pc' = [pc EXCEPT ![Stopper] = "done"]
    /\ UNCHANGED <<seq, snapshot, closing, readers, drops, clients, log,
                   clientVars>>

-----------------------------------------------------------------------------
(***************************************************************************)
(* A client's handler goroutine: Serve and readPump                        *)
(***************************************************************************)

\* upgrader.Upgrade succeeds: the connection is hijacked, and from here on
\* http.Server.Shutdown neither closes it nor waits for it.  The application
\* starts the listener after Hub.Start and shuts it down before Hub.Stop, but
\* a request that outlived Shutdown's deadline may get here at any time.
Upgrade(c) ==
    /\ serve[c] = "idle"
    /\ pc[Stopper] # "off"
    /\ serve' = [serve EXCEPT ![c] = "upgraded"]
    /\ UNCHANGED <<hubVars, clients, log, writer, once, taken, written,
                   joined>>

\* h.register(client), under the write lock
Register(c) ==
    /\ serve[c] = "upgraded"
    /\ readers = {}
    /\ clients' = clients \cup {c}
    /\ serve' = [serve EXCEPT ![c] = "registered"]
    /\ joined' = [joined EXCEPT ![c] = [f \in Feeds |-> Offered(c, f)]]
    /\ UNCHANGED <<hubVars, log, writer, once, taken, written>>

\* The read deadline is set, writePump is spawned, readPump is entered.
StartPumps(c) ==
    /\ serve[c] = "registered"
    /\ serve' = [serve EXCEPT ![c] = "read"]
    /\ writer' = [writer EXCEPT ![c] = "select"]
    /\ UNCHANGED <<hubVars, clients, log, once, taken, written, joined>>

\* ReadMessage fails: the peer left, the pong deadline passed, or the
\* connection was closed on this side.  The deferred c.close() is called.
ReadFails(c) ==
    /\ serve[c] = "read"
    /\ serve' = [serve EXCEPT ![c] = "close"]
    /\ UNCHANGED <<hubVars, clients, log, writer, once, taken, written,
                   joined>>

\* readPump's c.close() returns, and with it Serve.
ServeReturns(c) ==
    /\ serve[c] = "close"
    /\ once[c] = "done"
    /\ serve' = [serve EXCEPT ![c] = "done"]
    /\ UNCHANGED <<hubVars, clients, log, writer, once, taken, written,
                   joined>>

-----------------------------------------------------------------------------
(***************************************************************************)
(* writePump.  Its select takes any ready case: a frame can still be taken *)
(* after c.closed is closed.                                               *)
(***************************************************************************)

\* case payload := <-c.send
TakeAndForget(c) ==
    /\ writer[c] = "select"
    /\ Buffered(c) > 0
    /\ taken' = [taken EXCEPT ![c] = @ + 1]
    /\ UNCHANGED <<hubVars, clients, log, serve, writer, once, written,
                   joined>>

Take(c) ==
    /\ writer[c] = "select"
    /\ Buffered(c) > 0
    /\ taken' = [taken EXCEPT ![c] = @ + 1]
    /\ writer' = [writer EXCEPT ![c] = "write"]
    /\ UNCHANGED <<hubVars, clients, log, serve, once, written, joined>>

\* WriteMessage succeeds, possible only on a connection not closed here.
WriteOk(c) ==
    /\ writer[c] = "write"
    /\ ~ConnClosed(c)
    /\ written' = [written EXCEPT ![c] = @ + 1]
    /\ writer' = [writer EXCEPT ![c] = "select"]
    /\ UNCHANGED <<hubVars, clients, log, serve, once, taken, joined>>

\* WriteMessage fails: a dead peer, the write deadline, a closed connection.
WriteFails(c) ==
    /\ writer[c] = "write"
    /\ writer' = [writer EXCEPT ![c] = "close"]
    /\ UNCHANGED <<hubVars, clients, log, serve, once, taken, written,
                   joined>>

\* case <-ticker.C, and the ping cannot be written (one that can changes
\* nothing)
PingFails(c) ==
    /\ writer[c] = "select"
    /\ writer' = [writer EXCEPT ![c] = "close"]
    /\ UNCHANGED <<hubVars, clients, log, serve, once, taken, written,
                   joined>>

\* case <-c.closed
SeesClosed(c) ==
    /\ writer[c] = "select"
    /\ once[c] # "open"
    /\ writer' = [writer EXCEPT ![c] = "close"]
    /\ UNCHANGED <<hubVars, clients, log, serve, once, taken, written,
                   joined>>

\* writePump's deferred c.close() returns.
WriterReturns(c) ==
    /\ writer[c] = "close"
    /\ once[c] = "done"
    /\ writer' = [writer EXCEPT ![c] = "done"]
    /\ UNCHANGED <<hubVars, clients, log, serve, once, taken, written,
                   joined>>

-----------------------------------------------------------------------------
(***************************************************************************)
(* The body closeOnce.Do runs once; other callers wait until it is over    *)
(***************************************************************************)

\* close(c.closed)
CloseSignals(c) ==
    /\ once[c] = "open"
    /\ InClose(c)
    /\ once' = [once EXCEPT ![c] = "closed"]
    /\ UNCHANGED <<hubVars, clients, log, serve, writer, taken, written,
                   joined>>

\* c.conn.Close()
CloseConn(c) ==
    /\ once[c] = "closed"
    /\ once' = [once EXCEPT ![c] = "connclosed"]
    /\ UNCHANGED <<hubVars, clients, log, serve, writer, taken, written,
                   joined>>

\* c.hub.unregister(c), under the write lock
UnregisterForgotten(c) ==
    /\ once[c] = "connclosed"
    /\ readers = {}
    /\ once' = [once EXCEPT ![c] = "done"]
    /\ UNCHANGED <<hubVars, clients, log, serve, writer, taken, written,
                   joined>>

Unregister(c) ==
    /\ once[c] = "connclosed"
    /\ readers = {}
    /\ clients' = clients \ {c}
    /\ once' = [once EXCEPT ![c] = "done"]
    /\ UNCHANGED <<hubVars, log, serve, writer, taken, written, joined>>

-----------------------------------------------------------------------------

FeedNext(f) ==
    \/ Subscribe(f) \/ StreamEnds(f) \/ Wake(f) \/ Receive(f)
    \/ Snapshot(f) \/ RUnlock(f) \/ EndBroadcast(f)
    \/ \E c \in Clients : Offer(f, c) \/ Drop(f, c) \/ CloseReturns(f, c)

StopNext ==
    \/ Stop \/ Snapshot(Stopper) \/ RUnlock(Stopper)
    \/ StopWaits \/ StopReturns
    \/ \E c \in Clients : StopCloses(c) \/ CloseReturns(Stopper, c)

ServeNext(c) ==
    \/ Upgrade(c) \/ Register(c) \/ StartPumps(c)
    \/ ReadFails(c) \/ ServeReturns(c)

WriterNext(c) ==
    \/ Take(c) \/ WriteOk(c) \/ WriteFails(c)
    \/ PingFails(c) \/ SeesClosed(c) \/ WriterReturns(c)

CloseNext(c) == CloseSignals(c) \/ CloseConn(c) \/ Unregister(c)

Next ==
    \/ Start
    \/ \E f \in Feeds : FeedNext(f)
    \/ StopNext
    \/ \E c \in Clients : ServeNext(c) \/ WriterNext(c) \/ CloseNext(c)

Spec == Init /\ [][Next]_vars

(***************************************************************************)
(* Fairness.  A runnable goroutine eventually runs, and Go's RWMutex does  *)
(* not starve a waiting writer (strong fairness of the two write-lock      *)
(* steps).  A stream ends once its context is cancelled; a read fails once *)
(* the connection is closed here; a write ends, one way or the other,      *)
(* within writeTimeout.  Nothing is assumed of the network: no message has *)
(* to arrive, no client to connect, no peer to fail, and no one to call    *)
(* Stop.                                                                   *)
(***************************************************************************)
FeedFairness(f) ==
    /\ WF_vars(Subscribe(f) \/ Wake(f) \/ Snapshot(f) \/ RUnlock(f))
    /\ WF_vars(EndBroadcast(f))
    /\ WF_vars(cancelled /\ StreamEnds(f))
    /\ WF_vars(\E c \in Clients :
                  Offer(f, c) \/ Drop(f, c) \/ CloseReturns(f, c))

StopFairness ==
    /\ WF_vars(Snapshot(Stopper) \/ RUnlock(Stopper))
    /\ WF_vars(StopWaits \/ StopReturns)
    /\ WF_vars(\E c \in Clients : StopCloses(c) \/ CloseReturns(Stopper, c))

ClientFairness(c) ==
    /\ SF_vars(Register(c))
    /\ SF_vars(Unregister(c))
    /\ WF_vars(StartPumps(c))
    /\ WF_vars(ConnClosed(c) /\ ReadFails(c))
    /\ WF_vars(ServeReturns(c))
    /\ WF_vars(Take(c) \/ SeesClosed(c) \/ WriterReturns(c))
    /\ WF_vars(WriteOk(c) \/ WriteFails(c))
    /\ WF_vars(CloseSignals(c) \/ CloseConn(c))

Fairness ==
    /\ \A f \in Feeds : FeedFairness(f)
    /\ StopFairness
    /\ \A c \in Clients : ClientFairness(c)

FairSpec == Spec /\ Fairness

-----------------------------------------------------------------------------
(***************************************************************************)
(* Safety                                                                  *)
(***************************************************************************)

\* Types; in particular a send channel never holds more than its capacity,
\* although two feeds fill it without a common lock (hub.go broadcast).
TypeOK ==
    /\ pc \in [Procs -> FeedPc \cup StopPc]
    /\ \A f \in Feeds : pc[f] \in FeedPc
    /\ pc[Stopper] \in StopPc
    /\ seq \in [Feeds -> Nat]
    /\ snapshot \in [Procs -> SUBSET Clients]
    /\ closing \in [Procs -> SUBSET Clients]
    /\ readers \subseteq Procs
    /\ clients \subseteq Clients
    /\ serve \in [Clients -> {"idle", "upgraded", "registered", "read",
                              "close", "done"}]
    /\ writer \in [Clients -> {"off", "select", "write", "close", "done"}]
    /\ once \in [Clients -> {"open", "closed", "connclosed", "done"}]
    /\ log \in [Clients -> Seq(Frame)]
    /\ taken \in [Clients -> Nat]
    /\ written \in [Clients -> Nat]
    /\ drops \in Nat
    /\ joined \in [Clients -> [Feeds -> Nat]]
    /\ \A c \in Clients : Buffered(c) \in 0..ClientBufferSize

\* A client whose close() has finished is out of the fan-out set and never
\* comes back, whichever of the feeds, the pumps and Stop raced to close it
\* (Client.close, Hub.register, Hub.unregister).
NoZombie == \A c \in Clients : once[c] = "done" => c \notin clients

\* The numbers of f's frames in the sequence s of frames.
Numbers(s, f) == {s[i].n : i \in {j \in DOMAIN s : s[j].feed = f}}

\* The frames of one feed that c.send has accepted.
Accepted(c, f) == Numbers(log[c], f)

\* The frames of feed f come in increasing order in s.
Increasing(s, f) ==
    \A i, j \in DOMAIN s :
        i < j /\ s[i].feed = f /\ s[j].feed = f => s[i].n < s[j].n

\* What one feed put into one client's channel is in order, without
\* duplicates and without holes, from the client's registration on, whatever
\* the other feed, Stop and the other clients did meanwhile: a client that
\* misses a frame gets nothing after it (broadcast's default branch).
InOrderNoGap ==
    \A c \in Clients, f \in Feeds :
        /\ Increasing(log[c], f)
        /\ \E k \in 0..seq[f] : Accepted(c, f) = (joined[c][f] + 1)..k

\* A client still in the fan-out set has been given every frame broadcast
\* since it registered, except the one a broadcast is still to offer it
\* (Hub.register racing Hub.broadcast's snapshot).
NobodySkipped ==
    \A c \in clients, f \in Feeds :
        Accepted(c, f) = (joined[c][f] + 1)..Offered(c, f)

\* The drop counter counts a slow client at most once per feed, and counts
\* only clients that are closed or about to be.
DropsBounded ==
    drops <= Cardinality(Feeds)
             * Cardinality({c \in Clients : InClose(c) \/ once[c] # "open"})

(***************************************************************************)
(* The hub implements Relay.  A frame is published when broadcast copies   *)
(* the client set, and is owed to the clients of the copy that broadcast   *)
(* has not handled yet; members are the clients in h.clients.              *)
(***************************************************************************)
Published == [f \in Feeds |-> IF pc[f] = "rlock" THEN seq[f] - 1 ELSE seq[f]]
Owed == [f \in Feeds |-> snapshot[f]]

Promise == INSTANCE Relay WITH published <- Published, owed <- Owed,
                               member <- clients

\* Locks, snapshots, channels, pumps and racing closers do not show: to its
\* clients the hub is the relay that skips nobody who stays (broadcast,
\* register, unregister, writePump).
ImplementsRelay == Promise!Spec

-----------------------------------------------------------------------------
(***************************************************************************)
(* Liveness                                                                *)
(***************************************************************************)

\* Stop, once called, returns: it neither deadlocks with unregister on h.mu
\* nor waits for ever for a loop that is itself inside a client's close().
StopTerminates == cancelled ~> pc[Stopper] = "done"

\* Every client in the fan-out set when Stop is called gets closed.
StopClosesRegistered ==
    \A c \in Clients :
        (pc[Stopper] = "rlock" /\ c \in clients) ~> once[c] = "done"

\* hub.go: "Stop tears down the upstream loops and closes every connected
\* client" -- also the one whose connection is upgraded and whose handler has
\* yet to register it.
StopClosesEveryClient ==
    \A c \in Clients :
        (pc[Stopper] = "rlock" /\ serve[c] # "idle") ~> once[c] = "done"

\* Once anybody starts to close a client, it leaves the fan-out set and its
\* goroutines end: no pump leaks, no caller waits for ever on closeOnce.
CloseCompletes ==
    \A c \in Clients :
        once[c] # "open" ~> (/\ once[c] = "done"
                             /\ c \notin clients
                             /\ serve[c] = "done"
                             /\ writer[c] = "done")

\* A frame accepted by a client's channel is written to its connection,
\* unless the client is closed.
AcceptedIsWritten ==
    \A c \in Clients : \A n \in 1..(MaxFrames * Cardinality(Feeds)) :
        Len(log[c]) >= n ~> (written[c] >= n \/ once[c] # "open")
=============================================================================
