-------------------------- MODULE LifecycleProofs --------------------------
(***************************************************************************)
(* Proofs about Lifecycle, for any number of concurrent requests.          *)
(***************************************************************************)
EXTENDS Lifecycle, FiniteSetTheorems, TLAPS

(***************************************************************************)
(* The inductive invariant.  The properties speak of the end of the        *)
(* process, of closed connections and of open listeners; each of them      *)
(* depends on how far the main goroutine had come when the others moved.   *)
(* The invariant therefore says, for every place of the main goroutine,    *)
(* what is open, what runs and what is still in progress.                  *)
(***************************************************************************)

\* Before the first connection is dialled.
Early == {"new", "config", "validate", "dial price"}

\* Up to the end of App.Init.
Initialising == Early \cup {"dial indexer", "dial oracle", "redis", "server",
                            "healthz"}

\* All four connections are open.
Up == {"server", "healthz", "ready", "start", "notify", "select",
       "shutdown server", "shutdown healthz", "stop hub", "wait", "close price"}

\* App.Stop is past app.wg.Wait.
Closing == {"close price", "close indexer", "close oracle", "close redis",
            "modules"}

\* Those of ds are open, the others have not been opened.
OnlyOpen(ds) == \A x \in Resources : res[x] = IF x \in ds THEN "open" ELSE "none"

\* Those of ds are closed, the others are open.
OnlyClosed(ds) ==
    \A x \in Resources : res[x] = IF x \in ds THEN "closed" ELSE "open"

\* The connections, by the place of the main goroutine.
Connections ==
    /\ main \in Early => OnlyOpen({})
    /\ main = "dial indexer" => OnlyOpen({"price"})
    /\ main = "dial oracle" => OnlyOpen({"price", "indexer"})
    /\ main = "redis" => OnlyOpen({"price", "indexer", "oracle"})
    /\ main \in Up => OnlyClosed({})
    /\ main = "close indexer" => OnlyClosed({"price"})
    /\ main = "close oracle" => OnlyClosed({"price", "indexer"})
    /\ main = "close redis" => OnlyClosed({"price", "indexer", "oracle"})
    /\ main \in {"modules", "exit 0"} => OnlyClosed(Resources)
    /\ main = "killed" => \A x \in Resources : res[x] # "closed"
    /\ main = "exit 1" => IF hub = "running" THEN OnlyClosed({})
                          ELSE \A x \in Resources : res[x] # "open"

\* The hub runs from Start to Stop.
HubRuns ==
    /\ main \in Initialising \cup {"ready"} => hub \in {"none", "built"}
    /\ main \in {"start", "notify", "select", "shutdown server",
                 "shutdown healthz", "stop hub"} => hub = "running"
    /\ main \in Closing \cup {"wait", "exit 0"} => hub = "stopped"

\* The listeners, and the requests they have accepted: nothing before
\* App.Serve starts them (an exit of Init included), nobody serving after
\* Shutdown, both goroutines gone after Wait.
ListenersRun ==
    /\ \/ main \in Initialising \cup {"ready", "start"}
       \/ main = "exit 1" /\ hub # "running"
       => \A l \in Listeners : listener[l] = "none"
    /\ main \in {"notify", "select", "shutdown server"} =>
          \A l \in Listeners : listener[l] # "none"
    /\ main = "shutdown healthz" =>
          listener["server"] \notin {"none", "serving"}
          /\ listener["healthz"] # "none"
    /\ main \in {"stop hub", "wait"} =>
          \A l \in Listeners : listener[l] \notin {"none", "serving"}
    /\ main \in Closing \cup {"exit 0"} =>
          \A l \in Listeners : listener[l] = "returned"

Requests ==
    /\ handling > 0 => listener["server"] # "none"
    /\ main \in Closing \cup {"shutdown healthz", "stop hub", "wait", "exit 0"}
          /\ handling > 0 => timedOut

\* app.wg counts the listener goroutines that have not returned.
Counts(l) == IF listener[l] \in {"none", "returned"} THEN 0 ELSE 1
Counted == wg = Counts("server") + Counts("healthz")

Inv == /\ TypeOK /\ Connections /\ HubRuns /\ ListenersRun /\ Requests
       /\ Counted

-----------------------------------------------------------------------------
\* There are two listeners.
LEMMA TwoListeners == Cardinality(Listeners) = 2
<1>1. IsFiniteSet({"server"}) /\ Cardinality({"server"}) = 1
  BY FS_Singleton
<1>2. Listeners = {"server"} \cup {"healthz"} /\ "healthz" \notin {"server"}
  BY DEF Listeners
<1>3. Cardinality({"server"} \cup {"healthz"}) = 1 + 1
  BY <1>1, <1>2, FS_AddElement
<1> QED BY <1>2, <1>3

\* Nothing is open, and nobody runs, when main starts.
LEMMA InitInv == Init => Inv
<1> SUFFICES ASSUME Init PROVE Inv
  OBVIOUS
<1> USE DEF Init, Resources, Dialled, Listeners
<1>1. TypeOK
  <2>1. signal \in BOOLEAN /\ timedOut \in BOOLEAN
    BY Zenon
  <2>2. wg \in 0..Cardinality(Listeners)
    BY TwoListeners
  <2> QED BY <2>1, <2>2, LifecycleAssumption DEF TypeOK, Main
<1>2. Connections
  BY DEF Connections, OnlyOpen, OnlyClosed, Early, Up
<1>3. HubRuns
  BY DEF HubRuns, Early, Initialising, Closing
<1>4. ListenersRun
  BY DEF ListenersRun, Early, Initialising, Closing
<1>5. Requests
  BY DEF Requests, Closing
<1>6. Counted
  BY DEF Counted, Counts
<1> QED BY <1>1, <1>2, <1>3, <1>4, <1>5, <1>6 DEF Inv

\* The counter keeps counting the goroutines.
LEMMA CountedNext == Inv /\ [Next]_vars => Counted'
<1> SUFFICES ASSUME Inv, [Next]_vars PROVE Counted'
  OBVIOUS
<1>0. /\ Counted /\ wg \in Nat
      /\ listener \in [Listeners -> {"none", "serving", "sending", "closing",
                                    "returned"}]
  BY TwoListeners DEF Inv, TypeOK
<1>1. CASE UNCHANGED <<wg, listener>>
  BY <1>0, <1>1 DEF Counted, Counts
<1>2. CASE StartListeners
  <2>1. listener["server"] = "none" /\ listener["healthz"] = "none"
    BY <1>2 DEF Inv, ListenersRun, StartListeners, Listeners, Initialising
  <2>2. /\ wg' = wg + 2
        /\ listener'["server"] = "serving" /\ listener'["healthz"] = "serving"
    BY <1>2 DEF StartListeners, Listeners
  <2> QED BY <1>0, <2>1, <2>2 DEF Counted, Counts
<1>3. ASSUME NEW l \in Listeners,
             ListenerFails(l) \/ CloseListener(l)
      PROVE  Counted'
  <2>1. /\ wg' = wg /\ listener[l] = "serving"
        /\ \E v \in {"sending", "closing"} : listener' = [listener EXCEPT ![l] = v]
    BY <1>3 DEF ListenerFails, CloseListener
  <2> QED BY <1>0, <2>1 DEF Counted, Counts, Listeners
<1>4. ASSUME NEW l \in Listeners, SendError(l) \/ ListenerClosed(l)
      PROVE  Counted'
  <2>1. /\ wg' = wg - 1 /\ listener[l] \in {"sending", "closing"}
        /\ listener' = [listener EXCEPT ![l] = "returned"]
    BY <1>4 DEF SendError, ListenerClosed
  <2> QED BY <1>0, <2>1 DEF Counted, Counts, Listeners
<1>5. \/ UNCHANGED <<wg, listener>>
      \/ StartListeners
      \/ \E l \in Listeners : \/ ListenerFails(l) \/ CloseListener(l)
                              \/ SendError(l) \/ ListenerClosed(l)
  BY DEF Next, InitNext, NewApplication, initializeConfig, Validate,
     DialPrice, DialIndexer, DialOracle, NewRedis, NewServer, NewHealthz,
     ServeNext, StartHub, Notify, SelectQuit, SelectError, StopNext,
     ShutdownServer, ShutdownHealthz, StopHub, Wait, CloseAll, Close,
     StopModules, ListenerNext, Signal, RequestBegins, RequestEnds, env, vars,
     Goto, Fail
<1> QED BY <1>1, <1>2, <1>3, <1>4, <1>5

\* Every step keeps the types; the counter's from what it counts.
LEMMA TypeNext == Inv /\ [Next]_vars => TypeOK'
<1> SUFFICES ASSUME Inv, [Next]_vars PROVE TypeOK'
  OBVIOUS
<1>a. TypeOK
  BY DEF Inv
<1>b. wg' \in 0..Cardinality(Listeners)
  BY CountedNext, TwoListeners DEF Counted, Counts
<1> USE <1>a
<1>0. signal' \in BOOLEAN /\ timedOut' \in BOOLEAN
  <2>1. \/ UNCHANGED <<signal, timedOut>>
        \/ Signal \/ SelectQuit \/ ShutdownServer
    BY DEF Next, InitNext, NewApplication, initializeConfig, Validate,
       DialPrice, DialIndexer, DialOracle, NewRedis, NewServer, NewHealthz,
       ServeNext, StartHub, StartListeners, Notify, SelectError, StopNext,
       CloseListener, ShutdownHealthz, StopHub, Wait, CloseAll, Close,
       StopModules, ListenerNext, ListenerFails, SendError, ListenerClosed,
       RequestBegins, RequestEnds, env, vars, Goto, Fail
  <2>2. CASE UNCHANGED <<signal, timedOut>>
    BY <2>2 DEF TypeOK
  <2>3. CASE Signal
    BY <2>3, Zenon DEF TypeOK, Signal
  <2>4. CASE SelectQuit
    BY <2>4, Zenon DEF TypeOK, SelectQuit
  <2>5. CASE ShutdownServer
    BY <2>5, Zenon DEF TypeOK, ShutdownServer
  <2> QED BY <2>1, <2>2, <2>3, <2>4, <2>5
<1>8. errCh \in 0..1 /\ handling \in 0..MaxRequests
  BY DEF TypeOK
<1>9. ASSUME SelectError \/ \E l \in Listeners : SendError(l)
      PROVE errCh' \in 0..1
  <2>1. CASE SelectError
    <3>1. errCh > 0 /\ errCh' = errCh - 1
      BY <2>1 DEF SelectError
    <3> QED BY <1>8, <3>1
  <2>2. CASE \E l \in Listeners : SendError(l)
    <3>1. errCh < 1 /\ errCh' = errCh + 1
      BY <2>2 DEF SendError
    <3> QED BY <1>8, <3>1
  <2> QED BY <1>9, <2>1, <2>2
<1>10. ASSUME RequestBegins \/ RequestEnds PROVE handling' \in 0..MaxRequests
  <2>1. \/ handling < MaxRequests /\ handling' = handling + 1
        \/ handling > 0 /\ handling' = handling - 1
    BY <1>10, Zenon DEF RequestBegins, RequestEnds
  <2> QED BY <1>8, <2>1, LifecycleAssumption
<1> USE <1>0, <1>b DEF TypeOK, Main, env, Goto, Fail
<1>1. CASE InitNext
  BY <1>1 DEF InitNext, NewApplication, initializeConfig, Validate, DialPrice,
     DialIndexer, DialOracle, NewRedis, NewServer, NewHealthz, Closed
<1>2. CASE ServeNext
  <2>1. CASE StartHub \/ Notify
    BY <2>1 DEF StartHub, Notify
  <2>2. CASE StartListeners
    BY <2>2 DEF StartListeners
  <2>3. CASE SelectQuit
    BY <2>3, Zenon DEF SelectQuit
  <2>4. CASE SelectError
    BY <1>9, <2>4 DEF SelectError
  <2> QED BY <1>2, <2>1, <2>2, <2>3, <2>4 DEF ServeNext
<1>3. CASE StopNext
  BY <1>3 DEF StopNext, CloseListener, ShutdownServer, ShutdownHealthz, StopHub,
     Wait, CloseAll, Close, StopModules
<1>4. CASE Signal
  BY <1>4 DEF Signal
<1>5. ASSUME NEW l \in Listeners, ListenerNext(l) PROVE TypeOK'
  <2>1. CASE ListenerFails(l)
    BY <2>1 DEF ListenerFails
  <2>2. CASE SendError(l)
    BY <1>9, <2>2 DEF SendError
  <2>3. CASE ListenerClosed(l)
    BY <2>3 DEF ListenerClosed
  <2> QED BY <1>5, <2>1, <2>2, <2>3 DEF ListenerNext
<1>6. CASE RequestBegins \/ RequestEnds
  BY <1>6, <1>10 DEF RequestBegins, RequestEnds
<1>7. CASE UNCHANGED vars
  BY <1>7 DEF vars
<1> QED BY <1>1, <1>2, <1>3, <1>4, <1>5, <1>6, <1>7 DEF Next

\* The connections stay as the place of the main goroutine says.
LEMMA ConnectionsNext == Inv /\ [Next]_vars => Connections'
<1> SUFFICES ASSUME Inv, [Next]_vars PROVE Connections'
  OBVIOUS
<1>0. Connections /\ HubRuns /\ main \in Main
      /\ res \in [Resources -> {"none", "open", "closed"}]
  BY DEF Inv, TypeOK
<1>8. ASSUME UNCHANGED <<main, res, hub>> PROVE Connections'
  BY <1>0, <1>8 DEF Connections, OnlyOpen, OnlyClosed
<1> USE <1>0 DEF Main, Connections, OnlyOpen, OnlyClosed, Early, Up,
        Resources, Dialled, env, Goto, Fail
<1>1. CASE InitNext
  <2> USE DEF HubRuns, Initialising
  <2>1. CASE NewApplication \/ initializeConfig \/ Validate
    BY <2>1 DEF NewApplication, initializeConfig, Validate
  <2>2. CASE DialPrice
    BY <2>2 DEF DialPrice
  <2>3. CASE DialIndexer
    <3>1. CASE Goto("dial oracle")
      BY <2>3, <3>1 DEF DialIndexer
    <3>2. CASE Fail /\ res' = Closed({"price"})
      BY <2>3, <3>2 DEF DialIndexer, Closed
    <3> QED BY <2>3, <3>1, <3>2 DEF DialIndexer
  <2>4. CASE DialOracle
    <3>1. CASE Goto("redis")
      BY <2>4, <3>1 DEF DialOracle
    <3>2. CASE Fail /\ res' = Closed({"price", "indexer"})
      BY <2>4, <3>2 DEF DialOracle, Closed
    <3> QED BY <2>4, <3>1, <3>2 DEF DialOracle
  <2>5. CASE NewRedis
    BY <2>5 DEF NewRedis
  <2>6. CASE NewServer
    BY <2>6 DEF NewServer, Closed
  <2>7. CASE NewHealthz
    BY <2>7 DEF NewHealthz, Closed
  <2> QED BY <1>1, <2>1, <2>2, <2>3, <2>4, <2>5, <2>6, <2>7 DEF InitNext
<1>2. CASE ServeNext
  BY <1>2 DEF ServeNext, StartHub, StartListeners, Notify, SelectQuit,
     SelectError, HubRuns
<1>3. CASE StopNext
  <2>1. CASE CloseAll
    <3>1. CASE Close("price", "close price", "close indexer")
      BY <3>1 DEF Close
    <3>2. CASE Close("indexer", "close indexer", "close oracle")
      BY <3>2 DEF Close
    <3>3. CASE Close("oracle", "close oracle", "close redis")
      BY <3>3 DEF Close
    <3>4. CASE Close("redis", "close redis", "modules")
      BY <3>4 DEF Close
    <3> QED BY <2>1, <3>1, <3>2, <3>3, <3>4 DEF CloseAll
  <2>2. CASE StopModules
    BY <2>2 DEF StopModules
  <2>3. CASE \E l \in Listeners : CloseListener(l)
    BY <2>3, <1>8 DEF CloseListener
  <2>4. CASE ShutdownServer \/ ShutdownHealthz \/ StopHub \/ Wait
    BY <2>4 DEF ShutdownServer, ShutdownHealthz, StopHub, Wait
  <2> QED BY <1>3, <2>1, <2>2, <2>3, <2>4 DEF StopNext
<1>4. CASE Signal
  BY <1>4 DEF Signal, Exited, Stopping
<1>5. CASE \E l \in Listeners : ListenerNext(l)
  BY <1>5, <1>8 DEF ListenerNext, ListenerFails, SendError, ListenerClosed
<1>6. CASE RequestBegins \/ RequestEnds
  BY <1>6, <1>8 DEF RequestBegins, RequestEnds
<1>7. CASE UNCHANGED vars
  BY <1>7, <1>8 DEF vars
<1> QED BY <1>1, <1>2, <1>3, <1>4, <1>5, <1>6, <1>7 DEF Next

\* The hub starts and stops where App.Serve and App.Stop say.
LEMMA HubNext == Inv /\ [Next]_vars => HubRuns'
<1> SUFFICES ASSUME Inv, [Next]_vars PROVE HubRuns'
  OBVIOUS
<1> USE DEF Inv, TypeOK, Main, HubRuns, Early, Initialising, Closing, env, Goto, Fail
<1>1. CASE InitNext
  BY <1>1 DEF InitNext, NewApplication, initializeConfig, Validate, DialPrice,
     DialIndexer, DialOracle, NewRedis, NewServer, NewHealthz
<1>2. CASE ServeNext
  BY <1>2 DEF ServeNext, StartHub, StartListeners, Notify, SelectQuit, SelectError
<1>3. CASE StopNext
  BY <1>3 DEF StopNext, CloseListener, ShutdownServer, ShutdownHealthz, StopHub,
     Wait, CloseAll, Close, StopModules
<1>4. CASE Signal
  BY <1>4 DEF Signal, Exited, Stopping
<1>5. CASE \E l \in Listeners : ListenerNext(l)
  BY <1>5 DEF ListenerNext, ListenerFails, SendError, ListenerClosed
<1>6. CASE RequestBegins \/ RequestEnds
  BY <1>6 DEF RequestBegins, RequestEnds
<1>7. CASE UNCHANGED vars
  BY <1>7 DEF vars
<1> QED BY <1>1, <1>2, <1>3, <1>4, <1>5, <1>6, <1>7 DEF Next

\* The listeners are up between StartListeners and Shutdown, and gone after Wait.
LEMMA ListenersNext == Inv /\ [Next]_vars => ListenersRun'
<1> SUFFICES ASSUME Inv, [Next]_vars PROVE ListenersRun'
  OBVIOUS
<1> USE DEF Inv, TypeOK, Main, ListenersRun, HubRuns, Early, Initialising,
        Closing, Listeners, env, Goto, Fail
<1>1. CASE InitNext
  BY <1>1 DEF InitNext, NewApplication, initializeConfig, Validate, DialPrice,
     DialIndexer, DialOracle, NewRedis, NewServer, NewHealthz
<1>2. CASE ServeNext
  BY <1>2 DEF ServeNext, StartHub, StartListeners, Notify, SelectQuit, SelectError
<1>3. CASE StopNext
  <2>1. ASSUME NEW l \in Listeners, CloseListener(l) PROVE ListenersRun'
    BY <2>1 DEF CloseListener
  <2>2. CASE ShutdownServer \/ ShutdownHealthz
    BY <2>2 DEF ShutdownServer, ShutdownHealthz
  <2>3. CASE StopHub
    BY <2>3 DEF StopHub
  <2>4. CASE Wait
    <3>1. wg = 0 /\ main = "wait"
      BY <2>4 DEF Wait
    <3>2. listener["server"] = "returned" /\ listener["healthz"] = "returned"
      BY <3>1 DEF Counted, Counts
    <3> QED BY <2>4, <3>2 DEF Wait
  <2>5. CASE CloseAll \/ StopModules
    BY <2>5 DEF CloseAll, Close, StopModules
  <2> QED BY <1>3, <2>1, <2>2, <2>3, <2>4, <2>5 DEF StopNext
<1>4. CASE Signal
  BY <1>4 DEF Signal, Exited, Stopping
<1>5. ASSUME NEW l \in Listeners, ListenerNext(l) PROVE ListenersRun'
  <2>1. CASE ListenerFails(l)
    BY <2>1 DEF ListenerFails, Exited
  <2>2. CASE SendError(l)
    BY <2>2 DEF SendError, Exited
  <2>3. CASE ListenerClosed(l)
    BY <2>3 DEF ListenerClosed, Exited
  <2> QED BY <1>5, <2>1, <2>2, <2>3 DEF ListenerNext
<1>6. CASE RequestBegins \/ RequestEnds
  BY <1>6 DEF RequestBegins, RequestEnds
<1>7. CASE UNCHANGED vars
  BY <1>7 DEF vars
<1> QED BY <1>1, <1>2, <1>3, <1>4, <1>5, <1>6, <1>7 DEF Next

\* Requests need a server that was started; those that outlive Shutdown do so
\* because it timed out.
LEMMA RequestsNext == Inv /\ [Next]_vars => Requests'
<1> SUFFICES ASSUME Inv, [Next]_vars PROVE Requests'
  OBVIOUS
<1>8. ASSUME ShutdownServer PROVE handling' > 0 => timedOut'
  <2>1. CASE handling = 0
    <3>1. handling' = 0
      BY <1>8, <2>1 DEF ShutdownServer
    <3> QED BY <3>1
  <2>2. CASE timedOut' = TRUE
    BY <2>2, Zenon
  <2> QED BY <1>8, <2>1, <2>2, Zenon DEF ShutdownServer
<1> USE LifecycleAssumption
    DEF Inv, TypeOK, Main, Requests, ListenersRun, Closing, Listeners, env,
        Goto, Fail
<1>1. CASE InitNext
  BY <1>1 DEF InitNext, NewApplication, initializeConfig, Validate, DialPrice,
     DialIndexer, DialOracle, NewRedis, NewServer, NewHealthz
<1>2. CASE ServeNext
  BY <1>2 DEF ServeNext, StartHub, StartListeners, Notify, SelectQuit, SelectError
<1>3. CASE StopNext
  <2>1. ASSUME NEW l \in Listeners, CloseListener(l) PROVE Requests'
    BY <2>1 DEF CloseListener
  <2>2. CASE ShutdownServer \/ ShutdownHealthz
    <3>1. CASE ShutdownServer
      BY <1>8, <3>1 DEF ShutdownServer
    <3>2. CASE ShutdownHealthz
      BY <3>2 DEF ShutdownHealthz
    <3> QED BY <2>2, <3>1, <3>2
  <2>3. CASE StopHub \/ Wait
    BY <2>3 DEF StopHub, Wait
  <2>4. CASE CloseAll \/ StopModules
    BY <2>4 DEF CloseAll, Close, StopModules
  <2> QED BY <1>3, <2>1, <2>2, <2>3, <2>4 DEF StopNext
<1>4. CASE Signal
  BY <1>4 DEF Signal, Exited, Stopping
<1>5. ASSUME NEW l \in Listeners, ListenerNext(l) PROVE Requests'
  BY <1>5 DEF ListenerNext, ListenerFails, SendError, ListenerClosed, Exited
<1>6. CASE RequestBegins \/ RequestEnds
  BY <1>6 DEF RequestBegins, RequestEnds, Exited
<1>7. CASE UNCHANGED vars
  BY <1>7 DEF vars
<1> QED BY <1>1, <1>2, <1>3, <1>4, <1>5, <1>6, <1>7 DEF Next

\* The invariant holds in every reachable state.
THEOREM Inductive == Spec => []Inv
<1>1. Inv /\ [Next]_vars => Inv'
  BY TypeNext, ConnectionsNext, HubNext, ListenersNext, RequestsNext,
     CountedNext DEF Inv
<1> QED BY InitInv, <1>1, PTL DEF Spec

-----------------------------------------------------------------------------
\* Every variable keeps its type: errCh never holds more than its one error,
\* and app.wg's counter never goes negative.
THEOREM TypeCorrect == Spec => []TypeOK
<1>1. Inv => TypeOK
  BY DEF Inv
<1> QED BY Inductive, <1>1, PTL

\* Whatever step of Init fails, what it had opened is closed when the process
\* exits, and so it is after App.Stop.
THEOREM NoLeak == Spec => []NothingLeftOpen
<1>1. Inv => NothingLeftOpen
  BY DEF Inv, Connections, OnlyOpen, OnlyClosed, NothingLeftOpen, Resources, Dialled
<1> QED BY Inductive, <1>1, PTL

\* No connection is closed under the hub, a listener or a request in time.
THEOREM NoUseAfterClose == Spec => []ClosedAfterUse
<1>1. Inv => ClosedAfterUse
  <2> SUFFICES ASSUME Inv, NEW x \in Resources, res[x] = "closed"
               PROVE /\ hub # "running"
                     /\ \A l \in Listeners : listener[l] \in {"none", "returned"}
                     /\ handling > 0 => timedOut
    BY DEF ClosedAfterUse
  <2> USE DEF Inv, TypeOK
  <2>1. main \in {"close indexer", "close oracle", "close redis", "modules",
                  "exit 0", "exit 1"}
    BY DEF Connections, OnlyOpen, OnlyClosed, Main, Early, Up
  <2>2. hub # "running"
    BY <2>1 DEF HubRuns, Closing, Connections, OnlyClosed
  <2>3. \A l \in Listeners : listener[l] \in {"none", "returned"}
    BY <2>1, <2>2 DEF ListenersRun, Closing
  <2>4. handling > 0 => timedOut
    BY <2>1, <2>2 DEF Requests, ListenersRun, Closing, Listeners
  <2> QED BY <2>2, <2>3, <2>4
<1> QED BY Inductive, <1>1, PTL

\* A listener that answers has the hub and all four connections behind it.
THEOREM ReadyIsUp == Spec => []ReadyMeansUp
<1>1. Inv => ReadyMeansUp
  <2> SUFFICES ASSUME Inv, NEW l \in Listeners, listener[l] = "serving", ~Exited
               PROVE hub = "running" /\ \A x \in Resources : res[x] = "open"
    BY DEF ReadyMeansUp, Ready, Listeners
  <2>1. main \in {"notify", "select", "shutdown server", "shutdown healthz"}
    BY DEF Inv, TypeOK, Main, ListenersRun, Exited, Early, Initialising, Closing
  <2> QED BY <2>1 DEF Inv, HubRuns, Connections, OnlyClosed, Up
<1> QED BY Inductive, <1>1, PTL
=============================================================================
