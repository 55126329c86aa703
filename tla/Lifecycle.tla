----------------------------- MODULE Lifecycle -----------------------------
(***************************************************************************)
(* The life of the process: main, the serve command, App.Init, App.Serve   *)
(* and App.Stop, with the goroutines of the two listeners, the requests    *)
(* they handle and the signals the process gets.  The hub is the component *)
(* module WsHub specifies: here it only runs, and Hub.Stop returns (which  *)
(* is WsHub's StopTerminates).                                             *)
(***************************************************************************)
EXTENDS Integers, FiniteSets

CONSTANT MaxRequests  \* bound: requests handled at a time

ASSUME LifecycleAssumption == MaxRequests \in Nat

Dialled == {"price", "indexer", "oracle"}
Resources == Dialled \cup {"redis"}
Listeners == {"server", "healthz"}

VARIABLES
    main,      \* where the main goroutine is
    res,       \* res[x]: "none", "open" or "closed"
    hub,       \* "none", "built", "running" or "stopped"
    listener,  \* listener[l]: its goroutine
    wg,        \* app.wg's counter
    errCh,     \* errors in the channel, which has room for one
    signal,    \* a signal waits in the quit channel
    handling,  \* requests the REST handlers are working on
    timedOut,  \* history: server.Shutdown ran into its deadline
    failed     \* history: listeners whose Serve returned an error

vars == <<main, res, hub, listener, wg, errCh, signal, handling, timedOut,
          failed>>

env == <<signal, handling, timedOut, failed>>

Main == {"new", "config", "validate", "dial price", "dial indexer", "dial oracle", "redis",
         "server", "healthz", "ready", "start", "notify", "select",
         "shutdown server", "shutdown healthz", "stop hub", "wait",
         "close price", "close indexer", "close oracle", "close redis",
         "modules", "exit 0", "exit 1", "killed"}

Exited == main \in {"exit 0", "exit 1", "killed"}

Stopping == main \in {"shutdown server", "shutdown healthz", "stop hub", "wait",
                      "close price", "close indexer", "close oracle",
                      "close redis", "modules"}

Init ==
    /\ main = "new"
    /\ res = [x \in Resources |-> "none"]
    /\ hub = "none"
    /\ listener = [l \in Listeners |-> "none"]
    /\ wg = 0
    /\ errCh = 0
    /\ signal = FALSE
    /\ handling = 0
    /\ timedOut = FALSE
    /\ failed = {}

-----------------------------------------------------------------------------
(***************************************************************************)
(* main, the root command's PersistentPreRunE and App.Init.  An error of   *)
(* RunE makes cobra skip PostRun (cobra is not part of this repository),   *)
(* and main exits with status 1.                                           *)
(***************************************************************************)

\* The Close calls of a failing step: res after closing the connections xs.
Closed(xs) == [x \in Resources |-> IF x \in xs THEN "closed" ELSE res[x]]

Fail == main' = "exit 1" /\ UNCHANGED <<hub, listener, wg, errCh, env>>

Goto(next) == main' = next /\ UNCHANGED <<listener, wg, errCh, env>>

\* internal.NewApplication: the build date may not parse.
NewApplication ==
    /\ main = "new"
    /\ \/ Goto("config") /\ UNCHANGED <<res, hub>>
       \/ Fail /\ UNCHANGED res

\* The config file is unreadable, or a value does not decode; a missing file
\* is no error.
initializeConfig ==
    /\ main = "config"
    /\ \/ Goto("validate") /\ UNCHANGED <<res, hub>>
       \/ Fail /\ UNCHANGED res

Validate ==
    /\ main = "validate"
    /\ \/ Goto("dial price") /\ UNCHANGED <<res, hub>>
       \/ Fail /\ UNCHANGED res

DialPrice ==
    /\ main = "dial price"
    /\ \/ /\ Goto("dial indexer")
          /\ res' = [res EXCEPT !["price"] = "open"]
          /\ UNCHANGED hub
       \/ Fail /\ UNCHANGED res

DialIndexer ==
    /\ main = "dial indexer"
    /\ \/ /\ Goto("dial oracle")
          /\ res' = [res EXCEPT !["indexer"] = "open"]
          /\ UNCHANGED hub
       \/ Fail /\ res' = Closed({"price"})

\* The registry's seed, which follows, never fails Init.
DialOracleLeaking ==
    /\ main = "dial oracle"
    /\ \/ /\ Goto("redis")
          /\ res' = [res EXCEPT !["oracle"] = "open"]
          /\ UNCHANGED hub
       \/ Fail /\ res' = Closed({"price"})

DialOracle ==
    /\ main = "dial oracle"
    /\ \/ /\ Goto("redis")
          /\ res' = [res EXCEPT !["oracle"] = "open"]
          /\ UNCHANGED hub
       \/ Fail /\ res' = Closed({"price", "indexer"})

NewRedis ==
    /\ main = "redis"
    /\ Goto("server")
    /\ res' = [res EXCEPT !["redis"] = "open"]
    /\ UNCHANGED hub

\* server.New, then wshub.NewHub
NewServer ==
    /\ main = "server"
    /\ \/ Goto("healthz") /\ hub' = "built" /\ UNCHANGED res
       \/ Fail /\ res' = Closed({"price", "indexer", "oracle", "redis"})

\* App.Init handles an error of healthz.New, which at present returns none.
NewHealthz ==
    /\ main = "healthz"
    /\ \/ Goto("ready") /\ UNCHANGED <<res, hub>>
       \/ Fail /\ res' = Closed({"price", "indexer", "oracle", "redis"})

-----------------------------------------------------------------------------
(***************************************************************************)
(* App.Serve                                                               *)
(***************************************************************************)

StartHub ==
    /\ main = "ready"
    /\ Goto("start")
    /\ hub' = "running"
    /\ UNCHANGED res

StartListenersFirst ==
    /\ main \in {"ready", "start"}
    /\ listener["server"] = "none" \/ main = "start"
    /\ main' = IF main = "ready" THEN "ready" ELSE "notify"
    /\ listener' = IF main = "ready" THEN [l \in Listeners |-> "serving"]
                                     ELSE listener
    /\ wg' = IF main = "ready" THEN wg + 2 ELSE wg
    /\ UNCHANGED <<res, hub, errCh, env>>

StartListenersAddOnce ==
    /\ main = "start"
    /\ main' = "notify"
    /\ wg' = wg + 1
    /\ listener' = [l \in Listeners |-> "serving"]
    /\ UNCHANGED <<res, hub, errCh, env>>

\* app.wg.Add(1) and a goroutine, for each of the two
StartListeners ==
    /\ main = "start"
    /\ main' = "notify"
    /\ wg' = wg + 2
    /\ listener' = [l \in Listeners |-> "serving"]
    /\ UNCHANGED <<res, hub, errCh, env>>

Notify ==
    /\ main = "notify"
    /\ Goto("select")
    /\ UNCHANGED <<res, hub>>

\* A signal kills the process until Notify asks for it; the quit channel
\* keeps one.
Signal ==
    /\ ~Exited
    /\ \/ /\ main # "select" /\ ~Stopping
          /\ main' = "killed"
          /\ UNCHANGED signal
       \/ /\ main = "select" \/ Stopping
          /\ signal' = TRUE
          /\ UNCHANGED main
    /\ UNCHANGED <<res, hub, listener, wg, errCh, handling, timedOut, failed>>

\* select: case <-quit.  RunE returns nil, and PostRun calls App.Stop.
SelectQuit ==
    /\ main = "select"
    /\ signal
    /\ main' = "shutdown server"
    /\ signal' = FALSE
    /\ UNCHANGED <<res, hub, listener, wg, errCh, handling, timedOut, failed>>

\* select: case err := <-errCh.  RunE returns an error: no PostRun, exit 1.
SelectError ==
    /\ main = "select"
    /\ errCh > 0
    /\ main' = "exit 1"
    /\ errCh' = errCh - 1
    /\ UNCHANGED <<res, hub, listener, wg, env>>

\* A listener's Serve returns an error (the port is taken, Accept fails).
ListenerFails(l) ==
    /\ ~Exited
    /\ listener[l] = "serving"
    /\ listener' = [listener EXCEPT ![l] = "sending"]
    /\ failed' = failed \cup {l}
    /\ UNCHANGED <<main, res, hub, wg, errCh, signal, handling, timedOut>>

\* errCh <- err: blocks while the channel is full.  Then the deferred
\* app.wg.Done.
SendErrorDropped(l) ==
    /\ ~Exited
    /\ listener[l] = "sending"
    /\ listener' = [listener EXCEPT ![l] = "returned"]
    /\ wg' = wg - 1
    /\ UNCHANGED <<main, res, hub, errCh, env>>

SendError(l) ==
    /\ ~Exited
    /\ listener[l] = "sending"
    /\ errCh < 1
    /\ errCh' = errCh + 1
    /\ listener' = [listener EXCEPT ![l] = "returned"]
    /\ wg' = wg - 1
    /\ UNCHANGED <<main, res, hub, env>>

\* Serve returns because Shutdown was called: ErrServerClosed is no error.
ListenerClosed(l) ==
    /\ ~Exited
    /\ listener[l] = "closing"
    /\ listener' = [listener EXCEPT ![l] = "returned"]
    /\ wg' = wg - 1
    /\ UNCHANGED <<main, res, hub, errCh, env>>

\* A request begins on a new connection, or on one kept alive, which neither
\* an Accept error nor Shutdown closes: Shutdown has closed them all when it
\* returns in time.
RequestBegins ==
    /\ ~Exited
    /\ listener["server"] # "none"
    /\ main \in {"notify", "select", "shutdown server"} \/ timedOut
    /\ handling < MaxRequests
    /\ handling' = handling + 1
    /\ UNCHANGED <<main, res, hub, listener, wg, errCh, signal, timedOut, failed>>

RequestEnds ==
    /\ ~Exited
    /\ handling > 0
    /\ handling' = handling - 1
    /\ UNCHANGED <<main, res, hub, listener, wg, errCh, signal, timedOut, failed>>

-----------------------------------------------------------------------------
(***************************************************************************)
(* App.Stop                                                                *)
(***************************************************************************)

\* http.Server.Shutdown closes the listening socket ...
CloseListener(l) ==
    /\ main = [server |-> "shutdown server", healthz |-> "shutdown healthz"][l]
    /\ listener[l] = "serving"
    /\ listener' = [listener EXCEPT ![l] = "closing"]
    /\ UNCHANGED <<main, res, hub, wg, errCh, env>>

\* ... and waits until the requests are done, or for the 30 s deadline that
\* both Shutdown calls share.
ShutdownServerNoDeadline ==
    /\ main = "shutdown server"
    /\ listener["server"] # "serving"
    /\ handling = 0
    /\ Goto("shutdown healthz")
    /\ UNCHANGED <<res, hub>>

ShutdownServer ==
    /\ main = "shutdown server"
    /\ listener["server"] # "serving"
    /\ main' = "shutdown healthz"
    /\ \/ handling = 0 /\ UNCHANGED timedOut
       \/ handling > 0 /\ timedOut' = TRUE
    /\ UNCHANGED <<res, hub, listener, wg, errCh, signal, handling, failed>>

ShutdownHealthz ==
    /\ main = "shutdown healthz"
    /\ listener["healthz"] # "serving"
    /\ Goto("stop hub")
    /\ UNCHANGED <<res, hub>>

\* Hub.Stop returns when both upstream loops have.
StopHubForgotten ==
    /\ main = "stop hub"
    /\ Goto("wait")
    /\ UNCHANGED <<res, hub>>

StopHub ==
    /\ main = "stop hub"
    /\ Goto("wait")
    /\ hub' = "stopped"
    /\ UNCHANGED res

\* app.wg.Wait(): for the two listener goroutines
Wait ==
    /\ main = "wait"
    /\ wg = 0
    /\ Goto("close price")
    /\ UNCHANGED <<res, hub>>

\* Close price, indexer, oracle, redis, in this order; errors only matter
\* for the value Stop returns.
Close(x, step, next) ==
    /\ main = step
    /\ Goto(next)
    /\ res' = [res EXCEPT ![x] = "closed"]
    /\ UNCHANGED hub

CloseAll ==
    \/ Close("price", "close price", "close indexer")
    \/ Close("indexer", "close indexer", "close oracle")
    \/ Close("oracle", "close oracle", "close redis")
    \/ Close("redis", "close redis", "modules")

\* modules.StopAll walks an empty list: the application registers no module.
\* PostRun only logs what Stop returns, and main returns.
StopModules ==
    /\ main = "modules"
    /\ Goto("exit 0")
    /\ UNCHANGED <<res, hub>>

-----------------------------------------------------------------------------

InitNext == \/ NewApplication \/ initializeConfig \/ Validate
            \/ DialPrice \/ DialIndexer \/ DialOracle
            \/ NewRedis \/ NewServer \/ NewHealthz

ServeNext == \/ StartHub \/ StartListeners \/ Notify
             \/ SelectQuit \/ SelectError

StopNext == \/ \E l \in Listeners : CloseListener(l)
            \/ ShutdownServer \/ ShutdownHealthz
            \/ StopHub \/ Wait \/ CloseAll \/ StopModules

ListenerNext(l) == ListenerFails(l) \/ SendError(l) \/ ListenerClosed(l)

Next == \/ InitNext \/ ServeNext \/ StopNext \/ Signal
        \/ \E l \in Listeners : ListenerNext(l)
        \/ RequestBegins \/ RequestEnds

Spec == Init /\ [][Next]_vars

\* Goroutines that can run do, Shutdown gives up at its deadline, and
\* Hub.Stop returns.  Nothing makes a signal come, a listener fail or a
\* request end.
Fairness ==
    /\ WF_vars(InitNext)
    /\ WF_vars(ServeNext)
    /\ WF_vars(StopNext)
    /\ \A l \in Listeners : WF_vars(SendError(l) \/ ListenerClosed(l))

FairSpec == Spec /\ Fairness

-----------------------------------------------------------------------------

\* Types; app.wg's counter never goes below zero, where WaitGroup panics.
TypeOK ==
    /\ main \in Main
    /\ res \in [Resources -> {"none", "open", "closed"}]
    /\ hub \in {"none", "built", "running", "stopped"}
    /\ listener \in [Listeners -> {"none", "serving", "sending", "closing",
                                   "returned"}]
    /\ wg \in 0..Cardinality(Listeners)
    /\ errCh \in 0..1
    /\ signal \in BOOLEAN
    /\ handling \in 0..MaxRequests
    /\ timedOut \in BOOLEAN
    /\ failed \subseteq Listeners

\* Whatever step of Init fails, the connections it had opened are closed
\* when the process exits, and after App.Stop all four are.
NothingLeftOpen ==
    (main = "exit 1" /\ hub # "running") \/ main = "exit 0" =>
        \A x \in Resources : res[x] # "open"

\* A connection is closed only when nobody uses it any more: not while the
\* hub's loops or a listener run, and not under a request, unless that
\* request outlived Shutdown's deadline.
ClosedAfterUse ==
    (\E x \in Resources : res[x] = "closed") =>
        /\ hub # "running"
        /\ \A l \in Listeners : listener[l] \in {"none", "returned"}
        /\ handling > 0 => timedOut

\* /readyz says "ready": App.Init passes no ReadyChecker, so that it does
\* whenever the operator listener is up.
Ready == listener["healthz"] = "serving" /\ ~Exited

\* A listener that answers, /readyz in particular, has everything behind it:
\* the hub runs and the four connections are open, from the first request to
\* the moment Stop closes the listener (App.Serve, App.Stop, handleReadyz).
ReadyMeansUp ==
    Ready \/ (listener["server"] = "serving" /\ ~Exited) =>
        hub = "running" /\ \A x \in Resources : res[x] = "open"

\* A listener that fails takes the process down, for it to be restarted: it
\* does not live on with half its surface (errCh, App.Serve).  Only when both
\* fail during Stop is there an exception, see StopBounded.
FailureEnds ==
    failed # {} ~> (Exited \/ (failed = Listeners /\ Stopping))

\* A signal the process asked for ends it, through all of App.Stop and with
\* requests that never end, unless both listeners had failed on their own.
SignalEnds == signal ~> (Exited \/ failed = Listeners)

\* application.go: "Stop tears down listeners + upstream clients with a
\* bounded deadline" -- Stop always ends.
StopBounded == Stopping ~> Exited

\* serve.go: "PostRun is used so Stop executes even if RunE errors; Cobra
\* always calls PostRun." -- after an error of Serve the hub is stopped and
\* the connections are closed.
StopAfterError ==
    main = "exit 1" => /\ hub # "running"
                       /\ \A x \in Resources : res[x] # "open"
=============================================================================
