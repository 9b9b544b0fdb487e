--------------------------- MODULE ServerLifecycle ---------------------------
(***************************************************************************)
(* The life of a server process (server/server.go, startGateway of         *)
(* server/gateway.go): services are registered, Serve listens, starts the  *)
(* goroutine that publishes the address, the one that handles signals and, *)
(* in gateway mode, the HTTP server, and accepts connections; Close, by a  *)
(* user or upon a signal, unregisters, waits and exits.                    *)
(*                                                                         *)
(* What happens on a connection is in ServerConn, and what Register of the *)
(* publisher does, request by request, in Discovery: here it has published *)
(* the address, or given up.  A name is a model value, Lower is            *)
(* strings.ToLower, and a method is fit, unfit, or fit but for the type of *)
(* its context.  All services are registered before Serve.                 *)
(* A definition marked "Wrong" is a plausible bug in the one after it,     *)
(* kept to see that the properties below reject it; nothing uses it.       *)
(***************************************************************************)
EXTENDS Naturals, FiniteSets

CONSTANTS
    Names,        \* names of types, services and methods
    NoName,       \* the empty name
    Lower,        \* the name in lower case of each name
    Exported,     \* the names that begin with an upper-case letter
    Types,        \* receivers: records of name and methods
    NoService,    \* nil
    Users,        \* goroutines that call Close, once each
    Handler,      \* the goroutine handleSignal
    FirstDelay,   \* 5 ms
    MaxDelay,     \* 1 s
    MaxServices,  \* bound: calls of Register and RegisterName
    MaxErrors,    \* bound: temporary errors of Accept in a row
    MaxSignals    \* bound: signals sent to the process

Methods == [name : Names, shape : {"fit", "unfit", "context"}]
Closers == Users \cup {Handler}

ASSUME NameAssumption ==
    /\ NoName \notin Names /\ Lower \in [Names -> Names] /\ NoService \notin Types
    /\ Exported \subseteq Names
    /\ Types \subseteq [name : Names \cup {NoName}, methods : SUBSET Methods]

ASSUME LifecycleAssumption ==
    /\ Handler \notin Users
    /\ FirstDelay \in Nat \ {0} /\ MaxDelay \in Nat /\ FirstDelay <= MaxDelay
    /\ MaxServices \in Nat /\ MaxErrors \in Nat /\ MaxSignals \in Nat

VARIABLES
    \* fields of Server
    serviceMap,   \* lower-case name -> receiver, or NoService
    name,         \* the name under which the server is published
    discovery,    \* SetEtcdPublisher was given
    advertised,   \* ... with an address
    useGateWay,
    doneChan,     \* "nil", "open" or "closed"
    wg,           \* the WaitGroup
    \* EtcdPublisher
    stopClosed,   \* stopCh is closed
    key,          \* the name under which etcd has the address, or NoName
    \* goroutines
    main,         \* Serve, and serve
    tempDelay,
    reg,          \* the one that runs Register
    handler,      \* handleSignal
    closer,       \* where each caller of Close is
    exit,         \* "no", or how the process ended
    signals,
    \* history
    services,     \* calls of register
    refused,      \* the last of them returned an error
    errors,       \* temporary errors since the last connection
    left,         \* a request to etcd failed, and the address may stay there
    uncounted     \* wg.Wait returned before wg.Add

mapVars   == <<serviceMap, name, services, refused>>
options   == <<discovery, advertised, useGateWay>>
pubVars   == <<reg, wg, key, left>>
stopVars  == <<doneChan, stopClosed>>
serveVars == <<main, tempDelay, errors>>
closeVars == <<handler, closer, signals, uncounted>>
vars == <<mapVars, options, pubVars, stopVars, serveVars, closeVars, exit>>

Init ==
    /\ serviceMap = [n \in Names |-> NoService] /\ name = NoName
    /\ services = 0 /\ refused = FALSE
    /\ discovery \in BOOLEAN /\ useGateWay \in BOOLEAN
    /\ advertised \in BOOLEAN /\ (advertised => discovery)
    /\ doneChan = "nil" /\ stopClosed = FALSE
    /\ reg = "none" /\ wg = 0 /\ key = NoName /\ left = FALSE
    /\ main = "setup" /\ tempDelay = 0 /\ errors = 0
    /\ handler = "none" /\ closer = [g \in Closers |-> "idle"]
    /\ signals = 0 /\ uncounted = FALSE
    /\ exit = "no"

-----------------------------------------------------------------------------
(* Register and RegisterName.                                              *)

\* The error about a context of the wrong type is logged, and the method taken.
SuitableMethods(t) == {m \in t.methods : m.shape # "unfit"}

\* Wrong: the service is filed under its name as it is.
RegisterAsIs(t, n, useName) ==
    LET ok == n # NoName /\ (n \in Exported \/ useName) /\ SuitableMethods(t) # {} IN
    /\ exit = "no" /\ main = "setup" /\ services < MaxServices
    /\ services' = services + 1
    /\ name' = n
    /\ refused' = ~ok
    /\ serviceMap' = IF ok THEN [serviceMap EXCEPT ![n] = t] ELSE serviceMap
    /\ UNCHANGED <<options, pubVars, stopVars, serveVars, closeVars, exit>>

\* register: the name of the server is set before anything is looked at.
Register(t, n, useName) ==
    LET ok == n # NoName /\ (n \in Exported \/ useName) /\ SuitableMethods(t) # {} IN
    /\ exit = "no" /\ main = "setup" /\ services < MaxServices
    /\ services' = services + 1
    /\ name' = n
    /\ refused' = ~ok
    /\ serviceMap' = IF ok THEN [serviceMap EXCEPT ![Lower[n]] = t] ELSE serviceMap
    /\ UNCHANGED <<options, pubVars, stopVars, serveVars, closeVars, exit>>

RegisterType(t) == Register(t, t.name, FALSE)
RegisterName(t) == \E n \in Names \cup {NoName} : Register(t, n, TRUE)

-----------------------------------------------------------------------------
(* Serve, and the accept loop of serve.                                    *)

\* log.Fatal: nothing listens, or nothing can be published.
ServeFatal == /\ exit = "no" /\ main = "setup"
              /\ exit' = "fatal"
              /\ UNCHANGED <<mapVars, options, pubVars, stopVars, serveVars, closeVars>>

Serve == /\ exit = "no" /\ main = "setup"
         /\ discovery => name # NoName /\ advertised
         /\ main' = "accept"
         /\ reg' = IF discovery THEN "started" ELSE "none"
         /\ handler' = "started"
         /\ UNCHANGED <<mapVars, options, wg, key, left, stopVars, tempDelay, errors,
                        closer, signals, uncounted, exit>>

\* Wrong: the delay stays.
AcceptKeepsDelay ==
    /\ exit = "no" /\ main = "accept"
    /\ errors' = 0
    /\ UNCHANGED <<mapVars, options, pubVars, stopVars, main, tempDelay, closeVars, exit>>

\* A connection: serveConn takes it.
Accept == /\ exit = "no" /\ main = "accept"
          /\ tempDelay' = 0 /\ errors' = 0
          /\ UNCHANGED <<mapVars, options, pubVars, stopVars, main, closeVars, exit>>

\* In gateway mode cmux accepts, and tries again after a temporary error.
AcceptFails == /\ exit = "no" /\ main = "accept"
               /\ \/ /\ ~useGateWay /\ errors < MaxErrors
                     /\ main' = "temporary" /\ errors' = errors + 1
                  \/ main' = "permanent" /\ UNCHANGED errors
               /\ UNCHANGED <<mapVars, options, pubVars, stopVars, tempDelay, closeVars, exit>>

\* getDoneChan makes the channel when it is first asked for.  Serve returns, or
\* sleeps for a while.
AcceptError ==
    /\ exit = "no" /\ main \in {"temporary", "permanent"}
    /\ doneChan' = IF doneChan = "nil" THEN "open" ELSE doneChan
    /\ IF main = "temporary" /\ doneChan # "closed"
       THEN LET d == IF tempDelay = 0 THEN FirstDelay ELSE 2 * tempDelay IN
            /\ tempDelay' = IF d > MaxDelay THEN MaxDelay ELSE d
            /\ main' = "sleep"
       ELSE main' = "returned" /\ UNCHANGED tempDelay
    /\ UNCHANGED <<mapVars, options, pubVars, stopClosed, errors, closeVars, exit>>

Wake == /\ exit = "no" /\ main = "sleep"
        /\ main' = "accept"
        /\ UNCHANGED <<mapVars, options, pubVars, stopVars, tempDelay, errors, closeVars, exit>>

\* The main function of the user may end when Serve has returned.
MainEnds == /\ exit = "no" /\ main = "returned"
            /\ exit' = "main"
            /\ UNCHANGED <<mapVars, options, pubVars, stopVars, serveVars, closeVars>>

\* http.Serve fails, too, when cmux has closed its listener, and panics.
GatewayPanics == /\ exit = "no" /\ useGateWay /\ main \in {"permanent", "returned"}
                 /\ exit' = "panic"
                 /\ UNCHANGED <<mapVars, options, pubVars, stopVars, serveVars, closeVars>>

-----------------------------------------------------------------------------
(* The goroutine that registers the service.                               *)

RegAt(here, there) == exit = "no" /\ reg = here /\ reg' = there

\* wg.Add is called by the goroutine itself.
Add == /\ RegAt("started", "keepalive")
       /\ wg' = wg + 1
       /\ UNCHANGED <<mapVars, options, key, left, stopVars, serveVars, closeVars, exit>>

\* keepAlive puts the address and comes back with a channel, ...
Publish == /\ RegAt("keepalive", "select")
           /\ key' = Lower[name]
           /\ UNCHANGED <<mapVars, options, wg, left, stopVars, serveVars, closeVars, exit>>

\* ... or with an error, before or after the address was put.
PublishFails == /\ RegAt("keepalive", "returned")
                /\ key' \in {key, Lower[name]}
                /\ left' = TRUE
                /\ UNCHANGED <<mapVars, options, wg, stopVars, serveVars, closeVars, exit>>

\* The channel of the lease closes, whether the lease has expired or not.
LeaseLost == /\ RegAt("select", "keepalive")
             /\ key' \in {key, NoName}
             /\ UNCHANGED <<mapVars, options, wg, left, stopVars, serveVars, closeVars, exit>>

\* Register's select sees that stopCh is closed ...
StopSeen == /\ RegAt("select", "revoking")
            /\ stopClosed
            /\ UNCHANGED <<mapVars, options, wg, key, left, stopVars, serveVars, closeVars, exit>>

\* ... and the lease is revoked, or etcd fails.
Revoke == /\ RegAt("revoking", "returned")
          /\ \/ key' = NoName /\ UNCHANGED left
             \/ left' = TRUE /\ UNCHANGED key
          /\ UNCHANGED <<mapVars, options, wg, stopVars, serveVars, closeVars, exit>>

\* The deferred wg.Done.
Finish == /\ RegAt("returned", "done")
          /\ wg' = wg - 1
          /\ UNCHANGED <<mapVars, options, key, left, stopVars, serveVars, closeVars, exit>>

-----------------------------------------------------------------------------
(* Signals.                                                                *)

Notify == /\ exit = "no" /\ handler = "started"
          /\ handler' = "receive"
          /\ UNCHANGED <<mapVars, options, pubVars, stopVars, serveVars, closer, signals,
                         uncounted, exit>>

\* Wrong: handleSignal goes on receiving while Close runs.
TerminateStays ==
    /\ exit = "no" /\ signals < MaxSignals
    /\ signals' = signals + 1
    /\ exit' = IF handler \in {"none", "started"} THEN "killed" ELSE exit
    /\ closer' = IF handler = "receive" THEN [closer EXCEPT ![Handler] = "lock"] ELSE closer
    /\ UNCHANGED <<mapVars, options, pubVars, stopVars, serveVars, handler, uncounted>>

\* HUP, INT or TERM.  Before signal.Notify it kills the process; later it is
\* lost unless handleSignal is receiving, as its channel has no buffer.
Terminate ==
    /\ exit = "no" /\ signals < MaxSignals
    /\ signals' = signals + 1
    /\ exit' = IF handler \in {"none", "started"} THEN "killed" ELSE exit
    /\ IF handler = "receive"
       THEN handler' = "closing" /\ closer' = [closer EXCEPT ![Handler] = "lock"]
       ELSE UNCHANGED <<handler, closer>>
    /\ UNCHANGED <<mapVars, options, pubVars, stopVars, serveVars, uncounted>>

Quit == /\ exit = "no" /\ signals < MaxSignals
        /\ signals' = signals + 1
        /\ exit' = IF handler \in {"none", "started"} THEN "killed" ELSE exit
        /\ handler' = IF handler = "receive" THEN "logging" ELSE handler
        /\ UNCHANGED <<mapVars, options, pubVars, stopVars, serveVars, closer, uncounted>>

Logged == /\ exit = "no" /\ handler = "logging"
          /\ handler' = "receive"
          /\ UNCHANGED <<mapVars, options, pubVars, stopVars, serveVars, closer, signals,
                         uncounted, exit>>

-----------------------------------------------------------------------------
(* Close.                                                                  *)

CloseCalled(u) == /\ exit = "no" /\ closer[u] = "idle"
                  /\ closer' = [closer EXCEPT ![u] = "lock"]
                  /\ UNCHANGED <<mapVars, options, pubVars, stopVars, serveVars, handler,
                                 signals, uncounted, exit>>

\* Wrong: stopCh is left open.
CloseStopsServer(g) ==
    /\ exit = "no" /\ closer[g] = "lock"
    /\ doneChan' = IF doneChan = "open" THEN "closed" ELSE doneChan
    /\ closer' = [closer EXCEPT ![g] = "wait"]
    /\ UNCHANGED <<mapVars, options, pubVars, stopClosed, serveVars, handler, signals,
                   uncounted, exit>>

\* The critical section of server.mu.  A channel that is closed twice panics.
CloseStops(g) ==
    /\ exit = "no" /\ closer[g] = "lock"
    /\ IF doneChan = "closed" \/ (discovery /\ stopClosed)
       THEN exit' = "panic" /\ UNCHANGED <<stopVars, closer>>
       ELSE /\ doneChan' = IF doneChan = "open" THEN "closed" ELSE doneChan
            /\ stopClosed' = discovery
            /\ closer' = [closer EXCEPT ![g] = "wait"]
            /\ UNCHANGED exit
    /\ UNCHANGED <<mapVars, options, pubVars, serveVars, handler, signals, uncounted>>

\* Wrong: nobody is waited for.
CloseWaitsNot(g) ==
    /\ exit = "no" /\ closer[g] = "wait"
    /\ uncounted' = (uncounted \/ reg \in {"none", "started"})
    /\ closer' = [closer EXCEPT ![g] = "exit"]
    /\ UNCHANGED <<mapVars, options, pubVars, stopVars, serveVars, handler, signals, exit>>

\* wg.Wait.
CloseWaits(g) ==
    /\ exit = "no" /\ closer[g] = "wait" /\ wg = 0
    /\ uncounted' = (uncounted \/ reg \in {"none", "started"})
    /\ closer' = [closer EXCEPT ![g] = "exit"]
    /\ UNCHANGED <<mapVars, options, pubVars, stopVars, serveVars, handler, signals, exit>>

\* os.Exit(0).
Exit(g) == /\ exit = "no" /\ closer[g] = "exit"
           /\ exit' = "exit 0"
           /\ UNCHANGED <<mapVars, options, pubVars, stopVars, serveVars, closeVars>>

-----------------------------------------------------------------------------
Close(g) == CloseStops(g) \/ CloseWaits(g) \/ Exit(g)

Registration == Add \/ Publish \/ PublishFails \/ StopSeen \/ Revoke \/ Finish

Serving == Accept \/ AcceptFails \/ AcceptError \/ Wake \/ MainEnds \/ GatewayPanics

Next == \/ \E t \in Types : RegisterType(t) \/ RegisterName(t)
        \/ ServeFatal \/ Serve \/ Serving
        \/ Registration \/ LeaseLost
        \/ Notify \/ Terminate \/ Quit \/ Logged
        \/ \E u \in Users : CloseCalled(u)
        \/ \E g \in Closers : Close(g)

Spec == Init /\ [][Next]_vars

\* Goroutines are scheduled, and as select chooses at random, Register comes to
\* see that stopCh is closed.  Nothing makes etcd answer: the context of its
\* requests is context.TODO().
FairSpec == /\ Spec
            /\ \A g \in Closers : WF_vars(Close(g))
            /\ WF_vars(Add) /\ WF_vars(Finish) /\ SF_vars(StopSeen)

-----------------------------------------------------------------------------
(* Properties.                                                             *)

MapTypes == /\ serviceMap \in [Names -> Types \cup {NoService}]
            /\ name \in Names \cup {NoName}
            /\ services \in 0..MaxServices /\ refused \in BOOLEAN

OptionTypes == discovery \in BOOLEAN /\ advertised \in BOOLEAN /\ useGateWay \in BOOLEAN

PubTypes == /\ reg \in {"none", "started", "keepalive", "select", "revoking",
                       "returned", "done"}
            /\ wg \in Nat /\ key \in Names \cup {NoName} /\ left \in BOOLEAN

StopTypes == doneChan \in {"nil", "open", "closed"} /\ stopClosed \in BOOLEAN

ServeTypes ==
    /\ main \in {"setup", "accept", "temporary", "permanent", "sleep", "returned"}
    /\ tempDelay \in 0..MaxDelay /\ errors \in 0..MaxErrors

CloseTypes == /\ handler \in {"none", "started", "receive", "logging", "closing"}
              /\ closer \in [Closers -> {"idle", "lock", "wait", "exit"}]
              /\ signals \in 0..MaxSignals /\ uncounted \in BOOLEAN

TypeOK == /\ MapTypes /\ OptionTypes /\ PubTypes /\ StopTypes /\ ServeTypes /\ CloseTypes
          /\ exit \in {"no", "fatal", "main", "panic", "killed", "exit 0"}

\* The delay after the n-th temporary error in a row: the first one doubled
\* n - 1 times, and at most MaxDelay.
Backoff[n \in Nat] ==
    IF n = 0 THEN 0
    ELSE IF n = 1 THEN FirstDelay
    ELSE IF 2 * Backoff[n-1] > MaxDelay THEN MaxDelay ELSE 2 * Backoff[n-1]

\* The accept loop backs off by the errors since the last connection, whatever
\* happened before it.
BacksOff ==
    main # "returned" => tempDelay = Backoff[IF main = "temporary" THEN errors - 1 ELSE errors]

\* Clients find in etcd the name of a service that the server has, though the
\* names of both are changed on their way (Register and Serve lower them each
\* on its own); unless the last registration was refused, whose name is
\* published all the same.
PublishedFound == key # NoName /\ ~refused => serviceMap[key] # NoService

\* The WaitGroup counts the goroutine of Register.
Counted == /\ wg = IF reg \in {"keepalive", "select", "revoking", "returned"}
                   THEN 1 ELSE 0
           /\ reg \in {"none", "started"} => key = NoName
           /\ reg = "done" => key = NoName \/ left
           /\ reg = "returned" => key = NoName \/ left

\* A Close that goes on to exit has found Register ended, or not counted.
Waited == \A g \in Closers : closer[g] = "exit" => reg = "done" \/ uncounted

\* Nobody closes the channels but a Close, which then waits or exits.
Stopped == /\ stopClosed \/ doneChan = "closed" =>
                  \E g \in Closers : closer[g] \in {"wait", "exit"}
           /\ closer[Handler] = "idle" <=> handler # "closing"
           /\ handler # "none" => main # "setup"

\* A server that exits by Close, also by one that came while its lease was
\* lost and granted again, leaves no address behind, unless etcd failed it; or
\* unless wg.Wait came before wg.Add.
ExitUnregisters == exit = "exit 0" => key = NoName \/ left \/ uncounted

\* The process panics only if Close is called twice, or the gateway fails: not
\* by any number of signals, though Close must not run twice.
SignalsAlone ==
    exit = "panic" => useGateWay \/ \E g, h \in Closers : g # h /\ closer[g] # "idle"
                                                               /\ closer[h] # "idle"

\* The last name registered has a service, and it alone is published, once no
\* more services are registered.
Named == /\ name # NoName /\ ~refused => serviceMap[Lower[name]] # NoService
         /\ key # NoName => name # NoName /\ key = Lower[name]
         /\ reg # "none" => main # "setup" /\ name # NoName

\* The strengthening under which all of these but BacksOff are inductive; that
\* one is so with the count of errors added (BackoffInv in the proofs).
IInv == /\ TypeOK /\ Counted /\ Waited /\ Stopped /\ Named
        /\ PublishedFound /\ ExitUnregisters /\ SignalsAlone

\* Register waits for the answer to a request to etcd.
AtEtcd == reg \in {"keepalive", "revoking"}

\* Close ends the process, wherever Register is and however often its lease is
\* lost meanwhile: it is never left waiting for a goroutine that does not look
\* at stopCh again.  It is left waiting only by a request to etcd that is never
\* answered, which holds up Register, and Close with it, for ever.
CloseEnds == <>[]AtEtcd \/ \A g \in Closers : closer[g] # "idle" ~> exit # "no"
=============================================================================
