------------------------ MODULE ServerLifecycleProofs ------------------------
(* Proofs about ServerLifecycle: IInv is inductive, and what follows.      *)
EXTENDS ServerLifecycle, NaturalSets, TLAPS

\* The initial states satisfy the strengthening.
LEMMA InitInv == ASSUME Init PROVE IInv
  <1>1. /\ 0 \in 0..MaxServices /\ 0 \in 0..MaxDelay /\ 0 \in 0..MaxErrors
        /\ 0 \in 0..MaxSignals
    BY LifecycleAssumption
  <1>2. MapTypes /\ PubTypes /\ StopTypes
    BY <1>1 DEF Init, MapTypes, PubTypes, StopTypes
  <1>3. OptionTypes BY DEF Init, OptionTypes
  <1>4. ServeTypes BY <1>1 DEF Init, ServeTypes
  <1>5. CloseTypes BY <1>1 DEF Init, CloseTypes
  <1>6. TypeOK BY <1>2, <1>3, <1>4, <1>5 DEF Init, TypeOK
  <1>7. Counted /\ Waited /\ Stopped /\ Named
    BY DEF Init, Counted, Waited, Stopped, Named, Closers
  <1>8. PublishedFound /\ ExitUnregisters /\ SignalsAlone
    BY DEF Init, PublishedFound, ExitUnregisters, SignalsAlone
  <1> QED BY <1>6, <1>7, <1>8 DEF IInv

\* Steps keep the types of the services, ...
LEMMA MapTypesStep ==
  ASSUME IInv, [Next]_vars PROVE MapTypes'
  <1>1. ASSUME UNCHANGED <<serviceMap, name, services, refused>> PROVE MapTypes'
    BY <1>1 DEF IInv, TypeOK, MapTypes
  <1>2. ASSUME NEW t \in Types, RegisterType(t) PROVE MapTypes'
    BY <1>2, NameAssumption, LifecycleAssumption
    DEF RegisterType, Register, mapVars, options, pubVars, stopVars, serveVars, closeVars,
       IInv, TypeOK, MapTypes
  <1>3. ASSUME NEW t \in Types, RegisterName(t) PROVE MapTypes'
    BY <1>3, NameAssumption, LifecycleAssumption
    DEF RegisterName, Register, mapVars, options, pubVars, stopVars, serveVars, closeVars,
       IInv, TypeOK, MapTypes
  <1>4. CASE ServeFatal \/ Serve \/ Accept \/ AcceptFails \/ AcceptError \/ Wake
            \/ MainEnds \/ GatewayPanics \/ Add \/ Publish \/ PublishFails \/ StopSeen \/ Revoke
            \/ Finish \/ LeaseLost \/ Notify \/ Terminate \/ Quit \/ Logged
            \/ (\E u \in Users : CloseCalled(u)) \/ (\E g \in Closers : CloseStops(g))
            \/ (\E g \in Closers : CloseWaits(g)) \/ (\E g \in Closers : Exit(g))
            \/ UNCHANGED vars
    BY <1>1, <1>4
    DEF ServeFatal, Serve, Accept, AcceptFails, AcceptError, Wake, MainEnds, GatewayPanics,
       Add, RegAt, Publish, PublishFails, StopSeen, Revoke, Finish, LeaseLost, Notify, Terminate,
       Quit, Logged, CloseCalled, CloseStops, CloseWaits, Exit, vars, mapVars, options,
       pubVars, stopVars, serveVars, closeVars
  <1> QED BY <1>1, <1>2, <1>3, <1>4 DEF Next, Serving, Registration, Close

\* ... of the options, ...
LEMMA OptionTypesStep ==
  ASSUME IInv, [Next]_vars PROVE OptionTypes'
  <1>1. ASSUME UNCHANGED <<discovery, advertised, useGateWay>> PROVE OptionTypes'
    BY <1>1 DEF IInv, TypeOK, OptionTypes
  <1>2. CASE (\E t \in Types : RegisterType(t)) \/ (\E t \in Types : RegisterName(t))
            \/ ServeFatal \/ Serve \/ Accept \/ AcceptFails \/ AcceptError \/ Wake
            \/ MainEnds \/ GatewayPanics \/ Add \/ Publish \/ PublishFails \/ StopSeen \/ Revoke
            \/ Finish \/ LeaseLost \/ Notify \/ Terminate \/ Quit \/ Logged
            \/ (\E u \in Users : CloseCalled(u)) \/ (\E g \in Closers : CloseStops(g))
            \/ (\E g \in Closers : CloseWaits(g)) \/ (\E g \in Closers : Exit(g))
            \/ UNCHANGED vars
    BY <1>1, <1>2
    DEF RegisterType, Register, RegisterName, ServeFatal, Serve, Accept, AcceptFails,
       AcceptError, Wake, MainEnds, GatewayPanics, Add, RegAt, Publish, PublishFails,
       StopSeen, Revoke, Finish, LeaseLost, Notify, Terminate, Quit, Logged, CloseCalled,
       CloseStops, CloseWaits, Exit, vars, mapVars, options, pubVars, stopVars,
       serveVars, closeVars
  <1> QED BY <1>1, <1>2 DEF Next, Serving, Registration, Close

\* ... of the publisher, ...
LEMMA PubTypesStep ==
  ASSUME IInv, [Next]_vars PROVE PubTypes'
  <1>1. ASSUME UNCHANGED <<reg, wg, key, left>> PROVE PubTypes'
    BY <1>1 DEF IInv, TypeOK, PubTypes
  <1>2. CASE Serve
    BY <1>2, NameAssumption
    DEF Serve, mapVars, options, pubVars, stopVars, serveVars, closeVars, IInv, TypeOK,
       PubTypes, MapTypes, Counted, Named
  <1>3. CASE Add
    BY <1>3, NameAssumption
    DEF Add, RegAt, mapVars, options, pubVars, stopVars, serveVars, closeVars, IInv, TypeOK,
       PubTypes, MapTypes, Counted, Named
  <1>4. CASE Publish
    BY <1>4, NameAssumption
    DEF Publish, RegAt, mapVars, options, pubVars, stopVars, serveVars, closeVars, IInv,
       TypeOK, PubTypes, MapTypes, Counted, Named
  <1>5. CASE PublishFails
    BY <1>5, NameAssumption
    DEF PublishFails, RegAt, mapVars, options, pubVars, stopVars, serveVars, closeVars,
       IInv, TypeOK, PubTypes, MapTypes, Counted, Named
  <1>6. CASE StopSeen \/ Revoke
    BY <1>6, NameAssumption
    DEF StopSeen, Revoke, RegAt, mapVars, options, pubVars, stopVars, serveVars, closeVars, IInv,
       TypeOK, PubTypes, MapTypes, Counted, Named
  <1>7. CASE Finish
    BY <1>7, NameAssumption
    DEF Finish, RegAt, mapVars, options, pubVars, stopVars, serveVars, closeVars, IInv,
       TypeOK, PubTypes, MapTypes, Counted, Named
  <1>8. CASE LeaseLost
    BY <1>8, NameAssumption
    DEF LeaseLost, RegAt, mapVars, options, pubVars, stopVars, serveVars, closeVars, IInv,
       TypeOK, PubTypes, MapTypes, Counted, Named
  <1>9. CASE (\E t \in Types : RegisterType(t)) \/ (\E t \in Types : RegisterName(t))
            \/ ServeFatal \/ Accept \/ AcceptFails \/ AcceptError \/ Wake \/ MainEnds
            \/ GatewayPanics \/ Notify \/ Terminate \/ Quit \/ Logged
            \/ (\E u \in Users : CloseCalled(u)) \/ (\E g \in Closers : CloseStops(g))
            \/ (\E g \in Closers : CloseWaits(g)) \/ (\E g \in Closers : Exit(g))
            \/ UNCHANGED vars
    BY <1>1, <1>9
    DEF RegisterType, Register, RegisterName, ServeFatal, Accept, AcceptFails, AcceptError,
       Wake, MainEnds, GatewayPanics, Notify, Terminate, Quit, Logged, CloseCalled,
       CloseStops, CloseWaits, Exit, vars, mapVars, options, pubVars, stopVars,
       serveVars, closeVars
  <1> QED BY <1>1, <1>2, <1>3, <1>4, <1>5, <1>6, <1>7, <1>8, <1>9
    DEF Next, Serving, Registration, Close

\* ... of the channels, ...
LEMMA StopTypesStep ==
  ASSUME IInv, [Next]_vars PROVE StopTypes'
  <1>1. ASSUME UNCHANGED <<doneChan, stopClosed>> PROVE StopTypes'
    BY <1>1 DEF IInv, TypeOK, StopTypes
  <1>2. CASE AcceptError
    BY <1>2
    DEF AcceptError, mapVars, options, pubVars, stopVars, serveVars, closeVars, IInv,
       TypeOK, StopTypes, OptionTypes
  <1>3. ASSUME NEW g \in Closers, CloseStops(g) PROVE StopTypes'
    BY <1>3
    DEF CloseStops, mapVars, options, pubVars, stopVars, serveVars, closeVars, IInv, TypeOK,
       StopTypes, OptionTypes
  <1>4. CASE (\E t \in Types : RegisterType(t)) \/ (\E t \in Types : RegisterName(t))
            \/ ServeFatal \/ Serve \/ Accept \/ AcceptFails \/ Wake \/ MainEnds
            \/ GatewayPanics \/ Add \/ Publish \/ PublishFails \/ StopSeen \/ Revoke \/ Finish
            \/ LeaseLost \/ Notify \/ Terminate \/ Quit \/ Logged
            \/ (\E u \in Users : CloseCalled(u)) \/ (\E g \in Closers : CloseWaits(g))
            \/ (\E g \in Closers : Exit(g)) \/ UNCHANGED vars
    BY <1>1, <1>4
    DEF RegisterType, Register, RegisterName, ServeFatal, Serve, Accept, AcceptFails, Wake,
       MainEnds, GatewayPanics, Add, RegAt, Publish, PublishFails, StopSeen, Revoke, Finish,
       LeaseLost, Notify, Terminate, Quit, Logged, CloseCalled, CloseWaits, Exit, vars,
       mapVars, options, pubVars, stopVars, serveVars, closeVars
  <1> QED BY <1>1, <1>2, <1>3, <1>4 DEF Next, Serving, Registration, Close

\* ... of the accept loop, ...
LEMMA ServeTypesStep ==
  ASSUME IInv, [Next]_vars PROVE ServeTypes'
  <1>1. ASSUME UNCHANGED <<main, tempDelay, errors>> PROVE ServeTypes'
    BY <1>1 DEF IInv, TypeOK, ServeTypes
  <1>2. CASE Serve
    BY <1>2, LifecycleAssumption
    DEF Serve, mapVars, options, pubVars, stopVars, serveVars, closeVars, IInv, TypeOK,
       ServeTypes
  <1>3. CASE Accept
    BY <1>3, LifecycleAssumption
    DEF Accept, mapVars, options, pubVars, stopVars, serveVars, closeVars, IInv, TypeOK,
       ServeTypes
  <1>4. CASE AcceptFails
    BY <1>4, LifecycleAssumption
    DEF AcceptFails, mapVars, options, pubVars, stopVars, serveVars, closeVars, IInv,
       TypeOK, ServeTypes
  <1>5. CASE AcceptError
    BY <1>5, LifecycleAssumption
    DEF AcceptError, mapVars, options, pubVars, stopVars, serveVars, closeVars, IInv,
       TypeOK, ServeTypes
  <1>6. CASE Wake
    BY <1>6, LifecycleAssumption
    DEF Wake, mapVars, options, pubVars, stopVars, serveVars, closeVars, IInv, TypeOK,
       ServeTypes
  <1>7. CASE (\E t \in Types : RegisterType(t)) \/ (\E t \in Types : RegisterName(t))
            \/ ServeFatal \/ MainEnds \/ GatewayPanics \/ Add \/ Publish \/ PublishFails
            \/ StopSeen \/ Revoke \/ Finish \/ LeaseLost \/ Notify \/ Terminate \/ Quit \/ Logged
            \/ (\E u \in Users : CloseCalled(u)) \/ (\E g \in Closers : CloseStops(g))
            \/ (\E g \in Closers : CloseWaits(g)) \/ (\E g \in Closers : Exit(g))
            \/ UNCHANGED vars
    BY <1>1, <1>7
    DEF RegisterType, Register, RegisterName, ServeFatal, MainEnds, GatewayPanics, Add,
       RegAt, Publish, PublishFails, StopSeen, Revoke, Finish, LeaseLost, Notify, Terminate, Quit,
       Logged, CloseCalled, CloseStops, CloseWaits, Exit, vars, mapVars, options,
       pubVars, stopVars, serveVars, closeVars
  <1> QED BY <1>1, <1>2, <1>3, <1>4, <1>5, <1>6, <1>7 DEF Next, Serving, Registration, Close

\* ... of what closes the server, ...
LEMMA CloseTypesStep ==
  ASSUME IInv, [Next]_vars PROVE CloseTypes'
  <1>1. ASSUME UNCHANGED <<handler, closer, signals, uncounted>> PROVE CloseTypes'
    BY <1>1 DEF IInv, TypeOK, CloseTypes
  <1>2. CASE Serve
    BY <1>2, LifecycleAssumption
    DEF Serve, mapVars, options, pubVars, stopVars, serveVars, closeVars, IInv, TypeOK,
       CloseTypes, Closers
  <1>3. CASE Notify
    BY <1>3, LifecycleAssumption
    DEF Notify, mapVars, options, pubVars, stopVars, serveVars, closeVars, IInv, TypeOK,
       CloseTypes, Closers
  <1>4. CASE Terminate
    BY <1>4, LifecycleAssumption
    DEF Terminate, mapVars, options, pubVars, stopVars, serveVars, closeVars, IInv, TypeOK,
       CloseTypes, Closers
  <1>5. CASE Quit
    BY <1>5, LifecycleAssumption
    DEF Quit, mapVars, options, pubVars, stopVars, serveVars, closeVars, IInv, TypeOK,
       CloseTypes, Closers
  <1>6. CASE Logged
    BY <1>6, LifecycleAssumption
    DEF Logged, mapVars, options, pubVars, stopVars, serveVars, closeVars, IInv, TypeOK,
       CloseTypes, Closers
  <1>7. ASSUME NEW u \in Users, CloseCalled(u) PROVE CloseTypes'
    BY <1>7, LifecycleAssumption
    DEF CloseCalled, mapVars, options, pubVars, stopVars, serveVars, closeVars, IInv,
       TypeOK, CloseTypes, Closers
  <1>8. ASSUME NEW g \in Closers, CloseStops(g) PROVE CloseTypes'
    BY <1>8, LifecycleAssumption
    DEF CloseStops, mapVars, options, pubVars, stopVars, serveVars, closeVars, IInv, TypeOK,
       CloseTypes, Closers
  <1>9. ASSUME NEW g \in Closers, CloseWaits(g) PROVE CloseTypes'
    BY <1>9, LifecycleAssumption
    DEF CloseWaits, mapVars, options, pubVars, stopVars, serveVars, closeVars, IInv, TypeOK,
       CloseTypes, Closers
  <1>10. CASE (\E t \in Types : RegisterType(t))
            \/ (\E t \in Types : RegisterName(t)) \/ ServeFatal \/ Accept \/ AcceptFails
            \/ AcceptError \/ Wake \/ MainEnds \/ GatewayPanics \/ Add \/ Publish
            \/ PublishFails \/ StopSeen \/ Revoke \/ Finish \/ LeaseLost
            \/ (\E g \in Closers : Exit(g)) \/ UNCHANGED vars
    BY <1>1, <1>10
    DEF RegisterType, Register, RegisterName, ServeFatal, Accept, AcceptFails, AcceptError,
       Wake, MainEnds, GatewayPanics, Add, RegAt, Publish, PublishFails, StopSeen, Revoke, Finish,
       LeaseLost, Exit, vars, mapVars, options, pubVars, stopVars, serveVars, closeVars
  <1> QED BY <1>1, <1>2, <1>3, <1>4, <1>5, <1>6, <1>7, <1>8, <1>9, <1>10
    DEF Next, Serving, Registration, Close

\* ... and of the end of the process.
LEMMA ExitTypesStep ==
  ASSUME IInv, [Next]_vars PROVE (exit \in {"no", "fatal", "main", "panic", "killed", "exit 0"})'
  <1>1. ASSUME UNCHANGED <<exit>> PROVE (exit \in {"no", "fatal", "main", "panic", "killed", "exit 0"})'
    BY <1>1 DEF IInv, TypeOK
  <1>2. CASE ServeFatal
    BY <1>2
    DEF ServeFatal, mapVars, options, pubVars, stopVars, serveVars, closeVars, IInv, TypeOK
  <1>3. CASE MainEnds
    BY <1>3
    DEF MainEnds, mapVars, options, pubVars, stopVars, serveVars, closeVars, IInv, TypeOK
  <1>4. CASE GatewayPanics
    BY <1>4
    DEF GatewayPanics, mapVars, options, pubVars, stopVars, serveVars, closeVars, IInv,
       TypeOK
  <1>5. CASE Terminate
    BY <1>5
    DEF Terminate, mapVars, options, pubVars, stopVars, serveVars, closeVars, IInv, TypeOK
  <1>6. CASE Quit
    BY <1>6
    DEF Quit, mapVars, options, pubVars, stopVars, serveVars, closeVars, IInv, TypeOK
  <1>7. ASSUME NEW g \in Closers, CloseStops(g) PROVE (exit \in {"no", "fatal", "main", "panic", "killed", "exit 0"})'
    BY <1>7
    DEF CloseStops, mapVars, options, pubVars, stopVars, serveVars, closeVars, IInv, TypeOK
  <1>8. ASSUME NEW g \in Closers, Exit(g) PROVE (exit \in {"no", "fatal", "main", "panic", "killed", "exit 0"})'
    BY <1>8
    DEF Exit, mapVars, options, pubVars, stopVars, serveVars, closeVars, IInv, TypeOK
  <1>9. CASE (\E t \in Types : RegisterType(t)) \/ (\E t \in Types : RegisterName(t))
            \/ Serve \/ Accept \/ AcceptFails \/ AcceptError \/ Wake \/ Add \/ Publish
            \/ PublishFails \/ StopSeen \/ Revoke \/ Finish \/ LeaseLost \/ Notify \/ Logged
            \/ (\E u \in Users : CloseCalled(u)) \/ (\E g \in Closers : CloseWaits(g))
            \/ UNCHANGED vars
    BY <1>1, <1>9
    DEF RegisterType, Register, RegisterName, Serve, Accept, AcceptFails, AcceptError, Wake,
       Add, RegAt, Publish, PublishFails, StopSeen, Revoke, Finish, LeaseLost, Notify, Logged,
       CloseCalled, CloseWaits, vars, mapVars, options, pubVars, stopVars, serveVars,
       closeVars
  <1> QED BY <1>1, <1>2, <1>3, <1>4, <1>5, <1>6, <1>7, <1>8, <1>9
    DEF Next, Serving, Registration, Close

\* The WaitGroup goes on counting.
LEMMA CountedStep ==
  ASSUME IInv, [Next]_vars PROVE Counted'
  <1>1. ASSUME UNCHANGED <<reg, wg, key, left>> PROVE Counted'
    BY <1>1 DEF IInv, Counted
  <1>2. CASE Serve
    BY <1>2, NameAssumption
    DEF Serve, mapVars, options, pubVars, stopVars, serveVars, closeVars, IInv, TypeOK,
       PubTypes, MapTypes, Counted, Named
  <1>3. CASE Add
    BY <1>3, NameAssumption
    DEF Add, RegAt, mapVars, options, pubVars, stopVars, serveVars, closeVars, IInv, TypeOK,
       PubTypes, MapTypes, Counted, Named
  <1>4. CASE Publish
    BY <1>4, NameAssumption
    DEF Publish, RegAt, mapVars, options, pubVars, stopVars, serveVars, closeVars, IInv,
       TypeOK, PubTypes, MapTypes, Counted, Named
  <1>5. CASE PublishFails
    BY <1>5, NameAssumption
    DEF PublishFails, RegAt, mapVars, options, pubVars, stopVars, serveVars, closeVars,
       IInv, TypeOK, PubTypes, MapTypes, Counted, Named
  <1>6. CASE StopSeen \/ Revoke
    BY <1>6, NameAssumption
    DEF StopSeen, Revoke, RegAt, mapVars, options, pubVars, stopVars, serveVars, closeVars, IInv,
       TypeOK, PubTypes, MapTypes, Counted, Named
  <1>7. CASE Finish
    BY <1>7, NameAssumption
    DEF Finish, RegAt, mapVars, options, pubVars, stopVars, serveVars, closeVars, IInv,
       TypeOK, PubTypes, MapTypes, Counted, Named
  <1>8. CASE LeaseLost
    BY <1>8, NameAssumption
    DEF LeaseLost, RegAt, mapVars, options, pubVars, stopVars, serveVars, closeVars, IInv,
       TypeOK, PubTypes, MapTypes, Counted, Named
  <1>9. CASE (\E t \in Types : RegisterType(t)) \/ (\E t \in Types : RegisterName(t))
            \/ ServeFatal \/ Accept \/ AcceptFails \/ AcceptError \/ Wake \/ MainEnds
            \/ GatewayPanics \/ Notify \/ Terminate \/ Quit \/ Logged
            \/ (\E u \in Users : CloseCalled(u)) \/ (\E g \in Closers : CloseStops(g))
            \/ (\E g \in Closers : CloseWaits(g)) \/ (\E g \in Closers : Exit(g))
            \/ UNCHANGED vars
    BY <1>1, <1>9
    DEF RegisterType, Register, RegisterName, ServeFatal, Accept, AcceptFails, AcceptError,
       Wake, MainEnds, GatewayPanics, Notify, Terminate, Quit, Logged, CloseCalled,
       CloseStops, CloseWaits, Exit, vars, mapVars, options, pubVars, stopVars,
       serveVars, closeVars
  <1> QED BY <1>1, <1>2, <1>3, <1>4, <1>5, <1>6, <1>7, <1>8, <1>9
    DEF Next, Serving, Registration, Close

\* A Close has waited for Register whatever comes after.
LEMMA WaitedStep ==
  ASSUME IInv, [Next]_vars PROVE Waited'
  <1>1. ASSUME UNCHANGED <<closer, reg, uncounted>> PROVE Waited'
    BY <1>1 DEF IInv, Waited
  <1>2. CASE Serve
    BY <1>2
    DEF Serve, mapVars, options, pubVars, stopVars, serveVars, closeVars, IInv, TypeOK,
       PubTypes, CloseTypes, Counted, Waited, Named
  <1>3. CASE Add
    BY <1>3
    DEF Add, RegAt, mapVars, options, pubVars, stopVars, serveVars, closeVars, IInv, TypeOK,
       PubTypes, CloseTypes, Counted, Waited, Named
  <1>4. CASE Publish
    BY <1>4
    DEF Publish, RegAt, mapVars, options, pubVars, stopVars, serveVars, closeVars, IInv,
       TypeOK, PubTypes, CloseTypes, Counted, Waited, Named
  <1>5. CASE PublishFails
    BY <1>5
    DEF PublishFails, RegAt, mapVars, options, pubVars, stopVars, serveVars, closeVars,
       IInv, TypeOK, PubTypes, CloseTypes, Counted, Waited, Named
  <1>6. CASE StopSeen \/ Revoke
    BY <1>6
    DEF StopSeen, Revoke, RegAt, mapVars, options, pubVars, stopVars, serveVars, closeVars, IInv,
       TypeOK, PubTypes, CloseTypes, Counted, Waited, Named
  <1>7. CASE Finish
    BY <1>7
    DEF Finish, RegAt, mapVars, options, pubVars, stopVars, serveVars, closeVars, IInv,
       TypeOK, PubTypes, CloseTypes, Counted, Waited, Named
  <1>8. CASE LeaseLost
    BY <1>8
    DEF LeaseLost, RegAt, mapVars, options, pubVars, stopVars, serveVars, closeVars, IInv,
       TypeOK, PubTypes, CloseTypes, Counted, Waited, Named
  <1>9. CASE Terminate
    BY <1>9
    DEF Terminate, mapVars, options, pubVars, stopVars, serveVars, closeVars, IInv, TypeOK,
       PubTypes, CloseTypes, Counted, Waited, Named
  <1>10. ASSUME NEW u \in Users, CloseCalled(u) PROVE Waited'
    BY <1>10
    DEF CloseCalled, mapVars, options, pubVars, stopVars, serveVars, closeVars, IInv,
       TypeOK, PubTypes, CloseTypes, Counted, Waited, Named
  <1>11. ASSUME NEW g \in Closers, CloseStops(g) PROVE Waited'
    BY <1>11
    DEF CloseStops, mapVars, options, pubVars, stopVars, serveVars, closeVars, IInv, TypeOK,
       PubTypes, CloseTypes, Counted, Waited, Named
  <1>12. ASSUME NEW g \in Closers, CloseWaits(g) PROVE Waited'
    <2>1. reg \in {"none", "started", "done"}
      BY <1>12 DEF CloseWaits, IInv, TypeOK, PubTypes, Counted
    <2>2. reg # "done" => uncounted'
      BY <1>12, <2>1 DEF CloseWaits
    <2>3. uncounted => uncounted' BY <1>12 DEF CloseWaits
    <2>4. reg' = reg BY <1>12 DEF CloseWaits, pubVars
    <2>5. \A h \in Closers : h # g => closer'[h] = closer[h]
      BY <1>12 DEF CloseWaits, IInv, TypeOK, CloseTypes
    <2> QED BY <2>1, <2>2, <2>3, <2>4, <2>5 DEF IInv, Waited
  <1>13. CASE (\E t \in Types : RegisterType(t))
            \/ (\E t \in Types : RegisterName(t)) \/ ServeFatal \/ Accept \/ AcceptFails
            \/ AcceptError \/ Wake \/ MainEnds \/ GatewayPanics \/ Notify \/ Quit
            \/ Logged \/ (\E g \in Closers : Exit(g)) \/ UNCHANGED vars
    BY <1>1, <1>13
    DEF RegisterType, Register, RegisterName, ServeFatal, Accept, AcceptFails, AcceptError,
       Wake, MainEnds, GatewayPanics, Notify, Quit, Logged, Exit, vars, mapVars,
       options, pubVars, stopVars, serveVars, closeVars
  <1> QED BY <1>1, <1>2, <1>3, <1>4, <1>5, <1>6, <1>7, <1>8, <1>9, <1>10, <1>11, <1>12, <1>13
    DEF Next, Serving, Registration, Close

\* Nobody but a Close closes the channels.
LEMMA StoppedStep ==
  ASSUME IInv, [Next]_vars PROVE Stopped'
  <1>1. ASSUME UNCHANGED <<stopClosed, doneChan, closer, handler, main>> PROVE Stopped'
    BY <1>1 DEF IInv, Stopped
  <1>2. CASE Serve
    BY <1>2, LifecycleAssumption
    DEF Serve, mapVars, options, pubVars, stopVars, serveVars, closeVars, IInv, TypeOK,
       StopTypes, CloseTypes, Stopped, Closers
  <1>3. CASE AcceptFails
    BY <1>3, LifecycleAssumption
    DEF AcceptFails, mapVars, options, pubVars, stopVars, serveVars, closeVars, IInv,
       TypeOK, StopTypes, CloseTypes, Stopped, Closers
  <1>4. CASE AcceptError
    BY <1>4, LifecycleAssumption
    DEF AcceptError, mapVars, options, pubVars, stopVars, serveVars, closeVars, IInv,
       TypeOK, StopTypes, CloseTypes, Stopped, Closers
  <1>5. CASE Wake
    BY <1>5, LifecycleAssumption
    DEF Wake, mapVars, options, pubVars, stopVars, serveVars, closeVars, IInv, TypeOK,
       StopTypes, CloseTypes, Stopped, Closers
  <1>6. CASE Notify
    BY <1>6, LifecycleAssumption
    DEF Notify, mapVars, options, pubVars, stopVars, serveVars, closeVars, IInv, TypeOK,
       StopTypes, CloseTypes, Stopped, Closers
  <1>7. CASE Terminate
    BY <1>7, LifecycleAssumption
    DEF Terminate, mapVars, options, pubVars, stopVars, serveVars, closeVars, IInv, TypeOK,
       StopTypes, CloseTypes, Stopped, Closers
  <1>8. CASE Quit
    BY <1>8, LifecycleAssumption
    DEF Quit, mapVars, options, pubVars, stopVars, serveVars, closeVars, IInv, TypeOK,
       StopTypes, CloseTypes, Stopped, Closers
  <1>9. CASE Logged
    BY <1>9, LifecycleAssumption
    DEF Logged, mapVars, options, pubVars, stopVars, serveVars, closeVars, IInv, TypeOK,
       StopTypes, CloseTypes, Stopped, Closers
  <1>10. ASSUME NEW u \in Users, CloseCalled(u) PROVE Stopped'
    BY <1>10, LifecycleAssumption
    DEF CloseCalled, mapVars, options, pubVars, stopVars, serveVars, closeVars, IInv,
       TypeOK, StopTypes, CloseTypes, Stopped, Closers
  <1>11. ASSUME NEW g \in Closers, CloseStops(g) PROVE Stopped'
    BY <1>11, LifecycleAssumption
    DEF CloseStops, mapVars, options, pubVars, stopVars, serveVars, closeVars, IInv, TypeOK,
       StopTypes, CloseTypes, Stopped, Closers
  <1>12. ASSUME NEW g \in Closers, CloseWaits(g) PROVE Stopped'
    BY <1>12, LifecycleAssumption
    DEF CloseWaits, mapVars, options, pubVars, stopVars, serveVars, closeVars, IInv, TypeOK,
       StopTypes, CloseTypes, Stopped, Closers
  <1>13. CASE (\E t \in Types : RegisterType(t))
            \/ (\E t \in Types : RegisterName(t)) \/ ServeFatal \/ Accept \/ MainEnds
            \/ GatewayPanics \/ Add \/ Publish \/ PublishFails \/ StopSeen \/ Revoke \/ Finish
            \/ LeaseLost \/ (\E g \in Closers : Exit(g)) \/ UNCHANGED vars
    BY <1>1, <1>13
    DEF RegisterType, Register, RegisterName, ServeFatal, Accept, MainEnds, GatewayPanics,
       Add, RegAt, Publish, PublishFails, StopSeen, Revoke, Finish, LeaseLost, Exit, vars,
       mapVars, options, pubVars, stopVars, serveVars, closeVars
  <1> QED BY <1>1, <1>2, <1>3, <1>4, <1>5, <1>6, <1>7, <1>8, <1>9, <1>10, <1>11, <1>12, <1>13
    DEF Next, Serving, Registration, Close

\* The name that is published keeps its service.
LEMMA NamedStep ==
  ASSUME IInv, [Next]_vars PROVE Named'
  <1>1. ASSUME UNCHANGED <<name, refused, serviceMap, key, reg, main>> PROVE Named'
    BY <1>1 DEF IInv, Named
  <1>2. ASSUME NEW t \in Types, RegisterType(t) PROVE Named'
    BY <1>2, NameAssumption
    DEF RegisterType, Register, mapVars, options, pubVars, stopVars, serveVars, closeVars,
       IInv, TypeOK, MapTypes, PubTypes, Named, Counted
  <1>3. ASSUME NEW t \in Types, RegisterName(t) PROVE Named'
    BY <1>3, NameAssumption
    DEF RegisterName, Register, mapVars, options, pubVars, stopVars, serveVars, closeVars,
       IInv, TypeOK, MapTypes, PubTypes, Named, Counted
  <1>4. CASE Serve
    BY <1>4, NameAssumption
    DEF Serve, mapVars, options, pubVars, stopVars, serveVars, closeVars, IInv, TypeOK,
       MapTypes, PubTypes, Named, Counted
  <1>5. CASE AcceptFails
    BY <1>5, NameAssumption
    DEF AcceptFails, mapVars, options, pubVars, stopVars, serveVars, closeVars, IInv,
       TypeOK, MapTypes, PubTypes, Named, Counted
  <1>6. CASE AcceptError
    BY <1>6, NameAssumption
    DEF AcceptError, mapVars, options, pubVars, stopVars, serveVars, closeVars, IInv,
       TypeOK, MapTypes, PubTypes, Named, Counted
  <1>7. CASE Wake
    BY <1>7, NameAssumption
    DEF Wake, mapVars, options, pubVars, stopVars, serveVars, closeVars, IInv, TypeOK,
       MapTypes, PubTypes, Named, Counted
  <1>8. CASE Add
    BY <1>8, NameAssumption
    DEF Add, RegAt, mapVars, options, pubVars, stopVars, serveVars, closeVars, IInv, TypeOK,
       MapTypes, PubTypes, Named, Counted
  <1>9. CASE Publish
    BY <1>9, NameAssumption
    DEF Publish, RegAt, mapVars, options, pubVars, stopVars, serveVars, closeVars, IInv,
       TypeOK, MapTypes, PubTypes, Named, Counted
  <1>10. CASE PublishFails
    BY <1>10, NameAssumption
    DEF PublishFails, RegAt, mapVars, options, pubVars, stopVars, serveVars, closeVars,
       IInv, TypeOK, MapTypes, PubTypes, Named, Counted
  <1>11. CASE StopSeen \/ Revoke
    BY <1>11, NameAssumption
    DEF StopSeen, Revoke, RegAt, mapVars, options, pubVars, stopVars, serveVars, closeVars, IInv,
       TypeOK, MapTypes, PubTypes, Named, Counted
  <1>12. CASE Finish
    BY <1>12, NameAssumption
    DEF Finish, RegAt, mapVars, options, pubVars, stopVars, serveVars, closeVars, IInv,
       TypeOK, MapTypes, PubTypes, Named, Counted
  <1>13. CASE LeaseLost
    BY <1>13, NameAssumption
    DEF LeaseLost, RegAt, mapVars, options, pubVars, stopVars, serveVars, closeVars, IInv,
       TypeOK, MapTypes, PubTypes, Named, Counted
  <1>14. CASE ServeFatal \/ Accept \/ MainEnds \/ GatewayPanics \/ Notify
            \/ Terminate \/ Quit \/ Logged \/ (\E u \in Users : CloseCalled(u))
            \/ (\E g \in Closers : CloseStops(g)) \/ (\E g \in Closers : CloseWaits(g))
            \/ (\E g \in Closers : Exit(g)) \/ UNCHANGED vars
    BY <1>1, <1>14
    DEF ServeFatal, Accept, MainEnds, GatewayPanics, Notify, Terminate, Quit, Logged,
       CloseCalled, CloseStops, CloseWaits, Exit, vars, mapVars, options, pubVars,
       stopVars, serveVars, closeVars
  <1> QED BY <1>1, <1>2, <1>3, <1>4, <1>5, <1>6, <1>7, <1>8, <1>9, <1>10, <1>11, <1>12, <1>13,
       <1>14 DEF Next, Serving, Registration, Close

\* What the process leaves in etcd.
LEMMA ExitStep ==
  ASSUME IInv, [Next]_vars PROVE ExitUnregisters'
  <1>1. ASSUME UNCHANGED <<exit, key, left, uncounted>> PROVE ExitUnregisters'
    BY <1>1 DEF IInv, ExitUnregisters
  <1>2. CASE ServeFatal
    BY <1>2
    DEF ServeFatal, mapVars, options, pubVars, stopVars, serveVars, closeVars, IInv, TypeOK,
       PubTypes, CloseTypes, Counted, Waited, ExitUnregisters
  <1>3. CASE Serve
    BY <1>3
    DEF Serve, mapVars, options, pubVars, stopVars, serveVars, closeVars, IInv, TypeOK,
       PubTypes, CloseTypes, Counted, Waited, ExitUnregisters
  <1>4. CASE MainEnds
    BY <1>4
    DEF MainEnds, mapVars, options, pubVars, stopVars, serveVars, closeVars, IInv, TypeOK,
       PubTypes, CloseTypes, Counted, Waited, ExitUnregisters
  <1>5. CASE GatewayPanics
    BY <1>5
    DEF GatewayPanics, mapVars, options, pubVars, stopVars, serveVars, closeVars, IInv,
       TypeOK, PubTypes, CloseTypes, Counted, Waited, ExitUnregisters
  <1>6. CASE Add
    BY <1>6
    DEF Add, RegAt, mapVars, options, pubVars, stopVars, serveVars, closeVars, IInv, TypeOK,
       PubTypes, CloseTypes, Counted, Waited, ExitUnregisters
  <1>7. CASE Publish
    BY <1>7
    DEF Publish, RegAt, mapVars, options, pubVars, stopVars, serveVars, closeVars, IInv,
       TypeOK, PubTypes, CloseTypes, Counted, Waited, ExitUnregisters
  <1>8. CASE PublishFails
    BY <1>8
    DEF PublishFails, RegAt, mapVars, options, pubVars, stopVars, serveVars, closeVars,
       IInv, TypeOK, PubTypes, CloseTypes, Counted, Waited, ExitUnregisters
  <1>9. CASE StopSeen \/ Revoke
    BY <1>9
    DEF StopSeen, Revoke, RegAt, mapVars, options, pubVars, stopVars, serveVars, closeVars, IInv,
       TypeOK, PubTypes, CloseTypes, Counted, Waited, ExitUnregisters
  <1>10. CASE Finish
    BY <1>10
    DEF Finish, RegAt, mapVars, options, pubVars, stopVars, serveVars, closeVars, IInv,
       TypeOK, PubTypes, CloseTypes, Counted, Waited, ExitUnregisters
  <1>11. CASE LeaseLost
    BY <1>11
    DEF LeaseLost, RegAt, mapVars, options, pubVars, stopVars, serveVars, closeVars, IInv,
       TypeOK, PubTypes, CloseTypes, Counted, Waited, ExitUnregisters
  <1>12. CASE Terminate
    BY <1>12
    DEF Terminate, mapVars, options, pubVars, stopVars, serveVars, closeVars, IInv, TypeOK,
       PubTypes, CloseTypes, Counted, Waited, ExitUnregisters
  <1>13. CASE Quit
    BY <1>13
    DEF Quit, mapVars, options, pubVars, stopVars, serveVars, closeVars, IInv, TypeOK,
       PubTypes, CloseTypes, Counted, Waited, ExitUnregisters
  <1>14. ASSUME NEW g \in Closers, CloseStops(g) PROVE ExitUnregisters'
    BY <1>14
    DEF CloseStops, mapVars, options, pubVars, stopVars, serveVars, closeVars, IInv, TypeOK,
       PubTypes, CloseTypes, Counted, Waited, ExitUnregisters
  <1>15. ASSUME NEW g \in Closers, CloseWaits(g) PROVE ExitUnregisters'
    BY <1>15
    DEF CloseWaits, mapVars, options, pubVars, stopVars, serveVars, closeVars, IInv, TypeOK,
       PubTypes, CloseTypes, Counted, Waited, ExitUnregisters
  <1>16. ASSUME NEW g \in Closers, Exit(g) PROVE ExitUnregisters'
    BY <1>16
    DEF Exit, mapVars, options, pubVars, stopVars, serveVars, closeVars, IInv, TypeOK,
       PubTypes, CloseTypes, Counted, Waited, ExitUnregisters
  <1>17. CASE (\E t \in Types : RegisterType(t))
            \/ (\E t \in Types : RegisterName(t)) \/ Accept \/ AcceptFails
            \/ AcceptError \/ Wake \/ Notify \/ Logged
            \/ (\E u \in Users : CloseCalled(u)) \/ UNCHANGED vars
    BY <1>1, <1>17
    DEF RegisterType, Register, RegisterName, Accept, AcceptFails, AcceptError, Wake,
       Notify, Logged, CloseCalled, vars, mapVars, options, pubVars, stopVars,
       serveVars, closeVars
  <1> QED BY <1>1, <1>2, <1>3, <1>4, <1>5, <1>6, <1>7, <1>8, <1>9, <1>10, <1>11, <1>12, <1>13,
       <1>14, <1>15, <1>16, <1>17 DEF Next, Serving, Registration, Close

\* What makes the process panic.
LEMMA SignalsStep ==
  ASSUME IInv, [Next]_vars PROVE SignalsAlone'
  <1>1. ASSUME UNCHANGED <<exit, useGateWay, closer>> PROVE SignalsAlone'
    BY <1>1 DEF IInv, SignalsAlone
  <1>2. CASE ServeFatal
    BY <1>2
    DEF ServeFatal, mapVars, options, pubVars, stopVars, serveVars, closeVars, IInv, TypeOK,
       CloseTypes, StopTypes, Stopped, SignalsAlone
  <1>3. CASE MainEnds
    BY <1>3
    DEF MainEnds, mapVars, options, pubVars, stopVars, serveVars, closeVars, IInv, TypeOK,
       CloseTypes, StopTypes, Stopped, SignalsAlone
  <1>4. CASE GatewayPanics
    BY <1>4
    DEF GatewayPanics, mapVars, options, pubVars, stopVars, serveVars, closeVars, IInv,
       TypeOK, CloseTypes, StopTypes, Stopped, SignalsAlone
  <1>5. CASE Terminate
    BY <1>5
    DEF Terminate, mapVars, options, pubVars, stopVars, serveVars, closeVars, IInv, TypeOK,
       CloseTypes, StopTypes, Stopped, SignalsAlone
  <1>6. CASE Quit
    BY <1>6
    DEF Quit, mapVars, options, pubVars, stopVars, serveVars, closeVars, IInv, TypeOK,
       CloseTypes, StopTypes, Stopped, SignalsAlone
  <1>7. ASSUME NEW u \in Users, CloseCalled(u) PROVE SignalsAlone'
    BY <1>7
    DEF CloseCalled, mapVars, options, pubVars, stopVars, serveVars, closeVars, IInv,
       TypeOK, CloseTypes, StopTypes, Stopped, SignalsAlone
  <1>8. ASSUME NEW g \in Closers, CloseStops(g) PROVE SignalsAlone'
    BY <1>8
    DEF CloseStops, mapVars, options, pubVars, stopVars, serveVars, closeVars, IInv, TypeOK,
       CloseTypes, StopTypes, Stopped, SignalsAlone
  <1>9. ASSUME NEW g \in Closers, CloseWaits(g) PROVE SignalsAlone'
    BY <1>9
    DEF CloseWaits, mapVars, options, pubVars, stopVars, serveVars, closeVars, IInv, TypeOK,
       CloseTypes, StopTypes, Stopped, SignalsAlone
  <1>10. ASSUME NEW g \in Closers, Exit(g) PROVE SignalsAlone'
    BY <1>10
    DEF Exit, mapVars, options, pubVars, stopVars, serveVars, closeVars, IInv, TypeOK,
       CloseTypes, StopTypes, Stopped, SignalsAlone
  <1>11. CASE (\E t \in Types : RegisterType(t))
            \/ (\E t \in Types : RegisterName(t)) \/ Serve \/ Accept \/ AcceptFails
            \/ AcceptError \/ Wake \/ Add \/ Publish \/ PublishFails \/ StopSeen \/ Revoke \/ Finish
            \/ LeaseLost \/ Notify \/ Logged \/ UNCHANGED vars
    BY <1>1, <1>11
    DEF RegisterType, Register, RegisterName, Serve, Accept, AcceptFails, AcceptError, Wake,
       Add, RegAt, Publish, PublishFails, StopSeen, Revoke, Finish, LeaseLost, Notify, Logged,
       vars, mapVars, options, pubVars, stopVars, serveVars, closeVars
  <1> QED BY <1>1, <1>2, <1>3, <1>4, <1>5, <1>6, <1>7, <1>8, <1>9, <1>10, <1>11
    DEF Next, Serving, Registration, Close

\* IInv is inductive.
LEMMA Inductive == IInv /\ [Next]_vars => IInv'
  <1> SUFFICES ASSUME IInv, [Next]_vars PROVE IInv' OBVIOUS
  <1>1. TypeOK'
    BY MapTypesStep, OptionTypesStep, PubTypesStep, StopTypesStep, ServeTypesStep,
       CloseTypesStep, ExitTypesStep DEF TypeOK
  <1>2. Counted' BY CountedStep
  <1>3. Waited' /\ Stopped' BY WaitedStep, StoppedStep
  <1>4. Named' BY NamedStep
  <1>5. PublishedFound' BY <1>4 DEF Named, PublishedFound
  <1>6. ExitUnregisters' /\ SignalsAlone' BY ExitStep, SignalsStep
  <1> QED BY <1>1, <1>2, <1>3, <1>4, <1>5, <1>6 DEF IInv

\* The strengthening is an invariant of the server process, for any services,
\* any number of callers of Close and of signals.
THEOREM Invariance == Spec => []IInv
  <1>1. Init => IInv BY InitInv
  <1>2. IInv /\ [Next]_vars => IInv' BY Inductive
  <1> QED BY <1>1, <1>2, PTL DEF Spec

\* A server that exits by Close leaves no address in etcd, except as said there.
THEOREM NoAddressLeft == Spec => []ExitUnregisters
  <1>1. IInv => ExitUnregisters BY DEF IInv
  <1> QED BY <1>1, Invariance, PTL

\* Signals alone do not make Close run twice.
THEOREM CloseOnce == Spec => []SignalsAlone
  <1>1. IInv => SignalsAlone BY DEF IInv
  <1> QED BY <1>1, Invariance, PTL

\* The published name has a service.
THEOREM NameServed == Spec => []PublishedFound
  <1>1. IInv => PublishedFound BY DEF IInv
  <1> QED BY <1>1, Invariance, PTL

-----------------------------------------------------------------------------
(* The delay of the accept loop.                                           *)

\* Backoff satisfies its equation, as recursion on Nat is well-defined: ...
LEMMA BackoffValues ==
  /\ Backoff \in [Nat -> 0..MaxDelay]
  /\ Backoff[0] = 0 /\ Backoff[1] = FirstDelay
  /\ \A n \in Nat \ {0, 1} :
        Backoff[n] = IF 2 * Backoff[n-1] > MaxDelay THEN MaxDelay ELSE 2 * Backoff[n-1]
  <1> DEFINE base == {0, 1}
             b == [n \in base |-> IF n = 0 THEN 0 ELSE FirstDelay]
             next == [n \in Nat |-> n - 1]
             step == [n \in Nat |-> [d \in 0..MaxDelay |-> IF 2 * d > MaxDelay THEN MaxDelay ELSE 2 * d]]
             rank == [n \in Nat |-> n]
             Body(f) == [n \in Nat |-> IF n = 0 THEN 0
                                       ELSE IF n = 1 THEN FirstDelay
                                       ELSE IF 2 * f[n-1] > MaxDelay THEN MaxDelay ELSE 2 * f[n-1]]
  <1>1. rank \in [Nat -> Nat] /\ \A n \in Nat \cap base : b[n] \in 0..MaxDelay
    BY LifecycleAssumption
  <1>2. \A n \in Nat \ base : /\ next[n] \in Nat /\ rank[next[n]] < rank[n]
                              /\ \A d \in 0..MaxDelay : step[n][d] \in 0..MaxDelay
    BY LifecycleAssumption
  <1>3. PICK f \in [Nat -> 0..MaxDelay] : Defined(f, Nat, base, b, next, step)
    <2> HIDE DEF base, b, next, step, rank
    <2> QED BY <1>1, <1>2, Recursion
  <1>4. f = Body(f)
    <2>1. ASSUME NEW n \in Nat
          PROVE  Body(f)[n] = IF n \in base THEN b[n] ELSE step[n][f[next[n]]]
      <3>1. CASE n \in base
        BY <3>1
      <3>2. CASE n \notin base
        <4>1. n - 1 \in Nat /\ next[n] = n - 1 /\ f[n - 1] \in 0..MaxDelay
          BY <3>2
        <4>2. step[n][f[n - 1]] = IF 2 * f[n - 1] > MaxDelay THEN MaxDelay ELSE 2 * f[n - 1]
          BY <4>1
        <4>3. Body(f)[n] = IF 2 * f[n - 1] > MaxDelay THEN MaxDelay ELSE 2 * f[n - 1]
          BY <3>2
        <4> QED BY <3>2, <4>1, <4>2, <4>3
      <3> QED BY <3>1, <3>2
    <2>2. f = [n \in Nat |-> IF n \in base THEN b[n] ELSE step[n][f[next[n]]]]
      BY <1>3 DEF Defined
    <2> HIDE DEF base, b, next, step
    <2>3. Body(f) = [n \in Nat |-> Body(f)[n]]
      OBVIOUS
    <2> HIDE DEF Body
    <2> QED BY <2>1, <2>2, <2>3
  <1>5. Backoff = CHOOSE g : g = Body(g)
    BY DEF Backoff
  <1> HIDE DEF Body
  <1>6. Backoff = Body(Backoff)
    BY <1>4, <1>5
  <1> USE DEF Body
  <1>7. /\ Backoff[0] = 0 /\ Backoff[1] = FirstDelay
        /\ \A n \in Nat \ {0, 1} :
              Backoff[n] = IF 2 * Backoff[n-1] > MaxDelay THEN MaxDelay ELSE 2 * Backoff[n-1]
    BY <1>6
  <1>8. Backoff \in [Nat -> 0..MaxDelay]
    <2> DEFINE T == {n \in Nat : Backoff[n] \in 0..MaxDelay}
    <2>1. T \in SUBSET Nat /\ 0 \in T
      BY <1>7, LifecycleAssumption
    <2>2. ASSUME NEW n \in T
          PROVE  n + 1 \in T
      <3>1. Backoff[n] \in Nat /\ n \in Nat /\ MaxDelay \in Nat
        BY LifecycleAssumption
      <3>2. CASE n = 0
        BY <1>7, <3>2, LifecycleAssumption
      <3>3. CASE n # 0
        <4>1. n + 1 \in Nat \ {0, 1} /\ (n + 1) - 1 = n
          BY <3>1, <3>3
        <4>2. Backoff[n + 1] = IF 2 * Backoff[n] > MaxDelay THEN MaxDelay ELSE 2 * Backoff[n]
          BY <1>7, <4>1
        <4> QED BY <3>1, <4>1, <4>2
      <3> QED BY <3>2, <3>3
    <2>3. T = Nat
      <3> HIDE DEF T
      <3> QED BY <2>1, <2>2, SetInduction
    <2>4. Backoff = [n \in Nat |-> Backoff[n]]
      BY <1>6
    <2> QED BY <2>3, <2>4
  <1> QED BY <1>7, <1>8

\* ... and no delay after an error is zero.
LEMMA BackoffPositive == \A n \in Nat \ {0} : Backoff[n] > 0
  <1> DEFINE T == {n \in Nat : Backoff[n + 1] > 0}
  <1>1. T \in SUBSET Nat /\ 0 \in T
    BY BackoffValues, LifecycleAssumption
  <1>2. ASSUME NEW n \in T
        PROVE  n + 1 \in T
    <2>1. n \in Nat /\ n + 1 \in Nat /\ MaxDelay \in Nat \ {0} /\ Backoff[n + 1] \in Nat \ {0}
      BY BackoffValues, LifecycleAssumption
    <2>2. (n + 1) + 1 \in Nat \ {0, 1} /\ ((n + 1) + 1) - 1 = n + 1
      BY <2>1
    <2>3. Backoff[(n + 1) + 1] = IF 2 * Backoff[n + 1] > MaxDelay THEN MaxDelay ELSE 2 * Backoff[n + 1]
      BY <2>2, BackoffValues
    <2> QED BY <2>1, <2>3
  <1>3. T = Nat
    <2> HIDE DEF T
    <2> QED BY <1>1, <1>2, SetInduction
  <1>4. ASSUME NEW n \in Nat \ {0}
        PROVE  Backoff[n] > 0
    <2>1. n - 1 \in Nat /\ (n - 1) + 1 = n
      OBVIOUS
    <2>2. Backoff[(n - 1) + 1] > 0
      BY <1>3, <2>1
    <2> QED BY <2>1, <2>2
  <1> QED BY <1>4

\* The strengthening of BacksOff: the error that Accept has just returned is counted.
BackoffInv == BacksOff /\ (main = "temporary" => errors > 0)

\* BackoffInv is inductive, given the types.
LEMMA BackoffStep == IInv /\ BackoffInv /\ [Next]_vars => BackoffInv'
  <1> SUFFICES ASSUME IInv, BackoffInv, [Next]_vars PROVE BackoffInv' OBVIOUS
  <1>1. tempDelay \in Nat /\ errors \in Nat /\ MaxDelay \in Nat
    <2>1. tempDelay \in 0..MaxDelay /\ errors \in 0..MaxErrors
      BY DEF IInv, TypeOK, ServeTypes
    <2> QED BY <2>1, LifecycleAssumption
  <1>2. CASE UNCHANGED <<main, tempDelay, errors>>
    BY <1>2 DEF BackoffInv, BacksOff
  <1>3. CASE Serve
    BY <1>3 DEF Serve, BackoffInv, BacksOff
  <1>4. CASE Accept
    BY <1>4, BackoffValues DEF Accept, BackoffInv, BacksOff
  <1>5. CASE AcceptFails
    BY <1>1, <1>5 DEF AcceptFails, serveVars, BackoffInv, BacksOff
  <1>6. CASE AcceptError
    <2>1. CASE main = "temporary" /\ doneChan # "closed"
      <3> DEFINE d == IF tempDelay = 0 THEN FirstDelay ELSE 2 * tempDelay
      <3>1. /\ main' = "sleep" /\ errors' = errors
            /\ tempDelay' = IF d > MaxDelay THEN MaxDelay ELSE d
        BY <1>6, <2>1 DEF AcceptError
      <3>2. errors \in Nat \ {0} /\ tempDelay = Backoff[errors - 1]
        BY <1>1, <2>1 DEF BackoffInv, BacksOff
      <3>3. CASE errors = 1
        <4>1. tempDelay = 0
          BY <3>2, <3>3, BackoffValues
        <4>2. tempDelay' = FirstDelay
          BY <3>1, <4>1, LifecycleAssumption
        <4> QED BY <3>1, <3>3, <4>2, BackoffValues DEF BackoffInv, BacksOff
      <3>4. CASE errors # 1
        <4>1. errors - 1 \in Nat \ {0} /\ errors \in Nat \ {0, 1}
          BY <3>2, <3>4
        <4>2. tempDelay > 0
          BY <3>2, <4>1, BackoffPositive
        <4>3. tempDelay' = IF 2 * tempDelay > MaxDelay THEN MaxDelay ELSE 2 * tempDelay
          <5>1. d = 2 * tempDelay
            BY <1>1, <4>2
          <5> HIDE DEF d
          <5> QED BY <3>1, <5>1
        <4>4. tempDelay' = Backoff[errors]
          BY <3>2, <4>1, <4>3, BackoffValues
        <4> QED BY <3>1, <4>4 DEF BackoffInv, BacksOff
      <3> QED BY <3>3, <3>4
    <2>2. CASE ~(main = "temporary" /\ doneChan # "closed")
      <3>1. main' = "returned"
        BY <1>6, <2>2 DEF AcceptError
      <3> QED BY <3>1 DEF BackoffInv, BacksOff
    <2> QED BY <2>1, <2>2
  <1>7. CASE Wake
    BY <1>7 DEF Wake, BackoffInv, BacksOff
  <1>8. CASE (\E t \in Types : RegisterType(t)) \/ (\E t \in Types : RegisterName(t))
            \/ ServeFatal \/ MainEnds \/ GatewayPanics \/ Add \/ Publish \/ PublishFails
            \/ StopSeen \/ Revoke \/ Finish \/ LeaseLost \/ Notify \/ Terminate \/ Quit \/ Logged
            \/ (\E u \in Users : CloseCalled(u)) \/ (\E g \in Closers : CloseStops(g))
            \/ (\E g \in Closers : CloseWaits(g)) \/ (\E g \in Closers : Exit(g))
            \/ UNCHANGED vars
    <2>1. UNCHANGED <<main, tempDelay, errors>>
      BY <1>8
      DEF RegisterType, Register, RegisterName, ServeFatal, MainEnds, GatewayPanics, Add,
         RegAt, Publish, PublishFails, StopSeen, Revoke, Finish, LeaseLost, Notify, Terminate, Quit,
         Logged, CloseCalled, CloseStops, CloseWaits, Exit, vars, mapVars, options,
         pubVars, stopVars, serveVars, closeVars
    <2> QED BY <1>2, <2>1
  <1> QED BY <1>3, <1>4, <1>5, <1>6, <1>7, <1>8 DEF Next, Serving, Registration, Close

\* The accept loop backs off by the errors since the last connection, however
\* many there were and whatever happened before.
THEOREM DelayBacksOff == Spec => []BacksOff
  <1>1. Init => BackoffInv
    BY BackoffValues DEF Init, BackoffInv, BacksOff
  <1>2. BackoffInv => BacksOff BY DEF BackoffInv
  <1> QED BY <1>1, <1>2, BackoffStep, Invariance, PTL DEF Spec
=============================================================================
