--------------------------- MODULE ServiceClient ---------------------------
(***************************************************************************)
(* The Client of a service (client/client.go) from Call to the answer: the *)
(* cachedClient slice that a subscriber fills, the round robin that picks  *)
(* an RPCClient from it (client/selector.go), and the token bucket and the *)
(* circuit breaker through which RPCClient.Call goes (client/rpcclient.go),*)
(* if the options given to NewDiscoveryClient say so.  The bucket is that  *)
(* of juju/ratelimit, the breaker that of sony/gobreaker: external code.   *)
(*                                                                         *)
(* Node k is the k-th that was added, so cachedClient is 1, 2, ... size.   *)
(* What an RPCClient does is in RPCClient; of it remain its status and the *)
(* fact that input keeps client.mutex once it has given up.  cachedClient  *)
(* is read without c.mu, so its pointer and its length may be those of two *)
(* slices; an index beyond the array reads other memory, after which       *)
(* nothing is said (wild).                                                 *)
(* A definition marked "Wrong" is a plausible bug in the one after it,     *)
(* kept to see that the properties below reject it; nothing uses it.       *)
(***************************************************************************)
EXTENDS Integers, FiniteSets

CONSTANTS
    Callers,    \* goroutines that make a call each
    MayGo,      \* those of them that may use Go instead of Call
    Deadlined,  \* those whose context has a deadline
    NoCaller,   \* nobody
    MaxNodes,   \* bound: nodes that the subscriber is told of
    Found,      \* numbers of nodes that NewDiscoveryClient may find in etcd
    Options,    \* the sets of options that may be given to NewDiscoveryClient
    Capacity,   \* of the token buckets
    MaxRequests,   \* that a half-open breaker lets through (0 in the settings means 1)
    ReadyToTrip,   \* failures in a row that open a breaker: 1 with NewReadyToTrip, and 6
                   \* when the settings do not name a function
    Beating,    \* nodes to which heartbeats are sent
    MaxBreaks   \* bound: how often connections break

Nodes == 1..MaxNodes

ASSUME ServiceClientAssumption ==
    /\ MaxNodes \in Nat \ {0} /\ Found \subseteq 0..MaxNodes /\ Capacity \in Nat \ {0}
    /\ MaxRequests \in Nat \ {0} /\ ReadyToTrip \in Nat \ {0}
    /\ Options \subseteq SUBSET {"limiter", "breaker"}
    /\ MayGo \subseteq Callers /\ Deadlined \subseteq Callers
    /\ NoCaller \notin Callers /\ Beating \subseteq Nodes /\ MaxBreaks \in Nat
    /\ Callers \cap Nodes = {}

\* The keepalive goroutine of a node is named by the node.
Goroutines == Callers \cup Beating

VARIABLES
    size,       \* len(cachedClient)
    async,      \* the callers that use Go
    options,    \* that the application gives to NewDiscoveryClient
    config,     \* those that have been applied to the Client
    guarded,    \* those that it had when it made each RPCClient
    status,     \* the status of each RPCClient
    dialling,   \* those whose input goroutine is in reconnect
    mu,         \* the goroutine that holds RoundRobinSelector.mu
    lastIndex,  \* its LastIndex
    pc,         \* where each goroutine is
    array,      \* cap of the array to which its slice points
    len,        \* len of its slice
    i,          \* the variable of Pick's loop
    cli,        \* the RPCClient picked, or the one that keepalive serves
    breaks,     \* connections that broke
    tokens,     \* in the bucket of each RPCClient; negative: promised
    debt,       \* the tokens for whose arrival a goroutine sleeps
    breaker,    \* the state of each RPCClient's breaker
    count,      \* in this state: failures in a row, or successes when half-open
    epoch,      \* the state in which a call was admitted, or "past" when the
                \* breaker has changed its state since, or "none"
    result,     \* of each call
    wild,       \* memory beyond an array was read
    steady,     \* history: the nodes available ever since a Pick began
    lost,       \* history: one has become unavailable since
    picks,      \* history: how often Pick ended with each node,
    even        \* ... as long as all were there, and available, all the time

listVars  == <<size, async, options, config, guarded, status, dialling, breaks>>
pickVars  == <<mu, lastIndex, array, len, i, wild>>
guardVars == <<tokens, debt, breaker, count, epoch>>
history   == <<steady, lost, picks, even>>
vars == <<listVars, pickVars, guardVars, history, pc, cli, result>>

\* NewEtcdSubscriber has fetched the nodes, and addNodeFunc has made an RPCClient of
\* each, before NewDiscoveryClient comes to its options (client.go:105-121).
Init ==
    /\ size \in Found /\ async \in SUBSET MayGo
    /\ options \in Options /\ config = {} /\ guarded = [n \in Nodes |-> {}]
    /\ status = [n \in Nodes |-> IF n <= size THEN "available" ELSE "none"]
    /\ dialling = {} /\ breaks = 0
    /\ mu = NoCaller /\ lastIndex = 0
    /\ pc = [g \in Goroutines |-> "idle"]
    /\ array = [c \in Callers |-> 0] /\ len = [c \in Callers |-> 0]
    /\ i = [c \in Callers |-> 0] /\ wild = FALSE
    /\ cli = [g \in Goroutines |-> IF g \in Beating THEN g ELSE 0]
    /\ tokens = [n \in Nodes |-> Capacity] /\ debt = [g \in Goroutines |-> 0]
    /\ breaker = [n \in Nodes |-> "closed"] /\ count = [n \in Nodes |-> 0]
    /\ epoch = [g \in Goroutines |-> "none"]
    /\ result = [c \in Callers |-> "none"]
    /\ steady = [c \in Callers |-> {}] /\ lost = [c \in Callers |-> FALSE]
    /\ picks = [n \in Nodes |-> 0] /\ even = (size = MaxNodes)

At(g, here, there) == ~wild /\ pc[g] = here /\ pc' = [pc EXCEPT ![g] = there]

-----------------------------------------------------------------------------
(* RPCClients, and the subscriber that makes them.                         *)

\* An option is applied, by whose order the application lists them, while the
\* subscriber may learn of nodes already (go WatchNodes).
ApplyOption == /\ ~wild
               /\ \E o \in options \ config : config' = config \cup {o}
               /\ UNCHANGED <<size, async, options, guarded, status, dialling, breaks,
                              pickVars, guardVars, history, pc, cli, result>>

\* addNodeFunc has dialled a new node, gives it the breaker and the bucket that the
\* Client has been told of, and appends its RPCClient.
AddNode == /\ ~wild /\ size < MaxNodes
           /\ size' = size + 1
           /\ guarded' = [guarded EXCEPT ![size + 1] = config]
           /\ status' = [status EXCEPT ![size + 1] = "available"]
           /\ UNCHANGED <<async, options, config, dialling, breaks, pickVars, guardVars,
                          history, pc, cli, result>>

Picking(c) == pc[c] \in {"walk", "check"}

\* An RPCClient is available no more.
Loses(n) == /\ steady' = [c \in Callers |-> IF Picking(c) THEN steady[c] \ {n}
                                                        ELSE steady[c]]
            /\ lost' = [c \in Callers |-> lost[c] \/ Picking(c)]
            /\ even' = FALSE
            /\ UNCHANGED picks

SetStatus(n, s) == /\ status' = [status EXCEPT ![n] = s]
                   /\ IF s = "available" THEN UNCHANGED history ELSE Loses(n)
                   /\ UNCHANGED <<size, async, options, config, guarded, pickVars,
                                  guardVars, pc, cli, result>>

\* reconnect begins, succeeds, and gives up, upon which input waits for ever
\* for the client.mutex that it holds.
Breaks(n) == /\ ~wild /\ status[n] = "available" /\ breaks < MaxBreaks
             /\ breaks' = breaks + 1
             /\ SetStatus(n, "reconnect") /\ dialling' = dialling \cup {n}

Dialled(n) == /\ ~wild /\ n \in dialling
              /\ SetStatus(n, "available") /\ dialling' = dialling \ {n}
              /\ UNCHANGED breaks

GivesUp(n) == /\ ~wild /\ n \in dialling
              /\ SetStatus(n, "gaveup") /\ dialling' = dialling \ {n}
              /\ UNCHANGED breaks

-----------------------------------------------------------------------------
(* selectRPCClient and Pick.                                               *)

\* The capacity to which append lets an array of pointers grow.
Cap(l) == IF l <= 2 THEN l ELSE IF l <= 4 THEN 4 ELSE 8

\* NewDiscoveryClient has returned.  selectRPCClient reads c.cachedClient: the
\* pointer, and then the length.
Start(c) == /\ At(c, "idle", "slice")
            /\ config = options
            /\ array' = [array EXCEPT ![c] = Cap(size)]
            /\ UNCHANGED <<listVars, mu, lastIndex, len, i, wild, guardVars, history,
                           cli, result>>

ReadLen(c) == /\ At(c, "slice", "lock")
              /\ len' = [len EXCEPT ![c] = size]
              /\ UNCHANGED <<listVars, mu, lastIndex, array, i, wild, guardVars,
                             history, cli, result>>

\* Pick begins with slice (array[c], len[c]).
PickFrom(c, index) ==
    /\ lastIndex' = index
    /\ i' = [i EXCEPT ![c] = 0]
    /\ steady' = [steady EXCEPT ![c] = {n \in 1..len[c] : status[n] = "available"}]
    /\ lost' = [lost EXCEPT ![c] = FALSE]
    /\ UNCHANGED <<listVars, array, len, wild, guardVars, cli, result, picks, even>>

\* Wrong: the lock is not waited for.
LockBlind(c) == /\ At(c, "lock", "walk") /\ len[c] > 0
                /\ mu' = c
                /\ PickFrom(c, (lastIndex + 1) % len[c])

\* Wrong: the index is that of the last Pick, whatever slice that one had.
LockSameIndex(c) == /\ At(c, "lock", "walk") /\ len[c] > 0
                    /\ mu = NoCaller /\ mu' = c
                    /\ PickFrom(c, lastIndex)

\* s.mu.Lock and the first index.
Lock(c) == /\ At(c, "lock", "walk") /\ len[c] > 0
           /\ mu = NoCaller /\ mu' = c
           /\ PickFrom(c, (lastIndex + 1) % len[c])

\* The remainder by the length of an empty slice panics, and s.mu stays locked:
\* a service that makes the call recovers from the panic (service.call).
Panics(c) == /\ At(c, "lock", "panicked") /\ len[c] = 0
             /\ mu = NoCaller /\ mu' = c
             /\ UNCHANGED <<listVars, lastIndex, array, len, i, wild, guardVars, history,
                            cli, result>>

\* A turn of the loop, the last one if so is said; after it, s.mu.Unlock.
Turn(c, next, last) ==
    LET n == lastIndex + 1 IN
    /\ ~wild /\ pc[c] = "walk" /\ lastIndex < array[c]
    /\ cli' = [cli EXCEPT ![c] = n]
    /\ lastIndex' = IF status[n] = "available" THEN lastIndex ELSE next
    /\ i' = [i EXCEPT ![c] = @ + 1]
    /\ IF last
       THEN /\ pc' = [pc EXCEPT ![c] = "check"] /\ mu' = NoCaller
            /\ picks' = [picks EXCEPT ![n] = @ + 1]
       ELSE UNCHANGED <<pc, mu, picks>>
    /\ UNCHANGED <<listVars, array, len, wild, guardVars, steady, lost, even, result>>

\* Wrong: the loop ends one client early.
LookShort(c) == Turn(c, (lastIndex + 1) % len[c], i[c] + 2 >= len[c])

\* The turn of client i[c] of len[c].
Look(c) == Turn(c, (lastIndex + 1) % len[c], i[c] + 1 >= len[c])

LookBeyond(c) == /\ ~wild /\ pc[c] = "walk" /\ lastIndex >= array[c]
                 /\ wild' = TRUE
                 /\ UNCHANGED <<listVars, mu, lastIndex, array, len, i, guardVars,
                                history, pc, cli, result>>

\* bucket.Wait(1), where there is a bucket: a token is taken at once, though it may
\* be yet to come, and then slept for.  No deadline wakes the sleeper.
Take(g, n) ==
    IF "limiter" \in guarded[n]
    THEN /\ tokens' = [tokens EXCEPT ![n] = @ - 1]
         /\ debt' = [debt EXCEPT ![g] = IF tokens[n] > 0 THEN 0 ELSE 1 - tokens[n]]
    ELSE UNCHANGED <<tokens, debt>>

\* Pick has returned: what it used is forgotten.
PickReturns(c) == /\ array' = [array EXCEPT ![c] = 0] /\ len' = [len EXCEPT ![c] = 0]
                  /\ i' = [i EXCEPT ![c] = 0]
                  /\ UNCHANGED <<listVars, mu, lastIndex, wild, breaker, count, epoch,
                                 even>>

\* The status is looked at again.  Go sends at once; Call goes by the guards.
Picked(c) ==
    /\ At(c, "check", IF c \in async THEN "send" ELSE "sleep")
    /\ status[cli[c]] = "available"
    /\ steady' = [steady EXCEPT ![c] = {}] /\ lost' = [lost EXCEPT ![c] = FALSE]
    /\ IF c \in async THEN UNCHANGED <<tokens, debt>> ELSE Take(c, cli[c])
    /\ PickReturns(c)
    /\ UNCHANGED <<cli, result, picks>>

\* Wrong: without a client, s.mu is left locked.
NotPickedKeepsLock(c) ==
    /\ At(c, "check", "done")
    /\ status[cli[c]] # "available"
    /\ result' = [result EXCEPT ![c] = "not called"]
    /\ mu' = c
    /\ UNCHANGED <<listVars, lastIndex, array, len, i, wild, guardVars, history, cli>>

\* Call logs the error of selectRPCClient and returns nil.
NotPicked(c) ==
    /\ At(c, "check", "done")
    /\ status[cli[c]] # "available"
    /\ result' = [result EXCEPT ![c] = "not called"]
    /\ PickReturns(c)
    /\ UNCHANGED <<tokens, debt, steady, lost, picks, cli>>

-----------------------------------------------------------------------------
(* RPCClient.Call: bucket.Wait, breaker.Execute, Go and the select.        *)

\* keepalive sends a heartbeat: sendHeartBeat calls RPCClient.Call, with an
\* empty method.
Beat(n) == /\ At(n, "idle", "sleep")
           /\ status[n] = "available"
           /\ Take(n, n)
           /\ UNCHANGED <<listVars, pickVars, breaker, count, epoch, history, cli, result>>

\* A new token.
Fill(n) ==
    /\ ~wild /\ tokens[n] < Capacity
    /\ tokens' = [tokens EXCEPT ![n] = @ + 1]
    /\ debt' = [g \in Goroutines |-> IF cli[g] = n /\ debt[g] > 0 THEN debt[g] - 1
                                     ELSE debt[g]]
    /\ UNCHANGED <<listVars, pickVars, breaker, count, epoch, history, pc, cli, result>>

\* The breaker comes into state s: its counts are cleared, and of the calls under way
\* none will count any more, nor the one that has ended by it.
Trip(n, s, ended) ==
    /\ breaker' = [breaker EXCEPT ![n] = s]
    /\ count' = [count EXCEPT ![n] = 0]
    /\ epoch' = [g \in Goroutines |->
                    IF g \in ended \/ epoch[g] = "none" THEN "none"
                    ELSE IF cli[g] = n THEN "past" ELSE epoch[g]]

\* Its timeout is over: some calls may try.
HalfOpens(n) == /\ ~wild /\ breaker[n] = "open"
                /\ Trip(n, "half-open", {})
                /\ UNCHANGED <<listVars, pickVars, tokens, debt, history, pc, cli, result>>

\* The calls that try out a half-open breaker and are not answered.
Trying(n) == {g \in Goroutines : cli[g] = n /\ epoch[g] = "half-open"}

Refuses(n) == \/ breaker[n] = "open"
              \/ breaker[n] = "half-open" /\ count[n] + Cardinality(Trying(n)) >= MaxRequests

\* There is a breaker, and the method is not empty, as that of a heartbeat is.
ByBreaker(g) == g \in Callers /\ "breaker" \in guarded[cli[g]]

\* The token is there.  Execute lets the call through, or does not.
Execute(g) ==
    /\ At(g, "sleep", "send")
    /\ debt[g] = 0
    /\ ByBreaker(g) => ~Refuses(cli[g])
    /\ epoch' = [epoch EXCEPT ![g] = IF ByBreaker(g) THEN breaker[cli[g]] ELSE "none"]
    /\ UNCHANGED <<listVars, pickVars, tokens, debt, breaker, count, history, cli, result>>

\* RPCClient.Call has returned r.
End(g, r) == IF g \in Callers
             THEN /\ pc' = [pc EXCEPT ![g] = "done"]
                  /\ result' = [result EXCEPT ![g] = r]
             ELSE pc' = [pc EXCEPT ![g] = "idle"] /\ UNCHANGED result

Refused(g) == /\ ~wild /\ pc[g] = "sleep" /\ debt[g] = 0 /\ ByBreaker(g) /\ Refuses(cli[g])
              /\ End(g, "refused")
              /\ UNCHANGED <<listVars, pickVars, guardVars, history, cli>>

\* A call that ended so makes the breaker change its state.
Turns(n, ok) == \/ ok /\ breaker[n] = "half-open" /\ count[n] + 1 >= MaxRequests
                \/ ~ok /\ (breaker[n] = "half-open" \/ count[n] + 1 >= ReadyToTrip)

\* What the function given to Execute returned is counted, if the breaker is still in
\* the state in which it admitted the call.
Count(g, ok) ==
    LET n == cli[g]
        counts == epoch[g] \notin {"none", "past"}
    IN IF counts /\ Turns(n, ok)
       THEN Trip(n, IF ok THEN "closed" ELSE "open", {g})
       ELSE /\ count' = [count EXCEPT ![n] = IF ~counts THEN @
                                             ELSE IF ok /\ breaker[n] = "closed" THEN 0
                                             ELSE @ + 1]
            /\ epoch' = [epoch EXCEPT ![g] = "none"]
            /\ UNCHANGED breaker

\* Go takes client.mutex, registers the call when the client is available, and writes
\* it, which lasts as long as the peer does not read (see RPCClient).
Send(g) == /\ At(g, "send", "sent")
           /\ status[cli[g]] = "available"
           /\ UNCHANGED <<listVars, pickVars, guardVars, history, cli, result>>

SendFails(g) == /\ ~wild /\ pc[g] = "send"
                /\ status[cli[g]] \in {"reconnect", "closed"}
                /\ End(g, "error")
                /\ Count(g, FALSE)
                /\ UNCHANGED <<listVars, pickVars, tokens, debt, history, cli>>

Answered(g) == /\ ~wild /\ pc[g] = "sent"
               /\ End(g, "ok") /\ Count(g, TRUE)
               /\ UNCHANGED <<listVars, pickVars, tokens, debt, history, cli>>

\* The call ends with an error: its own, of the connection, or ErrTimeOut.
CallFails(g) == /\ ~wild /\ pc[g] = "sent" /\ g \in Callers
                /\ End(g, "error") /\ Count(g, FALSE)
                /\ UNCHANGED <<listVars, pickVars, tokens, debt, history, cli>>

\* keepalive closes the client when its heartbeat fails.
BeatFails(n) ==
    /\ ~wild /\ pc[n] = "sent"
    /\ End(n, "error") /\ Count(n, FALSE)
    /\ status' = [status EXCEPT ![n] = IF @ = "available" THEN "closed" ELSE @]
    /\ IF status[n] = "available" THEN Loses(n) ELSE UNCHANGED history
    /\ UNCHANGED <<size, async, options, config, guarded, dialling, breaks, pickVars,
                   tokens, debt, cli>>

-----------------------------------------------------------------------------
Pick(c) == ReadLen(c) \/ Lock(c) \/ Panics(c) \/ Look(c) \/ LookBeyond(c)
             \/ Picked(c) \/ NotPicked(c)

Guarded(g) == Execute(g) \/ Refused(g)

Sends(g) == Send(g) \/ SendFails(g)

Ends(g) == Answered(g) \/ CallFails(g)

Next == \/ ApplyOption \/ AddNode
        \/ \E n \in Nodes : \/ Breaks(n) \/ Dialled(n) \/ GivesUp(n)
                            \/ Fill(n) \/ HalfOpens(n)
        \/ \E n \in Beating : Beat(n) \/ BeatFails(n)
        \/ \E c \in Callers : Start(c) \/ Pick(c)
        \/ \E g \in Goroutines : Guarded(g) \/ Sends(g) \/ Ends(g)

Spec == Init /\ [][Next]_vars

\* A goroutine that can go on does, buckets are filled, and calls that have a deadline
\* end by it.  Nothing is assumed of the peers: a write may last for ever, and a call
\* without a deadline may wait for ever.  Nothing is assumed of heartbeats either.
FairSpec == /\ Spec
            /\ \A c \in Callers : WF_vars(Pick(c) \/ Guarded(c))
            /\ \A c \in Deadlined : WF_vars(Ends(c))
            /\ \A n \in Nodes : WF_vars(Fill(n))

-----------------------------------------------------------------------------
(* Properties.                                                             *)

ListTypes ==
    /\ size \in 0..MaxNodes /\ async \subseteq MayGo /\ dialling \subseteq Nodes
    /\ options \in Options /\ config \subseteq options
    /\ guarded \in [Nodes -> SUBSET {"limiter", "breaker"}]
    /\ status \in [Nodes -> {"none", "available", "reconnect", "closed", "gaveup"}]

PickTypes ==
    /\ mu \in Callers \cup {NoCaller} /\ lastIndex \in 0..MaxNodes-1
    /\ array \in [Callers -> Nat] /\ len \in [Callers -> 0..MaxNodes]
    /\ i \in [Callers -> Nat] /\ wild \in BOOLEAN

CallTypes ==
    /\ pc \in [Goroutines -> {"idle", "slice", "lock", "walk", "check", "sleep", "send",
                             "sent", "done", "panicked"}]
    /\ cli \in [Goroutines -> 0..MaxNodes]
    /\ result \in [Callers -> {"none", "ok", "error", "refused", "not called"}]

GuardTypes ==
    /\ tokens \in [Nodes -> Int] /\ debt \in [Goroutines -> Nat]
    /\ breaker \in [Nodes -> {"closed", "half-open", "open"}] /\ count \in [Nodes -> Nat]
    /\ epoch \in [Goroutines -> {"closed", "half-open", "past", "none"}]

HistoryTypes ==
    /\ steady \in [Callers -> SUBSET Nodes] /\ lost \in [Callers -> BOOLEAN]
    /\ picks \in [Nodes -> Nat] /\ even \in BOOLEAN

TypeOK == ListTypes /\ PickTypes /\ CallTypes /\ GuardTypes /\ HistoryTypes

\* Pick (selector.go:25) indexes within its own slice, though LastIndex was
\* left by a Pick that had a longer one, and holds its mutex alone.
PickInRange ==
    \A c \in Callers : pc[c] = "walk" => mu = c /\ lastIndex < len[c] /\ i[c] < len[c]

\* A Pick during which no client became unavailable returns nil only if none
\* of its clients had been available all the time, though its loop goes on
\* after it has found one.
PickFinds ==
    \A c \in Callers : result[c] = "not called" /\ ~lost[c] => steady[c] = {}

\* As long as every client is there and available, concurrent Picks spread the
\* calls evenly.
Balanced == even => \A m, n \in Nodes : picks[m] <= picks[n] + 1

\* What a Pick knows while it walks: the clients that have been available ever
\* since it began are still to come, counted from lastIndex, or it stands at an
\* available one and stays there.
Ahead(c, n) == IF n > lastIndex THEN n - 1 - lastIndex ELSE n - 1 + len[c] - lastIndex

Walks ==
    \A c \in Callers :
        /\ Picking(c) => \A n \in steady[c] : n \in 1..MaxNodes /\ status[n] = "available"
        /\ pc[c] = "walk" /\ ~lost[c] =>
              \/ cli[c] = lastIndex + 1 /\ status[cli[c]] = "available"
              \/ \A n \in steady[c] : n <= len[c] /\ Ahead(c, n) < len[c] - i[c]
        /\ pc[c] = "check" /\ ~lost[c] => status[cli[c]] = "available" \/ steady[c] = {}
        /\ result[c] # "none" <=> pc[c] = "done"

\* Where the last Pick that has ended left the index.
LastPicked == IF \E c \in Callers : pc[c] = "walk"
              THEN IF lastIndex = 0 THEN MaxNodes - 1 ELSE lastIndex - 1
              ELSE lastIndex

\* In the current lap, which begins with the second client, n has been picked.
Lap(n) == IF 1 < n /\ n <= LastPicked + 1 THEN 1 ELSE 0

\* Picks go round the clients.
Rotates ==
    even =>
        /\ size = MaxNodes /\ \A n \in Nodes : status[n] = "available"
        /\ \A c \in Callers : pc[c] \in {"lock", "walk"} => len[c] = MaxNodes
        /\ \A m, n \in Nodes : picks[m] - Lap(m) = picks[n] - Lap(n)

\* A call that has left Pick has a client, and a heartbeat its own.
Clients ==
    /\ \A g \in Goroutines : pc[g] \in {"check", "sleep", "send", "sent"} => cli[g] \in Nodes
    /\ \A n \in Beating : cli[n] = n /\ pc[n] \in {"idle", "sleep", "send", "sent"}

\* The strengthening under which these are inductive.
IInv == TypeOK /\ PickInRange /\ PickFinds /\ Balanced /\ Walks /\ Rotates /\ Clients

\* Where a call may wait for ever: in Go, for the mutex of a client that has given up
\* or for a peer that does not read (see RPCClient!DeadlineReturns), and, without a
\* deadline, for its answer.
Unanswered(c) == pc[c] = "send" \/ (pc[c] = "sent" /\ c \notin Deadlined)

\* Every other call comes to its end: neither Pick, nor the sleep for a token, nor the
\* breaker keeps one for ever, while clients are added, connections break and
\* heartbeats take tokens; unless a Pick has panicked.  The sleep ends, but it may end
\* after the deadline.  A call by Go has ended when it is sent.
CallsReturn ==
    \A c \in Callers :
        \/ <>[]Unanswered(c)
        \/ pc[c] # "idle" ~> \/ pc[c] \in {"done", "panicked"} \/ wild
                             \/ pc[c] = "sent" /\ c \in async
                             \/ \E d \in Callers : pc[d] = "panicked"
-----------------------------------------------------------------------------
(* Statements of the repository that the code does not live up to.         *)

\* "not avaliable worker node" (client.go:155) is the error for a call that finds
\* no client, upon which Call returns.  A Pick from an empty slice panics instead,
\* and the calls after it wait for ever for the mutex that it left locked.
NoNodeReturns ==
    \A c \in Callers :
        pc[c] # "idle" ~> pc[c] \in {"sleep", "send", "sent", "done"} \/ wild

\* NewDiscoveryClient takes the options SetCircuitBreaker and SetRateLimiter
\* (client.go:97), and addNodeFunc gives every RPCClient what they say; those that it
\* made before the options were applied have neither breaker nor bucket.
GuardsApply == config = options => \A n \in 1..size : guarded[n] = options
=============================================================================
