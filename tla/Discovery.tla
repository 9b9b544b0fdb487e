------------------------------ MODULE Discovery ------------------------------
(***************************************************************************)
(* How clients find servers: each server publishes its address in etcd     *)
(* under a lease (discovery/publisher.go), and a discovery client reads    *)
(* the addresses once, watches for more (discovery/subscriber.go) and      *)
(* keeps an RPCClient for each (addNodeFunc of client/client.go).          *)
(*                                                                         *)
(* One service, one client, any number of servers, named by their address. *)
(* Servers stop, crash and start again; leases expire, whether their owner *)
(* is gone or only cut off; every request to etcd may fail.  etcd is the   *)
(* environment, modelled as the code uses it: a key is attached to the     *)
(* lease it was last put with, and goes when that lease goes; a watch      *)
(* begins at the revision of its creation and reports changes in order.    *)
(* What an RPCClient does after it was made is in RPCClient.               *)
(* A definition marked "Wrong" is a plausible bug in the one after it,     *)
(* kept to see that the properties below reject it; nothing uses it.       *)
(***************************************************************************)
EXTENDS Naturals, Sequences

CONSTANTS
    Nodes,      \* addresses of servers
    NoNode,     \* no address
    MaxLease    \* bound: leases that etcd grants

ASSUME DiscoveryAssumption == MaxLease \in Nat /\ NoNode \notin Nodes

Leases == 1..MaxLease

\* The goroutines that run addNodeFunc: the one that makes the client, in
\* FetchAllNodesInfo, and then WatchNodes.
Adders == {"fetch", "watch"}

VARIABLES
    \* etcd
    key,        \* the lease each node's key is attached to, or 0: no key
    granted,    \* the last lease granted
    leases,     \* the leases that have neither expired nor been revoked
    \* server processes, and the goroutine of each that runs Register
    proc,       \* "down", "up", or "stopping" once UnRegister was called
    pub,        \* where Register is
    grant,      \* the lease that keepAlive has been granted, or 0
    leaseid,    \* the field leaseid of EtcdPublisher, or 0
    \* EtcdSubscriber and the cachedClient of Client
    fetch,      \* where FetchAllNodesInfo is
    todo,       \* nodes of the Get response that are still to be added
    watching,   \* WatchNodes runs, and its watch has been created
    events,     \* events of the watch that are still to be handled
    adding,     \* the node for which each adder dials, or NoNode
    cached,     \* how many RPCClients cachedClient holds for each node
    told,       \* history: nodes in the Get response or in an event
    undialled   \* history: nodes to which a dial failed

etcdVars == <<key, granted, leases>>
pubVars  == <<proc, pub, grant, leaseid>>
subVars  == <<fetch, todo, watching, events, adding, cached, told, undialled>>
vars == <<etcdVars, pubVars, subVars>>

Init == /\ key = [n \in Nodes |-> 0] /\ granted = 0 /\ leases = {}
        /\ proc = [n \in Nodes |-> "down"] /\ pub = [n \in Nodes |-> "ended"]
        /\ grant = [n \in Nodes |-> 0] /\ leaseid = [n \in Nodes |-> 0]
        /\ fetch = "get" /\ todo = {} /\ watching = FALSE /\ events = <<>>
        /\ adding = [a \in Adders |-> NoNode]
        /\ cached = [n \in Nodes |-> 0] /\ told = {} /\ undialled = {}

-----------------------------------------------------------------------------
(* etcd: a watch is told of every change of a key.  A delete event has the *)
(* key of the node and no value.                                           *)

PutEvent(n) == [type |-> "put", value |-> n]
DeleteEvent == [type |-> "delete", value |-> NoNode]

NotifyPut(n) == IF watching THEN /\ events' = Append(events, PutEvent(n))
                                 /\ told' = told \cup {n}
                            ELSE UNCHANGED <<events, told>>

NotifyDelete == events' = IF watching THEN Append(events, DeleteEvent) ELSE events

\* Lease l is gone.  At most one key was put with it.
Drop(l) ==
    /\ leases' = leases \ {l}
    /\ key' = [n \in Nodes |-> IF key[n] = l THEN 0 ELSE key[n]]
    /\ IF \E n \in Nodes : key[n] = l THEN NotifyDelete ELSE UNCHANGED events
    /\ UNCHANGED <<granted, fetch, todo, watching, adding, cached, told, undialled>>

LeaseExpires(l) == l \in leases /\ Drop(l) /\ UNCHANGED pubVars

-----------------------------------------------------------------------------
(* Server processes and EtcdPublisher.                                     *)

At(n, here, there) == pub[n] = here /\ pub' = [pub EXCEPT ![n] = there]

\* Serve starts the goroutine that calls Register, with a new publisher.
Start(n) == /\ proc[n] = "down"
            /\ proc' = [proc EXCEPT ![n] = "up"]
            /\ pub' = [pub EXCEPT ![n] = "grant"]
            /\ leaseid' = [leaseid EXCEPT ![n] = 0]
            /\ UNCHANGED <<etcdVars, grant, subVars>>

Crash(n) == /\ proc[n] # "down"
            /\ proc' = [proc EXCEPT ![n] = "down"]
            /\ pub' = [pub EXCEPT ![n] = "ended"]
            /\ UNCHANGED <<etcdVars, grant, leaseid, subVars>>

\* keepAlive: grant a lease, put the key with it and keep the lease alive.
Grant(n) == /\ At(n, "grant", "put")
            /\ granted < MaxLease
            /\ granted' = granted + 1
            /\ leases' = leases \cup {granted + 1}
            /\ grant' = [grant EXCEPT ![n] = granted + 1]
            /\ UNCHANGED <<key, proc, leaseid, subVars>>

\* Wrong: the key is put without the lease.
PutUnleased(n) ==
    /\ At(n, "put", "keep")
    /\ key' = [key EXCEPT ![n] = MaxLease + 1]
    /\ NotifyPut(n)
    /\ leaseid' = [leaseid EXCEPT ![n] = grant[n]]
    /\ UNCHANGED <<granted, leases, proc, grant, fetch, todo, watching, adding,
                   cached, undialled>>

\* Wrong: the publisher keeps the lease it had first.
PutKeepsLeaseid(n) ==
    /\ At(n, "put", "keep")
    /\ grant[n] \in leases
    /\ key' = [key EXCEPT ![n] = grant[n]]
    /\ NotifyPut(n)
    /\ leaseid' = [leaseid EXCEPT ![n] = IF @ = 0 THEN grant[n] ELSE @]
    /\ UNCHANGED <<granted, leases, proc, grant, fetch, todo, watching, adding,
                   cached, undialled>>

Put(n) == /\ At(n, "put", "keep")
          /\ grant[n] \in leases
          /\ key' = [key EXCEPT ![n] = grant[n]]
          /\ NotifyPut(n)
          /\ leaseid' = [leaseid EXCEPT ![n] = grant[n]]
          /\ UNCHANGED <<granted, leases, proc, grant, fetch, todo, watching,
                         adding, cached, undialled>>

KeepAlive(n) == /\ At(n, "keep", "select")
                /\ UNCHANGED <<etcdVars, proc, grant, leaseid, subVars>>

\* Any of the three requests fails: Register returns for good.
KeepAliveFails(n) == /\ \E here \in {"grant", "put", "keep"} : At(n, here, "failed")
                     /\ UNCHANGED <<etcdVars, proc, grant, leaseid, subVars>>

\* Wrong: Register returns.
ChannelClosesEnds(n) == /\ At(n, "select", "ended")
                        /\ UNCHANGED <<etcdVars, proc, grant, leaseid, subVars>>

\* The client of etcd has not heard of the lease for too long and closes the
\* channel, whether the lease has expired or not; Register begins again.
ChannelCloses(n) == /\ At(n, "select", "grant")
                    /\ UNCHANGED <<etcdVars, proc, grant, leaseid, subVars>>

\* Server.Close: UnRegister closes stopCh ...
UnRegister(n) == /\ proc[n] = "up"
                 /\ proc' = [proc EXCEPT ![n] = "stopping"]
                 /\ UNCHANGED <<etcdVars, pub, grant, leaseid, subVars>>

\* ... Register finds it closed in its select and revokes the lease, which
\* may fail, or the lease may be gone ...
Revoke(n) == /\ At(n, "select", "ended")
             /\ proc[n] = "stopping"
             /\ IF leaseid[n] \in leases
                THEN Drop(leaseid[n]) \/ UNCHANGED <<etcdVars, subVars>>
                ELSE UNCHANGED <<etcdVars, subVars>>
             /\ UNCHANGED <<proc, grant, leaseid>>

\* ... and when Register has returned, the process exits.
Exit(n) == /\ proc[n] = "stopping"
           /\ pub[n] \in {"failed", "ended"}
           /\ proc' = [proc EXCEPT ![n] = "down"]
           /\ UNCHANGED <<etcdVars, pub, grant, leaseid, subVars>>

-----------------------------------------------------------------------------
(* EtcdSubscriber, and addNodeFunc of Client.                              *)

\* Wrong: the node is not looked for.
AddNodeAlways(a, n) == adding' = [adding EXCEPT ![a] = n]

\* addNodeFunc, first critical section: is there an RPCClient for node n?
AddNode(a, n) ==
    adding' = IF cached[n] = 0 THEN [adding EXCEPT ![a] = n] ELSE adding

\* NewRPCClient dials without the lock; addNodeFunc, second critical section,
\* appends what it made, or returns the error, which is not acted on.
Dial(a) ==
    LET n == adding[a] IN
    /\ n # NoNode
    /\ \/ /\ proc[n] # "down"
          /\ cached' = [cached EXCEPT ![n] = @ + 1]
          /\ UNCHANGED undialled
       \/ undialled' = undialled \cup {n} /\ UNCHANGED cached
    /\ adding' = [adding EXCEPT ![a] = NoNode]
    /\ UNCHANGED <<etcdVars, pubVars, fetch, todo, watching, events, told>>

\* FetchAllNodesInfo: the response has the keys of one revision.
Get == /\ fetch = "get"
       /\ todo' = {n \in Nodes : key[n] # 0}
       /\ told' = todo'
       /\ fetch' = "add"
       /\ UNCHANGED <<etcdVars, pubVars, watching, events, adding, cached, undialled>>

\* Get fails: NewDiscoveryClient panics.
GetFails == /\ fetch = "get"
            /\ fetch' = "failed"
            /\ UNCHANGED <<etcdVars, pubVars, todo, watching, events, adding,
                           cached, told, undialled>>

FetchNode == /\ fetch = "add"
             /\ adding["fetch"] = NoNode
             /\ \E n \in todo : AddNode("fetch", n) /\ todo' = todo \ {n}
             /\ UNCHANGED <<etcdVars, pubVars, fetch, watching, events, cached, told, undialled>>

\* Wrong: the watch goroutine is started before FetchAllNodesInfo.
WatchNodesEarly ==
    /\ ~watching
    /\ watching' = TRUE
    /\ UNCHANGED <<etcdVars, pubVars, fetch, todo, events, adding, cached, told, undialled>>

\* WatchNodes is started when FetchAllNodesInfo has returned.  The watch has
\* no revision to begin at: it begins when etcd creates it.
WatchNodes ==
    /\ fetch = "add" /\ todo = {} /\ adding["fetch"] = NoNode
    /\ ~watching
    /\ watching' = TRUE
    /\ UNCHANGED <<etcdVars, pubVars, fetch, todo, events, adding, cached, told, undialled>>

HandlePut ==
    /\ events # <<>> /\ adding["watch"] = NoNode
    /\ Head(events).type = "put"
    /\ AddNode("watch", Head(events).value)
    /\ events' = Tail(events)
    /\ UNCHANGED <<etcdVars, pubVars, fetch, todo, watching, cached, told, undialled>>

\* Wrong: an event that cannot be decoded ends the goroutine ...
HandleDeleteReturns ==
    /\ events # <<>> /\ adding["watch"] = NoNode
    /\ Head(events).type = "delete"
    /\ UNCHANGED vars

\* Wrong: ... or the loop over the events of one response.
HandleDeleteBreaks ==
    /\ events # <<>> /\ adding["watch"] = NoNode
    /\ Head(events).type = "delete"
    /\ events' = <<>>
    /\ UNCHANGED <<etcdVars, pubVars, fetch, todo, watching, adding, cached, told, undialled>>

\* The event has no value that ValueToServiceInfo could decode: delNodeFunc
\* is not called, and the loop goes on.
HandleDelete ==
    /\ events # <<>> /\ adding["watch"] = NoNode
    /\ Head(events).type = "delete"
    /\ events' = Tail(events)
    /\ UNCHANGED <<etcdVars, pubVars, fetch, todo, watching, adding, cached, told, undialled>>

-----------------------------------------------------------------------------
Register(n) == \/ Grant(n) \/ Put(n) \/ KeepAlive(n) \/ KeepAliveFails(n)
               \/ Revoke(n) \/ Exit(n)

FetchAllNodesInfo == Get \/ GetFails \/ FetchNode \/ Dial("fetch")

WatchLoop == WatchNodes \/ HandlePut \/ HandleDelete \/ Dial("watch")

Next == \/ \E n \in Nodes : \/ Start(n) \/ Crash(n) \/ UnRegister(n)
                            \/ Register(n) \/ ChannelCloses(n)
        \/ \E l \in Leases : LeaseExpires(l)
        \/ FetchAllNodesInfo \/ WatchLoop

Spec == Init /\ [][Next]_vars

\* A process renews the lease of its publisher while it is in the select.
Renewed(l) == \E n \in Nodes : pub[n] = "select" /\ leaseid[n] = l

\* Goroutines are scheduled.  The three requests of keepAlive have no timeout
\* and may never return; a revocation that does not is as one that fails, as
\* the lease is not renewed either.  A lease that nobody renews expires; one
\* that is renewed may, and then its channel closes.
Fairness == /\ \A n \in Nodes : WF_vars(Revoke(n) \/ Exit(n))
            /\ \A n \in Nodes : WF_vars(leaseid[n] \notin leases /\ ChannelCloses(n))
            /\ \A l \in Leases : WF_vars(~Renewed(l) /\ LeaseExpires(l))
            /\ WF_vars(FetchAllNodesInfo) /\ WF_vars(WatchLoop)

FairSpec == Spec /\ Fairness

-----------------------------------------------------------------------------
(* Properties.                                                             *)

Events == {PutEvent(n) : n \in Nodes} \cup {DeleteEvent}

TypeOK == /\ granted \in 0..MaxLease /\ key \in [Nodes -> 0..granted]
          /\ leases \subseteq 1..granted
          /\ proc \in [Nodes -> {"down", "up", "stopping"}]
          /\ pub \in [Nodes -> {"grant", "put", "keep", "select", "failed", "ended"}]
          /\ grant \in [Nodes -> 0..granted] /\ leaseid \in [Nodes -> 0..granted]
          /\ fetch \in {"get", "add", "failed"} /\ todo \subseteq Nodes
          /\ watching \in BOOLEAN /\ events \in Seq(Events)
          /\ adding \in [Adders -> Nodes \cup {NoNode}]
          /\ cached \in [Nodes -> Nat]
          /\ told \subseteq Nodes /\ undialled \subseteq Nodes

\* A node has one RPCClient however often it registers: addNodeFunc looks
\* for it and appends it in two critical sections, with a dial between them,
\* so that no two goroutines may ever be adding.
CachedOnce == \A n \in Nodes : cached[n] <= 1

\* A publisher that has come through keepAlive knows the lease of its key,
\* the one that it will revoke: also after the lease before has expired
\* and whatever process had the same address earlier.
OwnLease == \A n \in Nodes :
                pub[n] \in {"keep", "select"} => key[n] \in {0, leaseid[n]}

\* A node that the client was told of does not get lost between the Get
\* response, the events and the dial: delete events, which the client cannot
\* decode, do not take others with them.
NoNodeDropped ==
    \A n \in told : \/ n \in todo \/ (\E i \in 1..Len(events) : events[i] = PutEvent(n))
                    \/ \E a \in Adders : adding[a] = n
                    \/ cached[n] > 0 \/ n \in undialled

\* The two adders never run at the same time.
OneAdder == watching => fetch = "add" /\ todo = {} /\ adding["fetch"] = NoNode

\* An adder dials for a node that is not cached.
Adding == /\ \A n \in Nodes, a \in Adders : adding[a] = n => cached[n] = 0
          /\ ~watching => events = <<>> /\ adding["watch"] = NoNode
          /\ fetch # "add" => todo = {} /\ adding["fetch"] = NoNode

\* A lease is granted to one node: revoking it, or its expiry, takes no
\* address but that node's.
Held(n) == {grant[n], leaseid[n], key[n]} \ {0}
LeasesApart == \A m, n \in Nodes : m # n => Held(m) \cap Held(n) = {}

\* The strengthening under which all of the above is inductive.
IInv == /\ TypeOK /\ CachedOnce /\ OwnLease /\ NoNodeDropped
        /\ OneAdder /\ Adding /\ LeasesApart

\* A node that the client was told of gets an RPCClient, unless the client
\* could not dial it: the watch outlives events that it cannot decode.
NodeFound(n) == n \in told ~> cached[n] > 0 \/ n \in undialled

\* A server that stops or crashes leaves no address behind, whatever requests
\* to etcd failed, unless it is started again.
AddressLeaves(n) == proc[n] # "up" ~> key[n] = 0 \/ proc[n] = "up"

\* A server whose lease was lost while it was cut off from etcd registers
\* again, unless it stops or a request to etcd fails or never returns.
RegistersAgain(n) == \/ <>[](pub[n] \in {"grant", "put", "keep"})
                     \/ proc[n] = "up" /\ pub[n] = "select"
                           ~> key[n] # 0 \/ proc[n] # "up" \/ pub[n] = "failed"
=============================================================================
