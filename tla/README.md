# easymicro in TLA+

easymicro is an RPC framework in Go: a client that multiplexes calls over one
TCP connection, a server that serves many connections, service discovery
through etcd, and two HTTP gateways. This directory specifies its concurrent
core in TLA+, model-checks it with TLC on small instances, and proves the safety
part with TLAPS for every value of the constants. All source paths below are
relative to `src/`.

    tlc -workers 2 -config RPCClient_Calls.cfg MCRPCClient.tla     # a run
    tlapm RPCClientProofs.tla                                      # the proofs of a module

## 1. The system

| component | source | state it keeps | operations |
|---|---|---|---|
| RPC client connection | `client/rpcclient.go` | status, suicide flag, connection, `pending` map, sequence counter, time of the last send, doneChan, all under one mutex; a Done channel in each Call | `Go`, `Call`, `send`, `done`; goroutines `input` (with `reconnect`) and `keepalive` (with `sendHeartBeat`); `Close` |
| server connection | `server/easyconn.go`, `handleRequest` in `server/server.go`, `service.go`, `context.go` | the connection; one goroutine that reads and one per request; Messages from the pool of `protocol/pool.go`, which all connections share | `serveConn`, `handleTrueRequest`, `handleRequest`, `writeResponse`, `GetPooledMsg`, `FreeMsg` |
| publisher | `discovery/publisher.go`, started and stopped by `server/server.go` | the lease id, stopCh | `Register` with `keepAlive`, `UnRegister`, `revoke` |
| subscriber | `discovery/subscriber.go` | position in the Get response and in the watch | `FetchAllNodesInfo`, `WatchNodes` |
| discovery client | `client/client.go`, `client/selector.go` | `cachedClient`: a slice of RPC clients; the mutex and the position of the round robin | `addNodeFunc`, `delNodeFunc`, `selectRPCClient`, `Pick`, `Call`, `Go` |
| guards of a call | `client/circuit_breaker.go`, `client_options.go`, `RPCClient.Call` | a token bucket and a breaker (of two libraries) per RPC client | the wrapper in `Call` |
| server lifecycle | `server/server.go` | the map of services and the published name, listener, doneChan, wait group, the retry delay of the accept loop | `Register`, `RegisterName`, `Serve`, `serve`, `handleSignal`, `Close` |
| gateway in the server | `server/gateway.go` | none of its own; two pooled Messages per HTTP request | `startGateway`, `ServeHTTP`, HTTP request to `handleRequest` |
| stand-alone gateway | `gateway/` | `clientMap`: service to Client; `cachedClient`: node to RPC client, each with status, `pending`, sequence counter; Messages of the same pool | `GetClient`, `handleRequest`, `selectRPCClient`, `Call`, `Go`, `send`; goroutines `input` and `keepalive`; `reconnect`, `close` |
| wire protocol | `protocol/message.go`, `compressor.go`, `util/` | a Message: header, metadata, payload, buffer | `Encode`, `Decode`, `Reset`, `Clone`, the header's bit fields |
| codecs, metadata, metrics, logging, examples | `codec/`, `metadata/`, ... | none that interacts | stateless |

How they interact. Callers, `input`, `keepalive` and `Close` share an RPC client
under `client.mutex`, which each of them gives up around every blocking step
(encoding, writing, reading, dialling, waiting). The client and the server meet
only in requests and responses that carry a sequence number. The connections of
a server meet in the Message pool. Publisher and subscriber meet in the keys
and leases of etcd, and the subscriber calls back into the discovery client,
which makes RPC clients; callers read its slice of them without its lock. A
server process starts the publisher and, when it closes, waits for it. The
gateways are clients and servers at once: HTTP handlers share RPC clients, and
Messages of the pool go from `input` to the handlers and back.

What is hard about it:

* The life of one call is spread over four goroutines, each of which may be the
  one to complete it, and none of which owns it.
* The client decides on state that it reads without the lock (`suicide` at
  `rpcclient.go:347`), or read before a heartbeat that takes seconds
  (`keepalive`), or leaves alone while it dials (`reconnect`, `addNodeFunc`).
* Responses arrive in any order, after timeouts, after `Close`, after a
  reconnection, and buffered behind one another.
* On the server, a response shares bytes with the pooled request it answers.
* Servers stop, crash and come back while leases expire behind their backs.
* Callers sleep for tokens, are turned away by a breaker that others have
  opened, and pick from a slice that grows while they walk it.
* Signals, users and failures of the listener or of etcd may end a server
  process at any moment of its start and of its end.
* In the stand-alone gateway one Message carries all the responses of a
  connection, and each handler frees it.

What makes each part correct: a call gets one result, its own; a client that
accepts calls has goroutines that serve it; heartbeats and calls with a
deadline end, `Close` ends the rest, and nothing but a blocked write is an
excuse. The server answers each request at most
once and with nobody else's bytes, and a slow service does not hold up
heartbeats. A discovery client has one RPC client per node, loses no node it was
told of, and addresses of servers that are gone disappear. A Pick finds a client
that stays available and spreads calls evenly, nodes have the breaker and the
limiter that the options of their client say, and calls are not kept for ever
by what they go through. A server is published under a name
that it serves, and closes once, after it has unregistered. An HTTP request
gets its own answer.
`PROJECT.json` lists every hazard with its line and the property that guards it.

## 2. The modules

| module | models | depends on |
|---|---|---|
| `RPCCall` | abstract: what `Call` promises to its callers | |
| `RPCPeer` | abstract: what the two ends of connections rely on from each other | |
| `RPCClient` | `client/rpcclient.go` | refines `RPCCall` and `RPCPeer` |
| `ServerConn` | `server/easyconn.go`, `handleRequest`, `protocol/pool.go` | refines `RPCPeer` |
| `Discovery` | `discovery/`, `addNodeFunc`, and what `Serve` and `Close` of the server do to the publisher | |
| `Header` | the twelve bytes of `protocol.Header` and their fields | |
| `Message` | `Encode`, `Decode`, `Clone`, `Reset` of `protocol/message.go` | `Header` |
| `Exchange` | requests and responses as bytes: `createRequest`, `input`, `serveConn`, `handleRequest`, and the HTTP gateway of the server | `Message` |
| `ServiceClient` | `client/client.go`, `client/selector.go`, and the bucket and the breaker in `RPCClient.Call` | |
| `ServerLifecycle` | `server/server.go` and `startGateway` | |
| `Gateway` | the stand-alone gateway, `gateway/` | |
| `MC...` | name the model values of the instances | the module they are named after |
| `NaturalSets` | no code: induction and recursion on natural numbers, as theorems | |
| `...Proofs` | theorems and proofs of `RPCClient`, `ServerConn`, `Discovery`, `Exchange` (with `Header` and `Message`), `ServiceClient`, `ServerLifecycle`, `Gateway` | the same, and `NaturalSets` |

In each of the models a definition that is marked *Wrong* in its comment is a
variant with a plausible bug of the one after it: a dropped guard, a missing
reset, a changed order. No behaviour uses it. Substituting it shows that the
property named for it in `PROJECT.json` is able to fail.

### RPCCall and RPCPeer

`RPCCall` hides the connection, the goroutines and the protocol: a call is
started, the server answers it at most once, and `Call` returns one result. A
result without error needs an answer without error, and `ErrTimeOut` needs a
deadline. It does not promise that a failed call was not executed.

`RPCPeer` is the contract across the wire: a request is asked once, answered at
most once, in any order or never, a heartbeat never with an error. It takes the
place of a composed client-and-server model: `RPCClient` has an environment
that follows `RPCPeer` and itself asks as `RPCPeer` allows (`UsesRPCPeer`);
`ServerConn` has an environment that asks each number once and itself answers as
`RPCPeer` allows (`ImplementsRPCPeer`). What each side assumes is therefore what
the other is shown to do.

### RPCClient

One action is one critical section of `client.mutex` or one step of a goroutine
outside it.

| state | code |
|---|---|
| `status suicide conn pending seq lastSend doneClosed` | the fields of `RPCClient` |
| `mutex` | `client.mutex`; a variable because `input` can keep it for ever |
| `pc seqOf raw failed ready completed result` | a call: where its goroutine is, what `send` captured, its `Error`, its Done channel (capacity 1), and what `Call` returned |
| `inpc resp inCall tries` | `input` and `reconnect` |
| `kapc kaTry kaBeat kaExpired` | `keepalive` and `sendHeartBeat` |
| `net dialed wire replies answer` | connections, and the messages on them |

`Start`/`Register` to `TimeOut` are `Go`, `send` and `Call`. A heartbeat is a call
out of the set `Beats` that runs the same actions, as in the code, where
`sendHeartBeat` calls `Call`. `ReadResponse` to `InputExit` are the input
goroutine, `EnterSelect` to `KeepaliveExit` keepalive, and `Close` is `Close`.

* Messages of a connection are a set: the server runs a goroutine per request
  and answers in any order.
* `readResponse` (line 273) makes a new `bufio.Reader` for every message.
  Responses that the reader has buffered beyond that message are lost with it,
  and when the last of them was cut in two the stream is *garbled*: the next
  read fails. `ReadAhead` bounds how many are lost at a time.
* A write on a connection that the peer has lost may succeed or fail. One on a
  connection whose peer does not read lasts until that connection ends: no
  write deadline is set (`Write` is not fair, see below).
* Time is not modelled. A timer may fire whenever the code waits for it.
* `reopened` is history: a reconnection that `Close` met under way has installed
  its connection, upon which the closed client takes calls again.
* A panic (`nilCall`: a heartbeat response for which there is no call;
  `doneChan`: closed twice) ends the process.
* Payloads and codecs are left out; the breaker and the limiter around `Call` are
  in `ServiceClient`.

### ServerConn

`rpc`, `rmsg` and `read` are the goroutine of `serveConn`; `pc`, `req` and `res` are the
goroutine of each request, which is named by its connection and number. `pool`
counts how often each Message is in the pool, so that a double free can be
seen; `hdr` and `data` say whose header and whose bytes a Message holds.
`Clone` copies the header, while the service path and method of the response
stay strings over the buffer of the *request*: that is why `Put` takes two
messages. A new Message is one that no goroutine refers to, and buffers are always
large enough to be used again, which is the case that can go wrong. Looking up a
service, decoding, the call and encoding may each fail, and a service may never
return. `ReadFails` covers the idle deadline of line 80, which is set without
regard to requests in progress.

### Discovery

One service and one client, any number of servers. `key`, `granted` and `leases` are
etcd; `proc`, `pub`, `grant` and `leaseid` are a server process and the goroutine that
runs `Register`; `fetch`, `todo`, `watching`, `events`, `adding` and `cached` are the
subscriber and `cachedClient`. `told` and `undialled` are history.

* `Start` is `Serve`, with a fresh publisher; `UnRegister`, `Revoke` and `Exit` are
  the steps of `Close`. `Close` can also exit before `Register` has
  returned, because the goroutine counts itself in the wait group
  (`server.go:230`): such an exit is a `Crash`.
* `Grant`, `Put` and `KeepAlive` are the three requests of `keepAlive`. Any of
  them may fail, and then `Register` returns for good (`publisher.go:42`).
* `ChannelCloses` may happen whether or not the lease has expired: the client
  of etcd only knows that it has not heard of it.
* `AddNode` and `Dial` are the two critical sections of `addNodeFunc`, with the
  dial between them. `FetchAllNodesInfo` and then `WatchNodes` run them.
* A delete event has no value, `ValueToServiceInfo` fails, and `HandleDelete`
  does nothing but go on: `delNodeFunc` is never called.
* etcd is external: a key goes with the lease it was last put with, and a watch
  reports, in order, what changes after its creation. A watch that etcd
  cancels is not modelled (the code has a TODO there, `subscriber.go:76`).

### Header, Message and Exchange

`RPCClient` and `ServerConn` leave the contents of messages out; these three
modules are about nothing else. A field of the header is its weight and the
number of its values (`Bits`, `WithBits`). `Encode` returns the sequences of bytes
that the code may write, one for each order of the metadata map. `Decode` gives
the Message that a message is decoded *into*: what the code assigns only under a
condition keeps its old value. `Exchange` runs a client and a server over two
streams of bytes. `pool` holds what freed Messages hold, `reqs` the requests that are
being handled, `resp` the one Message into which `input` decodes every response.
`given` is history. Services reply with any payload and may set metadata; gzip is
a prefix. The keys of a tracing span are those of `Field`, which gives the field that
the server makes of each key (in lower case, without the prefix of baggage), and
`Parsable` has the texts from which that field can be parsed. The stream is never cut or garbled here, and who owns a Message is not
asked: both are in the other models.

`Post` is an HTTP request to a server in gateway mode (`server/gateway.go`): it
takes the same pool's Messages, has no stream and no heartbeat, and ends with a
reply, with an error, or, when the header of its span cannot be decoded, in the
panic that a nil context brings (`AbortPost`).

### ServiceClient

What `RPCClient` leaves out: which RPC client a call is given, and what it passes
before it is sent. Node *k* is the *k*-th that `addNodeFunc` appended, so the slice
is 1, 2, ... `size`.

| state | code |
|---|---|
| `size` | `len(cachedClient)`, which `addNodeFunc` appends to under `c.mu` |
| `array`, `len` | the pointer and the length that `selectRPCClient` reads without `c.mu`, one after the other; the pointer stands for the capacity behind it |
| `mu`, `lastIndex`, `i` | `RoundRobinSelector`: the mutex, `LastIndex`, the loop of `Pick` |
| `status`, `dialling`, `breaks` | RPC clients, of which only the status is left |
| `options`, `config`, `guarded` | what the application asks for, what of it `NewDiscoveryClient` has applied yet, and the breaker and bucket that `addNodeFunc` gave to each RPC client, nil or not |
| `tokens`, `debt` | the bucket: a token is taken at once, maybe before it exists, and then slept for |
| `breaker`, `count`, `epoch` | the breaker, its count of failures or successes in a row, and the state in which it admitted each call under way |
| `async` | the callers that use `Go`, which passes by both guards |
| `wild` | memory beyond an array has been read |

* `Start` and `ReadLen` are the two reads of the slice. When an append comes between
  them, the length may exceed the array; `LookBeyond` then ends what the
  model says (`wild`), since Go defines nothing for it.
* `Lock`, `Look` and `Picked` or `NotPicked` are `Pick`: the loop goes on after it has
  found a client, holding still at it, and the status is read once more
  after the unlock. `Panics` is the division by an empty slice's length, with the mutex locked.
* Heartbeats (`Beat`) call `RPCClient.Call` and so wait for tokens, too, but pass by the
  breaker, as their method is empty.
* `Take` and `ByBreaker` are the nil checks of `RPCClient.Call`: a client without a bucket does
  not wait, one without a breaker calls `Go` directly.
* Nodes that etcd knows of at the start (`Found`) are dialled before the options are
  applied (`client.go:105-121`); `ApplyOption` is one turn of that loop, and the
  watch may add nodes between its turns.
* The libraries are external. gobreaker lets `MaxRequests` calls try when half-open and opens
  after `ReadyToTrip` failures in a row: 1 with `NewReadyToTrip`, and 6 if the settings name
  no function, as in the repository's examples, which have 5 for `MaxRequests`.
  ratelimit's `Wait` ignores deadlines.
* A write that lasts is that of `RPCClient`: `Send` has no fairness.
* `steady`, `lost`, `picks` and `even` are history.

### ServerLifecycle

`Register` to `RegisterName` fill `serviceMap` and set `name`, before any check.
`Serve` starts `reg` (the goroutine that runs `Register` of the publisher), `handler`
(`handleSignal`) and goes on as `main` in the accept loop, with `tempDelay`. `Close`
may run in a user's goroutine and in `handleSignal`: `closer` says where each is.
`doneChan` is made when first asked for; `stopClosed` is the publisher's `stopCh`; `wg` is the
wait group, to which `reg` adds itself (`Add`); `key` is the name under which etcd
has the address. `exit` says how the process ended; nothing happens after it.

* Signals before `signal.Notify` kill the process; later ones are lost unless
  `handleSignal` is receiving, as its channel has no buffer.
* A second `close` of a channel panics, as does the HTTP server of the gateway when its
  listener is gone.
* The publisher is abstracted to what `Discovery` has in detail: it has published, or
  failed, and it may have to begin again when the lease is lost. `StopSeen` is its
  `select`, and `Revoke` the request to etcd that follows.
* `refused`, `errors`, `left` and `uncounted` are history.

### Gateway

Handlers (`call`) find or make the Client of a service in `clientMap` and the RPC client
of its node in `cached`; each RPC client (`rpc`) has a status, a connection,
`pending`, a counter, and where its `input` is. `free`, `used` and `content` are the
Messages by identity, and whose request or response each one holds: `input` decodes
every response of a connection into one Message, a Call's reply *is* that Message, and
the handler frees it (`gateway.go:135`) while `input` goes on using it. The module
models the code of the package as it stands, although it does not build at
this commit: the constructor of its etcd discovery is gone, so what a
subscriber would report is left out, and there is one node.

* `Read` is one `readResponse`. A response that the reader has buffered beyond the message,
  and that is lost with it, is as one that never came.
* `Close` runs without the mutex held, unlike that of `client/`: this input does not lock itself out.
* `sendHeartBeat` returns nil whatever happens, because `err` is declared again in the
  loop (`rpcclient.go:118`): `Beat` and `TimeOut` have no verdict.
* `overlap` is history: whether two calls were ever under way at once.

## 3. The runs

Passing runs (distinct states on the instance given):

| run | instance | shows |
|---|---|---|
| `client_calls` | two calls, one with a deadline and one that cannot be encoded, and a heartbeat; two connections, two tries to reconnect, of which both may fail, one `Close`, one response lost at a time; 2.41 million | `ImplementsRPCCall`, `NoLostCall`, `ReaderServes`, `NoNilCall`, `OpenWhileAvailable` |
| `client_heartbeat` | a call without deadline and a heartbeat, two connections, a reconnection that succeeds, one `Close`, one response lost at a time; 207 thousand | `ClosedSettled`, `UsesRPCPeer`, `DeadlineReturns`, `KeepaliveExits`, `CloseTerminates` |
| `server_requests` | one connection with two requests of any kind, four Messages; 231 thousand | `Exclusive`, `NoCrosstalk`, `IInv`, `ImplementsRPCPeer`, `HeartbeatsAnswered` |
| `wire_messages` | two of 18 calls (metadata, payload and compression present or not, a span with a baggage item, a raw one, a heartbeat) and five HTTP requests, six replies; 113 thousand | `RequestsArrive`, `ResponsesArrive`, `PostsAnswered`, `StreamsDecode` |
| `discovery_nodes` | two servers, two leases, one client; 216 thousand | `CachedOnce`, `OwnLease`, `NoNodeDropped`, `IInv`, `NodesFound`, `AddressesLeave`, `RegisteredAgain` |
| `service_client` | two callers, one with a deadline, one that may use `Go`; two nodes of which none or both are found at first, both options or none, heartbeats to one node, a token each, a breaker that opens at one failure and closes at one success, one broken connection; 1.21 million | `PickInRange`, `PickFinds`, `Balanced`, `CallsReturn` |
| `server_lifecycle` | two registrations, a user and a signal that close, two signals, three accept errors in a row, with and without discovery and gateway; 496 thousand | `PublishedFound`, `ExitUnregisters`, `SignalsAlone`, `BacksOff`, `CloseEnds` |
| `gateway_handlers` | two HTTP requests and a heartbeat, two RPC clients, three Messages, one broken connection; 129 thousand | `NoLostCall`, `AloneRight`, `HandlersReturn` |

* `ImplementsRPCCall`: whatever the order of responses, timeouts,
  reconnections and `Close`, every call returns one result of its own.
* `NoLostCall`: a call that `send` registered and nobody has completed is in
  `pending` under its own number, or `input` is about to complete it. Every exit of
  `send` and of the input loop has to keep this up.
* `ReaderServes`: a client that accepts calls has an input goroutine that reads.
  Three goroutines write `status` and `suicide`, and one reads `suicide` unlocked.
* `NoNilCall`: a heartbeat response is handled without a nil check
  (`rpcclient.go:366`). It holds because a timed-out call *stays* in `pending`; a
  well-meant clean-up on timeout would make the process panic.
* `OpenWhileAvailable`: an available client has not closed its connection.
* `ClosedSettled`: once `Close` has run, every call that `send` registered is completed or
  in the hand of `input`, and none is added, whatever `send`, `input` and the timers
  were in the middle of and however often the client has reconnected before. It ends
  where a reconnection that `Close` met under way installs its connection
  (`rpcclient.go:221-228`), which makes the closed client available again (`reopened`).
* `UsesRPCPeer`: no number is asked twice, also not across reconnections.
* `DeadlineReturns`: calls with a deadline, such as all heartbeats, return or are in a write
  that the peer does not read (`Blocked`), which happens before the `select` that knows of the deadline.
* `KeepaliveExits`: keepalive ends once doneChan is closed, also out of a blocked
  heartbeat, as `Close` closes the connection under it - unless that heartbeat's
  connection is not the client's any more (`Stranded`).
* `CloseTerminates`: `Close` ends calls that have no deadline, with two exceptions:
  calls that are stranded in that way, and calls that a client `reopened` behind `Close`
  (see `AvailableHasKeepalive` below) has not completed.
* `Exclusive`, `NoCrosstalk`: no Message has two owners, and each response has
  the number and the bytes of its own request.
* `HeartbeatsAnswered`: also while a service of the connection never returns. The
  server's write is assumed to return: the reader writes answers to heartbeats itself.
* `CachedOnce`: one RPC client per node, although `addNodeFunc` looks and
  appends in two critical sections with a dial between them.
* `OwnLease`: the lease that `Register` will revoke is that of its key.
* `NoNodeDropped`, `NodesFound`: a node the client was told of gets an RPC
  client unless the dial fails; events that cannot be decoded take no others along.
* `AddressesLeave`: a server that is gone leaves no address, whatever failed.
* `RegisteredAgain`: a server that was cut off registers again, unless a request to etcd fails,
  which ends `Register`, or never returns.
* `RequestsArrive`: a service finds what its caller asked. `createRequest` and
  `Decode` assign only what is there, so `Reset` has to clear the rest.
* `ResponsesArrive`: `input` finds the payload that the service of that call replied, with the
  serialization of the request, and knows heartbeats: the flags survive
  `Clone` and the setters that share a byte. If the service sent metadata, those are found.
  If it sent none, the call is given what an earlier response has left in `resp`
  (`message.go:464`), which `MetadataArrives` below shows to be a defect; the property
  says that this can be nothing but the metadata of an answer on the same connection.
* `StreamsDecode`: what was encoded can be decoded, message by message, with empty
  keys, values and payloads. It says nothing of metadata that `Encode` cannot have written.
* `PostsAnswered`: an HTTP client gets what its own service replied, though its two
  Messages come from the pool that the RPC connection uses.
* `PickInRange`: `LastIndex` is left by whichever Pick came before, for a slice of
  another length; the next one must come to an index of its own slice, alone.
* `PickFinds`: the loop of `Pick` runs to its end after it has found a client, over
  statuses that others change; it still returns nil only if no client was available throughout.
* `Balanced`: while all clients are available, concurrent Picks go round.
* `CallsReturn`: neither `Pick` and its mutex, nor the sleep for a token, nor the breaker keeps a
  call for ever, while nodes are added, connections break and heartbeats take tokens.
  It excepts what `RPCClient` shows: a `Go` that is blocked in a write, or behind the mutex of
  a client that has given up, and a call without a deadline that is not answered; and
  a panicked Pick (`client_no_nodes`). The sleep ends, but maybe after the deadline of the call.
* `PublishedFound`: `register` and `Serve` each lower the name on their own, and a client
  that reads the one in etcd must find the service under the other. It excepts a last
  registration that was refused, whose name is published all the same.
* `ExitUnregisters`: a process that exits by `Close` leaves no address, also when its lease
  was lost and granted again meanwhile. It excepts a failure of etcd, and an exit that
  did not wait because `wg.Add` had not been reached (`server.go:230`).
* `SignalsAlone`: no number of signals makes `Close` run twice and panic.
* `BacksOff`: the delay of the accept loop is that of the errors since the last connection.
* `CloseEnds`: `Close` ends the process, whatever the publisher is doing, unless a request of
  the publisher to etcd never returns (`AtEtcd`): these have no timeout (`publisher.go:72-94`).
* `AloneRight`: handlers that follow one another get their own responses, although
  each frees the Message that `input` goes on decoding into. Handlers that overlap do not:
  that is what the exception `overlap` says, and the model has the behaviours.
* `NoLostCall` of `Gateway`: a call that nobody has completed is pending under its number
  on an RPC client that is not closed, or in the hand of `input`, also where handlers
  overlap and are given responses to one another.
* `HandlersReturn`: handlers have no deadline, so all that `input` leaves when it gives up
  must be completed by `close`, including calls registered during the reconnection.

Where the program does not do what the repository says (each run finds a
counterexample to one property):

| run | statement | what the code does |
|---|---|---|
| `client_give_up` | "Terminate pending calls." (`rpcclient.go:324`) | after the last failed dial `input` calls `close` with the mutex held (403-405): deadlock, calls hang |
| `client_read_ahead` | multiple outstanding calls (`rpcclient.go:74`) | a response buffered behind another one is dropped (274): its call hangs |
| `server_failures` | ServerError is returned from the remote side (`rpcclient.go:43`) | `handleError` builds the response with the error, and `handleTrueRequest` drops it (`easyconn.go:111-115`, `DropError`) |
| `client_no_nodes` | "not avaliable worker node" (`client.go:155`) is what a call gets that finds no client | `Pick` divides by zero with its mutex locked (`selector.go:25`): the calls behind one that recovered wait for ever |

Six more statements are false of the models but have no run of their own. Add the
definition to a `.cfg` to see its counterexample:

| definition | statement | what the code does | instance |
|---|---|---|---|
| `RPCClient!KeepaliveExitsOnceClosed` | `README.md:37`: keepalive exits when the rpcclient closes | after failed heartbeats keepalive closes the client itself (304) without closing doneChan, and no later `Close` does | `FairSpec`, `MaxConns = 1`, `MaxCloses = 0` |
| `RPCClient!AvailableHasKeepalive` | `README.md:27-32`: an rpcclient has an input and a keepalive goroutine | `Close` during a dial ends keepalive, and `reconnect` then sets the status to available (223) | `Spec`, `MaxConns = 2`, `MaxCloses = 1`, `Beats = {}` |
| `ServerConn!OnewayUnanswered` | one-way requests get no response (`message.go:160`) | they get one (`easyconn.go:116`) | `Spec`, `MaxSeq = 1` |
| `RPCClient!CallsMeetDeadlines` | a call is limited by the timeout of its context (`README.md:39-42`) | `Call` runs `Go`, and `rawConn.Write` in it (260), before its `select`: a peer that does not read holds the caller past its deadline | `FairSpec`, `Deadlined = Calls`, `MaxConns = 1`, `MaxCloses = 0`, `Beats = {}` |
| `ServiceClient!GuardsApply` | service discovery with breaker and limiter (`README.md:5`), the options of `NewDiscoveryClient` (`client.go:97`) | they are applied (119-121) after the nodes known to etcd have got their RPC clients (105): these have neither | that of `service_client` |
| `Exchange!MetadataArrives` | a caller fetches the metadata of its own call's service (`README.md:64`) | `input` never resets its Message, and `Decode` assigns metadata only if there are any (`message.go:464`): a call gets those of an earlier one | that of `wire_messages` |

### Bounds, and why they are enough

Each bound is a named CONSTANT in the guard of the action it limits.

* `RPCClient`: `MaxSeq` numbers, `MaxConns` dials, `MaxOutage` failed dials in a row,
  `MaxCloses`, the set `Beats`, `ReadAhead`. Two requests are the least that can
  overtake one another; a third one fails to encode meanwhile. Two
  connections are one reconnection, over which a late response or a heartbeat's
  verdict can be carried; the proofs have any number. Both tries to dial again may
  fail, and then the client gives up. In the run of the liveness properties dialling
  succeeds: they hold only as long as the client does not give up
  (`client_give_up`), and that a dial fails first was checked with two tries (319
  thousand states). A second invocation of `Close`, which can close doneChan twice, was
  checked for both runs, too (2.7 million and 679 thousand states), and the proofs
  have any number. A connection breaks
  only while another can be dialled, so that the bound does not look like an
  outage.
* `ServerConn`: each request uses two Messages, so four serve
  two requests at once; the reader would take a fifth only to wait for a third request.
  With five the properties were checked as well (825 thousand states). The requests share a pool whichever connection they are on,
  and the proofs have no bound on connections.
* `Discovery`: two nodes can be confused, and as nothing tells them apart the
  liveness properties are checked of one of them; two leases let one be lost and another
  be granted under the same address. With three leases the invariants
  were checked as well (2.8 million states). Once `MaxLease` is reached,
  `Register` can only fail, which the code also allows.
* `Exchange`: two calls are the least of which one can find what the other left in
  the pool or in `resp`. The texts are an empty one and two others; keys and
  values of either end may be the empty one. With a second serialization for each of
  the calls the properties were checked as well (320 thousand states), and the
  proofs have any texts.
* `ServiceClient`: two nodes (`MaxNodes`) are the least that a round robin can skip or a
  slice can grow by; two callers, of one call each, the least that can race for the
  mutex, the token (`Capacity` 1) and the half-open breaker. `MaxBreaks` bounds broken
  connections, not failed heartbeats. `MaxRequests` and `ReadyToTrip` are 1, where two
  calls change the breaker under one another; with 2 for both and one node, added after
  the options, all properties were checked as well (76 thousand states). The
  proofs have any settings, those of the examples (5 and 6) among them.
* `ServerLifecycle`: `MaxServices` 2 registers a second name over the first; `MaxErrors` 3 with
  `MaxDelay` 3 doubles the delay, reaches the bound and stays at it; `MaxSignals` 2 sends
  one while `Close` runs. The names are two that differ in case only.
* `Gateway`: two handlers may follow one another or overlap; `MaxSeq` 2 gives a connection's
  Message to two of the three callers; `MaxMessages` 3 are two requests and the
  Message of one `input`, or two `input`s and a request, and with four all properties were
  checked as well (1.04 million states); `MaxClients` 2 lets a second RPC client
  take the place of one that has closed; `MaxBreaks` 1 is a reconnection, or its failure.

`CHECK_DEADLOCK FALSE`: all systems really stop. A client is closed and
its callers have returned; all connections are closed and their requests
handled; all servers are down and the events handled; all calls are answered; the
process has exited; memory beyond a slice was read, or `input` has panicked.

### Fairness, and why the code justifies it

* Weak fairness of each goroutine (the callers' `OwnSteps`, `Input`, `Keepalive`, `ServeConn`,
  `HandleTrueRequest`, `FetchAllNodesInfo`, `WatchLoop`): Go schedules
  runnable goroutines. Only callers' own steps are fair; nobody need start a call
  or invoke `Close`.
* Weak fairness of `BeatContextExpires`: the context of a heartbeat has a
  timeout (`rpcclient.go:161`).
* Strong fairness of `KeepaliveExit`: `select` chooses at random among ready
  channels; doneChan stays ready while the timer comes and goes.
* No fairness of the peer, the network, a service or a server's start. A caller's `Write`
  is fair only on a connection that has ended, where it fails or goes into the void: it has no
  deadline, and a peer that is up need not read. Only the runs about lost answers
  (`PeerFairSpec`) have a peer that reads and answers: they are about a response that was sent.
* `ServerConn`: weak fairness of the reader and of each request's goroutine, in which the service
  need not return. Its writes are assumed to return, that is, clients are assumed to read.
* `ServiceClient`: weak fairness of each caller in `Pick` and in the guards, of `Ends` for the
  callers that have a deadline, and of `Fill` (the bucket is filled by the clock). None of
  `Send`, which may be a write that lasts, nor of heartbeats.
* `ServerLifecycle`: weak fairness of `Close` and of the publisher's own steps (`Add`, `Finish`); strong
  fairness of `StopSeen`, because `select` chooses at random and `stopCh` stays closed. None of
  `Publish` and `Revoke`: requests to etcd are made with `context.TODO()` and may never return.
* `Gateway`: weak fairness of handlers, of `Call` and of `input` where it does not wait for
  the peer. `Read`, the peer and the network have none.
* `Discovery`: a lease that nobody renews expires (its TTL is ten seconds); a
  channel whose lease is gone closes. The requests of `keepAlive` are not fair, as in `ServerLifecycle`.

## 4. The proofs

TLAPS checks all theorems for arbitrary sets of calls, heartbeats, connections,
requests, messages, nodes, callers, handlers, services and names, and for
arbitrary bounds.
The assumptions are those that the modules name (`CallAssumption`,
`BoundAssumption`, `ServerAssumption`, `DiscoveryAssumption`,
`ServiceClientAssumption`, `NameAssumption`, `LifecycleAssumption`,
`GatewayAssumption`): model values are distinct and bounds are natural numbers.
`ExchangeAssumption` says of what types the contents of calls, HTTP requests and
replies are. `LengthAssumption` says that the messages of a call fit the
four bytes that `Encode` has for a length: it writes a length modulo 2^32
(`message.go:257`), so that a message of 4 GiB could not be read again. Sequence
numbers fit their eight bytes (`MaxCalls`).

| theorem | says |
|---|---|
| `RPCClientProofs!Invariance`, `TypeCorrect` | `IInv`, hence `TypeOK`, always |
| `RPCClientProofs!Safety`, `BeatsHaveCalls`, `AvailableIsServed`, `AvailableIsOpen` | `NoLostCall`, `NoNilCall`, `ReaderServes`, `OpenWhileAvailable`, always |
| `RPCClientProofs!ClosedIsSettled` | `ClosedSettled`, always |
| `RPCClientProofs!Refinement` | the client implements `RPCCall` |
| `RPCClientProofs!PeerRefinement` | the client keeps its side of `RPCPeer` |
| `ServerConnProofs!Invariance`, `OneOwner`, `Safety` | `IInv`, hence `Exclusive` and `NoCrosstalk`, always |
| `ServerConnProofs!Refinement` | the server keeps its side of `RPCPeer` |
| `DiscoveryProofs!Invariance` | `IInv`, always |
| `DiscoveryProofs!OneClientPerNode`, `RevokesOwnLease`, `EveryNodeKept` | `CachedOnce`, `OwnLease`, `NoNodeDropped`, always |
| `ServiceClientProofs!Invariance` | `IInv`, always |
| `ServiceClientProofs!IndexInRange`, `AvailableIsFound`, `EvenlyPicked` | `PickInRange`, `PickFinds`, `Balanced`, always |
| `ServerLifecycleProofs!Invariance` | `IInv`, always |
| `ServerLifecycleProofs!NameServed`, `NoAddressLeft`, `CloseOnce`, `DelayBacksOff` | `PublishedFound`, `ExitUnregisters`, `SignalsAlone`, `BacksOff`, always |
| `GatewayProofs!Invariance`, `AloneIsRight` | `IInv`, hence `AloneRight`, always |
| `GatewayProofs!NobodyIsLost` | `NoLostCall` of `Gateway`, always |
| `ExchangeProofs!Invariance` | `IInv`, always |
| `ExchangeProofs!NothingIsLeft`, `RepliesAreTheirOwn`, `PostsGetTheirReplies`, `StreamsAreRead` | `RequestsArrive`, `ResponsesArrive`, `PostsAnswered`, `StreamsDecode`, always |
| `ExchangeProofs!MessageInverse`, `MetadataInverse` | for every message and every stream that begins with it, `Decode` finds what `Encode` wrote, and leaves the rest; so for metadata, in any order of the map |
| `ExchangeProofs!TypeApart`, `HeartbeatApart`, `OnewayApart`, `CompressApart`, `StatusApart`, `SerializeApart` | for every header and value, a setter changes its own field, to what its getter returns, and nothing else |

The `IInv` of `ServerConn` and `Discovery` are invariants of runs. Of the others the runs
check the conjuncts that are properties, and the rest was checked on the same instances
without being kept in them. None of the safety properties is
inductive by itself:

* `RPCClient`. `NoLostCall` needs `Numbered`: numbers are handed out once, and
  `pending` files a call under its own, so that no registration
  overwrites another. `NoNilCall` needs `BeatPending`: as long as a heartbeat's
  request or response is under way its call is in `pending`. `Withdraw` is the
  step that could break it; it does not, because a number whose call is still
  sending (`SendingPending`) has no message anywhere (`OneMessage`), nor does
  `Close`, which completes calls without removing them. The refinement needs
  `OneMessage` and `Completed`: a call completed without error was answered
  without one. `OpenWhileAvailable` needs `Dialed`: the connection that
  a reconnection installs is one that nobody else could have closed. `ClosedSettled` is
  preserved on top of `IInv`: a client that is not available registers nothing, and only
  `Install` makes one available again, which then is `reopened`; `Close` completes
  what is pending, and by `NoLostCall` that is everything but what `input` has in its hand.
* `ServerConn`. `Exclusive` needs `Holding`: which of its variables a goroutine
  uses at each point. `NoCrosstalk` needs `OwnBytes`: a Message keeps the bytes of its
  request while a goroutine uses it, which follows from `Exclusive`.
  `Progress` orders sending, reading and answering for the refinement.
* `Discovery`. `CachedOnce` needs `OneAdder` and `Adding`: the watch begins after
  `FetchAllNodesInfo` has returned, so that only one goroutine is ever between
  the two critical sections of `addNodeFunc`, and the check it made still holds.
  `LeasesApart` says that no two nodes hold the same lease: losing one takes no
  other node's address along.
* `ServiceClient`. `PickFinds` needs `Walks`: while a Pick walks, either it stands at an
  available client, where it stays, or every client that has been available since it
  began is still ahead of the index, by fewer steps than the turns that are left (`Ahead`).
  `Balanced` needs `Rotates`: the clients from the second to the last one picked are
  one pick ahead of the others, and a Pick under way has moved the index already but
  not the count (`LastPicked`). `Clients` says that a call
  that has left `Pick` has a node, and a heartbeat its own, so that what the guards do to
  one node's bucket and breaker is well-typed for any options and settings.
* `ServerLifecycle`. `ExitUnregisters` needs `Counted` and `Waited`: what the wait group counts,
  and that a Close that goes on to exit has found `Register` ended or not counted yet.
  `SignalsAlone` needs `Stopped`: channels are closed by a Close alone, and `handleSignal`
  receives nothing while its own runs. `PublishedFound` needs `Named`. `BacksOff` needs
  that an error which `Accept` has returned is counted (`BackoffInv`), and the values of the
  recursive function: below the bound it is doubled, and never zero again.
* `Gateway`. `AloneRight` needs `Alone`: what handlers, heartbeats and inputs may
  have under way as long as no two calls have overlapped. A request keeps what its caller
  put into it until it is written (`Sending`), and from then on the response to it passes
  through `Asked` (on the wire), `Got` (decoded), `InHand` (its call found) and `Replied`
  (given to the handler). At each of these one call waits, and is pending once
  (`Registered`), so nothing else is on its way (`Quiet`, `OneAnswer`) that could be decoded
  into the Message meanwhile. Heartbeats that timed out are why a call may be found
  although it is over, and a call counts as under way (`Active`) until it is no longer
  pending: its late response would be decoded into the Message that the next handler gets.
  `NoLostCall` does not rest on `Alone`, as it holds for handlers that overlap as well. It
  needs `Numbered` and `Unnumbered`: an RPC client hands out each number once, so that a
  call that is registered takes no other's place, and a caller that has not come to
  `send` has no number yet.
* `Exchange`. The properties need `OnTheWay`: the streams are what `Encode` wrote of
  some of the requests and some of the answers, in any order, each at most
  once; a request that is on its way is not being handled and has not been answered, and
  what comes back are answers. `Remains` says that the metadata in
  `resp` came with an answer that has been read. `NothingLeft` says that all pooled Messages
  are as new, and that a request that is being handled is the one that was asked. To be
  asked or answered adds a message at the end of a stream, to be received takes one
  away at its beginning. That the second undoes the first is `MessageInverse`,
  the lemma that all rests on. It comes from the bits: `HeartbeatApart` and the
  like are arithmetic on one byte, lifted to the header; four bytes give back the length
  below 2^32 that was put into them; a text is found again behind its length; and
  pairs behind one another are found again, up to the last, whose end must be the end
  of the metadata for the loop to stop there (`message.go:365`).

A proof that a step preserves a conjunct has a step for every action or group
of actions. The refinement proofs show that an initial state maps to an initial
state and that every step maps to a step of the abstract specification or to a
stutter (`AbstractStep`, `PeerStep`, `AnswerStep`).

Induction over data. The functions that are defined by recursion (`Decode`'s loop over
metadata, the bytes of a number, the texts behind one another, the delay of the
accept loop) are met in `NaturalSets`: what it says of all numbers it says of a set of
numbers, and its proofs rest on a theorem of the library about sets, that strict
inclusion of finite sets is well-founded. A recursive function is shown to exist
as the union of its approximations (`Recursion`), and then has the values of its definition.

Only model-checked: the liveness properties (`DeadlineReturns`, `KeepaliveExits`,
`CloseTerminates`, `HeartbeatsAnswered`, `NodesFound`, `AddressesLeave`,
`RegisteredAgain`, `CallsReturn`, `CloseEnds`, `HandlersReturn`), since liveness under
fairness, and ENABLED, are out of reach of the prover. What two of them rest on is proved:
no call is left where nobody would complete it (`ClosedSettled` for `CloseTerminates`,
`NoLostCall` of `Gateway` for `HandlersReturn`). All other properties of passing
runs are theorems.

## 5. The plan

In the order of importance; all but the last are done.

1. `RPCCall`, `RPCClient`: done, proved.
2. `RPCPeer`: done, refined from both sides.
3. `ServerConn`: done, proved.
4. `Discovery`: done, safety proved.
5. Refinements into `RPCCall` and `RPCPeer`: done, proved.
6. `ServiceClient`, the selector and the guards of a call: done, safety proved.
7. `Header`, `Message`, `Exchange` with the HTTP gateway: done, proved.
8. `ServerLifecycle`: done, safety proved.
9. `Gateway`: done, safety proved.
10. `SharedDone`: several `Go` calls that share a Done channel, where the second
    completion of a call after `Close` takes a place that another call needs
    (`rpcclient.go:331`, `411-421`). It would extend `RPCClient`.

## 6. What is not modelled

* `Client.Close` of the discovery client, which closes the RPC clients of a slice that
  others append to; what it does to each of them is `RPCClient!Close`.
* `delNodeFunc`, which nothing calls with an event that can be decoded.
* In the stand-alone gateway: discovery, whose constructor
  (`discovery.DiscoveryMaster`) no longer exists, so that the package does not
  build; several services and nodes; a Client with a fixed address.
* Codecs, what gzip computes, logging, metrics and tracing: no property depends
  on them.
* `WriteTo` and `Read`, which only the test of `protocol/` calls, and malformed
  messages: `Decode` indexes by the lengths it reads.
* A reply that is decoded after its call has timed out (`input` writes into the
  caller's `Reply`, `rpcclient.go:386`): the model has the late completion, but
  not the memory of the reply.
* `argsReplyPools`: off unless `UsePool` is set, which nothing does; with it,
  `Get` would call a pool that was never made (`server/pool.go:66`).
* `ServeHTTP` and `HandleHTTP` of the server, which hijack an HTTP connection for
  `serveConn`.
* Watches that etcd cancels, several discovery clients, several published services.

### What the code does that a reader may not expect

Found while modelling; no property depends on these, or one excepts them.

* `Client.Call` returns nil, and no reply, when no client could be picked
  (`client.go:133-136`); `Go` returns a nil `*Call`.
* A request has a goroutine of its own (`easyconn.go:97`), although `README.md:169` says that
  requests are handled by a pool of goroutines and not by one each. How requests are
  scheduled makes no difference to the properties of `ServerConn`, except that with a
  bounded pool services that do not return could hold up others.
* A call sleeps for its token past its deadline (`rpcclient.go:534`): `bucket.Wait` does not know
  the context.
* Heartbeats draw from the token bucket of the calls (`rpcclient.go:534`), so
  that under load they may time out before they are sent, and close the client.
* The server stores the span of a request in its context as a SpanContext, while
  the client's `createRequest` looks for a map: spans do not go on to further calls.
* `suitableMethods` logs a method whose context has the wrong type and goes on to
  register it (`server.go:150-154` has no `continue`).
* A server with several services publishes the last name only (`server.go:95`),
  also one whose registration was refused.
* In the stand-alone gateway a failed heartbeat is never noticed, because `err` is declared
  again in the loop (`gateway/rpcclient.go:118`), and overlapping handlers may be
  given one another's responses, as all of them share one Message.
