------------------------------ MODULE RPCClient ------------------------------
(***************************************************************************)
(* The multiplexing RPC client of client/rpcclient.go: any number of       *)
(* callers share one connection, a map of pending calls keyed by sequence  *)
(* number, an input goroutine that matches responses to calls and          *)
(* reconnects, and a keepalive goroutine that sends heartbeats and gives   *)
(* the connection up when they fail.                                       *)
(*                                                                         *)
(* One action is one critical section of client.mutex, or one step of a    *)
(* goroutine outside it.  The mutex is a variable because one path         *)
(* of the code takes it twice.  Time is not modelled: a timer may fire     *)
(* whenever the code waits for it.  Payloads, codecs and the layout of     *)
(* messages are left out; a message is its sequence number and its         *)
(* heartbeat bit.  The peer and the network are the environment: the peer  *)
(* answers the requests of a connection in any order (it runs one          *)
(* goroutine per request), or never.                                       *)
(* A definition marked "Wrong" is a plausible bug in the one after it,     *)
(* kept to see that the properties below reject it; nothing uses it.       *)
(***************************************************************************)
EXTENDS Naturals, FiniteSets

CONSTANTS
    Calls,             \* the calls made through Call or Go by users
    Beats,             \* the Call objects that sendHeartBeat creates
    NoCall,            \* Go's nil *Call
    Deadlined,         \* the user calls whose context has a deadline
    BadArgs,           \* the user calls whose arguments cannot be encoded
    ReconnectTryNums,  \* client.reconnectTryNums (6 when not set)
    HeartBeatTryNums,  \* client.heartBeatTryNums (3 when not set)
    MaxSeq,            \* bound: sequence numbers that are handed out
    MaxConns,          \* bound: connections that are ever dialled
    MaxOutage,         \* bound: dials in a row that may fail
    MaxCloses,         \* bound: invocations of Close
    ReadAhead          \* whole or partial messages, beyond the one it
                       \* decodes, that one bufio.Reader can have swallowed

ASSUME CallAssumption == /\ Calls \cap Beats = {}
                         /\ NoCall \notin Calls \cup Beats
                         /\ Deadlined \subseteq Calls
                         /\ BadArgs \subseteq Calls

ASSUME BoundAssumption == /\ ReconnectTryNums \in Nat \ {0}
                          /\ HeartBeatTryNums \in Nat \ {0}
                          /\ MaxSeq \in Nat
                          /\ MaxConns \in Nat \ {0}
                          /\ MaxOutage \in Nat
                          /\ MaxCloses \in Nat
                          /\ ReadAhead \in Nat

Objs   == Calls \cup Beats
Seqs   == 1..MaxSeq
Conns  == 1..MaxConns

ConnStatus == {"Available", "Close", "Reconnect", "ReconnectFail"}
Results    == {"none", "ok", "err", "timeout"}
Answers    == {"none", "ok", "err"}

Requests  == [conn : Conns, seq : Seqs, hb : BOOLEAN]
Responses == [conn : Conns, seq : Seqs, hb : BOOLEAN, err : BOOLEAN]
NoResponse == [conn |-> 0, seq |-> 0, hb |-> FALSE, err |-> FALSE]

VARIABLES
    \* fields of RPCClient
    status,     \* the connection status
    suicide,    \* the client closed the connection itself
    conn,       \* the connection in use
    pending,    \* sequence number -> call waiting for its response, or nil
    seq,        \* the last sequence number handed out
    lastSend,   \* "recent" within heartBeatInterval of the last send, or "old"
    doneClosed, \* doneChan is closed
    mutex,      \* "free", or "input" when the input goroutine keeps it
    \* Call objects
    pc,         \* where the goroutine that made the call is
    seqOf,      \* the sequence number under which a call was registered, or 0
    raw,        \* the connection send captured for a call, or 0
    failed,     \* calls with Error # nil
    ready,      \* calls that sit in their Done channel (capacity 1)
    completed,  \* history: calls for which done() has run
    result,     \* what Call returned
    \* the input goroutine
    inpc, resp, inCall, tries,
    \* the keepalive goroutine
    kapc, kaTry, kaBeat, kaExpired,
    \* connections, and the messages in flight on them
    net, dialed, wire, replies,
    answer,     \* history: how the peer answered each sequence number
    \* the process
    closes, panicked,
    reopened    \* history: a reconnection has made a client that Close had
                \* closed available again

clientVars == <<status, suicide, conn, pending, seq, lastSend, doneClosed, mutex>>
callVars   == <<pc, seqOf, raw, failed, ready, completed, result>>
inputVars  == <<inpc, resp, inCall, tries>>
kaVars     == <<kapc, kaTry, kaBeat, kaExpired>>
netVars    == <<net, dialed, wire, replies, answer>>
procVars   == <<closes, panicked, reopened>>
vars == <<clientVars, callVars, inputVars, kaVars, netVars, procVars>>

Init ==
    /\ status = "Available" /\ suicide = FALSE /\ conn = 1
    /\ pending = [s \in Seqs |-> NoCall] /\ seq = 0
    /\ lastSend = "old" /\ doneClosed = FALSE /\ mutex = "free"
    /\ pc = [c \in Objs |-> "idle"]
    /\ seqOf = [c \in Objs |-> 0] /\ raw = [c \in Objs |-> 0]
    /\ failed = {} /\ ready = {} /\ completed = {}
    /\ result = [c \in Objs |-> "none"]
    /\ inpc = "read" /\ resp = NoResponse /\ inCall = NoCall /\ tries = 0
    /\ kapc = "top" /\ kaTry = 0 /\ kaBeat = NoCall /\ kaExpired = FALSE
    /\ net = [k \in Conns |-> IF k = 1 THEN "up" ELSE "none"] /\ dialed = 1
    /\ wire = {} /\ replies = {} /\ answer = [s \in Seqs |-> "none"]
    /\ closes = 0 /\ panicked = "no" /\ reopened = FALSE

-----------------------------------------------------------------------------
(* Callers: Go, send and Call, run by users and by sendHeartBeat.          *)

\* call.done() for every call of S: the channel holds one call, and a send
\* that finds it full is discarded.
Done(S) == /\ ready' = ready \cup S
           /\ completed' = completed \cup S

\* send, first critical section: refuse the call, or register it.
Register(c) ==
    /\ mutex = "free"
    /\ pc[c] = "idle"
    /\ \/ /\ status # "Available"
          /\ failed' = failed \cup {c}
          /\ Done({c})
          /\ pc' = [pc EXCEPT ![c] = "waiting"]
          /\ UNCHANGED <<seq, pending, lastSend, seqOf, raw>>
       \/ /\ status = "Available"
          /\ seq < MaxSeq
          /\ seq' = seq + 1
          /\ pending' = [pending EXCEPT ![seq + 1] = c]
          /\ lastSend' = "recent"
          /\ seqOf' = [seqOf EXCEPT ![c] = seq + 1]
          /\ raw' = [raw EXCEPT ![c] = conn]
          /\ pc' = [pc EXCEPT ![c] = "sending"]
          /\ UNCHANGED <<failed, ready, completed>>
    /\ UNCHANGED <<status, suicide, conn, doneClosed, mutex, result,
                   inputVars, netVars, procVars>>

Start(c) == c \in Calls /\ Register(c) /\ UNCHANGED kaVars

\* Wrong: the call is taken out of pending and not completed.
WithdrawForgets(c) ==
    /\ mutex = "free"
    /\ pending' = [pending EXCEPT ![seqOf[c]] = NoCall]
    /\ pc' = [pc EXCEPT ![c] = "waiting"]
    /\ UNCHANGED <<status, suicide, conn, seq, lastSend, doneClosed, mutex, seqOf,
                   raw, failed, ready, completed, result, inputVars, kaVars, netVars, procVars>>

\* send, second critical section: the call is taken back out of pending and
\* completed with the error, unless it is no longer there.
Withdraw(c) ==
    LET p == pending[seqOf[c]] IN
    /\ mutex = "free"
    /\ pending' = [pending EXCEPT ![seqOf[c]] = NoCall]
    /\ failed' = failed \cup ({p} \ {NoCall})
    /\ Done({p} \ {NoCall})
    /\ pc' = [pc EXCEPT ![c] = "waiting"]
    /\ UNCHANGED <<status, suicide, conn, seq, lastSend, doneClosed, mutex,
                   seqOf, raw, result, inputVars, kaVars, netVars, procVars>>

CreateRequestFails(c) == pc[c] = "sending" /\ c \in BadArgs /\ Withdraw(c)

WriteFails(c) == /\ pc[c] = "sending"
                 /\ c \notin BadArgs
                 /\ net[raw[c]] \in {"broken", "closed"}
                 /\ Withdraw(c)

\* The whole request is written; on a connection that the peer has already
\* lost, the bytes go nowhere.  The write has no deadline: on a connection
\* that is up it returns when the peer reads, or never.
Write(c) ==
    /\ pc[c] = "sending"
    /\ c \notin BadArgs
    /\ \/ /\ net[raw[c]] \in {"up", "garbled"}
          /\ wire' = wire \cup {[conn |-> raw[c], seq |-> seqOf[c], hb |-> c \in Beats]}
       \/ net[raw[c]] = "broken" /\ UNCHANGED wire
    /\ pc' = [pc EXCEPT ![c] = "waiting"]
    /\ UNCHANGED <<clientVars, seqOf, raw, failed, ready, completed, result,
                   inputVars, kaVars, net, dialed, replies, answer, procVars>>

\* Call returns from its select with the call that arrived on Done ...
Receive(c) ==
    /\ pc[c] = "waiting"
    /\ c \in ready
    /\ ready' = ready \ {c}
    /\ result' = [result EXCEPT ![c] = IF c \in failed THEN "err" ELSE "ok"]
    /\ pc' = [pc EXCEPT ![c] = "returned"]
    /\ UNCHANGED <<clientVars, seqOf, raw, failed, completed,
                   inputVars, kaVars, netVars, procVars>>

\* Wrong: a call that times out is taken out of pending.
TimeOutForgets(c) ==
    /\ pc[c] = "waiting"
    /\ c \in Deadlined \/ (c \in Beats /\ kaExpired)
    /\ pending' = [s \in Seqs |-> IF s = seqOf[c] THEN NoCall ELSE pending[s]]
    /\ result' = [result EXCEPT ![c] = "timeout"]
    /\ pc' = [pc EXCEPT ![c] = "returned"]
    /\ UNCHANGED <<status, suicide, conn, seq, lastSend, doneClosed, mutex, seqOf,
                   raw, failed, ready, completed, inputVars, kaVars, netVars, procVars>>

\* ... or because the context is done; the call stays in pending.
TimeOut(c) ==
    /\ pc[c] = "waiting"
    /\ c \in Deadlined \/ (c \in Beats /\ kaExpired)
    /\ result' = [result EXCEPT ![c] = "timeout"]
    /\ pc' = [pc EXCEPT ![c] = "returned"]
    /\ UNCHANGED <<clientVars, seqOf, raw, failed, ready, completed,
                   inputVars, kaVars, netVars, procVars>>

-----------------------------------------------------------------------------
(* The input goroutine.                                                    *)

\* readResponse makes a new bufio.Reader for each message.  What that reader
\* has buffered beyond the message is dropped with it: other responses, the
\* last of them perhaps cut in two, after which the stream cannot be decoded.
ReadResponse ==
    /\ inpc = "read"
    /\ net[conn] \in {"up", "broken"}
    /\ \E r \in replies :
         /\ r.conn = conn
         /\ \E lost \in SUBSET {m \in replies \ {r} : m.conn = conn} :
              /\ Cardinality(lost) <= ReadAhead
              /\ replies' = replies \ ({r} \cup lost)
              /\ \/ UNCHANGED net
                 \/ /\ lost # {} /\ net[conn] = "up" /\ conn < MaxConns
                    /\ net' = [net EXCEPT ![conn] = "garbled"]
         /\ resp' = r
    /\ inpc' = "got"
    /\ UNCHANGED <<clientVars, callVars, inCall, tries, kaVars,
                   dialed, wire, answer, procVars>>

\* client.suicide is read without the lock.
ReadError ==
    /\ inpc = "read"
    /\ net[conn] \in {"garbled", "broken", "closed"}
    /\ inpc' = IF suicide THEN "exit" ELSE "reconnect"
    /\ UNCHANGED <<clientVars, callVars, resp, inCall, tries, kaVars, netVars, procVars>>

Lookup ==
    /\ mutex = "free"
    /\ inpc = "got"
    /\ inCall' = pending[resp.seq]
    /\ pending' = [pending EXCEPT ![resp.seq] = NoCall]
    /\ inpc' = "handle"
    /\ UNCHANGED <<status, suicide, conn, seq, lastSend, doneClosed, mutex,
                   callVars, resp, tries, kaVars, netVars, procVars>>

\* Wrong: the error of the response is not looked at.
HandleResponseBlind ==
    /\ inpc = "handle"
    /\ Done({inCall} \ {NoCall})
    /\ inpc' = "read"
    /\ inCall' = NoCall
    /\ UNCHANGED <<clientVars, pc, seqOf, raw, failed, result, resp, tries,
                   kaVars, netVars, procVars>>

\* A heartbeat is completed without looking whether there is a call; any
\* other response only when there is one, with an error if the response
\* carries one or its payload cannot be decoded.
HandleResponse ==
    /\ inpc = "handle"
    /\ \/ /\ inCall # NoCall
          /\ failed' = IF resp.err THEN failed \cup {inCall} ELSE failed
          /\ Done({inCall})
          /\ UNCHANGED panicked
       \/ /\ inCall = NoCall
          /\ panicked' = IF resp.hb THEN "nilCall" ELSE panicked
          /\ UNCHANGED <<failed, ready, completed>>
    /\ inpc' = "read"
    /\ inCall' = NoCall
    /\ UNCHANGED <<clientVars, pc, seqOf, raw, result, resp, tries,
                   kaVars, netVars, closes, reopened>>

\* Wrong: suicide is not read again under the lock.
BeginReconnectBlind ==
    /\ mutex = "free"
    /\ inpc = "reconnect"
    /\ inpc' = "dial" /\ status' = "Reconnect" /\ tries' = 0
    /\ UNCHANGED <<suicide, conn, pending, seq, lastSend, doneClosed, mutex,
                   callVars, resp, inCall, kaVars, netVars, procVars>>

BeginReconnect ==
    /\ mutex = "free"
    /\ inpc = "reconnect"
    /\ IF suicide THEN inpc' = "exit" /\ UNCHANGED <<status, tries>>
                  ELSE inpc' = "dial" /\ status' = "Reconnect" /\ tries' = 0
    /\ UNCHANGED <<suicide, conn, pending, seq, lastSend, doneClosed, mutex,
                   callVars, resp, inCall, kaVars, netVars, procVars>>

DialSucceeds ==
    /\ inpc = "dial"
    /\ dialed < MaxConns
    /\ dialed' = dialed + 1
    /\ net' = [net EXCEPT ![dialed + 1] = "up"]
    /\ inpc' = "install"
    /\ UNCHANGED <<clientVars, callVars, resp, inCall, tries, kaVars,
                   wire, replies, answer, procVars>>

DialFails ==
    /\ inpc = "dial"
    /\ tries < MaxOutage
    /\ tries' = tries + 1
    /\ inpc' = IF tries + 1 = ReconnectTryNums THEN "giveup" ELSE "dial"
    /\ UNCHANGED <<clientVars, callVars, resp, inCall, kaVars, netVars, procVars>>

\* Wrong: the new connection comes with an empty pending map.
InstallEmpty ==
    /\ mutex = "free"
    /\ inpc = "install"
    /\ conn' = dialed
    /\ status' = "Available"
    /\ suicide' = FALSE
    /\ reopened' = (reopened \/ doneClosed)
    /\ pending' = [s \in Seqs |-> NoCall]
    /\ inpc' = "read"
    /\ UNCHANGED <<seq, lastSend, doneClosed, mutex, callVars, resp, inCall,
                   tries, kaVars, netVars, closes, panicked>>

\* Wrong: the new connection begins with sequence number 1 again.
InstallRestartsSeq ==
    /\ mutex = "free"
    /\ inpc = "install"
    /\ conn' = dialed
    /\ status' = "Available"
    /\ suicide' = FALSE
    /\ reopened' = (reopened \/ doneClosed)
    /\ seq' = 0
    /\ inpc' = "read"
    /\ UNCHANGED <<pending, lastSend, doneClosed, mutex, callVars,
                   resp, inCall, tries, kaVars, netVars, closes, panicked>>

\* reconnect, last critical section, after a dial that worked ...
Install ==
    /\ mutex = "free"
    /\ inpc = "install"
    /\ conn' = dialed
    /\ status' = "Available"
    /\ suicide' = FALSE
    /\ reopened' = (reopened \/ doneClosed)
    /\ inpc' = "read"
    /\ UNCHANGED <<pending, seq, lastSend, doneClosed, mutex, callVars,
                   resp, inCall, tries, kaVars, netVars, closes, panicked>>

\* ... and when all of them failed.
GiveUp ==
    /\ mutex = "free"
    /\ inpc = "giveup"
    /\ status' = "ReconnectFail"
    /\ suicide' = FALSE
    /\ inpc' = "exit"
    /\ UNCHANGED <<conn, pending, seq, lastSend, doneClosed, mutex, callVars,
                   resp, inCall, tries, kaVars, netVars, procVars>>

\* Wrong: the mutex is not unlocked at the end.
InputExitKeepsLock ==
    /\ mutex = "free"
    /\ inpc = "exit"
    /\ mutex' = "input" /\ inpc' = "stuck"
    /\ UNCHANGED <<status, suicide, conn, pending, seq, lastSend, doneClosed,
                   callVars, resp, inCall, tries, kaVars, netVars, procVars>>

\* After its loop, input locks the mutex and, if reconnecting failed, calls
\* close, which locks the same mutex: neither call ever returns.
InputExit ==
    /\ mutex = "free"
    /\ inpc = "exit"
    /\ IF status = "ReconnectFail" THEN mutex' = "input" /\ inpc' = "stuck"
                                   ELSE inpc' = "dead" /\ UNCHANGED mutex
    /\ UNCHANGED <<status, suicide, conn, pending, seq, lastSend, doneClosed,
                   callVars, resp, inCall, tries, kaVars, netVars, procVars>>

-----------------------------------------------------------------------------
(* The keepalive goroutine.                                                *)

\* Entering the select evaluates getDoneChan, which takes the mutex.
EnterSelect ==
    /\ mutex = "free"
    /\ kapc = "top"
    /\ kapc' = "select"
    /\ UNCHANGED <<clientVars, callVars, inputVars, kaTry, kaBeat, kaExpired,
                   netVars, procVars>>

\* Wrong: the mutex stays locked when no heartbeat is due.
TimerFiresKeepsLock ==
    /\ mutex = "free"
    /\ kapc = "select"
    /\ status # "Available"
    /\ mutex' = "input"
    /\ kapc' = "top"
    /\ UNCHANGED <<status, suicide, conn, pending, seq, lastSend, doneClosed,
                   callVars, inputVars, kaTry, kaBeat, kaExpired, netVars, procVars>>

\* The timer fires: a heartbeat is due if the client is available and has
\* sent nothing for an interval.  (Bound: as long as Beats has objects left.)
TimerFires ==
    /\ mutex = "free"
    /\ kapc = "select"
    /\ \/ /\ status # "Available" \/ lastSend = "recent"
          /\ kapc' = "top"
          /\ UNCHANGED <<kaTry, kaExpired>>
       \/ /\ status = "Available" /\ lastSend = "old"
          /\ Cardinality({b \in Beats : pc[b] = "idle"}) >= HeartBeatTryNums
          /\ kapc' = "beat"
          /\ kaTry' = 0
          /\ kaExpired' = FALSE
    /\ UNCHANGED <<clientVars, callVars, inputVars, kaBeat, netVars, procVars>>

\* sendHeartBeat: one attempt is one Call, all of them share one context.
SendBeat(b) ==
    /\ kapc = "beat"
    /\ b \in Beats
    /\ Register(b)
    /\ kapc' = "beating"
    /\ kaBeat' = b
    /\ UNCHANGED <<kaTry, kaExpired>>

BeatContextExpires ==
    /\ kapc \in {"beat", "beating"}
    /\ ~kaExpired
    /\ kaExpired' = TRUE
    /\ UNCHANGED <<clientVars, callVars, inputVars, kapc, kaTry, kaBeat,
                   netVars, procVars>>

BeatReturns ==
    /\ kapc = "beating"
    /\ pc[kaBeat] = "returned"
    /\ kaTry' = kaTry + 1
    /\ kapc' = CASE result[kaBeat] = "ok" -> "top"
                 [] result[kaBeat] # "ok" /\ kaTry + 1 < HeartBeatTryNums -> "beat"
                 [] OTHER -> "judge"
    /\ kaBeat' = NoCall
    /\ UNCHANGED <<clientVars, callVars, inputVars, kaExpired, netVars, procVars>>

\* Wrong: the connection is closed and the status kept.
JudgeKeepsStatus ==
    /\ mutex = "free"
    /\ kapc = "judge"
    /\ net' = IF status = "Available" THEN [net EXCEPT ![conn] = "closed"] ELSE net
    /\ kapc' = "top"
    /\ UNCHANGED <<clientVars, callVars, inputVars, kaTry, kaBeat, kaExpired,
                   dialed, wire, replies, answer, procVars>>

\* Every attempt failed: the client gives up whatever connection it has now.
\* Pending calls are not completed, and doneChan stays open.
Judge ==
    /\ mutex = "free"
    /\ kapc = "judge"
    /\ IF status = "Available"
       THEN /\ suicide' = TRUE
            /\ status' = "Close"
            /\ net' = [net EXCEPT ![conn] = "closed"]
       ELSE UNCHANGED <<suicide, status, net>>
    /\ kapc' = "top"
    /\ UNCHANGED <<conn, pending, seq, lastSend, doneClosed, mutex, callVars,
                   inputVars, kaTry, kaBeat, kaExpired,
                   dialed, wire, replies, answer, procVars>>

KeepaliveExit ==
    /\ kapc = "select"
    /\ doneClosed
    /\ kapc' = "exited"
    /\ UNCHANGED <<clientVars, callVars, inputVars, kaTry, kaBeat, kaExpired,
                   netVars, procVars>>

-----------------------------------------------------------------------------
(* Close, called by users any number of times.                             *)

PendingCalls == {pending[s] : s \in Seqs} \ {NoCall}

\* Wrong: the pending calls are not completed.
CloseSilent ==
    /\ mutex = "free"
    /\ closes < MaxCloses
    /\ closes' = closes + 1
    /\ status # "Close"
    /\ status' = "Close" /\ suicide' = TRUE /\ doneClosed' = TRUE
    /\ net' = [net EXCEPT ![conn] = "closed"]
    /\ UNCHANGED <<conn, pending, seq, lastSend, mutex, callVars, inputVars,
                   kaVars, dialed, wire, replies, answer, panicked, reopened>>

Close ==
    /\ mutex = "free"
    /\ closes < MaxCloses
    /\ closes' = closes + 1
    /\ IF status # "Close"
       THEN /\ status' = "Close"
            /\ suicide' = TRUE
            /\ failed' = failed \cup PendingCalls
            /\ Done(PendingCalls)
            /\ net' = [net EXCEPT ![conn] = "closed"]
            /\ doneClosed' = TRUE
            /\ panicked' = IF doneClosed THEN "doneChan" ELSE panicked
       ELSE UNCHANGED <<status, suicide, failed, ready, completed, net,
                        doneClosed, panicked>>
    /\ UNCHANGED <<conn, pending, seq, lastSend, mutex, pc, seqOf, raw, result,
                   inputVars, kaVars, dialed, wire, replies, answer, reopened>>

-----------------------------------------------------------------------------
(* The environment: the peer, the network and the clock.                   *)

Respond(m) ==
    /\ m \in wire
    /\ net[m.conn] \in {"up", "garbled"}
    /\ \E e \in IF m.hb THEN {FALSE} ELSE BOOLEAN :
         /\ replies' = replies \cup {[conn |-> m.conn, seq |-> m.seq, hb |-> m.hb, err |-> e]}
         /\ answer' = [answer EXCEPT ![m.seq] = IF e THEN "err" ELSE "ok"]
    /\ wire' = wire \ {m}
    /\ UNCHANGED <<clientVars, callVars, inputVars, kaVars, net, dialed, procVars>>

\* (Bound: a connection breaks only while another one can still be dialled.)
ConnBreaks(k) ==
    /\ net[k] \in {"up", "garbled"}
    /\ k < MaxConns
    /\ net' = [net EXCEPT ![k] = "broken"]
    /\ UNCHANGED <<clientVars, callVars, inputVars, kaVars,
                   dialed, wire, replies, answer, procVars>>

IntervalElapses ==
    /\ lastSend = "recent"
    /\ lastSend' = "old"
    /\ UNCHANGED <<status, suicide, conn, pending, seq, doneClosed, mutex,
                   callVars, inputVars, kaVars, netVars, procVars>>

-----------------------------------------------------------------------------
Caller(c) == \/ CreateRequestFails(c) \/ WriteFails(c) \/ Write(c)
             \/ Receive(c) \/ TimeOut(c)

Input == \/ ReadResponse \/ ReadError \/ Lookup \/ HandleResponse
         \/ BeginReconnect \/ DialSucceeds \/ DialFails \/ Install \/ GiveUp
         \/ InputExit

Keepalive == \/ EnterSelect \/ TimerFires \/ (\E b \in Beats : SendBeat(b))
             \/ BeatReturns \/ Judge \/ KeepaliveExit

Environment == \/ \E m \in wire : Respond(m)
               \/ \E k \in Conns : ConnBreaks(k)
               \/ IntervalElapses \/ BeatContextExpires

\* A panic ends the process.
Next == /\ panicked = "no"
        /\ \/ \E c \in Calls : Start(c)
           \/ \E c \in Objs : Caller(c)
           \/ Input
           \/ Keepalive
           \/ Close
           \/ Environment

Spec == Init /\ [][Next]_vars

\* Goroutines are scheduled and timers fire.  select chooses at random among
\* the channels that are ready, so one that keeps being ready is chosen.
\* The peer need not answer, nor read: a write to it may never return.
Live(A) == panicked = "no" /\ A

OwnSteps(c) == \/ CreateRequestFails(c) \/ WriteFails(c)
               \/ Write(c) /\ net[raw[c]] = "broken"
               \/ Receive(c) \/ TimeOut(c)

Fairness == /\ \A c \in Objs : WF_vars(Live(OwnSteps(c)))
            /\ WF_vars(Live(Input))
            /\ WF_vars(Live(Keepalive))
            /\ SF_vars(Live(KeepaliveExit))
            /\ WF_vars(Live(BeatContextExpires))

FairSpec == Spec /\ Fairness

\* A peer that reads and answers what it received, for the runs about lost
\* answers.
PeerFairSpec == /\ FairSpec
                /\ \A c \in Objs : WF_vars(Live(Write(c)))
                /\ WF_vars(Live(\E m \in wire : Respond(m)))
-----------------------------------------------------------------------------
(* Properties.                                                             *)

ClientTypes == /\ status \in ConnStatus /\ suicide \in BOOLEAN
               /\ conn \in Conns
               /\ pending \in [Seqs -> Objs \cup {NoCall}] /\ seq \in 0..MaxSeq
               /\ lastSend \in {"recent", "old"} /\ doneClosed \in BOOLEAN
               /\ mutex \in {"free", "input"}

CallTypes == /\ pc \in [Objs -> {"idle", "sending", "waiting", "returned"}]
             /\ seqOf \in [Objs -> 0..MaxSeq] /\ raw \in [Objs -> 0..MaxConns]
             /\ failed \subseteq Objs /\ ready \subseteq Objs /\ completed \subseteq Objs
             /\ result \in [Objs -> Results]

InputTypes == /\ inpc \in {"read", "got", "handle", "reconnect", "dial", "install",
                           "giveup", "exit", "dead", "stuck"}
              /\ resp \in Responses \cup {NoResponse}
              /\ inCall \in Objs \cup {NoCall} /\ tries \in Nat

KeepaliveTypes == /\ kapc \in {"top", "select", "beat", "beating", "judge", "exited"}
                  /\ kaTry \in Nat /\ kaBeat \in Beats \cup {NoCall}
                  /\ kaExpired \in BOOLEAN

NetTypes == /\ net \in [Conns -> {"none", "up", "garbled", "broken", "closed"}]
            /\ dialed \in Conns
            /\ wire \subseteq Requests /\ replies \subseteq Responses
            /\ answer \in [Seqs -> Answers]

ProcTypes == /\ closes \in Nat /\ panicked \in {"no", "nilCall", "doneChan"}
             /\ reopened \in BOOLEAN

TypeOK == /\ ClientTypes /\ CallTypes /\ InputTypes /\ KeepaliveTypes
          /\ NetTypes /\ ProcTypes

\* Sequence numbers: handed out in order, to one call each, never again.
\* The pending map files every call under its own number.
Numbered ==
    /\ \A c \in Objs : /\ seqOf[c] <= seq
                       /\ pc[c] = "idle" => seqOf[c] = 0 /\ c \notin completed
                       /\ pc[c] = "sending" => seqOf[c] # 0 /\ raw[c] # 0
    /\ \A c, d \in Objs : seqOf[c] = seqOf[d] /\ seqOf[c] # 0 => c = d
    /\ \A s \in Seqs : pending[s] # NoCall => seqOf[pending[s]] = s

\* No call is dropped on the floor: one that send registered and that has
\* not been completed is in the pending map under its own number, where a
\* response, a write error or Close will find it, or the input goroutine
\* has just taken it out and is about to complete it.  Every exit of send
\* and of the input loop has to keep this up.
NoLostCall ==
    \A c \in Objs :
        seqOf[c] # 0 /\ c \notin completed
            => \/ pending[seqOf[c]] = c
               \/ inpc = "handle" /\ inCall = c

\* The input goroutine dereferences the call of a heartbeat response without
\* a nil check.  It may: no heartbeat leaves the pending map before its
\* response comes, not even when it times out or the client is closed.
NoNilCall == panicked # "nilCall"

\* While the client accepts calls there is an input goroutine to take their
\* responses, and it is past any reconnection; a client whose input
\* goroutine has ended or hangs refuses them.  status is written by the
\* input goroutine, by keepalive and by Close, suicide by all three.
ReaderServes ==
    /\ inpc \in {"exit", "dead", "stuck"} => status \in {"Close", "ReconnectFail"}
    /\ inpc \in {"dial", "install", "giveup"} => status \in {"Reconnect", "Close"}
    /\ inpc \in {"read", "got", "handle", "reconnect"} => status \in {"Available", "Close"}
    /\ suicide => status = "Close"

\* A client that calls itself available has not closed the connection it
\* hands to send: keepalive and Close close it and give up the status in one
\* critical section, and reconnect installs a connection nobody has closed.
OpenWhileAvailable == status = "Available" => net[conn] \notin {"none", "closed"}

\* The request of number s has not been written yet.
Unsent(s) == \E c \in Objs : pc[c] = "sending" /\ seqOf[c] = s

\* One number is one request and at most one response: it is in one place
\* at a time, in the call that has yet to write it, on the wire, in a response,
\* or in the message that the input goroutine has read.
OneMessage ==
    /\ \A s \in Seqs : s > seq \/ Unsent(s) => answer[s] = "none"
    /\ \A m \in wire : /\ m.seq <= seq /\ ~Unsent(m.seq)
                       /\ answer[m.seq] = "none"
                       /\ \A n \in wire : n.seq = m.seq => n = m
    /\ \A r \in replies : /\ answer[r.seq] = IF r.err THEN "err" ELSE "ok"
                          /\ \A q \in replies : q.seq = r.seq => q = r
    /\ inpc \in {"got", "handle"} =>
         /\ resp \in Responses
         /\ answer[resp.seq] = IF resp.err THEN "err" ELSE "ok"
         /\ \A r \in replies : r.seq # resp.seq
    /\ inpc = "handle" /\ inCall # NoCall => seqOf[inCall] = resp.seq

\* A call is in the pending map while its request is being made ...
SendingPending == \A c \in Objs : pc[c] = "sending" => pending[seqOf[c]] = c

\* ... and the call of a heartbeat until its response has been looked up.
BeatPending ==
    /\ \A m \in wire \cup replies : m.hb => pending[m.seq] # NoCall
    /\ inpc = "got" /\ resp.hb => pending[resp.seq] # NoCall
    /\ inpc = "handle" /\ resp.hb => inCall # NoCall

\* The heartbeat bit of a request on the wire is that of its call.
HeartbeatBits ==
    \A m \in wire, c \in Objs : seqOf[c] = m.seq => (m.hb <=> c \in Beats)

\* A call is completed without an error by a response without one only.
Completed ==
    /\ ready \subseteq completed
    /\ \A c \in completed \ failed : seqOf[c] # 0 /\ answer[seqOf[c]] = "ok"
    /\ \A c \in Objs : pc[c] # "returned" => result[c] = "none"

\* The connection that a reconnection brings is not the one in use.
Dialed == /\ conn <= dialed
          /\ inpc = "install" => conn < dialed /\ net[dialed] \notin {"none", "closed"}

\* The strengthening under which all of the above is inductive.
IInv == /\ TypeOK /\ Numbered /\ NoLostCall /\ NoNilCall /\ ReaderServes
        /\ OpenWhileAvailable /\ OneMessage /\ SendingPending /\ BeatPending
        /\ HeartbeatBits /\ Completed /\ Dialed

\* Close ends the calls: once doneChan is closed, every call that send has
\* registered is completed, or in the hand of the input goroutine, and none
\* is added - until a reconnection that Close met under way installs its
\* connection, which makes the closed client available again.
ClosedSettled ==
    doneClosed /\ ~reopened =>
        /\ status # "Available"
        /\ \A c \in Objs : seqOf[c] # 0 =>
               c \in completed \/ (inpc = "handle" /\ inCall = c)

\* Whatever the order of responses, timeouts, reconnections and Close, each
\* call returns one result of its own: RPCCall is implemented.
Started == {c \in Calls : pc[c] # "idle"}
Served  == [c \in Calls |-> IF seqOf[c] = 0 THEN "none" ELSE answer[seqOf[c]]]
Result  == [c \in Calls |-> result[c]]

Abs == INSTANCE RPCCall WITH started <- Started, served <- Served, result <- Result

ImplementsRPCCall == Abs!Spec

\* Seen from the other end, the client asks each of its requests once, under
\* a number that it never uses again, on this connection or a later one; and
\* the answers it is given here are those that RPCPeer allows a server.
Asked == [s \in Seqs |->
            IF answer[s] = "none" /\ (\A m \in wire : m.seq # s) THEN "no"
            ELSE IF \E b \in Beats : seqOf[b] = s THEN "heartbeat" ELSE "call"]

Peer == INSTANCE RPCPeer WITH Requests <- Seqs, asked <- Asked, answered <- answer

UsesRPCPeer == Peer!Spec

\* A panic ends every goroutine, and with them whatever was promised.
Returns(c) == pc[c] = "returned" \/ panicked # "no"

\* The call is writing to a peer that does not read: nothing in send has a
\* deadline, and only the end of that connection ends the write.
Blocked(c) == /\ pc[c] = "sending"
              /\ c \notin BadArgs
              /\ net[raw[c]] \in {"up", "garbled"}

\* A call with a deadline, such as every heartbeat, returns whatever else the
\* network, the other goroutines and Close do, as long as reconnecting
\* succeeds before its tries are used up - unless it is blocked in its write,
\* before the select that knows of the deadline.
DeadlineReturns ==
    \A c \in Deadlined \cup Beats : pc[c] # "idle" ~> Returns(c) \/ Blocked(c)

\* Close closes the connection in use and with it ends the writes on it, but
\* not those on one that a reconnection has replaced without closing it, or
\* installs afterwards.
Stranded(c) == Blocked(c) /\ (raw[c] # conn \/ reopened)

\* Close stops the keepalive goroutine, whatever that goroutine is doing, in
\* the middle of writing a heartbeat included: it closes the connection.
KeepaliveExits ==
    doneClosed ~> \/ kapc = "exited" \/ panicked # "no"
                  \/ \E b \in Beats : Stranded(b)

\* Close ends every call that is still waiting, deadline or not: the comment
\* "Terminate pending calls." in close.  A reconnection that Close met under
\* way makes the closed client available: the calls it takes from then on
\* are excepted until they are completed, the calls from before are not.
CloseTerminates ==
    \A c \in Calls :
        doneClosed /\ pc[c] # "idle"
            ~> Returns(c) \/ Stranded(c) \/ (reopened /\ c \notin completed)

-----------------------------------------------------------------------------
(* Statements of the repository that the code does not live up to.         *)

\* "When the rpcclient is closed, the keepalive goroutine exits."  A failed
\* heartbeat closes the client but leaves doneChan open.
KeepaliveExitsOnceClosed == status = "Close" ~> kapc = "exited"

\* "Terminate pending calls.": input calls close for that when reconnecting
\* has failed, and deadlocks on client.mutex instead.
GiveUpTerminates ==
    \A c \in Calls : status = "ReconnectFail" /\ pc[c] = "waiting" ~> pc[c] = "returned"

\* The README calls it timeout control that Call is given a context with a
\* deadline.  A call that the deadline meets in its write does not return.
CallsMeetDeadlines == \A c \in Deadlined : pc[c] # "idle" ~> Returns(c)

\* "There may be multiple outstanding Calls associated with a single Client":
\* on a connection that holds, with a peer that answers, they are not all
\* answered, because a response buffered behind another one is dropped.
OutstandingCallsAnswered ==
    \A c \in Calls : pc[c] # "idle" ~> Returns(c)

\* A client has an input and a keepalive goroutine.  A client that Close hit
\* while it was reconnecting is available again after its keepalive ended.
AvailableHasKeepalive == status = "Available" => kapc # "exited"
=============================================================================
