--------------------------- MODULE RPCClientProofs ---------------------------
(* Proofs about RPCClient, for any calls, bounds and environment. *)
EXTENDS RPCClient, TLAPS

\* The invariant holds before anything has happened.
LEMMA InitInv == ASSUME Init PROVE IInv
  <1> USE CallAssumption, BoundAssumption DEF Init, Seqs, Conns
  <1>1. ClientTypes
    <2>1. pending \in [Seqs -> Objs \cup {NoCall}] OBVIOUS
    <2>2. conn \in Conns /\ seq \in 0..MaxSeq OBVIOUS
    <2> QED BY <2>1, <2>2 DEF ClientTypes, ConnStatus
  <1>2. CallTypes BY DEF CallTypes, Results
  <1>3. InputTypes /\ KeepaliveTypes /\ ProcTypes
    BY DEF InputTypes, KeepaliveTypes, ProcTypes
  <1>4. NetTypes BY DEF NetTypes, Answers
  <1>5. Numbered BY DEF Numbered
  <1>6. NoLostCall /\ NoNilCall /\ ReaderServes /\ OpenWhileAvailable
    BY DEF NoLostCall, NoNilCall, ReaderServes, OpenWhileAvailable
  <1>7. OneMessage BY DEF OneMessage, Unsent
  <1>8. SendingPending /\ BeatPending /\ HeartbeatBits /\ Completed /\ Dialed
    BY DEF SendingPending, BeatPending, HeartbeatBits, Completed, Dialed
  <1> QED BY <1>1, <1>2, <1>3, <1>4, <1>5, <1>6, <1>7, <1>8 DEF IInv, TypeOK

\* A group of variables that a step leaves alone keeps its types.
LEMMA TypesKept ==
  ASSUME TypeOK
  PROVE  /\ UNCHANGED clientVars => ClientTypes'
         /\ UNCHANGED callVars => CallTypes'
         /\ UNCHANGED inputVars => InputTypes'
         /\ UNCHANGED kaVars => KeepaliveTypes'
         /\ UNCHANGED netVars => NetTypes'
         /\ UNCHANGED procVars => ProcTypes'
  BY DEF TypeOK, clientVars, callVars, inputVars, kaVars, netVars, procVars,
         ClientTypes, CallTypes, InputTypes, KeepaliveTypes, NetTypes, ProcTypes

\* send files a call with the types of the fields it sets.
LEMMA RegisterTypes ==
  ASSUME TypeOK, NEW c \in Objs, Register(c)
  PROVE  ClientTypes' /\ CallTypes' /\ InputTypes' /\ NetTypes' /\ ProcTypes'
  <1>1. ClientTypes'
    BY BoundAssumption DEF TypeOK, ClientTypes, Register, Seqs
  <1>2. CallTypes'
    BY BoundAssumption DEF TypeOK, CallTypes, ClientTypes, Register, Done, Conns
  <1> QED BY <1>1, <1>2, TypesKept DEF Register

\* Every value that a step stores has its type.
LEMMA TypeNext == ASSUME IInv, [Next]_vars PROVE TypeOK'
  <1>0. TypeOK BY DEF IInv
  <1>1. CASE UNCHANGED vars BY <1>0, <1>1, TypesKept DEF vars, TypeOK
  <1>3. ASSUME NEW c \in Objs, Withdraw(c), pc[c] = "sending" PROVE TypeOK'
    <2>1. seqOf[c] \in Seqs
      BY <1>0, <1>3, BoundAssumption DEF IInv, Numbered, TypeOK, CallTypes, Seqs
    <2>2. pending[seqOf[c]] \in Objs \cup {NoCall}
      BY <1>0, <2>1 DEF TypeOK, ClientTypes
    <2>3. ClientTypes' BY <1>0, <1>3 DEF TypeOK, ClientTypes, Withdraw
    <2>4. CallTypes' BY <1>0, <1>3, <2>2 DEF TypeOK, CallTypes, Withdraw, Done
    <2> QED BY <1>0, <1>3, <2>3, <2>4, TypesKept DEF TypeOK, Withdraw
  <1>4. ASSUME NEW c \in Objs, Caller(c) PROVE TypeOK'
    <2>1. CASE CreateRequestFails(c) \/ WriteFails(c)
      BY <1>3, <2>1 DEF CreateRequestFails, WriteFails
    <2>2. CASE Write(c)
      <3>1. seqOf[c] \in Seqs /\ raw[c] \in Conns
        BY <1>0, <2>2, BoundAssumption
        DEF IInv, Numbered, Write, TypeOK, CallTypes, Seqs, Conns
      <3>2. [conn |-> raw[c], seq |-> seqOf[c], hb |-> c \in Beats] \in Requests
        BY <3>1 DEF Requests
      <3>3. CallTypes' BY <1>0, <2>2 DEF TypeOK, CallTypes, Write
      <3>4. NetTypes' BY <1>0, <2>2, <3>2 DEF TypeOK, NetTypes, Write
      <3> QED BY <1>0, <2>2, <3>3, <3>4, TypesKept DEF Write, TypeOK
    <2>3. CASE Receive(c)
      <3>1. CallTypes' BY <1>0, <2>3 DEF TypeOK, CallTypes, Receive, Results
      <3> QED BY <1>0, <2>3, <3>1, TypesKept DEF Receive, TypeOK
    <2>4. CASE TimeOut(c)
      <3>1. CallTypes' BY <1>0, <2>4 DEF TypeOK, CallTypes, TimeOut, Results
      <3> QED BY <1>0, <2>4, <3>1, TypesKept DEF TimeOut, TypeOK
    <2> QED BY <1>4, <2>1, <2>2, <2>3, <2>4 DEF Caller
  <1>5. CASE Input
    <2>1. CASE ReadResponse
      <3>1. InputTypes' BY <1>0, <2>1 DEF TypeOK, InputTypes, NetTypes, ReadResponse
      <3>2. NetTypes' BY <1>0, <2>1 DEF TypeOK, NetTypes, ReadResponse
      <3> QED BY <1>0, <2>1, <3>1, <3>2, TypesKept DEF ReadResponse, TypeOK
    <2>2. CASE ReadError
      <3>1. InputTypes' BY <1>0, <2>2 DEF TypeOK, InputTypes, ReadError
      <3> QED BY <1>0, <2>2, <3>1, TypesKept DEF ReadError, TypeOK
    <2>3. CASE Lookup
      <3>1. resp.seq \in Seqs BY <2>3 DEF IInv, OneMessage, Lookup, Responses
      <3>2. ClientTypes' BY <1>0, <2>3 DEF TypeOK, ClientTypes, Lookup
      <3>3. InputTypes'
        BY <1>0, <2>3, <3>1 DEF TypeOK, ClientTypes, InputTypes, Lookup
      <3> QED BY <1>0, <2>3, <3>2, <3>3, TypesKept DEF Lookup, TypeOK
    <2>4. CASE HandleResponse
      <3>1. CallTypes' BY <1>0, <2>4 DEF TypeOK, CallTypes, InputTypes, HandleResponse, Done
      <3>2. InputTypes' BY <1>0, <2>4 DEF TypeOK, InputTypes, HandleResponse
      <3>3. ProcTypes' BY <1>0, <2>4 DEF TypeOK, ProcTypes, HandleResponse
      <3> QED BY <1>0, <2>4, <3>1, <3>2, <3>3, TypesKept DEF HandleResponse, TypeOK
    <2>5. CASE BeginReconnect
      <3>1. ClientTypes' /\ InputTypes'
        BY <1>0, <2>5 DEF TypeOK, ClientTypes, ConnStatus, InputTypes, BeginReconnect
      <3> QED BY <1>0, <2>5, <3>1, TypesKept DEF BeginReconnect, TypeOK
    <2>6. CASE DialSucceeds
      <3>1. InputTypes' BY <1>0, <2>6 DEF TypeOK, InputTypes, DialSucceeds
      <3>2. NetTypes'
        BY <1>0, <2>6, BoundAssumption DEF TypeOK, NetTypes, DialSucceeds, Conns
      <3> QED BY <1>0, <2>6, <3>1, <3>2, TypesKept DEF DialSucceeds, TypeOK
    <2>7. CASE DialFails
      <3>1. InputTypes' BY <1>0, <2>7 DEF TypeOK, InputTypes, DialFails
      <3> QED BY <1>0, <2>7, <3>1, TypesKept DEF DialFails, TypeOK
    <2>8. CASE Install
      <3>1. ClientTypes' /\ InputTypes'
        BY <1>0, <2>8
        DEF TypeOK, ClientTypes, ConnStatus, InputTypes, NetTypes, Install
      <3>2. ProcTypes' BY <1>0, <2>8, Zenon DEF TypeOK, ClientTypes, ProcTypes, Install
      <3> QED BY <1>0, <2>8, <3>1, <3>2, TypesKept DEF Install, TypeOK
    <2>9. CASE GiveUp
      <3>1. ClientTypes' /\ InputTypes'
        BY <1>0, <2>9 DEF TypeOK, ClientTypes, ConnStatus, InputTypes, GiveUp
      <3> QED BY <1>0, <2>9, <3>1, TypesKept DEF GiveUp, TypeOK
    <2>10. CASE InputExit
      <3>1. ClientTypes' /\ InputTypes'
        BY <1>0, <2>10 DEF TypeOK, ClientTypes, InputTypes, InputExit
      <3> QED BY <1>0, <2>10, <3>1, TypesKept DEF InputExit, TypeOK
    <2> QED BY <1>5, <2>1, <2>2, <2>3, <2>4, <2>5, <2>6, <2>7, <2>8, <2>9, <2>10 DEF Input
  <1>6. CASE Keepalive
    <2>1. CASE EnterSelect
      <3>1. KeepaliveTypes' BY <1>0, <2>1 DEF TypeOK, KeepaliveTypes, EnterSelect
      <3> QED BY <1>0, <2>1, <3>1, TypesKept DEF EnterSelect, TypeOK
    <2>2. CASE TimerFires
      <3>2. kapc' \in {"top", "beat"} /\ kaBeat' = kaBeat BY <2>2, Zenon DEF TimerFires
      <3>3. kaTry' \in {kaTry, 0} BY <2>2, Zenon DEF TimerFires
      <3>4. kaExpired' \in BOOLEAN BY <1>0, <2>2, Zenon DEF TimerFires, TypeOK, KeepaliveTypes
      <3>1. KeepaliveTypes' BY <1>0, <3>2, <3>3, <3>4 DEF TypeOK, KeepaliveTypes
      <3> QED BY <1>0, <2>2, <3>1, TypesKept DEF TimerFires, TypeOK
    <2>3. ASSUME NEW b \in Beats, SendBeat(b) PROVE TypeOK'
      <3>1. b \in Objs BY DEF Objs
      <3>2. KeepaliveTypes' BY <1>0, <2>3 DEF TypeOK, KeepaliveTypes, SendBeat
      <3> QED BY <1>0, <2>3, <3>1, <3>2, RegisterTypes DEF SendBeat, TypeOK
    <2>4. CASE BeatReturns
      <3>1. kapc' \in {"top", "beat", "judge"} BY <2>4, Zenon DEF BeatReturns
      <3>2. kaTry' \in Nat /\ kaBeat' \in Beats \cup {NoCall} /\ kaExpired' \in BOOLEAN
        BY <1>0, <2>4 DEF TypeOK, KeepaliveTypes, BeatReturns
      <3>3. KeepaliveTypes' BY <3>1, <3>2 DEF KeepaliveTypes
      <3> QED BY <1>0, <2>4, <3>3, TypesKept DEF BeatReturns, TypeOK
    <2>5. CASE Judge
      <3>1. ClientTypes' /\ KeepaliveTypes' /\ NetTypes'
        BY <1>0, <2>5
        DEF TypeOK, ClientTypes, ConnStatus, KeepaliveTypes, NetTypes, Judge
      <3> QED BY <1>0, <2>5, <3>1, TypesKept DEF Judge, TypeOK
    <2>6. CASE KeepaliveExit
      <3>1. KeepaliveTypes' BY <1>0, <2>6 DEF TypeOK, KeepaliveTypes, KeepaliveExit
      <3> QED BY <1>0, <2>6, <3>1, TypesKept DEF KeepaliveExit, TypeOK
    <2> QED BY <1>6, <2>1, <2>2, <2>3, <2>4, <2>5, <2>6 DEF Keepalive
  <1>7. CASE Close
    <2>1. PendingCalls \subseteq Objs BY <1>0 DEF TypeOK, ClientTypes, PendingCalls
    <2>2. ClientTypes' BY <1>0, <1>7 DEF TypeOK, ClientTypes, ConnStatus, Close
    <2>4. NetTypes' BY <1>0, <1>7 DEF TypeOK, ClientTypes, NetTypes, Close
    <2>5. ProcTypes' BY <1>0, <1>7 DEF TypeOK, ProcTypes, Close
    <2>3. CallTypes' BY <1>0, <1>7, <2>1 DEF TypeOK, CallTypes, Close, Done
    <2> QED BY <1>0, <1>7, <2>2, <2>3, <2>4, <2>5, TypesKept DEF Close, TypeOK
  <1>8. CASE Environment
    <2>1. ASSUME NEW m \in wire, Respond(m) PROVE TypeOK'
      <3>2. m.conn \in Conns /\ m.seq \in Seqs /\ m.hb \in BOOLEAN
        BY <1>0 DEF TypeOK, NetTypes, Requests
      <3>3. wire' \subseteq Requests /\ replies' \subseteq Responses
        <4>1. wire \subseteq Requests /\ replies \subseteq Responses
          BY <1>0 DEF TypeOK, NetTypes
        <4>2. PICK e \in BOOLEAN :
                replies' = replies \cup {[conn |-> m.conn, seq |-> m.seq, hb |-> m.hb, err |-> e]}
          BY <2>1 DEF Respond
        <4>3. [conn |-> m.conn, seq |-> m.seq, hb |-> m.hb, err |-> e] \in Responses
          BY <3>2 DEF Responses
        <4> QED BY <2>1, <4>1, <4>2, <4>3 DEF Respond
      <3>4. answer' \in [Seqs -> Answers]
        BY <1>0, <2>1, <3>2 DEF TypeOK, NetTypes, Respond, Answers
      <3>1. NetTypes' BY <1>0, <2>1, <3>3, <3>4 DEF TypeOK, NetTypes, Respond
      <3> QED BY <1>0, <2>1, <3>1, TypesKept DEF Respond, TypeOK
    <2>2. ASSUME NEW k \in Conns, ConnBreaks(k) PROVE TypeOK'
      <3>1. NetTypes' BY <1>0, <2>2 DEF TypeOK, NetTypes, ConnBreaks
      <3> QED BY <1>0, <2>2, <3>1, TypesKept DEF ConnBreaks, TypeOK
    <2>3. CASE IntervalElapses
      <3>1. ClientTypes' BY <1>0, <2>3 DEF TypeOK, ClientTypes, IntervalElapses
      <3> QED BY <1>0, <2>3, <3>1, TypesKept DEF IntervalElapses, TypeOK
    <2>4. CASE BeatContextExpires
      <3>1. KeepaliveTypes' BY <1>0, <2>4 DEF TypeOK, KeepaliveTypes, BeatContextExpires
      <3> QED BY <1>0, <2>4, <3>1, TypesKept DEF BeatContextExpires, TypeOK
    <2> QED BY <1>8, <2>1, <2>2, <2>3, <2>4 DEF Environment
  <1>9. ASSUME NEW c \in Calls, Start(c) PROVE TypeOK'
    <2>1. c \in Objs BY DEF Objs
    <2> QED BY <1>0, <1>9, <2>1, RegisterTypes, TypesKept DEF Start, TypeOK
  <1> QED BY <1>1, <1>4, <1>5, <1>6, <1>7, <1>8, <1>9 DEF Next

-----------------------------------------------------------------------------
\* What the goroutine that made a call does to it.
CallStep(c) == \/ Register(c)
               \/ pc[c] = "sending" /\ Withdraw(c)
               \/ Write(c) \/ Receive(c) \/ TimeOut(c)

\* The steps that touch Call objects or the pending map; every other step
\* leaves them alone.
LEMMA CallSteps ==
  ASSUME [Next]_vars
  PROVE  \/ \E c \in Objs : CallStep(c)
         \/ Lookup \/ HandleResponse \/ Close
         \/ /\ UNCHANGED <<pending, seq, callVars, inCall>>
            /\ inpc = "handle" <=> inpc' = "handle"
  <1> DEFINE Goal == \/ \E c \in Objs : CallStep(c)
                    \/ Lookup \/ HandleResponse \/ Close
                    \/ /\ UNCHANGED <<pending, seq, callVars, inCall>>
                       /\ inpc = "handle" <=> inpc' = "handle"
  <1> SUFFICES Goal OBVIOUS
  <1>1. CASE UNCHANGED vars BY <1>1 DEF vars, clientVars, inputVars
  <1>2. ASSUME NEW c \in Calls, Start(c) PROVE Goal
    <2>1. c \in Objs BY DEF Objs
    <2> QED BY <1>2, <2>1 DEF Start, CallStep
  <1>8. ASSUME NEW b \in Beats, SendBeat(b) PROVE Goal
    <2>1. b \in Objs BY DEF Objs
    <2> QED BY <1>8, <2>1 DEF SendBeat, CallStep
  <1>3. ASSUME NEW c \in Objs, Caller(c) PROVE Goal
    BY <1>3 DEF Caller, CreateRequestFails, WriteFails, CallStep
  <1>4. CASE Input
    BY <1>4 DEF Input, ReadResponse, ReadError, BeginReconnect, DialSucceeds,
                DialFails, Install, GiveUp, InputExit, clientVars
  <1>5. CASE EnterSelect \/ TimerFires \/ BeatReturns \/ Judge \/ KeepaliveExit
    BY <1>5 DEF EnterSelect, TimerFires, BeatReturns, Judge, KeepaliveExit,
                clientVars, inputVars
  <1>6. CASE Environment
    BY <1>6 DEF Environment, Respond, ConnBreaks, IntervalElapses,
                BeatContextExpires, clientVars, inputVars
  <1>7. CASE Close BY <1>7
  <1> QED BY <1>1, <1>2, <1>3, <1>4, <1>5, <1>6, <1>7, <1>8 DEF Next, Keepalive

\* Numbers are used once, and pending is filed by number.
LEMMA NumberedNext == ASSUME IInv, [Next]_vars PROVE Numbered'
  <1>0. TypeOK /\ TypeOK' /\ Numbered BY TypeNext DEF IInv
  <1> USE <1>0, CallAssumption, BoundAssumption
      DEF Numbered, TypeOK, ClientTypes, CallTypes, Seqs, Objs
  <1>1. ASSUME NEW c \in Objs, Register(c) PROVE Numbered'
    <2>1. CASE status # "Available" BY <1>1, <2>1 DEF Register, Done
    <2>2. CASE status = "Available"
      <3>1. /\ seqOf' = [seqOf EXCEPT ![c] = seq + 1]
            /\ raw' = [raw EXCEPT ![c] = conn]
            /\ pc' = [pc EXCEPT ![c] = "sending"]
            /\ pending' = [pending EXCEPT ![seq + 1] = c]
            /\ seq' = seq + 1 /\ seq + 1 \in Seqs /\ UNCHANGED completed
        BY <1>1, <2>2 DEF Register
      <3>2. conn # 0 BY DEF Conns
      <3>3. \A d \in Objs :
              /\ seqOf'[d] <= seq'
              /\ pc'[d] = "idle" => seqOf'[d] = 0 /\ d \notin completed'
              /\ pc'[d] = "sending" => seqOf'[d] # 0 /\ raw'[d] # 0
        BY <3>1, <3>2
      <3>4. \A d, e \in Objs : seqOf'[d] = seqOf'[e] /\ seqOf'[d] # 0 => d = e
        BY <3>1
      <3>5. \A s \in Seqs : pending'[s] # NoCall => seqOf'[pending'[s]] = s
        <4> TAKE s \in Seqs
        <4> HAVE pending'[s] # NoCall
        <4>1. CASE s = seq + 1 BY <3>1, <4>1
        <4>2. CASE s # seq + 1
          <5>1. pending[s] \in Objs /\ seqOf[pending[s]] = s BY <3>1, <4>2
          <5>2. pending[s] # c BY <1>1, <5>1 DEF Register
          <5> QED BY <3>1, <4>2, <5>1, <5>2
        <4> QED BY <4>1, <4>2
      <3> QED BY <3>3, <3>4, <3>5
    <2> QED BY <2>1, <2>2
  <1>2. ASSUME NEW c \in Objs, pc[c] = "sending", Withdraw(c) PROVE Numbered'
    BY <1>2 DEF Withdraw, Done
  <1>3. ASSUME NEW c \in Objs, Write(c) \/ Receive(c) \/ TimeOut(c) PROVE Numbered'
    BY <1>3 DEF Write, Receive, TimeOut, clientVars
  <1>4. CASE Lookup BY <1>4 DEF Lookup, callVars
  <1>5. CASE HandleResponse
    <2>1. inCall # NoCall => inCall \in Objs /\ seqOf[inCall] # 0
      BY <1>5 DEF IInv, OneMessage, HandleResponse, Responses, InputTypes
    <2> QED BY <1>5, <2>1 DEF HandleResponse, Done, clientVars
  <1>6. CASE Close
    <2>1. \A d \in PendingCalls : d \in Objs /\ seqOf[d] # 0 BY DEF PendingCalls
    <2> QED BY <1>6, <2>1 DEF Close, Done
  <1>7. CASE UNCHANGED <<pending, seq, callVars, inCall>> BY <1>7 DEF callVars
  <1> QED BY <1>1, <1>2, <1>3, <1>4, <1>5, <1>6, <1>7, CallSteps DEF CallStep

\* A registered call that a step takes out of pending is completed by it, or in
\* the hands of the input goroutine.
LEMMA NoLostCallNext == ASSUME IInv, [Next]_vars PROVE NoLostCall'
  <1>0. TypeOK /\ TypeOK' /\ Numbered /\ NoLostCall BY TypeNext DEF IInv
  <1> USE <1>0, CallAssumption, BoundAssumption
      DEF NoLostCall, Numbered, TypeOK, ClientTypes, CallTypes, Seqs
  <1>1. ASSUME NEW c \in Objs, Register(c) PROVE NoLostCall'
    BY <1>1 DEF Register, Done, inputVars
  <1>2. ASSUME NEW c \in Objs, pc[c] = "sending", Withdraw(c) PROVE NoLostCall'
    <2>1. seqOf[c] \in Seqs BY <1>2
    <2> QED BY <1>2, <2>1 DEF Withdraw, Done, inputVars, Objs
  <1>3. ASSUME NEW c \in Objs, Write(c) \/ Receive(c) \/ TimeOut(c) PROVE NoLostCall'
    BY <1>3 DEF Write, Receive, TimeOut, clientVars, inputVars
  <1>4. CASE Lookup
    <2>1. resp.seq \in Seqs BY <1>4 DEF IInv, OneMessage, Lookup, Responses
    <2> QED BY <1>4, <2>1 DEF Lookup, callVars
  <1>5. CASE HandleResponse BY <1>5 DEF HandleResponse, Done, clientVars, Objs
  <1>6. CASE Close BY <1>6 DEF Close, Done, inputVars
  <1>7. CASE /\ UNCHANGED <<pending, seq, callVars, inCall>>
             /\ inpc = "handle" <=> inpc' = "handle"
    BY <1>7 DEF callVars
  <1> QED BY <1>1, <1>2, <1>3, <1>4, <1>5, <1>6, <1>7, CallSteps DEF CallStep

-----------------------------------------------------------------------------
\* The steps that make or move a message; every other step leaves the
\* messages, and the calls yet to be written, alone.
LEMMA MessageSteps ==
  ASSUME [Next]_vars
  PROVE  \/ \E c \in Objs : CallStep(c)
         \/ ReadResponse \/ Lookup \/ HandleResponse
         \/ \E m \in wire : Respond(m)
         \/ /\ UNCHANGED <<pending, seq, pc, seqOf, wire, replies, answer, resp>>
            /\ UNCHANGED inCall
            /\ inpc \in {"got", "handle"} \/ inpc' \in {"got", "handle"} => inpc' = inpc
  <1> DEFINE Goal == \/ \E c \in Objs : CallStep(c)
                     \/ ReadResponse \/ Lookup \/ HandleResponse
                     \/ \E m \in wire : Respond(m)
                     \/ /\ UNCHANGED <<pending, seq, pc, seqOf, wire, replies, answer, resp>>
                        /\ UNCHANGED inCall
                        /\ inpc \in {"got", "handle"} \/ inpc' \in {"got", "handle"} => inpc' = inpc
  <1> SUFFICES Goal OBVIOUS
  <1>1. CASE UNCHANGED vars
    BY <1>1 DEF vars, clientVars, callVars, inputVars, netVars
  <1>2. ASSUME NEW c \in Calls, Start(c) PROVE Goal
    <2>1. c \in Objs BY DEF Objs
    <2> QED BY <1>2, <2>1 DEF Start, CallStep
  <1>3. ASSUME NEW b \in Beats, SendBeat(b) PROVE Goal
    <2>1. b \in Objs BY DEF Objs
    <2> QED BY <1>3, <2>1 DEF SendBeat, CallStep
  <1>4. ASSUME NEW c \in Objs, Caller(c) PROVE Goal
    BY <1>4 DEF Caller, CreateRequestFails, WriteFails, CallStep
  <1>5. CASE Input
    BY <1>5 DEF Input, ReadError, BeginReconnect, DialSucceeds, DialFails,
                Install, GiveUp, InputExit, clientVars, callVars, netVars
  <1>6. CASE EnterSelect \/ TimerFires \/ BeatReturns \/ Judge \/ KeepaliveExit
    BY <1>6 DEF EnterSelect, TimerFires, BeatReturns, Judge, KeepaliveExit,
                clientVars, callVars, inputVars, netVars
  <1>7. CASE Close BY <1>7 DEF Close, inputVars
  <1>8. CASE Environment
    BY <1>8 DEF Environment, ConnBreaks, IntervalElapses, BeatContextExpires,
                clientVars, callVars, inputVars, netVars
  <1> QED BY <1>1, <1>2, <1>3, <1>4, <1>5, <1>6, <1>7, <1>8 DEF Next, Keepalive

\* One number, one message.
LEMMA OneMessageNext == ASSUME IInv, [Next]_vars PROVE OneMessage'
  <1>0. TypeOK /\ Numbered /\ OneMessage BY DEF IInv
  <1>a. /\ wire \subseteq Requests /\ replies \subseteq Responses
        /\ answer \in [Seqs -> Answers] /\ seq \in 0..MaxSeq
        /\ pc \in [Objs -> {"idle", "sending", "waiting", "returned"}]
        /\ seqOf \in [Objs -> 0..MaxSeq]
    BY <1>0 DEF TypeOK, NetTypes, ClientTypes, CallTypes
  <1>b. /\ \A m \in wire : m.seq \in Seqs
        /\ \A r \in replies : r.seq \in Seqs
    BY <1>a DEF Requests, Responses
  <1> USE <1>a, <1>b, BoundAssumption
  <1>1. ASSUME NEW c \in Objs, Register(c) PROVE OneMessage'
    <2>1. CASE status # "Available"
      <3>1. \A s : Unsent(s)' <=> Unsent(s)
        BY <1>1, <2>1 DEF Register, Unsent
      <3> QED BY <1>0, <1>1, <2>1, <3>1 DEF Register, OneMessage, inputVars, netVars
    <2>2. CASE status = "Available"
      <3>1. /\ seq' = seq + 1 /\ UNCHANGED <<inputVars, netVars>>
            /\ seqOf' = [seqOf EXCEPT ![c] = seq + 1]
            /\ pc' = [pc EXCEPT ![c] = "sending"] /\ pc[c] = "idle"
        BY <1>1, <2>2 DEF Register
      <3>2. \A s : Unsent(s)' => Unsent(s) \/ s = seq + 1
        BY <3>1 DEF Unsent
      <3>3. \A d \in Objs : seqOf[d] # 0 => seqOf'[d] = seqOf[d]
        BY <1>0, <3>1 DEF Numbered
      <3>4. \A s \in Seqs : s > seq' \/ Unsent(s)' => answer'[s] = "none"
        BY <1>0, <3>1, <3>2 DEF OneMessage, netVars, Seqs
      <3>5. \A m \in wire' : /\ m.seq <= seq' /\ ~Unsent(m.seq)'
                             /\ answer'[m.seq] = "none"
                             /\ \A n \in wire' : n.seq = m.seq => n = m
        BY <1>0, <3>1, <3>2 DEF OneMessage, netVars, Seqs
      <3>6. inpc = "handle" /\ inCall # NoCall => seqOf'[inCall] = resp.seq
        <4> HAVE inpc = "handle" /\ inCall # NoCall
        <4>1. seqOf[inCall] = resp.seq /\ resp.seq \in Seqs /\ inCall \in Objs
          BY <1>0 DEF OneMessage, Responses, TypeOK, InputTypes
        <4> QED BY <3>3, <4>1 DEF Seqs
      <3> QED BY <1>0, <3>1, <3>4, <3>5, <3>6 DEF OneMessage, netVars, inputVars
    <2> QED BY <2>1, <2>2
  <1>2. ASSUME NEW c \in Objs, pc[c] = "sending", Withdraw(c) PROVE OneMessage'
    <2>1. \A s : Unsent(s)' => Unsent(s) BY <1>2 DEF Withdraw, Unsent
    <2> QED BY <1>0, <1>2, <2>1 DEF Withdraw, OneMessage, inputVars, netVars
  <1>3. ASSUME NEW c \in Objs, Write(c) PROVE OneMessage'
    <2>1. \A s : Unsent(s)' => Unsent(s) BY <1>3 DEF Write, Unsent
    <2>2. ~Unsent(seqOf[c])' /\ seqOf' = seqOf
      BY <1>0, <1>3 DEF Write, Unsent, Numbered
    <2>3. seqOf[c] \in Seqs /\ seqOf[c] <= seq /\ Unsent(seqOf[c])
      BY <1>0, <1>3 DEF Write, Unsent, Numbered, Seqs
    <2>4. \A m \in wire : m.seq # seqOf[c]
      BY <1>0, <2>3 DEF OneMessage
    <2>5. answer[seqOf[c]] = "none" BY <1>0, <2>3 DEF OneMessage
    <2>6. \/ wire' = wire
          \/ wire' = wire \cup {[conn |-> raw[c], seq |-> seqOf[c], hb |-> c \in Beats]}
      BY <1>3 DEF Write
    <2>7. \A m \in wire' : /\ m.seq <= seq /\ ~Unsent(m.seq)'
                           /\ answer[m.seq] = "none"
                           /\ \A n \in wire' : n.seq = m.seq => n = m
      <3>1. CASE wire' = wire BY <1>0, <2>1, <3>1 DEF OneMessage
      <3>2. ASSUME NEW new, new.seq = seqOf[c], wire' = wire \cup {new}
            PROVE  \A m \in wire' : /\ m.seq <= seq /\ ~Unsent(m.seq)'
                                    /\ answer[m.seq] = "none"
                                    /\ \A n \in wire' : n.seq = m.seq => n = m
        BY <1>0, <2>1, <2>2, <2>3, <2>4, <2>5, <3>2 DEF OneMessage
      <3> QED BY <2>6, <3>1, <3>2
    <2> QED BY <1>0, <1>3, <2>1, <2>7 DEF Write, OneMessage, clientVars, inputVars
  <1>4. ASSUME NEW c \in Objs, Receive(c) \/ TimeOut(c) PROVE OneMessage'
    <2>1. \A s : Unsent(s)' => Unsent(s) BY <1>4 DEF Receive, TimeOut, Unsent
    <2> QED BY <1>0, <1>4, <2>1
        DEF Receive, TimeOut, OneMessage, clientVars, inputVars, netVars
  <1>5. CASE ReadResponse
    <2>1. \A s : Unsent(s)' <=> Unsent(s) BY <1>5 DEF ReadResponse, Unsent, callVars
    <2>2. resp' \in replies /\ resp' \notin replies' /\ replies' \subseteq replies
      BY <1>5 DEF ReadResponse
    <2> QED BY <1>0, <1>5, <2>1, <2>2 DEF ReadResponse, OneMessage, clientVars
  <1>6. CASE Lookup
    <2>1. \A s : Unsent(s)' <=> Unsent(s) BY <1>6 DEF Lookup, Unsent, callVars
    <2>2. resp.seq \in Seqs BY <1>0, <1>6 DEF Lookup, OneMessage, Responses
    <2>3. inCall' # NoCall => seqOf[inCall'] = resp.seq
      BY <1>0, <1>6, <2>2 DEF Lookup, Numbered
    <2> QED BY <1>0, <1>6, <2>1, <2>3 DEF Lookup, OneMessage, callVars, netVars
  <1>7. CASE HandleResponse
    <2>1. \A s : Unsent(s)' <=> Unsent(s) BY <1>7 DEF HandleResponse, Unsent
    <2> QED BY <1>0, <1>7, <2>1 DEF HandleResponse, OneMessage, clientVars, netVars
  <1>8. ASSUME NEW m \in wire, Respond(m) PROVE OneMessage'
    <2>1. \A s : Unsent(s)' <=> Unsent(s) BY <1>8 DEF Respond, Unsent, callVars
    <2>2. PICK e \in BOOLEAN :
            /\ replies' = replies \cup {[conn |-> m.conn, seq |-> m.seq, hb |-> m.hb, err |-> e]}
            /\ answer' = [answer EXCEPT ![m.seq] = IF e THEN "err" ELSE "ok"]
      BY <1>8 DEF Respond
    <2>3. answer[m.seq] = "none" /\ m.seq <= seq /\ ~Unsent(m.seq)
      BY <1>0 DEF OneMessage
    <2>4. \A r \in replies : r.seq # m.seq BY <1>0, <2>3 DEF OneMessage
    <2>5. \A r \in replies' :
            /\ answer'[r.seq] = IF r.err THEN "err" ELSE "ok"
            /\ \A q \in replies' : q.seq = r.seq => q = r
      BY <1>0, <2>2, <2>4 DEF OneMessage
    <2>6. \A n \in wire' : n.seq # m.seq /\ n \in wire BY <1>0, <1>8 DEF Respond, OneMessage
    <2>7. \A n \in wire' : /\ n.seq <= seq /\ ~Unsent(n.seq)
                           /\ answer'[n.seq] = "none"
                           /\ \A o \in wire' : o.seq = n.seq => o = n
      <3> TAKE n \in wire'
      <3>1. n \in wire /\ n.seq # m.seq /\ n.seq \in Seqs BY <2>6
      <3>2. n.seq <= seq /\ ~Unsent(n.seq) /\ answer[n.seq] = "none"
        BY <1>0, <3>1 DEF OneMessage
      <3>3. answer'[n.seq] = "none" BY <2>2, <3>1, <3>2
      <3>4. \A o \in wire' : o.seq = n.seq => o = n BY <1>0, <2>6, <3>1 DEF OneMessage
      <3> QED BY <3>2, <3>3, <3>4
    <2>8. \A s \in Seqs : s > seq \/ Unsent(s) => answer'[s] = "none"
      BY <1>0, <2>2, <2>3 DEF OneMessage, Seqs
    <2>9. inpc \in {"got", "handle"} =>
            /\ resp \in Responses
            /\ answer'[resp.seq] = IF resp.err THEN "err" ELSE "ok"
            /\ \A r \in replies' : r.seq # resp.seq
      BY <1>0, <2>2, <2>3 DEF OneMessage, Responses
    <2> QED BY <1>0, <1>8, <2>1, <2>5, <2>7, <2>8, <2>9
        DEF Respond, OneMessage, clientVars, callVars, inputVars
  <1>9. CASE /\ UNCHANGED <<pending, seq, pc, seqOf, wire, replies, answer, resp>>
             /\ UNCHANGED inCall
             /\ inpc \in {"got", "handle"} \/ inpc' \in {"got", "handle"} => inpc' = inpc
    <2>1. \A s : Unsent(s)' <=> Unsent(s) BY <1>9 DEF Unsent
    <2> QED BY <1>0, <1>9, <2>1 DEF OneMessage
  <1> QED BY <1>1, <1>2, <1>3, <1>4, <1>5, <1>6, <1>7, <1>8, <1>9, MessageSteps DEF CallStep

\* Nobody takes a call out of pending while send works on its request.
LEMMA SendingPendingNext == ASSUME IInv, [Next]_vars PROVE SendingPending'
  <1>0. TypeOK /\ Numbered /\ OneMessage /\ SendingPending BY DEF IInv
  <1> USE <1>0, BoundAssumption DEF SendingPending, TypeOK, ClientTypes, CallTypes, Seqs
  <1>a. \A c \in Objs : pc[c] = "sending" => /\ seqOf[c] \in Seqs /\ seqOf[c] <= seq
                                             /\ answer[seqOf[c]] = "none"
    BY DEF Numbered, OneMessage, Unsent
  <1>b. \A c, d \in Objs : seqOf[c] = seqOf[d] /\ seqOf[c] # 0 => c = d
    BY DEF Numbered
  <1>1. ASSUME NEW c \in Objs, Register(c) PROVE SendingPending'
    BY <1>1, <1>a DEF Register
  <1>2. ASSUME NEW c \in Objs, pc[c] = "sending", Withdraw(c) PROVE SendingPending'
    BY <1>2, <1>a, <1>b DEF Withdraw
  <1>3. ASSUME NEW c \in Objs, Write(c) \/ Receive(c) \/ TimeOut(c) PROVE SendingPending'
    BY <1>3 DEF Write, Receive, TimeOut, clientVars
  <1>4. CASE Lookup
    <2>1. answer[resp.seq] # "none" BY <1>4 DEF Lookup, OneMessage
    <2> QED BY <1>4, <1>a, <2>1 DEF Lookup, callVars
  <1>5. CASE HandleResponse BY <1>5 DEF HandleResponse, clientVars
  <1>6. CASE Close BY <1>6 DEF Close
  <1>7. CASE UNCHANGED <<pending, seq, callVars, inCall>> BY <1>7 DEF callVars
  <1> QED BY <1>1, <1>2, <1>3, <1>4, <1>5, <1>6, <1>7, CallSteps DEF CallStep

\* A heartbeat response always finds its call.
LEMMA BeatPendingNext == ASSUME IInv, [Next]_vars PROVE BeatPending' /\ NoNilCall'
  <1>0. TypeOK /\ Numbered /\ OneMessage /\ SendingPending /\ BeatPending /\ NoNilCall
    BY DEF IInv
  <1>a. /\ wire \subseteq Requests /\ replies \subseteq Responses
        /\ seq \in 0..MaxSeq /\ pending \in [Seqs -> Objs \cup {NoCall}]
        /\ seqOf \in [Objs -> 0..MaxSeq]
    BY <1>0 DEF TypeOK, NetTypes, ClientTypes, CallTypes
  <1>b. /\ \A m \in wire : m.seq \in Seqs
        /\ \A r \in replies : r.seq \in Seqs
        /\ inpc \in {"got", "handle"} => resp.seq \in Seqs
    BY <1>0, <1>a DEF Requests, Responses, OneMessage
  <1>c. NoCall \notin Objs BY CallAssumption DEF Objs
  <1>1. NoNilCall'
    <2>1. CASE HandleResponse
      BY <1>0, <2>1 DEF HandleResponse, BeatPending, NoNilCall
    <2>2. CASE Close BY <1>0, <2>2 DEF Close, NoNilCall
    <2>3. CASE UNCHANGED panicked BY <1>0, <2>3 DEF NoNilCall
    <2>4. HandleResponse \/ Close \/ UNCHANGED panicked
      <3>1. ASSUME NEW c \in Objs, Caller(c) PROVE UNCHANGED panicked
        BY <3>1 DEF Caller, CreateRequestFails, WriteFails, Withdraw, Write,
                    Receive, TimeOut, procVars
      <3>2. CASE Input
        BY <3>2 DEF Input, ReadResponse, ReadError, Lookup, BeginReconnect,
                    DialSucceeds, DialFails, Install, GiveUp, InputExit, procVars
      <3>3. CASE Keepalive
        BY <3>3 DEF Keepalive, EnterSelect, TimerFires, SendBeat, Register,
                    BeatReturns, Judge, KeepaliveExit, procVars
      <3>4. CASE Environment
        BY <3>4 DEF Environment, Respond, ConnBreaks, IntervalElapses,
                    BeatContextExpires, procVars
      <3>5. ASSUME NEW c \in Calls, Start(c) PROVE UNCHANGED panicked
        BY <3>5 DEF Start, Register, procVars
      <3>6. CASE UNCHANGED vars BY <3>6 DEF vars, procVars
      <3> QED BY <3>1, <3>2, <3>3, <3>4, <3>5, <3>6 DEF Next
    <2> QED BY <2>1, <2>2, <2>3, <2>4
  <1>2. BeatPending'
    <2> USE <1>a, <1>b, <1>c, BoundAssumption
    <2>1. ASSUME NEW c \in Objs, Register(c) PROVE BeatPending'
      BY <1>0, <2>1 DEF Register, BeatPending, inputVars, netVars
    <2>2. ASSUME NEW c \in Objs, pc[c] = "sending", Withdraw(c) PROVE BeatPending'
      <3>1. seqOf[c] \in Seqs /\ Unsent(seqOf[c])
        BY <1>0, <2>2 DEF Numbered, Unsent, Seqs
      <3>2. answer[seqOf[c]] = "none" BY <1>0, <3>1 DEF OneMessage
      <3>3. \A m \in wire \cup replies : m.seq # seqOf[c]
        BY <1>0, <3>1, <3>2 DEF OneMessage
      <3>4. inpc = "got" => resp.seq # seqOf[c] BY <1>0, <3>2 DEF OneMessage
      <3> QED BY <1>0, <2>2, <3>1, <3>3, <3>4 DEF Withdraw, BeatPending, inputVars, netVars
    <2>3. ASSUME NEW c \in Objs, Write(c) PROVE BeatPending'
      <3>1. c \in Beats => pending[seqOf[c]] # NoCall
        <4>1. seqOf[c] \in Seqs /\ Unsent(seqOf[c])
          BY <1>0, <2>3 DEF Write, Numbered, Unsent, Seqs
        <4> QED BY <1>0, <1>c, <2>3, <4>1 DEF Write, SendingPending
      <3>2. \A m \in wire' : \/ m \in wire
                             \/ m.seq = seqOf[c] /\ (m.hb => c \in Beats)
        <4> DEFINE new == [conn |-> raw[c], seq |-> seqOf[c], hb |-> c \in Beats]
        <4>1. new.seq = seqOf[c] /\ (new.hb => c \in Beats) BY Zenon
        <4>2. \A m \in wire' : m \in wire \/ m = new BY <2>3 DEF Write
        <4> HIDE DEF new
        <4> QED BY <4>1, <4>2
      <3>3. \A m \in wire' : m.hb => pending[m.seq] # NoCall
        BY <1>0, <3>1, <3>2 DEF BeatPending
      <3> QED BY <1>0, <2>3, <3>3 DEF Write, BeatPending, clientVars, inputVars
    <2>4. ASSUME NEW c \in Objs, Receive(c) \/ TimeOut(c) PROVE BeatPending'
      BY <1>0, <2>4 DEF Receive, TimeOut, BeatPending, clientVars, inputVars, netVars
    <2>5. CASE ReadResponse
      BY <1>0, <2>5 DEF ReadResponse, BeatPending, clientVars
    <2>6. CASE Lookup
      <3>1. \A r \in replies : r.seq # resp.seq BY <1>0, <2>6 DEF Lookup, OneMessage
      <3>2. \A m \in wire : m.seq # resp.seq BY <1>0, <2>6 DEF Lookup, OneMessage
      <3> QED BY <1>0, <2>6, <3>1, <3>2 DEF Lookup, BeatPending, callVars, netVars
    <2>7. CASE HandleResponse
      BY <1>0, <2>7 DEF HandleResponse, BeatPending, clientVars, netVars
    <2>8. ASSUME NEW m \in wire, Respond(m) PROVE BeatPending'
      BY <1>0, <2>8 DEF Respond, BeatPending, clientVars, inputVars
    <2>9. CASE /\ UNCHANGED <<pending, seq, pc, seqOf, wire, replies, answer, resp>>
               /\ UNCHANGED inCall
               /\ inpc \in {"got", "handle"} \/ inpc' \in {"got", "handle"} => inpc' = inpc
      BY <1>0, <2>9 DEF BeatPending
    <2> QED BY <2>1, <2>2, <2>3, <2>4, <2>5, <2>6, <2>7, <2>8, <2>9, MessageSteps
        DEF CallStep
  <1> QED BY <1>1, <1>2

\* A request on the wire carries the heartbeat bit of its one call.
LEMMA HeartbeatBitsNext == ASSUME IInv, [Next]_vars PROVE HeartbeatBits'
  <1>0. TypeOK /\ Numbered /\ OneMessage /\ HeartbeatBits BY DEF IInv
  <1>a. /\ wire \subseteq Requests /\ seq \in 0..MaxSeq
        /\ seqOf \in [Objs -> 0..MaxSeq]
    BY <1>0 DEF TypeOK, NetTypes, ClientTypes, CallTypes
  <1>b. \A m \in wire : m.seq \in Nat /\ m.seq <= seq
    BY <1>0, <1>a, BoundAssumption DEF OneMessage, Requests, Seqs
  <1>1. ASSUME NEW c \in Objs, Register(c) PROVE HeartbeatBits'
    <2>1. wire' = wire /\ \A d \in Objs : seqOf'[d] = seqOf[d] \/ seqOf'[d] = seq + 1
      BY <1>1, <1>a DEF Register, netVars
    <2>2. \A m \in wire : m.seq # seq + 1 BY <1>a, <1>b
    <2> QED BY <1>0, <2>1, <2>2 DEF HeartbeatBits
  <1>2. ASSUME NEW c \in Objs, Write(c) PROVE HeartbeatBits'
    <2>1. seqOf' = seqOf BY <1>2 DEF Write
    <2>2. pc[c] = "sending" /\ seqOf[c] # 0 BY <1>0, <1>2 DEF Write, Numbered
    <2>3. ASSUME NEW m \in wire' \ wire
          PROVE  m.seq = seqOf[c] /\ (m.hb <=> c \in Beats)
      <3>1. m = [conn |-> raw[c], seq |-> seqOf[c], hb |-> c \in Beats]
        BY <1>2 DEF Write
      <3>2. m.hb = (c \in Beats) BY <3>1, Zenon
      <3> QED BY <3>1, <3>2
    <2>4. \A d \in Objs : seqOf[d] = seqOf[c] => d = c
      BY <1>0, <2>2 DEF Numbered
    <2> QED BY <1>0, <2>1, <2>3, <2>4 DEF HeartbeatBits
  <1>3. CASE wire' \subseteq wire /\ seqOf' = seqOf
    BY <1>0, <1>3 DEF HeartbeatBits
  <1>4. ASSUME NEW c \in Objs,
               (pc[c] = "sending" /\ Withdraw(c)) \/ Receive(c) \/ TimeOut(c)
        PROVE  wire' \subseteq wire /\ seqOf' = seqOf
    BY <1>4 DEF Withdraw, Receive, TimeOut, netVars
  <1>5. ASSUME \/ ReadResponse \/ Lookup \/ HandleResponse
               \/ \E m \in wire : Respond(m)
        PROVE  wire' \subseteq wire /\ seqOf' = seqOf
    BY <1>5 DEF ReadResponse, Lookup, HandleResponse, Respond, callVars, netVars
  <1> QED BY <1>1, <1>2, <1>3, <1>4, <1>5, MessageSteps DEF CallStep

\* Only a response without an error completes a call without one.
LEMMA CompletedNext == ASSUME IInv, [Next]_vars PROVE Completed'
  <1>0. TypeOK /\ TypeOK' /\ Numbered /\ OneMessage /\ Completed
    BY TypeNext DEF IInv
  <1> USE <1>0, CallAssumption, BoundAssumption
      DEF Completed, TypeOK, ClientTypes, CallTypes, Seqs
  <1>a. /\ wire \subseteq Requests /\ answer \in [Seqs -> Answers]
        /\ inCall \in Objs \cup {NoCall}
    BY DEF NetTypes, InputTypes
  <1>1. ASSUME NEW c \in Objs, Register(c) PROVE Completed'
    <2>1. c \notin completed BY <1>1 DEF Register, Numbered
    <2> QED BY ZenonT(100), <1>1, <2>1 DEF Register, Done, netVars
  <1>2. ASSUME NEW c \in Objs, pc[c] = "sending", Withdraw(c) PROVE Completed'
    BY <1>2 DEF Withdraw, Done, netVars
  <1>3. ASSUME NEW c \in Objs, Write(c) PROVE Completed'
    BY <1>3 DEF Write
  <1>4. ASSUME NEW c \in Objs, Receive(c) \/ TimeOut(c) PROVE Completed'
    BY ZenonT(100), <1>4 DEF Receive, TimeOut, netVars
  <1>5. CASE HandleResponse
    <2>1. inCall # NoCall /\ ~resp.err => seqOf[inCall] # 0 /\ answer[seqOf[inCall]] = "ok"
      BY <1>5 DEF HandleResponse, OneMessage, Responses
    <2> QED BY <1>5, <1>a, <2>1 DEF HandleResponse, Done, netVars
  <1>6. CASE Close BY <1>6 DEF Close, Done
  <1>7. ASSUME NEW m \in wire, Respond(m) PROVE Completed'
    <2>1. answer[m.seq] = "none" /\ m.seq \in Seqs
      BY <1>a DEF OneMessage, Requests
    <2>2. \A s \in Seqs : answer[s] = "ok" => answer'[s] = "ok"
      BY <1>7, <1>a, <2>1 DEF Respond
    <2>3. UNCHANGED <<ready, completed, failed, seqOf, pc, result>>
      BY <1>7 DEF Respond, callVars
    <2>4. \A c \in completed' \ failed' : seqOf'[c] # 0 /\ answer'[seqOf'[c]] = "ok"
      BY <2>2, <2>3
    <2> QED BY <2>3, <2>4
  <1>8. CASE UNCHANGED callVars /\ UNCHANGED answer BY <1>8 DEF callVars
  <1>9. CASE Lookup BY <1>9 DEF Lookup, callVars, netVars
  <1>10. \/ \E c \in Objs : CallStep(c)
         \/ HandleResponse \/ Close \/ Lookup
         \/ \E m \in wire : Respond(m)
         \/ UNCHANGED callVars /\ UNCHANGED answer
    BY ONLY CallSteps, MessageSteps, [Next]_vars, Zenon DEF ReadResponse, Close
  <1> QED BY <1>1, <1>2, <1>3, <1>4, <1>5, <1>6, <1>7, <1>8, <1>9, <1>10 DEF CallStep

\* The connection status against the input goroutine and the connections.
LEMMA StatusNext ==
  ASSUME IInv, [Next]_vars
  PROVE  ReaderServes' /\ OpenWhileAvailable' /\ Dialed'
  <1>0. TypeOK /\ ReaderServes /\ OpenWhileAvailable /\ Dialed BY DEF IInv
  <1>a. /\ net \in [Conns -> {"none", "up", "garbled", "broken", "closed"}]
        /\ conn \in Conns /\ dialed \in Conns
    BY <1>0 DEF TypeOK, ClientTypes, NetTypes
  <1> DEFINE Goal == ReaderServes' /\ OpenWhileAvailable' /\ Dialed'
             Kept == UNCHANGED <<inpc, status, suicide, conn, net, dialed>>
  <1> SUFFICES Goal OBVIOUS
  <1> USE <1>0, <1>a, BoundAssumption DEF ReaderServes, OpenWhileAvailable, Dialed, Conns
  <1>1. CASE Kept BY <1>1
  <1>2. CASE Input
    <2>1. CASE ReadResponse BY <2>1 DEF ReadResponse, clientVars
    <2>2. CASE ReadError BY <2>2 DEF ReadError, clientVars, netVars
    <2>3. CASE Lookup BY <2>3 DEF Lookup, netVars
    <2>4. CASE HandleResponse BY <2>4 DEF HandleResponse, clientVars, netVars
    <2>5. CASE BeginReconnect BY <2>5 DEF BeginReconnect, netVars
    <2>6. CASE DialSucceeds BY <2>6 DEF DialSucceeds, clientVars
    <2>7. CASE DialFails BY <2>7 DEF DialFails, clientVars, netVars
    <2>8. CASE Install BY <2>8 DEF Install, netVars
    <2>9. CASE GiveUp BY <2>9 DEF GiveUp, netVars
    <2>10. CASE InputExit BY <2>10 DEF InputExit, netVars
    <2> QED BY <1>2, <2>1, <2>2, <2>3, <2>4, <2>5, <2>6, <2>7, <2>8, <2>9, <2>10 DEF Input
  <1>3. CASE Judge BY <1>3 DEF Judge, inputVars
  <1>4. CASE Close BY <1>4 DEF Close, inputVars
  <1>5. ASSUME NEW k \in Conns, ConnBreaks(k) PROVE Goal
    BY <1>5 DEF ConnBreaks, clientVars, inputVars
  <1>6. Kept \/ Input \/ Judge \/ Close \/ \E k \in Conns : ConnBreaks(k)
    <2>1. ASSUME NEW c \in Objs, Caller(c) PROVE Kept
      BY <2>1 DEF Caller, CreateRequestFails, WriteFails, Withdraw, Write, Receive,
                  TimeOut, clientVars, inputVars, netVars
    <2>2. ASSUME NEW c, Register(c) PROVE Kept
      BY <2>2 DEF Register, inputVars, netVars
    <2>3. CASE EnterSelect \/ TimerFires \/ BeatReturns \/ KeepaliveExit
      BY <2>3 DEF EnterSelect, TimerFires, BeatReturns, KeepaliveExit,
                  clientVars, inputVars, netVars
    <2>4. ASSUME NEW m \in wire, Respond(m) PROVE Kept
      BY <2>4 DEF Respond, clientVars, inputVars
    <2>5. CASE IntervalElapses \/ BeatContextExpires
      BY <2>5 DEF IntervalElapses, BeatContextExpires, clientVars, inputVars, netVars
    <2>6. CASE UNCHANGED vars BY <2>6 DEF vars, clientVars, inputVars, netVars
    <2> QED BY <2>1, <2>2, <2>3, <2>4, <2>5, <2>6
        DEF Next, Keepalive, Environment, Start, SendBeat
  <1> QED BY <1>1, <1>2, <1>3, <1>4, <1>5, <1>6

-----------------------------------------------------------------------------
\* IInv holds in every reachable state, whatever the constants are.
THEOREM Invariance == Spec => []IInv
  <1>1. Init => IInv BY InitInv
  <1>2. IInv /\ [Next]_vars => IInv'
    BY TypeNext, NumberedNext, NoLostCallNext, OneMessageNext, SendingPendingNext,
       BeatPendingNext, HeartbeatBitsNext, CompletedNext, StatusNext
    DEF IInv
  <1> QED BY <1>1, <1>2, PTL DEF Spec

\* Every variable of the client keeps its type.
THEOREM TypeCorrect == Spec => []TypeOK
  <1>1. IInv => TypeOK BY DEF IInv
  <1> QED BY <1>1, Invariance, PTL

\* No registered call is lost, whichever goroutine was to complete it.
THEOREM Safety == Spec => []NoLostCall
  <1>1. IInv => NoLostCall BY DEF IInv
  <1> QED BY <1>1, Invariance, PTL

\* A heartbeat response always finds the call of its heartbeat.
THEOREM BeatsHaveCalls == Spec => []NoNilCall
  <1>1. IInv => NoNilCall BY DEF IInv
  <1> QED BY <1>1, Invariance, PTL

\* A client that accepts calls has an input goroutine that takes their responses.
THEOREM AvailableIsServed == Spec => []ReaderServes
  <1>1. IInv => ReaderServes BY DEF IInv
  <1> QED BY <1>1, Invariance, PTL

\* A client that accepts calls has not closed the connection it hands to send.
THEOREM AvailableIsOpen == Spec => []OpenWhileAvailable
  <1>1. IInv => OpenWhileAvailable BY DEF IInv
  <1> QED BY <1>1, Invariance, PTL

-----------------------------------------------------------------------------
\* doneChan is closed by Close alone, which gives up the status; only Install
\* makes the client available after it, and that is recorded.
LEMMA RefusesNext ==
  ASSUME IInv, [Next]_vars, doneClosed /\ ~reopened => status # "Available"
  PROVE  /\ doneClosed' /\ ~reopened' => status' # "Available"
         /\ doneClosed' /\ ~reopened' /\ ~Close => doneClosed /\ ~reopened
  <1> DEFINE Goal == /\ doneClosed' /\ ~reopened' => status' # "Available"
                     /\ doneClosed' /\ ~reopened' /\ ~Close => doneClosed /\ ~reopened
  <1> SUFFICES Goal OBVIOUS
  <1>1. CASE UNCHANGED <<status, doneClosed, reopened>> BY <1>1
  <1>2. CASE Input
    <2>1. CASE ReadResponse BY <1>1, <2>1 DEF ReadResponse, clientVars, procVars
    <2>2. CASE ReadError BY <1>1, <2>2 DEF ReadError, clientVars, procVars
    <2>3. CASE Lookup BY <1>1, <2>3 DEF Lookup, procVars
    <2>4. CASE HandleResponse BY <1>1, <2>4 DEF HandleResponse, clientVars, procVars
    <2>5. CASE BeginReconnect BY <2>5 DEF BeginReconnect, procVars
    <2>6. CASE DialSucceeds BY <1>1, <2>6 DEF DialSucceeds, clientVars, procVars
    <2>7. CASE DialFails BY <1>1, <2>7 DEF DialFails, clientVars, procVars
    <2>8. CASE Install
      <3>1. doneClosed' = doneClosed /\ reopened' = (reopened \/ doneClosed)
        BY <2>8, Zenon DEF Install
      <3>2. doneClosed' => reopened' BY <3>1, Zenon
      <3> QED BY <3>2, Zenon
    <2>9. CASE GiveUp BY <2>9 DEF GiveUp, procVars
    <2>10. CASE InputExit BY <1>1, <2>10 DEF InputExit, procVars
    <2> QED BY <1>2, <2>1, <2>2, <2>3, <2>4, <2>5, <2>6, <2>7, <2>8, <2>9, <2>10 DEF Input
  <1>3. CASE Judge BY <1>1, <1>3 DEF Judge, procVars
  <1>4. CASE Close BY <1>4 DEF Close
  <1>5. ASSUME NEW c \in Objs, Caller(c) PROVE UNCHANGED <<status, doneClosed, reopened>>
    BY <1>5 DEF Caller, CreateRequestFails, WriteFails, Withdraw, Write, Receive,
                TimeOut, clientVars, procVars
  <1>6. ASSUME NEW c, Register(c) PROVE UNCHANGED <<status, doneClosed, reopened>>
    BY <1>6 DEF Register, procVars
  <1>7. CASE EnterSelect \/ TimerFires \/ BeatReturns \/ KeepaliveExit
    BY <1>1, <1>7 DEF EnterSelect, TimerFires, BeatReturns, KeepaliveExit, clientVars, procVars
  <1>8. CASE Environment
    BY <1>1, <1>8 DEF Environment, Respond, ConnBreaks, IntervalElapses,
                      BeatContextExpires, clientVars, procVars
  <1>9. CASE UNCHANGED vars BY <1>1, <1>9 DEF vars, clientVars, procVars
  <1> QED BY <1>1, <1>2, <1>3, <1>4, <1>5, <1>6, <1>7, <1>8, <1>9
      DEF Next, Keepalive, Start, SendBeat

\* Close finds every call that has not been completed in pending, because
\* none is lost; after it no call is registered, and none is undone.
LEMMA SettledNext == ASSUME IInv, ClosedSettled, [Next]_vars PROVE ClosedSettled'
  <1> DEFINE Settled == \A c \in Objs : seqOf[c] # 0 =>
                          c \in completed \/ (inpc = "handle" /\ inCall = c)
  <1>1. doneClosed' /\ ~reopened' => status' # "Available"
    BY RefusesNext DEF ClosedSettled
  <1>2. CASE Close
    <2>1. UNCHANGED <<seqOf, inpc, inCall>> /\ completed \subseteq completed'
      BY <1>2 DEF Close, Done, inputVars
    <2>2. CASE status # "Close"
      <3>1. PendingCalls \subseteq completed' BY <1>2, <2>2 DEF Close, Done
      <3>2. ASSUME NEW c \in Objs, seqOf[c] # 0
            PROVE  c \in completed' \/ (inpc = "handle" /\ inCall = c)
        <4>1. c \in completed \/ pending[seqOf[c]] = c \/ (inpc = "handle" /\ inCall = c)
          BY <3>2 DEF IInv, NoLostCall
        <4>2. seqOf[c] \in Seqs /\ c # NoCall
          BY <3>2, BoundAssumption, CallAssumption
          DEF IInv, TypeOK, CallTypes, Seqs, Objs
        <4> QED BY <2>1, <3>1, <4>1, <4>2 DEF PendingCalls
      <3> QED BY <1>1, <2>1, <3>2 DEF ClosedSettled
    <2>3. CASE status = "Close"
      <3>1. UNCHANGED <<doneClosed, reopened>> BY <1>2, <2>3 DEF Close
      <3> QED BY <1>1, <2>1, <3>1 DEF ClosedSettled
    <2> QED BY <2>2, <2>3
  <1>3. CASE ~Close
    <2>1. SUFFICES ASSUME doneClosed', ~reopened' PROVE Settled'
      BY <1>1 DEF ClosedSettled
    <2>2. Settled /\ status # "Available"
      BY <1>3, <2>1, RefusesNext DEF ClosedSettled
    <2>3. ASSUME NEW c \in Objs, Register(c) PROVE Settled'
      BY <2>2, <2>3 DEF Register, Done, inputVars
    <2>4. ASSUME NEW c \in Objs, Withdraw(c) PROVE Settled'
      BY <2>2, <2>4 DEF Withdraw, Done, inputVars
    <2>5. ASSUME NEW c \in Objs, Write(c) \/ Receive(c) \/ TimeOut(c) PROVE Settled'
      BY <2>2, <2>5 DEF Write, Receive, TimeOut, clientVars, inputVars
    <2>6. CASE Lookup BY <2>2, <2>6 DEF Lookup, callVars
    <2>7. CASE HandleResponse
      BY <2>2, <2>7, CallAssumption DEF HandleResponse, Done, clientVars, Objs
    <2>8. CASE /\ UNCHANGED <<pending, seq, callVars, inCall>>
               /\ inpc = "handle" <=> inpc' = "handle"
      BY <2>2, <2>8 DEF callVars
    <2> QED BY <1>3, <2>3, <2>4, <2>5, <2>6, <2>7, <2>8, CallSteps DEF CallStep
  <1> QED BY <1>2, <1>3

\* Close leaves no registered call behind: each is completed, with its error or
\* with the response that the input goroutine holds, whoever else has it in
\* hand when Close runs, and none is registered after it.
THEOREM ClosedIsSettled == Spec => []ClosedSettled
  <1>1. Init => ClosedSettled BY DEF Init, ClosedSettled
  <1>2. IInv /\ ClosedSettled /\ [Next]_vars => ClosedSettled' BY SettledNext
  <1> QED BY <1>1, <1>2, Invariance, PTL DEF Spec

-----------------------------------------------------------------------------
\* What a step looks like to the callers: nothing, or one action of RPCCall.
LEMMA AbstractStep ==
  ASSUME IInv, [Next]_vars
  PROVE  Abs!Next \/ UNCHANGED <<Started, Served, Result>>
  <1>0. TypeOK /\ TypeOK' /\ Numbered /\ OneMessage /\ Completed
    BY TypeNext DEF IInv
  <1>a. /\ wire \subseteq Requests /\ answer \in [Seqs -> Answers]
        /\ pc \in [Objs -> {"idle", "sending", "waiting", "returned"}]
        /\ seqOf \in [Objs -> 0..MaxSeq] /\ result \in [Objs -> Results]
        /\ seq \in 0..MaxSeq
        /\ Calls \subseteq Objs
    BY <1>0 DEF TypeOK, NetTypes, CallTypes, ClientTypes, Objs
  <1> DEFINE Goal == Abs!Next \/ UNCHANGED <<Started, Served, Result>>
             Stutter == UNCHANGED <<Started, Served, Result>>
  <1> USE <1>a, BoundAssumption DEF Seqs
  <1>1. ASSUME NEW c \in Objs, Register(c) PROVE Goal
    <2>1. UNCHANGED <<answer, result>> BY <1>1 DEF Register, netVars
    <2>2. Result' = Result BY <2>1 DEF Result
    <2>3. pc[c] = "idle" /\ seqOf[c] = 0 BY <1>0, <1>1 DEF Register, Numbered
    <2>4. \/ UNCHANGED seqOf
          \/ /\ seqOf' = [seqOf EXCEPT ![c] = seq + 1]
             /\ seq + 1 \in Seqs
      BY <1>1 DEF Register
    <2>5. seq + 1 \in Seqs => answer[seq + 1] = "none" BY <1>0 DEF OneMessage
    <2>6. Served' = Served
      <3>1. ASSUME NEW d \in Calls
            PROVE  (IF seqOf'[d] = 0 THEN "none" ELSE answer'[seqOf'[d]])
                   = (IF seqOf[d] = 0 THEN "none" ELSE answer[seqOf[d]])
        BY <2>1, <2>3, <2>4, <2>5
      <3> QED BY <3>1 DEF Served
    <2>7. pc' = [pc EXCEPT ![c] = "waiting"] \/ pc' = [pc EXCEPT ![c] = "sending"]
      BY <1>1 DEF Register
    <2>8. CASE c \in Calls
      <3>1. Started' = Started \cup {c} /\ c \notin Started
        BY <2>3, <2>7, <2>8 DEF Started
      <3>2. Abs!Start(c) BY <2>2, <2>6, <3>1 DEF Abs!Start
      <3> QED BY <2>8, <3>2 DEF Abs!Next
    <2>9. CASE c \notin Calls
      <3>1. Started' = Started BY <2>7, <2>9 DEF Started
      <3> QED BY <2>2, <2>6, <3>1
    <2> QED BY <2>8, <2>9
  <1>2. ASSUME NEW c \in Objs, (pc[c] = "sending" /\ Withdraw(c)) \/ Write(c) PROVE Goal
    <2>1. /\ pc' = [pc EXCEPT ![c] = "waiting"] /\ pc[c] = "sending"
          /\ UNCHANGED <<answer, result, seqOf>>
      BY <1>2 DEF Withdraw, Write, netVars
    <2> QED BY <2>1 DEF Started, Served, Result
  <1>3. ASSUME NEW c \in Objs, Receive(c) \/ TimeOut(c) PROVE Goal
    <2>1. /\ pc' = [pc EXCEPT ![c] = "returned"] /\ pc[c] = "waiting"
          /\ UNCHANGED <<answer, seqOf>>
      BY <1>3 DEF Receive, TimeOut, netVars
    <2>2. UNCHANGED <<Started, Served>> BY <2>1 DEF Started, Served
    <2>3. PICK r \in Results \ {"none"} : result' = [result EXCEPT ![c] = r]
      BY <1>3 DEF Receive, TimeOut, Results
    <2>4. CASE c \in Calls
      <3>1. Result' = [Result EXCEPT ![c] = r] BY <2>3, <2>4 DEF Result
      <3>2. Result[c] = "none" /\ c \in Started
        BY <1>0, <2>1, <2>4 DEF Result, Started, Completed
      <3>3. result'[c] = r BY <2>3
      <3>4. r = "ok" => Served[c] = "ok"
        <4>1. r = "ok" => Receive(c) /\ c \in ready /\ c \notin failed
          BY <1>3, <3>3 DEF Receive, TimeOut
        <4> QED BY <1>0, <2>4, <4>1 DEF Completed, Served
      <3>5. r = "timeout" => c \in Deadlined
        <4>1. r = "timeout" => TimeOut(c)
          BY <1>3, <3>3 DEF Receive, TimeOut
        <4> QED BY <2>4, <4>1, CallAssumption DEF TimeOut
      <3>6. Abs!Return(c, r)
        BY <2>2, <3>1, <3>2, <3>4, <3>5 DEF Abs!Return, Abs!Results, Results
      <3> QED BY <2>4, <3>6 DEF Abs!Next, Abs!Results, Results
    <2>5. CASE c \notin Calls
      <3>1. Result' = Result BY <2>3, <2>5 DEF Result
      <3> QED BY <2>2, <3>1
    <2> QED BY <2>4, <2>5
  <1>4. ASSUME NEW m \in wire, Respond(m) PROVE Goal
    <2>1. UNCHANGED <<pc, seqOf, result>> BY <1>4 DEF Respond, callVars
    <2>2. UNCHANGED <<Started, Result>> BY <2>1 DEF Started, Result
    <2>3. m.seq \in Seqs /\ answer[m.seq] = "none"
      BY <1>0 DEF OneMessage, Requests
    <2>4. PICK a \in {"ok", "err"} : answer' = [answer EXCEPT ![m.seq] = a]
      BY <1>4 DEF Respond
    <2>5. CASE \E c \in Calls : seqOf[c] = m.seq
      <3>1. PICK c \in Calls : seqOf[c] = m.seq BY <2>5
      <3>2. \A d \in Calls : seqOf[d] = m.seq => d = c
        BY <1>0, <2>3, <3>1 DEF Numbered
      <3>3. Served' = [Served EXCEPT ![c] = a]
        <4>1. ASSUME NEW d \in Calls
              PROVE  (IF seqOf'[d] = 0 THEN "none" ELSE answer'[seqOf'[d]])
                     = IF d = c THEN a ELSE Served[d]
          BY <2>1, <2>3, <2>4, <3>1, <3>2 DEF Served
        <4>2. Served' = [d \in Calls |-> IF d = c THEN a ELSE Served[d]]
          BY <4>1 DEF Served
        <4>3. Served = [d \in Calls |-> Served[d]] BY DEF Served
        <4> HIDE DEF Served
        <4> QED BY <4>2, <4>3
      <3>4. Served[c] = "none" /\ c \in Started
        BY <1>0, <2>3, <3>1 DEF Served, Started, Numbered
      <3>5. Abs!Serve(c, a) BY <2>2, <3>3, <3>4 DEF Abs!Serve
      <3> QED BY <3>5 DEF Abs!Next
    <2>6. CASE ~ \E c \in Calls : seqOf[c] = m.seq
      <3>1. Served' = Served BY <2>1, <2>3, <2>4, <2>6 DEF Served
      <3> QED BY <2>2, <3>1
    <2> QED BY <2>5, <2>6
  <1>5. CASE UNCHANGED <<pc, seqOf, result, answer>>
    BY <1>5 DEF Started, Served, Result
  <1>6. \/ \E c \in Objs : CallStep(c)
        \/ \E m \in wire : Respond(m)
        \/ UNCHANGED <<pc, seqOf, result, answer>>
    <2>1. CASE ReadResponse \/ Lookup \/ HandleResponse \/ Close
      BY <2>1 DEF ReadResponse, Lookup, HandleResponse, Close, callVars, netVars
    <2>2. CASE UNCHANGED callVars /\ UNCHANGED answer BY <2>2 DEF callVars
    <2> QED BY ONLY <2>1, <2>2, CallSteps, MessageSteps, [Next]_vars, Zenon
  <1> QED BY <1>1, <1>2, <1>3, <1>4, <1>5, <1>6 DEF CallStep

\* The client implements what it promises its callers.
THEOREM Refinement == Spec => ImplementsRPCCall
  <1>1. Init => Abs!Init
    BY DEF Init, Abs!Init, Started, Served, Result, Objs
  <1>2. IInv /\ [Next]_vars => [Abs!Next]_(Abs!vars)
    BY AbstractStep DEF Abs!vars
  <1> QED BY <1>1, <1>2, Invariance, PTL DEF Spec, ImplementsRPCCall, Abs!Spec

\* What a step looks like from the other end of the connection.
LEMMA PeerStep ==
  ASSUME IInv, [Next]_vars
  PROVE  Peer!Next \/ UNCHANGED <<Asked, answer>>
  <1>0. TypeOK /\ Numbered /\ OneMessage /\ HeartbeatBits BY DEF IInv
  <1>a. /\ wire \subseteq Requests /\ answer \in [Seqs -> Answers]
        /\ seq \in 0..MaxSeq /\ seqOf \in [Objs -> 0..MaxSeq]
    BY <1>0 DEF TypeOK, NetTypes, ClientTypes, CallTypes
  <1>b. \A m \in wire : m.seq \in Seqs /\ m.seq <= seq /\ answer[m.seq] = "none"
    BY <1>0, <1>a DEF OneMessage, Requests
  <1>1. ASSUME NEW c \in Objs, Register(c) PROVE UNCHANGED <<Asked, answer>>
    <2>1. UNCHANGED <<wire, answer>> BY <1>1 DEF Register, netVars
    <2>2. \A d \in Objs : seqOf'[d] = seqOf[d] \/ (seqOf'[d] = seq + 1 /\ seqOf[d] = 0)
      BY <1>0, <1>1, <1>a DEF Register, Numbered
    <2>3. \A s \in Seqs : s = seq + 1 => answer[s] = "none" /\ \A m \in wire : m.seq # s
      BY <1>0, <1>a, <1>b DEF OneMessage, Seqs
    <2>4. ASSUME NEW s \in Seqs, s # seq + 1
          PROVE  (\E b \in Beats : seqOf'[b] = s) <=> (\E b \in Beats : seqOf[b] = s)
      BY <2>2, <2>4 DEF Objs, Seqs
    <2>5. Asked' = Asked BY <2>1, <2>3, <2>4 DEF Asked
    <2> QED BY <2>1, <2>5
  <1>2. ASSUME NEW c \in Objs, Write(c) PROVE Peer!Next \/ UNCHANGED <<Asked, answer>>
    <2> DEFINE n == seqOf[c]
               k == IF c \in Beats THEN "heartbeat" ELSE "call"
    <2>1. UNCHANGED <<seqOf, answer>> BY <1>2 DEF Write
    <2>2. CASE wire' = wire BY <2>1, <2>2 DEF Asked
    <2>3. CASE wire' = wire \cup {[conn |-> raw[c], seq |-> n, hb |-> c \in Beats]}
      <3>1. n \in Seqs /\ pc[c] = "sending"
        BY <1>0, <1>2, <1>a, BoundAssumption DEF Write, Numbered, Seqs
      <3>2. answer[n] = "none" /\ \A m \in wire : m.seq # n
        BY <1>0, <3>1 DEF OneMessage, Unsent
      <3>3. Asked[n] = "no" BY <3>1, <3>2 DEF Asked
      <3>4. (\E b \in Beats : seqOf[b] = n) <=> c \in Beats
        BY <1>0, <3>1, BoundAssumption DEF Numbered, Objs, Seqs
      <3>5. ASSUME NEW s \in Seqs
            PROVE  Asked'[s] = IF s = n THEN k ELSE Asked[s]
        <4>1. (\A m \in wire' : m.seq # s) <=> (s # n /\ \A m \in wire : m.seq # s)
          <5> DEFINE q == [conn |-> raw[c], seq |-> n, hb |-> c \in Beats]
          <5>1. q.seq = n BY Zenon
          <5> HIDE DEF q
          <5> QED BY <2>3, <5>1 DEF q
        <4> QED BY <2>1, <3>4, <4>1 DEF Asked
      <3>6. /\ Asked = [s \in Seqs |-> Asked[s]]
            /\ Asked' = [s \in Seqs |-> Asked'[s]]
        BY DEF Asked
      <3>7. Asked' = [Asked EXCEPT ![n] = k]
        <4> HIDE DEF Asked
        <4> QED BY <3>5, <3>6
      <3>8. Peer!Ask(n, k) BY <2>1, <3>3, <3>7 DEF Peer!Ask
      <3>9. k \in Peer!Kinds \ {"no"} BY DEF Peer!Kinds
      <3> QED BY <3>1, <3>8, <3>9 DEF Peer!Next
    <2> QED BY <1>2, <2>2, <2>3 DEF Write
  <1>3. ASSUME NEW m \in wire, Respond(m) PROVE Peer!Next
    <2>1. UNCHANGED seqOf BY <1>3 DEF Respond, callVars
    <2>2. PICK a \in {"ok", "err"} : /\ answer' = [answer EXCEPT ![m.seq] = a]
                                     /\ m.hb => a = "ok"
      BY <1>3 DEF Respond
    <2>3. m.seq \in Seqs /\ answer[m.seq] = "none" BY <1>b
    <2>4. \A o \in wire : o.seq = m.seq => o = m BY <1>0 DEF OneMessage
    <2>5. Asked[m.seq] # "no" BY <2>3 DEF Asked
    <2>6. Asked[m.seq] = "heartbeat" => a = "ok"
      <3>1. Asked[m.seq] = "heartbeat" => \E b \in Beats : seqOf[b] = m.seq
        BY <2>3 DEF Asked
      <3>2. (\E b \in Beats : seqOf[b] = m.seq) => m.hb
        BY <1>0 DEF HeartbeatBits, Objs
      <3> QED BY <2>2, <3>1, <3>2
    <2>7. Asked' = Asked
      <3>1. ASSUME NEW s \in Seqs
            PROVE  (answer'[s] = "none" /\ \A o \in wire' : o.seq # s)
                     <=> (answer[s] = "none" /\ \A o \in wire : o.seq # s)
        <4>1. wire' = wire \ {m} BY <1>3 DEF Respond
        <4>2. CASE s = m.seq BY <1>a, <2>2, <2>3, <4>2
        <4>3. CASE s # m.seq BY <1>a, <2>2, <4>1, <4>3
        <4> QED BY <4>2, <4>3
      <3> QED BY <2>1, <3>1 DEF Asked
    <2>8. Peer!Answer(m.seq, a) BY <2>2, <2>3, <2>5, <2>6, <2>7 DEF Peer!Answer
    <2> QED BY <2>3, <2>8 DEF Peer!Next, Peer!Answers
  <1>4. CASE UNCHANGED <<wire, seqOf, answer>> BY <1>4 DEF Asked
  <1>5. ASSUME NEW c \in Objs,
               (pc[c] = "sending" /\ Withdraw(c)) \/ Receive(c) \/ TimeOut(c)
        PROVE  UNCHANGED <<wire, seqOf, answer>>
    BY <1>5 DEF Withdraw, Receive, TimeOut, netVars
  <1>6. ASSUME ReadResponse \/ Lookup \/ HandleResponse
        PROVE  UNCHANGED <<wire, seqOf, answer>>
    BY <1>6 DEF ReadResponse, Lookup, HandleResponse, callVars, netVars
  <1> QED BY <1>1, <1>2, <1>3, <1>4, <1>5, <1>6, MessageSteps DEF CallStep

\* The client keeps to RPCPeer: it asks every request once.
THEOREM PeerRefinement == Spec => UsesRPCPeer
  <1>1. Init => Peer!Init BY DEF Init, Peer!Init, Asked
  <1>2. IInv /\ [Next]_vars => [Peer!Next]_(Peer!vars) BY PeerStep DEF Peer!vars
  <1> QED BY <1>1, <1>2, Invariance, PTL DEF Spec, UsesRPCPeer, Peer!Spec
=============================================================================
