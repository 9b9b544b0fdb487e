---------------------------- MODULE GatewayProofs ----------------------------
(* Proofs about Gateway: IInv is inductive, and what follows from it.      *)
EXTENDS Gateway, TLAPS

\* The numbers that are used as indices, and what a blank Message is.
LEMMA Basics ==
  /\ MaxClients \in Nat \ {0} /\ MaxMessages \in Nat /\ MaxSeq \in Nat /\ MaxBreaks \in Nat
  /\ Nobody \notin Callers /\ Handlers \subseteq Callers /\ Beats \subseteq Callers
  /\ Handlers \cap Beats = {}
  /\ Blank \in Contents
  BY GatewayAssumption DEF Callers, Contents, Blank

\* The initial states satisfy the strengthening.
LEMMA InitInv == ASSUME Init PROVE IInv
  <1>0. /\ 0 \in 0..MaxClients /\ 0 \in 0..MaxMessages /\ 0 \in 0..MaxSeq
        /\ 0 \in 0..MaxBreaks /\ 0 \in 0..0 /\ 0 \in Nat
    BY Basics
  <1>1. ListTypes BY <1>0 DEF Init, ListTypes
  <1>2. RpcTypes BY <1>0 DEF Init, RpcTypes, RpcClients
  <1>3. CallTypes
    <2>1. NoCall("idle") \in Calls BY <1>0 DEF Init, Calls, NoCall
    <2> QED BY <2>1 DEF Init, CallTypes
  <1>4. MessageTypes BY <1>0, Basics DEF Init, MessageTypes
  <1>5. Held BY DEF Init, Held, Prepared, NoCall
  <1>6. Connected BY DEF Init, Connected
  <1>7. Registered BY Basics DEF Init, Registered
  <1>8. Active = {} BY Basics DEF Init, Active, NoCall
  <1>9. Lone /\ Asked /\ Got /\ InHand
    BY <1>8 DEF Init, Lone, Asked, Got, InHand
  <1>10. Sending /\ Replied BY Basics DEF Init, Sending, Sends, Replied, NoCall
  <1>11. AloneRight BY DEF Init, AloneRight
  <1> QED BY <1>1, <1>2, <1>3, <1>4, <1>5, <1>6, <1>7, <1>9, <1>10, <1>11
    DEF IInv, TypeOK, Alone

\* Goroutines have RPCClients and Messages that exist.
LEMMA Equipped ==
  ASSUME IInv
  PROVE  /\ \A c \in Callers :
              /\ call[c].pc \in {"send", "setSeq", "write"} => call[c].rpc \in Clients
              /\ call[c].pc \in {"getClient", "makeClient", "select", "dial", "send", "setSeq",
                                "write"} => call[c].req \in Messages
              /\ (call[c].ready \/ call[c].pc = "reply") /\ ~call[c].failed
                   => call[c].reply \in Messages
         /\ \A k \in Clients :
              rpc[k].input \in {"read", "got", "handle"} => rpc[k].target \in Messages
  <1>1. /\ dialled \in 0..MaxClients /\ used \in 0..MaxMessages
        /\ \A c \in Callers : call[c] \in Calls
        /\ \A k \in Clients : rpc[k] \in RpcClients
    BY DEF IInv, TypeOK, ListTypes, MessageTypes, CallTypes, RpcTypes
  <1>2. /\ \A n \in 0..dialled : n # 0 => n \in Clients
        /\ \A n \in 0..used : n # 0 => n \in Messages
    BY <1>1, Basics DEF Clients, Messages
  <1>3. /\ \A c \in Callers : /\ call[c].rpc \in 0..dialled /\ call[c].req \in 0..used
                              /\ call[c].reply \in 0..used
        /\ \A k \in Clients : rpc[k].target \in 0..used
    BY <1>1 DEF Calls, RpcClients
  <1> QED BY <1>2, <1>3 DEF IInv, Held, Prepared

\* What is counted only grows, so that what is typed remains typed.
LEMMA Growth ==
  ASSUME IInv, [Next]_vars
  PROVE  /\ made \in Nat /\ dialled \in Nat /\ used \in Nat
         /\ made' \in Nat /\ dialled' \in Nat /\ used' \in Nat
         /\ made <= made' /\ dialled <= dialled' /\ used <= used'
  <1> USE Basics DEF IInv, TypeOK, ListTypes, MessageTypes
  <1>1. CASE UNCHANGED <<made, dialled, used>> BY <1>1
  <1>2. ASSUME NEW m \in Messages, GetPooledMsg(m), UNCHANGED <<made, dialled>>
        PROVE  used' \in Nat /\ used <= used'
    BY <1>2 DEF GetPooledMsg
  <1>3. ASSUME NEW h \in Handlers, Begin(h) \/ MakeClient(h) \/ Dial(h)
        PROVE  made' \in Nat /\ dialled' \in Nat /\ used' \in Nat
               /\ made <= made' /\ dialled <= dialled' /\ used <= used'
    BY <1>2, <1>3 DEF Begin, MakeClient, Dial, listVars, poolVars
  <1>4. ASSUME NEW b \in Beats, NEW k \in Clients, Beat(b, k)
        PROVE  made' \in Nat /\ dialled' \in Nat /\ used' \in Nat
               /\ made <= made' /\ dialled <= dialled' /\ used <= used'
    BY <1>2, <1>4 DEF Beat, listVars, poolVars
  <1>5. CASE (\E h \in Handlers : GetClient(h)) \/
            (\E h \in Handlers : HandlerFails(h)) \/
            (\E h \in Handlers : Finish(h)) \/ (\E h \in Handlers : Select(h))
            \/ (\E c \in Callers : Register(c)) \/
            (\E c \in Callers : SetSeq(c)) \/ (\E c \in Callers : Write(c)) \/
            (\E c \in Callers : WriteFails(c)) \/
            (\E c \in Callers : Receive(c)) \/ (\E c \in Callers : TimeOut(c))
            \/ (\E k \in Clients : Read(k)) \/ (\E k \in Clients : Lookup(k))
            \/ (\E k \in Clients : Handle(k)) \/
            (\E k \in Clients : ReadError(k)) \/
            (\E k \in Clients : Reconnect(k)) \/
            (\E k \in Clients : GiveUp(k)) \/ (\E k \in Clients : Close(k)) \/
            (\E k \in Clients : Break(k)) \/ UNCHANGED vars
    BY <1>1, <1>5 DEF GetClient, HandlerFails, Fail, Finish, Select, Register, SetSeq,
       Write, WriteFails, Receive, TimeOut, Read, Lookup, Handle, ReadError, Reconnect,
       GiveUp, Close, Break, listVars, poolVars, vars
  <1> QED BY <1>1, <1>3, <1>4, <1>5 DEF Next, HandlerStep, Call, Input

\* A call that is given a typed record stays typed.
LEMMA CallSet ==
  ASSUME IInv, [Next]_vars,
         NEW c \in Callers, NEW r \in Calls', call' = [call EXCEPT ![c] = r]
  PROVE  CallTypes'
  <1>1. 0..used \subseteq 0..used' /\ 0..made \subseteq 0..made'
        /\ 0..dialled \subseteq 0..dialled'
    BY Growth
  <1>2. Calls \subseteq Calls' BY <1>1 DEF Calls
  <1> QED BY <1>2 DEF CallTypes, IInv, TypeOK

\* Steps keep the types of the Clients and the number of RPCClients, ...
LEMMA ListTypesStep ==
  ASSUME IInv, [Next]_vars PROVE ListTypes'
  <1> USE Basics DEF ListTypes
  <1>0. ListTypes BY DEF IInv, TypeOK
  <1>1. CASE UNCHANGED <<listVars, dialled>> BY <1>0, <1>1 DEF listVars
  <1>2. ASSUME NEW h \in Handlers, MakeClient(h) PROVE ListTypes'
    BY <1>0, <1>2, Growth DEF MakeClient
  <1>3. ASSUME NEW h \in Handlers, Dial(h) PROVE ListTypes'
    <2>1. /\ dialled' = dialled + 1 /\ dialled' \in 0..MaxClients
          /\ cached' = [cached EXCEPT ![call[h].client] = dialled + 1]
          /\ UNCHANGED <<clientMap, made>>
      BY <1>0, <1>3 DEF Dial
    <2>2. dialled + 1 \in 0..dialled' /\ 0..dialled \subseteq 0..dialled' BY <1>0, <2>1
    <2> QED BY <1>0, <2>1, <2>2
  <1>4. CASE (\E h \in Handlers : Begin(h)) \/
            (\E h \in Handlers : GetClient(h)) \/
            (\E h \in Handlers : HandlerFails(h)) \/
            (\E h \in Handlers : Finish(h)) \/ (\E h \in Handlers : Select(h))
            \/ (\E b \in Beats, k \in Clients : Beat(b, k)) \/
            (\E c \in Callers : Register(c)) \/ (\E c \in Callers : SetSeq(c))
            \/ (\E c \in Callers : Write(c)) \/
            (\E c \in Callers : WriteFails(c)) \/
            (\E c \in Callers : Receive(c)) \/ (\E c \in Callers : TimeOut(c))
            \/ (\E k \in Clients : Read(k)) \/ (\E k \in Clients : Lookup(k))
            \/ (\E k \in Clients : Handle(k)) \/
            (\E k \in Clients : ReadError(k)) \/
            (\E k \in Clients : Reconnect(k)) \/
            (\E k \in Clients : GiveUp(k)) \/ (\E k \in Clients : Close(k)) \/
            (\E k \in Clients : Break(k)) \/ UNCHANGED vars
    BY <1>1, <1>4 DEF Begin, GetClient, HandlerFails, Fail, Finish, Select, Beat, Register,
       SetSeq, Write, WriteFails, Receive, TimeOut, Read, Lookup, Handle, ReadError,
       Reconnect, GiveUp, Close, Break, vars
  <1> QED BY <1>1, <1>2, <1>3, <1>4 DEF Next, HandlerStep, Call, Input
\* An RPCClient that is given a typed record stays typed.
LEMMA RpcSet ==
  ASSUME IInv, [Next]_vars,
         NEW k, NEW r \in RpcClients', rpc' = [rpc EXCEPT ![k] = r]
  PROVE  RpcTypes'
  <1>1. 0..used \subseteq 0..used' BY Growth
  <1>2. RpcClients \subseteq RpcClients' BY <1>1 DEF RpcClients
  <1> QED BY <1>2 DEF RpcTypes, IInv, TypeOK

\* ... of the RPCClients, ...
LEMMA RpcTypesStep ==
  ASSUME IInv, [Next]_vars PROVE RpcTypes'
  <1>0. /\ \A k \in Clients : rpc[k] \in RpcClients'
        /\ rpc \in [Clients -> RpcClients] /\ 0 \in 0..used'
    <2>1. 0..used \subseteq 0..used' BY Growth
    <2>2. RpcClients \subseteq RpcClients' BY <2>1 DEF RpcClients
    <2> QED BY <2>2, Growth, Basics DEF RpcTypes, IInv, TypeOK
  <1>1. ASSUME NEW h \in Handlers, Dial(h) PROVE RpcTypes'
    <2> DEFINE r == NewRPCClient(rpc[dialled + 1], used + 1)
    <2>1. rpc' = [rpc EXCEPT ![dialled + 1] = r] BY <1>1 DEF Dial, NewRPCClient
    <2>2. used + 1 \in 0..used' /\ dialled + 1 \in Clients
      BY <1>1, Growth, Basics DEF Dial, Clients
    <2>3. r \in RpcClients' BY <1>0, <2>2 DEF RpcClients, NewRPCClient
    <2> QED BY <2>1, <2>3, RpcSet
  <1>2. ASSUME NEW c \in Callers, Register(c) PROVE RpcTypes'
    <2> DEFINE k == call[c].rpc
    <2>1. CASE UNCHANGED rpc BY <1>0, <2>1 DEF RpcTypes
    <2>2. CASE /\ rpc[k].seq + 1 <= MaxSeq
               /\ rpc' = [rpc EXCEPT ![k] = [rpc[k] EXCEPT !.seq = rpc[k].seq + 1,
                                               !.pending[rpc[k].seq + 1] = c]]
      <3>1. k \in Clients BY <1>2, Equipped DEF Register, At
      <3>2. rpc[k].seq \in Nat BY <3>1, Basics DEF IInv, TypeOK, RpcTypes, RpcClients
      <3>3. rpc[k].seq + 1 \in 0..MaxSeq BY <2>2, <3>2, Basics
      <3>4. [rpc[k] EXCEPT !.seq = rpc[k].seq + 1, !.pending[rpc[k].seq + 1] = c]
              \in RpcClients'
        BY ZenonT(100), <1>0, <3>1, <3>3 DEF RpcClients
      <3> QED BY <2>2, <3>4, RpcSet
    <2> QED BY <1>2, <2>1, <2>2 DEF Register
  <1>3. ASSUME NEW c \in Callers, WriteFails(c) PROVE RpcTypes'
    <2>1. CASE call[c].rpc \in Clients
      <3>1. [rpc[call[c].rpc] EXCEPT !.pending[call[c].seq] = Nobody] \in RpcClients'
        BY <1>0, <2>1 DEF RpcClients
      <3> QED BY <1>3, <3>1, RpcSet DEF WriteFails
    <2>2. CASE call[c].rpc \notin Clients
      <3>1. rpc' = rpc BY <1>0, <1>3, <2>2 DEF WriteFails
      <3> QED BY <1>0, <3>1 DEF RpcTypes
    <2> QED BY <2>1, <2>2
  <1>4. ASSUME NEW k \in Clients, Lookup(k) PROVE RpcTypes'
    <2> DEFINE s == content[rpc[k].target].seq
    <2>1. [rpc[k] EXCEPT !.input = "handle"] \in RpcClients' BY <1>0 DEF RpcClients
    <2>2. CASE s # 0 /\ s \in Seqs
      <3>1. rpc[k].pending[s] \in Callers \cup {Nobody} BY <1>0, <2>2 DEF RpcClients
      <3>2. [rpc[k] EXCEPT !.input = "handle", !.inCall = rpc[k].pending[s],
                           !.pending[s] = Nobody] \in RpcClients'
        BY ZenonT(100), <1>0, <3>1 DEF RpcClients
      <3>3. rpc' = [rpc EXCEPT ![k] = [rpc[k] EXCEPT !.input = "handle",
                              !.inCall = rpc[k].pending[s], !.pending[s] = Nobody]]
        BY <1>4, <2>2 DEF Lookup
      <3> QED BY <3>2, <3>3, RpcSet
    <2>3. s = 0 \/ s \in Seqs
      <3>1. rpc[k].target \in Messages BY <1>4, Equipped DEF Lookup, InputAt
      <3> QED BY <3>1, Basics DEF IInv, TypeOK, MessageTypes, Contents, Seqs
    <2> QED BY <1>4, <2>1, <2>2, <2>3, RpcSet DEF Lookup
  <1>5. ASSUME NEW k \in Clients,
               Read(k) \/ Handle(k) \/ ReadError(k) \/ Reconnect(k) \/ GiveUp(k) \/ Close(k)
               \/ Break(k)
        PROVE  RpcTypes'
    <2>1. /\ [rpc[k] EXCEPT !.input = "got"] \in RpcClients'
          /\ [rpc[k] EXCEPT !.input = "read", !.inCall = Nobody] \in RpcClients'
          /\ [rpc[k] EXCEPT !.input = "dial", !.status = "Reconnect"] \in RpcClients'
          /\ [rpc[k] EXCEPT !.input = "close", !.status = "ReconnectFail"] \in RpcClients'
          /\ [rpc[k] EXCEPT !.input = "ended", !.status = "Close"] \in RpcClients'
          /\ [rpc[k] EXCEPT !.up = FALSE] \in RpcClients'
      BY <1>0 DEF RpcClients
    <2>2. rpc[k].conn + 1 \in Nat BY <1>0 DEF RpcClients
    <2>3. [rpc[k] EXCEPT !.input = "read", !.status = "Available", !.up = TRUE,
                         !.conn = rpc[k].conn + 1] \in RpcClients'
      BY <1>0, <2>2 DEF RpcClients
    <2>4. CASE Read(k) BY <2>4, <2>1, RpcSet DEF Read
    <2>5. CASE Handle(k)
      <3>1. rpc' = [rpc EXCEPT ![k] = [rpc[k] EXCEPT !.input = "read", !.inCall = Nobody]]
        BY <2>5 DEF Handle
      <3> QED BY <2>1, <3>1, RpcSet
    <2>6. CASE ReadError(k)
      <3>1. rpc' = [rpc EXCEPT ![k] = [rpc[k] EXCEPT !.input = "dial", !.status = "Reconnect"]]
        BY <2>6 DEF ReadError
      <3> QED BY <2>1, <3>1, RpcSet
    <2>7. CASE Reconnect(k)
      <3>1. rpc' = [rpc EXCEPT ![k] = [rpc[k] EXCEPT !.input = "read", !.status = "Available",
                                              !.up = TRUE, !.conn = rpc[k].conn + 1]]
        BY <2>7 DEF Reconnect
      <3> QED BY <2>3, <3>1, RpcSet
    <2>8. CASE GiveUp(k)
      <3>1. rpc' = [rpc EXCEPT ![k] = [rpc[k] EXCEPT !.input = "close", !.status = "ReconnectFail"]]
        BY <2>8 DEF GiveUp
      <3> QED BY <2>1, <3>1, RpcSet
    <2>9. CASE Close(k)
      <3>1. rpc' = [rpc EXCEPT ![k] = [rpc[k] EXCEPT !.input = "ended", !.status = "Close"]]
        BY <2>9 DEF Close
      <3> QED BY <2>1, <3>1, RpcSet
    <2>10. CASE Break(k) BY <2>10, <2>1, RpcSet DEF Break
    <2> QED BY <1>5, <2>4, <2>5, <2>6, <2>7, <2>8, <2>9, <2>10
  <1>6. CASE (\E h \in Handlers : Begin(h)) \/
            (\E h \in Handlers : GetClient(h)) \/
            (\E h \in Handlers : MakeClient(h)) \/
            (\E h \in Handlers : HandlerFails(h)) \/
            (\E h \in Handlers : Finish(h)) \/ (\E h \in Handlers : Select(h))
            \/ (\E b \in Beats, k \in Clients : Beat(b, k)) \/
            (\E c \in Callers : SetSeq(c)) \/ (\E c \in Callers : Write(c)) \/
            (\E c \in Callers : Receive(c)) \/ (\E c \in Callers : TimeOut(c))
            \/ UNCHANGED vars
    <2>1. UNCHANGED rpc
      BY <1>6 DEF Begin, GetClient, MakeClient, HandlerFails, Fail, Finish, Select, Beat,
         SetSeq, Write, Receive, TimeOut, vars
    <2> QED BY <1>0, <2>1 DEF RpcTypes
  <1> QED BY <1>1, <1>2, <1>3, <1>4, <1>5, <1>6 DEF Next, HandlerStep, Call, Input
\* ... of the calls, ...
LEMMA CallTypesStep ==
  ASSUME IInv, [Next]_vars PROVE CallTypes'
  <1>0. /\ \A c \in Callers : call[c] \in Calls'
        /\ call \in [Callers -> Calls] /\ Handlers \subseteq Callers /\ Beats \subseteq Callers
        /\ 0 \in 0..used' /\ 0 \in 0..made' /\ 0 \in 0..dialled' /\ 0 \in 0..MaxSeq /\ 0 \in Nat
    <2>1. 0..used \subseteq 0..used' /\ 0..made \subseteq 0..made'
          /\ 0..dialled \subseteq 0..dialled'
      BY Growth
    <2>2. Calls \subseteq Calls' BY <2>1 DEF Calls
    <2> QED BY <2>2, Growth, Basics DEF CallTypes, IInv, TypeOK
  <1>1. ASSUME NEW h \in Handlers, Begin(h) PROVE CallTypes'
    <2>1. PICK m \in Messages :
            /\ GetPooledMsg(m)
            /\ call' = [call EXCEPT ![h] = [call[h] EXCEPT !.pc = "getClient", !.req = m]]
      BY <1>1 DEF Begin
    <2>2. m \in 0..used'
      BY <2>1, Growth, Basics DEF GetPooledMsg, Messages, Held, IInv
    <2>3. [call[h] EXCEPT !.pc = "getClient", !.req = m] \in Calls'
      BY ZenonT(100), <1>0, <2>2 DEF Calls
    <2> QED BY <2>1, <2>3, CallSet, Basics
  <1>2. ASSUME NEW h \in Handlers, GetClient(h) PROVE CallTypes'
    <2>1. \/ call' = [call EXCEPT ![h] = [call[h] EXCEPT !.pc = "makeClient"]]
          \/ call' = [call EXCEPT ![h] = [call[h] EXCEPT !.pc = "select", !.client = clientMap]]
      BY <1>2 DEF GetClient, At
    <2>2. clientMap \in 0..made'
      BY <1>2, Growth, Basics DEF GetClient, listVars, IInv, TypeOK, ListTypes
    <2>3. /\ [call[h] EXCEPT !.pc = "makeClient"] \in Calls'
          /\ [call[h] EXCEPT !.pc = "select", !.client = clientMap] \in Calls'
      BY ZenonT(100), <1>0, <2>2 DEF Calls
    <2> QED BY <2>1, <2>3, CallSet, Basics
  <1>3. ASSUME NEW h \in Handlers, MakeClient(h) PROVE CallTypes'
    <2>1. call' = [call EXCEPT ![h] = [call[h] EXCEPT !.pc = "select", !.client = made']]
      BY <1>3 DEF MakeClient, At
    <2>2. made' \in 0..made'
      BY <1>3, Growth, Basics DEF MakeClient
    <2>3. [call[h] EXCEPT !.pc = "select", !.client = made'] \in Calls'
      BY ZenonT(100), <1>0, <2>2 DEF Calls
    <2> QED BY <2>1, <2>3, CallSet, Basics
  <1>4. ASSUME NEW h \in Handlers, HandlerFails(h) PROVE CallTypes'
    <2>1. call' = [call EXCEPT ![h] = NoCall("done")]
      BY <1>4 DEF HandlerFails, Fail, FreeMsgs, At, NoCall
    <2>2. NoCall("done") \in Calls'
      BY <1>0 DEF Calls, NoCall
    <2> QED BY <2>1, <2>2, CallSet, Basics
  <1>5. ASSUME NEW h \in Handlers, Finish(h) PROVE CallTypes'
    <2>1. call' = [call EXCEPT ![h] = NoCall("done")]
      BY <1>5 DEF Finish, FreeMsgs, At, NoCall
    <2>2. NoCall("done") \in Calls'
      BY <1>0 DEF Calls, NoCall
    <2> QED BY <2>1, <2>2, CallSet, Basics
  <1>6. ASSUME NEW h \in Handlers, Select(h) PROVE CallTypes'
    <2>1. CASE call' = [call EXCEPT ![h] = [call[h] EXCEPT !.pc = "dial"]]
      <3>1. [call[h] EXCEPT !.pc = "dial"] \in Calls' BY <1>0 DEF Calls
      <3> QED BY <2>1, <3>1, CallSet, Basics
    <2>2. CASE call' = [call EXCEPT ![h] = [call[h] EXCEPT !.pc = "send",
                                                           !.rpc = cached[call[h].client]]]
      <3>1. call[h].client \in Clients
        BY <1>6, <1>0, Growth, Basics
        DEF Select, At, IInv, TypeOK, ListTypes, Held, Prepared, Calls, Clients
      <3>2. cached[call[h].client] \in 0..dialled'
        BY <1>6, <3>1, Growth DEF Select, listVars, IInv, TypeOK, ListTypes
      <3>3. [call[h] EXCEPT !.pc = "send", !.rpc = cached[call[h].client]] \in Calls'
        BY ZenonT(100), <1>0, <3>2 DEF Calls
      <3> QED BY <2>2, <3>3, CallSet, Basics
    <2> QED BY <1>6, <2>1, <2>2 DEF Select
  <1>7. ASSUME NEW h \in Handlers, Dial(h) PROVE CallTypes'
    <2>1. call' = [call EXCEPT ![h] = [call[h] EXCEPT !.pc = "send", !.rpc = (dialled + 1)]]
      BY <1>7 DEF Dial, NewRPCClient, At
    <2>2. dialled + 1 \in 0..dialled'
      BY <1>7, Growth, Basics DEF Dial
    <2>3. [call[h] EXCEPT !.pc = "send", !.rpc = (dialled + 1)] \in Calls'
      BY ZenonT(100), <1>0, <2>2 DEF Calls
    <2> QED BY <2>1, <2>3, CallSet, Basics
  <1>8. ASSUME NEW b \in Beats, NEW k \in Clients, Beat(b, k) PROVE CallTypes'
    <2>1. PICK m \in Messages :
            /\ GetPooledMsg(m)
            /\ call' = [call EXCEPT ![b] = [call[b] EXCEPT !.pc = "send", !.req = m, !.rpc = k]]
      BY <1>8 DEF Beat
    <2>2. m \in 0..used'
      BY <2>1, Growth, Basics DEF GetPooledMsg, Messages, Held, IInv
    <2>4. k \in 0..dialled'
      BY <1>8, Growth, Basics DEF Beat, Connected, Clients, IInv, TypeOK, ListTypes
    <2>3. [call[b] EXCEPT !.pc = "send", !.req = m, !.rpc = k] \in Calls'
      BY ZenonT(100), <1>0, <2>2, <2>4 DEF Calls
    <2> QED BY <2>1, <2>3, CallSet, Basics
  <1>9. ASSUME NEW c \in Callers, Register(c) PROVE CallTypes'
    <2> DEFINE k == call[c].rpc
    <2>1. CASE call' = [call EXCEPT ![c] = [call[c] EXCEPT !.pc = "wait", !.failed = TRUE,
                                                           !.ready = TRUE]]
      <3>1. [call[c] EXCEPT !.pc = "wait", !.failed = TRUE, !.ready = TRUE] \in Calls'
        BY <1>0 DEF Calls
      <3> QED BY <2>1, <3>1, CallSet
    <2>2. CASE /\ rpc[k].seq + 1 <= MaxSeq
               /\ call' = [call EXCEPT ![c] = [call[c] EXCEPT !.pc = "setSeq",
                                        !.seq = rpc[k].seq + 1, !.conn = rpc[k].conn]]
      <3>1. k \in Clients
        BY SMTT(40), <1>9, <1>0, Growth, Basics
        DEF Register, At, IInv, TypeOK, ListTypes, Held, Prepared, Calls, Clients
      <3>2. rpc[k].seq \in Nat /\ rpc[k].conn \in Nat
        BY <3>1, Basics DEF IInv, TypeOK, RpcTypes, RpcClients
      <3>3. rpc[k].seq + 1 \in 0..MaxSeq BY <2>2, <3>2, Basics
      <3>4. [call[c] EXCEPT !.pc = "setSeq", !.seq = rpc[k].seq + 1, !.conn = rpc[k].conn]
              \in Calls'
        BY ZenonT(100), <1>0, <3>2, <3>3 DEF Calls
      <3> QED BY <2>2, <3>4, CallSet
    <2> QED BY <1>9, <2>1, <2>2 DEF Register
  <1>10. ASSUME NEW c \in Callers, SetSeq(c) PROVE CallTypes'
    <2>1. call' = [call EXCEPT ![c] = [call[c] EXCEPT !.pc = "write"]]
      BY <1>10 DEF SetSeq, At
    <2>2. [call[c] EXCEPT !.pc = "write"] \in Calls'
      BY <1>0 DEF Calls
    <2> QED BY <2>1, <2>2, CallSet, Basics
  <1>11. ASSUME NEW c \in Callers, Write(c) PROVE CallTypes'
    <2>1. call' = [call EXCEPT ![c] = [call[c] EXCEPT !.pc = "wait"]]
      BY <1>11 DEF Write, At
    <2>2. [call[c] EXCEPT !.pc = "wait"] \in Calls'
      BY <1>0 DEF Calls
    <2> QED BY <2>1, <2>2, CallSet, Basics
  <1>12. ASSUME NEW c \in Callers, WriteFails(c) PROVE CallTypes'
    <2>1. PICK r \in {call[c], Ends(c, 0, TRUE)} :
            call' = [call EXCEPT ![c] = [r EXCEPT !.pc = "wait"]]
      BY <1>12 DEF WriteFails
    <2>2. r \in Calls' BY ZenonT(100), <1>0, <2>1 DEF Calls, Ends
    <2>3. [r EXCEPT !.pc = "wait"] \in Calls' BY <2>2 DEF Calls
    <2> QED BY <2>1, <2>3, CallSet
  <1>13. ASSUME NEW c \in Callers, Receive(c) PROVE CallTypes'
    <2>1. \/ call' = [call EXCEPT ![c] = NoCall("done")]
          \/ call' = [call EXCEPT ![c] = [call[c] EXCEPT !.pc = "reply", !.ready = FALSE]]
      BY <1>13 DEF Receive, At, NoCall
    <2>2. /\ NoCall("done") \in Calls'
          /\ [call[c] EXCEPT !.pc = "reply", !.ready = FALSE] \in Calls'
      BY <1>0 DEF Calls, NoCall
    <2> QED BY <2>1, <2>2, CallSet, Basics
  <1>14. ASSUME NEW c \in Callers, TimeOut(c) PROVE CallTypes'
    <2>1. call' = [call EXCEPT ![c] = NoCall("done")]
      BY <1>14 DEF TimeOut, At, NoCall
    <2>2. NoCall("done") \in Calls'
      BY <1>0 DEF Calls, NoCall
    <2> QED BY <2>1, <2>2, CallSet, Basics
  <1>15. ASSUME NEW k \in Clients, Handle(k) PROVE CallTypes'
    <2>1. CASE UNCHANGED call BY <1>0, <2>1 DEF CallTypes
    <2>2. ASSUME NEW c \in Callers, NEW e \in BOOLEAN,
                 call' = [call EXCEPT ![c] = Ends(c, rpc[k].target, e)]
          PROVE  CallTypes'
      <3>1. rpc[k].target \in 0..used'
        BY Growth, Basics DEF IInv, TypeOK, RpcTypes, RpcClients
      <3>2. Ends(c, rpc[k].target, e) \in Calls' BY ZenonT(100), <1>0, <3>1 DEF Calls, Ends
      <3> QED BY <2>2, <3>2, CallSet
    <2>3. rpc[k].inCall \in Callers \cup {Nobody} BY DEF IInv, TypeOK, RpcTypes, RpcClients
    <2>4. \A e : (e /\ TRUE) \in BOOLEAN OBVIOUS
    <2> QED BY <1>15, <2>1, <2>2, <2>3 DEF Handle, CheckReplyError
  <1>16. ASSUME NEW k \in Clients, Close(k) PROVE CallTypes'
    <2>1. \A c \in Callers : Ends(c, 0, TRUE) \in Calls' BY ZenonT(100), <1>0 DEF Ends, Calls
    <2> QED BY <1>0, <1>16, <2>1 DEF Close, CallTypes
  <1>17. CASE (\E k \in Clients : Read(k)) \/ (\E k \in Clients : Lookup(k))
            \/ (\E k \in Clients : ReadError(k)) \/
            (\E k \in Clients : Reconnect(k)) \/
            (\E k \in Clients : GiveUp(k)) \/ (\E k \in Clients : Break(k)) \/
            UNCHANGED vars
    <2>1. UNCHANGED call
      BY <1>17 DEF Read, Lookup, ReadError, Reconnect, GiveUp, Break, vars
    <2> QED BY <1>0, <2>1 DEF CallTypes
  <1> QED BY <1>1, <1>2, <1>3, <1>4, <1>5, <1>6, <1>7, <1>8, <1>9, <1>10, <1>11, <1>12,
     <1>13, <1>14, <1>15, <1>16, <1>17 DEF Next, HandlerStep, Call, Input

\* Freed Messages are typed.
LEMMA Freeing ==
  ASSUME MessageTypes, NEW S, NEW b \in BOOLEAN, FreeMsgs(S, b)
  PROVE  /\ free' \in [Messages -> Nat] /\ content' \in [Messages -> Contents]
         /\ \A m \in Messages : free'[m] > 0 => free[m] > 0 \/ m \in S
  BY Basics DEF FreeMsgs, MessageTypes

\* A Message from the pool is one that has been made.
LEMMA Pooled ==
  ASSUME MessageTypes, NEW m \in Messages, GetPooledMsg(m)
  PROVE  /\ free' \in [Messages -> Nat] /\ used' \in 0..MaxMessages
         /\ \A n \in Messages : free'[n] > 0 => free[n] > 0
  <1>1. CASE free[m] > 0 /\ free' = [free EXCEPT ![m] = @ - 1] /\ UNCHANGED used
    <2>1. free[m] - 1 \in Nat BY <1>1 DEF MessageTypes
    <2> QED BY <1>1, <2>1 DEF MessageTypes
  <1>2. CASE m = used + 1 /\ used' = m /\ UNCHANGED free
    BY <1>2, Basics DEF MessageTypes, Messages
  <1> QED BY <1>1, <1>2 DEF GetPooledMsg

\* ... and of the Messages.
LEMMA MessageTypesStep ==
  ASSUME IInv, [Next]_vars PROVE MessageTypes'
  <1>0. MessageTypes BY DEF IInv, TypeOK
  <1>1. ASSUME NEW c \in Callers, NEW hb \in BOOLEAN, NEW m \in Messages, GetPooledMsg(m),
               content' = [content EXCEPT ![m] = [Blank EXCEPT !.of = c, !.hb = hb]],
               overlap' \in BOOLEAN, UNCHANGED <<netVars, panicked, response>>
        PROVE  MessageTypes'
    <2>1. [Blank EXCEPT !.of = c, !.hb = hb] \in Contents BY <1>1, Basics DEF Contents
    <2> QED BY <1>0, <1>1, <2>1, Pooled DEF MessageTypes, netVars
  <1>2. ASSUME NEW h \in Handlers, Begin(h) PROVE MessageTypes'
    <2>1. PICK m \in Messages :
            GetPooledMsg(m) /\ content' = [content EXCEPT ![m] = [Blank EXCEPT !.of = h]]
      BY <1>2 DEF Begin
    <2>2. [Blank EXCEPT !.of = h] \in Contents BY <1>2, Basics DEF Contents
    <2> QED BY <1>0, <1>2, <2>1, <2>2, Pooled DEF Begin, MessageTypes, netVars
  <1>3. ASSUME NEW b \in Beats, NEW k \in Clients, Beat(b, k) PROVE MessageTypes'
    <2>1. overlap' \in BOOLEAN BY <1>0, <1>3 DEF Beat, MessageTypes
    <2> QED BY <1>1, <1>3, <2>1, Basics DEF Beat
  <1>4. ASSUME NEW h \in Handlers, HandlerFails(h) PROVE MessageTypes'
    BY <1>0, <1>4, Freeing DEF HandlerFails, Fail, netVars, MessageTypes
  <1>5. ASSUME NEW h \in Handlers, Finish(h) PROVE MessageTypes'
    <2>1. call[h].reply \in Messages
      BY <1>5, Equipped, Basics DEF Finish, At
    <2>2. content[call[h].reply] \in Contents BY <1>0, <2>1 DEF MessageTypes
    <2> QED BY <1>0, <1>5, <2>2, Freeing DEF Finish, netVars, MessageTypes
  <1>6. ASSUME NEW h \in Handlers, Dial(h) PROVE MessageTypes'
    BY <1>0, <1>6, Basics DEF Dial, netVars, MessageTypes
  <1>7. ASSUME NEW c \in Callers, SetSeq(c) PROVE MessageTypes'
    <2>1. call[c].req \in Messages /\ call[c].seq \in 0..MaxSeq
      BY <1>7, Equipped DEF SetSeq, At, IInv, TypeOK, CallTypes, Calls
    <2>2. [content[call[c].req] EXCEPT !.seq = call[c].seq] \in Contents
      BY <1>0, <2>1 DEF MessageTypes, Contents
    <2>3. content' = [content EXCEPT ![call[c].req] =
                        [content[call[c].req] EXCEPT !.seq = call[c].seq]]
      BY <1>7 DEF SetSeq
    <2> QED BY <1>0, <1>7, <2>2, <2>3 DEF SetSeq, poolVars, netVars, MessageTypes
  <1>8. ASSUME NEW c \in Callers, Write(c) PROVE MessageTypes'
    <2>1. call[c].req \in Messages /\ call[c].rpc \in Clients
      BY <1>8, Equipped DEF Write, At
    <2>2. [rpc |-> call[c].rpc, msg |-> content[call[c].req], from |-> c]
            \in [rpc : Clients, msg : Contents, from : Callers]
      BY <1>0, <2>1 DEF MessageTypes
    <2> QED BY <1>0, <1>8, <2>2 DEF Write, poolVars, MessageTypes
  <1>9. ASSUME NEW k \in Clients, Read(k) PROVE MessageTypes'
    <2>1. PICK w \in wire, e \in BOOLEAN :
            /\ wire' = wire \ {w}
            /\ content' = [content EXCEPT ![rpc[k].target] =
                             [w.msg EXCEPT !.kind = "res", !.err = e]]
      BY <1>9 DEF Read
    <2>2. [w.msg EXCEPT !.kind = "res", !.err = e] \in Contents
      BY <1>0, <2>1 DEF MessageTypes, Contents
    <2> QED BY <1>0, <1>9, <2>1, <2>2 DEF Read, poolVars, MessageTypes
  <1>10. ASSUME NEW k \in Clients, Break(k) PROVE MessageTypes'
    <2>1. breaks' \in 0..MaxBreaks BY <1>0, <1>10, Basics DEF Break, MessageTypes
    <2> QED BY <1>0, <1>10, <2>1 DEF Break, poolVars, MessageTypes
  <1>11. ASSUME UNCHANGED <<poolVars, content, netVars, response, overlap>>,
                panicked' \in BOOLEAN
         PROVE  MessageTypes'
    BY <1>0, <1>11 DEF poolVars, netVars, MessageTypes
  <1>12. panicked \in BOOLEAN BY <1>0 DEF MessageTypes
  <1>13. CASE (\E h \in Handlers : GetClient(h)) \/
            (\E h \in Handlers : MakeClient(h)) \/
            (\E h \in Handlers : Select(h)) \/
            (\E c \in Callers : Register(c)) \/
            (\E c \in Callers : WriteFails(c)) \/
            (\E c \in Callers : Receive(c)) \/ (\E c \in Callers : TimeOut(c))
            \/ (\E k \in Clients : Lookup(k)) \/
            (\E k \in Clients : Handle(k)) \/
            (\E k \in Clients : ReadError(k)) \/
            (\E k \in Clients : Reconnect(k)) \/
            (\E k \in Clients : GiveUp(k)) \/ (\E k \in Clients : Close(k)) \/
            UNCHANGED vars
    BY <1>11, <1>12, <1>13 DEF GetClient, MakeClient, Select, Register, WriteFails, Receive,
       TimeOut, Lookup, Handle, ReadError, Reconnect, GiveUp, Close, vars, poolVars, netVars
  <1> QED BY <1>2, <1>3, <1>4, <1>5, <1>6, <1>7, <1>8, <1>9, <1>10, <1>13 DEF Next,
     HandlerStep, Call, Input
\* The types, one by one.
LEMMA Typing ==
  ASSUME IInv
  PROVE  /\ call \in [Callers -> Calls] /\ rpc \in [Clients -> RpcClients]
         /\ \A c \in Callers : call[c] \in Calls
         /\ \A k \in Clients : rpc[k] \in RpcClients
         /\ content \in [Messages -> Contents] /\ free \in [Messages -> Nat]
         /\ \A k \in Clients : rpc[k].pending \in [Seqs -> Callers \cup {Nobody}]
         /\ \A k \in Clients : rpc[k].inCall \in Callers \cup {Nobody}
         /\ wire \subseteq [rpc : Clients, msg : Contents, from : Callers]
  <1>1. /\ call \in [Callers -> Calls] /\ rpc \in [Clients -> RpcClients]
        /\ content \in [Messages -> Contents] /\ free \in [Messages -> Nat]
        /\ wire \subseteq [rpc : Clients, msg : Contents, from : Callers]
    BY DEF IInv, TypeOK, CallTypes, RpcTypes, MessageTypes
  <1> QED BY <1>1 DEF RpcClients

\* What Handle does to the call that input has found.
LEMMA Handling ==
  ASSUME IInv, NEW k \in Clients, Handle(k)
  PROVE  \/ UNCHANGED call /\ rpc[k].inCall = Nobody
         \/ /\ rpc[k].inCall \in Callers
            /\ \E e \in BOOLEAN :
                 call' = [call EXCEPT ![rpc[k].inCall] =
                            Ends(rpc[k].inCall, rpc[k].target, e)]
  <1>1. rpc[k].inCall \in Callers \cup {Nobody} BY Typing
  <1>2. CASE rpc[k].inCall = Nobody BY <1>2 DEF Handle
  <1>3. CASE rpc[k].inCall # Nobody
    <2> DEFINE e == CheckReplyError(rpc[k].target) /\ ~content[rpc[k].target].hb
    <2>1. e \in BOOLEAN OBVIOUS
    <2>2. call' = [call EXCEPT ![rpc[k].inCall] = Ends(rpc[k].inCall, rpc[k].target, e)]
      BY <1>3 DEF Handle
    <2> HIDE DEF e
    <2> QED BY <1>1, <1>3, <2>1, <2>2
  <1> QED BY <1>2, <1>3

\* A goroutine goes on only with what it needs, ...
LEMMA PreparedStep ==
  ASSUME IInv, [Next]_vars PROVE \A d \in Callers : Prepared(d)'
  <1>0. /\ call \in [Callers -> Calls] /\ \A c \in Callers : call[c] \in Calls
        /\ \A c \in Callers : Prepared(c)
        /\ Handlers \subseteq Callers /\ Beats \subseteq Callers
    BY Typing, Basics DEF IInv, Held
  <1>1. ASSUME UNCHANGED <<call>> PROVE \A d \in Callers : Prepared(d)'
    BY <1>1, <1>0 DEF Prepared
  <1>2. ASSUME NEW h \in Handlers, Begin(h) PROVE \A d \in Callers : Prepared(d)'
    BY <1>2, <1>0 DEF Begin, GetPooledMsg, At, Prepared, Calls, Messages
  <1>3. ASSUME NEW h \in Handlers, GetClient(h) PROVE \A d \in Callers : Prepared(d)'
    BY <1>3, <1>0 DEF GetClient, At, Prepared, Calls
  <1>4. ASSUME NEW h \in Handlers, MakeClient(h) PROVE \A d \in Callers : Prepared(d)'
    BY <1>4, <1>0, Growth DEF MakeClient, At, Prepared, Calls
  <1>5. ASSUME NEW h \in Handlers, HandlerFails(h) PROVE \A d \in Callers : Prepared(d)'
    BY <1>5, <1>0 DEF HandlerFails, Fail, FreeMsgs, At, NoCall, Prepared, Calls
  <1>6. ASSUME NEW h \in Handlers, Finish(h) PROVE \A d \in Callers : Prepared(d)'
    BY <1>6, <1>0 DEF Finish, FreeMsgs, At, NoCall, Prepared, Calls
  <1>7. ASSUME NEW h \in Handlers, Select(h) PROVE \A d \in Callers : Prepared(d)'
    BY ZenonT(100), <1>7, <1>0 DEF Select, At, Prepared, Calls
  <1>8. ASSUME NEW h \in Handlers, Dial(h) PROVE \A d \in Callers : Prepared(d)'
    BY <1>8, <1>0, Growth DEF Dial, NewRPCClient, At, Prepared, Calls
  <1>9. ASSUME NEW b \in Beats, NEW k \in Clients, Beat(b, k) PROVE \A d \in Callers : Prepared(d)'
    BY <1>9, <1>0 DEF Beat, GetPooledMsg, At, Prepared, Calls, Messages, Clients
  <1>10. ASSUME NEW c \in Callers, Register(c) PROVE \A d \in Callers : Prepared(d)'
    BY <1>10, <1>0 DEF Register, At, Prepared, Calls
  <1>11. ASSUME NEW c \in Callers, SetSeq(c) PROVE \A d \in Callers : Prepared(d)'
    BY <1>11, <1>0 DEF SetSeq, At, Prepared, Calls
  <1>12. ASSUME NEW c \in Callers, Write(c) PROVE \A d \in Callers : Prepared(d)'
    BY <1>12, <1>0 DEF Write, At, Prepared, Calls
  <1>13. ASSUME NEW c \in Callers, WriteFails(c) PROVE \A d \in Callers : Prepared(d)'
    BY ZenonT(100), <1>13, <1>0 DEF WriteFails, Ends, At, Prepared, Calls
  <1>14. ASSUME NEW c \in Callers, Receive(c) PROVE \A d \in Callers : Prepared(d)'
    BY <1>14, <1>0 DEF Receive, At, NoCall, Prepared, Calls
  <1>15. ASSUME NEW c \in Callers, TimeOut(c) PROVE \A d \in Callers : Prepared(d)'
    BY <1>15, <1>0 DEF TimeOut, At, NoCall, Prepared, Calls
  <1>16. ASSUME NEW k \in Clients, Handle(k) PROVE \A d \in Callers : Prepared(d)'
    <2>1. CASE UNCHANGED call BY <1>1, <2>1
    <2>2. ASSUME rpc[k].inCall \in Callers, NEW e \in BOOLEAN,
                 call' = [call EXCEPT ![rpc[k].inCall] =
                            Ends(rpc[k].inCall, rpc[k].target, e)]
          PROVE  \A d \in Callers : Prepared(d)'
      <3>1. rpc[k].target # 0 BY <1>16, Equipped DEF Handle, InputAt, Messages
      <3> QED BY <1>0, <2>2, <3>1 DEF Ends, Prepared, Calls
    <2> QED BY <1>16, <2>1, <2>2, Handling
  <1>17. ASSUME NEW k \in Clients, Close(k) PROVE \A d \in Callers : Prepared(d)'
    BY <1>17, <1>0 DEF Close, Ends, InputAt, Prepared, Calls
  <1>18. CASE (\E k \in Clients : Read(k)) \/ (\E k \in Clients : Lookup(k))
            \/ (\E k \in Clients : ReadError(k)) \/
            (\E k \in Clients : Reconnect(k)) \/
            (\E k \in Clients : GiveUp(k)) \/ (\E k \in Clients : Break(k)) \/
            UNCHANGED vars
    BY <1>1, <1>18 DEF Read, Lookup, ReadError, Reconnect, GiveUp, Break, listVars,
       poolVars, netVars, vars
  <1> QED BY <1>1, <1>2, <1>3, <1>4, <1>5, <1>6, <1>7, <1>8, <1>9, <1>10, <1>11, <1>12,
     <1>13, <1>14, <1>15, <1>16, <1>17, <1>18 DEF Next, HandlerStep, Call, Input

\* ... input has a Message to decode into, ...
LEMMA TargetsStep ==
  ASSUME IInv, [Next]_vars
  PROVE  \A l \in Clients :
           rpc'[l].input \in {"read", "got", "handle"} => rpc'[l].target # 0
  <1> DEFINE Targeted == \A l \in Clients :
                           rpc'[l].input \in {"read", "got", "handle"} => rpc'[l].target # 0
  <1>0. /\ rpc \in [Clients -> RpcClients] /\ \A k \in Clients : rpc[k] \in RpcClients
        /\ Held /\ Connected
    BY Typing DEF IInv
  <1>1. ASSUME UNCHANGED <<rpc>> PROVE Targeted
    BY <1>1, <1>0 DEF Held
  <1>2. ASSUME NEW h \in Handlers, Dial(h) PROVE Targeted
    BY <1>2, <1>0, Growth DEF Dial, NewRPCClient, At, RpcClients, Held, Connected
  <1>3. ASSUME NEW c \in Callers, Register(c) PROVE Targeted
    <2>1. \A l \in Clients : rpc'[l].input = rpc[l].input /\ rpc'[l].target = rpc[l].target
      BY <1>3, <1>0 DEF Register, RpcClients
    <2> QED BY <1>0, <2>1 DEF Held
  <1>4. ASSUME NEW c \in Callers, WriteFails(c) PROVE Targeted
    BY <1>4, <1>0 DEF WriteFails, Ends, At, RpcClients, Held, Connected
  <1>5. ASSUME NEW k \in Clients, Read(k) PROVE Targeted
    BY <1>5, <1>0 DEF Read, InputAt, RpcClients, Held, Connected
  <1>6. ASSUME NEW k \in Clients, Lookup(k) PROVE Targeted
    BY ZenonT(100), <1>6, <1>0 DEF Lookup, InputAt, RpcClients, Held, Connected
  <1>7. ASSUME NEW k \in Clients, Handle(k) PROVE Targeted
    BY <1>7, <1>0 DEF Handle, Ends, InputAt, RpcClients, Held, Connected
  <1>8. ASSUME NEW k \in Clients, ReadError(k) PROVE Targeted
    BY <1>8, <1>0 DEF ReadError, InputAt, RpcClients, Held, Connected
  <1>9. ASSUME NEW k \in Clients, Reconnect(k) PROVE Targeted
    BY <1>9, <1>0 DEF Reconnect, InputAt, RpcClients, Held, Connected
  <1>10. ASSUME NEW k \in Clients, GiveUp(k) PROVE Targeted
    BY <1>10, <1>0 DEF GiveUp, InputAt, RpcClients, Held, Connected
  <1>11. ASSUME NEW k \in Clients, Close(k) PROVE Targeted
    BY <1>11, <1>0 DEF Close, Ends, InputAt, RpcClients, Held, Connected
  <1>12. ASSUME NEW k \in Clients, Break(k) PROVE Targeted
    BY <1>12, <1>0 DEF Break, RpcClients, Held, Connected
  <1>13. CASE (\E h \in Handlers : Begin(h)) \/
            (\E h \in Handlers : GetClient(h)) \/
            (\E h \in Handlers : MakeClient(h)) \/
            (\E h \in Handlers : HandlerFails(h)) \/
            (\E h \in Handlers : Finish(h)) \/ (\E h \in Handlers : Select(h))
            \/ (\E b \in Beats, k \in Clients : Beat(b, k)) \/
            (\E c \in Callers : SetSeq(c)) \/ (\E c \in Callers : Write(c)) \/
            (\E c \in Callers : Receive(c)) \/ (\E c \in Callers : TimeOut(c))
            \/ UNCHANGED vars
    BY <1>1, <1>13 DEF Begin, GetClient, MakeClient, HandlerFails, Fail, Finish, Select,
       Beat, SetSeq, Write, Receive, TimeOut, listVars, poolVars, netVars, vars
  <1> QED BY <1>1, <1>2, <1>3, <1>4, <1>5, <1>6, <1>7, <1>8, <1>9, <1>10, <1>11, <1>12,
     <1>13 DEF Next, HandlerStep, Call, Input

\* ... and the Messages in the pool have been made.
LEMMA FreeStep ==
  ASSUME IInv, [Next]_vars PROVE \A n \in Messages : free'[n] > 0 => n <= used'
  <1>0. /\ MessageTypes /\ used \in Nat /\ used' \in Nat /\ used <= used'
        /\ \A n \in Messages : n \in Nat /\ (free[n] > 0 => n <= used)
    BY Growth DEF IInv, TypeOK, Held, Messages
  <1>1. ASSUME UNCHANGED free PROVE \A n \in Messages : free'[n] > 0 => n <= used'
    BY <1>0, <1>1
  <1>2. ASSUME NEW m \in Messages, GetPooledMsg(m)
        PROVE  \A n \in Messages : free'[n] > 0 => n <= used'
    BY <1>0, <1>2, Pooled
  <1>3. ASSUME NEW h \in Handlers, HandlerFails(h) \/ Finish(h)
        PROVE  \A n \in Messages : free'[n] > 0 => n <= used'
    <2>1. call[h].req \in 0..used /\ call[h].reply \in 0..used
      BY <1>3, Typing, Basics DEF Calls
    <2>2. FreeMsgs({call[h].req, call[h].reply} \ {0}, call[h].req = call[h].reply)
      BY <1>3 DEF HandlerFails, Fail, Finish
    <2> DEFINE twice == call[h].req = call[h].reply
               S     == {call[h].req, call[h].reply} \ {0}
    <2>3. twice \in BOOLEAN /\ FreeMsgs(S, twice) BY <2>2
    <2> HIDE DEF twice, S
    <2>4. \A n \in Messages : free'[n] > 0 => free[n] > 0 \/ n \in S
      BY <1>0, <2>3, Freeing
    <2> QED BY <1>0, <2>1, <2>4 DEF S
  <1>4. CASE (\E h \in Handlers : Begin(h)) \/ (\E b \in Beats, k \in Clients : Beat(b, k))
    BY <1>2, <1>4 DEF Begin, Beat
  <1>5. CASE (\E h \in Handlers : GetClient(h)) \/
            (\E h \in Handlers : MakeClient(h)) \/
            (\E h \in Handlers : Select(h)) \/ (\E h \in Handlers : Dial(h))
            \/ (\E c \in Callers : Register(c)) \/
            (\E c \in Callers : SetSeq(c)) \/ (\E c \in Callers : Write(c)) \/
            (\E c \in Callers : WriteFails(c)) \/
            (\E c \in Callers : Receive(c)) \/ (\E c \in Callers : TimeOut(c))
            \/ (\E k \in Clients : Read(k)) \/ (\E k \in Clients : Lookup(k))
            \/ (\E k \in Clients : Handle(k)) \/
            (\E k \in Clients : ReadError(k)) \/
            (\E k \in Clients : Reconnect(k)) \/
            (\E k \in Clients : GiveUp(k)) \/ (\E k \in Clients : Close(k)) \/
            (\E k \in Clients : Break(k)) \/ UNCHANGED vars
    BY <1>1, <1>5 DEF GetClient, MakeClient, Select, Dial, Register, SetSeq, Write,
       WriteFails, Receive, TimeOut, Read, Lookup, Handle, ReadError, Reconnect, GiveUp,
       Close, Break, poolVars, vars
  <1> QED BY <1>2, <1>3, <1>4, <1>5 DEF Next, HandlerStep, Call, Input

\* A connection is up only while input reads from it.
LEMMA ConnectedStep ==
  ASSUME IInv, [Next]_vars PROVE Connected'
  <1>0. /\ rpc \in [Clients -> RpcClients] /\ \A k \in Clients : rpc[k] \in RpcClients
        /\ Held /\ Connected
    BY Typing DEF IInv
  <1>1. ASSUME UNCHANGED <<rpc, dialled>> PROVE Connected'
    BY <1>1, <1>0 DEF Connected
  <1>2. ASSUME NEW h \in Handlers, Dial(h) PROVE Connected'
    <2>1. /\ dialled' = dialled + 1 /\ dialled \in Nat
          /\ \A l \in Clients : rpc'[l] = IF l = dialled + 1 THEN NewRPCClient(rpc[l], used + 1)
                                                           ELSE rpc[l]
      BY <1>2, <1>0, Growth DEF Dial, NewRPCClient
    <2>2. dialled + 1 \in Clients => /\ rpc'[dialled + 1].status = "Available"
                                     /\ rpc'[dialled + 1].input = "read"
      BY <1>0, <2>1 DEF NewRPCClient, RpcClients
    <2>3. \A l \in Clients : l \in Nat /\ (l # dialled + 1 => rpc'[l] = rpc[l])
      BY <2>1 DEF Clients
    <2> QED BY <1>0, <2>1, <2>2, <2>3 DEF Connected
  <1>3. ASSUME NEW c \in Callers, Register(c) PROVE Connected'
    BY <1>3, <1>0 DEF Register, At, RpcClients, Connected
  <1>4. ASSUME NEW c \in Callers, WriteFails(c) PROVE Connected'
    BY ZenonT(100), <1>4, <1>0 DEF WriteFails, Ends, At, RpcClients, Connected
  <1>5. ASSUME NEW k \in Clients, Read(k) PROVE Connected'
    BY <1>5, <1>0 DEF Read, InputAt, RpcClients, Connected
  <1>6. ASSUME NEW k \in Clients, Lookup(k) PROVE Connected'
    BY ZenonT(100), <1>6, <1>0 DEF Lookup, InputAt, RpcClients, Connected
  <1>7. ASSUME NEW k \in Clients, Handle(k) PROVE Connected'
    BY <1>7, <1>0 DEF Handle, Ends, InputAt, RpcClients, Connected
  <1>8. ASSUME NEW k \in Clients, ReadError(k) PROVE Connected'
    BY <1>8, <1>0 DEF ReadError, InputAt, RpcClients, Connected
  <1>9. ASSUME NEW k \in Clients, Reconnect(k) PROVE Connected'
    BY <1>9, <1>0 DEF Reconnect, InputAt, RpcClients, Connected
  <1>10. ASSUME NEW k \in Clients, GiveUp(k) PROVE Connected'
    BY <1>10, <1>0 DEF GiveUp, InputAt, RpcClients, Connected
  <1>11. ASSUME NEW k \in Clients, Close(k) PROVE Connected'
    BY <1>11, <1>0 DEF Close, Ends, InputAt, RpcClients, Connected
  <1>12. ASSUME NEW k \in Clients, Break(k) PROVE Connected'
    BY <1>12, <1>0 DEF Break, RpcClients, Connected
  <1>13. CASE (\E h \in Handlers : Begin(h)) \/
            (\E h \in Handlers : GetClient(h)) \/
            (\E h \in Handlers : MakeClient(h)) \/
            (\E h \in Handlers : HandlerFails(h)) \/
            (\E h \in Handlers : Finish(h)) \/ (\E h \in Handlers : Select(h))
            \/ (\E b \in Beats, k \in Clients : Beat(b, k)) \/
            (\E c \in Callers : SetSeq(c)) \/ (\E c \in Callers : Write(c)) \/
            (\E c \in Callers : Receive(c)) \/ (\E c \in Callers : TimeOut(c))
            \/ UNCHANGED vars
    BY <1>1, <1>13 DEF Begin, GetClient, MakeClient, HandlerFails, Fail, Finish, Select,
       Beat, SetSeq, Write, Receive, TimeOut, listVars, poolVars, netVars, vars
  <1> QED BY <1>1, <1>2, <1>3, <1>4, <1>5, <1>6, <1>7, <1>8, <1>9, <1>10, <1>11, <1>12,
     <1>13 DEF Next, HandlerStep, Call, Input

\* What send does to pending, ...
LEMMA Registering ==
  ASSUME IInv, NEW c \in Callers, Register(c)
  PROVE  \/ UNCHANGED rpc /\ call' = [call EXCEPT ![c].pc = "wait", ![c].failed = TRUE,
                                                  ![c].ready = TRUE]
         \/ /\ call[c].rpc \in Clients /\ rpc[call[c].rpc].seq + 1 \in Seqs
            /\ call' = [call EXCEPT ![c].pc = "setSeq", ![c].seq = rpc[call[c].rpc].seq + 1,
                                    ![c].conn = rpc[call[c].rpc].conn]
            /\ \A k \in Clients, s \in Seqs :
                 rpc'[k].pending[s] = IF k = call[c].rpc /\ s = rpc[call[c].rpc].seq + 1
                                      THEN c ELSE rpc[k].pending[s]
            /\ \A k \in Clients : /\ rpc'[k].status = rpc[k].status /\ rpc'[k].up = rpc[k].up
                                  /\ rpc'[k].input = rpc[k].input
                                  /\ rpc'[k].inCall = rpc[k].inCall
                                  /\ rpc'[k].target = rpc[k].target
            /\ rpc[call[c].rpc].status = "Available"
            /\ \A k \in Clients :
                 rpc'[k].seq = IF k = call[c].rpc THEN rpc[call[c].rpc].seq + 1 ELSE rpc[k].seq
  <1>1. CASE rpc[call[c].rpc].status # "Available" BY <1>1 DEF Register
  <1>2. CASE rpc[call[c].rpc].status = "Available"
    <2> DEFINE l == call[c].rpc
               n == rpc[l].seq + 1
    <2>1. l \in Clients BY Equipped DEF Register, At
    <2>2. rpc[l] \in RpcClients /\ rpc \in [Clients -> RpcClients] BY <2>1, Typing
    <2>3. rpc[l].seq \in 0..MaxSeq BY <2>2 DEF RpcClients
    <2>4. n \in Seqs BY <1>2, <2>3, Basics DEF Register, Seqs
    <2>5. /\ rpc' = [rpc EXCEPT ![l] = [rpc[l] EXCEPT !.seq = n, !.pending[n] = c]]
          /\ call' = [call EXCEPT ![c].pc = "setSeq", ![c].seq = n, ![c].conn = rpc[l].conn]
      BY <1>2 DEF Register
    <2> HIDE DEF l, n
    <2>6. /\ rpc'[l].pending = [rpc[l].pending EXCEPT ![n] = c]
          /\ rpc'[l].status = rpc[l].status /\ rpc'[l].up = rpc[l].up
          /\ rpc'[l].input = rpc[l].input /\ rpc'[l].inCall = rpc[l].inCall
          /\ rpc'[l].target = rpc[l].target /\ rpc'[l].seq = n
      BY <2>1, <2>2, <2>5 DEF RpcClients
    <2>7. \A k \in Clients : k # l => rpc'[k] = rpc[k] BY <2>2, <2>5
    <2>8. rpc[l].pending \in [Seqs -> Callers \cup {Nobody}] BY <2>1, Typing
    <2>9. \A k \in Clients, s \in Seqs :
            rpc'[k].pending[s] = IF k = l /\ s = n THEN c ELSE rpc[k].pending[s]
      BY <2>4, <2>6, <2>7, <2>8
    <2>10. \A k \in Clients : /\ rpc'[k].status = rpc[k].status /\ rpc'[k].up = rpc[k].up
                              /\ rpc'[k].input = rpc[k].input
                              /\ rpc'[k].inCall = rpc[k].inCall
                              /\ rpc'[k].target = rpc[k].target
      BY <2>6, <2>7
    <2>11. \A k \in Clients : rpc'[k].seq = IF k = l THEN n ELSE rpc[k].seq
      BY <2>6, <2>7
    <2> QED BY ZenonT(100), <1>2, <2>1, <2>4, <2>5, <2>9, <2>10, <2>11 DEF l, n
  <1> QED BY <1>1, <1>2

\* ... and when it cannot write, ...
LEMMA Withdrawing ==
  ASSUME IInv, NEW c \in Callers, WriteFails(c)
  PROVE  /\ call[c].rpc \in Clients
         /\ \A k \in Clients, s \in Seqs :
              rpc'[k].pending[s] = IF k = call[c].rpc /\ s = call[c].seq THEN Nobody
                                   ELSE rpc[k].pending[s]
         /\ \A k \in Clients : /\ rpc'[k].status = rpc[k].status /\ rpc'[k].up = rpc[k].up
                               /\ rpc'[k].input = rpc[k].input
                               /\ rpc'[k].inCall = rpc[k].inCall
                               /\ rpc'[k].target = rpc[k].target
  <1> DEFINE l == call[c].rpc
             n == call[c].seq
  <1>1. l \in Clients BY Equipped DEF WriteFails, At
  <1>2. rpc[l] \in RpcClients /\ rpc \in [Clients -> RpcClients] BY <1>1, Typing
  <1>3. rpc' = [rpc EXCEPT ![l] = [rpc[l] EXCEPT !.pending[n] = Nobody]] BY DEF WriteFails
  <1> HIDE DEF l, n
  <1>4. /\ rpc'[l].pending = [rpc[l].pending EXCEPT ![n] = Nobody]
        /\ rpc'[l].status = rpc[l].status /\ rpc'[l].up = rpc[l].up
        /\ rpc'[l].input = rpc[l].input /\ rpc'[l].inCall = rpc[l].inCall
        /\ rpc'[l].target = rpc[l].target
    BY <1>1, <1>2, <1>3 DEF RpcClients
  <1>5. \A k \in Clients : k # l => rpc'[k] = rpc[k] BY <1>2, <1>3
  <1>6. rpc[l].pending \in [Seqs -> Callers \cup {Nobody}] BY <1>1, Typing
  <1>7. \A k \in Clients, s \in Seqs :
          rpc'[k].pending[s] = IF k = l /\ s = n THEN Nobody ELSE rpc[k].pending[s]
    BY <1>4, <1>5, <1>6
  <1> QED BY <1>1, <1>4, <1>5, <1>7 DEF l, n

\* ... and what input does when it has decoded a response.
LEMMA Finding ==
  ASSUME IInv, NEW k \in Clients, Lookup(k), NEW n, n = content[rpc[k].target].seq
  PROVE  /\ n = 0 \/ n \in Seqs
         /\ \A l \in Clients, s \in Seqs :
              rpc'[l].pending[s] = IF l = k /\ s = n THEN Nobody ELSE rpc[l].pending[s]
         /\ \A l \in Clients : /\ rpc'[l].status = rpc[l].status /\ rpc'[l].up = rpc[l].up
                               /\ rpc'[l].target = rpc[l].target
                               /\ l # k => rpc'[l] = rpc[l]
         /\ rpc'[k].input = "handle"
         /\ rpc'[k].inCall = IF n = 0 THEN rpc[k].inCall ELSE rpc[k].pending[n]
  <1>1. rpc[k] \in RpcClients /\ rpc \in [Clients -> RpcClients] BY Typing
  <1>2. rpc[k].target \in Messages BY Equipped DEF Lookup, InputAt
  <1>3. n = 0 \/ n \in Seqs
    BY <1>2, Basics DEF IInv, TypeOK, MessageTypes, Contents, Seqs
  <1>4. 0 \notin Seqs BY Basics DEF Seqs
  <1>5. CASE n = 0
    <2>1. rpc' = [rpc EXCEPT ![k] = [rpc[k] EXCEPT !.input = "handle"]]
      BY <1>5 DEF Lookup
    <2> QED BY <1>1, <1>3, <1>4, <1>5, <2>1 DEF RpcClients
  <1>6. CASE n # 0
    <2>1. rpc' = [rpc EXCEPT ![k] = [rpc[k] EXCEPT !.input = "handle",
                                       !.inCall = rpc[k].pending[n], !.pending[n] = Nobody]]
      BY <1>6 DEF Lookup
    <2>2. /\ rpc'[k].pending = [rpc[k].pending EXCEPT ![n] = Nobody]
          /\ rpc'[k].status = rpc[k].status /\ rpc'[k].up = rpc[k].up
          /\ rpc'[k].input = "handle" /\ rpc'[k].inCall = rpc[k].pending[n]
          /\ rpc'[k].target = rpc[k].target
      BY <1>1, <2>1 DEF RpcClients
    <2>3. \A l \in Clients : l # k => rpc'[l] = rpc[l] BY <1>1, <2>1
    <2>4. rpc[k].pending \in [Seqs -> Callers \cup {Nobody}] BY Typing
    <2>5. \A l \in Clients, s \in Seqs :
            rpc'[l].pending[s] = IF l = k /\ s = n THEN Nobody ELSE rpc[l].pending[s]
      BY <2>2, <2>3, <2>4
    <2> QED BY <1>3, <1>6, <2>2, <2>3, <2>5
  <1> QED BY <1>5, <1>6

\* Nothing else does anything to pending.
LEMMA PendingElse ==
  ASSUME IInv,
         \/ \E h \in Handlers : Dial(h)
         \/ \E k \in Clients : Read(k) \/ Handle(k) \/ ReadError(k) \/ Reconnect(k) \/ GiveUp(k)
                               \/ Close(k) \/ Break(k)
  PROVE  \A k \in Clients : rpc'[k].pending = rpc[k].pending
  <1>1. rpc \in [Clients -> RpcClients] /\ \A k \in Clients : rpc[k] \in RpcClients
    BY Typing
  <1>2. ASSUME NEW h \in Handlers, Dial(h) PROVE \A k \in Clients : rpc'[k].pending = rpc[k].pending
    BY <1>1, <1>2 DEF Dial, NewRPCClient, RpcClients
  <1>3. ASSUME NEW l \in Clients, Read(l) \/ Handle(l) \/ ReadError(l) \/ Reconnect(l) \/ GiveUp(l)
                                  \/ Close(l) \/ Break(l)
        PROVE  \A k \in Clients : rpc'[k].pending = rpc[k].pending
    <2>1. CASE Read(l) BY <1>1, <2>1 DEF Read, RpcClients
    <2>2. CASE Handle(l) BY <1>1, <2>2 DEF Handle, RpcClients
    <2>3. CASE ReadError(l) BY <1>1, <2>3 DEF ReadError, RpcClients
    <2>4. CASE Reconnect(l) BY <1>1, <2>4 DEF Reconnect, RpcClients
    <2>5. CASE GiveUp(l) BY <1>1, <2>5 DEF GiveUp, RpcClients
    <2>6. CASE Close(l) BY <1>1, <2>6 DEF Close, RpcClients
    <2>7. CASE Break(l) BY <1>1, <2>7 DEF Break, RpcClients
    <2> QED BY <1>3, <2>1, <2>2, <2>3, <2>4, <2>5, <2>6, <2>7
  <1> QED BY <1>2, <1>3

\* A call is pending once.
LEMMA OnceStep ==
  ASSUME IInv, [Next]_vars
  PROVE  \A k, l \in Clients, s, t \in Seqs :
           rpc'[k].pending[s] # Nobody /\ rpc'[k].pending[s] = rpc'[l].pending[t]
             => k = l /\ s = t
  <1> DEFINE Once(p) == \A k, l \in Clients, s, t \in Seqs :
                          p[k].pending[s] # Nobody /\ p[k].pending[s] = p[l].pending[t]
                            => k = l /\ s = t
  <1>0. Once(rpc) BY DEF IInv, Registered
  <1>1. ASSUME \A k \in Clients : rpc'[k].pending = rpc[k].pending PROVE Once(rpc')
    BY <1>0, <1>1
  <1>2. ASSUME NEW c \in Callers, Register(c) PROVE Once(rpc')
    <2>1. \A k \in Clients, s \in Seqs : rpc[k].pending[s] # c
      BY <1>2 DEF Register, At, IInv, Registered, Owns
    <2>2. CASE UNCHANGED rpc BY <1>0, <2>2
    <2>3. CASE ~ UNCHANGED rpc
      <3> DEFINE m == call[c].rpc
                 n == rpc[m].seq + 1
      <3>1. /\ m \in Clients /\ n \in Seqs
            /\ \A k \in Clients, s \in Seqs :
                 rpc'[k].pending[s] = IF k = m /\ s = n THEN c ELSE rpc[k].pending[s]
        BY <1>2, <2>3, Registering
      <3> HIDE DEF m, n
      <3> QED BY <1>0, <2>1, <3>1
    <2> QED BY <2>2, <2>3
  <1>3. ASSUME NEW c \in Callers, WriteFails(c) PROVE Once(rpc')
    BY <1>0, <1>3, Withdrawing
  <1>4. ASSUME NEW k \in Clients, Lookup(k) PROVE Once(rpc')
    BY <1>0, <1>4, Finding
  <1>5. CASE (\E h \in Handlers : Dial(h))
             \/ (\E k \in Clients : Read(k) \/ Handle(k) \/ ReadError(k) \/ Reconnect(k)
                                    \/ GiveUp(k) \/ Close(k) \/ Break(k))
    BY <1>1, <1>5, PendingElse
  <1>6. CASE (\E h \in Handlers : Begin(h)) \/
            (\E h \in Handlers : GetClient(h)) \/
            (\E h \in Handlers : MakeClient(h)) \/
            (\E h \in Handlers : HandlerFails(h)) \/
            (\E h \in Handlers : Finish(h)) \/ (\E h \in Handlers : Select(h))
            \/ (\E b \in Beats, k \in Clients : Beat(b, k)) \/
            (\E c \in Callers : SetSeq(c)) \/ (\E c \in Callers : Write(c)) \/
            (\E c \in Callers : Receive(c)) \/ (\E c \in Callers : TimeOut(c))
            \/ UNCHANGED vars
    BY <1>1, <1>6 DEF Begin, GetClient, MakeClient, HandlerFails, Fail, Finish, Select,
       Beat, SetSeq, Write, Receive, TimeOut, vars
  <1> QED BY <1>2, <1>3, <1>4, <1>5, <1>6 DEF Next, HandlerStep, Call, Input

\* A call is pending where it has registered.
LEMMA OwnsStep ==
  ASSUME IInv, [Next]_vars
  PROVE  \A k \in Clients, s \in Seqs, d \in Callers :
           rpc'[k].pending[s] = d => Owns(d, k, s)'
  <1> DEFINE Filed == \A k \in Clients, s \in Seqs, d \in Callers :
                        rpc'[k].pending[s] = d => Owns(d, k, s)'
  <1>0. /\ call \in [Callers -> Calls] /\ \A c \in Callers : call[c] \in Calls
        /\ \A k \in Clients, s \in Seqs, c \in Callers :
             rpc[k].pending[s] = c => Owns(c, k, s)
        /\ Handlers \subseteq Callers /\ Beats \subseteq Callers /\ Nobody \notin Callers
    BY Typing, Basics DEF IInv, Registered
  <1>1. ASSUME UNCHANGED <<call>>,
               \A k \in Clients : rpc'[k].pending = rpc[k].pending
        PROVE  Filed
    BY <1>1, <1>0 DEF Owns
  <1>2. ASSUME NEW h \in Handlers, Begin(h) PROVE Filed
    BY <1>2, <1>0 DEF Begin, GetPooledMsg, At, Owns, Calls
  <1>3. ASSUME NEW h \in Handlers, GetClient(h) PROVE Filed
    BY <1>3, <1>0 DEF GetClient, At, Owns, Calls
  <1>4. ASSUME NEW h \in Handlers, MakeClient(h) PROVE Filed
    BY <1>4, <1>0 DEF MakeClient, At, Owns, Calls
  <1>5. ASSUME NEW h \in Handlers, HandlerFails(h) PROVE Filed
    BY <1>5, <1>0 DEF HandlerFails, Fail, FreeMsgs, At, NoCall, Owns, Calls
  <1>6. ASSUME NEW h \in Handlers, Finish(h) PROVE Filed
    BY <1>6, <1>0 DEF Finish, FreeMsgs, At, NoCall, Owns, Calls
  <1>7. ASSUME NEW h \in Handlers, Select(h) PROVE Filed
    BY <1>7, <1>0 DEF Select, At, Owns, Calls
  <1>8. ASSUME NEW h \in Handlers, Dial(h) PROVE Filed
    <2>1. \A l \in Clients : rpc'[l].pending = rpc[l].pending BY <1>8, PendingElse
    <2>2. call[h].pc = "dial" /\ call' = [call EXCEPT ![h].pc = "send", ![h].rpc = dialled + 1]
      BY <1>8 DEF Dial, At
    <2> QED BY <1>0, <2>1, <2>2 DEF Owns, Calls
  <1>9. ASSUME NEW b \in Beats, NEW k \in Clients, Beat(b, k) PROVE Filed
    BY <1>9, <1>0 DEF Beat, GetPooledMsg, At, Owns, Calls
  <1>10. ASSUME NEW c \in Callers, Register(c) PROVE Filed
    <2>1. call[c].pc = "send" BY <1>10 DEF Register, At
    <2>2. CASE UNCHANGED rpc /\ call' = [call EXCEPT ![c].pc = "wait", ![c].failed = TRUE,
                                                     ![c].ready = TRUE]
      BY <1>0, <2>1, <2>2 DEF Owns, Calls
    <2>3. CASE ~ (UNCHANGED rpc /\ call' = [call EXCEPT ![c].pc = "wait", ![c].failed = TRUE,
                                                        ![c].ready = TRUE])
      <3> DEFINE m == call[c].rpc
                 n == rpc[m].seq + 1
                 x == rpc[m].conn
      <3>1. \A k \in Clients, s \in Seqs :
              rpc'[k].pending[s] = IF k = m /\ s = n THEN c ELSE rpc[k].pending[s]
        BY <1>10, <2>3, Registering
      <3>2. call' = [call EXCEPT ![c].pc = "setSeq", ![c].seq = n, ![c].conn = x]
        BY <1>10, <2>3, Registering
      <3> HIDE DEF n, x
      <3> QED BY <1>0, <2>1, <3>1, <3>2 DEF Owns, Calls
    <2> QED BY <2>2, <2>3
  <1>11. ASSUME NEW c \in Callers, SetSeq(c) PROVE Filed
    BY <1>11, <1>0 DEF SetSeq, At, Owns, Calls
  <1>12. ASSUME NEW c \in Callers, Write(c) PROVE Filed
    BY <1>12, <1>0 DEF Write, At, Owns, Calls
  <1>13. ASSUME NEW c \in Callers, WriteFails(c) PROVE Filed
    <2>1. \A k \in Clients, s \in Seqs :
             rpc'[k].pending[s] = Nobody \/ rpc'[k].pending[s] = rpc[k].pending[s]
      BY <1>13, Withdrawing
    <2>2. /\ call[c].pc = "write" /\ \A d \in Callers : d # c => call'[d] = call[d]
          /\ call'[c].pc = "wait" /\ call'[c].rpc = call[c].rpc /\ call'[c].seq = call[c].seq
      BY <1>13, <1>0 DEF WriteFails, At, Ends, Calls
    <2> QED BY <1>0, <2>1, <2>2 DEF Owns
  <1>14. ASSUME NEW c \in Callers, Receive(c) PROVE Filed
    BY <1>14, <1>0 DEF Receive, At, NoCall, Owns, Calls
  <1>15. ASSUME NEW c \in Callers, TimeOut(c) PROVE Filed
    BY <1>15, <1>0 DEF TimeOut, At, NoCall, Owns, Calls
  <1>16. ASSUME NEW k \in Clients, Handle(k) PROVE Filed
    <2>1. CASE UNCHANGED call BY <1>0, <1>16, <2>1, PendingElse DEF Owns
    <2>2. ASSUME rpc[k].inCall \in Callers, NEW e \in BOOLEAN,
                 call' = [call EXCEPT ![rpc[k].inCall] =
                            Ends(rpc[k].inCall, rpc[k].target, e)]
          PROVE  \A l \in Clients, s \in Seqs, d \in Callers :
                   rpc'[l].pending[s] = d => Owns(d, l, s)'
      BY <1>0, <1>16, <2>2, PendingElse DEF Ends, Owns, Calls
    <2> QED BY <1>16, <2>1, <2>2, Handling
  <1>17. ASSUME NEW k \in Clients, Close(k) PROVE Filed
    <2>1. \A l \in Clients : rpc'[l].pending = rpc[l].pending BY <1>17, PendingElse
    <2>2. \A d \in Callers : /\ call'[d].pc = call[d].pc /\ call'[d].rpc = call[d].rpc
                             /\ call'[d].seq = call[d].seq
      BY <1>17, <1>0 DEF Close, Ends, Calls
    <2> QED BY <1>0, <2>1, <2>2 DEF Owns
  <1>18. ASSUME NEW k \in Clients, Lookup(k) PROVE Filed
    <2>1. \A l \in Clients, s \in Seqs :
             rpc'[l].pending[s] = Nobody \/ rpc'[l].pending[s] = rpc[l].pending[s]
      BY <1>18, Finding
    <2>2. UNCHANGED call BY <1>18 DEF Lookup
    <2> QED BY <1>0, <2>1, <2>2 DEF Owns
  <1>19. CASE (\E k \in Clients : Read(k)) \/
            (\E k \in Clients : ReadError(k)) \/
            (\E k \in Clients : Reconnect(k)) \/
            (\E k \in Clients : GiveUp(k)) \/ (\E k \in Clients : Break(k)) \/
            UNCHANGED vars
    BY <1>1, <1>19, PendingElse DEF Read, ReadError, Reconnect, GiveUp, Break, listVars, poolVars,
       netVars, vars
  <1> QED BY <1>1, <1>2, <1>3, <1>4, <1>5, <1>6, <1>7, <1>8, <1>9, <1>10, <1>11, <1>12,
     <1>13, <1>14, <1>15, <1>16, <1>17, <1>18, <1>19 DEF Next, HandlerStep, Call, Input

\* A call that is over stays over, with nothing left in it to change.
LEMMA DoneStays ==
  ASSUME IInv, [Next]_vars
  PROVE  \A d \in Callers : call[d].pc = "done" => call'[d] = call[d]
  <1> DEFINE Stay == \A d \in Callers : call[d].pc = "done" => call'[d] = call[d]
  <1>0. /\ call \in [Callers -> Calls] /\ \A c \in Callers : call[c] \in Calls
        /\ Handlers \subseteq Callers /\ Beats \subseteq Callers
    BY Typing, Basics
  <1>1. ASSUME UNCHANGED <<call>> PROVE Stay
    BY <1>1, <1>0 DEF Calls
  <1>2. ASSUME NEW h \in Handlers, Begin(h) PROVE Stay
    BY <1>2, <1>0 DEF Begin, GetPooledMsg, At, Calls
  <1>3. ASSUME NEW h \in Handlers, GetClient(h) PROVE Stay
    BY <1>3, <1>0 DEF GetClient, At, Calls
  <1>4. ASSUME NEW h \in Handlers, MakeClient(h) PROVE Stay
    BY <1>4, <1>0 DEF MakeClient, At, Calls
  <1>5. ASSUME NEW h \in Handlers, HandlerFails(h) PROVE Stay
    BY <1>5, <1>0 DEF HandlerFails, Fail, FreeMsgs, At, NoCall, Calls
  <1>6. ASSUME NEW h \in Handlers, Finish(h) PROVE Stay
    BY <1>6, <1>0 DEF Finish, FreeMsgs, At, NoCall, Calls
  <1>7. ASSUME NEW h \in Handlers, Select(h) PROVE Stay
    BY <1>7, <1>0 DEF Select, At, Calls
  <1>8. ASSUME NEW h \in Handlers, Dial(h) PROVE Stay
    BY <1>8, <1>0 DEF Dial, NewRPCClient, At, Calls
  <1>9. ASSUME NEW b \in Beats, NEW k \in Clients, Beat(b, k) PROVE Stay
    BY <1>9, <1>0 DEF Beat, GetPooledMsg, At, Calls
  <1>10. ASSUME NEW c \in Callers, Register(c) PROVE Stay
    BY <1>10, <1>0 DEF Register, At, Calls
  <1>11. ASSUME NEW c \in Callers, SetSeq(c) PROVE Stay
    BY <1>11, <1>0 DEF SetSeq, At, Calls
  <1>12. ASSUME NEW c \in Callers, Write(c) PROVE Stay
    BY <1>12, <1>0 DEF Write, At, Calls
  <1>13. ASSUME NEW c \in Callers, WriteFails(c) PROVE Stay
    BY <1>13, <1>0 DEF WriteFails, Ends, At, Calls
  <1>14. ASSUME NEW c \in Callers, Receive(c) PROVE Stay
    BY <1>14, <1>0 DEF Receive, At, NoCall, Calls
  <1>15. ASSUME NEW c \in Callers, TimeOut(c) PROVE Stay
    BY <1>15, <1>0 DEF TimeOut, At, NoCall, Calls
  <1>16. ASSUME NEW k \in Clients, Handle(k) PROVE Stay
    <2>1. CASE UNCHANGED call BY <2>1
    <2>2. ASSUME rpc[k].inCall \in Callers, NEW e \in BOOLEAN,
                 call' = [call EXCEPT ![rpc[k].inCall] =
                            Ends(rpc[k].inCall, rpc[k].target, e)]
          PROVE  Stay
      BY <1>0, <2>2 DEF Ends, Calls
    <2> QED BY <1>16, <2>1, <2>2, Handling
  <1>17. ASSUME NEW k \in Clients, Close(k) PROVE Stay
    BY <1>17, <1>0 DEF Close, Ends, InputAt, Calls
  <1>18. CASE (\E k \in Clients : Read(k)) \/ (\E k \in Clients : Lookup(k))
            \/ (\E k \in Clients : ReadError(k)) \/
            (\E k \in Clients : Reconnect(k)) \/
            (\E k \in Clients : GiveUp(k)) \/ (\E k \in Clients : Break(k)) \/
            UNCHANGED vars
    BY <1>1, <1>18 DEF Read, Lookup, ReadError, Reconnect, GiveUp, Break, listVars,
       poolVars, netVars, vars
  <1> QED BY <1>1, <1>2, <1>3, <1>4, <1>5, <1>6, <1>7, <1>8, <1>9, <1>10, <1>11, <1>12,
     <1>13, <1>14, <1>15, <1>16, <1>17, <1>18 DEF Next, HandlerStep, Call, Input

\* A call that is not begun stays so.
LEMMA IdleStays ==
  ASSUME IInv, [Next]_vars, ~(\E h \in Handlers : Begin(h)),
         ~(\E b \in Beats, k \in Clients : Beat(b, k))
  PROVE  \A d \in Callers : call[d].pc = "idle" => call'[d].pc = "idle"
  <1> DEFINE Stay == \A d \in Callers : call[d].pc = "idle" => call'[d].pc = "idle"
  <1>0. /\ call \in [Callers -> Calls] /\ \A c \in Callers : call[c] \in Calls
        /\ Handlers \subseteq Callers /\ Beats \subseteq Callers
    BY Typing, Basics
  <1>1. ASSUME UNCHANGED <<call>> PROVE Stay
    BY <1>1, <1>0 DEF Calls
  <1>2. ASSUME NEW h \in Handlers, GetClient(h) PROVE Stay
    BY <1>2, <1>0 DEF GetClient, At, Calls
  <1>3. ASSUME NEW h \in Handlers, MakeClient(h) PROVE Stay
    BY <1>3, <1>0 DEF MakeClient, At, Calls
  <1>4. ASSUME NEW h \in Handlers, HandlerFails(h) PROVE Stay
    BY <1>4, <1>0 DEF HandlerFails, Fail, FreeMsgs, At, NoCall, Calls
  <1>5. ASSUME NEW h \in Handlers, Finish(h) PROVE Stay
    BY <1>5, <1>0 DEF Finish, FreeMsgs, At, NoCall, Calls
  <1>6. ASSUME NEW h \in Handlers, Select(h) PROVE Stay
    BY <1>6, <1>0 DEF Select, At, Calls
  <1>7. ASSUME NEW h \in Handlers, Dial(h) PROVE Stay
    BY <1>7, <1>0 DEF Dial, NewRPCClient, At, Calls
  <1>8. ASSUME NEW c \in Callers, Register(c) PROVE Stay
    BY <1>8, <1>0 DEF Register, At, Calls
  <1>9. ASSUME NEW c \in Callers, SetSeq(c) PROVE Stay
    BY <1>9, <1>0 DEF SetSeq, At, Calls
  <1>10. ASSUME NEW c \in Callers, Write(c) PROVE Stay
    BY <1>10, <1>0 DEF Write, At, Calls
  <1>11. ASSUME NEW c \in Callers, WriteFails(c) PROVE Stay
    BY <1>11, <1>0 DEF WriteFails, Ends, At, Calls
  <1>12. ASSUME NEW c \in Callers, Receive(c) PROVE Stay
    BY <1>12, <1>0 DEF Receive, At, NoCall, Calls
  <1>13. ASSUME NEW c \in Callers, TimeOut(c) PROVE Stay
    BY <1>13, <1>0 DEF TimeOut, At, NoCall, Calls
  <1>14. ASSUME NEW k \in Clients, Handle(k) PROVE Stay
    <2>1. CASE UNCHANGED call BY <2>1
    <2>2. ASSUME rpc[k].inCall \in Callers, NEW e \in BOOLEAN,
                 call' = [call EXCEPT ![rpc[k].inCall] =
                            Ends(rpc[k].inCall, rpc[k].target, e)]
          PROVE  Stay
      BY <1>0, <2>2 DEF Ends, Calls
    <2> QED BY <1>14, <2>1, <2>2, Handling
  <1>15. ASSUME NEW k \in Clients, Close(k) PROVE Stay
    BY <1>15, <1>0 DEF Close, Ends, InputAt, Calls
  <1>16. CASE (\E k \in Clients : Read(k)) \/ (\E k \in Clients : Lookup(k))
            \/ (\E k \in Clients : ReadError(k)) \/
            (\E k \in Clients : Reconnect(k)) \/
            (\E k \in Clients : GiveUp(k)) \/ (\E k \in Clients : Break(k)) \/
            UNCHANGED vars
    BY <1>1, <1>16 DEF Read, Lookup, ReadError, Reconnect, GiveUp, Break, listVars,
       poolVars, netVars, vars
  <1> QED BY <1>1, <1>2, <1>3, <1>4, <1>5, <1>6, <1>7, <1>8, <1>9, <1>10, <1>11, <1>12,
     <1>13, <1>14, <1>15, <1>16 DEF Next, HandlerStep, Call, Input

\* An RPCClient that is closed stays closed.
LEMMA ClosedStays ==
  ASSUME IInv, [Next]_vars
  PROVE  \A l \in Clients : rpc[l].status = "Close" => rpc'[l].status = "Close"
  <1> DEFINE Stay == \A l \in Clients : rpc[l].status = "Close" => rpc'[l].status = "Close"
  <1>0. /\ rpc \in [Clients -> RpcClients] /\ \A l \in Clients : rpc[l] \in RpcClients
        /\ Connected
    BY Typing DEF IInv
  <1>1. ASSUME UNCHANGED <<rpc>> PROVE Stay
    BY <1>1, <1>0 DEF Connected
  <1>2. ASSUME NEW h \in Handlers, Dial(h) PROVE Stay
    <2>1. \A l \in Clients : l # dialled + 1 => rpc'[l] = rpc[l] BY <1>2, <1>0 DEF Dial
    <2>2. dialled + 1 \in Clients => rpc[dialled + 1].status # "Close"
      BY <1>0, Growth DEF Connected
    <2> QED BY <2>1, <2>2
  <1>3. ASSUME NEW c \in Callers, Register(c) PROVE Stay
    BY <1>3, <1>0, Registering
  <1>4. ASSUME NEW c \in Callers, WriteFails(c) PROVE Stay
    BY <1>4, <1>0, Withdrawing
  <1>5. ASSUME NEW k \in Clients, Read(k) PROVE Stay
    BY <1>5, <1>0 DEF Read, InputAt, RpcClients, Connected
  <1>6. ASSUME NEW k \in Clients, Lookup(k) PROVE Stay
    BY <1>6, <1>0, Finding
  <1>7. ASSUME NEW k \in Clients, Handle(k) PROVE Stay
    BY <1>7, <1>0 DEF Handle, Ends, InputAt, RpcClients, Connected
  <1>8. ASSUME NEW k \in Clients, ReadError(k) PROVE Stay
    BY <1>8, <1>0 DEF ReadError, InputAt, RpcClients, Connected
  <1>9. ASSUME NEW k \in Clients, Reconnect(k) PROVE Stay
    BY <1>9, <1>0 DEF Reconnect, InputAt, RpcClients, Connected
  <1>10. ASSUME NEW k \in Clients, GiveUp(k) PROVE Stay
    BY <1>10, <1>0 DEF GiveUp, InputAt, RpcClients, Connected
  <1>11. ASSUME NEW k \in Clients, Close(k) PROVE Stay
    BY <1>11, <1>0 DEF Close, Ends, InputAt, RpcClients, Connected
  <1>12. ASSUME NEW k \in Clients, Break(k) PROVE Stay
    BY <1>12, <1>0 DEF Break, RpcClients, Connected
  <1>13. CASE (\E h \in Handlers : Begin(h)) \/
            (\E h \in Handlers : GetClient(h)) \/
            (\E h \in Handlers : MakeClient(h)) \/
            (\E h \in Handlers : HandlerFails(h)) \/
            (\E h \in Handlers : Finish(h)) \/ (\E h \in Handlers : Select(h))
            \/ (\E b \in Beats, k \in Clients : Beat(b, k)) \/
            (\E c \in Callers : SetSeq(c)) \/ (\E c \in Callers : Write(c)) \/
            (\E c \in Callers : Receive(c)) \/ (\E c \in Callers : TimeOut(c))
            \/ UNCHANGED vars
    BY <1>1, <1>13 DEF Begin, GetClient, MakeClient, HandlerFails, Fail, Finish, Select,
       Beat, SetSeq, Write, Receive, TimeOut, listVars, poolVars, netVars, vars
  <1> QED BY <1>1, <1>2, <1>3, <1>4, <1>5, <1>6, <1>7, <1>8, <1>9, <1>10, <1>11, <1>12,
     <1>13 DEF Next, HandlerStep, Call, Input

\* Nothing is filed as pending but by send.
LEMMA PendingFrom ==
  ASSUME IInv, [Next]_vars, NEW d \in Callers, NEW k \in Clients, NEW s \in Seqs,
         rpc'[k].pending[s] = d
  PROVE  rpc[k].pending[s] = d \/ call[d].pc = "send"
  <1>0. d # Nobody BY Basics
  <1>1. ASSUME \A l \in Clients : rpc'[l].pending = rpc[l].pending
        PROVE  rpc[k].pending[s] = d
    BY <1>1
  <1>2. ASSUME NEW c \in Callers, Register(c) PROVE rpc[k].pending[s] = d \/ call[d].pc = "send"
    <2>1. call[c].pc = "send" BY <1>2 DEF Register, At
    <2>2. CASE UNCHANGED rpc BY <2>2
    <2>3. CASE ~ UNCHANGED rpc
      <3>1. \A l \in Clients, t \in Seqs :
              rpc'[l].pending[t] = IF l = call[c].rpc /\ t = rpc[call[c].rpc].seq + 1
                                   THEN c ELSE rpc[l].pending[t]
        BY <1>2, <2>3, Registering
      <3>2. rpc'[k].pending[s] = c \/ rpc'[k].pending[s] = rpc[k].pending[s] BY <3>1
      <3> QED BY <2>1, <3>2
    <2> QED BY <2>2, <2>3
  <1>3. ASSUME NEW c \in Callers, WriteFails(c) PROVE rpc[k].pending[s] = d
    <2>1. rpc'[k].pending[s] \in {Nobody, rpc[k].pending[s]} BY <1>3, Withdrawing
    <2> QED BY <1>0, <2>1
  <1>4. ASSUME NEW l \in Clients, Lookup(l) PROVE rpc[k].pending[s] = d
    <2>1. rpc'[k].pending[s] \in {Nobody, rpc[k].pending[s]} BY <1>4, Finding
    <2> QED BY <1>0, <2>1
  <1>5. CASE (\E h \in Handlers : Dial(h))
             \/ (\E l \in Clients : Read(l) \/ Handle(l) \/ ReadError(l) \/ Reconnect(l)
                                    \/ GiveUp(l) \/ Close(l) \/ Break(l))
    BY <1>1, <1>5, PendingElse
  <1>6. CASE (\E h \in Handlers : Begin(h)) \/
            (\E h \in Handlers : GetClient(h)) \/
            (\E h \in Handlers : MakeClient(h)) \/
            (\E h \in Handlers : HandlerFails(h)) \/
            (\E h \in Handlers : Finish(h)) \/ (\E h \in Handlers : Select(h))
            \/ (\E b \in Beats, l \in Clients : Beat(b, l)) \/
            (\E c \in Callers : SetSeq(c)) \/ (\E c \in Callers : Write(c)) \/
            (\E c \in Callers : Receive(c)) \/ (\E c \in Callers : TimeOut(c))
            \/ UNCHANGED vars
    BY <1>1, <1>6 DEF Begin, GetClient, MakeClient, HandlerFails, Fail, Finish, Select,
       Beat, SetSeq, Write, Receive, TimeOut, vars
  <1> QED BY <1>2, <1>3, <1>4, <1>5, <1>6 DEF Next, HandlerStep, Call, Input

\* What makes a call one that is under way.
LEMMA UnderWay ==
  ASSUME NEW d \in Callers,
         \/ call[d].pc \notin {"idle", "done"}
         \/ \E k \in Clients, s \in Seqs : rpc[k].status # "Close" /\ rpc[k].pending[s] = d
  PROVE  d \in Active
  BY DEF Active

\* Calls are under way only from when they begin.
LEMMA ActiveShrinks ==
  ASSUME IInv, [Next]_vars, NEW d \in Callers, d \in Active'
  PROVE  d \in Active \/ (call[d].pc = "idle" /\ call'[d].pc # "idle")
  <1>1. CASE call'[d].pc \notin {"idle", "done"} BY <1>1, DoneStays DEF Active
  <1>2. CASE \E k \in Clients, s \in Seqs : rpc'[k].status # "Close" /\ rpc'[k].pending[s] = d
    <2>1. PICK k \in Clients, s \in Seqs : rpc'[k].status # "Close" /\ rpc'[k].pending[s] = d
      BY <1>2
    <2>2. rpc[k].status # "Close" BY <2>1, ClosedStays
    <2>3. CASE rpc[k].pending[s] = d BY <2>2, <2>3, UnderWay
    <2>4. CASE call[d].pc = "send" BY <2>4, UnderWay
    <2> QED BY <2>1, <2>3, <2>4, PendingFrom
  <1> QED BY <1>1, <1>2 DEF Active

\* No overlap later means none now, and a call begins when none is under way.
LEMMA NoOverlap ==
  ASSUME IInv, [Next]_vars, ~overlap'
  PROVE  /\ ~overlap
         /\ (\E h \in Handlers : Begin(h)) \/ (\E b \in Beats, k \in Clients : Beat(b, k))
              => Active = {}
  <1>0. overlap \in BOOLEAN BY DEF IInv, TypeOK, MessageTypes
  <1>1. CASE \E h \in Handlers : Begin(h) BY <1>0, <1>1 DEF Begin
  <1>2. CASE \E b \in Beats, k \in Clients : Beat(b, k) BY <1>0, <1>2 DEF Beat
  <1>3. CASE UNCHANGED overlap BY <1>3, <1>1, <1>2
  <1>4. CASE (\E h \in Handlers : GetClient(h)) \/
            (\E h \in Handlers : MakeClient(h)) \/
            (\E h \in Handlers : HandlerFails(h)) \/
            (\E h \in Handlers : Finish(h)) \/ (\E h \in Handlers : Select(h))
            \/ (\E h \in Handlers : Dial(h)) \/
            (\E c \in Callers : Register(c)) \/ (\E c \in Callers : SetSeq(c))
            \/ (\E c \in Callers : Write(c)) \/
            (\E c \in Callers : WriteFails(c)) \/
            (\E c \in Callers : Receive(c)) \/ (\E c \in Callers : TimeOut(c))
            \/ (\E k \in Clients : Read(k)) \/ (\E k \in Clients : Lookup(k))
            \/ (\E k \in Clients : Handle(k)) \/
            (\E k \in Clients : ReadError(k)) \/
            (\E k \in Clients : Reconnect(k)) \/
            (\E k \in Clients : GiveUp(k)) \/ (\E k \in Clients : Close(k)) \/
            (\E k \in Clients : Break(k)) \/ UNCHANGED vars
    BY <1>3, <1>4 DEF GetClient, MakeClient, HandlerFails, Fail, Finish, Select, Dial,
       Register, SetSeq, Write, WriteFails, Receive, TimeOut, Read, Lookup, Handle,
       ReadError, Reconnect, GiveUp, Close, Break, vars
  <1> QED BY <1>1, <1>2, <1>3, <1>4 DEF Next, HandlerStep, Call, Input

\* One call at a time: nobody else is under way.
LEMMA Others ==
  ASSUME IInv, ~overlap, NEW c \in Callers, call[c].pc \notin {"idle", "done"}
  PROVE  /\ \A d \in Callers : d # c => call[d].pc \in {"idle", "done"}
         /\ \A d \in Callers : d \in Active => d = c
  BY UnderWay DEF IInv, Alone, Lone

\* A connection on which something is on its way belongs to an RPCClient that
\* works, and so does an input that has decoded something.
LEMMA Working ==
  ASSUME IInv, NEW k \in Clients, rpc[k].up \/ rpc[k].input = "got"
  PROVE  rpc[k].status # "Close"
  BY DEF IInv, Connected

\* What is on its way is for a call that is under way.
LEMMA WireActive ==
  ASSUME IInv, ~overlap
  PROVE  /\ \A w \in wire : w.from \in Active /\ w.rpc \in Clients /\ w.from \in Callers
         /\ \A k \in Clients : rpc[k].input = "got" => content[rpc[k].target].of \in Active
         /\ \A k \in Clients : rpc[k].input = "handle" =>
              /\ rpc[k].inCall \in Callers
              /\ call[rpc[k].inCall].pc = "wait" => rpc[k].inCall \in Active
  <1>1. ASSUME NEW w \in wire PROVE w.from \in Active /\ w.rpc \in Clients /\ w.from \in Callers
    <2>1. w.rpc \in Clients /\ w.from \in Callers BY Typing
    <2>2. rpc[w.rpc].up /\ w.msg.seq \in Seqs /\ rpc[w.rpc].pending[w.msg.seq] = w.from
      BY <1>1 DEF IInv, Alone, Asked
    <2> QED BY <2>1, <2>2, UnderWay, Working
  <1>2. ASSUME NEW k \in Clients, rpc[k].input = "got"
        PROVE  content[rpc[k].target].of \in Active
    <2> DEFINE m == content[rpc[k].target]
    <2>1. m.of \in Callers /\ m.seq \in Seqs /\ rpc[k].pending[m.seq] = m.of
      BY <1>2 DEF IInv, Alone, Got
    <2>2. rpc[k].status # "Close" BY <1>2, Working
    <2> QED BY <2>1, <2>2, UnderWay
  <1>3. ASSUME NEW k \in Clients, rpc[k].input = "handle"
        PROVE  /\ rpc[k].inCall \in Callers
               /\ call[rpc[k].inCall].pc = "wait" => rpc[k].inCall \in Active
    BY <1>3, UnderWay DEF IInv, Alone, InHand
  <1> QED BY <1>1, <1>2, <1>3

\* While no call is under way nothing is on its way.
LEMMA Silence ==
  ASSUME IInv, ~overlap, Active = {}
  PROVE  /\ wire = {}
         /\ \A k \in Clients : rpc[k].input # "got"
         /\ \A k \in Clients : rpc[k].input = "handle" => call[rpc[k].inCall].pc = "done"
         /\ \A d \in Callers : call[d].pc \in {"idle", "done"}
  <1>1. wire = {} /\ \A k \in Clients : rpc[k].input # "got" BY WireActive
  <1>2. \A d \in Callers : call[d].pc \in {"idle", "done"} BY UnderWay
  <1>3. \A k \in Clients : rpc[k].input = "handle" => call[rpc[k].inCall].pc = "done"
    BY <1>2 DEF IInv, Alone, InHand, Awaits
  <1> QED BY <1>1, <1>2, <1>3

\* The same is true while the call that is under way does not wait.
LEMMA Quiet ==
  ASSUME IInv, ~overlap, NEW c \in Callers, call[c].pc \notin {"idle", "done"},
         call[c].pc # "wait" \/ call[c].ready \/ call[c].failed
  PROVE  /\ wire = {}
         /\ \A k \in Clients : rpc[k].input # "got"
         /\ \A k \in Clients : rpc[k].input = "handle" => call[rpc[k].inCall].pc = "done"
  <1>1. \A d \in Active : d \in Callers /\ d = c BY Others DEF Active
  <1>2. \A k : ~ Awaits(c, k) BY DEF Awaits
  <1>3. wire = {}
    <2>1. SUFFICES ASSUME NEW w \in wire PROVE FALSE OBVIOUS
    <2>2. w.from = c BY <1>1, WireActive
    <2>3. Awaits(w.from, w.rpc) BY DEF IInv, Alone, Asked
    <2> QED BY <1>2, <2>2, <2>3
  <1>4. ASSUME NEW k \in Clients, rpc[k].input = "got" PROVE FALSE
    <2>1. content[rpc[k].target].of = c BY <1>1, <1>4, WireActive
    <2>2. Awaits(content[rpc[k].target].of, k) BY <1>4 DEF IInv, Alone, Got
    <2> QED BY <1>2, <2>1, <2>2
  <1>5. ASSUME NEW k \in Clients, rpc[k].input = "handle"
        PROVE  call[rpc[k].inCall].pc = "done"
    <2>1. Awaits(rpc[k].inCall, k) BY <1>5 DEF IInv, Alone, InHand
    <2>2. CASE call[rpc[k].inCall].pc = "wait"
      <3>1. rpc[k].inCall = c BY <1>1, <1>5, <2>2, WireActive
      <3> QED BY <1>2, <2>1, <3>1
    <2> QED BY <2>1, <2>2 DEF Awaits
  <1> QED BY <1>3, <1>4, <1>5

\* One thing at a time is on its way.
LEMMA OneAnswer ==
  ASSUME IInv, ~overlap
  PROVE  /\ wire # {} \/ (\E k \in Clients : rpc[k].input = "got")
              => \A k \in Clients : rpc[k].input = "handle" => call[rpc[k].inCall].pc = "done"
         /\ \A k, l \in Clients : rpc[k].input = "got" /\ rpc[l].input = "got" => k = l
         /\ \A w, x \in wire : w = x
         /\ wire # {} => \A k \in Clients : rpc[k].input # "got"
  <1>1. \A c, d \in Active : c = d BY DEF IInv, Alone, Lone
  <1>2. ASSUME NEW d \in Callers, NEW k \in Clients, NEW s \in Seqs, d \in Active,
               rpc[k].pending[s] = d, NEW l \in Clients, rpc[l].input = "handle"
        PROVE  call[rpc[l].inCall].pc = "done"
    <2>1. Awaits(rpc[l].inCall, l) /\ \A i \in Clients, t \in Seqs :
                                        rpc[i].pending[t] # rpc[l].inCall
      BY <1>2 DEF IInv, Alone, InHand
    <2>2. CASE call[rpc[l].inCall].pc = "wait"
      <3>1. rpc[l].inCall = d BY <1>1, <1>2, <2>2, WireActive
      <3> QED BY <1>2, <2>1, <3>1
    <2> QED BY <2>1, <2>2 DEF Awaits
  <1>3. ASSUME NEW w \in wire
        PROVE  \A l \in Clients : rpc[l].input = "handle" => call[rpc[l].inCall].pc = "done"
    <2>1. w.msg.seq \in Seqs /\ rpc[w.rpc].pending[w.msg.seq] = w.from
      BY <1>3 DEF IInv, Alone, Asked
    <2> QED BY <1>2, <2>1, WireActive
  <1>4. ASSUME NEW k \in Clients, rpc[k].input = "got"
        PROVE  \A l \in Clients : rpc[l].input = "handle" => call[rpc[l].inCall].pc = "done"
    <2> DEFINE m == content[rpc[k].target]
    <2>1. m.of \in Callers /\ m.seq \in Seqs /\ rpc[k].pending[m.seq] = m.of
      BY <1>4 DEF IInv, Alone, Got
    <2>2. m.of \in Active BY <1>4, WireActive
    <2> QED BY <1>2, <2>1, <2>2
  <1>5. ASSUME NEW k \in Clients, NEW l \in Clients, rpc[k].input = "got", rpc[l].input = "got"
        PROVE  k = l
    <2> DEFINE m == content[rpc[k].target]
               n == content[rpc[l].target]
    <2>1. /\ m.of \in Callers /\ m.seq \in Seqs /\ rpc[k].pending[m.seq] = m.of
          /\ n.of \in Callers /\ n.seq \in Seqs /\ rpc[l].pending[n.seq] = n.of
      BY <1>5 DEF IInv, Alone, Got
    <2>2. m.of = n.of BY <1>1, <1>5, WireActive
    <2>3. m.of # Nobody BY <2>1, Basics
    <2> QED BY <2>1, <2>2, <2>3 DEF IInv, Registered
  <1>6. ASSUME NEW w \in wire, NEW x \in wire PROVE w = x
    <2>1. w.from = x.from /\ w.from # Nobody BY <1>1, WireActive, Basics
    <2>2. /\ w.msg.seq \in Seqs /\ rpc[w.rpc].pending[w.msg.seq] = w.from
          /\ x.msg.seq \in Seqs /\ rpc[x.rpc].pending[x.msg.seq] = x.from
          /\ Asks(w.msg, w.from, w.msg.seq) /\ Asks(x.msg, x.from, x.msg.seq)
      BY <1>6 DEF IInv, Alone, Asked
    <2>3. w.rpc = x.rpc /\ w.msg.seq = x.msg.seq
      BY <2>1, <2>2, WireActive DEF IInv, Registered
    <2>4. w.msg = x.msg
      <3>1. w.msg \in Contents /\ x.msg \in Contents BY Typing
      <3>2. /\ w.msg.kind = x.msg.kind /\ w.msg.of = x.msg.of /\ w.msg.seq = x.msg.seq
            /\ w.msg.hb = x.msg.hb /\ w.msg.err = x.msg.err
        BY <2>1, <2>2, <2>3, <3>1 DEF Asks, Contents
      <3> QED BY <3>1, <3>2 DEF Contents
    <2>5. /\ w = [rpc |-> w.rpc, msg |-> w.msg, from |-> w.from]
          /\ x = [rpc |-> x.rpc, msg |-> x.msg, from |-> x.from]
      BY Typing
    <2> QED BY <2>1, <2>3, <2>4, <2>5
  <1>7. ASSUME wire # {}, NEW k \in Clients PROVE rpc[k].input # "got"
    BY <1>7 DEF IInv, Alone, Got
  <1>8. wire # {} \/ (\E k \in Clients : rpc[k].input = "got")
              => \A k \in Clients : rpc[k].input = "handle" => call[rpc[k].inCall].pc = "done"
    BY <1>3, <1>4
  <1> QED BY <1>5, <1>6, <1>7, <1>8

\* At most one call remains under way.
LEMMA LoneStep ==
  ASSUME IInv, [Next]_vars, ~overlap' PROVE Lone'
  <1>1. SUFFICES ASSUME NEW c \in Callers, NEW d \in Callers, c \in Active', d \in Active'
                 PROVE  c = d
    BY DEF Lone, Active
  <1>2. ~overlap BY NoOverlap
  <1>3. CASE (\E h \in Handlers : Begin(h)) \/ (\E b \in Beats, k \in Clients : Beat(b, k))
    <2>1. Active = {} BY <1>3, NoOverlap
    <2>2. PICK a \in Callers : \A b \in Callers : b # a => call'[b].pc = call[b].pc
      BY ZenonT(100), <1>3, Basics, Typing DEF Begin, Beat
    <2> QED BY <1>1, <2>1, <2>2, ActiveShrinks
  <1>4. CASE ~ ((\E h \in Handlers : Begin(h)) \/ (\E b \in Beats, k \in Clients : Beat(b, k)))
    <2>1. c \in Active /\ d \in Active BY <1>1, <1>4, ActiveShrinks, IdleStays
    <2> QED BY <1>2, <2>1 DEF IInv, Alone, Lone
  <1> QED BY <1>3, <1>4

\* What others do leaves alone what a caller is about to send.
LEMMA SendsKept ==
  ASSUME IInv, [Next]_vars, NEW d \in Callers, Sends(d), call'[d] = call[d],
         \/ call[d].pc \in {"idle", "wait", "reply", "done"}
         \/ /\ content'[call[d].req] = content[call[d].req]
            /\ call[d].pc \in {"setSeq", "write"} =>
                 \A s \in Seqs : rpc[call[d].rpc].pending[s] = d
                                   => rpc'[call[d].rpc].pending[s] = d
  PROVE  Sends(d)'
  <1>1. call[d].pc \in {"setSeq", "write"} => call[d].rpc \in Clients BY Equipped
  <1>2. call[d].pc \in {"setSeq", "write"} /\ rpc'[call[d].rpc].status # "Close"
          => rpc[call[d].rpc].status # "Close"
    BY <1>1, ClosedStays
  <1> QED BY <1>2 DEF Sends

\* A caller that acts is alone, so that all others are as before.
LEMMA SendsAlone ==
  ASSUME IInv, [Next]_vars, ~overlap', NEW c \in Callers, call[c].pc \notin {"idle", "done"},
         \A d \in Callers : d # c => call'[d] = call[d],
         Sends(c)'
  PROVE  Sending'
  <1>1. \A d \in Callers : d # c => call[d].pc \in {"idle", "done"} BY NoOverlap, Others
  <1>2. \A d \in Callers : Sends(d) BY NoOverlap DEF IInv, Alone, Sending
  <1>3. ASSUME NEW d \in Callers, d # c PROVE Sends(d)' BY <1>1, <1>2, <1>3, SendsKept
  <1> QED BY <1>3 DEF Sending

\* While one goes from one step to the next before send, its request is kept.
LEMMA SendsOn ==
  ASSUME IInv, [Next]_vars, ~overlap', NEW c \in Callers,
         call[c].pc \in {"getClient", "makeClient", "select", "dial"},
         call'[c].pc \in {"makeClient", "select", "dial", "send"},
         \A d \in Callers : d # c => call'[d] = call[d],
         call'[c].req = call[c].req, call'[c].ready = call[c].ready,
         call'[c].failed = call[c].failed, UNCHANGED content
  PROVE  Sending'
  <1>1. Sends(c) BY NoOverlap DEF IInv, Alone, Sending
  <1>2. Sends(c)' BY <1>1 DEF Sends
  <1> QED BY <1>2, SendsAlone

\* A caller's request keeps what the caller has put into it.
LEMMA SendingStep ==
  ASSUME IInv, [Next]_vars, ~overlap' PROVE Sending'
  <1>0. /\ call \in [Callers -> Calls] /\ \A c \in Callers : call[c] \in Calls
        /\ Handlers \subseteq Callers /\ Beats \subseteq Callers
        /\ ~overlap /\ \A d \in Callers : Sends(d)
        /\ content \in [Messages -> Contents]
    BY Typing, Basics, NoOverlap DEF IInv, Alone, Sending
  <1>1. ASSUME NEW c \in Callers, Active = {}, NEW m \in Messages, NEW a,
               Asks(a, c, 0), call[c].pc = "idle", content' = [content EXCEPT ![m] = a],
               call'[c].pc \in {"getClient", "send"}, call'[c].req = m,
               call'[c].ready = call[c].ready, call'[c].failed = call[c].failed,
               \A d \in Callers : d # c => call'[d] = call[d]
        PROVE  Sending'
    <2>1. Asks(content'[m], c, 0) BY <1>0, <1>1
    <2>2. Sends(c)' BY <1>0, <1>1, <2>1 DEF Sends
    <2>3. \A d \in Callers : call[d].pc \in {"idle", "done"} BY <1>0, <1>1, Silence
    <2>4. ASSUME NEW d \in Callers, d # c PROVE Sends(d)'
      BY <1>0, <1>1, <2>3, <2>4, SendsKept
    <2> QED BY <2>2, <2>4 DEF Sending
  <1>2. ASSUME NEW h \in Handlers, Begin(h) PROVE Sending'
    <2>1. PICK m \in Messages :
            /\ content' = [content EXCEPT ![m] = [Blank EXCEPT !.of = h]]
            /\ call' = [call EXCEPT ![h].pc = "getClient", ![h].req = m]
      BY <1>2 DEF Begin
    <2>3. Asks([Blank EXCEPT !.of = h], h, 0)
      <3>1. h \notin Beats BY <1>2, Basics
      <3>2. (h \in Beats) = FALSE BY <3>1
      <3> QED BY <3>2 DEF Asks, Blank
    <2>4. Active = {} /\ call[h].pc = "idle" BY <1>2, NoOverlap DEF Begin, At
    <2>5. /\ call'[h].pc = "getClient" /\ call'[h].req = m
          /\ call'[h].ready = call[h].ready /\ call'[h].failed = call[h].failed
          /\ \A d \in Callers : d # h => call'[d] = call[d]
      BY <1>0, <2>1 DEF Calls
    <2> QED BY <1>0, <1>1, <2>1, <2>3, <2>4, <2>5
  <1>3. ASSUME NEW b \in Beats, NEW k \in Clients, Beat(b, k) PROVE Sending'
    <2>1. PICK m \in Messages :
            /\ content' = [content EXCEPT ![m] = [Blank EXCEPT !.of = b, !.hb = TRUE]]
            /\ call' = [call EXCEPT ![b].pc = "send", ![b].req = m, ![b].rpc = k]
      BY <1>3 DEF Beat
    <2>2. Asks([Blank EXCEPT !.of = b, !.hb = TRUE], b, 0) BY DEF Asks, Blank
    <2>3. Active = {} /\ call[b].pc = "idle" BY <1>3, NoOverlap DEF Beat, At
    <2>4. /\ call'[b].pc = "send" /\ call'[b].req = m
          /\ call'[b].ready = call[b].ready /\ call'[b].failed = call[b].failed
          /\ \A d \in Callers : d # b => call'[d] = call[d]
      BY <1>0, <2>1 DEF Calls
    <2> QED BY <1>0, <1>1, <2>1, <2>2, <2>3, <2>4
  <1>4. ASSUME NEW h \in Handlers, GetClient(h) \/ MakeClient(h) \/ Select(h) \/ Dial(h)
        PROVE  Sending'
    <2>1. UNCHANGED content BY <1>4 DEF GetClient, MakeClient, Select, Dial
    <2>2. /\ call[h].pc \in {"getClient", "makeClient", "select", "dial"}
          /\ call'[h].pc \in {"makeClient", "select", "dial", "send"}
          /\ \A d \in Callers : d # h => call'[d] = call[d]
          /\ call'[h].req = call[h].req /\ call'[h].ready = call[h].ready
          /\ call'[h].failed = call[h].failed
      BY <1>0, <1>4 DEF GetClient, MakeClient, Select, Dial, At, Calls
    <2> QED BY <1>0, <2>1, <2>2, SendsOn
  <1>5. ASSUME NEW c \in Callers, call[c].pc \notin {"idle", "done"},
               call'[c].pc \in {"wait", "reply", "done"},
               \A d \in Callers : d # c => call'[d] = call[d]
        PROVE  Sending'
    <2>1. Sends(c)' BY <1>5 DEF Sends
    <2> QED BY <1>5, <2>1, SendsAlone
  <1>6. ASSUME NEW h \in Handlers, HandlerFails(h) \/ Finish(h) PROVE Sending'
    <2>1. /\ call[h].pc \notin {"idle", "done"} /\ call'[h].pc = "done"
          /\ \A d \in Callers : d # h => call'[d] = call[d]
      BY <1>0, <1>6 DEF HandlerFails, Fail, Finish, At, NoCall
    <2> QED BY <1>0, <1>5, <2>1
  <1>7. ASSUME NEW c \in Callers, Write(c) \/ WriteFails(c) \/ Receive(c) \/ TimeOut(c)
        PROVE  Sending'
    <2>1. /\ call[c].pc \notin {"idle", "done"} /\ call'[c].pc \in {"wait", "reply", "done"}
          /\ \A d \in Callers : d # c => call'[d] = call[d]
      <3>1. CASE Write(c) BY <1>0, <3>1 DEF Write, At, Calls
      <3>2. CASE WriteFails(c) BY <1>0, <3>2 DEF WriteFails, Ends, At, Calls
      <3>3. CASE Receive(c) BY <1>0, <3>3 DEF Receive, At, NoCall, Calls
      <3>4. CASE TimeOut(c) BY <1>0, <3>4 DEF TimeOut, At, NoCall
      <3> QED BY <1>7, <3>1, <3>2, <3>3, <3>4
    <2> QED BY <1>5, <2>1
  <1>8. ASSUME NEW c \in Callers, Register(c) PROVE Sending'
    <2>1. call[c].pc = "send" BY <1>8 DEF Register, At
    <2>2. CASE UNCHANGED rpc /\ call' = [call EXCEPT ![c].pc = "wait", ![c].failed = TRUE,
                                                     ![c].ready = TRUE]
      <3>1. call'[c].pc = "wait" /\ \A d \in Callers : d # c => call'[d] = call[d]
        BY <1>0, <2>2 DEF Calls
      <3> QED BY <1>5, <2>1, <3>1
    <2>3. CASE ~ (UNCHANGED rpc /\ call' = [call EXCEPT ![c].pc = "wait", ![c].failed = TRUE,
                                                        ![c].ready = TRUE])
      <3> DEFINE m == call[c].rpc
                 n == rpc[m].seq + 1
                 x == rpc[m].conn
      <3>1. /\ m \in Clients /\ n \in Seqs
            /\ \A k \in Clients, s \in Seqs :
                 rpc'[k].pending[s] = IF k = m /\ s = n THEN c ELSE rpc[k].pending[s]
        BY <1>8, <2>3, Registering
      <3>2. call' = [call EXCEPT ![c].pc = "setSeq", ![c].seq = n, ![c].conn = x]
        BY <1>8, <2>3, Registering
      <3>3. UNCHANGED content BY <1>8 DEF Register
      <3> HIDE DEF n, x
      <3>4. /\ call'[c].pc = "setSeq" /\ call'[c].seq = n /\ call'[c].rpc = m
            /\ call'[c].req = call[c].req /\ call'[c].ready = call[c].ready
            /\ call'[c].failed = call[c].failed
            /\ \A d \in Callers : d # c => call'[d] = call[d]
        BY <1>0, <3>2 DEF Calls
      <3>5. Sends(c)' BY <1>0, <2>1, <3>1, <3>3, <3>4 DEF Sends
      <3> QED BY <2>1, <3>4, <3>5, SendsAlone
    <2> QED BY <2>2, <2>3
  <1>9. ASSUME NEW c \in Callers, SetSeq(c) PROVE Sending'
    <2>1. /\ call[c].pc = "setSeq" /\ call' = [call EXCEPT ![c].pc = "write"]
          /\ content' = [content EXCEPT ![call[c].req].seq = call[c].seq]
          /\ UNCHANGED rpc
      BY <1>9 DEF SetSeq, At
    <2>2. call[c].req \in Messages BY <2>1, Equipped
    <2>3. /\ call'[c].pc = "write" /\ call'[c].seq = call[c].seq /\ call'[c].rpc = call[c].rpc
          /\ call'[c].req = call[c].req /\ call'[c].ready = call[c].ready
          /\ call'[c].failed = call[c].failed
          /\ \A d \in Callers : d # c => call'[d] = call[d]
      BY <1>0, <2>1 DEF Calls
    <2>4. Asks(content[call[c].req], c, 0) BY <1>0, <2>1 DEF Sends
    <2>5. content'[call[c].req] = [content[call[c].req] EXCEPT !.seq = call[c].seq]
      BY <1>0, <2>1, <2>2
    <2>6. Asks(content'[call[c].req], c, call[c].seq)
      <3>1. content[call[c].req] \in Contents BY <1>0, <2>2
      <3> QED BY <2>4, <2>5, <3>1 DEF Asks, Contents
    <2>7. Sends(c)' BY <1>0, <2>1, <2>3, <2>6 DEF Sends
    <2> QED BY <2>1, <2>3, <2>7, SendsAlone
  <1>10. ASSUME \A d \in Callers : call'[d] = call[d],
                \A d \in Callers :
                  call[d].pc \in {"getClient", "makeClient", "select", "dial", "send", "setSeq",
                                  "write"} =>
                    /\ UNCHANGED content
                    /\ \A k \in Clients, s \in Seqs : rpc[k].pending[s] = d
                                                        => rpc'[k].pending[s] = d
         PROVE  Sending'
    <2>1. SUFFICES ASSUME NEW d \in Callers PROVE Sends(d)' BY DEF Sending
    <2>2. CASE call[d].pc \in {"idle", "wait", "reply", "done"}
      BY <1>0, <1>10, <2>2, SendsKept
    <2>3. CASE call[d].pc \in {"getClient", "makeClient", "select", "dial", "send"}
      <3>1. UNCHANGED content BY <1>10, <2>3
      <3> QED BY <1>0, <1>10, <2>3, <3>1 DEF Sends
    <2>4. CASE call[d].pc \in {"setSeq", "write"}
      <3>1. call[d].rpc \in Clients BY <2>4, Equipped
      <3>2. UNCHANGED content /\ \A s \in Seqs : rpc[call[d].rpc].pending[s] = d
                                                   => rpc'[call[d].rpc].pending[s] = d
        BY <1>10, <2>4, <3>1
      <3> QED BY <1>0, <1>10, <3>2, SendsKept
    <2> QED BY <1>0, <2>2, <2>3, <2>4 DEF Calls
  <1>11. ASSUME NEW k \in Clients, Read(k) PROVE Sending'
    <2>1. wire # {} /\ UNCHANGED call BY <1>11 DEF Read
    <2>2. \A d \in Callers : call[d].pc \in {"idle", "wait", "done"}
      <3>1. SUFFICES ASSUME NEW d \in Callers, call[d].pc \notin {"idle", "wait", "done"}
                     PROVE  FALSE
        OBVIOUS
      <3> QED BY <1>0, <2>1, <3>1, Quiet
    <2> QED BY <1>10, <2>1, <2>2
  <1>12. ASSUME NEW k \in Clients, Lookup(k) PROVE Sending'
    <2>1. UNCHANGED call /\ rpc[k].input = "got" BY <1>12 DEF Lookup, InputAt
    <2>2. \A d \in Callers : call[d].pc \in {"idle", "wait", "done"}
      <3>1. SUFFICES ASSUME NEW d \in Callers, call[d].pc \notin {"idle", "wait", "done"}
                     PROVE  FALSE
        OBVIOUS
      <3> QED BY <1>0, <2>1, <3>1, Quiet
    <2> QED BY <1>10, <2>1, <2>2
  <1>13. ASSUME NEW k \in Clients, Handle(k) PROVE Sending'
    <2>1. UNCHANGED content /\ rpc[k].input = "handle" BY <1>13 DEF Handle, InputAt
    <2>2. \A l \in Clients : rpc'[l].pending = rpc[l].pending BY <1>13, PendingElse
    <2>3. CASE UNCHANGED call BY <1>10, <2>1, <2>2, <2>3
    <2>4. ASSUME NEW c \in Callers, c = rpc[k].inCall, NEW e \in BOOLEAN,
                 call' = [call EXCEPT ![c] = Ends(c, rpc[k].target, e)]
          PROVE  Sending'
      <3>1. call[c].pc \in {"wait", "done"}
        BY <1>0, <2>1, <2>4 DEF IInv, Alone, InHand, Awaits
      <3>2. call'[c].pc = call[c].pc /\ \A d \in Callers : d # c => call'[d] = call[d]
        BY <1>0, <2>4 DEF Ends, Calls
      <3>3. Sends(c)' BY <3>1, <3>2 DEF Sends
      <3>4. ASSUME NEW d \in Callers, d # c PROVE Sends(d)'
        BY <1>0, <2>1, <2>2, <3>2, <3>4, SendsKept, Equipped
      <3> QED BY <3>3, <3>4 DEF Sending
    <2> QED BY <1>13, <2>3, <2>4, Handling
  <1>14. ASSUME NEW k \in Clients, ReadError(k) \/ Reconnect(k) \/ GiveUp(k) \/ Break(k)
         PROVE  Sending'
    <2>1. UNCHANGED <<call, content>> BY <1>14 DEF ReadError, Reconnect, GiveUp, Break
    <2>2. \A l \in Clients : rpc'[l].pending = rpc[l].pending BY <1>14, PendingElse
    <2> QED BY <1>10, <2>1, <2>2
  <1>15. ASSUME NEW k \in Clients, Close(k) PROVE Sending'
    <2>1. UNCHANGED content /\ rpc'[k].status = "Close"
      BY <1>15, Typing DEF Close, RpcClients
    <2>2. \A l \in Clients : rpc'[l].pending = rpc[l].pending BY <1>15, PendingElse
    <2>3. SUFFICES ASSUME NEW d \in Callers PROVE Sends(d)' BY DEF Sending
    <2>4. CASE call'[d] = call[d] BY <1>0, <2>1, <2>2, <2>4, SendsKept, Equipped
    <2>5. CASE /\ \E s \in Seqs : rpc[k].pending[s] = d
               /\ call'[d] = Ends(d, 0, TRUE) /\ call[d].pc # "done"
      <3>1. call[d].rpc = k /\ call[d].pc \in {"setSeq", "write", "wait", "reply"}
        BY <2>5 DEF IInv, Registered, Owns
      <3>2. /\ call'[d].pc = call[d].pc /\ call'[d].req = call[d].req
            /\ call'[d].seq = call[d].seq /\ call'[d].rpc = k /\ call'[d].failed
        BY <1>0, <2>5, <3>1 DEF Ends, Calls
      <3> QED BY <1>0, <2>1, <3>1, <3>2 DEF Sends
    <2> QED BY <1>15, <2>4, <2>5 DEF Close, Ends
  <1>16. CASE UNCHANGED vars BY <1>10, <1>16 DEF vars
  <1> QED BY <1>2, <1>3, <1>4, <1>6, <1>7, <1>8, <1>9, <1>11, <1>12, <1>13, <1>14, <1>15,
     <1>16 DEF Next, HandlerStep, Call, Input


\* Everything on the wire is awaited, and remains so.
LEMMA AskedStep ==
  ASSUME IInv, [Next]_vars, ~overlap' PROVE Asked'
  <1>0. /\ call \in [Callers -> Calls] /\ \A c \in Callers : call[c] \in Calls
        /\ rpc \in [Clients -> RpcClients] /\ \A k \in Clients : rpc[k] \in RpcClients
        /\ Handlers \subseteq Callers /\ Beats \subseteq Callers
        /\ \A w \in wire : w.rpc \in Clients /\ w.from \in Callers
        /\ ~overlap /\ Asked /\ Connected
        /\ \A c \in Callers : Sends(c)
    BY Typing, Basics, NoOverlap DEF IInv, Alone, Sending
  <1>1. ASSUME wire = {}, UNCHANGED wire PROVE Asked'
    BY <1>1 DEF Asked
  <1>2. ASSUME NEW c \in Callers, call[c].pc \notin {"idle", "done"},
               call[c].pc # "wait" \/ call[c].ready, UNCHANGED wire
        PROVE  Asked'
    BY <1>0, <1>1, <1>2, Quiet
  <1>3. ASSUME wire' \subseteq wire,
               \A w \in wire' : /\ rpc'[w.rpc].up /\ rpc'[w.rpc].pending = rpc[w.rpc].pending
                                /\ call'[w.from] = call[w.from]
        PROVE  Asked'
    BY <1>0, <1>3 DEF Asked, Awaits
  <1>4. CASE (\E h \in Handlers : Begin(h)) \/ (\E b \in Beats, k \in Clients : Beat(b, k))
    <2>1. wire = {} BY <1>0, <1>4, NoOverlap, Silence
    <2>2. UNCHANGED wire BY <1>4 DEF Begin, Beat, netVars
    <2> QED BY <1>1, <2>1, <2>2
  <1>5. ASSUME NEW h \in Handlers, HandlerStep(h) PROVE Asked'
    <2>1. call[h].pc \notin {"idle", "done", "wait"}
      BY <1>5 DEF HandlerStep, GetClient, MakeClient, HandlerFails, Select, Dial, Finish, At
    <2>2. UNCHANGED wire
      BY <1>5 DEF HandlerStep, GetClient, MakeClient, HandlerFails, Fail, Select, Dial,
         Finish, netVars
    <2> QED BY <1>0, <1>2, <2>1, <2>2
  <1>6. ASSUME NEW c \in Callers, Register(c) \/ SetSeq(c) \/ WriteFails(c) \/ Receive(c)
        PROVE  Asked'
    <2>1. /\ call[c].pc \notin {"idle", "done"}
          /\ call[c].pc # "wait" \/ call[c].ready
      BY <1>6 DEF Register, SetSeq, WriteFails, Receive, At
    <2>2. UNCHANGED wire BY <1>6 DEF Register, SetSeq, WriteFails, Receive, netVars
    <2> QED BY <1>0, <1>2, <2>1, <2>2
  <1>7. ASSUME NEW c \in Callers, Write(c) PROVE Asked'
    <2>1. call[c].pc = "write" /\ call' = [call EXCEPT ![c].pc = "wait"] /\ UNCHANGED rpc
      BY <1>7 DEF Write, At
    <2>2. wire = {} BY <1>0, <2>1, Quiet
    <2>3. call[c].rpc \in Clients /\ Asks(content[call[c].req], c, call[c].seq)
      BY <1>0, <2>1, Equipped DEF Sends
    <2>4. SUFFICES ASSUME NEW w \in wire'
                   PROVE  /\ rpc[w.rpc].up /\ w.msg.seq \in Seqs
                          /\ Asks(w.msg, w.from, w.msg.seq) /\ Awaits(w.from, w.rpc)'
                          /\ rpc[w.rpc].pending[w.msg.seq] = w.from
      BY <2>1 DEF Asked
    <2>5. /\ rpc[call[c].rpc].up
          /\ w = [rpc |-> call[c].rpc, msg |-> content[call[c].req], from |-> c]
      BY <1>7, <2>2, <2>4 DEF Write
    <2>6. w.rpc = call[c].rpc /\ w.msg = content[call[c].req] /\ w.from = c BY <2>5
    <2>7. w.msg.seq = call[c].seq BY <2>3, <2>6 DEF Asks
    <2>8. rpc[call[c].rpc].status # "Close" BY <2>3, <2>5, Working
    <2>9. /\ call[c].seq \in Seqs /\ rpc[call[c].rpc].pending[call[c].seq] = c
          /\ ~call[c].ready /\ ~call[c].failed
      BY <1>0, <2>1, <2>8 DEF Sends
    <2>10. Awaits(w.from, w.rpc)'
      <3>1. /\ call'[c].pc = "wait" /\ call'[c].rpc = call[c].rpc
            /\ call'[c].ready = call[c].ready /\ call'[c].failed = call[c].failed
        BY <1>0, <2>1 DEF Calls
      <3> QED BY <2>6, <2>9, <3>1 DEF Awaits
    <2> QED BY <2>3, <2>5, <2>6, <2>7, <2>9, <2>10
  <1>8. ASSUME NEW b \in Callers, TimeOut(b) PROVE Asked'
    <2>1. /\ b \in Beats /\ call' = [call EXCEPT ![b] = NoCall("done")]
          /\ UNCHANGED <<rpc, wire>>
      BY <1>8 DEF TimeOut, netVars
    <2>2. call'[b].pc = "done" /\ \A d \in Callers : d # b => call'[d] = call[d]
      BY <1>0, <2>1 DEF NoCall
    <2> QED BY <1>0, <2>1, <2>2 DEF Asked, Awaits
  <1>9. ASSUME NEW k \in Clients, Read(k) PROVE Asked'
    <2>1. PICK w \in wire : wire' = wire \ {w} BY <1>9 DEF Read
    <2>2. wire' = {} BY <1>0, <2>1, OneAnswer
    <2> QED BY <2>2 DEF Asked
  <1>10. ASSUME NEW k \in Clients, Lookup(k) PROVE Asked'
    <2>1. rpc[k].input = "got" /\ UNCHANGED wire BY <1>10 DEF Lookup, InputAt, netVars
    <2> QED BY <1>0, <1>1, <2>1, OneAnswer
  <1>11. ASSUME NEW k \in Clients, Handle(k) PROVE Asked'
    <2>1. /\ rpc[k].input = "handle" /\ UNCHANGED wire
          /\ \A l \in Clients : rpc'[l].up = rpc[l].up
      BY <1>0, <1>11 DEF Handle, InputAt, netVars, RpcClients
    <2>2. \A l \in Clients : rpc'[l].pending = rpc[l].pending BY <1>11, PendingElse
    <2>3. CASE wire = {} BY <1>1, <2>1, <2>3
    <2>4. CASE wire # {}
      <3>1. call[rpc[k].inCall].pc = "done" BY <1>0, <2>1, <2>4, OneAnswer
      <3>2. \A d \in Callers : call'[d] = call[d]
        BY <1>0, <1>11, <3>1, Handling, DoneStays
      <3>3. \A w \in wire : rpc[w.rpc].up BY <1>0 DEF Asked
      <3> QED BY <1>0, <1>3, <2>1, <2>2, <3>2, <3>3
    <2> QED BY <2>3, <2>4
  <1>12. ASSUME NEW k \in Clients, ReadError(k) \/ Reconnect(k) \/ GiveUp(k) PROVE Asked'
    <2>1. \A l \in Clients : rpc'[l].pending = rpc[l].pending BY <1>12, PendingElse
    <2>2. UNCHANGED <<call, wire>> BY <1>12 DEF ReadError, Reconnect, GiveUp, netVars
    <2>3. \A l \in Clients : rpc[l].up => rpc'[l].up
      <3>1. CASE ReadError(k) BY <1>0, <3>1 DEF ReadError, RpcClients
      <3>2. CASE Reconnect(k) BY <1>0, <3>2 DEF Reconnect, RpcClients
      <3>3. CASE GiveUp(k) BY <1>0, <3>3 DEF GiveUp, RpcClients
      <3> QED BY <1>12, <3>1, <3>2, <3>3
    <2>4. \A w \in wire : rpc[w.rpc].up BY <1>0 DEF Asked
    <2> QED BY <1>0, <1>3, <2>1, <2>2, <2>3, <2>4
  <1>13. ASSUME NEW k \in Clients, Close(k) PROVE Asked'
    <2>1. \A l \in Clients : rpc'[l].pending = rpc[l].pending BY <1>13, PendingElse
    <2>2. UNCHANGED wire /\ rpc[k].input = "close" BY <1>13 DEF Close, InputAt, netVars
    <2>3. \A l \in Clients : rpc'[l].up = rpc[l].up BY <1>0, <1>13 DEF Close, RpcClients
    <2>4. ~rpc[k].up BY <1>0, <2>2 DEF Connected
    <2>5. ASSUME NEW w \in wire PROVE rpc[w.rpc].up /\ call'[w.from] = call[w.from]
      <3>1. /\ rpc[w.rpc].up /\ w.rpc # k /\ w.msg.seq \in Seqs
            /\ rpc[w.rpc].pending[w.msg.seq] = w.from
        BY <1>0, <2>4, <2>5 DEF Asked
      <3>2. w.from # Nobody /\ w.from \in Callers /\ w.rpc \in Clients BY <1>0, Basics
      <3>3. \A s \in Seqs : rpc[k].pending[s] # w.from
        BY <3>1, <3>2 DEF IInv, Registered
      <3> QED BY <1>13, <3>1, <3>2, <3>3 DEF Close
    <2> QED BY <1>0, <1>3, <2>1, <2>2, <2>3, <2>5
  <1>14. ASSUME NEW k \in Clients, Break(k) PROVE Asked'
    <2>1. \A l \in Clients : rpc'[l].pending = rpc[l].pending BY <1>14, PendingElse
    <2>2. /\ UNCHANGED call /\ wire' = {w \in wire : w.rpc # k}
          /\ \A l \in Clients : l # k => rpc'[l] = rpc[l]
      BY <1>0, <1>14 DEF Break
    <2>3. \A w \in wire : rpc[w.rpc].up BY <1>0 DEF Asked
    <2> QED BY <1>0, <1>3, <2>1, <2>2, <2>3
  <1>15. CASE UNCHANGED vars
    <2>1. UNCHANGED <<rpc, call, wire>> BY <1>15 DEF vars, netVars
    <2> QED BY <1>0, <2>1 DEF Asked, Awaits
  <1> QED BY <1>4, <1>5, <1>6, <1>7, <1>8, <1>9, <1>10, <1>11, <1>12, <1>13, <1>14, <1>15
    DEF Next, Call, Input

\* What input has decoded remains the response to a call that waits.
LEMMA GotStep ==
  ASSUME IInv, [Next]_vars, ~overlap' PROVE Got'
  <1>0. /\ call \in [Callers -> Calls] /\ \A c \in Callers : call[c] \in Calls
        /\ rpc \in [Clients -> RpcClients] /\ \A k \in Clients : rpc[k] \in RpcClients
        /\ Handlers \subseteq Callers /\ Beats \subseteq Callers
        /\ ~overlap /\ Got /\ content \in [Messages -> Contents]
    BY Typing, Basics, NoOverlap DEF IInv, Alone
  <1>1. ASSUME \A k \in Clients : rpc'[k].input # "got" PROVE Got'
    BY <1>1 DEF Got
  <1>2. CASE (\E h \in Handlers : Begin(h)) \/ (\E b \in Beats, k \in Clients : Beat(b, k))
    <2>1. \A k \in Clients : rpc[k].input # "got" BY <1>0, <1>2, NoOverlap, Silence
    <2>2. UNCHANGED rpc BY <1>2 DEF Begin, Beat
    <2> QED BY <1>1, <2>1, <2>2
  <1>3. ASSUME NEW c \in Callers, call[c].pc \notin {"idle", "done"},
               call[c].pc # "wait" \/ call[c].ready,
               \A k \in Clients : rpc'[k].input = "got" => rpc[k].input = "got"
        PROVE  Got'
    BY <1>0, <1>1, <1>3, Quiet
  <1>4. ASSUME NEW h \in Handlers, HandlerStep(h) PROVE Got'
    <2>1. call[h].pc \notin {"idle", "done", "wait"}
      BY <1>4 DEF HandlerStep, GetClient, MakeClient, HandlerFails, Select, Dial, Finish, At
    <2>2. CASE Dial(h)
      <3>1. \A k \in Clients : rpc'[k].input = "got" => rpc[k].input = "got"
        BY <1>0, <2>2 DEF Dial, NewRPCClient, RpcClients
      <3> QED BY <1>0, <1>3, <2>1, <3>1
    <2>3. CASE UNCHANGED rpc BY <1>0, <1>3, <2>1, <2>3
    <2> QED BY <1>4, <2>2, <2>3 DEF HandlerStep, GetClient, MakeClient, HandlerFails, Fail,
            Select, Finish
  <1>5. ASSUME NEW c \in Callers,
               Register(c) \/ SetSeq(c) \/ Write(c) \/ WriteFails(c) \/ Receive(c)
        PROVE  Got'
    <2>1. /\ call[c].pc \notin {"idle", "done"}
          /\ call[c].pc # "wait" \/ call[c].ready
      BY <1>5 DEF Register, SetSeq, Write, WriteFails, Receive, At
    <2>2. \A k \in Clients : rpc'[k].input = "got" => rpc[k].input = "got"
      <3>1. CASE Register(c) BY <3>1, Registering
      <3>2. CASE WriteFails(c) BY <3>2, Withdrawing
      <3> QED BY <1>5, <3>1, <3>2 DEF SetSeq, Write, Receive
    <2> QED BY <1>3, <2>1, <2>2
  <1>kept. ASSUME UNCHANGED content, wire' \subseteq wire,
                  \A k \in Clients : rpc'[k].pending = rpc[k].pending,
                  \A k \in Clients : rpc'[k].input = "got" =>
                     rpc[k].input = "got" /\ rpc'[k].target = rpc[k].target,
                  \A k \in Clients : rpc[k].input = "got" =>
                     \/ call'[content[rpc[k].target].of] = call[content[rpc[k].target].of]
                     \/ /\ content[rpc[k].target].of \in Beats
                        /\ call'[content[rpc[k].target].of].pc = "done"
           PROVE  Got'
    <2>1. SUFFICES ASSUME NEW k \in Clients, rpc'[k].input = "got",
                          NEW m, m = content'[rpc'[k].target]
                   PROVE  /\ m.seq \in Seqs /\ m.of \in Callers /\ rpc'[k].pending[m.seq] = m.of
                          /\ Answers(m, m.of) /\ Awaits(m.of, k)' /\ wire' = {}
      BY DEF Got
    <2>2. rpc[k].input = "got" /\ m = content[rpc[k].target] BY <1>kept, <2>1
    <2>3. /\ m.seq \in Seqs /\ m.of \in Callers /\ rpc[k].pending[m.seq] = m.of
          /\ Answers(m, m.of) /\ Awaits(m.of, k) /\ wire = {}
      BY <1>0, <2>2 DEF Got
    <2>4. \/ call'[m.of] = call[m.of]
          \/ m.of \in Beats /\ call'[m.of].pc = "done"
      BY <1>kept, <2>2
    <2>5. Awaits(m.of, k)' BY <2>3, <2>4 DEF Awaits
    <2>6. wire' = {} BY <1>kept, <2>3
    <2>7. rpc'[k].pending = rpc[k].pending BY <1>kept
    <2> QED BY <2>3, <2>5, <2>6, <2>7
  <1>6. ASSUME NEW b \in Callers, TimeOut(b) PROVE Got'
    <2>1. /\ b \in Beats /\ call' = [call EXCEPT ![b] = NoCall("done")]
          /\ UNCHANGED <<rpc, wire, content>>
      BY <1>6 DEF TimeOut, netVars
    <2>2. call'[b].pc = "done" /\ \A d \in Callers : d # b => call'[d] = call[d]
      BY <1>0, <2>1 DEF NoCall
    <2>3. ASSUME NEW k \in Clients, rpc[k].input = "got"
          PROVE  \/ call'[content[rpc[k].target].of] = call[content[rpc[k].target].of]
                 \/ /\ content[rpc[k].target].of \in Beats
                    /\ call'[content[rpc[k].target].of].pc = "done"
      BY <1>0, <2>1, <2>2, <2>3 DEF Got
    <2> QED BY <1>kept, <2>1, <2>3
  <1>7. ASSUME NEW k \in Clients, Read(k) PROVE Got'
    <2>1. PICK w \in wire, e \in BOOLEAN :
            /\ w.rpc = k /\ wire' = wire \ {w}
            /\ content' = [content EXCEPT ![rpc[k].target] =
                             [w.msg EXCEPT !.kind = "res", !.err = e]]
      BY <1>7 DEF Read
    <2>2. \A l \in Clients : rpc[l].input # "got" BY <1>0, <2>1, OneAnswer
    <2>3. wire' = {} BY <1>0, <2>1, OneAnswer
    <2>4. /\ w.msg.seq \in Seqs /\ Asks(w.msg, w.from, w.msg.seq) /\ Awaits(w.from, k)
          /\ rpc[k].pending[w.msg.seq] = w.from
          /\ w.msg \in Contents /\ w.from \in Callers
      BY <2>1, Typing, NoOverlap DEF IInv, Alone, Asked
    <2>5. /\ UNCHANGED call /\ rpc'[k].target = rpc[k].target
          /\ rpc'[k].pending = rpc[k].pending
          /\ \A l \in Clients : l # k => rpc'[l] = rpc[l]
      BY <1>0, <1>7 DEF Read, RpcClients
    <2>6. rpc[k].target \in Messages BY <1>7, Equipped DEF Read, InputAt
    <2>7. \A l \in Clients : rpc'[l].input = "got" => l = k BY <2>2, <2>5
    <2>8. SUFFICES ASSUME NEW m, m = content'[rpc'[k].target]
                   PROVE  /\ m.seq \in Seqs /\ m.of \in Callers /\ rpc'[k].pending[m.seq] = m.of
                          /\ Answers(m, m.of) /\ Awaits(m.of, k)'
      BY <2>3, <2>7 DEF Got
    <2>9. m = [w.msg EXCEPT !.kind = "res", !.err = e] BY <1>0, <2>1, <2>5, <2>6, <2>8
    <2>10. m.kind = "res" /\ m.of = w.from /\ m.seq = w.msg.seq /\ m.hb = (w.from \in Beats)
      BY <2>4, <2>9 DEF Asks, Contents
    <2>11. Awaits(m.of, k)' BY <2>4, <2>5, <2>10 DEF Awaits
    <2> QED BY <2>4, <2>5, <2>10, <2>11 DEF Answers
  <1>8. ASSUME NEW k \in Clients, Lookup(k) PROVE Got'
    <2>1. rpc[k].input = "got" BY <1>8 DEF Lookup, InputAt
    <2>2. \A l \in Clients : l # k => rpc'[l] = rpc[l] BY <1>8, Finding
    <2>3. rpc'[k].input = "handle" BY <1>8, Finding
    <2> QED BY <1>0, <1>1, <2>1, <2>2, <2>3, OneAnswer
  <1>10. ASSUME NEW k \in Clients, Handle(k) PROVE Got'
    <2>1. rpc[k].input = "handle" /\ UNCHANGED <<wire, content>>
      BY <1>10 DEF Handle, InputAt, netVars
    <2>2. \A l \in Clients : rpc'[l].pending = rpc[l].pending BY <1>10, PendingElse
    <2>3. \A l \in Clients : rpc'[l].input = "got" =>
            rpc[l].input = "got" /\ rpc'[l].target = rpc[l].target
      BY <1>0, <1>10 DEF Handle, RpcClients
    <2>4. ASSUME NEW l \in Clients, rpc[l].input = "got"
          PROVE  call'[content[rpc[l].target].of] = call[content[rpc[l].target].of]
      <3>1. call[rpc[k].inCall].pc = "done" BY <1>0, <2>1, <2>4, OneAnswer
      <3>2. \A d \in Callers : call'[d] = call[d]
        BY <1>0, <1>10, <3>1, Handling, DoneStays
      <3> QED BY <1>0, <2>4, <3>2 DEF Got
    <2> QED BY <1>kept, <2>1, <2>2, <2>3, <2>4
  <1>11. ASSUME NEW k \in Clients, ReadError(k) \/ Reconnect(k) \/ GiveUp(k) PROVE Got'
    <2>1. \A l \in Clients : rpc'[l].pending = rpc[l].pending BY <1>11, PendingElse
    <2>2. UNCHANGED <<call, wire, content>>
      BY <1>11 DEF ReadError, Reconnect, GiveUp, netVars
    <2>3. \A l \in Clients : rpc'[l].input = "got" =>
            rpc[l].input = "got" /\ rpc'[l].target = rpc[l].target
      <3>1. CASE ReadError(k) BY <1>0, <3>1 DEF ReadError, RpcClients
      <3>2. CASE Reconnect(k) BY <1>0, <3>2 DEF Reconnect, RpcClients
      <3>3. CASE GiveUp(k) BY <1>0, <3>3 DEF GiveUp, RpcClients
      <3> QED BY <1>11, <3>1, <3>2, <3>3
    <2> QED BY <1>kept, <2>1, <2>2, <2>3
  <1>12. ASSUME NEW k \in Clients, Close(k) PROVE Got'
    <2>1. \A l \in Clients : rpc'[l].pending = rpc[l].pending BY <1>12, PendingElse
    <2>2. UNCHANGED <<wire, content>> /\ rpc[k].input = "close"
      BY <1>12 DEF Close, InputAt, netVars
    <2>3. \A l \in Clients : rpc'[l].input = "got" =>
            rpc[l].input = "got" /\ rpc'[l].target = rpc[l].target
      BY <1>0, <1>12 DEF Close, RpcClients
    <2>4. ASSUME NEW l \in Clients, rpc[l].input = "got", NEW m, m = content[rpc[l].target]
          PROVE  call'[m.of] = call[m.of]
      <3>1. m.seq \in Seqs /\ m.of \in Callers /\ rpc[l].pending[m.seq] = m.of
        BY <1>0, <2>4 DEF Got
      <3>2. m.of # Nobody /\ l # k BY <2>2, <2>4, <3>1, Basics
      <3>3. \A s \in Seqs : rpc[k].pending[s] # m.of
        BY <3>1, <3>2 DEF IInv, Registered
      <3> QED BY <1>12, <3>1, <3>3 DEF Close
    <2> QED BY <1>kept, <2>1, <2>2, <2>3, <2>4
  <1>13. ASSUME NEW k \in Clients, Break(k) PROVE Got'
    <2>1. \A l \in Clients : rpc'[l].pending = rpc[l].pending BY <1>13, PendingElse
    <2>2. UNCHANGED <<call, content>> /\ wire' \subseteq wire BY <1>13 DEF Break
    <2>3. \A l \in Clients : rpc'[l].input = rpc[l].input /\ rpc'[l].target = rpc[l].target
      BY <1>0, <1>13 DEF Break, RpcClients
    <2> QED BY <1>kept, <2>1, <2>2, <2>3
  <1>14. CASE UNCHANGED vars
    <2>1. UNCHANGED <<rpc, call, wire, content>> BY <1>14 DEF vars, netVars
    <2> QED BY <1>0, <2>1 DEF Got, Awaits
  <1> QED BY <1>2, <1>4, <1>5, <1>6, <1>7, <1>8, <1>10, <1>11, <1>12, <1>13, <1>14
    DEF Next, Call, Input

\* The call that input has found still waits for the response, or has timed out.
LEMMA InHandStep ==
  ASSUME IInv, [Next]_vars, ~overlap' PROVE InHand'
  <1>0. /\ call \in [Callers -> Calls] /\ \A c \in Callers : call[c] \in Calls
        /\ rpc \in [Clients -> RpcClients] /\ \A k \in Clients : rpc[k] \in RpcClients
        /\ Handlers \subseteq Callers /\ Beats \subseteq Callers
        /\ ~overlap /\ InHand /\ content \in [Messages -> Contents]
    BY Typing, Basics, NoOverlap DEF IInv, Alone
  <1>1. ASSUME NEW k \in Clients, rpc[k].input = "handle", rpc'[k].inCall = rpc[k].inCall,
               NEW c, c = rpc[k].inCall,
               \/ call[c].pc = "done"
               \/ /\ call'[c] = call[c] /\ rpc'[k].target = rpc[k].target
                  /\ content'[rpc[k].target] = content[rpc[k].target]
               \/ c \in Beats /\ call'[c].pc = "done"
        PROVE  /\ c \in Callers /\ Awaits(c, k)'
               /\ \A l \in Clients, s \in Seqs : rpc'[l].pending[s] # c
               /\ call'[c].pc = "wait" => Answers(content'[rpc'[k].target], c)
    <2>1. /\ c \in Callers /\ Awaits(c, k)
          /\ \A l \in Clients, s \in Seqs : rpc[l].pending[s] # c
          /\ call[c].pc = "wait" => Answers(content[rpc[k].target], c)
      BY <1>0, <1>1 DEF InHand
    <2>2. \A l \in Clients, s \in Seqs : rpc'[l].pending[s] # c
      BY <2>1, PendingFrom DEF Awaits
    <2>3. call[c].pc = "done" => call'[c] = call[c] BY <2>1, DoneStays
    <2>4. Awaits(c, k)' BY <1>1, <2>1, <2>3 DEF Awaits
    <2> QED BY <1>1, <2>1, <2>2, <2>3, <2>4
  <1>2. ASSUME \A k \in Clients : rpc'[k].input = "handle" =>
                 /\ rpc[k].input = "handle" /\ rpc'[k].inCall = rpc[k].inCall
                 /\ \/ call[rpc[k].inCall].pc = "done"
                    \/ /\ call'[rpc[k].inCall] = call[rpc[k].inCall]
                       /\ rpc'[k].target = rpc[k].target
                       /\ content'[rpc[k].target] = content[rpc[k].target]
                    \/ rpc[k].inCall \in Beats /\ call'[rpc[k].inCall].pc = "done"
        PROVE  InHand'
    <2>1. SUFFICES ASSUME NEW k \in Clients, rpc'[k].input = "handle", NEW c, c = rpc'[k].inCall
                   PROVE  /\ c \in Callers /\ Awaits(c, k)'
                          /\ \A l \in Clients, s \in Seqs : rpc'[l].pending[s] # c
                          /\ call'[c].pc = "wait" => Answers(content'[rpc'[k].target], c)
      BY DEF InHand
    <2> QED BY <1>1, <1>2, <2>1
  <1>3. CASE (\E h \in Handlers : Begin(h)) \/ (\E b \in Beats, k \in Clients : Beat(b, k))
    <2>1. \A k \in Clients : rpc[k].input = "handle" => call[rpc[k].inCall].pc = "done"
      BY <1>0, <1>3, NoOverlap, Silence
    <2>2. UNCHANGED rpc BY <1>3 DEF Begin, Beat
    <2> QED BY <1>2, <2>1, <2>2
  <1>4. ASSUME NEW c \in Callers, call[c].pc \notin {"idle", "done"},
               call[c].pc # "wait" \/ call[c].ready,
               \A k \in Clients : rpc'[k].input = "handle" =>
                 rpc[k].input = "handle" /\ rpc'[k].inCall = rpc[k].inCall
        PROVE  InHand'
    BY <1>0, <1>2, <1>4, Quiet
  <1>5. ASSUME NEW h \in Handlers, HandlerStep(h) PROVE InHand'
    <2>1. call[h].pc \notin {"idle", "done", "wait"}
      BY <1>5 DEF HandlerStep, GetClient, MakeClient, HandlerFails, Select, Dial, Finish, At
    <2>2. CASE Dial(h)
      <3>1. \A k \in Clients : rpc'[k].input = "handle" =>
              rpc[k].input = "handle" /\ rpc'[k].inCall = rpc[k].inCall
        BY <1>0, <2>2 DEF Dial, NewRPCClient, RpcClients
      <3> QED BY <1>0, <1>4, <2>1, <3>1
    <2>3. CASE UNCHANGED rpc BY <1>0, <1>4, <2>1, <2>3
    <2> QED BY <1>5, <2>2, <2>3 DEF HandlerStep, GetClient, MakeClient, HandlerFails, Fail,
            Select, Finish
  <1>6. ASSUME NEW c \in Callers,
               Register(c) \/ SetSeq(c) \/ Write(c) \/ WriteFails(c) \/ Receive(c)
        PROVE  InHand'
    <2>1. /\ call[c].pc \notin {"idle", "done"}
          /\ call[c].pc # "wait" \/ call[c].ready
      BY <1>6 DEF Register, SetSeq, Write, WriteFails, Receive, At
    <2>2. \A k \in Clients : rpc'[k].input = "handle" =>
            rpc[k].input = "handle" /\ rpc'[k].inCall = rpc[k].inCall
      <3>1. CASE Register(c) BY <3>1, Registering
      <3>2. CASE WriteFails(c) BY <3>2, Withdrawing
      <3> QED BY <1>6, <3>1, <3>2 DEF SetSeq, Write, Receive
    <2> QED BY <1>4, <2>1, <2>2
  <1>7. ASSUME NEW b \in Callers, TimeOut(b) PROVE InHand'
    <2>1. /\ b \in Beats /\ call' = [call EXCEPT ![b] = NoCall("done")]
          /\ UNCHANGED <<rpc, content>>
      BY <1>7 DEF TimeOut
    <2>2. call'[b].pc = "done" /\ \A d \in Callers : d # b => call'[d] = call[d]
      BY <1>0, <2>1 DEF NoCall
    <2>3. \A k \in Clients : rpc[k].input = "handle" => rpc[k].inCall \in Callers
      BY <1>0 DEF InHand
    <2> QED BY <1>2, <2>1, <2>2, <2>3
  <1>8. ASSUME NEW k \in Clients, Read(k) PROVE InHand'
    <2>1. wire # {} BY <1>8 DEF Read
    <2>2. \A l \in Clients : rpc'[l].input = "handle" =>
            rpc[l].input = "handle" /\ rpc'[l].inCall = rpc[l].inCall
      BY <1>0, <1>8 DEF Read, RpcClients
    <2> QED BY <1>0, <1>2, <2>1, <2>2, OneAnswer
  <1>9. ASSUME NEW k \in Clients, Lookup(k) PROVE InHand'
    <2>1. rpc[k].input = "got" /\ UNCHANGED <<call, content>> BY <1>9 DEF Lookup, InputAt
    <2>2. PICK m : m = content[rpc[k].target] OBVIOUS
    <2>3. /\ m.seq \in Seqs /\ m.of \in Callers /\ rpc[k].pending[m.seq] = m.of
          /\ Answers(m, m.of) /\ Awaits(m.of, k)
      BY <1>0, <2>1, <2>2 DEF Got, IInv, Alone
    <2>4. /\ \A l \in Clients, s \in Seqs :
               rpc'[l].pending[s] = IF l = k /\ s = m.seq THEN Nobody ELSE rpc[l].pending[s]
          /\ rpc'[k].target = rpc[k].target /\ \A l \in Clients : l # k => rpc'[l] = rpc[l]
          /\ rpc'[k].inCall = m.of
      <3>1. m.seq # 0 BY <2>3, Basics DEF Seqs
      <3> QED BY <1>9, <2>2, <2>3, <3>1, Finding
    <2>5. m.of # Nobody BY <2>3, Basics
    <2>6. \A l \in Clients, s \in Seqs : rpc'[l].pending[s] # m.of
      BY <2>3, <2>4, <2>5 DEF IInv, Registered
    <2>7. Awaits(m.of, k)' BY <2>1, <2>3 DEF Awaits
    <2>8. ASSUME NEW l \in Clients, l # k, rpc[l].input = "handle", NEW c, c = rpc[l].inCall
          PROVE  /\ c \in Callers /\ Awaits(c, l)'
                 /\ \A i \in Clients, s \in Seqs : rpc'[i].pending[s] # c
                 /\ call'[c].pc = "wait" => Answers(content'[rpc'[l].target], c)
      <3>1. rpc'[l].inCall = rpc[l].inCall BY <2>4, <2>8
      <3>2. call[c].pc = "done" BY <1>0, <2>1, <2>8, OneAnswer
      <3> QED BY <1>1, <2>8, <3>1, <3>2
    <2>9. SUFFICES ASSUME NEW l \in Clients, rpc'[l].input = "handle", NEW c, c = rpc'[l].inCall
                   PROVE  /\ c \in Callers /\ Awaits(c, l)'
                          /\ \A i \in Clients, s \in Seqs : rpc'[i].pending[s] # c
                          /\ call'[c].pc = "wait" => Answers(content'[rpc'[l].target], c)
      BY DEF InHand
    <2>10. CASE l = k
      <3>1. c = m.of /\ content'[rpc'[k].target] = m BY <2>1, <2>2, <2>4, <2>9, <2>10
      <3> QED BY <2>3, <2>6, <2>7, <2>10, <3>1
    <2>11. CASE l # k
      <3>1. rpc[l].input = "handle" /\ c = rpc[l].inCall BY <2>4, <2>9, <2>11
      <3> QED BY <2>8, <2>11, <3>1
    <2> QED BY <2>10, <2>11
  <1>10. ASSUME NEW k \in Clients, Handle(k) PROVE InHand'
    <2>1. rpc[k].input = "handle" /\ UNCHANGED content BY <1>10 DEF Handle, InputAt
    <2>2. /\ rpc'[k].input = "read"
          /\ \A l \in Clients : l # k => rpc'[l] = rpc[l]
      BY <1>0, <1>10 DEF Handle, RpcClients
    <2>3. PICK c : c = rpc[k].inCall OBVIOUS
    <2>4. c \in Callers /\ Awaits(c, k) BY <1>0, <2>1, <2>3 DEF InHand
    <2>5. \A d \in Callers : d # c => call'[d] = call[d]
      BY <1>0, <1>10, <2>3, Handling
    <2>6. ASSUME NEW l \in Clients, l # k, rpc[l].input = "handle"
          PROVE  call[rpc[l].inCall].pc = "done" \/ call'[rpc[l].inCall] = call[rpc[l].inCall]
      <3>1. rpc[l].inCall \in Callers /\ Awaits(rpc[l].inCall, l) BY <1>0, <2>6 DEF InHand
      <3>2. CASE rpc[l].inCall # c BY <2>5, <3>1, <3>2
      <3>3. CASE rpc[l].inCall = c
        <4>1. Awaits(c, l) BY <3>1, <3>3
        <4> QED BY <2>4, <2>6, <3>3, <4>1 DEF Awaits
      <3> QED BY <3>2, <3>3
    <2>7. ASSUME NEW l \in Clients, rpc'[l].input = "handle"
          PROVE  l # k /\ rpc[l].input = "handle" /\ rpc'[l] = rpc[l]
      BY <2>2, <2>7
    <2> QED BY <1>2, <2>1, <2>6, <2>7
  <1>11. ASSUME NEW k \in Clients, ReadError(k) \/ Reconnect(k) \/ GiveUp(k) \/ Break(k)
         PROVE  InHand'
    <2>1. UNCHANGED <<call, content>> BY <1>11 DEF ReadError, Reconnect, GiveUp, Break
    <2>2. \A l \in Clients : rpc'[l].input = "handle" =>
            /\ rpc[l].input = "handle" /\ rpc'[l].inCall = rpc[l].inCall
            /\ rpc'[l].target = rpc[l].target
      <3>1. CASE ReadError(k) BY <1>0, <3>1 DEF ReadError, RpcClients
      <3>2. CASE Reconnect(k) BY <1>0, <3>2 DEF Reconnect, RpcClients
      <3>3. CASE GiveUp(k) BY <1>0, <3>3 DEF GiveUp, RpcClients
      <3>4. CASE Break(k) BY <1>0, <3>4 DEF Break, RpcClients
      <3> QED BY <1>11, <3>1, <3>2, <3>3, <3>4
    <2> QED BY <1>2, <2>1, <2>2
  <1>12. ASSUME NEW k \in Clients, Close(k) PROVE InHand'
    <2>1. UNCHANGED content BY <1>12 DEF Close
    <2>2. \A l \in Clients : rpc'[l].input = "handle" =>
            /\ rpc[l].input = "handle" /\ rpc'[l].inCall = rpc[l].inCall
            /\ rpc'[l].target = rpc[l].target
      BY <1>0, <1>12 DEF Close, RpcClients
    <2>3. ASSUME NEW l \in Clients, rpc[l].input = "handle"
          PROVE  call'[rpc[l].inCall] = call[rpc[l].inCall]
      <3>1. /\ rpc[l].inCall \in Callers
            /\ \A s \in Seqs : rpc[k].pending[s] # rpc[l].inCall
        BY <1>0, <2>3 DEF InHand
      <3> QED BY <1>12, <3>1 DEF Close
    <2> QED BY <1>2, <2>1, <2>2, <2>3
  <1>13. CASE UNCHANGED vars
    <2>1. UNCHANGED <<rpc, call, content>> BY <1>13 DEF vars
    <2> QED BY <1>2, <2>1
  <1> QED BY <1>3, <1>5, <1>6, <1>7, <1>8, <1>9, <1>10, <1>11, <1>12, <1>13
    DEF Next, Call, Input

\* The reply of a handler remains the response to its request.
LEMMA RepliedStep ==
  ASSUME IInv, [Next]_vars, ~overlap' PROVE Replied'
  <1>0. /\ call \in [Callers -> Calls] /\ \A c \in Callers : call[c] \in Calls
        /\ Handlers \subseteq Callers /\ Beats \subseteq Callers /\ Handlers \cap Beats = {}
        /\ ~overlap /\ Replied /\ content \in [Messages -> Contents]
        /\ \A c \in Callers : Sends(c)
    BY Typing, Basics, NoOverlap DEF IInv, Alone, Sending
  <1>1. \A h \in Handlers : call[h].pc \in {"idle", "done"} => ~call[h].ready
    BY <1>0 DEF Replied, Sends
  <1>2. ASSUME NEW c \in Callers, \A d \in Callers : d # c => call[d].pc \in {"idle", "done"},
               \A d \in Callers : d # c => call'[d] = call[d],
               c \in Handlers =>
                 /\ call'[c].ready => call'[c].pc # "done"
                 /\ (call'[c].ready \/ call'[c].pc = "reply") /\ ~call'[c].failed
                      => Answers(content'[call'[c].reply], c)
        PROVE  Replied'
    BY <1>0, <1>1, <1>2 DEF Replied
  <1>3. ASSUME NEW c \in Callers, call[c].pc \notin {"idle", "done"},
               \A d \in Callers : d # c => call'[d] = call[d],
               c \in Handlers =>
                 /\ call'[c].ready => call'[c].pc # "done"
                 /\ (call'[c].ready \/ call'[c].pc = "reply") /\ ~call'[c].failed
                      => Answers(content'[call'[c].reply], c)
        PROVE  Replied'
    BY <1>0, <1>2, <1>3, Others
  <1>4. ASSUME NEW h \in Handlers, Begin(h) PROVE Replied'
    <2>1. /\ call[h].pc = "idle" /\ call'[h].pc = "getClient" /\ call'[h].ready = call[h].ready
          /\ \A d \in Callers : d # h => call'[d] = call[d]
      <3>1. PICK m \in Messages : call' = [call EXCEPT ![h].pc = "getClient", ![h].req = m]
        BY <1>4 DEF Begin
      <3> QED BY <1>0, <1>4, <3>1 DEF Begin, At, Calls
    <2>2. \A d \in Callers : call[d].pc \in {"idle", "done"}
      BY <1>0, <1>4, NoOverlap, Silence
    <2> QED BY <1>0, <1>1, <1>2, <2>1, <2>2
  <1>5. ASSUME NEW b \in Beats, NEW k \in Clients, Beat(b, k) PROVE Replied'
    <2>1. \A d \in Callers : d # b => call'[d] = call[d] BY <1>0, <1>5 DEF Beat
    <2>2. \A d \in Callers : call[d].pc \in {"idle", "done"}
      BY <1>0, <1>5, NoOverlap, Silence
    <2>3. b \notin Handlers BY <1>0
    <2> QED BY <1>0, <1>2, <2>1, <2>2, <2>3
  <1>6. ASSUME NEW h \in Handlers, GetClient(h) \/ MakeClient(h) \/ Select(h) \/ Dial(h)
        PROVE  Replied'
    <2>1. /\ call[h].pc \in {"getClient", "makeClient", "select", "dial"}
          /\ call'[h].pc \in {"makeClient", "select", "dial", "send"}
          /\ \A d \in Callers : d # h => call'[d] = call[d]
          /\ call'[h].ready = call[h].ready
      BY <1>0, <1>6 DEF GetClient, MakeClient, Select, Dial, At, Calls
    <2>2. ~call[h].ready BY <1>0, <2>1 DEF Sends
    <2> QED BY <1>0, <1>3, <2>1, <2>2
  <1>7. ASSUME NEW h \in Handlers, HandlerFails(h) \/ Finish(h) PROVE Replied'
    <2>1. /\ call[h].pc \notin {"idle", "done"} /\ call'[h].pc = "done" /\ ~call'[h].ready
          /\ \A d \in Callers : d # h => call'[d] = call[d]
      BY <1>0, <1>7 DEF HandlerFails, Fail, Finish, At, NoCall
    <2> QED BY <1>0, <1>3, <2>1
  <1>8. ASSUME NEW c \in Callers, Register(c) PROVE Replied'
    <2>1. call[c].pc = "send" /\ ~call[c].ready BY <1>0, <1>8 DEF Register, At, Sends
    <2>2. CASE call' = [call EXCEPT ![c].pc = "wait", ![c].failed = TRUE, ![c].ready = TRUE]
      <3>1. /\ call'[c].pc = "wait" /\ call'[c].failed
            /\ \A d \in Callers : d # c => call'[d] = call[d]
        BY <1>0, <2>2 DEF Calls
      <3> QED BY <1>3, <2>1, <3>1
    <2>3. ASSUME NEW n, NEW x, call' = [call EXCEPT ![c].pc = "setSeq", ![c].seq = n, ![c].conn = x]
          PROVE  Replied'
      <3>1. /\ call'[c].pc = "setSeq" /\ call'[c].ready = call[c].ready
            /\ \A d \in Callers : d # c => call'[d] = call[d]
        BY <1>0, <2>3 DEF Calls
      <3> QED BY <1>3, <2>1, <3>1
    <2>4. CASE call' # [call EXCEPT ![c].pc = "wait", ![c].failed = TRUE, ![c].ready = TRUE]
      <3> DEFINE n == rpc[call[c].rpc].seq + 1
                 x == rpc[call[c].rpc].conn
      <3>1. call' = [call EXCEPT ![c].pc = "setSeq", ![c].seq = n, ![c].conn = x]
        BY <1>8, <2>4, Registering
      <3> HIDE DEF n, x
      <3> QED BY <2>3, <3>1
    <2> QED BY <2>2, <2>4
  <1>9. ASSUME NEW c \in Callers, SetSeq(c) \/ Write(c) \/ WriteFails(c) PROVE Replied'
    <2>1. call[c].pc \in {"setSeq", "write"} /\ (call[c].ready => call[c].failed)
      BY <1>0, <1>9 DEF SetSeq, Write, WriteFails, At, Sends
    <2>2. /\ call'[c].pc \in {"write", "wait"} /\ (call'[c].ready => call'[c].failed)
          /\ \A d \in Callers : d # c => call'[d] = call[d]
      <3>1. CASE SetSeq(c) BY <1>0, <2>1, <3>1 DEF SetSeq, Calls
      <3>2. CASE Write(c) BY <1>0, <2>1, <3>2 DEF Write, Calls
      <3>3. CASE WriteFails(c) BY <1>0, <2>1, <3>3 DEF WriteFails, Ends, Calls
      <3> QED BY <1>9, <3>1, <3>2, <3>3
    <2> QED BY <1>3, <2>1, <2>2
  <1>10. ASSUME NEW c \in Callers, Receive(c) PROVE Replied'
    <2>1. /\ call[c].pc = "wait" /\ call[c].ready /\ UNCHANGED content
          /\ \A d \in Callers : d # c => call'[d] = call[d]
      BY <1>0, <1>10 DEF Receive, At
    <2>2. ASSUME c \in Handlers
          PROVE  /\ call'[c].pc = "reply" /\ ~call'[c].ready
                 /\ call'[c].failed = call[c].failed /\ call'[c].reply = call[c].reply
      <3>1. c \notin Beats BY <1>0, <2>2
      <3>2. call' = [call EXCEPT ![c] = [call[c] EXCEPT !.pc = "reply", !.ready = FALSE]]
        BY <1>10, <3>1 DEF Receive
      <3> QED BY <1>0, <3>2 DEF Calls
    <2>3. c \in Handlers /\ ~call[c].failed => Answers(content[call[c].reply], c)
      BY <1>0, <2>1 DEF Replied
    <2> QED BY <1>3, <2>1, <2>2, <2>3
  <1>11. ASSUME NEW b \in Callers, TimeOut(b) PROVE Replied'
    <2>1. b \notin Handlers /\ call[b].pc = "wait" /\ \A d \in Callers : d # b => call'[d] = call[d]
      BY <1>0, <1>11 DEF TimeOut, At
    <2> QED BY <1>3, <2>1
  <1>12. ASSUME NEW k \in Clients, Read(k) PROVE Replied'
    <2>1. wire # {} /\ UNCHANGED call BY <1>12 DEF Read
    <2>2. ASSUME NEW h \in Handlers PROVE ~call[h].ready /\ call[h].pc # "reply"
      BY <1>0, <1>1, <2>1, Quiet
    <2> QED BY <1>0, <2>1, <2>2 DEF Replied
  <1>13. ASSUME UNCHANGED <<call, content>> PROVE Replied'
    BY <1>0, <1>13 DEF Replied
  <1>14. ASSUME NEW k \in Clients,
                Lookup(k) \/ ReadError(k) \/ Reconnect(k) \/ GiveUp(k) \/ Break(k)
         PROVE  Replied'
    BY <1>13, <1>14 DEF Lookup, ReadError, Reconnect, GiveUp, Break
  <1>15. ASSUME NEW k \in Clients, Handle(k) PROVE Replied'
    <2>1. rpc[k].input = "handle" /\ UNCHANGED content BY <1>15 DEF Handle, InputAt
    <2>2. CASE UNCHANGED call BY <1>13, <2>1, <2>2
    <2>3. ASSUME NEW c \in Callers, c = rpc[k].inCall, NEW e \in BOOLEAN,
                 call' = [call EXCEPT ![c] = Ends(c, rpc[k].target, e)]
          PROVE  Replied'
      <3>1. /\ call[c].pc \in {"wait", "done"}
            /\ call[c].pc = "wait" => Answers(content[rpc[k].target], c)
        BY <2>1, <2>3, NoOverlap DEF IInv, Alone, InHand, Awaits
      <3>2. rpc[k].target # 0 BY <2>1 DEF IInv, Held
      <3>3. \A d \in Callers : d # c => call'[d] = call[d] BY <1>0, <2>3
      <3>4. CASE call[c].pc = "done"
        <4>1. call'[c] = call[c] BY <3>4, DoneStays
        <4> QED BY <1>0, <2>1, <3>3, <4>1 DEF Replied
      <3>5. CASE call[c].pc = "wait"
        <4>1. call'[c].pc = "wait" /\ call'[c].reply = rpc[k].target
          BY <1>0, <2>3, <3>2, <3>5 DEF Ends, Calls
        <4> QED BY <1>3, <2>1, <3>1, <3>3, <3>5, <4>1
      <3> QED BY <3>1, <3>4, <3>5
    <2> QED BY <1>15, <2>2, <2>3, Handling
  <1>16. ASSUME NEW k \in Clients, Close(k) PROVE Replied'
    <2>1. UNCHANGED content BY <1>16 DEF Close
    <2>2. ASSUME NEW h \in Handlers
          PROVE  \/ call'[h] = call[h]
                 \/ call[h].pc # "done" /\ call'[h].pc = call[h].pc /\ call'[h].failed
      BY <1>0, <1>16, <2>2 DEF Close, Ends, Calls
    <2> QED BY <1>0, <2>1, <2>2 DEF Replied
  <1>17. CASE UNCHANGED vars BY <1>13, <1>17 DEF vars
  <1> QED BY <1>4, <1>5, <1>6, <1>7, <1>8, <1>9, <1>10, <1>11, <1>12, <1>14, <1>15, <1>16,
     <1>17 DEF Next, HandlerStep, Call, Input

\* What handlers write is right, and input finds a call for every response.
LEMMA AloneRightStep ==
  ASSUME IInv, [Next]_vars PROVE AloneRight'
  <1>1. SUFFICES ASSUME ~overlap'
                 PROVE  /\ ~panicked'
                        /\ \A h \in Handlers : response'[h] # Blank =>
                             /\ response'[h].kind = "res" /\ response'[h].of = h
                             /\ ~response'[h].hb
    BY DEF AloneRight
  <1>2. /\ ~overlap /\ ~panicked
        /\ \A h \in Handlers : response[h] # Blank =>
             response[h].kind = "res" /\ response[h].of = h /\ ~response[h].hb
        /\ response \in [Handlers -> Contents]
        /\ Handlers \subseteq Callers /\ Handlers \cap Beats = {} /\ Nobody \notin Callers
    BY <1>1, NoOverlap, Basics DEF IInv, AloneRight, TypeOK, MessageTypes
  <1>3. ASSUME NEW h \in Handlers, Finish(h)
        PROVE  /\ ~panicked'
               /\ \A g \in Handlers : response'[g] # Blank =>
                    response'[g].kind = "res" /\ response'[g].of = g /\ ~response'[g].hb
    <2>1. /\ call[h].pc = "reply" /\ ~call[h].failed /\ UNCHANGED panicked
          /\ response' = [response EXCEPT ![h] = content[call[h].reply]]
      BY <1>3 DEF Finish, At
    <2>2. Answers(content[call[h].reply], h) BY <1>2, <2>1 DEF IInv, Alone, Replied
    <2>3. h \notin Beats BY <1>2
    <2> QED BY <1>2, <2>1, <2>2, <2>3 DEF Answers
  <1>4. ASSUME NEW k \in Clients, Handle(k) PROVE UNCHANGED <<panicked, response>>
    <2>1. rpc[k].inCall \in Callers
      BY <1>2, <1>4 DEF Handle, InputAt, IInv, Alone, InHand
    <2> QED BY <1>2, <1>4, <2>1 DEF Handle
  <1>5. CASE UNCHANGED <<panicked, response>> BY <1>2, <1>5
  <1>6. CASE (\E h \in Handlers : Begin(h)) \/ (\E h \in Handlers : GetClient(h)) \/
            (\E h \in Handlers : MakeClient(h)) \/
            (\E h \in Handlers : HandlerFails(h)) \/
            (\E h \in Handlers : Select(h)) \/ (\E h \in Handlers : Dial(h)) \/
            (\E b \in Beats, k \in Clients : Beat(b, k)) \/
            (\E c \in Callers : Register(c)) \/ (\E c \in Callers : SetSeq(c))
            \/ (\E c \in Callers : Write(c)) \/
            (\E c \in Callers : WriteFails(c)) \/
            (\E c \in Callers : Receive(c)) \/ (\E c \in Callers : TimeOut(c))
            \/ (\E k \in Clients : Read(k)) \/ (\E k \in Clients : Lookup(k)) \/
            (\E k \in Clients : ReadError(k)) \/
            (\E k \in Clients : Reconnect(k)) \/
            (\E k \in Clients : GiveUp(k)) \/ (\E k \in Clients : Close(k)) \/
            (\E k \in Clients : Break(k)) \/ UNCHANGED vars
    BY <1>5, <1>6 DEF Begin, GetClient, MakeClient, HandlerFails, Fail, Select, Dial, Beat,
       Register, SetSeq, Write, WriteFails, Receive, TimeOut, Read, Lookup,
       ReadError, Reconnect, GiveUp, Close, Break, vars
  <1> QED BY <1>3, <1>4, <1>5, <1>6 DEF Next, HandlerStep, Call, Input

\* Every step keeps the strengthening.
LEMMA Inductive ==
  ASSUME IInv, [Next]_vars PROVE IInv'
  <1>1. TypeOK' BY ListTypesStep, RpcTypesStep, CallTypesStep, MessageTypesStep DEF TypeOK
  <1>2. Held' BY PreparedStep, TargetsStep, FreeStep DEF Held
  <1>3. Connected' BY ConnectedStep
  <1>4. Registered' BY OnceStep, OwnsStep DEF Registered
  <1>5. Alone'
    BY LoneStep, SendingStep, AskedStep, GotStep, InHandStep, RepliedStep DEF Alone
  <1>6. AloneRight' BY AloneRightStep
  <1> QED BY <1>1, <1>2, <1>3, <1>4, <1>5, <1>6 DEF IInv

\* The strengthening holds in all reachable states of the stand-alone gateway.
THEOREM Invariance == Spec => []IInv
  <1>1. Init => IInv BY InitInv
  <1>2. IInv /\ [Next]_vars => IInv' BY Inductive
  <1> QED BY <1>1, <1>2, PTL DEF Spec

\* A handler that has its gateway to itself is given the response to its own
\* request, and input never looks into a call that is not there, however many
\* handlers, heartbeats and reconnections came before it.
THEOREM AloneIsRight == Spec => []AloneRight
  <1>1. IInv => AloneRight BY DEF IInv
  <1> QED BY <1>1, Invariance, PTL

-----------------------------------------------------------------------------
(* What it takes for NoLostCall to be inductive.                           *)

\* What a call has before send registers it, and while nobody has completed it.
Early == {"idle", "getClient", "makeClient", "select", "dial", "send"}
Waits(c) == call[c].pc \in {"setSeq", "write", "wait"} /\ ~call[c].ready

\* The number of a call stays its own until the call is over, and it waits only
\* if it did so before.
Follows(d) ==
    /\ call'[d].seq = 0 \/ (call'[d].seq = call[d].seq /\ call'[d].rpc = call[d].rpc)
    /\ call'[d].pc \in {"setSeq", "write"} =>
         call[d].pc \in {"setSeq", "write"} /\ call'[d].seq = call[d].seq
    /\ call'[d].pc \in Early => call'[d].seq = 0
    /\ Waits(d)' => Waits(d) /\ call'[d].rpc = call[d].rpc /\ call'[d].seq = call[d].seq

\* All steps but the registration leave calls their numbers.
LEMMA FollowsStep ==
  ASSUME IInv, NoneLost, [Next]_vars,
         \A c \in Callers : Register(c) => UNCHANGED rpc
  PROVE  \A d \in Callers : Follows(d)
  <1> DEFINE Kept == \A d \in Callers : Follows(d)
  <1>0. /\ call \in [Callers -> Calls] /\ \A c \in Callers : call[c] \in Calls
        /\ \A c \in Callers : call[c].pc \in Early => call[c].seq = 0
        /\ Handlers \subseteq Callers /\ Beats \subseteq Callers
    BY Typing, Basics DEF NoneLost, Unnumbered, Early
  <1> USE DEF Early, Waits, Follows
  <1>1. ASSUME UNCHANGED <<call>> PROVE Kept
    BY <1>1, <1>0 DEF Calls
  <1>2. ASSUME NEW h \in Handlers, Begin(h) PROVE Kept
    BY <1>2, <1>0 DEF Begin, GetPooledMsg, At, Calls
  <1>3. ASSUME NEW h \in Handlers, GetClient(h) PROVE Kept
    BY <1>3, <1>0 DEF GetClient, At, Calls
  <1>4. ASSUME NEW h \in Handlers, MakeClient(h) PROVE Kept
    BY <1>4, <1>0 DEF MakeClient, At, Calls
  <1>5. ASSUME NEW h \in Handlers, HandlerFails(h) PROVE Kept
    BY <1>5, <1>0 DEF HandlerFails, Fail, FreeMsgs, At, NoCall, Calls
  <1>6. ASSUME NEW h \in Handlers, Finish(h) PROVE Kept
    BY <1>6, <1>0 DEF Finish, FreeMsgs, At, NoCall, Calls
  <1>7. ASSUME NEW h \in Handlers, Select(h) PROVE Kept
    BY ZenonT(100), <1>7, <1>0 DEF Select, At, Calls
  <1>8. ASSUME NEW h \in Handlers, Dial(h) PROVE Kept
    BY <1>8, <1>0 DEF Dial, At, Calls
  <1>9. ASSUME NEW b \in Beats, NEW k \in Clients, Beat(b, k) PROVE Kept
    BY <1>9, <1>0 DEF Beat, GetPooledMsg, At, Calls
  <1>10. ASSUME NEW c \in Callers, Register(c) PROVE Kept
    <2>1. UNCHANGED rpc /\ call[c].pc = "send" BY <1>10 DEF Register, At
    <2>2. CASE call' = [call EXCEPT ![c].pc = "wait", ![c].failed = TRUE, ![c].ready = TRUE]
      BY <1>0, <2>1, <2>2 DEF Calls
    <2>3. call' = [call EXCEPT ![c].pc = "wait", ![c].failed = TRUE, ![c].ready = TRUE]
      <3>1. SUFFICES ASSUME rpc[call[c].rpc].status = "Available" PROVE FALSE
        BY <1>10 DEF Register
      <3> DEFINE l == call[c].rpc
                 n == rpc[l].seq + 1
      <3>2. l \in Clients BY <1>10, Equipped DEF Register, At
      <3>3. rpc[l] \in RpcClients /\ rpc[l].seq \in Nat BY <3>2, Typing, Basics DEF RpcClients
      <3>4. rpc \in [Clients -> RpcClients] BY Typing
      <3>5. rpc' = [rpc EXCEPT ![l] = [rpc[l] EXCEPT !.seq = n, !.pending[n] = c]]
        BY <1>10, <3>1 DEF Register
      <3>6. rpc'[l].seq = n BY <3>2, <3>3, <3>4, <3>5 DEF RpcClients
      <3> QED BY <2>1, <3>3, <3>6
    <2> QED BY <2>2, <2>3
  <1>11. ASSUME NEW c \in Callers, SetSeq(c) PROVE Kept
    BY <1>11, <1>0 DEF SetSeq, At, Calls
  <1>12. ASSUME NEW c \in Callers, Write(c) PROVE Kept
    BY <1>12, <1>0 DEF Write, At, Calls
  <1>13. ASSUME NEW c \in Callers, WriteFails(c) PROVE Kept
    BY <1>13, <1>0 DEF WriteFails, Ends, At, Calls
  <1>14. ASSUME NEW c \in Callers, Receive(c) PROVE Kept
    BY <1>14, <1>0 DEF Receive, At, NoCall, Calls
  <1>15. ASSUME NEW c \in Callers, TimeOut(c) PROVE Kept
    BY <1>15, <1>0 DEF TimeOut, At, NoCall, Calls
  <1>16. ASSUME NEW k \in Clients, Handle(k) PROVE Kept
    <2>1. CASE UNCHANGED call BY <1>1, <2>1
    <2>2. ASSUME rpc[k].inCall \in Callers, NEW e \in BOOLEAN,
                 call' = [call EXCEPT ![rpc[k].inCall] =
                            Ends(rpc[k].inCall, rpc[k].target, e)]
          PROVE  Kept
      BY <1>0, <2>2 DEF Ends, Calls
    <2> QED BY <1>16, <2>1, <2>2, Handling
  <1>17. ASSUME NEW k \in Clients, Close(k) PROVE Kept
    BY ZenonT(100), <1>17, <1>0 DEF Close, Ends, InputAt, Calls
  <1>18. CASE (\E k \in Clients : Read(k)) \/ (\E k \in Clients : Lookup(k))
            \/ (\E k \in Clients : ReadError(k)) \/
            (\E k \in Clients : Reconnect(k)) \/
            (\E k \in Clients : GiveUp(k)) \/ (\E k \in Clients : Break(k)) \/
            UNCHANGED vars
    BY <1>1, <1>18 DEF Read, Lookup, ReadError, Reconnect, GiveUp, Break, vars
  <1> QED BY <1>1, <1>2, <1>3, <1>4, <1>5, <1>6, <1>7, <1>8, <1>9, <1>10, <1>11, <1>12,
     <1>13, <1>14, <1>15, <1>16, <1>17, <1>18 DEF Next, HandlerStep, Call, Input

\* An RPCClient counts up when it registers a call, and only then.
LEMMA CountStep ==
  ASSUME IInv, [Next]_vars, \A c \in Callers : Register(c) => UNCHANGED rpc
  PROVE  /\ \A k \in Clients : rpc'[k].seq = rpc[k].seq
         /\ \A k \in Clients, s \in Seqs :
              rpc'[k].pending[s] = rpc[k].pending[s] \/ rpc'[k].pending[s] = Nobody
  <1> DEFINE Counts == \A k \in Clients : rpc'[k].seq = rpc[k].seq
             Fewer  == \A k \in Clients, s \in Seqs :
                         rpc'[k].pending[s] = rpc[k].pending[s] \/ rpc'[k].pending[s] = Nobody
  <1>0. rpc \in [Clients -> RpcClients] /\ \A k \in Clients : rpc[k] \in RpcClients
    BY Typing
  <1>1. CASE UNCHANGED rpc BY <1>1
  <1>2. ASSUME NEW h \in Handlers, Dial(h) PROVE Counts /\ Fewer
    <2>1. Counts BY <1>0, <1>2 DEF Dial, NewRPCClient, RpcClients
    <2> QED BY <2>1, <1>2, PendingElse
  <1>3. ASSUME NEW c \in Callers, WriteFails(c) PROVE Counts /\ Fewer
    <2>1. Counts BY <1>0, <1>3 DEF WriteFails, RpcClients
    <2> QED BY <2>1, <1>3, Withdrawing
  <1>4. ASSUME NEW k \in Clients, Lookup(k) PROVE Counts /\ Fewer
    <2>1. Counts BY <1>0, <1>4 DEF Lookup, RpcClients
    <2> QED BY <2>1, <1>4, Finding
  <1>5. ASSUME NEW l \in Clients, Read(l) \/ Handle(l) \/ ReadError(l) \/ Reconnect(l) \/ GiveUp(l)
                                  \/ Close(l) \/ Break(l)
        PROVE  Counts /\ Fewer
    <2>0. Fewer BY <1>5, PendingElse
    <2>1. CASE Read(l) BY <1>0, <2>0, <2>1 DEF Read, RpcClients
    <2>2. CASE Handle(l) BY <1>0, <2>0, <2>2 DEF Handle, RpcClients
    <2>3. CASE ReadError(l) BY <1>0, <2>0, <2>3 DEF ReadError, RpcClients
    <2>4. CASE Reconnect(l) BY <1>0, <2>0, <2>4 DEF Reconnect, RpcClients
    <2>5. CASE GiveUp(l) BY <1>0, <2>0, <2>5 DEF GiveUp, RpcClients
    <2>6. CASE Close(l) BY <1>0, <2>0, <2>6 DEF Close, RpcClients
    <2>7. CASE Break(l) BY <1>0, <2>0, <2>7 DEF Break, RpcClients
    <2> QED BY <1>5, <2>1, <2>2, <2>3, <2>4, <2>5, <2>6, <2>7
  <1>6. CASE \E c \in Callers : Register(c) BY <1>1, <1>6
  <1>7. CASE (\E h \in Handlers : Begin(h)) \/
            (\E h \in Handlers : GetClient(h)) \/
            (\E h \in Handlers : MakeClient(h)) \/
            (\E h \in Handlers : HandlerFails(h)) \/
            (\E h \in Handlers : Finish(h)) \/ (\E h \in Handlers : Select(h))
            \/ (\E b \in Beats, k \in Clients : Beat(b, k)) \/
            (\E c \in Callers : SetSeq(c)) \/ (\E c \in Callers : Write(c)) \/
            (\E c \in Callers : Receive(c)) \/ (\E c \in Callers : TimeOut(c))
            \/ UNCHANGED vars
    BY <1>1, <1>7 DEF Begin, GetClient, MakeClient, HandlerFails, Fail, Finish, Select,
       Beat, SetSeq, Write, Receive, TimeOut, vars
  <1> QED BY <1>2, <1>3, <1>4, <1>5, <1>6, <1>7 DEF Next, HandlerStep, Call, Input

\* Numbers are typed, and an RPCClient that has handed one out is there.
LEMMA Numbers ==
  ASSUME IInv, NEW c \in Callers
  PROVE  /\ call[c].seq \in Nat /\ (call[c].seq # 0 => call[c].seq \in Seqs)
         /\ call[c].rpc # 0 => call[c].rpc \in Clients
         /\ \A k \in Clients : rpc[k].seq \in Nat
  <1>1. call[c] \in Calls /\ \A k \in Clients : rpc[k] \in RpcClients BY Typing
  <1>2. call[c].seq \in 0..MaxSeq /\ call[c].rpc \in 0..dialled BY <1>1 DEF Calls
  <1>3. \A k \in Clients : rpc[k].seq \in 0..MaxSeq BY <1>1 DEF RpcClients
  <1>4. dialled \in 0..MaxClients BY DEF IInv, TypeOK, ListTypes
  <1> QED BY <1>2, <1>3, <1>4, Basics DEF Seqs, Clients

\* The numbers stay in order in all steps but the registration, ...
LEMMA NumberedElse ==
  ASSUME IInv, NoneLost, [Next]_vars, \A c \in Callers : Register(c) => UNCHANGED rpc
  PROVE  Numbered' /\ Unnumbered'
  <1>1. \A d \in Callers : Follows(d) BY FollowsStep
  <1>2. /\ \A k \in Clients : rpc'[k].seq = rpc[k].seq
        /\ \A k \in Clients, s \in Seqs :
             rpc'[k].pending[s] = rpc[k].pending[s] \/ rpc'[k].pending[s] = Nobody
    BY CountStep
  <1>3. \A c \in Callers : call[c].rpc # 0 => call[c].rpc \in Clients BY Numbers
  <1>4. Unnumbered' BY <1>1 DEF Follows, Unnumbered, Early
  <1>5. ASSUME NEW c \in Callers, call'[c].seq # 0
        PROVE  call'[c].rpc # 0 /\ call'[c].seq <= rpc'[call'[c].rpc].seq
    BY <1>1, <1>2, <1>3, <1>5 DEF NoneLost, Numbered, Follows
  <1>6. ASSUME NEW c \in Callers, NEW d \in Callers, call'[c].seq # 0,
               call'[c].rpc = call'[d].rpc, call'[c].seq = call'[d].seq
        PROVE  c = d
    <2>1. /\ call'[c].seq = call[c].seq /\ call'[c].rpc = call[c].rpc
          /\ call'[d].seq = call[d].seq /\ call'[d].rpc = call[d].rpc
      BY <1>1, <1>6 DEF Follows
    <2> QED BY <1>6, <2>1 DEF NoneLost, Numbered
  <1>7. ASSUME NEW k \in Clients, NEW s \in Seqs, rpc'[k].pending[s] # Nobody
        PROVE  s <= rpc'[k].seq
    BY <1>2, <1>7 DEF NoneLost, Numbered
  <1>8. \A c \in Callers : call'[c].pc \in {"setSeq", "write"} => call'[c].seq # 0
    BY <1>1 DEF NoneLost, Numbered, Follows
  <1> QED BY <1>4, <1>5, <1>6, <1>7, <1>8 DEF Numbered

\* ... and in the registration, which hands out a number that nobody has.
LEMMA NumberedRegister ==
  ASSUME IInv, NoneLost, [Next]_vars, NEW c \in Callers, Register(c), ~ UNCHANGED rpc
  PROVE  NoneLost'
  <1> DEFINE m == call[c].rpc
             n == rpc[m].seq + 1
             x == rpc[m].conn
  <1>1. /\ m \in Clients /\ n \in Seqs
        /\ call' = [call EXCEPT ![c].pc = "setSeq", ![c].seq = n, ![c].conn = x]
        /\ \A k \in Clients, s \in Seqs :
             rpc'[k].pending[s] = IF k = m /\ s = n THEN c ELSE rpc[k].pending[s]
        /\ \A k \in Clients : /\ rpc'[k].status = rpc[k].status
                              /\ rpc'[k].input = rpc[k].input
                              /\ rpc'[k].inCall = rpc[k].inCall
        /\ \A k \in Clients : rpc'[k].seq = IF k = m THEN n ELSE rpc[k].seq
        /\ rpc[m].status = "Available"
    BY Registering
  <1>2. rpc[m].seq \in Nat /\ n = rpc[m].seq + 1 /\ m = call[c].rpc BY <1>1, Numbers
  <1>3. m # 0 BY <1>1, Basics DEF Clients
  <1>4. call[c].pc = "send" BY DEF Register, At
  <1> HIDE DEF m, n, x
  <1>5. /\ call'[c].pc = "setSeq" /\ call'[c].seq = n /\ call'[c].rpc = m
        /\ \A d \in Callers : d # c => call'[d] = call[d]
    BY <1>1, <1>2, Typing DEF Calls
  <1>6. \A d \in Callers : /\ call[d].seq \in Nat /\ (call[d].seq # 0 => call[d].seq \in Seqs)
                           /\ call[d].rpc # 0 => call[d].rpc \in Clients
    BY Numbers
  <1>7. \A k \in Clients : rpc[k].seq \in Nat BY Numbers
  <1>8. \A d \in Callers : call[d].seq # 0 /\ call[d].rpc = m => call[d].seq # n
    BY <1>1, <1>2, <1>6 DEF NoneLost, Numbered
  <1>9. \A k \in Clients, s \in Seqs : k # m \/ s # n => rpc'[k].pending[s] = rpc[k].pending[s]
    BY <1>1
  <1>10. Unnumbered' BY <1>5 DEF NoneLost, Unnumbered
  <1>11. Numbered'
    <2>1. ASSUME NEW d \in Callers, call'[d].seq # 0
          PROVE  call'[d].rpc # 0 /\ call'[d].seq <= rpc'[call'[d].rpc].seq
      <3>1. CASE d = c
        <4>1. rpc'[m].seq = n /\ n \in Nat BY <1>1, <1>2
        <4> QED BY <1>3, <1>5, <3>1, <4>1
      <3>2. CASE d # c
        <4>1. call[d].rpc # 0 /\ call[d].seq <= rpc[call[d].rpc].seq
          BY <1>5, <2>1, <3>2 DEF NoneLost, Numbered
        <4>2. /\ call[d].rpc \in Clients /\ call[d].seq \in Nat
              /\ rpc[call[d].rpc].seq \in Nat
          BY <1>6, <1>7, <4>1
        <4>3. \/ rpc'[call[d].rpc].seq = rpc[call[d].rpc].seq
              \/ rpc'[call[d].rpc].seq = rpc[call[d].rpc].seq + 1
          BY <1>1, <1>2, <4>2
        <4> QED BY <1>5, <3>2, <4>1, <4>2, <4>3
      <3> QED BY <3>1, <3>2
    <2>2. \A d, e \in Callers :
            call'[d].seq # 0 /\ call'[d].rpc = call'[e].rpc /\ call'[d].seq = call'[e].seq => d = e
      <3>1. n # 0 BY <1>2
      <3> QED BY <1>5, <1>8, <3>1 DEF NoneLost, Numbered
    <2>3. ASSUME NEW k \in Clients, NEW s \in Seqs, rpc'[k].pending[s] # Nobody
          PROVE  s <= rpc'[k].seq
      <3>1. s \in Nat BY Basics DEF Seqs
      <3>2. rpc[k].seq \in Nat BY <1>7
      <3>3. CASE k = m /\ s = n BY <1>1, <1>2, <3>3
      <3>4. CASE k # m \/ s # n
        <4>1. s <= rpc[k].seq BY <1>9, <2>3, <3>4 DEF NoneLost, Numbered
        <4>2. rpc'[k].seq = rpc[k].seq \/ rpc'[k].seq = rpc[k].seq + 1 BY <1>1, <1>2
        <4> QED BY <3>1, <3>2, <4>1, <4>2
      <3> QED BY <3>3, <3>4
    <2>4. \A d \in Callers : call'[d].pc \in {"setSeq", "write"} => call'[d].seq # 0
      BY <1>2, <1>5 DEF NoneLost, Numbered
    <2> QED BY <2>1, <2>2, <2>3, <2>4 DEF Numbered
  <1>12. NoLostCall'
    <2>1. ASSUME NEW d \in Callers, d # c, call'[d].pc \in {"setSeq", "write", "wait"},
                 ~call'[d].ready
          PROVE  /\ call'[d].rpc # 0 /\ rpc'[call'[d].rpc].status # "Close"
                 /\ \/ /\ call'[d].seq # 0
                       /\ rpc'[call'[d].rpc].pending[call'[d].seq] = d
                    \/ rpc'[call'[d].rpc].input = "handle" /\ rpc'[call'[d].rpc].inCall = d
      <3>1. call'[d] = call[d] BY <1>5, <2>1
      <3>2. /\ call[d].rpc # 0 /\ rpc[call[d].rpc].status # "Close"
            /\ \/ call[d].seq # 0 /\ rpc[call[d].rpc].pending[call[d].seq] = d
               \/ rpc[call[d].rpc].input = "handle" /\ rpc[call[d].rpc].inCall = d
        BY <2>1, <3>1 DEF NoneLost, NoLostCall
      <3>3. call[d].rpc \in Clients BY <1>6, <3>2
      <3>4. CASE call[d].seq # 0 /\ rpc[call[d].rpc].pending[call[d].seq] = d
        <4>1. call[d].seq \in Seqs /\ (call[d].rpc # m \/ call[d].seq # n)
          BY <1>6, <1>8, <3>4
        <4>2. rpc'[call[d].rpc].pending[call[d].seq] = d BY <1>9, <3>3, <3>4, <4>1
        <4> QED BY <1>1, <3>1, <3>2, <3>3, <3>4, <4>2
      <3> QED BY <1>1, <3>1, <3>2, <3>3, <3>4
    <2>2. /\ call'[c].rpc # 0 /\ rpc'[call'[c].rpc].status # "Close" /\ call'[c].seq # 0
          /\ rpc'[call'[c].rpc].pending[call'[c].seq] = c
      <3>1. rpc'[m].pending[n] = c BY <1>1
      <3>2. rpc'[m].status # "Close" BY <1>1
      <3>3. n # 0 BY <1>2
      <3> QED BY <1>3, <1>5, <3>1, <3>2, <3>3
    <2>3. ASSUME NEW d \in Callers, call'[d].pc \in {"setSeq", "write", "wait"},
                 ~call'[d].ready
          PROVE  /\ call'[d].rpc # 0 /\ rpc'[call'[d].rpc].status # "Close"
                 /\ \/ /\ call'[d].seq # 0
                       /\ rpc'[call'[d].rpc].pending[call'[d].seq] = d
                    \/ rpc'[call'[d].rpc].input = "handle" /\ rpc'[call'[d].rpc].inCall = d
      <3>1. CASE d = c BY ZenonT(100), <2>2, <3>1
      <3>2. CASE d # c BY <2>1, <2>3, <3>2
      <3> QED BY <3>1, <3>2
    <2> QED BY ZenonT(100), <2>3 DEF NoLostCall
  <1> QED BY <1>10, <1>11, <1>12 DEF NoneLost

\* A step leaves a call that waits where it is found, if it does not complete it.
LEMMA NoLostElse ==
  ASSUME IInv, NoneLost, [Next]_vars, \A c \in Callers : Register(c) => UNCHANGED rpc
  PROVE  NoLostCall'
  <1> DEFINE Found(d) ==
        LET k == call[d].rpc IN
        /\ rpc'[k].status # "Close"
        /\ \/ call[d].seq # 0 /\ rpc'[k].pending[call[d].seq] = d
           \/ rpc'[k].input = "handle" /\ rpc'[k].inCall = d
  <1>1. SUFFICES ASSUME NEW d \in Callers, Waits(d), Waits(d)' PROVE Found(d)
    <2>1. \A d \in Callers : Follows(d) BY FollowsStep
    <2>2. ASSUME NEW d \in Callers, Waits(d)'
          PROVE  /\ Waits(d) /\ call'[d].rpc = call[d].rpc /\ call'[d].seq = call[d].seq
                 /\ call[d].rpc # 0
      BY <2>1, <2>2 DEF Follows, NoneLost, NoLostCall, Waits
    <2> QED BY <1>1, <2>2 DEF NoLostCall, Waits
  <1> DEFINE k == call[d].rpc
             s == call[d].seq
  <1>2. /\ k # 0 /\ rpc[k].status # "Close"
        /\ \/ s # 0 /\ rpc[k].pending[s] = d
           \/ rpc[k].input = "handle" /\ rpc[k].inCall = d
    BY <1>1 DEF NoneLost, NoLostCall, Waits
  <1>3. /\ k \in Clients /\ (s # 0 => s \in Seqs) /\ d # Nobody /\ k = call[d].rpc
        /\ s = call[d].seq
    BY <1>2, Numbers, Basics
  <1>4. /\ rpc \in [Clients -> RpcClients] /\ \A l \in Clients : rpc[l] \in RpcClients
        /\ call \in [Callers -> Calls] /\ \A c \in Callers : call[c] \in Calls
    BY Typing
  <1>5. Connected BY DEF IInv
  <1> HIDE DEF k, s
  <1>6. SUFFICES /\ rpc'[k].status # "Close"
                 /\ \/ s # 0 /\ rpc'[k].pending[s] = d
                    \/ rpc'[k].input = "handle" /\ rpc'[k].inCall = d
    BY <1>3
  <1> DEFINE There == /\ rpc'[k].status # "Close"
                      /\ \/ s # 0 /\ rpc'[k].pending[s] = d
                         \/ rpc'[k].input = "handle" /\ rpc'[k].inCall = d
  <1>7. CASE UNCHANGED rpc BY <1>2, <1>7
  <1>8. ASSUME rpc'[k].pending = rpc[k].pending, rpc'[k].status # "Close",
               rpc[k].input = "handle" => rpc'[k].input = "handle" /\ rpc'[k].inCall = rpc[k].inCall
        PROVE  There
    BY <1>2, <1>8
  <1>9. ASSUME NEW h \in Handlers, Dial(h) PROVE There
    <2>1. rpc'[k].pending = rpc[k].pending BY <1>3, <1>9, PendingElse
    <2>2. CASE k # dialled + 1 BY <1>2, <1>4, <1>7, <1>9, <2>1, <2>2 DEF Dial
    <2>3. CASE k = dialled + 1
      <3>1. rpc[k].input = "none" BY <1>3, <1>5, <2>3, Growth DEF Connected
      <3>2. rpc'[k].status = "Available"
        BY <1>3, <1>4, <1>9, <2>3 DEF Dial, NewRPCClient, RpcClients
      <3> QED BY <1>8, <2>1, <3>1, <3>2
    <2> QED BY <2>2, <2>3
  <1>10. ASSUME NEW c \in Callers, WriteFails(c) PROVE There
    <2>1. /\ call[c].rpc \in Clients
          /\ rpc'[k].status = rpc[k].status /\ rpc'[k].input = rpc[k].input
          /\ rpc'[k].inCall = rpc[k].inCall
          /\ s # 0 => rpc'[k].pending[s] = IF k = call[c].rpc /\ s = call[c].seq THEN Nobody
                                           ELSE rpc[k].pending[s]
      BY <1>3, <1>10, Withdrawing
    <2>2. CASE s # 0 /\ rpc[k].pending[s] = d /\ k = call[c].rpc /\ s = call[c].seq
      <3>1. c = d BY <1>3, <2>2 DEF NoneLost, Numbered
      <3>2. call'[d].ready BY <1>4, <1>10, <2>2, <3>1, <1>3 DEF WriteFails, Ends, At, Calls
      <3> QED BY <1>1, <3>2 DEF Waits
    <2> QED BY <1>2, <2>1, <2>2
  <1>11. ASSUME NEW l \in Clients, Lookup(l) PROVE There
    <2> DEFINE n == content[rpc[l].target].seq
    <2>1. /\ n = 0 \/ n \in Seqs
          /\ \A j \in Clients, t \in Seqs :
               rpc'[j].pending[t] = IF j = l /\ t = n THEN Nobody ELSE rpc[j].pending[t]
          /\ \A j \in Clients : rpc'[j].status = rpc[j].status /\ (j # l => rpc'[j] = rpc[j])
          /\ rpc'[l].input = "handle"
          /\ rpc'[l].inCall = IF n = 0 THEN rpc[l].inCall ELSE rpc[l].pending[n]
      BY <1>11, Finding
    <2>2. rpc[l].input = "got" BY <1>11 DEF Lookup, InputAt
    <2> HIDE DEF n
    <2>3. CASE k # l BY <1>2, <1>3, <2>1, <2>3
    <2>4. CASE k = l
      <3>1. s # 0 /\ rpc[k].pending[s] = d BY <1>2, <2>2, <2>4
      <3>2. CASE s = n BY <1>2, <1>3, <2>1, <2>4, <3>1, <3>2
      <3>3. CASE s # n BY <1>2, <1>3, <2>1, <2>4, <3>1, <3>3
      <3> QED BY <3>2, <3>3
    <2> QED BY <2>3, <2>4
  <1>12. ASSUME NEW l \in Clients, Handle(l) PROVE There
    <2>1. rpc'[k].pending = rpc[k].pending BY <1>3, <1>12, PendingElse
    <2>2. rpc'[k].status = rpc[k].status /\ (k # l => rpc'[k] = rpc[k])
      BY <1>3, <1>4, <1>12 DEF Handle, RpcClients
    <2>3. CASE k = l /\ rpc[k].inCall = d
      <3>1. PICK e \in BOOLEAN : call' = [call EXCEPT ![d] = Ends(d, rpc[l].target, e)]
        BY <1>3, <1>12, <2>3, Handling
      <3>2. call'[d].ready BY <1>1, <1>4, <3>1 DEF Ends, Calls, Waits
      <3> QED BY <1>1, <3>2 DEF Waits
    <2> QED BY <1>2, <2>1, <2>2, <2>3
  <1>13. ASSUME NEW l \in Clients, Close(l) PROVE There
    <2>1. CASE k # l BY <1>2, <1>3, <1>4, <1>13, <2>1 DEF Close
    <2>2. CASE k = l
      <3>1. rpc[k].input = "close" BY <1>13, <2>2 DEF Close, InputAt
      <3>2. s \in Seqs /\ rpc[l].pending[s] = d BY <1>2, <1>3, <2>2, <3>1
      <3>3. call'[d] = Ends(d, 0, TRUE) BY <1>13, <3>2 DEF Close
      <3>4. call'[d].ready BY <1>1, <1>4, <3>3 DEF Ends, Calls, Waits
      <3> QED BY <1>1, <3>4 DEF Waits
    <2> QED BY <2>1, <2>2
  <1>14. ASSUME NEW l \in Clients, Read(l) \/ ReadError(l) \/ Reconnect(l) \/ GiveUp(l) \/ Break(l)
        PROVE  There
    <2>0. rpc'[k].pending = rpc[k].pending BY <1>3, <1>14, PendingElse
    <2>1. CASE Read(l)
      BY <1>2, <1>3, <1>4, <1>8, <2>0, <2>1 DEF Read, InputAt, RpcClients
    <2>2. CASE ReadError(l)
      BY <1>2, <1>3, <1>4, <1>8, <2>0, <2>2 DEF ReadError, InputAt, RpcClients
    <2>3. CASE Reconnect(l)
      BY <1>2, <1>3, <1>4, <1>8, <2>0, <2>3 DEF Reconnect, InputAt, RpcClients
    <2>4. CASE GiveUp(l)
      BY <1>2, <1>3, <1>4, <1>8, <2>0, <2>4 DEF GiveUp, InputAt, RpcClients
    <2>5. CASE Break(l)
      BY <1>2, <1>3, <1>4, <1>8, <2>0, <2>5 DEF Break, RpcClients
    <2> QED BY <1>14, <2>1, <2>2, <2>3, <2>4, <2>5
  <1>15. CASE \E c \in Callers : Register(c) BY <1>7, <1>15
  <1>16. CASE (\E h \in Handlers : Begin(h)) \/
            (\E h \in Handlers : GetClient(h)) \/
            (\E h \in Handlers : MakeClient(h)) \/
            (\E h \in Handlers : HandlerFails(h)) \/
            (\E h \in Handlers : Finish(h)) \/ (\E h \in Handlers : Select(h))
            \/ (\E b \in Beats, l \in Clients : Beat(b, l)) \/
            (\E c \in Callers : SetSeq(c)) \/ (\E c \in Callers : Write(c)) \/
            (\E c \in Callers : Receive(c)) \/ (\E c \in Callers : TimeOut(c))
            \/ UNCHANGED vars
    BY <1>7, <1>16 DEF Begin, GetClient, MakeClient, HandlerFails, Fail, Finish, Select,
       Beat, SetSeq, Write, Receive, TimeOut, vars
  <1> QED BY <1>9, <1>10, <1>11, <1>12, <1>13, <1>14, <1>15, <1>16
    DEF Next, HandlerStep, Call, Input

\* The strengthening of NoLostCall is inductive, together with IInv.
LEMMA NoneLostInductive ==
  ASSUME IInv, NoneLost, [Next]_vars PROVE NoneLost'
  <1>1. CASE \A c \in Callers : Register(c) => UNCHANGED rpc
    BY <1>1, NumberedElse, NoLostElse DEF NoneLost
  <1>2. CASE \E c \in Callers : Register(c) /\ ~ UNCHANGED rpc
    BY <1>2, NumberedRegister
  <1> QED BY <1>1, <1>2

\* No call that send has registered is left to wait for ever on an RPCClient
\* that has let go of it, whatever other handlers, heartbeats, broken
\* connections and responses for others come between.
THEOREM NobodyIsLost == Spec => []NoLostCall
  <1>1. Init => IInv BY InitInv
  <1>2. Init => NoneLost
    BY Basics DEF Init, NoCall, NoneLost, NoLostCall, Numbered, Unnumbered
  <1>3. IInv /\ [Next]_vars => IInv' BY Inductive
  <1>4. IInv /\ NoneLost /\ [Next]_vars => NoneLost' BY NoneLostInductive
  <1>5. NoneLost => NoLostCall BY DEF NoneLost
  <1> QED BY <1>1, <1>2, <1>3, <1>4, <1>5, PTL DEF Spec
=============================================================================
