-------------------------- MODULE ServerConnProofs --------------------------
(* Proofs about ServerConn, for any connections, requests and messages. *)
EXTENDS ServerConn, TLAPS

\* A request is a pair of its connection and its sequence number.
LEMMA Pairs ==
  /\ \A i \in Ids : i[1] \in Conns /\ i[2] \in 1..MaxSeq /\ i = <<i[1], i[2]>>
  /\ \A k \in Conns, n \in 1..MaxSeq :
        <<k, n>> \in Ids /\ <<k, n>>[1] = k /\ <<k, n>>[2] = n
  BY DEF Ids

\* The invariant holds before anything has been read.
LEMMA InitInv == ASSUME Init PROVE IInv
  <1> USE ServerAssumption, Pairs DEF Init
  <1>1. TypeOK BY DEF TypeOK, Responses
  <1>2. Exclusive BY DEF Exclusive, Referenced
  <1>3. NoCrosstalk BY DEF NoCrosstalk
  <1>4. Holding BY DEF Holding
  <1>5. OwnBytes BY DEF OwnBytes
  <1>6. Progress BY DEF Progress
  <1> QED BY <1>1, <1>2, <1>3, <1>4, <1>5, <1>6 DEF IInv

\* The request that a connection decodes next.
LEMMA NextId ==
  ASSUME TypeOK, NEW k \in Conns, read[k] < sent[k]
  PROVE  /\ read[k] \in Nat /\ read[k] + 1 \in 1..MaxSeq
         /\ <<k, read[k] + 1>> \in Ids
  BY ServerAssumption, Pairs DEF TypeOK

\* What the reader has in its message when it is about to answer a heartbeat.
LEMMA BeatOwn ==
  ASSUME IInv, NEW k \in Conns, rpc[k] = "beat"
  PROVE  /\ rmsg[k] \in Msgs /\ <<k, read[k]>> \in Ids
         /\ hdr[rmsg[k]] = <<k, read[k]>> /\ data[rmsg[k]] = <<k, read[k]>>
         /\ kind[<<k, read[k]>>] = "heartbeat" /\ answers[<<k, read[k]>>] = 0
  <1>1. read[k] \in 1..MaxSeq
    <2>1. read[k] \in 0..MaxSeq BY DEF IInv, TypeOK
    <2>2. read[k] > 0 BY DEF IInv, Progress
    <2> QED BY <2>1, <2>2, ServerAssumption
  <1>2. rmsg[k] \in Msgs BY DEF IInv, TypeOK, Holding
  <1> QED BY <1>1, <1>2, Pairs DEF IInv, OwnBytes, Progress

\* What the goroutine of a request has in its messages when it is about to
\* write the response.
LEMMA WriteOwn ==
  ASSUME IInv, NEW i \in Ids, pc[i] = "write"
  PROVE  /\ req[i] \in Msgs /\ res[i] \in Msgs
         /\ hdr[res[i]] = i /\ data[req[i]] = i
         /\ kind[i] # "heartbeat" /\ answers[i] = 0
  <1>1. req[i] \in Msgs /\ res[i] \in Msgs BY DEF IInv, TypeOK, Holding
  <1>2. hdr[res[i]] = i /\ data[req[i]] = i
    BY <1>1, ServerAssumption DEF IInv, OwnBytes
  <1>3. kind[i] # "heartbeat" BY DEF IInv, Progress
  <1>4. answers[i] \in Nat /\ answers[i] <= 1 /\ answers[i] # 1
    <2>1. answers[i] \in Nat BY DEF IInv, TypeOK
    <2>2. answers[i] <= 1 /\ answers[i] # 1 BY <1>3 DEF IInv, Progress
    <2> QED BY <2>1, <2>2
  <1> QED BY <1>1, <1>2, <1>3, <1>4

\* What is written has its types.
LEMMA PutTypes ==
  ASSUME TypeOK, NEW k \in Conns, NEW h \in Msgs, NEW d \in Msgs,
         hdr[h] \in Ids, Put(k, h, d)
  PROVE  out' \subseteq Responses /\ answers' \in [Ids -> Nat]
  BY DEF TypeOK, Put, Responses, outVars

\* Every value that a step stores has its type.
LEMMA TypeNext == ASSUME IInv, [Next]_vars PROVE TypeOK'
  <1>0. TypeOK /\ Holding BY DEF IInv
  <1>1. CASE UNCHANGED vars
    BY <1>0, <1>1, ServerAssumption, Pairs
    DEF TypeOK, Responses, Holding, vars, connVars, readVars, reqVars, msgVars,
        outVars
  <1>2. ASSUME NEW k \in Conns, NEW x \in Kinds, Send(k, x) PROVE TypeOK'
    BY <1>0, <1>2, ServerAssumption, Pairs
    DEF TypeOK, Responses, Holding, Send, readVars, reqVars, msgVars, outVars
  <1>3. ASSUME NEW k \in Conns, Lose(k) PROVE TypeOK'
    BY <1>0, <1>3, ServerAssumption, Pairs
    DEF TypeOK, Responses, Holding, Lose, readVars, reqVars, msgVars, outVars
  <1>4. ASSUME NEW k \in Conns, Loop(k) PROVE TypeOK'
    BY SMTT(40), <1>0, <1>4, ServerAssumption, Pairs
    DEF TypeOK, Responses, Holding, Loop, Get, connVars, reqVars, outVars
  <1>5. ASSUME NEW k \in Conns, Decode(k) PROVE TypeOK'
    <2>1. rmsg[k] \in Msgs BY <1>0, <1>5 DEF TypeOK, Decode, Holding
    <2>2. read' \in [Conns -> 0..MaxSeq]
      BY <1>0, <1>5, NextId DEF TypeOK, Decode
    <2>3. hdr' \in [Msgs -> Ids \cup {NoId}] /\ data' \in [Msgs -> Ids \cup {NoId}]
      BY <1>0, <1>5, <2>1, NextId DEF TypeOK, Decode
    <2>4. rpc' \in [Conns -> {"loop", "read", "beat", "beaten", "exit"}]
      BY <1>0, <1>5 DEF TypeOK, Decode
    <2>5. rmsg' \in [Conns -> Msgs \cup {NoMsg}]
      BY <1>0, <1>5 DEF TypeOK, Decode
    <2>6. pc' \in [Ids -> {"none", "extract", "handle", "call", "error", "write",
                           "freeReq", "freeRes", "done"}]
      BY <1>0, <1>5 DEF TypeOK, Decode
    <2>7. req' \in [Ids -> Msgs \cup {NoMsg}]
      BY <1>0, <1>5, <2>1 DEF TypeOK, Decode
    <2> QED BY <1>0, <1>5, <2>2, <2>3, <2>4, <2>5, <2>6, <2>7
            DEF TypeOK, Responses, Decode, connVars, outVars
  <1>6. ASSUME NEW k \in Conns, ReadFails(k) PROVE TypeOK'
    BY <1>0, <1>6, ServerAssumption, Pairs
    DEF TypeOK, Responses, Holding, ReadFails, reqVars, msgVars, outVars
  <1>7. ASSUME NEW k \in Conns, WriteBeat(k) PROVE TypeOK'
    <2>1. /\ rmsg[k] \in Msgs /\ hdr[rmsg[k]] \in Ids
      BY <1>7, BeatOwn DEF WriteBeat
    <2>2. out' \subseteq Responses /\ answers' \in [Ids -> Nat]
      BY <1>0, <1>7, <2>1, PutTypes DEF WriteBeat
    <2> QED BY <1>0, <1>7, <2>2 DEF TypeOK, WriteBeat, connVars, reqVars, msgVars
  <1>8. ASSUME NEW k \in Conns, FreeBeat(k) PROVE TypeOK'
    BY <1>0, <1>8, ServerAssumption, Pairs
    DEF TypeOK, Responses, Holding, FreeBeat, Free, connVars, reqVars, outVars
  <1>9. ASSUME NEW i \in Ids, Extract(i) PROVE TypeOK'
    BY <1>0, <1>9, ServerAssumption, Pairs
    DEF TypeOK, Responses, Holding, Extract, Goto, connVars, readVars, msgVars,
        outVars
  <1>10. ASSUME NEW i \in Ids, ExtractFails(i) PROVE TypeOK'
    BY <1>0, <1>10, ServerAssumption, Pairs
    DEF TypeOK, Responses, Holding, ExtractFails, Free, Goto, connVars,
        readVars, outVars
  <1>11. ASSUME NEW i \in Ids, HandleRequest(i) PROVE TypeOK'
    BY <1>0, <1>11, ServerAssumption, Pairs
    DEF TypeOK, Responses, Holding, HandleRequest, Get, Goto, connVars,
        readVars, outVars
  <1>12. ASSUME NEW i \in Ids, ServiceReturns(i) PROVE TypeOK'
    BY <1>0, <1>12, ServerAssumption, Pairs
    DEF TypeOK, Responses, Holding, ServiceReturns, Goto, connVars, readVars,
        msgVars, outVars
  <1>13. ASSUME NEW i \in Ids, DropError(i) PROVE TypeOK'
    BY <1>0, <1>13, ServerAssumption, Pairs
    DEF TypeOK, Responses, Holding, DropError, Free, Goto, connVars, readVars,
        outVars
  <1>14. ASSUME NEW i \in Ids, WriteResponse(i) PROVE TypeOK'
    <2>1. out' \subseteq Responses /\ answers' \in [Ids -> Nat]
      BY <1>0, <1>14, WriteOwn, PutTypes, Pairs DEF WriteResponse
    <2> QED BY <1>0, <1>14, <2>1
            DEF TypeOK, WriteResponse, Goto, connVars, readVars, msgVars
  <1>15. ASSUME NEW i \in Ids, FreeReq(i) PROVE TypeOK'
    BY <1>0, <1>15, ServerAssumption, Pairs
    DEF TypeOK, Responses, Holding, FreeReq, Free, Goto, connVars, readVars,
        outVars
  <1>16. ASSUME NEW i \in Ids, FreeRes(i) PROVE TypeOK'
    BY <1>0, <1>16, ServerAssumption, Pairs
    DEF TypeOK, Responses, Holding, FreeRes, Free, Goto, connVars, readVars,
        outVars
  <1> QED
    BY <1>1, <1>2, <1>3, <1>4, <1>5, <1>6, <1>7, <1>8, <1>9, <1>10, <1>11,
       <1>12, <1>13, <1>14, <1>15, <1>16
    DEF Next, ServeConn, HandleTrueRequest

\* Messages change hands, or go into the pool, when they are given up.
LEMMA ExclusiveNext == ASSUME IInv, [Next]_vars PROVE Exclusive'
  <1>0. TypeOK /\ Exclusive /\ Holding BY DEF IInv
  <1>1. CASE UNCHANGED vars
    BY <1>0, <1>1
    DEF TypeOK, Exclusive, Referenced, Holding, vars, connVars, readVars,
        reqVars, msgVars, outVars
  <1>2. ASSUME NEW k \in Conns, NEW x \in Kinds, Send(k, x) PROVE Exclusive'
    BY <1>0, <1>2
    DEF TypeOK, Exclusive, Referenced, Holding, Send, readVars, reqVars,
        msgVars, outVars
  <1>3. ASSUME NEW k \in Conns, Lose(k) PROVE Exclusive'
    BY <1>0, <1>3
    DEF TypeOK, Exclusive, Referenced, Holding, Lose, readVars, reqVars,
        msgVars, outVars
  <1>4. ASSUME NEW k \in Conns, Loop(k) PROVE Exclusive'
    BY <1>0, <1>4
    DEF TypeOK, Exclusive, Referenced, Holding, Loop, Get, connVars, reqVars,
        outVars
  <1>5. ASSUME NEW k \in Conns, Decode(k) PROVE Exclusive'
    <2>1. Referenced' \subseteq Referenced \cup {NoMsg}
      BY <1>0, <1>5, NextId DEF TypeOK, Referenced, Decode
    <2>2. \A m \in Msgs : pool'[m] <= 1 /\ (pool'[m] = 1 => m \notin Referenced')
      BY <1>0, <1>5, <2>1, ServerAssumption DEF Exclusive, Decode
    <2>3. CASE UNCHANGED <<rmsg, req>>
      BY <1>0, <1>5, <2>2, <2>3 DEF TypeOK, Exclusive, Decode
    <2>4. CASE /\ rmsg' = [rmsg EXCEPT ![k] = NoMsg]
               /\ req' = [req EXCEPT ![<<k, read[k] + 1>>] = rmsg[k]]
      <3>1. <<k, read[k] + 1>> \in Ids BY <1>0, <1>5, NextId DEF Decode
      <3>2. rmsg[k] \in Msgs BY <1>0, <1>5 DEF TypeOK, Decode, Holding
      <3>3. \A l \in Conns : rmsg'[l] = IF l = k THEN NoMsg ELSE rmsg[l]
        BY <1>0, <2>4 DEF TypeOK
      <3>4. \A i \in Ids : req'[i] = IF i = <<k, read[k] + 1>> THEN rmsg[k] ELSE req[i]
        BY <1>0, <2>4, <3>1 DEF TypeOK
      <3>5. res' = res BY <1>5 DEF Decode
      <3> QED BY <1>0, <2>2, <3>1, <3>2, <3>3, <3>4, <3>5, ServerAssumption
              DEF Exclusive
    <2> QED BY <1>5, <2>3, <2>4 DEF Decode
  <1>6. ASSUME NEW k \in Conns, ReadFails(k) PROVE Exclusive'
    <2>1. Referenced' \subseteq Referenced \cup {NoMsg}
      BY <1>0, <1>6 DEF TypeOK, Referenced, ReadFails, reqVars
    <2>2. \A m \in Msgs : pool'[m] <= 1 /\ (pool'[m] = 1 => m \notin Referenced')
      BY <1>0, <1>6, <2>1, ServerAssumption DEF Exclusive, ReadFails, msgVars
    <2> QED BY <1>0, <1>6, <2>2 DEF TypeOK, Exclusive, ReadFails, reqVars
  <1>7. ASSUME NEW k \in Conns, WriteBeat(k) PROVE Exclusive'
    BY <1>0, <1>7
    DEF TypeOK, Exclusive, Referenced, Holding, WriteBeat, Put, connVars,
        reqVars, msgVars, outVars
  <1>8. ASSUME NEW k \in Conns, FreeBeat(k) PROVE Exclusive'
    <2>1. rmsg[k] \in Msgs /\ pool[rmsg[k]] \in Nat
      BY <1>0, <1>8 DEF TypeOK, Holding, FreeBeat
    <2>2. pool[rmsg[k]] = 0
      <3>1. rmsg[k] \in Referenced BY DEF Referenced
      <3> QED BY <1>0, <2>1, <3>1 DEF Exclusive
    <2>3. ASSUME NEW m \in Msgs
          PROVE  pool'[m] <= 1 /\ (pool'[m] = 1 => m \notin Referenced')
      <3>1. CASE m = rmsg[k]
        <4>1. pool'[m] = 1 BY <1>0, <1>8, <2>2, <3>1 DEF TypeOK, FreeBeat, Free
        <4>2. /\ \A l \in Conns : rmsg'[l] # m
              /\ \A j \in Ids : req'[j] # m /\ res'[j] # m
          BY <1>0, <1>8, <2>1, <3>1, ServerAssumption
          DEF TypeOK, Exclusive, FreeBeat, reqVars
        <4> QED BY <4>1, <4>2 DEF Referenced
      <3>2. CASE m # rmsg[k]
        <4>1. pool'[m] = pool[m] BY <1>0, <1>8, <3>2 DEF TypeOK, FreeBeat, Free
        <4>2. Referenced' \subseteq Referenced \cup {NoMsg}
          BY <1>0, <1>8 DEF TypeOK, Referenced, FreeBeat, reqVars
        <4> QED BY <1>0, <4>1, <4>2, ServerAssumption DEF Exclusive
      <3> QED BY <3>1, <3>2
    <2> QED BY <1>0, <1>8, <2>3 DEF TypeOK, Exclusive, FreeBeat, reqVars
  <1>9. ASSUME NEW i \in Ids, Extract(i) PROVE Exclusive'
    BY <1>0, <1>9
    DEF TypeOK, Exclusive, Referenced, Holding, Extract, Goto, connVars,
        readVars, msgVars, outVars
  <1>10. ASSUME NEW i \in Ids, ExtractFails(i) PROVE Exclusive'
    <2>1. req[i] \in Msgs /\ pool[req[i]] \in Nat
      BY <1>0, <1>10 DEF TypeOK, Holding, ExtractFails
    <2>2. pool[req[i]] = 0
      <3>1. req[i] \in Referenced BY DEF Referenced
      <3> QED BY <1>0, <2>1, <3>1 DEF Exclusive
    <2>3. ASSUME NEW m \in Msgs
          PROVE  pool'[m] <= 1 /\ (pool'[m] = 1 => m \notin Referenced')
      <3>1. CASE m = req[i]
        <4>1. pool'[m] = 1 BY <1>0, <1>10, <2>2, <3>1 DEF TypeOK, ExtractFails, Free
        <4>2. /\ \A l \in Conns : rmsg'[l] # m
              /\ \A j \in Ids : req'[j] # m /\ res'[j] # m
          BY <1>0, <1>10, <2>1, <3>1, ServerAssumption
          DEF TypeOK, Exclusive, ExtractFails, readVars
        <4> QED BY <4>1, <4>2 DEF Referenced
      <3>2. CASE m # req[i]
        <4>1. pool'[m] = pool[m] BY <1>0, <1>10, <3>2 DEF TypeOK, ExtractFails, Free
        <4>2. Referenced' \subseteq Referenced \cup {NoMsg}
          BY <1>0, <1>10 DEF TypeOK, Referenced, ExtractFails, readVars
        <4> QED BY <1>0, <4>1, <4>2, ServerAssumption DEF Exclusive
      <3> QED BY <3>1, <3>2
    <2> QED BY <1>0, <1>10, <2>3 DEF TypeOK, Exclusive, ExtractFails, readVars
  <1>11. ASSUME NEW i \in Ids, HandleRequest(i) PROVE Exclusive'
    BY <1>0, <1>11
    DEF TypeOK, Exclusive, Referenced, Holding, HandleRequest, Get, Goto,
        connVars, readVars, outVars
  <1>12. ASSUME NEW i \in Ids, ServiceReturns(i) PROVE Exclusive'
    BY <1>0, <1>12
    DEF TypeOK, Exclusive, Referenced, Holding, ServiceReturns, Goto, connVars,
        readVars, msgVars, outVars
  <1>13. ASSUME NEW i \in Ids, DropError(i) PROVE Exclusive'
    <2>1. req[i] \in Msgs /\ pool[req[i]] \in Nat
      BY <1>0, <1>13 DEF TypeOK, Holding, DropError
    <2>2. pool[req[i]] = 0
      <3>1. req[i] \in Referenced BY DEF Referenced
      <3> QED BY <1>0, <2>1, <3>1 DEF Exclusive
    <2>3. ASSUME NEW m \in Msgs
          PROVE  pool'[m] <= 1 /\ (pool'[m] = 1 => m \notin Referenced')
      <3>1. CASE m = req[i]
        <4>1. pool'[m] = 1 BY <1>0, <1>13, <2>2, <3>1 DEF TypeOK, DropError, Free
        <4>2. /\ \A l \in Conns : rmsg'[l] # m
              /\ \A j \in Ids : req'[j] # m /\ res'[j] # m
          BY <1>0, <1>13, <2>1, <3>1, ServerAssumption
          DEF TypeOK, Exclusive, DropError, readVars
        <4> QED BY <4>1, <4>2 DEF Referenced
      <3>2. CASE m # req[i]
        <4>1. pool'[m] = pool[m] BY <1>0, <1>13, <3>2 DEF TypeOK, DropError, Free
        <4>2. Referenced' \subseteq Referenced \cup {NoMsg}
          BY <1>0, <1>13 DEF TypeOK, Referenced, DropError, readVars
        <4> QED BY <1>0, <4>1, <4>2, ServerAssumption DEF Exclusive
      <3> QED BY <3>1, <3>2
    <2> QED BY <1>0, <1>13, <2>3 DEF TypeOK, Exclusive, DropError, readVars
  <1>14. ASSUME NEW i \in Ids, WriteResponse(i) PROVE Exclusive'
    BY <1>0, <1>14
    DEF TypeOK, Exclusive, Referenced, Holding, WriteResponse, Put, Goto,
        connVars, readVars, msgVars, outVars
  <1>15. ASSUME NEW i \in Ids, FreeReq(i) PROVE Exclusive'
    <2>1. req[i] \in Msgs /\ pool[req[i]] \in Nat
      BY <1>0, <1>15 DEF TypeOK, Holding, FreeReq
    <2>2. pool[req[i]] = 0
      <3>1. req[i] \in Referenced BY DEF Referenced
      <3> QED BY <1>0, <2>1, <3>1 DEF Exclusive
    <2>3. ASSUME NEW m \in Msgs
          PROVE  pool'[m] <= 1 /\ (pool'[m] = 1 => m \notin Referenced')
      <3>1. CASE m = req[i]
        <4>1. pool'[m] = 1 BY <1>0, <1>15, <2>2, <3>1 DEF TypeOK, FreeReq, Free
        <4>2. /\ \A l \in Conns : rmsg'[l] # m
              /\ \A j \in Ids : req'[j] # m /\ res'[j] # m
          BY <1>0, <1>15, <2>1, <3>1, ServerAssumption
          DEF TypeOK, Exclusive, FreeReq, readVars
        <4> QED BY <4>1, <4>2 DEF Referenced
      <3>2. CASE m # req[i]
        <4>1. pool'[m] = pool[m] BY <1>0, <1>15, <3>2 DEF TypeOK, FreeReq, Free
        <4>2. Referenced' \subseteq Referenced \cup {NoMsg}
          BY <1>0, <1>15 DEF TypeOK, Referenced, FreeReq, readVars
        <4> QED BY <1>0, <4>1, <4>2, ServerAssumption DEF Exclusive
      <3> QED BY <3>1, <3>2
    <2> QED BY <1>0, <1>15, <2>3 DEF TypeOK, Exclusive, FreeReq, readVars
  <1>16. ASSUME NEW i \in Ids, FreeRes(i) PROVE Exclusive'
    <2>1. res[i] \in Msgs /\ pool[res[i]] \in Nat
      BY <1>0, <1>16 DEF TypeOK, Holding, FreeRes
    <2>2. pool[res[i]] = 0
      <3>1. res[i] \in Referenced BY DEF Referenced
      <3> QED BY <1>0, <2>1, <3>1 DEF Exclusive
    <2>3. ASSUME NEW m \in Msgs
          PROVE  pool'[m] <= 1 /\ (pool'[m] = 1 => m \notin Referenced')
      <3>1. CASE m = res[i]
        <4>1. pool'[m] = 1 BY <1>0, <1>16, <2>2, <3>1 DEF TypeOK, FreeRes, Free
        <4>2. /\ \A l \in Conns : rmsg'[l] # m
              /\ \A j \in Ids : req'[j] # m /\ res'[j] # m
          BY <1>0, <1>16, <2>1, <3>1, ServerAssumption
          DEF TypeOK, Exclusive, FreeRes, readVars
        <4> QED BY <4>1, <4>2 DEF Referenced
      <3>2. CASE m # res[i]
        <4>1. pool'[m] = pool[m] BY <1>0, <1>16, <3>2 DEF TypeOK, FreeRes, Free
        <4>2. Referenced' \subseteq Referenced \cup {NoMsg}
          BY <1>0, <1>16 DEF TypeOK, Referenced, FreeRes, readVars
        <4> QED BY <1>0, <4>1, <4>2, ServerAssumption DEF Exclusive
      <3> QED BY <3>1, <3>2
    <2> QED BY <1>0, <1>16, <2>3 DEF TypeOK, Exclusive, FreeRes, readVars
  <1> QED
    BY <1>1, <1>2, <1>3, <1>4, <1>5, <1>6, <1>7, <1>8, <1>9, <1>10, <1>11,
       <1>12, <1>13, <1>14, <1>15, <1>16
    DEF Next, ServeConn, HandleTrueRequest

\* Control and messages stay in step.
LEMMA HoldingNext == ASSUME IInv, [Next]_vars PROVE Holding'
  <1>0. TypeOK /\ Holding /\ Progress BY DEF IInv
  <1>1. CASE UNCHANGED vars
    BY <1>0, <1>1, ServerAssumption
    DEF TypeOK, Holding, vars, connVars, readVars, reqVars, msgVars, outVars
  <1>2. ASSUME NEW k \in Conns, NEW x \in Kinds, Send(k, x) PROVE Holding'
    BY <1>0, <1>2, ServerAssumption
    DEF TypeOK, Holding, Send, readVars, reqVars, msgVars, outVars
  <1>3. ASSUME NEW k \in Conns, Lose(k) PROVE Holding'
    BY <1>0, <1>3, ServerAssumption
    DEF TypeOK, Holding, Lose, readVars, reqVars, msgVars, outVars
  <1>4. ASSUME NEW k \in Conns, Loop(k) PROVE Holding'
    BY <1>0, <1>4, ServerAssumption
    DEF TypeOK, Holding, Loop, Get, connVars, reqVars, outVars
  <1>5. ASSUME NEW k \in Conns, Decode(k) PROVE Holding'
    <2>1. <<k, read[k] + 1>> \in Ids BY <1>0, <1>5, NextId DEF Decode
    <2>2. res[<<k, read[k] + 1>>] = NoMsg
      <3>1. pc[<<k, read[k] + 1>>] = "none"
        BY <1>0, <1>5, <2>1, NextId, Pairs DEF Progress, Decode
      <3> QED BY <1>0, <2>1, <3>1 DEF Holding
    <2>3. rmsg[k] \in Msgs BY <1>0, <1>5 DEF TypeOK, Decode, Holding
    <2>4. \A l \in Conns : rmsg'[l] # NoMsg <=> rpc'[l] \in {"read", "beat", "beaten"}
      BY <1>0, <1>5, <2>3, ServerAssumption DEF TypeOK, Holding, Decode
    <2>5. ASSUME NEW j \in Ids
          PROVE  /\ req'[j] # NoMsg <=> pc'[j] \in {"extract", "handle", "call", "error",
                                                   "write", "freeReq"}
                 /\ res'[j] # NoMsg <=> pc'[j] \in {"call", "error", "write", "freeReq",
                                                   "freeRes"}
      <3>1. CASE pc'[j] = pc[j] /\ req'[j] = req[j] /\ res'[j] = res[j]
        BY <1>0, <3>1 DEF Holding
      <3>2. CASE j = <<k, read[k] + 1>> /\ pc'[j] = "extract" /\ req'[j] = rmsg[k]
        BY <1>5, <2>2, <2>3, <3>2, ServerAssumption DEF Decode
      <3> QED BY <1>0, <1>5, <2>1, <3>1, <3>2 DEF TypeOK, Decode
    <2> QED BY <2>4, <2>5 DEF Holding
  <1>6. ASSUME NEW k \in Conns, ReadFails(k) PROVE Holding'
    BY <1>0, <1>6, ServerAssumption
    DEF TypeOK, Holding, ReadFails, reqVars, msgVars, outVars
  <1>7. ASSUME NEW k \in Conns, WriteBeat(k) PROVE Holding'
    BY <1>0, <1>7, ServerAssumption
    DEF TypeOK, Holding, WriteBeat, Put, connVars, reqVars, msgVars, outVars
  <1>8. ASSUME NEW k \in Conns, FreeBeat(k) PROVE Holding'
    BY <1>0, <1>8, ServerAssumption
    DEF TypeOK, Holding, FreeBeat, Free, connVars, reqVars, outVars
  <1>9. ASSUME NEW i \in Ids, Extract(i) PROVE Holding'
    BY <1>0, <1>9, ServerAssumption
    DEF TypeOK, Holding, Extract, Goto, connVars, readVars, msgVars, outVars
  <1>10. ASSUME NEW i \in Ids, ExtractFails(i) PROVE Holding'
    BY <1>0, <1>10, ServerAssumption
    DEF TypeOK, Holding, ExtractFails, Free, Goto, connVars, readVars, outVars
  <1>11. ASSUME NEW i \in Ids, HandleRequest(i) PROVE Holding'
    BY <1>0, <1>11, ServerAssumption
    DEF TypeOK, Holding, HandleRequest, Get, Goto, connVars, readVars, outVars
  <1>12. ASSUME NEW i \in Ids, ServiceReturns(i) PROVE Holding'
    BY <1>0, <1>12, ServerAssumption
    DEF TypeOK, Holding, ServiceReturns, Goto, connVars, readVars, msgVars,
        outVars
  <1>13. ASSUME NEW i \in Ids, DropError(i) PROVE Holding'
    BY <1>0, <1>13, ServerAssumption
    DEF TypeOK, Holding, DropError, Free, Goto, connVars, readVars, outVars
  <1>14. ASSUME NEW i \in Ids, WriteResponse(i) PROVE Holding'
    BY <1>0, <1>14, ServerAssumption
    DEF TypeOK, Holding, WriteResponse, Put, Goto, connVars, readVars, msgVars,
        outVars
  <1>15. ASSUME NEW i \in Ids, FreeReq(i) PROVE Holding'
    BY <1>0, <1>15, ServerAssumption
    DEF TypeOK, Holding, FreeReq, Free, Goto, connVars, readVars, outVars
  <1>16. ASSUME NEW i \in Ids, FreeRes(i) PROVE Holding'
    BY <1>0, <1>16, ServerAssumption
    DEF TypeOK, Holding, FreeRes, Free, Goto, connVars, readVars, outVars
  <1> QED
    BY <1>1, <1>2, <1>3, <1>4, <1>5, <1>6, <1>7, <1>8, <1>9, <1>10, <1>11,
       <1>12, <1>13, <1>14, <1>15, <1>16
    DEF Next, ServeConn, HandleTrueRequest

\* A step that changes the contents of message u only, and takes it from
\* whoever used it, leaves the others theirs.
LEMMA OwnBytesKept ==
  ASSUME OwnBytes, NEW u,
         \A m \in Msgs : m # u => hdr'[m] = hdr[m] /\ data'[m] = data[m],
         \A l \in Conns : rpc'[l] = "beat" =>
            /\ rpc[l] = "beat" /\ rmsg'[l] = rmsg[l] /\ read'[l] = read[l]
            /\ rmsg[l] \in Msgs /\ rmsg[l] # u,
         \A j \in Ids :
            /\ req'[j] # NoMsg => req'[j] = req[j] /\ req[j] \in Msgs /\ req[j] # u
            /\ res'[j] # NoMsg => res'[j] = res[j] /\ res[j] \in Msgs /\ res[j] # u
  PROVE  OwnBytes'
  <1>1. ASSUME NEW l \in Conns, rpc'[l] = "beat"
        PROVE  hdr'[rmsg'[l]] = <<l, read'[l]>> /\ data'[rmsg'[l]] = <<l, read'[l]>>
    <2>1. rmsg'[l] = rmsg[l] /\ rmsg[l] \in Msgs /\ rmsg[l] # u BY <1>1
    <2>2. hdr[rmsg[l]] = <<l, read[l]>> /\ data[rmsg[l]] = <<l, read[l]>>
      BY <1>1 DEF OwnBytes
    <2> QED BY <1>1, <2>1, <2>2
  <1>2. ASSUME NEW j \in Ids, req'[j] # NoMsg
        PROVE  hdr'[req'[j]] = j /\ data'[req'[j]] = j
    <2>1. req'[j] = req[j] /\ req[j] \in Msgs /\ req[j] # u BY <1>2
    <2>2. hdr[req[j]] = j /\ data[req[j]] = j BY <1>2, <2>1 DEF OwnBytes
    <2> QED BY <2>1, <2>2
  <1>3. ASSUME NEW j \in Ids, res'[j] # NoMsg PROVE hdr'[res'[j]] = j
    <2>1. res'[j] = res[j] /\ res[j] \in Msgs /\ res[j] # u BY <1>3
    <2>2. hdr[res[j]] = j BY <1>3, <2>1 DEF OwnBytes
    <2> QED BY <2>1, <2>2
  <1> QED BY <1>1, <1>2, <1>3 DEF OwnBytes

\* No goroutine loses the bytes that it works on.
LEMMA OwnBytesNext == ASSUME IInv, [Next]_vars PROVE OwnBytes'
  <1>0. TypeOK /\ Exclusive /\ Holding /\ OwnBytes BY DEF IInv
  <1>1. CASE UNCHANGED vars
    BY <1>0, <1>1
    DEF TypeOK, OwnBytes, vars, connVars, readVars, reqVars, msgVars, outVars
  <1>2. ASSUME NEW k \in Conns, NEW x \in Kinds, Send(k, x) PROVE OwnBytes'
    BY <1>0, <1>2 DEF TypeOK, OwnBytes, Send, readVars, reqVars, msgVars, outVars
  <1>3. ASSUME NEW k \in Conns, Lose(k) PROVE OwnBytes'
    BY <1>0, <1>3 DEF TypeOK, OwnBytes, Lose, readVars, reqVars, msgVars, outVars
  <1>4. ASSUME NEW k \in Conns, Loop(k) PROVE OwnBytes'
    <2>1. \A l \in Conns : rpc'[l] = "beat" => l # k /\ rpc[l] = "beat"
      BY <1>0, <1>4 DEF TypeOK, Loop
    <2> QED BY <1>0, <1>4, <2>1 DEF TypeOK, OwnBytes, Loop, reqVars
  <1>5. ASSUME NEW k \in Conns, Decode(k) PROVE OwnBytes'
    <2>1. read[k] \in Nat /\ <<k, read[k] + 1>> \in Ids BY <1>0, <1>5, NextId DEF Decode
    <2>2. rmsg[k] \in Msgs BY <1>0, <1>5 DEF TypeOK, Decode, Holding
    <2>3. hdr'[rmsg[k]] = <<k, read[k] + 1>> /\ data'[rmsg[k]] = <<k, read[k] + 1>>
      BY <1>0, <1>5, <2>2 DEF TypeOK, Decode
    <2>4. \A m \in Msgs : m # rmsg[k] => hdr'[m] = hdr[m] /\ data'[m] = data[m]
      BY <1>0, <1>5, <2>2 DEF TypeOK, Decode
    <2>5. ASSUME NEW l \in Conns, rpc'[l] = "beat"
          PROVE  hdr'[rmsg'[l]] = <<l, read'[l]>> /\ data'[rmsg'[l]] = <<l, read'[l]>>
      <3>1. CASE l = k
        <4>1. rmsg'[k] = rmsg[k] /\ read'[k] = read[k] + 1
          BY <1>0, <1>5, <2>5, <3>1 DEF TypeOK, Decode
        <4> QED BY <2>3, <3>1, <4>1
      <3>2. CASE l # k
        <4>1. rpc[l] = "beat" /\ rmsg'[l] = rmsg[l] /\ read'[l] = read[l]
          BY <1>0, <1>5, <2>5, <3>2 DEF TypeOK, Decode
        <4>2. rmsg[l] \in Msgs /\ rmsg[l] # rmsg[k]
          BY <1>0, <2>2, <3>2, <4>1, ServerAssumption DEF TypeOK, Holding, Exclusive
        <4> QED BY <1>0, <2>4, <4>1, <4>2 DEF OwnBytes
      <3> QED BY <3>1, <3>2
    <2>6. ASSUME NEW i \in Ids, req'[i] # NoMsg
          PROVE  hdr'[req'[i]] = i /\ data'[req'[i]] = i
      <3>1. CASE req'[i] = req[i] /\ req[i] # rmsg[k]
        BY <1>0, <2>4, <2>6, <3>1 DEF TypeOK, OwnBytes
      <3>2. CASE i = <<k, read[k] + 1>> /\ req'[i] = rmsg[k]
        BY <2>3, <3>2
      <3>3. req[i] # rmsg[k]
        BY <1>0, <2>2, ServerAssumption DEF Exclusive
      <3> QED BY <1>0, <1>5, <2>1, <3>1, <3>2, <3>3 DEF TypeOK, Decode
    <2>7. ASSUME NEW i \in Ids, res'[i] # NoMsg PROVE hdr'[res'[i]] = i
      <3>1. res'[i] = res[i] BY <1>5 DEF Decode
      <3>2. res[i] \in Msgs /\ res[i] # rmsg[k]
        BY <1>0, <2>2, <2>7, <3>1, ServerAssumption DEF TypeOK, Exclusive
      <3> QED BY <1>0, <2>4, <2>7, <3>1, <3>2 DEF OwnBytes
    <2> QED BY <2>5, <2>6, <2>7 DEF OwnBytes
  <1>6. ASSUME NEW k \in Conns, ReadFails(k) PROVE OwnBytes'
    BY <1>0, <1>6 DEF TypeOK, OwnBytes, ReadFails, reqVars, msgVars, outVars
  <1>7. ASSUME NEW k \in Conns, WriteBeat(k) PROVE OwnBytes'
    BY <1>0, <1>7
    DEF TypeOK, OwnBytes, WriteBeat, Put, connVars, reqVars, msgVars, outVars
  <1>8. ASSUME NEW k \in Conns, FreeBeat(k) PROVE OwnBytes'
    <2>1. rmsg[k] \in Msgs BY <1>0, <1>8 DEF TypeOK, Holding, FreeBeat
    <2>2. \A m \in Msgs : m # rmsg[k] => hdr'[m] = hdr[m] /\ data'[m] = data[m]
      BY <1>0, <1>8, <2>1 DEF TypeOK, FreeBeat, Free
    <2>3. \A l \in Conns : rpc'[l] = "beat" =>
            /\ rpc[l] = "beat" /\ rmsg'[l] = rmsg[l] /\ read'[l] = read[l]
            /\ rmsg[l] \in Msgs /\ rmsg[l] # rmsg[k]
      BY <1>0, <1>8, <2>1, ServerAssumption
      DEF TypeOK, Holding, Exclusive, FreeBeat, reqVars
    <2>4. \A j \in Ids :
            /\ req'[j] # NoMsg => req'[j] = req[j] /\ req[j] \in Msgs /\ req[j] # rmsg[k]
            /\ res'[j] # NoMsg => res'[j] = res[j] /\ res[j] \in Msgs /\ res[j] # rmsg[k]
      BY <1>0, <1>8, <2>1, ServerAssumption DEF TypeOK, Exclusive, FreeBeat, reqVars
    <2> QED BY <1>0, <2>2, <2>3, <2>4, OwnBytesKept
  <1>9. ASSUME NEW i \in Ids, Extract(i) PROVE OwnBytes'
    BY <1>0, <1>9
    DEF TypeOK, OwnBytes, Extract, Goto, connVars, readVars, msgVars, outVars
  <1>10. ASSUME NEW i \in Ids, ExtractFails(i) PROVE OwnBytes'
    <2>1. req[i] \in Msgs BY <1>0, <1>10 DEF TypeOK, Holding, ExtractFails
    <2>2. \A m \in Msgs : m # req[i] => hdr'[m] = hdr[m] /\ data'[m] = data[m]
      BY <1>0, <1>10, <2>1 DEF TypeOK, ExtractFails, Free
    <2>3. \A l \in Conns : rpc'[l] = "beat" =>
            /\ rpc[l] = "beat" /\ rmsg'[l] = rmsg[l] /\ read'[l] = read[l]
            /\ rmsg[l] \in Msgs /\ rmsg[l] # req[i]
      BY <1>0, <1>10, <2>1, ServerAssumption
      DEF TypeOK, Holding, Exclusive, ExtractFails, readVars
    <2>4. \A j \in Ids :
            /\ req'[j] # NoMsg => req'[j] = req[j] /\ req[j] \in Msgs /\ req[j] # req[i]
            /\ res'[j] # NoMsg => res'[j] = res[j] /\ res[j] \in Msgs /\ res[j] # req[i]
      BY <1>0, <1>10, <2>1, ServerAssumption DEF TypeOK, Exclusive, ExtractFails, readVars
    <2> QED BY <1>0, <2>2, <2>3, <2>4, OwnBytesKept
  <1>11. ASSUME NEW i \in Ids, HandleRequest(i) PROVE OwnBytes'
    <2>1. PICK m \in Msgs : /\ Get(m)
                            /\ res' = [res EXCEPT ![i] = m]
                            /\ hdr' = [hdr EXCEPT ![m] = hdr[req[i]]]
      BY <1>11 DEF HandleRequest
    <2>2. m \notin Referenced BY <1>0, <2>1 DEF TypeOK, Exclusive, Get
    <2>3. hdr[req[i]] = i BY <1>0, <1>11 DEF Holding, OwnBytes, HandleRequest
    <2>4. hdr'[m] = i /\ \A n \in Msgs : n # m => hdr'[n] = hdr[n]
      BY <1>0, <2>1, <2>3 DEF TypeOK
    <2>5. \A l \in Conns : rpc[l] = "beat" => rmsg[l] \in Msgs /\ rmsg[l] # m
      BY <1>0, <2>2 DEF TypeOK, Holding, Referenced
    <2>6. \A j \in Ids : /\ req[j] # NoMsg => req[j] \in Msgs /\ req[j] # m
                         /\ res[j] # NoMsg => res[j] \in Msgs /\ res[j] # m
      BY <1>0, <2>2 DEF TypeOK, Referenced
    <2>7. \A j \in Ids : res'[j] = IF j = i THEN m ELSE res[j]
      BY <1>0, <2>1 DEF TypeOK
    <2> QED BY <1>0, <1>11, <2>4, <2>5, <2>6, <2>7
            DEF OwnBytes, HandleRequest, readVars
  <1>12. ASSUME NEW i \in Ids, ServiceReturns(i) PROVE OwnBytes'
    BY <1>0, <1>12
    DEF TypeOK, OwnBytes, ServiceReturns, Goto, connVars, readVars, msgVars,
        outVars
  <1>13. ASSUME NEW i \in Ids, DropError(i) PROVE OwnBytes'
    <2>1. req[i] \in Msgs BY <1>0, <1>13 DEF TypeOK, Holding, DropError
    <2>2. \A m \in Msgs : m # req[i] => hdr'[m] = hdr[m] /\ data'[m] = data[m]
      BY <1>0, <1>13, <2>1 DEF TypeOK, DropError, Free
    <2>3. \A l \in Conns : rpc'[l] = "beat" =>
            /\ rpc[l] = "beat" /\ rmsg'[l] = rmsg[l] /\ read'[l] = read[l]
            /\ rmsg[l] \in Msgs /\ rmsg[l] # req[i]
      BY <1>0, <1>13, <2>1, ServerAssumption
      DEF TypeOK, Holding, Exclusive, DropError, readVars
    <2>4. \A j \in Ids :
            /\ req'[j] # NoMsg => req'[j] = req[j] /\ req[j] \in Msgs /\ req[j] # req[i]
            /\ res'[j] # NoMsg => res'[j] = res[j] /\ res[j] \in Msgs /\ res[j] # req[i]
      BY <1>0, <1>13, <2>1, ServerAssumption DEF TypeOK, Exclusive, DropError, readVars
    <2> QED BY <1>0, <2>2, <2>3, <2>4, OwnBytesKept
  <1>14. ASSUME NEW i \in Ids, WriteResponse(i) PROVE OwnBytes'
    BY <1>0, <1>14
    DEF TypeOK, OwnBytes, WriteResponse, Put, Goto, connVars, readVars, msgVars,
        outVars
  <1>15. ASSUME NEW i \in Ids, FreeReq(i) PROVE OwnBytes'
    <2>1. req[i] \in Msgs BY <1>0, <1>15 DEF TypeOK, Holding, FreeReq
    <2>2. \A m \in Msgs : m # req[i] => hdr'[m] = hdr[m] /\ data'[m] = data[m]
      BY <1>0, <1>15, <2>1 DEF TypeOK, FreeReq, Free
    <2>3. \A l \in Conns : rpc'[l] = "beat" =>
            /\ rpc[l] = "beat" /\ rmsg'[l] = rmsg[l] /\ read'[l] = read[l]
            /\ rmsg[l] \in Msgs /\ rmsg[l] # req[i]
      BY <1>0, <1>15, <2>1, ServerAssumption
      DEF TypeOK, Holding, Exclusive, FreeReq, readVars
    <2>4. \A j \in Ids :
            /\ req'[j] # NoMsg => req'[j] = req[j] /\ req[j] \in Msgs /\ req[j] # req[i]
            /\ res'[j] # NoMsg => res'[j] = res[j] /\ res[j] \in Msgs /\ res[j] # req[i]
      BY <1>0, <1>15, <2>1, ServerAssumption DEF TypeOK, Exclusive, FreeReq, readVars
    <2> QED BY <1>0, <2>2, <2>3, <2>4, OwnBytesKept
  <1>16. ASSUME NEW i \in Ids, FreeRes(i) PROVE OwnBytes'
    <2>1. res[i] \in Msgs BY <1>0, <1>16 DEF TypeOK, Holding, FreeRes
    <2>2. \A m \in Msgs : m # res[i] => hdr'[m] = hdr[m] /\ data'[m] = data[m]
      BY <1>0, <1>16, <2>1 DEF TypeOK, FreeRes, Free
    <2>3. \A l \in Conns : rpc'[l] = "beat" =>
            /\ rpc[l] = "beat" /\ rmsg'[l] = rmsg[l] /\ read'[l] = read[l]
            /\ rmsg[l] \in Msgs /\ rmsg[l] # res[i]
      BY <1>0, <1>16, <2>1, ServerAssumption
      DEF TypeOK, Holding, Exclusive, FreeRes, readVars
    <2>4. \A j \in Ids :
            /\ req'[j] # NoMsg => req'[j] = req[j] /\ req[j] \in Msgs /\ req[j] # res[i]
            /\ res'[j] # NoMsg => res'[j] = res[j] /\ res[j] \in Msgs /\ res[j] # res[i]
      BY <1>0, <1>16, <2>1, ServerAssumption DEF TypeOK, Exclusive, FreeRes, readVars
    <2> QED BY <1>0, <2>2, <2>3, <2>4, OwnBytesKept
  <1> QED
    BY <1>1, <1>2, <1>3, <1>4, <1>5, <1>6, <1>7, <1>8, <1>9, <1>10, <1>11,
       <1>12, <1>13, <1>14, <1>15, <1>16
    DEF Next, ServeConn, HandleTrueRequest

\* What is written is written out of own messages.
LEMMA NoCrosstalkNext == ASSUME IInv, [Next]_vars PROVE NoCrosstalk'
  <1>0. NoCrosstalk BY DEF IInv
  <1>1. CASE UNCHANGED vars
    BY <1>0, <1>1
    DEF NoCrosstalk, vars, connVars, readVars, reqVars, msgVars, outVars
  <1>2. ASSUME NEW k \in Conns, NEW x \in Kinds, Send(k, x) PROVE NoCrosstalk'
    BY <1>0, <1>2 DEF NoCrosstalk, Send, readVars, reqVars, msgVars, outVars
  <1>3. ASSUME NEW k \in Conns, Lose(k) PROVE NoCrosstalk'
    BY <1>0, <1>3 DEF NoCrosstalk, Lose, readVars, reqVars, msgVars, outVars
  <1>4. ASSUME NEW k \in Conns, Loop(k) PROVE NoCrosstalk'
    BY <1>0, <1>4 DEF NoCrosstalk, Loop, Get, connVars, reqVars, outVars
  <1>5. ASSUME NEW k \in Conns, Decode(k) PROVE NoCrosstalk'
    BY <1>0, <1>5 DEF NoCrosstalk, Decode, connVars, outVars
  <1>6. ASSUME NEW k \in Conns, ReadFails(k) PROVE NoCrosstalk'
    BY <1>0, <1>6 DEF NoCrosstalk, ReadFails, reqVars, msgVars, outVars
  <1>7. ASSUME NEW k \in Conns, WriteBeat(k) PROVE NoCrosstalk'
    <2>1. rpc[k] = "beat" BY <1>7 DEF WriteBeat
    <2>2. /\ <<k, read[k]>> \in Ids /\ <<k, read[k]>>[1] = k
          /\ hdr[rmsg[k]] = <<k, read[k]>> /\ data[rmsg[k]] = <<k, read[k]>>
      BY <2>1, BeatOwn
    <2> QED BY <1>0, <1>7, <2>2 DEF NoCrosstalk, WriteBeat, Put, outVars
  <1>8. ASSUME NEW k \in Conns, FreeBeat(k) PROVE NoCrosstalk'
    BY <1>0, <1>8 DEF NoCrosstalk, FreeBeat, Free, connVars, reqVars, outVars
  <1>9. ASSUME NEW i \in Ids, Extract(i) PROVE NoCrosstalk'
    BY <1>0, <1>9
    DEF NoCrosstalk, Extract, Goto, connVars, readVars, msgVars, outVars
  <1>10. ASSUME NEW i \in Ids, ExtractFails(i) PROVE NoCrosstalk'
    BY <1>0, <1>10
    DEF NoCrosstalk, ExtractFails, Free, Goto, connVars, readVars, outVars
  <1>11. ASSUME NEW i \in Ids, HandleRequest(i) PROVE NoCrosstalk'
    BY <1>0, <1>11
    DEF NoCrosstalk, HandleRequest, Get, Goto, connVars, readVars, outVars
  <1>12. ASSUME NEW i \in Ids, ServiceReturns(i) PROVE NoCrosstalk'
    BY <1>0, <1>12
    DEF NoCrosstalk, ServiceReturns, Goto, connVars, readVars, msgVars, outVars
  <1>13. ASSUME NEW i \in Ids, DropError(i) PROVE NoCrosstalk'
    BY <1>0, <1>13
    DEF NoCrosstalk, DropError, Free, Goto, connVars, readVars, outVars
  <1>14. ASSUME NEW i \in Ids, WriteResponse(i) PROVE NoCrosstalk'
    <2>1. pc[i] = "write" BY <1>14 DEF WriteResponse
    <2> QED BY <1>0, <1>14, <2>1, WriteOwn DEF NoCrosstalk, WriteResponse, Put, outVars
  <1>15. ASSUME NEW i \in Ids, FreeReq(i) PROVE NoCrosstalk'
    BY <1>0, <1>15 DEF NoCrosstalk, FreeReq, Free, Goto, connVars, readVars, outVars
  <1>16. ASSUME NEW i \in Ids, FreeRes(i) PROVE NoCrosstalk'
    BY <1>0, <1>16 DEF NoCrosstalk, FreeRes, Free, Goto, connVars, readVars, outVars
  <1> QED
    BY <1>1, <1>2, <1>3, <1>4, <1>5, <1>6, <1>7, <1>8, <1>9, <1>10, <1>11,
       <1>12, <1>13, <1>14, <1>15, <1>16
    DEF Next, ServeConn, HandleTrueRequest

\* Requests go on in order, and are answered once.
LEMMA ProgressNext == ASSUME IInv, [Next]_vars PROVE Progress'
  <1>0. TypeOK /\ Progress BY DEF IInv
  <1>1. CASE UNCHANGED vars
    BY <1>0, <1>1
    DEF TypeOK, Progress, vars, connVars, readVars, reqVars, msgVars, outVars
  <1>2. ASSUME NEW k \in Conns, NEW x \in Kinds, Send(k, x) PROVE Progress'
    <2>1. sent[k] + 1 \in 1..MaxSeq /\ <<k, sent[k] + 1>> \in Ids
      BY <1>0, <1>2, ServerAssumption, Pairs DEF TypeOK, Send
    <2>2. \A j \in Ids : kind'[j] = IF j = <<k, sent[k] + 1>> THEN x ELSE kind[j]
      BY <1>0, <1>2, <2>1 DEF TypeOK, Send
    <2>3. \A l \in Conns : sent'[l] = IF l = k THEN sent[k] + 1 ELSE sent[l]
      BY <1>0, <1>2 DEF TypeOK, Send
    <2>4. UNCHANGED <<rpc, read, pc, answers>>
      BY <1>2 DEF Send, readVars, reqVars, outVars
    <2>5. \A l \in Conns : read[l] \in Nat /\ sent[l] \in Nat
      BY <1>0, ServerAssumption DEF TypeOK
    <2>6. ASSUME NEW l \in Conns
          PROVE  /\ read'[l] <= sent'[l]
                 /\ rpc'[l] \in {"beat", "beaten"} =>
                      read'[l] > 0 /\ kind'[<<l, read'[l]>>] = "heartbeat"
                 /\ rpc'[l] = "beat" => answers'[<<l, read'[l]>>] = 0
      <3>1. read[l] <= sent[l] BY <1>0 DEF Progress
      <3>2. ASSUME rpc[l] \in {"beat", "beaten"}
            PROVE  read[l] > 0 /\ kind'[<<l, read[l]>>] = "heartbeat"
        <4>1. read[l] > 0 /\ kind[<<l, read[l]>>] = "heartbeat"
          BY <1>0, <3>2 DEF Progress
        <4>2. <<l, read[l]>> \in Ids
          BY <1>0, <2>5, <4>1, Pairs, ServerAssumption DEF TypeOK
        <4>3. <<l, read[l]>> # <<k, sent[k] + 1>> BY <2>5, <3>1
        <4> QED BY <2>2, <4>1, <4>2, <4>3
      <3>3. rpc[l] = "beat" => answers[<<l, read[l]>>] = 0 BY <1>0 DEF Progress
      <3> QED BY <2>3, <2>4, <2>5, <3>1, <3>2, <3>3
    <2>7. ASSUME NEW j \in Ids
          PROVE  /\ kind'[j] # "none" <=> j[2] <= sent'[j[1]]
                 /\ pc'[j] # "none" => j[2] <= read'[j[1]] /\ kind'[j] # "heartbeat"
                 /\ answers'[j] <= 1
                 /\ answers'[j] = 1 => /\ j[2] <= read'[j[1]]
                                       /\ \/ kind'[j] = "heartbeat"
                                          \/ pc'[j] \in {"freeReq", "freeRes", "done"}
      <3>1. j[1] \in Conns /\ j[2] \in 1..MaxSeq /\ j = <<j[1], j[2]>> BY Pairs
      <3>2. /\ kind[j] # "none" <=> j[2] <= sent[j[1]]
            /\ pc[j] # "none" => j[2] <= read[j[1]] /\ kind[j] # "heartbeat"
            /\ answers[j] <= 1
            /\ answers[j] = 1 => /\ j[2] <= read[j[1]]
                                 /\ \/ kind[j] = "heartbeat"
                                    \/ pc[j] \in {"freeReq", "freeRes", "done"}
        BY <1>0 DEF Progress
      <3>3. CASE j = <<k, sent[k] + 1>>
        <4>1. j[1] = k /\ j[2] = sent[k] + 1 BY <3>3
        <4>2. read[k] <= sent[k] BY <1>0 DEF Progress
        <4>3. ~(j[2] <= read[k]) BY <2>5, <4>1, <4>2
        <4>4. kind'[j] = x /\ sent'[j[1]] = sent[k] + 1 BY <2>2, <2>3, <3>3, <4>1
        <4>5. pc[j] = "none" /\ answers[j] # 1 BY <3>2, <4>1, <4>3
        <4> QED BY <2>4, <2>5, <3>2, <4>1, <4>4, <4>5 DEF Kinds
      <3>4. CASE j # <<k, sent[k] + 1>>
        <4>1. kind'[j] = kind[j] BY <2>2, <3>4
        <4>2. j[2] <= sent[j[1]] <=> j[2] <= sent'[j[1]]
          BY <2>3, <2>5, <3>1, <3>4
        <4> QED BY <2>4, <3>2, <4>1, <4>2
      <3> QED BY <3>3, <3>4
    <2> QED BY <2>6, <2>7 DEF Progress
  <1>3. ASSUME NEW k \in Conns, Lose(k) PROVE Progress'
    BY <1>0, <1>3 DEF TypeOK, Progress, Lose, readVars, reqVars, msgVars, outVars
  <1>4. ASSUME NEW k \in Conns, Loop(k) PROVE Progress'
    BY <1>0, <1>4 DEF TypeOK, Progress, Loop, Get, connVars, reqVars, outVars
  <1>5. ASSUME NEW k \in Conns, Decode(k) PROVE Progress'
    <2> DEFINE n == <<k, read[k] + 1>>
    <2>1. /\ read[k] \in Nat /\ read[k] + 1 \in 1..MaxSeq /\ n \in Ids
          /\ n[1] = k /\ n[2] = read[k] + 1
      BY <1>0, <1>5, NextId, Pairs DEF Decode
    <2>2. \A l \in Conns : read'[l] = IF l = k THEN read[k] + 1 ELSE read[l]
      BY <1>0, <1>5 DEF TypeOK, Decode
    <2>3. UNCHANGED <<sent, kind, answers>> BY <1>5 DEF Decode, connVars, outVars
    <2>4. \A l \in Conns : read[l] \in Nat /\ sent[l] \in Nat
      BY <1>0, ServerAssumption DEF TypeOK
    <2>5. read[k] < sent[k] BY <1>5 DEF Decode
    <2>6. answers[n] = 0 /\ pc[n] = "none"
      <3>1. ~(n[2] <= read[k]) BY <2>1
      <3>2. answers[n] \in Nat /\ answers[n] <= 1 /\ answers[n] # 1 /\ pc[n] = "none"
        BY <1>0, <2>1, <3>1 DEF TypeOK, Progress
      <3> QED BY <3>2
    <2>7. ASSUME NEW l \in Conns
          PROVE  /\ read'[l] <= sent'[l]
                 /\ rpc'[l] \in {"beat", "beaten"} =>
                      read'[l] > 0 /\ kind'[<<l, read'[l]>>] = "heartbeat"
                 /\ rpc'[l] = "beat" => answers'[<<l, read'[l]>>] = 0
      <3>1. CASE l = k
        <4>1. rpc'[k] \in {"beat", "beaten"} => kind[n] = "heartbeat"
          BY <1>0, <1>5 DEF TypeOK, Decode
        <4> QED BY <2>1, <2>2, <2>3, <2>4, <2>5, <2>6, <3>1, <4>1
      <3>2. CASE l # k
        <4>1. rpc'[l] = rpc[l] BY <1>0, <1>5, <3>2 DEF TypeOK, Decode
        <4>2. read'[l] = read[l] BY <2>2, <3>2
        <4>3. UNCHANGED sent /\ UNCHANGED kind /\ UNCHANGED answers BY <2>3
        <4> QED BY <1>0, <4>1, <4>2, <4>3 DEF Progress
      <3> QED BY <3>1, <3>2
    <2>8. ASSUME NEW j \in Ids
          PROVE  /\ kind'[j] # "none" <=> j[2] <= sent'[j[1]]
                 /\ pc'[j] # "none" => j[2] <= read'[j[1]] /\ kind'[j] # "heartbeat"
                 /\ answers'[j] <= 1
                 /\ answers'[j] = 1 => /\ j[2] <= read'[j[1]]
                                       /\ \/ kind'[j] = "heartbeat"
                                          \/ pc'[j] \in {"freeReq", "freeRes", "done"}
      <3>1. j[1] \in Conns /\ j[2] \in 1..MaxSeq /\ j = <<j[1], j[2]>> BY Pairs
      <3>2. /\ kind[j] # "none" <=> j[2] <= sent[j[1]]
            /\ pc[j] # "none" => j[2] <= read[j[1]] /\ kind[j] # "heartbeat"
            /\ answers[j] <= 1
            /\ answers[j] = 1 => /\ j[2] <= read[j[1]]
                                 /\ \/ kind[j] = "heartbeat"
                                    \/ pc[j] \in {"freeReq", "freeRes", "done"}
        BY <1>0 DEF Progress
      <3>3. j[2] <= read[j[1]] => j[2] <= read'[j[1]] BY <2>2, <2>4, <3>1
      <3>4. CASE j = n
        <4>1. pc'[j] # "none" => kind[j] # "heartbeat"
          BY <1>0, <1>5, <2>6, <3>4 DEF TypeOK, Decode
        <4>2. j[2] <= read'[j[1]] BY <2>1, <2>2, <3>4
        <4> QED BY <2>3, <2>6, <3>2, <3>4, <4>1, <4>2
      <3>5. CASE j # n
        <4>1. pc'[j] = pc[j] BY <1>0, <1>5, <3>5 DEF TypeOK, Decode
        <4> QED BY <2>3, <3>2, <3>3, <4>1
      <3> QED BY <3>4, <3>5
    <2> QED BY <2>7, <2>8 DEF Progress
  <1>6. ASSUME NEW k \in Conns, ReadFails(k) PROVE Progress'
    BY <1>0, <1>6 DEF TypeOK, Progress, ReadFails, reqVars, msgVars, outVars
  <1>7. ASSUME NEW k \in Conns, WriteBeat(k) PROVE Progress'
    <2> DEFINE b == <<k, read[k]>>
    <2>1. rpc[k] = "beat" BY <1>7 DEF WriteBeat
    <2>2. rmsg[k] \in Msgs /\ b \in Ids /\ hdr[rmsg[k]] = b
          /\ kind[b] = "heartbeat" /\ answers[b] = 0
      BY <2>1, BeatOwn
    <2>3. UNCHANGED <<sent, kind, read, pc>> BY <1>7 DEF WriteBeat, connVars, reqVars
    <2>4. \A j \in Ids : /\ j # b => answers'[j] = answers[j]
                         /\ answers'[b] \in {0, 1}
      BY <1>0, <1>7, <2>2 DEF TypeOK, WriteBeat, Put, outVars
    <2>5. read[k] \in Nat /\ b[1] = k /\ b[2] = read[k]
      BY <1>0, ServerAssumption DEF TypeOK
    <2>6. ASSUME NEW l \in Conns
          PROVE  /\ read'[l] <= sent'[l]
                 /\ rpc'[l] \in {"beat", "beaten"} =>
                      read'[l] > 0 /\ kind'[<<l, read'[l]>>] = "heartbeat"
                 /\ rpc'[l] = "beat" => answers'[<<l, read'[l]>>] = 0
      <3>1. CASE l = k
        <4>1. rpc'[k] = "beaten" BY <1>0, <1>7 DEF TypeOK, WriteBeat
        <4> QED BY <1>0, <2>1, <2>3, <3>1, <4>1 DEF Progress
      <3>2. CASE l # k
        <4>1. rpc'[l] = rpc[l] BY <1>0, <1>7, <3>2 DEF TypeOK, WriteBeat
        <4>2. rpc[l] = "beat" => <<l, read[l]>> \in Ids
          BY BeatOwn
        <4>3. <<l, read[l]>> # b BY <3>2
        <4> QED BY <1>0, <2>3, <2>4, <4>1, <4>2, <4>3 DEF Progress
      <3> QED BY <3>1, <3>2
    <2>7. ASSUME NEW j \in Ids
          PROVE  /\ answers'[j] <= 1
                 /\ answers'[j] = 1 => /\ j[2] <= read'[j[1]]
                                       /\ \/ kind'[j] = "heartbeat"
                                          \/ pc'[j] \in {"freeReq", "freeRes", "done"}
      <3>1. CASE j = b BY <2>2, <2>3, <2>4, <2>5, <3>1
      <3>2. CASE j # b
        <4>1. answers'[j] = answers[j] BY <2>4, <3>2
        <4> QED BY <1>0, <2>3, <4>1 DEF Progress
      <3> QED BY <3>1, <3>2
    <2> QED BY <1>0, <2>3, <2>6, <2>7 DEF Progress
  <1>8. ASSUME NEW k \in Conns, FreeBeat(k) PROVE Progress'
    BY <1>0, <1>8 DEF TypeOK, Progress, FreeBeat, Free, connVars, reqVars, outVars
  <1>9. ASSUME NEW i \in Ids, Extract(i) PROVE Progress'
    BY <1>0, <1>9
    DEF TypeOK, Progress, Extract, Goto, connVars, readVars, msgVars, outVars
  <1>10. ASSUME NEW i \in Ids, ExtractFails(i) PROVE Progress'
    BY <1>0, <1>10
    DEF TypeOK, Progress, ExtractFails, Free, Goto, connVars, readVars, outVars
  <1>11. ASSUME NEW i \in Ids, HandleRequest(i) PROVE Progress'
    BY <1>0, <1>11
    DEF TypeOK, Progress, HandleRequest, Get, Goto, connVars, readVars, outVars
  <1>12. ASSUME NEW i \in Ids, ServiceReturns(i) PROVE Progress'
    BY <1>0, <1>12
    DEF TypeOK, Progress, ServiceReturns, Goto, connVars, readVars, msgVars,
        outVars
  <1>13. ASSUME NEW i \in Ids, DropError(i) PROVE Progress'
    BY <1>0, <1>13
    DEF TypeOK, Progress, DropError, Free, Goto, connVars, readVars, outVars
  <1>14. ASSUME NEW i \in Ids, WriteResponse(i) PROVE Progress'
    <2>1. pc[i] = "write" BY <1>14 DEF WriteResponse
    <2>2. res[i] \in Msgs /\ hdr[res[i]] = i /\ kind[i] # "heartbeat" /\ answers[i] = 0
      BY <2>1, WriteOwn
    <2>3. UNCHANGED <<sent, kind, rpc, read>> BY <1>14 DEF WriteResponse, connVars, readVars
    <2>4. \A j \in Ids : /\ j # i => answers'[j] = answers[j] /\ pc'[j] = pc[j]
                         /\ answers'[i] \in {0, 1} /\ pc'[i] = "freeReq"
      BY <1>0, <1>14, <2>2 DEF TypeOK, WriteResponse, Put, Goto, outVars
    <2>5. i[2] <= read[i[1]] BY <1>0, <2>1 DEF Progress
    <2>6. ASSUME NEW l \in Conns, rpc[l] = "beat"
          PROVE  answers'[<<l, read[l]>>] = 0
      <3>1. /\ <<l, read[l]>> \in Ids /\ kind[<<l, read[l]>>] = "heartbeat"
            /\ answers[<<l, read[l]>>] = 0
        BY <2>6, BeatOwn
      <3>2. <<l, read[l]>> # i BY <2>2, <3>1
      <3> QED BY <2>4, <3>1, <3>2
    <2>7. ASSUME NEW j \in Ids
          PROVE  /\ pc'[j] # "none" => j[2] <= read'[j[1]] /\ kind'[j] # "heartbeat"
                 /\ answers'[j] <= 1
                 /\ answers'[j] = 1 => /\ j[2] <= read'[j[1]]
                                       /\ \/ kind'[j] = "heartbeat"
                                          \/ pc'[j] \in {"freeReq", "freeRes", "done"}
      <3>1. CASE j = i BY <2>2, <2>3, <2>4, <2>5, <3>1
      <3>2. CASE j # i
        <4>1. answers'[j] = answers[j] /\ pc'[j] = pc[j] BY <2>4, <3>2
        <4> QED BY <1>0, <2>3, <4>1 DEF Progress
      <3> QED BY <3>1, <3>2
    <2> QED BY <1>0, <2>3, <2>6, <2>7 DEF Progress
  <1>15. ASSUME NEW i \in Ids, FreeReq(i) PROVE Progress'
    BY <1>0, <1>15
    DEF TypeOK, Progress, FreeReq, Free, Goto, connVars, readVars, outVars
  <1>16. ASSUME NEW i \in Ids, FreeRes(i) PROVE Progress'
    BY <1>0, <1>16
    DEF TypeOK, Progress, FreeRes, Free, Goto, connVars, readVars, outVars
  <1> QED
    BY <1>1, <1>2, <1>3, <1>4, <1>5, <1>6, <1>7, <1>8, <1>9, <1>10, <1>11,
       <1>12, <1>13, <1>14, <1>15, <1>16
    DEF Next, ServeConn, HandleTrueRequest

\* The invariant IInv: the pool is shared by every connection, and what each
\* goroutine of server/easyconn.go takes out of it stays its own until its
\* last use.
THEOREM Invariance == Spec => []IInv
  <1>1. Init => IInv BY InitInv
  <1>2. IInv /\ [Next]_vars => IInv'
    BY TypeNext, ExclusiveNext, HoldingNext, OwnBytesNext, NoCrosstalkNext,
       ProgressNext DEF IInv
  <1> QED BY <1>1, <1>2, PTL DEF Spec

\* No Message has two owners, and none is in the pool while somebody uses it.
THEOREM OneOwner == Spec => []Exclusive
  <1>1. IInv => Exclusive BY DEF IInv
  <1> QED BY <1>1, Invariance, PTL

\* Every response carries the sequence number and the bytes of the request it
\* answers, on that request's connection.
THEOREM Safety == Spec => []NoCrosstalk
  <1>1. IInv => NoCrosstalk BY DEF IInv
  <1> QED BY <1>1, Invariance, PTL

\* A response that counts answers one request more.
LEMMA AnswerStep ==
  ASSUME IInv, NEW i \in Ids, answers[i] = 0, kind[i] # "none",
         answers' = [answers EXCEPT ![i] = @ + 1], kind' = kind
  PROVE  Peer!Answer(i, "ok")
  <1>1. Asked[i] # "no" BY DEF Asked
  <1>2. Answered[i] = "none" BY DEF Answered
  <1>3. Asked' = Asked BY DEF Asked
  <1>4. answers \in [Ids -> Nat] BY DEF IInv, TypeOK
  <1>5. \A j \in Ids : answers'[j] = IF j = i THEN 1 ELSE answers[j] BY <1>4
  <1>6. Answered' = [Answered EXCEPT ![i] = "ok"]
    <2>1. Answered'[i] = "ok" BY <1>5 DEF Answered
    <2>2. \A j \in Ids : j # i => Answered'[j] = Answered[j] BY <1>5 DEF Answered
    <2>3. /\ Answered = [j \in Ids |-> Answered[j]]
          /\ Answered' = [j \in Ids |-> Answered'[j]]
      BY DEF Answered
    <2> HIDE DEF Answered
    <2> QED BY <2>1, <2>2, <2>3
  <1> QED BY <1>1, <1>2, <1>3, <1>6 DEF Peer!Answer

\* Every step of the server is a step of RPCPeer, or leaves it alone.
LEMMA AbstractStep ==
  ASSUME IInv, [Next]_vars PROVE [Peer!Next]_<<Asked, Answered>>
  <1>1. ASSUME UNCHANGED <<kind, answers>> PROVE UNCHANGED <<Asked, Answered>>
    BY <1>1 DEF Asked, Answered
  <1>2. ASSUME NEW k \in Conns, NEW x \in Kinds, Send(k, x) PROVE Peer!Next
    <2> DEFINE n == <<k, sent[k] + 1>>
               a == IF x = "heartbeat" THEN "heartbeat" ELSE "call"
    <2>1. n \in Ids /\ n[1] = k /\ n[2] = sent[k] + 1 /\ sent[k] \in Nat
      BY <1>2, ServerAssumption, Pairs DEF IInv, TypeOK, Send
    <2>2. kind[n] = "none"
      <3>1. ~(n[2] <= sent[n[1]]) BY <2>1
      <3> QED BY <2>1, <3>1 DEF IInv, Progress
    <2>3. kind \in [Ids -> Kinds \cup {"none"}] BY DEF IInv, TypeOK
    <2>4. \A j \in Ids : kind'[j] = IF j = n THEN x ELSE kind[j]
      BY <1>2, <2>1, <2>3 DEF Send
    <2>5. Asked[n] = "no" BY <2>1, <2>2 DEF Asked
    <2>6. Asked' = [Asked EXCEPT ![n] = a]
      BY <2>1, <2>4 DEF Asked, Kinds
    <2>7. Answered' = Answered BY <1>2 DEF Answered, Send, outVars
    <2>8. Peer!Ask(n, a) BY <2>5, <2>6, <2>7 DEF Peer!Ask
    <2>9. a \in Peer!Kinds \ {"no"} BY DEF Peer!Kinds
    <2> QED BY <2>1, <2>8, <2>9 DEF Peer!Next
  <1>3. ASSUME NEW k \in Conns, WriteBeat(k)
        PROVE  Peer!Next \/ UNCHANGED <<Asked, Answered>>
    <2>1. CASE line[k] = "up"
      <3>1. /\ <<k, read[k]>> \in Ids /\ hdr[rmsg[k]] = <<k, read[k]>>
            /\ kind[<<k, read[k]>>] = "heartbeat" /\ answers[<<k, read[k]>>] = 0
        BY <1>3, BeatOwn DEF WriteBeat
      <3>2. Peer!Answer(<<k, read[k]>>, "ok")
        BY <1>3, <2>1, <3>1, AnswerStep DEF WriteBeat, Put, connVars
      <3> QED BY <3>1, <3>2 DEF Peer!Next, Peer!Answers
    <2>2. CASE line[k] # "up"
      BY <1>1, <1>3, <2>2 DEF WriteBeat, Put, connVars, outVars
    <2> QED BY <2>1, <2>2
  <1>4. ASSUME NEW i \in Ids, WriteResponse(i)
        PROVE  Peer!Next \/ UNCHANGED <<Asked, Answered>>
    <2>1. CASE line[i[1]] = "up"
      <3>1. pc[i] = "write" BY <1>4 DEF WriteResponse
      <3>2. hdr[res[i]] = i /\ answers[i] = 0 BY <3>1, WriteOwn
      <3>3. kind[i] # "none"
        <4>1. i[2] <= read[i[1]] /\ read[i[1]] <= sent[i[1]]
          BY <3>1, Pairs DEF IInv, Progress
        <4>2. i[2] \in Nat /\ read[i[1]] \in Nat /\ sent[i[1]] \in Nat
          BY Pairs, ServerAssumption DEF IInv, TypeOK
        <4>3. i[2] <= sent[i[1]] BY <4>1, <4>2
        <4> QED BY <4>3 DEF IInv, Progress
      <3>4. Peer!Answer(i, "ok")
        BY <1>4, <2>1, <3>2, <3>3, AnswerStep DEF WriteResponse, Put, connVars
      <3> QED BY <3>4 DEF Peer!Next, Peer!Answers
    <2>2. CASE line[i[1]] # "up"
      BY <1>1, <1>4, <2>2 DEF WriteResponse, Put, connVars, outVars
    <2> QED BY <2>1, <2>2
  <1>5. CASE UNCHANGED vars BY <1>1, <1>5 DEF vars, connVars, outVars
  <1>6. ASSUME NEW k \in Conns,
               Lose(k) \/ Loop(k) \/ Decode(k) \/ ReadFails(k) \/ FreeBeat(k)
        PROVE  UNCHANGED <<kind, answers>>
    BY <1>6 DEF Lose, Loop, Decode, ReadFails, FreeBeat, connVars, outVars
  <1>7. ASSUME NEW i \in Ids,
               \/ Extract(i) \/ ExtractFails(i) \/ HandleRequest(i) \/ DropError(i)
               \/ ServiceReturns(i) \/ FreeReq(i) \/ FreeRes(i)
        PROVE  UNCHANGED <<kind, answers>>
    BY <1>7 DEF Extract, ExtractFails, HandleRequest, DropError, ServiceReturns,
                FreeReq, FreeRes, connVars, outVars
  <1> QED
    BY <1>1, <1>2, <1>3, <1>4, <1>5, <1>6, <1>7
    DEF Next, ServeConn, HandleTrueRequest

\* The server implements RPCPeer: what it was asked it answers at most once,
\* and it answers nothing else, however connections, goroutines and pooled
\* messages interleave.
THEOREM Refinement == Spec => ImplementsRPCPeer
  <1>1. ASSUME Init PROVE Peer!Init
    <2>1. \A i \in Ids : kind[i] = "none" /\ answers[i] = 0 BY <1>1 DEF Init
    <2>2. Asked = [i \in Ids |-> "no"] BY <2>1 DEF Asked
    <2>3. Answered = [i \in Ids |-> "none"] BY <2>1 DEF Answered
    <2> QED BY <2>2, <2>3 DEF Peer!Init
  <1>2. IInv /\ [Next]_vars => [Peer!Next]_(Peer!vars)
    BY AbstractStep DEF Peer!vars
  <1> QED BY <1>1, <1>2, Invariance, PTL DEF Spec, ImplementsRPCPeer, Peer!Spec
=============================================================================
