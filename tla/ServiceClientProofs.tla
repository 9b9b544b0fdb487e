------------------------ MODULE ServiceClientProofs ------------------------
(* Proofs about ServiceClient: IInv is inductive, and what follows.        *)
EXTENDS ServiceClient, TLAPS

\* The remainder is below the divisor, and that of a successor is the successor
\* or zero.
LEMMA Remainder ==
  ASSUME NEW a \in Nat, NEW b \in Nat \ {0}
  PROVE  /\ a % b \in 0..b-1
         /\ a < b => (a + 1) % b = IF a + 1 = b THEN 0 ELSE a + 1
  OBVIOUS

\* The capacity of an array is a natural number.
LEMMA CapNat == ASSUME NEW l \in Nat PROVE Cap(l) \in Nat
  BY DEF Cap

\* Heartbeats are no callers.
LEMMA Apart == Callers \cap Beating = {} /\ Beating \subseteq Goroutines
                 /\ Callers \subseteq Goroutines
  BY ServiceClientAssumption DEF Goroutines

\* The initial states satisfy the strengthening.
LEMMA InitInv == ASSUME Init PROVE IInv
  <1> USE ServiceClientAssumption, Apart
  <1>1. TypeOK
    <2>1. size \in 0..MaxNodes /\ Beating \subseteq 1..MaxNodes /\ 0 \in 0..MaxNodes-1
          /\ Capacity \in Int /\ Capacity \in Nat
      BY DEF Init, Nodes
    <2>2. ListTypes BY <2>1 DEF Init, ListTypes
    <2>3. PickTypes
      <3>1. mu \in Callers \cup {NoCaller} /\ lastIndex \in 0..MaxNodes-1
        BY <2>1 DEF Init
      <3>2. array \in [Callers -> Nat] /\ i \in [Callers -> Nat] /\ wild \in BOOLEAN
        BY DEF Init
      <3>3. len \in [Callers -> 0..MaxNodes] BY <2>1 DEF Init
      <3> QED BY <3>1, <3>2, <3>3 DEF PickTypes
    <2>4. \A g \in Goroutines : (IF g \in Beating THEN g ELSE 0) \in 0..MaxNodes
      BY <2>1
    <2>5. CallTypes BY <2>4 DEF Init, CallTypes
    <2>6. GuardTypes BY <2>1 DEF Init, GuardTypes
    <2>7. even = (size = MaxNodes) BY DEF Init
    <2>8. even \in BOOLEAN BY <2>7
    <2>9. HistoryTypes BY <2>8 DEF Init, HistoryTypes
    <2> QED BY <2>2, <2>3, <2>5, <2>6, <2>9 DEF TypeOK
  <1>2. PickInRange /\ PickFinds
    BY DEF Init, PickInRange, PickFinds, Goroutines
  <1>3. Walks BY DEF Init, Walks, Picking, Goroutines
  <1>4. Clients BY DEF Init, Clients, Goroutines
  <1>5. Balanced BY DEF Init, Balanced, Nodes
  <1>6. Rotates
    <2>1. lastIndex = 0 /\ \A c \in Callers : pc[c] = "idle"
      BY DEF Init
    <2>2. LastPicked = 0 BY <2>1 DEF LastPicked
    <2>3. \A n \in Nodes : Lap(n) = 0 BY <2>2 DEF Lap, Nodes
    <2>4. even = (size = MaxNodes)
          /\ status = [n \in Nodes |-> IF n <= size THEN "available" ELSE "none"]
          /\ picks = [n \in Nodes |-> 0]
      BY DEF Init
    <2>5. \A m, n \in Nodes : picks[m] - Lap(m) = picks[n] - Lap(n)
      BY <2>3, <2>4
    <2>6. size = MaxNodes => \A n \in Nodes : status[n] = "available"
      BY <2>4 DEF Nodes
    <2> QED BY <2>1, <2>4, <2>5, <2>6 DEF Rotates
  <1> QED BY <1>1, <1>2, <1>3, <1>4, <1>5, <1>6 DEF IInv

\* Taking a token keeps the types, ...
LEMMA TakeTypes ==
  ASSUME GuardTypes, NEW g \in Goroutines, NEW n \in Nodes, Take(g, n)
  PROVE  tokens' \in [Nodes -> Int] /\ debt' \in [Goroutines -> Nat]
  <1>1. tokens[n] \in Int BY DEF GuardTypes
  <1>2. tokens[n] - 1 \in Int /\ (IF tokens[n] > 0 THEN 0 ELSE 1 - tokens[n]) \in Nat
    BY <1>1
  <1> QED BY <1>2 DEF GuardTypes, Take

\* ... and so do a breaker that changes its state ...
LEMMA TripTypes ==
  ASSUME GuardTypes, NEW n, NEW s \in {"closed", "half-open", "open"}, NEW ended,
         Trip(n, s, ended)
  PROVE  /\ breaker' \in [Nodes -> {"closed", "half-open", "open"}]
         /\ count' \in [Nodes -> Nat]
         /\ epoch' \in [Goroutines -> {"closed", "half-open", "past", "none"}]
  <1>1. breaker' = [breaker EXCEPT ![n] = s] /\ count' = [count EXCEPT ![n] = 0]
        /\ epoch' = [g \in Goroutines |->
                        IF g \in ended \/ epoch[g] = "none" THEN "none"
                        ELSE IF cli[g] = n THEN "past" ELSE epoch[g]]
    BY DEF Trip
  <1>2. \A g \in Goroutines : (IF g \in ended \/ epoch[g] = "none" THEN "none"
                               ELSE IF cli[g] = n THEN "past" ELSE epoch[g])
                                 \in {"closed", "half-open", "past", "none"}
    BY DEF GuardTypes
  <1>3. epoch' \in [Goroutines -> {"closed", "half-open", "past", "none"}]
    BY <1>1, <1>2
  <1> QED BY <1>1, <1>3 DEF GuardTypes

\* ... and a call that is counted.
LEMMA CountTypes ==
  ASSUME GuardTypes, NEW g \in Goroutines, NEW ok \in BOOLEAN, Count(g, ok)
  PROVE  /\ breaker' \in [Nodes -> {"closed", "half-open", "open"}]
         /\ count' \in [Nodes -> Nat]
         /\ epoch' \in [Goroutines -> {"closed", "half-open", "past", "none"}]
  <1>1. CASE epoch[g] \notin {"none", "past"} /\ Turns(cli[g], ok)
    <2>1. Trip(cli[g], IF ok THEN "closed" ELSE "open", {g}) BY <1>1 DEF Count
    <2>2. (IF ok THEN "closed" ELSE "open") \in {"closed", "half-open", "open"} OBVIOUS
    <2> QED BY <2>1, <2>2, TripTypes
  <1>2. CASE ~(epoch[g] \notin {"none", "past"} /\ Turns(cli[g], ok))
    <2>1. /\ count' = [count EXCEPT ![cli[g]] =
                          IF ~(epoch[g] \notin {"none", "past"}) THEN @
                          ELSE IF ok /\ breaker[cli[g]] = "closed" THEN 0 ELSE @ + 1]
          /\ epoch' = [epoch EXCEPT ![g] = "none"] /\ breaker' = breaker
      BY <1>2 DEF Count
    <2>2. \A n \in Nodes : (IF ~(epoch[g] \notin {"none", "past"}) THEN count[n]
                             ELSE IF ok /\ breaker[cli[g]] = "closed" THEN 0
                             ELSE count[n] + 1) \in Nat
      BY DEF GuardTypes
    <2>3. count' \in [Nodes -> Nat] BY <2>1, <2>2 DEF GuardTypes
    <2> QED BY <2>1, <2>3 DEF GuardTypes
  <1> QED BY <1>1, <1>2

\* Losing a client keeps the types of the history.
LEMMA LosesTypes ==
  ASSUME HistoryTypes, NEW n \in Nodes, Loses(n) PROVE HistoryTypes'
  <1>1. steady' = [c \in Callers |-> IF Picking(c) THEN steady[c] \ {n} ELSE steady[c]]
        /\ lost' = [c \in Callers |-> lost[c] \/ Picking(c)]
        /\ even' = FALSE /\ picks' = picks
    BY DEF Loses
  <1>2. \A c \in Callers : (IF Picking(c) THEN steady[c] \ {n} ELSE steady[c])
                              \in SUBSET Nodes
    BY DEF HistoryTypes
  <1>3. \A c \in Callers : (lost[c] \/ Picking(c)) \in BOOLEAN OBVIOUS
  <1>4. steady' \in [Callers -> SUBSET Nodes] BY <1>1, <1>2
  <1>5. lost' \in [Callers -> BOOLEAN] BY <1>1, <1>3
  <1> QED BY <1>1, <1>4, <1>5 DEF HistoryTypes

\* Steps keep the types of the clients, ...
LEMMA ListTypesStep ==
  ASSUME IInv, [Next]_vars PROVE ListTypes'
  <1>1. ASSUME UNCHANGED <<size, async, options, config, guarded, status, dialling>>
        PROVE ListTypes'
    BY <1>1 DEF IInv, TypeOK, ListTypes, Nodes
  <1>0. CASE ApplyOption
    BY <1>0 DEF ApplyOption, IInv, TypeOK, ListTypes
  <1>2. CASE AddNode
    <2>1. config \in SUBSET {"limiter", "breaker"}
      BY ServiceClientAssumption DEF IInv, TypeOK, ListTypes
    <2>2. guarded' \in [Nodes -> SUBSET {"limiter", "breaker"}]
      BY <1>2, <2>1 DEF AddNode, IInv, TypeOK, ListTypes
    <2> QED BY <1>2, <2>2, ServiceClientAssumption
    DEF AddNode, listVars, pickVars, guardVars, history, IInv, TypeOK, ListTypes,
       Nodes
  <1>3. ASSUME NEW n \in Nodes, Breaks(n) PROVE ListTypes'
    BY <1>3
    DEF Breaks, SetStatus, Loses, listVars, pickVars, guardVars, history, IInv,
       TypeOK, ListTypes, Nodes
  <1>4. ASSUME NEW n \in Nodes, Dialled(n) PROVE ListTypes'
    BY <1>4
    DEF Dialled, SetStatus, Loses, listVars, pickVars, guardVars, history, IInv,
       TypeOK, ListTypes, Nodes
  <1>5. ASSUME NEW n \in Nodes, GivesUp(n) PROVE ListTypes'
    BY <1>5
    DEF GivesUp, SetStatus, Loses, listVars, pickVars, guardVars, history, IInv,
       TypeOK, ListTypes, Nodes
  <1>6. ASSUME NEW n \in Beating, BeatFails(n) PROVE ListTypes'
    BY <1>6
    DEF BeatFails, End, Count, Loses, listVars, pickVars, guardVars, history, IInv,
       TypeOK, ListTypes, Nodes
  <1>7. CASE (\E n \in Nodes : Fill(n)) \/ (\E n \in Nodes : HalfOpens(n))
            \/ (\E n \in Beating : Beat(n)) \/ (\E c \in Callers : Start(c))
            \/ (\E c \in Callers : ReadLen(c)) \/ (\E c \in Callers : Lock(c))
            \/ (\E c \in Callers : Panics(c)) \/ (\E c \in Callers : Look(c))
            \/ (\E c \in Callers : LookBeyond(c))
            \/ (\E c \in Callers : Picked(c)) \/ (\E c \in Callers : NotPicked(c))
            \/ (\E g \in Goroutines : Execute(g))
            \/ (\E g \in Goroutines : Refused(g))
            \/ (\E g \in Goroutines : Send(g))
            \/ (\E g \in Goroutines : SendFails(g))
            \/ (\E g \in Goroutines : Answered(g))
            \/ (\E g \in Goroutines : CallFails(g)) \/ UNCHANGED vars
    BY ZenonT(100), <1>1, <1>7
    DEF Fill, HalfOpens, Trip, Beat, At, Take, Start, ReadLen, Lock, PickFrom,
       Panics, Look, Turn, LookBeyond, Picked, PickReturns, NotPicked, Execute,
       Refused, End, Send, SendFails, Count, Answered, CallFails, vars, listVars,
       pickVars, guardVars, history
  <1> QED BY <1>0, <1>1, <1>2, <1>3, <1>4, <1>5, <1>6, <1>7
    DEF Next, Pick, Guarded, Sends, Ends

\* ... of Pick, ...
LEMMA PickTypesStep ==
  ASSUME IInv, [Next]_vars PROVE PickTypes'
  <1>1. ASSUME UNCHANGED <<mu, lastIndex, array, len, i, wild>> PROVE PickTypes'
    BY <1>1 DEF IInv, TypeOK, ListTypes, PickTypes
  <1>2. ASSUME NEW c \in Callers, Start(c) PROVE PickTypes'
    BY <1>2, CapNat
    DEF Start, At, listVars, pickVars, guardVars, history, IInv, TypeOK, ListTypes,
       PickTypes
  <1>3. ASSUME NEW c \in Callers, ReadLen(c) PROVE PickTypes'
    BY <1>3
    DEF ReadLen, At, listVars, pickVars, guardVars, history, IInv, TypeOK,
       ListTypes, PickTypes
  <1>4. ASSUME NEW c \in Callers, Lock(c) PROVE PickTypes'
    <2>1. (lastIndex + 1) % len[c] \in 0..MaxNodes-1
      <3>1. lastIndex + 1 \in Nat /\ len[c] \in 0..MaxNodes /\ len[c] > 0
        BY <1>4, ServiceClientAssumption DEF Lock, IInv, TypeOK, PickTypes
      <3>2. len[c] \in Nat \ {0} BY <3>1, ServiceClientAssumption
      <3>3. (lastIndex + 1) % len[c] \in 0..len[c]-1 BY <3>1, <3>2, Remainder
      <3> QED BY <3>1, <3>3, ServiceClientAssumption
    <2> QED BY <1>4, <2>1 DEF Lock, PickFrom, IInv, TypeOK, PickTypes
  <1>5. ASSUME NEW c \in Callers, Panics(c) PROVE PickTypes'
    BY <1>5
    DEF Panics, At, listVars, pickVars, guardVars, history, IInv, TypeOK, ListTypes,
       PickTypes
  <1>6. ASSUME NEW c \in Callers, Look(c) PROVE PickTypes'
    <2>1. /\ lastIndex \in 0..len[c]-1 /\ len[c] \in 0..MaxNodes
          /\ (lastIndex + 1) % len[c] \in 0..len[c]-1 /\ i[c] + 1 \in Nat
      <3>1. lastIndex \in Nat /\ len[c] \in 0..MaxNodes /\ lastIndex < len[c] /\ i[c] \in Nat
        BY <1>6, ServiceClientAssumption
        DEF Look, Turn, IInv, TypeOK, PickTypes, PickInRange
      <3>2. lastIndex \in Nat /\ len[c] \in Nat \ {0} /\ lastIndex + 1 \in Nat
            /\ lastIndex \in 0..len[c]-1 /\ i[c] + 1 \in Nat
        BY <3>1, ServiceClientAssumption
      <3>3. (lastIndex + 1) % len[c] \in 0..len[c]-1 BY <3>2, Remainder
      <3> QED BY <3>1, <3>2, <3>3
    <2>2. lastIndex' \in 0..MaxNodes-1
      BY <1>6, <2>1, ServiceClientAssumption DEF Look, Turn, IInv, TypeOK, PickTypes
    <2>3. i' \in [Callers -> Nat] BY <1>6, <2>1 DEF Look, Turn, IInv, TypeOK, PickTypes
    <2>4. mu' \in Callers \cup {NoCaller} BY <1>6 DEF Look, Turn, IInv, TypeOK, PickTypes
    <2>5. UNCHANGED <<array, len, wild>> BY <1>6 DEF Look, Turn
    <2> QED BY <2>2, <2>3, <2>4, <2>5 DEF IInv, TypeOK, PickTypes
  <1>7. ASSUME NEW c \in Callers, LookBeyond(c) PROVE PickTypes'
    BY <1>7
    DEF LookBeyond, listVars, pickVars, guardVars, history, IInv, TypeOK, ListTypes,
       PickTypes
  <1>8. ASSUME NEW c \in Callers, Picked(c) PROVE PickTypes'
    BY <1>8, ServiceClientAssumption
    DEF Picked, At, Take, PickReturns, listVars, pickVars, guardVars, history, IInv,
       TypeOK, ListTypes, PickTypes
  <1>9. ASSUME NEW c \in Callers, NotPicked(c) PROVE PickTypes'
    <2>1. 0 \in 0..MaxNodes /\ 0 \in Nat BY ServiceClientAssumption
    <2>2. /\ array' = [array EXCEPT ![c] = 0] /\ len' = [len EXCEPT ![c] = 0]
          /\ i' = [i EXCEPT ![c] = 0] /\ UNCHANGED <<mu, lastIndex, wild>>
      BY <1>9 DEF NotPicked, PickReturns
    <2> QED BY <2>1, <2>2 DEF IInv, TypeOK, PickTypes
  <1>10. CASE ApplyOption \/ AddNode \/ (\E n \in Nodes : Breaks(n))
            \/ (\E n \in Nodes : Dialled(n)) \/ (\E n \in Nodes : GivesUp(n))
            \/ (\E n \in Nodes : Fill(n)) \/ (\E n \in Nodes : HalfOpens(n))
            \/ (\E n \in Beating : Beat(n)) \/ (\E n \in Beating : BeatFails(n))
            \/ (\E g \in Goroutines : Execute(g))
            \/ (\E g \in Goroutines : Refused(g))
            \/ (\E g \in Goroutines : Send(g))
            \/ (\E g \in Goroutines : SendFails(g))
            \/ (\E g \in Goroutines : Answered(g))
            \/ (\E g \in Goroutines : CallFails(g)) \/ UNCHANGED vars
    BY <1>1, <1>10
    DEF ApplyOption, AddNode, Breaks, SetStatus, Loses, Dialled, GivesUp, Fill,
       HalfOpens, Trip,
       Beat, At, Take, BeatFails, End, Count, Execute, Refused, Send, SendFails,
       Answered, CallFails, vars, listVars, pickVars, guardVars, history
  <1> QED BY <1>1, <1>2, <1>3, <1>4, <1>5, <1>6, <1>7, <1>8, <1>9, <1>10
    DEF Next, Pick, Guarded, Sends, Ends

\* ... of calls, ...
LEMMA CallTypesStep ==
  ASSUME IInv, [Next]_vars PROVE CallTypes'
  <1>1. ASSUME UNCHANGED <<pc, cli, result>> PROVE CallTypes'
    BY <1>1 DEF IInv, TypeOK, CallTypes, Goroutines
  <1>2. ASSUME NEW c \in Callers, Start(c) PROVE CallTypes'
    BY <1>2
    DEF Start, At, listVars, pickVars, guardVars, history, IInv, TypeOK, CallTypes,
       Goroutines
  <1>3. ASSUME NEW c \in Callers, ReadLen(c) PROVE CallTypes'
    BY <1>3
    DEF ReadLen, At, listVars, pickVars, guardVars, history, IInv, TypeOK,
       CallTypes, Goroutines
  <1>4. ASSUME NEW c \in Callers, Lock(c) PROVE CallTypes'
    BY <1>4
    DEF Lock, At, PickFrom, listVars, pickVars, guardVars, history, IInv, TypeOK,
       CallTypes, Goroutines
  <1>5. ASSUME NEW c \in Callers, Panics(c) PROVE CallTypes'
    BY <1>5
    DEF Panics, At, listVars, pickVars, guardVars, history, IInv, TypeOK, CallTypes,
       Goroutines
  <1>6. ASSUME NEW c \in Callers, Look(c) PROVE CallTypes'
    <2>1. lastIndex + 1 \in 0..MaxNodes
      BY ServiceClientAssumption DEF IInv, TypeOK, PickTypes
    <2> QED BY <1>6, <2>1 DEF Look, Turn, IInv, TypeOK, CallTypes
  <1>7. ASSUME NEW c \in Callers, Picked(c) PROVE CallTypes'
    BY <1>7
    DEF Picked, At, Take, PickReturns, listVars, pickVars, guardVars, history, IInv,
       TypeOK, CallTypes, Goroutines
  <1>8. ASSUME NEW c \in Callers, NotPicked(c) PROVE CallTypes'
    BY <1>8
    DEF NotPicked, At, PickReturns, listVars, pickVars, guardVars, history, IInv,
       TypeOK, CallTypes, Goroutines
  <1>9. ASSUME NEW n \in Beating, Beat(n) PROVE CallTypes'
    BY <1>9
    DEF Beat, At, Take, listVars, pickVars, guardVars, history, IInv, TypeOK,
       CallTypes, Goroutines
  <1>10. ASSUME NEW g \in Goroutines, Execute(g) PROVE CallTypes'
    BY <1>10
    DEF Execute, At, listVars, pickVars, guardVars, history, IInv, TypeOK,
       CallTypes, Goroutines
  <1>11. ASSUME NEW g \in Goroutines, Refused(g) PROVE CallTypes'
    BY <1>11
    DEF Refused, End, listVars, pickVars, guardVars, history, IInv, TypeOK,
       CallTypes, Goroutines
  <1>12. ASSUME NEW g \in Goroutines, Send(g) PROVE CallTypes'
    BY <1>12
    DEF Send, At, listVars, pickVars, guardVars, history, IInv, TypeOK, CallTypes,
       Goroutines
  <1>13. ASSUME NEW g \in Goroutines, SendFails(g) PROVE CallTypes'
    BY <1>13
    DEF SendFails, End, Count, listVars, pickVars, guardVars, history, IInv, TypeOK,
       CallTypes, Goroutines
  <1>14. ASSUME NEW g \in Goroutines, Answered(g) PROVE CallTypes'
    BY <1>14
    DEF Answered, End, Count, listVars, pickVars, guardVars, history, IInv, TypeOK,
       CallTypes, Goroutines
  <1>15. ASSUME NEW g \in Goroutines, CallFails(g) PROVE CallTypes'
    BY <1>15
    DEF CallFails, End, Count, listVars, pickVars, guardVars, history, IInv, TypeOK,
       CallTypes, Goroutines
  <1>16. ASSUME NEW n \in Beating, BeatFails(n) PROVE CallTypes'
    BY <1>16
    DEF BeatFails, End, Count, Loses, listVars, pickVars, guardVars, history, IInv,
       TypeOK, CallTypes, Goroutines
  <1>17. CASE ApplyOption \/ AddNode \/ (\E n \in Nodes : Breaks(n))
            \/ (\E n \in Nodes : Dialled(n)) \/ (\E n \in Nodes : GivesUp(n))
            \/ (\E n \in Nodes : Fill(n)) \/ (\E n \in Nodes : HalfOpens(n))
            \/ (\E c \in Callers : LookBeyond(c)) \/ UNCHANGED vars
    BY <1>1, <1>17
    DEF ApplyOption, AddNode, Breaks, SetStatus, Loses, Dialled, GivesUp, Fill,
       HalfOpens, Trip,
       LookBeyond, vars, listVars, pickVars, guardVars, history
  <1> QED BY <1>1, <1>2, <1>3, <1>4, <1>5, <1>6, <1>7, <1>8, <1>9, <1>10, <1>11, <1>12, <1>13, <1>14, <1>15, <1>16, <1>17
    DEF Next, Pick, Guarded, Sends, Ends

\* ... of the guards, ...
LEMMA GuardTypesStep ==
  ASSUME IInv, [Next]_vars PROVE GuardTypes'
  <1>1. ASSUME UNCHANGED <<tokens, debt, breaker, count, epoch>> PROVE GuardTypes'
    BY <1>1 DEF IInv, TypeOK, GuardTypes
  <1>2. ASSUME NEW c \in Callers, Picked(c) PROVE GuardTypes'
    <2>1. pc[c] = "check" /\ cli[c] \in Nodes BY <1>2, Apart DEF Picked, At, IInv, Clients
    <2>2. UNCHANGED <<breaker, count, epoch>> BY <1>2 DEF Picked, PickReturns
    <2>3. Take(c, cli[c]) \/ UNCHANGED <<tokens, debt>> BY <1>2 DEF Picked
    <2> QED BY <2>1, <2>2, <2>3, Apart, TakeTypes DEF IInv, TypeOK, GuardTypes
  <1>3. ASSUME NEW n \in Beating, Beat(n) PROVE GuardTypes'
    <2>1. Take(n, n) /\ UNCHANGED <<breaker, count, epoch>> /\ n \in Nodes
      BY <1>3, ServiceClientAssumption DEF Beat
    <2> QED BY <2>1, Apart, TakeTypes DEF IInv, TypeOK, GuardTypes
  <1>4. ASSUME NEW n \in Nodes, Fill(n) PROVE GuardTypes'
    <2>1. tokens[n] + 1 \in Int BY DEF IInv, TypeOK, GuardTypes
    <2>2. \A g \in Goroutines : (IF cli[g] = n /\ debt[g] > 0 THEN debt[g] - 1 ELSE debt[g])
                                  \in Nat
      BY DEF IInv, TypeOK, GuardTypes
    <2> QED BY <1>4, <2>1, <2>2 DEF Fill, IInv, TypeOK, GuardTypes
  <1>5. ASSUME NEW n \in Nodes, HalfOpens(n) PROVE GuardTypes'
    <2>1. Trip(n, "half-open", {}) /\ UNCHANGED <<tokens, debt>> BY <1>5 DEF HalfOpens
    <2> QED BY <2>1, TripTypes DEF IInv, TypeOK, GuardTypes
  <1>6. ASSUME NEW g \in Goroutines, Execute(g) PROVE GuardTypes'
    <2>1. ByBreaker(g) => breaker[cli[g]] \in {"closed", "half-open"}
      <3>1. pc[g] = "sleep" /\ cli[g] \in Nodes
        BY <1>6 DEF Execute, At, IInv, Clients
      <3> QED BY <1>6, <3>1 DEF Execute, Refuses, IInv, TypeOK, GuardTypes
    <2> QED BY <1>6, <2>1 DEF Execute, IInv, TypeOK, GuardTypes
  <1>7. ASSUME NEW g \in Goroutines, SendFails(g) PROVE GuardTypes'
    <2>1. Count(g, FALSE) /\ UNCHANGED <<tokens, debt>> BY <1>7 DEF SendFails
    <2> QED BY <2>1, Apart, CountTypes DEF IInv, TypeOK, GuardTypes
  <1>8. ASSUME NEW g \in Goroutines, Answered(g) PROVE GuardTypes'
    <2>1. Count(g, TRUE) /\ UNCHANGED <<tokens, debt>> BY <1>8 DEF Answered
    <2> QED BY <2>1, Apart, CountTypes DEF IInv, TypeOK, GuardTypes
  <1>9. ASSUME NEW g \in Goroutines, CallFails(g) PROVE GuardTypes'
    <2>1. Count(g, FALSE) /\ UNCHANGED <<tokens, debt>> BY <1>9 DEF CallFails
    <2> QED BY <2>1, Apart, CountTypes DEF IInv, TypeOK, GuardTypes
  <1>10. ASSUME NEW n \in Beating, BeatFails(n) PROVE GuardTypes'
    <2>1. Count(n, FALSE) /\ UNCHANGED <<tokens, debt>> BY <1>10 DEF BeatFails
    <2> QED BY <2>1, Apart, CountTypes DEF IInv, TypeOK, GuardTypes
  <1>11. CASE ApplyOption \/ AddNode \/ (\E n \in Nodes : Breaks(n))
            \/ (\E n \in Nodes : Dialled(n)) \/ (\E n \in Nodes : GivesUp(n))
            \/ (\E c \in Callers : Start(c)) \/ (\E c \in Callers : ReadLen(c))
            \/ (\E c \in Callers : Lock(c)) \/ (\E c \in Callers : Panics(c))
            \/ (\E c \in Callers : Look(c)) \/ (\E c \in Callers : LookBeyond(c))
            \/ (\E c \in Callers : NotPicked(c))
            \/ (\E g \in Goroutines : Refused(g))
            \/ (\E g \in Goroutines : Send(g)) \/ UNCHANGED vars
    BY <1>1, <1>11
    DEF ApplyOption, AddNode, Breaks, SetStatus, Loses, Dialled, GivesUp, Start, At,
       ReadLen,
       Lock, PickFrom, Panics, Look, Turn, LookBeyond, NotPicked, PickReturns,
       Refused, End, Send, vars, listVars, pickVars, guardVars, history
  <1> QED BY <1>1, <1>2, <1>3, <1>4, <1>5, <1>6, <1>7, <1>8, <1>9, <1>10, <1>11
    DEF Next, Pick, Guarded, Sends, Ends

\* ... and of the history.
LEMMA HistoryTypesStep ==
  ASSUME IInv, [Next]_vars PROVE HistoryTypes'
  <1>1. ASSUME UNCHANGED <<steady, lost, picks, even>> PROVE HistoryTypes'
    BY <1>1 DEF IInv, TypeOK, PickTypes, HistoryTypes, Nodes
  <1>2. ASSUME NEW n \in Nodes, Breaks(n) PROVE HistoryTypes'
    <2>1. Loses(n) \/ UNCHANGED <<steady, lost, picks, even>> BY <1>2 DEF Breaks,
       SetStatus, history
    <2> QED BY <2>1, LosesTypes DEF IInv, TypeOK, HistoryTypes
  <1>3. ASSUME NEW n \in Nodes, Dialled(n) PROVE HistoryTypes'
    <2>1. Loses(n) \/ UNCHANGED <<steady, lost, picks, even>> BY <1>3 DEF Dialled,
       SetStatus, history
    <2> QED BY <2>1, LosesTypes DEF IInv, TypeOK, HistoryTypes
  <1>4. ASSUME NEW n \in Nodes, GivesUp(n) PROVE HistoryTypes'
    <2>1. Loses(n) \/ UNCHANGED <<steady, lost, picks, even>> BY <1>4 DEF GivesUp,
       SetStatus, history
    <2> QED BY <2>1, LosesTypes DEF IInv, TypeOK, HistoryTypes
  <1>5. ASSUME NEW c \in Callers, Lock(c) PROVE HistoryTypes'
    <2>1. \A n \in 1..len[c] : n \in Nodes
      BY ServiceClientAssumption DEF IInv, TypeOK, PickTypes, Nodes
    <2> QED BY <1>5, <2>1 DEF Lock, PickFrom, IInv, TypeOK, HistoryTypes
  <1>6. ASSUME NEW c \in Callers, Look(c) PROVE HistoryTypes'
    BY <1>6
    DEF Look, Turn, listVars, pickVars, guardVars, history, IInv, TypeOK, PickTypes,
       HistoryTypes, Nodes
  <1>7. ASSUME NEW c \in Callers, Picked(c) PROVE HistoryTypes'
    BY <1>7
    DEF Picked, At, Take, PickReturns, listVars, pickVars, guardVars, history, IInv,
       TypeOK, PickTypes, HistoryTypes, Nodes
  <1>8. ASSUME NEW c \in Callers, NotPicked(c) PROVE HistoryTypes'
    BY <1>8
    DEF NotPicked, At, PickReturns, listVars, pickVars, guardVars, history, IInv,
       TypeOK, PickTypes, HistoryTypes, Nodes
  <1>9. ASSUME NEW n \in Beating, BeatFails(n) PROVE HistoryTypes'
    <2>1. Loses(n) \/ UNCHANGED <<steady, lost, picks, even>> BY <1>9 DEF BeatFails, history
    <2> QED BY <2>1, ServiceClientAssumption, LosesTypes DEF IInv, TypeOK, HistoryTypes
  <1>10. CASE ApplyOption \/ AddNode \/ (\E n \in Nodes : Fill(n))
            \/ (\E n \in Nodes : HalfOpens(n)) \/ (\E n \in Beating : Beat(n))
            \/ (\E c \in Callers : Start(c)) \/ (\E c \in Callers : ReadLen(c))
            \/ (\E c \in Callers : Panics(c))
            \/ (\E c \in Callers : LookBeyond(c))
            \/ (\E g \in Goroutines : Execute(g))
            \/ (\E g \in Goroutines : Refused(g))
            \/ (\E g \in Goroutines : Send(g))
            \/ (\E g \in Goroutines : SendFails(g))
            \/ (\E g \in Goroutines : Answered(g))
            \/ (\E g \in Goroutines : CallFails(g)) \/ UNCHANGED vars
    BY <1>1, <1>10
    DEF ApplyOption, AddNode, Fill, HalfOpens, Trip, Beat, At, Take, Start, ReadLen, Panics,
       LookBeyond, Execute, Refused, End, Send, SendFails, Count, Answered,
       CallFails, vars, listVars, pickVars, guardVars, history
  <1> QED BY <1>1, <1>2, <1>3, <1>4, <1>5, <1>6, <1>7, <1>8, <1>9, <1>10
    DEF Next, Pick, Guarded, Sends, Ends

\* A step leaves the Pick alone that it is not part of, and the actions that are
\* not listed are part of none.
Outside == \A c \in Callers :
    /\ pc'[c] = "walk" <=> pc[c] = "walk"
    /\ pc[c] = "walk" => len'[c] = len[c] /\ i'[c] = i[c] /\ cli'[c] = cli[c]

\* Steps before and after the walk are outside of it.
LEMMA OutsideSteps ==
  ASSUME IInv, [Next]_vars
  PROVE  \/ Outside /\ UNCHANGED <<mu, lastIndex, picks>>
         \/ \E c \in Callers : Lock(c) \/ Panics(c) \/ Look(c)
  <1> USE DEF Outside
  <1>1. ASSUME UNCHANGED <<pc, len, i, cli, mu, lastIndex, picks>>
        PROVE Outside /\ UNCHANGED <<mu, lastIndex, picks>>
    BY <1>1
  <1>2. CASE ApplyOption \/ AddNode \/ (\E n \in Nodes : Breaks(n) \/ Dialled(n) \/ GivesUp(n) \/ Fill(n)
                                          \/ HalfOpens(n))
             \/ (\E c \in Callers : LookBeyond(c)) \/ UNCHANGED vars
    BY <1>1, <1>2
    DEF ApplyOption, AddNode, Breaks, Dialled, GivesUp, SetStatus, Loses, Fill,
       HalfOpens, LookBeyond,
       vars, listVars, pickVars, guardVars, history
  <1>3. ASSUME NEW c \in Callers, Start(c) \/ ReadLen(c) \/ Picked(c) \/ NotPicked(c)
        PROVE Outside /\ UNCHANGED <<mu, lastIndex, picks>>
    BY <1>3, Apart
    DEF Start, ReadLen, Picked, NotPicked, At, PickReturns, listVars, pickVars, guardVars,
       history, IInv, TypeOK, CallTypes, PickTypes
  <1>4. ASSUME NEW n \in Beating, Beat(n) \/ BeatFails(n)
        PROVE Outside /\ UNCHANGED <<mu, lastIndex, picks>>
    BY <1>4, Apart
    DEF Beat, BeatFails, At, End, Loses, listVars, pickVars, guardVars,
       history, IInv, TypeOK, CallTypes
  <1>5. ASSUME NEW g \in Goroutines, Guarded(g) \/ Sends(g) \/ Ends(g)
        PROVE Outside /\ UNCHANGED <<mu, lastIndex, picks>>
    BY <1>5, Apart
    DEF Guarded, Sends, Ends, Execute, Refused, Send, SendFails, Answered, CallFails,
       At, End,
       listVars, pickVars, guardVars, history, IInv, TypeOK, CallTypes
  <1> QED BY <1>1, <1>2, <1>3, <1>4, <1>5 DEF Next, Pick

\* Steps keep a Pick within its slice, and its mutex to itself.
LEMMA PickInRangeStep ==
  ASSUME IInv, [Next]_vars PROVE PickInRange'
  <1>1. CASE Outside /\ UNCHANGED <<mu, lastIndex, picks>>
    BY <1>1 DEF Outside, IInv, PickInRange
  <1>2. ASSUME NEW c \in Callers, Lock(c) PROVE PickInRange'
    <2>1. \A d \in Callers : pc[d] # "walk"
      BY <1>2, ServiceClientAssumption DEF Lock, IInv, PickInRange
    <2>2. \A d \in Callers : pc'[d] = "walk" => d = c
      BY <1>2, <2>1, Apart DEF Lock, At, IInv, TypeOK, CallTypes
    <2>3. len[c] \in Nat \ {0} /\ lastIndex + 1 \in Nat
      BY <1>2, ServiceClientAssumption DEF Lock, IInv, TypeOK, PickTypes
    <2>4. lastIndex' = (lastIndex + 1) % len[c] /\ i'[c] = 0 /\ len' = len /\ mu' = c
      BY <1>2 DEF Lock, PickFrom, IInv, TypeOK, PickTypes
    <2>5. (lastIndex + 1) % len[c] \in 0..len[c]-1 BY <2>3, Remainder
    <2>6. lastIndex' < len'[c] /\ i'[c] < len'[c] BY <2>3, <2>4, <2>5
    <2> QED BY <2>2, <2>4, <2>6 DEF PickInRange
  <1>3. ASSUME NEW c \in Callers, Panics(c) PROVE PickInRange'
    BY <1>3, ServiceClientAssumption, Apart
    DEF Panics, At, IInv, TypeOK, CallTypes, PickInRange
  <1>4. ASSUME NEW c \in Callers, Look(c) PROVE PickInRange'
    <2>1. pc[c] = "walk" /\ mu = c /\ len' = len BY <1>4 DEF Look, Turn, IInv, PickInRange
    <2>2. \A d \in Callers : pc'[d] = "walk" => d = c
      BY <1>4, <2>1, Apart DEF Look, Turn, IInv, TypeOK, CallTypes, PickInRange
    <2>3. /\ lastIndex \in Nat /\ len[c] \in Nat \ {0} /\ lastIndex < len[c]
          /\ lastIndex + 1 \in Nat /\ i[c] \in Nat /\ i[c] < len[c]
      BY <1>4, <2>1, ServiceClientAssumption DEF IInv, TypeOK, PickTypes, PickInRange
    <2>4. (lastIndex + 1) % len[c] \in 0..len[c]-1 BY <2>3, Remainder
    <2>5. lastIndex' < len'[c]
      BY <1>4, <2>1, <2>3, <2>4 DEF Look, Turn
    <2>6. ASSUME pc'[c] = "walk" PROVE mu' = c /\ i'[c] < len'[c]
      <3>1. ~(i[c] + 1 >= len[c])
        BY <1>4, <2>6, Apart DEF Look, Turn, IInv, TypeOK, CallTypes
      <3>2. i'[c] = i[c] + 1 /\ mu' = mu
        BY <1>4, <3>1 DEF Look, Turn, IInv, TypeOK, PickTypes
      <3> QED BY <3>1, <3>2, <2>1, <2>3
    <2> QED BY <2>2, <2>5, <2>6 DEF PickInRange
  <1> QED BY <1>1, <1>2, <1>3, <1>4, OutsideSteps

\* Who goes where no client is needed, or has one, leaves the others theirs.
LEMMA Moves ==
  ASSUME Clients, CallTypes, NEW g \in Goroutines, NEW s, pc' = [pc EXCEPT ![g] = s],
         \A h \in Goroutines \ {g} : cli'[h] = cli[h],
         s \in {"check", "sleep", "send", "sent"} => cli'[g] \in Nodes,
         g \in Beating => cli'[g] = g /\ s \in {"idle", "sleep", "send", "sent"}
  PROVE  Clients'
  <1>1. pc'[g] = s /\ \A h \in Goroutines \ {g} : pc'[h] = pc[h] BY DEF CallTypes
  <1>2. ASSUME NEW h \in Goroutines \ {g}
        PROVE  /\ pc'[h] \in {"check", "sleep", "send", "sent"} => cli'[h] \in Nodes
               /\ h \in Beating => cli'[h] = h /\ pc'[h] \in {"idle", "sleep", "send", "sent"}
    BY <1>1, <1>2 DEF Clients
  <1> QED BY <1>1, <1>2, Apart DEF Clients

\* Goroutines keep their clients as long as they need them.
LEMMA ClientsStep ==
  ASSUME IInv, [Next]_vars PROVE Clients'
  <1> USE DEF IInv, TypeOK
  <1>1. ASSUME UNCHANGED <<pc, cli>> PROVE Clients'
    BY <1>1 DEF Clients
  <1>2. ASSUME NEW c \in Callers,
               Start(c) \/ ReadLen(c) \/ Lock(c) \/ Panics(c) \/ Picked(c) \/ NotPicked(c)
        PROVE Clients'
    <2>1. PICK s \in {"slice", "lock", "walk", "panicked", "send", "sleep", "done"} :
              pc' = [pc EXCEPT ![c] = s]
      BY <1>2 DEF Start, ReadLen, Lock, Panics, Picked, NotPicked, At
    <2>2. UNCHANGED cli
      BY <1>2 DEF Start, ReadLen, Lock, PickFrom, Panics, Picked, NotPicked
    <2>3. s \in {"send", "sleep"} => pc[c] = "check"
      <3>1. pc'[c] = s BY <2>1, Apart DEF CallTypes
      <3> QED BY <1>2, <3>1, Apart
        DEF Start, ReadLen, Lock, Panics, Picked, NotPicked, At, CallTypes
    <2>4. s \in {"send", "sleep"} => cli[c] \in Nodes BY <2>3, Apart DEF Clients
    <2>5. c \notin Beating /\ c \in Goroutines BY Apart
    <2> QED BY <2>1, <2>2, <2>4, <2>5, Moves
  <1>3. ASSUME NEW c \in Callers, Look(c) PROVE Clients'
    <2>1. lastIndex + 1 \in Nodes /\ pc[c] = "walk" /\ c \notin Beating /\ c \in Goroutines
      BY <1>3, ServiceClientAssumption, Apart DEF Look, Turn, PickTypes, Nodes
    <2>2. cli' = [cli EXCEPT ![c] = lastIndex + 1] BY <1>3 DEF Look, Turn
    <2>3. PICK s \in {"walk", "check"} : pc' = [pc EXCEPT ![c] = s]
      <3>1. pc = [pc EXCEPT ![c] = "walk"] BY <2>1 DEF CallTypes
      <3> QED BY <1>3, <3>1 DEF Look, Turn
    <2>4. cli'[c] \in Nodes /\ \A h \in Goroutines \ {c} : cli'[h] = cli[h]
      BY <2>1, <2>2 DEF CallTypes
    <2> QED BY <2>1, <2>3, <2>4, Moves
  <1>4. ASSUME NEW n \in Beating, Beat(n) PROVE Clients'
    <2>1. /\ UNCHANGED cli /\ pc' = [pc EXCEPT ![n] = "sleep"] /\ n \in Nodes
          /\ n \in Goroutines /\ cli[n] = n
      BY <1>4, Apart, ServiceClientAssumption DEF Beat, At, Clients
    <2> QED BY <2>1, Moves
  <1>5. ASSUME NEW g \in Goroutines, Guarded(g) \/ Sends(g) \/ Ends(g)
                                       \/ (g \in Beating /\ BeatFails(g))
        PROVE Clients'
    <2>1. UNCHANGED cli /\ pc[g] \in {"sleep", "send", "sent"}
      BY <1>5 DEF Guarded, Sends, Ends, Execute, Refused, Send, SendFails, Answered,
         CallFails, BeatFails, At
    <2>2. PICK s \in {"send", "sent", IF g \in Callers THEN "done" ELSE "idle"} :
              pc' = [pc EXCEPT ![g] = s]
      BY <1>5 DEF Guarded, Sends, Ends, Execute, Refused, Send, SendFails, Answered,
         CallFails, BeatFails, At, End
    <2>3. cli[g] \in Nodes /\ (g \in Beating => cli[g] = g /\ g \notin Callers)
      BY <2>1, Apart DEF Clients
    <2> QED BY <2>1, <2>2, <2>3, Moves
  <1>6. CASE ApplyOption \/ AddNode \/ (\E c \in Callers : LookBeyond(c)) \/ UNCHANGED vars
             \/ (\E n \in Nodes : Breaks(n) \/ Dialled(n) \/ GivesUp(n) \/ Fill(n)
                                      \/ HalfOpens(n))
    BY <1>1, <1>6
    DEF ApplyOption, AddNode, Breaks, Dialled, GivesUp, SetStatus, Fill, HalfOpens,
       LookBeyond, vars
  <1> QED BY <1>2, <1>3, <1>4, <1>5, <1>6, Apart
    DEF Next, Pick

\* What is known of a Pick stays true when other goroutines go on, ...
LEMMA WalksUndisturbed ==
  ASSUME Walks, UNCHANGED <<status, steady, lost, lastIndex>>,
         \A c \in Callers :
            \/ /\ pc'[c] = pc[c] /\ result'[c] = result[c]
               /\ cli'[c] = cli[c] /\ len'[c] = len[c] /\ i'[c] = i[c]
            \/ /\ pc[c] \notin {"walk", "check"} /\ pc'[c] \notin {"walk", "check"}
               /\ result'[c] # "none" <=> pc'[c] = "done"
  PROVE  Walks'
  <1>1. \A c \in Callers : pc'[c] \in {"walk", "check"} =>
            /\ pc'[c] = pc[c] /\ result'[c] = result[c]
            /\ cli'[c] = cli[c] /\ len'[c] = len[c] /\ i'[c] = i[c]
    OBVIOUS
  <1>2. \A c \in Callers, n \in Nat : pc'[c] = "walk" => Ahead(c, n)' = Ahead(c, n)
    BY <1>1 DEF Ahead
  <1> QED BY <1>1 DEF Walks, Picking, Ahead

\* ... when a client becomes available, ...
LEMMA WalksGains ==
  ASSUME IInv, NEW n \in Nodes, status' = [status EXCEPT ![n] = "available"],
         UNCHANGED <<pc, result, cli, len, i, steady, lost, lastIndex>>
  PROVE  Walks'
  <1>1. \A m \in Nodes : status[m] = "available" => status'[m] = "available"
    BY DEF IInv, TypeOK, ListTypes
  <1>2. \A c \in Callers : pc[c] = "check" => cli[c] \in Nodes
    BY Apart DEF IInv, Clients
  <1>3. lastIndex + 1 \in Nodes
    BY ServiceClientAssumption DEF IInv, TypeOK, PickTypes, Nodes
  <1> QED BY <1>1, <1>2, <1>3 DEF IInv, Walks, Picking, Ahead, Nodes

\* ... and when one is lost.
LEMMA WalksLoses ==
  ASSUME IInv, NEW n \in Nodes, NEW s, status' = [status EXCEPT ![n] = s], Loses(n),
         \A c \in Callers : pc'[c] = pc[c] /\ result'[c] = result[c]
  PROVE  Walks'
  <1>1. \A c \in Callers : Picking(c)' <=> Picking(c) BY DEF Picking
  <1>2. \A c \in Callers : Picking(c) => lost'[c] /\ steady'[c] = steady[c] \ {n}
    BY DEF Loses
  <1>3. \A m \in Nodes \ {n} : status'[m] = status[m] BY DEF IInv, TypeOK, ListTypes
  <1>4. ASSUME NEW c \in Callers, Picking(c), NEW m \in steady'[c]
        PROVE  m \in 1..MaxNodes /\ status'[m] = "available"
    BY <1>2, <1>3, <1>4 DEF IInv, Walks, Nodes
  <1> QED BY <1>1, <1>2, <1>4 DEF IInv, Walks, Picking

\* A Pick that begins has all of its clients to come.
LEMMA WalksLock ==
  ASSUME IInv, NEW c \in Callers, Lock(c) PROVE Walks'
  <1> USE DEF IInv, TypeOK
  <1>1. /\ pc' = [pc EXCEPT ![c] = "walk"] /\ pc[c] = "lock"
        /\ UNCHANGED <<status, cli, len, result>>
        /\ i' = [i EXCEPT ![c] = 0] /\ lost' = [lost EXCEPT ![c] = FALSE]
        /\ steady' = [steady EXCEPT ![c] = {n \in 1..len[c] : status[n] = "available"}]
    BY DEF Lock, At, PickFrom, listVars
  <1>2. \A d \in Callers : pc'[d] = "walk" => d = c
    BY <1>1, ServiceClientAssumption, Apart DEF Lock, CallTypes, PickInRange
  <1>3. PickInRange' /\ PickTypes' BY PickInRangeStep, PickTypesStep, Apart DEF Next, Pick
  <1>4. /\ lastIndex' \in Nat /\ len'[c] \in Nat /\ lastIndex' < len'[c] /\ i'[c] = 0
        /\ len[c] \in 0..MaxNodes
    <2>1. pc'[c] = "walk" BY <1>1, Apart DEF CallTypes
    <2>2. lastIndex' < len'[c] BY <1>3, <2>1 DEF PickInRange
    <2>3. lastIndex' \in 0..MaxNodes-1 /\ len'[c] \in 0..MaxNodes BY <1>3 DEF PickTypes
    <2>4. len[c] \in 0..MaxNodes /\ i'[c] = 0 BY <1>1 DEF PickTypes
    <2> QED BY <2>2, <2>3, <2>4, ServiceClientAssumption
  <1>5. \A n \in steady'[c] : /\ n \in 1..MaxNodes /\ status'[n] = "available"
                              /\ n <= len'[c] /\ Ahead(c, n)' < len'[c] - i'[c]
    <2>1. steady'[c] = {n \in 1..len[c] : status[n] = "available"}
      BY <1>1 DEF HistoryTypes
    <2> QED BY <1>1, <1>4, <2>1, ServiceClientAssumption DEF Ahead
  <1>6. \A d \in Callers \ {c} : /\ pc'[d] = pc[d] /\ steady'[d] = steady[d]
                                 /\ lost'[d] = lost[d]
    BY <1>1, Apart DEF CallTypes, HistoryTypes
  <1>7. pc'[c] = "walk" /\ result'[c] = "none"
    BY <1>1, Apart DEF CallTypes, Walks
  <1> QED BY <1>1, <1>2, <1>5, <1>6, <1>7 DEF Walks, Picking

\* A turn leaves one client fewer to come, unless it stays at an available one.
LEMMA WalksLook ==
  ASSUME IInv, NEW c \in Callers, Look(c) PROVE Walks'
  <1> USE DEF IInv, TypeOK
  <1>1. /\ pc[c] = "walk" /\ UNCHANGED <<status, len, result, steady, lost>>
        /\ cli' = [cli EXCEPT ![c] = lastIndex + 1] /\ i' = [i EXCEPT ![c] = @ + 1]
        /\ lastIndex' = IF status[lastIndex + 1] = "available" THEN lastIndex
                        ELSE (lastIndex + 1) % len[c]
        /\ pc' = IF i[c] + 1 >= len[c] THEN [pc EXCEPT ![c] = "check"] ELSE pc
    BY DEF Look, Turn, listVars
  <1>2. \A d \in Callers : pc[d] = "walk" => d = c
    BY <1>1 DEF PickInRange
  <1>3. /\ lastIndex \in Nat /\ len[c] \in Nat \ {0} /\ lastIndex < len[c]
        /\ i[c] \in Nat /\ i[c] < len[c] /\ len[c] <= MaxNodes
    BY <1>1, ServiceClientAssumption DEF PickTypes, PickInRange
  <1>4. (lastIndex + 1) % len[c] = IF lastIndex + 1 = len[c] THEN 0 ELSE lastIndex + 1
    BY <1>3, Remainder
  <1>5. /\ cli'[c] = lastIndex + 1 /\ i'[c] = i[c] + 1
        /\ pc'[c] = IF i[c] + 1 >= len[c] THEN "check" ELSE "walk"
    BY <1>1, Apart DEF CallTypes, PickTypes
  <1>6. \A d \in Callers \ {c} : pc'[d] = pc[d] /\ cli'[d] = cli[d]
    BY <1>1, Apart DEF CallTypes
  <1>7. \A n \in steady[c] : n \in 1..MaxNodes /\ status[n] = "available"
    BY <1>1 DEF Walks, Picking
  <1>8. ASSUME ~lost[c], status[lastIndex + 1] # "available", NEW n \in steady[c]
        PROVE  n <= len[c] /\ Ahead(c, n)' < len'[c] - i'[c]
    <2>1. n <= len[c] /\ Ahead(c, n) < len[c] - i[c] BY <1>1, <1>8 DEF Walks
    <2>2. n # lastIndex + 1 /\ n \in 1..MaxNodes BY <1>7, <1>8
    <2>3. lastIndex' = IF lastIndex + 1 = len[c] THEN 0 ELSE lastIndex + 1
      BY <1>1, <1>4, <1>8
    <2>4. len'[c] = len[c] /\ i'[c] = i[c] + 1 BY <1>1, <1>5
    <2>5. n \in Nat /\ n >= 1 BY <2>2, ServiceClientAssumption
    <2> QED BY <1>3, <2>1, <2>2, <2>3, <2>4, <2>5 DEF Ahead
  <1>9. ASSUME ~lost[c], status[lastIndex + 1] # "available", i[c] + 1 >= len[c]
        PROVE  steady[c] = {}
    <2>1. SUFFICES ASSUME NEW n \in steady[c] PROVE FALSE OBVIOUS
    <2>2. n <= len[c] /\ Ahead(c, n) < len[c] - i[c] BY <1>1, <1>9 DEF Walks
    <2>3. n # lastIndex + 1 /\ n \in Nat /\ n >= 1
      BY <1>7, <1>9, ServiceClientAssumption
    <2> QED BY <1>3, <1>9, <2>2, <2>3 DEF Ahead
  <1>10. ASSUME NEW d \in Callers \ {c}
         PROVE  /\ Picking(d)' => \A n \in steady'[d] : n \in 1..MaxNodes
                                                           /\ status'[n] = "available"
                /\ pc'[d] # "walk"
                /\ pc'[d] = "check" /\ ~lost'[d] => status'[cli'[d]] = "available"
                                                       \/ steady'[d] = {}
                /\ result'[d] # "none" <=> pc'[d] = "done"
    BY <1>1, <1>2, <1>6 DEF Walks, Picking
  <1>11. /\ Picking(c)' => \A n \in steady'[c] : n \in 1..MaxNodes
                                                    /\ status'[n] = "available"
         /\ result'[c] # "none" <=> pc'[c] = "done"
    BY <1>1, <1>5, <1>7 DEF Walks
  <1>12. pc'[c] = "walk" /\ ~lost'[c] =>
            \/ cli'[c] = lastIndex' + 1 /\ status'[cli'[c]] = "available"
            \/ \A n \in steady'[c] : n <= len'[c] /\ Ahead(c, n)' < len'[c] - i'[c]
    BY <1>1, <1>5, <1>8
  <1>13. pc'[c] = "check" /\ ~lost'[c] => status'[cli'[c]] = "available" \/ steady'[c] = {}
    BY <1>1, <1>3, <1>5, <1>9
  <1> QED BY <1>10, <1>11, <1>12, <1>13 DEF Walks

\* Every step keeps what is known of the Picks.
LEMMA WalksStep ==
  ASSUME IInv, [Next]_vars PROVE Walks'
  <1> USE DEF IInv, TypeOK
  <1>1. CASE (\E n \in Nodes : Fill(n) \/ HalfOpens(n)) \/ UNCHANGED vars
             \/ (\E c \in Callers : LookBeyond(c)) \/ ApplyOption
    <2>1. /\ UNCHANGED <<status, steady, lost, lastIndex>>
          /\ UNCHANGED <<pc, result, cli, len, i>>
      BY <1>1 DEF ApplyOption, Fill, HalfOpens, LookBeyond, vars, listVars, pickVars,
         history
    <2> QED BY <2>1, WalksUndisturbed
  <1>2. ASSUME NEW c \in Callers, Start(c) \/ ReadLen(c) \/ Panics(c) PROVE Walks'
    <2>1. /\ UNCHANGED <<status, steady, lost, lastIndex, result, cli, i>>
          /\ pc[c] \in {"idle", "slice", "lock"}
      BY <1>2 DEF Start, ReadLen, Panics, At, listVars, history
    <2>2. PICK s \in {"slice", "lock", "panicked"} : pc' = [pc EXCEPT ![c] = s]
      BY <1>2 DEF Start, ReadLen, Panics, At
    <2>3. \A d \in Callers \ {c} : pc'[d] = pc[d] /\ len'[d] = len[d]
      BY <1>2, <2>2, Apart DEF Start, ReadLen, Panics, CallTypes, PickTypes
    <2>4. pc'[c] = s BY <2>2, Apart DEF CallTypes
    <2>5. result[c] = "none" BY <2>1, Apart DEF Walks
    <2> QED BY <2>1, <2>3, <2>4, <2>5, WalksUndisturbed
  <1>3. ASSUME NEW n \in Beating, Beat(n) \/ (BeatFails(n) /\ status[n] # "available")
        PROVE Walks'
    <2>1. n \in Nodes /\ n \notin Callers BY Apart, ServiceClientAssumption
    <2>2. UNCHANGED <<status, steady, lost, lastIndex, result, cli, len, i>>
      BY <1>3, <2>1 DEF Beat, BeatFails, End, listVars, pickVars, history, ListTypes
    <2>3. \A c \in Callers : pc'[c] = pc[c]
      BY <1>3, <2>1, Apart DEF Beat, At, BeatFails, End, CallTypes
    <2> QED BY <2>2, <2>3, WalksUndisturbed
  <1>4. ASSUME NEW g \in Goroutines, Guarded(g) \/ Sends(g) \/ Ends(g) PROVE Walks'
    <2>1. UNCHANGED <<status, steady, lost, lastIndex, cli, len, i>>
      BY <1>4 DEF Guarded, Sends, Ends, Execute, Refused, Send, SendFails, Answered,
         CallFails,
                  listVars, pickVars, history
    <2>2. pc[g] \in {"sleep", "send", "sent"}
      BY <1>4 DEF Guarded, Sends, Ends, Execute, Refused, Send, SendFails, Answered,
         CallFails, At
    <2>3. \/ (\E s \in {"send", "sent"} : pc' = [pc EXCEPT ![g] = s]) /\ result' = result
          \/ \E r \in {"ok", "error", "refused"} : End(g, r)
      BY <1>4 DEF Guarded, Sends, Ends, Execute, Refused, Send, SendFails, Answered,
         CallFails, At
    <2>4. \A c \in Callers \ {g} : pc'[c] = pc[c] /\ result'[c] = result[c]
      BY <2>3, Apart DEF End, CallTypes
    <2>5. g \in Callers => /\ pc'[g] \notin {"walk", "check"}
                           /\ result'[g] # "none" <=> pc'[g] = "done"
      <3>1. g \in Callers => result[g] = "none" BY <2>2 DEF Walks
      <3> QED BY <2>3, <3>1, Apart DEF End, CallTypes
    <2> QED BY <2>1, <2>2, <2>4, <2>5, WalksUndisturbed
  <1>5. CASE AddNode
    <2>1. size + 1 \in Nodes BY <1>5, ServiceClientAssumption DEF AddNode, ListTypes, Nodes
    <2> QED BY <1>5, <2>1, WalksGains DEF AddNode, pickVars, history
  <1>6. ASSUME NEW n \in Nodes, Dialled(n) PROVE Walks'
    BY <1>6, WalksGains DEF Dialled, SetStatus, pickVars, history
  <1>7. ASSUME NEW n \in Nodes, Breaks(n) \/ GivesUp(n) PROVE Walks'
    <2>1. Loses(n) /\ UNCHANGED <<pc, result>>
          /\ \E s \in {"reconnect", "gaveup"} : status' = [status EXCEPT ![n] = s]
      BY <1>7 DEF Breaks, GivesUp, SetStatus
    <2> QED BY <2>1, WalksLoses
  <1>8. ASSUME NEW n \in Beating, BeatFails(n), status[n] = "available" PROVE Walks'
    <2>1. n \in Nodes /\ n \notin Callers BY Apart, ServiceClientAssumption
    <2>2. Loses(n) /\ status' = [status EXCEPT ![n] = "closed"]
      BY <1>8, <2>1 DEF BeatFails, ListTypes
    <2>3. \A c \in Callers : pc'[c] = pc[c] /\ result'[c] = result[c]
      BY <1>8, <2>1, Apart DEF BeatFails, End, CallTypes
    <2> QED BY <2>1, <2>2, <2>3, WalksLoses
  <1>9. ASSUME NEW c \in Callers, Picked(c) \/ NotPicked(c) PROVE Walks'
    <2>1. /\ pc[c] = "check" /\ UNCHANGED <<status, lastIndex, cli>>
          /\ len' = [len EXCEPT ![c] = 0] /\ i' = [i EXCEPT ![c] = 0]
      BY <1>9 DEF Picked, NotPicked, At, PickReturns, listVars
    <2>2. \/ /\ \E s \in {"send", "sleep"} : pc' = [pc EXCEPT ![c] = s]
             /\ result' = result
          \/ pc' = [pc EXCEPT ![c] = "done"] /\ result' = [result EXCEPT ![c] = "not called"]
      BY <1>9 DEF Picked, NotPicked, At
    <2>3. \A d \in Callers \ {c} :
             /\ pc'[d] = pc[d] /\ result'[d] = result[d] /\ len'[d] = len[d]
             /\ i'[d] = i[d] /\ steady'[d] = steady[d] /\ lost'[d] = lost[d]
      BY <1>9, <2>1, <2>2, Apart
      DEF Picked, NotPicked, CallTypes, PickTypes, HistoryTypes
    <2>4. pc'[c] \in {"send", "sleep", "done"} /\ (result'[c] # "none" <=> pc'[c] = "done")
      BY <2>1, <2>2, Apart DEF CallTypes, Walks
    <2> QED BY <2>1, <2>3, <2>4 DEF Walks, Picking, Ahead
  <1> QED BY <1>1, <1>2, <1>3, <1>4, <1>5, <1>6, <1>7, <1>8, <1>9, WalksLock, WalksLook
    DEF Next, Pick

\* A Pick that returns nil has walked by all clients that might have served.
LEMMA PickFindsStep ==
  ASSUME IInv, [Next]_vars PROVE PickFinds'
  <1> USE DEF IInv, TypeOK
  <1>1. \A c \in Callers : result[c] # "none" => pc[c] = "done" BY DEF Walks
  <1>2. ASSUME UNCHANGED <<steady, lost>>,
               \A c \in Callers : result'[c] = result[c] \/ result'[c] # "not called"
        PROVE PickFinds'
    BY <1>2 DEF PickFinds
  <1>3. ASSUME NEW n \in Nodes, Loses(n), UNCHANGED result PROVE PickFinds'
    BY <1>1, <1>3 DEF Loses, Picking, PickFinds
  <1>4. ASSUME NEW n \in Nodes, Breaks(n) \/ Dialled(n) \/ GivesUp(n) PROVE PickFinds'
    BY <1>2, <1>3, <1>4 DEF Breaks, Dialled, GivesUp, SetStatus, history
  <1>5. ASSUME NEW n \in Beating, BeatFails(n) PROVE PickFinds'
    <2>1. n \in Nodes /\ n \notin Callers BY Apart, ServiceClientAssumption
    <2> QED BY <1>2, <1>3, <1>5, <2>1 DEF BeatFails, End, history
  <1>6. ASSUME NEW c \in Callers, Lock(c) PROVE PickFinds'
    <2>1. pc[c] = "lock" /\ result' = result BY <1>6 DEF Lock, At, PickFrom
    <2>2. \A d \in Callers \ {c} : steady'[d] = steady[d] /\ lost'[d] = lost[d]
      BY <1>6 DEF Lock, PickFrom, HistoryTypes
    <2>3. result[c] = "none" BY <1>1, <2>1
    <2> QED BY <2>1, <2>2, <2>3 DEF PickFinds
  <1>7. ASSUME NEW c \in Callers, Picked(c) PROVE PickFinds'
    BY <1>7 DEF Picked, PickFinds, HistoryTypes
  <1>8. ASSUME NEW c \in Callers, NotPicked(c) PROVE PickFinds'
    <2>1. /\ pc[c] = "check" /\ status[cli[c]] # "available" /\ UNCHANGED <<steady, lost>>
          /\ result' = [result EXCEPT ![c] = "not called"]
      BY <1>8 DEF NotPicked, At
    <2>2. ~lost[c] => steady[c] = {} BY <2>1 DEF Walks
    <2> QED BY <2>1, <2>2 DEF PickFinds, CallTypes
  <1>9. ASSUME NEW g \in Goroutines, Guarded(g) \/ Sends(g) \/ Ends(g) PROVE PickFinds'
    <2>1. /\ UNCHANGED <<steady, lost>>
          /\ \/ result' = result
             \/ \E r \in {"ok", "error", "refused"} : result' = [result EXCEPT ![g] = r]
      BY <1>9 DEF Guarded, Sends, Ends, Execute, Refused, Send, SendFails, Answered,
         CallFails,
                  End, history
    <2> QED BY <1>2, <2>1 DEF CallTypes
  <1>10. CASE ApplyOption \/ AddNode \/ (\E n \in Nodes : Fill(n) \/ HalfOpens(n)) \/ UNCHANGED vars
              \/ (\E n \in Beating : Beat(n))
              \/ (\E c \in Callers : Start(c) \/ ReadLen(c) \/ Panics(c) \/ Look(c)
                                       \/ LookBeyond(c))
    BY <1>2, <1>10
    DEF ApplyOption, AddNode, Fill, HalfOpens, Beat, Start, ReadLen, Panics, Look,
       Turn, LookBeyond,
       vars, history
  <1> QED BY <1>4, <1>5, <1>6, <1>7, <1>8, <1>9, <1>10 DEF Next, Pick

\* A step outside of the walks leaves the round as it is.
LEMMA LapsOutside ==
  ASSUME Outside, UNCHANGED lastIndex
  PROVE  LastPicked' = LastPicked /\ \A n \in Nodes : Lap(n)' = Lap(n)
  <1>1. LastPicked' = LastPicked BY DEF Outside, LastPicked
  <1> QED BY <1>1 DEF Lap

\* While all clients are there and available, steps go on with the round.
LEMMA RotatesStep ==
  ASSUME IInv, [Next]_vars PROVE Rotates'
  <1> USE DEF IInv, TypeOK
  <1>1. SUFFICES ASSUME even' PROVE Rotates' BY DEF Rotates
  <1>2. even
    BY <1>1 DEF Next, Pick, Guarded, Sends, Ends, ApplyOption, AddNode, Breaks,
       Dialled, GivesUp,
       SetStatus, Loses, Start, ReadLen, Lock, PickFrom, Panics, Look, Turn,
       LookBeyond, Picked,
       PickReturns, NotPicked, Beat, Fill, HalfOpens, Execute, Refused, Send, SendFails,
       Answered, CallFails, BeatFails, history, vars
  <1>3. /\ size = MaxNodes /\ \A n \in Nodes : status[n] = "available"
        /\ \A c \in Callers : pc[c] \in {"lock", "walk"} => len[c] = MaxNodes
        /\ \A m, n \in Nodes : picks[m] - Lap(m) = picks[n] - Lap(n)
    BY <1>2 DEF Rotates
  <1>4. size' = MaxNodes /\ \A n \in Nodes : status'[n] = "available"
    <2>1. ~AddNode BY <1>3, ServiceClientAssumption DEF AddNode
    <2>2. ASSUME NEW n \in Nodes, Breaks(n) \/ Dialled(n) \/ GivesUp(n)
          PROVE  size' = MaxNodes /\ \A m \in Nodes : status'[m] = "available"
      BY <1>1, <1>3, <2>2 DEF Breaks, Dialled, GivesUp, SetStatus, Loses, ListTypes
    <2>3. ASSUME NEW n \in Beating, BeatFails(n)
          PROVE  size' = MaxNodes /\ \A m \in Nodes : status'[m] = "available"
      BY <1>1, <1>3, <2>3, ServiceClientAssumption DEF BeatFails, Loses
    <2>4. CASE UNCHANGED <<size, status>> BY <1>3, <2>4
    <2> QED BY <2>1, <2>2, <2>3, <2>4
      DEF Next, Pick, Guarded, Sends, Ends, ApplyOption, Start, ReadLen, Lock, PickFrom,
         Panics, Look, Turn,
         LookBeyond, Picked, PickReturns, NotPicked, Beat, Fill, HalfOpens, Execute,
         Refused, Send, SendFails, Answered, CallFails, listVars, vars
  <1>5. \A c \in Callers : pc'[c] \in {"lock", "walk"} => len'[c] = MaxNodes
    <2>1. ASSUME UNCHANGED <<pc, len>>
          PROVE \A c \in Callers : pc'[c] \in {"lock", "walk"} => len'[c] = MaxNodes
      BY <1>3, <2>1
    <2>2. ASSUME NEW g \in Goroutines, UNCHANGED len,
                 \E s : s \notin {"lock", "walk"} /\ pc' = [pc EXCEPT ![g] = s]
          PROVE \A c \in Callers : pc'[c] \in {"lock", "walk"} => len'[c] = MaxNodes
      BY <1>3, <2>2, Apart DEF CallTypes
    <2>3. ASSUME NEW c \in Callers, ReadLen(c)
          PROVE \A d \in Callers : pc'[d] \in {"lock", "walk"} => len'[d] = MaxNodes
      BY <1>3, <2>3, Apart DEF ReadLen, At, CallTypes, PickTypes
    <2>4. ASSUME NEW c \in Callers, Lock(c)
          PROVE \A d \in Callers : pc'[d] \in {"lock", "walk"} => len'[d] = MaxNodes
      BY <1>3, <2>4, Apart DEF Lock, At, PickFrom, CallTypes
    <2>5. ASSUME NEW c \in Callers, Start(c) \/ Panics(c) \/ Look(c)
          PROVE \A d \in Callers : pc'[d] \in {"lock", "walk"} => len'[d] = MaxNodes
      <3>1. UNCHANGED len BY <2>5 DEF Start, Panics, Look, Turn
      <3>2. pc' = pc \/ \E s : s \notin {"lock", "walk"} /\ pc' = [pc EXCEPT ![c] = s]
        BY <2>5 DEF Start, Panics, Look, Turn, At
      <3> QED BY <2>1, <2>2, <3>1, <3>2, Apart
    <2>6. ASSUME NEW c \in Callers, Picked(c) \/ NotPicked(c)
          PROVE \A d \in Callers : pc'[d] \in {"lock", "walk"} => len'[d] = MaxNodes
      <3>1. PICK s \in {"send", "sleep", "done"} : pc' = [pc EXCEPT ![c] = s]
        BY <2>6 DEF Picked, NotPicked, At
      <3>2. \A d \in Callers \ {c} : len'[d] = len[d]
        BY <2>6 DEF Picked, NotPicked, PickReturns, PickTypes
      <3> QED BY <1>3, <3>1, <3>2, Apart DEF CallTypes
    <2>7. ASSUME NEW g \in Goroutines, Guarded(g) \/ Sends(g) \/ Ends(g) \/ (g \in Beating /\ Beat(g))
                                       \/ (g \in Beating /\ BeatFails(g))
          PROVE \A c \in Callers : pc'[c] \in {"lock", "walk"} => len'[c] = MaxNodes
      <3>1. UNCHANGED len
        BY <2>7 DEF Guarded, Sends, Ends, Beat, Execute, Refused, Send, SendFails, Answered,
           CallFails, BeatFails, pickVars
      <3>2. \E s \in {"sleep", "send", "sent", "done", "idle"} : pc' = [pc EXCEPT ![g] = s]
        BY <2>7 DEF Guarded, Sends, Ends, Beat, Execute, Refused, Send, SendFails, Answered,
           CallFails, BeatFails, At, End
      <3> QED BY <2>2, <3>1, <3>2
    <2>8. CASE ApplyOption \/ AddNode \/ (\E n \in Nodes : Breaks(n) \/ Dialled(n) \/ GivesUp(n) \/ Fill(n)
                                              \/ HalfOpens(n))
               \/ (\E c \in Callers : LookBeyond(c)) \/ UNCHANGED vars
      BY <2>1, <2>8 DEF ApplyOption, AddNode, Breaks, Dialled, GivesUp, SetStatus,
         Fill, HalfOpens,
                        LookBeyond, pickVars, vars
    <2> QED BY <2>3, <2>4, <2>5, <2>6, <2>7, <2>8, Apart DEF Next, Pick
  <1>6. \A m, n \in Nodes : picks'[m] - Lap(m)' = picks'[n] - Lap(n)'
    <2>1. CASE Outside /\ UNCHANGED <<mu, lastIndex, picks>>
      BY <1>3, <2>1, LapsOutside
    <2>2. ASSUME NEW c \in Callers, Panics(c) PROVE FALSE
      BY <1>3, <2>2, ServiceClientAssumption DEF Panics, At
    <2>3. lastIndex \in Nat /\ lastIndex < MaxNodes /\ MaxNodes \in Nat
      BY ServiceClientAssumption DEF PickTypes
    <2>4. ASSUME NEW c \in Callers, Lock(c)
          PROVE  picks' = picks /\ \A n \in Nodes : Lap(n)' = Lap(n)
      <3>1. pc[c] = "lock" /\ lastIndex' = (lastIndex + 1) % len[c] /\ picks' = picks
        BY <2>4 DEF Lock, At, PickFrom
      <3>2. lastIndex' = IF lastIndex + 1 = MaxNodes THEN 0 ELSE lastIndex + 1
        BY <1>3, <2>3, <3>1, Remainder, ServiceClientAssumption
      <3>3. \A d \in Callers : pc[d] # "walk"
        BY <2>4, ServiceClientAssumption DEF Lock, PickInRange
      <3>4. pc'[c] = "walk" BY <2>4, Apart DEF Lock, At, CallTypes
      <3>5. LastPicked' = LastPicked BY <2>3, <3>2, <3>3, <3>4 DEF LastPicked
      <3> QED BY <3>1, <3>5 DEF Lap
    <2>5. ASSUME NEW c \in Callers, Look(c)
          PROVE  \A m, n \in Nodes : picks'[m] - Lap(m)' = picks'[n] - Lap(n)'
      <3>1. pc[c] = "walk" /\ \A d \in Callers : pc[d] = "walk" => d = c
        BY <2>5 DEF Look, Turn, PickInRange
      <3>2. lastIndex + 1 \in Nodes BY <2>3 DEF Nodes
      <3>3. lastIndex' = lastIndex BY <1>3, <2>5, <3>2 DEF Look, Turn
      <3>4. CASE ~(i[c] + 1 >= len[c])
        <4>1. UNCHANGED <<pc, picks>> BY <2>5, <3>4 DEF Look, Turn
        <4>2. LastPicked' = LastPicked BY <3>3, <4>1 DEF LastPicked
        <4> QED BY <1>3, <4>1, <4>2 DEF Lap
      <3>5. CASE i[c] + 1 >= len[c]
        <4>1. /\ pc' = [pc EXCEPT ![c] = "check"]
              /\ picks' = [picks EXCEPT ![lastIndex + 1] = @ + 1]
          BY <2>5, <3>5 DEF Look, Turn
        <4>2. \A d \in Callers : pc'[d] # "walk" BY <3>1, <4>1, Apart DEF CallTypes
        <4>3. LastPicked' = lastIndex BY <3>3, <4>2 DEF LastPicked
        <4>4. LastPicked = IF lastIndex = 0 THEN MaxNodes - 1 ELSE lastIndex - 1
          BY <3>1 DEF LastPicked
        <4>5. \A n \in Nodes : n \in Nat /\ 1 <= n /\ n <= MaxNodes
          BY <2>3 DEF Nodes
        <4>6. \A n \in Nodes : picks[n] \in Nat BY DEF HistoryTypes
        <4>7. \A n \in Nodes : picks'[n] = IF n = lastIndex + 1 THEN picks[n] + 1 ELSE picks[n]
          BY <4>1 DEF HistoryTypes
        <4>8. CASE lastIndex = 0
          <5>1. \A n \in Nodes : picks'[n] - Lap(n)' = picks[n] - Lap(n) + 1
            BY <2>3, <4>3, <4>4, <4>5, <4>6, <4>7, <4>8 DEF Lap
          <5> QED BY <1>3, <5>1
        <4>9. CASE lastIndex # 0
          <5>1. \A n \in Nodes : picks'[n] - Lap(n)' = picks[n] - Lap(n)
            BY <2>3, <4>3, <4>4, <4>5, <4>6, <4>7, <4>9 DEF Lap
          <5> QED BY <1>3, <5>1
        <4> QED BY <4>8, <4>9
      <3> QED BY <3>4, <3>5
    <2> QED BY <1>3, <2>1, <2>2, <2>4, <2>5, OutsideSteps
  <1> QED BY <1>4, <1>5, <1>6 DEF Rotates

\* In a round no client is ahead of another by more than one pick.
LEMMA BalancedStep == ASSUME IInv, [Next]_vars PROVE Balanced'
  <1>1. \A n \in Nodes : Lap(n)' \in {0, 1} /\ picks'[n] \in Nat
    BY HistoryTypesStep DEF Lap, HistoryTypes
  <1>2. even' => \A m, n \in Nodes : picks'[m] - Lap(m)' = picks'[n] - Lap(n)'
    BY RotatesStep DEF Rotates
  <1> QED BY <1>1, <1>2 DEF Balanced

\* The strengthening is inductive.
LEMMA NextInv == ASSUME IInv, [Next]_vars PROVE IInv'
  <1>1. TypeOK'
    BY ListTypesStep, PickTypesStep, CallTypesStep, GuardTypesStep, HistoryTypesStep
    DEF TypeOK
  <1> QED
    BY <1>1, PickInRangeStep, PickFindsStep, BalancedStep, WalksStep, RotatesStep,
       ClientsStep
    DEF IInv

\* The strengthening holds always.
THEOREM Invariance == Spec => []IInv
  <1>1. Init => IInv BY InitInv
  <1>2. IInv /\ [Next]_vars => IInv' BY NextInv
  <1> QED BY <1>1, <1>2, PTL DEF Spec

\* Pick never indexes beyond its slice, though other Picks left the index, and it
\* has its mutex to itself.
THEOREM IndexInRange == Spec => []PickInRange
  <1>1. IInv => PickInRange BY DEF IInv
  <1> QED BY <1>1, Invariance, PTL

\* Pick finds a client if one stays available.
THEOREM AvailableIsFound == Spec => []PickFinds
  <1>1. IInv => PickFinds BY DEF IInv
  <1> QED BY <1>1, Invariance, PTL

\* Calls are spread evenly while all clients are available, however many callers
\* and clients there are.
THEOREM EvenlyPicked == Spec => []Balanced
  <1>1. IInv => Balanced BY DEF IInv
  <1> QED BY <1>1, Invariance, PTL
=============================================================================
