--------------------------- MODULE DiscoveryProofs ---------------------------
(* Proofs about Discovery: IInv is inductive, and what follows from it.    *)
EXTENDS Discovery, SequenceTheorems, TLAPS

\* The initial states satisfy the strengthening.
LEMMA InitInv == ASSUME Init PROVE IInv
  <1>1. TypeOK
    <2>1. events = <<>> BY DEF Init
    <2>2. <<>> \in Seq(Events) BY EmptySeq
    <2>3. events \in Seq(Events) BY <2>1, <2>2
    <2>4. granted \in 0..MaxLease /\ leases \subseteq 1..granted
      BY DiscoveryAssumption DEF Init
    <2>5. /\ key \in [Nodes -> 0..granted] /\ grant \in [Nodes -> 0..granted]
          /\ leaseid \in [Nodes -> 0..granted]
      BY DEF Init
    <2>6. cached \in [Nodes -> Nat] BY DEF Init
    <2> QED BY <2>3, <2>4, <2>5, <2>6 DEF Init, TypeOK
  <1>2. CachedOnce /\ OwnLease /\ NoNodeDropped
    BY DEF Init, CachedOnce, OwnLease, NoNodeDropped
  <1>3. OneAdder /\ Adding BY DiscoveryAssumption DEF Init, OneAdder, Adding, Adders
  <1>4. LeasesApart BY DEF Init, LeasesApart, Held
  <1> QED BY <1>1, <1>2, <1>3, <1>4 DEF IInv

\* Events are appended and taken off without leaving their type.
LEMMA EventTypes ==
  ASSUME events \in Seq(Events)
  PROVE  /\ \A n \in Nodes : Append(events, PutEvent(n)) \in Seq(Events)
         /\ Append(events, DeleteEvent) \in Seq(Events)
         /\ events # <<>> => Head(events) \in Events /\ Tail(events) \in Seq(Events)
  <1>1. DeleteEvent \in Events /\ \A n \in Nodes : PutEvent(n) \in Events
    BY DEF Events
  <1> QED BY <1>1, AppendProperties, HeadTailProperties

\* Only put events name nodes.
LEMMA EventKinds ==
  /\ \A e \in Events : e.type = "put" => e.value \in Nodes /\ e = PutEvent(e.value)
  /\ \A e \in Events : e.type = "delete" => e = DeleteEvent
  /\ \A n \in Nodes : PutEvent(n) # DeleteEvent
  BY DEF Events, PutEvent, DeleteEvent

\* The loss of a lease keeps the types of etcd's state.
LEMMA DropTypes ==
  ASSUME TypeOK, NEW l, Drop(l)
  PROVE  /\ key' \in [Nodes -> 0..granted] /\ leases' \subseteq 1..granted
         /\ events' \in Seq(Events) /\ granted' = granted
  <1>1. events' \in Seq(Events) BY EventTypes DEF TypeOK, Drop, NotifyDelete
  <1>2. leases' \subseteq 1..granted BY DEF TypeOK, Drop
  <1>3. key' \in [Nodes -> 0..granted]
    <2>1. key' = [n \in Nodes |-> IF key[n] = l THEN 0 ELSE key[n]] BY DEF Drop
    <2>2. granted \in Nat /\ \A n \in Nodes : key[n] \in 0..granted
      BY DiscoveryAssumption DEF TypeOK
    <2>3. 0 \in 0..granted BY <2>2
    <2> QED BY <2>1, <2>2, <2>3
  <1> QED BY <1>1, <1>2, <1>3 DEF Drop

\* What a dial changes has its type.
LEMMA DialTypes ==
  ASSUME TypeOK, NEW a \in Adders, Dial(a)
  PROVE  /\ adding' \in [Adders -> Nodes \cup {NoNode}]
         /\ cached' \in [Nodes -> Nat] /\ undialled' \subseteq Nodes
  <1>1. adding[a] \in Nodes BY DEF TypeOK, Dial
  <1>2. adding' \in [Adders -> Nodes \cup {NoNode}] BY DEF TypeOK, Dial
  <1>3. undialled' \subseteq Nodes BY <1>1 DEF TypeOK, Dial
  <1>4. cached' \in [Nodes -> Nat]
    <2>1. PICK n \in Nodes : n = adding[a] BY <1>1
    <2>2. CASE cached' = [cached EXCEPT ![n] = @ + 1]
      <3>1. cached[n] + 1 \in Nat BY DEF TypeOK
      <3> QED BY <2>2, <3>1 DEF TypeOK
    <2>3. CASE UNCHANGED cached BY <2>3 DEF TypeOK
    <2> QED BY <2>1, <2>2, <2>3 DEF Dial
  <1> QED BY <1>2, <1>3, <1>4

\* Every value that a step stores has its type.
LEMMA TypeNext == ASSUME IInv, [Next]_vars PROVE TypeOK'
  <1>0. TypeOK BY DEF IInv
  <1> USE <1>0, DiscoveryAssumption
  <1>1. ASSUME NEW n \in Nodes, Start(n) \/ Crash(n) \/ UnRegister(n) PROVE TypeOK'
    <2>1. CASE Start(n) BY <2>1 DEF Start, TypeOK, etcdVars, subVars
    <2>2. CASE Crash(n) BY <2>2 DEF Crash, TypeOK, etcdVars, subVars
    <2>3. CASE UnRegister(n) BY <2>3 DEF UnRegister, TypeOK, etcdVars, subVars
    <2> QED BY <1>1, <2>1, <2>2, <2>3
  <1>2. ASSUME NEW n \in Nodes, Grant(n) PROVE TypeOK'
    BY <1>2 DEF Grant, At, TypeOK, subVars
  <1>3. ASSUME NEW n \in Nodes, Put(n) PROVE TypeOK'
    <2>1. events' \in Seq(Events) BY <1>3, EventTypes DEF Put, NotifyPut, TypeOK
    <2> QED BY <1>3, <2>1 DEF Put, At, NotifyPut, TypeOK
  <1>4. ASSUME NEW n \in Nodes,
               KeepAlive(n) \/ KeepAliveFails(n) \/ ChannelCloses(n) \/ Exit(n)
        PROVE  TypeOK'
    BY ZenonT(100), <1>4 DEF KeepAlive, KeepAliveFails, ChannelCloses, Exit, At, TypeOK, etcdVars, subVars
  <1>5. ASSUME NEW n \in Nodes, Revoke(n) PROVE TypeOK'
    <2>1. CASE Drop(leaseid[n])
      BY <1>5, <2>1, DropTypes DEF Revoke, At, Drop, TypeOK
    <2>2. CASE UNCHANGED <<etcdVars, subVars>>
      BY <1>5, <2>2 DEF Revoke, At, TypeOK, etcdVars, subVars
    <2> QED BY <1>5, <2>1, <2>2 DEF Revoke
  <1>6. ASSUME NEW l \in Leases, LeaseExpires(l) PROVE TypeOK'
    BY <1>6, DropTypes DEF LeaseExpires, Drop, TypeOK, pubVars
  <1>7. CASE FetchAllNodesInfo
    <2>1. CASE Get BY <2>1 DEF Get, TypeOK, etcdVars, pubVars
    <2>2. CASE GetFails BY <2>2 DEF GetFails, TypeOK, etcdVars, pubVars
    <2>3. CASE FetchNode
      BY <2>3 DEF FetchNode, AddNode, TypeOK, Adders, etcdVars, pubVars
    <2>4. CASE Dial("fetch") BY <2>4, DialTypes DEF Dial, TypeOK, Adders, etcdVars, pubVars
    <2> QED BY <1>7, <2>1, <2>2, <2>3, <2>4 DEF FetchAllNodesInfo
  <1>8. CASE WatchLoop
    <2>1. CASE WatchNodes BY <2>1 DEF WatchNodes, TypeOK, etcdVars, pubVars
    <2>2. CASE HandlePut
      <3>1. Head(events).value \in Nodes /\ Tail(events) \in Seq(Events)
        BY <2>2, EventTypes, EventKinds DEF HandlePut, TypeOK
      <3> QED BY <2>2, <3>1 DEF HandlePut, AddNode, TypeOK, Adders, etcdVars, pubVars
    <2>3. CASE HandleDelete
      BY <2>3, EventTypes DEF HandleDelete, TypeOK, etcdVars, pubVars
    <2>4. CASE Dial("watch") BY <2>4, DialTypes DEF Dial, TypeOK, Adders, etcdVars, pubVars
    <2> QED BY <1>8, <2>1, <2>2, <2>3, <2>4 DEF WatchLoop
  <1>9. CASE UNCHANGED vars
    BY <1>9 DEF vars, etcdVars, pubVars, subVars, TypeOK
  <1> QED BY <1>1, <1>2, <1>3, <1>4, <1>5, <1>6, <1>7, <1>8, <1>9 DEF Next, Register

\* One goroutine adds nodes, and only while they are not cached.
LEMMA AddersNext ==
  ASSUME IInv, [Next]_vars PROVE CachedOnce' /\ OneAdder' /\ Adding'
  <1>0. /\ TypeOK /\ CachedOnce /\ OneAdder /\ Adding
        /\ "fetch" \in Adders /\ "watch" \in Adders
    BY DEF IInv, Adders
  <1> USE <1>0
  <1>1. ASSUME UNCHANGED <<fetch, todo, watching, adding, cached>>,
               ~watching => UNCHANGED events
        PROVE  CachedOnce' /\ OneAdder' /\ Adding'
    BY <1>1 DEF CachedOnce, OneAdder, Adding
  <1>2. ASSUME NEW n \in Nodes,
               \/ Start(n) \/ Crash(n) \/ UnRegister(n) \/ Grant(n) \/ KeepAlive(n)
               \/ KeepAliveFails(n) \/ ChannelCloses(n) \/ Exit(n)
        PROVE  CachedOnce' /\ OneAdder' /\ Adding'
    BY <1>1, <1>2 DEF Start, Crash, UnRegister, Grant, KeepAlive, KeepAliveFails,
                      ChannelCloses, Exit, subVars
  <1>3. ASSUME NEW n \in Nodes, Put(n) PROVE CachedOnce' /\ OneAdder' /\ Adding'
    BY <1>1, <1>3 DEF Put, NotifyPut
  <1>4. ASSUME NEW n \in Nodes, Revoke(n) PROVE CachedOnce' /\ OneAdder' /\ Adding'
    BY <1>1, <1>4 DEF Revoke, Drop, NotifyDelete, subVars
  <1>5. ASSUME NEW l \in Leases, LeaseExpires(l)
        PROVE  CachedOnce' /\ OneAdder' /\ Adding'
    BY <1>1, <1>5 DEF LeaseExpires, Drop, NotifyDelete
  <1>6. CASE Get \/ GetFails
    BY <1>6 DEF Get, GetFails, CachedOnce, OneAdder, Adding
  <1>7. CASE FetchNode
    BY <1>7 DEF FetchNode, AddNode, TypeOK, CachedOnce, OneAdder, Adding
  <1>8. ASSUME NEW a \in Adders, Dial(a)
        PROVE  CachedOnce' /\ OneAdder' /\ Adding'
    <2>1. \A b \in Adders : b # a => adding[b] = NoNode
      BY <1>8 DEF Dial, OneAdder, Adding, Adders
    <2>2. adding[a] \in Nodes /\ cached[adding[a]] = 0
      BY <1>8 DEF Dial, TypeOK, Adding
    <2>3. CachedOnce'
      <3>1. CASE cached' = [cached EXCEPT ![adding[a]] = @ + 1]
        BY <2>2, <3>1 DEF TypeOK, CachedOnce
      <3>2. CASE UNCHANGED cached BY <3>2 DEF CachedOnce
      <3> QED BY <1>8, <3>1, <3>2 DEF Dial
    <2>4. \A b \in Adders : adding'[b] = NoNode
      BY <1>8, <2>1 DEF Dial, TypeOK
    <2>5. OneAdder' /\ Adding'
      BY <1>8, <2>4, DiscoveryAssumption DEF Dial, OneAdder, Adding
    <2> QED BY <2>3, <2>5
  <1>9. CASE WatchNodes
    BY <1>9 DEF WatchNodes, CachedOnce, OneAdder, Adding
  <1>10. CASE HandlePut
    <2>1. watching BY <1>10 DEF HandlePut, Adding
    <2> QED BY <1>10, <2>1 DEF HandlePut, AddNode, TypeOK, CachedOnce, OneAdder, Adding
  <1>11. CASE HandleDelete
    <2>1. watching BY <1>11 DEF HandleDelete, Adding
    <2> QED BY <1>11, <2>1 DEF HandleDelete, CachedOnce, OneAdder, Adding
  <1>12. CASE UNCHANGED vars BY <1>1, <1>12 DEF vars, subVars
  <1> QED BY <1>2, <1>3, <1>4, <1>5, <1>6, <1>7, <1>8, <1>9, <1>10, <1>11, <1>12
          DEF Next, Register, FetchAllNodesInfo, WatchLoop

\* Every put names the lease under which the publisher will revoke it, and
\* leases are granted under new numbers.
LEMMA LeasesNext == ASSUME IInv, [Next]_vars PROVE OwnLease' /\ LeasesApart'
  <1>0. TypeOK /\ OwnLease /\ LeasesApart BY DEF IInv
  <1> USE <1>0, DiscoveryAssumption
  <1>1. ASSUME UNCHANGED <<key, pub, grant, leaseid>> PROVE OwnLease' /\ LeasesApart'
    BY <1>1 DEF OwnLease, LeasesApart, Held
  <1>2. ASSUME NEW n \in Nodes,
               \/ Crash(n) \/ KeepAlive(n) \/ KeepAliveFails(n)
               \/ ChannelCloses(n) \/ Exit(n) \/ UnRegister(n)
        PROVE  OwnLease' /\ LeasesApart'
    <2>1. UNCHANGED <<key, grant, leaseid>>
      BY <1>2 DEF Crash, KeepAlive, KeepAliveFails, ChannelCloses, Exit, UnRegister, etcdVars
    <2>2. \A m \in Nodes : pub'[m] \in {"keep", "select"} => pub[m] \in {"keep", "select"}
      BY <1>2 DEF Crash, KeepAlive, KeepAliveFails, ChannelCloses, Exit, UnRegister, At, TypeOK
    <2> QED BY <2>1, <2>2 DEF OwnLease, LeasesApart, Held
  <1>3. ASSUME NEW n \in Nodes, Start(n) PROVE OwnLease' /\ LeasesApart'
    BY <1>3 DEF Start, TypeOK, OwnLease, LeasesApart, Held, etcdVars
  <1>4. ASSUME NEW n \in Nodes, Grant(n) PROVE OwnLease' /\ LeasesApart'
    <2>1. \A m \in Nodes : granted + 1 \notin Held(m) BY DEF Held, TypeOK
    <2>2. \A m \in Nodes : Held(m)' \subseteq Held(m) \cup (IF m = n THEN {granted + 1} ELSE {})
      BY <1>4 DEF Grant, Held, TypeOK
    <2>3. OwnLease' BY <1>4 DEF Grant, At, OwnLease, TypeOK
    <2> QED BY <2>1, <2>2, <2>3 DEF LeasesApart
  <1>5. ASSUME NEW n \in Nodes, Put(n) PROVE OwnLease' /\ LeasesApart'
    <2>1. \A m \in Nodes : Held(m)' \subseteq Held(m)
      BY <1>5 DEF Put, Held, TypeOK
    <2>2. OwnLease' BY <1>5 DEF Put, At, OwnLease, TypeOK
    <2> QED BY <2>1, <2>2 DEF LeasesApart
  <1>6. ASSUME NEW l, Drop(l), UNCHANGED <<grant, leaseid>>,
               \A m \in Nodes : pub'[m] \in {"keep", "select"} => pub'[m] = pub[m]
        PROVE  OwnLease' /\ LeasesApart'
    <2>1. \A m \in Nodes : key'[m] \in {0, key[m]} BY <1>6 DEF Drop
    <2>2. \A m \in Nodes : Held(m)' \subseteq Held(m) BY <1>6, <2>1 DEF Held
    <2> QED BY <1>6, <2>1, <2>2 DEF OwnLease, LeasesApart
  <1>7. ASSUME NEW n \in Nodes, Revoke(n) PROVE OwnLease' /\ LeasesApart'
    <2>1. \A m \in Nodes : pub'[m] \in {"keep", "select"} => pub'[m] = pub[m]
      BY <1>7 DEF Revoke, At, TypeOK
    <2>2. CASE Drop(leaseid[n]) BY <1>6, <1>7, <2>1, <2>2 DEF Revoke
    <2>3. CASE UNCHANGED <<etcdVars, subVars>>
      BY <1>7, <2>1, <2>3 DEF Revoke, OwnLease, LeasesApart, Held, etcdVars
    <2> QED BY <1>7, <2>2, <2>3 DEF Revoke
  <1>8. ASSUME NEW l \in Leases, LeaseExpires(l) PROVE OwnLease' /\ LeasesApart'
    BY <1>6, <1>8 DEF LeaseExpires, pubVars
  <1>9. CASE FetchAllNodesInfo \/ WatchLoop
    BY <1>1, <1>9 DEF FetchAllNodesInfo, WatchLoop, Get, GetFails, FetchNode, Dial,
                      WatchNodes, HandlePut, HandleDelete, etcdVars, pubVars
  <1>10. CASE UNCHANGED vars BY <1>1, <1>10 DEF vars, etcdVars, pubVars
  <1> QED BY <1>2, <1>3, <1>4, <1>5, <1>7, <1>8, <1>9, <1>10 DEF Next, Register

\* A put event stays in the queue while others are added to it, and while
\* another one is taken off.
LEMMA EventsKept ==
  ASSUME events \in Seq(Events), NEW n \in Nodes,
         NEW i \in 1..Len(events), events[i] = PutEvent(n)
  PROVE  /\ \A e \in Events : \E j \in 1..Len(Append(events, e)) :
                Append(events, e)[j] = PutEvent(n)
         /\ events # <<>>
         /\ Head(events) = PutEvent(n)
            \/ \E j \in 1..Len(Tail(events)) : Tail(events)[j] = PutEvent(n)
  <1>1. events # <<>> /\ Len(events) \in Nat BY EmptySeq, LenProperties
  <1>2. ASSUME NEW e \in Events
        PROVE  \E j \in 1..Len(Append(events, e)) : Append(events, e)[j] = PutEvent(n)
    <2>1. /\ Len(Append(events, e)) = Len(events) + 1
          /\ Append(events, e)[i] = events[i]
      BY AppendProperties
    <2> QED BY <1>1, <2>1
  <1>3. /\ Len(Tail(events)) = Len(events) - 1
        /\ \A j \in 1..Len(Tail(events)) : Tail(events)[j] = events[j + 1]
    BY <1>1, HeadTailProperties
  <1>4. i = 1 => Head(events) = PutEvent(n) BY <1>1
  <1>5. ASSUME i # 1
        PROVE  \E j \in 1..Len(Tail(events)) : Tail(events)[j] = PutEvent(n)
    <2>1. i \in Int /\ (i - 1) + 1 = i /\ i - 1 \in 1..(Len(events) - 1)
      BY <1>1, <1>5
    <2>2. i - 1 \in 1..Len(Tail(events)) BY <1>3, <2>1
    <2>3. Tail(events)[i - 1] = events[(i - 1) + 1] BY <1>3, <2>2
    <2>4. Tail(events)[i - 1] = PutEvent(n) BY <2>1, <2>3
    <2> QED BY <2>2, <2>4
  <1>6. Head(events) = PutEvent(n)
        \/ \E j \in 1..Len(Tail(events)) : Tail(events)[j] = PutEvent(n)
    BY <1>4, <1>5
  <1> QED BY <1>1, <1>2, <1>6

\* The event of a put is in the queue.
Queued(n) == \E i \in 1..Len(events) : events[i] = PutEvent(n)

\* Notifying loses no event, and has that of the put.
LEMMA Notified ==
  ASSUME events \in Seq(Events)
  PROVE  /\ \A n \in Nodes : NotifyDelete /\ Queued(n) => Queued(n)'
         /\ \A m, n \in Nodes : NotifyPut(m) /\ Queued(n) => Queued(n)'
         /\ \A m \in Nodes : NotifyPut(m) /\ watching => Queued(m)'
  <1>0. DeleteEvent \in Events /\ \A n \in Nodes : PutEvent(n) \in Events BY DEF Events
  <1>1. \A n \in Nodes, e \in Events :
            Queued(n) => \E j \in 1..Len(Append(events, e)) : Append(events, e)[j] = PutEvent(n)
    BY EventsKept DEF Queued
  <1>2. \A m \in Nodes : \E j \in 1..Len(Append(events, PutEvent(m))) :
                             Append(events, PutEvent(m))[j] = PutEvent(m)
    <2>1. ASSUME NEW m \in Nodes
          PROVE  \E j \in 1..Len(Append(events, PutEvent(m))) :
                     Append(events, PutEvent(m))[j] = PutEvent(m)
      <3>1. /\ Len(Append(events, PutEvent(m))) = Len(events) + 1
            /\ Append(events, PutEvent(m))[Len(events) + 1] = PutEvent(m)
        BY <1>0, AppendProperties
      <3>2. Len(events) \in Nat BY LenProperties
      <3> QED BY <3>1, <3>2
    <2> QED BY <2>1
  <1>3. \A n \in Nodes : NotifyDelete /\ Queued(n) => Queued(n)'
    BY <1>0, <1>1 DEF NotifyDelete, Queued
  <1>4. \A m, n \in Nodes : NotifyPut(m) /\ Queued(n) => Queued(n)'
    BY <1>0, <1>1 DEF NotifyPut, Queued
  <1>5. \A m \in Nodes : NotifyPut(m) /\ watching => Queued(m)'
    BY <1>2 DEF NotifyPut, Queued
  <1> QED BY <1>3, <1>4, <1>5

\* Where a node may be that the client was told of.
Kept(n) == \/ n \in todo \/ Queued(n)
           \/ \E a \in Adders : adding[a] = n
           \/ cached[n] > 0 \/ n \in undialled

\* A node that the client was told of moves on, and is never dropped.
LEMMA NoNodeDroppedNext == ASSUME IInv, [Next]_vars PROVE NoNodeDropped'
  <1>0. /\ TypeOK /\ TypeOK' /\ Adding /\ \A n \in told : Kept(n)
        /\ "fetch" \in Adders /\ "watch" \in Adders
    BY TypeNext DEF IInv, NoNodeDropped, Kept, Queued, Adders
  <1> USE <1>0
  <1>1. ASSUME \A n \in told' : Kept(n)' PROVE NoNodeDropped'
    BY <1>1 DEF NoNodeDropped, Kept, Queued
  <1>2. ASSUME UNCHANGED <<todo, events, adding, cached, told, undialled>>
        PROVE  NoNodeDropped'
    <2>1. \A n \in Nodes : Queued(n)' <=> Queued(n) BY <1>2 DEF Queued
    <2> QED BY <1>1, <1>2, <2>1 DEF Kept, TypeOK
  <1>3. ASSUME NEW l, Drop(l) PROVE NoNodeDropped'
    <2>1. \A n \in Nodes : Queued(n) => Queued(n)'
      <3>1. CASE NotifyDelete BY <3>1, Notified DEF TypeOK
      <3>2. CASE UNCHANGED events BY <3>2 DEF Queued
      <3> QED BY <1>3, <3>1, <3>2 DEF Drop
    <2>2. UNCHANGED <<todo, adding, cached, told, undialled>> BY <1>3 DEF Drop
    <2> QED BY <1>1, <2>1, <2>2 DEF Kept, TypeOK
  <1>4. ASSUME NEW n \in Nodes,
               \/ Start(n) \/ Crash(n) \/ UnRegister(n) \/ Grant(n) \/ KeepAlive(n)
               \/ KeepAliveFails(n) \/ ChannelCloses(n) \/ Exit(n)
        PROVE  NoNodeDropped'
    BY <1>2, <1>4 DEF Start, Crash, UnRegister, Grant, KeepAlive, KeepAliveFails,
                      ChannelCloses, Exit, subVars
  <1>5. ASSUME NEW n \in Nodes, Put(n) PROVE NoNodeDropped'
    <2>1. NotifyPut(n) /\ UNCHANGED <<todo, watching, adding, cached, undialled>>
      BY <1>5 DEF Put
    <2>2. \A m \in Nodes : Queued(m) => Queued(m)' BY <2>1, Notified DEF TypeOK
    <2>3. \A m \in told' : m \in told \/ (m = n /\ watching)
      BY <2>1 DEF NotifyPut
    <2>4. watching => Queued(n)' BY <2>1, Notified DEF TypeOK
    <2> QED BY <1>1, <2>1, <2>2, <2>3, <2>4 DEF Kept, TypeOK
  <1>6. ASSUME NEW n \in Nodes, Revoke(n) PROVE NoNodeDropped'
    BY <1>2, <1>3, <1>6 DEF Revoke, subVars
  <1>7. ASSUME NEW l \in Leases, LeaseExpires(l) PROVE NoNodeDropped'
    BY <1>3, <1>7 DEF LeaseExpires
  <1>8. CASE Get BY <1>1, <1>8 DEF Get, Kept
  <1>9. CASE GetFails \/ WatchNodes BY <1>2, <1>9 DEF GetFails, WatchNodes
  <1>10. CASE FetchNode
    <2>1. PICK n \in todo : AddNode("fetch", n) /\ todo' = todo \ {n}
      BY <1>10 DEF FetchNode
    <2>2. /\ adding["fetch"] = NoNode
          /\ UNCHANGED <<events, cached, told, undialled>>
      BY <1>10 DEF FetchNode
    <2>3. \A m \in Nodes : Queued(m) => Queued(m)' BY <2>2 DEF Queued
    <2>4. n \in Nodes BY <2>1 DEF TypeOK
    <2>5. Kept(n)'
      BY <2>1, <2>2, <2>4 DEF AddNode, Kept, TypeOK
    <2>6. ASSUME NEW m \in Nodes, NEW a \in Adders, adding[a] = m
          PROVE  adding'[a] = m
      BY <2>1, <2>2, <2>6, DiscoveryAssumption DEF AddNode, TypeOK
    <2>7. ASSUME NEW m \in Nodes, m # n, Kept(m) PROVE Kept(m)'
      BY <2>1, <2>2, <2>3, <2>6, <2>7 DEF Kept
    <2> QED BY <1>1, <2>2, <2>5, <2>7 DEF TypeOK
  <1>11. ASSUME NEW a \in Adders, Dial(a) PROVE NoNodeDropped'
    <2>0. PICK n \in Nodes : n = adding[a] BY <1>11 DEF Dial, TypeOK
    <2>1. /\ adding' = [adding EXCEPT ![a] = NoNode]
          /\ UNCHANGED <<todo, events, told>>
      BY <1>11 DEF Dial
    <2>2. Kept(n)'
      <3>1. CASE cached' = [cached EXCEPT ![n] = @ + 1]
        BY <2>1, <3>1 DEF Kept, TypeOK
      <3>2. CASE undialled' = undialled \cup {n} BY <2>1, <3>2 DEF Kept
      <3> QED BY <1>11, <2>0, <3>1, <3>2 DEF Dial
    <2>3. ASSUME NEW m \in Nodes, m # n, Kept(m) PROVE Kept(m)'
      <3>1. Queued(m) => Queued(m)' BY <2>1 DEF Queued
      <3>2. \A b \in Adders : adding[b] = m => adding'[b] = m
        BY <2>0, <2>1, <2>3 DEF TypeOK
      <3>3. cached'[m] = cached[m] BY <1>11, <2>0, <2>3 DEF Dial, TypeOK
      <3>4. m \in undialled => m \in undialled' BY <1>11 DEF Dial
      <3> QED BY <2>1, <2>3, <3>1, <3>2, <3>3, <3>4 DEF Kept
    <2>4. ASSUME NEW m \in told' PROVE Kept(m)'
      <3>1. m \in told /\ m \in Nodes /\ Kept(m) BY <2>1 DEF TypeOK
      <3>2. CASE m = n BY <2>2, <3>2
      <3>3. CASE m # n BY <2>3, <3>1, <3>3
      <3> QED BY <3>2, <3>3
    <2> QED BY <1>1, <2>4
  <1>12. CASE HandlePut \/ HandleDelete
    <2>1. /\ events # <<>> /\ adding["watch"] = NoNode /\ events' = Tail(events)
          /\ UNCHANGED <<todo, cached, told, undialled>>
      BY <1>12 DEF HandlePut, HandleDelete
    <2>2. \A m \in Nodes : Queued(m) => Head(events) = PutEvent(m) \/ Queued(m)'
      BY <2>1, EventsKept DEF Queued, TypeOK
    <2>3. ASSUME NEW m \in Nodes, NEW a \in Adders, adding[a] = m
          PROVE  adding'[a] = m
      BY <1>12, <2>1, <2>3, DiscoveryAssumption
         DEF HandlePut, HandleDelete, AddNode, TypeOK
    <2>4. ASSUME NEW m \in Nodes, Head(events) = PutEvent(m) PROVE Kept(m)'
      <3>1. HandlePut BY <1>12, <2>4 DEF HandleDelete, PutEvent
      <3>2. Head(events).value = m BY <2>4 DEF PutEvent
      <3> QED BY <2>1, <3>1, <3>2 DEF HandlePut, AddNode, Kept, TypeOK
    <2>5. ASSUME NEW m \in Nodes, Kept(m) PROVE Kept(m)'
      BY <2>1, <2>2, <2>3, <2>4, <2>5 DEF Kept
    <2> QED BY <1>1, <2>1, <2>5 DEF TypeOK
  <1>13. CASE UNCHANGED vars BY <1>2, <1>13 DEF vars, subVars
  <1> QED BY <1>4, <1>5, <1>6, <1>7, <1>8, <1>9, <1>10, <1>11, <1>12, <1>13
          DEF Next, Register, FetchAllNodesInfo, WatchLoop

-----------------------------------------------------------------------------
\* The strengthening holds in every state: whatever the order in which
\* servers, leases and the two goroutines of the client move.
THEOREM Invariance == Spec => []IInv
  <1>1. Init => IInv BY InitInv
  <1>2. IInv /\ [Next]_vars => IInv'
    BY TypeNext, AddersNext, LeasesNext, NoNodeDroppedNext DEF IInv
  <1> QED BY <1>1, <1>2, PTL DEF Spec

\* A node has at most one RPCClient: no two goroutines are ever between the
\* two critical sections of addNodeFunc, so that its check is not stale.
THEOREM OneClientPerNode == Spec => []CachedOnce
  <1>1. IInv => CachedOnce BY DEF IInv
  <1> QED BY <1>1, Invariance, PTL

\* The lease that Register revokes is that of its key, after any number of
\* lost leases and restarts.
THEOREM RevokesOwnLease == Spec => []OwnLease
  <1>1. IInv => OwnLease BY DEF IInv
  <1> QED BY <1>1, Invariance, PTL

\* No node of the Get response or of an event is dropped.
THEOREM EveryNodeKept == Spec => []NoNodeDropped
  <1>1. IInv => NoNodeDropped BY DEF IInv
  <1> QED BY <1>1, Invariance, PTL
=============================================================================
