---------------------------- MODULE WsHubProofs ----------------------------
(***************************************************************************)
(* Theorems about WsHub.tla, for any users, platforms, shards, connections *)
(* and deliveries and any number of worker threads.                        *)
(***************************************************************************)
EXTENDS WsHub, TLAPS

USE DEF hub, sends

LEMMA InitType == Init => TypeOK
  <1> SUFFICES ASSUME Init PROVE TypeOK
    OBVIOUS
  <1>1. stalls \in 0 .. MaxStalls
    BY StallsAssumption DEF Init
  <1> QED BY <1>1 DEF Init, TypeOK, ConnState

LEMMA ClientsAreConns ==
    ASSUME TypeOK, NEW u \in Users PROVE Clients(u) \subseteq Conns
  BY DEF TypeOK, Clients

LEMMA TypeStep == TypeOK /\ [Next]_vars => TypeOK'
  <1> SUFFICES ASSUME TypeOK, [Next]_vars PROVE TypeOK'
    OBVIOUS
  <1> USE DEF TypeOK, ConnState
  <1>1. ASSUME NEW c \in Conns, Peer(c) PROVE TypeOK'
    <2>1. CASE Upgrade(c)
      BY <2>1 DEF Upgrade
    <2>2. CASE Stall(c)
      <3>1. stalls' \in 0 .. MaxStalls
        BY <2>2, StallsAssumption DEF Stall
      <3> QED BY <2>2, <3>1 DEF Stall
    <2>3. CASE Unstall(c)
      BY <2>3 DEF Unstall
    <2>4. CASE Leave(c)
      BY <2>4 DEF Leave
    <2> QED BY <1>1, <2>1, <2>2, <2>3, <2>4 DEF Peer
  <1>2. ASSUME NEW c \in Conns, Connection(c) PROVE TypeOK'
    <2>1. key[c].user \in Users /\ key[c].platform \in Platforms
      BY DEF Key
    <2>2. CASE Register(c)
      BY <2>1, <2>2 DEF Register
    <2>3. CASE Unregister(c)
      BY <2>1, <2>3 DEF Unregister
    <2>4. CASE BlockOnRegister(c) \/ TaskEnds(c) \/ BlockOnUnregister(c)
      BY <2>4 DEF BlockOnRegister, TaskEnds, BlockOnUnregister
    <2> QED BY <1>2, <2>2, <2>3, <2>4 DEF Connection
  <1>3. ASSUME NEW d \in Deliveries, Delivery(d) PROVE TypeOK'
    <2>1. CASE StartDelivery(d)
      BY <2>1, ClientsAreConns DEF StartDelivery
    <2>2. CASE EndDelivery(d)
      BY <2>2 DEF EndDelivery
    <2>3. ASSUME NEW c \in Conns, SendText(d, c) PROVE TypeOK'
      BY <2>3 DEF SendText
    <2> QED BY <1>3, <2>1, <2>2, <2>3 DEF Delivery
  <1>4. CASE UNCHANGED vars
    BY <1>4 DEF vars
  <1> QED BY <1>1, <1>2, <1>3, <1>4 DEF Next

\* No client of a connection that is over stays in the hub: unregister empties
\* the one place its connection can be stored at (ws/src/manager.rs:94-102).
LEMMA NoDeadClientStep == TypeOK /\ NoDeadClient /\ [Next]_vars => NoDeadClient'
  <1> SUFFICES ASSUME TypeOK, NoDeadClient, [Next]_vars PROVE NoDeadClient'
    OBVIOUS
  <1> USE DEF NoDeadClient
  <1>1. ASSUME UNCHANGED <<hub, conn, key>> PROVE NoDeadClient'
    BY <1>1
  <1>2. ASSUME NEW c \in Conns, Peer(c) PROVE NoDeadClient'
    <2>1. CASE Upgrade(c)
      <3>1. \A u \in Users, p \in Platforms : slot[u][p] # c
        <4>1. conn[c] = "new" /\ c # None
          BY <2>1, NoneAssumption DEF Upgrade
        <4>2. ASSUME NEW u \in Users, NEW p \in Platforms, slot[u][p] = c
              PROVE  conn[c] \in {"running", "ending", "unregblocked"}
          BY <4>1, <4>2
        <4> QED BY <4>1, <4>2
      <3> QED BY <2>1, <3>1 DEF Upgrade, TypeOK
    <2>2. CASE Stall(c) \/ Unstall(c) \/ Leave(c)
      BY <1>1, <2>2 DEF Stall, Unstall, Leave
    <2> QED BY <1>2, <2>1, <2>2 DEF Peer
  <1>3. ASSUME NEW c \in Conns, Connection(c) PROVE NoDeadClient'
    <2>1. key[c].user \in Users /\ key[c].platform \in Platforms
          /\ key[c] = [user |-> key[c].user, platform |-> key[c].platform]
      BY DEF TypeOK, Key
    <2>2. CASE Register(c)
      <3>1. /\ slot' = [slot EXCEPT ![key[c].user][key[c].platform] = c]
            /\ entry' = entry \cup {key[c].user} /\ key' = key
            /\ conn' = [conn EXCEPT ![c] = "running"]
        BY <2>2 DEF Register
      <3>2. ASSUME NEW u \in Users, NEW p \in Platforms
            PROVE  slot'[u][p] = IF u = key[c].user /\ p = key[c].platform
                                   THEN c ELSE slot[u][p]
        BY <2>1, <3>1 DEF TypeOK
      <3> QED BY <2>1, <3>1, <3>2 DEF TypeOK
    <2>3. CASE Unregister(c)
      <3>1. /\ entry' = entry /\ key' = key
            /\ conn' = [conn EXCEPT ![c] = "gone"]
            /\ slot' = IF key[c].user \in entry
                         THEN [slot EXCEPT ![key[c].user][key[c].platform] = None]
                         ELSE slot
        BY <2>3 DEF Unregister
      <3>2. ASSUME NEW u \in Users, NEW p \in Platforms
            PROVE  slot'[u][p] = slot[u][p] \/ slot'[u][p] = None
        BY <2>1, <3>1 DEF TypeOK
      <3>3. ASSUME NEW u \in Users, NEW p \in Platforms, slot'[u][p] # None
            PROVE  slot'[u][p] # c
        <4>1. CASE key[c] = [user |-> u, platform |-> p]
          <5>1. key[c].user = u /\ key[c].platform = p
            BY <4>1
          <5>2. u \notin entry => slot[u][p] = None
            OBVIOUS
          <5> QED BY <2>1, <3>1, <3>3, <5>1, <5>2 DEF TypeOK
        <4>2. CASE key[c] # [user |-> u, platform |-> p]
          BY <3>2, <3>3, <4>2
        <4> QED BY <4>1, <4>2
      <3> QED BY <3>1, <3>2, <3>3 DEF TypeOK
    <2>4. CASE BlockOnRegister(c)
      <3>1. \A u \in Users, p \in Platforms : slot[u][p] # c
        <4>1. conn[c] = "upgraded" /\ c # None
          BY <2>4, NoneAssumption DEF BlockOnRegister
        <4>2. ASSUME NEW u \in Users, NEW p \in Platforms, slot[u][p] = c
              PROVE  conn[c] \in {"running", "ending", "unregblocked"}
          BY <4>1, <4>2
        <4> QED BY <4>1, <4>2
      <3> QED BY <2>4, <3>1 DEF BlockOnRegister, TypeOK
    <2>5. CASE TaskEnds(c) \/ BlockOnUnregister(c)
      BY <2>5 DEF TaskEnds, BlockOnUnregister, TypeOK
    <2> QED BY <1>3, <2>2, <2>3, <2>4, <2>5 DEF Connection
  <1>4. ASSUME NEW d \in Deliveries, Delivery(d) PROVE NoDeadClient'
    BY <1>1, <1>4 DEF Delivery, StartDelivery, EndDelivery, SendText
  <1>5. CASE UNCHANGED vars
    BY <1>1, <1>5 DEF vars
  <1> QED BY <1>2, <1>3, <1>4, <1>5 DEF Next

\* What a delivery has still to write to is in the hub: no write lock of its
\* shard is granted before it ends (ws/src/manager.rs:104-122).
LEMMA DeliversStep == TypeOK /\ DeliversToHub /\ [Next]_vars => DeliversToHub'
  <1> SUFFICES ASSUME TypeOK, DeliversToHub, [Next]_vars,
                      NEW d \in Deliveries, deliv'[d] = "send"
               PROVE  todo'[d] \subseteq Clients(target[d])' /\ target' = target
    BY DEF DeliversToHub
  <1> USE DEF DeliversToHub
  <1>0. target[d] \in Users
    BY DEF TypeOK
  <1>1. ASSUME UNCHANGED <<hub, deliv, target, todo>>
        PROVE  todo'[d] \subseteq Clients(target[d])' /\ target' = target
    BY <1>1 DEF Clients
  <1>2. ASSUME NEW c \in Conns, Peer(c) PROVE UNCHANGED <<hub, deliv, target, todo>>
    BY <1>2 DEF Peer, Upgrade, Stall, Unstall, Leave
  <1>3. ASSUME NEW c \in Conns, Register(c) \/ Unregister(c)
        PROVE  todo'[d] \subseteq Clients(target[d])' /\ target' = target
    <2>1. /\ UNCHANGED <<deliv, target, todo>> /\ WriteLockFree(key[c].user)
          /\ entry \subseteq entry'
          /\ \/ slot' = slot
             \/ slot' = [slot EXCEPT ![key[c].user][key[c].platform] = c]
             \/ slot' = [slot EXCEPT ![key[c].user][key[c].platform] = None]
      BY <1>3 DEF Register, Unregister
    <2>2. target[d] # key[c].user
      BY <2>1 DEF WriteLockFree
    <2>3. slot'[target[d]] = slot[target[d]]
      BY <1>0, <2>1, <2>2 DEF TypeOK
    <2> QED BY <2>1, <2>3 DEF Clients
  <1>4. ASSUME NEW c \in Conns,
               BlockOnRegister(c) \/ TaskEnds(c) \/ BlockOnUnregister(c)
        PROVE  UNCHANGED <<hub, deliv, target, todo>>
    BY <1>4 DEF BlockOnRegister, TaskEnds, BlockOnUnregister
  <1>5. ASSUME NEW e \in Deliveries, Delivery(e)
        PROVE  todo'[d] \subseteq Clients(target[d])' /\ target' = target
    <2>0. entry' = entry /\ slot' = slot /\ target' = target
      BY <1>5 DEF Delivery, StartDelivery, EndDelivery, SendText
    <2>1. Clients(target[d])' = Clients(target[d]) /\ target' = target
      BY <2>0 DEF Clients
    <2>2. CASE e # d
      BY <1>5, <2>1, <2>2 DEF Delivery, StartDelivery, EndDelivery, SendText, TypeOK
    <2>3. CASE e = d
      BY <1>5, <2>1, <2>3 DEF Delivery, StartDelivery, EndDelivery, SendText, TypeOK
    <2> QED BY <2>1, <2>2, <2>3
  <1>6. CASE UNCHANGED vars
    BY <1>1, <1>6 DEF vars
  <1> QED BY <1>1, <1>2, <1>3, <1>4, <1>5, <1>6 DEF Next, Connection

\* A client loses its place to another one of its key, or to the unregister of
\* one: what the connections of other keys do leaves it where it is.
LEMMA OverlapStep ==
    TypeOK /\ OnlyOverlapLosesClient /\ [Next]_vars => OnlyOverlapLosesClient'
  <1> SUFFICES ASSUME TypeOK, OnlyOverlapLosesClient, [Next]_vars
               PROVE  OnlyOverlapLosesClient'
    OBVIOUS
  <1> USE DEF OnlyOverlapLosesClient, InHub
  <1>0. \A c \in Conns :
           /\ key[c].user \in Users /\ key[c].platform \in Platforms
           /\ key[c] = [user |-> key[c].user, platform |-> key[c].platform]
    BY DEF TypeOK, Key
  \* Steps that leave the hub alone, and of the connections those that run or are
  \* gone.
  <1>1. ASSUME UNCHANGED <<slot, latest, key>>,
               \A c \in Conns : /\ conn'[c] = "running" => conn[c] = "running"
                                /\ conn[c] = "gone" => conn'[c] = "gone"
        PROVE  OnlyOverlapLosesClient'
    BY <1>1
  <1>2. ASSUME NEW c \in Conns, Peer(c) PROVE OnlyOverlapLosesClient'
    BY <1>1, <1>2 DEF Peer, Upgrade, Stall, Unstall, Leave, TypeOK
  <1>3. ASSUME NEW c \in Conns, Register(c) PROVE OnlyOverlapLosesClient'
    <2>1. /\ slot' = [slot EXCEPT ![key[c].user][key[c].platform] = c]
          /\ latest' = [latest EXCEPT ![key[c].user][key[c].platform] = c]
          /\ conn' = [conn EXCEPT ![c] = "running"] /\ key' = key
          /\ conn[c] \in {"upgraded", "regblocked"}
      BY <1>3 DEF Register
    <2>2. /\ slot'[key[c].user][key[c].platform] = c
          /\ latest'[key[c].user][key[c].platform] = c
      BY <1>0, <2>1 DEF TypeOK
    <2>3. ASSUME NEW e \in Conns, key[e] # key[c]
          PROVE  /\ slot'[key[e].user][key[e].platform] = slot[key[e].user][key[e].platform]
                 /\ latest'[key[e].user][key[e].platform]
                       = latest[key[e].user][key[e].platform]
      <3>1. key[e].user # key[c].user \/ key[e].platform # key[c].platform
        BY <1>0, <2>3
      <3> QED BY <1>0, <2>1, <3>1 DEF TypeOK
    <2>4. \A d \in Conns : conn[d] = "gone" => conn'[d] = "gone"
      BY <2>1 DEF TypeOK
    <2>5. ASSUME NEW e \in Conns, conn'[e] = "running", ~ InHub(e)'
          PROVE  \/ latest'[key'[e].user][key'[e].platform] # e
                 \/ \E d \in Conns \ {e} : key'[d] = key'[e] /\ conn'[d] = "gone"
      <3>1. e # c
        BY <2>1, <2>2, <2>5
      <3>2. CASE key[e] = key[c]
        BY <2>1, <2>2, <3>1, <3>2
      <3>3. CASE key[e] # key[c]
        <4>1. conn[e] = "running" /\ ~ InHub(e)
          BY <2>1, <2>3, <2>5, <3>1, <3>3 DEF TypeOK
        <4> QED BY <2>1, <2>3, <2>4, <3>3, <4>1
      <3> QED BY <3>2, <3>3
    <2> QED BY <2>5
  <1>4. ASSUME NEW c \in Conns, Unregister(c) PROVE OnlyOverlapLosesClient'
    <2>1. /\ \/ slot' = slot
             \/ slot' = [slot EXCEPT ![key[c].user][key[c].platform] = None]
          /\ conn' = [conn EXCEPT ![c] = "gone"] /\ UNCHANGED <<key, latest>>
      BY <1>4 DEF Unregister
    <2>2. ASSUME NEW e \in Conns, key[e] # key[c]
          PROVE  slot'[key[e].user][key[e].platform] = slot[key[e].user][key[e].platform]
      <3>1. key[e].user # key[c].user \/ key[e].platform # key[c].platform
        BY <1>0, <2>2
      <3> QED BY <1>0, <2>1, <3>1 DEF TypeOK
    <2>3. conn'[c] = "gone" /\ \A d \in Conns : conn[d] = "gone" => conn'[d] = "gone"
      BY <2>1 DEF TypeOK
    <2>4. ASSUME NEW e \in Conns, conn'[e] = "running", ~ InHub(e)'
          PROVE  \/ latest'[key'[e].user][key'[e].platform] # e
                 \/ \E d \in Conns \ {e} : key'[d] = key'[e] /\ conn'[d] = "gone"
      <3>1. e # c /\ conn[e] = "running"
        BY <2>1, <2>3, <2>4 DEF TypeOK
      <3>2. CASE key[e] = key[c]
        BY <2>1, <2>3, <3>1, <3>2
      <3>3. CASE key[e] # key[c]
        BY <2>1, <2>2, <2>3, <2>4, <3>1, <3>3
      <3> QED BY <3>2, <3>3
    <2> QED BY <2>4
  <1>5. ASSUME NEW c \in Conns,
               BlockOnRegister(c) \/ TaskEnds(c) \/ BlockOnUnregister(c)
        PROVE  OnlyOverlapLosesClient'
    BY <1>1, <1>5 DEF BlockOnRegister, TaskEnds, BlockOnUnregister, TypeOK
  <1>6. ASSUME NEW d \in Deliveries, Delivery(d) PROVE OnlyOverlapLosesClient'
    BY <1>1, <1>6 DEF Delivery, StartDelivery, EndDelivery, SendText
  <1>7. CASE UNCHANGED vars
    BY <1>1, <1>7 DEF vars
  <1> QED BY <1>2, <1>3, <1>4, <1>5, <1>6, <1>7 DEF Next, Connection

\* The variables keep their types, in particular the hub stores connections and
\* deliveries write to connections.
THEOREM TypeCorrect == Spec => []TypeOK
  BY InitType, TypeStep, PTL DEF Spec

\* The hub holds no client of a connection that is over, whatever connections of
\* one user and platform overlap (ws/src/ws_server.rs:171-177).
THEOREM HubHoldsNoDeadClient == Spec => []NoDeadClient
  <1>1. Init => NoDeadClient
    BY DEF Init, NoDeadClient
  <1> QED BY <1>1, TypeCorrect, NoDeadClientStep, PTL DEF Spec

\* A delivery writes only to clients that are in the hub while it writes.
THEOREM DeliveriesUseTheHub ==
    Spec => []DeliversToHub
  <1>1. Init => DeliversToHub
    BY DEF Init, DeliversToHub
  <1> QED BY <1>1, TypeCorrect, DeliversStep, PTL DEF Spec

\* A connection that runs is missing from the hub only after another one of the
\* same user and platform was registered later, or was unregistered: the hub
\* loses no client otherwise (ws/src/manager.rs:94-102).
THEOREM ClientsAreLostToOverlapOnly == Spec => []OnlyOverlapLosesClient
  <1>1. Init => OnlyOverlapLosesClient
    BY DEF Init, OnlyOverlapLosesClient
  <1> QED BY <1>1, TypeCorrect, OverlapStep, PTL DEF Spec
=============================================================================
