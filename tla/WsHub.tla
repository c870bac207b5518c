------------------------------- MODULE WsHub -------------------------------
(***************************************************************************)
(* The hub of a ws instance: the map from users and platforms to clients   *)
(* (ws/src/manager.rs), the life of a websocket connection                 *)
(* (ws/src/ws_server.rs, websocket) and the delivery of messages to the    *)
(* clients of a user (send_single_msg).                                    *)
(*                                                                         *)
(* Two things make it hard.  Connections of one user and platform overlap, *)
(* since a dead connection is noticed only when a ping or a read fails.    *)
(* And the hub is a DashMap: a delivery keeps the read guard of its        *)
(* shard while it awaits the sockets, and a register or unregister in that *)
(* shard blocks not its task but the worker thread it runs on.             *)
(***************************************************************************)
EXTENDS Naturals, FiniteSets

CONSTANTS
    Users, Platforms,   \* keys of the hub
    Shards,             \* shards of the outer DashMap
    ShardOf,            \* the shard a user hashes to
    Conns,              \* websocket connections
    Deliveries,         \* calls of send_single_msg
    Workers,            \* worker threads of the tokio runtime
    None,               \* no client
    MaxStalls           \* bound: peers that stop reading for a while

ASSUME WorkersAssumption == Workers \in Nat \ {0}
ASSUME ShardAssumption == ShardOf \in [Users -> Shards]
ASSUME NoneAssumption == None \notin Conns
ASSUME StallsAssumption == MaxStalls \in Nat

VARIABLES
    entry,    \* the users that have an entry in the hub
    slot,     \* slot[u][p]: the client stored for u and p, or None
    conn,     \* where the task of each connection is
    key,      \* the user and platform of each connection
    link,     \* the peer's end: "up", "slow" (does not read) or "down"
    deliv,    \* where each delivery is: "new", "send" or "done"
    target,   \* the user it is for
    todo,     \* the clients it has not written to yet
    latest,   \* history: the connection registered last for u and p
    stalls    \* how much of MaxStalls is used

hub   == <<entry, slot>>
sends == <<deliv, target, todo>>
vars  == <<hub, conn, key, link, sends, latest, stalls>>

Key == [user: Users, platform: Platforms]

ConnState == {"new", "upgraded", "regblocked", "running", "ending",
              "unregblocked", "gone"}

\* Threads that wait for a shard's write lock can run nothing else.
Blocked == {c \in Conns : conn[c] \in {"regblocked", "unregblocked"}}
Free    == Cardinality(Blocked) < Workers

\* A delivery under way holds the read guard of its user's shard.
WriteLockFree(u) ==
    \A d \in Deliveries : deliv[d] = "send" => ShardOf[target[d]] # ShardOf[u]

\* Mutant of Clients: one for every platform, stored or not.
ClientsAll(u) == IF u \in entry THEN {slot[u][p] : p \in Platforms} ELSE {}

\* The clients the iteration over a user's entry meets.
Clients(u) == IF u \in entry THEN {slot[u][p] : p \in Platforms} \ {None} ELSE {}

Init ==
    /\ entry = {} /\ slot = [u \in Users |-> [p \in Platforms |-> None]]
    /\ conn = [c \in Conns |-> "new"]
    /\ key \in [Conns -> Key]
    /\ link = [c \in Conns |-> "up"]
    /\ deliv = [d \in Deliveries |-> "new"]
    /\ target \in [Deliveries -> Users]
    /\ todo = [d \in Deliveries |-> {}]
    /\ latest = [u \in Users |-> [p \in Platforms |-> None]]
    /\ stalls = 0
-----------------------------------------------------------------------------
(* The peer                                                                *)

\* The client opens a websocket, which is upgraded.
Upgrade(c) ==
    /\ conn[c] = "new"
    /\ conn' = [conn EXCEPT ![c] = "upgraded"]
    /\ UNCHANGED <<hub, key, link, sends, latest, stalls>>

\* The peer stops reading: a write to it waits.
Stall(c) ==
    /\ conn[c] # "new" /\ link[c] = "up" /\ stalls < MaxStalls
    /\ link' = [link EXCEPT ![c] = "slow"]
    /\ stalls' = stalls + 1
    /\ UNCHANGED <<hub, conn, key, sends, latest>>

\* A stalled peer reads again, or its connection breaks.
Unstall(c) ==
    /\ link[c] = "slow"
    /\ \E l \in {"up", "down"} : link' = [link EXCEPT ![c] = l]
    /\ UNCHANGED <<hub, conn, key, sends, latest, stalls>>

\* The peer closes, or the network loses it.
Leave(c) ==
    /\ conn[c] # "new" /\ link[c] # "down"
    /\ link' = [link EXCEPT ![c] = "down"]
    /\ UNCHANGED <<hub, conn, key, sends, latest, stalls>>
-----------------------------------------------------------------------------
(* The task of a connection                                                *)

\* hub.register meets a read guard: the thread waits.
BlockOnRegister(c) ==
    /\ conn[c] = "upgraded" /\ Free /\ ~ WriteLockFree(key[c].user)
    /\ conn' = [conn EXCEPT ![c] = "regblocked"]
    /\ UNCHANGED <<hub, key, link, sends, latest, stalls>>

\* Mutant of Register: the user's entry is made anew (insert, not entry).
RegisterAnew(c) ==
    LET k == key[c]
    IN  /\ (conn[c] = "upgraded" /\ Free) \/ conn[c] = "regblocked"
        /\ WriteLockFree(k.user)
        /\ entry' = entry \cup {k.user}
        /\ slot' = [slot EXCEPT ![k.user] =
                      [p \in Platforms |-> IF p = k.platform THEN c ELSE None]]
        /\ latest' = [latest EXCEPT ![k.user][k.platform] = c]
        /\ conn' = [conn EXCEPT ![c] = "running"]
        /\ UNCHANGED <<key, link, sends, stalls>>

\* hub.register: the client replaces the one of the same user and platform,
\* and the two tasks of the connection are spawned.
Register(c) ==
    LET k == key[c]
    IN  /\ (conn[c] = "upgraded" /\ Free) \/ conn[c] = "regblocked"
        /\ WriteLockFree(k.user)
        /\ entry' = entry \cup {k.user}
        /\ slot' = [slot EXCEPT ![k.user][k.platform] = c]
        /\ latest' = [latest EXCEPT ![k.user][k.platform] = c]
        /\ conn' = [conn EXCEPT ![c] = "running"]
        /\ UNCHANGED <<key, link, sends, stalls>>

\* Mutant of TaskEnds: only a failed read leads to unregister.
TaskEndsSilently(c) ==
    /\ conn[c] = "running" /\ link[c] = "down" /\ Free
    /\ \E s \in {"ending", "gone"} : conn' = [conn EXCEPT ![c] = s]
    /\ UNCHANGED <<hub, key, link, sends, latest, stalls>>

\* ping_task fails to write or rec_task to read: select! aborts the other.
TaskEnds(c) ==
    /\ conn[c] = "running" /\ link[c] = "down" /\ Free
    /\ conn' = [conn EXCEPT ![c] = "ending"]
    /\ UNCHANGED <<hub, key, link, sends, latest, stalls>>

BlockOnUnregister(c) ==
    /\ conn[c] = "ending" /\ Free /\ ~ WriteLockFree(key[c].user)
    /\ conn' = [conn EXCEPT ![c] = "unregblocked"]
    /\ UNCHANGED <<hub, key, link, sends, latest, stalls>>

\* Mutant of Unregister: does not wait for the guard of a delivery.
UnregisterUnlocked(c) ==
    LET k == key[c]
    IN  /\ conn[c] = "ending" /\ Free
        /\ slot' = [slot EXCEPT ![k.user][k.platform] = None]
        /\ conn' = [conn EXCEPT ![c] = "gone"]
        /\ UNCHANGED <<entry, key, link, sends, latest, stalls>>

\* Mutant of Unregister: gives up when the shard is locked (try_get_mut).
UnregisterTry(c) ==
    LET k == key[c]
    IN  /\ conn[c] = "ending" /\ Free
        /\ slot' = IF WriteLockFree(k.user)
                     THEN [slot EXCEPT ![k.user][k.platform] = None] ELSE slot
        /\ conn' = [conn EXCEPT ![c] = "gone"]
        /\ UNCHANGED <<entry, key, link, sends, latest, stalls>>

\* hub.unregister removes the client of this user and platform, whosever
\* connection that is; the user's entry stays.
Unregister(c) ==
    LET k == key[c]
    IN  /\ (conn[c] = "ending" /\ Free) \/ conn[c] = "unregblocked"
        /\ WriteLockFree(k.user)
        /\ slot' = IF k.user \in entry
                     THEN [slot EXCEPT ![k.user][k.platform] = None] ELSE slot
        /\ conn' = [conn EXCEPT ![c] = "gone"]
        /\ UNCHANGED <<entry, key, link, sends, latest, stalls>>
-----------------------------------------------------------------------------
(* send_single_msg                                                         *)


\* hub.get: the guard is taken if the user has an entry.
StartDelivery(d) ==
    /\ deliv[d] = "new" /\ Free
    /\ deliv' = [deliv EXCEPT ![d] = IF target[d] \in entry THEN "send" ELSE "done"]
    /\ todo' = [todo EXCEPT ![d] = Clients(target[d])]
    /\ UNCHANGED <<hub, conn, key, link, target, latest, stalls>>

\* Mutant of SendText: does not go on to the next client after an error.
SendTextStops(d, c) ==
    /\ deliv[d] = "send" /\ Free /\ c \in todo[d] /\ link[c] = "up"
    /\ todo' = [todo EXCEPT ![d] = @ \ {c}]
    /\ UNCHANGED <<hub, conn, key, link, deliv, target, latest, stalls>>

\* send_text ends for one client: the socket took the message or failed.
SendText(d, c) ==
    /\ deliv[d] = "send" /\ Free /\ c \in todo[d] /\ link[c] # "slow"
    /\ todo' = [todo EXCEPT ![d] = @ \ {c}]
    /\ UNCHANGED <<hub, conn, key, link, deliv, target, latest, stalls>>

\* Every client has been written to: the guard is released.
EndDelivery(d) ==
    /\ deliv[d] = "send" /\ Free /\ todo[d] = {}
    /\ deliv' = [deliv EXCEPT ![d] = "done"]
    /\ UNCHANGED <<hub, conn, key, link, target, todo, latest, stalls>>
-----------------------------------------------------------------------------
Peer(c) == Upgrade(c) \/ Stall(c) \/ Unstall(c) \/ Leave(c)

Connection(c) ==
    \/ BlockOnRegister(c) \/ Register(c) \/ TaskEnds(c)
    \/ BlockOnUnregister(c) \/ Unregister(c)

Delivery(d) ==
    StartDelivery(d) \/ EndDelivery(d) \/ \E c \in Conns : SendText(d, c)

Next ==
    \/ \E c \in Conns : Peer(c) \/ Connection(c)
    \/ \E d \in Deliveries : Delivery(d)

Spec == Init /\ [][Next]_vars

\* Tasks that can run do run, and a peer that stalled reads again or is given
\* up by the network.
Fairness ==
    /\ \A c \in Conns : WF_vars(Connection(c)) /\ WF_vars(Unstall(c))
    /\ \A d \in Deliveries : WF_vars(Delivery(d))

FairSpec == Spec /\ Fairness
-----------------------------------------------------------------------------
TypeOK ==
    /\ entry \subseteq Users
    /\ slot \in [Users -> [Platforms -> Conns \cup {None}]]
    /\ conn \in [Conns -> ConnState]
    /\ key \in [Conns -> Key]
    /\ link \in [Conns -> {"up", "slow", "down"}]
    /\ deliv \in [Deliveries -> {"new", "send", "done"}]
    /\ target \in [Deliveries -> Users]
    /\ todo \in [Deliveries -> SUBSET Conns]
    /\ latest \in [Users -> [Platforms -> Conns \cup {None}]]
    /\ stalls \in 0 .. MaxStalls

InHub(c) == slot[key[c].user][key[c].platform] = c

\* The hub holds no client of a connection that is over, and none under a key
\* other than its own: however connections of one user and platform overlap,
\* nothing is left behind (ws/src/ws_server.rs:171-177).
NoDeadClient ==
    \A u \in Users, p \in Platforms :
        LET c == slot[u][p]
        IN  c # None => /\ key[c] = [user |-> u, platform |-> p]
                        /\ conn[c] \in {"running", "ending", "unregblocked"}
                        /\ u \in entry

\* A delivery writes only to clients that are still in the hub, though it
\* awaits each socket in turn (ws/src/manager.rs:104-122, guard held).
DeliversToHub ==
    \A d \in Deliveries : deliv[d] = "send" => todo[d] \subseteq Clients(target[d])

\* The client of a connection that runs is missing from the hub for one of two
\* reasons only: a later connection of the same user and platform took its place,
\* or an earlier one was unregistered under their common key.  Connections under
\* other keys, and deliveries, never cost a client its place
\* (ws/src/manager.rs:94-102).
OnlyOverlapLosesClient ==
    \A c \in Conns : conn[c] = "running" /\ ~ InHub(c) =>
        \/ latest[key[c].user][key[c].platform] # c
        \/ \E d \in Conns \ {c} : key[d] = key[c] /\ conn[d] = "gone"

\* A connection whose peer is gone leaves the hub (ping_task, rec_task).
DeadPeerLeavesHub ==
    \A c \in Conns : link[c] = "down" /\ conn[c] # "upgraded" ~> ~ InHub(c)

\* A delivery that found the user ends.
DeliveryEnds ==
    \A d \in Deliveries : deliv[d] = "send" ~> deliv[d] = "done"
=============================================================================
