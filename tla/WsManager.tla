----------------------------- MODULE WsManager -----------------------------
(***************************************************************************)
(* The way of a message from its sender into the topic: the reading task   *)
(* of a websocket connection, or send_message, puts it into the manager's  *)
(* bounded queue (ws/src/ws_server.rs, rpc.rs); the manager takes one      *)
(* message at a time, calls the chat service, which appends it to the      *)
(* topic (chat/src/main.rs), and writes the result to the connections that *)
(* the sender then has (ws/src/manager.rs, run).                           *)
(*                                                                         *)
(* The connections, the hub and the delivery of the reply are those of     *)
(* WsHub, with one delivery for each message: its reply.                   *)
(***************************************************************************)
EXTENDS Naturals, Sequences, FiniteSets

CONSTANTS
    Users, Platforms, Shards, ShardOf, Conns, Workers, None, MaxStalls,
    Msgs,        \* messages; target[m] is send_id, the user m comes from
    Rpc,         \* where a message comes from that no connection sent
    QueueCap,    \* capacity of the manager's queue (1024 in the code)
    MaxFaults    \* bound: calls of chat, or of Kafka by chat, that fail

ASSUME HubAssumption ==
    /\ Workers \in Nat \ {0} /\ MaxStalls \in Nat
    /\ ShardOf \in [Users -> Shards] /\ None \notin Conns
ASSUME RpcAssumption == Rpc \notin Conns
ASSUME CapAssumption == QueueCap \in Nat \ {0}
ASSUME FaultsAssumption == MaxFaults \in Nat

VARIABLES
    entry, slot, conn, key, link, deliv, target, todo, latest, stalls, \* WsHub
    origin,   \* where each message comes from: a connection or Rpc
    held,     \* the messages that wait for room in the queue, by origin
    queue,    \* the manager's queue
    mgr,      \* the manager: "recv", "call" or "reply"
    cur,      \* the message it handles, or None
    reply,    \* what became of each message, as its reply says
    topic,    \* the messages in the topic
    late,     \* messages not acknowledged that may still get there
    faults,   \* how much of MaxFaults is used
    read,     \* history: the messages in the order they were received in
    got       \* history: the replies each connection was written

H == INSTANCE WsHub WITH Deliveries <- Msgs

hubVars == <<entry, slot, conn, key, link, deliv, target, todo, latest, stalls>>
senders == <<origin, held, read>>
manager == <<mgr, cur, reply>>
chat    == <<topic, late, faults>>
vars == <<hubVars, senders, queue, manager, chat, got>>

Origins == Conns \cup {Rpc}

\* "success" and "failure" are MsgRecResp messages, of which the second has the
\* content type Error; "echo" is the message itself, its content replaced by the
\* error of the call and its type left alone.
Replies == {"none", "success", "failure", "echo"}

Received(m) == \E i \in DOMAIN read : read[i] = m

Init ==
    /\ H!Init
    /\ origin \in [Msgs -> Origins]
    /\ \A m \in Msgs : origin[m] # Rpc => target[m] = key[origin[m]].user
    /\ held = [x \in Origins |-> {}]
    /\ queue = <<>> /\ mgr = "recv" /\ cur = None
    /\ reply = [m \in Msgs |-> "none"]
    /\ topic = <<>> /\ late = {} /\ faults = 0
    /\ read = <<>> /\ got = [c \in Conns |-> <<>>]
-----------------------------------------------------------------------------
(* Senders                                                                 *)

\* Mutant of Read: a task is spawned for each message's broadcast.
ReadSpawns(c, m) ==
    /\ conn[c] = "running" /\ H!Free
    /\ origin[m] = c /\ ~ Received(m)
    /\ read' = Append(read, m)
    /\ held' = [held EXCEPT ![c] = @ \cup {m}]
    /\ UNCHANGED <<hubVars, origin, queue, manager, chat, got>>

\* rec_task gets a text frame from the socket; it awaits broadcast before the
\* next one.
Read(c, m) ==
    /\ conn[c] = "running" /\ H!Free
    /\ origin[m] = c /\ ~ Received(m) /\ held[c] = {}
    /\ read' = Append(read, m)
    /\ held' = [held EXCEPT ![c] = {m}]
    /\ UNCHANGED <<hubVars, origin, queue, manager, chat, got>>

\* send_message is called: each call has a task of its own.
SendMessage(m) ==
    /\ H!Free
    /\ origin[m] = Rpc /\ ~ Received(m)
    /\ read' = Append(read, m)
    /\ held' = [held EXCEPT ![Rpc] = @ \cup {m}]
    /\ UNCHANGED <<hubVars, origin, queue, manager, chat, got>>

\* Mutant of Broadcast: an unbounded queue.
BroadcastUnbounded(x, m) ==
    /\ m \in held[x] /\ H!Free
    /\ queue' = Append(queue, m)
    /\ held' = [held EXCEPT ![x] = @ \ {m}]
    /\ UNCHANGED <<hubVars, origin, read, manager, chat, got>>

\* broadcast: tx.send gets a place in the queue.
Broadcast(x, m) ==
    /\ m \in held[x] /\ H!Free /\ Len(queue) < QueueCap
    /\ queue' = Append(queue, m)
    /\ held' = [held EXCEPT ![x] = @ \ {m}]
    /\ UNCHANGED <<hubVars, origin, read, manager, chat, got>>

\* rec_task is aborted since the pings of its connection fail: the message it
\* was about to queue is dropped.
Abort(c) ==
    /\ held[c] # {} /\ H!Free
    /\ conn[c] \in {"ending", "unregblocked", "gone"}
    /\ held' = [held EXCEPT ![c] = {}]
    /\ UNCHANGED <<hubVars, origin, read, queue, manager, chat, got>>
-----------------------------------------------------------------------------
(* run                                                                     *)

TakeHead ==
    /\ queue # <<>> /\ H!Free
    /\ cur' = Head(queue) /\ queue' = Tail(queue)
    /\ mgr' = "call"
    /\ UNCHANGED <<hubVars, senders, reply, chat, got>>

\* Mutant of Take: does not await send_single_msg (a task for each reply).
TakeEarly ==
    /\ mgr = "recv" \/ (mgr = "reply" /\ deliv[cur] # "new")
    /\ TakeHead

\* receiver.recv() yields the next message, after the reply to the one before.
Take ==
    /\ mgr = "recv" \/ (mgr = "reply" /\ deliv[cur] = "done")
    /\ TakeHead

\* chat's send_msg: Kafka has the record, and err is empty.
ChatOk ==
    /\ mgr = "call" /\ H!Free
    /\ topic' = Append(topic, cur)
    /\ reply' = [reply EXCEPT ![cur] = "success"]
    /\ mgr' = "reply"
    /\ UNCHANGED <<hubVars, senders, queue, cur, late, faults, got>>

\* Mutant of ChatErr: the call is repeated after an error.
ChatErrRetries ==
    /\ mgr = "call" /\ H!Free /\ faults < MaxFaults
    /\ faults' = faults + 1
    /\ late' = late \cup {cur}
    /\ UNCHANGED <<hubVars, senders, queue, manager, topic, got>>

\* Kafka does not acknowledge the record, so that chat returns its error, or
\* the call of chat itself fails.  Either way the message may get to the topic.
ChatErr ==
    /\ mgr = "call" /\ H!Free /\ faults < MaxFaults
    /\ faults' = faults + 1
    /\ late' = late \cup {cur}
    /\ \E r \in {"failure", "echo"} : reply' = [reply EXCEPT ![cur] = r]
    /\ mgr' = "reply"
    /\ UNCHANGED <<hubVars, senders, queue, cur, topic, got>>

\* The record of a failed call is stored after all.
Late(m) ==
    /\ m \in late
    /\ topic' = Append(topic, m) /\ late' = late \ {m}
    /\ UNCHANGED <<hubVars, senders, queue, manager, faults, got>>

\* Mutant of StartReply: waits for a sender that is not connected.
StartReplyOnline ==
    /\ mgr = "reply" /\ target[cur] \in entry /\ H!StartDelivery(cur)
    /\ UNCHANGED <<senders, queue, manager, chat, got>>

\* send_single_msg(&message.send_id, &message).
StartReply ==
    /\ mgr = "reply" /\ H!StartDelivery(cur)
    /\ UNCHANGED <<senders, queue, manager, chat, got>>

\* Mutant of Write: the first error ends the delivery.
WriteStops(m, c) ==
    /\ deliv[m] = "send" /\ H!Free /\ c \in todo[m] /\ link[c] # "slow"
    /\ todo' = [todo EXCEPT ![m] = IF link[c] = "up" THEN @ \ {c} ELSE {}]
    /\ got' = IF link[c] = "up" THEN [got EXCEPT ![c] = Append(@, m)] ELSE got
    /\ UNCHANGED <<entry, slot, conn, key, link, deliv, target, latest, stalls,
                   senders, queue, manager, chat>>

\* send_text writes to one client of the sender; an error is logged.
Write(m, c) ==
    /\ H!SendText(m, c)
    /\ got' = IF link[c] = "up" THEN [got EXCEPT ![c] = Append(@, m)] ELSE got
    /\ UNCHANGED <<senders, queue, manager, chat>>

EndReply(m) ==
    /\ H!EndDelivery(m)
    /\ UNCHANGED <<senders, queue, manager, chat, got>>
-----------------------------------------------------------------------------
\* The peers, and the connections' registers, pings and unregisters.
Outside == UNCHANGED <<senders, queue, manager, chat, got>>

Peer(c)       == H!Peer(c) /\ Outside
Unstall(c)    == H!Unstall(c) /\ Outside
Connection(c) == H!Connection(c) /\ Outside

Sender(m) ==
    \/ SendMessage(m)
    \/ \E c \in Conns : Read(c, m)
    \/ \E x \in Origins : Broadcast(x, m)

Chat == ChatOk \/ ChatErr

Reply(m) == EndReply(m) \/ \E c \in Conns : Write(m, c)

Next ==
    \/ \E c \in Conns : Peer(c) \/ Connection(c) \/ Abort(c)
    \/ \E m \in Msgs : Sender(m) \/ Late(m) \/ Reply(m)
    \/ Take \/ Chat \/ StartReply

Spec == Init /\ [][Next]_vars

\* As in WsHub: tasks that can run do run, stalled peers read again or are given
\* up.  And the call of chat ends.  Senders need not send.
Fairness ==
    /\ \A c \in Conns :
          /\ WF_vars(Connection(c))
          /\ WF_vars(Unstall(c))
          /\ WF_vars(Abort(c))
    /\ \A m \in Msgs :
          /\ WF_vars(\E x \in Origins : Broadcast(x, m))
          /\ WF_vars(Reply(m))
    /\ WF_vars(Take) /\ WF_vars(Chat) /\ WF_vars(StartReply)

FairSpec == Spec /\ Fairness
-----------------------------------------------------------------------------
TypeOK ==
    /\ H!TypeOK
    /\ origin \in [Msgs -> Origins]
    /\ held \in [Origins -> SUBSET Msgs]
    /\ queue \in Seq(Msgs) /\ Len(queue) <= QueueCap
    /\ mgr \in {"recv", "call", "reply"}
    /\ cur \in IF mgr = "recv" THEN {None} ELSE Msgs
    /\ reply \in [Msgs -> Replies]
    /\ topic \in Seq(Msgs) /\ late \subseteq Msgs
    /\ faults \in 0 .. MaxFaults
    /\ read \in Seq(Msgs)
    /\ got \in [Conns -> Seq(Msgs)]

\* m comes before n in the sequence s.
Before(m, n, s) == \E i, j \in DOMAIN s : i < j /\ s[i] = m /\ s[j] = n

\* m was received before n, over the same connection.
SentBefore(m, n) ==
    origin[m] = origin[n] /\ origin[m] \in Conns /\ Before(m, n, read)

\* A message whose sender is told of success is in the topic, and those of one
\* connection are there in the order they were sent in, although each of them
\* waits for the queue, the call and the reply (ws/src/manager.rs:58-92).
SuccessesAreLoggedInOrder ==
    /\ \A m \in Msgs : reply[m] = "success" => \E i \in DOMAIN topic : topic[i] = m
    /\ \A m, n \in Msgs :
          SentBefore(m, n) /\ reply[m] = "success" /\ reply[n] = "success"
              => Before(m, n, topic)

\* No message is in the topic twice, though the record of a call that failed may
\* be stored after all: the producer is idempotent, and neither chat nor the
\* manager repeats a call after an error (chat/src/main.rs:36, "make sure the
\* message is sent exactly once"; ws/src/manager.rs:64-88).
LoggedOnce == \A m \in Msgs : ~ Before(m, m, topic)

\* A connection is written the replies to its messages in the order in which it
\* sent them (ws/src/manager.rs:91, awaited).
RepliesInOrder ==
    \A c \in Conns, m, n \in Msgs : Before(m, n, got[c]) => ~ SentBefore(n, m)

\* When the reply to m is done, the connection that sent m was written it, if
\* it is still in the hub and its peer reads: other connections of the user that
\* fail or stall do not keep it away (ws/src/manager.rs:104-117).
LiveSenderIsAnswered ==
    \A m \in Msgs :
        LET c == origin[m]
        IN  (c \in Conns /\ deliv[m] = "done") =>
                (H!InHub(c) /\ link[c] = "up" => \E i \in DOMAIN got[c] : got[c][i] = m)

\* m went with the connection it came from, before it got into the queue.
Dropped(m) ==
    /\ origin[m] \in Conns /\ conn[origin[m]] = "gone"
    /\ m \notin held[origin[m]] /\ reply[m] = "none"
    /\ m # cur /\ \A i \in DOMAIN queue : queue[i] # m

\* A message that was received is handled to the end of its reply, or dropped
\* with its connection: neither the full queue nor a stalled peer nor an error
\* stops the manager for good.
ReceivedIsHandled ==
    \A m \in Msgs : Received(m) ~> deliv[m] = "done" \/ Dropped(m)
=============================================================================
