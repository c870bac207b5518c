------------------------------ MODULE EndToEnd ------------------------------
(***************************************************************************)
(* The way of a message from the topic to the sockets of its receiver: the *)
(* composition of the consumer group (Consumer), the pusher with its list  *)
(* of ws instances (Pusher) and the hubs of these instances (WsHub).       *)
(*                                                                         *)
(* The three meet in two calls.  The task to_pusher of the consumer waits  *)
(* for push_single_msg, and each task of push_single_msg waits for         *)
(* send_msg_to_user of a ws instance, which is a delivery of its hub.  An  *)
(* action of this module is a step of one of them, or of the two that meet *)
(* in a call.  What each module assumes of the calls it makes is here the  *)
(* work of the others.                                                     *)
(*                                                                         *)
(* The hubs are one WsHub whose users are pairs of a user and the instance *)
(* it is connected to, with a lock for each instance.                      *)
(***************************************************************************)
EXTENDS Naturals, Sequences, FiniteSets

CONSTANTS
    Users, Platforms, Instances, Conns, Consumers, None,
    ChanCap,        \* capacity of the pusher's channel of changes
    MaxLog,         \* bound: messages published
    MaxPushes,      \* bound: calls of push_single_msg
    MaxCrashes,     \* bound: crashes of consumer processes
    MaxRebalances,  \* bound: partition moved away from a live owner
    MaxFaults,      \* bound: failures, of each of consumer and pusher
    MaxRestarts,    \* bound: restarts of the pusher
    MaxStalls       \* bound: peers that stop reading for a while

ASSUME NoneAssumption == None \notin Consumers \cup Instances \cup Conns
ASSUME CapAssumption == ChanCap \in Nat \ {0}
ASSUME ConnsAssumption == IsFiniteSet(Conns)
ASSUME BoundsAssumption ==
    {MaxLog, MaxPushes, MaxCrashes, MaxRebalances, MaxFaults, MaxStalls} \subseteq Nat

VARIABLES
    log, committed, assigned, pc, pos, num, dbTask, pushTask, commits, seq,
    rows, pushed, given, errors, late, spent,                     \* Consumer
    inst, registry, services, found, worker, inserts, removes, chan, dial,
    list, push, cap, buf, task, must, gone, got, used,            \* Pusher
    entry, slot, conn, key, link, deliv, target, todo, latest, stalls, \* WsHub
    call,     \* the push each consumer process waits for, or 0
    msg,      \* the message of each push, with its number
    written,  \* history: the messages each connection was written
    present   \* history: the clients each push was to write to

Pushes  == 1 .. MaxPushes
Seats   == Users \X Instances   \* a user, and the instance of a connection

\* A push without instances fails without being a fault of its own.
C == INSTANCE Consumer WITH Receivers <- Users, MaxFaults <- MaxFaults + MaxPushes
P == INSTANCE Pusher WITH
        conn <- dial, spent <- used, MaxStarts <- Cardinality(Instances),
        MaxStops <- 0, MaxLeaves <- 0, MaxCrashes <- MaxRestarts
H == INSTANCE WsHub WITH
        Users <- Seats, Shards <- Instances,
        ShardOf <- [x \in Seats |-> x[2]],
        Deliveries <- Pushes \X Instances, Workers <- Cardinality(Conns) + 1

\* The abstract specification: topic, counters and numbers are the consumer's, a
\* connection is its user's, and its box is what was written to it.
S == INSTANCE Sockets WITH
        Receivers <- Users, failed <- C!failed,
        owner <- [c \in Conns |-> key[c].user[1]], box <- written

consumer == <<log, committed, assigned, pc, pos, num, dbTask, pushTask, commits,
              seq, rows, pushed, given, errors, late, spent>>
pusher   == <<inst, registry, services, found, worker, inserts, removes, chan,
              dial, list, push, cap, buf, task, must, gone, got, used>>
hubs     == <<entry, slot, conn, key, link, deliv, target, todo, latest, stalls>>
sockets  == <<written, present>>
vars == <<consumer, pusher, hubs, call, msg, sockets>>

NoMsg == C!Number(0, 0)

\* The user a push is for.
Receiver(p) == CHOOSE u \in Users : \A s \in Instances : target[<<p, s>>] = <<u, s>>

\* A call of the consumer may fail without a cause.
MayFail == spent.fault < MaxFaults

\* The push that the next call is.
NextPush == 1 + Cardinality({p \in Pushes : msg[p] # NoMsg})

\* A process waits for the answer.
Awaited(p) == \E c \in Consumers : call[c] = p

Init ==
    /\ C!Init /\ P!Init /\ H!Init
    /\ \E f \in [Pushes -> Users] :
          target = [d \in Pushes \X Instances |-> <<f[d[1]], d[2]>>]
    /\ call = [c \in Consumers |-> 0]
    /\ msg = [p \in Pushes |-> NoMsg]
    /\ written = [c \in Conns |-> <<>>]
    /\ present = [p \in Pushes |-> {}]
-----------------------------------------------------------------------------
(* Steps of one module                                                     *)

ConsumerOnly == UNCHANGED <<pusher, hubs, call, msg, sockets>>
PusherOnly   == UNCHANGED <<consumer, hubs, call, msg, sockets>>
HubOnly      == UNCHANGED <<consumer, pusher, call, msg, sockets>>

Publish(u)     == C!Publish(u) /\ ConsumerOnly
Assign(c)      == C!Assign(c) /\ ConsumerOnly
Recv(c)        == C!Recv(c) /\ ConsumerOnly
IncreaseSeq(c) == (C!IncreaseSeq(c) \/ (MayFail /\ C!IncreaseSeqErr(c))) /\ ConsumerOnly
SendToDb(c)    == (C!SendToDb(c) \/ (MayFail /\ C!SendToDbErr(c))) /\ ConsumerOnly
Commit(c)      == C!Commit(c) /\ ConsumerOnly
RestartConsumer(c) == C!Restart(c) /\ ConsumerOnly

Group(c) ==
    /\ C!Rebalance(c) \/ C!CommitLands(c) \/ (MayFail /\ C!CommitRefused(c))
    /\ ConsumerOnly

\* Late requests to Redis and db.
LateRequest(q) == q.call # "push" /\ C!Late(q) /\ ConsumerOnly

Cluster(s)    == (P!Register(s) \/ P!Serve(s)) /\ PusherOnly
Worker        == P!Worker /\ PusherOnly
ReceiverTask  == P!Receiver /\ PusherOnly
Visit(p, s)   == P!Visit(p, s) /\ PusherOnly
EndVisit(p)   == P!EndVisit(p) /\ PusherOnly
Report(p, s)  == P!Report(p, s) /\ PusherOnly
Collect(p)    == P!Collect(p) /\ PusherOnly
RestartPusher == P!Restart /\ PusherOnly

Peer(c)       == H!Peer(c) /\ HubOnly
Unstall(c)    == H!Unstall(c) /\ HubOnly
Connection(c) == H!Connection(c) /\ HubOnly
-----------------------------------------------------------------------------
(* push_single_msg, from the consumer to the pusher                        *)

\* The call gets to the pusher, which panics if its list is empty.
StartPush(c) ==
    LET p == NextPush
    IN  /\ pushTask[c] = "run" /\ call[c] = 0
        /\ p \in Pushes /\ Receiver(p) = log[pos[c]]
        /\ P!PushStart(p) \/ P!PushPanics(p)
        /\ call' = [call EXCEPT ![c] = p]
        /\ msg' = [msg EXCEPT ![p] = C!Number(pos[c], num[c])]
        /\ UNCHANGED <<consumer, hubs, sockets>>

\* The pusher answers the process that waits.
Answer(c) ==
    /\ call[c] # 0
    /\ P!Reply(call[c]) /\ C!SendToPusher(c)
    /\ call' = [call EXCEPT ![c] = 0]
    /\ UNCHANGED <<hubs, msg, sockets>>

\* Mutant of PushFails: the call is repeated after an error (a retry layer).
PushFailsRetries(c) ==
    /\ pushTask[c] = "run" /\ call[c] # 0
    /\ push[call[c]] \in {"panicked", "lost"} \/ MayFail
    /\ spent' = [spent EXCEPT !.fault = @ + 1]
    /\ call' = [call EXCEPT ![c] = 0]
    /\ UNCHANGED <<log, committed, assigned, pc, pos, num, dbTask, pushTask, commits,
                   seq, rows, pushed, given, errors, late, pusher, hubs, msg, sockets>>

\* The pusher panicked or is gone, or the connection to it broke.
PushFails(c) ==
    /\ pushTask[c] = "run"
    /\ \/ call[c] # 0 /\ push[call[c]] \in {"panicked", "lost"}
       \/ MayFail
    /\ C!SendToPusherErr(c)
    /\ call' = [call EXCEPT ![c] = 0]
    /\ UNCHANGED <<pusher, hubs, msg, sockets>>

CrashConsumer(c) ==
    /\ C!Crash(c)
    /\ call' = [call EXCEPT ![c] = 0]
    /\ UNCHANGED <<pusher, hubs, msg, sockets>>

\* A push whose caller is gone ends like any other one ...
AnswerNobody(p) ==
    LET q == C!Request("push", msg[p].off, msg[p].seq)
    IN  /\ ~ Awaited(p) /\ q \in late
        /\ P!Reply(p) /\ C!Late(q)
        /\ UNCHANGED <<hubs, call, msg, sockets>>

\* ... or is dropped where it waits; its tasks go on.
DropPush(p) ==
    /\ push[p] = "wait" /\ ~ Awaited(p)
    /\ push' = [push EXCEPT ![p] = "lost"]
    /\ UNCHANGED <<inst, registry, services, found, worker, inserts, removes, chan,
                   dial, list, cap, buf, task, must, gone, got, used,
                   consumer, hubs, call, msg, sockets>>
-----------------------------------------------------------------------------
(* send_msg_to_user, from the pusher to a ws instance                      *)

\* send_single_msg(&msg.receiver_id, &msg) begins.
StartDelivery(p, s) ==
    /\ task[p][s] = "run" /\ inst[s] = "serving"
    /\ H!StartDelivery(<<p, s>>)
    /\ present' = [present EXCEPT ![p] = @ \cup H!Clients(target[<<p, s>>])]
    /\ UNCHANGED <<consumer, pusher, call, msg, written>>

Write(p, s, c) ==
    /\ H!SendText(<<p, s>>, c)
    /\ written' = IF link[c] = "up" THEN [written EXCEPT ![c] = Append(@, msg[p])]
                                    ELSE written
    /\ UNCHANGED <<consumer, pusher, call, msg, present>>

EndDelivery(p, s) == H!EndDelivery(<<p, s>>) /\ HubOnly

\* Mutant of CallOk: the delivery is spawned, not awaited.
CallOkSpawned(p, s) ==
    /\ deliv[<<p, s>>] # "new"
    /\ P!CallOk(p, s)
    /\ PusherOnly

\* send_msg_to_user answers once the delivery is over.
CallOk(p, s) ==
    /\ deliv[<<p, s>>] = "done"
    /\ P!CallOk(p, s)
    /\ PusherOnly

\* The call fails before the instance gets it, or its answer is lost.
CallErr(p, s) ==
    /\ P!CallErr(p, s)
    /\ got' = IF deliv[<<p, s>>] = "new" THEN got ELSE got \cup {<<p, s>>}
    /\ PusherOnly

\* A delivery whose caller is gone is dropped at an await, and its guard with it.
DropDelivery(p, s) ==
    /\ deliv[<<p, s>>] = "send" /\ task[p][s] # "run"
    /\ deliv' = [deliv EXCEPT ![<<p, s>>] = "done"]
    /\ todo' = [todo EXCEPT ![<<p, s>>] = {}]
    /\ UNCHANGED <<entry, slot, conn, key, link, target, latest, stalls,
                   consumer, pusher, call, msg, sockets>>
-----------------------------------------------------------------------------
Consume(c) ==
    \/ Recv(c) \/ IncreaseSeq(c) \/ SendToDb(c) \/ Commit(c) \/ RestartConsumer(c)
    \/ Assign(c) \/ Group(c) \/ StartPush(c) \/ Answer(c) \/ PushFails(c)
    \/ CrashConsumer(c)

Push(p) ==
    \/ EndVisit(p) \/ Collect(p) \/ AnswerNobody(p) \/ DropPush(p)
    \/ \E s \in Instances :
          \/ Visit(p, s) \/ StartDelivery(p, s) \/ EndDelivery(p, s)
          \/ CallOk(p, s) \/ CallErr(p, s) \/ Report(p, s) \/ DropDelivery(p, s)
          \/ \E c \in Conns : Write(p, s, c)

Next ==
    \/ \E u \in Users : Publish(u)
    \/ \E c \in Consumers : Consume(c)
    \/ \E q \in late : LateRequest(q)
    \/ \E s \in Instances : Cluster(s)
    \/ Worker \/ ReceiverTask \/ RestartPusher
    \/ \E p \in Pushes : Push(p)
    \/ \E c \in Conns : Peer(c) \/ Connection(c)

Spec == Init /\ [][Next]_vars

\* The fairness of the three modules, a task of the code at a time, without what
\* Consumer assumes of the pusher and Pusher of the ws instances: that their
\* calls are answered.
Fairness ==
    /\ WF_vars(\E c \in Consumers : Assign(c))
    /\ \A c \in Consumers :
          /\ WF_vars(RestartConsumer(c) \/ Recv(c) \/ IncreaseSeq(c) \/ Commit(c))
          /\ WF_vars(SendToDb(c))
          /\ WF_vars(StartPush(c) \/ Answer(c) \/ PushFails(c))
    /\ \A p \in Pushes :
          /\ WF_vars((\E s \in Instances : Visit(p, s)) \/ EndVisit(p) \/ Collect(p))
          /\ \A s \in Instances :
                /\ WF_vars(StartDelivery(p, s) \/ CallOk(p, s) \/ Report(p, s))
                /\ WF_vars(EndDelivery(p, s) \/ \E c \in Conns : Write(p, s, c))
    /\ \A c \in Conns : WF_vars(Connection(c)) /\ WF_vars(Unstall(c))

FairSpec == Spec /\ Fairness
-----------------------------------------------------------------------------
TypeOK ==
    /\ C!TypeOK /\ P!TypeOK /\ H!TypeOK
    /\ call \in [Consumers -> 0 .. MaxPushes]
    /\ msg \in [Pushes -> [off: Nat, seq: Nat]]
    /\ written \in [Conns -> Seq([off: Nat, seq: Nat])]
    /\ present \in [Pushes -> SUBSET Conns]

\* Nothing has happened that sends a message twice or lets two pushes overlap:
\* no process crashed or lost the partition, the pusher did not restart and none
\* of its calls failed, and no process gave up a push that was under way.
Calm ==
    /\ spent.crash = 0 /\ spent.rebalance = 0 /\ used.crash = 0 /\ used.fault = 0
    /\ \A p \in Pushes :
          push[p] \notin {"new", "panicked"} => ~ C!Logged("push", msg[p].off)

\* A connection is written its messages in the order of their numbers, each
\* once, whichever instances are found meanwhile and whatever other calls of
\* the consumer fail: the process waits for the pusher, the pusher for all
\* instances, and each of them for its sockets (consumer/src/main.rs:143,
\* pusher/src/main.rs:130, ws/src/rpc.rs:89).
WrittenInOrder ==
    Calm => \A c \in Conns : \A i, j \in DOMAIN written[c] :
                i < j => written[c][i].seq < written[c][j].seq

\* The delivery path keeps the promise of Sockets.tla.
ImplementsSockets == S!SocketsSpec

\* No connection is written two messages, or one message twice, under one number,
\* whatever crashes, redeliveries, restarts and failing calls there are: the
\* number is drawn anew for every push, and a push writes to a client once.
NumbersDiffer == S!NumbersDiffer

\* o was answered by the pusher, and each client that it found in the hub of an
\* instance listed throughout was written it, if its peer is still there.
Written(o) ==
    \E p \in Pushes :
        /\ msg[p].off = o /\ push[p] = "replied"
        /\ \A c \in present[p] :
              key[c].user[2] \in must[p] \ gone[p] /\ link[c] = "up" =>
                  \E i \in DOMAIN written[c] : written[c][i] = msg[p]

\* The committed offset passes a message only when it was written to the clients
\* it found, or the consumer's log has an error about it
\* (consumer/src/main.rs:96).
CommittedIsWritten ==
    \A o \in 1 .. committed :
        C!Logged("incr", o) \/ C!Logged("push", o) \/ Written(o)

\* Every published message is dealt with in the end.  That the pusher answers,
\* which Consumer assumes, is here what pusher and hubs do: an offline receiver,
\* an empty list, a stalled or vanished peer hold the topic up for a while only.
EveryMessageSettled ==
    \A o \in 1 .. MaxLog : o \in DOMAIN log ~> (o \in DOMAIN log /\ C!Settled(o))
=============================================================================
