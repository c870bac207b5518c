--------------------------- MODULE EndToEndProofs ---------------------------
(***************************************************************************)
(* Theorems about EndToEnd.tla, for any users, instances, connections,     *)
(* consumer processes and bounds.  What they need of the three parts is    *)
(* taken from the theorems about each of them.                             *)
(***************************************************************************)
EXTENDS EndToEnd, SequenceTheorems, FiniteSetTheorems, TLAPS

CP == INSTANCE ConsumerProofs WITH
        Receivers <- Users, MaxFaults <- MaxFaults + MaxPushes
PP == INSTANCE PusherProofs WITH
        conn <- dial, spent <- used, MaxStarts <- Cardinality(Instances),
        MaxStops <- 0, MaxLeaves <- 0, MaxCrashes <- MaxRestarts
HP == INSTANCE WsHubProofs WITH
        Users <- Seats, Shards <- Instances,
        ShardOf <- [x \in Seats |-> x[2]],
        Deliveries <- Pushes \X Instances, Workers <- Cardinality(Conns) + 1

USE DEF consumer, pusher, hubs, sockets, ConsumerOnly, PusherOnly, HubOnly

-----------------------------------------------------------------------------
(* The consumer: every step of the composition is one of Consumer, or      *)
(* leaves it alone                                                         *)

LEMMA ConsumerStep == [Next]_vars => [C!Next]_(C!vars)
  <1> SUFFICES ASSUME [Next]_vars PROVE [C!Next]_(C!vars)
    OBVIOUS
  <1>1. ASSUME UNCHANGED consumer PROVE UNCHANGED C!vars
    BY <1>1 DEF C!vars, C!broker, C!process, C!stores, C!histories
  <1>2. ASSUME NEW u \in Users, Publish(u) PROVE C!Next
    BY <1>2 DEF Publish, C!Next
  <1>3. ASSUME NEW c \in Consumers, Consume(c) PROVE C!Next \/ UNCHANGED consumer
    <2>1. CASE Recv(c) \/ IncreaseSeq(c) \/ SendToDb(c) \/ Commit(c)
      <3>1. C!Handle(c)
        BY <2>1 DEF Recv, IncreaseSeq, SendToDb, Commit, C!Handle
      <3> QED BY <3>1 DEF C!Next
    <2>2. CASE Assign(c) \/ Group(c)
      <3>1. C!Group(c)
        BY <2>2 DEF Assign, Group, C!Group
      <3> QED BY <3>1 DEF C!Next
    <2>3. CASE RestartConsumer(c) \/ CrashConsumer(c)
      BY <2>3 DEF RestartConsumer, CrashConsumer, C!Next
    <2>4. CASE Answer(c) \/ PushFails(c)
      <3>1. C!Handle(c)
        BY <2>4 DEF Answer, PushFails, C!Handle
      <3> QED BY <3>1 DEF C!Next
    <2>5. CASE StartPush(c)
      BY <2>5 DEF StartPush
    <2> QED BY <1>3, <2>1, <2>2, <2>3, <2>4, <2>5 DEF Consume
  <1>4. ASSUME NEW q \in late, LateRequest(q) PROVE C!Next
    BY <1>4 DEF LateRequest, C!Next
  <1>5. ASSUME NEW s \in Instances, Cluster(s) PROVE UNCHANGED consumer
    BY <1>5 DEF Cluster
  <1>6. CASE Worker \/ ReceiverTask \/ RestartPusher
    BY <1>1, <1>6 DEF Worker, ReceiverTask, RestartPusher
  <1>7. ASSUME NEW p \in Pushes, Push(p) PROVE C!Next \/ UNCHANGED consumer
    <2>1. CASE AnswerNobody(p)
      BY <2>1 DEF AnswerNobody, C!Next
    <2>2. CASE EndVisit(p) \/ Collect(p) \/ DropPush(p)
      BY <2>2 DEF EndVisit, Collect, DropPush
    <2>3. ASSUME NEW s \in Instances,
                 \/ Visit(p, s) \/ StartDelivery(p, s) \/ EndDelivery(p, s)
                 \/ CallOk(p, s) \/ CallErr(p, s) \/ Report(p, s) \/ DropDelivery(p, s)
                 \/ \E c \in Conns : Write(p, s, c)
          PROVE  UNCHANGED consumer
      BY <2>3 DEF Visit, StartDelivery, EndDelivery, CallOk, CallErr, Report,
                  DropDelivery, Write
    <2> QED BY <1>7, <2>1, <2>2, <2>3 DEF Push
  <1>8. ASSUME NEW c \in Conns, Peer(c) \/ Connection(c) PROVE UNCHANGED consumer
    BY <1>8 DEF Peer, Connection
  <1>9. CASE UNCHANGED vars
    BY <1>1, <1>9 DEF vars
  <1> QED BY <1>1, <1>2, <1>3, <1>4, <1>5, <1>6, <1>7, <1>8, <1>9 DEF Next

\* The composition implements Consumer: the pusher and the hubs behind it are
\* one of the ways in which its calls of push_single_msg may end, so whatever
\* holds of Consumer holds here (consumer/src/main.rs:86-172).
THEOREM EndToEndImplementsConsumer == Spec => C!Spec
  <1>1. Init => C!Init
    BY DEF Init
  <1> QED BY <1>1, ConsumerStep, PTL DEF Spec, C!Spec

\* What Consumer says and what the theorems about it say of it are the same.
LEMMA SameConsumer ==
    /\ C!Init <=> CP!Init
    /\ UNCHANGED C!vars => UNCHANGED CP!vars
    /\ C!Next => CP!Next
  <1> USE DEF C!broker, CP!broker, C!process, CP!process, C!stores, CP!stores,
              C!histories, CP!histories
  <1>1. C!Init <=> CP!Init
    BY DEF C!Init, CP!Init
  <1>2. UNCHANGED C!vars => UNCHANGED CP!vars
    BY DEF C!vars, CP!vars
  <1>3. ASSUME NEW u \in Users, C!Publish(u) PROVE CP!Next
    BY <1>3 DEF C!Publish, CP!Publish, CP!Next
  <1>4. ASSUME NEW call_, NEW o, NEW n, C!Fail(call_, o, n) PROVE CP!Fail(call_, o, n)
    BY <1>4 DEF C!Fail, CP!Fail, C!Request, CP!Request, C!Error, CP!Error
  <1>5. ASSUME NEW c \in Consumers, C!Group(c) PROVE CP!Next
    <2>1. C!Give(c) => CP!Give(c)
      BY DEF C!Give, CP!Give
    <2>2. CP!Group(c)
      BY <1>5, <2>1 DEF C!Group, CP!Group, C!Assign, CP!Assign, C!Rebalance,
            CP!Rebalance, C!CommitLands, CP!CommitLands, C!CommitRefused, CP!CommitRefused
    <2> QED BY <2>2 DEF CP!Next
  <1>6. ASSUME NEW c \in Consumers, C!Handle(c) PROVE CP!Next
    <2>1. CASE C!Recv(c) \/ C!IncreaseSeq(c) \/ C!SendToDb(c) \/ C!SendToPusher(c)
               \/ C!Commit(c)
      <3>1. CP!Handle(c)
        BY <2>1 DEF CP!Handle, C!Recv, CP!Recv, C!IncreaseSeq, CP!IncreaseSeq,
              C!SendToDb, CP!SendToDb, C!SendToPusher, CP!SendToPusher, C!Commit,
              CP!Commit, C!Incr, CP!Incr, C!Insert, CP!Insert, C!Number, CP!Number
      <3> QED BY <3>1 DEF CP!Next
    <2>2. CASE C!IncreaseSeqErr(c) \/ C!SendToDbErr(c) \/ C!SendToPusherErr(c)
      <3>1. CP!Handle(c)
        BY <1>4, <2>2 DEF CP!Handle, C!IncreaseSeqErr, CP!IncreaseSeqErr,
              C!SendToDbErr, CP!SendToDbErr, C!SendToPusherErr, CP!SendToPusherErr
      <3> QED BY <3>1 DEF CP!Next
    <2> QED BY <1>6, <2>1, <2>2 DEF C!Handle
  <1>7. ASSUME NEW c \in Consumers, C!Crash(c) \/ C!Restart(c) PROVE CP!Next
    <2>1. C!Crash(c) => CP!Crash(c)
      BY DEF C!Crash, CP!Crash, C!Request, CP!Request, C!Awaits, CP!Awaits,
             C!Call, CP!Call
    <2>2. C!Restart(c) => CP!Restart(c)
      BY DEF C!Restart, CP!Restart
    <2> QED BY <1>7, <2>1, <2>2 DEF CP!Next
  <1>8. ASSUME NEW q \in late, C!Late(q) PROVE CP!Next
    <2>1. CP!Late(q)
      BY <1>8 DEF C!Late, CP!Late, C!Incr, CP!Incr, C!Insert, CP!Insert,
                  C!Number, CP!Number
    <2> QED BY <2>1 DEF CP!Next
  <1> QED BY <1>1, <1>2, <1>3, <1>5, <1>6, <1>7, <1>8 DEF C!Next

\* The facts about the consumer that the composition needs.
LEMMA ConsumerFacts == Spec => [](CP!TypeInv /\ CP!CommittedIsSettled)
  <1>1. Spec => CP!Spec
    <2>1. Init => CP!Init
      BY SameConsumer DEF Init
    <2>2. [Next]_vars => [CP!Next]_(CP!vars)
      BY ConsumerStep, SameConsumer
    <2> QED BY <2>1, <2>2, PTL DEF Spec, CP!Spec
  <1>2. CP!Spec => []CP!CommittedIsSettled
    BY CP!CommitsAreSettled, NoneAssumption, BoundsAssumption
  <1>3. CP!Init => CP!TypeInv
    BY CP!InitType, NoneAssumption, BoundsAssumption
  <1>4. CP!TypeInv /\ [CP!Next]_(CP!vars) => CP!TypeInv'
    BY CP!TypeStep, NoneAssumption, BoundsAssumption
  <1> QED BY <1>1, <1>2, <1>3, <1>4, PTL DEF CP!Spec

-----------------------------------------------------------------------------
(* The pusher: its steps, and the drop of a push                           *)

CallType == call \in [Consumers -> 0 .. MaxPushes]

LEMMA CallsArePushes ==
    ASSUME CallType, NEW c \in Consumers, call[c] # 0 PROVE call[c] \in Pushes
  BY BoundsAssumption DEF CallType, Pushes

\* The step of a push or of one of its calls.
PushMoves(p) ==
    \/ (\E c \in Consumers : StartPush(c)) /\ (P!PushStart(p) \/ P!PushPanics(p))
    \/ P!EndVisit(p) \/ P!Collect(p) \/ P!Reply(p) \/ DropPush(p)
    \/ \E s \in Instances :
          P!Visit(p, s) \/ CallOk(p, s) \/ P!CallErr(p, s) \/ P!Report(p, s)

LEMMA PusherCases ==
    CallType /\ [Next]_vars =>
        \/ \E s \in Instances : Cluster(s)
        \/ P!Worker \/ P!Receiver \/ P!Restart \/ UNCHANGED pusher
        \/ \E p \in Pushes : PushMoves(p)
  <1> SUFFICES ASSUME CallType, [Next]_vars
               PROVE  \/ \E s \in Instances : Cluster(s)
                      \/ P!Worker \/ P!Receiver \/ P!Restart \/ UNCHANGED pusher
                      \/ \E p \in Pushes : PushMoves(p)
    OBVIOUS
  <1>1. ASSUME \/ \E u \in Users : Publish(u)
               \/ \E q \in late : LateRequest(q)
               \/ \E c \in Conns : Peer(c) \/ Connection(c)
               \/ UNCHANGED vars
        PROVE  UNCHANGED pusher
    BY <1>1 DEF Publish, LateRequest, Peer, Connection, vars
  <1>2. ASSUME NEW c \in Consumers, Consume(c)
        PROVE  UNCHANGED pusher \/ \E p \in Pushes : PushMoves(p)
    <2>1. CASE Recv(c) \/ IncreaseSeq(c) \/ SendToDb(c) \/ Commit(c)
               \/ RestartConsumer(c) \/ Assign(c) \/ Group(c) \/ PushFails(c)
               \/ CrashConsumer(c)
      BY <2>1 DEF Recv, IncreaseSeq, SendToDb, Commit, RestartConsumer, Assign,
                  Group, PushFails, CrashConsumer
    <2>2. CASE StartPush(c)
      <3>1. PICK p \in Pushes : P!PushStart(p) \/ P!PushPanics(p)
        BY <2>2 DEF StartPush
      <3> QED BY <2>2, <3>1 DEF PushMoves
    <2>3. CASE Answer(c)
      <3>1. PushMoves(call[c]) /\ call[c] \in Pushes
        BY <2>3, CallsArePushes DEF Answer, PushMoves
      <3> QED BY <3>1
    <2> QED BY <1>2, <2>1, <2>2, <2>3 DEF Consume
  <1>3. CASE Worker \/ ReceiverTask \/ RestartPusher
    BY <1>3 DEF Worker, ReceiverTask, RestartPusher
  <1>4. ASSUME NEW p \in Pushes, Push(p) PROVE UNCHANGED pusher \/ PushMoves(p)
    <2>1. CASE EndVisit(p) \/ Collect(p) \/ AnswerNobody(p) \/ DropPush(p)
      BY <2>1 DEF EndVisit, Collect, AnswerNobody, PushMoves
    <2>2. ASSUME NEW s \in Instances,
                 Visit(p, s) \/ CallOk(p, s) \/ CallErr(p, s) \/ Report(p, s)
          PROVE  PushMoves(p)
      BY <2>2 DEF Visit, CallErr, Report, PushMoves
    <2>3. ASSUME NEW s \in Instances,
                 \/ StartDelivery(p, s) \/ EndDelivery(p, s) \/ DropDelivery(p, s)
                 \/ \E c \in Conns : Write(p, s, c)
          PROVE  UNCHANGED pusher
      BY <2>3 DEF StartDelivery, EndDelivery, DropDelivery, Write
    <2> QED BY <1>4, <2>1, <2>2, <2>3 DEF Push
  <1> QED BY <1>1, <1>2, <1>3, <1>4 DEF Next

LEMMA PusherStep ==
    CallType /\ [Next]_vars =>
        P!Next \/ UNCHANGED pusher \/ \E p \in Pushes : DropPush(p)
  <1>1. ASSUME NEW p \in Pushes, PushMoves(p) PROVE P!PushStep(p) \/ DropPush(p)
    BY <1>1 DEF PushMoves, CallOk, P!PushStep
  <1>2. ASSUME NEW s \in Instances, Cluster(s) PROVE P!Next
    BY <1>2 DEF Cluster, P!Cluster, P!Next
  <1> QED BY <1>1, <1>2, PusherCases DEF P!Next

LEMMA SamePusher ==
    /\ P!Init <=> PP!Init
    /\ UNCHANGED pusher => UNCHANGED PP!vars
    /\ P!Next => PP!Next
  <1> USE DEF P!cluster, PP!cluster, P!discovery, PP!discovery, P!receiver,
              PP!receiver, P!calls, PP!calls
  <1>1. P!Init <=> PP!Init
    BY DEF P!Init, PP!Init
  <1>2. UNCHANGED pusher => UNCHANGED PP!vars
    BY DEF PP!vars
  <1>3. \A op, a : P!Change(op, a) = PP!Change(op, a)
    BY DEF P!Change, PP!Change
  <1>4. \A s : P!Unlist(s) <=> PP!Unlist(s)
    BY DEF P!Unlist, PP!Unlist, P!Active, PP!Active
  <1>5. ASSUME NEW s \in Instances, P!Cluster(s) PROVE PP!Next
    <2>1. PP!Cluster(s)
      BY <1>5 DEF P!Cluster, PP!Cluster, P!Register, PP!Register, P!Serve, PP!Serve,
                  P!Stop, PP!Stop, P!Leave, PP!Leave, P!Use, PP!Use
    <2> QED BY <2>1 DEF PP!Next
  <1>6. ASSUME P!Worker PROVE PP!Next
    <2>1. P!Discover => PP!Discover
      BY DEF P!Discover, PP!Discover
    <2>2. P!DiscoverErr => PP!DiscoverErr
      BY DEF P!DiscoverErr, PP!DiscoverErr, P!Use, PP!Use
    <2>3. P!StoreView => PP!StoreView
      BY DEF P!StoreView, PP!StoreView
    <2>4. ASSUME NEW s \in Instances, P!SendInsert(s) PROVE PP!SendInsert(s)
      BY <1>3, <2>4 DEF P!SendInsert, PP!SendInsert
    <2>5. ASSUME NEW s \in Instances, P!SendRemove(s) PROVE PP!SendRemove(s)
      BY <1>3, <2>5 DEF P!SendRemove, PP!SendRemove
    <2>6. PP!Worker
      BY <1>6, <2>1, <2>2, <2>3, <2>4, <2>5 DEF P!Worker, PP!Worker
    <2> QED BY <2>6 DEF PP!Next
  <1>7. ASSUME P!Receiver PROVE PP!Next
    <2>1. P!TakeInsert => PP!TakeInsert
      BY DEF P!TakeInsert, PP!TakeInsert
    <2>2. P!TakeRemove => PP!TakeRemove
      BY <1>4 DEF P!TakeRemove, PP!TakeRemove
    <2>3. P!Connect => PP!Connect
      BY DEF P!Connect, PP!Connect
    <2>4. P!ConnectErr => PP!ConnectErr
      BY DEF P!ConnectErr, PP!ConnectErr, P!Use, PP!Use
    <2>5. PP!Receiver
      BY <1>7, <2>1, <2>2, <2>3, <2>4 DEF P!Receiver, PP!Receiver
    <2> QED BY <2>5 DEF PP!Next
  <1>8. ASSUME P!Restart PROVE PP!Next
    <2>1. PP!Restart
      BY <1>8 DEF P!Restart, PP!Restart, P!Use, PP!Use, P!Active, PP!Active
    <2> QED BY <2>1 DEF PP!Next
  <1>9. ASSUME NEW p \in Pushes, P!PushStep(p) PROVE PP!Next
    <2>1. P!PushPanics(p) => PP!PushPanics(p)
      BY DEF P!PushPanics, PP!PushPanics
    <2>2. P!PushStart(p) => PP!PushStart(p)
      BY DEF P!PushStart, PP!PushStart, P!Cardinality, PP!Cardinality
    <2>3. P!EndVisit(p) => PP!EndVisit(p)
      BY DEF P!EndVisit, PP!EndVisit
    <2>4. P!Collect(p) => PP!Collect(p)
      BY <1>4 DEF P!Collect, PP!Collect
    <2>5. P!Reply(p) => PP!Reply(p)
      BY DEF P!Reply, PP!Reply
    <2>6. ASSUME NEW s \in Instances
          PROVE  /\ P!Visit(p, s) => PP!Visit(p, s)
                 /\ P!CallOk(p, s) => PP!CallOk(p, s)
                 /\ P!CallErr(p, s) => PP!CallErr(p, s)
                 /\ P!Report(p, s) => PP!Report(p, s)
      BY DEF P!Visit, PP!Visit, P!CallOk, PP!CallOk, P!CallErr, PP!CallErr,
             P!Report, PP!Report, P!Use, PP!Use
    <2>7. PP!PushStep(p)
      BY <1>9, <2>1, <2>2, <2>3, <2>4, <2>5, <2>6 DEF P!PushStep, PP!PushStep
    <2> QED BY <2>7 DEF PP!Next
  <1> QED BY <1>1, <1>2, <1>5, <1>6, <1>7, <1>8, <1>9 DEF P!Next

PusherInv == PP!TypeInv /\ PP!Fresh /\ \A p \in Pushes : PP!Reach(p)

LEMMA PusherInit == Init => PusherInv
  <1> SUFFICES ASSUME PP!Init PROVE PusherInv
    BY SamePusher DEF Init
  <1>1. PP!TypeInv
    BY PP!InitType, NoneAssumption, CapAssumption
  <1>2. PP!Fresh /\ \A p \in Pushes : PP!Reach(p)
    BY DEF PP!Init, PP!Fresh, PP!Reach
  <1> QED BY <1>1, <1>2 DEF PusherInv

\* A push that is dropped is no longer a promise to anybody.
LEMMA DropKeeps ==
    ASSUME PusherInv, NEW p \in Pushes, DropPush(p) PROVE PusherInv'
  <1>1. /\ push' = [push EXCEPT ![p] = "lost"]
        /\ UNCHANGED <<inst, registry, services, found, worker, inserts, removes,
                       chan, dial, list, cap, buf, task, must, gone, got, used>>
    BY DEF DropPush
  <1>2. push \in [Pushes -> PP!PushState]
    BY DEF PusherInv, PP!TypeInv, PP!TypeOK
  <1>3. PP!TypeInv'
    BY <1>1, <1>2 DEF PusherInv, PP!TypeInv, PP!TypeOK, PP!PushState
  <1>4. PP!Fresh'
    BY <1>1, <1>2 DEF PusherInv, PP!Fresh
  <1>5. ASSUME NEW x \in Pushes PROVE PP!Reach(x)'
    BY <1>1, <1>2 DEF PusherInv, PP!Reach, PP!Handled, PP!Holds
  <1> QED BY <1>3, <1>4, <1>5 DEF PusherInv

LEMMA PusherKept == CallType /\ PusherInv /\ [Next]_vars => PusherInv'
  <1> SUFFICES ASSUME CallType, PusherInv, [Next]_vars PROVE PusherInv'
    OBVIOUS
  <1>1. ASSUME [PP!Next]_(PP!vars) PROVE PusherInv'
    <2>1. PP!TypeInv' /\ PP!Fresh'
      BY <1>1, PP!TypeStep, PP!FreshStep, NoneAssumption, CapAssumption DEF PusherInv
    <2>2. ASSUME NEW x \in Pushes PROVE PP!Reach(x)'
      BY <1>1, PP!ReachStep, NoneAssumption, CapAssumption DEF PusherInv
    <2> QED BY <2>1, <2>2 DEF PusherInv
  <1> QED BY <1>1, PusherStep, SamePusher, DropKeeps

-----------------------------------------------------------------------------
(* The hubs: their steps, and the drop of a delivery                       *)

LEMMA HubStep ==
    [Next]_vars =>
        \/ H!Next \/ UNCHANGED hubs
        \/ \E p \in Pushes, s \in Instances : DropDelivery(p, s)
  <1> SUFFICES ASSUME [Next]_vars
               PROVE  \/ H!Next \/ UNCHANGED hubs
                      \/ \E p \in Pushes, s \in Instances : DropDelivery(p, s)
    OBVIOUS
  <1>1. ASSUME \/ \E u \in Users : Publish(u)
               \/ \E q \in late : LateRequest(q)
               \/ \E s \in Instances : Cluster(s)
               \/ Worker \/ ReceiverTask \/ RestartPusher
               \/ UNCHANGED vars
        PROVE  UNCHANGED hubs
    BY <1>1 DEF Publish, LateRequest, Cluster, Worker, ReceiverTask, RestartPusher, vars
  <1>2. ASSUME NEW c \in Consumers, Consume(c) PROVE UNCHANGED hubs
    BY <1>2 DEF Consume, Recv, IncreaseSeq, SendToDb, Commit, RestartConsumer, Assign,
                Group, StartPush, Answer, PushFails, CrashConsumer
  <1>3. ASSUME NEW c \in Conns, Peer(c) \/ Connection(c) PROVE H!Next
    BY <1>3 DEF Peer, Connection, H!Next
  <1>4. ASSUME NEW p \in Pushes, Push(p)
        PROVE  \/ H!Next \/ UNCHANGED hubs
               \/ \E s \in Instances : DropDelivery(p, s)
    <2>1. CASE EndVisit(p) \/ Collect(p) \/ AnswerNobody(p) \/ DropPush(p)
      BY <2>1 DEF EndVisit, Collect, AnswerNobody, DropPush
    <2>2. ASSUME NEW s \in Instances,
                 Visit(p, s) \/ CallOk(p, s) \/ CallErr(p, s) \/ Report(p, s)
          PROVE  UNCHANGED hubs
      BY <2>2 DEF Visit, CallOk, CallErr, Report
    <2>3. ASSUME NEW s \in Instances,
                 \/ StartDelivery(p, s) \/ EndDelivery(p, s)
                 \/ \E c \in Conns : Write(p, s, c)
          PROVE  H!Next
      <3>1. H!Delivery(<<p, s>>) /\ <<p, s>> \in Pushes \X Instances
        BY <2>3 DEF StartDelivery, EndDelivery, Write, H!Delivery
      <3> QED BY <3>1 DEF H!Next
    <2> QED BY <1>4, <2>1, <2>2, <2>3 DEF Push
  <1> QED BY <1>1, <1>2, <1>3, <1>4 DEF Next

LEMMA SameHub ==
    /\ H!Init <=> HP!Init
    /\ UNCHANGED hubs => UNCHANGED HP!vars
    /\ H!Next => HP!Next
  <1> USE DEF H!hub, HP!hub, H!sends, HP!sends
  <1>1. H!Init <=> HP!Init
    BY DEF H!Init, HP!Init, H!Key, HP!Key
  <1>2. UNCHANGED hubs => UNCHANGED HP!vars
    BY DEF HP!vars
  <1>3. H!Free <=> HP!Free
    BY DEF H!Free, HP!Free, H!Blocked, HP!Blocked, H!Cardinality, HP!Cardinality
  <1>4. ASSUME NEW c \in Conns, H!Peer(c) PROVE HP!Next
    <2>1. HP!Peer(c)
      BY <1>4 DEF H!Peer, HP!Peer, H!Upgrade, HP!Upgrade, H!Stall, HP!Stall,
                  H!Unstall, HP!Unstall, H!Leave, HP!Leave
    <2> QED BY <2>1 DEF HP!Next
  <1>5. ASSUME NEW c \in Conns, H!Connection(c) PROVE HP!Next
    <2>1. \A u : H!WriteLockFree(u) <=> HP!WriteLockFree(u)
      BY DEF H!WriteLockFree, HP!WriteLockFree
    <2>2. H!BlockOnRegister(c) => HP!BlockOnRegister(c)
      BY <1>3, <2>1 DEF H!BlockOnRegister, HP!BlockOnRegister
    <2>3. H!Register(c) => HP!Register(c)
      BY <1>3, <2>1 DEF H!Register, HP!Register
    <2>4. H!TaskEnds(c) => HP!TaskEnds(c)
      BY <1>3 DEF H!TaskEnds, HP!TaskEnds
    <2>5. H!BlockOnUnregister(c) => HP!BlockOnUnregister(c)
      BY <1>3, <2>1 DEF H!BlockOnUnregister, HP!BlockOnUnregister
    <2>6. H!Unregister(c) => HP!Unregister(c)
      BY <1>3, <2>1 DEF H!Unregister, HP!Unregister
    <2>7. HP!Connection(c)
      BY <1>5, <2>2, <2>3, <2>4, <2>5, <2>6 DEF H!Connection, HP!Connection
    <2> QED BY <2>7 DEF HP!Next
  <1>6. ASSUME NEW d \in Pushes \X Instances, H!Delivery(d) PROVE HP!Next
    <2>1. H!StartDelivery(d) => HP!StartDelivery(d)
      BY <1>3 DEF H!StartDelivery, HP!StartDelivery, H!Clients, HP!Clients
    <2>2. H!EndDelivery(d) => HP!EndDelivery(d)
      BY <1>3 DEF H!EndDelivery, HP!EndDelivery
    <2>3. \A c \in Conns : H!SendText(d, c) => HP!SendText(d, c)
      BY <1>3 DEF H!SendText, HP!SendText
    <2>4. HP!Delivery(d)
      BY <1>6, <2>1, <2>2, <2>3 DEF H!Delivery, HP!Delivery
    <2> QED BY <2>4 DEF HP!Next
  <1> QED BY <1>1, <1>2, <1>4, <1>5, <1>6 DEF H!Next

\* What WsHubProofs assumes of the constants holds of those of EndToEnd.
LEMMA HubConstants ==
    /\ Cardinality(Conns) + 1 \in Nat \ {0}
    /\ [x \in Seats |-> x[2]] \in [Seats -> Instances]
    /\ None \notin Conns /\ MaxStalls \in Nat
  <1>1. Cardinality(Conns) \in Nat
    BY ConnsAssumption, FS_CardinalityType
  <1> QED BY <1>1, NoneAssumption, BoundsAssumption DEF Seats

\* The hubs are typed and hold no dead client, and a delivery for an instance is
\* to a user connected to it, the same user for all deliveries of a push.
HubInv ==
    /\ HP!TypeOK /\ HP!NoDeadClient
    /\ \A p \in Pushes, s \in Instances : target[<<p, s>>][2] = s
    /\ \A p \in Pushes : \E u \in Users : \A s \in Instances : target[<<p, s>>] = <<u, s>>

LEMMA HubInit == Init => HubInv
  <1> SUFFICES ASSUME Init PROVE HubInv
    OBVIOUS
  <1>1. HP!Init
    BY SameHub DEF Init
  <1>2. HP!TypeOK
    BY <1>1, HP!InitType, HubConstants
  <1>3. HP!NoDeadClient
    BY <1>1 DEF HP!Init, HP!NoDeadClient
  <1>4. PICK f \in [Pushes -> Users] :
          target = [d \in Pushes \X Instances |-> <<f[d[1]], d[2]>>]
    BY DEF Init
  <1>5. \A p \in Pushes, s \in Instances : target[<<p, s>>] = <<f[p], s>>
    BY <1>4
  <1> QED BY <1>2, <1>3, <1>5 DEF HubInv

LEMMA HubKept == HubInv /\ [Next]_vars => HubInv'
  <1> SUFFICES ASSUME HubInv, [Next]_vars PROVE HubInv'
    OBVIOUS
  <1>1. ASSUME [HP!Next]_(HP!vars) PROVE HP!TypeOK' /\ HP!NoDeadClient' /\ target' = target
    <2>1. HP!TypeOK'
      BY <1>1, HP!TypeStep, HubConstants DEF HubInv
    <2>2. HP!NoDeadClient'
      BY <1>1, HP!NoDeadClientStep, HubConstants DEF HubInv
    <2>3. target' = target
      BY <1>1 DEF HP!Next, HP!vars, HP!Peer, HP!Upgrade, HP!Stall, HP!Unstall, HP!Leave,
            HP!Connection, HP!BlockOnRegister, HP!Register, HP!TaskEnds,
            HP!BlockOnUnregister, HP!Unregister, HP!Delivery, HP!StartDelivery,
            HP!EndDelivery, HP!SendText, HP!sends
    <2> QED BY <2>1, <2>2, <2>3
  <1>2. ASSUME NEW p \in Pushes, NEW s \in Instances, DropDelivery(p, s)
        PROVE  HP!TypeOK' /\ HP!NoDeadClient' /\ target' = target
    <2>1. /\ deliv' = [deliv EXCEPT ![<<p, s>>] = "done"]
          /\ todo' = [todo EXCEPT ![<<p, s>>] = {}]
          /\ UNCHANGED <<entry, slot, conn, key, link, target, latest, stalls>>
      BY <1>2 DEF DropDelivery
    <2>2. HP!TypeOK'
      BY <2>1 DEF HubInv, HP!TypeOK
    <2> QED BY <2>1, <2>2 DEF HubInv, HP!NoDeadClient
  <1>3. HP!TypeOK' /\ HP!NoDeadClient' /\ target' = target
    BY <1>1, <1>2, HubStep, SameHub
  <1> QED BY <1>3 DEF HubInv

-----------------------------------------------------------------------------
(* Types                                                                   *)

OwnType ==
    /\ CallType
    /\ msg \in [Pushes -> [off: Nat, seq: Nat]]
    /\ written \in [Conns -> Seq([off: Nat, seq: Nat])]
    /\ present \in [Pushes -> SUBSET Conns]

LEMMA OwnTypeInit == Init => OwnType
  <1>1. C!Number(0, 0) \in [off: Nat, seq: Nat]
    BY DEF C!Number
  <1>2. <<>> \in Seq([off: Nat, seq: Nat])
    OBVIOUS
  <1>3. 0 \in 0 .. MaxPushes
    BY BoundsAssumption
  <1> QED BY <1>1, <1>2, <1>3 DEF Init, OwnType, CallType, NoMsg

\* The clients a delivery is to write to are connections of its user.
LEMMA ClientsType ==
    ASSUME HubInv, NEW u \in Seats
    PROVE  /\ H!Clients(u) \subseteq Conns
           /\ \A c \in H!Clients(u) : key[c].user = u
  <1>1. slot[u] \in [Platforms -> Conns \cup {None}]
    BY DEF HubInv, HP!TypeOK
  <1>2. ASSUME NEW c \in H!Clients(u) PROVE c \in Conns /\ key[c].user = u
    <2>1. PICK q \in Platforms : c = slot[u][q] /\ c # None
      BY DEF H!Clients
    <2>2. key[c] = [user |-> u, platform |-> q]
      BY <2>1 DEF HubInv, HP!NoDeadClient
    <2> QED BY <1>1, <2>1, <2>2
  <1> QED BY <1>2

\* A step either leaves what the composition adds alone, or is one of these.
LEMMA Others ==
    ASSUME [Next]_vars
    PROVE  \/ UNCHANGED <<call, msg, sockets>>
           \/ \E c \in Consumers : \/ StartPush(c) \/ Answer(c) \/ PushFails(c)
                                   \/ CrashConsumer(c)
           \/ \E p \in Pushes, s \in Instances :
                 StartDelivery(p, s) \/ \E c \in Conns : Write(p, s, c)
  <1>1. ASSUME \/ \E u \in Users : Publish(u)
               \/ \E q \in late : LateRequest(q)
               \/ \E s \in Instances : Cluster(s)
               \/ Worker \/ ReceiverTask \/ RestartPusher
               \/ \E c \in Conns : Peer(c) \/ Connection(c)
               \/ UNCHANGED vars
        PROVE  UNCHANGED <<call, msg, sockets>>
    BY <1>1 DEF Publish, LateRequest, Cluster, Worker, ReceiverTask, RestartPusher,
                Peer, Connection, vars
  <1>2. ASSUME NEW c \in Consumers, Consume(c)
        PROVE  \/ UNCHANGED <<call, msg, sockets>>
               \/ StartPush(c) \/ Answer(c) \/ PushFails(c) \/ CrashConsumer(c)
    BY <1>2 DEF Consume, Recv, IncreaseSeq, SendToDb, Commit, RestartConsumer, Assign,
                Group
  <1>3. ASSUME NEW p \in Pushes, Push(p)
        PROVE  \/ UNCHANGED <<call, msg, sockets>>
               \/ \E s \in Instances :
                     StartDelivery(p, s) \/ \E c \in Conns : Write(p, s, c)
    BY <1>3 DEF Push, EndVisit, Collect, AnswerNobody, DropPush, Visit, EndDelivery,
                CallOk, CallErr, Report, DropDelivery
  <1> QED BY <1>1, <1>2, <1>3 DEF Next

LEMMA OwnTypeKept ==
    ASSUME OwnType, HubInv, CP!TypeInv, [Next]_vars PROVE OwnType'
  <1>1. CASE UNCHANGED <<call, msg, sockets>>
    BY <1>1 DEF OwnType, CallType
  <1>2. ASSUME NEW c \in Consumers, StartPush(c) PROVE OwnType'
    <2>1. PICK p \in Pushes : /\ call' = [call EXCEPT ![c] = p]
                              /\ msg' = [msg EXCEPT ![p] = C!Number(pos[c], num[c])]
                              /\ UNCHANGED sockets
      BY <1>2 DEF StartPush
    <2>2. C!Number(pos[c], num[c]) \in [off: Nat, seq: Nat]
      <3>1. pos[c] \in 0 .. Len(log) /\ num[c] \in Nat
        BY DEF CP!TypeInv, CP!TypeOK
      <3> QED BY <3>1 DEF C!Number
    <2>3. p \in 0 .. MaxPushes
      BY BoundsAssumption DEF Pushes
    <2>4. call' \in [Consumers -> 0 .. MaxPushes]
      BY <2>1, <2>3 DEF OwnType, CallType
    <2>5. msg' \in [Pushes -> [off: Nat, seq: Nat]]
      BY <2>1, <2>2, Zenon DEF OwnType
    <2> QED BY <2>1, <2>4, <2>5 DEF OwnType, CallType
  <1>3. ASSUME NEW c \in Consumers, Answer(c) \/ PushFails(c) \/ CrashConsumer(c)
        PROVE  OwnType'
    <2>1. call' = [call EXCEPT ![c] = 0] /\ UNCHANGED <<msg, sockets>>
      BY <1>3 DEF Answer, PushFails, CrashConsumer
    <2>2. 0 \in 0 .. MaxPushes
      BY BoundsAssumption
    <2> QED BY <2>1, <2>2 DEF OwnType, CallType
  <1>4. ASSUME NEW p \in Pushes, NEW s \in Instances, StartDelivery(p, s) PROVE OwnType'
    <2>1. /\ present' = [present EXCEPT ![p] = @ \cup H!Clients(target[<<p, s>>])]
          /\ UNCHANGED <<call, msg, written>>
      BY <1>4 DEF StartDelivery
    <2>2. target[<<p, s>>] \in Seats
      BY DEF HubInv, HP!TypeOK
    <2>3. H!Clients(target[<<p, s>>]) \subseteq Conns
      BY <2>2, ClientsType
    <2> QED BY <2>1, <2>3 DEF OwnType, CallType
  <1>5. ASSUME NEW p \in Pushes, NEW s \in Instances, NEW c \in Conns, Write(p, s, c)
        PROVE  OwnType'
    <2>1. /\ written' \in {written, [written EXCEPT ![c] = Append(@, msg[p])]}
          /\ UNCHANGED <<call, msg, present>>
      BY <1>5 DEF Write
    <2>2. Append(written[c], msg[p]) \in Seq([off: Nat, seq: Nat])
      <3>1. written[c] \in Seq([off: Nat, seq: Nat]) /\ msg[p] \in [off: Nat, seq: Nat]
        BY DEF OwnType
      <3> QED BY ONLY <3>1, AppendProperties, Zenon
    <2>3. written' \in [Conns -> Seq([off: Nat, seq: Nat])]
      BY <2>1, <2>2, Zenon DEF OwnType
    <2> QED BY <2>1, <2>3 DEF OwnType, CallType
  <1> QED BY <1>1, <1>2, <1>3, <1>4, <1>5, Others

-----------------------------------------------------------------------------
(* The pushes: whose they are                                              *)

\* A process waits for a push of the message it has in hand, and what was pushed
\* was answered.
PushInv ==
    /\ \A c \in Consumers : call[c] # 0 =>
          /\ pushTask[c] = "run" /\ push[call[c]] # "new"
          /\ msg[call[c]] = C!Number(pos[c], num[c])
    /\ \A r \in pushed : \E p \in Pushes : msg[p] = r /\ push[p] = "replied"

LEMMA PushInit == Init => PushInv
  BY DEF Init, C!Init, PushInv

\* A step goes on with a push, and never back to its beginning.
PushesGo ==
    \A p \in Pushes : /\ push[p] # "new" => push'[p] # "new"
                      /\ push[p] = "replied" => push'[p] = "replied"

LEMMA PushesGoOn ==
    ASSUME CallType, PusherInv, [Next]_vars PROVE PushesGo
  <1> USE DEF P!cluster, P!discovery, P!receiver, P!calls
  <1>1. push \in [Pushes -> PP!PushState]
    BY DEF PusherInv, PP!TypeInv, PP!TypeOK
  <1>2. CASE UNCHANGED push
    BY <1>2 DEF PushesGo
  <1>3. ASSUME NEW p \in Pushes, P!PushStep(p) PROVE PushesGo
    BY <1>1, <1>3 DEF PushesGo, P!PushStep, P!PushPanics, P!PushStart, P!EndVisit,
          P!Collect, P!Reply, P!Visit, P!CallOk, P!CallErr, P!Report
  <1>4. ASSUME NEW p \in Pushes, DropPush(p) PROVE PushesGo
    BY <1>1, <1>4 DEF PushesGo, DropPush
  <1>5. CASE P!Restart
    BY <1>1, <1>5 DEF PushesGo, P!Restart, P!Active
  <1>6. ASSUME \/ \E s \in Instances : P!Cluster(s)
               \/ P!Worker \/ P!Receiver
        PROVE  UNCHANGED push
    BY <1>6 DEF P!Cluster, P!Register, P!Serve, P!Stop, P!Leave, P!Worker, P!Discover,
          P!DiscoverErr, P!SendInsert, P!SendRemove, P!StoreView, P!Receiver,
          P!TakeInsert, P!TakeRemove, P!Connect, P!ConnectErr
  <1> QED BY <1>2, <1>3, <1>4, <1>5, <1>6, PusherStep DEF P!Next

\* What a process has in hand stays in hand while its push is outstanding.
InHand(c) ==
    pushTask[c] = "run" =>
        pushTask'[c] = "run" /\ pos'[c] = pos[c] /\ num'[c] = num[c]

LEMMA HandFree ==
    ASSUME CP!TypeInv, NEW c \in Consumers, pushTask[c] = "run"
    PROVE  pc[c] = "join"
  BY DEF CP!TypeInv, CP!PhaseOK

LEMMA StaysInHand ==
    ASSUME CP!TypeInv, [Next]_vars,
           ~ \E c \in Consumers : Answer(c) \/ PushFails(c) \/ CrashConsumer(c)
    PROVE  \A c \in Consumers : InHand(c)
  <1> SUFFICES ASSUME NEW x \in Consumers, pushTask[x] = "run"
               PROVE  pushTask'[x] = "run" /\ pos'[x] = pos[x] /\ num'[x] = num[x]
    BY DEF InHand
  <1> USE DEF C!process, C!stores, C!histories, C!broker
  <1>1. /\ pc[x] = "join"
        /\ pushTask \in [Consumers -> {"none", "run", "done"}]
        /\ pos \in [Consumers -> 0 .. Len(log)] /\ num \in [Consumers -> Nat]
    BY HandFree DEF CP!TypeInv, CP!TypeOK, CP!Task
  <1>2. CASE UNCHANGED <<pushTask, pos, num>>
    BY <1>2
  <1>3. ASSUME NEW c \in Consumers, Assign(c) \/ Group(c) \/ Recv(c) \/ IncreaseSeq(c)
                                    \/ SendToDb(c) \/ Commit(c) \/ RestartConsumer(c)
        PROVE  pushTask'[x] = "run" /\ pos'[x] = pos[x] /\ num'[x] = num[x]
    <2>1. CASE Assign(c) \/ Group(c)
      BY <1>1, <2>1 DEF Assign, Group, C!Assign, C!Rebalance, C!Give, C!CommitLands,
            C!CommitRefused
    <2>2. CASE Recv(c)
      BY <1>1, <2>2 DEF Recv, C!Recv
    <2>3. CASE IncreaseSeq(c)
      BY <1>1, <2>3 DEF IncreaseSeq, C!IncreaseSeq, C!IncreaseSeqErr
    <2>4. CASE SendToDb(c) \/ RestartConsumer(c)
      BY <1>1, <2>4 DEF SendToDb, C!SendToDb, C!SendToDbErr, RestartConsumer, C!Restart
    <2>5. CASE Commit(c)
      BY <1>1, <2>5 DEF Commit, C!Commit
    <2> QED BY <1>3, <2>1, <2>2, <2>3, <2>4, <2>5
  <1>4. ASSUME NEW q \in late, C!Late(q) PROVE UNCHANGED <<pushTask, pos, num>>
    BY <1>4 DEF C!Late
  <1>5. ASSUME NEW u \in Users, Publish(u) PROVE UNCHANGED <<pushTask, pos, num>>
    BY <1>5 DEF Publish, C!Publish
  <1>6. ASSUME NEW p \in Pushes, Push(p), ~ AnswerNobody(p)
        PROVE  UNCHANGED <<pushTask, pos, num>>
    BY <1>6 DEF Push, EndVisit, Collect, DropPush, Visit, EndDelivery,
                CallOk, CallErr, Report, DropDelivery, StartDelivery, Write
  <1>7. ASSUME NEW p \in Pushes, AnswerNobody(p) PROVE UNCHANGED <<pushTask, pos, num>>
    BY <1>4, <1>7 DEF AnswerNobody
  <1>8. ASSUME NEW c \in Consumers, StartPush(c) PROVE UNCHANGED <<pushTask, pos, num>>
    BY <1>8 DEF StartPush
  <1>9. ASSUME \/ \E s \in Instances : Cluster(s)
               \/ Worker \/ ReceiverTask \/ RestartPusher
               \/ \E c \in Conns : Peer(c) \/ Connection(c)
               \/ UNCHANGED vars
        PROVE  UNCHANGED <<pushTask, pos, num>>
    BY <1>9 DEF Cluster, Worker, ReceiverTask, RestartPusher, Peer, Connection, vars
  <1> QED BY <1>2, <1>3, <1>4, <1>5, <1>6, <1>7, <1>8, <1>9 DEF Next, Consume, LateRequest

\* Only an answer of the pusher adds to what was pushed.
LEMMA SamePushed ==
    ASSUME [Next]_vars, ~ \E c \in Consumers : Answer(c),
           ~ \E p \in Pushes : AnswerNobody(p)
    PROVE  pushed' = pushed
  <1> USE DEF C!process, C!stores, C!histories, C!broker
  <1>1. ASSUME NEW c \in Consumers, Consume(c), ~ Answer(c) PROVE pushed' = pushed
    <2>1. CASE Assign(c) \/ Group(c) \/ Recv(c) \/ Commit(c) \/ RestartConsumer(c)
      BY <2>1 DEF Assign, Group, C!Assign, C!Rebalance, C!Give, C!CommitLands,
            C!CommitRefused, Recv, C!Recv, Commit, C!Commit, RestartConsumer, C!Restart
    <2>2. CASE IncreaseSeq(c) \/ SendToDb(c)
      BY <2>2 DEF IncreaseSeq, C!IncreaseSeq, C!IncreaseSeqErr, SendToDb, C!SendToDb,
            C!SendToDbErr
    <2>3. CASE StartPush(c) \/ PushFails(c) \/ CrashConsumer(c)
      BY <2>3 DEF StartPush, PushFails, C!SendToPusherErr, CrashConsumer, C!Crash
    <2> QED BY <1>1, <2>1, <2>2, <2>3 DEF Consume
  <1>2. ASSUME NEW q \in late, LateRequest(q) PROVE pushed' = pushed
    BY <1>2 DEF LateRequest, C!Late
  <1>3. ASSUME NEW u \in Users, Publish(u) PROVE pushed' = pushed
    BY <1>3 DEF Publish, C!Publish
  <1>4. ASSUME NEW p \in Pushes, Push(p), ~ AnswerNobody(p) PROVE pushed' = pushed
    BY <1>4 DEF Push, EndVisit, Collect, DropPush, Visit, EndDelivery,
                CallOk, CallErr, Report, DropDelivery, StartDelivery, Write
  <1>5. ASSUME \/ \E s \in Instances : Cluster(s)
               \/ Worker \/ ReceiverTask \/ RestartPusher
               \/ \E c \in Conns : Peer(c) \/ Connection(c)
               \/ UNCHANGED vars
        PROVE  pushed' = pushed
    BY <1>5 DEF Cluster, Worker, ReceiverTask, RestartPusher, Peer, Connection, vars
  <1> QED BY <1>1, <1>2, <1>3, <1>4, <1>5 DEF Next

\* The steps that change neither calls nor pushes, nor add to what was pushed.
LEMMA PushInvKept ==
    ASSUME OwnType, PushInv, PushesGo, UNCHANGED <<call, msg, pushed>>,
           \A c \in Consumers : InHand(c)
    PROVE  PushInv'
  <1>1. ASSUME NEW c \in Consumers, call[c] # 0
        PROVE  /\ pushTask'[c] = "run" /\ push'[call[c]] # "new"
               /\ msg[call[c]] = C!Number(pos'[c], num'[c])
    BY <1>1, CallsArePushes DEF OwnType, PushInv, PushesGo, InHand
  <1>2. \A r \in pushed : \E p \in Pushes : msg[p] = r /\ push'[p] = "replied"
    BY DEF PushInv, PushesGo
  <1> QED BY <1>1, <1>2 DEF PushInv, C!Number

LEMMA PushKept ==
    ASSUME OwnType, CP!TypeInv, PusherInv, PushInv, [Next]_vars PROVE PushInv'
  <1> USE DEF C!process, C!stores, C!histories, C!broker
  <1>1. PushesGo
    BY PushesGoOn DEF OwnType
  <1>2. push \in [Pushes -> PP!PushState]
    BY DEF PusherInv, PP!TypeInv, PP!TypeOK
  <1>3. ASSUME NEW c \in Consumers, StartPush(c) PROVE PushInv'
    <2>1. PICK p \in Pushes :
            /\ pushTask[c] = "run" /\ push[p] = "new" /\ push'[p] # "new"
            /\ call' = [call EXCEPT ![c] = p]
            /\ msg' = [msg EXCEPT ![p] = C!Number(pos[c], num[c])]
            /\ UNCHANGED consumer
      BY <1>2, <1>3 DEF StartPush, P!PushStart, P!PushPanics
    <2>2. ASSUME NEW x \in Consumers, call'[x] # 0
          PROVE  /\ pushTask[x] = "run" /\ push'[call'[x]] # "new"
                 /\ msg'[call'[x]] = C!Number(pos[x], num[x])
      <3>1. CASE x = c
        BY <2>1, <3>1 DEF OwnType, CallType
      <3>2. CASE x # c
        <4>1. call'[x] = call[x] /\ call[x] # 0
          BY <2>1, <2>2, <3>2 DEF OwnType, CallType
        <4>2. call[x] \in Pushes /\ call[x] # p
          BY <4>1, <2>1, CallsArePushes DEF OwnType, PushInv
        <4>3. msg'[call[x]] = msg[call[x]]
          BY <2>1, <4>2 DEF OwnType
        <4> QED BY <1>1, <4>1, <4>2, <4>3 DEF PushInv, PushesGo
      <3> QED BY <3>1, <3>2
    <2>3. ASSUME NEW r \in pushed
          PROVE  \E x \in Pushes : msg'[x] = r /\ push'[x] = "replied"
      <3>1. PICK x \in Pushes : msg[x] = r /\ push[x] = "replied"
        BY DEF PushInv
      <3>2. msg'[x] = msg[x] /\ push'[x] = "replied"
        BY <1>1, <2>1, <3>1 DEF OwnType, PushesGo
      <3> QED BY <3>1, <3>2
    <2> QED BY <2>1, <2>2, <2>3 DEF PushInv, C!Number
  <1>4. ASSUME NEW c \in Consumers, Answer(c) PROVE PushInv'
    <2>1. /\ call[c] \in Pushes /\ push'[call[c]] = "replied"
          /\ call' = [call EXCEPT ![c] = 0]
          /\ pushTask' = [pushTask EXCEPT ![c] = "done"]
          /\ pushed' = pushed \cup {C!Number(pos[c], num[c])}
          /\ UNCHANGED <<pos, num, msg>>
      BY <1>2, <1>4, CallsArePushes DEF OwnType, Answer, P!Reply, C!SendToPusher
    <2>2. ASSUME NEW x \in Consumers, call'[x] # 0
          PROVE  /\ pushTask'[x] = "run" /\ push'[call'[x]] # "new"
                 /\ msg[call'[x]] = C!Number(pos[x], num[x])
      <3>1. x # c /\ call'[x] = call[x] /\ call[x] # 0
        BY <2>1, <2>2 DEF OwnType, CallType
      <3>2. pushTask'[x] = pushTask[x]
        BY <2>1, <3>1 DEF CP!TypeInv, CP!TypeOK
      <3>3. call[x] \in Pushes
        BY <3>1, CallsArePushes DEF OwnType
      <3> QED BY <1>1, <3>1, <3>2, <3>3 DEF PushInv, PushesGo
    <2>3. ASSUME NEW r \in pushed'
          PROVE  \E x \in Pushes : msg[x] = r /\ push'[x] = "replied"
      <3>1. CASE r \in pushed
        BY <1>1, <3>1 DEF PushInv, PushesGo
      <3>2. CASE r = C!Number(pos[c], num[c])
        BY <1>4, <2>1, <3>2 DEF PushInv, Answer
      <3> QED BY <2>1, <3>1, <3>2
    <2> QED BY <2>1, <2>2, <2>3 DEF PushInv, C!Number
  <1>5. ASSUME NEW c \in Consumers, PushFails(c) \/ CrashConsumer(c) PROVE PushInv'
    <2>1. /\ call' = [call EXCEPT ![c] = 0] /\ UNCHANGED <<msg, pushed, push>>
          /\ \A x \in Consumers : x # c => /\ pushTask'[x] = pushTask[x]
                                          /\ pos'[x] = pos[x] /\ num'[x] = num[x]
      BY <1>5 DEF PushFails, CrashConsumer, C!SendToPusherErr, C!Crash, CP!TypeInv,
            CP!TypeOK
    <2>2. ASSUME NEW x \in Consumers, call'[x] # 0
          PROVE  /\ pushTask'[x] = "run" /\ push[call'[x]] # "new"
                 /\ msg[call'[x]] = C!Number(pos'[x], num'[x])
      <3>1. x # c /\ call'[x] = call[x] /\ call[x] # 0
        BY <2>1, <2>2 DEF OwnType, CallType
      <3> QED BY <2>1, <3>1 DEF PushInv, C!Number
    <2> QED BY <2>1, <2>2 DEF PushInv, C!Number
  <1>6. ASSUME NEW p \in Pushes, AnswerNobody(p) PROVE PushInv'
    <2>1. /\ push'[p] = "replied" /\ pushed' = pushed \cup {msg[p]}
          /\ UNCHANGED <<call, msg, pushTask, pos, num>>
      <3>1. msg[p] = [off |-> msg[p].off, seq |-> msg[p].seq]
        BY DEF OwnType
      <3> QED BY <1>2, <1>6, <3>1 DEF AnswerNobody, P!Reply, C!Late, C!Request, C!Number
    <2>2. ASSUME NEW x \in Consumers, call[x] # 0
          PROVE  pushTask[x] = "run" /\ push'[call[x]] # "new"
      BY <1>1, <2>2, CallsArePushes DEF OwnType, PushInv, PushesGo
    <2>3. ASSUME NEW r \in pushed'
          PROVE  \E x \in Pushes : msg[x] = r /\ push'[x] = "replied"
      BY <1>1, <2>1 DEF PushInv, PushesGo
    <2> QED BY <2>1, <2>2, <2>3 DEF PushInv, C!Number
  <1>7. CASE /\ ~ \E c \in Consumers : \/ StartPush(c) \/ Answer(c) \/ PushFails(c)
                                       \/ CrashConsumer(c)
             /\ ~ \E p \in Pushes : AnswerNobody(p)
    <2>1. UNCHANGED <<call, msg>>
      <3>1. ASSUME NEW p \in Pushes, NEW s \in Instances,
                   StartDelivery(p, s) \/ \E c \in Conns : Write(p, s, c)
            PROVE  UNCHANGED <<call, msg>>
        BY <3>1 DEF StartDelivery, Write
      <3> QED BY <1>7, <3>1, Others
    <2>2. pushed' = pushed /\ \A c \in Consumers : InHand(c)
      BY <1>7, SamePushed, StaysInHand
    <2> QED BY <1>1, <2>1, <2>2, PushInvKept
  <1> QED BY <1>3, <1>4, <1>5, <1>6, <1>7

-----------------------------------------------------------------------------
(* The deliveries: what they found is written                              *)

\* The clients found in the hub of s for a push.
Found(p, s) == {c \in present[p] : key[c].user[2] = s}

\* A client was written the message, or its peer is gone.
Through(p, c) == link[c] = "down" \/ \E i \in DOMAIN written[c] : written[c][i] = msg[p]

Served(p, s) == \A c \in Found(p, s) : Through(p, c)

\* Where the call of push p to instance s stands, and what that says of the
\* clients it found: whom a delivery has still to write to, what the end of the
\* call and the answer of the push stand for.
Deliv(p, s) ==
    LET d == <<p, s>>
    IN  /\ push[p] \in {"new", "visit"} /\ task[p][s] = "none" => deliv[d] = "new"
        /\ deliv[d] = "new" => Found(p, s) = {}
        /\ task[p][s] = "run" =>
              /\ deliv[d] = "send" => \A c \in Found(p, s) : c \in todo[d] \/ Through(p, c)
              /\ deliv[d] = "done" => Served(p, s)
        /\ push[p] \in {"visit", "wait"} /\ task[p][s] = "done" =>
              Served(p, s) \/ PP!Holds(buf[p], s) \/ s \in gone[p]
        /\ push[p] = "replied" =>
              /\ task[p][s] \in {"none", "done"}
              /\ s \in must[p] \ gone[p] => Served(p, s)

DelivInv == \A p \in Pushes, s \in Instances : Deliv(p, s)

LEMMA DelivInit == Init => DelivInv
  BY DEF Init, P!Init, H!Init, DelivInv, Deliv, Found

\* A step does not touch the delivery of p to s, nor undo what it wrote.
HubSame(p, s) ==
    /\ deliv'[<<p, s>>] = deliv[<<p, s>>] /\ todo'[<<p, s>>] = todo[<<p, s>>]
    /\ Found(p, s)' = Found(p, s)
    /\ \A c \in Found(p, s) : Through(p, c) => Through(p, c)'

\* A step does not touch push p or its call to s, except that it may take
\* instances off the list.
PushSame(p, s) ==
    /\ push'[p] = push[p] /\ task'[p][s] = task[p][s] /\ must'[p] = must[p]
    /\ gone[p] \subseteq gone'[p]
    /\ PP!Holds(buf[p], s) => PP!Holds(buf'[p], s) \/ s \in gone'[p]

LEMMA DelivSame ==
    ASSUME NEW p, NEW s, Deliv(p, s), HubSame(p, s), PushSame(p, s)
    PROVE  Deliv(p, s)'
  <1>1. Served(p, s) => Served(p, s)'
    BY DEF HubSame, Served
  <1> QED BY <1>1 DEF Deliv, HubSame, PushSame

\* What is written stays written, and a peer that is gone stays gone.
LEMMA ThroughKept ==
    ASSUME OwnType, NEW p \in Pushes, NEW c \in Conns, Through(p, c),
           link[c] = "down" => link'[c] = "down", msg'[p] = msg[p],
           \/ written'[c] = written[c]
           \/ \E q \in Pushes : written'[c] = Append(written[c], msg[q])
    PROVE  Through(p, c)'
  <1>1. CASE link[c] = "down" \/ written'[c] = written[c]
    BY <1>1 DEF Through
  <1>2. ASSUME NEW q \in Pushes, written'[c] = Append(written[c], msg[q]),
               link[c] # "down"
        PROVE  Through(p, c)'
    <2>1. written[c] \in Seq([off: Nat, seq: Nat]) /\ msg[q] \in [off: Nat, seq: Nat]
      BY DEF OwnType
    <2>2. PICK i \in DOMAIN written[c] : written[c][i] = msg[p]
      BY <1>2 DEF Through
    <2>3. i \in 1 .. Len(written[c]) /\ Len(written[c]) \in Nat
      BY <2>1, <2>2, LenProperties
    <2>4. /\ i \in 1 .. Len(written'[c]) /\ written'[c][i] = written[c][i]
          /\ written'[c] \in Seq([off: Nat, seq: Nat])
      BY <1>2, <2>1, <2>3, AppendProperties
    <2>5. i \in DOMAIN written'[c]
      BY <2>4, LenProperties
    <2> QED BY <2>2, <2>4, <2>5 DEF Through
  <1> QED BY <1>1, <1>2

\* The steps of the delivery of p to s.
Delivers(p, s) ==
    \/ StartDelivery(p, s) \/ EndDelivery(p, s) \/ DropDelivery(p, s)
    \/ \E c \in Conns : Write(p, s, c)

LEMMA PeersGone ==
    ASSUME HubInv, NEW c \in Conns, Peer(c) \/ Connection(c)
    PROVE  /\ UNCHANGED <<key, deliv, target, todo>>
           /\ \A x \in Conns : link[x] = "down" => link'[x] = "down"
  <1>1. link \in [Conns -> {"up", "slow", "down"}]
    BY DEF HubInv, HP!TypeOK
  <1>2. CASE Peer(c)
    BY <1>1, <1>2 DEF Peer, H!Peer, H!Upgrade, H!Stall, H!Unstall, H!Leave, H!sends
  <1>3. CASE Connection(c)
    BY <1>3 DEF Connection, H!Connection, H!BlockOnRegister, H!Register, H!TaskEnds,
          H!BlockOnUnregister, H!Unregister, H!sends
  <1> QED BY <1>2, <1>3

\* The steps of a delivery leave the other deliveries alone.
LEMMA OtherDelivery ==
    ASSUME OwnType, HubInv, NEW x \in Pushes, NEW t \in Instances, Delivers(x, t),
           NEW p \in Pushes, NEW s \in Instances, <<x, t>> # <<p, s>>
    PROVE  HubSame(p, s)
  <1>1. /\ deliv \in [Pushes \X Instances -> {"new", "send", "done"}]
        /\ todo \in [Pushes \X Instances -> SUBSET Conns]
        /\ target \in [Pushes \X Instances -> Seats]
        /\ <<p, s>> \in Pushes \X Instances
    BY DEF HubInv, HP!TypeOK
  <1>2. Found(p, s) \subseteq Conns
    BY DEF Found, OwnType
  <1>3. CASE StartDelivery(x, t)
    <2>1. /\ deliv'[<<p, s>>] = deliv[<<p, s>>] /\ todo'[<<p, s>>] = todo[<<p, s>>]
          /\ UNCHANGED <<key, link, written, msg>>
      BY <1>1, <1>3 DEF StartDelivery, H!StartDelivery
    <2>2. Found(p, s)' = Found(p, s)
      <3>1. CASE x = p
        <4>1. target[<<x, t>>] \in Seats /\ target[<<x, t>>][2] = t /\ t # s
          BY <1>1, <3>1 DEF HubInv
        <4>2. \A c \in H!Clients(target[<<x, t>>]) : key[c].user[2] # s
          BY <4>1, ClientsType
        <4>3. present'[p] = present[p] \cup H!Clients(target[<<x, t>>])
          BY <1>3, <3>1 DEF StartDelivery, OwnType
        <4> QED BY <2>1, <4>2, <4>3 DEF Found
      <3>2. CASE x # p
        <4>1. present'[p] = present[p]
          BY <1>3, <3>2 DEF StartDelivery, OwnType
        <4> QED BY <2>1, <4>1 DEF Found
      <3> QED BY <3>1, <3>2
    <2> QED BY <2>1, <2>2 DEF HubSame, Through
  <1>4. CASE EndDelivery(x, t) \/ DropDelivery(x, t)
    <2>1. /\ deliv'[<<p, s>>] = deliv[<<p, s>>] /\ todo'[<<p, s>>] = todo[<<p, s>>]
          /\ UNCHANGED <<key, link, written, msg, present>>
      BY <1>1, <1>4 DEF EndDelivery, H!EndDelivery, DropDelivery
    <2> QED BY <2>1 DEF HubSame, Through, Found
  <1>5. ASSUME NEW c \in Conns, Write(x, t, c) PROVE HubSame(p, s)
    <2>1. /\ deliv'[<<p, s>>] = deliv[<<p, s>>] /\ todo'[<<p, s>>] = todo[<<p, s>>]
          /\ UNCHANGED <<key, link, msg, present>>
          /\ written' \in {written, [written EXCEPT ![c] = Append(@, msg[x])]}
      BY <1>1, <1>5 DEF Write, H!SendText
    <2>2. \A y \in Conns : written'[y] = written[y] \/ written'[y] = Append(written[y], msg[x])
      BY <2>1 DEF OwnType
    <2>3. \A y \in Found(p, s) : Through(p, y) => Through(p, y)'
      BY <1>2, <2>1, <2>2, ThroughKept
    <2> QED BY <2>1, <2>3 DEF HubSame, Found
  <1> QED BY <1>3, <1>4, <1>5 DEF Delivers

LEMMA HubCases ==
    ASSUME [Next]_vars
    PROVE  \/ UNCHANGED <<hubs, msg, sockets>>
           \/ \E c \in Consumers : StartPush(c)
           \/ \E c \in Conns : Peer(c) \/ Connection(c)
           \/ \E p \in Pushes, s \in Instances : Delivers(p, s)
  <1>1. ASSUME \/ \E u \in Users : Publish(u)
               \/ \E q \in late : LateRequest(q)
               \/ \E s \in Instances : Cluster(s)
               \/ Worker \/ ReceiverTask \/ RestartPusher
               \/ UNCHANGED vars
        PROVE  UNCHANGED <<hubs, msg, sockets>>
    BY <1>1 DEF Publish, LateRequest, Cluster, Worker, ReceiverTask, RestartPusher, vars
  <1>2. ASSUME NEW c \in Consumers, Consume(c)
        PROVE  UNCHANGED <<hubs, msg, sockets>> \/ StartPush(c)
    BY <1>2 DEF Consume, Recv, IncreaseSeq, SendToDb, Commit, RestartConsumer, Assign,
                Group, Answer, PushFails, CrashConsumer
  <1>3. ASSUME NEW p \in Pushes, Push(p)
        PROVE  \/ UNCHANGED <<hubs, msg, sockets>>
               \/ \E s \in Instances : Delivers(p, s)
    BY <1>3 DEF Push, EndVisit, Collect, AnswerNobody, DropPush, Visit,
                CallOk, CallErr, Report, Delivers
  <1> QED BY <1>1, <1>2, <1>3 DEF Next

LEMMA HubsSame ==
    ASSUME OwnType, HubInv, PusherInv, DelivInv, [Next]_vars,
           NEW p \in Pushes, NEW s \in Instances, ~ Delivers(p, s)
    PROVE  HubSame(p, s)
  <1>1. CASE UNCHANGED <<hubs, msg, sockets>>
    BY <1>1 DEF HubSame, Found, Through
  <1>2. ASSUME NEW c \in Consumers, StartPush(c) PROVE HubSame(p, s)
    <2>1. PICK x \in Pushes : /\ push[x] = "new"
                              /\ msg' = [msg EXCEPT ![x] = C!Number(pos[c], num[c])]
      BY <1>2 DEF StartPush, P!PushStart, P!PushPanics
    <2>2. UNCHANGED <<hubs, sockets>>
      BY <1>2 DEF StartPush
    <2>3. CASE x = p
      <3>1. task[p][s] = "none"
        BY <2>1, <2>3 DEF PusherInv, PP!Fresh
      <3>2. Found(p, s) = {}
        BY <2>1, <2>3, <3>1 DEF DelivInv, Deliv
      <3> QED BY <2>2, <3>2 DEF HubSame, Found
    <2>4. CASE x # p
      <3>1. msg'[p] = msg[p]
        BY <2>1, <2>4 DEF OwnType
      <3> QED BY <2>2, <3>1 DEF HubSame, Found, Through
    <2> QED BY <2>3, <2>4
  <1>3. ASSUME NEW c \in Conns, Peer(c) \/ Connection(c) PROVE HubSame(p, s)
    <2>1. UNCHANGED <<key, deliv, todo, msg, sockets>>
      BY <1>3, PeersGone DEF Peer, Connection
    <2>2. Found(p, s) \subseteq Conns
      BY DEF Found, OwnType
    <2>3. \A x \in Conns : link[x] = "down" => link'[x] = "down"
      BY <1>3, PeersGone
    <2> QED BY <2>1, <2>2, <2>3 DEF HubSame, Found, Through
  <1>4. ASSUME NEW x \in Pushes, NEW t \in Instances, Delivers(x, t)
        PROVE  HubSame(p, s)
    BY <1>4, OtherDelivery
  <1> QED BY <1>1, <1>2, <1>3, <1>4, HubCases

\* The delivery of p to s itself.
LEMMA OwnDelivery ==
    ASSUME OwnType, HubInv, NEW p \in Pushes, NEW s \in Instances,
           Deliv(p, s), Delivers(p, s)
    PROVE  Deliv(p, s)'
  <1> DEFINE d == <<p, s>>
  <1>1. /\ deliv \in [Pushes \X Instances -> {"new", "send", "done"}]
        /\ todo \in [Pushes \X Instances -> SUBSET Conns]
        /\ target[d] \in Seats /\ target[d][2] = s
        /\ d \in Pushes \X Instances /\ Found(p, s) \subseteq Conns
    BY DEF HubInv, HP!TypeOK, Found, OwnType
  <1>2. UNCHANGED <<push, task, buf, must, gone, msg, key>>
    BY DEF Delivers, StartDelivery, EndDelivery, DropDelivery, Write, H!StartDelivery,
           H!EndDelivery, H!SendText
  <1>3. CASE StartDelivery(p, s)
    <2>1. /\ task[p][s] = "run" /\ deliv[d] = "new"
          /\ deliv'[d] = IF target[d] \in entry THEN "send" ELSE "done"
          /\ todo'[d] = H!Clients(target[d])
          /\ present'[p] = present[p] \cup H!Clients(target[d])
      BY <1>1, <1>3 DEF StartDelivery, H!StartDelivery, OwnType
    <2>2. \A c \in H!Clients(target[d]) : key[c].user[2] = s
      BY <1>1, ClientsType
    <2>3. Found(p, s)' = H!Clients(target[d])
      BY <1>2, <2>1, <2>2 DEF Deliv, Found
    <2>4. CASE target[d] \in entry
      BY <1>2, <2>1, <2>3, <2>4 DEF Deliv
    <2>5. CASE target[d] \notin entry
      <3>1. Served(p, s)'
        BY <2>3, <2>5 DEF Served, H!Clients
      <3> QED BY <1>2, <2>1, <2>5, <3>1 DEF Deliv
    <2> QED BY <2>4, <2>5
  <1>4. CASE EndDelivery(p, s)
    <2>1. /\ deliv[d] = "send" /\ deliv'[d] = "done" /\ todo[d] = {}
          /\ UNCHANGED <<link, written, present>>
      BY <1>1, <1>4 DEF EndDelivery, H!EndDelivery
    <2>2. (Served(p, s))' <=> Served(p, s)
      BY <1>2, <2>1 DEF Served, Found, Through
    <2>3. task[p][s] = "run" => Served(p, s)
      BY <2>1 DEF Deliv, Served
    <2> QED BY <1>2, <2>1, <2>2, <2>3 DEF Deliv
  <1>5. CASE DropDelivery(p, s)
    <2>1. /\ deliv[d] = "send" /\ deliv'[d] = "done" /\ task[p][s] # "run"
          /\ UNCHANGED <<link, written, present>>
      BY <1>1, <1>5 DEF DropDelivery
    <2>2. (Served(p, s))' <=> Served(p, s)
      BY <1>2, <2>1 DEF Served, Found, Through
    <2> QED BY <1>2, <2>1, <2>2 DEF Deliv
  <1>6. ASSUME NEW c \in Conns, Write(p, s, c) PROVE Deliv(p, s)'
    <2>1. /\ deliv[d] = "send" /\ deliv'[d] = "send" /\ todo'[d] = todo[d] \ {c}
          /\ link[c] # "slow" /\ UNCHANGED <<link, present>>
          /\ written' = IF link[c] = "up" THEN [written EXCEPT ![c] = Append(@, msg[p])]
                                          ELSE written
      BY <1>1, <1>6 DEF Write, H!SendText
    <2>2. \A y \in Conns : written'[y] = written[y] \/ written'[y] = Append(written[y], msg[p])
      BY <2>1 DEF OwnType
    <2>3. \A y \in Conns : Through(p, y) => Through(p, y)'
      BY <1>2, <2>1, <2>2, ThroughKept
    <2>4. Through(p, c)'
      <3>1. CASE link[c] = "up"
        <4>1. written'[c] = Append(written[c], msg[p])
          BY <2>1, <3>1 DEF OwnType
        <4>2. written[c] \in Seq([off: Nat, seq: Nat]) /\ msg[p] \in [off: Nat, seq: Nat]
          BY DEF OwnType
        <4>3. /\ written'[c] \in Seq([off: Nat, seq: Nat])
              /\ Len(written[c]) \in Nat /\ Len(written'[c]) = Len(written[c]) + 1
              /\ written'[c][Len(written[c]) + 1] = msg[p]
          BY <4>1, <4>2, AppendProperties, LenProperties
        <4>4. Len(written[c]) + 1 \in DOMAIN written'[c]
          BY <4>3, LenProperties
        <4> QED BY <1>2, <4>3, <4>4 DEF Through
      <3>2. CASE link[c] = "down"
        BY <2>1, <3>2 DEF Through
      <3>3. link[c] \in {"up", "slow", "down"}
        BY DEF HubInv, HP!TypeOK
      <3> QED BY <2>1, <3>1, <3>2, <3>3
    <2>5. Found(p, s)' = Found(p, s)
      BY <1>2, <2>1 DEF Found
    <2>6. Served(p, s) => Served(p, s)'
      BY <1>1, <2>3, <2>5 DEF Served
    <2>7. task[p][s] = "run" => \A y \in Found(p, s) : y \in todo'[d] \/ Through(p, y)'
      BY <1>1, <2>1, <2>3, <2>4 DEF Deliv
    <2> QED BY <1>2, <2>1, <2>5, <2>6, <2>7 DEF Deliv
  <1> QED BY <1>3, <1>4, <1>5, <1>6 DEF Delivers

-----------------------------------------------------------------------------
(* The pushes: what the answer stands for                                  *)

\* The steps of the cluster, the worker and the receiver.
LEMMA ListSame ==
    ASSUME PusherInv, NEW p \in Pushes, NEW s \in Instances,
           \/ \E t \in Instances : Cluster(t)
           \/ P!Worker \/ P!Receiver \/ UNCHANGED pusher
    PROVE  PushSame(p, s)
  <1> USE DEF P!cluster, P!discovery, P!receiver, P!calls
  <1>1. CASE \/ \E t \in Instances : Cluster(t)
             \/ P!Worker \/ UNCHANGED pusher
    BY <1>1 DEF PushSame, Cluster, P!Register, P!Serve, P!Worker, P!Discover, P!DiscoverErr, P!SendInsert, P!SendRemove, P!StoreView
  <1>2. CASE P!TakeInsert \/ P!Connect \/ P!ConnectErr
    BY <1>2 DEF PushSame, P!TakeInsert, P!Connect, P!ConnectErr
  <1>3. CASE P!TakeRemove
    BY <1>3 DEF PushSame, P!TakeRemove, P!Unlist
  <1> QED BY <1>1, <1>2, <1>3 DEF P!Receiver

\* The steps of another push.
LEMMA OtherPush ==
    ASSUME PusherInv, NEW x \in Pushes, PushMoves(x), NEW p \in Pushes, x # p,
           NEW s \in Instances
    PROVE  PushSame(p, s)
  <1> USE DEF P!cluster, P!discovery, P!receiver, P!calls
  <1>1. /\ push \in [Pushes -> PP!PushState]
        /\ task \in [Pushes -> [Instances -> PP!TaskState]]
        /\ must \in [Pushes -> SUBSET Instances]
        /\ buf \in [Pushes -> Seq(Instances)]
    BY DEF PusherInv, PP!TypeInv, PP!TypeOK
  <1>2. CASE P!PushStart(x) \/ P!PushPanics(x) \/ P!EndVisit(x) \/ P!Reply(x)
    BY <1>1, <1>2 DEF PushSame, P!PushStart, P!PushPanics, P!EndVisit, P!Reply
  <1>3. CASE DropPush(x)
    BY <1>1, <1>3 DEF PushSame, DropPush
  <1>4. CASE P!Collect(x)
    <2>1. buf'[p] = buf[p] /\ gone[p] \subseteq gone'[p] /\ UNCHANGED <<push, task, must>>
      BY <1>1, <1>4 DEF P!Collect, P!Unlist
    <2> QED BY <2>1 DEF PushSame
  <1>5. ASSUME NEW t \in Instances,
               P!Visit(x, t) \/ CallOk(x, t) \/ P!CallErr(x, t) \/ P!Report(x, t)
        PROVE  PushSame(p, s)
    <2>1. task'[p] = task[p] /\ buf'[p] = buf[p] /\ UNCHANGED <<push, must, gone>>
      BY <1>1, <1>5 DEF P!Visit, CallOk, P!CallOk, P!CallErr, P!Report
    <2> QED BY <2>1 DEF PushSame
  <1> QED BY <1>2, <1>3, <1>4, <1>5 DEF PushMoves

\* The steps of the push itself.
LEMMA OwnPush ==
    ASSUME PusherInv, NEW p \in Pushes, PushMoves(p), NEW s \in Instances,
           HubSame(p, s), Deliv(p, s)
    PROVE  Deliv(p, s)'
  <1> USE DEF P!cluster, P!discovery, P!receiver, P!calls
  <1>1. /\ push \in [Pushes -> PP!PushState]
        /\ task \in [Pushes -> [Instances -> PP!TaskState]]
        /\ buf[p] \in Seq(Instances) /\ buf \in [Pushes -> Seq(Instances)]
        /\ must \in [Pushes -> SUBSET Instances]
    BY DEF PusherInv, PP!TypeInv, PP!TypeOK
  <1>2. Served(p, s) => Served(p, s)'
    BY DEF HubSame, Served
  <1>3. CASE P!PushStart(p) \/ P!PushPanics(p)
    <2>1. push[p] = "new" /\ push'[p] \in {"visit", "panicked"} /\ UNCHANGED task
      BY <1>1, <1>3 DEF P!PushStart, P!PushPanics
    <2>2. task[p][s] = "none"
      BY <2>1 DEF PusherInv, PP!Fresh
    <2> QED BY <2>1, <2>2 DEF Deliv, HubSame
  <1>4. CASE P!EndVisit(p) \/ DropPush(p)
    <2>1. /\ push[p] \in {"visit", "wait"} /\ push'[p] \in {"wait", "lost"}
          /\ UNCHANGED <<task, buf, must, gone>>
      BY <1>1, <1>4 DEF P!EndVisit, DropPush
    <2> QED BY <1>2, <2>1 DEF Deliv, HubSame
  <1>5. CASE P!Reply(p)
    <2>1. /\ push[p] = "wait" /\ push'[p] = "replied" /\ buf[p] = <<>>
          /\ task[p][s] \in {"none", "done"} /\ UNCHANGED <<task, buf, must, gone>>
      BY <1>1, <1>5 DEF P!Reply
    <2>2. ~ PP!Holds(buf[p], s)
      BY <2>1, EmptySeq DEF PP!Holds
    <2>3. s \in must[p] \ gone[p] => Served(p, s)
      BY <2>1, <2>2 DEF Deliv, PusherInv, PP!Reach
    <2> QED BY <1>2, <2>1, <2>3 DEF Deliv, HubSame
  <1>6. CASE P!Collect(p)
    <2>1. /\ push[p] = "wait" /\ buf[p] # <<>>
          /\ buf'[p] = Tail(buf[p]) /\ UNCHANGED <<push, task, must>>
          /\ gone'[p] = gone[p] \cup {Head(buf[p])}
      BY <1>1, <1>6 DEF P!Collect, P!Unlist, P!Active
    <2>2. PP!Holds(buf[p], s) => PP!Holds(Tail(buf[p]), s) \/ s = Head(buf[p])
      <3>1. ASSUME NEW i \in 1 .. Len(buf[p]), buf[p][i] = s, i # 1
            PROVE  i - 1 \in 1 .. Len(Tail(buf[p])) /\ Tail(buf[p])[i - 1] = s
        <4>1. /\ Len(Tail(buf[p])) = Len(buf[p]) - 1 /\ Len(buf[p]) \in Nat
              /\ \A j \in 1 .. Len(Tail(buf[p])) : Tail(buf[p])[j] = buf[p][j + 1]
          BY <1>1, <2>1, HeadTailProperties, LenProperties
        <4> QED BY <3>1, <4>1
      <3>2. Head(buf[p]) = buf[p][1]
        BY <1>1, <2>1, HeadTailProperties
      <3> QED BY <3>1, <3>2 DEF PP!Holds
    <2>3. PushSame(p, s)
      BY <2>1, <2>2 DEF PushSame
    <2> QED BY <2>3, DelivSame
  <1>7. ASSUME NEW t \in Instances,
               P!Visit(p, t) \/ CallOk(p, t) \/ P!CallErr(p, t), t # s
        PROVE  Deliv(p, s)'
    <2>1. task'[p][s] = task[p][s] /\ UNCHANGED <<push, buf, must, gone>>
      BY <1>1, <1>7 DEF P!Visit, CallOk, P!CallOk, P!CallErr
    <2>2. PushSame(p, s)
      BY <2>1 DEF PushSame
    <2> QED BY <2>2, DelivSame
  <1>8. CASE P!Visit(p, s)
    <2>1. /\ push[p] = "visit" /\ task[p][s] = "none" /\ task'[p][s] = "run"
          /\ UNCHANGED <<push, buf, must, gone>>
      BY <1>1, <1>8 DEF P!Visit
    <2> QED BY <2>1 DEF Deliv, HubSame
  <1>9. CASE CallOk(p, s)
    <2>1. /\ deliv[<<p, s>>] = "done" /\ task[p][s] = "run" /\ task'[p][s] = "done"
          /\ UNCHANGED <<push, buf, must, gone>>
      BY <1>1, <1>9 DEF CallOk, P!CallOk
    <2>2. Served(p, s)
      BY <2>1 DEF Deliv
    <2> QED BY <1>2, <2>1, <2>2 DEF Deliv, HubSame
  <1>10. CASE P!CallErr(p, s)
    <2>1. /\ task[p][s] = "run" /\ task'[p][s] = "err"
          /\ UNCHANGED <<push, buf, must, gone>>
      BY <1>1, <1>10 DEF P!CallErr
    <2> QED BY <2>1 DEF Deliv, HubSame
  <1>11. ASSUME NEW t \in Instances, P!Report(p, t) PROVE Deliv(p, s)'
    <2>1. /\ task[p][t] = "err" /\ task'[p] = [task[p] EXCEPT ![t] = "done"]
          /\ buf'[p] = Append(buf[p], t) /\ UNCHANGED <<push, must, gone>>
      BY <1>1, <1>11 DEF P!Report
    <2>2. /\ Len(buf'[p]) = Len(buf[p]) + 1 /\ Len(buf[p]) \in Nat
          /\ \A i \in 1 .. Len(buf[p]) : buf'[p][i] = buf[p][i]
          /\ buf'[p][Len(buf[p]) + 1] = t
      BY <1>1, <2>1, AppendProperties, LenProperties
    <2>3. /\ PP!Holds(buf'[p], t)
          /\ PP!Holds(buf[p], s) => PP!Holds(buf'[p], s)
      BY <2>2 DEF PP!Holds
    <2>4. CASE t = s
      BY <1>1, <2>1, <2>3, <2>4 DEF Deliv, HubSame
    <2>5. CASE t # s
      <3>1. PushSame(p, s)
        BY <1>1, <2>1, <2>3, <2>5 DEF PushSame
      <3> QED BY <3>1, DelivSame
    <2> QED BY <2>4, <2>5
  <1> QED BY <1>3, <1>4, <1>5, <1>6, <1>7, <1>8, <1>9, <1>10, <1>11 DEF PushMoves

LEMMA RestartKeeps ==
    ASSUME PusherInv, P!Restart, NEW p \in Pushes, NEW s \in Instances,
           HubSame(p, s), Deliv(p, s)
    PROVE  Deliv(p, s)'
  <1>1. push \in [Pushes -> PP!PushState]
    BY DEF PusherInv, PP!TypeInv, PP!TypeOK
  <1>2. /\ task'[p][s] = "none" /\ UNCHANGED <<must, gone>>
        /\ push'[p] = IF push[p] \in {"visit", "wait"} THEN "lost" ELSE push[p]
    BY DEF P!Restart, P!Active
  <1>3. push[p] = "new" => task[p][s] = "none"
    BY DEF PusherInv, PP!Fresh
  <1>4. Served(p, s) => Served(p, s)'
    BY DEF HubSame, Served
  <1> QED BY <1>1, <1>2, <1>3, <1>4 DEF Deliv, HubSame

LEMMA DelivKept ==
    ASSUME OwnType, HubInv, PusherInv, DelivInv, [Next]_vars PROVE DelivInv'
  <1> SUFFICES ASSUME NEW p \in Pushes, NEW s \in Instances PROVE Deliv(p, s)'
    BY DEF DelivInv
  <1>1. Deliv(p, s)
    BY DEF DelivInv
  <1>2. CASE Delivers(p, s)
    BY <1>1, <1>2, OwnDelivery
  <1>3. CASE ~ Delivers(p, s)
    <2>1. HubSame(p, s)
      BY <1>3, HubsSame
    <2>2. CASE \/ \E t \in Instances : Cluster(t)
               \/ P!Worker \/ P!Receiver \/ UNCHANGED pusher
      <3>1. PushSame(p, s)
        BY <2>2, ListSame
      <3> QED BY <1>1, <2>1, <3>1, DelivSame
    <2>3. CASE P!Restart
      BY <1>1, <2>1, <2>3, RestartKeeps
    <2>4. ASSUME NEW x \in Pushes, PushMoves(x) PROVE Deliv(p, s)'
      <3>1. CASE x = p
        BY <1>1, <2>1, <2>4, <3>1, OwnPush
      <3>2. CASE x # p
        <4>1. PushSame(p, s)
          BY <2>4, <3>2, OtherPush
        <4> QED BY <1>1, <2>1, <4>1, DelivSame
      <3> QED BY <3>1, <3>2
    <2> QED BY <2>2, <2>3, <2>4, PusherCases DEF OwnType
  <1> QED BY <1>2, <1>3

-----------------------------------------------------------------------------
(* The theorems                                                            *)

IInv == OwnType /\ PusherInv /\ HubInv /\ PushInv /\ DelivInv

LEMMA Inductive == Spec => [](IInv /\ CP!TypeInv)
  <1>1. Init => IInv
    BY OwnTypeInit, PusherInit, HubInit, PushInit, DelivInit DEF IInv
  <1>2. IInv /\ CP!TypeInv /\ [Next]_vars => IInv'
    BY OwnTypeKept, PusherKept, HubKept, PushKept, DelivKept DEF IInv, OwnType
  <1> QED BY <1>1, <1>2, ConsumerFacts, PTL DEF Spec

\* Every variable of the composition keeps its type: a process waits for one of
\* the pushes there are, and what is written to a socket is a numbered message
\* (consumer/src/main.rs:143, ws/src/rpc.rs:89).
THEOREM TypeCorrect == Spec => []TypeOK
  <1>1. CP!TypeInv => C!TypeOK
    BY DEF CP!TypeInv, CP!TypeOK, C!TypeOK, CP!Phase, C!Phase, CP!Task, C!Task,
           CP!Call, C!Call, CP!Offsets, C!Offsets
  <1>2. PusherInv => P!TypeOK
    BY DEF PusherInv, PP!TypeInv, PP!TypeOK, P!TypeOK, PP!PushState, P!PushState,
           PP!TaskState, P!TaskState, PP!ChangesOf, P!ChangesOf
  <1>3. HubInv => H!TypeOK
    BY DEF HubInv, HP!TypeOK, H!TypeOK, HP!Key, H!Key, HP!ConnState, H!ConnState
  <1>4. IInv /\ CP!TypeInv => TypeOK
    BY <1>1, <1>2, <1>3 DEF IInv, OwnType, CallType, TypeOK
  <1> QED BY <1>4, Inductive, PTL

\* The committed offset passes a message only when the log has an error about it
\* or it was written to every client found in the hubs of the instances listed
\* throughout, whatever crashes, restarts and stalls there are: the end of the
\* topic, the answer of the pusher and the sockets, over three processes
\* (consumer/src/main.rs:96, pusher/src/main.rs:130, ws/src/manager.rs:104).
THEOREM CommitsAreWritten == Spec => []CommittedIsWritten
  <1>1. ASSUME IInv, CP!TypeInv, CP!CommittedIsSettled PROVE CommittedIsWritten
    <2> SUFFICES ASSUME NEW o \in 1 .. committed, ~ C!Logged("incr", o),
                        ~ C!Logged("push", o)
                 PROVE  Written(o)
      BY DEF CommittedIsWritten
    <2>1. CP!Settled(o)
      BY <1>1 DEF CP!CommittedIsSettled
    <2>2. PICK r \in pushed : r.off = o
      BY <2>1 DEF CP!Settled, CP!Pushed, CP!Logged, C!Logged, CP!Error, C!Error
    <2>3. PICK p \in Pushes : msg[p] = r /\ push[p] = "replied"
      BY <1>1 DEF IInv, PushInv
    <2>4. ASSUME NEW c \in present[p], key[c].user[2] \in must[p] \ gone[p], link[c] = "up"
          PROVE  \E i \in DOMAIN written[c] : written[c][i] = msg[p]
      <3>1. key[c].user[2] \in Instances
        BY <1>1, <2>4 DEF IInv, PusherInv, PP!TypeInv, PP!TypeOK
      <3>2. Served(p, key[c].user[2])
        BY <1>1, <2>3, <2>4, <3>1 DEF IInv, DelivInv, Deliv
      <3>3. Through(p, c)
        BY <3>2 DEF Served, Found
      <3> QED BY <2>4, <3>3 DEF Through
    <2> QED BY <2>2, <2>3, <2>4 DEF Written
  <1> QED BY <1>1, Inductive, ConsumerFacts, PTL

-----------------------------------------------------------------------------
(* The order on the sockets: what goes only forward                        *)

\* Budgets of the consumer are only spent, and log lines stay.
HistoryGrows ==
    /\ spent.crash <= spent'.crash /\ spent.rebalance <= spent'.rebalance
    /\ errors \subseteq errors'

LEMMA ConsumerGrows ==
    ASSUME CP!TypeInv, [C!Next]_(C!vars)
    PROVE  /\ HistoryGrows
           /\ \A c \in Consumers : C!Crash(c) => spent'.crash > 0
           /\ \A c \in Consumers : C!Rebalance(c) => spent'.rebalance > 0
  <1> USE DEF C!process, C!stores, C!histories, C!broker
  <1>1. /\ spent.crash \in Nat /\ spent.rebalance \in Nat
        /\ DOMAIN spent = {"crash", "rebalance", "fault"}
        /\ spent = [k \in {"crash", "rebalance", "fault"} |-> spent[k]]
    BY BoundsAssumption DEF CP!TypeInv, CP!TypeOK
  <1>2. ASSUME NEW call_ \in C!Call, NEW o, NEW n, C!Fail(call_, o, n) PROVE HistoryGrows
    BY <1>1, <1>2 DEF C!Fail, HistoryGrows
  <1>3. ASSUME UNCHANGED <<spent, errors>> PROVE HistoryGrows
    BY <1>1, <1>3 DEF HistoryGrows
  <1>4. ASSUME NEW c \in Consumers, C!Crash(c) PROVE HistoryGrows /\ spent'.crash > 0
    BY <1>1, <1>4 DEF C!Crash, HistoryGrows
  <1>5. ASSUME NEW c \in Consumers, C!Rebalance(c)
        PROVE  HistoryGrows /\ spent'.rebalance > 0
    BY <1>1, <1>5 DEF C!Rebalance, C!Give, HistoryGrows
  <1>6. ASSUME NEW c \in Consumers, C!Group(c) PROVE HistoryGrows
    <2>1. CASE C!Assign(c) \/ C!CommitLands(c)
      BY <1>3, <2>1 DEF C!Assign, C!Give, C!CommitLands
    <2>2. CASE C!CommitRefused(c)
      BY <1>1, <2>2 DEF C!CommitRefused, HistoryGrows
    <2> QED BY <1>5, <1>6, <2>1, <2>2 DEF C!Group
  <1>7. ASSUME NEW c \in Consumers, C!Handle(c) PROVE HistoryGrows
    <2>1. CASE C!Recv(c) \/ C!IncreaseSeq(c) \/ C!SendToDb(c) \/ C!SendToPusher(c)
               \/ C!Commit(c)
      BY <1>3, <2>1 DEF C!Recv, C!IncreaseSeq, C!SendToDb, C!SendToPusher, C!Commit
    <2>2. CASE C!IncreaseSeqErr(c) \/ C!SendToDbErr(c) \/ C!SendToPusherErr(c)
      BY <1>2, <2>2 DEF C!IncreaseSeqErr, C!SendToDbErr, C!SendToPusherErr, C!Call
    <2> QED BY <1>7, <2>1, <2>2 DEF C!Handle
  <1>8. ASSUME \/ \E u \in Users : C!Publish(u)
               \/ \E c \in Consumers : C!Restart(c)
               \/ \E q \in late : C!Late(q)
               \/ UNCHANGED C!vars
        PROVE  HistoryGrows
    BY <1>3, <1>8 DEF C!Publish, C!Restart, C!Late, C!vars
  <1>9. HistoryGrows
    BY <1>4, <1>6, <1>7, <1>8 DEF C!Next
  <1> QED BY <1>4, <1>5, <1>9

Counters == used \in [{"start", "stop", "fault", "leave", "crash"} -> Nat]

LEMMA CountersInit == Init => Counters
  BY DEF Init, P!Init, Counters

\* Budgets of the pusher are only spent.
LEMMA UseGrows ==
    ASSUME Counters, NEW w \in {"start", "stop", "fault", "leave", "crash"}, NEW m,
           P!Use(w, m)
    PROVE  /\ Counters' /\ used'[w] > 0
           /\ used.crash <= used'.crash /\ used.fault <= used'.fault
  BY DEF Counters, P!Use

LEMMA PusherGrows ==
    ASSUME CallType, Counters, [Next]_vars
    PROVE  /\ Counters'
           /\ used.crash <= used'.crash /\ used.fault <= used'.fault
           /\ P!Restart => used'.crash > 0
           /\ \A m : \A w \in {"fault", "crash"} : P!Use(w, m) => used'[w] > 0
  <1> USE DEF P!cluster, P!discovery, P!receiver, P!calls
  <1>1. ASSUME UNCHANGED used
        PROVE  Counters' /\ used.crash <= used'.crash /\ used.fault <= used'.fault
    BY <1>1 DEF Counters
  <1>2. ASSUME NEW s \in Instances, Cluster(s)
        PROVE  UNCHANGED used \/ P!Use("start", Cardinality(Instances))
    BY <1>2 DEF Cluster, P!Register, P!Serve, P!Cardinality
  <1>3. ASSUME P!Worker \/ P!Receiver
        PROVE  UNCHANGED used \/ P!Use("fault", MaxFaults)
    BY <1>3 DEF P!Worker, P!Discover, P!DiscoverErr, P!SendInsert, P!SendRemove,
          P!StoreView, P!Receiver, P!TakeInsert, P!TakeRemove, P!Connect, P!ConnectErr
  <1>4. P!Restart => P!Use("crash", MaxRestarts)
    BY DEF P!Restart
  <1>5. ASSUME NEW p \in Pushes, PushMoves(p)
        PROVE  UNCHANGED used \/ P!Use("fault", MaxFaults)
    BY <1>5 DEF PushMoves, P!PushStart, P!PushPanics, P!EndVisit, P!Collect, P!Reply,
          DropPush, P!Visit, CallOk, P!CallOk, P!CallErr, P!Report
  <1>6. Counters' /\ used.crash <= used'.crash /\ used.fault <= used'.fault
    BY <1>1, <1>2, <1>3, <1>4, <1>5, UseGrows, PusherCases
  <1> QED BY <1>4, <1>6, UseGrows

\* The message of a push is settled once the push has begun.
LEMMA MsgStays ==
    ASSUME OwnType, [Next]_vars, NEW p \in Pushes, push[p] # "new"
    PROVE  msg'[p] = msg[p]
  <1>1. ASSUME NEW c \in Consumers, StartPush(c) PROVE msg'[p] = msg[p]
    <2>1. PICK x \in Pushes : /\ push[x] = "new"
                              /\ msg' = [msg EXCEPT ![x] = C!Number(pos[c], num[c])]
      BY <1>1 DEF StartPush, P!PushStart, P!PushPanics
    <2> QED BY <2>1 DEF OwnType
  <1>2. CASE ~ \E c \in Consumers : StartPush(c)
    BY <1>2, Others DEF Answer, PushFails, CrashConsumer, StartDelivery, Write
  <1> QED BY <1>1, <1>2

\* A push that has begun stays begun, whatever becomes of it.
LEMMA BegunStays ==
    ASSUME CallType, PusherInv, [Next]_vars, NEW p \in Pushes,
           push[p] \notin {"new", "panicked"}
    PROVE  push'[p] \notin {"new", "panicked"}
  <1> USE DEF P!cluster, P!discovery, P!receiver, P!calls
  <1>1. push \in [Pushes -> PP!PushState]
    BY DEF PusherInv, PP!TypeInv, PP!TypeOK
  <1>2. ASSUME NEW x \in Pushes, PushMoves(x) PROVE push'[p] \notin {"new", "panicked"}
    BY <1>1, <1>2 DEF PushMoves, P!PushStart, P!PushPanics, P!EndVisit, P!Collect,
          P!Reply, DropPush, P!Visit, CallOk, P!CallOk, P!CallErr, P!Report
  <1>3. CASE P!Restart
    BY <1>1, <1>3 DEF P!Restart, P!Active
  <1>4. CASE \/ \E t \in Instances : Cluster(t)
             \/ P!Worker \/ P!Receiver \/ UNCHANGED pusher
    <2>1. UNCHANGED push
      BY <1>4 DEF Cluster, P!Register, P!Serve, P!Worker, P!Discover, P!DiscoverErr,
            P!SendInsert, P!SendRemove, P!StoreView, P!Receiver, P!TakeInsert,
            P!TakeRemove, P!Connect, P!ConnectErr
    <2> QED BY <2>1
  <1> QED BY <1>2, <1>3, <1>4, PusherCases

\* Nothing that has happened is undone: it was calm before if it is calm after.
LEMMA CalmBefore ==
    ASSUME CP!TypeInv, OwnType, Counters, PusherInv, [Next]_vars, Calm'
    PROVE  Calm
  <1>1. HistoryGrows
    BY ConsumerStep, ConsumerGrows
  <1>2. /\ used.crash <= used'.crash /\ used.fault <= used'.fault
        /\ used.crash \in Nat /\ used.fault \in Nat
    BY PusherGrows DEF Counters, OwnType
  <1>3. spent.crash \in Nat /\ spent.rebalance \in Nat
    BY BoundsAssumption DEF CP!TypeInv, CP!TypeOK
  <1>4. spent.crash = 0 /\ spent.rebalance = 0 /\ used.crash = 0 /\ used.fault = 0
    BY <1>1, <1>2, <1>3 DEF Calm, HistoryGrows
  <1>5. ASSUME NEW p \in Pushes, push[p] \notin {"new", "panicked"}
        PROVE  ~ C!Logged("push", msg[p].off)
    <2>1. push'[p] \notin {"new", "panicked"} /\ msg'[p] = msg[p]
      BY <1>5, BegunStays, MsgStays DEF OwnType
    <2>2. C!Error("push", msg'[p].off) \notin errors'
      BY <2>1 DEF Calm, C!Logged, C!Error
    <2> QED BY <1>1, <2>1, <2>2 DEF HistoryGrows, C!Logged
  <1> QED BY <1>4, <1>5 DEF Calm

-----------------------------------------------------------------------------
(* The order on the sockets: instances, addresses and numbers              *)

\* A process whose push is outstanding had it before, or numbered the message
\* just now; topic and counters only grow.
LEMMA HandOn ==
    ASSUME CP!TypeInv, [C!Next]_(C!vars)
    PROVE  /\ \A u \in Users : seq[u] <= seq'[u]
           /\ \A o \in 1 .. Len(log) : log'[o] = log[o]
           /\ \A x \in Consumers : pushTask'[x] = "run" =>
                 \/ pushTask[x] = "run" /\ pos'[x] = pos[x] /\ num'[x] = num[x]
                 \/ /\ pushTask[x] = "none" /\ pos'[x] = pos[x] /\ pos[x] \in 1 .. Len(log)
                    /\ num'[x] = seq[log[pos[x]]] + 1 /\ seq'[log[pos[x]]] = num'[x]
  <1> USE DEF C!process, C!stores, C!histories, C!broker
  <1> DEFINE Grows == /\ \A u \in Users : seq[u] <= seq'[u]
                      /\ \A o \in 1 .. Len(log) : log'[o] = log[o]
             Has(x) == pushTask[x] = "run" /\ pos'[x] = pos[x] /\ num'[x] = num[x]
             Takes(x) == /\ pushTask[x] = "none" /\ pos'[x] = pos[x]
                         /\ pos[x] \in 1 .. Len(log)
                         /\ num'[x] = seq[log[pos[x]]] + 1 /\ seq'[log[pos[x]]] = num'[x]
             Goal == Grows /\ \A x \in Consumers : pushTask'[x] = "run" => Has(x) \/ Takes(x)
  <1>0. /\ pushTask \in [Consumers -> {"none", "run", "done"}]
        /\ pos \in [Consumers -> 0 .. Len(log)] /\ num \in [Consumers -> Nat]
        /\ pc \in [Consumers -> C!Phase]
        /\ seq \in [Users -> Nat] /\ log \in Seq(Users) /\ Len(log) \in Nat
        /\ \A o \in 1 .. Len(log) : log[o] \in Users
        /\ \A c \in Consumers : /\ pc[c] \in {"seq", "join"} => pos[c] \in 1 .. Len(log)
                                /\ pc[c] # "join" => pushTask[c] = "none"
    BY ElementOfSeq, LenProperties
       DEF CP!TypeInv, CP!TypeOK, CP!PhaseOK, CP!Task, CP!Phase, C!Phase, CP!Offsets
  <1>1. ASSUME UNCHANGED <<seq, log>> PROVE Grows
    BY <1>0, <1>1
  <1>2. ASSUME UNCHANGED <<seq, log, pushTask, pos, num>> PROVE Goal
    BY <1>1, <1>2
  <1>3. ASSUME NEW u \in Users, C!Publish(u) PROVE Goal
    <2>1. \A o \in 1 .. Len(log) : log'[o] = log[o]
      BY <1>0, <1>3, AppendProperties DEF C!Publish
    <2>2. UNCHANGED <<seq, pushTask, pos, num>>
      BY <1>3 DEF C!Publish
    <2> QED BY <1>0, <2>1, <2>2
  <1>4. ASSUME NEW c \in Consumers, C!Group(c) PROVE Goal
    <2>1. CASE C!CommitLands(c) \/ C!CommitRefused(c)
      BY <1>2, <2>1 DEF C!CommitLands, C!CommitRefused
    <2>2. CASE C!Assign(c) \/ C!Rebalance(c)
      <3>1. C!Give(c)
        BY <2>2 DEF C!Assign, C!Rebalance
      <3>2. \A x \in Consumers : pushTask'[x] = "run" => Has(x)
        BY <1>0, <3>1 DEF C!Give
      <3> QED BY <1>1, <3>1, <3>2 DEF C!Give
    <2> QED BY <1>4, <2>1, <2>2 DEF C!Group
  <1>5. ASSUME NEW c \in Consumers, C!Handle(c) PROVE Goal
    <2>1. CASE C!Recv(c)
      <3>1. \A x \in Consumers : pushTask'[x] = "run" => Has(x)
        BY <1>0, <2>1 DEF C!Recv
      <3> QED BY <1>1, <2>1, <3>1 DEF C!Recv
    <2>2. CASE C!IncreaseSeq(c)
      <3>1. /\ pc[c] = "seq" /\ seq' = [seq EXCEPT ![log[pos[c]]] = @ + 1]
            /\ num' = [num EXCEPT ![c] = seq[log[pos[c]]] + 1]
            /\ pushTask' = [pushTask EXCEPT ![c] = "run"] /\ UNCHANGED <<pos, log>>
        BY <2>2 DEF C!IncreaseSeq, C!Incr
      <3>2. Grows
        BY <1>0, <3>1
      <3>3. Takes(c)
        BY <1>0, <3>1
      <3>4. ASSUME NEW x \in Consumers, x # c, pushTask'[x] = "run" PROVE Has(x)
        BY <1>0, <3>1, <3>4
      <3> QED BY <3>2, <3>3, <3>4
    <2>3. CASE C!IncreaseSeqErr(c) \/ C!SendToDb(c) \/ C!SendToDbErr(c)
      BY <1>2, <2>3 DEF C!IncreaseSeqErr, C!SendToDb, C!SendToDbErr
    <2>4. CASE C!SendToPusher(c) \/ C!SendToPusherErr(c)
      <3>1. pushTask' = [pushTask EXCEPT ![c] = "done"] /\ UNCHANGED <<seq, log, pos, num>>
        BY <2>4 DEF C!SendToPusher, C!SendToPusherErr
      <3>2. \A x \in Consumers : pushTask'[x] = "run" => Has(x)
        BY <1>0, <3>1
      <3> QED BY <1>1, <3>1, <3>2
    <2>5. CASE C!Commit(c)
      <3>1. \A x \in Consumers : pushTask'[x] = "run" => Has(x)
        BY <1>0, <2>5 DEF C!Commit
      <3> QED BY <1>1, <2>5, <3>1 DEF C!Commit
    <2> QED BY <1>5, <2>1, <2>2, <2>3, <2>4, <2>5 DEF C!Handle
  <1>6. ASSUME NEW c \in Consumers, C!Crash(c) PROVE Goal
    <2>1. \A x \in Consumers : pushTask'[x] = "run" => Has(x)
      BY <1>0, <1>6 DEF C!Crash
    <2> QED BY <1>1, <1>6, <2>1 DEF C!Crash
  <1>7. ASSUME NEW c \in Consumers, C!Restart(c) PROVE Goal
    BY <1>2, <1>7 DEF C!Restart
  <1>8. ASSUME NEW q \in late, C!Late(q) PROVE Goal
    <2>1. /\ seq' = seq \/ \E r : seq' = [seq EXCEPT ![r] = @ + 1]
          /\ UNCHANGED <<log, pushTask, pos, num>>
      BY <1>8 DEF C!Late, C!Incr
    <2>2. ASSUME NEW r, seq' = [seq EXCEPT ![r] = @ + 1]
          PROVE  \A u \in Users : seq[u] <= seq'[u]
      BY <1>0, <2>2
    <2>3. \A u \in Users : seq[u] <= seq'[u]
      BY <1>0, <2>1, <2>2
    <2> QED BY <2>1, <2>3
  <1>9. CASE UNCHANGED C!vars
    BY <1>2, <1>9 DEF C!vars
  <1> QED BY <1>3, <1>4, <1>5, <1>6, <1>7, <1>8, <1>9 DEF C!Next

\* Listed instances, and those that are called, serve: none of them stops here.
Serving ==
    \A s \in Instances :
        s \in list \/ (\E p \in Pushes : task[p][s] = "run") => inst[s] = "serving"

LEMMA ServingKept ==
    ASSUME CallType, PusherInv, Serving, [Next]_vars PROVE Serving'
  <1> USE DEF P!cluster, P!discovery, P!receiver, P!calls
  <1>1. /\ inst \in [Instances -> {"down", "registered", "serving"}]
        /\ task \in [Pushes -> [Instances -> PP!TaskState]]
        /\ list \subseteq Instances /\ dial \in Instances \cup {None}
    BY DEF PusherInv, PP!TypeInv, PP!TypeOK
  <1>2. ASSUME NEW t \in Instances, Cluster(t) PROVE Serving'
    <2>1. UNCHANGED <<list, task>>
      BY <1>2 DEF Cluster, P!Register, P!Serve
    <2>2. \A s \in Instances : inst[s] = "serving" => inst'[s] = "serving"
      BY <1>1, <1>2 DEF Cluster, P!Register, P!Serve
    <2> QED BY <2>1, <2>2 DEF Serving
  <1>3. CASE P!Worker \/ UNCHANGED pusher
    BY <1>3 DEF Serving, P!Worker, P!Discover, P!DiscoverErr, P!SendInsert, P!SendRemove,
          P!StoreView
  <1>4. CASE P!Receiver
    BY <1>1, <1>4 DEF Serving, P!Receiver, P!TakeInsert, P!TakeRemove, P!Connect,
          P!ConnectErr, P!Unlist
  <1>5. CASE P!Restart
    BY <1>5 DEF Serving, P!Restart
  <1>6. ASSUME NEW p \in Pushes, PushMoves(p) PROVE Serving'
    <2>1. CASE P!PushStart(p) \/ P!PushPanics(p) \/ P!EndVisit(p) \/ P!Reply(p)
               \/ DropPush(p)
      BY <2>1 DEF Serving, P!PushStart, P!PushPanics, P!EndVisit, P!Reply, DropPush
    <2>2. CASE P!Collect(p)
      BY <2>2 DEF Serving, P!Collect, P!Unlist
    <2>3. ASSUME NEW t \in Instances, P!Visit(p, t) PROVE Serving'
      <3>1. /\ t \in list /\ UNCHANGED <<list, inst>>
            /\ \A x \in Pushes, s \in Instances :
                  task'[x][s] = "run" => task[x][s] = "run" \/ s = t
        BY <1>1, <2>3 DEF P!Visit
      <3> QED BY <3>1 DEF Serving
    <2>4. ASSUME NEW t \in Instances, CallOk(p, t) \/ P!CallErr(p, t) \/ P!Report(p, t)
          PROVE  Serving'
      <3>1. /\ UNCHANGED <<list, inst>>
            /\ \A x \in Pushes, s \in Instances : task'[x][s] = "run" => task[x][s] = "run"
        BY <1>1, <2>4 DEF CallOk, P!CallOk, P!CallErr, P!Report
      <3> QED BY <3>1 DEF Serving
    <2> QED BY <1>6, <2>1, <2>2, <2>3, <2>4 DEF PushMoves
  <1> QED BY <1>2, <1>3, <1>4, <1>5, <1>6, PusherCases

LEMMA InTopic ==
    ASSUME CP!TypeInv, NEW x \in Consumers, pushTask[x] = "run"
    PROVE  pos[x] \in 1 .. Len(log)
  <1>1. pos[x] \in DOMAIN log /\ log \in Seq(Users)
    BY HandFree DEF CP!TypeInv, CP!PhaseOK, CP!Offsets, CP!TypeOK
  <1> QED BY <1>1, LenProperties

\* The number of the message in hand is not above the counter.
Numbered ==
    \A x \in Consumers : pushTask[x] = "run" => num[x] <= seq[log[pos[x]]]

LEMMA NumberedKept ==
    ASSUME CP!TypeInv, Numbered, [Next]_vars PROVE Numbered'
  <1>1. /\ \A u \in Users : seq[u] <= seq'[u] /\ seq[u] \in Nat /\ seq'[u] \in Nat
        /\ num \in [Consumers -> Nat]
        /\ \A o \in 1 .. Len(log) : log'[o] = log[o] /\ log[o] \in Users
    <2>1. CP!TypeInv'
      BY CP!TypeStep, ConsumerStep, SameConsumer, NoneAssumption, BoundsAssumption
    <2>2. \A o \in 1 .. Len(log) : log[o] \in Users
      BY ElementOfSeq DEF CP!TypeInv, CP!TypeOK
    <2> QED BY <2>1, <2>2, ConsumerStep, HandOn DEF CP!TypeInv, CP!TypeOK
  <1>2. ASSUME NEW x \in Consumers, pushTask'[x] = "run"
        PROVE  num'[x] <= seq'[log'[pos'[x]]]
    <2>1. CASE pushTask[x] = "run" /\ pos'[x] = pos[x] /\ num'[x] = num[x]
      <3>1. pos[x] \in 1 .. Len(log)
        BY <2>1, InTopic
      <3> QED BY <1>1, <2>1, <3>1 DEF Numbered
    <2>2. CASE /\ pos'[x] = pos[x] /\ pos[x] \in 1 .. Len(log)
               /\ num'[x] = seq[log[pos[x]]] + 1 /\ seq'[log[pos[x]]] = num'[x]
      BY <1>1, <2>2
    <2> QED BY <1>2, <2>1, <2>2, ConsumerStep, HandOn
  <1> QED BY <1>2 DEF Numbered

\* A process waits for a push to the receiver of the message it has in hand.
Addressed ==
    \A x \in Consumers : call[x] # 0 =>
        \A s \in Instances : target[<<call[x], s>>] = <<log[pos[x]], s>>

\* A delivery is to write to connections of its user only.
TodoFits ==
    \A d \in Pushes \X Instances : \A c \in todo[d] : key[c].user = target[d]

LEMMA DeliveryGoes ==
    ASSUME OwnType, HubInv, [Next]_vars
    PROVE  /\ UNCHANGED <<key, target>>
           /\ \A p \in Pushes, s \in Instances :
                 /\ deliv[<<p, s>>] # "new" =>
                       deliv'[<<p, s>>] # "new" /\ todo'[<<p, s>>] \subseteq todo[<<p, s>>]
                 /\ deliv'[<<p, s>>] = "send" =>
                       deliv[<<p, s>>] = "send" \/ StartDelivery(p, s)
                 /\ todo'[<<p, s>>] \subseteq
                       todo[<<p, s>>] \cup H!Clients(target[<<p, s>>])
  <1>1. /\ deliv \in [Pushes \X Instances -> {"new", "send", "done"}]
        /\ todo \in [Pushes \X Instances -> SUBSET Conns]
    BY DEF HubInv, HP!TypeOK
  <1>2. CASE UNCHANGED hubs
    BY <1>2
  <1>3. ASSUME NEW c \in Conns, Peer(c) \/ Connection(c)
        PROVE  UNCHANGED <<key, target, deliv, todo>>
    BY <1>3, PeersGone
  <1>4. ASSUME NEW x \in Pushes, NEW t \in Instances, Delivers(x, t)
        PROVE  UNCHANGED <<key, target>>
    BY <1>4 DEF Delivers, StartDelivery, H!StartDelivery, EndDelivery, H!EndDelivery,
                DropDelivery, Write, H!SendText
  <1>5. ASSUME NEW x \in Pushes, NEW t \in Instances, Delivers(x, t),
               NEW p \in Pushes, NEW s \in Instances
        PROVE  /\ deliv[<<p, s>>] # "new" =>
                     deliv'[<<p, s>>] # "new" /\ todo'[<<p, s>>] \subseteq todo[<<p, s>>]
               /\ deliv'[<<p, s>>] = "send" =>
                     deliv[<<p, s>>] = "send" \/ StartDelivery(p, s)
               /\ todo'[<<p, s>>] \subseteq
                     todo[<<p, s>>] \cup H!Clients(target[<<p, s>>])
    <2>1. CASE <<x, t>> # <<p, s>>
      <3>1. HubSame(p, s)
        BY <1>5, <2>1, OtherDelivery
      <3> QED BY <3>1 DEF HubSame
    <2>2. CASE x = p /\ t = s
      <3>1. CASE StartDelivery(p, s)
        BY <1>1, <3>1 DEF StartDelivery, H!StartDelivery
      <3>2. CASE EndDelivery(p, s) \/ DropDelivery(p, s)
        BY <1>1, <3>2 DEF EndDelivery, H!EndDelivery, DropDelivery
      <3>3. ASSUME NEW c \in Conns, Write(p, s, c)
            PROVE  /\ deliv[<<p, s>>] = "send" /\ deliv'[<<p, s>>] = "send"
                   /\ todo'[<<p, s>>] \subseteq todo[<<p, s>>]
        BY <1>1, <3>3 DEF Write, H!SendText
      <3> QED BY <1>5, <2>2, <3>1, <3>2, <3>3 DEF Delivers
    <2> QED BY <2>1, <2>2
  <1>6. CASE \E c \in Consumers : StartPush(c)
    BY <1>2, <1>6 DEF StartPush
  <1> QED BY <1>2, <1>3, <1>4, <1>5, <1>6, HubCases

LEMMA TodoKept ==
    ASSUME OwnType, HubInv, TodoFits, [Next]_vars PROVE TodoFits'
  <1> SUFFICES ASSUME NEW p \in Pushes, NEW s \in Instances,
                      NEW c \in todo'[<<p, s>>]
               PROVE  key'[c].user = target'[<<p, s>>]
    BY DEF TodoFits
  <1>1. target[<<p, s>>] \in Seats
    BY DEF HubInv, HP!TypeOK
  <1>2. c \in todo[<<p, s>>] \/ c \in H!Clients(target[<<p, s>>])
    BY DeliveryGoes
  <1>3. key[c].user = target[<<p, s>>]
    BY <1>1, <1>2, ClientsType DEF TodoFits
  <1> QED BY <1>3, DeliveryGoes

LEMMA AddressedKept ==
    ASSUME OwnType, CP!TypeInv, HubInv, PushInv, PushInv', Addressed, [Next]_vars
    PROVE  Addressed'
  <1> SUFFICES ASSUME NEW x \in Consumers, call'[x] # 0, NEW s \in Instances
               PROVE  target'[<<call'[x], s>>] = <<log'[pos'[x]], s>>
    BY DEF Addressed
  <1>1. target' = target
    BY DeliveryGoes
  <1>2. ASSUME StartPush(x) PROVE target[<<call'[x], s>>] = <<log'[pos'[x]], s>>
    <2>1. PICK p \in Pushes : /\ call' = [call EXCEPT ![x] = p]
                              /\ Receiver(p) = log[pos[x]] /\ UNCHANGED consumer
      BY <1>2 DEF StartPush
    <2>2. call'[x] = p
      BY <2>1 DEF OwnType, CallType
    <2>3. \E u \in Users : \A t \in Instances : target[<<p, t>>] = <<u, t>>
      BY DEF HubInv
    <2>4. target[<<p, s>>] = <<Receiver(p), s>>
      BY <2>3 DEF Receiver
    <2> QED BY <2>1, <2>2, <2>4
  <1>3. ASSUME ~ StartPush(x) PROVE target[<<call'[x], s>>] = <<log'[pos'[x]], s>>
    <2>1. call'[x] = call[x]
      <3>1. ASSUME NEW c \in Consumers, Answer(c) \/ PushFails(c) \/ CrashConsumer(c)
            PROVE  c # x /\ call'[x] = call[x]
        <4>1. call' = [call EXCEPT ![c] = 0]
          BY <3>1 DEF Answer, PushFails, CrashConsumer
        <4> QED BY <4>1 DEF OwnType, CallType
      <3>2. ASSUME NEW c \in Consumers, StartPush(c) PROVE call'[x] = call[x]
        BY <1>3, <3>2 DEF StartPush, OwnType, CallType
      <3>3. ASSUME NEW p \in Pushes, NEW t \in Instances,
                   StartDelivery(p, t) \/ \E c \in Conns : Write(p, t, c)
            PROVE  call' = call
        BY <3>3 DEF StartDelivery, Write
      <3> QED BY <3>1, <3>2, <3>3, Others
    <2>2. pushTask[x] = "run" /\ target[<<call[x], s>>] = <<log[pos[x]], s>>
      BY <2>1 DEF PushInv, Addressed
    <2>3. pos[x] \in 1 .. Len(log)
      BY <2>2, InTopic
    <2>4. pushTask'[x] = "run"
      BY DEF PushInv
    <2>5. pos'[x] = pos[x]
      BY <2>2, <2>4, ConsumerStep, HandOn
    <2>6. log'[pos[x]] = log[pos[x]]
      BY <2>3, ConsumerStep, HandOn
    <2> QED BY <2>1, <2>2, <2>5, <2>6
  <1> QED BY <1>1, <1>2, <1>3

Side == Counters /\ Serving /\ Numbered /\ Addressed /\ TodoFits

LEMMA SideInit == Init => Side
  <1> SUFFICES ASSUME Init PROVE Side
    OBVIOUS
  <1>1. Serving /\ Numbered /\ Addressed
    BY DEF Init, C!Init, P!Init, Serving, Numbered, Addressed
  <1>2. TodoFits
    BY DEF Init, H!Init, TodoFits
  <1> QED BY <1>1, <1>2, CountersInit DEF Side

State == CP!TypeInv /\ IInv /\ Side

-----------------------------------------------------------------------------
(* The order on the sockets: the calm                                      *)

\* Only the owner of the partition has a message in hand.
Owner == \A x \in Consumers : pc[x] \in {"seq", "join"} => x = assigned

\* Somebody waits for every push under way.
Waits == \A p \in Pushes : push[p] \in {"visit", "wait"} => \E x \in Consumers : call[x] = p

\* No call of the pusher failed, a delivery under way is waited for by a task,
\* and a task by its push.
Runs ==
    \A p \in Pushes, s \in Instances :
        /\ task[p][s] # "err"
        /\ deliv[<<p, s>>] = "send" => task[p][s] = "run"
        /\ task[p][s] = "run" => push[p] \in {"visit", "wait"}

Increasing ==
    \A c \in Conns : \A i, j \in DOMAIN written[c] :
        i < j => written[c][i].seq < written[c][j].seq

\* What is written is numbered below the counter of its user.
Covered ==
    \A c \in Conns : \A i \in DOMAIN written[c] : written[c][i].seq <= seq[key[c].user[1]]

AllBelow(c, n) == \A i \in DOMAIN written[c] : written[c][i].seq < n

\* The delivery of push p is through with c.
Past(p, c) ==
    p # 0 /\ deliv[<<p, key[c].user[2]>>] # "new" /\ c \notin todo[<<p, key[c].user[2]>>]

\* A client of the receiver was written the message in hand already, or nothing
\* but messages before it.
Below ==
    \A x \in Consumers : pushTask[x] = "run" =>
        \A c \in Conns : key[c].user[1] = log[pos[x]] =>
            AllBelow(c, num[x]) \/ Past(call[x], c)

CalmInv == Owner /\ Waits /\ Runs /\ Increasing /\ Covered /\ Below

LEMMA CalmInit == Init => CalmInv
  BY DEF Init, C!Init, P!Init, H!Init, CalmInv, Owner, Waits, Runs, Increasing, Covered,
         Below

LEMMA OwnerKept ==
    ASSUME CP!TypeInv, [Next]_vars, Owner, spent'.crash = 0, spent'.rebalance = 0
    PROVE  Owner'
  <1> USE DEF C!process, C!stores, C!histories, C!broker
  <1>1. pc \in [Consumers -> CP!Phase] /\ None \notin Consumers
    BY NoneAssumption DEF CP!TypeInv, CP!TypeOK
  <1>2. \A c \in Consumers : ~ C!Crash(c) /\ ~ C!Rebalance(c)
    BY ConsumerStep, ConsumerGrows
  <1>3. CASE UNCHANGED <<pc, assigned>>
    BY <1>3 DEF Owner
  <1>4. ASSUME NEW c \in Consumers, C!Group(c) PROVE Owner'
    BY <1>1, <1>2, <1>4 DEF Owner, C!Group, C!Assign, C!Give, C!CommitLands,
          C!CommitRefused
  <1>5. ASSUME NEW c \in Consumers, C!Handle(c) PROVE Owner'
    BY <1>1, <1>5 DEF Owner, C!Handle, C!Recv, C!IncreaseSeq, C!IncreaseSeqErr,
          C!SendToDb, C!SendToDbErr, C!SendToPusher, C!SendToPusherErr, C!Commit
  <1>6. ASSUME NEW c \in Consumers, C!Restart(c) PROVE Owner'
    BY <1>1, <1>6 DEF Owner, C!Restart
  <1>7. ASSUME \/ \E u \in Users : C!Publish(u)
               \/ \E q \in late : C!Late(q)
               \/ UNCHANGED C!vars
        PROVE  UNCHANGED <<pc, assigned>>
    BY <1>7 DEF C!Publish, C!Late, C!vars
  <1> QED BY <1>2, <1>3, <1>4, <1>5, <1>6, <1>7, ConsumerStep DEF C!Next

\* Without a push that begins, no push is under way that was not.
LEMMA PushBegins ==
    ASSUME CallType, PusherInv, [Next]_vars, ~ \E c \in Consumers : StartPush(c),
           NEW p \in Pushes, push'[p] \in {"visit", "wait"}
    PROVE  push[p] \in {"visit", "wait"}
  <1> USE DEF P!cluster, P!discovery, P!receiver, P!calls
  <1>1. push \in [Pushes -> PP!PushState]
    BY DEF PusherInv, PP!TypeInv, PP!TypeOK
  <1>2. ASSUME NEW x \in Pushes, PushMoves(x) PROVE push[p] \in {"visit", "wait"}
    BY <1>1, <1>2 DEF PushMoves, P!EndVisit, P!Collect, P!Reply, DropPush, P!Visit,
          CallOk, P!CallOk, P!CallErr, P!Report
  <1>3. CASE P!Restart
    BY <1>1, <1>3 DEF P!Restart, P!Active
  <1>4. CASE \/ \E t \in Instances : Cluster(t)
             \/ P!Worker \/ P!Receiver \/ UNCHANGED pusher
    <2>1. UNCHANGED push
      BY <1>4 DEF Cluster, P!Register, P!Serve, P!Worker, P!Discover, P!DiscoverErr,
            P!SendInsert, P!SendRemove, P!StoreView, P!Receiver, P!TakeInsert,
            P!TakeRemove, P!Connect, P!ConnectErr
    <2> QED BY <2>1
  <1> QED BY <1>2, <1>3, <1>4, PusherCases

LEMMA WaitsKept ==
    ASSUME State, Waits, Calm', [Next]_vars PROVE Waits'
  <1> SUFFICES ASSUME NEW p \in Pushes, push'[p] \in {"visit", "wait"}
               PROVE  \E x \in Consumers : call'[x] = p
    BY DEF Waits
  <1> USE DEF State, IInv, OwnType, CallType
  <1>0. push \in [Pushes -> PP!PushState]
    BY DEF PusherInv, PP!TypeInv, PP!TypeOK
  <1>1. ASSUME NEW c \in Consumers, StartPush(c) PROVE \E x \in Consumers : call'[x] = p
    <2>1. PICK q \in Pushes : /\ call[c] = 0 /\ call' = [call EXCEPT ![c] = q]
                              /\ \A r \in Pushes : r # q => push'[r] = push[r]
      BY <1>0, <1>1 DEF StartPush, P!PushStart, P!PushPanics
    <2>2. CASE p = q
      BY <2>1, <2>2
    <2>3. CASE p # q
      <3>1. PICK x \in Consumers : call[x] = p
        BY <2>1, <2>3 DEF Waits
      <3>2. p # 0
        BY DEF Pushes
      <3> QED BY <2>1, <3>1, <3>2
    <2> QED BY <2>2, <2>3
  <1>2. CASE ~ \E c \in Consumers : StartPush(c)
    <2>0. PICK x \in Consumers : call[x] = p
      BY <1>2, PushBegins DEF Waits
    <2>1. p # 0
      BY DEF Pushes
    <2>2. ASSUME NEW c \in Consumers, Answer(c) PROVE call'[x] = p
      <3>1. push'[call[c]] = "replied" /\ call' = [call EXCEPT ![c] = 0]
        BY <1>0, <2>2, CallsArePushes DEF Answer, P!Reply
      <3> QED BY <2>0, <3>1
    <2>3. ASSUME NEW c \in Consumers, PushFails(c) PROVE call'[x] = p
      <3>1. /\ call' = [call EXCEPT ![c] = 0] /\ UNCHANGED <<push, msg>>
            /\ C!Error("push", pos[c]) \in errors'
        BY <2>3 DEF PushFails, C!SendToPusherErr, C!Fail
      <3>2. x # c
        <4>1. CASE x = c
          <5>0. msg[p] = C!Number(pos[c], num[c])
            BY <2>0, <2>1, <4>1 DEF PushInv
          <5>1. msg[p].off = pos[c]
            BY ONLY <5>0 DEF C!Number
          <5>2. C!Error("push", msg'[p].off) \notin errors'
            BY DEF Calm, C!Logged, C!Error
          <5> QED BY <3>1, <5>1, <5>2
        <4> QED BY <4>1
      <3> QED BY <2>0, <3>1, <3>2
    <2>4. ASSUME NEW c \in Consumers, CrashConsumer(c) PROVE FALSE
      <3>1. spent'.crash > 0
        BY <2>4, ConsumerStep, ConsumerGrows DEF CrashConsumer
      <3> QED BY <3>1 DEF Calm
    <2>5. ASSUME UNCHANGED call PROVE call'[x] = p
      BY <2>0, <2>5
    <2>6. ASSUME NEW q \in Pushes, NEW s \in Instances,
                 StartDelivery(q, s) \/ \E c \in Conns : Write(q, s, c)
          PROVE  UNCHANGED call
      BY <2>6 DEF StartDelivery, Write
    <2> QED BY <1>2, <2>2, <2>3, <2>4, <2>5, <2>6, Others
  <1> QED BY <1>1, <1>2

LEMMA RunsKept ==
    ASSUME State, Waits, Runs, Calm', [Next]_vars PROVE Runs'
  <1> SUFFICES ASSUME NEW p \in Pushes, NEW s \in Instances
               PROVE  /\ task'[p][s] # "err"
                      /\ deliv'[<<p, s>>] = "send" => task'[p][s] = "run"
                      /\ task'[p][s] = "run" => push'[p] \in {"visit", "wait"}
    BY DEF Runs
  <1> USE DEF State, IInv, OwnType, Side, P!cluster, P!discovery, P!receiver, P!calls
  <1>1. /\ push \in [Pushes -> PP!PushState]
        /\ task \in [Pushes -> [Instances -> PP!TaskState]]
    BY DEF PusherInv, PP!TypeInv, PP!TypeOK
  <1>2. /\ task[p][s] # "err"
        /\ deliv[<<p, s>>] = "send" => task[p][s] = "run"
        /\ task[p][s] = "run" => push[p] \in {"visit", "wait"}
    BY DEF Runs
  <1>3. deliv'[<<p, s>>] = "send" => task[p][s] = "run"
    BY <1>2, DeliveryGoes DEF StartDelivery
  <1>4. used'.crash = 0 /\ used'.fault = 0
    BY DEF Calm
  <1>5. ASSUME push'[p] = push[p], task'[p][s] = task[p][s]
        PROVE  /\ task'[p][s] # "err"
               /\ deliv'[<<p, s>>] = "send" => task'[p][s] = "run"
               /\ task'[p][s] = "run" => push'[p] \in {"visit", "wait"}
    BY <1>2, <1>3, <1>5
  <1>6. CASE \/ \E t \in Instances : Cluster(t)
             \/ P!Worker \/ P!Receiver \/ UNCHANGED pusher
    <2>1. PushSame(p, s)
      BY <1>6, ListSame
    <2> QED BY <1>5, <2>1 DEF PushSame
  <1>7. ~ P!Restart
    <2>1. P!Restart => used'.crash > 0
      BY PusherGrows
    <2> QED BY <1>4, <2>1
  <1>8. ASSUME NEW x \in Pushes, PushMoves(x), x # p
        PROVE  push'[p] = push[p] /\ task'[p][s] = task[p][s]
    <2>1. PushSame(p, s)
      BY <1>8, OtherPush
    <2> QED BY <2>1 DEF PushSame
  <1>9. ASSUME PushMoves(p)
        PROVE  /\ task'[p][s] # "err"
               /\ deliv'[<<p, s>>] = "send" => task'[p][s] = "run"
               /\ task'[p][s] = "run" => push'[p] \in {"visit", "wait"}
    <2>1. CASE P!PushStart(p) \/ P!PushPanics(p)
      <3>1. push[p] = "new" /\ UNCHANGED task
        BY <2>1 DEF P!PushStart, P!PushPanics
      <3>2. task[p][s] = "none"
        BY <3>1 DEF PusherInv, PP!Fresh
      <3> QED BY <1>3, <3>1, <3>2
    <2>2. CASE P!EndVisit(p)
      BY <1>1, <1>2, <1>3, <2>2 DEF P!EndVisit
    <2>3. CASE P!Collect(p)
      BY <1>5, <2>3 DEF P!Collect
    <2>4. CASE P!Reply(p)
      <3>1. task[p][s] \in {"none", "done"} /\ UNCHANGED task
        BY <2>4 DEF P!Reply
      <3> QED BY <1>3, <3>1
    <2>5. ~ DropPush(p)
      BY DEF DropPush, Awaited, Waits
    <2>6. ASSUME NEW t \in Instances, P!Visit(p, t) \/ CallOk(p, t)
          PROVE  /\ task'[p][s] # "err"
                 /\ deliv'[<<p, s>>] = "send" => task'[p][s] = "run"
                 /\ task'[p][s] = "run" => push'[p] \in {"visit", "wait"}
      <3>1. CASE t # s
        BY <1>1, <1>5, <2>6, <3>1 DEF P!Visit, CallOk, P!CallOk
      <3>2. CASE P!Visit(p, s)
        BY <1>1, <1>2, <1>3, <3>2 DEF P!Visit
      <3>3. CASE CallOk(p, s)
        <4>1. deliv'[<<p, s>>] = "done" /\ task'[p][s] = "done"
          BY <1>1, <3>3 DEF CallOk, P!CallOk
        <4> QED BY <4>1
      <3> QED BY <2>6, <3>1, <3>2, <3>3
    <2>7. ASSUME NEW t \in Instances, P!CallErr(p, t) PROVE FALSE
      <3>1. inst[t] = "serving"
        BY <2>7 DEF P!CallErr, Serving
      <3>2. P!Use("fault", MaxFaults)
        BY <2>7, <3>1 DEF P!CallErr
      <3>3. used'.fault > 0
        BY <3>2, PusherGrows
      <3> QED BY <1>4, <3>3
    <2>8. ASSUME NEW t \in Instances, P!Report(p, t) PROVE FALSE
      BY <2>8 DEF P!Report, Runs
    <2> QED BY <1>9, <2>1, <2>2, <2>3, <2>4, <2>5, <2>6, <2>7, <2>8 DEF PushMoves
  <1> QED BY <1>5, <1>6, <1>7, <1>8, <1>9, PusherCases

\* A message is written as part of the push the owner of the partition waits
\* for, to a client of the receiver that was written only messages before it.
LEMMA WriteFacts ==
    ASSUME State, CalmInv, NEW p \in Pushes, NEW s \in Instances, NEW c \in Conns,
           Write(p, s, c)
    PROVE  \E x \in Consumers :
              /\ call[x] = p /\ pushTask[x] = "run" /\ msg[p].seq = num[x]
              /\ key[c].user = <<log[pos[x]], s>> /\ AllBelow(c, num[x])
              /\ \A y \in Consumers : pushTask[y] = "run" => y = x
  <1> USE DEF State, CalmInv, IInv, OwnType, Side
  <1>1. deliv[<<p, s>>] = "send" /\ c \in todo[<<p, s>>]
    BY DEF Write, H!SendText
  <1>2. push[p] \in {"visit", "wait"}
    BY <1>1 DEF Runs
  <1>3. PICK x \in Consumers : call[x] = p
    BY <1>2 DEF Waits
  <1>4. p # 0
    BY DEF Pushes
  <1>5. pushTask[x] = "run" /\ msg[p] = C!Number(pos[x], num[x])
    BY <1>3, <1>4 DEF PushInv
  <1>6. msg[p].seq = num[x]
    BY ONLY <1>5 DEF C!Number
  <1>7. target[<<p, s>>] = <<log[pos[x]], s>> /\ key[c].user = target[<<p, s>>]
    BY <1>1, <1>3, <1>4 DEF Addressed, TodoFits
  <1>8. key[c].user[1] = log[pos[x]] /\ key[c].user[2] = s
    BY <1>7
  <1>9. AllBelow(c, num[x])
    BY <1>1, <1>3, <1>5, <1>8 DEF Below, Past
  <1>10. ASSUME NEW y \in Consumers, pushTask[y] = "run" PROVE y = x
    BY <1>5, <1>10, HandFree DEF Owner
  <1> QED BY <1>3, <1>5, <1>6, <1>7, <1>9, <1>10

LEMMA WrittenSame ==
    ASSUME [Next]_vars, ~ \E p \in Pushes, s \in Instances, c \in Conns : Write(p, s, c)
    PROVE  written' = written
  BY Others DEF StartPush, Answer, PushFails, CrashConsumer, StartDelivery

\* What a write adds: nothing, or the message of its push at the end.
LEMMA WriteAdds ==
    ASSUME OwnType, NEW p \in Pushes, NEW s \in Instances, NEW c \in Conns, Write(p, s, c)
    PROVE  /\ \A y \in Conns : y # c => written'[y] = written[y]
           /\ \/ written'[c] = written[c]
              \/ /\ DOMAIN written[c] = 1 .. Len(written[c]) /\ Len(written[c]) \in Nat
                 /\ DOMAIN written'[c] = 1 .. Len(written[c]) + 1
                 /\ \A i \in DOMAIN written[c] : written'[c][i] = written[c][i]
                 /\ written'[c][Len(written[c]) + 1] = msg[p]
  <1>1. written' \in {written, [written EXCEPT ![c] = Append(@, msg[p])]}
    BY DEF Write
  <1>2. written[c] \in Seq([off: Nat, seq: Nat]) /\ msg[p] \in [off: Nat, seq: Nat]
    BY DEF OwnType
  <1>3. ASSUME NEW q, q = Append(written[c], msg[p])
        PROVE  /\ DOMAIN written[c] = 1 .. Len(written[c]) /\ Len(written[c]) \in Nat
               /\ DOMAIN q = 1 .. Len(written[c]) + 1
               /\ \A i \in DOMAIN written[c] : q[i] = written[c][i]
               /\ q[Len(written[c]) + 1] = msg[p]
    <2>1. /\ q \in Seq([off: Nat, seq: Nat]) /\ Len(q) = Len(written[c]) + 1
          /\ \A i \in 1 .. Len(written[c]) : q[i] = written[c][i]
          /\ q[Len(written[c]) + 1] = msg[p]
      BY <1>2, <1>3, AppendProperties
    <2>2. /\ DOMAIN written[c] = 1 .. Len(written[c]) /\ Len(written[c]) \in Nat
          /\ DOMAIN q = 1 .. Len(q)
      BY <1>2, <2>1, LenProperties
    <2> QED BY <2>1, <2>2
  <1> QED BY <1>1, <1>3 DEF OwnType

LEMMA IncreasingKept ==
    ASSUME State, CalmInv, [Next]_vars PROVE Increasing'
  <1>1. CASE ~ \E p \in Pushes, s \in Instances, c \in Conns : Write(p, s, c)
    BY <1>1, WrittenSame DEF CalmInv, Increasing
  <1>2. ASSUME NEW p \in Pushes, NEW s \in Instances, NEW c \in Conns, Write(p, s, c)
        PROVE  Increasing'
    <2>1. AllBelow(c, msg[p].seq)
      BY <1>2, WriteFacts
    <2>2. ASSUME NEW y \in Conns, NEW i \in DOMAIN written'[y],
                 NEW j \in DOMAIN written'[y], i < j
          PROVE  written'[y][i].seq < written'[y][j].seq
      <3>1. CASE written'[y] = written[y]
        BY <2>2, <3>1 DEF CalmInv, Increasing
      <3>2. CASE written'[y] # written[y]
        <4>1. /\ y = c
              /\ DOMAIN written[c] = 1 .. Len(written[c]) /\ Len(written[c]) \in Nat
              /\ DOMAIN written'[c] = 1 .. Len(written[c]) + 1
              /\ \A k \in DOMAIN written[c] : written'[c][k] = written[c][k]
              /\ written'[c][Len(written[c]) + 1] = msg[p]
          BY <1>2, <3>2, WriteAdds DEF State, IInv
        <4>2. i \in DOMAIN written[c]
          BY <2>2, <4>1
        <4>3. CASE j \in DOMAIN written[c]
          BY <2>2, <4>1, <4>2, <4>3 DEF CalmInv, Increasing
        <4>4. CASE j = Len(written[c]) + 1
          BY <2>1, <4>1, <4>2, <4>4 DEF AllBelow
        <4> QED BY <4>1, <4>3, <4>4
      <3> QED BY <3>1, <3>2
    <2> QED BY <2>2 DEF Increasing
  <1> QED BY <1>1, <1>2

\* What was in a client's socket is what is there now, but for the message
\* that a write adds.
LEMMA NowWritten ==
    ASSUME State, [Next]_vars, NEW c \in Conns, NEW i \in DOMAIN written'[c]
    PROVE  \/ i \in DOMAIN written[c] /\ written'[c][i] = written[c][i]
           \/ \E p \in Pushes, s \in Instances : Write(p, s, c) /\ written'[c][i] = msg[p]
  <1>1. CASE written'[c] = written[c]
    BY <1>1
  <1>2. CASE written'[c] # written[c]
    <2>1. PICK p \in Pushes, s \in Instances, y \in Conns : Write(p, s, y)
      BY <1>2, WrittenSame
    <2>2. /\ y = c
          /\ DOMAIN written[c] = 1 .. Len(written[c]) /\ Len(written[c]) \in Nat
          /\ DOMAIN written'[c] = 1 .. Len(written[c]) + 1
          /\ \A k \in DOMAIN written[c] : written'[c][k] = written[c][k]
          /\ written'[c][Len(written[c]) + 1] = msg[p]
      BY <1>2, <2>1, WriteAdds DEF State, IInv
    <2> QED BY <2>1, <2>2
  <1> QED BY <1>1, <1>2

LEMMA CoveredKept ==
    ASSUME State, State', CalmInv, [Next]_vars PROVE Covered'
  <1> SUFFICES ASSUME NEW c \in Conns, NEW i \in DOMAIN written'[c]
               PROVE  written'[c][i].seq <= seq'[key'[c].user[1]]
    BY DEF Covered
  <1>0. ASSUME NEW l \in Nat, NEW m \in Nat, NEW n \in Nat, l <= m, m <= n PROVE l <= n
    BY <1>0
  <1>1. key' = key
    BY DeliveryGoes DEF State, IInv
  <1>2. key[c].user[1] \in Users
    BY DEF State, IInv, HubInv, HP!TypeOK, HP!Key, Seats
  <1>3. seq[key[c].user[1]] <= seq'[key[c].user[1]]
    BY <1>2, ConsumerStep, HandOn DEF State
  <1>4. seq[key[c].user[1]] \in Nat /\ seq'[key[c].user[1]] \in Nat
    BY <1>2 DEF State, CP!TypeInv, CP!TypeOK
  <1>5. ASSUME i \in DOMAIN written[c], written'[c][i] = written[c][i]
        PROVE  written[c][i].seq <= seq'[key[c].user[1]]
    <2>1. written[c][i].seq <= seq[key[c].user[1]]
      BY <1>5 DEF CalmInv, Covered
    <2>2. written[c][i].seq \in Nat
      <3>1. written[c] \in Seq([off: Nat, seq: Nat])
        BY DEF State, IInv, OwnType
      <3>2. written[c][i] \in [off: Nat, seq: Nat]
        BY <1>5, <3>1, ElementOfSeq, LenProperties
      <3> QED BY <3>2
    <2> QED BY <1>0, <1>3, <1>4, <2>1, <2>2
  <1>6. ASSUME NEW p \in Pushes, NEW s \in Instances, Write(p, s, c)
        PROVE  msg[p].seq <= seq'[key[c].user[1]]
    <2>1. PICK x \in Consumers : /\ pushTask[x] = "run" /\ msg[p].seq = num[x]
                                 /\ key[c].user = <<log[pos[x]], s>>
      BY <1>6, WriteFacts
    <2>2. num[x] \in Nat /\ key[c].user[1] = log[pos[x]]
      BY <2>1 DEF State, CP!TypeInv, CP!TypeOK
    <2>3. num[x] <= seq[key[c].user[1]]
      BY <2>1, <2>2 DEF State, Side, Numbered
    <2> QED BY <1>0, <1>3, <1>4, <2>1, <2>2, <2>3
  <1> QED BY <1>1, <1>5, <1>6, NowWritten

\* A process that still has its message in hand still waits for its push.
LEMMA StillWaits ==
    ASSUME State, [Next]_vars, NEW x \in Consumers, call[x] # 0, pushTask'[x] = "run"
    PROVE  call'[x] = call[x]
  <1> USE DEF State, IInv, OwnType, CallType
  <1>1. pushTask \in [Consumers -> {"none", "run", "done"}]
    BY DEF CP!TypeInv, CP!TypeOK, CP!Task
  <1>2. ASSUME NEW y \in Consumers, StartPush(y) PROVE call'[x] = call[x]
    BY <1>2 DEF StartPush
  <1>3. ASSUME NEW y \in Consumers, Answer(y) \/ PushFails(y) \/ CrashConsumer(y)
        PROVE  call'[x] = call[x]
    <2>1. pushTask'[y] # "run" /\ call' = [call EXCEPT ![y] = 0]
      BY <1>1, <1>3 DEF Answer, PushFails, CrashConsumer, C!SendToPusher,
            C!SendToPusherErr, C!Crash
    <2> QED BY <2>1
  <1>4. ASSUME NEW p \in Pushes, NEW s \in Instances,
               StartDelivery(p, s) \/ \E c \in Conns : Write(p, s, c)
        PROVE  call' = call
    BY <1>4 DEF StartDelivery, Write
  <1> QED BY <1>2, <1>3, <1>4, Others

LEMMA BelowKept ==
    ASSUME State, CalmInv, [Next]_vars PROVE Below'
  <1> SUFFICES ASSUME NEW x \in Consumers, pushTask'[x] = "run", NEW c \in Conns,
                      key'[c].user[1] = log'[pos'[x]]
               PROVE  AllBelow(c, num[x])' \/ Past(call[x], c)'
    BY DEF Below
  <1>1. key' = key
    BY DeliveryGoes DEF State, IInv
  <1>2. CASE pushTask[x] = "run" /\ pos'[x] = pos[x] /\ num'[x] = num[x]
    <2>1. key[c].user[1] = log[pos[x]]
      <3>1. log'[pos[x]] = log[pos[x]]
        BY <1>2, InTopic, ConsumerStep, HandOn DEF State
      <3> QED BY <1>1, <1>2, <3>1
    <2>2. CASE Past(call[x], c)
      <3>1. call[x] # 0 /\ call[x] \in Pushes
        BY <2>2, CallsArePushes DEF State, IInv, OwnType, Past
      <3>2. call'[x] = call[x]
        BY <3>1, StillWaits
      <3>3. key[c].user[2] \in Instances
        BY DEF State, IInv, HubInv, HP!TypeOK, HP!Key, Seats
      <3> QED BY <1>1, <2>2, <3>1, <3>2, <3>3, DeliveryGoes DEF Past, State, IInv
    <2>3. CASE AllBelow(c, num[x])
      <3>1. CASE written'[c] = written[c]
        BY <1>2, <2>3, <3>1 DEF AllBelow
      <3>2. CASE written'[c] # written[c]
        <4>1. PICK p \in Pushes, s \in Instances, y \in Conns : Write(p, s, y)
          BY <3>2, WrittenSame
        <4>2. y = c
          BY <3>2, <4>1, WriteAdds DEF State, IInv
        <4>3. call[x] = p /\ key[c].user = <<log[pos[x]], s>>
          BY <1>2, <4>1, <4>2, WriteFacts
        <4>4. /\ deliv'[<<p, s>>] # "new" /\ c \notin todo'[<<p, s>>]
              /\ UNCHANGED call
          <5>1. /\ deliv[<<p, s>>] = "send" /\ UNCHANGED <<deliv, call>>
                /\ todo' = [todo EXCEPT ![<<p, s>>] = @ \ {c}]
            BY <4>1, <4>2 DEF Write, H!SendText
          <5>2. todo \in [Pushes \X Instances -> SUBSET Conns]
            BY DEF State, IInv, HubInv, HP!TypeOK
          <5> QED BY <5>1, <5>2
        <4>5. p # 0
          BY DEF Pushes
        <4> QED BY <1>1, <4>3, <4>4, <4>5 DEF Past
      <3> QED BY <3>1, <3>2
    <2> QED BY <1>2, <2>1, <2>2, <2>3 DEF CalmInv, Below
  <1>3. CASE /\ pushTask[x] = "none" /\ pos'[x] = pos[x] /\ pos[x] \in 1 .. Len(log)
             /\ num'[x] = seq[log[pos[x]]] + 1
    <2>1. ~ \E p \in Pushes, s \in Instances, y \in Conns : Write(p, s, y)
      BY <1>3 DEF Write, consumer
    <2>2. written' = written
      BY <2>1, WrittenSame
    <2>3. log'[pos[x]] = log[pos[x]]
      BY <1>3, ConsumerStep, HandOn DEF State
    <2>4. key[c].user[1] = log[pos[x]]
      BY <1>1, <1>3, <2>3
    <2>5. seq[log[pos[x]]] \in Nat
      BY <1>3, ElementOfSeq DEF State, CP!TypeInv, CP!TypeOK
    <2>6. ASSUME NEW i \in DOMAIN written[c] PROVE written[c][i].seq < num'[x]
      <3>1. written[c][i].seq <= seq[log[pos[x]]]
        BY <2>4 DEF CalmInv, Covered
      <3>2. written[c][i].seq \in Nat
        <4>1. written[c] \in Seq([off: Nat, seq: Nat])
          BY DEF State, IInv, OwnType
        <4>2. written[c][i] \in [off: Nat, seq: Nat]
          BY <2>6, <4>1, ElementOfSeq, LenProperties
        <4> QED BY <4>2
      <3>3. ASSUME NEW m \in Nat, NEW n \in Nat, m <= n PROVE m < n + 1
        BY <3>3
      <3> QED BY <1>3, <2>5, <3>1, <3>2, <3>3
    <2> QED BY <2>2, <2>6 DEF AllBelow
  <1> QED BY <1>2, <1>3, ConsumerStep, HandOn DEF State

-----------------------------------------------------------------------------
(* The order on the sockets: the theorem                                   *)

LEMMA SideKept ==
    ASSUME State, IInv', [Next]_vars PROVE Side'
  <1> USE DEF State, IInv, OwnType, Side
  <1>1. Counters'
    BY PusherGrows
  <1>2. Serving' /\ Numbered'
    BY ServingKept, NumberedKept
  <1>3. Addressed' /\ TodoFits'
    BY AddressedKept, TodoKept
  <1> QED BY <1>1, <1>2, <1>3

\* A calm step leaves the calm as it is.
LEMMA CalmStep ==
    ASSUME State, State', Calm => CalmInv, Calm', [Next]_vars PROVE CalmInv'
  <1>1. CalmInv
    BY CalmBefore DEF State, IInv, Side, OwnType
  <1>2. Owner'
    BY <1>1, OwnerKept DEF State, CalmInv, Calm
  <1>3. Waits' /\ Runs'
    BY <1>1, WaitsKept, RunsKept DEF CalmInv
  <1>4. Increasing' /\ Covered' /\ Below'
    BY <1>1, IncreasingKept, CoveredKept, BelowKept
  <1> QED BY <1>2, <1>3, <1>4 DEF CalmInv

\* As long as no process crashes or loses the partition, the pusher does not
\* restart, none of its calls fails and no process gives up a push under way,
\* every connection is written its messages in the order of their numbers, each
\* once: the process waits for the pusher, the pusher for all instances, and each
\* of them for its sockets (consumer/src/main.rs:143, pusher/src/main.rs:130,
\* ws/src/rpc.rs:89).
THEOREM SocketsInOrder == Spec => []WrittenInOrder
  <1> DEFINE Both == Side /\ (Calm => CalmInv)
  <1>1. Init => Both
    BY SideInit, CalmInit
  <1>2. IInv /\ CP!TypeInv /\ IInv' /\ CP!TypeInv' /\ Both /\ [Next]_vars => Both'
    <2> SUFFICES ASSUME IInv, CP!TypeInv, IInv', CP!TypeInv', Both, [Next]_vars
                 PROVE  Both'
      OBVIOUS
    <2>1. State
      BY DEF State
    <2>2. Side'
      BY <2>1, SideKept
    <2>3. State'
      BY <2>2 DEF State
    <2> QED BY <2>1, <2>2, <2>3, CalmStep
  <1>3. Both => WrittenInOrder
    BY DEF WrittenInOrder, CalmInv, Increasing
  <1> HIDE DEF Both
  <1> QED BY <1>1, <1>2, <1>3, Inductive, PTL DEF Spec

-----------------------------------------------------------------------------
(* The promise of Sockets: every number once                               *)

SP == INSTANCE SocketsProofs WITH
        Receivers <- Users, failed <- C!failed,
        owner <- [c \in Conns |-> key[c].user[1]], box <- written

Begun(p)  == push[p] # "new"
InUse(x)  == pushTask[x] = "run"
HandOf(x) == C!Number(pos[x], num[x])

\* A push carries a number that was given to a message for its receiver, and no
\* other push has it.
PushNumbers ==
    /\ \A p \in Pushes : Begun(p) =>
          /\ msg[p] \in given
          /\ \A s \in Instances : target[<<p, s>>] = <<log[msg[p].off], s>>
    /\ \A p, q \in Pushes : Begun(p) /\ Begun(q) /\ msg[p] = msg[q] => p = q

\* So does a process that is to push a message, until its push begins.
HandNumbers ==
    /\ \A x \in Consumers : InUse(x) => HandOf(x) \in given
    /\ \A x \in Consumers : InUse(x) /\ call[x] = 0 =>
          \A p \in Pushes : Begun(p) => msg[p] # HandOf(x)
    /\ \A x, y \in Consumers : InUse(x) /\ InUse(y) /\ HandOf(x) = HandOf(y) => x = y

\* What a client was written came with a push whose delivery is through with it.
WrittenByPush ==
    \A c \in Conns : \A i \in DOMAIN written[c] :
        \E p \in Pushes : Begun(p) /\ written[c][i] = msg[p] /\ Past(p, c)

OnceInv == PushNumbers /\ HandNumbers /\ WrittenByPush

\* What the refinement rests on: the invariants so far and those of Consumer.
Base == State /\ CP!ProgressInv /\ CP!NumbersInv

LEMMA NumberFacts == Spec => [](CP!ProgressInv /\ CP!NumbersInv)
  <1>1. Init => CP!Init
    BY SameConsumer DEF Init
  <1>2. [Next]_vars => [CP!Next]_(CP!vars)
    BY ConsumerStep, SameConsumer
  <1>3. CP!Init => CP!TypeInv /\ CP!ProgressInv
    BY CP!InitType, CP!InitProgress, NoneAssumption, BoundsAssumption
  <1>4. CP!Init => CP!NumbersInv
    BY DEF CP!Init, CP!NumbersInv, CP!Box!CounterCoversNumbers,
           CP!Box!SeqIdentifiesMessage
  <1>5. CP!TypeInv /\ [CP!Next]_(CP!vars) => CP!TypeInv'
    BY CP!TypeStep, NoneAssumption, BoundsAssumption
  <1>6. CP!TypeInv /\ CP!ProgressInv /\ [CP!Next]_(CP!vars) => CP!ProgressInv'
    BY CP!ProgressStep, NoneAssumption, BoundsAssumption
  <1>7. CP!TypeInv /\ CP!NumbersInv /\ [CP!Next]_(CP!vars) => CP!NumbersInv'
    BY CP!NumbersStep, NoneAssumption, BoundsAssumption
  <1> QED BY <1>1, <1>2, <1>3, <1>4, <1>5, <1>6, <1>7, PTL DEF Spec

\* No number given for a message is above the counter of its receiver.
LEMMA CounterAbove ==
    ASSUME CP!TypeInv, CP!NumbersInv, NEW g \in given
    PROVE  /\ g.off \in 1 .. Len(log) /\ g.seq \in Nat /\ log[g.off] \in Users
           /\ seq[log[g.off]] \in Nat /\ g.seq <= seq[log[g.off]]
  <1>1. g \in [off: DOMAIN log, seq: Nat] /\ log \in Seq(Users) /\ seq \in [Users -> Nat]
    BY DEF CP!TypeInv, CP!TypeOK, CP!Offsets
  <1>2. g.off \in 1 .. Len(log) /\ log[g.off] \in Users
    BY <1>1, LenProperties, ElementOfSeq
  <1>3. g.seq <= seq[log[g.off]]
    BY DEF CP!NumbersInv, CP!Box!CounterCoversNumbers
  <1> QED BY <1>1, <1>2, <1>3

\* A process gets a message to push only with a number, one at a time.
LEMMA Numbering ==
    ASSUME CP!TypeInv, [C!Next]_(C!vars)
    PROVE  \/ \E c \in Consumers : C!IncreaseSeq(c)
           \/ \A x \in Consumers : pushTask'[x] = "run" => pushTask[x] = "run"
  <1> USE DEF C!process, C!stores, C!histories, C!broker
  <1> DEFINE Older == \A x \in Consumers : pushTask'[x] = "run" => pushTask[x] = "run"
  <1>0. pushTask \in [Consumers -> {"none", "run", "done"}]
    BY DEF CP!TypeInv, CP!TypeOK, CP!Task
  <1>1. CASE UNCHANGED pushTask
    BY <1>1
  <1>2. ASSUME \/ \E u \in Users : C!Publish(u)
               \/ \E c \in Consumers : C!Group(c) \/ C!Restart(c)
               \/ \E q \in late : C!Late(q)
               \/ UNCHANGED C!vars
        PROVE  UNCHANGED pushTask
    BY <1>2 DEF C!Publish, C!Group, C!Assign, C!Rebalance, C!Give, C!CommitLands,
          C!CommitRefused, C!Restart, C!Late, C!vars
  <1>3. ASSUME NEW c \in Consumers, C!Handle(c), ~ C!IncreaseSeq(c) PROVE Older
    BY <1>0, <1>3 DEF C!Handle, C!Recv, C!IncreaseSeqErr, C!SendToDb, C!SendToDbErr,
          C!SendToPusher, C!SendToPusherErr, C!Commit
  <1>4. ASSUME NEW c \in Consumers, C!Crash(c) PROVE Older
    BY <1>0, <1>4 DEF C!Crash
  <1> QED BY <1>1, <1>2, <1>3, <1>4 DEF C!Next

\* Who has a message to push had it before, or was just given a number for it
\* that nobody has.
Had(x)   == InUse(x) /\ HandOf(x)' = HandOf(x)
Takes(x) ==
    ~ InUse(x) /\ call[x] = 0 /\ HandOf(x)' \in given' /\ HandOf(x)' \notin given

LEMMA HandsNow ==
    ASSUME Base, [Next]_vars
    PROVE  /\ given \subseteq given'
           /\ \A g \in given : log'[g.off] = log[g.off]
           /\ \A x \in Consumers : InUse(x)' => Had(x) \/ Takes(x)
           /\ \A x, y \in Consumers :
                 InUse(x)' /\ InUse(y)' /\ ~ InUse(x) /\ ~ InUse(y) => x = y
  <1> USE DEF InUse, HandOf
  <1>1. CP!TypeInv /\ CP!NumbersInv /\ OwnType /\ PushInv
    BY DEF Base, State, IInv
  <1>2. [C!Next]_(C!vars)
    BY ConsumerStep
  <1>3. given \subseteq given'
    BY <1>1, <1>2, SameConsumer, CP!NothingUndone, NoneAssumption, BoundsAssumption
  <1>4. \A g \in given : log'[g.off] = log[g.off]
    BY <1>1, <1>2, HandOn, CounterAbove
  <1>5. ASSUME NEW x \in Consumers, pushTask'[x] = "run", ~ Had(x) PROVE Takes(x)
    <2>1. /\ pushTask[x] = "none" /\ pos'[x] = pos[x] /\ pos[x] \in 1 .. Len(log)
          /\ num'[x] = seq[log[pos[x]]] + 1
      BY <1>1, <1>2, <1>5, HandOn DEF Had, C!Number
    <2>2. call[x] = 0
      BY <1>1, <2>1 DEF PushInv
    <2>3. PICK c \in Consumers : C!IncreaseSeq(c)
      BY <1>1, <1>2, <1>5, <2>1, Numbering
    <2>4. /\ pushTask' = [pushTask EXCEPT ![c] = "run"]
          /\ C!Number(pos[c], seq[log[pos[c]]] + 1) \in given'
      BY <2>3 DEF C!IncreaseSeq
    <2>5. x = c
      BY <1>1, <1>5, <2>1, <2>4 DEF CP!TypeInv, CP!TypeOK
    <2>6. HandOf(x)' = C!Number(pos[c], seq[log[pos[c]]] + 1)
      BY <2>1, <2>5 DEF C!Number
    <2>7. ASSUME HandOf(x)' \in given PROVE FALSE
      <3> DEFINE g == HandOf(x)'
      <3>1. g.off = pos[x] /\ g.seq = seq[log[pos[x]]] + 1
        BY ONLY <2>5, <2>6 DEF C!Number
      <3>2. seq[log[g.off]] \in Nat /\ g.seq <= seq[log[g.off]]
        BY <1>1, <2>7, CounterAbove
      <3> QED BY <3>1, <3>2
    <2> QED BY <2>1, <2>2, <2>4, <2>6, <2>7 DEF Takes
  <1>6. ASSUME NEW x \in Consumers, NEW y \in Consumers, pushTask'[x] = "run",
               pushTask'[y] = "run", pushTask[x] # "run", pushTask[y] # "run"
        PROVE  x = y
    <2>1. PICK c \in Consumers : C!IncreaseSeq(c)
      BY <1>1, <1>2, <1>6, Numbering
    <2>2. pushTask' = [pushTask EXCEPT ![c] = "run"]
      BY <2>1 DEF C!IncreaseSeq
    <2> QED BY <1>1, <1>6, <2>2 DEF CP!TypeInv, CP!TypeOK
  <1> QED BY <1>3, <1>4, <1>5, <1>6

\* A push begins when a process calls it, and in no other way.
LEMMA BegunBy ==
    ASSUME CallType, PusherInv, [Next]_vars, NEW p \in Pushes,
           push'[p] # "new", push[p] = "new"
    PROVE  \E c \in Consumers : StartPush(c)
  <1> USE DEF P!cluster, P!discovery, P!receiver, P!calls
  <1>1. push \in [Pushes -> PP!PushState]
    BY DEF PusherInv, PP!TypeInv, PP!TypeOK
  <1>2. ASSUME NEW x \in Pushes, PushMoves(x) PROVE \E c \in Consumers : StartPush(c)
    BY <1>1, <1>2 DEF PushMoves, P!EndVisit, P!Collect, P!Reply, DropPush, P!Visit,
          CallOk, P!CallOk, P!CallErr, P!Report
  <1>3. CASE P!Restart
    BY <1>1, <1>3 DEF P!Restart, P!Active
  <1>4. CASE \/ \E t \in Instances : Cluster(t)
             \/ P!Worker \/ P!Receiver \/ UNCHANGED pusher
    <2>1. UNCHANGED push
      BY <1>4 DEF Cluster, P!Register, P!Serve, P!Worker, P!Discover, P!DiscoverErr,
            P!SendInsert, P!SendRemove, P!StoreView, P!Receiver, P!TakeInsert,
            P!TakeRemove, P!Connect, P!ConnectErr
    <2> QED BY <2>1
  <1> QED BY <1>2, <1>3, <1>4, PusherCases

\* The push of a process takes over its number.
LEMMA StartTakesNumber ==
    ASSUME Base, OnceInv, [Next]_vars, NEW c \in Consumers, StartPush(c)
    PROVE  PushNumbers' /\ HandNumbers'
  <1> USE DEF Base, State, IInv, OwnType, OnceInv, InUse
  <1>1. push \in [Pushes -> PP!PushState]
    BY DEF PusherInv, PP!TypeInv, PP!TypeOK
  <1>2. PICK p \in Pushes :
          /\ InUse(c) /\ call[c] = 0 /\ push[p] = "new"
          /\ \A q \in Pushes : q # p => push'[q] = push[q] /\ msg'[q] = msg[q]
          /\ call' = [call EXCEPT ![c] = p] /\ msg'[p] = HandOf(c)
          /\ Receiver(p) = log[pos[c]] /\ UNCHANGED <<consumer, target>>
    BY <1>1, DeliveryGoes DEF StartPush, P!PushStart, P!PushPanics, HandOf
  <1>3. HandOf(c) \in given /\ \A q \in Pushes : Begun(q) => msg[q] # HandOf(c)
    BY <1>2 DEF HandNumbers
  <1>4. HandOf(c).off = pos[c]
    BY ONLY DEF HandOf, C!Number
  <1>5. \A s \in Instances : target[<<p, s>>] = <<log[pos[c]], s>>
    BY <1>2 DEF HubInv, Receiver
  <1>6. PushNumbers'
    <2>1. UNCHANGED <<log, given, target>>
      BY <1>2
    <2>2. \A q \in Pushes : q = p \/ (q # p /\ Begun(q)' = Begun(q) /\ msg'[q] = msg[q])
      BY <1>2 DEF Begun
    <2>3. ASSUME NEW q \in Pushes, Begun(q)'
          PROVE  /\ msg'[q] \in given
                 /\ \A s \in Instances : target[<<q, s>>] = <<log[msg'[q].off], s>>
      <3>1. CASE q = p
        BY <1>2, <1>3, <1>4, <1>5, <3>1
      <3>2. CASE q # p
        BY <2>2, <2>3, <3>2 DEF PushNumbers
      <3> QED BY <3>1, <3>2
    <2>4. ASSUME NEW q \in Pushes, NEW r \in Pushes, Begun(q)', Begun(r)', msg'[q] = msg'[r]
          PROVE  q = r
      BY <1>2, <1>3, <2>2, <2>4 DEF PushNumbers
    <2> QED BY <2>1, <2>3, <2>4 DEF PushNumbers
  <1>7. \A x \in Consumers : HandOf(x)' = HandOf(x) /\ (InUse(x)' <=> InUse(x))
    BY <1>2 DEF HandOf, C!Number
  <1>8. ASSUME NEW x \in Consumers, InUse(x), call'[x] = 0, NEW q \in Pushes, Begun(q)'
        PROVE  msg'[q] # HandOf(x)
    <2>1. x # c /\ call[x] = 0
      BY <1>2, <1>8 DEF CallType, Pushes
    <2>2. CASE q = p
      BY <1>2, <1>8, <2>1, <2>2 DEF HandNumbers
    <2>3. CASE q # p
      BY <1>2, <1>8, <2>1, <2>3 DEF HandNumbers, Begun
    <2> QED BY <2>2, <2>3
  <1>9. HandNumbers'
    BY <1>2, <1>7, <1>8 DEF HandNumbers
  <1> QED BY <1>6, <1>9

\* The other steps move no number from hand to push.
LEMMA NumbersStay ==
    ASSUME Base, OnceInv, [Next]_vars, ~ \E c \in Consumers : StartPush(c)
    PROVE  PushNumbers' /\ HandNumbers'
  <1> USE DEF OnceInv
  <1>0. CallType /\ PusherInv /\ OwnType /\ HubInv /\ State
    BY DEF Base, State, IInv, OwnType
  <1>1. \A p \in Pushes : Begun(p)' => Begun(p) /\ msg'[p] = msg[p]
    BY <1>0, BegunBy, MsgStays DEF Begun
  <1>2. target' = target
    BY <1>0, DeliveryGoes
  <1>3. /\ given \subseteq given' /\ \A g \in given : log'[g.off] = log[g.off]
        /\ \A x \in Consumers : InUse(x)' => Had(x) \/ Takes(x)
        /\ \A x, y \in Consumers :
              InUse(x)' /\ InUse(y)' /\ ~ InUse(x) /\ ~ InUse(y) => x = y
    BY HandsNow
  <1>4. PushNumbers'
    BY <1>1, <1>2, <1>3 DEF PushNumbers
  <1>5. \A x \in Consumers : InUse(x)' => HandOf(x)' \in given'
    BY <1>3 DEF HandNumbers, Had, Takes
  <1>6. ASSUME NEW x \in Consumers, InUse(x)', call'[x] = 0, NEW p \in Pushes, Begun(p)'
        PROVE  msg'[p] # HandOf(x)'
    <2>1. CASE Takes(x)
      BY <1>1, <1>6, <2>1 DEF PushNumbers, Takes
    <2>2. CASE Had(x)
      <3>1. call[x] = 0
        BY <1>0, <1>6, StillWaits DEF InUse
      <3> QED BY <1>1, <1>6, <2>2, <3>1 DEF HandNumbers, Had
    <2> QED BY <1>3, <1>6, <2>1, <2>2
  <1>7. ASSUME NEW x \in Consumers, NEW y \in Consumers, InUse(x)', InUse(y)',
               HandOf(x)' = HandOf(y)'
        PROVE  x = y
    <2>1. CASE Had(x) /\ Had(y)
      BY <1>7, <2>1 DEF HandNumbers, Had
    <2>2. CASE (Takes(x) /\ Had(y)) \/ (Had(x) /\ Takes(y))
      BY <1>7, <2>2 DEF HandNumbers, Had, Takes
    <2>3. CASE Takes(x) /\ Takes(y)
      BY <1>3, <1>7, <2>3 DEF Takes
    <2> QED BY <1>3, <1>7, <2>1, <2>2, <2>3
  <1>8. HandNumbers'
    BY <1>5, <1>6, <1>7 DEF HandNumbers
  <1> QED BY <1>4, <1>8

\* What a delivery is through with stays so.
LEMMA PastStays ==
    ASSUME OwnType, HubInv, [Next]_vars, NEW p \in Pushes, NEW c \in Conns, Past(p, c)
    PROVE  Past(p, c)'
  <1>1. key[c].user[2] \in Instances /\ key' = key
    BY DeliveryGoes DEF HubInv, HP!TypeOK, HP!Key, Seats
  <1> QED BY <1>1, DeliveryGoes DEF Past

\* A write is part of a push that has begun, to a client of the receiver that its
\* delivery was not through with.
LEMMA WriteOfPush ==
    ASSUME Base, PushNumbers, NEW p \in Pushes, NEW s \in Instances, NEW c \in Conns,
           Write(p, s, c)
    PROVE  /\ Begun(p) /\ msg[p] \in given /\ log[msg[p].off] = key[c].user[1]
           /\ ~ Past(p, c) /\ Past(p, c)'
           /\ UNCHANGED <<consumer, pusher, key, msg>>
  <1> USE DEF Base, State, IInv, Side
  <1>1. /\ deliv[<<p, s>>] = "send" /\ c \in todo[<<p, s>>]
        /\ todo' = [todo EXCEPT ![<<p, s>>] = @ \ {c}]
        /\ UNCHANGED <<key, target, deliv, consumer, pusher, msg>>
    BY DEF Write, H!SendText
  <1>2. Begun(p)
    <2>1. push[p] = "new" => deliv[<<p, s>>] = "new"
      BY DEF DelivInv, Deliv, PusherInv, PP!Fresh
    <2> QED BY <1>1, <2>1 DEF Begun
  <1>3. key[c].user = target[<<p, s>>]
    BY <1>1 DEF TodoFits
  <1>4. target[<<p, s>>] = <<log[msg[p].off], s>> /\ msg[p] \in given
    BY <1>2 DEF PushNumbers
  <1>5. key[c].user[1] = log[msg[p].off] /\ key[c].user[2] = s
    BY <1>3, <1>4
  <1>6. todo'[<<p, s>>] = todo[<<p, s>>] \ {c}
    BY <1>1 DEF HubInv, HP!TypeOK
  <1>7. p # 0
    BY DEF Pushes
  <1>8. ~ Past(p, c)
    BY <1>1, <1>5 DEF Past
  <1>9. Past(p, c)'
    BY <1>1, <1>5, <1>6, <1>7 DEF Past
  <1> QED BY <1>1, <1>2, <1>4, <1>5, <1>8, <1>9

LEMMA WrittenByPushKept ==
    ASSUME Base, OnceInv, [Next]_vars PROVE WrittenByPush'
  <1> USE DEF Base, State, IInv
  <1> SUFFICES ASSUME NEW c \in Conns, NEW i \in DOMAIN written'[c]
               PROVE  \E p \in Pushes : Begun(p)' /\ written'[c][i] = msg'[p] /\ Past(p, c)'
    BY DEF WrittenByPush
  <1>1. ASSUME i \in DOMAIN written[c], written'[c][i] = written[c][i]
        PROVE  \E p \in Pushes : Begun(p)' /\ written'[c][i] = msg'[p] /\ Past(p, c)'
    <2>1. PICK p \in Pushes : Begun(p) /\ written[c][i] = msg[p] /\ Past(p, c)
      BY <1>1 DEF OnceInv, WrittenByPush
    <2>2. Begun(p)'
      BY <2>1, PushesGoOn DEF OwnType, PushesGo, Begun
    <2>3. msg'[p] = msg[p]
      BY <2>1, MsgStays DEF Begun
    <2>4. Past(p, c)'
      BY <2>1, PastStays
    <2> QED BY <1>1, <2>1, <2>2, <2>3, <2>4
  <1>2. ASSUME NEW p \in Pushes, NEW s \in Instances, Write(p, s, c)
        PROVE  Begun(p)' /\ msg'[p] = msg[p] /\ Past(p, c)'
    BY <1>2, WriteOfPush DEF OnceInv, Begun
  <1> QED BY <1>1, <1>2, NowWritten

LEMMA OnceInit == Init => OnceInv
  BY DEF Init, C!Init, P!Init, OnceInv, PushNumbers, HandNumbers, WrittenByPush, Begun,
         InUse

LEMMA OnceStep ==
    ASSUME Base, OnceInv, [Next]_vars PROVE OnceInv'
  <1>1. PushNumbers' /\ HandNumbers'
    BY StartTakesNumber, NumbersStay
  <1> QED BY <1>1, WrittenByPushKept DEF OnceInv

-----------------------------------------------------------------------------
(* The promise of Sockets: the refinement                                  *)

\* The steps of the consumer keep the rules of Inbox.
LEMMA InboxStep ==
    ASSUME CP!TypeInv, CP!ProgressInv, [Next]_vars PROVE [S!Next]_(S!vars)
  <1>1. [CP!Next]_(CP!vars)
    BY ConsumerStep, SameConsumer
  <1>2. [CP!Box!Next]_(CP!Box!vars)
    BY <1>1, CP!RefinementStep, NoneAssumption, BoundsAssumption
  <1>3. CP!failed = C!failed /\ CP!failed' = C!failed'
    BY DEF CP!failed, C!failed, CP!Logged, C!Logged, CP!Error, C!Error
  <1>4. CASE CP!Box!Next
    BY <1>3, <1>4 DEF CP!Box!Next, S!Next, CP!Box!Publish, S!Publish, CP!Box!Waste,
          S!Waste, CP!Box!Number, S!Number, CP!Box!GiveUp, S!GiveUp,
          CP!Box!PriorsSettled, S!PriorsSettled, CP!Box!Numbered, S!Numbered
  <1>5. CASE UNCHANGED CP!Box!vars
    BY <1>3, <1>5 DEF CP!Box!vars, S!vars
  <1> QED BY <1>2, <1>4, <1>5

\* A write to a socket is a write of Sockets, or nothing if the peer is gone; all
\* else is numbering.
LEMMA SocketStep ==
    ASSUME Base, OnceInv, [Next]_vars PROVE [S!SocketsNext]_(S!socketVars)
  <1> DEFINE owner == [c \in Conns |-> key[c].user[1]]
  <1>1. owner' = owner
    BY DeliveryGoes DEF Base, State, IInv
  <1>2. CASE ~ \E p \in Pushes, s \in Instances, c \in Conns : Write(p, s, c)
    <2>1. written' = written
      BY <1>2, WrittenSame
    <2>2. [S!Next]_(S!vars)
      BY InboxStep DEF Base, State
    <2> QED BY <1>1, <2>1, <2>2 DEF S!SocketsNext, S!NumberStep, S!socketVars
  <1>3. ASSUME NEW p \in Pushes, NEW s \in Instances, NEW c \in Conns, Write(p, s, c)
        PROVE  [S!SocketsNext]_(S!socketVars)
    <2>1. /\ msg[p] \in given /\ log[msg[p].off] = key[c].user[1] /\ ~ Past(p, c)
          /\ Begun(p) /\ UNCHANGED consumer
      BY <1>3, WriteOfPush DEF OnceInv
    <2>2. UNCHANGED S!vars
      BY <2>1 DEF S!vars, C!failed, C!Logged
    <2>3. ASSUME NEW i \in DOMAIN written[c], written[c][i] = msg[p] PROVE FALSE
      <3>1. PICK q \in Pushes : Begun(q) /\ written[c][i] = msg[q] /\ Past(q, c)
        BY DEF OnceInv, WrittenByPush
      <3>2. q = p
        BY <2>1, <2>3, <3>1 DEF OnceInv, PushNumbers
      <3> QED BY <2>1, <3>1, <3>2
    <2>4. CASE link[c] = "up"
      <3>1. written' = [written EXCEPT ![c] = Append(@, msg[p])]
        BY <1>3, <2>4 DEF Write
      <3>2. S!Write(c, msg[p])
        BY <1>1, <2>1, <2>2, <2>3, <3>1 DEF S!Write, S!Has
      <3> QED BY <2>1, <3>2 DEF S!SocketsNext
    <2>5. CASE link[c] # "up"
      <3>1. written' = written
        BY <1>3, <2>5 DEF Write
      <3> QED BY <1>1, <2>2, <3>1 DEF S!socketVars
    <2> QED BY <2>4, <2>5
  <1> QED BY <1>2, <1>3

LEMMA SocketInit == Init => S!SocketsInit
  <1> SUFFICES ASSUME Init PROVE S!SocketsInit
    OBVIOUS
  <1>1. S!Init
    BY DEF Init, C!Init, S!Init, C!failed, C!Logged
  <1>2. \A c \in Conns : key[c].user[1] \in Users
    BY HubInit DEF HubInv, HP!TypeOK, HP!Key, Seats
  <1> QED BY <1>1, <1>2 DEF Init, S!SocketsInit

LEMMA StateAlways == Spec => []State
  <1>1. Init => Side
    BY SideInit
  <1>2. IInv /\ CP!TypeInv /\ IInv' /\ CP!TypeInv' /\ Side /\ [Next]_vars => Side'
    BY SideKept DEF State
  <1>3. IInv /\ CP!TypeInv /\ Side => State
    BY DEF State
  <1> QED BY <1>1, <1>2, <1>3, Inductive, PTL DEF Spec

LEMMA OnceAlways == Spec => [](Base /\ OnceInv)
  <1>1. State /\ CP!ProgressInv /\ CP!NumbersInv => Base
    BY DEF Base
  <1>2. Base /\ OnceInv /\ [Next]_vars => OnceInv'
    BY OnceStep
  <1> QED BY <1>1, <1>2, OnceInit, StateAlways, NumberFacts, PTL DEF Spec

\* The whole way of a message keeps the promise of Sockets.tla: whatever crashes,
\* redeliveries, restarts, failing calls and lost answers there are, a client is
\* written only messages to its user, under numbers they were given, and under
\* each number once.  A push draws its own number, is called once and writes to
\* each client it found once (consumer/src/main.rs:125-148,
\* pusher/src/main.rs:118-130, ws/src/manager.rs:40).
THEOREM EndToEndImplementsSockets == Spec => ImplementsSockets
  <1>1. Base /\ OnceInv /\ [Next]_vars => [S!SocketsNext]_(S!socketVars)
    BY SocketStep
  <1> QED BY <1>1, SocketInit, OnceAlways, PTL DEF Spec, ImplementsSockets, S!SocketsSpec

\* No connection is ever written two messages, or one message twice, under one
\* number: a client that goes by the numbers loses no message to another one
\* (consumer/src/main.rs:125, cache/src/redis/mod.rs:40).
THEOREM EveryNumberOnce == Spec => []NumbersDiffer
  <1>1. SP!SocketsSpec => []SP!NumbersDiffer
    BY SP!NumbersOnSocketsDiffer
  <1>2. S!SocketsSpec => SP!SocketsSpec
    <2>1. S!SocketsInit => SP!SocketsInit
      BY DEF S!SocketsInit, SP!SocketsInit, S!Init, SP!Init
    <2>2. [S!SocketsNext]_(S!socketVars) => [SP!SocketsNext]_(SP!socketVars)
      <3>1. S!Next => SP!Next
        BY DEF S!Next, SP!Next, S!Publish, SP!Publish, S!Waste, SP!Waste, S!Number,
               SP!Number, S!GiveUp, SP!GiveUp, S!PriorsSettled, SP!PriorsSettled,
               S!Numbered, SP!Numbered
      <3>2. \A c \in Conns : \A g \in given : S!Write(c, g) => SP!Write(c, g)
        BY DEF S!Write, SP!Write, S!Has, SP!Has, S!vars, SP!vars
      <3> QED BY <3>1, <3>2 DEF S!SocketsNext, SP!SocketsNext, S!NumberStep,
                 SP!NumberStep, S!socketVars, SP!socketVars, S!vars, SP!vars
    <2> QED BY <2>1, <2>2, PTL DEF S!SocketsSpec, SP!SocketsSpec
  <1>3. SP!NumbersDiffer => NumbersDiffer
    BY DEF SP!NumbersDiffer, S!NumbersDiffer, NumbersDiffer
  <1> QED BY <1>1, <1>2, <1>3, EndToEndImplementsSockets, PTL DEF ImplementsSockets

\* So the numbers of the whole path are handed out as Inbox has it, whatever the
\* pusher and the hubs do with them (consumer/src/main.rs:117-125).
THEOREM EndToEndImplementsInbox == Spec => S!Spec
  <1>1. [S!SocketsNext]_(S!socketVars) => [S!Next]_(S!vars)
    BY DEF S!SocketsNext, S!NumberStep, S!Write, S!socketVars, S!vars
  <1>2. S!SocketsInit => S!Init
    BY DEF S!SocketsInit
  <1> QED BY <1>1, <1>2, EndToEndImplementsSockets, PTL
          DEF ImplementsSockets, S!SocketsSpec, S!Spec
=============================================================================
