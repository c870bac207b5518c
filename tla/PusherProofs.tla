---------------------------- MODULE PusherProofs ----------------------------
(***************************************************************************)
(* Theorems about Pusher.tla, for any ws instances, any number of pushes   *)
(* and any capacity of the channel of changes.                             *)
(***************************************************************************)
EXTENDS Pusher, ChangesProofs, FiniteSetTheorems

\* The list is finite, so that its size is a number.
TypeInv == TypeOK /\ IsFiniteSet(list)

\* A push that has not begun has no task and no error.
Fresh ==
    \A p \in Pushes : push[p] = "new" =>
        buf[p] = <<>> /\ \A s \in Instances : task[p][s] = "none"

LEMMA InitType == Init => TypeInv
  <1> SUFFICES ASSUME Init PROVE TypeInv
    OBVIOUS
  <1>1. IsFiniteSet({})
    BY FS_EmptySet
  <1>2. <<>> \in Seq(ChangesOf(Instances)) /\ Len(<<>>) = 0 /\ <<>> \in Seq(Instances)
    OBVIOUS
  <1>3. Len(<<>>) <= ChanCap
    BY <1>2, CapAssumption
  <1> QED BY <1>1, <1>2, <1>3 DEF Init, TypeInv, TypeOK, PushState, TaskState

\* What the two ends of a queue do to its type and its length.
LEMMA QueueEnds ==
    ASSUME NEW S, NEW q \in Seq(S), NEW x \in S
    PROVE  /\ Append(q, x) \in Seq(S) /\ Len(Append(q, x)) = Len(q) + 1
           /\ q # <<>> => /\ Head(q) \in S /\ Tail(q) \in Seq(S)
                          /\ Len(Tail(q)) = Len(q) - 1 /\ Len(q) \in Nat
  BY AppendProperties, HeadTailProperties, LenProperties

LEMMA UnlistType ==
    ASSUME TypeInv, NEW s \in Instances, Unlist(s)
    PROVE  /\ list' \subseteq Instances /\ IsFiniteSet(list')
           /\ gone' \in [Pushes -> SUBSET Instances]
  <1>1. IsFiniteSet(list \ {s})
    BY FS_Difference DEF TypeInv
  <1> QED BY <1>1 DEF Unlist, TypeInv, TypeOK

LEMMA WorkerType == TypeInv /\ Worker => TypeInv'
  <1> SUFFICES ASSUME TypeInv, Worker PROVE TypeInv'
    OBVIOUS
  <1> USE DEF TypeInv, TypeOK, cluster, receiver, calls, discovery
  <1>1. CASE Discover
    BY <1>1 DEF Discover
  <1>2. CASE DiscoverErr
    BY <1>2 DEF DiscoverErr
  <1>3. CASE StoreView
    BY <1>3 DEF StoreView
  <1>4. ASSUME NEW s \in Instances, NEW op \in {"insert", "remove"},
               Len(chan) < ChanCap, chan' = Append(chan, Change(op, s))
        PROVE  chan' \in Seq(ChangesOf(Instances)) /\ Len(chan') <= ChanCap
    <2>1. Change(op, s) \in ChangesOf(Instances)
      BY DEF Change, ChangesOf
    <2>2. chan \in Seq(ChangesOf(Instances)) /\ Len(chan) \in Nat
      BY LenProperties
    <2>3. chan' \in Seq(ChangesOf(Instances)) /\ Len(chan') = Len(chan) + 1
      BY <1>4, <2>1, <2>2, QueueEnds
    <2> QED BY <1>4, <2>2, <2>3, CapAssumption
  <1>5. ASSUME NEW s \in Instances, SendInsert(s) PROVE TypeInv'
    <2>1. chan' \in Seq(ChangesOf(Instances)) /\ Len(chan') <= ChanCap
      BY <1>4, <1>5 DEF SendInsert
    <2> QED BY <1>5, <2>1 DEF SendInsert
  <1>6. ASSUME NEW s \in Instances, SendRemove(s) PROVE TypeInv'
    <2>1. chan' \in Seq(ChangesOf(Instances)) /\ Len(chan') <= ChanCap
      BY <1>4, <1>6 DEF SendRemove
    <2> QED BY <1>6, <2>1 DEF SendRemove
  <1> QED BY <1>1, <1>2, <1>3, <1>5, <1>6 DEF Worker

LEMMA ReceiverType == TypeInv /\ Receiver => TypeInv'
  <1> SUFFICES ASSUME TypeInv, Receiver PROVE TypeInv'
    OBVIOUS
  <1> USE DEF cluster, calls, discovery
  <1>1. ASSUME chan # <<>>
        PROVE  /\ Head(chan) \in ChangesOf(Instances) /\ Head(chan).addr \in Instances
               /\ Tail(chan) \in Seq(ChangesOf(Instances)) /\ Len(Tail(chan)) <= ChanCap
    <2>1. chan \in Seq(ChangesOf(Instances)) /\ Len(chan) <= ChanCap
      BY DEF TypeInv, TypeOK
    <2>2. Head(chan) \in ChangesOf(Instances) /\ Tail(chan) \in Seq(ChangesOf(Instances))
          /\ Len(Tail(chan)) = Len(chan) - 1 /\ Len(chan) \in Nat
      BY <1>1, <2>1, HeadTailProperties, LenProperties
    <2>3. Head(chan).addr \in Instances
      BY <2>2 DEF ChangesOf
    <2> QED BY <2>1, <2>2, <2>3, CapAssumption
  <1>2. CASE TakeInsert
    BY <1>1, <1>2 DEF TakeInsert, TypeInv, TypeOK
  <1>3. CASE TakeRemove
    <2>1. chan # <<>> /\ Unlist(Head(chan).addr) /\ chan' = Tail(chan)
      BY <1>3 DEF TakeRemove
    <2>2. /\ list' \subseteq Instances /\ IsFiniteSet(list')
          /\ gone' \in [Pushes -> SUBSET Instances]
      BY <1>1, <2>1, UnlistType
    <2> QED BY <1>1, <1>3, <2>1, <2>2 DEF TakeRemove, TypeInv, TypeOK
  <1>4. CASE Connect
    <2>1. conn \in Instances
      BY <1>4 DEF Connect, TypeInv, TypeOK
    <2>2. IsFiniteSet(list \cup {conn})
      BY FS_AddElement DEF TypeInv
    <2> QED BY <1>4, <2>1, <2>2 DEF Connect, TypeInv, TypeOK
  <1>5. CASE ConnectErr
    BY <1>5 DEF ConnectErr, TypeInv, TypeOK
  <1> QED BY <1>2, <1>3, <1>4, <1>5 DEF Receiver

LEMMA PushType ==
    ASSUME TypeInv, Fresh, NEW p \in Pushes, PushStep(p) PROVE TypeInv'
  <1> USE DEF cluster, receiver, discovery
  <1>1. CASE PushPanics(p)
    BY <1>1 DEF PushPanics, TypeInv, TypeOK, PushState
  <1>2. CASE PushStart(p)
    <2>1. Cardinality(list) \in Nat
      BY FS_CardinalityType DEF TypeInv
    <2>2. cap' \in [Pushes -> Nat] /\ \A x \in Pushes : Len(buf[x]) \in Nat
      BY <1>2, <2>1, LenProperties DEF PushStart, TypeInv, TypeOK
    <2>3. \A x \in Pushes : Len(buf'[x]) <= cap'[x]
      <3>1. buf[p] = <<>>
        BY <1>2 DEF PushStart, Fresh
      <3> QED BY <1>2, <2>1, <2>2, <3>1 DEF PushStart, TypeInv, TypeOK
    <2>4. push' \in [Pushes -> PushState] /\ must' \in [Pushes -> SUBSET Instances]
      BY <1>2 DEF PushStart, TypeInv, TypeOK, PushState
    <2> QED BY <1>2, <2>2, <2>3, <2>4 DEF PushStart, TypeInv, TypeOK
  <1>3. CASE EndVisit(p)
    BY <1>3 DEF EndVisit, TypeInv, TypeOK, PushState
  <1>4. CASE Collect(p)
    <2>1. /\ Head(buf[p]) \in Instances /\ Tail(buf[p]) \in Seq(Instances)
          /\ Len(Tail(buf[p])) <= cap[p]
      <3>1. buf[p] \in Seq(Instances) /\ buf[p] # <<>> /\ Len(buf[p]) <= cap[p]
            /\ cap[p] \in Nat
        BY <1>4 DEF Collect, TypeInv, TypeOK
      <3> QED BY <3>1, HeadTailProperties, LenProperties
    <2>2. /\ list' \subseteq Instances /\ IsFiniteSet(list')
          /\ gone' \in [Pushes -> SUBSET Instances]
      BY <1>4, <2>1, UnlistType DEF Collect
    <2>3. buf' \in [Pushes -> Seq(Instances)]
          /\ \A x \in Pushes : Len(buf'[x]) <= cap[x]
      BY <1>4, <2>1 DEF Collect, TypeInv, TypeOK
    <2> QED BY <1>4, <2>2, <2>3 DEF Collect, TypeInv, TypeOK
  <1>5. CASE Reply(p)
    BY <1>5 DEF Reply, TypeInv, TypeOK, PushState
  <1>6. ASSUME NEW s \in Instances, Visit(p, s) \/ CallOk(p, s) \/ CallErr(p, s)
        PROVE  TypeInv'
    <2>1. task' \in [Pushes -> [Instances -> TaskState]]
      <3>1. PICK t \in TaskState : task' = [task EXCEPT ![p][s] = t]
        BY <1>6 DEF Visit, CallOk, CallErr, TaskState
      <3>2. task \in [Pushes -> [Instances -> TaskState]]
        BY DEF TypeInv, TypeOK
      <3> QED BY <3>1, <3>2
    <2>2. got' \subseteq Pushes \X Instances
      BY <1>6 DEF Visit, CallOk, CallErr, TypeInv, TypeOK
    <2>3. UNCHANGED <<inst, registry, services, found, worker, inserts, removes,
                      chan, conn, list, push, cap, buf, must, gone>>
      BY <1>6 DEF Visit, CallOk, CallErr
    <2> QED BY <2>1, <2>2, <2>3 DEF TypeInv, TypeOK
  <1>7. ASSUME NEW s \in Instances, Report(p, s) PROVE TypeInv'
    <2>1. Append(buf[p], s) \in Seq(Instances) /\ Len(Append(buf[p], s)) <= cap[p]
      <3>1. buf[p] \in Seq(Instances) /\ Len(buf[p]) < cap[p] /\ cap[p] \in Nat
        BY <1>7 DEF Report, TypeInv, TypeOK
      <3>2. Len(Append(buf[p], s)) = Len(buf[p]) + 1 /\ Len(buf[p]) \in Nat
            /\ Append(buf[p], s) \in Seq(Instances)
        BY <3>1, AppendProperties, LenProperties
      <3> QED BY <3>1, <3>2
    <2>2. buf' \in [Pushes -> Seq(Instances)]
          /\ \A x \in Pushes : Len(buf'[x]) <= cap[x]
      BY <1>7, <2>1 DEF Report, TypeInv, TypeOK
    <2>3. task' \in [Pushes -> [Instances -> TaskState]]
      BY <1>7 DEF Report, TypeInv, TypeOK, TaskState
    <2> QED BY <1>7, <2>2, <2>3 DEF Report, TypeInv, TypeOK
  <1> QED BY <1>1, <1>2, <1>3, <1>4, <1>5, <1>6, <1>7 DEF PushStep

LEMMA TypeStep == TypeInv /\ Fresh /\ [Next]_vars => TypeInv'
  <1> SUFFICES ASSUME TypeInv, Fresh, [Next]_vars PROVE TypeInv'
    OBVIOUS
  <1> USE DEF cluster, receiver, discovery, calls
  <1>1. ASSUME NEW s \in Instances, Cluster(s) PROVE TypeInv'
    BY <1>1 DEF Cluster, Register, Serve, Stop, Leave, TypeInv, TypeOK
  <1>2. CASE Restart
    <2>1. <<>> \in Seq(Instances) /\ <<>> \in Seq(ChangesOf(Instances)) /\ Len(<<>>) = 0
      OBVIOUS
    <2>2. Len(chan') <= ChanCap /\ chan' \in Seq(ChangesOf(Instances))
      BY <1>2, <2>1, CapAssumption DEF Restart
    <2>3. push' \in [Pushes -> PushState]
      BY <1>2 DEF Restart, TypeInv, TypeOK, PushState
    <2>4. task' \in [Pushes -> [Instances -> TaskState]]
      BY <1>2 DEF Restart, TaskState
    <2>5. buf' \in [Pushes -> Seq(Instances)] /\ \A p \in Pushes : Len(buf'[p]) <= cap[p]
      BY <1>2, <2>1 DEF Restart, TypeInv, TypeOK
    <2>6. IsFiniteSet(list')
      BY <1>2, FS_EmptySet DEF Restart
    <2> QED BY <1>2, <2>2, <2>3, <2>4, <2>5, <2>6 DEF Restart, TypeInv, TypeOK
  <1>3. CASE UNCHANGED vars
    BY <1>3 DEF vars, TypeInv, TypeOK
  <1> QED BY <1>1, <1>2, <1>3, WorkerType, ReceiverType, PushType DEF Next

LEMMA FreshStep == TypeInv /\ Fresh /\ [Next]_vars => Fresh'
  <1> SUFFICES ASSUME TypeInv, Fresh, [Next]_vars PROVE Fresh'
    OBVIOUS
  <1> USE DEF cluster, receiver, discovery, calls
  <1>1. ASSUME UNCHANGED <<push, buf, task>> PROVE Fresh'
    BY <1>1 DEF Fresh
  <1>2. ASSUME NEW s \in Instances, Cluster(s) PROVE Fresh'
    BY <1>1, <1>2 DEF Cluster, Register, Serve, Stop, Leave
  <1>3. CASE Worker \/ Receiver
    BY <1>1, <1>3 DEF Worker, Discover, DiscoverErr, SendInsert, SendRemove, StoreView,
                      Receiver, TakeInsert, TakeRemove, Connect, ConnectErr
  <1>4. CASE Restart
    BY <1>4 DEF Restart, Fresh
  <1>5. ASSUME NEW p \in Pushes, PushStep(p) PROVE Fresh'
    <2>1. ASSUME NEW x \in Pushes \ {p} PROVE
            push'[x] = push[x] /\ buf'[x] = buf[x] /\ task'[x] = task[x]
      BY <1>5, <2>1 DEF PushStep, PushPanics, PushStart, Visit, EndVisit, CallOk,
            CallErr, Report, Collect, Reply, TypeInv, TypeOK
    <2>2. ASSUME push'[p] = "new" PROVE FALSE
      <3>1. CASE PushPanics(p) \/ PushStart(p) \/ EndVisit(p) \/ Reply(p)
        BY <2>2, <3>1 DEF PushPanics, PushStart, EndVisit, Reply, TypeInv, TypeOK
      <3>2. CASE Collect(p)
        BY <2>2, <3>2 DEF Collect
      <3>3. ASSUME NEW s \in Instances,
                   Visit(p, s) \/ CallOk(p, s) \/ CallErr(p, s) \/ Report(p, s)
            PROVE  FALSE
        BY <2>2, <3>3 DEF Visit, CallOk, CallErr, Report, Fresh
      <3> QED BY <1>5, <3>1, <3>2, <3>3 DEF PushStep
    <2> QED BY <2>1, <2>2 DEF Fresh
  <1>6. CASE UNCHANGED vars
    BY <1>1, <1>6 DEF vars
  <1> QED BY <1>2, <1>3, <1>4, <1>5, <1>6 DEF Next

LEMMA TypeAlways == Spec => [](TypeInv /\ Fresh)
  <1>1. Init => Fresh
    BY DEF Init, Fresh
  <1> QED BY <1>1, InitType, TypeStep, FreshStep, PTL DEF Spec

\* The variables keep their types: neither the channel of changes nor the channel
\* of errors of a push ever holds more than its capacity.
THEOREM TypeCorrect == Spec => []TypeOK
  <1>1. TypeInv => TypeOK
    BY DEF TypeInv
  <1> QED BY TypeAlways, <1>1, PTL

\* Whatever a call in progress has found in the list at its start is still there
\* or known to have left; once the iteration is over it has a task; and a task
\* that is done has handed the message over, reported an error that waits in the
\* channel, or reported one for which the instance was taken off the list.
Holds(q, s)   == \E i \in 1 .. Len(q) : q[i] = s
Handled(p, s) == <<p, s>> \in got \/ Holds(buf[p], s) \/ s \in gone[p]

Reach(p) ==
    /\ push[p] \in {"visit", "wait"} =>
          /\ must[p] \subseteq list \cup gone[p]
          /\ \A s \in Instances : task[p][s] = "done" => Handled(p, s)
    /\ push[p] = "wait" =>
          \A s \in must[p] : task[p][s] # "none" \/ s \in gone[p]
    /\ push[p] = "replied" => \A s \in must[p] \ gone[p] : <<p, s>> \in got

LEMMA ReachKept ==
    ASSUME NEW p \in Pushes, Reach(p), list \subseteq list', got \subseteq got',
           gone'[p] = gone[p], push'[p] = push[p], must'[p] = must[p],
           task'[p] = task[p], buf'[p] = buf[p]
    PROVE  Reach(p)'
  BY DEF Reach, Handled, Holds

LEMMA ReachUnlist ==
    ASSUME TypeInv, NEW p \in Pushes, Reach(p), NEW s \in Instances, Unlist(s),
           \A t \in Instances : Holds(buf[p], t) => Holds(buf'[p], t) \/ (t = s /\ p \in Active),
           UNCHANGED <<push, must, task, got>>
    PROVE  Reach(p)'
  <1>1. gone'[p] = IF p \in Active THEN gone[p] \cup {s} ELSE gone[p]
    BY DEF Unlist
  <1>2. p \in Active <=> push[p] \in {"visit", "wait"}
    BY DEF Active
  <1>3. CASE p \in Active
    <2>1. must[p] \subseteq list' \cup gone'[p]
      BY <1>1, <1>2, <1>3 DEF Unlist, Reach
    <2>2. ASSUME NEW t \in Instances, task[p][t] = "done" PROVE Handled(p, t)'
      BY <1>1, <1>2, <1>3, <2>2 DEF Reach, Handled
    <2> QED BY <1>1, <1>2, <1>3, <2>1, <2>2 DEF Reach
  <1>4. CASE p \notin Active
    BY <1>1, <1>2, <1>4 DEF Reach
  <1> QED BY <1>3, <1>4

LEMMA ReachPush ==
    ASSUME TypeInv, Fresh, NEW p \in Pushes, PushStep(p), NEW x \in Pushes, Reach(x)
    PROVE  Reach(x)'
  <1> USE DEF cluster, receiver, discovery
  <1>1. CASE PushPanics(p)
    BY <1>1 DEF PushPanics, Reach, Handled, Holds, TypeInv, TypeOK
  <1>2. CASE PushStart(p)
    <2>1. CASE x = p
      BY <1>2, <2>1 DEF PushStart, Reach, Fresh, TypeInv, TypeOK
    <2>2. CASE x # p
      BY <1>2, <2>2, ReachKept DEF PushStart, TypeInv, TypeOK
    <2> QED BY <2>1, <2>2
  <1>3. CASE EndVisit(p)
    <2>1. CASE x = p
      <3>1. must[p] \subseteq list \cup gone[p]
        BY <1>3, <2>1 DEF EndVisit, Reach
      <3>2. \A s \in must[p] : task[p][s] # "none" \/ s \in gone[p]
        BY <1>3, <3>1 DEF EndVisit
      <3> QED BY <1>3, <2>1, <3>1, <3>2 DEF EndVisit, Reach, Handled, Holds, TypeInv, TypeOK
    <2>2. CASE x # p
      BY <1>3, <2>2, ReachKept DEF EndVisit, TypeInv, TypeOK
    <2> QED BY <2>1, <2>2
  <1>4. CASE Collect(p)
    <2>1. buf[p] \in Seq(Instances) /\ buf[p] # <<>>
      BY <1>4 DEF Collect, TypeInv, TypeOK
    <2>2. Head(buf[p]) \in Instances /\ Head(buf[p]) = buf[p][1] /\ Len(buf[p]) \in Nat
          /\ Tail(buf[p]) \in Seq(Instances) /\ Len(Tail(buf[p])) = Len(buf[p]) - 1
          /\ \A i \in 1 .. Len(Tail(buf[p])) : Tail(buf[p])[i] = buf[p][i + 1]
      BY <2>1, HeadTailProperties, LenProperties
    <2>3. buf' = [buf EXCEPT ![p] = Tail(@)] /\ buf \in [Pushes -> Seq(Instances)]
          /\ p \in Active
      BY <1>4 DEF Collect, TypeInv, TypeOK, Active
    <2>4. ASSUME NEW t \in Instances, Holds(buf[x], t)
          PROVE  Holds(buf'[x], t) \/ (t = Head(buf[p]) /\ x \in Active)
      <3>1. CASE x = p
        <4>1. PICK i \in 1 .. Len(buf[p]) : buf[p][i] = t
          BY <2>4, <3>1 DEF Holds
        <4>2. CASE i = 1
          BY <2>2, <2>3, <3>1, <4>1, <4>2
        <4>3. CASE i # 1
          <5>1. i - 1 \in 1 .. Len(Tail(buf[p])) /\ Tail(buf[p])[i - 1] = t
            BY <2>2, <4>1, <4>3
          <5>2. buf'[p] = Tail(buf[p])
            BY <2>3
          <5> QED BY <3>1, <5>1, <5>2 DEF Holds
        <4> QED BY <4>2, <4>3
      <3>2. CASE x # p
        <4>1. buf'[x] = buf[x]
          BY <2>3, <3>2
        <4> QED BY <2>4, <4>1 DEF Holds
      <3> QED BY <3>1, <3>2
    <2>5. Unlist(Head(buf[p])) /\ UNCHANGED <<push, must, task, got>>
      BY <1>4 DEF Collect
    <2> QED BY <2>2, <2>4, <2>5, ReachUnlist
  <1>5. CASE Reply(p)
    <2>1. CASE x = p
      <3>1. /\ \A s \in Instances : task[p][s] \in {"none", "done"} /\ ~ Holds(buf[p], s)
            /\ push[p] = "wait" /\ must[p] \subseteq Instances
        BY <1>5 DEF Reply, Holds, TypeInv, TypeOK
      <3>2. \A s \in must[p] \ gone[p] : <<p, s>> \in got
        BY <2>1, <3>1 DEF Reach, Handled
      <3>3. push'[p] = "replied" /\ UNCHANGED <<must, gone, got>>
        BY <1>5 DEF Reply, TypeInv, TypeOK
      <3> QED BY <2>1, <3>2, <3>3 DEF Reach
    <2>2. CASE x # p
      BY <1>5, <2>2, ReachKept DEF Reply, TypeInv, TypeOK
    <2> QED BY <2>1, <2>2
  <1>6. ASSUME NEW s \in Instances, Visit(p, s) PROVE Reach(x)'
    <2>1. /\ task' = [task EXCEPT ![p][s] = "run"]
          /\ task \in [Pushes -> [Instances -> TaskState]]
          /\ UNCHANGED <<list, push, buf, must, gone, got>>
      BY <1>6 DEF Visit, TypeInv, TypeOK
    <2>2. \A t \in Instances : /\ task'[x][t] = "done" => task[x][t] = "done"
                               /\ task[x][t] # "none" => task'[x][t] # "none"
      BY <2>1
    <2>3. must[x] \subseteq Instances
      BY DEF TypeInv, TypeOK
    <2> QED BY <2>1, <2>2, <2>3 DEF Reach, Handled, Holds
  <1>7. ASSUME NEW s \in Instances, CallOk(p, s) \/ CallErr(p, s) PROVE Reach(x)'
    <2>1. /\ UNCHANGED <<list, push, buf, must, gone>>
          /\ got \subseteq got'
          /\ \/ task' = [task EXCEPT ![p][s] = "done"] /\ <<p, s>> \in got'
             \/ task' = [task EXCEPT ![p][s] = "err"]
      BY <1>7 DEF CallOk, CallErr
    <2>2. task \in [Pushes -> [Instances -> TaskState]] /\ must[x] \subseteq Instances
      BY DEF TypeInv, TypeOK
    <2>3. ASSUME NEW t \in Instances
          PROVE  /\ task'[x][t] = "done" => task[x][t] = "done" \/ <<x, t>> \in got'
                 /\ task[x][t] # "none" => task'[x][t] # "none"
      BY <2>1, <2>2
    <2> QED BY <2>1, <2>2, <2>3 DEF Reach, Handled, Holds
  <1>8. ASSUME NEW s \in Instances, Report(p, s) PROVE Reach(x)'
    <2>1. CASE x = p
      <3>1. buf[p] \in Seq(Instances) /\ task \in [Pushes -> [Instances -> TaskState]]
            /\ must[p] \subseteq Instances
        BY DEF TypeInv, TypeOK
      <3>2. /\ UNCHANGED <<list, push, must, gone, got>>
            /\ task' = [task EXCEPT ![p][s] = "done"]
            /\ buf'[p] = Append(buf[p], s)
        BY <1>8 DEF Report, TypeInv, TypeOK
      <3>3. /\ Len(buf'[p]) = Len(buf[p]) + 1 /\ Len(buf[p]) \in Nat
            /\ \A i \in 1 .. Len(buf[p]) : buf'[p][i] = buf[p][i]
            /\ buf'[p][Len(buf[p]) + 1] = s
        BY <3>1, <3>2, AppendProperties, LenProperties
      <3>4. Holds(buf'[p], s) /\ \A t \in Instances : Holds(buf[p], t) => Holds(buf'[p], t)
        BY <3>3 DEF Holds
      <3>5. \A t \in Instances : /\ t # s => task'[p][t] = task[p][t]
                                 /\ task[p][t] # "none" => task'[p][t] # "none"
        BY <3>1, <3>2
      <3> QED BY <2>1, <3>1, <3>2, <3>4, <3>5 DEF Reach, Handled
    <2>2. CASE x # p
      BY <1>8, <2>2, ReachKept DEF Report, TypeInv, TypeOK
    <2> QED BY <2>1, <2>2
  <1> QED BY <1>1, <1>2, <1>3, <1>4, <1>5, <1>6, <1>7, <1>8 DEF PushStep

LEMMA ReachStep ==
    ASSUME TypeInv, Fresh, [Next]_vars, NEW x \in Pushes, Reach(x)
    PROVE  Reach(x)'
  <1> USE DEF cluster, receiver, discovery, calls
  <1>1. ASSUME NEW s \in Instances, Cluster(s) PROVE Reach(x)'
    BY <1>1, ReachKept DEF Cluster, Register, Serve, Stop, Leave
  <1>2. CASE Worker
    BY <1>2, ReachKept DEF Worker, Discover, DiscoverErr, SendInsert, SendRemove, StoreView
  <1>3. CASE TakeInsert \/ Connect \/ ConnectErr
    BY <1>3, ReachKept DEF TakeInsert, Connect, ConnectErr
  <1>4. CASE TakeRemove
    <2>1. chan \in Seq(ChangesOf(Instances)) /\ chan # <<>>
      BY <1>4 DEF TakeRemove, TypeInv, TypeOK
    <2>2. Head(chan).addr \in Instances
      <3>1. Head(chan) \in ChangesOf(Instances)
        BY <2>1, HeadTailProperties
      <3> QED BY <3>1 DEF ChangesOf
    <2>3. Unlist(Head(chan).addr) /\ UNCHANGED <<push, must, task, got, buf>>
      BY <1>4 DEF TakeRemove
    <2>4. \A t \in Instances : Holds(buf[x], t) => Holds(buf'[x], t)
      BY <2>3 DEF Holds
    <2> QED BY <2>2, <2>3, <2>4, ReachUnlist
  <1>5. CASE Restart
    <2>1. push'[x] = (IF push[x] \in {"visit", "wait"} THEN "lost" ELSE push[x])
          /\ UNCHANGED <<must, gone, got>>
      BY <1>5 DEF Restart, Active
    <2> QED BY <2>1 DEF Reach
  <1>6. CASE UNCHANGED vars
    BY <1>6, ReachKept DEF vars
  <1> QED BY <1>1, <1>2, <1>3, <1>4, <1>5, <1>6, ReachPush DEF Next, Receiver

\* A push that was answered reached every instance that was listed from its
\* beginning to its end, however many pushes and list changes run beside it
\* (pusher/src/main.rs:115-134).
THEOREM AnsweredPushesReachAll == Spec => []AnsweredPushReachedAll
  <1> DEFINE AllReach == \A p \in Pushes : Reach(p)
  <1>1. Init => AllReach
    BY DEF Init, Reach
  <1>2. TypeInv /\ Fresh /\ AllReach /\ [Next]_vars => AllReach'
    BY ReachStep
  <1>3. AllReach => AnsweredPushReachedAll
    BY DEF Reach, AnsweredPushReachedAll
  <1> QED BY <1>1, <1>2, <1>3, TypeAlways, PTL DEF Spec

\* What the receiver task makes of the list once it has connected to conn and has
\* taken every change off the channel is, between two rounds, part of the
\* worker's view; during a round, part of the new view but for the removes that
\* are still to be sent.
Ahead ==
    /\ worker = "sleep" =>
          \A s \in Instances : Member(s, list \cup {conn}, chan) => s \in services
    /\ worker = "send" =>
          /\ inserts \subseteq found
          /\ \A s \in Instances :
                Member(s, list \cup {conn}, chan) => s \in found \cup removes

LEMMA MemberFewer ==
    ASSUME NEW a, NEW S, NEW T, S \subseteq T, NEW q, Member(a, S, q)
    PROVE  Member(a, T, q)
  BY DEF Member

LEMMA AheadKept ==
    ASSUME Ahead, list' \cup {conn'} \subseteq list \cup {conn, None}, chan' = chan,
           conn' = None \/ conn' = conn, UNCHANGED <<worker, services, found, inserts, removes>>
    PROVE  Ahead'
  <1>1. ASSUME NEW s \in Instances, Member(s, list' \cup {conn'}, chan')
        PROVE  Member(s, list \cup {conn}, chan)
    <2>1. s # None
      BY NoneAssumption
    <2>2. s \in list' \cup {conn'} => s \in list \cup {conn}
      BY <2>1
    <2> QED BY <1>1, <2>2 DEF Member
  <1> QED BY <1>1 DEF Ahead

LEMMA AheadWorker == TypeInv /\ Ahead /\ Worker => Ahead'
  <1> SUFFICES ASSUME TypeInv, Ahead, Worker PROVE Ahead'
    OBVIOUS
  <1> USE DEF cluster, receiver, discovery, calls
  <1> DEFINE M(s) == Member(s, list \cup {conn}, chan)
  <1>1. chan \in Seq(ChangesOf(Instances))
    BY DEF TypeInv, TypeOK
  <1>2. ASSUME NEW op \in {"insert", "remove"}, NEW s \in Instances, NEW t \in Instances,
               chan' = Append(chan, Change(op, s))
        PROVE  Member(t, list \cup {conn}, chan') <=> IF s = t THEN op = "insert" ELSE M(t)
    <2>1. Change(op, s) \in ChangesOf(Instances) /\ Change(op, s).addr = s
          /\ Change(op, s).op = op
      BY DEF Change, ChangesOf
    <2> QED BY <1>1, <1>2, <2>1, MemberAppend
  <1>3. CASE Discover
    <2>1. \A s \in Instances : M(s) => s \in services
      BY <1>3 DEF Discover, Ahead
    <2>2. /\ worker' = "send" /\ found' = registry
          /\ inserts' = registry \ services /\ removes' = services \ registry
          /\ UNCHANGED <<chan, conn, list>>
      BY <1>3 DEF Discover
    <2> QED BY <2>1, <2>2 DEF Ahead
  <1>4. CASE DiscoverErr
    BY <1>4 DEF DiscoverErr, Ahead
  <1>5. CASE StoreView
    <2>1. \A s \in Instances : M(s) => s \in found
      BY <1>5 DEF StoreView, Ahead
    <2>2. worker' = "sleep" /\ services' = found /\ UNCHANGED <<chan, conn, list>>
      BY <1>5 DEF StoreView
    <2> QED BY <2>1, <2>2 DEF Ahead
  <1>6. ASSUME NEW s \in Instances, SendInsert(s) PROVE Ahead'
    <2>1. /\ worker' = "send" /\ inserts' \subseteq found' /\ s \in found'
          /\ chan' = Append(chan, Change("insert", s))
          /\ UNCHANGED <<found, removes, conn, list>>
      BY <1>6 DEF SendInsert, Ahead
    <2>2. ASSUME NEW t \in Instances, Member(t, list' \cup {conn'}, chan')
          PROVE  t \in found' \cup removes'
      <3>1. s = t \/ M(t)
        BY <1>2, <2>1, <2>2
      <3> QED BY <1>6, <2>1, <3>1 DEF SendInsert, Ahead
    <2> QED BY <2>1, <2>2 DEF Ahead
  <1>7. ASSUME NEW s \in Instances, SendRemove(s) PROVE Ahead'
    <2>1. /\ worker' = "send" /\ inserts' = {} /\ removes' = removes \ {s}
          /\ chan' = Append(chan, Change("remove", s))
          /\ UNCHANGED <<found, conn, list>>
      BY <1>7 DEF SendRemove
    <2>2. ASSUME NEW t \in Instances, Member(t, list' \cup {conn'}, chan')
          PROVE  t \in found' \cup removes'
      <3>1. s # t /\ M(t)
        BY <1>2, <2>1, <2>2
      <3> QED BY <1>7, <2>1, <3>1 DEF SendRemove, Ahead
    <2> QED BY <2>1, <2>2 DEF Ahead
  <1> QED BY <1>3, <1>4, <1>5, <1>6, <1>7 DEF Worker

LEMMA AheadTake == TypeInv /\ Ahead /\ (TakeInsert \/ TakeRemove) => Ahead'
  <1> SUFFICES ASSUME TypeInv, Ahead, TakeInsert \/ TakeRemove PROVE Ahead'
    OBVIOUS
  <1>1. /\ chan \in Seq(ChangesOf(Instances)) /\ chan # <<>> /\ chan' = Tail(chan)
        /\ conn = None /\ UNCHANGED <<worker, services, found, inserts, removes>>
    BY DEF TakeInsert, TakeRemove, TypeInv, TypeOK, discovery
  <1>2. list' \cup {conn'} \subseteq Apply(list, Head(chan)) \cup {None}
    BY DEF TakeInsert, TakeRemove, Unlist, Apply
  <1>3. ASSUME NEW s \in Instances, Member(s, list' \cup {conn'}, chan')
        PROVE  Member(s, list \cup {conn}, chan)
    <2>1. s \in list' \cup {conn'} => s \in Apply(list, Head(chan))
      BY <1>2, NoneAssumption
    <2>2. Member(s, Apply(list, Head(chan)), Tail(chan))
      BY <1>1, <1>3, <2>1 DEF Member
    <2>3. Member(s, list, chan)
      BY <1>1, <2>2, MemberTail
    <2> QED BY <2>3, MemberFewer
  <1> QED BY <1>1, <1>3 DEF Ahead

LEMMA AheadStep == TypeInv /\ Ahead /\ [Next]_vars => Ahead'
  <1> SUFFICES ASSUME TypeInv, Ahead, [Next]_vars PROVE Ahead'
    OBVIOUS
  <1> USE DEF cluster, receiver, discovery, calls
  <1>1. ASSUME NEW s \in Instances, Cluster(s) PROVE Ahead'
    BY <1>1, AheadKept DEF Cluster, Register, Serve, Stop, Leave
  <1>2. CASE Connect \/ ConnectErr
    BY <1>2, AheadKept DEF Connect, ConnectErr
  <1>3. CASE Restart
    <2>1. worker' = "sleep" /\ list' = {} /\ conn' = None /\ chan' = <<>>
      BY <1>3 DEF Restart
    <2>2. ASSUME NEW s \in Instances PROVE ~ Member(s, list' \cup {conn'}, chan')
      BY <2>1, MemberEmpty, NoneAssumption
    <2> QED BY <2>1, <2>2 DEF Ahead
  <1>4. ASSUME NEW p \in Pushes, PushStep(p) PROVE Ahead'
    <2>1. /\ list' \subseteq list
          /\ UNCHANGED <<chan, conn, worker, services, found, inserts, removes>>
      BY <1>4 DEF PushStep, PushPanics, PushStart, Visit, EndVisit, CallOk, CallErr,
                  Report, Collect, Reply, Unlist
    <2> QED BY <2>1, AheadKept
  <1>5. CASE UNCHANGED vars
    BY <1>5, AheadKept DEF vars
  <1> QED BY <1>1, <1>2, <1>3, <1>4, <1>5, AheadWorker, AheadTake DEF Next, Receiver

\* The list never keeps, nor gets back, an instance that the worker has reported
\* as removed (pusher/src/main.rs:31-46).
THEOREM RemovesAlwaysTakeEffect == Spec => []RemovesTakeEffect
  <1>1. Init => Ahead
    BY MemberEmpty, NoneAssumption DEF Init, Ahead
  <1>2. TypeInv /\ Ahead => RemovesTakeEffect
    <2> SUFFICES ASSUME TypeInv, Ahead, worker = "sleep", chan = <<>>, NEW s \in list
                 PROVE  s \in services
      BY DEF RemovesTakeEffect
    <2>1. s \in Instances /\ Member(s, list \cup {conn}, chan)
      BY MemberEmpty DEF TypeInv, TypeOK
    <2> QED BY <2>1 DEF Ahead
  <1> QED BY <1>1, <1>2, AheadStep, TypeAlways, PTL DEF Spec
=============================================================================
