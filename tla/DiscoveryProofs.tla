-------------------------- MODULE DiscoveryProofs --------------------------
(***************************************************************************)
(* Theorems about Discovery.tla, for any processes, hosts, addresses and   *)
(* deployments and any capacity of the queues.                             *)
(***************************************************************************)
EXTENDS Discovery, ChangesProofs, FiniteSetTheorems

ChangeT == ChangesOf(Addrs)
StepT   == [op: {"open", "register", "listen", "topic", "pool"}, service: Services]

(* The scripts.  Beyond these lemmas they are sequences of steps. *)

LEMMA KindCases ==
    ASSUME NEW p \in Procs
    PROVE  \/ Kind[p] = "consumer" /\ ScriptOf(p) = ConsumerScript
           \/ Kind[p] = "ws" /\ ScriptOf(p) = WsScript
           \/ Kind[p] = "chat" /\ ScriptOf(p) = ChatScript
           \/ Kind[p] = "db" /\ ScriptOf(p) = DbScript
           \/ Kind[p] = "pusher" /\ ScriptOf(p) = PusherScript
  <1>1. Kind[p] \in {"consumer", "ws", "chat", "db", "pusher"}
    BY ConfigAssumption DEF Script
  <1>2. CASE Kind[p] = "consumer"
    BY <1>2 DEF ScriptOf, Script
  <1>3. CASE Kind[p] = "ws"
    BY <1>3 DEF ScriptOf, Script
  <1>4. CASE Kind[p] = "chat"
    BY <1>4 DEF ScriptOf, Script
  <1>5. CASE Kind[p] = "db"
    BY <1>5 DEF ScriptOf, Script
  <1>6. CASE Kind[p] = "pusher"
    BY <1>6 DEF ScriptOf, Script
  <1> QED BY <1>1, <1>2, <1>3, <1>4, <1>5, <1>6

LEMMA ScriptTypes ==
    /\ ConsumerScript \in Seq(StepT) /\ WsScript \in Seq(StepT)
    /\ ChatScript \in Seq(StepT) /\ DbScript \in Seq(StepT)
    /\ PusherScript \in Seq(StepT)
  <1> USE DEF StepT, Services, Step, Open, Register, Listen, Topic, Pool
  <1>1. ConsumerScript \in Seq(StepT)
    BY DEF ConsumerScript
  <1>2. WsScript \in Seq(StepT)
    BY DEF WsScript
  <1>3. ChatScript \in Seq(StepT)
    BY DEF ChatScript
  <1>4. DbScript \in Seq(StepT)
    BY DEF DbScript
  <1>5. PusherScript \in Seq(StepT)
    BY DEF PusherScript
  <1> QED BY <1>1, <1>2, <1>3, <1>4, <1>5

LEMMA ScriptType ==
    ASSUME NEW p \in Procs
    PROVE  /\ ScriptOf(p) \in Seq(StepT) /\ Len(ScriptOf(p)) \in Nat
           /\ DOMAIN ScriptOf(p) = 1 .. Len(ScriptOf(p))
           /\ Steps(p) \subseteq StepT
  <1>1. ScriptOf(p) \in Seq(StepT)
    BY KindCases, ScriptTypes
  <1>2. Len(ScriptOf(p)) \in Nat /\ DOMAIN ScriptOf(p) = 1 .. Len(ScriptOf(p))
    BY <1>1, LenProperties
  <1>3. \A i \in DOMAIN ScriptOf(p) : ScriptOf(p)[i] \in StepT
    BY <1>1, <1>2, ElementOfSeq
  <1> QED BY <1>1, <1>2, <1>3 DEF Steps

LEMMA RegisterSteps ==
    ASSUME NEW p \in Procs, NEW s \in Services
    PROVE  Register(s) \in Steps(p) <=>
               \/ Kind[p] = "ws" /\ s \in {"websocket", "ws"}
               \/ Kind[p] = s /\ s \in {"chat", "db", "pusher"}
  <1> USE DEF Steps, Step, Open, Register, Listen, Topic, Pool, Services
  <1>1. CASE Kind[p] = "consumer" /\ ScriptOf(p) = ConsumerScript
    BY <1>1 DEF ConsumerScript
  <1>2. CASE Kind[p] = "ws" /\ ScriptOf(p) = WsScript
    BY <1>2 DEF WsScript
  <1>3. CASE Kind[p] = "chat" /\ ScriptOf(p) = ChatScript
    BY <1>3 DEF ChatScript
  <1>4. CASE Kind[p] = "db" /\ ScriptOf(p) = DbScript
    BY <1>4 DEF DbScript
  <1>5. CASE Kind[p] = "pusher" /\ ScriptOf(p) = PusherScript
    BY <1>5 DEF PusherScript
  <1> QED BY <1>1, <1>2, <1>3, <1>4, <1>5, KindCases

\* A registered service is listened to by the process that registers it.
LEMMA RegisteredIsServed ==
    ASSUME NEW p \in Procs, NEW s \in Services, Register(s) \in Steps(p)
    PROVE  Listen(s) \in Steps(p)
  <1> USE DEF Steps, Step, Open, Register, Listen, Topic, Pool, Services
  <1>1. CASE Kind[p] = "consumer" /\ ScriptOf(p) = ConsumerScript
    BY <1>1, RegisterSteps
  <1>2. CASE Kind[p] = "ws" /\ ScriptOf(p) = WsScript
    BY <1>2, RegisterSteps DEF WsScript
  <1>3. CASE Kind[p] = "chat" /\ ScriptOf(p) = ChatScript
    BY <1>3, RegisterSteps DEF ChatScript
  <1>4. CASE Kind[p] = "db" /\ ScriptOf(p) = DbScript
    BY <1>4, RegisterSteps DEF DbScript
  <1>5. CASE Kind[p] = "pusher" /\ ScriptOf(p) = PusherScript
    BY <1>5, RegisterSteps DEF PusherScript
  <1> QED BY <1>1, <1>2, <1>3, <1>4, <1>5, KindCases
-----------------------------------------------------------------------------
(* Types *)

LEMMA InitType == Init => TypeOK
  <1> SUFFICES ASSUME Init PROVE TypeOK
    OBVIOUS
  <1>1. deployed \subseteq Procs
    BY ConfigAssumption DEF Init
  <1>2. pc \in [Procs -> Nat] /\ \A p \in Procs : pc[p] <= Len(ScriptOf(p)) + 1
    BY ScriptType DEF Init
  <1>3. <<>> \in Seq(ChangeT) /\ Len(<<>>) = 0 /\ ChanCap \in Nat
    BY BoundsAssumption
  <1>4. queue \in [Channels -> Seq(ChangeT)] /\ \A ch \in Channels : Len(queue[ch]) <= ChanCap
    BY <1>3 DEF Init
  <1> QED BY <1>1, <1>2, <1>4 DEF Init, TypeOK, ChangeT

LEMMA UseType ==
    ASSUME TypeOK, NEW what \in {"start", "stop", "fault"}, NEW max, Use(what, max)
    PROVE  spent' \in [{"start", "stop", "fault"} -> Nat]
  BY DEF Use, TypeOK

LEMMA AdvanceType ==
    ASSUME TypeOK, NEW p \in Procs, InStart(p) \/ pc[p] = 0, Advance(p)
    PROVE  pc' \in [Procs -> Nat] /\ \A x \in Procs : pc'[x] <= Len(ScriptOf(x)) + 1
  <1>1. pc[p] \in Nat /\ pc[p] <= Len(ScriptOf(p)) /\ Len(ScriptOf(p)) \in Nat
    BY ScriptType DEF TypeOK, InStart
  <1>2. pc' = [pc EXCEPT ![p] = pc[p] + 1]
    BY DEF Advance
  <1> QED BY <1>1, <1>2 DEF TypeOK

LEMMA DownType ==
    ASSUME TypeOK, NEW p \in Procs, Down(p)
    PROVE  /\ pc' \in [Procs -> Nat] /\ \A x \in Procs : pc'[x] <= Len(ScriptOf(x)) + 1
           /\ round' \in [Channels -> {"idle", "send"}]
           /\ view' \in [Channels -> SUBSET SocketAddrs]
           /\ next' \in [Channels -> SUBSET SocketAddrs]
           /\ todo' \in [Channels -> SUBSET ChangeT]
           /\ queue' \in [Channels -> Seq(ChangeT)]
           /\ \A ch \in Channels : Len(queue'[ch]) <= ChanCap
           /\ ends' \in [Channels -> SUBSET Addrs]
           /\ waiting' \in [Channels -> BOOLEAN]
  <1>1. pc' \in [Procs -> Nat] /\ \A x \in Procs : pc'[x] <= Len(ScriptOf(x)) + 1
    BY ScriptType DEF Down, TypeOK
  <1>2. <<>> \in Seq(ChangeT) /\ Len(<<>>) = 0 /\ ChanCap \in Nat
    BY BoundsAssumption
  <1>3. queue' \in [Channels -> Seq(ChangeT)] /\ \A ch \in Channels : Len(queue'[ch]) <= ChanCap
    BY <1>2 DEF Down, TypeOK, ChangeT
  <1>4. /\ round' \in [Channels -> {"idle", "send"}]
        /\ waiting' \in [Channels -> BOOLEAN]
    BY DEF Down, TypeOK
  <1>5. /\ view' \in [Channels -> SUBSET SocketAddrs]
        /\ next' \in [Channels -> SUBSET SocketAddrs]
    BY DEF Down, TypeOK
  <1>6. /\ todo' \in [Channels -> SUBSET ChangeT]
        /\ ends' \in [Channels -> SUBSET Addrs]
    BY DEF Down, TypeOK, ChangeT
  <1> QED BY <1>1, <1>3, <1>4, <1>5, <1>6

LEMMA CurrentType ==
    ASSUME NEW p \in Procs, InStart(p)
    PROVE  Current(p) \in Steps(p) /\ Current(p) \in StepT /\ Current(p).service \in Services
  <1>1. Current(p) \in Steps(p)
    BY DEF InStart, Current, Steps
  <1>2. Current(p) \in StepT
    BY <1>1, ScriptType
  <1> QED BY <1>1, <1>2 DEF StepT

LEMMA PutType ==
    ASSUME TypeOK, NEW p \in Procs, InStart(p), Put(p)
    PROVE  registry' \in [Hosts \X Services -> Addrs \cup {None}]
  <1>1. Current(p).service \in Services
    BY CurrentType
  <1>2. AddrOf[p][Current(p).service] \in Addrs
    BY <1>1, ConfigAssumption
  <1> QED BY <1>2 DEF Put, TypeOK

LEMMA ProcessType ==
    ASSUME TypeOK, NEW p \in Procs, Start(p) \/ Stop(p) \/ StartStep(p)
    PROVE  TypeOK'
  <1> USE DEF channel, worker
  <1>1. CASE /\ Advance(p) /\ (InStart(p) \/ pc[p] = 0)
             /\ registry' \in [Hosts \X Services -> Addrs \cup {None}]
             /\ spent' \in [{"start", "stop", "fault"} -> Nat]
             /\ UNCHANGED <<deployed, channel>>
    BY <1>1, AdvanceType DEF TypeOK
  <1>2. CASE /\ Down(p)
             /\ registry' \in [Hosts \X Services -> Addrs \cup {None}]
             /\ spent' \in [{"start", "stop", "fault"} -> Nat]
             /\ UNCHANGED deployed
    BY <1>2, DownType DEF TypeOK, ChangeT
  <1>3. /\ registry \in [Hosts \X Services -> Addrs \cup {None}]
        /\ spent \in [{"start", "stop", "fault"} -> Nat]
    BY DEF TypeOK
  <1>4. CASE Start(p)
    BY <1>1, <1>3, <1>4, UseType DEF Start
  <1>5. CASE Stop(p)
    BY <1>2, <1>3, <1>5, UseType DEF Stop
  <1>6. CASE EnsureTopic(p) \/ ConnectPool(p) \/ Serve(p)
    BY <1>1, <1>3, <1>6 DEF EnsureTopic, ConnectPool, Serve, Does
  <1>7. CASE PrepareErr(p)
    BY <1>2, <1>3, <1>7, UseType DEF PrepareErr
  <1>8. CASE RegisterService(p)
    BY <1>1, <1>3, <1>8, PutType DEF RegisterService, Does
  <1>9. CASE RegisterErr(p)
    <2>1. registry' \in [Hosts \X Services -> Addrs \cup {None}]
      BY <1>3, <1>9, PutType DEF RegisterErr, Does
    <2> QED BY <1>2, <1>9, <2>1, UseType DEF RegisterErr
  <1>10. CASE ServeErr(p)
    BY <1>2, <1>3, <1>10 DEF ServeErr
  <1> QED BY <1>4, <1>5, <1>6, <1>7, <1>8, <1>9, <1>10 DEF StartStep

LEMMA ListedType == ASSUME NEW s PROVE Listed(s) \subseteq SocketAddrs
  BY DEF Listed

LEMMA ChangeSetType ==
    ASSUME NEW old, old \subseteq SocketAddrs, NEW new, new \subseteq SocketAddrs
    PROVE  ChangeSet(old, new) \subseteq ChangeT
  BY ConfigAssumption DEF ChangeSet, Change, ChangeT, ChangesOf

LEMMA RoundType ==
    ASSUME TypeOK, NEW ch \in Channels, Round(ch) \/ QueryErr(ch) PROVE TypeOK'
  <1> USE DEF channel, worker
  <1>1. ch[1] \in Procs
    BY DEF Channels
  <1>2. CASE Query(ch)
    <2>1. view[ch] \subseteq SocketAddrs /\ Listed(ch[2]) \subseteq SocketAddrs
      BY ListedType DEF TypeOK
    <2>2. ChangeSet(view[ch], Listed(ch[2])) \subseteq ChangeT
      BY <2>1, ChangeSetType
    <2>3. /\ next' \in [Channels -> SUBSET SocketAddrs]
          /\ todo' \in [Channels -> SUBSET ChangeT]
          /\ round' \in [Channels -> {"idle", "send"}]
      BY <1>2, <2>1, <2>2 DEF Query, TypeOK, ChangeT
    <2> QED BY <1>2, <2>3 DEF Query, TypeOK, ChangeT
  <1>3. CASE StoreView(ch)
    <2>1. /\ view' \in [Channels -> SUBSET SocketAddrs]
          /\ next' \in [Channels -> SUBSET SocketAddrs]
          /\ round' \in [Channels -> {"idle", "send"}]
      BY <1>3 DEF StoreView, TypeOK
    <2>2. pc' \in [Procs -> Nat] /\ \A x \in Procs : pc'[x] <= Len(ScriptOf(x)) + 1
      <3>1. CASE Opening(ch)
        BY <1>1, <1>3, <3>1, AdvanceType DEF StoreView, Opening
      <3>2. CASE ~ Opening(ch)
        BY <1>3, <3>2 DEF StoreView, TypeOK
      <3> QED BY <3>1, <3>2
    <2> QED BY <1>3, <2>1, <2>2 DEF StoreView, TypeOK
  <1>4. ASSUME NEW x \in todo[ch], SendChange(ch, x) PROVE TypeOK'
    <2>1. x \in ChangeT /\ queue[ch] \in Seq(ChangeT) /\ Len(queue[ch]) \in Nat
      BY LenProperties DEF TypeOK, ChangeT
    <2>2. Append(queue[ch], x) \in Seq(ChangeT) /\ Len(Append(queue[ch], x)) = Len(queue[ch]) + 1
      BY <2>1, AppendProperties
    <2>3. Len(Append(queue[ch], x)) <= ChanCap
      BY <1>4, <2>1, <2>2, BoundsAssumption DEF SendChange
    <2>4. queue' \in [Channels -> Seq(ChangeT)] /\ \A c \in Channels : Len(queue'[c]) <= ChanCap
      BY <1>4, <2>2, <2>3 DEF SendChange, TypeOK, ChangeT
    <2>5. todo' \in [Channels -> SUBSET ChangeT]
      BY <1>4 DEF SendChange, TypeOK, ChangeT
    <2> QED BY <1>4, <2>4, <2>5 DEF SendChange, TypeOK, ChangeT
  <1>5. CASE QueryErr(ch)
    <2>1. spent' \in [{"start", "stop", "fault"} -> Nat]
      BY <1>5, UseType DEF QueryErr
    <2>2. CASE Down(ch[1])
      BY <1>1, <1>5, <2>1, <2>2, DownType DEF QueryErr, TypeOK, ChangeT
    <2>3. CASE UNCHANGED <<pc, channel>>
      BY <1>5, <2>1, <2>3 DEF QueryErr, TypeOK
    <2> QED BY <1>5, <2>2, <2>3 DEF QueryErr
  <1> QED BY <1>2, <1>3, <1>4, <1>5 DEF Round

LEMMA CallType ==
    ASSUME TypeOK, NEW ch \in Channels, Call(ch) \/ Balancer(ch) PROVE TypeOK'
  <1> USE DEF worker
  <1>1. CASE Call(ch)
    BY <1>1 DEF Call, TypeOK
  <1>2. CASE Absorb(ch)
    <2>1. queue[ch] \in Seq(ChangeT) /\ queue[ch] # <<>> /\ Len(queue[ch]) <= ChanCap
      BY <1>2 DEF Absorb, TypeOK, ChangeT
    <2>2. /\ Head(queue[ch]) \in ChangeT /\ Tail(queue[ch]) \in Seq(ChangeT)
          /\ Len(Tail(queue[ch])) <= ChanCap
      BY <2>1, HeadTailProperties, LenProperties, BoundsAssumption
    <2>3. Apply(ends[ch], Head(queue[ch])) \subseteq Addrs
      BY <2>2 DEF Apply, ChangeT, ChangesOf, TypeOK
    <2>4. queue' \in [Channels -> Seq(ChangeT)] /\ \A c \in Channels : Len(queue'[c]) <= ChanCap
      BY <1>2, <2>2 DEF Absorb, TypeOK, ChangeT
    <2>5. ends' \in [Channels -> SUBSET Addrs]
      BY <1>2, <2>3 DEF Absorb, TypeOK
    <2> QED BY <1>2, <2>4, <2>5 DEF Absorb, TypeOK, ChangeT
  <1>3. CASE CallOk(ch)
    BY <1>3 DEF CallOk, TypeOK
  <1>4. CASE CallErr(ch)
    <2>1. spent' \in [{"start", "stop", "fault"} -> Nat]
      BY <1>4, UseType DEF CallErr, TypeOK
    <2>2. waiting' \in [Channels -> BOOLEAN]
      BY <1>4 DEF CallErr, TypeOK
    <2> QED BY <1>4, <2>1, <2>2 DEF CallErr, TypeOK
  <1> QED BY <1>1, <1>2, <1>3, <1>4 DEF Balancer

LEMMA TypeStep == TypeOK /\ [Next]_vars => TypeOK'
  <1>1. TypeOK /\ UNCHANGED vars => TypeOK'
    BY DEF vars, channel, worker, TypeOK
  <1> QED BY <1>1, ProcessType, RoundType, CallType DEF Next

\* The variables keep their types: no queue of changes ever holds more than its
\* capacity.
THEOREM TypeCorrect == Spec => []TypeOK
  BY InitType, TypeStep, PTL DEF Spec
-----------------------------------------------------------------------------
(* Channels *)

\* Between two rounds a channel's endpoints are the ones of the view, once the
\* queue is applied.  During a round they are the ones of the next view, but for
\* the addresses whose change is still to be sent.
Inserts(ch, a) == Change("insert", a) \in todo[ch]
Removes(ch, a) == Change("remove", a) \in todo[ch]
Follows(ch, a, S) == Member(a, ends[ch], queue[ch]) <=> a \in S \cap Urls

Channel(ch) ==
    /\ round[ch] = "idle" => \A a \in Addrs : Follows(ch, a, view[ch])
    /\ round[ch] = "send" => \A a \in Addrs :
          /\ Inserts(ch, a) => a \in next[ch] \cap Urls
          /\ Removes(ch, a) => a \notin next[ch]
          /\ ~ Inserts(ch, a) /\ ~ Removes(ch, a) => Follows(ch, a, next[ch])

LEMMA ChannelKept ==
    ASSUME NEW ch \in Channels, Channel(ch), round'[ch] = round[ch], view'[ch] = view[ch],
           next'[ch] = next[ch], todo'[ch] = todo[ch], queue'[ch] = queue[ch],
           ends'[ch] = ends[ch]
    PROVE  Channel(ch)'
  BY DEF Channel, Inserts, Removes, Follows

LEMMA ChannelEmpty ==
    ASSUME NEW ch \in Channels, round[ch] = "idle", view[ch] = {}, queue[ch] = <<>>,
           ends[ch] = {}
    PROVE  Channel(ch)
  BY MemberEmpty DEF Channel, Follows

LEMMA ChannelDown ==
    ASSUME NEW p \in Procs, Down(p), NEW ch \in Channels, Channel(ch) PROVE Channel(ch)'
  <1>1. CASE ch[1] = p
    <2>1. /\ round'[ch] = "idle" /\ view'[ch] = {} /\ queue'[ch] = <<>>
          /\ ends'[ch] = {}
      BY <1>1 DEF Down
    <2> QED BY <2>1, MemberEmpty DEF Channel, Follows
  <1>2. CASE ch[1] # p
    <2>1. /\ round'[ch] = round[ch] /\ view'[ch] = view[ch] /\ next'[ch] = next[ch]
          /\ todo'[ch] = todo[ch] /\ queue'[ch] = queue[ch] /\ ends'[ch] = ends[ch]
      BY <1>2 DEF Down
    <2> QED BY <2>1, ChannelKept
  <1> QED BY <1>1, <1>2

LEMMA ChannelProcess ==
    ASSUME NEW p \in Procs, Start(p) \/ Stop(p) \/ StartStep(p),
           NEW ch \in Channels, Channel(ch)
    PROVE  Channel(ch)'
  <1>1. CASE UNCHANGED channel
    BY <1>1, ChannelKept DEF channel, worker
  <1>2. CASE Down(p)
    BY <1>2, ChannelDown
  <1> QED BY <1>1, <1>2 DEF Start, Stop, StartStep, EnsureTopic, ConnectPool, PrepareErr,
                            RegisterService, RegisterErr, Serve, ServeErr

LEMMA ChannelQuery ==
    ASSUME TypeOK, NEW ch \in Channels, Channel(ch), Query(ch) PROVE Channel(ch)'
  <1> DEFINE old == view[ch]
             new == Listed(ch[2])
  <1>1. /\ round'[ch] = "send" /\ next'[ch] = new /\ todo'[ch] = ChangeSet(old, new)
        /\ UNCHANGED <<queue, ends>>
    BY DEF Query, TypeOK
  <1>2. round[ch] = "idle"
    BY DEF Query
  <1> HIDE DEF old, new
  <1>3. ASSUME NEW a \in Addrs
        PROVE  /\ Inserts(ch, a)' <=> a \in (new \ old) \cap Urls
               /\ Removes(ch, a)' <=> a \in old \ new
    BY <1>1 DEF Inserts, Removes, ChangeSet, Change
  <1>4. ASSUME NEW a \in Addrs PROVE Follows(ch, a, old)
    BY <1>2 DEF Channel, old
  <1>5. ASSUME NEW a \in Addrs, ~ (a \in (new \ old) \cap Urls), ~ (a \in old \ new)
        PROVE  Member(a, ends'[ch], queue'[ch]) <=> a \in new \cap Urls
    BY <1>1, <1>4, <1>5 DEF Follows
  <1> QED BY <1>1, <1>3, <1>5 DEF Channel, Follows

LEMMA ChannelSend ==
    ASSUME TypeOK, NEW ch \in Channels, Channel(ch), NEW x \in todo[ch], SendChange(ch, x)
    PROVE  Channel(ch)'
  <1>1. /\ round[ch] = "send" /\ round'[ch] = "send" /\ next'[ch] = next[ch]
        /\ ends'[ch] = ends[ch]
        /\ todo'[ch] = todo[ch] \ {x} /\ queue'[ch] = Append(queue[ch], x)
    BY DEF SendChange, TypeOK
  <1>2. queue[ch] \in Seq(ChangesOf(Addrs)) /\ x \in ChangesOf(Addrs)
    BY DEF TypeOK
  <1>3. /\ x.addr \in Addrs /\ x = Change(x.op, x.addr)
        /\ x.op = "insert" \/ x.op = "remove"
    BY <1>2 DEF ChangesOf, Change
  <1>4. ASSUME NEW a \in Addrs
        PROVE  Member(a, ends'[ch], queue'[ch]) <=>
                  IF x.addr = a THEN x.op = "insert" ELSE Member(a, ends[ch], queue[ch])
    BY <1>1, <1>2, MemberAppend
  <1>5. ASSUME NEW a \in Addrs, a # x.addr
        PROVE  /\ Inserts(ch, a)' <=> Inserts(ch, a)
               /\ Removes(ch, a)' <=> Removes(ch, a)
    BY <1>1, <1>3, <1>5 DEF Inserts, Removes, Change
  <1>6. ASSUME NEW a \in Addrs
        PROVE  /\ Inserts(ch, a)' => Inserts(ch, a)
               /\ Removes(ch, a)' => Removes(ch, a)
    BY <1>1 DEF Inserts, Removes
  <1>7. ASSUME NEW a \in Addrs, ~ Inserts(ch, a)', ~ Removes(ch, a)'
        PROVE  Member(a, ends'[ch], queue'[ch]) <=> a \in next[ch] \cap Urls
    <2>1. CASE a = x.addr /\ x.op = "insert"
      <3>1. Inserts(ch, a)
        BY <1>3, <2>1 DEF Inserts
      <3> QED BY <1>1, <1>4, <2>1, <3>1 DEF Channel
    <2>2. CASE a = x.addr /\ x.op = "remove"
      <3>1. Removes(ch, a)
        BY <1>3, <2>2 DEF Removes
      <3> QED BY <1>1, <1>4, <2>2, <3>1 DEF Channel
    <2>3. CASE a # x.addr
      <3>1. ~ Inserts(ch, a) /\ ~ Removes(ch, a)
        BY <1>5, <1>7, <2>3
      <3> QED BY <1>1, <1>4, <2>3, <3>1 DEF Channel, Follows
    <2> QED BY <1>3, <2>1, <2>2, <2>3
  <1> QED BY <1>1, <1>6, <1>7 DEF Channel, Follows

LEMMA ChannelStore ==
    ASSUME TypeOK, NEW ch \in Channels, Channel(ch), StoreView(ch) PROVE Channel(ch)'
  <1>1. /\ round[ch] = "send" /\ todo[ch] = {}
        /\ round'[ch] = "idle" /\ view'[ch] = next[ch] /\ UNCHANGED <<queue, ends>>
    BY DEF StoreView, TypeOK
  <1>2. \A a \in Addrs : Follows(ch, a, next[ch])
    BY <1>1 DEF Channel, Inserts, Removes
  <1> QED BY <1>1, <1>2 DEF Channel, Follows

LEMMA ChannelAbsorb ==
    ASSUME TypeOK, NEW ch \in Channels, Channel(ch), Absorb(ch) PROVE Channel(ch)'
  <1>1. /\ queue[ch] \in Seq(ChangesOf(Addrs)) /\ queue[ch] # <<>>
        /\ queue'[ch] = Tail(queue[ch]) /\ ends'[ch] = Apply(ends[ch], Head(queue[ch]))
        /\ UNCHANGED worker
    BY DEF Absorb, TypeOK
  <1>2. \A a \in Addrs :
           Member(a, ends'[ch], queue'[ch]) <=> Member(a, ends[ch], queue[ch])
    BY <1>1, MemberTail
  <1> QED BY <1>1, <1>2 DEF Channel, Follows, Inserts, Removes, worker

LEMMA ChannelStep ==
    ASSUME TypeOK, [Next]_vars, NEW ch \in Channels, Channel(ch) PROVE Channel(ch)'
  <1>1. ASSUME NEW c \in Channels, c # ch, Query(c) \/ StoreView(c) \/ Absorb(c)
               \/ \E x \in todo[c] : SendChange(c, x)
        PROVE  Channel(ch)'
    <2>1. /\ round'[ch] = round[ch] /\ view'[ch] = view[ch] /\ next'[ch] = next[ch]
          /\ todo'[ch] = todo[ch] /\ queue'[ch] = queue[ch] /\ ends'[ch] = ends[ch]
      BY <1>1 DEF Query, StoreView, Absorb, SendChange, worker, TypeOK
    <2> QED BY <2>1, ChannelKept
  <1>2. ASSUME NEW c \in Channels, Round(c) PROVE Channel(ch)'
    BY <1>1, <1>2, ChannelQuery, ChannelSend, ChannelStore DEF Round
  <1>3. ASSUME NEW c \in Channels, QueryErr(c) PROVE Channel(ch)'
    <2>1. CASE Down(c[1])
      <3>1. c[1] \in Procs
        BY DEF Channels
      <3> QED BY <2>1, <3>1, ChannelDown
    <2>2. CASE UNCHANGED channel
      BY <2>2, ChannelKept DEF channel, worker
    <2> QED BY <1>3, <2>1, <2>2 DEF QueryErr
  <1>4. ASSUME NEW c \in Channels, Call(c) \/ CallOk(c) \/ CallErr(c) PROVE Channel(ch)'
    BY <1>4, ChannelKept DEF Call, CallOk, CallErr, worker
  <1>5. ASSUME NEW c \in Channels, Absorb(c) PROVE Channel(ch)'
    BY <1>1, <1>5, ChannelAbsorb
  <1>6. CASE UNCHANGED vars
    BY <1>6, ChannelKept DEF vars, channel, worker
  <1> QED BY <1>2, <1>3, <1>4, <1>5, <1>6, ChannelProcess DEF Next, Balancer

\* Between two rounds, the endpoints a call finds once it has drained the queue
\* are the last answer of the registry, for any number of addresses and of rounds
\* in the queue (tonic_service_discovery.rs:102-109).
THEOREM ChannelsFollowTheView == Spec => []ChannelFollowsView
  <1> DEFINE AllChannels == \A ch \in Channels : Channel(ch)
  <1>1. Init => AllChannels
    BY ChannelEmpty DEF Init
  <1>2. TypeOK /\ AllChannels /\ [Next]_vars => AllChannels'
    BY ChannelStep
  <1>3. AllChannels => ChannelFollowsView
    BY DEF Channel, Follows, ChannelFollowsView
  <1> QED BY <1>1, <1>2, <1>3, TypeCorrect, PTL DEF Spec
-----------------------------------------------------------------------------
(* The registry *)

\* What a process has passed in its script has had its effect: a registration is
\* in the registry as long as no other process has its id, and an address that is
\* listened to parses.
Registers(p) ==
    Sole(p) => \A s \in Services :
        Passed(p, Register(s)) => registry[Id(p, s)] = AddrOf[p][s]

Listens(p) ==
    \A s \in Services \ {"websocket"} :
        Passed(p, Listen(s)) => AddrOf[p][s] \in SocketAddrs

Started == \A p \in Procs : Registers(p) /\ Listens(p)

LEMMA PassedInSteps ==
    ASSUME NEW p, NEW step, Passed(p, step) PROVE step \in Steps(p)
  BY DEF Passed, Steps

\* A process passes nothing but its current step.
LEMMA PassedStep ==
    ASSUME TypeOK, NEW p \in Procs, NEW x \in Procs, NEW step, Passed(x, step)',
           Advance(p), InStart(p) \/ pc[p] = 0
    PROVE  Passed(x, step) \/ (x = p /\ InStart(p) /\ step = Current(p))
  <1>1. PICK i \in DOMAIN ScriptOf(x) : i < pc'[x] /\ ScriptOf(x)[i] = step
    BY DEF Passed
  <1>2. pc[x] \in Nat /\ pc[p] \in Nat /\ i \in Nat /\ i >= 1
    BY ScriptType DEF TypeOK
  <1>3. CASE x = p
    <2>1. i < pc[p] \/ i = pc[p]
      BY <1>1, <1>2, <1>3 DEF Advance, TypeOK
    <2> QED BY <1>1, <1>2, <1>3, <2>1 DEF Passed, InStart, Current
  <1>4. CASE x # p
    BY <1>1, <1>4 DEF Advance, Passed, TypeOK
  <1> QED BY <1>3, <1>4

LEMMA PassedDown ==
    ASSUME TypeOK, NEW p \in Procs, NEW x \in Procs, NEW step, Passed(x, step)', Down(p)
    PROVE  Passed(x, step)
  <1>1. PICK i \in DOMAIN ScriptOf(x) : i < pc'[x] /\ ScriptOf(x)[i] = step
    BY DEF Passed
  <1>2. i >= 1 /\ i \in Nat
    BY ScriptType
  <1>3. x # p
    BY <1>1, <1>2 DEF Down, TypeOK
  <1> QED BY <1>1, <1>3 DEF Down, Passed, TypeOK

\* A registration leaves those of the processes that are alone with their ids.
LEMMA PutKeeps ==
    ASSUME TypeOK, NEW p \in Procs, InStart(p), Current(p).op = "register", Put(p),
           NEW x \in Procs, Registers(x), Sole(x), NEW s \in Services, Passed(x, Register(s))
    PROVE  registry'[Id(x, s)] = AddrOf[x][s]
  <1> DEFINE t == Current(p).service
  <1>1. t \in Services /\ Register(t) \in Steps(p)
    <2>1. Current(p) \in Steps(p) /\ Current(p) \in StepT /\ t \in Services
      BY CurrentType
    <2>2. Current(p) = Register(t)
      BY <2>1 DEF StepT, Register, Step
    <2> QED BY <2>1, <2>2
  <1> HIDE DEF t
  <1>2. registry' = [registry EXCEPT ![Id(p, t)] = AddrOf[p][t]]
    BY DEF Put, t
  <1>3. Id(x, s) \in Hosts \X Services
    BY ConfigAssumption DEF Id
  <1>4. CASE Id(x, s) = Id(p, t)
    <2>1. s = t /\ HostOf[x] = HostOf[p]
      BY <1>4 DEF Id
    <2>2. Register(s) \in Steps(x)
      BY PassedInSteps
    <2>3. Kind[x] = Kind[p]
      BY <1>1, <2>1, <2>2, RegisterSteps
    <2>4. x = p
      BY <2>1, <2>3 DEF Sole
    <2> QED BY <1>2, <1>3, <2>1, <2>4 DEF TypeOK
  <1>5. CASE Id(x, s) # Id(p, t)
    <2>1. registry'[Id(x, s)] = registry[Id(x, s)]
      BY <1>2, <1>3, <1>5 DEF TypeOK
    <2> QED BY <2>1 DEF Registers
  <1> QED BY <1>4, <1>5

\* Where nothing is put, what is passed stays registered.
LEMMA StartedKept ==
    ASSUME Started, UNCHANGED registry,
           \A x \in Procs, s \in Services :
              /\ Passed(x, Register(s))' => Passed(x, Register(s))
              /\ Passed(x, Listen(s))' => Passed(x, Listen(s))
                    \/ s = "websocket" \/ AddrOf[x][s] \in SocketAddrs
    PROVE  Started'
  BY DEF Started, Registers, Listens

LEMMA StartedProcess ==
    ASSUME TypeOK, Started, NEW p \in Procs, Start(p) \/ Stop(p) \/ StartStep(p)
    PROVE  Started'
  <1>1. CASE Start(p)
    <2>1. Advance(p) /\ pc[p] = 0 /\ UNCHANGED registry
      BY <1>1 DEF Start
    <2>2. ~ InStart(p)
      BY <2>1, ScriptType DEF InStart
    <2> QED BY <2>1, <2>2, PassedStep, StartedKept
  <1>2. CASE Down(p) /\ UNCHANGED registry
    BY <1>2, PassedDown, StartedKept
  <1>3. CASE EnsureTopic(p) \/ ConnectPool(p)
    <2>1. Advance(p) /\ InStart(p) /\ Current(p).op \notin {"register", "listen"}
          /\ UNCHANGED registry
      BY <1>3 DEF EnsureTopic, ConnectPool, Does
    <2>2. \A s \in Services : Register(s) # Current(p) /\ Listen(s) # Current(p)
      BY <2>1 DEF Register, Listen, Step
    <2> QED BY <2>1, <2>2, PassedStep, StartedKept
  <1>4. CASE Serve(p)
    <2>1. Advance(p) /\ InStart(p) /\ Current(p).op = "listen" /\ CanBind(p)
          /\ UNCHANGED registry
      BY <1>4 DEF Serve, Does
    <2>2. ASSUME NEW s \in Services PROVE
             /\ Register(s) # Current(p)
             /\ Listen(s) = Current(p) => s = "websocket" \/ AddrOf[p][s] \in SocketAddrs
      BY <2>1 DEF Register, Listen, Step, CanBind
    <2> QED BY <2>1, <2>2, PassedStep, StartedKept
  <1>5. CASE RegisterService(p)
    <2>1. Advance(p) /\ InStart(p) /\ Current(p).op = "register" /\ Put(p)
      BY <1>5 DEF RegisterService, Does
    <2>2. ASSUME NEW x \in Procs, NEW s \in Services, Sole(x), Passed(x, Register(s))'
          PROVE  registry'[Id(x, s)] = AddrOf[x][s]
      <3>1. CASE Passed(x, Register(s))
        BY <2>1, <2>2, <3>1, PutKeeps DEF Started
      <3>2. CASE x = p /\ Register(s) = Current(p)
        <4>1. Current(p).service = s /\ Id(p, s) \in Hosts \X Services
          BY <3>2, ConfigAssumption DEF Register, Step, Id
        <4> QED BY <2>1, <3>2, <4>1 DEF Put, TypeOK
      <3> QED BY <2>1, <2>2, <3>1, <3>2, PassedStep
    <2>3. ASSUME NEW x \in Procs, NEW s \in Services, Passed(x, Listen(s))'
          PROVE  Passed(x, Listen(s))
      <3>1. Listen(s) # Current(p)
        BY <2>1 DEF Listen, Step
      <3> QED BY <2>1, <2>3, <3>1, PassedStep
    <2> QED BY <2>2, <2>3 DEF Started, Registers, Listens
  <1>6. CASE RegisterErr(p)
    <2>1. CASE UNCHANGED registry
      BY <1>2, <1>6, <2>1 DEF RegisterErr
    <2>2. CASE Put(p)
      <3>1. Down(p) /\ InStart(p) /\ Current(p).op = "register"
        BY <1>6 DEF RegisterErr, Does
      <3>2. ASSUME NEW x \in Procs, NEW s \in Services, Sole(x), Passed(x, Register(s))'
            PROVE  registry'[Id(x, s)] = AddrOf[x][s]
        BY <2>2, <3>1, <3>2, PassedDown, PutKeeps DEF Started
      <3>3. ASSUME NEW x \in Procs, NEW s \in Services, Passed(x, Listen(s))'
            PROVE  Passed(x, Listen(s))
        BY <3>1, <3>3, PassedDown
      <3> QED BY <3>2, <3>3 DEF Started, Registers, Listens
    <2> QED BY <1>6, <2>1, <2>2 DEF RegisterErr
  <1>7. CASE Stop(p) \/ PrepareErr(p) \/ ServeErr(p)
    BY <1>2, <1>7 DEF Stop, PrepareErr, ServeErr
  <1> QED BY <1>1, <1>3, <1>4, <1>5, <1>6, <1>7 DEF StartStep

LEMMA StartedStep == TypeOK /\ Started /\ [Next]_vars => Started'
  <1> SUFFICES ASSUME TypeOK, Started, [Next]_vars PROVE Started'
    OBVIOUS
  <1>1. CASE UNCHANGED <<pc, registry>>
    BY <1>1 DEF Started, Registers, Listens, Passed
  <1>2. ASSUME NEW ch \in Channels, StoreView(ch), Opening(ch) PROVE Started'
    <2>1. /\ ch[1] \in Procs /\ Advance(ch[1]) /\ InStart(ch[1])
          /\ Current(ch[1]).op = "open" /\ UNCHANGED registry
      BY <1>2 DEF StoreView, Opening, Open, Step, Channels
    <2>2. \A s \in Services : Register(s) # Current(ch[1]) /\ Listen(s) # Current(ch[1])
      BY <2>1 DEF Register, Listen, Step
    <2> QED BY <2>1, <2>2, PassedStep, StartedKept
  <1>3. ASSUME NEW ch \in Channels, Round(ch) PROVE Started'
    BY <1>1, <1>2, <1>3 DEF Round, Query, StoreView, SendChange
  <1>4. ASSUME NEW ch \in Channels, QueryErr(ch) PROVE Started'
    <2>1. CASE Down(ch[1])
      <3>1. ch[1] \in Procs /\ UNCHANGED registry
        BY <1>4 DEF Channels, QueryErr
      <3> QED BY <2>1, <3>1, PassedDown, StartedKept
    <2> QED BY <1>1, <1>4, <2>1 DEF QueryErr
  <1>5. ASSUME NEW ch \in Channels, Call(ch) \/ Balancer(ch) PROVE Started'
    BY <1>1, <1>5 DEF Call, Balancer, Absorb, CallOk, CallErr
  <1>6. CASE UNCHANGED vars
    BY <1>1, <1>6 DEF vars
  <1> QED BY <1>3, <1>4, <1>5, <1>6, StartedProcess DEF Next

\* Whatever fails and comes back in whatever order, a process that is up is in
\* the registry at its own address, one that parses, unless another process of its
\* program runs on its host (db/src/main.rs:36-69).
THEOREM ReadyProcessesAreListed == Spec => []ReadyIsListed
  <1>1. Init => Started
    <2> SUFFICES ASSUME Init, NEW p \in Procs, NEW step PROVE ~ Passed(p, step)
      BY DEF Started, Registers, Listens
    <2> QED BY ScriptType DEF Init, Passed
  <1>2. TypeOK /\ Started => ReadyIsListed
    <2> SUFFICES ASSUME TypeOK, Started, NEW p \in Procs, Ready(p), Sole(p),
                        NEW s \in Services, Register(s) \in Steps(p)
                 PROVE  AddrOf[p][s] \in IF s = "websocket" THEN Registered(s) ELSE Listed(s)
      BY DEF ReadyIsListed
    <2>1. ASSUME NEW step \in Steps(p) PROVE Passed(p, step)
      BY ScriptType DEF Ready, Passed, Steps
    <2>2. registry[Id(p, s)] = AddrOf[p][s]
      BY <2>1 DEF Started, Registers
    <2>3. AddrOf[p][s] \in Registered(s)
      BY <2>2, ConfigAssumption DEF Registered, Id
    <2>4. s # "websocket" => AddrOf[p][s] \in SocketAddrs
      BY <2>1, RegisteredIsServed DEF Started, Listens
    <2> QED BY <2>3, <2>4 DEF Listed
  <1> QED BY <1>1, <1>2, StartedStep, TypeCorrect, PTL DEF Spec
-----------------------------------------------------------------------------
(* The first round *)

\* No program opens a channel twice.
LEMMA OpensOnce ==
    ASSUME NEW p \in Procs, NEW s \in Services,
           NEW i \in DOMAIN ScriptOf(p), NEW j \in DOMAIN ScriptOf(p),
           ScriptOf(p)[i] = Open(s), ScriptOf(p)[j] = Open(s)
    PROVE  i = j
  <1> USE DEF Step, Open, Register, Listen, Topic, Pool, Services
  <1>1. CASE ScriptOf(p) = ConsumerScript
    BY <1>1 DEF ConsumerScript
  <1>2. CASE ScriptOf(p) = WsScript
    BY <1>2 DEF WsScript
  <1>3. CASE ScriptOf(p) = ChatScript
    BY <1>3 DEF ChatScript
  <1>4. CASE ScriptOf(p) = DbScript
    BY <1>4 DEF DbScript
  <1>5. CASE ScriptOf(p) = PusherScript
    BY <1>5 DEF PusherScript
  <1> QED BY <1>1, <1>2, <1>3, <1>4, <1>5, KindCases

LEMMA OpeningIsNotRunning ==
    ASSUME TypeOK, NEW ch \in Channels, Opening(ch) PROVE ~ Running(ch)
  <1>1. /\ ch[1] \in Procs /\ ch[2] \in Services
        /\ pc[ch[1]] \in DOMAIN ScriptOf(ch[1])
        /\ ScriptOf(ch[1])[pc[ch[1]]] = Open(ch[2])
    BY DEF Channels, Opening, InStart, Current
  <1>2. SUFFICES ASSUME NEW i \in DOMAIN ScriptOf(ch[1]), i < pc[ch[1]],
                        ScriptOf(ch[1])[i] = Open(ch[2])
                 PROVE  FALSE
    BY DEF Running, Passed
  <1>3. i = pc[ch[1]]
    BY <1>1, <1>2, OpensOnce
  <1> QED BY <1>2, <1>3, ScriptType DEF TypeOK

\* A service has at most one address for each host.
LEMMA ListedIsSmall ==
    ASSUME IsFiniteSet(Hosts), NEW s
    PROVE  /\ IsFiniteSet(ChangeSet({}, Listed(s)))
           /\ Cardinality(ChangeSet({}, Listed(s))) <= Cardinality(Hosts)
  <1> DEFINE f == [h \in Hosts |-> Change("insert", registry[<<h, s>>])]
             T == {f[h] : h \in Hosts}
  <1>1. f \in Surjection(Hosts, T)
    BY DEF Surjection
  <1>2. IsFiniteSet(T) /\ Cardinality(T) <= Cardinality(Hosts)
    <2> HIDE DEF f, T
    <2> QED BY <1>1, FS_Surjection
  <1>3. ChangeSet({}, Listed(s)) \in SUBSET T
    BY DEF ChangeSet, Listed, Registered
  <1> HIDE DEF T
  <1>4. /\ IsFiniteSet(ChangeSet({}, Listed(s)))
        /\ Cardinality(ChangeSet({}, Listed(s))) <= Cardinality(T)
    BY <1>2, <1>3, FS_Subset
  <1>5. /\ Cardinality(T) \in Nat /\ Cardinality(Hosts) \in Nat
        /\ Cardinality(ChangeSet({}, Listed(s))) \in Nat
    BY <1>2, <1>4, FS_CardinalityType
  <1>6. ASSUME NEW l \in Nat, NEW m \in Nat, NEW n \in Nat, l <= m, m <= n PROVE l <= n
    BY <1>6
  <1> QED BY <1>2, <1>4, <1>5, <1>6

\* Until a channel is open it has seen nothing of the registry but the answer of
\* its first round, and the changes of that round are in the queue or still to be
\* sent: one for each host at most.
First(ch) ==
    /\ round[ch] = "send" => Opening(ch) \/ Running(ch)
    /\ ~ Running(ch) /\ round[ch] = "idle" =>
          view[ch] = {} /\ queue[ch] = <<>> /\ todo[ch] = {}
    /\ ~ Running(ch) /\ round[ch] = "send" =>
          /\ IsFiniteSet(todo[ch])
          /\ Len(queue[ch]) + Cardinality(todo[ch]) <= Cardinality(Hosts)

LEMMA FirstKept ==
    ASSUME NEW ch \in Channels, First(ch), Running(ch) => Running(ch)',
           Opening(ch) => Opening(ch)' \/ Running(ch)',
           round'[ch] = round[ch], view'[ch] = view[ch], todo'[ch] = todo[ch],
           queue'[ch] = queue[ch]
    PROVE  First(ch)'
  BY DEF First

\* A step of a script is passed for good, until the process goes down.
LEMMA PassedStays ==
    ASSUME TypeOK, NEW p \in Procs, Advance(p), NEW x \in Procs, NEW step, Passed(x, step)
    PROVE  Passed(x, step)'
  <1>1. PICK i \in DOMAIN ScriptOf(x) : i < pc[x] /\ ScriptOf(x)[i] = step
    BY DEF Passed
  <1>2. i \in Nat /\ pc[x] \in Nat /\ pc'[x] \in {pc[x], pc[x] + 1}
    BY ScriptType DEF TypeOK, Advance
  <1>3. i < pc'[x]
    BY <1>1, <1>2
  <1> QED BY <1>1, <1>3 DEF Passed

LEMMA CurrentIsPassed ==
    ASSUME TypeOK, NEW p \in Procs, InStart(p), Advance(p), NEW step, step = Current(p)
    PROVE  Passed(p, step)'
  <1>1. pc[p] \in DOMAIN ScriptOf(p) /\ pc[p] < pc'[p]
    BY DEF InStart, Advance, TypeOK
  <1> QED BY <1>1 DEF Passed, Current

\* An advance of a process keeps its channels open, or opens one.
LEMMA AdvanceOpens ==
    ASSUME TypeOK, NEW p \in Procs, Advance(p), NEW ch \in Channels
    PROVE  /\ Running(ch) => Running(ch)'
           /\ Opening(ch) => Opening(ch)' \/ Running(ch)'
  <1>1. ch[1] \in Procs
    BY DEF Channels
  <1>2. Running(ch) => Running(ch)'
    BY <1>1, PassedStays DEF Running
  <1>3. ASSUME Opening(ch) PROVE Opening(ch)' \/ Running(ch)'
    <2>1. CASE ch[1] = p
      BY <1>3, <2>1, CurrentIsPassed DEF Opening, Running
    <2>2. CASE ch[1] # p
      BY <1>1, <1>3, <2>2 DEF Opening, InStart, Current, Advance, TypeOK
    <2> QED BY <2>1, <2>2
  <1> QED BY <1>2, <1>3

LEMMA FirstDown ==
    ASSUME TypeOK, NEW p \in Procs, Down(p), NEW ch \in Channels, First(ch)
    PROVE  First(ch)'
  <1>1. CASE ch[1] = p
    <2>1. round'[ch] = "idle" /\ view'[ch] = {} /\ queue'[ch] = <<>> /\ todo'[ch] = {}
      BY <1>1 DEF Down
    <2> QED BY <2>1 DEF First
  <1>2. CASE ch[1] # p
    <2>1. /\ round'[ch] = round[ch] /\ view'[ch] = view[ch]
          /\ todo'[ch] = todo[ch] /\ queue'[ch] = queue[ch]
      BY <1>2 DEF Down
    <2>2. ch[1] \in Procs /\ pc'[ch[1]] = pc[ch[1]]
      BY <1>2 DEF Down, TypeOK, Channels
    <2>3. /\ Running(ch) => Running(ch)'
          /\ Opening(ch) => Opening(ch)'
      BY <2>2 DEF Running, Passed, Opening, InStart, Current
    <2> QED BY <2>1, <2>3, FirstKept
  <1> QED BY <1>1, <1>2

LEMMA FirstProcess ==
    ASSUME TypeOK, NEW p \in Procs, Start(p) \/ Stop(p) \/ StartStep(p),
           NEW ch \in Channels, First(ch)
    PROVE  First(ch)'
  <1>1. CASE Down(p)
    BY <1>1, FirstDown
  <1>2. CASE Advance(p) /\ UNCHANGED channel
    BY <1>2, AdvanceOpens, FirstKept DEF channel, worker
  <1> QED BY <1>1, <1>2 DEF Start, Stop, StartStep, EnsureTopic, ConnectPool, PrepareErr,
                            RegisterService, RegisterErr, Serve, ServeErr

LEMMA FirstQuery ==
    ASSUME TypeOK, IsFiniteSet(Hosts), NEW ch \in Channels, First(ch), Query(ch)
    PROVE  First(ch)'
  <1>1. /\ round[ch] = "idle" /\ round'[ch] = "send"
        /\ todo'[ch] = ChangeSet(view[ch], Listed(ch[2]))
        /\ queue'[ch] = queue[ch] /\ UNCHANGED pc
    BY DEF Query, TypeOK
  <1>2. /\ Running(ch)' <=> Running(ch)
        /\ Opening(ch)' <=> Opening(ch)
    BY <1>1 DEF Running, Passed, Opening, InStart, Current
  <1>3. Opening(ch) \/ Running(ch)
    BY DEF Query
  <1>4. ASSUME ~ Running(ch)
        PROVE  /\ IsFiniteSet(todo'[ch])
               /\ Len(queue'[ch]) + Cardinality(todo'[ch]) <= Cardinality(Hosts)
    <2>0. view[ch] = {} /\ queue[ch] = <<>>
      BY <1>1, <1>4 DEF First
    <2>1. todo'[ch] = ChangeSet({}, Listed(ch[2])) /\ Len(queue'[ch]) = 0
      BY <1>1, <2>0
    <2>2. /\ IsFiniteSet(todo'[ch])
          /\ Cardinality(todo'[ch]) <= Cardinality(Hosts)
      BY <2>1, ListedIsSmall
    <2>3. Cardinality(todo'[ch]) \in Nat
      BY <2>2, FS_CardinalityType
    <2> QED BY <2>1, <2>2, <2>3
  <1> QED BY <1>1, <1>2, <1>3, <1>4 DEF First

LEMMA FirstSend ==
    ASSUME TypeOK, IsFiniteSet(Hosts), NEW ch \in Channels, First(ch),
           NEW x \in todo[ch], SendChange(ch, x)
    PROVE  First(ch)'
  <1>1. /\ round[ch] = "send" /\ round'[ch] = "send"
        /\ todo'[ch] = todo[ch] \ {x}
        /\ queue'[ch] = Append(queue[ch], x) /\ UNCHANGED pc
    BY DEF SendChange, TypeOK
  <1>2. /\ Running(ch)' <=> Running(ch)
        /\ Opening(ch)' <=> Opening(ch)
    BY <1>1 DEF Running, Passed, Opening, InStart, Current
  <1>3. ASSUME ~ Running(ch)
        PROVE  /\ IsFiniteSet(todo'[ch])
               /\ Len(queue'[ch]) + Cardinality(todo'[ch]) <= Cardinality(Hosts)
    <2>1. /\ IsFiniteSet(todo[ch])
          /\ Len(queue[ch]) + Cardinality(todo[ch]) <= Cardinality(Hosts)
      BY <1>1, <1>3 DEF First
    <2>2. /\ IsFiniteSet(todo'[ch])
          /\ Cardinality(todo'[ch]) = Cardinality(todo[ch]) - 1
      BY <1>1, <2>1, FS_RemoveElement
    <2>3. /\ queue[ch] \in Seq(ChangesOf(Addrs)) /\ x \in ChangesOf(Addrs)
      BY DEF TypeOK
    <2>4. Len(queue'[ch]) = Len(queue[ch]) + 1 /\ Len(queue[ch]) \in Nat
      BY <1>1, <2>3, AppendProperties, LenProperties
    <2>5. Cardinality(todo[ch]) \in Nat /\ Cardinality(Hosts) \in Nat
      BY <2>1, FS_CardinalityType
    <2> QED BY <2>1, <2>2, <2>4, <2>5
  <1> QED BY <1>1, <1>2, <1>3 DEF First

LEMMA FirstStore ==
    ASSUME TypeOK, NEW ch \in Channels, First(ch), StoreView(ch)
    PROVE  First(ch)'
  <1>1. ch[1] \in Procs /\ round[ch] = "send" /\ round'[ch] = "idle"
    BY DEF Channels, StoreView, TypeOK
  <1>2. Running(ch)'
    <2>1. CASE Opening(ch)
      BY <1>1, <2>1, CurrentIsPassed DEF StoreView, Opening, Running
    <2>2. CASE ~ Opening(ch)
      BY <1>1, <2>2 DEF StoreView, First, Running, Passed
    <2> QED BY <2>1, <2>2
  <1> QED BY <1>1, <1>2 DEF First

\* Before a channel is open, nothing is taken off its queue between two rounds:
\* there is nothing in it.
LEMMA FirstAbsorb ==
    ASSUME TypeOK, IsFiniteSet(Hosts), NEW ch \in Channels, First(ch), Absorb(ch)
    PROVE  First(ch)'
  <1>1. /\ queue[ch] # <<>> /\ queue'[ch] = Tail(queue[ch]) /\ UNCHANGED <<pc, worker>>
        /\ queue[ch] \in Seq(ChangesOf(Addrs))
    BY DEF Absorb, TypeOK
  <1>2. /\ Running(ch)' <=> Running(ch)
        /\ Opening(ch)' <=> Opening(ch)
    BY <1>1 DEF Running, Passed, Opening, InStart, Current
  <1>3. Len(queue[ch]) \in Nat /\ Len(queue'[ch]) \in Nat /\ Len(queue'[ch]) <= Len(queue[ch])
    BY <1>1, HeadTailProperties, LenProperties
  <1>4. ASSUME ~ Running(ch), round[ch] = "send"
        PROVE  /\ IsFiniteSet(todo[ch])
               /\ Len(queue'[ch]) + Cardinality(todo[ch]) <= Cardinality(Hosts)
    <2>1. /\ IsFiniteSet(todo[ch])
          /\ Len(queue[ch]) + Cardinality(todo[ch]) <= Cardinality(Hosts)
      BY <1>4 DEF First
    <2>2. Cardinality(todo[ch]) \in Nat /\ Cardinality(Hosts) \in Nat
      BY <2>1, FS_CardinalityType
    <2> QED BY <1>3, <2>1, <2>2
  <1> QED BY <1>1, <1>2, <1>4 DEF First, worker

\* What another channel of the process does can open that one only.
LEMMA FirstOther ==
    ASSUME TypeOK, NEW ch \in Channels, First(ch), NEW c \in Channels, c # ch,
           Round(c) \/ Absorb(c)
    PROVE  First(ch)'
  <1>1. /\ round'[ch] = round[ch] /\ view'[ch] = view[ch]
        /\ todo'[ch] = todo[ch] /\ queue'[ch] = queue[ch]
    BY DEF Round, Query, StoreView, Absorb, SendChange, worker, TypeOK
  <1>2. /\ Running(ch) => Running(ch)'
        /\ Opening(ch) => Opening(ch)' \/ Running(ch)'
    <2>1. CASE UNCHANGED pc
      BY <2>1 DEF Running, Passed, Opening, InStart, Current
    <2>2. CASE Advance(c[1])
      <3>1. c[1] \in Procs
        BY DEF Channels
      <3> QED BY <2>2, <3>1, AdvanceOpens
    <2> QED BY <2>1, <2>2 DEF Round, Query, StoreView, Absorb, SendChange
  <1> QED BY <1>1, <1>2, FirstKept

LEMMA FirstStep ==
    ASSUME TypeOK, [Next]_vars, IsFiniteSet(Hosts), NEW ch \in Channels, First(ch)
    PROVE  First(ch)'
  <1>1. CASE UNCHANGED <<pc, round, view, todo, queue>>
    BY <1>1, FirstKept DEF Running, Passed, Opening, InStart, Current
  <1>2. ASSUME NEW c \in Channels, Round(c) PROVE First(ch)'
    BY <1>2, FirstOther, FirstQuery, FirstSend, FirstStore DEF Round
  <1>3. ASSUME NEW c \in Channels, QueryErr(c) PROVE First(ch)'
    <2>1. CASE Down(c[1])
      <3>1. c[1] \in Procs
        BY DEF Channels
      <3> QED BY <2>1, <3>1, FirstDown
    <2> QED BY <1>1, <1>3, <2>1 DEF QueryErr, channel, worker
  <1>4. ASSUME NEW c \in Channels, Call(c) \/ CallOk(c) \/ CallErr(c) PROVE First(ch)'
    BY <1>1, <1>4 DEF Call, CallOk, CallErr, worker
  <1>5. ASSUME NEW c \in Channels, Absorb(c) PROVE First(ch)'
    BY <1>5, FirstOther, FirstAbsorb
  <1>6. CASE UNCHANGED vars
    BY <1>1, <1>6 DEF vars, channel, worker
  <1> QED BY <1>2, <1>3, <1>4, <1>5, <1>6, FirstProcess DEF Next, Balancer

\* With no more hosts than the queue has room for, no first round waits for room,
\* whatever starts, dies and registers meanwhile: an id is a host and a service, and
\* a round asks for one service (db/src/main.rs:36, tonic_service_discovery.rs:152).
\* The queue of the code takes 1024 changes.
THEOREM FirstRoundsFit ==
    IsFiniteSet(Hosts) /\ Cardinality(Hosts) <= ChanCap => (Spec => []FirstRoundFits)
  <1> SUFFICES ASSUME IsFiniteSet(Hosts), Cardinality(Hosts) <= ChanCap
               PROVE  Spec => []FirstRoundFits
    OBVIOUS
  <1> DEFINE AllFirst == \A ch \in Channels : First(ch)
  <1>1. Init => AllFirst
    BY DEF Init, First
  <1>2. TypeOK /\ AllFirst /\ [Next]_vars => AllFirst'
    BY FirstStep
  <1>3. TypeOK /\ AllFirst => FirstRoundFits
    <2> SUFFICES ASSUME TypeOK, NEW ch \in Channels, First(ch), Opening(ch), todo[ch] # {}
                 PROVE  Len(queue[ch]) < ChanCap
      BY DEF FirstRoundFits
    <2>1. ~ Running(ch)
      BY OpeningIsNotRunning
    <2>2. round[ch] = "send"
      BY <2>1 DEF First, TypeOK
    <2>3. /\ IsFiniteSet(todo[ch])
          /\ Len(queue[ch]) + Cardinality(todo[ch]) <= Cardinality(Hosts)
      BY <2>1, <2>2 DEF First
    <2>4. Cardinality(todo[ch]) \in Nat /\ Cardinality(todo[ch]) # 0
      BY <2>3, FS_CardinalityType, FS_EmptySet
    <2>5. Len(queue[ch]) \in Nat /\ Cardinality(Hosts) \in Nat /\ ChanCap \in Nat
      BY LenProperties, FS_CardinalityType, BoundsAssumption DEF TypeOK
    <2> QED BY <2>3, <2>4, <2>5
  <1> QED BY <1>1, <1>2, <1>3, TypeCorrect, PTL DEF Spec
=============================================================================
