-------------------------- MODULE WsManagerProofs --------------------------
(***************************************************************************)
(* Theorems about WsManager.tla, for any users, connections, messages and  *)
(* capacity of the queue.  What they need of the hub is taken from         *)
(* WsHubProofs.                                                            *)
(***************************************************************************)
EXTENDS WsManager, SequenceTheorems, TLAPS

HP == INSTANCE WsHubProofs WITH Deliveries <- Msgs

USE DEF hubVars, senders, manager, chat

(* Sequences                                                               *)

In(x, s) == \E i \in DOMAIN s : s[i] = x

LEMMA InAppend ==
    ASSUME NEW S, NEW s \in Seq(S), NEW e \in S, NEW x
    PROVE  In(x, Append(s, e)) <=> In(x, s) \/ x = e
  <1>1. /\ DOMAIN s = 1 .. Len(s) /\ Len(s) \in Nat
        /\ DOMAIN Append(s, e) = 1 .. Len(s) + 1
    OBVIOUS
  <1>2. \A i \in 1 .. Len(s) + 1 : Append(s, e)[i] = IF i <= Len(s) THEN s[i] ELSE e
    OBVIOUS
  <1> QED BY <1>1, <1>2 DEF In

LEMMA BeforeAppend ==
    ASSUME NEW S, NEW s \in Seq(S), NEW e \in S, NEW m, NEW n
    PROVE  Before(m, n, Append(s, e)) <=> Before(m, n, s) \/ (In(m, s) /\ n = e)
  <1> DEFINE r == Append(s, e)
             l == Len(s)
  <1>1. /\ DOMAIN s = 1 .. l /\ l \in Nat /\ DOMAIN r = 1 .. l + 1
        /\ \A i \in 1 .. l : r[i] = s[i]
        /\ r[l + 1] = e
    BY AppendProperties, LenProperties
  <1> HIDE DEF r, l
  <1>2. ASSUME Before(m, n, r) PROVE Before(m, n, s) \/ (In(m, s) /\ n = e)
    <2>1. PICK i, j \in 1 .. l + 1 : i < j /\ r[i] = m /\ r[j] = n
      BY <1>1, <1>2 DEF Before
    <2>2. i \in 1 .. l /\ s[i] = m
      BY <1>1, <2>1
    <2>3. CASE j = l + 1
      BY <1>1, <2>1, <2>2, <2>3 DEF In
    <2>4. CASE j \in 1 .. l
      BY <1>1, <2>1, <2>2, <2>4 DEF Before
    <2> QED BY <1>1, <2>3, <2>4
  <1>3. ASSUME Before(m, n, s) PROVE Before(m, n, r)
    <2>1. PICK i, j \in 1 .. l : i < j /\ s[i] = m /\ s[j] = n
      BY <1>1, <1>3 DEF Before
    <2>2. i \in DOMAIN r /\ j \in DOMAIN r
      BY <1>1
    <2> QED BY <1>1, <2>1, <2>2 DEF Before
  <1>4. ASSUME In(m, s), n = e PROVE Before(m, n, r)
    <2>1. PICK i \in 1 .. l : s[i] = m
      BY <1>1, <1>4 DEF In
    <2>2. i \in DOMAIN r /\ l + 1 \in DOMAIN r /\ i < l + 1
      BY <1>1
    <2> QED BY <1>1, <1>4, <2>1, <2>2 DEF Before
  <1> QED BY <1>2, <1>3, <1>4 DEF r

LEMMA InBefore ==
    ASSUME NEW m, NEW n, NEW s, Before(m, n, s) PROVE In(m, s) /\ In(n, s)
  BY DEF Before, In

LEMMA InEmpty == ASSUME NEW x PROVE ~ In(x, << >>)
  BY DEF In

LEMMA HeadTail ==
    ASSUME NEW S, NEW s \in Seq(S), s # << >>
    PROVE  /\ Head(s) \in S /\ Tail(s) \in Seq(S) /\ In(Head(s), s)
           /\ Len(Tail(s)) = Len(s) - 1
           /\ \A x : In(x, Tail(s)) => In(x, s) /\ Before(Head(s), x, s)
           /\ \A m, n : Before(m, n, Tail(s)) => Before(m, n, s)
  <1>1. /\ DOMAIN s = 1 .. Len(s) /\ Len(s) \in Nat /\ Len(s) >= 1
        /\ Len(Tail(s)) = Len(s) - 1 /\ DOMAIN Tail(s) = 1 .. Len(s) - 1
        /\ Head(s) = s[1] /\ Tail(s) \in Seq(S) /\ Head(s) \in S
    BY EmptySeq
  <1>2. \A i \in 1 .. Len(s) - 1 : Tail(s)[i] = s[i + 1]
    OBVIOUS
  <1>3. ASSUME NEW x, In(x, Tail(s)) PROVE In(x, s) /\ Before(Head(s), x, s)
    <2>1. PICK i \in 1 .. Len(s) - 1 : s[i + 1] = x
      BY <1>1, <1>2, <1>3 DEF In
    <2> QED BY <1>1, <2>1 DEF In, Before
  <1>4. ASSUME NEW m, NEW n, Before(m, n, Tail(s)) PROVE Before(m, n, s)
    <2>1. PICK i, j \in 1 .. Len(s) - 1 : i < j /\ s[i + 1] = m /\ s[j + 1] = n
      BY <1>1, <1>2, <1>4 DEF Before
    <2>2. i + 1 \in DOMAIN s /\ j + 1 \in DOMAIN s /\ i + 1 < j + 1
      BY <1>1, <2>1
    <2> QED BY <2>1, <2>2 DEF Before
  <1>5. In(Head(s), s)
    BY <1>1 DEF In
  <1> QED BY <1>1, <1>3, <1>4, <1>5
-----------------------------------------------------------------------------
(* The hub: WsHub and WsHubProofs say the same of it                       *)

LEMMA SameType == H!TypeOK <=> HP!TypeOK
  BY DEF H!TypeOK, HP!TypeOK, H!ConnState, HP!ConnState, H!Key, HP!Key

LEMMA SameNoDeadClient == H!NoDeadClient <=> HP!NoDeadClient
  BY DEF H!NoDeadClient, HP!NoDeadClient

LEMMA SameInit == H!Init <=> HP!Init
  BY DEF H!Init, HP!Init, H!Key, HP!Key

LEMMA SameVars == UNCHANGED hubVars => UNCHANGED HP!vars
  BY DEF HP!vars, HP!hub, HP!sends

LEMMA SameNext ==
    /\ \A c \in Conns : H!Peer(c) \/ H!Connection(c) => HP!Next
    /\ \A m \in Msgs : H!Delivery(m) => HP!Next
  <1> USE DEF H!hub, HP!hub, H!sends, HP!sends
  <1>1. H!Free <=> HP!Free
    BY DEF H!Free, HP!Free, H!Blocked, HP!Blocked, H!Cardinality, HP!Cardinality
  <1>2. ASSUME NEW c \in Conns, H!Peer(c) PROVE HP!Next
    <2>1. HP!Peer(c)
      BY <1>2 DEF H!Peer, HP!Peer, H!Upgrade, HP!Upgrade, H!Stall, HP!Stall,
                  H!Unstall, HP!Unstall, H!Leave, HP!Leave
    <2> QED BY <2>1 DEF HP!Next
  <1>3. ASSUME NEW c \in Conns, H!Connection(c) PROVE HP!Next
    <2>1. \A u : H!WriteLockFree(u) <=> HP!WriteLockFree(u)
      BY DEF H!WriteLockFree, HP!WriteLockFree
    <2>2. H!BlockOnRegister(c) => HP!BlockOnRegister(c)
      BY <1>1, <2>1 DEF H!BlockOnRegister, HP!BlockOnRegister
    <2>3. H!Register(c) => HP!Register(c)
      BY <1>1, <2>1 DEF H!Register, HP!Register
    <2>4. H!TaskEnds(c) => HP!TaskEnds(c)
      BY <1>1 DEF H!TaskEnds, HP!TaskEnds
    <2>5. H!BlockOnUnregister(c) => HP!BlockOnUnregister(c)
      BY <1>1, <2>1 DEF H!BlockOnUnregister, HP!BlockOnUnregister
    <2>6. H!Unregister(c) => HP!Unregister(c)
      BY <1>1, <2>1 DEF H!Unregister, HP!Unregister
    <2>7. HP!Connection(c)
      BY <1>3, <2>2, <2>3, <2>4, <2>5, <2>6 DEF H!Connection, HP!Connection
    <2> QED BY <2>7 DEF HP!Next
  <1>4. ASSUME NEW m \in Msgs, H!Delivery(m) PROVE HP!Next
    <2>1. H!StartDelivery(m) => HP!StartDelivery(m)
      BY <1>1 DEF H!StartDelivery, HP!StartDelivery, H!Clients, HP!Clients
    <2>2. H!EndDelivery(m) => HP!EndDelivery(m)
      BY <1>1 DEF H!EndDelivery, HP!EndDelivery
    <2>3. \A c \in Conns : H!SendText(m, c) => HP!SendText(m, c)
      BY <1>1 DEF H!SendText, HP!SendText
    <2>4. HP!Delivery(m)
      BY <1>4, <2>1, <2>2, <2>3 DEF H!Delivery, HP!Delivery
    <2> QED BY <2>4 DEF HP!Next
  <1> QED BY <1>2, <1>3, <1>4

\* Every step of the composition is one of the hub's, or leaves the hub alone.
LEMMA HubStep == TypeOK /\ [Next]_vars => [HP!Next]_(HP!vars)
  <1> SUFFICES ASSUME TypeOK, [Next]_vars PROVE [HP!Next]_(HP!vars)
    OBVIOUS
  <1>1. ASSUME NEW c \in Conns, Peer(c) \/ Connection(c) PROVE HP!Next
    BY <1>1, SameNext DEF Peer, Connection
  <1>2. ASSUME NEW c \in Conns, Abort(c) PROVE UNCHANGED hubVars
    BY <1>2 DEF Abort
  <1>3. ASSUME NEW m \in Msgs, Sender(m) \/ Late(m) PROVE UNCHANGED hubVars
    BY <1>3 DEF Sender, SendMessage, Read, Broadcast, Late
  <1>4. ASSUME NEW m \in Msgs, Reply(m) PROVE HP!Next
    <2>1. H!Delivery(m)
      BY <1>4 DEF Reply, EndReply, Write, H!Delivery
    <2> QED BY <2>1, SameNext
  <1>5. CASE Take \/ Chat
    BY <1>5, SameVars DEF Take, TakeHead, Chat, ChatOk, ChatErr
  <1>6. CASE StartReply
    <2>1. cur \in Msgs
      BY <1>6 DEF StartReply, TypeOK, H!TypeOK, H!StartDelivery
    <2>2. H!Delivery(cur)
      BY <1>6 DEF StartReply, H!Delivery
    <2> QED BY <2>1, <2>2, SameNext
  <1>7. CASE UNCHANGED vars
    BY <1>7, SameVars DEF vars
  <1> QED BY <1>1, <1>2, <1>3, <1>4, <1>5, <1>6, <1>7, SameVars DEF Next

LEMMA HubType == TypeOK /\ [Next]_vars => H!TypeOK'
  <1>1. HP!TypeOK /\ [HP!Next]_(HP!vars) => HP!TypeOK'
    BY HP!TypeStep, HubAssumption
  <1>2. H!TypeOK' <=> HP!TypeOK'
    BY DEF H!TypeOK, HP!TypeOK, H!ConnState, HP!ConnState, H!Key, HP!Key
  <1> QED BY <1>1, <1>2, SameType, HubStep DEF TypeOK

-----------------------------------------------------------------------------
(* Types                                                                   *)

LEMMA InitType == Init => TypeOK
  <1> SUFFICES ASSUME Init PROVE TypeOK
    OBVIOUS
  <1>1. H!TypeOK
    BY HP!InitType, HubAssumption, SameInit, SameType DEF Init
  <1>2. queue \in Seq(Msgs) /\ topic \in Seq(Msgs) /\ read \in Seq(Msgs)
        /\ got \in [Conns -> Seq(Msgs)] /\ Len(queue) = 0
    BY DEF Init
  <1>3. QueueCap \in Nat /\ faults \in 0 .. MaxFaults
    BY CapAssumption, FaultsAssumption DEF Init
  <1>4. Len(queue) <= QueueCap
    BY <1>2, <1>3
  <1> QED BY <1>1, <1>2, <1>3, <1>4 DEF Init, TypeOK, Replies

LEMMA TypeStep == TypeOK /\ [Next]_vars => TypeOK'
  <1> SUFFICES ASSUME TypeOK, [Next]_vars PROVE TypeOK'
    OBVIOUS
  <1> DEFINE SendersOK ==
               /\ origin \in [Msgs -> Origins]
               /\ held \in [Origins -> SUBSET Msgs]
               /\ read \in Seq(Msgs)
             QueueOK == queue \in Seq(Msgs) /\ Len(queue) <= QueueCap
             ManagerOK ==
               /\ mgr \in {"recv", "call", "reply"}
               /\ cur \in IF mgr = "recv" THEN {None} ELSE Msgs
               /\ reply \in [Msgs -> Replies]
             ChatIsOK ==
               /\ topic \in Seq(Msgs) /\ late \subseteq Msgs
               /\ faults \in 0 .. MaxFaults
             GotOK == got \in [Conns -> Seq(Msgs)]
  <1>0. H!TypeOK /\ SendersOK /\ QueueOK /\ ManagerOK /\ ChatIsOK /\ GotOK
    BY DEF TypeOK
  <1>1. H!TypeOK'
    BY HubType
  <1>2. SUFFICES SendersOK' /\ QueueOK' /\ ManagerOK' /\ ChatIsOK' /\ GotOK'
    BY <1>1, <1>2 DEF TypeOK
  <1>3. /\ UNCHANGED senders => SendersOK'
        /\ UNCHANGED queue => QueueOK'
        /\ UNCHANGED manager => ManagerOK'
        /\ UNCHANGED chat => ChatIsOK'
        /\ UNCHANGED got => GotOK'
    BY <1>0
  <1>4. ASSUME UNCHANGED <<senders, queue, manager, chat>>, GotOK'
        PROVE  SendersOK' /\ QueueOK' /\ ManagerOK' /\ ChatIsOK' /\ GotOK'
    BY <1>3, <1>4
  <1>5. ASSUME NEW c \in Conns, Peer(c) \/ Connection(c)
        PROVE  UNCHANGED <<senders, queue, manager, chat, got>>
    BY <1>5 DEF Peer, Connection, Outside
  <1>6. ASSUME NEW c \in Conns, Abort(c) \/ \E m \in Msgs : Read(c, m)
        PROVE  SendersOK' /\ UNCHANGED <<queue, manager, chat, got>>
    <2>1. CASE Abort(c)
      BY <1>0, <2>1 DEF Abort, Origins
    <2>2. ASSUME NEW m \in Msgs, Read(c, m)
          PROVE  SendersOK' /\ UNCHANGED <<queue, manager, chat, got>>
      <3>1. held' = [held EXCEPT ![c] = {m}] /\ read' = Append(read, m)
            /\ UNCHANGED <<origin, queue, manager, chat, got>>
        BY <2>2 DEF Read
      <3>2. read' \in Seq(Msgs)
        BY <1>0, <3>1
      <3>3. held' \in [Origins -> SUBSET Msgs]
        BY <1>0, <3>1
      <3> QED BY <1>0, <3>1, <3>2, <3>3
    <2> QED BY <1>6, <2>1, <2>2
  <1>7. ASSUME NEW m \in Msgs, SendMessage(m)
        PROVE  SendersOK' /\ UNCHANGED <<queue, manager, chat, got>>
    BY <1>0, <1>7 DEF SendMessage, Origins
  <1>8. ASSUME NEW m \in Msgs, NEW x \in Origins, Broadcast(x, m)
        PROVE  SendersOK' /\ QueueOK' /\ UNCHANGED <<manager, chat, got>>
    <2>1. SendersOK' /\ UNCHANGED <<manager, chat, got>>
      BY <1>0, <1>8 DEF Broadcast
    <2>2. queue' \in Seq(Msgs) /\ Len(queue') = Len(queue) + 1
          /\ Len(queue) < QueueCap
      BY <1>0, <1>8 DEF Broadcast
    <2> QED BY <1>0, <2>1, <2>2, CapAssumption, LenProperties
  <1>9. ASSUME NEW m \in Msgs, Late(m)
        PROVE  ChatIsOK' /\ UNCHANGED <<senders, queue, manager, got>>
    BY <1>0, <1>9 DEF Late
  <1>10. ASSUME NEW m \in Msgs, Reply(m)
         PROVE  UNCHANGED <<senders, queue, manager, chat>> /\ GotOK'
    <2>1. CASE EndReply(m)
      BY <1>3, <2>1 DEF EndReply
    <2>2. ASSUME NEW c \in Conns, Write(m, c)
          PROVE  UNCHANGED <<senders, queue, manager, chat>> /\ GotOK'
      <3>1. UNCHANGED <<senders, queue, manager, chat>>
            /\ got' = IF link[c] = "up" THEN [got EXCEPT ![c] = Append(@, m)] ELSE got
        BY <2>2 DEF Write
      <3>2. Append(got[c], m) \in Seq(Msgs)
        BY <1>0
      <3> QED BY <1>0, <3>1, <3>2
    <2> QED BY <1>10, <2>1, <2>2 DEF Reply
  <1>11. CASE Take
    <2>1. UNCHANGED <<senders, chat, got>> /\ reply' = reply /\ mgr' = "call"
          /\ cur' = Head(queue) /\ queue' = Tail(queue) /\ queue # << >>
      BY <1>11 DEF Take, TakeHead
    <2>2. cur' \in Msgs /\ queue' \in Seq(Msgs) /\ Len(queue') = Len(queue) - 1
      BY <1>0, <2>1, HeadTail
    <2>3. QueueOK'
      BY <1>0, <2>2, CapAssumption, LenProperties
    <2> QED BY <1>0, <1>3, <2>1, <2>2, <2>3
  <1>12. CASE Chat
    <2>1. UNCHANGED <<senders, queue, got>> /\ mgr = "call" /\ mgr' = "reply"
          /\ cur' = cur
      BY <1>12 DEF Chat, ChatOk, ChatErr
    <2>2. cur \in Msgs
      BY <1>0, <2>1
    <2>3. \E r \in Replies : reply' = [reply EXCEPT ![cur] = r]
      BY <1>12 DEF Chat, ChatOk, ChatErr, Replies
    <2>4. ManagerOK'
      BY <1>0, <2>1, <2>2, <2>3
    <2>5. CASE ChatOk
      BY <1>0, <1>3, <2>1, <2>2, <2>4, <2>5 DEF ChatOk
    <2>6. CASE ChatErr
      <3>1. faults' \in 0 .. MaxFaults
        BY <1>0, <2>6, FaultsAssumption DEF ChatErr
      <3> QED BY <1>0, <1>3, <2>1, <2>2, <2>4, <2>6, <3>1 DEF ChatErr
    <2> QED BY <1>12, <2>5, <2>6 DEF Chat
  <1>13. CASE StartReply
    BY <1>3, <1>13 DEF StartReply
  <1>14. CASE UNCHANGED vars
    BY <1>3, <1>14 DEF vars
  <1> HIDE DEF SendersOK, QueueOK, ManagerOK, ChatIsOK, GotOK
  <1> QED BY <1>3, <1>5, <1>6, <1>7, <1>8, <1>9, <1>10, <1>11, <1>12, <1>13,
             <1>14 DEF Next, Sender

\* The variables keep their types; the queue never exceeds its capacity and a
\* message is at hand whenever the manager calls chat or replies.
THEOREM TypeCorrect == Spec => []TypeOK
  BY InitType, TypeStep, PTL DEF Spec

-----------------------------------------------------------------------------
(* Where a message is on its way                                           *)

AtHand(m)    == mgr # "recv" /\ m = cur
Untouched(m) == deliv[m] = "new" /\ reply[m] = "none" /\ ~ AtHand(m)

\* A message that waits for room, or in the queue, is received and untouched,
\* and is in one place only.
HeldIsNew ==
    \A x \in Origins : \A m \in held[x] :
        origin[m] = x /\ In(m, read) /\ Untouched(m) /\ ~ In(m, queue)

QueuedIsNew ==
    \A m \in Msgs : In(m, queue) =>
        In(m, read) /\ Untouched(m) /\ ~ Before(m, m, queue)

\* A message is received once, touched only afterwards, and its reply is under
\* way only while it is at hand.
OneAtATime ==
    /\ \A m \in Msgs :
          /\ ~ Before(m, m, read)
          /\ ~ Untouched(m) => In(m, read)
          /\ deliv[m] = "send" => AtHand(m) /\ mgr = "reply"
          /\ reply[m] # "none" => AtHand(m) \/ deliv[m] = "done"
    /\ mgr = "call" => deliv[cur] = "new" /\ reply[cur] = "none"

\* A later message of the same connection has not overtaken m.
InTurn ==
    \A m, n \in Msgs : SentBefore(m, n) =>
        /\ m \notin held[origin[m]]
        /\ In(m, queue) => Untouched(n) /\ ~ Before(n, m, queue)
        /\ AtHand(m) => Untouched(n)

Flow == HeldIsNew /\ QueuedIsNew /\ OneAtATime /\ InTurn

LEMMA FlowInit == Init => Flow
  <1> SUFFICES ASSUME Init PROVE Flow
    OBVIOUS
  <1>1. /\ read = << >> /\ queue = << >> /\ mgr = "recv"
        /\ held = [x \in Origins |-> {}] /\ reply = [m \in Msgs |-> "none"]
        /\ deliv = [m \in Msgs |-> "new"]
    BY DEF Init, H!Init
  <1>2. \A m, n : ~ In(m, << >>) /\ ~ Before(m, n, << >>)
    BY InEmpty, InBefore
  <1>3. \A m \in Msgs : Untouched(m)
    BY <1>1 DEF Untouched, AtHand
  <1>4. HeldIsNew /\ QueuedIsNew
    BY <1>1, <1>2 DEF HeldIsNew, QueuedIsNew
  <1>5. OneAtATime
    BY <1>1, <1>2, <1>3 DEF OneAtATime
  <1>6. InTurn
    BY <1>1, <1>2 DEF InTurn, SentBefore
  <1> QED BY <1>4, <1>5, <1>6 DEF Flow

\* What becomes of Flow when a message arrives, over x.
LEMMA FlowArrives ==
    ASSUME TypeOK, Flow, NEW x \in Origins, NEW m \in Msgs,
           origin[m] = x, ~ In(m, read), x \in Conns => held[x] = {},
           read' = Append(read, m), held' = [held EXCEPT ![x] = @ \cup {m}],
           UNCHANGED <<origin, queue, mgr, cur, reply, deliv>>
    PROVE  Flow'
  <1>1. read \in Seq(Msgs) /\ held \in [Origins -> SUBSET Msgs]
        /\ origin \in [Msgs -> Origins]
    BY DEF TypeOK
  <1>2. /\ \A k : In(k, read') <=> In(k, read) \/ k = m
        /\ \A k, n : Before(k, n, read') <=> Before(k, n, read) \/ (In(k, read) /\ n = m)
    BY <1>1, InAppend, BeforeAppend
  <1>3. \A k : Untouched(k)' <=> Untouched(k)
    BY DEF Untouched, AtHand
  <1>4. Untouched(m) /\ ~ In(m, queue)
    BY DEF Flow, OneAtATime, QueuedIsNew
  <1>5. HeldIsNew'
    BY <1>1, <1>2, <1>3, <1>4 DEF Flow, HeldIsNew
  <1>6. QueuedIsNew'
    BY <1>2, <1>3 DEF Flow, QueuedIsNew
  <1>7. OneAtATime'
    BY <1>2, <1>3 DEF Flow, OneAtATime, AtHand
  <1>8. ASSUME NEW k \in Msgs, NEW n \in Msgs, SentBefore(k, n)'
        PROVE  /\ k \notin held'[origin'[k]]
               /\ In(k, queue') => Untouched(n)' /\ ~ Before(n, k, queue')
               /\ AtHand(k)' => Untouched(n)'
    <2>1. CASE SentBefore(k, n)
      <3>1. k # m
        BY <2>1, InBefore DEF SentBefore
      <3> QED BY <1>1, <1>3, <2>1, <3>1 DEF Flow, InTurn, AtHand
    <2>2. CASE ~ SentBefore(k, n)
      <3>1. In(k, read) /\ n = m /\ origin[k] = x /\ x \in Conns
        BY <1>2, <1>8, <2>2 DEF SentBefore
      <3>2. k # m /\ held[x] = {}
        BY <3>1
      <3>3. ~ Before(n, k, queue)
        BY <1>4, <3>1, InBefore
      <3> QED BY <1>1, <1>3, <1>4, <3>1, <3>2, <3>3
    <2> QED BY <2>1, <2>2
  <1>9. InTurn'
    BY <1>8 DEF InTurn
  <1> QED BY <1>5, <1>6, <1>7, <1>9 DEF Flow

LEMMA FlowBroadcast ==
    ASSUME TypeOK, Flow, NEW x \in Origins, NEW m \in Msgs, Broadcast(x, m)
    PROVE  Flow'
  <1>1. queue \in Seq(Msgs) /\ held \in [Origins -> SUBSET Msgs]
    BY DEF TypeOK
  <1>2. /\ m \in held[x] /\ held' = [held EXCEPT ![x] = @ \ {m}]
        /\ queue' = Append(queue, m)
        /\ UNCHANGED <<read, origin, mgr, cur, reply, deliv>>
    BY DEF Broadcast
  <1>3. /\ \A k : In(k, queue') <=> In(k, queue) \/ k = m
        /\ \A k, n : Before(k, n, queue') <=>
                         Before(k, n, queue) \/ (In(k, queue) /\ n = m)
    BY <1>1, <1>2, InAppend, BeforeAppend
  <1>4. origin[m] = x /\ In(m, read) /\ Untouched(m) /\ ~ In(m, queue)
    BY <1>2 DEF Flow, HeldIsNew
  <1>5. \A k : (Untouched(k)' <=> Untouched(k)) /\ (AtHand(k)' <=> AtHand(k))
    BY <1>2 DEF Untouched, AtHand
  <1>6. HeldIsNew'
    BY <1>1, <1>2, <1>3, <1>5 DEF Flow, HeldIsNew
  <1>7. QueuedIsNew'
    BY <1>2, <1>3, <1>4, <1>5, InBefore DEF Flow, QueuedIsNew
  <1>8. OneAtATime'
    BY <1>2, <1>5 DEF Flow, OneAtATime
  <1>9. ASSUME NEW k \in Msgs, NEW n \in Msgs, SentBefore(k, n)'
        PROVE  /\ k \notin held'[origin'[k]]
               /\ In(k, queue') => Untouched(n)' /\ ~ Before(n, k, queue')
               /\ AtHand(k)' => Untouched(n)'
    <2>1. SentBefore(k, n)
      BY <1>2, <1>9 DEF SentBefore
    <2>2. k # m
      BY <1>2, <1>4, <2>1 DEF Flow, InTurn
    <2>3. k \notin held'[origin[k]]
      BY <1>1, <1>2, <2>1 DEF Flow, InTurn, SentBefore, Origins
    <2>4. In(k, queue') => Untouched(n) /\ ~ Before(n, k, queue')
      BY <1>3, <2>1, <2>2 DEF Flow, InTurn
    <2> QED BY <1>2, <1>5, <2>1, <2>3, <2>4 DEF Flow, InTurn
  <1>10. InTurn'
    BY <1>9 DEF InTurn
  <1> QED BY <1>6, <1>7, <1>8, <1>10 DEF Flow

LEMMA FlowTake == ASSUME TypeOK, Flow, Take PROVE Flow'
  <1> DEFINE h == Head(queue)
  <1>1. /\ queue \in Seq(Msgs) /\ queue # << >>
        /\ cur' = h /\ queue' = Tail(queue) /\ mgr' = "call"
        /\ UNCHANGED <<read, held, origin, reply, deliv>>
        /\ mgr = "recv" \/ (mgr = "reply" /\ deliv[cur] = "done")
    BY DEF Take, TakeHead, TypeOK
  <1>2. /\ h \in Msgs /\ In(h, queue)
        /\ \A k : In(k, queue') => In(k, queue) /\ Before(h, k, queue)
        /\ \A k, n : Before(k, n, queue') => Before(k, n, queue)
    BY <1>1, HeadTail
  <1>3. \A k \in Msgs : ~ In(k, queue') \/ k # h
    BY <1>2 DEF Flow, QueuedIsNew
  <1> HIDE DEF h
  <1>4. \A k : AtHand(k)' <=> k = h
    BY <1>1 DEF AtHand
  <1>5. \A k : Untouched(k)' <=> Untouched(k) /\ k # h
    BY <1>1, <1>4 DEF Untouched, AtHand
  <1>6. Untouched(h) /\ In(h, read) /\ ~ Before(h, h, queue)
    BY <1>2 DEF Flow, QueuedIsNew
  <1>7. HeldIsNew'
    BY <1>1, <1>2, <1>5 DEF Flow, HeldIsNew
  <1>8. QueuedIsNew'
    BY <1>1, <1>2, <1>3, <1>5 DEF Flow, QueuedIsNew
  <1>9. OneAtATime'
    <2>1. \A m \in Msgs : deliv[m] # "send" /\ (reply[m] # "none" => deliv[m] = "done")
      BY <1>1 DEF Flow, OneAtATime, AtHand
    <2>2. deliv[h] = "new" /\ reply[h] = "none"
      BY <1>6 DEF Untouched
    <2> QED BY <1>1, <1>5, <1>6, <2>1, <2>2 DEF Flow, OneAtATime
  <1>10. ASSUME NEW k \in Msgs, NEW n \in Msgs, SentBefore(k, n)'
         PROVE  /\ k \notin held'[origin'[k]]
                /\ In(k, queue') => Untouched(n)' /\ ~ Before(n, k, queue')
                /\ AtHand(k)' => Untouched(n)'
    <2>1. SentBefore(k, n)
      BY <1>1, <1>10 DEF SentBefore
    <2>2. k # n
      BY <2>1 DEF SentBefore, Flow, OneAtATime
    <2>3. In(k, queue') => Untouched(n)' /\ ~ Before(n, k, queue')
      BY <1>2, <1>5, <2>1 DEF Flow, InTurn
    <2>4. AtHand(k)' => Untouched(n)'
      BY <1>2, <1>4, <1>5, <2>1, <2>2 DEF Flow, InTurn
    <2> QED BY <1>1, <2>1, <2>3, <2>4 DEF Flow, InTurn
  <1>11. InTurn'
    BY <1>10 DEF InTurn
  <1> QED BY <1>7, <1>8, <1>9, <1>11 DEF Flow

\* The steps that change only what is known of the message at hand.
LEMMA FlowAtHand ==
    ASSUME TypeOK, Flow, mgr # "recv", mgr' = "reply",
           UNCHANGED <<read, held, origin, queue, cur>>,
           \A m \in Msgs : m # cur => deliv'[m] = deliv[m] /\ reply'[m] = reply[m]
    PROVE  Flow'
  <1>1. \A m : AtHand(m)' <=> AtHand(m)
    BY DEF AtHand
  <1>2. \A m \in Msgs : (Untouched(m)' <=> Untouched(m)) /\ (~ AtHand(m) => m # cur)
    BY <1>1 DEF Untouched, AtHand
  <1>3. HeldIsNew'
    <2>1. \A x \in Origins : held[x] \subseteq Msgs
      BY DEF TypeOK
    <2> QED BY <1>2, <2>1 DEF Flow, HeldIsNew
  <1>4. QueuedIsNew'
    BY <1>2 DEF Flow, QueuedIsNew
  <1>5. OneAtATime'
    BY <1>1, <1>2 DEF Flow, OneAtATime, AtHand
  <1>6. InTurn'
    BY <1>1, <1>2 DEF Flow, InTurn, SentBefore
  <1> QED BY <1>3, <1>4, <1>5, <1>6 DEF Flow

LEMMA FlowKept ==
    ASSUME Flow, UNCHANGED <<read, held, origin, queue, mgr, cur, reply, deliv>>
    PROVE  Flow'
  <1>1. \A m : (AtHand(m)' <=> AtHand(m)) /\ (Untouched(m)' <=> Untouched(m))
    BY DEF AtHand, Untouched
  <1>2. HeldIsNew' /\ QueuedIsNew'
    BY <1>1 DEF Flow, HeldIsNew, QueuedIsNew
  <1>3. OneAtATime'
    BY <1>1 DEF Flow, OneAtATime
  <1>4. InTurn'
    BY <1>1 DEF Flow, InTurn, SentBefore
  <1> QED BY <1>2, <1>3, <1>4 DEF Flow

LEMMA FlowAbort == ASSUME TypeOK, Flow, NEW c \in Conns, Abort(c) PROVE Flow'
  <1>1. /\ held' = [held EXCEPT ![c] = {}]
        /\ UNCHANGED <<read, origin, queue, mgr, cur, reply, deliv>>
    BY DEF Abort
  <1>2. \A x \in Origins : held'[x] \subseteq held[x]
    BY <1>1 DEF TypeOK
  <1>3. \A m : (AtHand(m)' <=> AtHand(m)) /\ (Untouched(m)' <=> Untouched(m))
    BY <1>1 DEF AtHand, Untouched
  <1>4. HeldIsNew' /\ QueuedIsNew'
    BY <1>1, <1>2, <1>3 DEF Flow, HeldIsNew, QueuedIsNew
  <1>5. OneAtATime'
    BY <1>1, <1>3 DEF Flow, OneAtATime
  <1>6. InTurn'
    BY <1>1, <1>2, <1>3 DEF Flow, InTurn, SentBefore, Origins
  <1> QED BY <1>4, <1>5, <1>6 DEF Flow

LEMMA FlowStep == TypeOK /\ Flow /\ [Next]_vars => Flow'
  <1> SUFFICES ASSUME TypeOK, Flow, [Next]_vars PROVE Flow'
    OBVIOUS
  <1>1. ASSUME NEW c \in Conns, Peer(c) \/ Connection(c) PROVE Flow'
    <2>1. deliv' = deliv
      BY <1>1 DEF Peer, Connection, H!Peer, H!Upgrade, H!Stall, H!Unstall, H!Leave,
                  H!Connection, H!BlockOnRegister, H!Register, H!TaskEnds,
                  H!BlockOnUnregister, H!Unregister, H!sends
    <2> QED BY <1>1, <2>1, FlowKept DEF Peer, Connection, Outside
  <1>2. ASSUME NEW m \in Msgs, NEW c \in Conns, Read(c, m) PROVE Flow'
    <2>1. /\ c \in Origins /\ origin[m] = c /\ ~ In(m, read) /\ held[c] = {}
          /\ read' = Append(read, m)
          /\ held' = [held EXCEPT ![c] = @ \cup {m}]
          /\ UNCHANGED <<origin, queue, mgr, cur, reply, deliv>>
      BY <1>2 DEF Read, Received, In, Origins
    <2> QED BY <2>1, FlowArrives
  <1>3. ASSUME NEW m \in Msgs, SendMessage(m) PROVE Flow'
    <2>1. /\ Rpc \in Origins /\ Rpc \notin Conns
          /\ origin[m] = Rpc /\ ~ In(m, read)
          /\ read' = Append(read, m)
          /\ held' = [held EXCEPT ![Rpc] = @ \cup {m}]
          /\ UNCHANGED <<origin, queue, mgr, cur, reply, deliv>>
      BY <1>3, RpcAssumption DEF SendMessage, Received, In, Origins
    <2> QED BY <2>1, FlowArrives
  <1>4. ASSUME NEW m \in Msgs, Late(m) PROVE Flow'
    BY <1>4, FlowKept DEF Late
  <1>5. ASSUME NEW m \in Msgs, Reply(m) PROVE Flow'
    <2>1. CASE EndReply(m)
      <3>1. deliv[m] = "send" /\ deliv' = [deliv EXCEPT ![m] = "done"]
            /\ UNCHANGED <<read, held, origin, queue, mgr, cur, reply>>
        BY <2>1 DEF EndReply, H!EndDelivery
      <3>2. m = cur /\ mgr = "reply"
        BY <3>1 DEF Flow, OneAtATime, AtHand
      <3> QED BY <3>1, <3>2, FlowAtHand DEF TypeOK, H!TypeOK
    <2>2. ASSUME NEW c \in Conns, Write(m, c) PROVE Flow'
      BY <2>2, FlowKept DEF Write, H!SendText
    <2> QED BY <1>5, <2>1, <2>2 DEF Reply
  <1>6. CASE Chat
    <2>1. /\ mgr = "call" /\ mgr' = "reply"
          /\ UNCHANGED <<read, held, origin, queue, cur, deliv>>
          /\ \E r : reply' = [reply EXCEPT ![cur] = r]
      BY <1>6 DEF Chat, ChatOk, ChatErr
    <2> QED BY <2>1, FlowAtHand DEF TypeOK
  <1>7. CASE StartReply
    <2>1. /\ mgr = "reply" /\ UNCHANGED <<read, held, origin, queue, cur, mgr, reply>>
          /\ \E r : deliv' = [deliv EXCEPT ![cur] = r]
      BY <1>7 DEF StartReply, H!StartDelivery
    <2> QED BY <2>1, FlowAtHand DEF TypeOK, H!TypeOK
  <1>8. CASE UNCHANGED vars
    BY <1>8, FlowKept DEF vars
  <1> QED BY <1>1, <1>2, <1>3, <1>4, <1>5, <1>6, <1>7, <1>8,
             FlowBroadcast, FlowTake, FlowAbort DEF Next, Sender

-----------------------------------------------------------------------------
(* The order of the topic and of the replies                               *)

Arrives(m) == ~ In(m, read) /\ read' = Append(read, m)

LEMMA ReadSteps ==
    ASSUME TypeOK, [Next]_vars
    PROVE  /\ origin' = origin
           /\ read' = read \/ \E m \in Msgs : Arrives(m) /\ UNCHANGED <<reply, topic, got>>
  <1>1. ASSUME NEW c \in Conns, Peer(c) \/ Connection(c) \/ Abort(c)
        PROVE  UNCHANGED <<origin, read>>
    BY <1>1 DEF Peer, Connection, Outside, Abort
  <1>2. ASSUME NEW m \in Msgs, Sender(m)
        PROVE  origin' = origin
               /\ (read' = read \/ (Arrives(m) /\ UNCHANGED <<reply, topic, got>>))
    BY <1>2 DEF Sender, SendMessage, Read, Broadcast, Arrives, Received, In
  <1>3. ASSUME NEW m \in Msgs, Late(m) \/ Reply(m) PROVE UNCHANGED <<origin, read>>
    BY <1>3 DEF Late, Reply, EndReply, Write
  <1>4. CASE Take \/ Chat \/ StartReply
    BY <1>4 DEF Take, TakeHead, Chat, ChatOk, ChatErr, StartReply
  <1>5. CASE UNCHANGED vars
    BY <1>5 DEF vars
  <1> QED BY <1>1, <1>2, <1>3, <1>4, <1>5 DEF Next

\* Only a message that was just received comes behind others.
LEMMA SentBeforeArrival ==
    ASSUME TypeOK, NEW m \in Msgs, Arrives(m), origin' = origin,
           NEW k, NEW n, SentBefore(k, n)'
    PROVE  SentBefore(k, n) \/ n = m
  BY BeforeAppend DEF TypeOK, Arrives, SentBefore

LEMMA LoggedStep ==
    TypeOK /\ Flow /\ SuccessesAreLoggedInOrder /\ [Next]_vars
        => SuccessesAreLoggedInOrder'
  <1> SUFFICES ASSUME TypeOK, Flow, SuccessesAreLoggedInOrder, [Next]_vars
               PROVE  SuccessesAreLoggedInOrder'
    OBVIOUS
  <1> DEFINE Logged ==
               /\ \A m \in Msgs : reply[m] = "success" => In(m, topic)
               /\ \A m, n \in Msgs :
                     SentBefore(m, n) /\ reply[m] = "success" /\ reply[n] = "success"
                         => Before(m, n, topic)
  <1>1. Logged /\ (Logged' => SuccessesAreLoggedInOrder')
    BY DEF SuccessesAreLoggedInOrder, In
  <1>2. topic \in Seq(Msgs)
    BY DEF TypeOK
  <1>3. ASSUME UNCHANGED <<origin, read, reply, topic>> PROVE Logged'
    BY <1>1, <1>3 DEF SentBefore
  <1>4. ASSUME NEW m \in Msgs, Arrives(m), UNCHANGED <<origin, reply, topic>>
        PROVE  Logged'
    <2>1. reply[m] = "none"
      BY <1>4 DEF Arrives, Flow, OneAtATime, Untouched
    <2> QED BY <1>1, <1>4, <2>1, SentBeforeArrival
  <1>5. ASSUME NEW m \in Msgs, Late(m) PROVE Logged'
    <2>1. topic' = Append(topic, m) /\ UNCHANGED <<origin, read, reply>>
      BY <1>5 DEF Late
    <2>2. /\ \A k : In(k, topic) => In(k, topic')
          /\ \A k, n : Before(k, n, topic) => Before(k, n, topic')
      BY <1>2, <2>1, InAppend, BeforeAppend
    <2> QED BY <1>1, <2>1, <2>2 DEF SentBefore
  <1>6. CASE ChatOk
    <2>1. /\ cur \in Msgs /\ mgr = "call" /\ topic' = Append(topic, cur)
          /\ reply' = [reply EXCEPT ![cur] = "success"]
          /\ UNCHANGED <<origin, read>>
      BY <1>6 DEF ChatOk, TypeOK
    <2>2. /\ \A k : In(k, topic') <=> In(k, topic) \/ k = cur
          /\ \A k, n : Before(k, n, topic') <=>
                           Before(k, n, topic) \/ (In(k, topic) /\ n = cur)
      BY <1>2, <2>1, InAppend, BeforeAppend
    <2>3. \A n \in Msgs : SentBefore(cur, n) => reply'[n] # "success"
      <3>1. ASSUME NEW n \in Msgs, SentBefore(cur, n) PROVE reply'[n] # "success"
        <4>1. Untouched(n) /\ AtHand(cur)
          BY <2>1, <3>1 DEF Flow, InTurn, AtHand
        <4> QED BY <2>1, <4>1 DEF Untouched, TypeOK
      <3> QED BY <3>1
    <2>4. \A n \in Msgs : n # cur => reply'[n] = reply[n]
      BY <2>1 DEF TypeOK
    <2> QED BY <1>1, <2>1, <2>2, <2>3, <2>4 DEF SentBefore
  <1>7. CASE ChatErr
    <2>1. UNCHANGED <<origin, read, topic>>
          /\ \E r \in {"failure", "echo"} : reply' = [reply EXCEPT ![cur] = r]
      BY <1>7 DEF ChatErr
    <2>2. \A n \in Msgs : reply'[n] = "success" => reply[n] = "success"
      BY <2>1 DEF TypeOK
    <2> QED BY <1>1, <2>1, <2>2 DEF SentBefore
  <1>8. ASSUME NEW c \in Conns, Peer(c) \/ Connection(c) \/ Abort(c)
        PROVE  UNCHANGED <<reply, topic>>
    BY <1>8 DEF Peer, Connection, Outside, Abort
  <1>9. ASSUME NEW m \in Msgs, Sender(m) \/ Reply(m) PROVE UNCHANGED <<reply, topic>>
    BY <1>9 DEF Sender, SendMessage, Read, Broadcast, Reply, EndReply, Write
  <1>10. ASSUME Take \/ StartReply \/ UNCHANGED vars PROVE UNCHANGED <<reply, topic>>
    BY <1>10 DEF Take, TakeHead, StartReply, vars
  <1> HIDE DEF Logged
  <1>11. ASSUME UNCHANGED <<reply, topic>> PROVE Logged'
    BY <1>3, <1>4, <1>11, ReadSteps
  <1>12. \/ UNCHANGED <<reply, topic>> \/ ChatOk \/ ChatErr
         \/ \E m \in Msgs : Late(m)
    BY <1>8, <1>9, <1>10 DEF Next, Chat
  <1>13. CASE \E m \in Msgs : Late(m)
    BY <1>1, <1>5, <1>13
  <1>14. CASE UNCHANGED <<reply, topic>>
    BY <1>1, <1>11, <1>14
  <1> QED BY <1>1, <1>6, <1>7, <1>12, <1>13, <1>14

\* Only a message whose call has ended is in the topic or may still get there,
\* and not both.
LogInv ==
    /\ \A m \in Msgs : In(m, topic) \/ m \in late => reply[m] # "none"
    /\ \A m \in late : ~ In(m, topic)
    /\ LoggedOnce

LEMMA LogStep == TypeOK /\ Flow /\ LogInv /\ [Next]_vars => LogInv'
  <1> SUFFICES ASSUME TypeOK, Flow, LogInv, [Next]_vars PROVE LogInv'
    OBVIOUS
  <1> USE DEF LogInv, LoggedOnce
  <1>1. /\ topic \in Seq(Msgs) /\ late \subseteq Msgs
        /\ reply \in [Msgs -> Replies]
        /\ mgr = "call" => cur \in Msgs
    BY DEF TypeOK
  \* A message put into the topic that was not there.
  <1>2. ASSUME NEW m \in Msgs, ~ In(m, topic), topic' = Append(topic, m)
        PROVE  /\ \A k : In(k, topic') <=> In(k, topic) \/ k = m
               /\ \A k \in Msgs : ~ Before(k, k, topic')
    <2>1. /\ \A k : In(k, topic') <=> In(k, topic) \/ k = m
          /\ \A k, n : Before(k, n, topic') <=>
                           Before(k, n, topic) \/ (In(k, topic) /\ n = m)
      BY <1>1, <1>2, InAppend, BeforeAppend
    <2> QED BY <1>2, <2>1
  <1>3. CASE ChatOk
    <2>1. reply[cur] = "none" /\ topic' = Append(topic, cur) /\ late' = late
          /\ reply' = [reply EXCEPT ![cur] = "success"] /\ cur \in Msgs
      BY <1>1, <1>3 DEF ChatOk, Flow, OneAtATime
    <2>2. ~ In(cur, topic) /\ cur \notin late
      BY <2>1
    <2>3. \A m \in Msgs : reply[m] # "none" => reply'[m] # "none"
      BY <1>1, <2>1
    <2>4. reply'[cur] # "none"
      BY <1>1, <2>1
    <2> QED BY <1>1, <1>2, <2>1, <2>2, <2>3, <2>4
  <1>4. CASE ChatErr
    <2>1. /\ reply[cur] = "none" /\ late' = late \cup {cur} /\ topic' = topic
          /\ \E r \in {"failure", "echo"} : reply' = [reply EXCEPT ![cur] = r]
          /\ cur \in Msgs
      BY <1>1, <1>4 DEF ChatErr, Flow, OneAtATime
    <2>2. reply'[cur] # "none" /\ \A m \in Msgs : reply[m] # "none" => reply'[m] # "none"
      BY <1>1, <2>1
    <2>3. ~ In(cur, topic)
      BY <2>1
    <2> QED BY <1>1, <2>1, <2>2, <2>3
  <1>5. ASSUME NEW m \in Msgs, Late(m) PROVE LogInv'
    <2>1. /\ m \in late /\ topic' = Append(topic, m) /\ late' = late \ {m}
          /\ reply' = reply
      BY <1>5 DEF Late, manager
    <2> QED BY <1>1, <1>2, <2>1
  <1>6. CASE UNCHANGED <<topic, late, reply>>
    BY <1>6
  <1>7. ASSUME \/ \E c \in Conns : Peer(c) \/ Connection(c) \/ Abort(c)
               \/ \E m \in Msgs : Sender(m) \/ Reply(m)
               \/ Take \/ StartReply \/ UNCHANGED vars
        PROVE  UNCHANGED <<topic, late, reply>>
    BY <1>7 DEF Peer, Connection, Outside, Abort, Sender, SendMessage, Read, Broadcast,
          Reply, EndReply, Write, Take, TakeHead, StartReply, vars
  <1> QED BY <1>3, <1>4, <1>5, <1>6, <1>7 DEF Next, Chat

\* Only messages whose reply is under way or done have been written.
GotIsReply == \A c \in Conns, m \in Msgs : In(m, got[c]) => deliv[m] # "new"

RepliesKept == GotIsReply /\ RepliesInOrder

LEMMA RepliesStep ==
    TypeOK /\ Flow /\ RepliesKept /\ [Next]_vars => RepliesKept'
  <1> SUFFICES ASSUME TypeOK, Flow, RepliesKept, [Next]_vars PROVE RepliesKept'
    OBVIOUS
  <1> USE DEF RepliesKept
  <1>1. \A m \in Msgs : deliv[m] # "new" => deliv'[m] # "new"
    <2>1. ASSUME NEW c \in Conns, Peer(c) \/ Connection(c) PROVE deliv' = deliv
      BY <2>1 DEF Peer, Connection, H!Peer, H!Upgrade, H!Stall, H!Unstall, H!Leave,
                  H!Connection, H!BlockOnRegister, H!Register, H!TaskEnds,
                  H!BlockOnUnregister, H!Unregister, H!sends
    <2>2. ASSUME NEW m \in Msgs, Sender(m) \/ Late(m) PROVE deliv' = deliv
      BY <2>2 DEF Sender, SendMessage, Read, Broadcast, Late
    <2>3. ASSUME NEW m \in Msgs, Reply(m)
          PROVE  deliv' = deliv \/ deliv' = [deliv EXCEPT ![m] = "done"]
      BY <2>3 DEF Reply, EndReply, Write, H!EndDelivery, H!SendText
    <2>4. ASSUME Take \/ Chat \/ (\E c \in Conns : Abort(c)) \/ UNCHANGED vars
          PROVE  deliv' = deliv
      BY <2>4 DEF Take, TakeHead, Chat, ChatOk, ChatErr, Abort, vars
    <2>5. CASE StartReply
      <3>1. \E r \in {"send", "done"} : deliv' = [deliv EXCEPT ![cur] = r]
        BY <2>5 DEF StartReply, H!StartDelivery
      <3> QED BY <3>1 DEF TypeOK, H!TypeOK
    <2>6. deliv \in [Msgs -> {"new", "send", "done"}]
      BY DEF TypeOK, H!TypeOK
    <2>7. \/ deliv' = deliv \/ StartReply
          \/ \E m \in Msgs : deliv' = [deliv EXCEPT ![m] = "done"]
      BY <2>1, <2>2, <2>3, <2>4 DEF Next
    <2> QED BY <2>5, <2>6, <2>7
  <1>2. ASSUME UNCHANGED <<origin, read, got>> PROVE RepliesKept'
    BY <1>1, <1>2 DEF GotIsReply, RepliesInOrder, SentBefore
  <1>3. ASSUME NEW m \in Msgs, Arrives(m), UNCHANGED <<origin, got>>
        PROVE  RepliesKept'
    <2>1. \A c \in Conns : ~ In(m, got[c])
      BY <1>3 DEF Arrives, GotIsReply, Flow, OneAtATime, Untouched
    <2>2. ASSUME NEW c \in Conns, NEW k \in Msgs, NEW n \in Msgs, Before(k, n, got[c])
          PROVE  ~ SentBefore(n, k)'
      BY <1>3, <2>1, <2>2, SentBeforeArrival, InBefore DEF RepliesInOrder
    <2>3. RepliesInOrder'
      BY <1>3, <2>2 DEF RepliesInOrder
    <2> QED BY <1>1, <1>3, <2>3 DEF GotIsReply
  <1>4. ASSUME NEW m \in Msgs, NEW d \in Conns, Write(m, d) PROVE RepliesKept'
    <2>1. /\ got' = IF link[d] = "up" THEN [got EXCEPT ![d] = Append(@, m)] ELSE got
          /\ UNCHANGED <<origin, read, deliv>> /\ deliv[m] = "send"
      BY <1>4 DEF Write, H!SendText
    <2>2. got \in [Conns -> Seq(Msgs)]
      BY DEF TypeOK
    <2>3. ASSUME NEW c \in Conns
          PROVE  got'[c] = got[c] \/ got'[c] = Append(got[c], m)
      BY <2>1, <2>2
    <2>4. ASSUME NEW c \in Conns
          PROVE  /\ \A k : In(k, got'[c]) => In(k, got[c]) \/ k = m
                 /\ \A k, n : Before(k, n, got'[c]) =>
                                  Before(k, n, got[c]) \/ (In(k, got[c]) /\ n = m)
      <3>1. got[c] \in Seq(Msgs)
        BY <2>2
      <3>2. CASE got'[c] = got[c]
        BY <3>2
      <3>3. CASE got'[c] = Append(got[c], m)
        BY <3>1, <3>3, InAppend, BeforeAppend
      <3> QED BY <2>3, <3>2, <3>3
    <2>5. GotIsReply'
      BY <2>1, <2>4 DEF GotIsReply
    <2>6. ASSUME NEW c \in Conns, NEW k \in Msgs, In(k, got[c]) PROVE ~ SentBefore(m, k)
      <3>1. AtHand(m)
        BY <2>1 DEF Flow, OneAtATime
      <3>2. ~ Untouched(k)
        BY <2>6 DEF GotIsReply, Untouched
      <3> QED BY <3>1, <3>2 DEF Flow, InTurn
    <2>7. RepliesInOrder'
      BY <2>1, <2>4, <2>6 DEF RepliesInOrder, SentBefore
    <2> QED BY <2>5, <2>7
  <1>5. ASSUME NEW c \in Conns, Peer(c) \/ Connection(c) \/ Abort(c) PROVE got' = got
    BY <1>5 DEF Peer, Connection, Outside, Abort
  <1>6. ASSUME NEW m \in Msgs, Sender(m) \/ Late(m) \/ EndReply(m) PROVE got' = got
    BY <1>6 DEF Sender, SendMessage, Read, Broadcast, Late, EndReply
  <1>7. ASSUME Take \/ Chat \/ StartReply \/ UNCHANGED vars PROVE got' = got
    BY <1>7 DEF Take, TakeHead, Chat, ChatOk, ChatErr, StartReply, vars
  <1> HIDE DEF RepliesKept
  <1> QED BY <1>2, <1>3, <1>4, <1>5, <1>6, <1>7, ReadSteps DEF Next, Reply

-----------------------------------------------------------------------------
(* The answer to a sender that is still there                              *)

\* A message is for the user of the connection it came over, which was
\* registered before it was read.
Addressed ==
    \A m \in Msgs : origin[m] \in Conns =>
        /\ target[m] = key[origin[m]].user
        /\ In(m, read) =>
              conn[origin[m]] \in {"running", "ending", "unregblocked", "gone"}

\* As LiveSenderIsAnswered, and while the reply is under way; a peer that has
\* stalled may read again.
AnsweredInHub ==
    \A m \in Msgs :
        LET c == origin[m]
        IN  c \in Conns /\ H!InHub(c) /\ link[c] # "down" =>
                /\ deliv[m] = "send" => c \in todo[m] \/ In(m, got[c])
                /\ deliv[m] = "done" => In(m, got[c])

Answers == H!NoDeadClient /\ Addressed /\ AnsweredInHub

LEMMA NoDeadClientStep ==
    TypeOK /\ H!NoDeadClient /\ [Next]_vars => H!NoDeadClient'
  <1>1. HP!TypeOK /\ HP!NoDeadClient /\ [HP!Next]_(HP!vars) => HP!NoDeadClient'
    BY HP!NoDeadClientStep, HubAssumption
  <1>2. H!NoDeadClient' <=> HP!NoDeadClient'
    BY DEF H!NoDeadClient, HP!NoDeadClient
  <1> QED BY <1>1, <1>2, SameType, SameNoDeadClient, HubStep DEF TypeOK

\* What the steps of a connection and its peer do to the link and to the hub.
LEMMA ConnectionSteps ==
    ASSUME TypeOK, NEW d \in Conns, Peer(d) \/ Connection(d)
    PROVE  /\ UNCHANGED <<key, deliv, target, todo, origin, read, got>>
           /\ \A c \in Conns : link'[c] # "down" => link[c] # "down"
           /\ \A c \in Conns :
                 conn[c] \in {"running", "ending", "unregblocked", "gone"} =>
                    /\ conn'[c] \in {"running", "ending", "unregblocked", "gone"}
                    /\ H!InHub(c)' => H!InHub(c)
  <1> DEFINE Late4 == {"running", "ending", "unregblocked", "gone"}
  <1>0. H!TypeOK
    BY DEF TypeOK
  <1>1. UNCHANGED <<origin, read, got>>
    BY DEF Peer, Connection, Outside
  <1>2. CASE Peer(d)
    <2>1. H!Peer(d) /\ UNCHANGED <<origin, read, got>>
      BY <1>2 DEF Peer, Outside
    <2>2. UNCHANGED <<slot, key, deliv, target, todo>>
      BY <2>1 DEF H!Peer, H!Upgrade, H!Stall, H!Unstall, H!Leave, H!hub, H!sends
    <2>3. \A c \in Conns : link'[c] # "down" => link[c] # "down"
      BY <1>0, <2>1 DEF H!Peer, H!Upgrade, H!Stall, H!Unstall, H!Leave, H!TypeOK
    <2>4. \A c \in Conns : conn[c] \in Late4 => conn'[c] = conn[c]
      BY <1>0, <2>1 DEF H!Peer, H!Upgrade, H!Stall, H!Unstall, H!Leave, H!TypeOK
    <2> QED BY <2>1, <2>2, <2>3, <2>4 DEF H!InHub
  <1>3. CASE Connection(d)
    <2>1. H!Connection(d)
      BY <1>3 DEF Connection
    <2>2. UNCHANGED <<key, link, deliv, target, todo>>
      BY <2>1 DEF H!Connection, H!BlockOnRegister, H!Register, H!TaskEnds,
                  H!BlockOnUnregister, H!Unregister, H!sends
    <2>3. key[d].user \in Users /\ key[d].platform \in Platforms
      BY <1>0 DEF H!TypeOK, H!Key
    <2>4. CASE H!Register(d)
      <3>1. /\ conn[d] \in {"upgraded", "regblocked"}
            /\ conn' = [conn EXCEPT ![d] = "running"]
            /\ slot' = [slot EXCEPT ![key[d].user][key[d].platform] = d]
        BY <2>4 DEF H!Register
      <3>2. ASSUME NEW c \in Conns, conn[c] \in Late4
            PROVE  conn'[c] \in Late4 /\ (H!InHub(c)' => H!InHub(c))
        <4>1. c # d /\ conn'[c] = conn[c]
          BY <1>0, <3>1, <3>2 DEF H!TypeOK
        <4>2. key[c].user \in Users /\ key[c].platform \in Platforms
          BY <1>0 DEF H!TypeOK, H!Key
        <4>3. slot'[key[c].user][key[c].platform] \in
                  {slot[key[c].user][key[c].platform], d}
          BY <1>0, <2>3, <3>1, <4>2 DEF H!TypeOK
        <4> QED BY <2>2, <3>2, <4>1, <4>3 DEF H!InHub
      <3> QED BY <1>1, <2>2, <3>2
    <2>5. CASE H!Unregister(d)
      <3>1. /\ conn' = [conn EXCEPT ![d] = "gone"]
            /\ \/ slot' = [slot EXCEPT ![key[d].user][key[d].platform] = None]
               \/ slot' = slot
        BY <2>5 DEF H!Unregister
      <3>2. ASSUME NEW c \in Conns, conn[c] \in Late4
            PROVE  conn'[c] \in Late4 /\ (H!InHub(c)' => H!InHub(c))
        <4>1. conn'[c] \in Late4 /\ c # None
          BY <1>0, <3>1, <3>2, HubAssumption DEF H!TypeOK
        <4>2. key[c].user \in Users /\ key[c].platform \in Platforms
          BY <1>0 DEF H!TypeOK, H!Key
        <4>3. slot'[key[c].user][key[c].platform] \in
                  {slot[key[c].user][key[c].platform], None}
          <5>1. slot \in [Users -> [Platforms -> Conns \cup {None}]]
            BY <1>0 DEF H!TypeOK
          <5>2. CASE slot' = slot
            BY <5>2
          <5>3. CASE slot' = [slot EXCEPT ![key[d].user][key[d].platform] = None]
            BY <2>3, <4>2, <5>1, <5>3
          <5> QED BY <3>1, <5>2, <5>3
        <4> QED BY <2>2, <4>1, <4>3 DEF H!InHub
      <3> QED BY <1>1, <2>2, <3>2
    <2>6. CASE H!BlockOnRegister(d) \/ H!TaskEnds(d) \/ H!BlockOnUnregister(d)
      <3>1. slot' = slot
        BY <2>6 DEF H!BlockOnRegister, H!TaskEnds, H!BlockOnUnregister, H!hub
      <3>2. \A c \in Conns : conn[c] \in Late4 => conn'[c] \in Late4
        BY <1>0, <2>6 DEF H!BlockOnRegister, H!TaskEnds, H!BlockOnUnregister, H!TypeOK
      <3> QED BY <1>1, <2>2, <3>1, <3>2 DEF H!InHub
    <2> QED BY <2>1, <2>4, <2>5, <2>6 DEF H!Connection
  <1> QED BY <1>2, <1>3

LEMMA AddressedStep == TypeOK /\ Addressed /\ [Next]_vars => Addressed'
  <1> SUFFICES ASSUME TypeOK, Addressed, [Next]_vars PROVE Addressed'
    OBVIOUS
  <1>1. ASSUME NEW d \in Conns, Peer(d) \/ Connection(d) PROVE Addressed'
    BY <1>1, ConnectionSteps DEF Addressed
  <1>2. ASSUME UNCHANGED <<origin, target, key, conn, read>> PROVE Addressed'
    BY <1>2 DEF Addressed
  <1>3. ASSUME NEW m \in Msgs, Arrives(m), UNCHANGED <<origin, target, key, conn>>,
               origin[m] \in Conns => conn[origin[m]] = "running"
        PROVE  Addressed'
    <2>1. \A k : In(k, read') <=> In(k, read) \/ k = m
      BY <1>3, InAppend DEF TypeOK, Arrives
    <2> QED BY <1>3, <2>1 DEF Addressed
  <1>4. ASSUME NEW m \in Msgs, Sender(m) PROVE Addressed'
    <2>1. CASE \E x \in Origins : Broadcast(x, m)
      BY <1>2, <2>1 DEF Broadcast
    <2>2. CASE SendMessage(m)
      <3>1. Arrives(m) /\ UNCHANGED <<origin, target, key, conn>> /\ origin[m] \notin Conns
        BY <2>2, RpcAssumption DEF SendMessage, Arrives, Received, In
      <3> QED BY <1>3, <3>1
    <2>3. ASSUME NEW c \in Conns, Read(c, m) PROVE Addressed'
      <3>1. Arrives(m) /\ UNCHANGED <<origin, target, key, conn>>
            /\ conn[origin[m]] = "running"
        BY <2>3 DEF Read, Arrives, Received, In
      <3> QED BY <1>3, <3>1
    <2> QED BY <1>4, <2>1, <2>2, <2>3 DEF Sender
  <1>5. ASSUME NEW m \in Msgs, Late(m) \/ Reply(m)
        PROVE  UNCHANGED <<origin, target, key, conn, read>>
    BY <1>5 DEF Late, Reply, EndReply, Write, H!EndDelivery, H!SendText, H!hub
  <1>6. ASSUME (\E c \in Conns : Abort(c)) \/ Take \/ Chat \/ StartReply \/ UNCHANGED vars
        PROVE  UNCHANGED <<origin, target, key, conn, read>>
    BY <1>6 DEF Abort, Take, TakeHead, Chat, ChatOk, ChatErr, StartReply,
                H!StartDelivery, H!hub, vars
  <1> QED BY <1>1, <1>2, <1>4, <1>5, <1>6 DEF Next

LEMMA AnsweredStep == TypeOK /\ Flow /\ Answers /\ [Next]_vars => AnsweredInHub'
  <1> DEFINE Answered(m, c) ==
               /\ deliv[m] = "send" => c \in todo[m] \/ In(m, got[c])
               /\ deliv[m] = "done" => In(m, got[c])
  <1> SUFFICES ASSUME TypeOK, Flow, Answers, [Next]_vars,
                      NEW m \in Msgs, NEW c \in Conns, origin[m] = c,
                      H!InHub(c)', link'[c] # "down", deliv'[m] # "new"
               PROVE  Answered(m, c)'
    BY ReadSteps DEF AnsweredInHub, H!InHub
  <1>0. H!TypeOK
    BY DEF TypeOK
  <1>1. H!InHub(c) /\ link[c] # "down" => Answered(m, c)
    BY DEF Answers, AnsweredInHub
  <1>2. ASSUME UNCHANGED <<slot, key, link, deliv, todo, got>> PROVE Answered(m, c)'
    BY <1>0, <1>1, <1>2 DEF H!InHub
  <1>3. ASSUME NEW d \in Conns, Peer(d) \/ Connection(d) PROVE Answered(m, c)'
    <2>1. /\ UNCHANGED <<deliv, todo, got>>
          /\ link'[c] # "down" => link[c] # "down"
          /\ conn[c] \in {"running", "ending", "unregblocked", "gone"} =>
                (H!InHub(c)' => H!InHub(c))
      BY <1>0, <1>3, ConnectionSteps
    <2>2. In(m, read)
      BY <2>1 DEF Flow, OneAtATime, Untouched
    <2>3. H!InHub(c) /\ link[c] # "down"
      BY <1>0, <2>1, <2>2 DEF Answers, Addressed
    <2> QED BY <1>0, <1>1, <2>1, <2>3
  <1>4. ASSUME NEW k \in Msgs, EndReply(k) PROVE Answered(m, c)'
    <2>1. /\ deliv[k] = "send" /\ todo[k] = {} /\ deliv' = [deliv EXCEPT ![k] = "done"]
          /\ UNCHANGED <<slot, key, link, todo, got>>
      BY <1>4 DEF EndReply, H!EndDelivery, H!hub
    <2>2. Answered(m, c)
      BY <1>0, <1>1, <2>1 DEF H!InHub
    <2> QED BY <1>0, <2>1, <2>2 DEF H!TypeOK
  <1>5. ASSUME NEW k \in Msgs, NEW d \in Conns, Write(k, d) PROVE Answered(m, c)'
    <2>1. /\ link[d] # "slow" /\ todo' = [todo EXCEPT ![k] = @ \ {d}]
          /\ UNCHANGED <<slot, key, link, deliv>>
          /\ got' = IF link[d] = "up" THEN [got EXCEPT ![d] = Append(@, k)] ELSE got
      BY <1>5 DEF Write, H!SendText, H!hub
    <2>2. Answered(m, c) /\ link[c] # "down"
      BY <1>0, <1>1, <2>1 DEF H!InHub
    <2>3. got \in [Conns -> Seq(Msgs)] /\ got[c] \in Seq(Msgs)
      BY <1>0 DEF TypeOK
    <2>4. In(m, got[c]) => In(m, got'[c])
      <3>1. \/ got'[c] = got[c]
            \/ got'[c] = Append(got[c], k)
        BY <1>0, <2>1, <2>3
      <3>2. CASE got'[c] = got[c]
        BY <3>2
      <3>3. CASE got'[c] = Append(got[c], k)
        BY <2>3, <3>3, InAppend
      <3> QED BY <3>1, <3>2, <3>3
    <2>5. CASE k = m /\ d = c
      <3>1. link[c] = "up"
        BY <1>0, <2>1, <2>2, <2>5 DEF H!TypeOK
      <3>2. got'[c] = Append(got[c], m)
        BY <1>0, <2>1, <2>3, <2>5, <3>1
      <3>3. In(m, got'[c])
        BY <2>3, <3>2, InAppend
      <3> QED BY <1>0, <3>3
    <2>6. CASE k # m \/ d # c
      <3>1. c \in todo[m] => c \in todo'[m]
        BY <1>0, <2>1, <2>6 DEF H!TypeOK
      <3> QED BY <1>0, <2>1, <2>2, <2>4, <3>1
    <2> QED BY <2>5, <2>6
  <1>6. CASE StartReply
    <2>1. /\ cur \in Msgs /\ deliv[cur] = "new"
          /\ deliv' = [deliv EXCEPT ![cur] = IF target[cur] \in entry
                                               THEN "send" ELSE "done"]
          /\ todo' = [todo EXCEPT ![cur] = H!Clients(target[cur])]
          /\ UNCHANGED <<slot, key, link, got>>
      BY <1>6 DEF StartReply, H!StartDelivery, H!hub, TypeOK
    <2>2. H!InHub(c) /\ link[c] # "down"
      BY <1>0, <2>1 DEF H!InHub
    <2>3. CASE m = cur
      <3>1. target[m] = key[c].user
        BY <1>0 DEF Answers, Addressed
      <3>2. key[c].user \in Users /\ key[c].platform \in Platforms
        BY <1>0 DEF H!TypeOK, H!Key
      <3>3. slot[target[m]][key[c].platform] = c /\ c # None
        BY <1>0, <2>2, <3>1, HubAssumption DEF H!InHub
      <3>4. target[m] \in entry
        BY <3>1, <3>2, <3>3 DEF Answers, H!NoDeadClient
      <3>5. c \in H!Clients(target[m])
        BY <3>2, <3>3, <3>4 DEF H!Clients
      <3>6. deliv'[m] = "send" /\ c \in todo'[m]
        BY <1>0, <2>1, <2>3, <3>4, <3>5 DEF H!TypeOK
      <3> QED BY <1>0, <3>6
    <2>4. CASE m # cur
      BY <1>0, <1>1, <2>1, <2>2, <2>4 DEF H!TypeOK
    <2> QED BY <2>3, <2>4
  <1>7. ASSUME NEW k \in Msgs, Sender(k) \/ Late(k)
        PROVE  UNCHANGED <<slot, key, link, deliv, todo, got>>
    BY <1>7 DEF Sender, SendMessage, Read, Broadcast, Late
  <1>8. ASSUME (\E d \in Conns : Abort(d)) \/ Take \/ Chat \/ UNCHANGED vars
        PROVE  UNCHANGED <<slot, key, link, deliv, todo, got>>
    BY <1>8 DEF Abort, Take, TakeHead, Chat, ChatOk, ChatErr, vars
  <1> HIDE DEF Answered
  <1> QED BY <1>2, <1>3, <1>4, <1>5, <1>6, <1>7, <1>8 DEF Next, Reply

LEMMA AnswersInit == Init => Answers
  <1> SUFFICES ASSUME Init PROVE Answers
    OBVIOUS
  <1>1. /\ read = << >> /\ deliv = [m \in Msgs |-> "new"]
        /\ slot = [u \in Users |-> [p \in Platforms |-> None]]
        /\ \A m \in Msgs : origin[m] # Rpc => target[m] = key[origin[m]].user
    BY DEF Init, H!Init
  <1>2. H!NoDeadClient
    BY <1>1 DEF H!NoDeadClient
  <1>3. Addressed
    BY <1>1, InEmpty, RpcAssumption DEF Addressed
  <1>4. AnsweredInHub
    BY <1>1 DEF AnsweredInHub
  <1> QED BY <1>2, <1>3, <1>4 DEF Answers
-----------------------------------------------------------------------------
\* A message whose sender is told of success is in the topic, and those of one
\* connection are there in the order they were sent in (ws/src/manager.rs:58-92).
THEOREM SuccessesFollowTheConnection == Spec => []SuccessesAreLoggedInOrder
  <1>1. Init => SuccessesAreLoggedInOrder
    BY DEF Init, SuccessesAreLoggedInOrder
  <1> QED BY <1>1, TypeCorrect, FlowInit, FlowStep, LoggedStep, PTL DEF Spec

\* A connection is written the replies in the order of its messages
\* (ws/src/manager.rs:91, awaited).
THEOREM RepliesFollowTheConnection == Spec => []RepliesInOrder
  <1>1. Init => RepliesKept
    <2>1. ASSUME Init PROVE \A c \in Conns : got[c] = << >>
      BY <2>1 DEF Init
    <2>2. ASSUME Init, NEW c \in Conns, NEW m, NEW n
          PROVE  ~ In(m, got[c]) /\ ~ Before(m, n, got[c])
      BY <2>1, <2>2, InEmpty, InBefore
    <2> QED BY <2>2 DEF RepliesKept, GotIsReply, RepliesInOrder
  <1>2. RepliesKept => RepliesInOrder
    BY DEF RepliesKept
  <1> QED BY <1>1, <1>2, TypeCorrect, FlowInit, FlowStep, RepliesStep, PTL DEF Spec

\* When the reply to a message is done, its connection was written it if it is
\* still in the hub and its peer reads (ws/src/manager.rs:104-117).
THEOREM LiveSendersAreAnswered == Spec => []LiveSenderIsAnswered
  <1>1. Answers => LiveSenderIsAnswered
    BY DEF Answers, AnsweredInHub, LiveSenderIsAnswered, In
  <1>2. TypeOK /\ Flow /\ Answers /\ [Next]_vars => Answers'
    BY NoDeadClientStep, AddressedStep, AnsweredStep DEF Answers
  <1> QED BY <1>1, <1>2, AnswersInit, TypeCorrect, FlowInit, FlowStep, PTL DEF Spec

\* No message is in the topic twice, whatever calls fail and however late their
\* records are stored (chat/src/main.rs:36, ws/src/manager.rs:64-88).
THEOREM MessagesAreLoggedOnce == Spec => []LoggedOnce
  <1>1. Init => LogInv
    BY InEmpty, InBefore DEF Init, LogInv, LoggedOnce
  <1>2. LogInv => LoggedOnce
    BY DEF LogInv
  <1> QED BY <1>1, <1>2, TypeCorrect, FlowInit, FlowStep, LogStep, PTL DEF Spec

\* The manager and the senders use the hub as WsHub has it: each step is a step of
\* the hub or leaves it alone, a reply being a delivery that starts once and is
\* awaited (ws/src/manager.rs:58-117).
THEOREM ManagerImplementsHub == Spec => H!Spec
  <1>1. TypeOK /\ [Next]_vars => [H!Next]_(H!vars)
    <2> SUFFICES ASSUME TypeOK, [Next]_vars PROVE [H!Next]_(H!vars)
      OBVIOUS
    <2>1. UNCHANGED hubVars => UNCHANGED H!vars
      BY DEF H!vars, H!hub, H!sends
    <2>2. ASSUME NEW c \in Conns, Peer(c) \/ Connection(c) \/ Abort(c)
          PROVE  H!Next \/ UNCHANGED hubVars
      BY <2>2 DEF Peer, Connection, Abort, H!Next
    <2>3. ASSUME NEW m \in Msgs, Sender(m) \/ Late(m) PROVE UNCHANGED hubVars
      BY <2>3 DEF Sender, SendMessage, Read, Broadcast, Late
    <2>4. ASSUME NEW m \in Msgs, Reply(m) PROVE H!Next
      BY <2>4 DEF Reply, EndReply, Write, H!Delivery, H!Next
    <2>5. CASE Take \/ Chat \/ UNCHANGED vars
      BY <2>1, <2>5 DEF Take, TakeHead, Chat, ChatOk, ChatErr, vars
    <2>6. CASE StartReply
      <3>1. cur \in Msgs
        BY <2>6 DEF StartReply, TypeOK
      <3> QED BY <2>6, <3>1 DEF StartReply, H!Delivery, H!Next
    <2> QED BY <2>1, <2>2, <2>3, <2>4, <2>5, <2>6 DEF Next
  <1> QED BY <1>1, TypeCorrect, PTL DEF Spec, Init, H!Spec

\* So what is proved of the hub holds of it under the manager: no client of a
\* connection that is over, replies only to clients that are in the hub, and no
\* client lost but to another connection of its user and platform.
THEOREM HubHoldsUnderManager ==
    Spec => [](H!NoDeadClient /\ H!DeliversToHub /\ H!OnlyOverlapLosesClient)
  <1>1. Spec => HP!Spec
    BY SameInit, HubStep, TypeCorrect, PTL DEF Spec, Init, HP!Spec
  <1>2. HP!Spec => [](HP!NoDeadClient /\ HP!DeliversToHub /\ HP!OnlyOverlapLosesClient)
    BY HP!HubHoldsNoDeadClient, HP!DeliveriesUseTheHub, HP!ClientsAreLostToOverlapOnly,
       HubAssumption, PTL
  <1>3. HP!DeliversToHub => H!DeliversToHub
    BY DEF HP!DeliversToHub, H!DeliversToHub, HP!Clients, H!Clients
  <1>4. HP!OnlyOverlapLosesClient => H!OnlyOverlapLosesClient
    BY DEF HP!OnlyOverlapLosesClient, H!OnlyOverlapLosesClient, HP!InHub, H!InHub
  <1> QED BY <1>1, <1>2, <1>3, <1>4, SameNoDeadClient, PTL
=============================================================================
