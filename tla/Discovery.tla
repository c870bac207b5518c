------------------------------ MODULE Discovery ------------------------------
(***************************************************************************)
(* How the services come up and find each other: the start of each program *)
(* as a script of steps, the registry (Consul), and the balanced channels  *)
(* through which consumer calls db and pusher, and ws calls chat           *)
(* (utils/src/tonic_service_discovery.rs, get_channel).                    *)
(*                                                                         *)
(* A channel is a worker that asks the registry every ten seconds and      *)
(* sends what has changed, a bounded queue of such changes, and tonic's    *)
(* balancer, which takes the changes off the queue when a call is made and *)
(* hands the call to one of its endpoints.  A process that fails in a step *)
(* of its script panics; a process that is gone stays in the registry.     *)
(*                                                                         *)
(* The registry, tonic's balancer and the topic are modelled by what the   *)
(* code relies on.  The worker of the pusher, which has a list of its own, *)
(* is in Pusher.tla.                                                       *)
(***************************************************************************)
EXTENDS Naturals, Sequences, Changes

CONSTANTS
    Procs,        \* processes
    Kind,         \* the program each process runs
    Hosts,        \* machines
    HostOf,       \* the machine of each process
    Addrs,        \* configured addresses, host and port
    AddrOf,       \* AddrOf[p][s]: where p is configured to serve s
    SocketAddrs,  \* addresses that parse as a SocketAddr (no host names)
    Urls,         \* those of them that make a URL (no IPv6 addresses)
    None,         \* no address
    Deployments,  \* sets of processes that are run together
    ChanCap,      \* capacity of a queue of changes (1024 in the code)
    MaxStarts,    \* bound: starts of processes
    MaxStops,     \* bound: processes that die of other causes than a failed step
    MaxFaults     \* bound: steps, queries and calls that fail without cause

Services == {"websocket", "ws", "chat", "db", "pusher"}

Step(op, s) == [op |-> op, service |-> s]
Open(s)     == Step("open", s)      \* get_channel to s
Register(s) == Step("register", s)
Listen(s)   == Step("listen", s)
Topic       == Step("topic", "chat")
Pool        == Step("pool", "db")

\* What each program does before it is ready, in this order.
ConsumerScript == <<Open("db"), Open("pusher")>>
WsScript ==
    <<Open("chat"), Listen("websocket"), Register("websocket"), Register("ws"),
      Listen("ws")>>
ChatScript   == <<Topic, Register("chat"), Listen("chat")>>
DbScript     == <<Register("db"), Pool, Listen("db")>>
PusherScript == <<Register("pusher"), Listen("pusher")>>

Script ==
    [consumer |-> ConsumerScript, ws |-> WsScript, chat |-> ChatScript,
     db |-> DbScript, pusher |-> PusherScript]

ScriptOf(p) == Script[Kind[p]]
Steps(p)    == {ScriptOf(p)[i] : i \in DOMAIN ScriptOf(p)}

\* The channels of a process, one for each service it opens a channel to.
Channels == {ch \in Procs \X Services : Open(ch[2]) \in Steps(ch[1])}

ASSUME ConfigAssumption ==
    /\ Kind \in [Procs -> DOMAIN Script]
    /\ HostOf \in [Procs -> Hosts]
    /\ AddrOf \in [Procs -> [Services -> Addrs]]
    /\ Urls \subseteq SocketAddrs /\ SocketAddrs \subseteq Addrs
    /\ None \notin Addrs
    /\ \A D \in Deployments : D \subseteq Procs
ASSUME BoundsAssumption == {ChanCap, MaxStarts, MaxStops, MaxFaults} \subseteq Nat

VARIABLES
    deployed,  \* the processes of this behaviour
    pc,        \* the step each process is at, 0 if it does not run
    registry,  \* Consul: the address under each id, a host and a service
    round,     \* each channel's worker: "idle", or it has changes to "send"
    view,      \* its services: the addresses of its last round
    next,      \* the addresses of the round it is in
    todo,      \* the changes it has still to send
    queue,     \* the changes the balancer has not taken yet
    ends,      \* the endpoints of the balancer
    waiting,   \* a call waits for an endpoint
    spent      \* how much of each bound is used

worker  == <<round, view, next, todo>>
channel == <<worker, queue, ends, waiting>>
vars == <<deployed, pc, registry, channel, spent>>

Use(what, max) ==
    /\ spent[what] < max
    /\ spent' = [spent EXCEPT ![what] = @ + 1]

InStart(p)      == pc[p] \in DOMAIN ScriptOf(p)
Current(p)      == ScriptOf(p)[pc[p]]
Does(p, op)     == InStart(p) /\ Current(p).op = op
Passed(p, step) == \E i \in DOMAIN ScriptOf(p) : i < pc[p] /\ ScriptOf(p)[i] = step
Ready(p)        == pc[p] = Len(ScriptOf(p)) + 1

Advance(p) == pc' = [pc EXCEPT ![p] = @ + 1]

\* Some process listens for s at a.
Serves(a, s) == \E q \in Procs : AddrOf[q][s] = a /\ Passed(q, Listen(s))

\* The port at a is taken, whatever is served there.
Taken(a) == \E s \in Services : Serves(a, s)

\* Mutant of Registered: the answer is not filtered by the service's name.
RegisteredAll(s) == {registry[id] : id \in Hosts \X Services}

\* What the registry has for s, and the part of it that parses.
Registered(s) == {registry[<<h, s>>] : h \in Hosts}
Listed(s)     == Registered(s) \cap SocketAddrs

\* The id of a registration: the host's name and the service's.
Id(p, s) == <<HostOf[p], s>>

\* p is the only process with its ids: no other one of its program on its host.
Sole(p) == \A q \in Procs : Kind[q] = Kind[p] /\ HostOf[q] = HostOf[p] => q = p

Init ==
    /\ deployed \in Deployments
    /\ pc = [p \in Procs |-> 0]
    /\ registry = [id \in Hosts \X Services |-> None]
    /\ round = [ch \in Channels |-> "idle"]
    /\ view = [ch \in Channels |-> {}]
    /\ next = [ch \in Channels |-> {}]
    /\ todo = [ch \in Channels |-> {}]
    /\ queue = [ch \in Channels |-> <<>>]
    /\ ends = [ch \in Channels |-> {}]
    /\ waiting = [ch \in Channels |-> FALSE]
    /\ spent = [w \in {"start", "stop", "fault"} |-> 0]
-----------------------------------------------------------------------------
(* Processes                                                               *)

Start(p) ==
    /\ p \in deployed /\ pc[p] = 0 /\ Use("start", MaxStarts)
    /\ Advance(p)
    /\ UNCHANGED <<deployed, registry, channel>>

\* p ends, and its channels with it; its registrations stay.
Down(p) ==
    LET Reset(f, v) == [ch \in Channels |-> IF ch[1] = p THEN v ELSE f[ch]]
    IN  /\ pc' = [pc EXCEPT ![p] = 0]
        /\ round' = Reset(round, "idle")
        /\ view' = Reset(view, {}) /\ next' = Reset(next, {})
        /\ todo' = Reset(todo, {}) /\ queue' = Reset(queue, <<>>)
        /\ ends' = Reset(ends, {}) /\ waiting' = Reset(waiting, FALSE)

Stop(p) ==
    /\ pc[p] # 0 /\ Use("stop", MaxStops)
    /\ Down(p)
    /\ UNCHANGED <<deployed, registry>>

\* chat: the topic is created, or was there.
EnsureTopic(p) ==
    /\ Does(p, "topic") /\ Advance(p)
    /\ UNCHANGED <<deployed, registry, channel, spent>>

\* db: the pool of connections is there.  The service is registered by then.
ConnectPool(p) ==
    /\ Does(p, "pool") /\ Advance(p)
    /\ UNCHANGED <<deployed, registry, channel, spent>>

PrepareErr(p) ==
    /\ Does(p, "topic") \/ Does(p, "pool")
    /\ Use("fault", MaxFaults) /\ Down(p)
    /\ UNCHANGED <<deployed, registry>>

\* A registration replaces the one of the same id.
Put(p) ==
    LET s == Current(p).service
    IN  registry' = [registry EXCEPT ![Id(p, s)] = AddrOf[p][s]]

RegisterService(p) ==
    /\ Does(p, "register") /\ Put(p) /\ Advance(p)
    /\ UNCHANGED <<deployed, channel, spent>>

\* Mutant of RegisterErr: goes on without the registration.
RegisterIgnoreErr(p) ==
    /\ Does(p, "register") /\ Use("fault", MaxFaults)
    /\ Advance(p)
    /\ UNCHANGED <<deployed, registry, channel>>

\* The registration fails, or its answer is lost: unwrap panics.
RegisterErr(p) ==
    /\ Does(p, "register") /\ Use("fault", MaxFaults)
    /\ Put(p) \/ UNCHANGED registry
    /\ Down(p)
    /\ UNCHANGED deployed

\* The RPC servers parse the address, TcpListener resolves names as well.
CanBind(p) ==
    LET s == Current(p).service
    IN  /\ s # "websocket" => AddrOf[p][s] \in SocketAddrs
        /\ ~ Taken(AddrOf[p][s])

Serve(p) ==
    /\ Does(p, "listen") /\ CanBind(p) /\ Advance(p)
    /\ UNCHANGED <<deployed, registry, channel, spent>>

ServeErr(p) ==
    /\ Does(p, "listen") /\ ~ CanBind(p) /\ Down(p)
    /\ UNCHANGED <<deployed, registry, spent>>
-----------------------------------------------------------------------------
(* The worker of a channel                                                 *)

\* get_channel awaits the first round; the others are those of the task run.
Opening(ch) == InStart(ch[1]) /\ Current(ch[1]) = Open(ch[2])
Running(ch) == Passed(ch[1], Open(ch[2]))

\* Mutant of ChangeSet: compares the new list with the old one only.
InsertsOnly(old, new) == {Change("insert", a) : a \in (new \ old) \cap Urls}

\* change_set: an address that makes no URL is passed over.
ChangeSet(old, new) ==
    {Change("insert", a) : a \in (new \ old) \cap Urls}
        \cup {Change("remove", a) : a \in old \ new}

\* Mutant of Query: waits until there is an instance.
QueryNonEmpty(ch) ==
    /\ Opening(ch) \/ Running(ch)
    /\ round[ch] = "idle" /\ Listed(ch[2]) # {}
    /\ next' = [next EXCEPT ![ch] = Listed(ch[2])]
    /\ todo' = [todo EXCEPT ![ch] = ChangeSet(view[ch], Listed(ch[2]))]
    /\ round' = [round EXCEPT ![ch] = "send"]
    /\ UNCHANGED <<deployed, pc, registry, view, queue, ends, waiting, spent>>

\* discovery: filter_by_name answers, and the changes are computed.
Query(ch) ==
    /\ Opening(ch) \/ Running(ch)
    /\ round[ch] = "idle"
    /\ next' = [next EXCEPT ![ch] = Listed(ch[2])]
    /\ todo' = [todo EXCEPT ![ch] = ChangeSet(view[ch], Listed(ch[2]))]
    /\ round' = [round EXCEPT ![ch] = "send"]
    /\ UNCHANGED <<deployed, pc, registry, view, queue, ends, waiting, spent>>

\* Mutant of QueryErr: the error ends the task run.
QueryErrEndsRun(ch) ==
    /\ Running(ch) /\ round[ch] = "idle" /\ Use("fault", MaxFaults)
    /\ round' = [round EXCEPT ![ch] = "ended"]
    /\ UNCHANGED <<deployed, pc, registry, view, next, todo, queue, ends, waiting>>

\* The query fails: the process panics in the first round, and logs it later.
QueryErr(ch) ==
    /\ round[ch] = "idle" /\ Use("fault", MaxFaults)
    /\ \/ Opening(ch) /\ Down(ch[1])
       \/ Running(ch) /\ UNCHANGED <<pc, channel>>
    /\ UNCHANGED <<deployed, registry>>

\* Mutant of SendChange: does not wait for room.
SendChangeUnbounded(ch, x) ==
    /\ round[ch] = "send" /\ x \in todo[ch]
    /\ x.op = "remove" => \A y \in todo[ch] : y.op = "remove"
    /\ todo' = [todo EXCEPT ![ch] = @ \ {x}]
    /\ queue' = [queue EXCEPT ![ch] = Append(@, x)]
    /\ UNCHANGED <<deployed, pc, registry, round, view, next, ends, waiting, spent>>

\* Mutant of SendChange: drops the change if there is no room (try_send).
TrySendChange(ch, x) ==
    /\ round[ch] = "send" /\ x \in todo[ch]
    /\ x.op = "remove" => \A y \in todo[ch] : y.op = "remove"
    /\ todo' = [todo EXCEPT ![ch] = @ \ {x}]
    /\ queue' = [queue EXCEPT ![ch] = IF Len(@) < ChanCap THEN Append(@, x) ELSE @]
    /\ UNCHANGED <<deployed, pc, registry, round, view, next, ends, waiting, spent>>

\* One change is sent, the inserts first, while the queue has room.
SendChange(ch, x) ==
    /\ round[ch] = "send" /\ x \in todo[ch]
    /\ x.op = "remove" => \A y \in todo[ch] : y.op = "remove"
    /\ Len(queue[ch]) < ChanCap
    /\ todo' = [todo EXCEPT ![ch] = @ \ {x}]
    /\ queue' = [queue EXCEPT ![ch] = Append(@, x)]
    /\ UNCHANGED <<deployed, pc, registry, round, view, next, ends, waiting, spent>>

\* All are sent: self.services = x.  After the first round the channel is open.
StoreView(ch) ==
    /\ round[ch] = "send" /\ todo[ch] = {}
    /\ view' = [view EXCEPT ![ch] = next[ch]]
    /\ round' = [round EXCEPT ![ch] = "idle"]
    /\ next' = [next EXCEPT ![ch] = {}]
    /\ IF Opening(ch) THEN Advance(ch[1]) ELSE UNCHANGED pc
    /\ UNCHANGED <<deployed, registry, todo, queue, ends, waiting, spent>>
-----------------------------------------------------------------------------
(* Calls                                                                   *)

\* consume runs once both channels are open; the manager of ws gets messages
\* once connections are accepted.
MayCall(p) ==
    IF Kind[p] = "consumer" THEN Ready(p) ELSE Passed(p, Listen("websocket"))

Call(ch) ==
    /\ MayCall(ch[1]) /\ ~ waiting[ch]
    /\ waiting' = [waiting EXCEPT ![ch] = TRUE]
    /\ UNCHANGED <<deployed, pc, registry, worker, queue, ends, spent>>

\* The balancer takes a change off the queue, which it does when it is polled
\* for a call.
Absorb(ch) ==
    /\ waiting[ch] /\ queue[ch] # <<>>
    /\ queue' = [queue EXCEPT ![ch] = Tail(@)]
    /\ ends' = [ends EXCEPT ![ch] = Apply(@, Head(queue[ch]))]
    /\ UNCHANGED <<deployed, pc, registry, worker, waiting, spent>>

\* The queue is drained: the call goes to an endpoint, which connects if it is
\* not connected.
CallOk(ch) ==
    /\ waiting[ch] /\ queue[ch] = <<>>
    /\ \E a \in ends[ch] : Serves(a, ch[2])
    /\ waiting' = [waiting EXCEPT ![ch] = FALSE]
    /\ UNCHANGED <<deployed, pc, registry, worker, queue, ends, spent>>

CallErr(ch) ==
    /\ waiting[ch] /\ queue[ch] = <<>>
    /\ \E a \in ends[ch] :
          \/ ~ Serves(a, ch[2]) /\ UNCHANGED spent
          \/ Serves(a, ch[2]) /\ Use("fault", MaxFaults)
    /\ waiting' = [waiting EXCEPT ![ch] = FALSE]
    /\ UNCHANGED <<deployed, pc, registry, worker, queue, ends>>
-----------------------------------------------------------------------------
StartStep(p) ==
    \/ EnsureTopic(p) \/ ConnectPool(p) \/ PrepareErr(p)
    \/ RegisterService(p) \/ RegisterErr(p) \/ Serve(p) \/ ServeErr(p)

Round(ch)    == Query(ch) \/ StoreView(ch) \/ \E x \in todo[ch] : SendChange(ch, x)
Balancer(ch) == Absorb(ch) \/ CallOk(ch) \/ CallErr(ch)

Next ==
    \/ \E p \in Procs : Start(p) \/ Stop(p) \/ StartStep(p)
    \/ \E ch \in Channels : Round(ch) \/ QueryErr(ch) \/ Call(ch) \/ Balancer(ch)

Spec == Init /\ [][Next]_vars

\* A step of a start succeeds or fails; the worker wakes up and the registry
\* answers in the end; tonic polls the balancer while a call waits.  Nothing is
\* assumed of starts, stops and new calls.
Fairness ==
    /\ \A p \in Procs : WF_vars(StartStep(p))
    /\ \A ch \in Channels : WF_vars(Round(ch)) /\ WF_vars(Balancer(ch))

FairSpec == Spec /\ Fairness
-----------------------------------------------------------------------------
TypeOK ==
    /\ deployed \subseteq Procs
    /\ pc \in [Procs -> Nat]
    /\ \A p \in Procs : pc[p] <= Len(ScriptOf(p)) + 1
    /\ registry \in [Hosts \X Services -> Addrs \cup {None}]
    /\ round \in [Channels -> {"idle", "send"}]
    /\ view \in [Channels -> SUBSET SocketAddrs]
    /\ next \in [Channels -> SUBSET SocketAddrs]
    /\ todo \in [Channels -> SUBSET ChangesOf(Addrs)]
    /\ queue \in [Channels -> Seq(ChangesOf(Addrs))]
    /\ \A ch \in Channels : Len(queue[ch]) <= ChanCap
    /\ ends \in [Channels -> SUBSET Addrs]
    /\ waiting \in [Channels -> BOOLEAN]
    /\ spent \in [{"start", "stop", "fault"} -> Nat]

\* Between two rounds, what a call finds once it has drained the queue is the
\* last answer of the registry, however many rounds the queue holds
\* (tonic_service_discovery.rs:102-109: changes first, then the view).
ChannelFollowsView ==
    \A ch \in Channels : round[ch] = "idle" =>
        \A a \in Addrs : Member(a, ends[ch], queue[ch]) <=> a \in view[ch] \cap Urls

\* A process that is up is in the registry with its own address, one that
\* clients can parse, unless another one of its program runs on its host: a
\* failed registration is not skipped, and whatever a crash left behind the next
\* start replaces (db/src/main.rs:36-53).  Nobody looks up websocket.
ReadyIsListed ==
    \A p \in Procs : Ready(p) /\ Sole(p) =>
        \A s \in Services : Register(s) \in Steps(p) =>
            AddrOf[p][s] \in IF s = "websocket" THEN Registered(s) ELSE Listed(s)

\* A first round never waits for room: get_channel awaits it before the balancer
\* that would make room is used at all, so that a round too large for the queue
\* would keep the process from starting for ever (tonic_service_discovery.rs:183).
FirstRoundFits ==
    \A ch \in Channels : Opening(ch) /\ todo[ch] # {} => Len(queue[ch]) < ChanCap

\* Every start ends, in a process that is up or in a panic, whatever else runs: no
\* program waits for another one to be there (get_channel accepts an empty
\* list), and the first round fits into the queue that nobody reads yet.
StartEnds == <>[](\A p \in Procs : Ready(p) \/ pc[p] = 0)

\* A call waits only while the registry has no instance a client can dial
\* (tonic_service_discovery.rs:136: an error does not end the worker).
WaitingCallIsServed ==
    \A ch \in Channels :
        []<>(waiting[ch] => Listed(ch[2]) \cap Urls = {})

\* Once every listed instance serves and goes on to, calls stop failing: after
\* restarts, at old or new addresses, a channel heals by itself.
CallsRecover ==
    \A ch \in Channels :
        <>[](\A a \in Listed(ch[2]) : Serves(a, ch[2])) => <>[][~ CallErr(ch)]_vars
=============================================================================
