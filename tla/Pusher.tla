------------------------------- MODULE Pusher -------------------------------
(***************************************************************************)
(* The pusher service and the discovery of ws instances:                   *)
(*   - ws instances register with Consul, then start to serve              *)
(*     (ws/src/rpc.rs), and nobody deregisters them when they stop;        *)
(*   - the discovery worker compares the registry with the services it     *)
(*     knew and sends the changes over a bounded channel                   *)
(*     (utils/src/tonic_service_discovery.rs);                             *)
(*   - the receiver task connects to the inserted instances, one after the *)
(*     other, and keeps the list of connected ones (pusher/src/main.rs);   *)
(*   - push_single_msg calls every listed instance in a task of its own    *)
(*     and takes the instances whose call failed off the list.             *)
(***************************************************************************)
EXTENDS Naturals, Sequences, FiniteSets, Changes

CONSTANTS
    Instances,    \* addresses of ws instances
    Pushes,       \* calls of push_single_msg
    None,         \* the receiver task is not connecting to anything
    ChanCap,      \* capacity of the channel of changes (100 in the code)
    MaxStarts,    \* bound: starts of ws instances
    MaxStops,     \* bound: ws instances that stop
    MaxFaults,    \* bound: queries, connects and calls that fail without cause
    MaxLeaves,    \* bound: registrations deleted by an operator
    MaxCrashes    \* bound: restarts of the pusher

ASSUME CapAssumption == ChanCap \in Nat \ {0}
ASSUME NoneAssumption == None \notin Instances

VARIABLES
    inst,       \* each ws instance: "down", "registered" or "serving"
    registry,   \* Consul: the registered instances
    services,   \* the worker's last view of the registry
    found,      \* the view it is about to store once the changes are sent
    worker,     \* the worker: "sleep" or "send"
    inserts,    \* Insert changes it has still to send
    removes,    \* Remove changes it has still to send
    chan,       \* the channel of changes
    conn,       \* the instance the receiver task is connecting to, or None
    list,       \* ws_rpc_list: the connected instances
    push,       \* where each call of push_single_msg is
    cap,        \* the capacity of its channel of errors
    buf,        \* its channel of errors: instances whose call failed
    task,       \* its task for each instance
    must,       \* history: the list when the call began
    gone,       \* history: what has left the list since
    got,        \* history: <<p, s>> if instance s was handed the message of p
    spent       \* how much of each bound is used

cluster   == <<inst, registry>>
discovery == <<services, found, worker, inserts, removes>>
receiver  == <<chan, conn>>
calls     == <<push, cap, buf, task, must>>
vars == <<cluster, discovery, receiver, list, calls, gone, got, spent>>

PushState == {"new", "visit", "wait", "replied", "panicked", "lost"}
TaskState == {"none", "run", "err", "done"}
Active    == {p \in Pushes : push[p] \in {"visit", "wait"}}

Use(what, max) ==
    /\ spent[what] < max
    /\ spent' = [spent EXCEPT ![what] = @ + 1]

Init ==
    /\ inst = [s \in Instances |-> "down"] /\ registry = {}
    /\ services = {} /\ found = {} /\ worker = "sleep"
    /\ inserts = {} /\ removes = {}
    /\ chan = <<>> /\ conn = None /\ list = {}
    /\ push = [p \in Pushes |-> "new"]
    /\ cap = [p \in Pushes |-> 0]
    /\ buf = [p \in Pushes |-> <<>>]
    /\ task = [p \in Pushes |-> [s \in Instances |-> "none"]]
    /\ must = [p \in Pushes |-> {}] /\ gone = [p \in Pushes |-> {}]
    /\ got = {}
    /\ spent = [w \in {"start", "stop", "fault", "leave", "crash"} |-> 0]
-----------------------------------------------------------------------------
(* ws instances and the registry                                           *)

\* MsgRpcService::start registers first ...
Register(s) ==
    /\ inst[s] = "down" /\ Use("start", MaxStarts)
    /\ inst' = [inst EXCEPT ![s] = "registered"]
    /\ registry' = registry \cup {s}
    /\ UNCHANGED <<discovery, receiver, list, calls, gone, got>>

\* ... and listens afterwards.
Serve(s) ==
    /\ inst[s] = "registered"
    /\ inst' = [inst EXCEPT ![s] = "serving"]
    /\ UNCHANGED <<registry, discovery, receiver, list, calls, gone, got, spent>>

\* An instance stops; its registration stays.
Stop(s) ==
    /\ inst[s] # "down" /\ Use("stop", MaxStops)
    /\ inst' = [inst EXCEPT ![s] = "down"]
    /\ UNCHANGED <<registry, discovery, receiver, list, calls, gone, got>>

\* Someone deletes a registration in Consul; no code does.
Leave(s) ==
    /\ s \in registry /\ Use("leave", MaxLeaves)
    /\ registry' = registry \ {s}
    /\ UNCHANGED <<inst, discovery, receiver, list, calls, gone, got>>
-----------------------------------------------------------------------------
(* The discovery worker                                                    *)


\* The sleep is over: filter_by_name answers, change_set is computed.
Discover ==
    /\ worker = "sleep"
    /\ found' = registry
    /\ inserts' = registry \ services
    /\ removes' = services \ registry
    /\ worker' = "send"
    /\ UNCHANGED <<cluster, services, receiver, list, calls, gone, got, spent>>

\* The query fails: the worker logs it and sleeps again.
DiscoverErr ==
    /\ worker = "sleep" /\ Use("fault", MaxFaults)
    /\ UNCHANGED <<cluster, discovery, receiver, list, calls, gone, got>>

\* Mutant of SendInsert: an unbounded channel.
SendInsertUnbounded(s) ==
    /\ worker = "send" /\ s \in inserts
    /\ inserts' = inserts \ {s}
    /\ chan' = Append(chan, Change("insert", s))
    /\ UNCHANGED <<cluster, services, found, worker, removes, conn, list, calls,
                   gone, got, spent>>

\* Inserts go out before removes, each in any order, while there is room.
SendInsert(s) ==
    /\ worker = "send" /\ s \in inserts /\ Len(chan) < ChanCap
    /\ inserts' = inserts \ {s}
    /\ chan' = Append(chan, Change("insert", s))
    /\ UNCHANGED <<cluster, services, found, worker, removes, conn, list, calls,
                   gone, got, spent>>

SendRemove(s) ==
    /\ worker = "send" /\ inserts = {} /\ s \in removes /\ Len(chan) < ChanCap
    /\ removes' = removes \ {s}
    /\ chan' = Append(chan, Change("remove", s))
    /\ UNCHANGED <<cluster, services, found, worker, inserts, conn, list, calls,
                   gone, got, spent>>

\* Everything is sent: self.services = x.
StoreView ==
    /\ worker = "send" /\ inserts = {} /\ removes = {}
    /\ services' = found /\ worker' = "sleep"
    /\ UNCHANGED <<cluster, found, inserts, removes, receiver, list, calls, gone,
                   got, spent>>
-----------------------------------------------------------------------------
(* The receiver task                                                       *)

\* s leaves the list under the feet of the calls in progress.
Unlist(s) ==
    /\ list' = list \ {s}
    /\ gone' = [p \in Pushes |-> IF p \in Active THEN gone[p] \cup {s} ELSE gone[p]]

TakeInsert ==
    /\ conn = None /\ chan # <<>> /\ Head(chan).op = "insert"
    /\ conn' = Head(chan).addr /\ chan' = Tail(chan)
    /\ UNCHANGED <<cluster, discovery, list, calls, gone, got, spent>>

\* Mutant of TakeRemove: does not wait for the connect before it (a task each).
TakeRemoveEarly ==
    /\ chan # <<>> /\ Head(chan).op = "remove"
    /\ Unlist(Head(chan).addr) /\ chan' = Tail(chan)
    /\ UNCHANGED <<cluster, discovery, conn, calls, got, spent>>

TakeRemove ==
    /\ conn = None /\ chan # <<>> /\ Head(chan).op = "remove"
    /\ Unlist(Head(chan).addr) /\ chan' = Tail(chan)
    /\ UNCHANGED <<cluster, discovery, conn, calls, got, spent>>

Connect ==
    /\ conn # None /\ inst[conn] = "serving"
    /\ list' = list \cup {conn} /\ conn' = None
    /\ UNCHANGED <<cluster, discovery, chan, calls, gone, got, spent>>

\* The connect fails: it is logged, and the change is forgotten.
ConnectErr ==
    /\ conn # None
    /\ \/ inst[conn] # "serving" /\ UNCHANGED spent
       \/ inst[conn] = "serving" /\ Use("fault", MaxFaults)
    /\ conn' = None
    /\ UNCHANGED <<cluster, discovery, chan, list, calls, gone, got>>
-----------------------------------------------------------------------------
(* push_single_msg                                                         *)

\* mpsc::channel(ws_rpc.len()) panics on an empty list.
PushPanics(p) ==
    /\ push[p] = "new" /\ list = {}
    /\ push' = [push EXCEPT ![p] = "panicked"]
    /\ UNCHANGED <<cluster, discovery, receiver, list, cap, buf, task, must,
                   gone, got, spent>>

PushStart(p) ==
    /\ push[p] = "new" /\ list # {}
    /\ push' = [push EXCEPT ![p] = "visit"]
    /\ cap' = [cap EXCEPT ![p] = Cardinality(list)]
    /\ must' = [must EXCEPT ![p] = list]
    /\ UNCHANGED <<cluster, discovery, receiver, list, buf, task, gone, got, spent>>

\* The iteration meets s and spawns a task for it.
Visit(p, s) ==
    /\ push[p] = "visit" /\ s \in list /\ task[p][s] = "none"
    /\ task' = [task EXCEPT ![p][s] = "run"]
    /\ UNCHANGED <<cluster, discovery, receiver, list, push, cap, buf, must,
                   gone, got, spent>>

\* The iteration ends: it met all that were listed throughout.  drop(tx).
EndVisit(p) ==
    /\ push[p] = "visit"
    /\ \A s \in must[p] \cap list : task[p][s] # "none"
    /\ push' = [push EXCEPT ![p] = "wait"]
    /\ UNCHANGED <<cluster, discovery, receiver, list, cap, buf, task, must,
                   gone, got, spent>>

\* send_msg_to_user answers.
CallOk(p, s) ==
    /\ task[p][s] = "run" /\ inst[s] = "serving"
    /\ task' = [task EXCEPT ![p][s] = "done"]
    /\ got' = got \cup {<<p, s>>}
    /\ UNCHANGED <<cluster, discovery, receiver, list, push, cap, buf, must,
                   gone, spent>>

\* send_msg_to_user fails: the instance is gone, or the answer got lost.
CallErr(p, s) ==
    /\ task[p][s] = "run"
    /\ task' = [task EXCEPT ![p][s] = "err"]
    /\ \/ inst[s] # "serving" /\ UNCHANGED <<got, spent>>
       \/ /\ inst[s] = "serving" /\ Use("fault", MaxFaults)
          /\ got' \in {got, got \cup {<<p, s>>}}
    /\ UNCHANGED <<cluster, discovery, receiver, list, push, cap, buf, must, gone>>

\* The task sends its error while the channel has room, and ends.
Report(p, s) ==
    /\ task[p][s] = "err" /\ Len(buf[p]) < cap[p]
    /\ task' = [task EXCEPT ![p][s] = "done"]
    /\ buf' = [buf EXCEPT ![p] = Append(@, s)]
    /\ UNCHANGED <<cluster, discovery, receiver, list, push, cap, must, gone,
                   got, spent>>

\* Mutant of Collect: joins the tasks before it looks at their errors.
CollectAfterJoin(p) ==
    /\ push[p] = "wait" /\ buf[p] # <<>>
    /\ \A s \in Instances : task[p][s] \in {"none", "done"}
    /\ Unlist(Head(buf[p]))
    /\ buf' = [buf EXCEPT ![p] = Tail(@)]
    /\ UNCHANGED <<cluster, discovery, receiver, push, cap, task, must, got, spent>>

\* rx.recv() yields an error: the instance is taken off the list.
Collect(p) ==
    /\ push[p] = "wait" /\ buf[p] # <<>>
    /\ Unlist(Head(buf[p]))
    /\ buf' = [buf EXCEPT ![p] = Tail(@)]
    /\ UNCHANGED <<cluster, discovery, receiver, push, cap, task, must, got, spent>>

\* Mutant of Reply: takes what errors there are and does not wait for the tasks.
ReplyAtOnce(p) ==
    /\ push[p] = "wait" /\ buf[p] = <<>>
    /\ push' = [push EXCEPT ![p] = "replied"]
    /\ UNCHANGED <<cluster, discovery, receiver, list, cap, buf, task, must,
                   gone, got, spent>>

\* rx.recv() yields None: every task has ended and dropped its sender.
Reply(p) ==
    /\ push[p] = "wait" /\ buf[p] = <<>>
    /\ \A s \in Instances : task[p][s] \in {"none", "done"}
    /\ push' = [push EXCEPT ![p] = "replied"]
    /\ UNCHANGED <<cluster, discovery, receiver, list, cap, buf, task, must,
                   gone, got, spent>>

\* The pusher is restarted: PusherRpcService::new starts from nothing.
Restart ==
    /\ Use("crash", MaxCrashes)
    /\ services' = {} /\ found' = {} /\ worker' = "sleep"
    /\ inserts' = {} /\ removes' = {} /\ chan' = <<>> /\ conn' = None
    /\ list' = {}
    /\ push' = [p \in Pushes |-> IF p \in Active THEN "lost" ELSE push[p]]
    /\ task' = [p \in Pushes |-> [s \in Instances |-> "none"]]
    /\ buf' = [p \in Pushes |-> <<>>]
    /\ UNCHANGED <<cluster, cap, must, gone, got>>
-----------------------------------------------------------------------------
Cluster(s) == Register(s) \/ Serve(s) \/ Stop(s) \/ Leave(s)

Worker ==
    \/ Discover \/ DiscoverErr \/ StoreView
    \/ \E s \in Instances : SendInsert(s) \/ SendRemove(s)

Receiver == TakeInsert \/ TakeRemove \/ Connect \/ ConnectErr

PushStep(p) ==
    \/ PushPanics(p) \/ PushStart(p) \/ EndVisit(p) \/ Collect(p) \/ Reply(p)
    \/ \E s \in Instances :
          Visit(p, s) \/ CallOk(p, s) \/ CallErr(p, s) \/ Report(p, s)

Next ==
    \/ \E s \in Instances : Cluster(s)
    \/ Worker \/ Receiver \/ Restart
    \/ \E p \in Pushes : PushStep(p)

Spec == Init /\ [][Next]_vars

\* Tasks are scheduled, the registry and the instances answer one way or the
\* other, and an instance that registered goes on to serve.
Fairness ==
    /\ WF_vars(Discover)
    /\ WF_vars(StoreView)
    /\ WF_vars(\E s \in Instances : SendInsert(s) \/ SendRemove(s))
    /\ WF_vars(Receiver)
    /\ \A s \in Instances : WF_vars(Serve(s))
    /\ \A p \in Pushes :
          /\ WF_vars(EndVisit(p) \/ Collect(p) \/ Reply(p))
          /\ \A s \in Instances :
                /\ WF_vars(Visit(p, s))
                /\ WF_vars(CallOk(p, s) \/ CallErr(p, s))
                /\ WF_vars(Report(p, s))

FairSpec == Spec /\ Fairness
-----------------------------------------------------------------------------
TypeOK ==
    /\ inst \in [Instances -> {"down", "registered", "serving"}]
    /\ registry \subseteq Instances
    /\ services \subseteq Instances /\ found \subseteq Instances
    /\ worker \in {"sleep", "send"}
    /\ inserts \subseteq Instances /\ removes \subseteq Instances
    /\ chan \in Seq(ChangesOf(Instances))
    /\ Len(chan) <= ChanCap
    /\ conn \in Instances \cup {None}
    /\ list \subseteq Instances
    /\ push \in [Pushes -> PushState]
    /\ cap \in [Pushes -> Nat]
    /\ buf \in [Pushes -> Seq(Instances)]
    /\ \A p \in Pushes : Len(buf[p]) <= cap[p]
    /\ task \in [Pushes -> [Instances -> TaskState]]
    /\ must \in [Pushes -> SUBSET Instances]
    /\ gone \in [Pushes -> SUBSET Instances]
    /\ got \subseteq Pushes \X Instances

\* When the worker sleeps and no change is under way, the list holds only
\* instances of its last view: an Insert is never carried out after the Remove
\* that followed it (pusher/src/main.rs:31-46, one connect at a time).
RemovesTakeEffect ==
    worker = "sleep" /\ chan = <<>> /\ conn = None => list \subseteq services

\* A push that was answered reached every instance that was listed from its
\* beginning to its end (pusher/src/main.rs:115-134).
AnsweredPushReachedAll ==
    \A p \in Pushes : push[p] = "replied" =>
        \A s \in must[p] \ gone[p] : <<p, s>> \in got

\* A push that found an instance is answered: neither the channel of errors nor
\* the wait for its senders blocks it for ever (pusher/src/main.rs:112,128).
PushIsAnswered ==
    \A p \in Pushes : push[p] = "visit" ~> push[p] \in {"replied", "lost"}

=============================================================================
