------------------------------ MODULE Consumer ------------------------------
(***************************************************************************)
(* The consumer service (consumer/src/main.rs): processes of one Kafka     *)
(* group that take the chat messages from a topic of one partition, number *)
(* each with the receiver's Redis counter, hand it to the db service and   *)
(* to the pusher service in two tasks, and commit its offset.              *)
(*                                                                         *)
(* One process handles one message at a time, but the commit is            *)
(* asynchronous, a process may crash anywhere, the group may give the      *)
(* partition to another process while the first is still busy with a       *)
(* message, and each of the three calls may fail, in which case its        *)
(* request may still be executed later.                                    *)
(*                                                                         *)
(* Kafka, Redis and Postgres are modelled by what the code relies on: the  *)
(* topic and the committed offset, a counter per receiver, and the set of  *)
(* rows of a table whose key makes a second insert of a message a no-op.   *)
(***************************************************************************)
EXTENDS Naturals, Sequences, FiniteSets

CONSTANTS
    Receivers,       \* the user ids messages are addressed to
    Consumers,       \* the processes of the consumer group
    None,            \* no process owns the partition
    MaxLog,          \* bound: messages published
    MaxCrashes,      \* bound: crashes of consumer processes
    MaxRebalances,   \* bound: partition moved away from a live owner
    MaxFaults        \* bound: calls and commits that fail

ASSUME NoneAssumption == None \notin Consumers
ASSUME BoundsAssumption ==
    {MaxLog, MaxCrashes, MaxRebalances, MaxFaults} \subseteq Nat

VARIABLES
    log,        \* the topic: log[o] is the receiver of the message at offset o
    committed,  \* the group's committed offset: messages 1 .. committed
    assigned,   \* the process that owns the partition, or None
    pc,         \* where each process is: "down", "idle", "seq" or "join"
    pos,        \* the last message fetched, the one in hand unless "idle"
    num,        \* msg.seq of the message in hand
    dbTask,     \* the task to_db of the message in hand
    pushTask,   \* the task to_pusher of the message in hand
    commits,    \* asynchronous commits that the broker has not seen yet
    seq,        \* Redis: the counter "seq:<receiver>" of every receiver
    rows,       \* Postgres: the offsets whose message is in the table
    pushed,     \* history: the pushes the pusher executed, [off, seq]
    given,      \* history: the numbers handed to messages, [off, seq]
    errors,     \* history: the errors logged, [call, off]
    late,       \* requests whose caller has stopped waiting for them
    spent       \* how much of each bound is used

broker    == <<log, committed, assigned>>
process   == <<pc, pos, num, dbTask, pushTask, commits>>
stores    == <<seq, rows, pushed>>
histories == <<given, errors>>
vars == <<broker, process, stores, histories, late, spent>>

Call  == {"incr", "save", "push"}
Phase == {"down", "idle", "seq", "join"}
\* A spawned task: none yet, its call outstanding, or finished.
Task  == {"none", "run", "done"}

Request(call, o, n) == [call |-> call, off |-> o, seq |-> n]
Number(o, n)        == [off |-> o, seq |-> n]
Error(call, o)      == [call |-> call, off |-> o]

Logged(call, o) == Error(call, o) \in errors

\* The messages the consumer gave up because it got no number for them.
failed == {o \in DOMAIN log : Logged("incr", o)}

\* The abstract specification over the same topic, counters and histories.
Box == INSTANCE Inbox
-----------------------------------------------------------------------------
Init ==
    /\ log = <<>> /\ committed = 0 /\ assigned = None
    /\ pc = [c \in Consumers |-> "idle"]
    /\ pos = [c \in Consumers |-> 0]
    /\ num = [c \in Consumers |-> 0]
    /\ dbTask = [c \in Consumers |-> "none"]
    /\ pushTask = [c \in Consumers |-> "none"]
    /\ commits = [c \in Consumers |-> <<>>]
    /\ seq = [r \in Receivers |-> 0]
    /\ rows = {} /\ pushed = {} /\ given = {} /\ errors = {} /\ late = {}
    /\ spent = [crash |-> 0, rebalance |-> 0, fault |-> 0]

\* Redis: the answer to INCR is the counter it leaves behind.
Incr(r) == seq' = [seq EXCEPT ![r] = @ + 1]

\* Postgres: ON CONFLICT DO NOTHING, a message is one row however often it comes.
Insert(o) == rows' = rows \cup {o}

\* A failing call costs one fault; the server may execute the request later.
Fail(call, o, n) ==
    /\ spent.fault < MaxFaults
    /\ spent' = [spent EXCEPT !.fault = @ + 1]
    /\ late' = late \cup {Request(call, o, n)}
    /\ errors' = errors \cup {Error(call, o)}
-----------------------------------------------------------------------------
(* The topic and the group                                                 *)

\* The chat service appends a message for r (chat/src/main.rs, send_msg).
Publish(r) ==
    /\ Len(log) < MaxLog
    /\ log' = Append(log, r)
    /\ UNCHANGED <<committed, assigned, process, stores, histories, late, spent>>

\* Mutant of Give: reads on from the end of the topic (auto.offset.reset latest).
GiveLatest(c) ==
    /\ pc[c] = "idle"
    /\ assigned' = c
    /\ pos' = [pos EXCEPT ![c] = Len(log)]
    /\ UNCHANGED <<log, committed, pc, num, dbTask, pushTask, commits,
                   stores, histories, late>>

\* Mutant of Give: reads the topic from its start whatever was committed.
GiveEarliest(c) ==
    /\ pc[c] = "idle"
    /\ assigned' = c
    /\ pos' = [pos EXCEPT ![c] = 0]
    /\ UNCHANGED <<log, committed, pc, num, dbTask, pushTask, commits,
                   stores, histories, late>>

\* The partition is given to c, which reads on from the committed offset.
\* librdkafka completes an assignment inside recv(), hence the idle process.
Give(c) ==
    /\ pc[c] = "idle"
    /\ assigned' = c
    /\ pos' = [pos EXCEPT ![c] = committed]
    /\ UNCHANGED <<log, committed, pc, num, dbTask, pushTask, commits,
                   stores, histories, late>>

Assign(c) == assigned = None /\ Give(c) /\ UNCHANGED spent

\* The group moves the partition although its owner lives (a session or poll
\* timeout): an owner that is busy finishes its message as if nothing happened.
Rebalance(c) ==
    /\ assigned # None
    /\ spent.rebalance < MaxRebalances
    /\ spent' = [spent EXCEPT !.rebalance = @ + 1]
    /\ Give(c)

\* The broker stores a commit.  It checks the member, not the partition, so a
\* commit held back by a rebalance may even move the offset backwards.
CommitLands(c) ==
    /\ commits[c] # <<>>
    /\ committed' = Head(commits[c])
    /\ commits' = [commits EXCEPT ![c] = Tail(@)]
    /\ UNCHANGED <<log, assigned, pc, pos, num, dbTask, pushTask, stores,
                   histories, late, spent>>

\* The broker refuses a commit, or it is lost; nobody is told.
CommitRefused(c) ==
    /\ commits[c] # <<>>
    /\ commits' = [commits EXCEPT ![c] = Tail(@)]
    /\ IF assigned = c
         THEN /\ spent.fault < MaxFaults
              /\ spent' = [spent EXCEPT !.fault = @ + 1]
         ELSE UNCHANGED spent
    /\ UNCHANGED <<broker, pc, pos, num, dbTask, pushTask, stores, histories, late>>
-----------------------------------------------------------------------------
(* consume and handle_msg                                                  *)

\* self.consumer.recv(): only the owner of the partition gets messages.
Recv(c) ==
    /\ pc[c] = "idle" /\ assigned = c
    /\ pos[c] < Len(log)
    /\ pos' = [pos EXCEPT ![c] = @ + 1]
    /\ pc' = [pc EXCEPT ![c] = "seq"]
    /\ UNCHANGED <<broker, num, dbTask, pushTask, commits, stores, histories,
                   late, spent>>

\* Mutant of IncreaseSeq: reads the counter (get_seq) without increasing it.
IncreaseSeqGet(c) ==
    LET r == log[pos[c]]
    IN  /\ pc[c] = "seq"
        /\ num' = [num EXCEPT ![c] = seq[r]]
        /\ given' = given \cup {Number(pos[c], seq[r])}
        /\ dbTask' = [dbTask EXCEPT ![c] = "run"]
        /\ pushTask' = [pushTask EXCEPT ![c] = "run"]
        /\ pc' = [pc EXCEPT ![c] = "join"]
        /\ UNCHANGED <<broker, pos, commits, stores, errors, late, spent>>

\* increase_seq answers, and both tasks are spawned.
IncreaseSeq(c) ==
    LET r == log[pos[c]]
    IN  /\ pc[c] = "seq"
        /\ Incr(r)
        /\ num' = [num EXCEPT ![c] = seq[r] + 1]
        /\ given' = given \cup {Number(pos[c], seq[r] + 1)}
        /\ dbTask' = [dbTask EXCEPT ![c] = "run"]
        /\ pushTask' = [pushTask EXCEPT ![c] = "run"]
        /\ pc' = [pc EXCEPT ![c] = "join"]
        /\ UNCHANGED <<broker, pos, commits, rows, pushed, errors, late, spent>>

\* increase_seq fails: handle_msg returns, and the loop goes on to the next
\* message without a commit.
IncreaseSeqErr(c) ==
    /\ pc[c] = "seq"
    /\ Fail("incr", pos[c], num[c])
    /\ pc' = [pc EXCEPT ![c] = "idle"]
    /\ UNCHANGED <<broker, pos, num, dbTask, pushTask, commits, stores, given>>

\* save_message is executed, and the task to_db ends.
SendToDb(c) ==
    /\ dbTask[c] = "run"
    /\ Insert(pos[c])
    /\ dbTask' = [dbTask EXCEPT ![c] = "done"]
    /\ UNCHANGED <<broker, pc, pos, num, pushTask, commits, seq, pushed,
                   histories, late, spent>>

\* save_message fails: the task logs it and ends like a successful one.
SendToDbErr(c) ==
    /\ dbTask[c] = "run"
    /\ Fail("save", pos[c], num[c])
    /\ dbTask' = [dbTask EXCEPT ![c] = "done"]
    /\ UNCHANGED <<broker, pc, pos, num, pushTask, commits, stores, given>>

\* push_single_msg is executed, and the task to_pusher ends.
SendToPusher(c) ==
    /\ pushTask[c] = "run"
    /\ pushed' = pushed \cup {Number(pos[c], num[c])}
    /\ pushTask' = [pushTask EXCEPT ![c] = "done"]
    /\ UNCHANGED <<broker, pc, pos, num, dbTask, commits, seq, rows,
                   histories, late, spent>>

\* push_single_msg fails: the task logs it and ends like a successful one.
SendToPusherErr(c) ==
    /\ pushTask[c] = "run"
    /\ Fail("push", pos[c], num[c])
    /\ pushTask' = [pushTask EXCEPT ![c] = "done"]
    /\ UNCHANGED <<broker, pc, pos, num, dbTask, commits, stores, given>>

\* Mutant of Commit: select! instead of try_join!, one finished task is enough.
CommitEither(c) ==
    /\ pc[c] = "join" /\ "done" \in {dbTask[c], pushTask[c]}
    /\ commits' = [commits EXCEPT ![c] = Append(@, pos[c])]
    /\ pc' = [pc EXCEPT ![c] = "idle"]
    /\ dbTask' = [dbTask EXCEPT ![c] = "none"]
    /\ pushTask' = [pushTask EXCEPT ![c] = "none"]
    /\ num' = [num EXCEPT ![c] = 0]
    /\ UNCHANGED <<broker, pos, stores, histories, late, spent>>

\* Mutant of Commit: commits the offset after the message instead of its own.
CommitNext(c) ==
    /\ pc[c] = "join" /\ dbTask[c] = "done" /\ pushTask[c] = "done"
    /\ commits' = [commits EXCEPT ![c] = Append(@, pos[c] + 1)]
    /\ pc' = [pc EXCEPT ![c] = "idle"]
    /\ dbTask' = [dbTask EXCEPT ![c] = "none"]
    /\ pushTask' = [pushTask EXCEPT ![c] = "none"]
    /\ num' = [num EXCEPT ![c] = 0]
    /\ UNCHANGED <<broker, pos, stores, histories, late, spent>>

\* Mutant of Commit: seeks back to the committed offset after every message.
CommitAndSeek(c) ==
    /\ pc[c] = "join" /\ dbTask[c] = "done" /\ pushTask[c] = "done"
    /\ commits' = [commits EXCEPT ![c] = Append(@, pos[c])]
    /\ pos' = [pos EXCEPT ![c] = committed]
    /\ pc' = [pc EXCEPT ![c] = "idle"]
    /\ dbTask' = [dbTask EXCEPT ![c] = "none"]
    /\ pushTask' = [pushTask EXCEPT ![c] = "none"]
    /\ num' = [num EXCEPT ![c] = 0]
    /\ UNCHANGED <<broker, stores, histories, late, spent>>

\* try_join! returns once both tasks have ended, then commit_message(Async).
Commit(c) ==
    /\ pc[c] = "join" /\ dbTask[c] = "done" /\ pushTask[c] = "done"
    /\ commits' = [commits EXCEPT ![c] = Append(@, pos[c])]
    /\ pc' = [pc EXCEPT ![c] = "idle"]
    /\ dbTask' = [dbTask EXCEPT ![c] = "none"]
    /\ pushTask' = [pushTask EXCEPT ![c] = "none"]
    /\ num' = [num EXCEPT ![c] = 0]
    /\ UNCHANGED <<broker, pos, stores, histories, late, spent>>
-----------------------------------------------------------------------------
(* Crashes, and requests that outlive their caller                         *)

\* The calls c is waiting for.
Awaits(c, call) ==
    \/ call = "incr" /\ pc[c] = "seq"
    \/ call = "save" /\ dbTask[c] = "run"
    \/ call = "push" /\ pushTask[c] = "run"

\* The process dies, with its tasks and its unsent commits.
Crash(c) ==
    /\ pc[c] # "down"
    /\ spent.crash < MaxCrashes
    /\ spent' = [spent EXCEPT !.crash = @ + 1]
    /\ late' = late \cup {Request(call, pos[c], num[c]) :
                             call \in {k \in Call : Awaits(c, k)}}
    /\ assigned' = IF assigned = c THEN None ELSE assigned
    /\ pc' = [pc EXCEPT ![c] = "down"]
    /\ pos' = [pos EXCEPT ![c] = 0]
    /\ num' = [num EXCEPT ![c] = 0]
    /\ dbTask' = [dbTask EXCEPT ![c] = "none"]
    /\ pushTask' = [pushTask EXCEPT ![c] = "none"]
    /\ commits' = [commits EXCEPT ![c] = <<>>]
    /\ UNCHANGED <<log, committed, stores, histories>>

\* A new process joins the group (ConsumerService::new).
Restart(c) ==
    /\ pc[c] = "down"
    /\ pc' = [pc EXCEPT ![c] = "idle"]
    /\ UNCHANGED <<broker, pos, num, dbTask, pushTask, commits, stores,
                   histories, late, spent>>

\* A request whose caller crashed or gave up is executed after all.
Late(q) ==
    /\ late' = late \ {q}
    /\ \/ /\ q.call = "incr"
          /\ Incr(log[q.off])
          /\ UNCHANGED <<rows, pushed>>
       \/ /\ q.call = "save"
          /\ Insert(q.off)
          /\ UNCHANGED <<seq, pushed>>
       \/ /\ q.call = "push"
          /\ pushed' = pushed \cup {Number(q.off, q.seq)}
          /\ UNCHANGED <<seq, rows>>
    /\ UNCHANGED <<broker, process, histories, spent>>
-----------------------------------------------------------------------------
Handle(c) ==
    \/ Recv(c) \/ IncreaseSeq(c) \/ IncreaseSeqErr(c)
    \/ SendToDb(c) \/ SendToDbErr(c)
    \/ SendToPusher(c) \/ SendToPusherErr(c)
    \/ Commit(c)

Group(c) == Assign(c) \/ Rebalance(c) \/ CommitLands(c) \/ CommitRefused(c)

Next ==
    \/ \E r \in Receivers : Publish(r)
    \/ \E c \in Consumers : Group(c) \/ Handle(c) \/ Crash(c) \/ Restart(c)
    \/ \E q \in late : Late(q)

Spec == Init /\ [][Next]_vars

\* A process never stops by itself, its calls are answered one way or the
\* other, the group assigns a free partition, and a crashed process is started
\* again.  Nothing is assumed of commits, late requests or rebalances.
Fairness ==
    /\ WF_vars(\E c \in Consumers : Assign(c))
    /\ \A c \in Consumers :
          /\ WF_vars(Recv(c))
          /\ WF_vars(IncreaseSeq(c) \/ IncreaseSeqErr(c))
          /\ WF_vars(SendToDb(c) \/ SendToDbErr(c))
          /\ WF_vars(SendToPusher(c) \/ SendToPusherErr(c))
          /\ WF_vars(Commit(c))
          /\ WF_vars(Restart(c))

FairSpec == Spec /\ Fairness
-----------------------------------------------------------------------------
Offsets == DOMAIN log

TypeOK ==
    /\ log \in Seq(Receivers) /\ committed \in 0 .. Len(log)
    /\ assigned \in Consumers \cup {None}
    /\ pc \in [Consumers -> Phase]
    /\ pos \in [Consumers -> 0 .. Len(log)]
    /\ num \in [Consumers -> Nat]
    /\ dbTask \in [Consumers -> Task] /\ pushTask \in [Consumers -> Task]
    /\ commits \in [Consumers -> Seq(Offsets)]
    /\ seq \in [Receivers -> Nat]
    /\ rows \subseteq Offsets
    /\ pushed \subseteq [off: Offsets, seq: Nat]
    /\ given \subseteq [off: Offsets, seq: Nat]
    /\ errors \subseteq [call: Call, off: Offsets]
    /\ late \subseteq [call: Call, off: Offsets, seq: Nat]
    /\ spent \in [crash: 0 .. MaxCrashes, rebalance: 0 .. MaxRebalances,
                  fault: 0 .. MaxFaults]

\* Two different messages of one receiver never carry the same msg.seq, over
\* crashes, rebalances, lost answers and late increments.
SeqIdentifiesMessage == Box!SeqIdentifiesMessage

\* If a message was numbered then so was every earlier one of its receiver that
\* was not given up, with a smaller number: a redelivery, or an old owner that
\* numbers its message after the new owner, never breaks the order in which
\* messages are first numbered.
LaterNumbersAreLarger == Box!LaterNumbersAreLarger

Saved(o)  == o \in rows
Pushed(o) == \E p \in pushed : p.off = o

\* The message is dealt with: it is stored and pushed, or the log says which
\* of the calls failed.
Settled(o) ==
    \/ Logged("incr", o)
    \/ /\ Box!Numbered(o)
       /\ Saved(o) \/ Logged("save", o)
       /\ Pushed(o) \/ Logged("push", o)

\* The committed offset never passes a message that is lost without a trace:
\* manual commits (consumer/src/main.rs:29,96) survive crashes, rebalances and
\* commits that land late or out of turn.
CommittedIsSettled == \A o \in 1 .. committed : Settled(o)

\* The committed offset never moves backwards, over crashes, restarts, lost and
\* late commits, as long as the partition is never taken from a live process:
\* what a restarted process reads again is only what was not committed yet.
\* After a rebalance the commits of two processes interleave and it may
\* (consumer/src/main.rs:86-98, commit_message is asynchronous).
CommitsGoForward == [][spent.rebalance = 0 => committed' >= committed]_vars

\* A message is numbered at most once each time the partition is handed out, so
\* duplicates come from crashes and rebalances only, never from the loop itself.
NumberedOncePerAssignment ==
    \A o \in Offsets :
        Cardinality({g \in given : g.off = o}) <= 1 + spent.crash + spent.rebalance

\* Every published message is dealt with in the end.
EveryMessageSettled ==
    \A o \in 1 .. MaxLog : o \in Offsets ~> (o \in Offsets /\ Settled(o))

\* The consumer keeps the promise of Inbox.tla.
ImplementsInbox == Box!Spec
=============================================================================
