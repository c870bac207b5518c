--------------------------- MODULE ConsumerProofs ---------------------------
(***************************************************************************)
(* Theorems about Consumer.tla, for any number of receivers and processes  *)
(* and any bounds.  The invariant is built in layers, each inductive       *)
(* relative to those before it:                                            *)
(*    TypeInv       types, and which task may run in which phase;          *)
(*    NumbersInv    the counter covers the numbers, numbers are unique;    *)
(*    ProgressInv   everything before the message in hand is settled;      *)
(*    the order of numbers and the refinement of Inbox follow;             *)
(*    CountInv      the numbers a message has and those it may still get.  *)
(***************************************************************************)
EXTENDS Consumer, SequenceTheorems, FiniteSetTheorems, TLAPS

PhaseOK ==
    \A c \in Consumers :
        /\ pc[c] \in {"seq", "join"} => pos[c] \in Offsets
        /\ pc[c] # "join" => dbTask[c] = "none" /\ pushTask[c] = "none"

TypeInv == TypeOK /\ PhaseOK

USE DEF Offsets, Call, Phase, Task, broker, process, stores, histories,
        Incr, Insert

-----------------------------------------------------------------------------
(* Types                                                                   *)

\* A budget that is not used up stays within its bound when one more is spent.
LEMMA BudgetStep ==
    ASSUME NEW m \in Nat, NEW k \in 0 .. m, k < m
    PROVE  k + 1 \in 0 .. m
  OBVIOUS

\* t is what the queue s becomes when its first element is taken.
Shifted(s, t) ==
    /\ Len(t) = Len(s) - 1
    /\ \A k \in 1 .. Len(t) : k + 1 \in 1 .. Len(s) /\ t[k] = s[k + 1]

LEMMA TailFacts ==
    ASSUME NEW S, NEW s \in Seq(S), s # <<>>
    PROVE  Shifted(s, Tail(s))
  <1>1. Len(s) \in Nat /\ Len(s) # 0
    BY EmptySeq, SMTT(20)
  <1>2. Tail(s) \in Seq(S) /\ Len(Tail(s)) = Len(s) - 1
    BY HeadTailProperties
  <1>3. ASSUME NEW k \in 1 .. Len(Tail(s))
        PROVE  k + 1 \in 1 .. Len(s) /\ Tail(s)[k] = s[k + 1]
    BY <1>1, <1>2, HeadTailProperties
  <1> QED BY <1>2, <1>3 DEF Shifted

LEMMA QueueTail ==
    ASSUME TypeOK, NEW c \in Consumers, commits[c] # <<>>
    PROVE  Shifted(commits[c], Tail(commits[c]))
  <1>1. commits[c] \in Seq(Offsets)
    BY DEF TypeOK
  <1> QED BY ONLY <1>1, commits[c] # <<>>, TailFacts, Zenon

\* The three budgets, and that their bounds are natural numbers.
LEMMA BudgetType ==
    ASSUME TypeOK
    PROVE  /\ MaxCrashes \in Nat /\ spent.crash \in 0 .. MaxCrashes
           /\ MaxRebalances \in Nat /\ spent.rebalance \in 0 .. MaxRebalances
           /\ MaxFaults \in Nat /\ spent.fault \in 0 .. MaxFaults
  <1>1. spent \in [crash: 0 .. MaxCrashes, rebalance: 0 .. MaxRebalances,
                   fault: 0 .. MaxFaults]
    BY DEF TypeOK
  <1> QED BY <1>1, BoundsAssumption

\* Publishing keeps the offsets there were and the receivers at them
\* (chat/src/main.rs:142 appends to the topic).
LEMMA PublishGrowsLog ==
    ASSUME TypeOK, NEW r \in Receivers, Publish(r)
    PROVE  /\ log' \in Seq(Receivers)
           /\ Len(log') = Len(log) + 1
           /\ Offsets' = Offsets \cup {Len(log) + 1}
           /\ Offsets = 1 .. Len(log)
           /\ \A o \in Offsets : o \in Offsets' /\ log'[o] = log[o]
  BY DEF TypeOK, Publish

\* A failing call keeps the types of the error log and of the late requests.
LEMMA FailType ==
    ASSUME TypeOK, NEW call \in Call, NEW o \in Offsets, NEW n \in Nat,
           Fail(call, o, n)
    PROVE  /\ errors' \subseteq [call: Call, off: Offsets]
           /\ late' \subseteq [call: Call, off: Offsets, seq: Nat]
           /\ spent' \in [crash: 0 .. MaxCrashes, rebalance: 0 .. MaxRebalances,
                          fault: 0 .. MaxFaults]
  <1>1. Request(call, o, n) \in [call: Call, off: Offsets, seq: Nat]
    BY DEF Request
  <1>2. Error(call, o) \in [call: Call, off: Offsets]
    BY DEF Error
  <1>3. spent.fault + 1 \in 0 .. MaxFaults
    <2>1. spent.fault < MaxFaults
      BY DEF Fail
    <2> QED BY <2>1, BudgetType, BudgetStep
  <1> QED BY <1>1, <1>2, <1>3 DEF TypeOK, Fail

LEMMA InitType == Init => TypeInv
  BY BoundsAssumption, NoneAssumption DEF Init, TypeInv, TypeOK, PhaseOK

LEMMA TypeStep == TypeInv /\ [Next]_vars => TypeInv'
  <1> SUFFICES ASSUME TypeInv, [Next]_vars PROVE TypeInv'
    OBVIOUS
  <1> USE DEF TypeInv
  <1>1. ASSUME NEW r \in Receivers, Publish(r) PROVE TypeInv'
    <2>1. TypeOK'
      <3>1. \A c \in Consumers : commits[c] \in Seq(Offsets')
        BY <1>1, PublishGrowsLog, SeqMonotonic DEF TypeOK
      <3>2. /\ pos' \in [Consumers -> 0 .. Len(log')]
            /\ committed' \in 0 .. Len(log')
        BY <1>1, PublishGrowsLog, SMTT(20) DEF TypeOK, Publish
      <3>3. commits' \in [Consumers -> Seq(Offsets')]
        BY <1>1, <3>1 DEF TypeOK, Publish
      <3>4. /\ rows' \subseteq Offsets'
            /\ pushed' \subseteq [off: Offsets', seq: Nat]
            /\ given' \subseteq [off: Offsets', seq: Nat]
            /\ errors' \subseteq [call: Call, off: Offsets']
            /\ late' \subseteq [call: Call, off: Offsets', seq: Nat]
        BY <1>1, PublishGrowsLog DEF TypeOK, Publish
      <3> QED BY <1>1, <3>2, <3>3, <3>4, PublishGrowsLog DEF TypeOK, Publish
    <2>2. PhaseOK'
      BY <1>1, PublishGrowsLog DEF PhaseOK, Publish
    <2> QED BY <2>1, <2>2
  <1>2. ASSUME NEW c \in Consumers, Group(c) PROVE TypeInv'
    <2>1. CASE Assign(c)
      BY <2>1 DEF Assign, Give, TypeOK, PhaseOK
    <2>2. CASE Rebalance(c)
      <3>1. spent.rebalance + 1 \in 0 .. MaxRebalances
        <4>1. spent.rebalance < MaxRebalances
          BY <2>2 DEF Rebalance
        <4> QED BY <4>1, BudgetType, BudgetStep
      <3> QED BY <2>2, <3>1 DEF Rebalance, Give, TypeOK, PhaseOK
    <2>3. CASE CommitLands(c)
      <3>1. Head(commits[c]) \in Offsets /\ Tail(commits[c]) \in Seq(Offsets)
        BY <2>3 DEF CommitLands, TypeOK
      <3>2. Offsets = 1 .. Len(log) /\ Len(log) \in Nat
        BY DEF TypeOK
      <3>3. committed' \in 0 .. Len(log)
        BY <2>3, <3>1, <3>2 DEF CommitLands
      <3>4. commits' \in [Consumers -> Seq(Offsets)]
        BY <2>3, <3>1 DEF CommitLands, TypeOK
      <3> QED BY <2>3, <3>3, <3>4 DEF CommitLands, TypeOK, PhaseOK
    <2>4. CASE CommitRefused(c)
      <3>1. Tail(commits[c]) \in Seq(Offsets)
        BY <2>4 DEF CommitRefused, TypeOK
      <3>2. spent' \in [crash: 0 .. MaxCrashes, rebalance: 0 .. MaxRebalances,
                        fault: 0 .. MaxFaults]
        <4>1. CASE assigned = c
          <5>1. spent.fault + 1 \in 0 .. MaxFaults
            <6>1. spent.fault < MaxFaults
              BY <2>4, <4>1 DEF CommitRefused
            <6> QED BY <6>1, BudgetType, BudgetStep
          <5> QED BY <2>4, <4>1, <5>1 DEF CommitRefused, TypeOK
        <4>2. CASE assigned # c
          BY <2>4, <4>2 DEF CommitRefused, TypeOK
        <4> QED BY <4>1, <4>2
      <3> QED BY <2>4, <3>1, <3>2 DEF CommitRefused, TypeOK, PhaseOK
    <2> QED BY <1>2, <2>1, <2>2, <2>3, <2>4 DEF Group
  <1>3. ASSUME NEW c \in Consumers, Handle(c) PROVE TypeInv'
    <2>1. CASE Recv(c)
      <3>1. /\ pos[c] + 1 \in Offsets
            /\ pos[c] + 1 \in 0 .. Len(log)
        BY <2>1 DEF Recv, TypeOK
      <3> QED BY <2>1, <3>1 DEF Recv, TypeOK, PhaseOK
    <2>2. CASE IncreaseSeq(c)
      <3> DEFINE n == seq[log[pos[c]]] + 1
      <3>1. pos[c] \in Offsets /\ log[pos[c]] \in Receivers /\ n \in Nat
        BY <2>2 DEF IncreaseSeq, TypeOK, PhaseOK
      <3>2. Number(pos[c], n) \in [off: Offsets, seq: Nat]
        BY <3>1 DEF Number
      <3>3. given' \subseteq [off: Offsets, seq: Nat]
        BY <2>2, <3>2 DEF IncreaseSeq, TypeOK
      <3>4. seq' \in [Receivers -> Nat] /\ num' \in [Consumers -> Nat]
        BY <2>2, <3>1 DEF IncreaseSeq, TypeOK
      <3> QED BY <2>2, <3>1, <3>3, <3>4 DEF IncreaseSeq, TypeOK, PhaseOK
    <2>3. CASE IncreaseSeqErr(c)
      <3>1. pos[c] \in Offsets /\ num[c] \in Nat
        BY <2>3 DEF IncreaseSeqErr, TypeOK, PhaseOK
      <3> QED BY <2>3, <3>1, FailType DEF IncreaseSeqErr, TypeOK, PhaseOK
    <2>4. CASE SendToDb(c)
      BY <2>4 DEF SendToDb, TypeOK, PhaseOK
    <2>5. CASE SendToDbErr(c)
      <3>1. pos[c] \in Offsets /\ num[c] \in Nat
        BY <2>5 DEF SendToDbErr, TypeOK, PhaseOK
      <3> QED BY <2>5, <3>1, FailType DEF SendToDbErr, TypeOK, PhaseOK
    <2>6. CASE SendToPusher(c)
      <3>1. Number(pos[c], num[c]) \in [off: Offsets, seq: Nat]
        BY <2>6 DEF SendToPusher, Number, TypeOK, PhaseOK
      <3> QED BY <2>6, <3>1 DEF SendToPusher, TypeOK, PhaseOK
    <2>7. CASE SendToPusherErr(c)
      <3>1. pos[c] \in Offsets /\ num[c] \in Nat
        BY <2>7 DEF SendToPusherErr, TypeOK, PhaseOK
      <3> QED BY <2>7, <3>1, FailType DEF SendToPusherErr, TypeOK, PhaseOK
    <2>8. CASE Commit(c)
      <3>1. Append(commits[c], pos[c]) \in Seq(Offsets)
        BY <2>8 DEF Commit, TypeOK, PhaseOK
      <3> QED BY <2>8, <3>1 DEF Commit, TypeOK, PhaseOK
    <2> QED BY <1>3, <2>1, <2>2, <2>3, <2>4, <2>5, <2>6, <2>7, <2>8 DEF Handle
  <1>4. ASSUME NEW c \in Consumers, Crash(c) PROVE TypeInv'
    <2>1. \A call \in Call : Awaits(c, call) => pos[c] \in Offsets
      BY DEF Awaits, TypeOK, PhaseOK
    <2>2. late' \subseteq [call: Call, off: Offsets, seq: Nat]
      BY <1>4, <2>1 DEF Crash, Request, TypeOK
    <2>3. spent' \in [crash: 0 .. MaxCrashes, rebalance: 0 .. MaxRebalances,
                      fault: 0 .. MaxFaults]
      <3>1. spent.crash + 1 \in 0 .. MaxCrashes
        <4>1. spent.crash < MaxCrashes
          BY <1>4 DEF Crash
        <4> QED BY <4>1, BudgetType, BudgetStep
      <3> QED BY <1>4, <3>1 DEF Crash, TypeOK
    <2>4. pos' \in [Consumers -> 0 .. Len(log)]
      BY <1>4 DEF Crash, TypeOK
    <2>5. <<>> \in Seq(Offsets)
      OBVIOUS
    <2>6. assigned' \in Consumers \cup {None}
      BY <1>4 DEF Crash, TypeOK
    <2> QED BY <1>4, <2>2, <2>3, <2>4, <2>5, <2>6 DEF Crash, TypeOK, PhaseOK
  <1>5. ASSUME NEW c \in Consumers, Restart(c) PROVE TypeInv'
    BY <1>5 DEF Restart, TypeOK, PhaseOK
  <1>6. ASSUME NEW q \in late, Late(q) PROVE TypeInv'
    <2>1. q.off \in Offsets /\ log[q.off] \in Receivers /\ q.seq \in Nat
      BY DEF TypeOK
    <2>2. Number(q.off, q.seq) \in [off: Offsets, seq: Nat]
      BY <2>1 DEF Number
    <2>3. seq' \in [Receivers -> Nat]
      BY <1>6, <2>1 DEF Late, TypeOK
    <2>4. rows' \subseteq Offsets /\ pushed' \subseteq [off: Offsets, seq: Nat]
      BY <1>6, <2>1, <2>2 DEF Late, TypeOK
    <2> QED BY <1>6, <2>3, <2>4 DEF Late, TypeOK, PhaseOK
  <1>7. CASE UNCHANGED vars
    BY <1>7 DEF vars, TypeOK, PhaseOK
  <1> QED BY <1>1, <1>2, <1>3, <1>4, <1>5, <1>6, <1>7 DEF Next

\* The variables keep their types, and a task runs only while its message is
\* in hand (consumer/src/main.rs:129-143).
THEOREM TypeCorrect == Spec => []TypeOK
  <1>1. TypeInv => TypeOK
    BY DEF TypeInv
  <1> QED BY InitType, TypeStep, <1>1, PTL DEF Spec

-----------------------------------------------------------------------------
(* Numbers                                                                 *)

NumbersInv == Box!CounterCoversNumbers /\ Box!SeqIdentifiesMessage

\* Every step but increase_seq and a late increment leaves the counters alone,
\* and only increase_seq hands out a number (cache/src/redis/mod.rs:40).
LEMMA NumbersStep == TypeInv /\ NumbersInv /\ [Next]_vars => NumbersInv'
  <1> SUFFICES ASSUME TypeInv, NumbersInv, [Next]_vars PROVE NumbersInv'
    OBVIOUS
  <1> USE DEF NumbersInv, Box!CounterCoversNumbers, Box!SeqIdentifiesMessage
  <1>0. \A g \in given : g.off \in Offsets /\ log[g.off] \in Receivers /\ g.seq \in Nat
    BY DEF TypeInv, TypeOK
  <1>1. ASSUME NEW r \in Receivers, Publish(r) PROVE NumbersInv'
    <2>1. \A g \in given : log'[g.off] = log[g.off]
      BY <1>0, <1>1, PublishGrowsLog DEF TypeInv
    <2>2. seq' = seq /\ given' = given
      BY <1>1 DEF Publish
    <2> QED BY <2>1, <2>2
  <1>2. ASSUME NEW c \in Consumers, IncreaseSeq(c) PROVE NumbersInv'
    <2> DEFINE r == log[pos[c]]
               n == Number(pos[c], seq[r] + 1)
    <2>1. pos[c] \in Offsets /\ r \in Receivers /\ seq[r] \in Nat
      BY <1>2 DEF IncreaseSeq, TypeInv, TypeOK, PhaseOK
    <2>2. n.off = pos[c] /\ n.seq = seq[r] + 1
      BY DEF Number
    <2>3. /\ log' = log
          /\ given' = given \cup {n}
          /\ seq'[r] = seq[r] + 1
          /\ \A x \in Receivers : x # r => seq'[x] = seq[x]
      BY <1>2, <2>1 DEF IncreaseSeq, TypeInv, TypeOK
    <2>4. \A g \in given : seq[log[g.off]] \in Nat
      BY <1>0 DEF TypeInv, TypeOK
    <2>5. \A g \in given' : g.seq <= seq'[log'[g.off]]
      <3>1. ASSUME NEW g \in given PROVE g.seq <= seq'[log[g.off]]
        <4>1. CASE log[g.off] = r
          BY <1>0, <2>1, <2>3, <2>4, <4>1
        <4>2. CASE log[g.off] # r
          BY <1>0, <2>3, <4>2
        <4> QED BY <4>1, <4>2
      <3> QED BY <2>1, <2>2, <2>3, <3>1
    <2>6. \A g \in given : log[g.off] = r => g.seq # n.seq
      BY <1>0, <2>1, <2>2
    <2> QED BY <2>1, <2>2, <2>3, <2>5, <2>6
  <1>3. ASSUME NEW q \in late, Late(q) PROVE NumbersInv'
    <2>1. \A x \in Receivers : seq[x] \in Nat /\ seq'[x] \in Nat /\ seq[x] <= seq'[x]
      <3>1. CASE seq' = seq
        BY <3>1 DEF TypeInv, TypeOK
      <3>2. CASE seq' = [seq EXCEPT ![log[q.off]] = @ + 1]
        BY <3>2 DEF TypeInv, TypeOK
      <3> QED BY <1>3, <3>1, <3>2 DEF Late
    <2>2. log' = log /\ given' = given
      BY <1>3 DEF Late
    <2>3. \A g \in given : seq[log[g.off]] <= seq'[log[g.off]]
                           /\ seq[log[g.off]] \in Nat /\ seq'[log[g.off]] \in Nat
      BY <1>0, <2>1
    <2>4. \A g \in given : g.seq <= seq'[log[g.off]]
      BY <1>0, <2>3
    <2> QED BY <2>2, <2>4
  <1>4. CASE UNCHANGED <<log, seq, given>>
    BY <1>4
  <1>5. ASSUME NEW c \in Consumers, Group(c) \/ Crash(c) \/ Restart(c)
        PROVE UNCHANGED <<log, seq, given>>
    BY <1>5 DEF Group, Assign, Rebalance, Give, CommitLands, CommitRefused,
                Crash, Restart
  <1>6. ASSUME NEW c \in Consumers, Handle(c), ~ IncreaseSeq(c)
        PROVE UNCHANGED <<log, seq, given>>
    BY <1>6 DEF Handle, Recv, IncreaseSeqErr, SendToDb, SendToDbErr,
                SendToPusher, SendToPusherErr, Commit
  <1>7. CASE UNCHANGED vars
    BY <1>7, <1>4 DEF vars
  <1> QED BY <1>1, <1>2, <1>3, <1>4, <1>5, <1>6, <1>7 DEF Next

\* Two messages of one receiver never carry the same number: the counter is
\* above every number it gave, for any number of consumers and crashes.
THEOREM NumbersAreUnique == Spec => []SeqIdentifiesMessage
  <1>1. Init => NumbersInv
    BY DEF Init, NumbersInv, Box!CounterCoversNumbers, Box!SeqIdentifiesMessage
  <1>2. NumbersInv => SeqIdentifiesMessage
    BY DEF NumbersInv, SeqIdentifiesMessage
  <1> QED BY InitType, TypeStep, NumbersStep, <1>1, <1>2, PTL DEF Spec
-----------------------------------------------------------------------------
(* Progress                                                                *)

\* What is in a commit under way is settled up to its offset.
CommitsSettled ==
    \A c \in Consumers : \A k \in 1 .. Len(commits[c]) :
        \A o \in 1 .. commits[c][k] : Settled(o)

\* Everything a process fetched since it got the partition is settled, but for
\* the message in hand.
PrefixSettled ==
    \A c \in Consumers : \A o \in 1 .. pos[c] :
        Settled(o) \/ (o = pos[c] /\ pc[c] \in {"seq", "join"})

\* A finished task has had its effect or has logged its error.
TasksTell ==
    \A c \in Consumers : pc[c] = "join" =>
        /\ Box!Numbered(pos[c])
        /\ dbTask[c] = "done" => Saved(pos[c]) \/ Logged("save", pos[c])
        /\ pushTask[c] = "done" => Pushed(pos[c]) \/ Logged("push", pos[c])

ProgressInv ==
    /\ CommittedIsSettled
    /\ CommitsSettled
    /\ PrefixSettled
    /\ TasksTell

\* No step takes a row, a push, a number or a log line back.
LEMMA NothingUndone ==
    TypeInv /\ [Next]_vars =>
        /\ rows \subseteq rows' /\ pushed \subseteq pushed'
        /\ given \subseteq given' /\ errors \subseteq errors'
  <1> SUFFICES ASSUME TypeInv, [Next]_vars
               PROVE  /\ rows \subseteq rows' /\ pushed \subseteq pushed'
                      /\ given \subseteq given' /\ errors \subseteq errors'
    OBVIOUS
  <1>1. ASSUME NEW r \in Receivers, Publish(r)
        PROVE  UNCHANGED <<rows, pushed, given, errors>>
    BY <1>1 DEF Publish
  <1>2. ASSUME NEW c \in Consumers, Group(c) \/ Crash(c) \/ Restart(c)
        PROVE  UNCHANGED <<rows, pushed, given, errors>>
    BY <1>2 DEF Group, Assign, Rebalance, Give, CommitLands, CommitRefused,
                Crash, Restart
  <1>3. ASSUME NEW c \in Consumers, Handle(c)
        PROVE  /\ rows \subseteq rows' /\ pushed \subseteq pushed'
               /\ given \subseteq given' /\ errors \subseteq errors'
    BY <1>3 DEF Handle, Recv, IncreaseSeq, IncreaseSeqErr, SendToDb, SendToDbErr,
                SendToPusher, SendToPusherErr, Commit, Fail
  <1>4. ASSUME NEW q \in late, Late(q)
        PROVE  /\ rows \subseteq rows' /\ pushed \subseteq pushed'
               /\ UNCHANGED <<given, errors>>
    BY <1>4 DEF Late
  <1>5. CASE UNCHANGED vars
    BY <1>5 DEF vars
  <1> QED BY <1>1, <1>2, <1>3, <1>4, <1>5 DEF Next

\* A message that is settled stays settled.
LEMMA SettledStays ==
    ASSUME TypeInv, [Next]_vars, NEW o
    PROVE  /\ Settled(o) => Settled(o)'
           /\ Box!Numbered(o) => Box!Numbered(o)'
           /\ Saved(o) => Saved(o)'
           /\ Pushed(o) => Pushed(o)'
           /\ \A call \in Call : Logged(call, o) => Logged(call, o)'
  BY NothingUndone DEF Settled, Saved, Pushed, Logged, Error, Box!Numbered

\* A message is settled when both of its tasks have ended.
LEMMA JoinSettles ==
    ASSUME ProgressInv, NEW c \in Consumers, Commit(c)
    PROVE  Settled(pos[c])
  BY DEF ProgressInv, TasksTell, Commit, Settled

LEMMA InitProgress == Init => ProgressInv
  BY DEF Init, ProgressInv, CommittedIsSettled, CommitsSettled, PrefixSettled, TasksTell

LEMMA ProgressStep == TypeInv /\ ProgressInv /\ [Next]_vars => ProgressInv'
  <1> SUFFICES ASSUME TypeInv, ProgressInv, [Next]_vars PROVE ProgressInv'
    OBVIOUS
  <1> USE DEF ProgressInv, CommittedIsSettled, CommitsSettled, PrefixSettled, TasksTell
  <1> HIDE DEF Settled
  <1>0. /\ \A o : Settled(o) => Settled(o)'
        /\ \A o : Box!Numbered(o) => Box!Numbered(o)'
        /\ \A o : Saved(o) => Saved(o)'
        /\ \A o : Pushed(o) => Pushed(o)'
        /\ \A o : Logged("save", o) => Logged("save", o)'
        /\ \A o : Logged("push", o) => Logged("push", o)'
    BY SettledStays
  \* Steps that neither fetch, finish, commit nor assign.
  <1>1. ASSUME UNCHANGED <<committed, pos, pc, commits, dbTask, pushTask>>
        PROVE  ProgressInv'
    BY <1>0, <1>1
  <1>2. ASSUME NEW r \in Receivers, Publish(r) PROVE ProgressInv'
    BY <1>1, <1>2 DEF Publish
  <1>3. ASSUME NEW c \in Consumers, Give(c),
               UNCHANGED <<committed, pc, dbTask, pushTask, commits>>
        PROVE  ProgressInv'
    <2>1. pc[c] = "idle" /\ pos' = [pos EXCEPT ![c] = committed]
      BY <1>3 DEF Give
    <2>2. PrefixSettled'
      BY <1>0, <1>3, <2>1 DEF TypeInv, TypeOK
    <2>3. TasksTell'
      BY <1>0, <1>3, <2>1 DEF TypeInv, TypeOK
    <2> QED BY <1>0, <1>3, <2>2, <2>3
  <1>4. ASSUME NEW c \in Consumers, CommitLands(c) PROVE ProgressInv'
    <2>1. TypeOK /\ commits[c] \in Seq(Offsets) /\ commits[c] # <<>>
      BY <1>4 DEF CommitLands, TypeInv, TypeOK
    <2>2. /\ committed' = commits[c][1] /\ 1 \in 1 .. Len(commits[c])
          /\ commits' = [commits EXCEPT ![c] = Tail(@)]
          /\ UNCHANGED <<pos, pc, dbTask, pushTask>>
      BY <1>4, <2>1 DEF CommitLands
    <2>3. Shifted(commits[c], Tail(commits[c]))
      BY <2>1, QueueTail
    <2>4. CommitsSettled'
      <3>1. ASSUME NEW d \in Consumers, NEW k \in 1 .. Len(commits'[d])
            PROVE  \E j \in 1 .. Len(commits[d]) : commits'[d][k] = commits[d][j]
        <4>1. CASE d = c
          <5>1. commits'[d] = Tail(commits[c])
            BY <2>2, <4>1 DEF TypeInv, TypeOK
          <5>2. k + 1 \in 1 .. Len(commits[c]) /\ commits'[d][k] = commits[c][k + 1]
            BY <2>3, <5>1 DEF Shifted
          <5> QED BY <4>1, <5>2
        <4>2. CASE d # c
          <5>1. commits'[d] = commits[d]
            BY <2>2, <4>2 DEF TypeInv, TypeOK
          <5> QED BY <5>1
        <4> QED BY <4>1, <4>2
      <3> QED BY <1>0, <3>1, SMTT(20)
    <2>5. CommittedIsSettled'
      BY <1>0, <2>2
    <2> QED BY <1>0, <2>2, <2>4, <2>5
  <1>5. ASSUME NEW c \in Consumers, CommitRefused(c) PROVE ProgressInv'
    <2>1. TypeOK /\ commits[c] \in Seq(Offsets) /\ commits[c] # <<>>
      BY <1>5 DEF CommitRefused, TypeInv, TypeOK
    <2>2. /\ commits' = [commits EXCEPT ![c] = Tail(@)]
          /\ UNCHANGED <<committed, pos, pc, dbTask, pushTask>>
      BY <1>5 DEF CommitRefused
    <2>3. Shifted(commits[c], Tail(commits[c]))
      BY <2>1, QueueTail
    <2>4. CommitsSettled'
      <3>1. ASSUME NEW d \in Consumers, NEW k \in 1 .. Len(commits'[d])
            PROVE  \E j \in 1 .. Len(commits[d]) : commits'[d][k] = commits[d][j]
        <4>1. CASE d = c
          <5>1. commits'[d] = Tail(commits[c])
            BY <2>2, <4>1 DEF TypeInv, TypeOK
          <5>2. k + 1 \in 1 .. Len(commits[c]) /\ commits'[d][k] = commits[c][k + 1]
            BY <2>3, <5>1 DEF Shifted
          <5> QED BY <4>1, <5>2
        <4>2. CASE d # c
          <5>1. commits'[d] = commits[d]
            BY <2>2, <4>2 DEF TypeInv, TypeOK
          <5> QED BY <5>1
        <4> QED BY <4>1, <4>2
      <3> QED BY <1>0, <3>1, SMTT(20)
    <2> QED BY <1>0, <2>2, <2>4
  <1>6. ASSUME NEW c \in Consumers, Recv(c) PROVE ProgressInv'
    <2>1. /\ pc[c] = "idle" /\ pos[c] \in Nat
          /\ pos' = [pos EXCEPT ![c] = pos[c] + 1]
          /\ pc' = [pc EXCEPT ![c] = "seq"]
          /\ UNCHANGED <<committed, commits, dbTask, pushTask>>
      BY <1>6 DEF Recv, TypeInv, TypeOK
    <2>2. \A o \in 1 .. pos[c] : Settled(o)
      BY <2>1
    <2>3. pos'[c] = pos[c] + 1 /\ pc'[c] = "seq"
      BY <2>1 DEF TypeInv, TypeOK
    <2>4. \A d \in Consumers : d # c => pos'[d] = pos[d] /\ pc'[d] = pc[d]
      BY <2>1 DEF TypeInv, TypeOK
    <2>5. \A o \in 1 .. pos'[c] : Settled(o) \/ o = pos'[c]
      BY <2>1, <2>2, <2>3
    <2>6. PrefixSettled'
      BY <1>0, <2>3, <2>4, <2>5
    <2>7. TasksTell'
      BY <1>0, <2>1 DEF TypeInv, TypeOK
    <2> QED BY <1>0, <2>1, <2>6, <2>7
  <1>7. ASSUME NEW c \in Consumers, IncreaseSeq(c) PROVE ProgressInv'
    <2>1. /\ pc[c] = "seq" /\ pc' = [pc EXCEPT ![c] = "join"]
          /\ dbTask' = [dbTask EXCEPT ![c] = "run"]
          /\ pushTask' = [pushTask EXCEPT ![c] = "run"]
          /\ UNCHANGED <<committed, commits, pos>>
      BY <1>7 DEF IncreaseSeq
    <2>2. Box!Numbered(pos[c])'
      <3> DEFINE g == Number(pos[c], seq[log[pos[c]]] + 1)
      <3>1. g \in given' /\ pos' = pos
        BY <1>7 DEF IncreaseSeq
      <3>2. g.off = pos[c]
        BY DEF Number
      <3> QED BY <3>1, <3>2 DEF Box!Numbered
    <2>3. PrefixSettled'
      BY <1>0, <2>1 DEF TypeInv, TypeOK
    <2>4. TasksTell'
      BY <1>0, <2>1, <2>2 DEF TypeInv, TypeOK
    <2> QED BY <1>0, <2>1, <2>3, <2>4
  <1>8. ASSUME NEW c \in Consumers, IncreaseSeqErr(c) PROVE ProgressInv'
    <2>1. /\ pc' = [pc EXCEPT ![c] = "idle"]
          /\ UNCHANGED <<committed, commits, pos, dbTask, pushTask>>
      BY <1>8 DEF IncreaseSeqErr
    <2>2. Logged("incr", pos[c])'
      BY <1>8 DEF IncreaseSeqErr, Fail, Logged
    <2>3. Settled(pos[c])'
      BY <2>1, <2>2 DEF Settled
    <2>4. PrefixSettled'
      BY <1>0, <2>1, <2>3 DEF TypeInv, TypeOK
    <2>5. TasksTell'
      BY <1>0, <2>1 DEF TypeInv, TypeOK
    <2> QED BY <1>0, <2>1, <2>4, <2>5
  <1>9. ASSUME NEW c \in Consumers,
               \/ SendToDb(c) \/ SendToDbErr(c)
               \/ SendToPusher(c) \/ SendToPusherErr(c)
        PROVE  ProgressInv'
    <2>1. UNCHANGED <<committed, pos, pc, commits>>
      BY <1>9 DEF SendToDb, SendToDbErr, SendToPusher, SendToPusherErr
    <2>2. CASE SendToDb(c) \/ SendToDbErr(c)
      <3>1. /\ dbTask' = [dbTask EXCEPT ![c] = "done"] /\ pushTask' = pushTask
            /\ Saved(pos[c])' \/ Logged("save", pos[c])'
        BY <2>1, <2>2 DEF SendToDb, SendToDbErr, Fail, Saved, Logged
      <3>2. TasksTell'
        BY <1>0, <2>1, <3>1 DEF TypeInv, TypeOK
      <3> QED BY <1>0, <2>1, <3>2
    <2>3. CASE SendToPusher(c) \/ SendToPusherErr(c)
      <3>0. Number(pos[c], num[c]).off = pos[c]
        BY DEF Number
      <3>1. /\ pushTask' = [pushTask EXCEPT ![c] = "done"] /\ dbTask' = dbTask
            /\ Pushed(pos[c])' \/ Logged("push", pos[c])'
        <4>1. CASE SendToPusher(c)
          BY <2>1, <3>0, <4>1 DEF SendToPusher, Pushed
        <4>2. CASE SendToPusherErr(c)
          BY <2>1, <4>2 DEF SendToPusherErr, Fail, Logged
        <4> QED BY <2>3, <4>1, <4>2
      <3>2. TasksTell'
        BY <1>0, <2>1, <3>1 DEF TypeInv, TypeOK
      <3> QED BY <1>0, <2>1, <3>2
    <2> QED BY <1>9, <2>2, <2>3
  <1>10. ASSUME NEW c \in Consumers, Commit(c) PROVE ProgressInv'
    <2>1. /\ pc[c] = "join" /\ pc' = [pc EXCEPT ![c] = "idle"]
          /\ commits' = [commits EXCEPT ![c] = Append(@, pos[c])]
          /\ dbTask' = [dbTask EXCEPT ![c] = "none"]
          /\ pushTask' = [pushTask EXCEPT ![c] = "none"]
          /\ UNCHANGED <<committed, pos>>
      BY <1>10 DEF Commit
    <2>2. Settled(pos[c]) /\ pos[c] \in Offsets
      BY <1>10, <2>1, JoinSettles DEF TypeInv, PhaseOK
    <2>3. \A o \in 1 .. pos[c] : Settled(o)
      BY <2>2
    <2>4. commits[c] \in Seq(Offsets)
      BY DEF TypeInv, TypeOK
    <2>5. /\ Len(Append(commits[c], pos[c])) = Len(commits[c]) + 1
          /\ Append(commits[c], pos[c])[Len(commits[c]) + 1] = pos[c]
          /\ Len(commits[c]) \in Nat
          /\ \A k \in 1 .. Len(commits[c]) :
                Append(commits[c], pos[c])[k] = commits[c][k]
      BY <2>2, <2>4, AppendProperties
    <2>6. \A k \in 1 .. Len(commits'[c]) : \A o \in 1 .. commits'[c][k] : Settled(o)
      <3>1. commits'[c] = Append(commits[c], pos[c])
        BY <2>1 DEF TypeInv, TypeOK
      <3> QED BY <2>3, <2>5, <3>1
    <2>7. CommitsSettled'
      BY <1>0, <2>1, <2>6 DEF TypeInv, TypeOK
    <2>8. PrefixSettled'
      BY <1>0, <2>1, <2>3 DEF TypeInv, TypeOK
    <2>9. TasksTell'
      BY <1>0, <2>1 DEF TypeInv, TypeOK
    <2> QED BY <1>0, <2>1, <2>7, <2>8, <2>9
  <1>11. ASSUME NEW c \in Consumers, Crash(c) PROVE ProgressInv'
    <2>1. /\ pc' = [pc EXCEPT ![c] = "down"] /\ pos' = [pos EXCEPT ![c] = 0]
          /\ dbTask' = [dbTask EXCEPT ![c] = "none"]
          /\ pushTask' = [pushTask EXCEPT ![c] = "none"]
          /\ commits' = [commits EXCEPT ![c] = <<>>]
          /\ committed' = committed
      BY <1>11 DEF Crash
    <2>2. CommitsSettled'
      BY <1>0, <2>1 DEF TypeInv, TypeOK
    <2>3. PrefixSettled'
      BY <1>0, <2>1 DEF TypeInv, TypeOK
    <2>4. TasksTell'
      BY <1>0, <2>1 DEF TypeInv, TypeOK
    <2> QED BY <1>0, <2>1, <2>2, <2>3, <2>4
  <1>12. ASSUME NEW c \in Consumers, Restart(c) PROVE ProgressInv'
    <2>1. /\ pc[c] = "down" /\ pc' = [pc EXCEPT ![c] = "idle"]
          /\ UNCHANGED <<committed, pos, dbTask, pushTask, commits>>
      BY <1>12 DEF Restart
    <2>2. PrefixSettled'
      BY <1>0, <2>1 DEF TypeInv, TypeOK
    <2>3. TasksTell'
      BY <1>0, <2>1 DEF TypeInv, TypeOK
    <2> QED BY <1>0, <2>1, <2>2, <2>3
  <1>13. ASSUME NEW q \in late, Late(q) PROVE ProgressInv'
    BY <1>1, <1>13 DEF Late
  <1>14. CASE UNCHANGED vars
    BY <1>1, <1>14 DEF vars
  <1>15. ASSUME NEW c \in Consumers, Group(c) PROVE ProgressInv'
    <2>1. Give(c) => UNCHANGED <<committed, pc, dbTask, pushTask, commits>>
      BY DEF Give
    <2> QED BY <1>3, <1>4, <1>5, <1>15, <2>1 DEF Group, Assign, Rebalance
  <1>16. ASSUME NEW c \in Consumers, Handle(c) PROVE ProgressInv'
    BY <1>6, <1>7, <1>8, <1>9, <1>10, <1>16 DEF Handle
  <1> QED BY <1>2, <1>11, <1>12, <1>13, <1>14, <1>15, <1>16 DEF Next

\* The committed offset passes only messages that are stored and pushed or whose
\* failure is in the log, for any pattern of crashes, rebalances and commits
\* (consumer/src/main.rs:86-103,129-146).
THEOREM CommitsAreSettled == Spec => []CommittedIsSettled
  <1>1. ProgressInv => CommittedIsSettled
    BY DEF ProgressInv
  <1> QED BY InitType, TypeStep, InitProgress, ProgressStep, <1>1, PTL DEF Spec

-----------------------------------------------------------------------------
(* Refinement of Inbox, and the order of the numbers                       *)

\* The messages given up are known from the error log alone.
LEMMA FailedKept ==
    ASSUME TypeInv, errors' = errors
    PROVE  /\ UNCHANGED log => failed' = failed
           /\ \A r \in Receivers : Publish(r) => failed' = failed
  <1>1. \A o : Logged("incr", o) => o \in Offsets
    BY DEF TypeInv, TypeOK, Logged, Error
  <1>2. \A o : Logged("incr", o)' <=> Logged("incr", o)
    BY DEF Logged
  <1>3. ASSUME NEW r \in Receivers, Publish(r) PROVE failed' = failed
    <2>1. Offsets \subseteq Offsets'
      BY <1>3, PublishGrowsLog DEF TypeInv
    <2> QED BY <1>1, <1>2, <2>1 DEF failed
  <1> QED BY <1>2, <1>3 DEF failed

\* An error other than that of increase_seq gives up no message.
LEMMA FailedByIncr ==
    ASSUME TypeInv, UNCHANGED log, NEW call \in Call, NEW o \in Offsets,
           errors' = errors \cup {Error(call, o)}
    PROVE  failed' = IF call = "incr" THEN failed \cup {o} ELSE failed
  <1>1. \A k, p : Error(k, p) = Error(call, o) <=> k = call /\ p = o
    BY DEF Error
  <1>2. \A p : Logged("incr", p)' <=> Logged("incr", p) \/ (call = "incr" /\ p = o)
    BY <1>1 DEF Logged
  <1> QED BY <1>2 DEF failed

\* Each step of the consumer is a step of Inbox or leaves it alone.
LEMMA RefinementStep ==
    TypeInv /\ ProgressInv /\ [Next]_vars => [Box!Next]_(Box!vars)
  <1> SUFFICES ASSUME TypeInv, ProgressInv, [Next]_vars
               PROVE  [Box!Next]_(Box!vars)
    OBVIOUS
  <1> USE DEF Box!vars
  <1>1. ASSUME UNCHANGED <<log, seq, given, errors>> PROVE UNCHANGED Box!vars
    BY <1>1, FailedKept
  <1>2. ASSUME NEW r \in Receivers, Publish(r) PROVE [Box!Next]_(Box!vars)
    <2>1. log' = Append(log, r) /\ UNCHANGED <<seq, given, errors>>
      BY <1>2 DEF Publish
    <2>2. failed' = failed
      BY <1>2, <2>1, FailedKept
    <2> QED BY <2>1, <2>2 DEF Box!Next, Box!Publish
  <1>3. ASSUME NEW c \in Consumers, Group(c) \/ Crash(c) \/ Restart(c)
        PROVE  UNCHANGED <<log, seq, given, errors>>
    BY <1>3 DEF Group, Assign, Rebalance, Give, CommitLands, CommitRefused,
                Crash, Restart
  <1>4. ASSUME NEW c \in Consumers, Handle(c) PROVE [Box!Next]_(Box!vars)
    <2>1. CASE Recv(c) \/ SendToDb(c) \/ SendToPusher(c) \/ Commit(c)
      <3>1. UNCHANGED <<log, seq, given, errors>>
        BY <2>1 DEF Recv, SendToDb, SendToPusher, Commit
      <3> QED BY <1>1, <3>1
    <2>2. CASE IncreaseSeq(c)
      <3> DEFINE o == pos[c]
      <3>1. o \in DOMAIN log /\ pc[c] = "seq"
        BY <2>2 DEF IncreaseSeq, TypeInv, PhaseOK
      <3>2. /\ seq' = [seq EXCEPT ![log[o]] = @ + 1]
            /\ given' = given \cup {[off |-> o, seq |-> seq[log[o]] + 1]}
            /\ log' = log /\ errors' = errors
        BY <2>2 DEF IncreaseSeq, Number
      <3>3. failed' = failed
        BY <3>2, FailedKept
      <3>4. \A i \in 1 .. o - 1 : Settled(i) /\ i \in DOMAIN log
        <4>1. o \in 1 .. Len(log) /\ Len(log) \in Nat
          BY <3>1 DEF TypeInv, TypeOK
        <4>2. \A i \in 1 .. o - 1 : i \in 1 .. pos[c] /\ i # pos[c] /\ i \in 1 .. Len(log)
          BY <4>1
        <4> QED BY <4>1, <4>2 DEF ProgressInv, PrefixSettled, TypeInv, TypeOK
      <3>5. Box!PriorsSettled(o)
        BY <3>4 DEF Box!PriorsSettled, Settled, failed
      <3>6. Box!Number(o)
        BY <3>1, <3>2, <3>3, <3>5 DEF Box!Number
      <3> QED BY <3>1, <3>6 DEF Box!Next
    <2>3. CASE IncreaseSeqErr(c)
      <3>1. /\ pos[c] \in DOMAIN log
            /\ errors' = errors \cup {Error("incr", pos[c])}
            /\ UNCHANGED <<log, seq, given>>
        BY <2>3 DEF IncreaseSeqErr, Fail, TypeInv, PhaseOK
      <3>2. failed' = failed \cup {pos[c]}
        BY <3>1, FailedByIncr
      <3> QED BY <3>1, <3>2 DEF Box!Next, Box!GiveUp
    <2>4. CASE SendToDbErr(c)
      <3>1. /\ pos[c] \in DOMAIN log
            /\ errors' = errors \cup {Error("save", pos[c])}
            /\ UNCHANGED <<log, seq, given>>
        BY <2>4 DEF SendToDbErr, Fail, TypeInv, TypeOK, PhaseOK
      <3>2. failed' = failed
        BY <3>1, FailedByIncr
      <3> QED BY <3>1, <3>2
    <2>5. CASE SendToPusherErr(c)
      <3>1. /\ pos[c] \in DOMAIN log
            /\ errors' = errors \cup {Error("push", pos[c])}
            /\ UNCHANGED <<log, seq, given>>
        BY <2>5 DEF SendToPusherErr, Fail, TypeInv, TypeOK, PhaseOK
      <3>2. failed' = failed
        BY <3>1, FailedByIncr
      <3> QED BY <3>1, <3>2
    <2> QED BY <1>4, <2>1, <2>2, <2>3, <2>4, <2>5 DEF Handle
  <1>5. ASSUME NEW q \in late, Late(q) PROVE [Box!Next]_(Box!vars)
    <2>1. q.off \in DOMAIN log /\ log[q.off] \in Receivers
      BY DEF TypeInv, TypeOK
    <2>2. UNCHANGED <<log, given, errors>>
      BY <1>5 DEF Late
    <2>3. failed' = failed
      BY <2>2, FailedKept
    <2>4. seq' = seq \/ seq' = [seq EXCEPT ![log[q.off]] = @ + 1]
      BY <1>5 DEF Late
    <2> QED BY <2>1, <2>2, <2>3, <2>4 DEF Box!Next, Box!Waste
  <1>6. CASE UNCHANGED vars
    BY <1>1, <1>6 DEF vars
  <1> QED BY <1>1, <1>2, <1>3, <1>4, <1>5, <1>6 DEF Next

\* The consumer group, with everything that can go wrong in it, keeps the
\* promise of Inbox.tla (consumer/src/main.rs:86-148).
THEOREM ConsumerImplementsInbox == Spec => ImplementsInbox
  <1>1. Init => Box!Init
    BY DEF Init, Box!Init, failed, Logged
  <1> QED BY InitType, TypeStep, InitProgress, ProgressStep, RefinementStep,
             <1>1, PTL DEF Spec, ImplementsInbox, Box!Spec

\* The order of first numbers is kept by each step of Inbox, given that no
\* number is above the counter.
LEMMA OrderStep ==
    /\ TypeInv /\ NumbersInv /\ Box!LaterNumbersAreLarger
    /\ [Box!Next]_(Box!vars)
    => Box!LaterNumbersAreLarger'
  <1> SUFFICES ASSUME TypeInv, NumbersInv, Box!LaterNumbersAreLarger,
                      [Box!Next]_(Box!vars)
               PROVE  Box!LaterNumbersAreLarger'
    OBVIOUS
  <1>0. \A g \in given : g.off \in 1 .. Len(log) /\ g.seq \in Nat
    BY DEF TypeInv, TypeOK
  <1>1. ASSUME NEW r \in Receivers, Box!Publish(r)
        PROVE  Box!LaterNumbersAreLarger'
    <2>1. /\ \A o \in 1 .. Len(log) : log'[o] = log[o]
          /\ Len(log) \in Nat
          /\ UNCHANGED <<given, failed>>
      BY <1>1 DEF Box!Publish, TypeInv, TypeOK
    <2> QED BY <1>0, <2>1 DEF Box!LaterNumbersAreLarger
  <1>2. ASSUME NEW o \in DOMAIN log, Box!Number(o)
        PROVE  Box!LaterNumbersAreLarger'
    <2> DEFINE n == [off |-> o, seq |-> seq[log[o]] + 1]
    <2>1. given' = given \cup {n} /\ UNCHANGED <<log, failed>>
      BY <1>2 DEF Box!Number
    <2>2. ASSUME NEW i \in 1 .. o - 1, log[i] = log[o], i \notin failed
          PROVE  \E g \in given : g.off = i /\ g.seq < n.seq
      <3>0. Box!Numbered(i)
        BY <1>2, <2>2 DEF Box!Number, Box!PriorsSettled
      <3>1. PICK g \in given : g.off = i
        BY <3>0 DEF Box!Numbered
      <3>2. g.seq <= seq[log[o]] /\ seq[log[o]] \in Nat
        BY <2>2, <3>1 DEF NumbersInv, Box!CounterCoversNumbers, TypeInv, TypeOK
      <3> QED BY <1>0, <3>1, <3>2
    <2> QED BY <2>1, <2>2 DEF Box!LaterNumbersAreLarger
  <1>3. ASSUME NEW o \in DOMAIN log, Box!GiveUp(o)
        PROVE  Box!LaterNumbersAreLarger'
    BY <1>3 DEF Box!GiveUp, Box!LaterNumbersAreLarger
  <1>4. ASSUME NEW r \in Receivers, Box!Waste(r)
        PROVE  Box!LaterNumbersAreLarger'
    BY <1>4 DEF Box!Waste, Box!LaterNumbersAreLarger
  <1>5. CASE UNCHANGED Box!vars
    BY <1>5 DEF Box!vars, Box!LaterNumbersAreLarger
  <1> QED BY <1>1, <1>2, <1>3, <1>4, <1>5 DEF Box!Next

\* The first number of a message is below every number of the later messages of
\* its receiver, unless the message was given up.
THEOREM NumbersFollowTheTopic == Spec => []LaterNumbersAreLarger
  <1>1. Init => NumbersInv /\ Box!LaterNumbersAreLarger
    BY DEF Init, NumbersInv, Box!CounterCoversNumbers, Box!SeqIdentifiesMessage,
           Box!LaterNumbersAreLarger
  <1>2. LaterNumbersAreLarger <=> Box!LaterNumbersAreLarger
    BY DEF LaterNumbersAreLarger
  <1> QED BY InitType, TypeStep, InitProgress, ProgressStep, NumbersStep,
             RefinementStep, OrderStep, <1>1, <1>2, PTL DEF Spec
-----------------------------------------------------------------------------
(* How often a message is numbered                                         *)
(*                                                                         *)
(* The invariant adds to the numbers a message has those that it may still *)
(* get: one for each process that has it in hand, and one if the partition *)
(* is to be read from before it.                                           *)

\* The numbers of o, the processes that will number o, and whether o will be
\* received (again) before the partition is handed out anew.
NumbersOf(o) == {g \in given : g.off = o}
InHand       == {c \in Consumers : pc[c] = "seq"}
InHandOf(o)  == {c \in InHand : pos[c] = o}
Ahead(o)     == IF assigned = None \/ pos[assigned] < o THEN 1 ELSE 0

Turns == 1 + spent.crash + spent.rebalance

CountInv ==
    /\ IsFiniteSet(given) /\ IsFiniteSet(InHand)
    /\ \A o \in Nat :
          Cardinality(NumbersOf(o)) + Cardinality(InHandOf(o)) + Ahead(o) <= Turns

LEMMA Counts ==
    ASSUME IsFiniteSet(given), IsFiniteSet(InHand), NEW o
    PROVE  /\ IsFiniteSet(NumbersOf(o)) /\ Cardinality(NumbersOf(o)) \in Nat
           /\ IsFiniteSet(InHandOf(o)) /\ Cardinality(InHandOf(o)) \in Nat
  <1>1. NumbersOf(o) \subseteq given /\ InHandOf(o) \subseteq InHand
    BY DEF NumbersOf, InHandOf
  <1> QED BY <1>1, FS_Subset, FS_CardinalityType

LEMMA TurnsType == TypeInv => Turns \in Nat /\ spent.crash \in Nat /\ spent.rebalance \in Nat
  BY BoundsAssumption DEF TypeInv, TypeOK, Turns

LEMMA CountInit == Init => CountInv
  <1> SUFFICES ASSUME Init PROVE CountInv
    OBVIOUS
  <1>1. given = {} /\ InHand = {} /\ Turns = 1
    BY DEF Init, InHand, Turns
  <1>2. \A o : NumbersOf(o) = {} /\ InHandOf(o) = {} /\ Ahead(o) \in {0, 1}
    BY <1>1 DEF NumbersOf, InHandOf, Ahead
  <1>3. Cardinality({}) = 0 /\ IsFiniteSet({})
    BY FS_EmptySet
  <1>4. \A o : Cardinality(NumbersOf(o)) = 0 /\ Cardinality(InHandOf(o)) = 0
    BY <1>2, <1>3
  <1>5. ASSUME NEW o \in Nat
        PROVE  Cardinality(NumbersOf(o)) + Cardinality(InHandOf(o)) + Ahead(o) <= Turns
    <2>1. Cardinality(NumbersOf(o)) = 0 /\ Cardinality(InHandOf(o)) = 0
          /\ (Ahead(o) = 0 \/ Ahead(o) = 1)
      BY <1>2, <1>4
    <2> QED BY <1>1, <2>1
  <1> QED BY <1>1, <1>3, <1>5 DEF CountInv

LEMMA CountArith ==
    ASSUME NEW n \in Nat, NEW h \in Nat, NEW k \in Nat, NEW a \in Nat, NEW b \in Nat,
           NEW t \in Nat, NEW u \in Nat, k <= h, n + h + a <= t, b <= a + (u - t)
    PROVE  n + k + b <= u
  OBVIOUS

\* The steps that neither number nor receive: what a message may still get grows
\* by one only if a turn is added.
LEMMA CountKept ==
    ASSUME TypeInv, CountInv, given' = given, InHand' \subseteq InHand,
           \A c \in InHand' : pos'[c] = pos[c],
           Turns' \in Nat,
           \/ Turns' = Turns /\ \A o \in Nat : Ahead(o)' <= Ahead(o)
           \/ Turns' = Turns + 1
    PROVE  CountInv'
  <1>1. IsFiniteSet(given)' /\ IsFiniteSet(InHand)'
    BY FS_Subset DEF CountInv
  <1>2. ASSUME NEW o \in Nat
        PROVE  (Cardinality(NumbersOf(o)) + Cardinality(InHandOf(o)) + Ahead(o) <= Turns)'
    <2>1. NumbersOf(o)' = NumbersOf(o) /\ InHandOf(o)' \subseteq InHandOf(o)
      BY DEF NumbersOf, InHandOf
    <2>2. /\ Cardinality(NumbersOf(o)) \in Nat
          /\ IsFiniteSet(InHandOf(o)) /\ Cardinality(InHandOf(o)) \in Nat
      BY Counts DEF CountInv
    <2>3. /\ Cardinality(InHandOf(o)') <= Cardinality(InHandOf(o))
          /\ Cardinality(InHandOf(o)') \in Nat
      BY <2>1, <2>2, FS_Subset, FS_CardinalityType
    <2>4. Cardinality(NumbersOf(o)) + Cardinality(InHandOf(o)) + Ahead(o) <= Turns
      BY DEF CountInv
    <2>5. (Ahead(o) = 0 \/ Ahead(o) = 1) /\ (Ahead(o)' = 0 \/ Ahead(o)' = 1)
      BY DEF Ahead
    <2>6. Ahead(o)' <= Ahead(o) + (Turns' - Turns) /\ Turns \in Nat
      BY <2>5, TurnsType
    <2>7. Cardinality(NumbersOf(o)) + Cardinality(InHandOf(o)') + Ahead(o)' <= Turns'
      BY <2>2, <2>3, <2>4, <2>5, <2>6, CountArith
    <2> QED BY <2>1, <2>7
  <1> QED BY <1>1, <1>2 DEF CountInv

LEMMA CountRecv == ASSUME TypeInv, CountInv, NEW c \in Consumers, Recv(c) PROVE CountInv'
  <1>1. /\ pc[c] = "idle" /\ assigned = c /\ c # None /\ pos[c] \in Nat
        /\ pos' = [pos EXCEPT ![c] = @ + 1] /\ pc' = [pc EXCEPT ![c] = "seq"]
        /\ UNCHANGED <<assigned, given, spent>>
    BY NoneAssumption DEF Recv, TypeInv, TypeOK
  <1>2. InHand' = InHand \cup {c} /\ c \notin InHand
    BY <1>1 DEF InHand, TypeInv, TypeOK
  <1>3. IsFiniteSet(given)' /\ IsFiniteSet(InHand)'
    BY <1>1, <1>2, FS_AddElement DEF CountInv
  <1>4. \A d \in InHand : pos'[d] = pos[d]
    BY <1>1, <1>2 DEF InHand, TypeInv, TypeOK
  <1>5. pos'[c] = pos[c] + 1
    BY <1>1 DEF TypeInv, TypeOK
  <1>6. ASSUME NEW o \in Nat
        PROVE  (Cardinality(NumbersOf(o)) + Cardinality(InHandOf(o)) + Ahead(o) <= Turns)'
    <2>1. NumbersOf(o)' = NumbersOf(o) /\ Turns' = Turns
      BY <1>1 DEF NumbersOf, Turns
    <2>2. /\ Cardinality(NumbersOf(o)) \in Nat
          /\ IsFiniteSet(InHandOf(o)) /\ Cardinality(InHandOf(o)) \in Nat
          /\ Cardinality(NumbersOf(o)) + Cardinality(InHandOf(o)) + Ahead(o) <= Turns
      BY Counts DEF CountInv
    <2>3. Turns \in Nat
      BY TurnsType
    <2>4. CASE o = pos[c] + 1
      <3>1. InHandOf(o)' = InHandOf(o) \cup {c} /\ c \notin InHandOf(o)
        BY <1>2, <1>4, <1>5, <2>4 DEF InHandOf
      <3>2. Cardinality(InHandOf(o)') = Cardinality(InHandOf(o)) + 1
        BY <2>2, <3>1, FS_AddElement
      <3>3. Ahead(o) = 1 /\ Ahead(o)' = 0
        BY <1>1, <1>5, <2>4 DEF Ahead
      <3> QED BY <2>1, <2>2, <2>3, <3>2, <3>3
    <2>5. CASE o # pos[c] + 1
      <3>1. InHandOf(o)' = InHandOf(o)
        BY <1>2, <1>4, <1>5, <2>5 DEF InHandOf
      <3>2. Ahead(o)' = Ahead(o)
        BY <1>1, <1>5, <2>5 DEF Ahead
      <3> QED BY <2>1, <2>2, <3>1, <3>2
    <2> QED BY <2>4, <2>5
  <1> QED BY <1>3, <1>6 DEF CountInv

LEMMA CountIncr ==
    ASSUME TypeInv, CountInv, NEW c \in Consumers, IncreaseSeq(c) PROVE CountInv'
  <1> DEFINE g == Number(pos[c], seq[log[pos[c]]] + 1)
  <1>1. /\ pc[c] = "seq" /\ pc' = [pc EXCEPT ![c] = "join"]
        /\ given' = given \cup {g} /\ UNCHANGED <<assigned, pos, spent>>
    BY DEF IncreaseSeq
  <1>2. g.off = pos[c]
    BY DEF Number
  <1> HIDE DEF g
  <1>3. InHand' = InHand \ {c} /\ c \in InHand
    BY <1>1 DEF InHand, TypeInv, TypeOK
  <1>4. IsFiniteSet(given)' /\ IsFiniteSet(InHand)'
    BY <1>1, <1>3, FS_AddElement, FS_RemoveElement DEF CountInv
  <1>5. ASSUME NEW o \in Nat
        PROVE  (Cardinality(NumbersOf(o)) + Cardinality(InHandOf(o)) + Ahead(o) <= Turns)'
    <2>1. Ahead(o)' = Ahead(o) /\ Turns' = Turns
      BY <1>1 DEF Ahead, Turns
    <2>2. /\ IsFiniteSet(NumbersOf(o)) /\ Cardinality(NumbersOf(o)) \in Nat
          /\ IsFiniteSet(InHandOf(o)) /\ Cardinality(InHandOf(o)) \in Nat
          /\ Cardinality(NumbersOf(o)) + Cardinality(InHandOf(o)) + Ahead(o) <= Turns
      BY Counts DEF CountInv
    <2>3. Turns \in Nat /\ (Ahead(o) = 0 \/ Ahead(o) = 1)
      BY TurnsType DEF Ahead
    <2>4. CASE o = pos[c]
      <3>1. NumbersOf(o)' = NumbersOf(o) \cup {g}
        BY <1>1, <1>2, <2>4 DEF NumbersOf
      <3>2. InHandOf(o)' = InHandOf(o) \ {c} /\ c \in InHandOf(o)
        BY <1>1, <1>3, <2>4 DEF InHandOf
      <3>3. \/ Cardinality(NumbersOf(o)') = Cardinality(NumbersOf(o))
            \/ Cardinality(NumbersOf(o)') = Cardinality(NumbersOf(o)) + 1
        BY <2>2, <3>1, FS_AddElement
      <3>4. Cardinality(InHandOf(o)') = Cardinality(InHandOf(o)) - 1
        BY <2>2, <3>2, FS_RemoveElement
      <3> QED BY <2>1, <2>2, <2>3, <3>3, <3>4
    <2>5. CASE o # pos[c]
      <3>1. NumbersOf(o)' = NumbersOf(o)
        BY <1>1, <1>2, <2>5 DEF NumbersOf
      <3>2. InHandOf(o)' = InHandOf(o)
        BY <1>1, <1>3, <2>5 DEF InHandOf
      <3> QED BY <2>1, <2>2, <3>1, <3>2
    <2> QED BY <2>4, <2>5
  <1> QED BY <1>4, <1>5 DEF CountInv

LEMMA CountStep == TypeInv /\ CountInv /\ [Next]_vars => CountInv'
  <1> SUFFICES ASSUME TypeInv, CountInv, [Next]_vars PROVE CountInv'
    OBVIOUS
  <1>0. Turns \in Nat /\ spent.crash \in Nat /\ spent.rebalance \in Nat
        /\ TypeInv' /\ Turns' \in Nat
    <2>1. TypeInv'
      BY TypeStep
    <2>2. spent' \in [crash: 0 .. MaxCrashes, rebalance: 0 .. MaxRebalances,
                       fault: 0 .. MaxFaults]
      BY <2>1 DEF TypeInv, TypeOK
    <2>3. Turns' \in Nat
      BY <2>2, BoundsAssumption DEF Turns
    <2> QED BY <2>1, <2>3, TurnsType
  <1>1. \A o \in Nat : (Ahead(o) = 0 \/ Ahead(o) = 1) /\ (Ahead(o)' = 0 \/ Ahead(o)' = 1)
    BY DEF Ahead
  <1>2. ASSUME UNCHANGED <<given, pos, assigned>>, InHand' \subseteq InHand,
               spent'.crash = spent.crash, spent'.rebalance = spent.rebalance
        PROVE  CountInv'
    <2>1. Turns' = Turns /\ \A o \in Nat : Ahead(o)' = Ahead(o)
      BY <1>2 DEF Turns, Ahead
    <2>2. \A o \in Nat : Ahead(o)' <= Ahead(o)
      BY <1>1, <2>1
    <2> QED BY <1>0, <1>2, <2>1, <2>2, CountKept
  <1>3. ASSUME NEW c \in Consumers, Give(c)
        PROVE  /\ given' = given /\ InHand' = InHand
               /\ \A d \in InHand' : pos'[d] = pos[d]
    BY <1>3 DEF Give, InHand, TypeInv, TypeOK
  <1>4. ASSUME NEW c \in Consumers, Assign(c) PROVE CountInv'
    <2>1. assigned = None /\ Give(c) /\ spent' = spent
      BY <1>4 DEF Assign
    <2>2. Turns' = Turns /\ \A o \in Nat : Ahead(o) = 1
      BY <2>1 DEF Turns, Ahead
    <2>3. \A o \in Nat : Ahead(o)' <= Ahead(o)
      BY <1>1, <2>2
    <2> QED BY <1>0, <1>3, <2>1, <2>2, <2>3, CountKept
  <1>5. ASSUME NEW c \in Consumers, Rebalance(c) PROVE CountInv'
    <2>1. Give(c) /\ spent'.crash = spent.crash
          /\ spent'.rebalance = spent.rebalance + 1
      BY <1>5 DEF Rebalance, TypeInv, TypeOK
    <2>2. Turns' = Turns + 1
      BY <1>0, <2>1 DEF Turns
    <2> QED BY <1>0, <1>3, <2>1, <2>2, CountKept
  <1>6. ASSUME NEW c \in Consumers, Crash(c) PROVE CountInv'
    <2>1. /\ given' = given /\ pc' = [pc EXCEPT ![c] = "down"]
          /\ pos' = [pos EXCEPT ![c] = 0]
          /\ spent'.crash = spent.crash + 1 /\ spent'.rebalance = spent.rebalance
      BY <1>6 DEF Crash, TypeInv, TypeOK
    <2>2. Turns' = Turns + 1
      BY <1>0, <2>1 DEF Turns
    <2>3. InHand' \subseteq InHand /\ \A d \in InHand' : pos'[d] = pos[d]
      BY <2>1 DEF InHand, TypeInv, TypeOK
    <2> QED BY <1>0, <2>1, <2>2, <2>3, CountKept
  <1>7. ASSUME NEW c \in Consumers,
               \/ CommitLands(c) \/ CommitRefused(c) \/ IncreaseSeqErr(c)
               \/ SendToDb(c) \/ SendToDbErr(c) \/ SendToPusher(c) \/ SendToPusherErr(c)
               \/ Commit(c) \/ Restart(c)
        PROVE  CountInv'
    <2>1. UNCHANGED <<given, pos, assigned>>
      BY <1>7 DEF CommitLands, CommitRefused, IncreaseSeqErr, SendToDb, SendToDbErr,
                  SendToPusher, SendToPusherErr, Commit, Restart
    <2>2. spent'.crash = spent.crash /\ spent'.rebalance = spent.rebalance
      BY <1>7 DEF CommitLands, CommitRefused, IncreaseSeqErr, SendToDb, SendToDbErr,
                  SendToPusher, SendToPusherErr, Commit, Restart, Fail, TypeInv, TypeOK
    <2>3. pc' = pc \/ \E p \in {"idle", "down"} : pc' = [pc EXCEPT ![c] = p]
      BY <1>7 DEF CommitLands, CommitRefused, IncreaseSeqErr, SendToDb, SendToDbErr,
                  SendToPusher, SendToPusherErr, Commit, Restart
    <2>4. InHand' \subseteq InHand
      BY <2>3 DEF InHand, TypeInv, TypeOK
    <2> QED BY <1>2, <2>1, <2>2, <2>4
  <1>8. ASSUME NEW r \in Receivers, Publish(r) PROVE CountInv'
    BY <1>2, <1>8 DEF Publish, InHand
  <1>9. ASSUME NEW q \in late, Late(q) PROVE CountInv'
    BY <1>2, <1>9 DEF Late, InHand
  <1>10. CASE UNCHANGED vars
    BY <1>2, <1>10 DEF vars, InHand
  <1> QED BY <1>4, <1>5, <1>6, <1>7, <1>8, <1>9, <1>10, CountRecv, CountIncr
          DEF Next, Group, Handle

\* A message is numbered at most once each time the partition is handed out:
\* only crashes and rebalances make duplicates (consumer/src/main.rs:86-103).
THEOREM NumberedOncePerTurn == Spec => []NumberedOncePerAssignment
  <1>1. TypeInv /\ CountInv => NumberedOncePerAssignment
    <2> SUFFICES ASSUME TypeInv, CountInv, NEW o \in Offsets
                 PROVE  Cardinality({g \in given : g.off = o}) <= Turns
      BY DEF NumberedOncePerAssignment, Turns
    <2>1. o \in Nat
      BY DEF TypeInv, TypeOK
    <2>2. /\ Cardinality(NumbersOf(o)) \in Nat /\ Cardinality(InHandOf(o)) \in Nat
          /\ Cardinality(NumbersOf(o)) + Cardinality(InHandOf(o)) + Ahead(o) <= Turns
      BY <2>1, Counts DEF CountInv
    <2>3. Turns \in Nat /\ (Ahead(o) = 0 \/ Ahead(o) = 1)
      BY TurnsType DEF Ahead
    <2>4. Cardinality(NumbersOf(o)) <= Turns
      BY <2>2, <2>3
    <2> QED BY <2>4 DEF NumbersOf
  <1> QED BY <1>1, InitType, TypeStep, CountInit, CountStep, PTL DEF Spec

-----------------------------------------------------------------------------
(* The committed offset moves forward                                      *)

\* What the owner of the partition has committed without the broker knowing
\* it yet lies, in order, between the committed offset and its position.
InOrder(c) ==
    /\ committed <= pos[c]
    /\ \A k \in 1 .. Len(commits[c]) :
          /\ committed <= commits[c][k] /\ commits[c][k] <= pos[c]
          /\ \A l \in k .. Len(commits[c]) : commits[c][k] <= commits[c][l]

\* A process without the partition has never had it, or is a new process.
Untouched(c) == commits[c] = <<>> /\ pc[c] \in {"idle", "down"}

\* Until the first rebalance only the owner has a message or a commit in hand.
ForwardInv ==
    spent.rebalance = 0 =>
        \A c \in Consumers : IF c = assigned THEN InOrder(c) ELSE Untouched(c)

\* Positions, commits and the committed offset are numbers.
LEMMA OffsetTypes ==
    ASSUME TypeInv
    PROVE  /\ committed \in Nat
           /\ \A c \in Consumers :
                 /\ pos[c] \in Nat /\ commits[c] \in Seq(Offsets)
                 /\ Len(commits[c]) \in Nat
                 /\ \A k \in 1 .. Len(commits[c]) : commits[c][k] \in Nat
  <1>1. Len(log) \in Nat /\ Offsets = 1 .. Len(log)
    BY DEF TypeInv, TypeOK
  <1>2. committed \in Nat /\ \A c \in Consumers : pos[c] \in Nat
    BY <1>1 DEF TypeInv, TypeOK
  <1>3. ASSUME NEW c \in Consumers
        PROVE  /\ commits[c] \in Seq(Offsets) /\ Len(commits[c]) \in Nat
               /\ \A k \in 1 .. Len(commits[c]) : commits[c][k] \in Nat
    <2>1. commits[c] \in Seq(Offsets)
      BY DEF TypeInv, TypeOK
    <2> QED BY <1>1, <2>1, LenProperties, ElementOfSeq
  <1> QED BY <1>2, <1>3

\* The commit that lands is the oldest of the owner's; what is left is in order
\* after it, and so it is when the commit is refused.
LEMMA FirstLands ==
    ASSUME TypeInv, NEW c \in Consumers, InOrder(c), commits[c] # <<>>,
           commits' = [commits EXCEPT ![c] = Tail(@)], pos' = pos,
           committed' = committed \/ committed' = Head(commits[c])
    PROVE  InOrder(c)' /\ committed' >= committed
  <1>1. Shifted(commits[c], Tail(commits[c])) /\ commits'[c] = Tail(commits[c])
    BY QueueTail DEF TypeInv, TypeOK
  <1>2. /\ commits[c] \in Seq(Offsets) /\ Len(commits[c]) \in Nat /\ pos[c] \in Nat
        /\ committed \in Nat /\ \A k \in 1 .. Len(commits[c]) : commits[c][k] \in Nat
    BY OffsetTypes
  <1>3. Head(commits[c]) = commits[c][1] /\ 1 \in 1 .. Len(commits[c])
    BY <1>2
  <1> DEFINE s == commits[c]
             t == commits'[c]
  <1>4. /\ Len(t) = Len(s) - 1
        /\ \A k \in 1 .. Len(t) : k + 1 \in 1 .. Len(s) /\ t[k] = s[k + 1]
    BY <1>1 DEF Shifted
  <1>5. /\ committed <= pos[c]
        /\ \A k \in 1 .. Len(s) :
              /\ committed <= s[k] /\ s[k] <= pos[c]
              /\ \A l \in k .. Len(s) : s[k] <= s[l]
    BY DEF InOrder
  <1>6. committed' \in Nat /\ committed' >= committed /\ committed' <= pos[c]
    BY <1>2, <1>3, <1>5
  <1> HIDE DEF s, t
  <1>7. ASSUME NEW k \in 1 .. Len(t)
        PROVE  /\ committed' <= t[k] /\ t[k] <= pos[c]
               /\ \A l \in k .. Len(t) : t[k] <= t[l]
    <2>1. k + 1 \in 1 .. Len(s) /\ t[k] = s[k + 1]
      BY <1>4
    <2>2. s[1] <= s[k + 1]
      BY <1>2, <1>3, <1>5, <2>1 DEF s
    <2>3. committed' <= t[k]
      BY <1>3, <1>5, <2>1, <2>2 DEF s
    <2>4. ASSUME NEW l \in k .. Len(t) PROVE t[k] <= t[l]
      <3>1. l \in 1 .. Len(t) /\ l + 1 \in k + 1 .. Len(s)
        BY <1>2, <1>4 DEF s
      <3> QED BY <1>4, <1>5, <2>1, <3>1
    <2> QED BY <1>5, <2>1, <2>3, <2>4
  <1> QED BY <1>6, <1>7 DEF InOrder, t

LEMMA ForwardInit == Init => ForwardInv
  BY NoneAssumption DEF Init, ForwardInv, InOrder, Untouched

LEMMA ForwardStep ==
    TypeInv /\ ForwardInv /\ [Next]_vars =>
        /\ ForwardInv'
        /\ spent.rebalance = 0 => committed' >= committed
  <1> DEFINE Forward == ForwardInv' /\ (spent.rebalance = 0 => committed' >= committed)
  <1> SUFFICES ASSUME TypeInv, ForwardInv, [Next]_vars PROVE Forward
    OBVIOUS
  <1>0. /\ committed \in Nat
        /\ \A c \in Consumers : pos[c] \in Nat /\ commits[c] \in Seq(Offsets)
                                /\ Len(commits[c]) \in Nat
        /\ \A c \in Consumers : \A k \in 1 .. Len(commits[c]) : commits[c][k] \in Nat
    BY OffsetTypes
  <1>1. ASSUME UNCHANGED <<committed, assigned, pos, pc, commits>>,
               spent'.rebalance = spent.rebalance
        PROVE  Forward
    BY <1>0, <1>1 DEF ForwardInv, InOrder, Untouched
  \* A process whose own variables stay is not disturbed by the steps of others.
  <1>2. ASSUME NEW d \in Consumers,
               UNCHANGED <<committed, pos[d], pc[d], commits[d]>>
        PROVE  (InOrder(d) => InOrder(d)') /\ (Untouched(d) => Untouched(d)')
    BY <1>2 DEF InOrder, Untouched
  <1>3. ASSUME NEW c \in Consumers, Assign(c) PROVE Forward
    <2>1. /\ assigned = None /\ assigned' = c /\ c # None /\ pc[c] = "idle"
          /\ pos' = [pos EXCEPT ![c] = committed]
          /\ UNCHANGED <<committed, pc, commits, spent>>
      BY <1>3, NoneAssumption DEF Assign, Give
    <2>2. ASSUME NEW d \in Consumers, spent.rebalance = 0
          PROVE  IF d = assigned' THEN InOrder(d)' ELSE Untouched(d)'
      <3>1. Untouched(d)
        BY <2>1, <2>2, NoneAssumption DEF ForwardInv
      <3>2. CASE d = c
        <4>1. pos'[c] = committed /\ commits'[c] = <<>>
          BY <2>1, <3>1, <3>2 DEF TypeInv, TypeOK, Untouched
        <4> QED BY <1>0, <2>1, <3>2, <4>1 DEF InOrder
      <3>3. CASE d # c
        BY <2>1, <3>1, <3>3 DEF Untouched
      <3> QED BY <3>2, <3>3
    <2> QED BY <1>0, <2>1, <2>2 DEF ForwardInv
  <1>4. ASSUME NEW c \in Consumers, Rebalance(c) PROVE Forward
    <2>1. spent'.rebalance = spent.rebalance + 1 /\ committed' = committed
      BY <1>4 DEF Rebalance, Give, TypeInv, TypeOK
    <2>2. spent.rebalance \in Nat
      BY BudgetType DEF TypeInv
    <2> QED BY <1>0, <2>1, <2>2 DEF ForwardInv
  <1>5. ASSUME NEW c \in Consumers, CommitLands(c) \/ CommitRefused(c) PROVE Forward
    <2>1. /\ commits[c] # <<>> /\ commits' = [commits EXCEPT ![c] = Tail(@)]
          /\ committed' = committed \/ committed' = Head(commits[c])
          /\ UNCHANGED <<assigned, pos, pc>>
      BY <1>5 DEF CommitLands, CommitRefused
    <2>2. spent'.rebalance = spent.rebalance
      BY <1>5 DEF CommitLands, CommitRefused, TypeInv, TypeOK
    <2>3. ASSUME spent.rebalance = 0
          PROVE  /\ committed' >= committed
                 /\ \A d \in Consumers :
                       IF d = assigned' THEN InOrder(d)' ELSE Untouched(d)'
      <3>1. c = assigned /\ InOrder(c)
        BY <2>1, <2>3 DEF ForwardInv, Untouched
      <3>2. InOrder(c)' /\ committed' >= committed
        BY <2>1, <3>1, FirstLands
      <3>3. ASSUME NEW d \in Consumers, d # c PROVE Untouched(d)'
        <4>1. Untouched(d)
          BY <2>3, <3>1, <3>3 DEF ForwardInv
        <4> QED BY <2>1, <3>3, <4>1 DEF Untouched, TypeInv, TypeOK
      <3> QED BY <2>1, <3>1, <3>2, <3>3
    <2> QED BY <2>2, <2>3 DEF ForwardInv
  <1>6. ASSUME NEW c \in Consumers, Recv(c) PROVE Forward
    <2>1. /\ assigned = c /\ pos' = [pos EXCEPT ![c] = @ + 1]
          /\ pc' = [pc EXCEPT ![c] = "seq"]
          /\ UNCHANGED <<committed, assigned, commits, spent>>
      BY <1>6 DEF Recv
    <2>2. pos'[c] = pos[c] + 1 /\ \A d \in Consumers : d # c => pc'[d] = pc[d]
      BY <2>1 DEF TypeInv, TypeOK
    <2>3. ASSUME InOrder(c) PROVE InOrder(c)'
      <3>1. \A k \in 1 .. Len(commits[c]) : commits[c][k] <= pos[c] + 1
        BY <1>0, <2>3 DEF InOrder
      <3> QED BY <1>0, <2>1, <2>2, <2>3, <3>1 DEF InOrder
    <2> QED BY <1>0, <2>1, <2>2, <2>3 DEF ForwardInv, Untouched
  <1>7. ASSUME NEW c \in Consumers, Commit(c) PROVE Forward
    <2>1. /\ pc[c] = "join" /\ pc' = [pc EXCEPT ![c] = "idle"]
          /\ commits' = [commits EXCEPT ![c] = Append(@, pos[c])]
          /\ UNCHANGED <<committed, assigned, pos, spent>>
      BY <1>7 DEF Commit
    <2>2. pos[c] \in Offsets
      BY <2>1 DEF TypeInv, PhaseOK
    <2>3. /\ commits'[c] = Append(commits[c], pos[c])
          /\ \A d \in Consumers : d # c => pc'[d] = pc[d] /\ commits'[d] = commits[d]
      BY <2>1 DEF TypeInv, TypeOK
    <2>4. /\ Len(commits'[c]) = Len(commits[c]) + 1
          /\ commits'[c][Len(commits[c]) + 1] = pos[c]
          /\ \A k \in 1 .. Len(commits[c]) : commits'[c][k] = commits[c][k]
      BY <1>0, <2>2, <2>3, AppendProperties
    <2>5. ASSUME InOrder(c) PROVE InOrder(c)'
      <3>1. ASSUME NEW k \in 1 .. Len(commits[c])
            PROVE  /\ committed <= commits'[c][k] /\ commits'[c][k] <= pos[c]
                   /\ \A l \in k .. Len(commits'[c]) : commits'[c][k] <= commits'[c][l]
        <4>1. commits[c][k] <= pos[c] /\ committed <= commits[c][k]
              /\ \A l \in k .. Len(commits[c]) : commits[c][k] <= commits[c][l]
          BY <2>5 DEF InOrder
        <4>2. ASSUME NEW l \in k .. Len(commits'[c])
              PROVE  commits'[c][k] <= commits'[c][l]
          <5>1. CASE l = Len(commits[c]) + 1
            BY <2>4, <4>1, <5>1
          <5>2. CASE l # Len(commits[c]) + 1
            <6>1. l \in k .. Len(commits[c]) /\ l \in 1 .. Len(commits[c])
              BY <1>0, <2>4, <5>2
            <6> QED BY <2>4, <4>1, <6>1
          <5> QED BY <5>1, <5>2
        <4> QED BY <2>4, <4>1, <4>2
      <3>2. ASSUME NEW k \in 1 .. Len(commits'[c]), k \notin 1 .. Len(commits[c])
            PROVE  k = Len(commits[c]) + 1 /\ commits'[c][k] = pos[c]
        BY <1>0, <2>4, <3>2
      <3>3. committed <= pos[c] /\ pos'[c] = pos[c] /\ committed' = committed
        BY <2>1, <2>5 DEF InOrder
      <3>4. ASSUME NEW k \in 1 .. Len(commits'[c])
            PROVE  /\ committed <= commits'[c][k] /\ commits'[c][k] <= pos[c]
                   /\ \A l \in k .. Len(commits'[c]) : commits'[c][k] <= commits'[c][l]
        <4>1. CASE k \in 1 .. Len(commits[c])
          BY <3>1, <4>1
        <4>2. CASE k \notin 1 .. Len(commits[c])
          <5>1. commits'[c][k] = pos[c] /\ \A l \in k .. Len(commits'[c]) : l = k
            BY <1>0, <2>4, <3>2, <4>2
          <5> QED BY <1>0, <3>3, <5>1
        <4> QED BY <4>1, <4>2
      <3> QED BY <3>3, <3>4 DEF InOrder
    <2> QED BY <1>0, <2>1, <2>3, <2>5 DEF ForwardInv, Untouched
  <1>8. ASSUME NEW c \in Consumers, Crash(c) PROVE Forward
    <2>1. /\ assigned' = (IF assigned = c THEN None ELSE assigned)
          /\ commits' = [commits EXCEPT ![c] = <<>>]
          /\ pc' = [pc EXCEPT ![c] = "down"] /\ pos' = [pos EXCEPT ![c] = 0]
          /\ committed' = committed
      BY <1>8 DEF Crash
    <2>2. spent'.rebalance = spent.rebalance
      BY <1>8 DEF Crash, TypeInv, TypeOK
    <2>3. commits'[c] = <<>> /\ pc'[c] = "down" /\ assigned' # c
      BY <2>1, NoneAssumption DEF TypeInv, TypeOK
    <2>4. ASSUME NEW d \in Consumers, d # c
          PROVE  UNCHANGED <<pos[d], pc[d], commits[d]>> /\ (d = assigned' <=> d = assigned)
      BY <2>1, <2>4, NoneAssumption DEF TypeInv, TypeOK
    <2>5. ASSUME NEW d \in Consumers, spent.rebalance = 0
          PROVE  IF d = assigned' THEN InOrder(d)' ELSE Untouched(d)'
      <3>1. CASE d = c
        BY <2>3, <3>1 DEF Untouched
      <3>2. CASE d # c
        BY <1>2, <2>1, <2>4, <2>5, <3>2 DEF ForwardInv
      <3> QED BY <3>1, <3>2
    <2> QED BY <1>0, <2>1, <2>2, <2>5 DEF ForwardInv
  <1>9. ASSUME NEW c \in Consumers,
               IncreaseSeq(c) \/ IncreaseSeqErr(c) \/ Restart(c)
        PROVE  Forward
    <2>1. /\ UNCHANGED <<committed, assigned, commits, pos>>
          /\ pc[c] \in {"seq", "down"}
          /\ \E p \in {"join", "idle"} : pc' = [pc EXCEPT ![c] = p]
          /\ pc[c] = "down" => pc' = [pc EXCEPT ![c] = "idle"]
      BY <1>9 DEF IncreaseSeq, IncreaseSeqErr, Restart
    <2>2. spent'.rebalance = spent.rebalance
      BY <1>9 DEF IncreaseSeq, IncreaseSeqErr, Restart, Fail, TypeInv, TypeOK
    <2>3. \A d \in Consumers : InOrder(d) => InOrder(d)'
      BY <2>1 DEF InOrder
    <2>4. \A d \in Consumers : Untouched(d) => Untouched(d)'
      BY <2>1 DEF Untouched, TypeInv, TypeOK
    <2> QED BY <1>0, <2>1, <2>2, <2>3, <2>4 DEF ForwardInv
  <1>10. ASSUME NEW c \in Consumers,
                \/ SendToDb(c) \/ SendToDbErr(c)
                \/ SendToPusher(c) \/ SendToPusherErr(c)
         PROVE  Forward
    <2>1. UNCHANGED <<committed, assigned, pos, pc, commits>>
      BY <1>10 DEF SendToDb, SendToDbErr, SendToPusher, SendToPusherErr
    <2>2. spent'.rebalance = spent.rebalance
      BY <1>10 DEF SendToDb, SendToDbErr, SendToPusher, SendToPusherErr, Fail,
                   TypeInv, TypeOK
    <2> QED BY <1>1, <2>1, <2>2
  <1>11. ASSUME NEW r \in Receivers, Publish(r) PROVE Forward
    BY <1>1, <1>11 DEF Publish
  <1>12. ASSUME NEW q \in late, Late(q) PROVE Forward
    BY <1>1, <1>12 DEF Late
  <1>13. CASE UNCHANGED vars
    BY <1>1, <1>13 DEF vars
  <1> QED BY <1>3, <1>4, <1>5, <1>6, <1>7, <1>8, <1>9, <1>10, <1>11, <1>12, <1>13
          DEF Next, Group, Handle

\* Without a rebalance the committed offset never moves backwards, for any
\* number of processes, crashes and lost commits (consumer/src/main.rs:86-98).
THEOREM CommitsOnlyAdvance == Spec => CommitsGoForward
  <1>1. TypeInv /\ ForwardInv /\ [Next]_vars
        => [spent.rebalance = 0 => committed' >= committed]_vars
    BY ForwardStep
  <1> QED BY <1>1, InitType, TypeStep, ForwardInit, ForwardStep, PTL
          DEF Spec, CommitsGoForward

=============================================================================
