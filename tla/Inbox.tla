------------------------------- MODULE Inbox -------------------------------
(***************************************************************************)
(* What the delivery path promises about the numbers of a receiver's       *)
(* messages: the abstract specification that Consumer.tla implements.      *)
(*                                                                         *)
(* Every message of the Kafka topic is numbered with the receiver's own    *)
(* counter before it is pushed (consumer/src/main.rs, handle_msg).  A      *)
(* message may be numbered more than once, since the topic is delivered at *)
(* least once, or not at all, when Redis fails; a number may be lost.      *)
(* What stays true is that a number names one message, and that the first  *)
(* number of a message is below every number of the later messages of the  *)
(* same receiver.                                                          *)
(***************************************************************************)
EXTENDS Naturals, Sequences

CONSTANT Receivers   \* the user ids messages are addressed to

VARIABLES
    log,     \* the topic: log[o] is the receiver of the message at offset o
    seq,     \* the counter "seq:<receiver>" of every receiver
    given,   \* the numbers handed to messages so far, [off, seq] records
    failed   \* the offsets given up because their number was not obtained

vars == <<log, seq, given, failed>>

Numbers == [off: Nat \ {0}, seq: Nat \ {0}]

Numbered(o) == \E g \in given : g.off = o

\* The earlier messages of o's receiver are numbered or given up.
PriorsSettled(o) ==
    \A i \in 1 .. o - 1 : log[i] = log[o] => i \in failed \/ Numbered(i)
-----------------------------------------------------------------------------
Init ==
    /\ log = <<>>
    /\ seq = [r \in Receivers |-> 0]
    /\ given = {}
    /\ failed = {}

Publish(r) ==
    /\ log' = Append(log, r)
    /\ UNCHANGED <<seq, given, failed>>

\* A message takes the next number of its receiver.
Number(o) ==
    /\ o \in DOMAIN log
    /\ PriorsSettled(o)
    /\ seq' = [seq EXCEPT ![log[o]] = @ + 1]
    /\ given' = given \cup {[off |-> o, seq |-> seq[log[o]] + 1]}
    /\ UNCHANGED <<log, failed>>

\* A message is given up without a number.
GiveUp(o) ==
    /\ o \in DOMAIN log
    /\ failed' = failed \cup {o}
    /\ UNCHANGED <<log, seq, given>>

\* A number is drawn and its answer lost: no message carries it.
Waste(r) ==
    /\ seq' = [seq EXCEPT ![r] = @ + 1]
    /\ UNCHANGED <<log, given, failed>>

Next ==
    \/ \E r \in Receivers : Publish(r) \/ Waste(r)
    \/ \E o \in DOMAIN log : Number(o) \/ GiveUp(o)

Spec == Init /\ [][Next]_vars
-----------------------------------------------------------------------------
TypeOK ==
    /\ log \in Seq(Receivers)
    /\ seq \in [Receivers -> Nat]
    /\ given \subseteq Numbers
    /\ \A g \in given : g.off \in DOMAIN log
    /\ failed \subseteq DOMAIN log

\* A receiver's number names one message: no two different messages of one
\* receiver were ever numbered alike, whatever crashes and redeliveries did
\* (consumer/src/main.rs:125, cache/src/redis/mod.rs:40).
SeqIdentifiesMessage ==
    \A g, h \in given :
        log[g.off] = log[h.off] /\ g.seq = h.seq => g.off = h.off

\* No number handed out is above the counter the next one is taken from.
CounterCoversNumbers ==
    \A g \in given : g.seq <= seq[log[g.off]]

\* Numbers follow the topic's order: a message that carries a number was
\* preceded by every earlier message of its receiver that was not given up,
\* each under a smaller number (consumer/src/main.rs:86-103).
LaterNumbersAreLarger ==
    \A h \in given : \A i \in 1 .. h.off - 1 :
        log[i] = log[h.off] /\ i \notin failed
            => \E g \in given : g.off = i /\ g.seq < h.seq
=============================================================================
