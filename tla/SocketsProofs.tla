---------------------------- MODULE SocketsProofs ----------------------------
(***************************************************************************)
(* Theorems about the abstract specification Sockets.tla, for any users    *)
(* and connections: what follows from the rules of Inbox and Sockets       *)
(* alone, and so holds of whatever implements them.                        *)
(***************************************************************************)
EXTENDS Sockets, SequenceTheorems, TLAPS

\* A number is not above its receiver's counter, so the next one is new.
NumbersInv == TypeOK /\ CounterCoversNumbers /\ SeqIdentifiesMessage

\* What is in a box are numbers of messages to its owner, none of them twice.
BoxInv ==
    /\ box \in [Conns -> Seq(Numbers)]
    /\ \A c \in Conns : \A i \in DOMAIN box[c] :
          /\ box[c][i] \in given /\ log[box[c][i].off] = owner[c]
          /\ \A j \in DOMAIN box[c] : box[c][i] = box[c][j] => i = j

LEMMA InitInv == SocketsInit => NumbersInv /\ BoxInv
  BY DEF SocketsInit, Init, NumbersInv, TypeOK, CounterCoversNumbers,
         SeqIdentifiesMessage, BoxInv

\* The receiver of a message that has a number stays what it is.
LEMMA LogGrows ==
    ASSUME TypeOK, [Next]_vars
    PROVE  /\ given \subseteq given'
           /\ \A g \in given : log'[g.off] = log[g.off]
  <1>1. ASSUME NEW r \in Receivers, Publish(r)
        PROVE  given' = given /\ \A g \in given : log'[g.off] = log[g.off]
    <2>1. \A o \in DOMAIN log : log'[o] = log[o]
      BY <1>1 DEF Publish, TypeOK
    <2> QED BY <1>1, <2>1 DEF Publish, TypeOK
  <1>2. ASSUME \/ \E r \in Receivers : Waste(r)
               \/ \E o \in DOMAIN log : Number(o) \/ GiveUp(o)
               \/ UNCHANGED vars
        PROVE  log' = log /\ given \subseteq given'
    BY <1>2 DEF Waste, Number, GiveUp, vars
  <1> QED BY <1>1, <1>2 DEF Next

LEMMA NumbersStep == NumbersInv /\ [Next]_vars => NumbersInv'
  <1> SUFFICES ASSUME NumbersInv, [Next]_vars PROVE NumbersInv'
    OBVIOUS
  <1> USE DEF NumbersInv, TypeOK, CounterCoversNumbers, SeqIdentifiesMessage
  <1>0. \A g \in given : /\ g.off \in DOMAIN log /\ log[g.off] \in Receivers
                         /\ g.seq \in Nat /\ seq[log[g.off]] \in Nat
    BY DEF Numbers
  <1>1. ASSUME NEW r \in Receivers, Publish(r) PROVE NumbersInv'
    <2>1. /\ log' \in Seq(Receivers) /\ DOMAIN log \subseteq DOMAIN log'
          /\ \A o \in DOMAIN log : log'[o] = log[o]
          /\ UNCHANGED <<seq, given, failed>>
      BY <1>1 DEF Publish
    <2> QED BY <1>0, <2>1
  <1>2. ASSUME NEW o \in DOMAIN log, Number(o) PROVE NumbersInv'
    <2> DEFINE r == log[o]
               n == [off |-> o, seq |-> seq[r] + 1]
    <2>1. r \in Receivers /\ seq[r] \in Nat /\ o \in Nat \ {0}
      OBVIOUS
    <2>2. /\ UNCHANGED <<log, failed>> /\ given' = given \cup {n}
          /\ seq' = [seq EXCEPT ![r] = @ + 1]
      BY <1>2 DEF Number
    <2>3. n \in Numbers /\ n.off = o /\ n.seq = seq[r] + 1
      BY <2>1 DEF Numbers
    <2>4. seq'[r] = seq[r] + 1 /\ \A x \in Receivers : x # r => seq'[x] = seq[x]
      BY <2>1, <2>2
    <2>5. TypeOK'
      BY <2>1, <2>2, <2>3
    <2>6. CounterCoversNumbers'
      <3>1. ASSUME NEW g \in given PROVE g.seq <= seq'[log[g.off]]
        <4>1. CASE log[g.off] = r
          BY <1>0, <2>1, <2>4, <4>1
        <4>2. CASE log[g.off] # r
          BY <1>0, <2>4, <4>2
        <4> QED BY <4>1, <4>2
      <3> QED BY <2>1, <2>2, <2>3, <2>4, <3>1
    <2>7. \A g \in given : log[g.off] = r => g.seq # n.seq
      BY <1>0, <2>1, <2>3
    <2>8. SeqIdentifiesMessage'
      BY <2>2, <2>3, <2>7
    <2> QED BY <2>5, <2>6, <2>8
  <1>3. ASSUME NEW o \in DOMAIN log, GiveUp(o) PROVE NumbersInv'
    BY <1>3 DEF GiveUp
  <1>4. ASSUME NEW r \in Receivers, Waste(r) PROVE NumbersInv'
    <2>1. UNCHANGED <<log, given, failed>> /\ seq' = [seq EXCEPT ![r] = @ + 1]
      BY <1>4 DEF Waste
    <2>2. \A x \in Receivers : seq'[x] \in Nat /\ seq[x] <= seq'[x]
      BY <2>1
    <2>3. ASSUME NEW g \in given PROVE g.seq <= seq'[log[g.off]]
      BY <1>0, <2>2
    <2> QED BY <2>1, <2>3
  <1>5. CASE UNCHANGED vars
    BY <1>5 DEF vars
  <1> QED BY <1>1, <1>2, <1>3, <1>4, <1>5 DEF Next

\* Only Write adds to a box, and it adds what the box has not.
LEMMA BoxStep == NumbersInv /\ BoxInv /\ [SocketsNext]_socketVars => BoxInv'
  <1> SUFFICES ASSUME NumbersInv, BoxInv, [SocketsNext]_socketVars PROVE BoxInv'
    OBVIOUS
  <1>1. ASSUME [Next]_vars, UNCHANGED <<owner, box>> PROVE BoxInv'
    BY <1>1, LogGrows DEF BoxInv, NumbersInv
  <1>2. ASSUME NEW c \in Conns, NEW g \in given, Write(c, g) PROVE BoxInv'
    <2>1. /\ log[g.off] = owner[c] /\ ~ Has(c, g)
          /\ box' = [box EXCEPT ![c] = Append(@, g)]
          /\ UNCHANGED <<log, given, owner>>
      BY <1>2 DEF Write, vars
    <2>2. box[c] \in Seq(Numbers) /\ g \in Numbers
      BY DEF BoxInv, NumbersInv, TypeOK
    <2>3. /\ Append(box[c], g) \in Seq(Numbers)
          /\ DOMAIN box[c] = 1 .. Len(box[c]) /\ Len(box[c]) \in Nat
          /\ DOMAIN Append(box[c], g) = 1 .. Len(box[c]) + 1
          /\ \A i \in DOMAIN box[c] : Append(box[c], g)[i] = box[c][i]
          /\ Append(box[c], g)[Len(box[c]) + 1] = g
      BY <2>2, AppendProperties, LenProperties
    <2>4. box'[c] = Append(box[c], g) /\ \A d \in Conns : d # c => box'[d] = box[d]
      BY <2>1 DEF BoxInv
    <2>5. \A i \in DOMAIN box[c] : box[c][i] # g
      BY <2>1 DEF Has
    <2>6. ASSUME NEW d \in Conns, NEW i \in DOMAIN box'[d]
          PROVE  /\ box'[d][i] \in given /\ log[box'[d][i].off] = owner[d]
                 /\ \A j \in DOMAIN box'[d] : box'[d][i] = box'[d][j] => i = j
      <3>1. CASE d # c
        BY <2>4, <2>6, <3>1 DEF BoxInv
      <3>2. CASE d = c
        <4>1. \/ i \in DOMAIN box[c] /\ box'[c][i] = box[c][i]
              \/ i = Len(box[c]) + 1 /\ box'[c][i] = g
          BY <2>3, <2>4, <2>6, <3>2
        <4>2. ASSUME NEW j \in DOMAIN box'[c]
              PROVE  \/ j \in DOMAIN box[c] /\ box'[c][j] = box[c][j]
                     \/ j = Len(box[c]) + 1 /\ box'[c][j] = g
          BY <2>3, <2>4
        <4> QED BY <2>1, <2>5, <3>2, <4>1, <4>2 DEF BoxInv
      <3> QED BY <3>1, <3>2
    <2>7. box' \in [Conns -> Seq(Numbers)]
      BY <2>1, <2>3 DEF BoxInv
    <2> QED BY <2>1, <2>6, <2>7 DEF BoxInv
  <1>3. CASE UNCHANGED socketVars
    BY <1>1, <1>3 DEF socketVars
  <1> QED BY <1>1, <1>2, <1>3 DEF SocketsNext, NumberStep

LEMMA SocketsStep == [SocketsNext]_socketVars => [Next]_vars
  BY DEF SocketsNext, NumberStep, Write, socketVars, vars

LEMMA Distinct == NumbersInv /\ BoxInv => NumbersDiffer
  <1> SUFFICES ASSUME NumbersInv, BoxInv, NEW c \in Conns, NEW i \in DOMAIN box[c],
                      NEW j \in DOMAIN box[c], box[c][i].seq = box[c][j].seq
               PROVE  i = j
    BY DEF NumbersDiffer
  <1> DEFINE g == box[c][i]
             h == box[c][j]
  <1>1. g \in given /\ h \in given /\ log[g.off] = log[h.off]
    BY DEF BoxInv
  <1>2. g.off = h.off
    BY <1>1 DEF NumbersInv, SeqIdentifiesMessage
  <1>3. g \in Numbers /\ h \in Numbers
    BY <1>1 DEF NumbersInv, TypeOK
  <1>4. g = h
    BY <1>2, <1>3 DEF Numbers
  <1> QED BY <1>4 DEF BoxInv

\* Whatever keeps the rules of Sockets writes no two messages to a connection
\* under one number, and none twice: a number is drawn from a counter that is
\* not below any earlier one (cache/src/redis/mod.rs:40), and it is written to a
\* connection once.
THEOREM NumbersOnSocketsDiffer == SocketsSpec => []NumbersDiffer
  BY InitInv, NumbersStep, BoxStep, SocketsStep, Distinct, PTL DEF SocketsSpec

\* Whatever keeps the rules of Sockets numbers messages as Inbox allows: writing to
\* connections draws no number and gives none up (consumer/src/main.rs:117-125).
THEOREM SocketsKeepInbox == SocketsSpec => Spec
  BY SocketsStep, PTL DEF SocketsSpec, Spec, SocketsInit
=============================================================================
