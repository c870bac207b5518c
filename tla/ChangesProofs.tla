--------------------------- MODULE ChangesProofs ---------------------------
(***************************************************************************)
(* Lemmas about queues of changes: what a change that enters or leaves the *)
(* queue does to the set that is expected of it.                           *)
(***************************************************************************)
EXTENDS Changes, SequenceTheorems, TLAPS

LEMMA MemberEmpty == ASSUME NEW a, NEW S PROVE Member(a, S, <<>>) <=> a \in S
  BY DEF Member

\* The newest change decides about its own address and about no other one.
LEMMA MemberAppend ==
    ASSUME NEW A, NEW q \in Seq(ChangesOf(A)), NEW x \in ChangesOf(A),
           NEW S, NEW a
    PROVE  Member(a, S, Append(q, x)) <=>
               IF x.addr = a THEN x.op = "insert" ELSE Member(a, S, q)
  <1> DEFINE r == Append(q, x)
             n == Len(q)
  <1>1. /\ n \in Nat /\ Len(r) = n + 1 /\ r[n + 1] = x
        /\ \A i \in 1 .. n : r[i] = q[i]
    BY AppendProperties, LenProperties
  <1> HIDE DEF r, n
  <1>2. x = [op |-> x.op, addr |-> x.addr] /\ x.op \in {"insert", "remove"}
    BY DEF ChangesOf
  <1>3. CASE x.addr = a
    <2>1. CASE x.op = "insert"
      <3>1. r[n + 1] = Change("insert", a)
        BY <1>1, <1>2, <1>3, <2>1 DEF Change
      <3>2. \A j \in 1 .. Len(r) : ~ (j > n + 1)
        BY <1>1
      <3>3. n + 1 \in 1 .. Len(r)
        BY <1>1
      <3>4. Member(a, S, r)
        BY <3>1, <3>2, <3>3 DEF Member
      <3> QED BY <1>3, <2>1, <3>4 DEF r
    <2>2. CASE x.op # "insert"
      <3>1. ASSUME NEW i \in 1 .. Len(r), r[i] = Change("insert", a),
                   \A j \in 1 .. Len(r) : j > i => r[j].addr # a
            PROVE  FALSE
        <4>1. i = n + 1
          BY <1>1, <1>3, <3>1
        <4> QED BY <1>1, <2>2, <3>1, <4>1 DEF Change
      <3>2. n + 1 \in 1 .. Len(r) /\ r[n + 1].addr = a
        BY <1>1, <1>3
      <3>3. ~ Member(a, S, r)
        BY <3>1, <3>2 DEF Member
      <3> QED BY <1>3, <2>2, <3>3 DEF r
    <2> QED BY <2>1, <2>2
  <1>4. CASE x.addr # a
    <2>1. ASSUME NEW i \in 1 .. Len(q)
          PROVE  (\A j \in 1 .. Len(r) : j > i => r[j].addr # a)
                    <=> (\A j \in 1 .. Len(q) : j > i => q[j].addr # a)
      BY <1>1, <1>4 DEF n
    <2>2. r[n + 1] # Change("insert", a)
      BY <1>1, <1>4 DEF Change
    <2>3. (\A i \in 1 .. Len(r) : r[i].addr # a) <=> (\A i \in 1 .. Len(q) : q[i].addr # a)
      BY <1>1, <1>4 DEF n
    <2>4. \A i : i \in 1 .. Len(r) <=> i \in 1 .. Len(q) \/ i = n + 1
      BY <1>1 DEF n
    <2>5. (\E i \in 1 .. Len(r) : r[i] = Change("insert", a)
                /\ \A j \in 1 .. Len(r) : j > i => r[j].addr # a)
           <=> (\E i \in 1 .. Len(q) : q[i] = Change("insert", a)
                /\ \A j \in 1 .. Len(q) : j > i => q[j].addr # a)
      <3>1. \A i \in 1 .. Len(q) : r[i] = q[i]
        BY <1>1 DEF n
      <3> QED BY <2>1, <2>2, <2>4, <3>1
    <2>6. Member(a, S, r) <=> Member(a, S, q)
      BY <2>3, <2>5 DEF Member
    <2> QED BY <1>4, <2>6 DEF r
  <1> QED BY <1>3, <1>4

\* To apply the oldest change leaves what is expected as it is.
LEMMA MemberTail ==
    ASSUME NEW A, NEW q \in Seq(ChangesOf(A)), q # <<>>, NEW S, NEW a
    PROVE  Member(a, Apply(S, Head(q)), Tail(q)) <=> Member(a, S, q)
  <1> DEFINE r == Tail(q)
             x == Head(q)
             n == Len(q)
  <1>1. /\ n \in Nat /\ n >= 1 /\ Len(r) = n - 1 /\ q[1] = x /\ x \in ChangesOf(A)
        /\ \A i \in 1 .. Len(r) : r[i] = q[i + 1]
    BY HeadTailProperties, LenProperties, EmptySeq
  <1> HIDE DEF r, x, n
  <1>2. x = [op |-> x.op, addr |-> x.addr] /\ x.op \in {"insert", "remove"}
    BY <1>1 DEF ChangesOf
  <1>3. ASSUME NEW i \in 2 .. n PROVE i - 1 \in 1 .. Len(r) /\ r[i - 1] = q[i]
    BY <1>1
  <1>4. ASSUME NEW i \in 1 .. Len(r) PROVE i + 1 \in 2 .. n /\ r[i] = q[i + 1]
    BY <1>1
  <1> DEFINE Last(i) == q[i] = Change("insert", a)
                        /\ \A j \in 1 .. n : j > i => q[j].addr # a
             LastR(i) == r[i] = Change("insert", a)
                         /\ \A j \in 1 .. Len(r) : j > i => r[j].addr # a
  <1>5. (\E i \in 1 .. Len(r) : LastR(i)) <=> (\E i \in 2 .. n : Last(i))
    <2>1. ASSUME NEW i \in 1 .. Len(r), LastR(i) PROVE Last(i + 1)
      <3>1. ASSUME NEW j \in 1 .. n, j > i + 1 PROVE q[j].addr # a
        <4>1. j \in 2 .. n /\ j - 1 > i
          BY <1>1, <3>1
        <4> QED BY <1>3, <2>1, <4>1
      <3> QED BY <1>4, <2>1, <3>1
    <2>2. ASSUME NEW i \in 2 .. n, Last(i) PROVE LastR(i - 1)
      <3>1. ASSUME NEW j \in 1 .. Len(r), j > i - 1 PROVE r[j].addr # a
        <4>1. j + 1 \in 1 .. n /\ j + 1 > i
          BY <1>1, <3>1
        <4> QED BY <1>4, <2>2, <4>1
      <3> QED BY <1>3, <2>2, <3>1
    <2> HIDE DEF Last, LastR
    <2> QED BY <1>3, <1>4, <2>1, <2>2
  <1>6. (\A i \in 1 .. Len(r) : r[i].addr # a) <=> (\A i \in 2 .. n : q[i].addr # a)
    BY <1>3, <1>4
  <1>7. Last(1) <=> x.op = "insert" /\ x.addr = a /\ \A i \in 2 .. n : q[i].addr # a
    <2>1. \A j \in 1 .. n : j > 1 <=> j \in 2 .. n
      BY <1>1
    <2>2. 2 .. n \subseteq 1 .. n
      BY <1>1
    <2> QED BY <1>1, <1>2, <2>1, <2>2 DEF Change
  <1>8. (\A i \in 1 .. n : q[i].addr # a) <=> x.addr # a /\ \A i \in 2 .. n : q[i].addr # a
    <2>1. \A i : i \in 1 .. n <=> i = 1 \/ i \in 2 .. n
      BY <1>1
    <2> QED BY <1>1, <2>1
  <1>9. (\E i \in 1 .. n : Last(i)) <=> Last(1) \/ \E i \in 2 .. n : Last(i)
    <2>1. \A i : i \in 1 .. n <=> i = 1 \/ i \in 2 .. n
      BY <1>1
    <2> HIDE DEF Last
    <2> QED BY <2>1
  <1>10. Member(a, S, q) <=>
            (\E i \in 1 .. n : Last(i)) \/ (a \in S /\ \A i \in 1 .. n : q[i].addr # a)
    BY DEF Member, n
  <1>11. Member(a, Apply(S, x), r) <=>
            (\E i \in 1 .. Len(r) : LastR(i))
              \/ (a \in Apply(S, x) /\ \A i \in 1 .. Len(r) : r[i].addr # a)
    BY DEF Member
  <1>12. a \in Apply(S, x) <=> IF x.addr = a THEN x.op = "insert" ELSE a \in S
    BY <1>2 DEF Apply
  <1> HIDE DEF Last, LastR
  <1>13. Member(a, Apply(S, x), r) <=> Member(a, S, q)
    BY <1>5, <1>6, <1>7, <1>8, <1>9, <1>10, <1>11, <1>12
  <1> QED BY <1>13 DEF r, x
=============================================================================
