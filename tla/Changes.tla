------------------------------ MODULE Changes ------------------------------
(***************************************************************************)
(* The changes a discovery worker sends (tower's Change), and what a queue *)
(* of them makes of a set of addresses when its reader carries them out.   *)
(***************************************************************************)
EXTENDS Naturals, Sequences

Change(op, a) == [op |-> op, addr |-> a]
ChangesOf(A)  == [op: {"insert", "remove"}, addr: A]

Apply(S, x) == IF x.op = "insert" THEN S \cup {x.addr} ELSE S \ {x.addr}

\* a is in the set once the changes q have been applied to S: the last change
\* about it is an insert, or there is none and it is in S.
Member(a, S, q) ==
    \/ \E i \in 1 .. Len(q) :
          q[i] = Change("insert", a) /\ \A j \in 1 .. Len(q) : j > i => q[j].addr # a
    \/ a \in S /\ \A i \in 1 .. Len(q) : q[i].addr # a
=============================================================================
