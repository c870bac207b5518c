------------------------------ MODULE Sockets ------------------------------
(***************************************************************************)
(* What the delivery path promises to the clients of a user: the abstract  *)
(* specification that EndToEnd.tla implements.                             *)
(*                                                                         *)
(* Messages get their numbers as in Inbox.tla, and a numbered message is   *)
(* written to connections of its receiver, to each of them once under one  *)
(* number: the call of the pusher is not repeated, and neither are the     *)
(* pusher's calls of the ws instances.  Nothing is promised about which    *)
(* messages are written, or when.                                          *)
(***************************************************************************)
EXTENDS Inbox

CONSTANT Conns   \* websocket connections

VARIABLES
    owner,   \* the user of each connection
    box      \* the numbered messages each connection was written

socketVars == <<vars, owner, box>>

Has(c, g) == \E i \in DOMAIN box[c] : box[c][i] = g

SocketsInit ==
    /\ Init
    /\ owner \in [Conns -> Receivers]
    /\ box = [c \in Conns |-> <<>>]

\* A step of the numbering; the sockets see nothing of it.
NumberStep == Next /\ UNCHANGED <<owner, box>>

\* A message is written under a number it was given, and never again under it.
Write(c, g) ==
    /\ g \in given /\ log[g.off] = owner[c] /\ ~ Has(c, g)
    /\ box' = [box EXCEPT ![c] = Append(@, g)]
    /\ UNCHANGED <<vars, owner>>

SocketsNext == NumberStep \/ \E c \in Conns : \E g \in given : Write(c, g)

SocketsSpec == SocketsInit /\ [][SocketsNext]_socketVars
-----------------------------------------------------------------------------
\* A client that goes by the numbers, as the documents have it, neither drops a
\* message for another one nor shows one twice: no two entries of a connection
\* have one number, whatever crashes, restarts and lost answers there are
\* (consumer/src/main.rs:125, doc/1:61).
NumbersDiffer ==
    \A c \in Conns : \A i, j \in DOMAIN box[c] :
        box[c][i].seq = box[c][j].seq => i = j
=============================================================================
