---------------------------- MODULE MCWsManager ----------------------------
(***************************************************************************)
(* Small instances of WsManager for TLC, and what the documents say of it. *)
(***************************************************************************)
EXTENDS WsManager, TLC

\* All users hash to one shard.
OneShard == [u \in Users |-> CHOOSE s \in Shards : TRUE]

OneOf(S) == CHOOSE x \in S : TRUE

\* The initial states up to a renaming of connections, messages and platforms:
\* some connection sends some message; the other message comes from the same
\* connection, from another one or from send_message.  Connections under one
\* key are left to the first case, since the hub cannot hold both.
Start ==
    LET c == OneOf(Conns)  m == OneOf(Msgs)  p == OneOf(Platforms)
    IN  /\ Init
        /\ origin[m] = c /\ key[c].platform = p
        /\ \A d \in Conns, n \in Msgs :
              d # c => (key[d].platform # p \/ origin[n] = c)

MCSpec == Start /\ [][Next]_vars /\ Fairness

\* doc/1:61: if a send fails, the server returns a send-result message to the
\* client.  Whatever a connection is written about its message is a result, of
\* type MsgRecResp.
RepliesAreResults ==
    \A c \in Conns : \A i \in DOMAIN got[c] : reply[got[c][i]] # "echo"
=============================================================================
