------------------------------ MODULE MCWsHub ------------------------------
(***************************************************************************)
(* Small instances of WsHub for TLC, and what the documents say of it.     *)
(***************************************************************************)
EXTENDS WsHub

\* All users hash to one shard.
OneShard == [u \in Users |-> CHOOSE s \in Shards : TRUE]

\* ws/src/ws_server.rs:176: a connection that is lost removes its client from
\* the hub.  The client of a connection that runs, and was registered last for
\* its user and platform, is therefore still there.
RunningClientInHub ==
    \A c \in Conns :
        conn[c] = "running" /\ latest[key[c].user][key[c].platform] = c => InHub(c)
=============================================================================
