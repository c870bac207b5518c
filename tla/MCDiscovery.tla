----------------------------- MODULE MCDiscovery -----------------------------
(***************************************************************************)
(* Small instances of Discovery for TLC.                                   *)
(***************************************************************************)
EXTENDS Discovery

\* db1 and db2 share a host and therefore an id; chat1 and chat2 do not.  db3 is
\* configured with a host name, pusher1 with an IPv6 address.
MCProcs ==
    {"consumer1", "db1", "db2", "db3", "pusher1", "ws1", "chat1", "chat2"}

MCKind ==
    [consumer1 |-> "consumer", db1 |-> "db", db2 |-> "db", db3 |-> "db",
     pusher1 |-> "pusher", ws1 |-> "ws", chat1 |-> "chat", chat2 |-> "chat"]

MCHostOf == [p \in MCProcs |-> IF p \in {"db3", "chat2"} THEN "h2" ELSE "h1"]

MCAddrOf ==
    [p \in MCProcs |-> [s \in Services |->
        CASE p \in {"db1", "chat1"} -> "a1" [] p \in {"db2", "chat2"} -> "a2"
          [] p = "db3" -> "name" [] p = "pusher1" -> "ip6"
          [] p = "ws1" /\ s = "ws" -> "a3" [] OTHER -> "a4"]]
=============================================================================
