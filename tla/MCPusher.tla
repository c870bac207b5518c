------------------------------ MODULE MCPusher ------------------------------
(***************************************************************************)
(* Small instances of Pusher for TLC, and the claims of the documents that *)
(* the runs refute.                                                        *)
(***************************************************************************)
EXTENDS Pusher

\* doc/10:118,124: a failed connect does not stop the attempts to connect to the
\* instance, so that messages reach every active ws instance.  An instance that
\* serves and is registered for ever is in the list for ever, some time on.
ServingInstanceListed ==
    \A s \in Instances :
        <>[](inst[s] = "serving" /\ s \in registry) => <>[](s \in list)
=============================================================================
