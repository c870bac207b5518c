----------------------------- MODULE MCConsumer -----------------------------
(***************************************************************************)
(* Small instances of Consumer for TLC, and the claims of the documents    *)
(* that the runs refute.                                                   *)
(***************************************************************************)
EXTENDS Consumer

\* At most two of the crash, the rebalance and the fault happen in a behaviour.
MCSpec ==
    /\ Init
    /\ [][Next /\ spent'.crash + spent'.rebalance + spent'.fault <= 2]_vars
    /\ Fairness

\* doc/1:55: messages are not lost on the way, whatever the network does.  The
\* committed offset passes only messages that are in the messages table.
CommittedIsSaved == \A o \in 1 .. committed : Saved(o)

=============================================================================
