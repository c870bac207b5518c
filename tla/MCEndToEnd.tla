----------------------------- MODULE MCEndToEnd -----------------------------
(***************************************************************************)
(* Small instances of EndToEnd for TLC.                                    *)
(***************************************************************************)
EXTENDS EndToEnd

\* The pushes that failed their caller without a fault of its own: they panicked,
\* or went with the pusher.
Broken ==
    {p \in Pushes : /\ ~ Awaited(p)
                    /\ push[p] = "panicked" \/ (push[p] = "lost" /\ used.crash > 0)}

\* Crashes, restarts, stalled peers, and calls that fail without a cause.
Failures ==
    spent.crash + used.crash + used.fault + stalls
        + IF spent.fault > Cardinality(Broken) THEN 1 ELSE 0

\* One of them happens in a behaviour.  With a crash or restart there is one
\* message: its second push is that of the redelivery, and order is not at stake.
MCSpec ==
    /\ Init
    /\ [][/\ Next /\ Failures' <= 1
          /\ spent'.crash + used'.crash > 0 => Len(log') <= 1]_vars
    /\ Fairness
=============================================================================
