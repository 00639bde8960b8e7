----------------------------- MODULE MCDelivery -----------------------------
(* Delivery on small instances: the constants are sets of model values. *)
EXTENDS Delivery

\* Bound: two messages, or two instances in use.  An instance is not in use
\* when no request arrives there, it does not drain, and it has not handled
\* the wake-ups for which it has no waiter.
OneMessageOrInstance ==
    \/ Cardinality(sent) <= 1
    \/ \E i \in Instance :
        /\ draining \subseteq {i}
        /\ \A q \in Request : at[q] \in {i, None}
        /\ \A w \in Wake : w[2] # i => step[w] \in {"idle", "woken"}

BoundedNext == Next /\ OneMessageOrInstance'
BoundedSpec == Init /\ [][BoundedNext]_vars

Symmetry == Permutations(Message) \cup Permutations(Request) \cup Permutations(Instance)
=============================================================================
