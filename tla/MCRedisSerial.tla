--------------------------- MODULE MCRedisSerial ---------------------------
(* RedisSerial on a small instance. *)
EXTENDS RedisSerial

ThreeTexts ==
    {<<"active_text", TRUE>>, <<"active_text", FALSE>>, <<"standby_text", TRUE>>}

TwoTexts == {<<"active_text", TRUE>>, <<"standby_text", TRUE>>}

\* Bound: a session is closed from outside with its code, so once.
MostOperations == Operation \ {"invalidate"}

\* Bound: a response that does not finish is left to Delivery.
NothingComesBack == \A t \in Token : \A i \in DOMAIN inboxes[t] : ~inboxes[t][i].again

BoundedNext == SerialNext /\ NothingComesBack'
BoundedSpec == SerialInit /\ [][BoundedNext]_serialVars

Symmetry == Permutations(Token)
=============================================================================
