--------------------------- MODULE MCBrokerStore ---------------------------
(***************************************************************************)
(* BrokerStore on small instances.  Tokens are interchangeable, and rooms  *)
(* where there are several.                                                *)
(***************************************************************************)
EXTENDS BrokerStore

\* A long standby text is left out: the short one pauses as it does, and the
\* long active one resets the count as it does.
ThreeTexts ==
    {<<"active_text", TRUE>>, <<"active_text", FALSE>>, <<"standby_text", TRUE>>}
PlainText == {<<"active_text", FALSE>>}

Symmetry == Permutations(Token)
RoomSymmetry == Permutations(Token) \cup Permutations(Room)

\* Bound, with several rooms: close notices are not put back, texts are.
NoticesStayOut ==
    \A t \in Token : \A i \in DOMAIN inboxes[t] :
        inboxes[t][i].again => ~IsClose(inboxes[t][i])

RoomsNext == Next /\ NoticesStayOut'
RoomsSpec == Init /\ [][RoomsNext]_vars
=============================================================================
