-------------------------- MODULE MCBrokerSession --------------------------
(***************************************************************************)
(* BrokerStore with one room and its two participants.  Bound: in a        *)
(* behaviour they talk, or time passes, or what waits in inboxes lapses.   *)
(***************************************************************************)
EXTENDS MCBrokerStore

VARIABLE theme

\* What happens in all.
Calls ==
    \/ \E t \in Token, r \in Room :
        \/ JoinSession(t, r) \/ RegisterAndJoin(t, r)
        \/ \E type \in {"standard", "listener"} :
              CreateSession(t, r, type) \/ SetupSession(t, r, type, FALSE)
    \/ \E r \in Room : JoinGoneRoom(r)
    \/ \E t \in Token : Register(t) \/ Touch(t) \/ Consume(t) \/ Delivered(t)
    \/ Close

Returning == \E t \in Token : Requeue(t)

\* Deadlines pass, and the settings that they depend on change.
Passing ==
    \/ \E t \in Token :
        \/ \E r \in Room, type \in {"standard", "listener"} : SetupSession(t, r, type, TRUE)
        \/ \E hl \in HeadlessModes : UpdateRoomHeadless(t, hl)
        \/ TokenAges(t) \/ TokenIdles(t)
    \/ \E r \in Room : CodeLapses(r)
    \/ Observe

Lapsing == \E t \in Token : MessageLapses(t)

Talking == \E t \in Token : \E text \in Texts : SendMessage(t, text[1], text[2])

SessionInit == Init /\ theme \in {"talk", "time", "lapse"}

SessionNext ==
    /\ UNCHANGED theme
    /\ \/ Calls
       \/ theme = "talk" /\ (Talking \/ Returning)
       \/ theme = "time" /\ Passing
       \/ theme = "lapse" /\ (Lapsing \/ Returning)
    /\ InBounds'

SessionSpec == SessionInit /\ [][SessionNext]_<<vars, theme>>
=============================================================================
