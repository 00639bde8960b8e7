---------------------------- MODULE MCRedisIdle ----------------------------
(***************************************************************************)
(* RedisStore and the lifetime of a room that has both its participants:   *)
(* its key and theirs end sessionIdleTtlMs after they were written.        *)
(***************************************************************************)
EXTENDS RedisStore

VARIABLE since    \* the tokens written since the room was

PlainText == {<<"active_text", FALSE>>}

Writing(c, t) == Issues(c, "set_token") /\ Command(c).t = t

Refreshed(r) ==
    IF rooms'[r] # rooms[r] \/ \E c \in Caller : Issues(c, "set_room") /\ Command(c).r = r
    THEN {}
    ELSE since[r] \cup {t \in Token : \E c \in Caller : Writing(c, t)}

IdleInit == Init /\ since = [r \in Room |-> {}]

\* Bound: a room ends when both participants have written since: the key of
\* one that has not lapses no later.
IdleNext ==
    /\ Next
    /\ \A c \in Caller : ~Idle(c) => call'[c] # call[c]
    /\ since' = [r \in Room |-> Refreshed(r)]
    /\ \A r \in Room : RoomEnds(r) => Slots(rooms[r]) \subseteq since[r]

IdleSpec == IdleInit /\ [][IdleNext]_<<vars, since>>

\* A paired session ends for being idle: not as long as both participants
\* have been heard of within the lifetime, neither being closed.
Active(r) ==
    /\ rooms[r] # None
    /\ Cardinality(Slots(rooms[r])) = 2
    /\ \A t \in Slots(rooms[r]) :
          t \in since[r] /\ tokens[t] # None /\ tokens[t].pendingCloseMessages = 0

ActiveSessionsLast ==
    [][\A r \in Room : Active(r) => rooms'[r] # None]_<<vars, since>>
=============================================================================
