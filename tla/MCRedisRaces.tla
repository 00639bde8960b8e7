---------------------------- MODULE MCRedisRaces ----------------------------
(***************************************************************************)
(* RedisStore with calls that interleave.  Bound: in a behaviour three     *)
(* tokens enter and leave a room, and keys end; or two talk in it.         *)
(***************************************************************************)
EXTENDS RedisStore

VARIABLE talking    \* TRUE: two talk

OneText == {<<"active_text", TRUE>>}

Entering3 == {"create", "join", "register_and_join", "headless", "consume", "leave",
              "invalidate_code"}
Talking2 == {"register_and_join", "send", "touch", "consume", "leave", "invalidate"}

\* The third token stays away from a talk.
ThirdUnused == Cardinality(usedTokens) <= 2

\* Bound: who opens the room is its host, nothing is put back, and until calls
\* interleave one message waits.
QuietTalk ==
    /\ ThirdUnused
    /\ \A r \in Room : rooms[r] # None => rooms[r].sessionType = "standard"
    /\ \A t \in Token : \A i \in DOMAIN inboxes[t] : ~inboxes[t][i].again
    /\ calls = 0 => Cardinality(UNION {{t} \X DOMAIN inboxes[t] : t \in Token}) <= 1

Calling(operations) ==
    /\ \E c \in Caller : Called(c) \/ Writes(c) \/ Asks(c)
    /\ \A c \in Caller : call'[c].op \in operations \cup {"none"}

RacesInit == Init /\ talking \in BOOLEAN

RacesNext ==
    /\ UNCHANGED talking
    /\ \/ ~talking /\ (Calling(Entering3) \/ Single \/ Ending \/ \E c \in Caller : Crash(c))
       \/ talking /\ (Calling(Talking2) \/ Single) /\ QuietTalk'
    /\ InBounds'

RacesSpec == RacesInit /\ [][RacesNext]_<<vars, talking>>

\* A code is redeemed once: it admits one guest.
CodesAdmitOne == \A r \in Room : Cardinality(members[r]) <= 2

Symmetry == Permutations(Token) \cup Permutations(Caller)
=============================================================================
