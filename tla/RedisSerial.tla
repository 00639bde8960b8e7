---------------------------- MODULE RedisSerial ----------------------------
(***************************************************************************)
(* RedisStore, called by one caller at a time: does it then do what the    *)
(* memory store does?  The abstract state is the state between two calls,  *)
(* and changes when a call has issued its last command.                    *)
(***************************************************************************)
EXTENDS RedisStore

VARIABLES
    quiet,     \* the state after the last call that ended, as BrokerStore has it
    leftover   \* what an inbox held when deleteToken() deleted it: the memory
               \* store keeps the messages of a token that is gone

Memory == INSTANCE BrokerStore WITH
    tokens <- quiet.tokens, rooms <- quiet.rooms, codes <- quiet.codes,
    inboxes <- quiet.inboxes, held <- quiet.held, usedTokens <- quiet.usedTokens,
    usedRooms <- quiet.usedRooms, redeemed <- quiet.redeemed,
    recounts <- quiet.recounts, lapsed <- quiet.lapsed

serialVars == <<vars, quiet, leftover>>

SerialInit ==
    /\ Init
    /\ leftover = [t \in Token |-> <<>>]
    /\ quiet = [tokens |-> tokens, rooms |-> rooms, codes |-> codes,
                inboxes |-> inboxes, held |-> held, usedTokens |-> {},
                usedRooms |-> {}, members |-> members, redeemed |-> [r \in Room |-> "no"],
                recounts |-> [t \in Token |-> 0], lapsed |-> {}]

\* BrokerStore's histories, computed from the call as a whole.
Recounted(t) ==
    /\ held'[t] # quiet.held[t] /\ held'[t] # None
    /\ IsClose(held'[t]) /\ held'[t].again
    /\ quiet.tokens[t] # None

\* What a code that was just redeemed found.
Redeemed(r) ==
    LET p == OwnSlot(quiet.rooms[r], CreatorRole(quiet.rooms[r].sessionType))
    IN  IF p # None /\ quiet.tokens[p] # None /\ quiet.tokens[p].pendingCloseMessages = 0
        THEN "open" ELSE "closing"

JustRedeemed(r) == r \in quiet.codes \ codes' /\ members'[r] # quiet.members[r]

AsMemory ==
    [tokens |-> tokens', rooms |-> rooms', codes |-> codes',
     inboxes |-> [t \in Token |-> inboxes'[t] \o leftover'[t]],
     held |-> held',
     usedTokens |-> quiet.usedTokens \cup {t \in Token : tokens'[t] # None},
     usedRooms |-> usedRooms', members |-> members',
     redeemed |-> [r \in Room |-> IF JustRedeemed(r) THEN Redeemed(r) ELSE quiet.redeemed[r]],
     recounts |-> [t \in Token |-> quiet.recounts[t] + (IF Recounted(t) THEN 1 ELSE 0)],
     lapsed |-> quiet.lapsed]

\* A key that ends between two calls is one step here and several there: the
\* messages of an inbox expire one by one, and the age of a token passes its
\* limit before the next operation drops it.  Until all has followed, nothing
\* else happens.
Resting == \A c \in Caller : Idle(c)

LateInbox(t) == Resting /\ Len(quiet.inboxes[t]) > Len(inboxes[t]) + Len(leftover[t])
LateToken(t) == Resting /\ quiet.tokens[t] # None /\ tokens[t] = None

MessageFollows(t) ==
    /\ LateInbox(t)
    /\ quiet' = [quiet EXCEPT
          !.inboxes[t] = Tail(@),
          !.lapsed = IF IsClose(Head(quiet.inboxes[t])) THEN @ \cup {t} ELSE @]

TokenFollows(t) ==
    /\ LateToken(t)
    /\ quiet' = [quiet EXCEPT !.tokens[t] = IF @.age = 0 THEN [@ EXCEPT !.age = 1] ELSE None]

Follows == \E t \in Token : MessageFollows(t) \/ TokenFollows(t)

\* The keys that may end: of codes, of inboxes, and of tokens that never
\* entered a room.  Where the key of a participant or of a room ends, or a
\* room grows too old, the stores differ.
EndsAlike == \A t \in Token : TokenEnds(t) => tokens[t].roomName = None

SerialStep ==
    /\ Next
    /\ EndsAlike
    /\ \A c \in Caller : ~Idle(c) => call'[c] # call[c]
    /\ leftover' = [t \in Token |->
          IF tokens'[t] = None /\ \E c \in Caller : Issues(c, "del_token") /\ Command(c).t = t
          THEN inboxes[t] \o leftover[t] ELSE leftover[t]]
    /\ quiet' = IF \/ \E c \in Caller : call'[c] # NoCall
                   \/ \E t \in Token : TokenEnds(t) \/ InboxEnds(t)
                THEN quiet ELSE AsMemory

SerialNext ==
    /\ IF \E t \in Token : LateInbox(t) \/ LateToken(t)
       THEN Follows /\ UNCHANGED <<vars, leftover>>
       ELSE SerialStep
    /\ Memory!InBounds'

SerialSpec == SerialInit /\ [][SerialNext]_serialVars

\* One call after the other, the Redis store implements the memory store:
\* every call has, all its commands together, the effect of one operation
\* there, or none, and a code, an inbox or an unused token that ends there
\* ends here.  It does not where a room is too old: what maybeExpireRoom()
\* counts for the caller of touchParticipant() or sendMessage() is lost, as
\* the record read before is written back.
ImplementsMemoryStore == Memory!Spec
=============================================================================
