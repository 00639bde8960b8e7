---------------------------- MODULE BrokerStore ----------------------------
(***************************************************************************)
(* The in-memory broker store (src/memory-broker-store.ts): the tables of  *)
(* tokens, rooms, one-time codes and inboxes, and every operation the HTTP *)
(* layer calls on them.                                                    *)
(*                                                                         *)
(* The store runs on one thread and no operation yields between reading    *)
(* and writing a table, so an operation is one action.  Almost every       *)
(* operation starts with cleanupExpired(): it does not change the tables   *)
(* in a step of its own but is the first half of the operation's step.     *)
(* The state functions Clean* are the tables as cleanupExpired() leaves    *)
(* them, and the operations read and update those.                         *)
(*                                                                         *)
(* Clocks are abstracted to deadlines that have passed or not.  A deadline *)
(* passes in an action of its own (time), and the next operation's cleanup *)
(* acts on it.                                                             *)
(***************************************************************************)
EXTENDS BrokerRecords

VARIABLES
    tokens,      \* the Map tokens
    rooms,       \* the Map rooms
    codes,       \* the Map codes: the rooms whose code can be redeemed
    inboxes,     \* the Map inboxes
    held,        \* the message the HTTP layer took for a token and has
                 \* neither delivered nor put back
    usedTokens,  \* history: tokens generated so far
    usedRooms,   \* history: room names generated so far
    redeemed,    \* history: what became of a room's code
    recounts,    \* history: close notices counted down again after they had
                 \* been put back
    lapsed       \* history: tokens of which a close notice expired unread

history == <<usedTokens, usedRooms, redeemed, recounts, lapsed>>
vars == <<tokens, rooms, codes, inboxes, held, history>>

----------------------------------------------------------------------------
(* cleanupExpired() *)

HasRecord(t) == t # None /\ tokens[t] # None
BothPresent(room)  == HasRecord(room.hostToken) /\ HasRecord(room.joinerToken)
NobodyPresent(room) == ~HasRecord(room.hostToken) /\ ~HasRecord(room.joinerToken)

\* getWaitingRoomTtlMs(): how old a lone participant may be.
WaitingTtl(room) ==
    IF room.sessionType = "listener" /\ room.headless THEN 2 ELSE 1

\* Two participants are judged by the newest lastSeen, a lone one by its
\* createdAt.
RoomExpired(room) ==
    IF BothPresent(room)
    THEN tokens[room.hostToken].idle /\ tokens[room.joinerToken].idle
    ELSE \E t \in {room.hostToken, room.joinerToken} :
            HasRecord(t) /\ tokens[t].age >= WaitingTtl(room)

Expiring(t) ==
    /\ tokens[t] # None
    /\ \E r \in Room : /\ rooms[r] # None
                       /\ t \in {rooms[r].hostToken, rooms[r].joinerToken}
                       /\ RoomExpired(rooms[r])

\* Mutant: tokenTtlMs applies to participants too.
AnyTokenExpired(token) == token.age >= 1

\* tokenTtlMs applies to a token that never entered a room.
TokenExpired(token) == token.roomName = None /\ token.age >= 1

CleanTokens ==
    [t \in Token |->
        IF tokens[t] = None THEN None
        ELSE IF TokenExpired(tokens[t]) THEN None
        ELSE IF Expiring(t) THEN [MarkedForClose(tokens[t], 1) EXCEPT !.idle = FALSE]
        ELSE tokens[t]]

CleanRooms ==
    [r \in Room |-> IF rooms[r] = None THEN None
                    ELSE IF NobodyPresent(rooms[r]) THEN None
                    ELSE rooms[r]]

CleanInboxes ==
    [t \in Token |-> IF Expiring(t)
                     THEN Append(inboxes[t], Notice("session_expired"))
                     ELSE inboxes[t]]

\* A participant's room, as an operation finds it after cleanup.
RoomOf(t) ==
    IF CleanTokens[t] = None \/ CleanTokens[t].roomName = None THEN None
    ELSE CleanRooms[CleanTokens[t].roomName]

\* The other side, when it has a token record.
PartnerOf(t) ==
    IF RoomOf(t) = None THEN None
    ELSE LET p == PartnerSlot(RoomOf(t), CleanTokens[t].role)
         IN  IF p = None \/ CleanTokens[p] = None THEN None ELSE p

----------------------------------------------------------------------------
(* Registering, opening and joining *)

\* registerToken()
Register(t) ==
    /\ t \notin usedTokens
    /\ usedTokens' = usedTokens \cup {t}
    /\ tokens' = [CleanTokens EXCEPT ![t] = NewToken]
    /\ rooms' = CleanRooms
    /\ inboxes' = CleanInboxes
    /\ UNCHANGED <<codes, held, usedRooms, redeemed, recounts, lapsed>>

\* A room, its code and the pairing of its creator, whose record is tr.
OpenRoom(t, tr, r, type, hl) ==
    /\ r \notin usedRooms
    /\ usedRooms' = usedRooms \cup {r}
    /\ tokens' = [CleanTokens EXCEPT ![t] = Paired(tr, r, CreatorRole(type))]
    /\ rooms' = [CleanRooms EXCEPT ![r] = NewRoom(t, type, hl)]
    /\ codes' = codes \cup {r}
    /\ inboxes' = CleanInboxes
    /\ UNCHANGED <<held, redeemed, recounts, lapsed>>

\* setupSession().  Like registerAndJoin() it runs cleanupExpired() again in
\* the calls it makes: that is an Observe before this step.
SetupSession(t, r, type, hl) ==
    /\ t \notin usedTokens
    /\ usedTokens' = usedTokens \cup {t}
    /\ OpenRoom(t, NewToken, r, type, hl)

\* createSession()
CreateSession(t, r, type) ==
    /\ CleanTokens[t] # None
    /\ CleanTokens[t].roomName = None
    /\ OpenRoom(t, CleanTokens[t], r, type, FALSE)
    /\ UNCHANGED usedTokens

\* Mutant: a redeemed code stays valid.
CodesKept(r) == codes
CodesWithout(r) == codes \ {r}

\* Redeeming the code of room r for the token record tr of t: the code goes,
\* t takes the guest's slot, and whoever sits in the other slot is told.
JoinRoom(t, tr, r) ==
    /\ r \in codes
    /\ CleanRooms[r] # None
    /\ LET role == GuestRole(CleanRooms[r].sessionType)
           p    == PartnerSlot(CleanRooms[r], role)
       IN  /\ tokens' = [CleanTokens EXCEPT ![t] = Paired(tr, r, role)]
           /\ rooms' = [CleanRooms EXCEPT ![r] = SetSlot(@, role, t)]
           /\ inboxes' = IF p = None THEN CleanInboxes
                         ELSE [CleanInboxes EXCEPT ![p] = Append(@, Notice("joined"))]
           /\ redeemed' = [redeemed EXCEPT ![r] =
                IF p # None /\ CleanTokens[p] # None /\ CleanTokens[p].pendingCloseMessages = 0
                THEN "open" ELSE "closing"]
    /\ codes' = CodesWithout(r)
    /\ UNCHANGED <<held, usedRooms, recounts, lapsed>>

\* joinSession()
JoinSession(t, r) ==
    /\ CleanTokens[t] # None
    /\ CleanTokens[t].roomName = None
    /\ JoinRoom(t, CleanTokens[t], r)
    /\ UNCHANGED usedTokens

\* registerAndJoin() that succeeds; one that fails leaves nothing behind.
RegisterAndJoin(t, r) ==
    /\ t \notin usedTokens
    /\ usedTokens' = usedTokens \cup {t}
    /\ JoinRoom(t, NewToken, r)

\* Either join, given the code of a room that is gone: the code goes too.
JoinGoneRoom(r) ==
    /\ r \in codes
    /\ CleanRooms[r] = None
    /\ codes' = codes \ {r}
    /\ tokens' = CleanTokens
    /\ rooms' = CleanRooms
    /\ inboxes' = CleanInboxes
    /\ UNCHANGED <<held, history>>

\* updateRoomHeadless()
UpdateRoomHeadless(t, hl) ==
    /\ RoomOf(t) # None
    /\ RoomOf(t).creatorToken = t
    /\ rooms' = [CleanRooms EXCEPT ![CleanTokens[t].roomName].headless = hl]
    /\ tokens' = [CleanTokens EXCEPT ![t].idle = FALSE]
    /\ inboxes' = CleanInboxes
    /\ UNCHANGED <<codes, held, history>>

----------------------------------------------------------------------------
(* Sending, receiving and staying alive *)

\* touchParticipant(), and sendMessage() when the partner is not connected:
\* only the caller's lastSeen changes.
Touch(t) ==
    /\ CleanTokens[t] # None
    /\ CleanTokens[t].roomName # None
    /\ tokens' = [CleanTokens EXCEPT ![t].idle = FALSE]
    /\ rooms' = CleanRooms
    /\ inboxes' = CleanInboxes
    /\ UNCHANGED <<codes, held, history>>

\* sendMessage() with a partner.  kind is the text's kind: standby_text when
\* its trailing signal is STANDBY, else active_text; short says it is below
\* SHORT_MESSAGE_BYTES.  An active text cancels the pause messages of both
\* and the sender's unread standby texts.  A text that completes a run of
\* LoopThreshold short ones is replaced by an alert to both.
SendMessage(t, kind, short) ==
    /\ PartnerOf(t) # None
    /\ LET p      == PartnerOf(t)
           active == kind = "active_text"
           both   == ~active /\ CleanTokens[p].standby
           count  == IF short THEN CleanTokens[t].recentShortMessageCount + 1 ELSE 0
           paused == count >= LoopThreshold
           pause  == (IF both THEN <<Notice("all_standby")>> ELSE <<>>)
                     \o (IF paused THEN <<Notice("loop_alert")>> ELSE <<>>)
           own    == IF active THEN Without(CleanInboxes[t], Obsolete)
                     ELSE CleanInboxes[t]
           other  == IF active THEN Without(CleanInboxes[p], {"all_standby"})
                     ELSE CleanInboxes[p]
           sender   == [CleanTokens[t] EXCEPT
                          !.idle = FALSE, !.standby = paused \/ ~active,
                          !.recentShortMessageCount = IF paused THEN 0 ELSE count]
           receiver == [CleanTokens[p] EXCEPT
                          !.standby = paused \/ both,
                          !.recentShortMessageCount = IF paused THEN @ ELSE 0]
       IN  /\ tokens' = [CleanTokens EXCEPT ![t] = sender, ![p] = receiver]
           /\ inboxes' = [CleanInboxes EXCEPT
                ![t] = own \o pause,
                ![p] = other \o pause \o (IF paused THEN <<>> ELSE <<Text(kind, t)>>)]
    /\ rooms' = CleanRooms
    /\ UNCHANGED <<codes, held, history>>

\* The close notice consumed is accounted for before it is delivered: the
\* last one pending ends the token and its place in the room.
AccountForClose(t) ==
    IF LastNotice(CleanTokens[t].pendingCloseMessages)
    THEN /\ tokens' = [CleanTokens EXCEPT ![t] = None]
         /\ rooms' = IF RoomOf(t) = None THEN CleanRooms
                     ELSE [CleanRooms EXCEPT ![CleanTokens[t].roomName] = RoomWithout(@, t)]
    ELSE /\ tokens' = [CleanTokens EXCEPT ![t].pendingCloseMessages = @ - 1]
         /\ rooms' = CleanRooms

\* consumeInboxMessage(): the HTTP layer takes the head of t's inbox.  It
\* takes one message at a time here; a notice counts only for a token that is
\* still there.
Consume(t) ==
    /\ CleanInboxes[t] # <<>>
    /\ held[t] = None
    /\ LET m       == Head(CleanInboxes[t])
           counted == IsClose(m) /\ CleanTokens[t] # None
       IN  /\ held' = [held EXCEPT ![t] = m]
           /\ inboxes' = [CleanInboxes EXCEPT ![t] = Tail(@)]
           /\ IF counted THEN AccountForClose(t)
              ELSE tokens' = CleanTokens /\ rooms' = CleanRooms
           /\ recounts' = IF counted /\ m.again
                          THEN [recounts EXCEPT ![t] = @ + 1] ELSE recounts
    /\ UNCHANGED <<codes, usedTokens, usedRooms, redeemed, lapsed>>

\* The response that carried the message finished.
Delivered(t) ==
    /\ held[t] # None
    /\ held' = [held EXCEPT ![t] = None]
    /\ UNCHANGED <<tokens, rooms, codes, inboxes, history>>

\* requeueInboxMessageFront(): it did not finish.
Requeue(t) ==
    /\ held[t] # None
    /\ inboxes' = [CleanInboxes EXCEPT ![t] = <<[held[t] EXCEPT !.again = TRUE]>> \o @]
    /\ held' = [held EXCEPT ![t] = None]
    /\ tokens' = CleanTokens
    /\ rooms' = CleanRooms
    /\ UNCHANGED <<codes, history>>

\* Every call that only reads, or is refused: ping, isValidToken, the rate
\* limiter, the metrics.  It still runs cleanupExpired().
Observe ==
    /\ tokens' = CleanTokens
    /\ rooms' = CleanRooms
    /\ inboxes' = CleanInboxes
    /\ UNCHANGED <<codes, held, history>>

----------------------------------------------------------------------------
(* Leaving and closing *)

\* leaveSession().  A token whose room is gone is just dropped.
LeaveSession(t) ==
    /\ CleanTokens[t] # None
    /\ CleanTokens[t].roomName # None
    /\ LET r    == CleanTokens[t].roomName
           role == CleanTokens[t].role
           p    == PartnerOf(t)
       IN  /\ rooms' = IF RoomOf(t) = None THEN CleanRooms
                       ELSE [CleanRooms EXCEPT ![r] = UnlessEmpty(SetSlot(@, role, None))]
           /\ IF p = None
              THEN /\ tokens' = [CleanTokens EXCEPT ![t] = None]
                   /\ inboxes' = CleanInboxes
              ELSE /\ tokens' = [CleanTokens EXCEPT
                        ![t] = None,
                        ![p] = MarkedForClose(@, Len(Farewell(role)))]
                   /\ inboxes' = [CleanInboxes EXCEPT ![p] = @ \o Farewell(role)]
    /\ UNCHANGED <<codes, held, history>>

\* closeRoom() by an administrator on the tables tk, rm and ib: a notice to
\* everyone in the room, who stay in it until they consume the notice.
CloseRoom(r, tk, rm, ib) ==
    LET told == IF rm[r] = None THEN {} ELSE {t \in Slots(rm[r]) : tk[t] # None}
    IN  /\ tokens' = [t \in Token |->
                IF t \in told THEN MarkedForClose(tk[t], 1) ELSE tk[t]]
        /\ inboxes' = [t \in Token |->
                IF t \in told THEN Append(ib[t], Notice("admin_closed")) ELSE ib[t]]
        /\ rooms' = rm

\* invalidateByRoomName(), and invalidateByToken() of a token in r: the two
\* operations that do not clean up first.
InvalidateRoom(r) ==
    /\ rooms[r] # None
    /\ CloseRoom(r, tokens, rooms, inboxes)
    /\ UNCHANGED <<codes, held, history>>

\* invalidateByCode()
InvalidateByCode(r) ==
    /\ r \in codes
    /\ codes' = codes \ {r}
    /\ CloseRoom(r, CleanTokens, CleanRooms, CleanInboxes)
    /\ UNCHANGED <<held, history>>

----------------------------------------------------------------------------
(* Time *)

\* createdAt passes the next of its deadlines.
TokenAges(t) ==
    /\ tokens[t] # None
    /\ \/ "created" \in Deadlines /\ tokens[t].age = 0
       \/ "created_headless" \in Deadlines /\ tokens[t].age = 1
    /\ tokens' = [tokens EXCEPT ![t].age = @ + 1]
    /\ UNCHANGED <<rooms, codes, inboxes, held, history>>

\* lastSeen passes sessionIdleTtlMs.
TokenIdles(t) ==
    /\ "seen" \in Deadlines
    /\ tokens[t] # None
    /\ ~tokens[t].idle
    /\ tokens' = [tokens EXCEPT ![t].idle = TRUE]
    /\ UNCHANGED <<rooms, codes, inboxes, held, history>>

\* A code expires: no operation can tell an expired code from a deleted one.
CodeLapses(r) ==
    /\ "code" \in Deadlines
    /\ r \in codes
    /\ codes' = codes \ {r}
    /\ UNCHANGED <<tokens, rooms, inboxes, held, history>>

\* The oldest message of an inbox expires.  One put back at the front got a
\* new deadline, so the one behind it may be older.  A close notice that
\* expires stays counted in pendingCloseMessages.
MessageLapses(t) ==
    /\ "inbox" \in Deadlines
    /\ \E i \in DOMAIN inboxes[t] :
          /\ i = 1 \/ (i = 2 /\ inboxes[t][1].again)
          /\ inboxes' = [inboxes EXCEPT ![t] = RemoveAt(@, i)]
          /\ lapsed' = IF IsClose(inboxes[t][i]) THEN lapsed \cup {t} ELSE lapsed
    /\ UNCHANGED <<tokens, rooms, codes, held, usedTokens, usedRooms, redeemed, recounts>>

----------------------------------------------------------------------------
Init ==
    /\ tokens = [t \in Token |-> None]
    /\ rooms = [r \in Room |-> None]
    /\ codes = {}
    /\ inboxes = [t \in Token |-> <<>>]
    /\ held = [t \in Token |-> None]
    /\ usedTokens = {}
    /\ usedRooms = {}
    /\ redeemed = [r \in Room |-> "no"]
    /\ recounts = [t \in Token |-> 0]
    /\ lapsed = {}

InBounds ==
    \A t \in Token :
        /\ Len(inboxes[t]) <= MaxInbox
        /\ recounts[t] <= MaxInbox
        /\ tokens[t] # None => tokens[t].pendingCloseMessages <= MaxInbox

Open ==
    \E t \in Token :
        \/ Register(t)
        \/ \E r \in Room, type \in {"standard", "listener"} :
              \/ CreateSession(t, r, type)
              \/ \E hl \in HeadlessModes : SetupSession(t, r, type, hl)

Join ==
    \E r \in Room :
        \/ \E t \in Token : JoinSession(t, r) \/ RegisterAndJoin(t, r)
        \/ JoinGoneRoom(r)

Talk ==
    \/ Observe
    \/ \E t \in Token :
        \/ Touch(t)
        \/ \E text \in Texts : SendMessage(t, text[1], text[2])
        \/ Consume(t)
        \/ Delivered(t)
        \/ Requeue(t)
        \/ \E hl \in HeadlessModes : UpdateRoomHeadless(t, hl)

Close ==
    \/ \E t \in Token : LeaveSession(t)
    \/ \E r \in Room : InvalidateRoom(r) \/ InvalidateByCode(r)

Time ==
    \/ \E t \in Token : TokenAges(t) \/ TokenIdles(t) \/ MessageLapses(t)
    \/ \E r \in Room : CodeLapses(r)

Next == (Open \/ Join \/ Talk \/ Close \/ Time) /\ InBounds'

Spec == Init /\ [][Next]_vars

----------------------------------------------------------------------------
(* Properties *)

\* Types.  Split in two: what the tables say of each other rests on the
\* first part only.
TablesOK ==
    /\ tokens \in [Token -> TokenRecord \cup {None}]
    /\ rooms \in [Room -> RoomRecord \cup {None}]
    /\ codes \subseteq usedRooms
    /\ usedTokens \subseteq Token
    /\ usedRooms \subseteq Room
    /\ redeemed \in [Room -> {"no", "open", "closing"}]
    /\ recounts \in [Token -> Nat]
    /\ lapsed \subseteq Token

InboxesOK ==
    /\ inboxes \in [Token -> Seq(Message)]
    /\ held \in [Token -> Message \cup {None}]

TypeOK == TablesOK /\ InboxesOK

\* Tokens and rooms name each other: a participant's record says which room
\* it is in and in which role exactly when that slot of that room names it,
\* and a room that is left has someone in it.  So the code's answers for a
\* participant whose room is gone, or whose partner has no record, are for
\* states that do not arise.
RoomTokenAgreement ==
    /\ \A t \in Token :
         tokens[t] # None =>
           \/ tokens[t].roomName = None /\ tokens[t].role = None
           \/ /\ tokens[t].roomName # None /\ tokens[t].role # None
              /\ rooms[tokens[t].roomName] # None
              /\ OwnSlot(rooms[tokens[t].roomName], tokens[t].role) = t
    /\ \A r \in Room :
         rooms[r] # None =>
           /\ Slots(rooms[r]) # {}
           /\ \A role \in Role :
                LET t == OwnSlot(rooms[r], role)
                IN  t # None => /\ tokens[t] # None
                                /\ tokens[t].roomName = r
                                /\ tokens[t].role = role

\* A code works once: while a room's code can still be redeemed nobody has
\* redeemed it, the guest's slot is free and the creator is in its own.  No
\* join can push a participant out of a slot.
CodeGuardsFreeSlot ==
    \A r \in codes :
        /\ redeemed[r] = "no"
        /\ rooms[r] # None =>
             /\ OwnSlot(rooms[r], GuestRole(rooms[r].sessionType)) = None
             /\ OwnSlot(rooms[r], CreatorRole(rooms[r].sessionType)) = rooms[r].creatorToken

\* Nobody is left behind in silence: when one side of a session is gone a
\* close notice waits in the other's inbox, however the first side went and
\* whatever was closed, taken out and put back before.  The exceptions are a
\* participant that let a close notice expire unread, and a guest who joined
\* a room that was already closing.
LoneParticipantIsNotified ==
    \A r \in Room : \A t \in Token :
        (rooms[r] # None /\ redeemed[r] = "open" /\ Slots(rooms[r]) = {t})
            => t \in lapsed \/ \E i \in DOMAIN inboxes[t] : IsClose(inboxes[t][i])

\* The close notices in an inbox are all counted by pendingCloseMessages, so
\* a token is not dropped while a notice it has not seen is queued: except as
\* often as a notice that was put back is counted down a second time.
QueuedNoticesAreCounted ==
    \A t \in Token :
        tokens[t] # None =>
            Cardinality({i \in DOMAIN inboxes[t] :
                            IsClose(inboxes[t][i]) /\ ~inboxes[t][i].again})
                <= tokens[t].pendingCloseMessages + recounts[t]

\* "Both agents have signaled STANDBY" is queued only while it is true: the
\* reader and its partner, if still there, are both standing by.
PauseIsCurrent ==
    \A t \in Token :
        (tokens[t] # None /\ \E i \in DOMAIN inboxes[t] :
              inboxes[t][i].kind = "all_standby" /\ ~inboxes[t][i].again)
        => /\ tokens[t].standby
           /\ \A p \in Token :
                (p # t /\ tokens[p] # None /\ tokens[p].roomName = tokens[t].roomName)
                    => tokens[p].standby

\* Sessions do not mix: a text in an inbox is by somebody else, and of the
\* same room while both have one.
TextsStayInTheRoom ==
    \A t \in Token : \A i \in DOMAIN inboxes[t] :
        LET from == inboxes[t][i].from
        IN  inboxes[t][i].kind \in TextKind =>
              /\ from # t
              /\ (tokens[t] # None /\ tokens[from] # None)
                    => tokens[from].roomName = tokens[t].roomName

\* A text that expects an answer is never discarded unread: it leaves the
\* inbox by being taken out, or by reaching inboxTtlMs.
ActiveTexts(inbox) == {i \in DOMAIN inbox : inbox[i].kind = "active_text"}

ActiveTextIsKept ==
    [][\A t \in Token :
         Cardinality(ActiveTexts(inboxes'[t])) < Cardinality(ActiveTexts(inboxes[t]))
             => held'[t] # held[t] \/ MessageLapses(t)]_vars

\* A session is not lost without a word: a participant's token goes in a step
\* that is its own leave, or that hands it a close notice.
TokenEndsKnowingly ==
    [][\A t \in Token :
         (tokens[t] # None /\ tokens[t].roomName # None /\ tokens'[t] = None)
             => \/ LeaveSession(t)
                \/ held[t] = None /\ held'[t] # None /\ IsClose(held'[t])]_vars
=============================================================================
