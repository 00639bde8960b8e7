----------------------------- MODULE RedisStore -----------------------------
(***************************************************************************)
(* The Redis broker store (src/redis-broker-store.ts): the same operations *)
(* as the memory store's, but each is a series of Redis commands, and the  *)
(* commands of other calls, at this instance or another, come between any  *)
(* two of them.                                                            *)
(*                                                                         *)
(* A call in progress is the sequence of the commands it still has to      *)
(* issue.  One that reads a key is replaced by what the code does with the *)
(* answer, so the values a call has read travel with the commands that     *)
(* will write them, however old they are by then.  Every action executes   *)
(* one command; the local code after it runs at once.  The first command   *)
(* of an operation is the action named after it.                           *)
(*                                                                         *)
(* Keys end by themselves (PX, PEXPIRE): actions of their own.  When       *)
(* maybeExpireRoom() finds a room too old is left open, so the fields idle *)
(* and age of the records do not change here.                              *)
(***************************************************************************)
EXTENDS BrokerRecords

CONSTANTS
    Caller,     \* bound: the calls in progress at a time
    Operations, \* bound: the operations called
    MaxCalls,   \* bound: the calls made while another is in progress, and
                \* all those made after the first of these
    Faults      \* bound: which keys may end, rooms grow old, instances crash

Operation == {"create", "join", "register_and_join", "headless", "send", "touch",
              "consume", "leave", "invalidate", "invalidate_code"}
Fault == {"token", "room", "code", "inbox", "old", "crash"}

ASSUME RedisBoundAssumption ==
    /\ Operations \subseteq Operation
    /\ Faults \subseteq Fault
    /\ MaxCalls \in Nat

VARIABLES
    tokens,      \* the keys a2a:token:*
    rooms,       \* the keys a2a:room:*
    codes,       \* the rooms whose key a2a:code:* is there
    inboxes,     \* the lists a2a:inbox:*
    held,        \* as in BrokerStore: taken for a token by the HTTP layer
    call,        \* the call a caller has in progress
    usedTokens,  \* history: tokens generated so far
    usedRooms,   \* history: room names generated so far
    members,     \* history: the tokens a room was opened for or has admitted
    calls        \* history: the calls that MaxCalls counts

keys == <<tokens, rooms, codes, inboxes>>
names == <<usedTokens, usedRooms>>
vars == <<keys, held, call, names, members, calls>>

----------------------------------------------------------------------------
(* Commands *)

SetToken(t, record)  == [do |-> "set_token", t |-> t, record |-> record]
DelToken(t)          == [do |-> "del_token", t |-> t]
SetRoom(r, record)   == [do |-> "set_room", r |-> r, record |-> record]
DelRoom(r)           == [do |-> "del_room", r |-> r]
SetCode(r)           == [do |-> "set_code", r |-> r]
DelCode(r)           == [do |-> "del_code", r |-> r]
Push(t, messages)    == [do |-> "push", t |-> t, messages |-> messages]
DelInbox(t)          == [do |-> "del_inbox", t |-> t]

\* Helpers that read first.
Pair(t, r, role)     == [do |-> "pair", t |-> t, r |-> r, role |-> role]
Mark(t, messages)    == [do |-> "mark", t |-> t, messages |-> messages]
DropIfEmpty(r)       == [do |-> "drop_if_empty", r |-> r]
CloseRoom(r, kind)   == [do |-> "close_room", r |-> r, kind |-> kind]
Expire(r)            == [do |-> "expire", r |-> r]

\* The command when the condition holds.
When(condition, commands) == IF condition THEN commands ELSE <<>>

NoCall == [op |-> "none", t |-> None, todo |-> <<>>]

Idle(c) == call[c].todo = <<>>
Alone(c) == \A d \in Caller \ {c} : Idle(d)
Command(c) == Head(call[c].todo)

\* c is about to issue a command of this kind.
Issues(c, do) == ~Idle(c) /\ Command(c).do = do

CallOf(op, t, todo) == IF todo = <<>> THEN NoCall ELSE [op |-> op, t |-> t, todo |-> todo]

\* c makes a call, of which the first command is this step.
Begins(c, op, t, todo) ==
    /\ op \in Operations
    /\ Idle(c)
    /\ call' = [call EXCEPT ![c] = CallOf(op, t, todo)]
    /\ calls' = IF Alone(c) /\ calls = 0 THEN 0 ELSE calls + 1
    /\ calls' <= MaxCalls

\* The command just issued is replaced by what the answer leads to.
Becomes(c, commands) ==
    /\ call' = [call EXCEPT ![c] = CallOf(@.op, @.t, commands \o Tail(@.todo))]
    /\ UNCHANGED calls

\* The call returns, or throws, after these commands.
Ends(c, commands) ==
    /\ call' = [call EXCEPT ![c] = CallOf(@.op, @.t, commands)]
    /\ UNCHANGED calls

Reads == UNCHANGED <<keys, held, names, members>>

\* A name is known outside once the call that makes it has returned.
Known(t) == \A c \in Caller : call[c].op = "register_and_join" => call[c].t # t
Opened(r) ==
    /\ r \in usedRooms
    /\ \A c \in Caller : call[c].op = "create" =>
          \A i \in DOMAIN call[c].todo : call[c].todo[i].do = "pair" => call[c].todo[i].r # r

----------------------------------------------------------------------------
(* Commands that write *)

WriteToken(c) ==
    /\ Issues(c, "set_token")
    /\ tokens' = [tokens EXCEPT ![Command(c).t] = Command(c).record]
    /\ Becomes(c, <<>>)
    /\ UNCHANGED <<rooms, codes, inboxes, held, names, members>>

\* deleteToken(): the token and its inbox in one DEL.
RemoveToken(c) ==
    /\ Issues(c, "del_token")
    /\ tokens' = [tokens EXCEPT ![Command(c).t] = None]
    /\ inboxes' = [inboxes EXCEPT ![Command(c).t] = <<>>]
    /\ Becomes(c, <<>>)
    /\ UNCHANGED <<rooms, codes, held, names, members>>

WriteRoom(c) ==
    /\ Issues(c, "set_room")
    /\ rooms' = [rooms EXCEPT ![Command(c).r] = Command(c).record]
    /\ Becomes(c, <<>>)
    /\ UNCHANGED <<tokens, codes, inboxes, held, names, members>>

RemoveRoom(c) ==
    /\ Issues(c, "del_room")
    /\ rooms' = [rooms EXCEPT ![Command(c).r] = None]
    /\ Becomes(c, <<>>)
    /\ UNCHANGED <<tokens, codes, inboxes, held, names, members>>

WriteCode(c) ==
    /\ Issues(c, "set_code")
    /\ codes' = codes \cup {Command(c).r}
    /\ Becomes(c, <<>>)
    /\ UNCHANGED <<tokens, rooms, inboxes, held, names, members>>

CodesWithout(r) == codes \ {r}

RemoveCode(c) ==
    /\ Issues(c, "del_code")
    /\ codes' = CodesWithout(Command(c).r)
    /\ Becomes(c, <<>>)
    /\ UNCHANGED <<tokens, rooms, inboxes, held, names, members>>

\* RPUSH of a message, or of all that a discard keeps.
PushInbox(c) ==
    /\ Issues(c, "push")
    /\ inboxes' = [inboxes EXCEPT ![Command(c).t] = @ \o Command(c).messages]
    /\ Becomes(c, <<>>)
    /\ UNCHANGED <<tokens, rooms, codes, held, names, members>>

RemoveInbox(c) ==
    /\ Issues(c, "del_inbox")
    /\ inboxes' = [inboxes EXCEPT ![Command(c).t] = <<>>]
    /\ Becomes(c, <<>>)
    /\ UNCHANGED <<tokens, rooms, codes, held, names, members>>

----------------------------------------------------------------------------
(* Helpers: a GET, and what it leads to *)

\* pairToken() throws when the token is gone.
PairToken(c) ==
    /\ Issues(c, "pair")
    /\ LET cmd == Command(c)
       IN  IF tokens[cmd.t] = None
           THEN Ends(c, <<>>)
           ELSE Becomes(c, <<SetToken(cmd.t, Paired(tokens[cmd.t], cmd.r, cmd.role))>>)
    /\ Reads

\* markTokenForClose(): one RPUSH for each copy of the notice.
Pushes(t, messages) == [i \in DOMAIN messages |-> Push(t, <<messages[i]>>)]

Marks(t, messages) ==
    <<SetToken(t, MarkedForClose(tokens[t], Len(messages)))>> \o Pushes(t, messages)

MarkTokenForClose(c) ==
    /\ Issues(c, "mark")
    /\ LET cmd == Command(c)
       IN  Becomes(c, When(tokens[cmd.t] # None, Marks(cmd.t, cmd.messages)))
    /\ Reads

DeleteRoomIfEmpty(c) ==
    /\ Issues(c, "drop_if_empty")
    /\ LET r == Command(c).r
       IN  Becomes(c, When(rooms[r] # None /\ UnlessEmpty(rooms[r]) = None, <<DelRoom(r)>>))
    /\ Reads

\* closeRoom(): the host is marked first, then the joiner.
Closing(room, kind) ==
    When(room.hostToken # None, <<Mark(room.hostToken, <<Notice(kind)>>)>>)
    \o When(room.joinerToken # None, <<Mark(room.joinerToken, <<Notice(kind)>>)>>)

CloseRoomNow(c) ==
    /\ Issues(c, "close_room")
    /\ LET cmd == Command(c)
       IN  Becomes(c, When(rooms[cmd.r] # None, Closing(rooms[cmd.r], cmd.kind)))
    /\ Reads

\* maybeExpireRoom(): without a room, or with nobody in it, the operation it
\* belongs to ends.
MaybeExpireRoom(c) ==
    /\ Issues(c, "expire")
    /\ LET r == Command(c).r
       IN  CASE rooms[r] = None -> Ends(c, <<>>)
             [] rooms[r] # None /\ Slots(rooms[r]) = {} -> Ends(c, <<DelRoom(r)>>)
             [] OTHER -> Becomes(c, <<[do |-> "expire_tokens", r |-> r,
                                       slots |-> Slots(rooms[r])]>>)
    /\ Reads

\* The GETs of both participants, which are sent together.  A room that is
\* too old is closed, and the operation goes on with what it has read.
JudgeRoom(c) ==
    /\ Issues(c, "expire_tokens")
    /\ LET cmd == Command(c)
       IN  IF \A t \in cmd.slots : tokens[t] = None
           THEN Ends(c, <<DelRoom(cmd.r)>>)
           ELSE \/ Becomes(c, <<>>)
                \/ "old" \in Faults /\ Becomes(c, <<CloseRoom(cmd.r, "session_expired")>>)
    /\ Reads

----------------------------------------------------------------------------
(* Registering, opening and joining *)

\* registerToken()
Register(t) ==
    /\ t \notin usedTokens
    /\ usedTokens' = usedTokens \cup {t}
    /\ tokens' = [tokens EXCEPT ![t] = NewToken]
    /\ UNCHANGED <<rooms, codes, inboxes, held, call, usedRooms, members, calls>>

\* setupSession(): nobody else knows a name that it writes to before it
\* returns, so its commands are one step.
SetupSession(t, r, type, hl) ==
    /\ t \notin usedTokens
    /\ r \notin usedRooms
    /\ usedTokens' = usedTokens \cup {t}
    /\ usedRooms' = usedRooms \cup {r}
    /\ tokens' = [tokens EXCEPT ![t] = Paired(NewToken, r, CreatorRole(type))]
    /\ rooms' = [rooms EXCEPT ![r] = NewRoom(t, type, hl)]
    /\ codes' = codes \cup {r}
    /\ members' = [members EXCEPT ![r] = {t}]
    /\ UNCHANGED <<inboxes, held, call, calls>>

\* createSession()
CreateSession(c, t, r, type) ==
    /\ tokens[t] # None
    /\ tokens[t].roomName = None
    /\ r \notin usedRooms
    /\ usedRooms' = usedRooms \cup {r}
    /\ members' = [members EXCEPT ![r] = {t}]
    /\ Begins(c, "create", t, <<SetRoom(r, NewRoom(t, type, FALSE)), SetCode(r),
                                Pair(t, r, CreatorRole(type))>>)
    /\ UNCHANGED <<keys, held, usedTokens>>

GetCode(t, r, new) == [do |-> "get_code", t |-> t, r |-> r, new |-> new]

\* joinSession(), given the code of room r.
JoinSession(c, t, r) ==
    /\ tokens[t] # None
    /\ tokens[t].roomName = None
    /\ Opened(r)
    /\ Begins(c, "join", t, <<GetCode(t, r, FALSE)>>)
    /\ Reads

\* registerAndJoin(): the token's own GET finds what was just set.
RegisterAndJoin(c, t, r) ==
    /\ t \notin usedTokens
    /\ usedTokens' = usedTokens \cup {t}
    /\ tokens' = [tokens EXCEPT ![t] = NewToken]
    /\ Opened(r)
    /\ Begins(c, "register_and_join", t, <<GetCode(t, r, TRUE)>>)
    /\ UNCHANGED <<rooms, codes, inboxes, held, usedRooms, members>>

CodeFound(r) == r \in codes

\* The code is not there: registerAndJoin() drops the token it made.
ReadCode(c) ==
    /\ Issues(c, "get_code")
    /\ LET cmd == Command(c)
       IN  Becomes(c, IF CodeFound(cmd.r)
                      THEN <<[do |-> "get_joined_room", t |-> cmd.t, r |-> cmd.r,
                              new |-> cmd.new]>>
                      ELSE When(cmd.new, <<DelToken(cmd.t)>>))
    /\ Reads

\* Mutants: the code is deleted last; the room is written before the pairing.
CodeLast(t, r, room, role) ==
    <<Pair(t, r, role), SetRoom(r, SetSlot(room, role, t)), DelCode(r)>>
PairedLast(t, r, room, role) ==
    <<DelCode(r), SetRoom(r, SetSlot(room, role, t)), Pair(t, r, role)>>

\* The room as it is read now is what the join writes back at its end.
Entering(t, r, room, role) ==
    <<DelCode(r), Pair(t, r, role), SetRoom(r, SetSlot(room, role, t))>>

JoinRoom(c) ==
    /\ Issues(c, "get_joined_room")
    /\ LET cmd  == Command(c)
           room == rooms[cmd.r]
           role == GuestRole(room.sessionType)
           p    == PartnerSlot(room, role)
       IN  IF room = None
           THEN /\ Becomes(c, <<DelCode(cmd.r)>> \o When(cmd.new, <<DelToken(cmd.t)>>))
                /\ UNCHANGED members
           ELSE /\ Becomes(c, Entering(cmd.t, cmd.r, room, role)
                              \o When(p # None, <<Push(p, <<Notice("joined")>>)>>))
                /\ members' = [members EXCEPT ![cmd.r] = @ \cup {cmd.t}]
    /\ UNCHANGED <<keys, held, names>>

\* updateRoomHeadless()
UpdateRoomHeadless(c, t, hl) ==
    /\ tokens[t] # None
    /\ tokens[t].roomName # None
    /\ Begins(c, "headless", t, <<[do |-> "get_own_room", t |-> t, hl |-> hl,
                                   record |-> tokens[t]]>>)
    /\ Reads

ChangeHeadless(c) ==
    /\ Issues(c, "get_own_room")
    /\ LET cmd == Command(c)
           r   == cmd.record.roomName
       IN  Becomes(c, When(rooms[r] # None /\ rooms[r].creatorToken = cmd.t,
                           <<SetRoom(r, [rooms[r] EXCEPT !.headless = cmd.hl]),
                             SetToken(cmd.t, cmd.record)>>))
    /\ Reads

----------------------------------------------------------------------------
(* Sending *)

\* sendMessage(): the sender, its room, maybeExpireRoom(), the partner.
SendMessage(c, t, kind, short) ==
    /\ tokens[t] # None
    /\ tokens[t].roomName # None
    /\ Begins(c, "send", t, <<[do |-> "get_senders_room", t |-> t, kind |-> kind,
                               short |-> short, sender |-> tokens[t]]>>)
    /\ Reads

GetSendersRoom(c) ==
    /\ Issues(c, "get_senders_room")
    /\ LET cmd == Command(c)
           r   == cmd.sender.roomName
       IN  IF rooms[r] = None THEN Becomes(c, <<>>)
           ELSE LET p == PartnerSlot(rooms[r], cmd.sender.role)
                IN  Becomes(c, <<Expire(r)>> \o
                               When(p # None, <<[do |-> "get_partner", t |-> cmd.t, p |-> p,
                                                 kind |-> cmd.kind, short |-> cmd.short,
                                                 sender |-> cmd.sender]>>))
    /\ Reads

\* Mutant: the partner's record is not written back.
SenderOnly(t, sender, p, partner) == <<SetToken(t, sender)>>
BothRecords(t, sender, p, partner) == <<SetToken(t, sender), SetToken(p, partner)>>

\* What a send does once it has read everything: the discards, the pushes,
\* and last the two records, changed from what was read.
Sending(t, sender, p, partner, kind, short) ==
    LET active == kind = "active_text"
        both   == ~active /\ partner.standby
        count  == IF short THEN sender.recentShortMessageCount + 1 ELSE 0
        paused == count >= LoopThreshold
    IN  When(active, <<[do |-> "discard", t |-> t, p |-> p]>>)
        \o When(both, <<Push(t, <<Notice("all_standby")>>), Push(p, <<Notice("all_standby")>>)>>)
        \o IF paused
           THEN <<Push(t, <<Notice("loop_alert")>>), Push(p, <<Notice("loop_alert")>>)>>
                \o BothRecords(t, [sender EXCEPT !.standby = TRUE, !.recentShortMessageCount = 0],
                               p, [partner EXCEPT !.standby = TRUE])
           ELSE <<Push(p, <<Text(kind, t)>>)>>
                \o BothRecords(t, [sender EXCEPT !.standby = ~active,
                                                 !.recentShortMessageCount = count],
                               p, [partner EXCEPT !.standby = both,
                                                  !.recentShortMessageCount = 0])

GetPartner(c) ==
    /\ Issues(c, "get_partner")
    /\ LET cmd == Command(c)
       IN  Becomes(c, When(tokens[cmd.p] # None,
                           Sending(cmd.t, cmd.sender, cmd.p, tokens[cmd.p], cmd.kind, cmd.short)))
    /\ Reads

\* The two discards run side by side on the one connection: both LRANGEs,
\* then both DELs, then both RPUSHes.
Discard(c) ==
    /\ Issues(c, "discard")
    /\ LET cmd == Command(c)
       IN  Becomes(c, <<[do |-> "discard_partner", t |-> cmd.t, p |-> cmd.p,
                         own |-> inboxes[cmd.t]]>>)
    /\ Reads

DiscardPartner(c) ==
    /\ Issues(c, "discard_partner")
    /\ LET cmd     == Command(c)
           own     == Without(cmd.own, Obsolete)
           other   == Without(inboxes[cmd.p], {"all_standby"})
           ownCut   == own # cmd.own
           otherCut == other # inboxes[cmd.p]
       IN  Becomes(c, When(ownCut, <<DelInbox(cmd.t)>>)
                      \o When(otherCut, <<DelInbox(cmd.p)>>)
                      \o When(ownCut /\ own # <<>>, <<Push(cmd.t, own)>>)
                      \o When(otherCut /\ other # <<>>, <<Push(cmd.p, other)>>))
    /\ Reads

----------------------------------------------------------------------------
(* Receiving and staying alive *)

\* touchParticipant(): what was read is written back after maybeExpireRoom().
TouchParticipant(c, t) ==
    /\ tokens[t] # None
    /\ tokens[t].roomName # None
    /\ Begins(c, "touch", t, <<Expire(tokens[t].roomName), SetToken(t, tokens[t])>>)
    /\ Reads

Consuming(t) == \E c \in Caller : call[c].op = "consume" /\ call[c].t = t

\* Mutant: every message taken counts.
AnyCounted(m) == TRUE
Counted(m) == IsClose(m)

\* consumeInboxMessage(): LPOP.  The HTTP layer takes one message at a time
\* for a token here.
ConsumeInboxMessage(c, t) ==
    /\ inboxes[t] # <<>>
    /\ held[t] = None
    /\ ~Consuming(t)
    /\ held' = [held EXCEPT ![t] = Head(inboxes[t])]
    /\ inboxes' = [inboxes EXCEPT ![t] = Tail(@)]
    /\ Begins(c, "consume", t,
              When(Counted(Head(inboxes[t])), <<[do |-> "count_close", t |-> t]>>))
    /\ UNCHANGED <<tokens, rooms, codes, names, members>>

\* The close notice taken is counted; the last one pending ends the token.
CountClose(c) ==
    /\ Issues(c, "count_close")
    /\ LET t == Command(c).t
       IN  Becomes(c, When(tokens[t] # None,
             IF LastNotice(tokens[t].pendingCloseMessages)
             THEN <<[do |-> "finalize", t |-> t]>>
             ELSE <<SetToken(t, [tokens[t] EXCEPT !.pendingCloseMessages = @ - 1])>>))
    /\ Reads

\* finalizeToken()
FinalizeToken(c) ==
    /\ Issues(c, "finalize")
    /\ LET t == Command(c).t
       IN  Becomes(c, When(tokens[t] # None /\ tokens[t].roomName # None,
                           <<[do |-> "free_slot", t |-> t, r |-> tokens[t].roomName]>>)
                      \o <<DelToken(t)>>)
    /\ Reads

FreeSlot(c) ==
    /\ Issues(c, "free_slot")
    /\ LET cmd == Command(c)
       IN  Becomes(c, When(rooms[cmd.r] # None,
                           <<SetRoom(cmd.r, Freed(rooms[cmd.r], cmd.t)), DropIfEmpty(cmd.r)>>))
    /\ Reads

\* The response that carried the message finished, or did not.
Delivered(t) ==
    /\ held[t] # None
    /\ ~Consuming(t)
    /\ held' = [held EXCEPT ![t] = None]
    /\ UNCHANGED <<keys, call, names, members, calls>>

\* requeueInboxMessageFront(): LPUSH.
Requeue(t) ==
    /\ held[t] # None
    /\ ~Consuming(t)
    /\ inboxes' = [inboxes EXCEPT ![t] = <<[held[t] EXCEPT !.again = TRUE]>> \o @]
    /\ held' = [held EXCEPT ![t] = None]
    /\ UNCHANGED <<tokens, rooms, codes, call, names, members, calls>>

----------------------------------------------------------------------------
(* Leaving and closing *)

\* leaveSession()
LeaveSession(c, t) ==
    /\ tokens[t] # None
    /\ tokens[t].roomName # None
    /\ Begins(c, "leave", t, <<[do |-> "get_left_room", t |-> t,
                                r |-> tokens[t].roomName, role |-> tokens[t].role]>>)
    /\ Reads

\* The token goes first, then the partner is told, and the room as it was
\* read loses the slot.
LeaveRoom(c) ==
    /\ Issues(c, "get_left_room")
    /\ LET cmd  == Command(c)
           room == rooms[cmd.r]
           p    == PartnerSlot(room, cmd.role)
       IN  Becomes(c, <<DelToken(cmd.t)>> \o
             IF room = None THEN <<>>
             ELSE When(p # None, <<[do |-> "tell", t |-> p, messages |-> Farewell(cmd.role)]>>)
                  \o <<SetRoom(cmd.r, SetSlot(room, cmd.role, None)), DropIfEmpty(cmd.r)>>)
    /\ Reads

\* isValidToken(), before the partner is marked.
TellPartner(c) ==
    /\ Issues(c, "tell")
    /\ LET cmd == Command(c)
       IN  Becomes(c, When(tokens[cmd.t] # None, <<Mark(cmd.t, cmd.messages)>>))
    /\ Reads

\* closeRoom() for invalidateByRoomName(), and for invalidateByToken() once
\* the token has been read.
InvalidateRoom(c, r) ==
    /\ Opened(r)
    /\ rooms[r] # None
    /\ Begins(c, "invalidate", None, Closing(rooms[r], "admin_closed"))
    /\ Reads

InvalidateByToken(c, t) ==
    /\ tokens[t] # None
    /\ tokens[t].roomName # None
    /\ Begins(c, "invalidate", None, <<CloseRoom(tokens[t].roomName, "admin_closed")>>)
    /\ Reads

InvalidateByCode(c, r) ==
    /\ Opened(r)
    /\ r \in codes
    /\ Begins(c, "invalidate_code", None, <<DelCode(r), CloseRoom(r, "admin_closed")>>)
    /\ Reads

----------------------------------------------------------------------------
(* Keys that end, and instances that stop *)

TokenEnds(t) ==
    /\ "token" \in Faults
    /\ tokens[t] # None
    /\ tokens' = [tokens EXCEPT ![t] = None]
    /\ UNCHANGED <<rooms, codes, inboxes, held, call, names, members, calls>>

\* The PX of a room is set by setRoom() only.
RoomEnds(r) ==
    /\ "room" \in Faults
    /\ rooms[r] # None
    /\ rooms' = [rooms EXCEPT ![r] = None]
    /\ UNCHANGED <<tokens, codes, inboxes, held, call, names, members, calls>>

CodeEnds(r) ==
    /\ "code" \in Faults
    /\ r \in codes
    /\ codes' = codes \ {r}
    /\ UNCHANGED <<tokens, rooms, inboxes, held, call, names, members, calls>>

\* An inbox ends as a whole.
InboxEnds(t) ==
    /\ "inbox" \in Faults
    /\ inboxes[t] # <<>>
    /\ inboxes' = [inboxes EXCEPT ![t] = <<>>]
    /\ UNCHANGED <<tokens, rooms, codes, held, call, names, members, calls>>

\* The instance stops: its call goes no further, and what it took is lost.
Crash(c) ==
    /\ "crash" \in Faults
    /\ ~Idle(c)
    /\ call' = [call EXCEPT ![c] = NoCall]
    /\ held' = IF call[c].op = "consume" THEN [held EXCEPT ![call[c].t] = None] ELSE held
    /\ UNCHANGED <<keys, names, members, calls>>

----------------------------------------------------------------------------
Init ==
    /\ tokens = [t \in Token |-> None]
    /\ rooms = [r \in Room |-> None]
    /\ codes = {}
    /\ inboxes = [t \in Token |-> <<>>]
    /\ held = [t \in Token |-> None]
    /\ call = [c \in Caller |-> NoCall]
    /\ usedTokens = {}
    /\ usedRooms = {}
    /\ members = [r \in Room |-> {}]
    /\ calls = 0

InBounds ==
    \A t \in Token :
        /\ Len(inboxes[t]) <= MaxInbox
        /\ tokens[t] # None => tokens[t].pendingCloseMessages <= MaxInbox

\* The calls that a caller may make.
Called(c) ==
    \/ \E t \in Token, r \in Room : RegisterAndJoin(c, t, r)
    \/ \E t \in {u \in Token : Known(u)} :
        \/ \E r \in Room, type \in {"standard", "listener"} : CreateSession(c, t, r, type)
        \/ \E r \in Room : JoinSession(c, t, r)
        \/ \E hl \in HeadlessModes : UpdateRoomHeadless(c, t, hl)
        \/ \E text \in Texts : SendMessage(c, t, text[1], text[2])
        \/ TouchParticipant(c, t)
        \/ ConsumeInboxMessage(c, t)
        \/ LeaveSession(c, t)
        \/ InvalidateByToken(c, t)
    \/ \E r \in Room : InvalidateRoom(c, r) \/ InvalidateByCode(c, r)

\* The commands of a call in progress.
Writes(c) ==
    \/ WriteToken(c) \/ RemoveToken(c) \/ WriteRoom(c) \/ RemoveRoom(c)
    \/ WriteCode(c) \/ RemoveCode(c) \/ PushInbox(c) \/ RemoveInbox(c)

Asks(c) ==
    \/ PairToken(c) \/ MarkTokenForClose(c) \/ DeleteRoomIfEmpty(c) \/ CloseRoomNow(c)
    \/ MaybeExpireRoom(c) \/ JudgeRoom(c) \/ ReadCode(c) \/ JoinRoom(c)
    \/ ChangeHeadless(c) \/ GetSendersRoom(c) \/ GetPartner(c) \/ Discard(c)
    \/ DiscardPartner(c) \/ CountClose(c) \/ FinalizeToken(c) \/ FreeSlot(c)
    \/ LeaveRoom(c) \/ TellPartner(c)

\* Calls of one step.
Single ==
    \E t \in Token :
        \/ Register(t)
        \/ \E r \in Room, type \in {"standard", "listener"}, hl \in HeadlessModes :
              SetupSession(t, r, type, hl)
        \/ Delivered(t)
        \/ Requeue(t)

Ending ==
    \/ \E t \in Token : TokenEnds(t) \/ InboxEnds(t)
    \/ \E r \in Room : RoomEnds(r) \/ CodeEnds(r)

Next ==
    /\ \/ \E c \in Caller : Called(c) \/ Writes(c) \/ Asks(c) \/ Crash(c)
       \/ Single
       \/ Ending
    /\ InBounds'

Spec == Init /\ [][Next]_vars
----------------------------------------------------------------------------
(* Properties: what the calls keep, however their commands interleave *)

RecordsOK ==
    /\ tokens \in [Token -> TokenRecord \cup {None}]
    /\ rooms \in [Room -> RoomRecord \cup {None}]
    /\ codes \subseteq Room
    /\ \A t \in Token : \A i \in DOMAIN inboxes[t] : inboxes[t][i] \in Message
    /\ held \in [Token -> Message \cup {None}]

HistoryOK ==
    /\ usedTokens \subseteq Token
    /\ usedRooms \subseteq Room
    /\ members \in [Room -> SUBSET Token]
    /\ calls \in 0..MaxCalls

\* Keys hold records of their kind.
TypeOK == RecordsOK /\ HistoryOK

\* A code is deleted before its redeemer is paired or put in the room, so
\* wherever a call stops, and whatever old record another call writes back,
\* a code that can be redeemed belongs to a room without a guest.
RedeemedCodeIsGone ==
    \A r \in codes : rooms[r] # None =>
        /\ OwnSlot(rooms[r], GuestRole(rooms[r].sessionType)) = None
        /\ \A t \in Token \ {rooms[r].creatorToken} :
              tokens[t] # None => tokens[t].roomName # r

\* A join pairs its token before it writes the room, so a partner never finds
\* a guest that could neither answer nor leave, wherever a join stopped.  No
\* record or room that some call read long before and writes back brings one
\* about either.  (A creator whose create stopped halfway may be its own guest.)
GuestsArePaired ==
    \A r \in Room : rooms[r] # None =>
        LET guest == OwnSlot(rooms[r], GuestRole(rooms[r].sessionType))
        IN  guest \notin {None, rooms[r].creatorToken} /\ tokens[guest] # None =>
                tokens[guest].roomName # None

Leaving(t) == \E c \in Caller : call[c].op = "leave" /\ call[c].t = t

\* Apart from the end of its key, a participant's token is deleted only by its
\* own leave or while it takes a close notice: not by a join that finds no room,
\* by another message read, or by its partner's leaving, however these overlap
\* and whatever count of notices an old record brings back.
TokenGoesKnowingly ==
    [][\A t \in Token :
          tokens[t] # None /\ tokens[t].roomName # None /\ tokens'[t] = None =>
              \/ TokenEnds(t)
              \/ Leaving(t)
              \/ Consuming(t) /\ IsClose(held[t])]_vars

\* Calls write back rooms and records that they read long before, but never
\* into another session: rooms hold, and records name, only participants
\* that opened the room or came with its code, and what is in an inbox was
\* said in a room of both.  With the one room of the runs it says nothing;
\* RedisProofs proves it for any number.
SessionsStayApart ==
    /\ \A r \in Room : rooms[r] # None => Slots(rooms[r]) \subseteq members[r]
    /\ \A t \in Token :
          /\ tokens[t] # None /\ tokens[t].roomName # None => t \in members[tokens[t].roomName]
          /\ \A i \in DOMAIN inboxes[t] :
                inboxes[t][i].from # None =>
                    \E r \in Room : {t, inboxes[t][i].from} \subseteq members[r]
=============================================================================
