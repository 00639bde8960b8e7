--------------------------- MODULE BrokerRecords ---------------------------
(***************************************************************************)
(* What the two broker stores share: the records and messages they keep    *)
(* and the values that their operations compute from them.  BrokerStore    *)
(* (src/memory-broker-store.ts) and RedisStore (src/redis-broker-store.ts) *)
(* differ in when they read and write the records, not in these.           *)
(***************************************************************************)
EXTENDS Naturals, SequencesExt

CONSTANTS
    Token,          \* the tokens generateSecret('tok_') will return
    Room,           \* the room names generateSecret('room_') will return
    None,           \* null, and a missing entry of a Map
    LoopThreshold,  \* LOOP_DETECTION_THRESHOLD
    MaxInbox,       \* bound: no step leaves more in an inbox, more close notices
                    \* pending, or more of them recounted, than this
    Deadlines,      \* bound: the kinds of deadline that may pass
    Texts,          \* bound: the texts sent, each a kind and whether it is short
    HeadlessModes   \* bound: the headless settings callers ask for

DeadlineKind == {"created", "created_headless", "seen", "code", "inbox"}

ASSUME ThresholdAssumption == LoopThreshold \in Nat \ {0}

----------------------------------------------------------------------------
(* Records *)

Role == {"host", "joiner"}

\* A message's kind stands for its text: who renders it, and the badge that
\* formatDeliveredMessage() puts on a participant's text.
CloseKind == {"host_closed", "partner_left", "session_expired", "admin_closed"}
PauseKind == {"all_standby", "loop_alert"}
TextKind  == {"active_text", "standby_text"}
Kind      == CloseKind \cup PauseKind \cup TextKind \cup {"joined"}

\* from: whose text it is (None: the broker's own).
\* again: history only, TRUE once the message was taken out and put back.
Message == [kind : Kind, from : Token \cup {None}, again : BOOLEAN]

\* idle: lastSeen is further back than sessionIdleTtlMs.
\* age: the deadlines createdAt has passed: 1 the token's and the waiting
\* room's, 2 the longer one of a headless listener's waiting room.
TokenRecord ==
    [roomName : Room \cup {None}, role : Role \cup {None}, standby : BOOLEAN,
     recentShortMessageCount : Nat, pendingCloseMessages : Nat,
     idle : BOOLEAN, age : 0..2]

RoomRecord ==
    [sessionType : {"standard", "listener"}, creatorToken : Token,
     headless : BOOLEAN, hostToken : Token \cup {None},
     joinerToken : Token \cup {None}]

ASSUME BoundAssumption ==
    /\ Deadlines \subseteq DeadlineKind
    /\ Texts \subseteq TextKind \X BOOLEAN
    /\ HeadlessModes \subseteq BOOLEAN

\* None is neither an entry nor a name.
ASSUME NoneAssumption ==
    /\ None \notin Token \cup Room \cup Role
    /\ None \notin TokenRecord
    /\ None \notin RoomRecord
    /\ None \notin Message

----------------------------------------------------------------------------
(* Rooms and their slots *)

Slots(room) == {room.hostToken, room.joinerToken} \ {None}

\* Who opens a room of this type, and the role its code grants.
CreatorRole(type) == IF type = "standard" THEN "host" ELSE "joiner"
GuestRole(type)   == IF type = "listener" THEN "host" ELSE "joiner"

OwnSlot(room, role) == IF role = "host" THEN room.hostToken ELSE room.joinerToken

\* Mutant: a participant is taken for its own partner.
OwnSlotAsPartner(room, role) == OwnSlot(room, role)
PartnerSlot(room, role) == IF role = "host" THEN room.joinerToken ELSE room.hostToken

SetSlot(room, role, t) ==
    IF role = "host" THEN [room EXCEPT !.hostToken = t]
                     ELSE [room EXCEPT !.joinerToken = t]

\* deleteRoomIfEmpty()
UnlessEmpty(room) ==
    IF room.hostToken = None /\ room.joinerToken = None THEN None ELSE room

\* Mutant: the copies of a notice are counted as one.
CountedOnce(token, copies) == [token EXCEPT !.pendingCloseMessages = @ + 1]

\* markTokenForClose(): the notices themselves go to the inbox.
MarkedForClose(token, copies) == [token EXCEPT !.pendingCloseMessages = @ + copies]

IsClose(m)  == m.kind \in CloseKind
Notice(k)   == [kind |-> k, from |-> None, again |-> FALSE]
Text(k, t)  == [kind |-> k, from |-> t, again |-> FALSE]

\* The n-th smallest of a set of indices.
Nth(indices, n) == CHOOSE i \in indices : Cardinality({j \in indices : j <= i}) = n

\* SelectSeq() of the messages of other kinds, without its recursion.
Without(inbox, dropped) ==
    LET kept == {i \in DOMAIN inbox : inbox[i].kind \notin dropped}
    IN  [n \in 1..Cardinality(kept) |-> inbox[Nth(kept, n)]]

NewToken ==
    [roomName |-> None, role |-> None, standby |-> FALSE,
     recentShortMessageCount |-> 0, pendingCloseMessages |-> 0,
     idle |-> FALSE, age |-> 0]

\* pairToken()
Paired(token, r, role) ==
    [token EXCEPT !.roomName = r, !.role = role, !.standby = FALSE,
                  !.recentShortMessageCount = 0, !.idle = FALSE]

NewRoom(t, type, hl) ==
    [sessionType |-> type, creatorToken |-> t, headless |-> hl,
     hostToken   |-> IF type = "standard" THEN t ELSE None,
     joinerToken |-> IF type = "standard" THEN None ELSE t]

----------------------------------------------------------------------------
(* What operations leave and tell *)

\* Mutants: the sender's own pause stays; any unread text is taken for a
\* STANDBY one.
OwnPauseStays    == {"standby_text"}
AnyTextCancelled == {"all_standby", "standby_text", "active_text"}

\* discardObsoleteStandbyInboxMessages(): what an active text cancels in the
\* sender's own inbox.
Obsolete == {"all_standby", "standby_text"}

\* Mutant: finalizeToken() frees the host's slot only.
HostSlotOnly(room, t) == [room EXCEPT !.hostToken = IF @ = t THEN None ELSE @]

\* finalizeToken(): the slots that name t are freed.
Freed(room, t) == [room EXCEPT !.hostToken = IF @ = t THEN None ELSE @,
                               !.joinerToken = IF @ = t THEN None ELSE @]

\* What it leaves of the room.
RoomWithout(room, t) == UnlessEmpty(Freed(room, t))

\* Mutant: the last pending notice is not recognised.
NeverLast(pending) == FALSE
LastNotice(pending) == pending <= 1

\* Mutant: a joiner leaves without a word.
HostFarewell(role) ==
    IF role = "host" THEN <<Notice("host_closed"), Notice("host_closed")>> ELSE <<>>

\* The notice of a host's departure goes out twice, of a joiner's once.
Farewell(role) ==
    IF role = "host" THEN <<Notice("host_closed"), Notice("host_closed")>>
                     ELSE <<Notice("partner_left")>>
=============================================================================
