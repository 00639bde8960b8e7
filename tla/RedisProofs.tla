---------------------------- MODULE RedisProofs ----------------------------
(***************************************************************************)
(* What holds of the Redis broker store however the commands of its calls  *)
(* interleave, whatever keys end and wherever calls stop, for any sets of  *)
(* tokens, rooms and callers.                                              *)
(*                                                                         *)
(* The commands a call still has to issue carry what it read long before.  *)
(* So the invariant is of the pending commands as much as of the keys:     *)
(* whatever they will write is as good as what the keys hold.              *)
(***************************************************************************)
EXTENDS RedisStore, BrokerRecordsProofs

----------------------------------------------------------------------------
(* Sound commands.  Who may be in which room is what the history members   *)
(* says, and it only grows, so a command that is sound stays sound.        *)

\* A record names no room that t has not been admitted to.
Admitted(t, record, m) == record.roomName # None => t \in m[record.roomName]

\* Everybody whom the record of room r names has been admitted to it.
Peopled(r, room, m) == Slots(room) \cup {room.creatorToken} \subseteq m[r]

Met(t, p, m) == \E r \in Room : {t, p} \subseteq m[r]

\* What t may find in its inbox: notices, and texts of those it met.
Hearable(t, m) == {x \in Message : x.from # None => Met(t, x.from, m)}
Notices == {x \in Message : x.from = None}

\* Rooms that somebody opened.
Inhabited(m) == {r \in Room : m[r] # {}}

OnTokens == [do : {"del_token", "del_inbox", "count_close", "finalize"}, t : Token]
OnRooms(m) == [do : {"set_code", "del_code"}, r : Inhabited(m)]
              \cup [do : {"del_room", "drop_if_empty", "expire"}, r : Room]
SetTokens(m) == {cmd \in [do : {"set_token"}, t : Token, record : TokenRecord] :
                    Admitted(cmd.t, cmd.record, m)}
SetRooms(m) == {cmd \in [do : {"set_room"}, r : Room, record : RoomRecord] :
                    Peopled(cmd.r, cmd.record, m)}
PushesTo(m) == {cmd \in [do : {"push"}, t : Token, messages : Seq(Message)] :
                    cmd.messages \in Seq(Hearable(cmd.t, m))}
Pairs(m) == {cmd \in [do : {"pair"}, t : Token, r : Room, role : Role] : cmd.t \in m[cmd.r]}
Tells == [do : {"mark", "tell"}, t : Token, messages : Seq(Notices)]
Closes == [do : {"close_room"}, r : Room, kind : CloseKind]
Judges == [do : {"expire_tokens"}, r : Room, slots : SUBSET Token]
Codes == [do : {"get_code"}, t : Token, r : Room, new : BOOLEAN]
Joins(m) == [do : {"get_joined_room"}, t : Token, r : Inhabited(m), new : BOOLEAN]
Headlesses(m) == {cmd \in [do : {"get_own_room"}, t : Token, hl : BOOLEAN, record : TokenRecord] :
                    cmd.record.roomName # None /\ Admitted(cmd.t, cmd.record, m)}
Sends(m) == {cmd \in [do : {"get_senders_room"}, t : Token, kind : TextKind, short : BOOLEAN,
                      sender : TokenRecord] :
                cmd.sender.roomName # None /\ Admitted(cmd.t, cmd.sender, m)}
Partners(m) == {cmd \in [do : {"get_partner"}, t : Token, p : Token, kind : TextKind,
                         short : BOOLEAN, sender : TokenRecord] :
                  Met(cmd.t, cmd.p, m) /\ Admitted(cmd.t, cmd.sender, m)}
Discards == [do : {"discard"}, t : Token, p : Token]
OwnDiscards(m) == {cmd \in [do : {"discard_partner"}, t : Token, p : Token, own : Seq(Message)] :
                     cmd.own \in Seq(Hearable(cmd.t, m))}
Frees == [do : {"free_slot"}, t : Token, r : Room]
Leaves == [do : {"get_left_room"}, t : Token, r : Room, role : Role \cup {None}]

Sound(m) ==
    OnTokens \cup OnRooms(m) \cup SetTokens(m) \cup SetRooms(m) \cup PushesTo(m)
    \cup Pairs(m) \cup Tells \cup Closes \cup Judges \cup Codes \cup Joins(m)
    \cup Headlesses(m) \cup Sends(m) \cup Partners(m) \cup Discards \cup OwnDiscards(m)
    \cup Frees \cup Leaves

----------------------------------------------------------------------------
(* The first invariant: types, and whom a room has admitted *)

Typed ==
    /\ tokens \in [Token -> TokenRecord \cup {None}]
    /\ rooms \in [Room -> RoomRecord \cup {None}]
    /\ codes \subseteq Inhabited(members)
    /\ inboxes \in [Token -> Seq(Message)]
    /\ held \in [Token -> Message \cup {None}]
    /\ HistoryOK

\* Nobody was admitted to a room whose name was not generated yet.
Unopened == \A r \in Room : r \notin usedRooms => members[r] = {}

RecordsApart ==
    /\ \A t \in Token : tokens[t] # None => Admitted(t, tokens[t], members)
    /\ \A r \in Room : rooms[r] # None => Peopled(r, rooms[r], members)

MessagesApart ==
    \A t \in Token :
        /\ inboxes[t] \in Seq(Hearable(t, members))
        /\ held[t] # None => held[t] \in Hearable(t, members)

CallType(m) == [op : Operation \cup {"none"}, t : Token \cup {None}, todo : Seq(Sound(m))]
CallsSound == call \in [Caller -> CallType(members)]

\* A call that consumes is a participant's.
Consumers == \A c \in Caller : call[c].op = "consume" => call[c].t \in Token

RInv == Typed /\ Unopened /\ RecordsApart /\ MessagesApart /\ CallsSound /\ Consumers

----------------------------------------------------------------------------
(* The second: a code and its room.  Room r was opened by k.               *)

\* Nobody but k is in the room.
Unredeemed(r, k) ==
    /\ rooms[r] # None => OwnSlot(rooms[r], GuestRole(rooms[r].sessionType)) = None
    /\ \A t \in Token : tokens[t] # None /\ tokens[t].roomName = r => t = k

\* Commands that leave k the room's creator.
Faithful(m, r, k) ==
    {cmd \in Sound(m) : cmd.do = "set_room" /\ cmd.r = r => cmd.record.creatorToken = k}

\* Commands that do not bring the code back.
Uncoding(m, r) == {cmd \in Sound(m) : cmd.do = "set_code" => cmd.r # r}

\* A command, or what it leads to, may write that t is in room r.
Claims(cmd, t, r) ==
    /\ cmd.do \in {"set_token", "get_own_room", "get_senders_room", "get_partner", "pair"}
    /\ cmd.t = t
    /\ \/ cmd.do \in {"set_token", "get_own_room"} /\ cmd.record.roomName = r
       \/ cmd.do \in {"get_senders_room", "get_partner"} /\ cmd.sender.roomName = r
       \/ cmd.do = "pair" /\ cmd.r = r

\* Commands that put nobody but k in the room before its code is deleted.
Harmless(m, r, k) ==
    {cmd \in Uncoding(m, r) :
        /\ \A t \in Token : Claims(cmd, t, r) => t = k
        /\ cmd.do = "set_room" /\ cmd.r = r =>
              OwnSlot(cmd.record, GuestRole(cmd.record.sessionType)) = None}

\* Commands of calls that have not seen the code.
Blind(m, r, k) ==
    {cmd \in Harmless(m, r, k) : cmd.do \in {"del_code", "get_joined_room"} => cmd.r # r}

\* What createSession() has to do before the code is there.
Creates(todo, r, k) ==
    \E room \in RoomRecord, role \in Role :
        /\ OwnSlot(room, GuestRole(room.sessionType)) = None
        /\ todo \in {<<SetRoom(r, room), SetCode(r), Pair(k, r, role)>>,
                     <<SetCode(r), Pair(k, r, role)>>}

\* The next command deletes the code.
Redeems(todo, r) == todo # <<>> /\ Head(todo) = DelCode(r)

Opening(r, k) ==
    /\ r \notin codes
    /\ Unredeemed(r, k)
    /\ \E c \in Caller :
          /\ Creates(call[c].todo, r, k)
          /\ \A d \in Caller \ {c} : call[d].todo \in Seq(Blind(members, r, k))

Open(r, k) ==
    /\ r \in codes
    /\ Unredeemed(r, k)
    /\ \A c \in Caller :
          \/ call[c].todo \in Seq(Harmless(members, r, k))
          \/ Redeems(call[c].todo, r) /\ call[c].todo \in Seq(Uncoding(members, r))

Closed(r) ==
    /\ r \notin codes
    /\ \A c \in Caller : call[c].todo \in Seq(Uncoding(members, r))

OpenedBy(r, k) ==
    /\ rooms[r] # None => rooms[r].creatorToken = k
    /\ \A c \in Caller : call[c].todo \in Seq(Faithful(members, r, k))

Guarded(r, k) == OpenedBy(r, k) /\ (Opening(r, k) \/ Open(r, k) \/ Closed(r))

CodesGuard == \A r \in usedRooms : \E k \in Token : Guarded(r, k)

----------------------------------------------------------------------------
(* What an answer leads to: commands that claim no more than the command   *)
(* answered and the keys do.                                               *)

Unclaimed(cmd) == cmd.do \notin {"set_room", "set_code", "del_code", "get_joined_room",
    "set_token", "get_own_room", "get_senders_room", "get_partner", "pair"}

\* A room as it is, somebody having left perhaps.
Restated(record, room) ==
    /\ room # None
    /\ record.creatorToken = room.creatorToken
    /\ record.sessionType = room.sessionType
    /\ \A role \in Role : OwnSlot(record, role) \in {OwnSlot(room, role), None}

Derived(cmd) ==
    {x \in Sound(members) :
        \/ Unclaimed(x)
        \/ x.do = "set_room" /\ Restated(x.record, rooms[x.r])
        \/ /\ x.do \in {"set_token", "get_own_room", "get_senders_room", "get_partner"}
           /\ \A t \in Token, r \in Room : Claims(x, t, r) =>
                 Claims(cmd, t, r) \/ (tokens[t] # None /\ tokens[t].roomName = r)}

----------------------------------------------------------------------------
(* Sequences of commands *)

LEMMA Wider ==
    ASSUME NEW S, NEW T, S \subseteq T, NEW s \in Seq(S)
    PROVE  s \in Seq(T)
OBVIOUS

LEMMA Parts ==
    ASSUME NEW S, NEW s \in Seq(S), s # <<>>
    PROVE  Head(s) \in S /\ Tail(s) \in Seq(S)
OBVIOUS

LEMMA Joined ==
    ASSUME NEW S, NEW s \in Seq(S), NEW u \in Seq(S)
    PROVE  s \o u \in Seq(S)
OBVIOUS

LEMMA Prefix ==
    ASSUME NEW S, NEW T, NEW C, NEW s \in Seq(S), NEW u \in Seq(T), s \o u \in Seq(C)
    PROVE  s \in Seq(C)
<1>1. \A i \in 1..Len(s) : s[i] \in C
  <2> SUFFICES ASSUME NEW i \in 1..Len(s) PROVE s[i] \in C
    OBVIOUS
  <2>1. i \in 1..Len(s \o u) /\ (s \o u)[i] = s[i]
    OBVIOUS
  <2> QED
    BY <2>1
<1> QED
  BY <1>1

LEMMA WhenIn ==
    ASSUME NEW S, NEW b \in BOOLEAN, NEW s, b => s \in Seq(S)
    PROVE  When(b, s) \in Seq(S)
BY DEF When

LEMMA Few ==
    ASSUME NEW S
    PROVE  /\ <<>> \in Seq(S)
           /\ \A x \in S : <<x>> \in Seq(S)
           /\ \A x, y \in S : <<x, y>> \in Seq(S)
           /\ \A x, y, z \in S : <<x, y, z>> \in Seq(S)
OBVIOUS

----------------------------------------------------------------------------
(* Commands *)

\* What a sound command of each kind says.
LEMMA Kinds ==
    ASSUME NEW m, NEW cmd \in Sound(m)
    PROVE  /\ cmd.do \in {"del_token", "del_inbox", "count_close", "finalize"} =>
                 cmd \in OnTokens
           /\ cmd.do \in {"set_code", "del_code", "del_room", "drop_if_empty", "expire"} =>
                 cmd \in OnRooms(m)
           /\ cmd.do = "set_token" => cmd \in SetTokens(m)
           /\ cmd.do = "set_room" => cmd \in SetRooms(m)
           /\ cmd.do = "push" => cmd \in PushesTo(m)
           /\ cmd.do = "pair" => cmd \in Pairs(m)
           /\ cmd.do \in {"mark", "tell"} => cmd \in Tells
           /\ cmd.do = "close_room" => cmd \in Closes
           /\ cmd.do = "expire_tokens" => cmd \in Judges
           /\ cmd.do = "get_code" => cmd \in Codes
           /\ cmd.do = "get_joined_room" => cmd \in Joins(m)
           /\ cmd.do = "get_own_room" => cmd \in Headlesses(m)
           /\ cmd.do = "get_senders_room" => cmd \in Sends(m)
           /\ cmd.do = "get_partner" => cmd \in Partners(m)
           /\ cmd.do = "discard" => cmd \in Discards
           /\ cmd.do = "discard_partner" => cmd \in OwnDiscards(m)
           /\ cmd.do = "free_slot" => cmd \in Frees
           /\ cmd.do = "get_left_room" => cmd \in Leaves
<1>1. /\ \A x \in OnTokens : x.do \in {"del_token", "del_inbox", "count_close", "finalize"}
      /\ \A x \in OnRooms(m) :
            x.do \in {"set_code", "del_code", "del_room", "drop_if_empty", "expire"}
      /\ \A x \in SetTokens(m) : x.do = "set_token"
      /\ \A x \in SetRooms(m) : x.do = "set_room"
      /\ \A x \in PushesTo(m) : x.do = "push"
      /\ \A x \in Pairs(m) : x.do = "pair"
  BY DEF OnTokens, OnRooms, SetTokens, SetRooms, PushesTo, Pairs
<1>2. /\ \A x \in Tells : x.do \in {"mark", "tell"}
      /\ \A x \in Closes : x.do = "close_room"
      /\ \A x \in Judges : x.do = "expire_tokens"
      /\ \A x \in Codes : x.do = "get_code"
      /\ \A x \in Joins(m) : x.do = "get_joined_room"
      /\ \A x \in Headlesses(m) : x.do = "get_own_room"
  BY DEF Tells, Closes, Judges, Codes, Joins, Headlesses
<1>3. /\ \A x \in Sends(m) : x.do = "get_senders_room"
      /\ \A x \in Partners(m) : x.do = "get_partner"
      /\ \A x \in Discards : x.do = "discard"
      /\ \A x \in OwnDiscards(m) : x.do = "discard_partner"
      /\ \A x \in Frees : x.do = "free_slot"
      /\ \A x \in Leaves : x.do = "get_left_room"
  BY DEF Sends, Partners, Discards, OwnDiscards, Frees, Leaves
<1> QED
  BY <1>1, <1>2, <1>3 DEF Sound

Grows(m, n) == \A r \in Room : m[r] \subseteq n[r]

\* A command that is sound stays sound.
LEMMA SoundGrows ==
    ASSUME NEW m \in [Room -> SUBSET Token], NEW n \in [Room -> SUBSET Token], Grows(m, n)
    PROVE  /\ Sound(m) \subseteq Sound(n)
           /\ \A t : Hearable(t, m) \subseteq Hearable(t, n)
           /\ Inhabited(m) \subseteq Inhabited(n)
<1>1. \A t, p : Met(t, p, m) => Met(t, p, n)
  BY DEF Met, Grows
<1>2. \A t : Hearable(t, m) \subseteq Hearable(t, n)
  BY <1>1 DEF Hearable
<1>3. \A t \in Token, record \in TokenRecord : Admitted(t, record, m) => Admitted(t, record, n)
  BY DEF Admitted, Grows, TokenRecord
<1>4. Inhabited(m) \subseteq Inhabited(n)
  BY DEF Inhabited, Grows
<1>5. OnRooms(m) \subseteq OnRooms(n) /\ Joins(m) \subseteq Joins(n)
  BY <1>4 DEF OnRooms, Joins
<1>6. SetTokens(m) \subseteq SetTokens(n) /\ Headlesses(m) \subseteq Headlesses(n)
      /\ Sends(m) \subseteq Sends(n)
  BY <1>3 DEF SetTokens, Headlesses, Sends
<1>7. SetRooms(m) \subseteq SetRooms(n)
  BY DEF SetRooms, Peopled, Grows
<1>8. Pairs(m) \subseteq Pairs(n)
  BY DEF Pairs, Grows
<1>9. Partners(m) \subseteq Partners(n)
  BY <1>1, <1>3 DEF Partners
<1>10. \A t : \A s : s \in Seq(Hearable(t, m)) => s \in Seq(Hearable(t, n))
  BY <1>2, Wider
<1>11. PushesTo(m) \subseteq PushesTo(n) /\ OwnDiscards(m) \subseteq OwnDiscards(n)
  BY <1>10 DEF PushesTo, OwnDiscards
<1> QED
  BY <1>2, <1>4, <1>5, <1>6, <1>7, <1>8, <1>9, <1>11 DEF Sound

----------------------------------------------------------------------------
(* The commands that answers lead to *)

\* A claim is of somebody the room has admitted.
LEMMA ClaimsAdmit ==
    ASSUME NEW m, NEW cmd \in Sound(m), NEW t \in Token, NEW r \in Room, Claims(cmd, t, r)
    PROVE  t \in m[r]
<1>1. r # None
  BY NoneAssumption
<1> QED
  BY <1>1, Kinds DEF Claims, SetTokens, Headlesses, Sends, Partners, Pairs, Admitted

LEMMA PlainDerived ==
    ASSUME NEW cmd
    PROVE  /\ \A t \in Token : /\ DelToken(t) \in Derived(cmd)
                               /\ DelInbox(t) \in Derived(cmd)
                               /\ [do |-> "count_close", t |-> t] \in Derived(cmd)
                               /\ [do |-> "finalize", t |-> t] \in Derived(cmd)
           /\ \A r \in Room : /\ DelRoom(r) \in Derived(cmd)
                              /\ DropIfEmpty(r) \in Derived(cmd)
                              /\ Expire(r) \in Derived(cmd)
<1>1. /\ \A t \in Token : DelToken(t) \in OnTokens /\ Unclaimed(DelToken(t))
                          /\ DelInbox(t) \in OnTokens /\ Unclaimed(DelInbox(t))
      /\ \A r \in Room : DelRoom(r) \in OnRooms(members) /\ Unclaimed(DelRoom(r))
                         /\ DropIfEmpty(r) \in OnRooms(members) /\ Unclaimed(DropIfEmpty(r))
                         /\ Expire(r) \in OnRooms(members) /\ Unclaimed(Expire(r))
  BY DEF OnTokens, OnRooms, Unclaimed, DelToken, DelInbox, DelRoom, DropIfEmpty, Expire
<1>2. \A t \in Token : \A do \in {"count_close", "finalize"} :
         [do |-> do, t |-> t] \in OnTokens /\ Unclaimed([do |-> do, t |-> t])
  BY DEF OnTokens, Unclaimed
<1> QED
  BY <1>1, <1>2 DEF Derived, Sound

LEMMA PushDerived ==
    ASSUME NEW cmd, NEW t \in Token, NEW messages \in Seq(Hearable(t, members))
    PROVE  Push(t, messages) \in Derived(cmd)
<1>1. messages \in Seq(Message)
  BY Wider DEF Hearable
<1>2. Push(t, messages) \in PushesTo(members) /\ Unclaimed(Push(t, messages))
  BY <1>1 DEF PushesTo, Push, Unclaimed
<1> QED
  BY <1>2 DEF Derived, Sound

LEMMA NoticeHearable ==
    ASSUME NEW k \in Kind, NEW t, NEW m
    PROVE  Notice(k) \in Notices /\ Notice(k) \in Hearable(t, m)
<1>1. Notice(k) \in Message /\ Notice(k).from = None
  BY NoticeType DEF Notice
<1> QED
  BY <1>1 DEF Notices, Hearable

LEMMA NoticeDerived ==
    ASSUME NEW cmd, NEW t \in Token, NEW k \in Kind
    PROVE  Push(t, <<Notice(k)>>) \in Derived(cmd)
<1>1. <<Notice(k)>> \in Seq(Hearable(t, members))
  BY NoticeHearable, Few
<1> QED
  BY <1>1, PushDerived

LEMMA TellDerived ==
    ASSUME NEW cmd, NEW t \in Token, NEW messages \in Seq(Notices)
    PROVE  /\ Mark(t, messages) \in Derived(cmd)
           /\ [do |-> "tell", t |-> t, messages |-> messages] \in Derived(cmd)
<1>1. Mark(t, messages) \in Tells /\ Unclaimed(Mark(t, messages))
  BY DEF Tells, Unclaimed, Mark
<1>2. LET x == [do |-> "tell", t |-> t, messages |-> messages]
      IN  x \in Tells /\ Unclaimed(x)
  BY DEF Tells, Unclaimed
<1> QED
  BY <1>1, <1>2 DEF Derived, Sound

LEMMA HelperDerived ==
    ASSUME NEW cmd
    PROVE  /\ \A r \in Room, k \in CloseKind : CloseRoom(r, k) \in Derived(cmd)
           /\ \A r \in Room, ts \in SUBSET Token :
                [do |-> "expire_tokens", r |-> r, slots |-> ts] \in Derived(cmd)
           /\ \A t \in Token, r \in Room, new \in BOOLEAN : GetCode(t, r, new) \in Derived(cmd)
           /\ \A t, p \in Token : [do |-> "discard", t |-> t, p |-> p] \in Derived(cmd)
           /\ \A t \in Token, r \in Room :
                [do |-> "free_slot", t |-> t, r |-> r] \in Derived(cmd)
           /\ \A t \in Token, r \in Room, role \in Role \cup {None} :
                [do |-> "get_left_room", t |-> t, r |-> r, role |-> role] \in Derived(cmd)
<1>1. \A r \in Room, k \in CloseKind :
         CloseRoom(r, k) \in Closes /\ Unclaimed(CloseRoom(r, k))
  BY DEF Closes, CloseRoom, Unclaimed
<1>2. \A r \in Room, ts \in SUBSET Token :
         LET x == [do |-> "expire_tokens", r |-> r, slots |-> ts]
         IN  x \in Judges /\ Unclaimed(x)
  BY DEF Judges, Unclaimed
<1>3. \A t \in Token, r \in Room, new \in BOOLEAN :
         GetCode(t, r, new) \in Codes /\ Unclaimed(GetCode(t, r, new))
  BY DEF Codes, GetCode, Unclaimed
<1>4. \A t, p \in Token :
         LET x == [do |-> "discard", t |-> t, p |-> p] IN  x \in Discards /\ Unclaimed(x)
  BY DEF Discards, Unclaimed
<1>5. \A t \in Token, r \in Room :
         LET x == [do |-> "free_slot", t |-> t, r |-> r] IN  x \in Frees /\ Unclaimed(x)
  BY DEF Frees, Unclaimed
<1>6. \A t \in Token, r \in Room, role \in Role \cup {None} :
         LET x == [do |-> "get_left_room", t |-> t, r |-> r, role |-> role]
         IN  x \in Leaves /\ Unclaimed(x)
  BY DEF Leaves, Unclaimed
<1> QED
  BY <1>1, <1>2, <1>3, <1>4, <1>5, <1>6 DEF Derived, Sound

LEMMA OwnDiscardDerived ==
    ASSUME NEW cmd, NEW t \in Token, NEW p \in Token, NEW own \in Seq(Hearable(t, members))
    PROVE  [do |-> "discard_partner", t |-> t, p |-> p, own |-> own] \in Derived(cmd)
<1> DEFINE x == [do |-> "discard_partner", t |-> t, p |-> p, own |-> own]
<1>1. own \in Seq(Message)
  BY Wider DEF Hearable
<1>2. x \in OwnDiscards(members) /\ Unclaimed(x)
  BY <1>1 DEF OwnDiscards, Unclaimed
<1> QED
  BY <1>2 DEF Derived, Sound

\* A record that names the room t is in, or the one the answered command
\* claims, may be carried on and written.
Grounded(cmd, t, record) ==
    record.roomName # None =>
        /\ t \in members[record.roomName]
        /\ Claims(cmd, t, record.roomName) \/ (tokens[t] # None /\ tokens[t].roomName = record.roomName)

LEMMA RecordGrounded ==
    ASSUME RInv, NEW cmd, NEW t \in Token, tokens[t] # None, NEW record \in TokenRecord,
           record.roomName = tokens[t].roomName
    PROVE  Grounded(cmd, t, record)
BY DEF RInv, RecordsApart, Admitted, Grounded

LEMMA ClaimGrounded ==
    ASSUME NEW cmd \in Sound(members), NEW t \in Token, NEW record \in TokenRecord,
           record.roomName # None => Claims(cmd, t, record.roomName)
    PROVE  Grounded(cmd, t, record)
BY ClaimsAdmit DEF Grounded, TokenRecord

LEMMA RecordDerived ==
    ASSUME NEW cmd, NEW t \in Token, NEW record \in TokenRecord, Grounded(cmd, t, record)
    PROVE  /\ SetToken(t, record) \in Derived(cmd)
           /\ record.roomName # None =>
                /\ \A hl \in BOOLEAN :
                      [do |-> "get_own_room", t |-> t, hl |-> hl, record |-> record] \in Derived(cmd)
                /\ \A kind \in TextKind, short \in BOOLEAN :
                      [do |-> "get_senders_room", t |-> t, kind |-> kind, short |-> short,
                       sender |-> record] \in Derived(cmd)
           /\ \A p \in Token, kind \in TextKind, short \in BOOLEAN : Met(t, p, members) =>
                [do |-> "get_partner", t |-> t, p |-> p, kind |-> kind, short |-> short,
                 sender |-> record] \in Derived(cmd)
<1>0. Admitted(t, record, members)
  BY DEF Grounded, Admitted
<1>1. SetToken(t, record) \in Derived(cmd)
  <2>1. SetToken(t, record) \in SetTokens(members)
    BY <1>0 DEF SetTokens, SetToken
  <2>2. \A u \in Token, r \in Room : Claims(SetToken(t, record), u, r) =>
           u = t /\ r = record.roomName /\ r # None
    BY NoneAssumption DEF Claims, SetToken
  <2>3. SetToken(t, record).do = "set_token"
    BY DEF SetToken
  <2> QED
    BY <2>1, <2>2, <2>3 DEF Derived, Sound, Grounded
<1>2. ASSUME record.roomName # None, NEW hl \in BOOLEAN
      PROVE  [do |-> "get_own_room", t |-> t, hl |-> hl, record |-> record] \in Derived(cmd)
  <2> DEFINE x == [do |-> "get_own_room", t |-> t, hl |-> hl, record |-> record]
  <2>1. x \in Headlesses(members)
    BY <1>0, <1>2 DEF Headlesses
  <2>2. \A u \in Token, r \in Room : Claims(x, u, r) => u = t /\ r = record.roomName /\ r # None
    BY NoneAssumption DEF Claims
  <2>3. x.do = "get_own_room"
    OBVIOUS
  <2> QED
    BY <2>1, <2>2, <2>3 DEF Derived, Sound, Grounded
<1>3. ASSUME record.roomName # None, NEW kind \in TextKind, NEW short \in BOOLEAN
      PROVE  [do |-> "get_senders_room", t |-> t, kind |-> kind, short |-> short,
              sender |-> record] \in Derived(cmd)
  <2> DEFINE x == [do |-> "get_senders_room", t |-> t, kind |-> kind, short |-> short,
                   sender |-> record]
  <2>1. x \in Sends(members)
    BY <1>0, <1>3 DEF Sends
  <2>2. \A u \in Token, r \in Room : Claims(x, u, r) => u = t /\ r = record.roomName /\ r # None
    BY NoneAssumption DEF Claims
  <2>3. x.do = "get_senders_room"
    OBVIOUS
  <2> QED
    BY <2>1, <2>2, <2>3 DEF Derived, Sound, Grounded
<1>4. ASSUME NEW p \in Token, NEW kind \in TextKind, NEW short \in BOOLEAN, Met(t, p, members)
      PROVE  [do |-> "get_partner", t |-> t, p |-> p, kind |-> kind, short |-> short,
              sender |-> record] \in Derived(cmd)
  <2> DEFINE x == [do |-> "get_partner", t |-> t, p |-> p, kind |-> kind, short |-> short,
                   sender |-> record]
  <2>1. x \in Partners(members)
    BY <1>0, <1>4 DEF Partners
  <2>2. \A u \in Token, r \in Room : Claims(x, u, r) => u = t /\ r = record.roomName /\ r # None
    BY NoneAssumption DEF Claims
  <2>3. x.do = "get_partner"
    OBVIOUS
  <2> QED
    BY <2>1, <2>2, <2>3 DEF Derived, Sound, Grounded
<1> QED
  BY <1>1, <1>2, <1>3, <1>4

LEMMA RoomDerived ==
    ASSUME RInv, NEW cmd, NEW r \in Room, NEW record \in RoomRecord,
           Restated(record, rooms[r])
    PROVE  SetRoom(r, record) \in Derived(cmd)
<1>1. rooms[r] \in RoomRecord /\ Peopled(r, rooms[r], members)
  BY DEF RInv, Typed, RecordsApart, Restated
<1>2. Peopled(r, record, members)
  BY <1>1, SlotFacts DEF Peopled, Restated
<1>3. SetRoom(r, record) \in SetRooms(members)
  BY <1>2 DEF SetRooms, SetRoom
<1> QED
  BY <1>3 DEF Derived, Sound, SetRoom

----------------------------------------------------------------------------
(* Every answer but those to the GETs of a join derives what follows it    *)

Derives(c) ==
    /\ ~Idle(c)
    /\ Command(c).do \notin {"set_code", "set_room", "del_code"}
    /\ \E commands \in Seq(Derived(Command(c))) : Becomes(c, commands) \/ Ends(c, commands)
    /\ Reads

\* The pending command is sound.
LEMMA PendingSound ==
    ASSUME RInv, NEW c \in Caller, ~Idle(c)
    PROVE  /\ call[c] \in CallType(members)
           /\ call[c].todo \in Seq(Sound(members)) /\ call[c].todo # <<>>
           /\ Command(c) \in Sound(members)
           /\ Tail(call[c].todo) \in Seq(Sound(members))
<1>1. call[c] \in CallType(members)
  BY DEF RInv, CallsSound
<1>2. call[c].todo \in Seq(Sound(members)) /\ call[c].todo # <<>>
  BY <1>1 DEF CallType, Idle
<1> QED
  BY <1>1, <1>2, Parts DEF Command

\* What the keys hold.
LEMMA KeysHold ==
    ASSUME RInv
    PROVE  /\ \A t \in Token : tokens[t] # None => tokens[t] \in TokenRecord
           /\ \A r \in Room : rooms[r] # None => rooms[r] \in RoomRecord
           /\ \A t \in Token : inboxes[t] \in Seq(Message)
                               /\ inboxes[t] \in Seq(Hearable(t, members))
           /\ members \in [Room -> SUBSET Token]
BY DEF RInv, Typed, MessagesApart, HistoryOK

LEMMA PairDerives ==
    ASSUME RInv, NEW c \in Caller, PairToken(c)
    PROVE  Derives(c)
<1> DEFINE cmd == Command(c)
<1>1. cmd \in Sound(members) /\ cmd.do = "pair" /\ ~Idle(c)
  BY PendingSound DEF PairToken, Issues
<1>2. cmd.t \in Token /\ cmd.r \in Room /\ cmd.role \in Role
  BY <1>1, Kinds DEF Pairs
<1>3. CASE tokens[cmd.t] = None
  BY <1>1, <1>3, Few DEF Derives, PairToken
<1>4. CASE tokens[cmd.t] # None
  <2> DEFINE record == Paired(tokens[cmd.t], cmd.r, cmd.role)
  <2>1. record \in TokenRecord /\ record.roomName = cmd.r
    BY <1>2, <1>4, KeysHold, PairedType
  <2>2. Claims(cmd, cmd.t, cmd.r)
    BY <1>1 DEF Claims
  <2>3. SetToken(cmd.t, record) \in Derived(cmd)
    BY <1>1, <1>2, <2>1, <2>2, ClaimGrounded, RecordDerived
  <2>4. <<SetToken(cmd.t, record)>> \in Seq(Derived(cmd))
    BY <2>3, Few
  <2> QED
    BY <1>1, <1>4, <2>4 DEF Derives, PairToken
<1> QED
  BY <1>3, <1>4

LEMMA MarkDerives ==
    ASSUME RInv, NEW c \in Caller, MarkTokenForClose(c)
    PROVE  Derives(c)
<1> DEFINE cmd == Command(c)
           t   == cmd.t
<1>1. cmd \in Sound(members) /\ cmd.do = "mark" /\ ~Idle(c)
  BY PendingSound DEF MarkTokenForClose, Issues
<1>2. t \in Token /\ cmd.messages \in Seq(Notices)
  BY <1>1, Kinds DEF Tells
<1>3. ASSUME tokens[t] # None
      PROVE  Marks(t, cmd.messages) \in Seq(Derived(cmd))
  <2>1. Len(cmd.messages) \in Nat
    BY <1>2
  <2>2. SetToken(t, MarkedForClose(tokens[t], Len(cmd.messages))) \in Derived(cmd)
    BY <1>2, <1>3, <2>1, KeysHold, MarkedForCloseType, RecordGrounded, RecordDerived
  <2>3. \A i \in DOMAIN cmd.messages : Push(t, <<cmd.messages[i]>>) \in Derived(cmd)
    <3> SUFFICES ASSUME NEW i \in DOMAIN cmd.messages
                 PROVE  Push(t, <<cmd.messages[i]>>) \in Derived(cmd)
      OBVIOUS
    <3>1. cmd.messages[i] \in Hearable(t, members)
      BY <1>2 DEF Notices, Hearable
    <3>2. <<cmd.messages[i]>> \in Seq(Hearable(t, members))
      BY <3>1, Few
    <3> QED
      BY <1>2, <3>2, PushDerived
  <2>4. Pushes(t, cmd.messages) \in Seq(Derived(cmd))
    <3>1. DOMAIN cmd.messages = 1..Len(cmd.messages)
      BY <1>2
    <3> QED
      BY <2>1, <2>3, <3>1 DEF Pushes
  <2> QED
    BY <2>2, <2>4, Few, Joined DEF Marks
<1>4. When(tokens[t] # None, Marks(t, cmd.messages)) \in Seq(Derived(cmd))
  BY <1>3, WhenIn
<1> QED
  BY <1>1, <1>4 DEF Derives, MarkTokenForClose

LEMMA DropDerives ==
    ASSUME RInv, NEW c \in Caller, DeleteRoomIfEmpty(c)
    PROVE  Derives(c)
<1> DEFINE cmd == Command(c)
<1>1. cmd \in Sound(members) /\ cmd.do = "drop_if_empty" /\ ~Idle(c)
  BY PendingSound DEF DeleteRoomIfEmpty, Issues
<1>2. cmd.r \in Room
  BY <1>1, Kinds DEF OnRooms, Inhabited
<1>3. When(rooms[cmd.r] # None /\ UnlessEmpty(rooms[cmd.r]) = None, <<DelRoom(cmd.r)>>)
         \in Seq(Derived(cmd))
  BY <1>2, PlainDerived, Few, WhenIn
<1> QED
  BY <1>1, <1>3 DEF Derives, DeleteRoomIfEmpty

LEMMA ClosingDerived ==
    ASSUME NEW cmd, NEW room \in RoomRecord, NEW kind \in CloseKind
    PROVE  Closing(room, kind) \in Seq(Derived(cmd))
<1>1. <<Notice(kind)>> \in Seq(Notices)
  BY NoticeHearable, Few DEF Kind
<1>2. \A t \in Token : <<Mark(t, <<Notice(kind)>>)>> \in Seq(Derived(cmd))
  BY <1>1, TellDerived, Few
<1>3. room.hostToken \in Token \cup {None} /\ room.joinerToken \in Token \cup {None}
  BY DEF RoomRecord
<1> QED
  BY <1>2, <1>3, WhenIn, Joined DEF Closing

LEMMA CloseDerives ==
    ASSUME RInv, NEW c \in Caller, CloseRoomNow(c)
    PROVE  Derives(c)
<1> DEFINE cmd == Command(c)
<1>1. cmd \in Sound(members) /\ cmd.do = "close_room" /\ ~Idle(c)
  BY PendingSound DEF CloseRoomNow, Issues
<1>2. cmd.r \in Room /\ cmd.kind \in CloseKind
  BY <1>1, Kinds DEF Closes
<1>3. When(rooms[cmd.r] # None, Closing(rooms[cmd.r], cmd.kind)) \in Seq(Derived(cmd))
  BY <1>2, KeysHold, ClosingDerived, WhenIn
<1> QED
  BY <1>1, <1>3 DEF Derives, CloseRoomNow

LEMMA ExpireDerives ==
    ASSUME RInv, NEW c \in Caller, MaybeExpireRoom(c)
    PROVE  Derives(c)
<1> DEFINE cmd == Command(c)
           r   == cmd.r
<1>1. cmd \in Sound(members) /\ cmd.do = "expire" /\ ~Idle(c)
  BY PendingSound DEF MaybeExpireRoom, Issues
<1>2. r \in Room
  BY <1>1, Kinds DEF OnRooms, Inhabited
<1>3. CASE rooms[r] = None
  BY <1>1, <1>3, Few DEF Derives, MaybeExpireRoom
<1>4. CASE rooms[r] # None /\ Slots(rooms[r]) = {}
  <2>1. <<DelRoom(r)>> \in Seq(Derived(cmd))
    BY <1>2, PlainDerived, Few
  <2> QED
    BY <1>1, <1>4, <2>1 DEF Derives, MaybeExpireRoom
<1>5. CASE rooms[r] # None /\ Slots(rooms[r]) # {}
  <2>1. Slots(rooms[r]) \in SUBSET Token
    BY <1>2, <1>5, KeysHold, SlotFacts
  <2>2. <<[do |-> "expire_tokens", r |-> r, slots |-> Slots(rooms[r])]>> \in Seq(Derived(cmd))
    BY <1>2, <2>1, HelperDerived, Few
  <2> QED
    BY <1>1, <1>5, <2>2 DEF Derives, MaybeExpireRoom
<1> QED
  BY <1>3, <1>4, <1>5

LEMMA JudgeDerives ==
    ASSUME RInv, NEW c \in Caller, JudgeRoom(c)
    PROVE  Derives(c)
<1> DEFINE cmd == Command(c)
<1>1. cmd \in Sound(members) /\ cmd.do = "expire_tokens" /\ ~Idle(c)
  BY PendingSound DEF JudgeRoom, Issues
<1>2. cmd.r \in Room
  BY <1>1, Kinds DEF Judges
<1>3. /\ <<DelRoom(cmd.r)>> \in Seq(Derived(cmd))
      /\ <<CloseRoom(cmd.r, "session_expired")>> \in Seq(Derived(cmd))
      /\ <<>> \in Seq(Derived(cmd))
  BY <1>2, PlainDerived, HelperDerived, Few DEF CloseKind
<1> QED
  BY <1>1, <1>3 DEF Derives, JudgeRoom

LEMMA HeadlessDerives ==
    ASSUME RInv, NEW c \in Caller, ChangeHeadless(c)
    PROVE  Derives(c)
<1> DEFINE cmd  == Command(c)
           r    == cmd.record.roomName
           room == [rooms[r] EXCEPT !.headless = cmd.hl]
<1>1. cmd \in Sound(members) /\ cmd.do = "get_own_room" /\ ~Idle(c)
  BY PendingSound DEF ChangeHeadless, Issues
<1>2. /\ cmd.t \in Token /\ cmd.hl \in BOOLEAN /\ cmd.record \in TokenRecord
      /\ r \in Room
  BY <1>1, Kinds DEF Headlesses, TokenRecord
<1>3. ASSUME rooms[r] # None
      PROVE  SetRoom(r, room) \in Derived(cmd)
  <2>1. rooms[r] \in RoomRecord
    BY <1>2, <1>3, KeysHold
  <2>2. room \in RoomRecord
    BY <1>2, <2>1 DEF RoomRecord
  <2>3. Restated(room, rooms[r])
    BY <1>3, <2>1 DEF Restated, RoomRecord, OwnSlot
  <2> QED
    BY <1>2, <2>2, <2>3, RoomDerived
<1>4. SetToken(cmd.t, cmd.record) \in Derived(cmd)
  <2>1. Claims(cmd, cmd.t, r)
    BY <1>1 DEF Claims
  <2> QED
    BY <1>1, <1>2, <2>1, ClaimGrounded, RecordDerived
<1>5. When(rooms[r] # None /\ rooms[r].creatorToken = cmd.t,
           <<SetRoom(r, room), SetToken(cmd.t, cmd.record)>>) \in Seq(Derived(cmd))
  BY <1>3, <1>4, Few, WhenIn
<1> QED
  BY <1>1, <1>5 DEF Derives, ChangeHeadless

LEMMA SendersRoomDerives ==
    ASSUME RInv, NEW c \in Caller, GetSendersRoom(c)
    PROVE  Derives(c)
<1> DEFINE cmd == Command(c)
           r   == cmd.sender.roomName
           p   == PartnerSlot(rooms[r], cmd.sender.role)
           ask == [do |-> "get_partner", t |-> cmd.t, p |-> p, kind |-> cmd.kind,
                   short |-> cmd.short, sender |-> cmd.sender]
<1>1. cmd \in Sound(members) /\ cmd.do = "get_senders_room" /\ ~Idle(c)
  BY PendingSound DEF GetSendersRoom, Issues
<1>2. /\ cmd.t \in Token /\ cmd.kind \in TextKind /\ cmd.short \in BOOLEAN
      /\ cmd.sender \in TokenRecord /\ r \in Room /\ cmd.t \in members[r]
  BY <1>1, Kinds DEF Sends, TokenRecord, Admitted
<1>3. CASE rooms[r] = None
  BY <1>1, <1>3, Few DEF Derives, GetSendersRoom
<1>4. CASE rooms[r] # None
  <2>1. rooms[r] \in RoomRecord /\ Slots(rooms[r]) \subseteq members[r]
    BY <1>2, <1>4, KeysHold DEF RInv, RecordsApart, Peopled
  <2>2. p # None => p \in Slots(rooms[r]) /\ p \in Token
    BY <2>1 DEF PartnerSlot, Slots, RoomRecord
  <2>3. ASSUME p # None
        PROVE  ask \in Derived(cmd)
    <3>1. Met(cmd.t, p, members)
      BY <1>2, <2>1, <2>2, <2>3 DEF Met
    <3>2. Claims(cmd, cmd.t, r)
      BY <1>1 DEF Claims
    <3>3. Grounded(cmd, cmd.t, cmd.sender)
      BY <1>1, <1>2, <3>2, ClaimGrounded
    <3> QED
      BY <1>2, <2>2, <2>3, <3>1, <3>3, RecordDerived
  <2>4. When(p # None, <<ask>>) \in Seq(Derived(cmd))
    BY <2>3, Few, WhenIn
  <2>5. <<Expire(r)>> \in Seq(Derived(cmd))
    BY <1>2, PlainDerived, Few
  <2>6. <<Expire(r)>> \o When(p # None, <<ask>>) \in Seq(Derived(cmd))
    BY <2>4, <2>5, Joined
  <2> QED
    BY <1>1, <1>4, <2>6 DEF Derives, GetSendersRoom
<1> QED
  BY <1>3, <1>4

\* What a send writes: the two records it has read, and messages.
LEMMA SendingDerived ==
    ASSUME RInv, NEW cmd, NEW t \in Token, NEW p \in Token, Met(t, p, members),
           NEW sender \in TokenRecord, Grounded(cmd, t, sender), tokens[p] # None,
           NEW kind \in TextKind, NEW short \in BOOLEAN
    PROVE  Sending(t, sender, p, tokens[p], kind, short) \in Seq(Derived(cmd))
<1> DEFINE partner == tokens[p]
           active  == kind = "active_text"
           both    == ~active /\ partner.standby
           count   == IF short THEN sender.recentShortMessageCount + 1 ELSE 0
           alert   == <<Push(t, <<Notice("loop_alert")>>), Push(p, <<Notice("loop_alert")>>)>>
           stopped == BothRecords(t, [sender EXCEPT !.standby = TRUE, !.recentShortMessageCount = 0],
                                  p, [partner EXCEPT !.standby = TRUE])
           sent    == BothRecords(t, [sender EXCEPT !.standby = ~active,
                                                    !.recentShortMessageCount = count],
                                  p, [partner EXCEPT !.standby = both,
                                                     !.recentShortMessageCount = 0])
<1> HIDE DEF partner
<1>1. partner \in TokenRecord /\ partner.standby \in BOOLEAN
  BY KeysHold DEF partner, TokenRecord
<1>2. count \in Nat /\ both \in BOOLEAN /\ active \in BOOLEAN
  BY <1>1 DEF TokenRecord
<1> HIDE DEF count, both, active
\* The records name the rooms they named.
<1>3. \A s \in BOOLEAN, n \in Nat :
         SetToken(t, [sender EXCEPT !.standby = s, !.recentShortMessageCount = n]) \in Derived(cmd)
  <2> SUFFICES ASSUME NEW s \in BOOLEAN, NEW n \in Nat
               PROVE  SetToken(t, [sender EXCEPT !.standby = s, !.recentShortMessageCount = n])
                         \in Derived(cmd)
    OBVIOUS
  <2> DEFINE new == [sender EXCEPT !.standby = s, !.recentShortMessageCount = n]
  <2>1. new \in TokenRecord /\ new.roomName = sender.roomName
    BY DEF TokenRecord
  <2>2. Grounded(cmd, t, new)
    BY <2>1 DEF Grounded
  <2> QED
    BY <2>1, <2>2, RecordDerived
<1>4. \A new \in TokenRecord : new.roomName = partner.roomName => SetToken(p, new) \in Derived(cmd)
  BY RecordGrounded, RecordDerived DEF partner
<1>5. /\ \A s \in BOOLEAN : [partner EXCEPT !.standby = s] \in TokenRecord
                            /\ [partner EXCEPT !.standby = s].roomName = partner.roomName
      /\ \A s \in BOOLEAN :
            LET new == [partner EXCEPT !.standby = s, !.recentShortMessageCount = 0]
            IN  new \in TokenRecord /\ new.roomName = partner.roomName
  BY <1>1 DEF TokenRecord
<1>6. stopped \in Seq(Derived(cmd))
  BY <1>3, <1>4, <1>5, Few DEF BothRecords
<1>7. sent \in Seq(Derived(cmd))
  BY <1>2, <1>3, <1>4, <1>5, Few DEF BothRecords
<1>8. /\ alert \in Seq(Derived(cmd))
      /\ <<Push(t, <<Notice("all_standby")>>), Push(p, <<Notice("all_standby")>>)>>
            \in Seq(Derived(cmd))
  BY NoticeDerived, Few DEF Kind, PauseKind
<1>9. <<Push(p, <<Text(kind, t)>>)>> \in Seq(Derived(cmd))
  <2>1. Text(kind, t) \in Hearable(p, members)
    <3>1. Text(kind, t) \in Message /\ Text(kind, t).from = t
      BY TextType DEF Text
    <3>2. Met(p, t, members)
      BY DEF Met
    <3> QED
      BY <3>1, <3>2 DEF Hearable
  <2>2. <<Text(kind, t)>> \in Seq(Hearable(p, members))
    BY <2>1, Few
  <2> QED
    BY <2>2, PushDerived, Few
<1>10. <<[do |-> "discard", t |-> t, p |-> p]>> \in Seq(Derived(cmd))
  BY HelperDerived, Few
<1> HIDE DEF alert, stopped, sent
<1>11. Sending(t, sender, p, partner, kind, short) =
          When(active, <<[do |-> "discard", t |-> t, p |-> p]>>)
          \o When(both, <<Push(t, <<Notice("all_standby")>>), Push(p, <<Notice("all_standby")>>)>>)
          \o IF count >= LoopThreshold THEN alert \o stopped
             ELSE <<Push(p, <<Text(kind, t)>>)>> \o sent
  BY DEF Sending, active, both, count, alert, stopped, sent
<1>12. (IF count >= LoopThreshold THEN alert \o stopped ELSE <<Push(p, <<Text(kind, t)>>)>> \o sent)
          \in Seq(Derived(cmd))
  BY <1>6, <1>7, <1>8, <1>9, Joined
<1> DEFINE cut  == When(active, <<[do |-> "discard", t |-> t, p |-> p]>>)
           told == When(both, <<Push(t, <<Notice("all_standby")>>), Push(p, <<Notice("all_standby")>>)>>)
           text == IF count >= LoopThreshold THEN alert \o stopped
                   ELSE <<Push(p, <<Text(kind, t)>>)>> \o sent
<1>13. cut \in Seq(Derived(cmd)) /\ told \in Seq(Derived(cmd)) /\ text \in Seq(Derived(cmd))
  BY <1>2, <1>8, <1>10, <1>12, WhenIn
<1> HIDE DEF cut, told, text
<1>14. cut \o told \o text \in Seq(Derived(cmd))
  BY <1>13, Joined
<1> QED
  BY <1>11, <1>14 DEF partner, cut, told, text

LEMMA PartnerDerives ==
    ASSUME RInv, NEW c \in Caller, GetPartner(c)
    PROVE  Derives(c)
<1> DEFINE cmd == Command(c)
           all == Sending(cmd.t, cmd.sender, cmd.p, tokens[cmd.p], cmd.kind, cmd.short)
<1>1. cmd \in Sound(members) /\ cmd.do = "get_partner" /\ ~Idle(c)
  BY PendingSound DEF GetPartner, Issues
<1>2. /\ cmd.t \in Token /\ cmd.p \in Token /\ cmd.kind \in TextKind /\ cmd.short \in BOOLEAN
      /\ cmd.sender \in TokenRecord /\ Met(cmd.t, cmd.p, members)
  BY <1>1, Kinds DEF Partners
<1>3. Grounded(cmd, cmd.t, cmd.sender)
  <2>1. Claims(cmd, cmd.t, cmd.sender.roomName)
    BY <1>1 DEF Claims
  <2> QED
    BY <1>1, <1>2, <2>1, ClaimGrounded
<1>4. tokens[cmd.p] # None => all \in Seq(Derived(cmd))
  BY <1>2, <1>3, SendingDerived
<1>5. When(tokens[cmd.p] # None, all) \in Seq(Derived(cmd))
  BY <1>4, WhenIn
<1> QED
  BY <1>1, <1>5 DEF Derives, GetPartner

LEMMA DiscardDerives ==
    ASSUME RInv, NEW c \in Caller, Discard(c)
    PROVE  Derives(c)
<1> DEFINE cmd == Command(c)
<1>1. cmd \in Sound(members) /\ cmd.do = "discard" /\ ~Idle(c)
  BY PendingSound DEF Discard, Issues
<1>2. cmd.t \in Token /\ cmd.p \in Token
  BY <1>1, Kinds DEF Discards
<1>3. <<[do |-> "discard_partner", t |-> cmd.t, p |-> cmd.p, own |-> inboxes[cmd.t]]>>
         \in Seq(Derived(cmd))
  BY <1>2, KeysHold, OwnDiscardDerived, Few
<1> QED
  BY <1>1, <1>3 DEF Derives, Discard

LEMMA WithoutHearable ==
    ASSUME NEW t, NEW m, NEW s \in Seq(Message), s \in Seq(Hearable(t, m)), NEW dropped
    PROVE  Without(s, dropped) \in Seq(Hearable(t, m))
<1>1. /\ Without(s, dropped) \in Seq(Message)
      /\ \A n \in DOMAIN Without(s, dropped) : \E i \in DOMAIN s : Without(s, dropped)[n] = s[i]
  BY WithoutSelects
<1>2. \A i \in DOMAIN s : s[i] \in Hearable(t, m)
  OBVIOUS
<1> QED
  BY <1>1, <1>2

LEMMA DiscardPartnerDerives ==
    ASSUME RInv, NEW c \in Caller, DiscardPartner(c)
    PROVE  Derives(c)
<1> DEFINE cmd   == Command(c)
           own   == Without(cmd.own, Obsolete)
           other == Without(inboxes[cmd.p], {"all_standby"})
<1>1. cmd \in Sound(members) /\ cmd.do = "discard_partner" /\ ~Idle(c)
  BY PendingSound DEF DiscardPartner, Issues
<1>2. /\ cmd.t \in Token /\ cmd.p \in Token
      /\ cmd.own \in Seq(Message) /\ cmd.own \in Seq(Hearable(cmd.t, members))
  BY <1>1, Kinds DEF OwnDiscards
<1>3. own \in Seq(Hearable(cmd.t, members)) /\ other \in Seq(Hearable(cmd.p, members))
  BY <1>2, KeysHold, WithoutHearable
<1>4. /\ <<Push(cmd.t, own)>> \in Seq(Derived(cmd)) /\ <<Push(cmd.p, other)>> \in Seq(Derived(cmd))
      /\ <<DelInbox(cmd.t)>> \in Seq(Derived(cmd)) /\ <<DelInbox(cmd.p)>> \in Seq(Derived(cmd))
  BY <1>2, <1>3, PushDerived, PlainDerived, Few
<1> HIDE DEF own, other
<1>5. When(own # cmd.own, <<DelInbox(cmd.t)>>)
      \o When(other # inboxes[cmd.p], <<DelInbox(cmd.p)>>)
      \o When(own # cmd.own /\ own # <<>>, <<Push(cmd.t, own)>>)
      \o When(other # inboxes[cmd.p] /\ other # <<>>, <<Push(cmd.p, other)>>) \in Seq(Derived(cmd))
  BY <1>4, WhenIn, Joined
<1> QED
  BY <1>1, <1>5 DEF Derives, DiscardPartner, own, other

LEMMA CountDerives ==
    ASSUME RInv, NEW c \in Caller, CountClose(c)
    PROVE  Derives(c)
<1> DEFINE cmd  == Command(c)
           t    == cmd.t
           less == [tokens[t] EXCEPT !.pendingCloseMessages = @ - 1]
           then == IF LastNotice(tokens[t].pendingCloseMessages)
                   THEN <<[do |-> "finalize", t |-> t]>> ELSE <<SetToken(t, less)>>
<1>1. cmd \in Sound(members) /\ cmd.do = "count_close" /\ ~Idle(c)
  BY PendingSound DEF CountClose, Issues
<1>2. t \in Token
  BY <1>1, Kinds DEF OnTokens
<1>3. ASSUME tokens[t] # None, ~LastNotice(tokens[t].pendingCloseMessages)
      PROVE  SetToken(t, less) \in Derived(cmd)
  <2>1. tokens[t] \in TokenRecord
    BY <1>2, <1>3, KeysHold
  <2>2. tokens[t].pendingCloseMessages - 1 \in Nat
    BY <1>3, <2>1 DEF LastNotice, TokenRecord
  <2>3. less \in TokenRecord /\ less.roomName = tokens[t].roomName
    BY <2>1, <2>2 DEF TokenRecord
  <2> QED
    BY <1>2, <1>3, <2>3, RecordGrounded, RecordDerived
<1>4. tokens[t] # None => then \in Seq(Derived(cmd))
  BY <1>2, <1>3, PlainDerived, Few
<1> HIDE DEF then
<1>5. When(tokens[t] # None, then) \in Seq(Derived(cmd))
  BY <1>4, WhenIn
<1> QED
  BY <1>1, <1>5 DEF Derives, CountClose, then

LEMMA FinalizeDerives ==
    ASSUME RInv, NEW c \in Caller, FinalizeToken(c)
    PROVE  Derives(c)
<1> DEFINE cmd == Command(c)
           t   == cmd.t
           free == [do |-> "free_slot", t |-> t, r |-> tokens[t].roomName]
<1>1. cmd \in Sound(members) /\ cmd.do = "finalize" /\ ~Idle(c)
  BY PendingSound DEF FinalizeToken, Issues
<1>2. t \in Token
  BY <1>1, Kinds DEF OnTokens
<1>3. tokens[t] # None /\ tokens[t].roomName # None => free \in Derived(cmd)
  BY <1>2, KeysHold, HelperDerived DEF TokenRecord
<1>4. When(tokens[t] # None /\ tokens[t].roomName # None, <<free>>) \o <<DelToken(t)>>
         \in Seq(Derived(cmd))
  BY <1>2, <1>3, PlainDerived, Few, WhenIn, Joined
<1> QED
  BY <1>1, <1>4 DEF Derives, FinalizeToken

LEMMA FreeDerives ==
    ASSUME RInv, NEW c \in Caller, FreeSlot(c)
    PROVE  Derives(c)
<1> DEFINE cmd  == Command(c)
           r    == cmd.r
           room == Freed(rooms[r], cmd.t)
<1>1. cmd \in Sound(members) /\ cmd.do = "free_slot" /\ ~Idle(c)
  BY PendingSound DEF FreeSlot, Issues
<1>2. cmd.t \in Token /\ r \in Room
  BY <1>1, Kinds DEF Frees
<1>3. ASSUME rooms[r] # None
      PROVE  SetRoom(r, room) \in Derived(cmd)
  <2>1. rooms[r] \in RoomRecord
    BY <1>2, <1>3, KeysHold
  <2>2. room \in RoomRecord
    BY <2>1 DEF RoomRecord, Freed
  <2>3. Restated(room, rooms[r])
    BY <1>3, <2>1 DEF Restated, RoomRecord, OwnSlot, Freed
  <2> QED
    BY <1>2, <2>2, <2>3, RoomDerived
<1>4. When(rooms[r] # None, <<SetRoom(r, room), DropIfEmpty(r)>>) \in Seq(Derived(cmd))
  BY <1>2, <1>3, PlainDerived, Few, WhenIn
<1> QED
  BY <1>1, <1>4 DEF Derives, FreeSlot

LEMMA LeaveDerives ==
    ASSUME RInv, NEW c \in Caller, LeaveRoom(c)
    PROVE  Derives(c)
<1> DEFINE cmd  == Command(c)
           r    == cmd.r
           p    == PartnerSlot(rooms[r], cmd.role)
           room == SetSlot(rooms[r], cmd.role, None)
           tell == [do |-> "tell", t |-> p, messages |-> Farewell(cmd.role)]
           rest == IF rooms[r] = None THEN <<>>
                   ELSE When(p # None, <<tell>>) \o <<SetRoom(r, room), DropIfEmpty(r)>>
<1>1. cmd \in Sound(members) /\ cmd.do = "get_left_room" /\ ~Idle(c)
  BY PendingSound DEF LeaveRoom, Issues
<1>2. cmd.t \in Token /\ r \in Room /\ cmd.role \in Role \cup {None}
  BY <1>1, Kinds DEF Leaves
<1>3. Farewell(cmd.role) \in Seq(Notices)
  BY NoticeHearable, Few DEF Farewell, Kind, CloseKind
<1>4. ASSUME rooms[r] # None
      PROVE  rest \in Seq(Derived(cmd))
  <2>1. rooms[r] \in RoomRecord
    BY <1>2, <1>4, KeysHold
  <2>2. p \in Token \cup {None}
    BY <2>1 DEF PartnerSlot, RoomRecord
  <2>3. p # None => tell \in Derived(cmd)
    BY <1>3, <2>2, TellDerived
  <2>4. room \in RoomRecord
    BY <2>1 DEF RoomRecord, SetSlot
  <2>5. Restated(room, rooms[r])
    BY <1>4, <2>1 DEF Restated, RoomRecord, OwnSlot, SetSlot
  <2>6. SetRoom(r, room) \in Derived(cmd)
    BY <1>2, <2>4, <2>5, RoomDerived
  <2> HIDE DEF tell, room
  <2> QED
    BY <1>2, <1>4, <2>3, <2>6, PlainDerived, Few, WhenIn, Joined
<1>5. rest \in Seq(Derived(cmd))
  BY <1>4, Few
<1> HIDE DEF rest
<1>6. <<DelToken(cmd.t)>> \o rest \in Seq(Derived(cmd))
  BY <1>2, <1>5, PlainDerived, Few, Joined
<1> QED
  BY <1>1, <1>6 DEF Derives, LeaveRoom, rest

LEMMA TellDerives ==
    ASSUME RInv, NEW c \in Caller, TellPartner(c)
    PROVE  Derives(c)
<1> DEFINE cmd == Command(c)
<1>1. cmd \in Sound(members) /\ cmd.do = "tell" /\ ~Idle(c)
  BY PendingSound DEF TellPartner, Issues
<1>2. cmd.t \in Token /\ cmd.messages \in Seq(Notices)
  BY <1>1, Kinds DEF Tells
<1>3. When(tokens[cmd.t] # None, <<Mark(cmd.t, cmd.messages)>>) \in Seq(Derived(cmd))
  BY <1>2, TellDerived, Few, WhenIn
<1> QED
  BY <1>1, <1>3 DEF Derives, TellPartner

----------------------------------------------------------------------------
(* The first invariant is kept: what the calls have pending *)

LEMMA NoCallTyped ==
    ASSUME NEW m
    PROVE  NoCall \in CallType(m) /\ NoCall.op # "consume"
BY Few DEF NoCall, CallType

LEMMA CallTyped ==
    ASSUME NEW m, NEW op \in Operation \cup {"none"}, NEW t \in Token \cup {None},
           NEW todo \in Seq(Sound(m))
    PROVE  CallOf(op, t, todo) \in CallType(m)
BY NoCallTyped DEF CallOf, CallType

LEMMA CallsKept ==
    ASSUME RInv, HistoryOK', Grows(members, members'), NEW c \in Caller,
           NEW new \in CallType(members'), new.op = "consume" => new.t \in Token,
           call' = [call EXCEPT ![c] = new]
    PROVE  CallsSound' /\ Consumers'
<1>1. CallType(members) \subseteq CallType(members')
  <2>1. Sound(members) \subseteq Sound(members')
    BY SoundGrows DEF RInv, Typed, HistoryOK
  <2>2. \A s \in Seq(Sound(members)) : s \in Seq(Sound(members'))
    BY <2>1, Wider
  <2> QED
    BY <2>2 DEF CallType
<1>2. call \in [Caller -> CallType(members)]
  BY DEF RInv, CallsSound
<1>3. call' \in [Caller -> CallType(members')]
  BY <1>1, <1>2
<1>4. \A d \in Caller : call'[d] = IF d = c THEN new ELSE call[d]
  BY <1>2
<1> QED
  BY <1>3, <1>4 DEF CallsSound, Consumers, RInv

LEMMA CallsUntouched ==
    ASSUME RInv, HistoryOK', Grows(members, members'), UNCHANGED call
    PROVE  CallsSound' /\ Consumers'
<1>1. CallType(members) \subseteq CallType(members')
  <2>1. Sound(members) \subseteq Sound(members')
    BY SoundGrows DEF RInv, Typed, HistoryOK
  <2>2. \A s \in Seq(Sound(members)) : s \in Seq(Sound(members'))
    BY <2>1, Wider
  <2> QED
    BY <2>2 DEF CallType
<1> QED
  BY <1>1 DEF CallsSound, Consumers, RInv

\* The call goes on with sound commands.
LEMMA GoesOn ==
    ASSUME RInv, HistoryOK', Grows(members, members'), NEW c \in Caller, ~Idle(c),
           NEW commands \in Seq(Sound(members')), Becomes(c, commands) \/ Ends(c, commands)
    PROVE  CallsSound' /\ Consumers'
<1>1. call[c] \in CallType(members) /\ Tail(call[c].todo) \in Seq(Sound(members))
  BY PendingSound
<1>2. /\ call[c].op \in Operation \cup {"none"} /\ call[c].t \in Token \cup {None}
      /\ call[c].op = "consume" => call[c].t \in Token
  BY <1>1 DEF CallType, RInv, Consumers
<1>3. PICK todo \in Seq(Sound(members')) :
         call' = [call EXCEPT ![c] = CallOf(call[c].op, call[c].t, todo)]
  <2>1. Sound(members) \subseteq Sound(members')
    BY SoundGrows DEF RInv, Typed, HistoryOK
  <2>2. commands \o Tail(call[c].todo) \in Seq(Sound(members'))
    BY <1>1, <2>1, Wider, Joined
  <2>3. call' = [call EXCEPT ![c] = CallOf(call[c].op, call[c].t, commands \o Tail(call[c].todo))]
        \/ call' = [call EXCEPT ![c] = CallOf(call[c].op, call[c].t, commands)]
    BY DEF Becomes, Ends, RInv, CallsSound
  <2> QED
    BY <2>2, <2>3
<1>4. CallOf(call[c].op, call[c].t, todo) \in CallType(members')
  BY <1>2, <1>3, CallTyped
<1>5. CallOf(call[c].op, call[c].t, todo).op = "consume" =>
         CallOf(call[c].op, call[c].t, todo).t \in Token
  BY <1>2, NoCallTyped DEF CallOf
<1> QED
  BY <1>3, <1>4, <1>5, CallsKept

\* A call begins with sound commands.
LEMMA Starting ==
    ASSUME RInv, HistoryOK', Grows(members, members'), NEW c \in Caller, NEW op,
           NEW t \in Token \cup {None}, op = "consume" => t \in Token,
           NEW commands \in Seq(Sound(members')), Begins(c, op, t, commands)
    PROVE  CallsSound' /\ Consumers'
<1>1. op \in Operation
  BY RedisBoundAssumption DEF Begins
<1>2. CallOf(op, t, commands) \in CallType(members')
  BY <1>1, CallTyped
<1>3. CallOf(op, t, commands).op = "consume" => CallOf(op, t, commands).t \in Token
  BY NoCallTyped DEF CallOf
<1> QED
  BY <1>2, <1>3, CallsKept DEF Begins

\* A step that only adds to the history of calls.
LEMMA CallsCounted ==
    ASSUME RInv, NEW c \in Caller, NEW op, NEW t, NEW commands, Begins(c, op, t, commands)
    PROVE  calls' \in 0..MaxCalls
BY RedisBoundAssumption DEF RInv, Typed, HistoryOK, Begins

LEMMA Refl == RInv => Grows(members, members)
BY DEF Grows

----------------------------------------------------------------------------
(* Steps that only read *)

LEMMA DerivesR ==
    ASSUME RInv, NEW c \in Caller, Derives(c)
    PROVE  RInv'
<1>1. PICK commands \in Seq(Derived(Command(c))) : Becomes(c, commands) \/ Ends(c, commands)
  BY DEF Derives
<1>2. UNCHANGED <<tokens, rooms, codes, inboxes, held, usedTokens, usedRooms, members, calls>>
  BY <1>1 DEF Derives, Reads, keys, names, Becomes, Ends
<1>3. Typed' /\ Unopened' /\ RecordsApart' /\ MessagesApart'
  BY <1>2 DEF RInv, Typed, HistoryOK, Unopened, RecordsApart, MessagesApart
<1>4. CallsSound' /\ Consumers'
  <2>1. commands \in Seq(Sound(members))
    BY Wider DEF Derived
  <2> QED
    BY <1>1, <1>2, <1>3, <2>1, GoesOn, Refl DEF Derives, Typed
<1> QED
  BY <1>3, <1>4 DEF RInv

\* A call that begins by reading.
NoClaim == [do |-> "none"]

Starts(c) ==
    /\ \E op \in Operation, t \in Token \cup {None}, commands \in Seq(Derived(NoClaim)) :
          Begins(c, op, t, commands) /\ op # "consume"
    /\ Reads

LEMMA ReadsR ==
    ASSUME RInv, NEW c \in Caller, NEW op, NEW t \in Token \cup {None}, op # "consume",
           NEW commands \in Seq(Sound(members)), Begins(c, op, t, commands), Reads
    PROVE  RInv'
<1>1. /\ UNCHANGED <<tokens, rooms, codes, inboxes, held, usedTokens, usedRooms, members>>
      /\ calls' \in 0..MaxCalls
  BY CallsCounted DEF Reads, keys, names
<1>2. Typed' /\ Unopened' /\ RecordsApart' /\ MessagesApart'
  BY <1>1 DEF RInv, Typed, HistoryOK, Unopened, RecordsApart, MessagesApart
<1>3. CallsSound' /\ Consumers'
  BY <1>1, <1>2, Starting, Refl DEF Typed
<1> QED
  BY <1>2, <1>3 DEF RInv

LEMMA StartsR ==
    ASSUME RInv, NEW c \in Caller, Starts(c)
    PROVE  RInv'
<1>1. PICK op \in Operation, t \in Token \cup {None}, commands \in Seq(Derived(NoClaim)) :
         Begins(c, op, t, commands) /\ op # "consume"
  BY DEF Starts
<1>2. commands \in Seq(Sound(members))
  BY Wider DEF Derived
<1> QED
  BY <1>1, <1>2, ReadsR DEF Starts

LEMMA JoinStarts ==
    ASSUME RInv, NEW c \in Caller, NEW t \in Token, NEW r \in Room, JoinSession(c, t, r)
    PROVE  Starts(c)
<1>1. <<GetCode(t, r, FALSE)>> \in Seq(Derived(NoClaim))
  BY HelperDerived, Few
<1> QED
  BY <1>1 DEF JoinSession, Starts, Operation

\* The record of t goes along with what it asks for.
LEMMA OwnRecord ==
    ASSUME RInv, NEW t \in Token, tokens[t] # None
    PROVE  tokens[t] \in TokenRecord /\ Grounded(NoClaim, t, tokens[t])
BY KeysHold, RecordGrounded

LEMMA HeadlessStarts ==
    ASSUME RInv, NEW c \in Caller, NEW t \in Token, NEW hl \in HeadlessModes,
           UpdateRoomHeadless(c, t, hl)
    PROVE  Starts(c)
<1>1. hl \in BOOLEAN
  BY BoundAssumption
<1>2. <<[do |-> "get_own_room", t |-> t, hl |-> hl, record |-> tokens[t]]>>
         \in Seq(Derived(NoClaim))
  BY <1>1, OwnRecord, RecordDerived, Few DEF UpdateRoomHeadless
<1> QED
  BY <1>2 DEF UpdateRoomHeadless, Starts, Operation

LEMMA SendStarts ==
    ASSUME RInv, NEW c \in Caller, NEW t \in Token, NEW text \in Texts,
           SendMessage(c, t, text[1], text[2])
    PROVE  Starts(c)
<1>1. text[1] \in TextKind /\ text[2] \in BOOLEAN
  BY BoundAssumption
<1>2. <<[do |-> "get_senders_room", t |-> t, kind |-> text[1], short |-> text[2],
         sender |-> tokens[t]]>> \in Seq(Derived(NoClaim))
  BY <1>1, OwnRecord, RecordDerived, Few DEF SendMessage
<1> QED
  BY <1>2 DEF SendMessage, Starts, Operation

LEMMA TouchStarts ==
    ASSUME RInv, NEW c \in Caller, NEW t \in Token, TouchParticipant(c, t)
    PROVE  Starts(c)
<1>1. tokens[t] # None /\ tokens[t].roomName \in Room
  BY KeysHold DEF TouchParticipant, TokenRecord
<1>2. Expire(tokens[t].roomName) \in Derived(NoClaim) /\ SetToken(t, tokens[t]) \in Derived(NoClaim)
  BY <1>1, OwnRecord, RecordDerived, PlainDerived
<1>3. <<Expire(tokens[t].roomName), SetToken(t, tokens[t])>> \in Seq(Derived(NoClaim))
  BY <1>2, Few
<1> QED
  BY <1>3 DEF TouchParticipant, Starts, Operation

LEMMA LeaveStarts ==
    ASSUME RInv, NEW c \in Caller, NEW t \in Token, LeaveSession(c, t)
    PROVE  Starts(c)
<1>1. tokens[t].roomName \in Room /\ tokens[t].role \in Role \cup {None}
  BY KeysHold DEF LeaveSession, TokenRecord
<1>2. <<[do |-> "get_left_room", t |-> t, r |-> tokens[t].roomName, role |-> tokens[t].role]>>
         \in Seq(Derived(NoClaim))
  BY <1>1, HelperDerived, Few
<1> QED
  BY <1>2 DEF LeaveSession, Starts, Operation

LEMMA InvalidateStarts ==
    ASSUME RInv, NEW c \in Caller
    PROVE  /\ \A r \in Room : InvalidateRoom(c, r) => Starts(c)
           /\ \A t \in Token : InvalidateByToken(c, t) => Starts(c)
<1>1. ASSUME NEW r \in Room, InvalidateRoom(c, r)
      PROVE  Starts(c)
  <2>1. Closing(rooms[r], "admin_closed") \in Seq(Derived(NoClaim))
    BY <1>1, KeysHold, ClosingDerived DEF InvalidateRoom, CloseKind
  <2> QED
    BY <1>1, <2>1 DEF InvalidateRoom, Starts, Operation
<1>2. ASSUME NEW t \in Token, InvalidateByToken(c, t)
      PROVE  Starts(c)
  <2>1. tokens[t].roomName \in Room
    BY <1>2, KeysHold DEF InvalidateByToken, TokenRecord
  <2>2. <<CloseRoom(tokens[t].roomName, "admin_closed")>> \in Seq(Derived(NoClaim))
    BY <2>1, HelperDerived, Few DEF CloseKind
  <2> QED
    BY <1>2, <2>2 DEF InvalidateByToken, Starts, Operation
<1> QED
  BY <1>1, <1>2

LEMMA InvalidateCodeR ==
    ASSUME RInv, NEW c \in Caller, NEW r \in Room, InvalidateByCode(c, r)
    PROVE  RInv'
<1>1. DelCode(r) \in Sound(members)
  <2>1. DelCode(r) \in OnRooms(members)
    BY DEF InvalidateByCode, RInv, Typed, OnRooms, DelCode
  <2> QED
    BY <2>1 DEF Sound
<1>2. CloseRoom(r, "admin_closed") \in Sound(members)
  BY HelperDerived DEF Derived, CloseKind
<1>3. <<DelCode(r), CloseRoom(r, "admin_closed")>> \in Seq(Sound(members))
  BY <1>1, <1>2, Few
<1> QED
  BY <1>3, ReadsR DEF InvalidateByCode

----------------------------------------------------------------------------
(* Commands that write *)

\* What a write leaves of the call: the commands after it.
LEMMA WriteGoesOn ==
    ASSUME RInv, NEW c \in Caller, ~Idle(c), Becomes(c, <<>>), UNCHANGED members, HistoryOK'
    PROVE  CallsSound' /\ Consumers'
<1>1. <<>> \in Seq(Sound(members'))
  BY Few
<1> QED
  BY <1>1, GoesOn, Refl

LEMMA WriteTokenR ==
    ASSUME RInv, NEW c \in Caller, WriteToken(c)
    PROVE  RInv'
<1> DEFINE cmd == Command(c)
<1>1. ~Idle(c) /\ cmd \in SetTokens(members)
  BY PendingSound, Kinds DEF WriteToken, Issues
<1>2. cmd.t \in Token /\ cmd.record \in TokenRecord /\ Admitted(cmd.t, cmd.record, members)
  BY <1>1 DEF SetTokens
<1>3. /\ tokens' = [tokens EXCEPT ![cmd.t] = cmd.record]
      /\ UNCHANGED <<rooms, codes, inboxes, held, usedTokens, usedRooms, members, calls>>
  BY DEF WriteToken, Becomes, names
<1> HIDE DEF cmd
<1>4. Typed' /\ Unopened' /\ MessagesApart'
  BY <1>2, <1>3 DEF RInv, Typed, HistoryOK, Unopened, MessagesApart
<1>5. RecordsApart'
  <2>1. \A t \in Token : tokens'[t] = IF t = cmd.t THEN cmd.record ELSE tokens[t]
    BY <1>2, <1>3 DEF RInv, Typed
  <2> QED
    BY <1>2, <1>3, <2>1 DEF RInv, RecordsApart, Admitted
<1> QED
  BY <1>1, <1>3, <1>4, <1>5, WriteGoesOn DEF RInv, Typed, WriteToken

LEMMA RemoveTokenR ==
    ASSUME RInv, NEW c \in Caller, RemoveToken(c)
    PROVE  RInv'
<1> DEFINE t == Command(c).t
<1>1. ~Idle(c) /\ Command(c) \in OnTokens
  BY PendingSound, Kinds DEF RemoveToken, Issues
<1>2. t \in Token
  BY <1>1 DEF OnTokens
<1>3. /\ tokens' = [tokens EXCEPT ![t] = None]
      /\ inboxes' = [inboxes EXCEPT ![t] = <<>>]
      /\ UNCHANGED <<rooms, codes, held, usedTokens, usedRooms, members, calls>>
  BY DEF RemoveToken, Becomes, names
<1> HIDE DEF t
<1>4. Typed' /\ Unopened'
  BY <1>2, <1>3, Few DEF RInv, Typed, HistoryOK, Unopened
<1>5. RecordsApart'
  BY <1>2, <1>3 DEF RInv, Typed, RecordsApart, Admitted
<1>6. MessagesApart'
  BY <1>2, <1>3, Few DEF RInv, Typed, MessagesApart
<1> QED
  BY <1>1, <1>3, <1>4, <1>5, <1>6, WriteGoesOn DEF RInv, Typed, RemoveToken

LEMMA WriteRoomR ==
    ASSUME RInv, NEW c \in Caller, WriteRoom(c)
    PROVE  RInv'
<1> DEFINE cmd == Command(c)
<1>1. ~Idle(c) /\ cmd \in SetRooms(members)
  BY PendingSound, Kinds DEF WriteRoom, Issues
<1>2. cmd.r \in Room /\ cmd.record \in RoomRecord /\ Peopled(cmd.r, cmd.record, members)
  BY <1>1 DEF SetRooms
<1>3. /\ rooms' = [rooms EXCEPT ![cmd.r] = cmd.record]
      /\ UNCHANGED <<tokens, codes, inboxes, held, usedTokens, usedRooms, members, calls>>
  BY DEF WriteRoom, Becomes, names
<1> HIDE DEF cmd
<1>4. Typed' /\ Unopened' /\ MessagesApart'
  BY <1>2, <1>3 DEF RInv, Typed, HistoryOK, Unopened, MessagesApart
<1>5. RecordsApart'
  <2>1. \A r \in Room : rooms'[r] = IF r = cmd.r THEN cmd.record ELSE rooms[r]
    BY <1>2, <1>3 DEF RInv, Typed
  <2> QED
    BY <1>2, <1>3, <2>1 DEF RInv, RecordsApart
<1> QED
  BY <1>1, <1>3, <1>4, <1>5, WriteGoesOn DEF RInv, Typed, WriteRoom

LEMMA RemoveRoomR ==
    ASSUME RInv, NEW c \in Caller, RemoveRoom(c)
    PROVE  RInv'
<1> DEFINE r == Command(c).r
<1>1. ~Idle(c) /\ Command(c) \in OnRooms(members)
  BY PendingSound, Kinds DEF RemoveRoom, Issues
<1>2. r \in Room
  BY <1>1 DEF OnRooms, Inhabited
<1>3. /\ rooms' = [rooms EXCEPT ![r] = None]
      /\ UNCHANGED <<tokens, codes, inboxes, held, usedTokens, usedRooms, members, calls>>
  BY DEF RemoveRoom, Becomes, names
<1> HIDE DEF r
<1>4. Typed' /\ Unopened' /\ MessagesApart'
  BY <1>2, <1>3 DEF RInv, Typed, HistoryOK, Unopened, MessagesApart
<1>5. RecordsApart'
  BY <1>2, <1>3 DEF RInv, Typed, RecordsApart, Peopled
<1> QED
  BY <1>1, <1>3, <1>4, <1>5, WriteGoesOn DEF RInv, Typed, RemoveRoom

LEMMA CodeWritesR ==
    ASSUME RInv, NEW c \in Caller, WriteCode(c) \/ RemoveCode(c)
    PROVE  RInv'
<1> DEFINE cmd == Command(c)
<1>1. ~Idle(c) /\ cmd.do \in {"set_code", "del_code"} /\ cmd \in OnRooms(members)
  BY PendingSound, Kinds DEF WriteCode, RemoveCode, Issues
<1>2. cmd.r \in Inhabited(members)
  BY <1>1 DEF OnRooms
<1>3. /\ codes' \in {codes \cup {cmd.r}, codes \ {cmd.r}}
      /\ UNCHANGED <<tokens, rooms, inboxes, held, usedTokens, usedRooms, members, calls>>
      /\ Becomes(c, <<>>)
  BY DEF WriteCode, RemoveCode, CodesWithout, Becomes, names
<1> HIDE DEF cmd
<1>4. Typed' /\ Unopened' /\ RecordsApart' /\ MessagesApart'
  BY <1>2, <1>3 DEF RInv, Typed, HistoryOK, Unopened, RecordsApart, MessagesApart
<1> QED
  BY <1>1, <1>3, <1>4, WriteGoesOn DEF RInv, Typed

LEMMA InboxWritesR ==
    ASSUME RInv, NEW c \in Caller, PushInbox(c) \/ RemoveInbox(c)
    PROVE  RInv'
<1> DEFINE cmd == Command(c)
<1>1. /\ ~Idle(c)
      /\ PushInbox(c) => cmd \in PushesTo(members)
      /\ RemoveInbox(c) => cmd \in OnTokens
  BY PendingSound, Kinds DEF PushInbox, RemoveInbox, Issues
<1>2. PICK new : /\ cmd.t \in Token
                 /\ new \in Seq(Message) /\ new \in Seq(Hearable(cmd.t, members))
                 /\ inboxes' = [inboxes EXCEPT ![cmd.t] = new]
  <2>1. CASE PushInbox(c)
    <3> DEFINE new == inboxes[cmd.t] \o cmd.messages
    <3>1. /\ cmd.t \in Token
          /\ cmd.messages \in Seq(Message) /\ cmd.messages \in Seq(Hearable(cmd.t, members))
      BY <1>1, <2>1 DEF PushesTo
    <3>2. new \in Seq(Message) /\ new \in Seq(Hearable(cmd.t, members))
      BY <3>1, KeysHold, Joined
    <3>3. inboxes' = [inboxes EXCEPT ![cmd.t] = new]
      BY <2>1 DEF PushInbox
    <3> QED
      BY <3>1, <3>2, <3>3
  <2>2. CASE RemoveInbox(c)
    <3>1. cmd.t \in Token
      BY <1>1, <2>2 DEF OnTokens
    <3>2. inboxes' = [inboxes EXCEPT ![cmd.t] = <<>>]
      BY <2>2 DEF RemoveInbox
    <3> QED
      BY <3>1, <3>2, Few
  <2> QED
    BY <2>1, <2>2
<1>3. /\ UNCHANGED <<tokens, rooms, codes, held, usedTokens, usedRooms, members, calls>>
      /\ Becomes(c, <<>>)
  BY DEF PushInbox, RemoveInbox, Becomes, names
<1> HIDE DEF cmd
<1>4. Typed' /\ Unopened' /\ RecordsApart'
  BY <1>2, <1>3 DEF RInv, Typed, HistoryOK, Unopened, RecordsApart
<1>5. MessagesApart'
  BY <1>2, <1>3 DEF RInv, Typed, MessagesApart
<1> QED
  BY <1>1, <1>3, <1>4, <1>5, WriteGoesOn DEF RInv, Typed

----------------------------------------------------------------------------
(* Opening and joining *)

\* The keys when only members grows.
LEMMA GrowthR ==
    ASSUME RInv, HistoryOK', Grows(members, members'),
           UNCHANGED <<tokens, rooms, codes, inboxes, held>>
    PROVE  Typed' /\ RecordsApart' /\ MessagesApart'
<1>1. /\ members \in [Room -> SUBSET Token] /\ members' \in [Room -> SUBSET Token]
  BY DEF RInv, Typed, HistoryOK
<1>2. /\ \A t : Hearable(t, members) \subseteq Hearable(t, members')
      /\ Inhabited(members) \subseteq Inhabited(members')
  BY <1>1, SoundGrows
<1>3. Typed'
  BY <1>2 DEF RInv, Typed
<1>4. RecordsApart'
  BY DEF RInv, Typed, RecordsApart, Admitted, Peopled, Grows, TokenRecord
<1>5. \A t : \A s \in Seq(Hearable(t, members)) : s \in Seq(Hearable(t, members'))
  BY <1>2, Wider
<1>6. MessagesApart'
  BY <1>2, <1>5 DEF RInv, MessagesApart
<1> QED
  BY <1>3, <1>4, <1>6

\* A name that was just generated.
LEMMA NewlyOpened ==
    ASSUME RInv, NEW r \in Room, r \notin usedRooms, NEW t \in Token,
           members' = [members EXCEPT ![r] = {t}], usedRooms' = usedRooms \cup {r}
    PROVE  /\ members' \in [Room -> SUBSET Token] /\ usedRooms' \subseteq Room
           /\ Grows(members, members') /\ Unopened'
           /\ members[r] = {} /\ members'[r] = {t}
<1>1. members[r] = {}
  BY DEF RInv, Unopened
<1> QED
  BY <1>1 DEF RInv, Typed, HistoryOK, Grows, Unopened

LEMMA CreateR ==
    ASSUME RInv, NEW c \in Caller, NEW t \in Token, NEW r \in Room,
           NEW type \in {"standard", "listener"}, CreateSession(c, t, r, type)
    PROVE  RInv'
<1> DEFINE room == NewRoom(t, type, FALSE)
           todo == <<SetRoom(r, room), SetCode(r), Pair(t, r, CreatorRole(type))>>
<1>1. /\ r \notin usedRooms /\ usedRooms' = usedRooms \cup {r}
      /\ members' = [members EXCEPT ![r] = {t}]
      /\ Begins(c, "create", t, todo)
      /\ UNCHANGED <<tokens, rooms, codes, inboxes, held, usedTokens>>
  BY DEF CreateSession, keys
<1>2. /\ Grows(members, members') /\ Unopened' /\ members'[r] = {t} /\ HistoryOK'
  BY <1>1, NewlyOpened, CallsCounted DEF HistoryOK, RInv, Typed
<1>3. room \in RoomRecord /\ room.creatorToken = t /\ Slots(room) \subseteq {t}
  BY NewRoomFacts DEF NewRoom, Slots
<1> HIDE DEF room
<1>4. SetRoom(r, room) \in SetRooms(members')
  BY <1>2, <1>3 DEF SetRooms, SetRoom, Peopled
<1>5. SetCode(r) \in OnRooms(members')
  BY <1>2 DEF OnRooms, SetCode, Inhabited
<1>6. Pair(t, r, CreatorRole(type)) \in Pairs(members')
  BY <1>2, Roles DEF Pairs, Pair
<1>7. todo \in Seq(Sound(members'))
  BY <1>4, <1>5, <1>6, Few DEF Sound
<1> HIDE DEF todo
<1>8. CallsSound' /\ Consumers'
  BY <1>1, <1>2, <1>7, Starting
<1> QED
  BY <1>1, <1>2, <1>8, GrowthR DEF RInv

LEMMA RegisterAndJoinR ==
    ASSUME RInv, NEW c \in Caller, NEW t \in Token, NEW r \in Room, RegisterAndJoin(c, t, r)
    PROVE  RInv'
<1>1. /\ tokens' = [tokens EXCEPT ![t] = NewToken]
      /\ usedTokens' = usedTokens \cup {t}
      /\ Begins(c, "register_and_join", t, <<GetCode(t, r, TRUE)>>)
      /\ UNCHANGED <<rooms, codes, inboxes, held, usedRooms, members>>
  BY DEF RegisterAndJoin
<1>2. HistoryOK'
  BY <1>1, CallsCounted DEF HistoryOK, RInv, Typed
<1>3. Typed' /\ Unopened' /\ MessagesApart'
  BY <1>1, <1>2, NewTokenType DEF RInv, Typed, Unopened, MessagesApart
<1>4. RecordsApart'
  BY <1>1, NewTokenType DEF RInv, Typed, RecordsApart, Admitted
<1>5. <<GetCode(t, r, TRUE)>> \in Seq(Sound(members'))
  BY <1>1, HelperDerived, Few DEF Derived
<1>6. CallsSound' /\ Consumers'
  BY <1>1, <1>2, <1>5, Refl, Starting
<1> QED
  BY <1>3, <1>4, <1>6 DEF RInv

LEMMA ReadCodeR ==
    ASSUME RInv, NEW c \in Caller, ReadCode(c)
    PROVE  RInv'
<1> DEFINE cmd  == Command(c)
           join == [do |-> "get_joined_room", t |-> cmd.t, r |-> cmd.r, new |-> cmd.new]
           then == IF CodeFound(cmd.r) THEN <<join>> ELSE When(cmd.new, <<DelToken(cmd.t)>>)
<1>1. ~Idle(c) /\ cmd \in Codes
  BY PendingSound, Kinds DEF ReadCode, Issues
<1>2. cmd.t \in Token /\ cmd.r \in Room /\ cmd.new \in BOOLEAN
  BY <1>1 DEF Codes
<1>3. CodeFound(cmd.r) => join \in Joins(members)
  BY <1>2 DEF CodeFound, Joins, RInv, Typed
<1>4. DelToken(cmd.t) \in Sound(members)
  BY <1>2, PlainDerived DEF Derived
<1>5. then \in Seq(Sound(members))
  BY <1>2, <1>3, <1>4, Few, WhenIn DEF Sound
<1> HIDE DEF then
<1>6. Becomes(c, then) /\ Reads
  BY DEF ReadCode, then
<1>7. UNCHANGED <<tokens, rooms, codes, inboxes, held, usedTokens, usedRooms, members, calls>>
  BY <1>6 DEF Reads, keys, names, Becomes
<1>8. Typed' /\ Unopened' /\ RecordsApart' /\ MessagesApart'
  BY <1>7 DEF RInv, Typed, HistoryOK, Unopened, RecordsApart, MessagesApart
<1>9. CallsSound' /\ Consumers'
  BY <1>1, <1>5, <1>6, <1>7, <1>8, GoesOn, Refl DEF Typed
<1> QED
  BY <1>8, <1>9 DEF RInv

LEMMA JoinRoomR ==
    ASSUME RInv, NEW c \in Caller, JoinRoom(c)
    PROVE  RInv'
<1> DEFINE cmd  == Command(c)
           t    == cmd.t
           r    == cmd.r
           room == rooms[r]
           role == GuestRole(room.sessionType)
           p    == PartnerSlot(room, role)
           into == Entering(t, r, room, role)
           told == When(p # None, <<Push(p, <<Notice("joined")>>)>>)
           gone == <<DelCode(r)>> \o When(cmd.new, <<DelToken(t)>>)
<1>1. ~Idle(c) /\ cmd \in Joins(members)
  BY PendingSound, Kinds DEF JoinRoom, Issues
<1>2. t \in Token /\ r \in Room /\ cmd.new \in BOOLEAN
      /\ r \in Inhabited(members)
  BY <1>1 DEF Joins, Inhabited
<1>3. UNCHANGED <<tokens, rooms, codes, inboxes, held, usedTokens, usedRooms, calls>>
  BY DEF JoinRoom, keys, names, Becomes
<1>4. /\ room = None => Becomes(c, gone) /\ UNCHANGED members
      /\ room # None => /\ Becomes(c, into \o told)
                        /\ members' = [members EXCEPT ![r] = @ \cup {t}]
  BY <1>2 DEF JoinRoom
<1>5. /\ Grows(members, members') /\ HistoryOK' /\ Unopened'
      /\ room # None => members'[r] = members[r] \cup {t}
  <2>1. members \in [Room -> SUBSET Token] /\ r \in usedRooms
    BY <1>2 DEF RInv, Typed, HistoryOK, Unopened, Inhabited
  <2>2. \/ members' = members
        \/ members' = [members EXCEPT ![r] = members[r] \cup {t}]
    BY <1>4
  <2>3. room # None => members' = [members EXCEPT ![r] = members[r] \cup {t}]
    BY <1>4
  <2> HIDE DEF room
  <2>4. /\ members' \in [Room -> SUBSET Token]
        /\ room # None => members'[r] = members[r] \cup {t}
        /\ \A any \in Room : /\ members[any] \subseteq members'[any]
                             /\ any # r => members'[any] = members[any]
    BY <1>2, <2>1, <2>2, <2>3
  <2> QED
    BY <1>3, <2>1, <2>4 DEF RInv, Typed, HistoryOK, Unopened, Grows
<1>6. Typed' /\ RecordsApart' /\ MessagesApart'
  BY <1>3, <1>5, GrowthR
<1>7. DelCode(r) \in Sound(members')
  <2>1. r \in Inhabited(members')
    BY <1>2, <1>5 DEF Inhabited, Grows
  <2>2. DelCode(r) \in OnRooms(members')
    BY <2>1 DEF OnRooms, DelCode
  <2> QED
    BY <2>2 DEF Sound
<1>8. CASE room = None
  <2>1. DelToken(t) \in Sound(members')
    BY <1>2, <1>4, <1>8, PlainDerived DEF Derived
  <2>2. gone \in Seq(Sound(members'))
    BY <1>2, <1>7, <2>1, Few, WhenIn, Joined
  <2> HIDE DEF gone
  <2>3. CallsSound' /\ Consumers'
    BY <1>1, <1>4, <1>5, <1>8, <2>2, GoesOn
  <2> QED
    BY <1>5, <1>6, <2>3 DEF RInv
<1>9. CASE room # None
  <2>1. room \in RoomRecord /\ Peopled(r, room, members)
    BY <1>2, <1>9, KeysHold DEF RInv, RecordsApart
  <2>2. role \in Role
    BY DEF GuestRole, Role
  <2> DEFINE taken == SetSlot(room, role, t)
  <2>3. taken \in RoomRecord /\ taken.creatorToken = room.creatorToken
        /\ Slots(taken) \subseteq Slots(room) \cup {t}
    BY <1>2, <2>1, <2>2 DEF SetSlot, RoomRecord, Slots
  <2> HIDE DEF taken
  <2>4. SetRoom(r, taken) \in SetRooms(members')
    BY <1>2, <1>5, <1>9, <2>1, <2>3 DEF SetRooms, SetRoom, Peopled
  <2>5. Pair(t, r, role) \in Pairs(members')
    BY <1>2, <1>5, <1>9, <2>2 DEF Pairs, Pair
  <2>6. into \in Seq(Sound(members'))
    <3>1. into = <<DelCode(r), Pair(t, r, role), SetRoom(r, taken)>>
      BY DEF Entering, taken
    <3> QED
      BY <1>7, <2>4, <2>5, <3>1, Few DEF Sound
  <2>7. p # None => p \in Token
    BY <2>1 DEF PartnerSlot, RoomRecord
  <2>8. p # None => <<Push(p, <<Notice("joined")>>)>> \in Seq(Sound(members'))
    <3>1. ASSUME p # None
          PROVE  Push(p, <<Notice("joined")>>) \in PushesTo(members')
      <4>1. Notice("joined") \in Message /\ Notice("joined") \in Hearable(p, members')
        BY NoticeType, NoticeHearable DEF Kind
      <4>2. <<Notice("joined")>> \in Seq(Message) /\ <<Notice("joined")>> \in Seq(Hearable(p, members'))
        BY <4>1, Few
      <4> QED
        BY <2>7, <3>1, <4>2 DEF PushesTo, Push
    <3> QED
      BY <3>1, Few DEF Sound
  <2>9. told \in Seq(Sound(members'))
    BY <2>8, WhenIn
  <2> HIDE DEF into, told
  <2>10. into \o told \in Seq(Sound(members'))
    BY <2>6, <2>9, Joined
  <2>11. CallsSound' /\ Consumers'
    BY <1>1, <1>4, <1>5, <1>9, <2>10, GoesOn
  <2> QED
    BY <1>5, <1>6, <2>11 DEF RInv
<1> QED
  BY <1>8, <1>9

----------------------------------------------------------------------------
(* Steps that touch no pending command but their own *)

LEMMA RegisterR ==
    ASSUME RInv, NEW t \in Token, Register(t)
    PROVE  RInv'
<1>1. /\ tokens' = [tokens EXCEPT ![t] = NewToken]
      /\ usedTokens' = usedTokens \cup {t}
      /\ UNCHANGED <<rooms, codes, inboxes, held, call, usedRooms, members, calls>>
  BY DEF Register
<1>2. Typed' /\ Unopened' /\ MessagesApart'
  BY <1>1, NewTokenType DEF RInv, Typed, HistoryOK, Unopened, MessagesApart
<1>3. RecordsApart'
  BY <1>1, NewTokenType DEF RInv, Typed, RecordsApart, Admitted
<1> QED
  BY <1>1, <1>2, <1>3, Refl, CallsUntouched DEF RInv, Typed

LEMMA SetupR ==
    ASSUME RInv, NEW t \in Token, NEW r \in Room, NEW type \in {"standard", "listener"},
           NEW hl \in HeadlessModes, SetupSession(t, r, type, hl)
    PROVE  RInv'
<1> DEFINE record == Paired(NewToken, r, CreatorRole(type))
           room   == NewRoom(t, type, hl)
<1>1. /\ r \notin usedRooms /\ usedRooms' = usedRooms \cup {r}
      /\ usedTokens' = usedTokens \cup {t}
      /\ tokens' = [tokens EXCEPT ![t] = record]
      /\ rooms' = [rooms EXCEPT ![r] = room]
      /\ codes' = codes \cup {r}
      /\ members' = [members EXCEPT ![r] = {t}]
      /\ UNCHANGED <<inboxes, held, call, calls>>
  BY DEF SetupSession
<1>2. record \in TokenRecord /\ record.roomName = r
  BY NewTokenType, PairedType, Roles
<1>3. hl \in BOOLEAN
  BY BoundAssumption
<1>4. room \in RoomRecord /\ Slots(room) \cup {room.creatorToken} \subseteq {t}
  BY <1>3, NewRoomFacts DEF NewRoom, Slots
<1> HIDE DEF record, room
<1>5. /\ Grows(members, members') /\ Unopened' /\ members'[r] = {t} /\ HistoryOK'
      /\ members \in [Room -> SUBSET Token] /\ members' \in [Room -> SUBSET Token]
  BY <1>1, NewlyOpened DEF HistoryOK, RInv, Typed
<1>6. Typed'
  <2>1. codes' \subseteq Inhabited(members')
    BY <1>1, <1>5, SoundGrows DEF RInv, Typed, Inhabited
  <2> QED
    BY <1>1, <1>2, <1>4, <1>5, <2>1 DEF RInv, Typed
<1>7. RecordsApart'
  <2>1. \A u \in Token : tokens'[u] # None => Admitted(u, tokens'[u], members')
    <3>1. \A u \in Token : tokens'[u] = IF u = t THEN record ELSE tokens[u]
      BY <1>1 DEF RInv, Typed
    <3>2. \A u \in Token : tokens[u] # None => tokens[u].roomName \in Room \cup {None}
      BY KeysHold DEF TokenRecord
    <3> QED
      BY <1>2, <1>5, <3>1, <3>2 DEF RInv, RecordsApart, Admitted, Grows
  <2>2. \A s \in Room : rooms'[s] # None => Peopled(s, rooms'[s], members')
    <3>1. \A s \in Room : rooms'[s] = IF s = r THEN room ELSE rooms[s]
      BY <1>1 DEF RInv, Typed
    <3> QED
      BY <1>4, <1>5, <3>1 DEF RInv, RecordsApart, Peopled, Grows
  <2> QED
    BY <2>1, <2>2 DEF RecordsApart
<1>8. MessagesApart'
  <2>1. \A u : Hearable(u, members) \subseteq Hearable(u, members')
    BY <1>5, SoundGrows
  <2>2. \A u : \A s \in Seq(Hearable(u, members)) : s \in Seq(Hearable(u, members'))
    BY <2>1, Wider
  <2> QED
    BY <1>1, <2>1, <2>2 DEF RInv, MessagesApart
<1> QED
  BY <1>1, <1>5, <1>6, <1>7, <1>8, CallsUntouched DEF RInv

\* The two places of a message.
LEMMA MessagesMoved ==
    ASSUME RInv, NEW t \in Token, NEW inbox, NEW taken,
           inbox \in Seq(Message), inbox \in Seq(Hearable(t, members)),
           taken \in Message \cup {None}, taken # None => taken \in Hearable(t, members),
           inboxes' = [inboxes EXCEPT ![t] = inbox], held' = [held EXCEPT ![t] = taken],
           UNCHANGED <<tokens, rooms, codes, members, usedTokens, usedRooms>>, calls' \in 0..MaxCalls
    PROVE  Typed' /\ Unopened' /\ RecordsApart' /\ MessagesApart'
<1>1. Typed' /\ Unopened' /\ RecordsApart'
  BY DEF RInv, Typed, HistoryOK, Unopened, RecordsApart
<1>2. MessagesApart'
  BY DEF RInv, Typed, MessagesApart
<1> QED
  BY <1>1, <1>2

LEMMA Taken ==
    ASSUME RInv, NEW t \in Token, held[t] # None
    PROVE  held[t] \in Message /\ held[t] \in Hearable(t, members)
BY DEF RInv, Typed, MessagesApart

LEMMA ConsumeR ==
    ASSUME RInv, NEW c \in Caller, NEW t \in Token, ConsumeInboxMessage(c, t)
    PROVE  RInv'
<1> DEFINE inbox == Tail(inboxes[t])
           taken == Head(inboxes[t])
           todo  == When(Counted(taken), <<[do |-> "count_close", t |-> t]>>)
<1>1. inboxes[t] # <<>> /\ inboxes[t] \in Seq(Message) /\ inboxes[t] \in Seq(Hearable(t, members))
  BY KeysHold DEF ConsumeInboxMessage
<1>2. /\ taken \in Message /\ taken \in Hearable(t, members)
      /\ inbox \in Seq(Message) /\ inbox \in Seq(Hearable(t, members))
  BY <1>1, Parts
<1>3. /\ inboxes' = [inboxes EXCEPT ![t] = inbox] /\ held' = [held EXCEPT ![t] = taken]
      /\ UNCHANGED <<tokens, rooms, codes, members, usedTokens, usedRooms>>
      /\ Begins(c, "consume", t, todo)
  BY DEF ConsumeInboxMessage, names, RInv, Typed
<1>4. todo \in Seq(Sound(members'))
  <2>1. [do |-> "count_close", t |-> t] \in Sound(members')
    BY <1>3, PlainDerived DEF Derived
  <2>2. Counted(taken) \in BOOLEAN
    BY DEF Counted, IsClose
  <2> QED
    BY <2>1, <2>2, Few, WhenIn
<1> HIDE DEF inbox, taken, todo
<1>5. calls' \in 0..MaxCalls
  BY <1>3, CallsCounted
<1>6. Typed' /\ Unopened' /\ RecordsApart' /\ MessagesApart'
  BY <1>2, <1>3, <1>5, MessagesMoved
<1>7. CallsSound' /\ Consumers'
  BY <1>3, <1>4, <1>6, Refl, Starting DEF Typed
<1> QED
  BY <1>6, <1>7 DEF RInv

LEMMA HandsR ==
    ASSUME RInv, NEW t \in Token, Delivered(t) \/ Requeue(t)
    PROVE  RInv'
<1>1. held[t] # None /\ held[t] \in Message /\ held[t] \in Hearable(t, members)
  BY Taken DEF Delivered, Requeue
<1>2. inboxes[t] \in Seq(Message) /\ inboxes[t] \in Seq(Hearable(t, members))
  BY KeysHold
<1>3. /\ held' = [held EXCEPT ![t] = None]
      /\ UNCHANGED <<tokens, rooms, codes, call, members, usedTokens, usedRooms, calls>>
  BY DEF Delivered, Requeue, keys, names
<1>4. PICK inbox : /\ inbox \in Seq(Message) /\ inbox \in Seq(Hearable(t, members))
                   /\ inboxes' = [inboxes EXCEPT ![t] = inbox]
  <2>1. CASE Delivered(t)
    <3>1. inboxes' = [inboxes EXCEPT ![t] = inboxes[t]]
      BY <2>1 DEF Delivered, keys, RInv, Typed
    <3> QED
      BY <1>2, <3>1
  <2>2. CASE Requeue(t)
    <3> DEFINE again == [held[t] EXCEPT !.again = TRUE]
    <3>1. again \in Message /\ again \in Hearable(t, members)
      BY <1>1 DEF Message, Hearable
    <3> HIDE DEF again
    <3>2. <<again>> \in Seq(Message) /\ <<again>> \in Seq(Hearable(t, members))
      BY <3>1, Few
    <3>3. <<again>> \o inboxes[t] \in Seq(Message) /\ <<again>> \o inboxes[t] \in Seq(Hearable(t, members))
      BY <1>2, <3>2, Joined
    <3>4. inboxes' = [inboxes EXCEPT ![t] = <<again>> \o inboxes[t]]
      BY <2>2 DEF Requeue, again
    <3> QED
      BY <3>3, <3>4
  <2> QED
    BY <2>1, <2>2
<1>5. calls' \in 0..MaxCalls
  BY <1>3 DEF RInv, Typed, HistoryOK
<1>6. Typed' /\ Unopened' /\ RecordsApart' /\ MessagesApart'
  BY <1>3, <1>4, <1>5, MessagesMoved
<1>7. CallsSound' /\ Consumers'
  BY <1>3, <1>6, Refl, CallsUntouched DEF Typed
<1> QED
  BY <1>6, <1>7 DEF RInv

LEMMA EndsR ==
    ASSUME RInv, Ending
    PROVE  RInv'
<1> DEFINE Shrunk ==
             /\ UNCHANGED <<held, call, members, usedTokens, usedRooms, calls>>
             /\ \A t \in Token : tokens'[t] \in {tokens[t], None}
             /\ \A r \in Room : rooms'[r] \in {rooms[r], None}
             /\ codes' \subseteq codes
             /\ \A t \in Token : inboxes'[t] \in {inboxes[t], <<>>}
             /\ tokens' \in [Token -> TokenRecord \cup {None}]
             /\ rooms' \in [Room -> RoomRecord \cup {None}]
             /\ inboxes' \in [Token -> Seq(Message)]
<1>1. Shrunk
  <2>0. /\ tokens \in [Token -> TokenRecord \cup {None}]
        /\ rooms \in [Room -> RoomRecord \cup {None}]
        /\ inboxes \in [Token -> Seq(Message)]
        /\ <<>> \in Seq(Message)
    BY Few DEF RInv, Typed
  <2>1. ASSUME NEW t \in Token, TokenEnds(t) PROVE Shrunk
    BY <2>0, <2>1 DEF TokenEnds, names
  <2>2. ASSUME NEW t \in Token, InboxEnds(t) PROVE Shrunk
    BY <2>0, <2>2 DEF InboxEnds, names
  <2>3. ASSUME NEW r \in Room, RoomEnds(r) PROVE Shrunk
    BY <2>0, <2>3 DEF RoomEnds, names
  <2>4. ASSUME NEW r \in Room, CodeEnds(r) PROVE Shrunk
    BY <2>0, <2>4 DEF CodeEnds, names
  <2> QED
    BY <2>1, <2>2, <2>3, <2>4 DEF Ending
<1>2. Typed' /\ Unopened'
  BY <1>1 DEF RInv, Typed, HistoryOK, Unopened, Inhabited
<1>3. RecordsApart'
  BY <1>1 DEF RInv, RecordsApart
<1>4. MessagesApart'
  <2>1. \A t : <<>> \in Seq(Hearable(t, members))
    BY Few
  <2> QED
    BY <1>1, <2>1 DEF RInv, MessagesApart
<1>5. CallsSound' /\ Consumers'
  BY <1>1, <1>2, Refl, CallsUntouched DEF Typed
<1> QED
  BY <1>2, <1>3, <1>4, <1>5 DEF RInv

LEMMA CrashR ==
    ASSUME RInv, NEW c \in Caller, Crash(c)
    PROVE  RInv'
<1>1. /\ call' = [call EXCEPT ![c] = NoCall]
      /\ UNCHANGED <<tokens, rooms, codes, inboxes, members, usedTokens, usedRooms, calls>>
      /\ held' \in [Token -> Message \cup {None}]
      /\ \A t \in Token : held'[t] \in {held[t], None}
  BY DEF Crash, keys, names, RInv, Typed
<1>2. Typed' /\ Unopened' /\ RecordsApart'
  BY <1>1 DEF RInv, Typed, HistoryOK, Unopened, RecordsApart
<1>3. MessagesApart'
  BY <1>1 DEF RInv, MessagesApart
<1>4. CallsSound' /\ Consumers'
  BY <1>1, <1>2, Refl, NoCallTyped, CallsKept DEF Typed
<1> QED
  BY <1>2, <1>3, <1>4 DEF RInv

----------------------------------------------------------------------------
(* The first invariant *)

LEMMA RInit == Init => RInv
<1> SUFFICES ASSUME Init PROVE RInv
  OBVIOUS
<1>1. Typed /\ Unopened
  BY RedisBoundAssumption, Few DEF Init, Typed, HistoryOK, Inhabited, Unopened
<1>2. RecordsApart /\ MessagesApart
  BY Few DEF Init, RecordsApart, MessagesApart
<1>3. CallsSound /\ Consumers
  BY NoCallTyped DEF Init, CallsSound, Consumers
<1> QED
  BY <1>1, <1>2, <1>3 DEF RInv

LEMMA CalledR ==
    ASSUME RInv, NEW c \in Caller, Called(c)
    PROVE  RInv'
<1>1. ASSUME NEW t \in Token, NEW r \in Room, RegisterAndJoin(c, t, r) PROVE RInv'
  BY <1>1, RegisterAndJoinR
<1>2. ASSUME NEW t \in Token, NEW r \in Room, NEW type \in {"standard", "listener"},
             CreateSession(c, t, r, type)
      PROVE  RInv'
  BY <1>2, CreateR
<1>3. ASSUME NEW t \in Token, NEW r \in Room, JoinSession(c, t, r) PROVE RInv'
  BY <1>3, JoinStarts, StartsR
<1>4. ASSUME NEW t \in Token, NEW hl \in HeadlessModes, UpdateRoomHeadless(c, t, hl) PROVE RInv'
  BY <1>4, HeadlessStarts, StartsR
<1>5. ASSUME NEW t \in Token, NEW text \in Texts, SendMessage(c, t, text[1], text[2]) PROVE RInv'
  BY <1>5, SendStarts, StartsR
<1>6. ASSUME NEW t \in Token, TouchParticipant(c, t) PROVE RInv'
  BY <1>6, TouchStarts, StartsR
<1>7. ASSUME NEW t \in Token, ConsumeInboxMessage(c, t) PROVE RInv'
  BY <1>7, ConsumeR
<1>8. ASSUME NEW t \in Token, LeaveSession(c, t) PROVE RInv'
  BY <1>8, LeaveStarts, StartsR
<1>9. ASSUME NEW t \in Token, InvalidateByToken(c, t) PROVE RInv'
  BY <1>9, InvalidateStarts, StartsR
<1>10. ASSUME NEW r \in Room, InvalidateRoom(c, r) PROVE RInv'
  BY <1>10, InvalidateStarts, StartsR
<1>11. ASSUME NEW r \in Room, InvalidateByCode(c, r) PROVE RInv'
  BY <1>11, InvalidateCodeR
<1> QED
  BY <1>1, <1>2, <1>3, <1>4, <1>5, <1>6, <1>7, <1>8, <1>9, <1>10, <1>11 DEF Called

\* All answers but those to the GETs of a join.
LEMMA AsksDerive ==
    ASSUME RInv, NEW c \in Caller, Asks(c)
    PROVE  Derives(c) \/ ReadCode(c) \/ JoinRoom(c)
BY PairDerives, MarkDerives, DropDerives, CloseDerives, ExpireDerives, JudgeDerives,
   HeadlessDerives, SendersRoomDerives, PartnerDerives, DiscardDerives, DiscardPartnerDerives,
   CountDerives, FinalizeDerives, FreeDerives, LeaveDerives, TellDerives DEF Asks

LEMMA RNext == RInv /\ [Next]_vars => RInv'
<1> SUFFICES ASSUME RInv, [Next]_vars PROVE RInv'
  OBVIOUS
<1>1. ASSUME NEW c \in Caller, Called(c) PROVE RInv'
  BY <1>1, CalledR
<1>2. ASSUME NEW c \in Caller, Writes(c) PROVE RInv'
  BY <1>2, WriteTokenR, RemoveTokenR, WriteRoomR, RemoveRoomR, CodeWritesR, InboxWritesR DEF Writes
<1>3. ASSUME NEW c \in Caller, Asks(c) PROVE RInv'
  BY <1>3, AsksDerive, DerivesR, ReadCodeR, JoinRoomR
<1>4. ASSUME NEW c \in Caller, Crash(c) PROVE RInv'
  BY <1>4, CrashR
<1>5. CASE Single
  BY <1>5, RegisterR, SetupR, HandsR DEF Single
<1>6. CASE Ending
  BY <1>6, EndsR
<1>7. CASE UNCHANGED vars
  <2>1. UNCHANGED <<tokens, rooms, codes, inboxes, held, call, usedTokens, usedRooms, members, calls>>
    BY <1>7 DEF vars, keys, names
  <2> QED
    BY <2>1 DEF RInv, Typed, HistoryOK, Unopened, RecordsApart, MessagesApart, CallsSound, Consumers
<1> QED
  BY <1>1, <1>2, <1>3, <1>4, <1>5, <1>6, <1>7 DEF Next

\* Keys and pending commands alike are of their kind, and keep to who was
\* admitted where.
THEOREM RedisInvariance == Spec => []RInv
<1> QED
  BY RInit, RNext, PTL DEF Spec

\* Every key holds a record of its kind, whatever interleaves, ends or stops.
THEOREM RedisTyped == Spec => []TypeOK
<1>1. RInv => TypeOK
  <2> SUFFICES ASSUME RInv PROVE TypeOK
    OBVIOUS
  <2>1. \A t \in Token : \A i \in DOMAIN inboxes[t] : inboxes[t][i] \in Message
    BY KeysHold
  <2>2. codes \subseteq Room
    BY DEF RInv, Typed, Inhabited
  <2> QED
    BY <2>1, <2>2 DEF RInv, Typed, TypeOK, RecordsOK
<1> QED
  BY <1>1, RedisInvariance, PTL

\* No call writes what it read into another session: rooms hold, and records
\* name, only those the room was opened for or has admitted, and inboxes only
\* what was said in a room of both.
THEOREM SessionsNeverMix == Spec => []SessionsStayApart
<1>1. RInv => SessionsStayApart
  <2> SUFFICES ASSUME RInv PROVE SessionsStayApart
    OBVIOUS
  <2>1. \A r \in Room : rooms[r] # None => Slots(rooms[r]) \subseteq members[r]
    BY DEF RInv, RecordsApart, Peopled
  <2>2. \A t \in Token : tokens[t] # None /\ tokens[t].roomName # None =>
           t \in members[tokens[t].roomName]
    BY DEF RInv, RecordsApart, Admitted
  <2>3. \A t \in Token : \A i \in DOMAIN inboxes[t] :
           inboxes[t][i].from # None => \E r \in Room : {t, inboxes[t][i].from} \subseteq members[r]
    <3>1. \A t \in Token : \A i \in DOMAIN inboxes[t] : inboxes[t][i] \in Hearable(t, members)
      BY KeysHold
    <3> QED
      BY <3>1 DEF Hearable, Met
  <2> QED
    BY <2>1, <2>2, <2>3 DEF SessionsStayApart
<1> QED
  BY <1>1, RedisInvariance, PTL

----------------------------------------------------------------------------
(* The second invariant: how a step leaves the code of a room guarded *)

LEMMA GuardSetsGrow ==
    ASSUME NEW m \in [Room -> SUBSET Token], NEW n \in [Room -> SUBSET Token], Grows(m, n),
           NEW r, NEW k
    PROVE  /\ \A s \in Seq(Faithful(m, r, k)) : s \in Seq(Faithful(n, r, k))
           /\ \A s \in Seq(Uncoding(m, r)) : s \in Seq(Uncoding(n, r))
           /\ \A s \in Seq(Harmless(m, r, k)) : s \in Seq(Harmless(n, r, k))
           /\ \A s \in Seq(Blind(m, r, k)) : s \in Seq(Blind(n, r, k))
<1>1. Sound(m) \subseteq Sound(n)
  BY SoundGrows
<1>2. Faithful(m, r, k) \subseteq Faithful(n, r, k) /\ Uncoding(m, r) \subseteq Uncoding(n, r)
  BY <1>1 DEF Faithful, Uncoding
<1>3. Harmless(m, r, k) \subseteq Harmless(n, r, k)
  BY <1>2 DEF Harmless
<1>4. Blind(m, r, k) \subseteq Blind(n, r, k)
  BY <1>3 DEF Blind
<1> QED
  BY <1>2, <1>3, <1>4, Wider

\* Each of the sets contains the next.
LEMMA GuardSetsNest ==
    ASSUME NEW m, NEW r, NEW k
    PROVE  /\ \A s \in Seq(Harmless(m, r, k)) : s \in Seq(Uncoding(m, r))
           /\ \A s \in Seq(Blind(m, r, k)) : s \in Seq(Harmless(m, r, k))
           /\ \A s \in Seq(Blind(m, r, k)) : s \in Seq(Uncoding(m, r))
<1>1. Harmless(m, r, k) \subseteq Uncoding(m, r) /\ Blind(m, r, k) \subseteq Harmless(m, r, k)
  BY DEF Harmless, Blind
<1> QED
  BY <1>1, Wider

\* What one caller has pending is now this; what the others have is the same.
Todos(c, todo) ==
    /\ call'[c].todo = todo
    /\ \A d \in Caller \ {c} : call'[d].todo = call[d].todo

\* Caller c has nothing pending that would bring the guest in.
Meek(c, r, k) == call[c].todo \in Seq(Harmless(members, r, k)) \/ Redeems(call[c].todo, r)

\* A step of a caller that is not opening the room keeps the code guarded if
\* its commands are harmless wherever those before them were.
LEMMA GuardStep ==
    ASSUME RInv, HistoryOK', Grows(members, members'), NEW r \in Room, NEW k \in Token,
           Guarded(r, k), NEW c \in Caller, NEW todo, Todos(c, todo),
           ~Creates(call[c].todo, r, k),
           r \in codes' => r \in codes,
           rooms'[r] # None => rooms'[r].creatorToken = k,
           Unredeemed(r, k) /\ Meek(c, r, k) => Unredeemed(r, k)' \/ Closed(r)',
           todo \in Seq(Faithful(members', r, k)),
           todo \in Seq(Uncoding(members', r)),
           r \in codes' /\ Unredeemed(r, k) /\ Meek(c, r, k) =>
              todo \in Seq(Harmless(members', r, k)) \/ Redeems(todo, r),
           r \notin codes /\ Unredeemed(r, k) /\ call[c].todo \in Seq(Blind(members, r, k)) =>
              todo \in Seq(Blind(members', r, k))
    PROVE  Guarded(r, k)'
<1>1. /\ \A s \in Seq(Faithful(members, r, k)) : s \in Seq(Faithful(members', r, k))
      /\ \A s \in Seq(Uncoding(members, r)) : s \in Seq(Uncoding(members', r))
      /\ \A s \in Seq(Harmless(members, r, k)) : s \in Seq(Harmless(members', r, k))
      /\ \A s \in Seq(Blind(members, r, k)) : s \in Seq(Blind(members', r, k))
  BY GuardSetsGrow DEF RInv, Typed, HistoryOK
<1>2. OpenedBy(r, k)'
  BY <1>1 DEF Guarded, OpenedBy, Todos
<1>3. CASE Opening(r, k)
  <2>1. PICK e \in Caller : /\ Creates(call[e].todo, r, k)
                            /\ \A d \in Caller \ {e} : call[d].todo \in Seq(Blind(members, r, k))
    BY <1>3 DEF Opening
  <2>2. /\ c # e /\ call[c].todo \in Seq(Blind(members, r, k))
        /\ r \notin codes /\ r \notin codes' /\ Unredeemed(r, k)
    BY <1>3, <2>1 DEF Opening
  <2>3. Unredeemed(r, k)' \/ Closed(r)'
    BY <2>2, GuardSetsNest DEF Meek
  <2>4. Creates(call'[e].todo, r, k)
    BY <2>1, <2>2 DEF Todos
  <2>5. \A d \in Caller \ {e} : call'[d].todo \in Seq(Blind(members', r, k))
    BY <1>1, <2>1, <2>2 DEF Todos
  <2>6. Opening(r, k)' \/ Closed(r)'
    BY <2>2, <2>3, <2>4, <2>5 DEF Opening
  <2> QED
    BY <1>2, <2>6 DEF Guarded
<1>4. CASE Open(r, k)
  <2>1. Meek(c, r, k) /\ Unredeemed(r, k)
    BY <1>4 DEF Open, Meek
  <2>2. \A d \in Caller : call'[d].todo \in Seq(Uncoding(members', r))
    BY <1>1, <1>4, GuardSetsNest DEF Open, Todos
  <2>3. CASE r \in codes' /\ Unredeemed(r, k)'
    <3>1. \A d \in Caller : \/ call'[d].todo \in Seq(Harmless(members', r, k))
                            \/ Redeems(call'[d].todo, r)
      BY <1>1, <1>4, <2>1, <2>3 DEF Open, Todos
    <3> QED
      BY <1>2, <2>2, <2>3, <3>1 DEF Open, Guarded
  <2>4. CASE r \notin codes' \/ Closed(r)'
    BY <1>2, <2>2, <2>4 DEF Closed, Guarded
  <2> QED
    BY <2>1, <2>3, <2>4
<1>5. CASE Closed(r)
  <2>1. Closed(r)'
    BY <1>1, <1>5 DEF Closed, Todos
  <2> QED
    BY <1>2, <2>1 DEF Guarded
<1> QED
  BY <1>3, <1>4, <1>5 DEF Guarded

\* The same when no call changes.
LEMMA GuardStill ==
    ASSUME RInv, HistoryOK', Grows(members, members'), NEW r \in Room, NEW k \in Token,
           Guarded(r, k), UNCHANGED call,
           r \in codes' => r \in codes,
           rooms'[r] # None => rooms'[r].creatorToken = k,
           Unredeemed(r, k) => Unredeemed(r, k)'
    PROVE  Guarded(r, k)'
<1>1. /\ \A s \in Seq(Faithful(members, r, k)) : s \in Seq(Faithful(members', r, k))
      /\ \A s \in Seq(Uncoding(members, r)) : s \in Seq(Uncoding(members', r))
      /\ \A s \in Seq(Harmless(members, r, k)) : s \in Seq(Harmless(members', r, k))
      /\ \A s \in Seq(Blind(members, r, k)) : s \in Seq(Blind(members', r, k))
  BY GuardSetsGrow DEF RInv, Typed, HistoryOK
<1>2. OpenedBy(r, k)'
  BY <1>1 DEF Guarded, OpenedBy
<1>3. CASE Opening(r, k)
  <2>1. Opening(r, k)'
    BY <1>1, <1>3 DEF Opening
  <2> QED
    BY <1>2, <2>1 DEF Guarded
<1>4. CASE Open(r, k)
  <2>1. \A d \in Caller : call'[d].todo \in Seq(Uncoding(members', r))
    BY <1>1, <1>4, GuardSetsNest DEF Open
  <2>2. Open(r, k)' \/ Closed(r)'
    BY <1>1, <1>4, <2>1 DEF Open, Closed
  <2> QED
    BY <1>2, <2>2 DEF Guarded
<1>5. CASE Closed(r)
  <2>1. Closed(r)'
    BY <1>1, <1>5 DEF Closed
  <2> QED
    BY <1>2, <2>1 DEF Guarded
<1> QED
  BY <1>3, <1>4, <1>5 DEF Guarded

\* A call that creates the room has not written the code, and will.
LEMMA CreatesFacts ==
    ASSUME NEW todo, NEW r \in Room, NEW k \in Token, Creates(todo, r, k)
    PROVE  /\ todo # <<>> /\ Head(todo).do \in {"set_room", "set_code"}
           /\ \A m : todo \notin Seq(Uncoding(m, r))
           /\ ~Redeems(todo, r)
<1>1. PICK room \in RoomRecord, role \in Role :
         todo \in {<<SetRoom(r, room), SetCode(r), Pair(k, r, role)>>,
                   <<SetCode(r), Pair(k, r, role)>>}
  BY DEF Creates
<1>2. /\ SetRoom(r, room).do = "set_room" /\ SetCode(r).do = "set_code" /\ SetCode(r).r = r
      /\ DelCode(r).do = "del_code"
  BY DEF SetRoom, SetCode, DelCode
<1>3. \E i \in DOMAIN todo : todo[i] = SetCode(r)
  <2>1. CASE todo = <<SetRoom(r, room), SetCode(r), Pair(k, r, role)>>
    <3>1. 2 \in DOMAIN todo /\ todo[2] = SetCode(r)
      BY <2>1
    <3> QED
      BY <3>1
  <2>2. CASE todo = <<SetCode(r), Pair(k, r, role)>>
    <3>1. 1 \in DOMAIN todo /\ todo[1] = SetCode(r)
      BY <2>2
    <3> QED
      BY <3>1
  <2> QED
    BY <1>1, <2>1, <2>2
<1>4. \A m : todo \notin Seq(Uncoding(m, r))
  <2> SUFFICES ASSUME NEW m, todo \in Seq(Uncoding(m, r)) PROVE FALSE
    OBVIOUS
  <2>1. PICK i \in DOMAIN todo : todo[i] = SetCode(r)
    BY <1>3
  <2>2. SetCode(r) \in Uncoding(m, r)
    BY <2>1
  <2> QED
    BY <1>2, <2>2 DEF Uncoding
<1>5. todo # <<>> /\ Head(todo) \in {SetRoom(r, room), SetCode(r)}
  BY <1>1
<1> QED
  BY <1>2, <1>4, <1>5 DEF Redeems

----------------------------------------------------------------------------
(* Answers and calls that derive their commands *)

LEMMA DerivedGuards ==
    ASSUME RInv, NEW cmd, NEW r \in Room, NEW k \in Token,
           rooms[r] # None => rooms[r].creatorToken = k
    PROVE  /\ Derived(cmd) \subseteq Faithful(members, r, k)
           /\ Derived(cmd) \subseteq Uncoding(members, r)
           /\ Unredeemed(r, k) /\ (\A t \in Token : Claims(cmd, t, r) => t = k) =>
                 Derived(cmd) \subseteq Blind(members, r, k)
<1>1. Derived(cmd) \subseteq Faithful(members, r, k)
  BY DEF Derived, Faithful, Unclaimed, Restated
<1>2. Derived(cmd) \subseteq Uncoding(members, r)
  BY DEF Derived, Uncoding, Unclaimed
<1>3. ASSUME Unredeemed(r, k), \A t \in Token : Claims(cmd, t, r) => t = k, NEW x \in Derived(cmd)
      PROVE  x \in Blind(members, r, k)
  <2>1. x \in Uncoding(members, r) /\ x.do \notin {"del_code", "get_joined_room"}
    BY <1>2 DEF Derived, Unclaimed
  <2>2. ASSUME NEW t \in Token, Claims(x, t, r)
        PROVE  t = k
    <3>1. x.do # "pair"
      BY DEF Derived, Unclaimed
    <3>2. Claims(cmd, t, r) \/ (tokens[t] # None /\ tokens[t].roomName = r)
      BY <2>2, <3>1 DEF Derived, Unclaimed, Claims
    <3> QED
      BY <1>3, <3>2 DEF Unredeemed
  <2>3. ASSUME x.do = "set_room", x.r = r
        PROVE  OwnSlot(x.record, GuestRole(x.record.sessionType)) = None
    <3>1. Restated(x.record, rooms[r])
      BY <2>3 DEF Derived, Unclaimed
    <3>2. GuestRole(x.record.sessionType) \in Role
      BY DEF GuestRole, Role
    <3> QED
      BY <1>3, <3>1, <3>2 DEF Restated, Unredeemed
  <2> QED
    BY <2>1, <2>2, <2>3 DEF Blind, Harmless
<1> QED
  BY <1>1, <1>2, <1>3

\* What of its commands a call keeps.
LEMMA RestGuards ==
    ASSUME NEW S, NEW todo \in Seq(S), NEW rest, rest = <<>> \/ (todo # <<>> /\ rest = Tail(todo))
    PROVE  rest \in Seq(S)
BY Few, Parts

LEMMA DerivedStep ==
    ASSUME RInv, HistoryOK', UNCHANGED members, NEW r \in Room, NEW k \in Token,
           Guarded(r, k), NEW c \in Caller, NEW cmd, NEW commands \in Seq(Derived(cmd)), NEW rest,
           rest = <<>> \/ (call[c].todo # <<>> /\ rest = Tail(call[c].todo)),
           Todos(c, commands \o rest),
           call[c].todo # <<>> => Head(call[c].todo).do \notin {"set_room", "set_code", "del_code"},
           call[c].todo \in Seq(Harmless(members, r, k)) => \A t \in Token : Claims(cmd, t, r) => t = k,
           codes' \subseteq codes,
           rooms'[r] # None => rooms'[r].creatorToken = k,
           Unredeemed(r, k) => Unredeemed(r, k)'
    PROVE  Guarded(r, k)'
<1> DEFINE old  == call[c].todo
           todo == commands \o rest
<1>1. Grows(members, members') /\ members' = members
  BY Refl DEF Grows
<1>2. ~Creates(old, r, k) /\ ~Redeems(old, r)
  <2>1. DelCode(r).do = "del_code"
    BY DEF DelCode
  <2> QED
    BY <2>1, CreatesFacts DEF Redeems
<1>3. rooms[r] # None => rooms[r].creatorToken = k
  BY DEF Guarded, OpenedBy
<1>4. old \in Seq(Sound(members)) /\ old \in Seq(Faithful(members, r, k))
  BY DEF RInv, CallsSound, CallType, Guarded, OpenedBy
<1>5. old \in Seq(Uncoding(members, r))
  <2>1. CASE Opening(r, k)
    BY <1>2, <2>1, GuardSetsNest DEF Opening
  <2>2. CASE Open(r, k)
    BY <2>2, GuardSetsNest DEF Open
  <2>3. CASE Closed(r)
    BY <2>3 DEF Closed
  <2> QED
    BY <2>1, <2>2, <2>3 DEF Guarded
<1>6. /\ todo \in Seq(Faithful(members, r, k))
      /\ todo \in Seq(Uncoding(members, r))
  BY <1>3, <1>4, <1>5, DerivedGuards, RestGuards, Wider, Joined
<1>7. ASSUME Unredeemed(r, k), old \in Seq(Harmless(members, r, k))
      PROVE  todo \in Seq(Harmless(members, r, k))
  <2>1. commands \in Seq(Blind(members, r, k))
    BY <1>3, <1>7, DerivedGuards, Wider
  <2> QED
    BY <1>7, <2>1, GuardSetsNest, RestGuards, Joined
<1>8. ASSUME Unredeemed(r, k), old \in Seq(Blind(members, r, k))
      PROVE  todo \in Seq(Blind(members, r, k))
  <2>1. old \in Seq(Harmless(members, r, k))
    BY <1>8, GuardSetsNest
  <2>2. commands \in Seq(Blind(members, r, k))
    BY <1>3, <1>8, <2>1, DerivedGuards, Wider
  <2> QED
    BY <1>8, <2>2, RestGuards, Joined
<1> HIDE DEF todo
<1> QED
  BY <1>1, <1>2, <1>6, <1>7, <1>8, GuardStep DEF Meek, todo

\* How a call's commands change.
LEMMA BecomesTodos ==
    ASSUME RInv, NEW c \in Caller, ~Idle(c), NEW S, NEW commands \in Seq(S)
    PROVE  /\ Becomes(c, commands) => Todos(c, commands \o Tail(call[c].todo))
           /\ Ends(c, commands) => Todos(c, commands \o <<>>)
           /\ Becomes(c, <<>>) => Todos(c, Tail(call[c].todo))
<1>1. \A op, t, todo : CallOf(op, t, todo).todo = todo
  BY DEF CallOf, NoCall
<1>2. \A new : call' = [call EXCEPT ![c] = new] =>
         call'[c] = new /\ \A d \in Caller \ {c} : call'[d] = call[d]
  BY DEF RInv, CallsSound
<1>3. commands \o <<>> = commands
  OBVIOUS
<1>4. call[c].todo \in Seq(Sound(members)) /\ Tail(call[c].todo) \in Seq(Sound(members))
  BY PendingSound
<1>5. <<>> \o Tail(call[c].todo) = Tail(call[c].todo)
  BY <1>4
<1>6. ASSUME NEW todo,
             call' = [call EXCEPT ![c] = CallOf(call[c].op, call[c].t, todo)]
      PROVE  Todos(c, todo)
  <2> DEFINE new == CallOf(call[c].op, call[c].t, todo)
  <2>1. new.todo = todo
    BY <1>1
  <2> HIDE DEF new
  <2>2. call'[c] = new /\ \A d \in Caller \ {c} : call'[d] = call[d]
    BY <1>2, <1>6 DEF new
  <2> QED
    BY <2>1, <2>2 DEF Todos
<1>7. /\ \A u : Becomes(c, u) =>
            call' = [call EXCEPT ![c] = CallOf(call[c].op, call[c].t, u \o Tail(call[c].todo))]
      /\ Ends(c, commands) => call' = [call EXCEPT ![c] = CallOf(call[c].op, call[c].t, commands)]
  BY DEF Becomes, Ends, RInv, CallsSound
<1> QED
  BY <1>3, <1>5, <1>6, <1>7

LEMMA BeginsTodos ==
    ASSUME RInv, NEW c \in Caller, NEW op, NEW t, NEW S, NEW commands \in Seq(S),
           Begins(c, op, t, commands)
    PROVE  call[c].todo = <<>> /\ Todos(c, commands \o <<>>) /\ Todos(c, commands)
<1>1. CallOf(op, t, commands).todo = commands
  BY DEF CallOf, NoCall
<1>2. call' = [call EXCEPT ![c] = CallOf(op, t, commands)] /\ call[c].todo = <<>>
  BY DEF Begins, Idle
<1>3. call'[c] = CallOf(op, t, commands) /\ \A d \in Caller \ {c} : call'[d] = call[d]
  BY <1>2 DEF RInv, CallsSound
<1>4. commands \o <<>> = commands
  OBVIOUS
<1> QED
  BY <1>1, <1>2, <1>3, <1>4 DEF Todos

LEMMA DerivesG ==
    ASSUME RInv, RInv', NEW r \in Room, NEW k \in Token, Guarded(r, k),
           NEW c \in Caller, Derives(c)
    PROVE  Guarded(r, k)'
<1> DEFINE cmd == Command(c)
<1>1. PICK commands \in Seq(Derived(cmd)) : Becomes(c, commands) \/ Ends(c, commands)
  BY DEF Derives
<1>2. /\ call[c].todo \in Seq(Sound(members)) /\ call[c].todo # <<>>
      /\ cmd = Head(call[c].todo) /\ cmd.do \notin {"set_code", "set_room", "del_code"}
  BY PendingSound DEF Derives, Command
<1>3. PICK rest : /\ rest = <<>> \/ rest = Tail(call[c].todo)
                  /\ Todos(c, commands \o rest)
  BY <1>1, BecomesTodos DEF Derives
<1>4. UNCHANGED <<tokens, rooms, codes, members>> /\ HistoryOK'
  BY DEF Derives, Reads, keys, RInv, Typed
<1>5. call[c].todo \in Seq(Harmless(members, r, k)) => \A t \in Token : Claims(cmd, t, r) => t = k
  <2>1. call[c].todo \in Seq(Harmless(members, r, k)) => cmd \in Harmless(members, r, k)
    BY <1>2, Parts
  <2> QED
    BY <2>1 DEF Harmless
<1>6. rooms'[r] # None => rooms'[r].creatorToken = k
  BY <1>4 DEF Guarded, OpenedBy
<1>7. Unredeemed(r, k) => Unredeemed(r, k)'
  BY <1>4 DEF Unredeemed
<1> HIDE DEF cmd
<1> QED
  BY <1>1, <1>2, <1>3, <1>4, <1>5, <1>6, <1>7, DerivedStep

\* A call that begins with commands derived from the keys alone.
LEMMA BeginsG ==
    ASSUME RInv, HistoryOK', UNCHANGED <<rooms, codes, members>>, NEW r \in Room, NEW k \in Token,
           Guarded(r, k), NEW c \in Caller, NEW op, NEW t,
           NEW commands \in Seq(Derived(NoClaim)), Begins(c, op, t, commands),
           Unredeemed(r, k) => Unredeemed(r, k)'
    PROVE  Guarded(r, k)'
<1>1. call[c].todo = <<>> /\ Todos(c, commands \o <<>>)
  BY BeginsTodos
<1>2. \A u \in Token : ~Claims(NoClaim, u, r)
  BY DEF Claims, NoClaim
<1>3. rooms'[r] # None => rooms'[r].creatorToken = k
  BY DEF Guarded, OpenedBy
<1> QED
  BY <1>1, <1>2, <1>3, DerivedStep

LEMMA StartsG ==
    ASSUME RInv, RInv', NEW r \in Room, NEW k \in Token, Guarded(r, k),
           NEW c \in Caller, Starts(c)
    PROVE  Guarded(r, k)'
<1>1. PICK op \in Operation, t \in Token \cup {None}, commands \in Seq(Derived(NoClaim)) :
         Begins(c, op, t, commands)
  BY DEF Starts
<1>2. UNCHANGED <<tokens, rooms, codes, members>> /\ HistoryOK'
  BY DEF Starts, Reads, keys, RInv, Typed
<1>3. Unredeemed(r, k) => Unredeemed(r, k)'
  BY <1>2 DEF Unredeemed
<1> QED
  BY <1>1, <1>2, <1>3, BeginsG

LEMMA ConsumeG ==
    ASSUME RInv, RInv', NEW r \in Room, NEW k \in Token, Guarded(r, k),
           NEW c \in Caller, NEW t \in Token, ConsumeInboxMessage(c, t)
    PROVE  Guarded(r, k)'
<1> DEFINE todo == When(Counted(Head(inboxes[t])), <<[do |-> "count_close", t |-> t]>>)
<1>1. Counted(Head(inboxes[t])) \in BOOLEAN
  BY DEF Counted, IsClose
<1>2. todo \in Seq(Derived(NoClaim))
  BY <1>1, PlainDerived, Few, WhenIn
<1> HIDE DEF todo
<1>3. UNCHANGED <<tokens, rooms, codes, members>> /\ Begins(c, "consume", t, todo) /\ HistoryOK'
  BY DEF ConsumeInboxMessage, RInv, Typed, todo
<1>4. Unredeemed(r, k) => Unredeemed(r, k)'
  BY <1>3 DEF Unredeemed
<1> QED
  BY <1>2, <1>3, <1>4, BeginsG

LEMMA RegisterAndJoinG ==
    ASSUME RInv, RInv', NEW r \in Room, NEW k \in Token, Guarded(r, k),
           NEW c \in Caller, NEW t \in Token, NEW s \in Room, RegisterAndJoin(c, t, s)
    PROVE  Guarded(r, k)'
<1>1. /\ tokens' = [tokens EXCEPT ![t] = NewToken] /\ HistoryOK'
      /\ UNCHANGED <<rooms, codes, members>>
      /\ Begins(c, "register_and_join", t, <<GetCode(t, s, TRUE)>>)
  BY DEF RegisterAndJoin, RInv, Typed
<1>2. <<GetCode(t, s, TRUE)>> \in Seq(Derived(NoClaim))
  BY HelperDerived, Few
<1>3. Unredeemed(r, k) => Unredeemed(r, k)'
  BY <1>1, NewTokenType, NoneAssumption DEF Unredeemed, RInv, Typed
<1> QED
  BY <1>1, <1>2, <1>3, BeginsG

----------------------------------------------------------------------------
(* Writes *)

\* A write that is not part of opening the room.
LEMMA WriteStep ==
    ASSUME RInv, HistoryOK', UNCHANGED members, NEW r \in Room, NEW k \in Token,
           Guarded(r, k), NEW c \in Caller, ~Idle(c), Becomes(c, <<>>),
           ~Creates(call[c].todo, r, k),
           r \in codes' => r \in codes,
           r \in codes' => Head(call[c].todo) # DelCode(r),
           rooms'[r] # None => rooms'[r].creatorToken = k,
           Command(c) \in Harmless(members, r, k) \/ Command(c) = DelCode(r) =>
              (Unredeemed(r, k) => Unredeemed(r, k)')
    PROVE  Guarded(r, k)'
<1> DEFINE old  == call[c].todo
           todo == Tail(old)
<1>1. old \in Seq(Sound(members)) /\ old # <<>> /\ old \in Seq(Faithful(members, r, k))
  BY PendingSound DEF Guarded, OpenedBy
<1>2. Todos(c, todo)
  BY <1>1, BecomesTodos, Few
<1>3. Grows(members, members') /\ members' = members
  BY Refl DEF Grows
<1>4. old \in Seq(Uncoding(members, r))
  <2>1. CASE Opening(r, k)
    BY <2>1, GuardSetsNest DEF Opening
  <2>2. CASE Open(r, k)
    BY <2>2, GuardSetsNest DEF Open
  <2>3. CASE Closed(r)
    BY <2>3 DEF Closed
  <2> QED
    BY <2>1, <2>2, <2>3 DEF Guarded
<1>5. todo \in Seq(Faithful(members, r, k)) /\ todo \in Seq(Uncoding(members, r))
  BY <1>1, <1>4, Parts
<1>6. /\ old \in Seq(Harmless(members, r, k)) => /\ Command(c) \in Harmless(members, r, k)
                                                 /\ todo \in Seq(Harmless(members, r, k))
      /\ old \in Seq(Blind(members, r, k)) => todo \in Seq(Blind(members, r, k))
  BY <1>1, Parts DEF Command
<1>7. Redeems(old, r) => Command(c) = DelCode(r) /\ r \notin codes'
  BY DEF Redeems, Command
<1> HIDE DEF todo
<1> QED
  BY <1>2, <1>3, <1>5, <1>6, <1>7, GuardStep DEF Meek

LEMMA WriteTokenG ==
    ASSUME RInv, RInv', NEW r \in Room, NEW k \in Token, Guarded(r, k),
           NEW c \in Caller, WriteToken(c)
    PROVE  Guarded(r, k)'
<1> DEFINE cmd == Command(c)
<1>1. /\ ~Idle(c) /\ cmd \in SetTokens(members) /\ cmd.do = "set_token"
      /\ cmd = Head(call[c].todo)
  BY PendingSound, Kinds DEF WriteToken, Issues, Command
<1>2. cmd.t \in Token
  BY <1>1 DEF SetTokens
<1>3. /\ tokens' = [tokens EXCEPT ![cmd.t] = cmd.record] /\ Becomes(c, <<>>)
      /\ UNCHANGED <<rooms, codes, members>> /\ HistoryOK'
  BY DEF WriteToken, RInv, Typed
<1>4. ~Creates(call[c].todo, r, k) /\ cmd # DelCode(r)
  <2>1. DelCode(r).do = "del_code"
    BY DEF DelCode
  <2> QED
    BY <1>1, <2>1, CreatesFacts
<1>5. rooms'[r] # None => rooms'[r].creatorToken = k
  BY <1>3 DEF Guarded, OpenedBy
<1>6. ASSUME cmd \in Harmless(members, r, k), Unredeemed(r, k)
      PROVE  Unredeemed(r, k)'
  <2>1. cmd.record.roomName = r => cmd.t = k
    BY <1>1, <1>2, <1>6 DEF Harmless, Claims
  <2>2. \A t \in Token : tokens'[t] = IF t = cmd.t THEN cmd.record ELSE tokens[t]
    BY <1>2, <1>3 DEF RInv, Typed
  <2> HIDE DEF cmd
  <2> QED
    BY <1>3, <1>6, <2>1, <2>2 DEF Unredeemed
<1> QED
  BY <1>1, <1>3, <1>4, <1>5, <1>6, WriteStep

LEMMA RemovesG ==
    ASSUME RInv, RInv', NEW r \in Room, NEW k \in Token, Guarded(r, k), NEW c \in Caller,
           RemoveToken(c) \/ RemoveRoom(c) \/ RemoveCode(c) \/ PushInbox(c) \/ RemoveInbox(c)
    PROVE  Guarded(r, k)'
<1> DEFINE cmd == Command(c)
<1>1. /\ ~Idle(c) /\ cmd \in Sound(members) /\ cmd = Head(call[c].todo)
      /\ cmd.do \in {"del_token", "del_room", "del_code", "push", "del_inbox"}
  BY PendingSound DEF RemoveToken, RemoveRoom, RemoveCode, PushInbox, RemoveInbox, Issues, Command
<1>2. ~Creates(call[c].todo, r, k)
  BY <1>1, CreatesFacts
<1>3. /\ RemoveToken(c) => cmd.do = "del_token" /\ cmd.t \in Token
      /\ RemoveRoom(c) => cmd.do = "del_room" /\ cmd.r \in Room
  BY <1>1, Kinds DEF RemoveToken, RemoveRoom, Issues, OnTokens, OnRooms, Inhabited
<1>4. /\ Becomes(c, <<>>) /\ UNCHANGED members /\ HistoryOK'
      /\ \A t \in Token : tokens'[t] \in {tokens[t], None}
      /\ rooms'[r] \in {rooms[r], None}
      /\ codes' \subseteq codes
  BY <1>3 DEF RemoveToken, RemoveRoom, RemoveCode, PushInbox, RemoveInbox, CodesWithout, RInv, Typed
<1>5. r \in codes' => cmd # DelCode(r)
  <2>1. DelCode(r).do = "del_code" /\ DelCode(r).r = r
    BY DEF DelCode
  <2>2. cmd = DelCode(r) => RemoveCode(c)
    BY <2>1 DEF RemoveToken, RemoveRoom, RemoveCode, PushInbox, RemoveInbox, Issues
  <2>3. RemoveCode(c) => cmd.r \notin codes'
    BY DEF RemoveCode, CodesWithout
  <2> QED
    BY <2>1, <2>2, <2>3
<1>6. rooms'[r] # None => rooms'[r].creatorToken = k
  BY <1>4 DEF Guarded, OpenedBy
<1>7. Unredeemed(r, k) => Unredeemed(r, k)'
  BY <1>4 DEF Unredeemed
<1> QED
  BY <1>1, <1>2, <1>4, <1>5, <1>6, <1>7, WriteStep

\* The call that opens the room goes on to write the code.
LEMMA CreatesOpening ==
    ASSUME NEW r \in Room, NEW k \in Token, Guarded(r, k), NEW c \in Caller,
           Creates(call[c].todo, r, k)
    PROVE  /\ r \notin codes /\ Unredeemed(r, k)
           /\ \A d \in Caller \ {c} : call[d].todo \in Seq(Blind(members, r, k))
<1>1. call[c].todo \notin Seq(Uncoding(members, r)) /\ ~Redeems(call[c].todo, r)
  BY CreatesFacts
<1>2. ~Open(r, k) /\ ~Closed(r)
  BY <1>1, GuardSetsNest DEF Open, Closed
<1>3. PICK e \in Caller : /\ Creates(call[e].todo, r, k)
                          /\ \A d \in Caller \ {e} : call[d].todo \in Seq(Blind(members, r, k))
  BY <1>2 DEF Guarded, Opening
<1>4. e = c
  BY <1>1, <1>3, GuardSetsNest
<1> QED
  BY <1>2, <1>3, <1>4 DEF Guarded, Opening

LEMMA WriteRoomG ==
    ASSUME RInv, RInv', NEW r \in Room, NEW k \in Token, Guarded(r, k),
           NEW c \in Caller, WriteRoom(c)
    PROVE  Guarded(r, k)'
<1> DEFINE cmd == Command(c)
           old == call[c].todo
<1>1. /\ ~Idle(c) /\ cmd \in SetRooms(members) /\ cmd.do = "set_room" /\ cmd = Head(old)
      /\ old # <<>> /\ old \in Seq(Sound(members))
  BY PendingSound, Kinds DEF WriteRoom, Issues, Command
<1>2. cmd.r \in Room /\ cmd.record \in RoomRecord
  BY <1>1 DEF SetRooms
<1>3. /\ rooms' = [rooms EXCEPT ![cmd.r] = cmd.record] /\ Becomes(c, <<>>)
      /\ UNCHANGED <<tokens, codes, members>> /\ HistoryOK'
  BY DEF WriteRoom, RInv, Typed
<1>4. cmd \in Faithful(members, r, k)
  BY <1>1, Parts DEF Guarded, OpenedBy
<1>5. rooms'[r] # None => rooms'[r].creatorToken = k
  BY <1>1, <1>2, <1>3, <1>4 DEF Guarded, OpenedBy, Faithful, RInv, Typed
<1>6. CASE ~Creates(old, r, k)
  <2>1. cmd # DelCode(r)
    BY <1>1 DEF DelCode
  <2>2. ASSUME cmd \in Harmless(members, r, k), Unredeemed(r, k)
        PROVE  Unredeemed(r, k)'
    <3>1. rooms'[r] = IF r = cmd.r THEN cmd.record ELSE rooms[r]
      BY <1>2, <1>3 DEF RInv, Typed
    <3>2. cmd.r = r => OwnSlot(cmd.record, GuestRole(cmd.record.sessionType)) = None
      BY <1>1, <2>2 DEF Harmless
    <3> HIDE DEF cmd
    <3> QED
      BY <1>3, <2>2, <3>1, <3>2 DEF Unredeemed
  <2> QED
    BY <1>1, <1>3, <1>5, <1>6, <2>1, <2>2, WriteStep
<1>7. CASE Creates(old, r, k)
  <2>1. PICK room \in RoomRecord, role \in Role :
           /\ OwnSlot(room, GuestRole(room.sessionType)) = None
           /\ old \in {<<SetRoom(r, room), SetCode(r), Pair(k, r, role)>>,
                       <<SetCode(r), Pair(k, r, role)>>}
    BY <1>7 DEF Creates
  <2>2. SetCode(r).do # "set_room" /\ SetRoom(r, room).r = r /\ SetRoom(r, room).record = room
    BY DEF SetCode, SetRoom
  <2>3. old = <<SetRoom(r, room), SetCode(r), Pair(k, r, role)>>
    BY <1>1, <2>1, <2>2
  <2>4. cmd.r = r /\ cmd.record = room /\ Tail(old) = <<SetCode(r), Pair(k, r, role)>>
    BY <1>1, <2>2, <2>3
  <2>5. Todos(c, <<SetCode(r), Pair(k, r, role)>>)
    BY <1>1, <1>3, <2>4, BecomesTodos, Few
  <2>6. Creates(call'[c].todo, r, k)
    BY <2>1, <2>5 DEF Creates, Todos
  <2>7. /\ r \notin codes /\ Unredeemed(r, k)
        /\ \A d \in Caller \ {c} : call[d].todo \in Seq(Blind(members, r, k))
    BY <1>7, CreatesOpening
  <2>8. rooms'[r] = room
    BY <1>2, <1>3, <2>4 DEF RInv, Typed
  <2>9. Unredeemed(r, k)'
    BY <1>3, <2>1, <2>7, <2>8 DEF Unredeemed
  <2>10. Opening(r, k)'
    BY <1>3, <2>5, <2>6, <2>7, <2>9 DEF Opening, Todos
  <2>11. \A d \in Caller : call'[d].todo \in Seq(Faithful(members, r, k))
    <3>1. \A d \in Caller : call[d].todo \in Seq(Faithful(members, r, k))
      BY DEF Guarded, OpenedBy
    <3>2. Tail(old) \in Seq(Faithful(members, r, k))
      BY <1>1, <3>1, Parts
    <3> QED
      BY <2>4, <2>5, <3>1, <3>2 DEF Todos
  <2> QED
    BY <1>3, <1>5, <2>10, <2>11 DEF Guarded, OpenedBy
<1> QED
  BY <1>6, <1>7

LEMMA WriteCodeG ==
    ASSUME RInv, RInv', NEW r \in Room, NEW k \in Token, Guarded(r, k),
           NEW c \in Caller, WriteCode(c)
    PROVE  Guarded(r, k)'
<1> DEFINE cmd == Command(c)
           old == call[c].todo
<1>1. /\ ~Idle(c) /\ cmd \in OnRooms(members) /\ cmd.do = "set_code" /\ cmd = Head(old)
      /\ old # <<>> /\ old \in Seq(Sound(members))
  BY PendingSound, Kinds DEF WriteCode, Issues, Command
<1>2. /\ codes' = codes \cup {cmd.r} /\ Becomes(c, <<>>)
      /\ UNCHANGED <<tokens, rooms, members>> /\ HistoryOK'
  BY DEF WriteCode, RInv, Typed
<1>3. rooms'[r] # None => rooms'[r].creatorToken = k
  BY <1>2 DEF Guarded, OpenedBy
<1>4. Unredeemed(r, k) => Unredeemed(r, k)'
  BY <1>2 DEF Unredeemed
<1>5. cmd # DelCode(r)
  BY <1>1 DEF DelCode
<1>6. CASE ~Creates(old, r, k)
  <2>1. old \in Seq(Uncoding(members, r))
    <3>1. CASE Opening(r, k)
      BY <1>6, <3>1, GuardSetsNest DEF Opening
    <3>2. CASE Open(r, k)
      BY <3>2, GuardSetsNest DEF Open
    <3>3. CASE Closed(r)
      BY <3>3 DEF Closed
    <3> QED
      BY <3>1, <3>2, <3>3 DEF Guarded
  <2>2. cmd.r # r
    BY <1>1, <2>1, Parts DEF Uncoding
  <2> QED
    BY <1>1, <1>2, <1>3, <1>4, <1>5, <1>6, <2>2, WriteStep
<1>7. CASE Creates(old, r, k)
  <2>1. PICK room \in RoomRecord, role \in Role :
           old \in {<<SetRoom(r, room), SetCode(r), Pair(k, r, role)>>,
                    <<SetCode(r), Pair(k, r, role)>>}
    BY <1>7 DEF Creates
  <2>2. SetRoom(r, room).do # "set_code" /\ SetCode(r).r = r
    BY DEF SetCode, SetRoom
  <2>3. old = <<SetCode(r), Pair(k, r, role)>>
    BY <1>1, <2>1, <2>2
  <2>4. cmd.r = r /\ Tail(old) = <<Pair(k, r, role)>> /\ old[2] = Pair(k, r, role)
    BY <1>1, <2>2, <2>3
  <2>5. Todos(c, <<Pair(k, r, role)>>)
    BY <1>1, <1>2, <2>4, BecomesTodos, Few
  <2>6. /\ r \notin codes /\ Unredeemed(r, k)
        /\ \A d \in Caller \ {c} : call[d].todo \in Seq(Blind(members, r, k))
    BY <1>7, CreatesOpening
  <2>7. Pair(k, r, role) \in Harmless(members, r, k)
    <3>1. Pair(k, r, role) \in Sound(members)
      BY <1>1, <2>3, <2>4
    <3> QED
      BY <3>1 DEF Harmless, Uncoding, Claims, Pair
  <2>8. \A d \in Caller : call'[d].todo \in Seq(Harmless(members, r, k))
    BY <2>5, <2>6, <2>7, Few, GuardSetsNest DEF Todos
  <2>9. Open(r, k)'
    BY <1>2, <1>4, <2>4, <2>6, <2>8 DEF Open
  <2>10. \A d \in Caller : call'[d].todo \in Seq(Faithful(members, r, k))
    <3>1. \A d \in Caller : call[d].todo \in Seq(Faithful(members, r, k))
      BY DEF Guarded, OpenedBy
    <3>2. Tail(old) \in Seq(Faithful(members, r, k))
      BY <1>1, <3>1, Parts
    <3> QED
      BY <2>4, <2>5, <3>1, <3>2 DEF Todos
  <2> QED
    BY <1>2, <1>3, <2>9, <2>10 DEF Guarded, OpenedBy
<1> QED
  BY <1>6, <1>7

----------------------------------------------------------------------------
(* Redeeming the code *)

\* What a caller has pending cannot bring the code back, unless it opens the
\* room.
LEMMA PendingUncoding ==
    ASSUME NEW r \in Room, NEW k \in Token, Guarded(r, k), NEW c \in Caller,
           ~Creates(call[c].todo, r, k)
    PROVE  call[c].todo \in Seq(Uncoding(members, r))
<1>1. CASE Opening(r, k)
  BY <1>1, GuardSetsNest DEF Opening
<1>2. CASE Open(r, k)
  BY <1>2, GuardSetsNest DEF Open
<1>3. CASE Closed(r)
  BY <1>3 DEF Closed
<1> QED
  BY <1>1, <1>2, <1>3 DEF Guarded

LEMMA InvalidateCodeG ==
    ASSUME RInv, RInv', NEW r \in Room, NEW k \in Token, Guarded(r, k),
           NEW c \in Caller, NEW s \in Room, InvalidateByCode(c, s)
    PROVE  Guarded(r, k)'
<1> DEFINE todo == <<DelCode(s), CloseRoom(s, "admin_closed")>>
<1>1. /\ s \in codes /\ Begins(c, "invalidate_code", None, todo)
      /\ UNCHANGED <<tokens, rooms, codes, members>> /\ HistoryOK'
  BY DEF InvalidateByCode, Reads, keys, RInv, Typed
<1>2. DelCode(s) \in Sound(members)
  <2>1. DelCode(s) \in OnRooms(members)
    BY <1>1 DEF RInv, Typed, OnRooms, DelCode
  <2> QED
    BY <2>1 DEF Sound
<1>3. CloseRoom(s, "admin_closed") \in Sound(members)
  BY HelperDerived DEF Derived, CloseKind
<1>4. \A x \in {DelCode(s), CloseRoom(s, "admin_closed")} :
         /\ x \in Faithful(members, r, k) /\ x \in Harmless(members, r, k)
         /\ x \in Uncoding(members, r)
         /\ r # s => x \in Blind(members, r, k)
  BY <1>2, <1>3 DEF Faithful, Blind, Harmless, Uncoding, Claims, DelCode, CloseRoom
<1>5. /\ todo \in Seq(Faithful(members, r, k)) /\ todo \in Seq(Harmless(members, r, k))
      /\ todo \in Seq(Uncoding(members, r))
      /\ r # s => todo \in Seq(Blind(members, r, k))
  BY <1>4, Few
<1> HIDE DEF todo
<1>6. call[c].todo = <<>> /\ Todos(c, todo)
  BY <1>1, <1>5, BeginsTodos
<1>7. ~Creates(call[c].todo, r, k)
  BY <1>6, CreatesFacts
<1>8. Unredeemed(r, k) => Unredeemed(r, k)'
  BY <1>1 DEF Unredeemed
<1>9. rooms'[r] # None => rooms'[r].creatorToken = k
  BY <1>1 DEF Guarded, OpenedBy
<1>10. Grows(members, members') /\ members' = members
  BY <1>1, Refl DEF Grows
<1> QED
  BY <1>1, <1>5, <1>6, <1>7, <1>8, <1>9, <1>10, GuardStep

LEMMA ReadCodeG ==
    ASSUME RInv, RInv', NEW r \in Room, NEW k \in Token, Guarded(r, k),
           NEW c \in Caller, ReadCode(c)
    PROVE  Guarded(r, k)'
<1> DEFINE cmd  == Command(c)
           old  == call[c].todo
           join == [do |-> "get_joined_room", t |-> cmd.t, r |-> cmd.r, new |-> cmd.new]
           then == IF CodeFound(cmd.r) THEN <<join>> ELSE When(cmd.new, <<DelToken(cmd.t)>>)
           todo == then \o Tail(old)
<1>1. /\ ~Idle(c) /\ cmd \in Codes /\ cmd.do = "get_code" /\ cmd = Head(old)
      /\ old # <<>> /\ old \in Seq(Sound(members))
  BY PendingSound, Kinds DEF ReadCode, Issues, Command
<1>2. cmd.t \in Token /\ cmd.r \in Room /\ cmd.new \in BOOLEAN
  BY <1>1 DEF Codes
<1>3. ~Creates(old, r, k) /\ ~Redeems(old, r)
  <2>1. DelCode(r).do = "del_code"
    BY DEF DelCode
  <2> QED
    BY <1>1, <2>1, CreatesFacts DEF Redeems
<1>4. CodeFound(cmd.r) => join \in Sound(members)
  BY <1>2 DEF CodeFound, Joins, RInv, Typed, Sound
<1>5. DelToken(cmd.t) \in Sound(members) /\ DelToken(cmd.t).do = "del_token"
  BY <1>2, PlainDerived DEF Derived, DelToken
<1>6. /\ CodeFound(cmd.r) => /\ join \in Faithful(members, r, k)
                             /\ join \in Harmless(members, r, k)
                             /\ join \in Uncoding(members, r)
                             /\ r \notin codes => join \in Blind(members, r, k)
      /\ DelToken(cmd.t) \in Faithful(members, r, k)
      /\ DelToken(cmd.t) \in Uncoding(members, r)
      /\ DelToken(cmd.t) \in Harmless(members, r, k)
      /\ DelToken(cmd.t) \in Blind(members, r, k)
  <2>1. join.do = "get_joined_room" /\ join.r = cmd.r
    OBVIOUS
  <2>2. CodeFound(cmd.r) <=> cmd.r \in codes
    BY DEF CodeFound
  <2> HIDE DEF join
  <2> QED
    BY <1>4, <1>5, <2>1, <2>2 DEF Faithful, Blind, Harmless, Uncoding, Claims
<1> HIDE DEF join
<1>7. /\ then \in Seq(Faithful(members, r, k)) /\ then \in Seq(Uncoding(members, r))
      /\ then \in Seq(Harmless(members, r, k))
      /\ r \notin codes => then \in Seq(Blind(members, r, k))
  BY <1>2, <1>6, Few, WhenIn
<1> HIDE DEF then
<1>8. Becomes(c, then) /\ UNCHANGED <<tokens, rooms, codes, members>> /\ HistoryOK'
  BY DEF ReadCode, Reads, keys, then, join, RInv, Typed
<1>9. Todos(c, todo)
  BY <1>1, <1>7, <1>8, BecomesTodos
<1>10. /\ todo \in Seq(Faithful(members, r, k)) /\ todo \in Seq(Uncoding(members, r))
       /\ old \in Seq(Harmless(members, r, k)) => todo \in Seq(Harmless(members, r, k))
       /\ r \notin codes /\ old \in Seq(Blind(members, r, k)) => todo \in Seq(Blind(members, r, k))
  <2>1. old \in Seq(Faithful(members, r, k)) /\ old \in Seq(Uncoding(members, r))
    BY <1>3, PendingUncoding DEF Guarded, OpenedBy
  <2> QED
    BY <1>1, <1>7, <2>1, Parts, Joined
<1> HIDE DEF todo
<1>11. Unredeemed(r, k) => Unredeemed(r, k)'
  BY <1>8 DEF Unredeemed
<1>12. rooms'[r] # None => rooms'[r].creatorToken = k
  BY <1>8 DEF Guarded, OpenedBy
<1>13. Grows(members, members') /\ members' = members
  BY <1>8, Refl DEF Grows
<1> QED
  BY <1>3, <1>8, <1>9, <1>10, <1>11, <1>12, <1>13, GuardStep DEF Meek

\* Commands about other rooms, and commands that only tell.
LEMMA BlindElsewhere ==
    ASSUME NEW m, NEW r, NEW k, NEW x \in Sound(m),
           x.do \in {"del_token", "push"} \/ (x.do \in {"del_code", "pair", "set_room"} /\ x.r # r)
    PROVE  x \in Blind(m, r, k)
<1>1. x \in Uncoding(m, r)
  BY DEF Uncoding
<1>2. \A t : ~Claims(x, t, r)
  BY DEF Claims
<1>3. x \in Harmless(m, r, k)
  BY <1>1, <1>2 DEF Harmless
<1> QED
  BY <1>3 DEF Blind

LEMMA JoinRoomG ==
    ASSUME RInv, RInv', NEW r \in Room, NEW k \in Token, Guarded(r, k),
           NEW c \in Caller, JoinRoom(c)
    PROVE  Guarded(r, k)'
<1> DEFINE cmd  == Command(c)
           old  == call[c].todo
           t    == cmd.t
           s    == cmd.r
           room == rooms[s]
           role == GuestRole(room.sessionType)
           p    == PartnerSlot(room, role)
           into == Entering(t, s, room, role) \o When(p # None, <<Push(p, <<Notice("joined")>>)>>)
           gone == <<DelCode(s)>> \o When(cmd.new, <<DelToken(t)>>)
           then == IF room = None THEN gone ELSE into
           todo == then \o Tail(old)
<1>1. /\ ~Idle(c) /\ cmd \in Joins(members) /\ cmd.do = "get_joined_room" /\ cmd = Head(old)
      /\ old # <<>> /\ old \in Seq(Sound(members))
  BY PendingSound, Kinds DEF JoinRoom, Issues, Command
<1>2. t \in Token /\ s \in Room /\ cmd.new \in BOOLEAN
  BY <1>1 DEF Joins, Inhabited
<1>3. ~Creates(old, r, k) /\ ~Redeems(old, r)
  <2>1. DelCode(r).do = "del_code"
    BY DEF DelCode
  <2> QED
    BY <1>1, <2>1, CreatesFacts DEF Redeems
<1>4. Becomes(c, then) /\ UNCHANGED <<tokens, rooms, codes, inboxes, held>> /\ HistoryOK'
  BY DEF JoinRoom, keys, RInv, Typed
<1>5. Grows(members, members')
  <2>1. members' = members \/ members' = [members EXCEPT ![s] = @ \cup {t}]
    BY DEF JoinRoom
  <2> QED
    BY <1>2, <2>1 DEF Grows, RInv, Typed, HistoryOK
<1> DEFINE S == {DelCode(s), DelToken(t), Pair(t, s, role), SetRoom(s, SetSlot(room, role, t)),
                 Push(p, <<Notice("joined")>>)}
<1>6. /\ then \in Seq(S)
      /\ then # <<>> /\ Head(then) = DelCode(s)
      /\ room = None => then \in Seq({DelCode(s), DelToken(t)})
  <2>1. DelCode(s) \in S /\ DelToken(t) \in S
    OBVIOUS
  <2>2. <<DelCode(s)>> \in Seq(S) /\ When(cmd.new, <<DelToken(t)>>) \in Seq(S)
        /\ <<DelCode(s)>> \in Seq({DelCode(s), DelToken(t)})
        /\ When(cmd.new, <<DelToken(t)>>) \in Seq({DelCode(s), DelToken(t)})
    BY <1>2, WhenIn, Few
  <2>3. Entering(t, s, room, role) = <<DelCode(s), Pair(t, s, role), SetRoom(s, SetSlot(room, role, t))>>
    BY DEF Entering
  <2>4. Entering(t, s, room, role) \in Seq(S)
    BY <2>3, Few
  <2>5. When(p # None, <<Push(p, <<Notice("joined")>>)>>) \in Seq(S)
    BY WhenIn, Few
  <2> HIDE DEF S
  <2>6. /\ gone \in Seq(S) /\ gone # <<>> /\ Head(gone) = DelCode(s)
        /\ gone \in Seq({DelCode(s), DelToken(t)})
    BY <2>2, Joined
  <2>7. into \in Seq(S) /\ into # <<>> /\ Head(into) = DelCode(s)
    BY <2>3, <2>4, <2>5, Joined
  <2> HIDE DEF gone, into
  <2> QED
    BY <2>6, <2>7
<1> HIDE DEF then
<1>7. Todos(c, todo)
  BY <1>1, <1>4, <1>6, BecomesTodos
<1>8. Tail(old) \in Seq(Sound(members))
  BY <1>1, Parts
\* The commands are sound, as the first invariant holds afterwards.
<1>9. then \in Seq(Sound(members'))
  <2>1. call'[c].todo \in Seq(Sound(members'))
    BY DEF RInv, CallsSound, CallType
  <2>2. todo \in Seq(Sound(members'))
    BY <1>7, <2>1 DEF Todos
  <2> QED
    BY <1>6, <1>8, <2>2, Prefix
<1>10. ASSUME NEW i \in DOMAIN then
       PROVE  /\ then[i] \in Faithful(members', r, k) /\ then[i] \in Uncoding(members', r)
              /\ s # r => then[i] \in Blind(members', r, k)
  <2> DEFINE x == then[i]
  <2>1. x \in Sound(members') /\ x \in S /\ (room = None => x \in {DelCode(s), DelToken(t)})
    BY <1>6, <1>9, <1>10
  <2> HIDE DEF x
  <2>2. CASE x \in {DelCode(s), DelToken(t), Push(p, <<Notice("joined")>>)}
    <3>1. /\ x.do \in {"del_code", "del_token", "push"}
          /\ x.do = "del_code" => x.r = s
      BY <2>2 DEF DelCode, DelToken, Push
    <3>2. x \in Faithful(members', r, k) /\ x \in Uncoding(members', r)
      BY <2>1, <3>1 DEF Faithful, Uncoding
    <3>6. ASSUME s # r PROVE x \in Blind(members', r, k)
      <4>1. x \in Sound(members') /\ (x.do \in {"del_token", "push"} \/ (x.do \in {"del_code", "pair", "set_room"} /\ x.r # r))
        BY <2>1, <3>1, <3>6
      <4> QED
        BY <4>1, BlindElsewhere
    <3> QED
      BY <3>2, <3>6 DEF x
  <2>3. CASE x = Pair(t, s, role)
    <3>1. x.do = "pair" /\ x.r = s
      BY <2>3 DEF Pair
    <3>2. x \in Faithful(members', r, k) /\ x \in Uncoding(members', r)
      BY <2>1, <3>1 DEF Faithful, Uncoding
    <3>6. ASSUME s # r PROVE x \in Blind(members', r, k)
      <4>1. x \in Sound(members') /\ (x.do \in {"del_token", "push"} \/ (x.do \in {"del_code", "pair", "set_room"} /\ x.r # r))
        BY <2>1, <3>1, <3>6
      <4> QED
        BY <4>1, BlindElsewhere
    <3> QED
      BY <3>2, <3>6 DEF x
  <2>4. CASE x = SetRoom(s, SetSlot(room, role, t)) /\ room # None
    <3>1. x.do = "set_room" /\ x.r = s /\ x.record = SetSlot(room, role, t)
      BY <2>4 DEF SetRoom
    <3>2. room \in RoomRecord
      BY <1>2, <2>4, KeysHold
    <3>3. SetSlot(room, role, t).creatorToken = room.creatorToken
      BY <3>2 DEF SetSlot, RoomRecord
    <3>4. s = r => x.record.creatorToken = k
      BY <2>4, <3>1, <3>3 DEF Guarded, OpenedBy
    <3> HIDE DEF room
    <3>5. x \in Faithful(members', r, k) /\ x \in Uncoding(members', r)
      BY <2>1, <3>1, <3>4 DEF Faithful, Uncoding
    <3>6. ASSUME s # r PROVE x \in Blind(members', r, k)
      <4>1. x \in Sound(members') /\ (x.do \in {"del_token", "push"} \/ (x.do \in {"del_code", "pair", "set_room"} /\ x.r # r))
        BY <2>1, <3>1, <3>6
      <4> QED
        BY <4>1, BlindElsewhere
    <3> QED
      BY <3>5, <3>6 DEF x
  <2>5. \/ x \in {DelCode(s), DelToken(t), Push(p, <<Notice("joined")>>)}
        \/ x = Pair(t, s, role)
        \/ x = SetRoom(s, SetSlot(room, role, t)) /\ room # None
    <3>1. DelCode(s) # SetRoom(s, SetSlot(room, role, t))
          /\ DelToken(t) # SetRoom(s, SetSlot(room, role, t))
      BY DEF DelCode, DelToken, SetRoom
    <3> QED
      BY <2>1, <3>1
  <2> QED
    BY <2>2, <2>3, <2>4, <2>5 DEF x
<1>11. /\ then \in Seq(Faithful(members', r, k)) /\ then \in Seq(Uncoding(members', r))
       /\ s # r => then \in Seq(Blind(members', r, k)) /\ then \in Seq(Harmless(members', r, k))
  <2>1. /\ then \in Seq(Faithful(members', r, k)) /\ then \in Seq(Uncoding(members', r))
        /\ s # r => then \in Seq(Blind(members', r, k))
    BY <1>6, <1>10
  <2> QED
    BY <2>1, GuardSetsNest
<1>12. /\ \A u \in Seq(Faithful(members, r, k)) : u \in Seq(Faithful(members', r, k))
       /\ \A u \in Seq(Uncoding(members, r)) : u \in Seq(Uncoding(members', r))
       /\ \A u \in Seq(Harmless(members, r, k)) : u \in Seq(Harmless(members', r, k))
       /\ \A u \in Seq(Blind(members, r, k)) : u \in Seq(Blind(members', r, k))
  BY <1>4, <1>5, GuardSetsGrow DEF RInv, Typed, HistoryOK
<1>13. /\ todo \in Seq(Faithful(members', r, k)) /\ todo \in Seq(Uncoding(members', r))
       /\ s # r /\ old \in Seq(Harmless(members, r, k)) => todo \in Seq(Harmless(members', r, k))
       /\ s # r /\ old \in Seq(Blind(members, r, k)) => todo \in Seq(Blind(members', r, k))
  <2>1. old \in Seq(Faithful(members, r, k)) /\ old \in Seq(Uncoding(members, r))
    BY <1>3, PendingUncoding DEF Guarded, OpenedBy
  <2>2. /\ Tail(old) \in Seq(Faithful(members', r, k)) /\ Tail(old) \in Seq(Uncoding(members', r))
        /\ old \in Seq(Harmless(members, r, k)) => Tail(old) \in Seq(Harmless(members', r, k))
        /\ old \in Seq(Blind(members, r, k)) => Tail(old) \in Seq(Blind(members', r, k))
    BY <1>1, <1>12, <2>1, Parts
  <2> QED
    BY <1>11, <2>2, Joined
<1>14. todo # <<>> /\ Head(todo) = DelCode(s)
  BY <1>6, <1>8
\* A call that is blind has not seen the code.
<1>15. old \in Seq(Blind(members, r, k)) => s # r
  <2>1. old \in Seq(Blind(members, r, k)) => cmd \in Blind(members, r, k)
    BY <1>1, Parts
  <2> QED
    BY <1>1, <2>1 DEF Blind
<1>16. r \in codes /\ Meek(c, r, k) => todo \in Seq(Harmless(members', r, k)) \/ Redeems(todo, r)
  BY <1>3, <1>13, <1>14 DEF Meek, Redeems
<1> HIDE DEF todo
<1>17. Unredeemed(r, k) => Unredeemed(r, k)'
  BY <1>4 DEF Unredeemed
<1>18. rooms'[r] # None => rooms'[r].creatorToken = k
  BY <1>4 DEF Guarded, OpenedBy
<1> HIDE DEF old
<1>19. r \notin codes /\ Unredeemed(r, k) /\ call[c].todo \in Seq(Blind(members, r, k)) =>
         todo \in Seq(Blind(members', r, k))
  BY <1>13, <1>15 DEF old
<1>20. ~Creates(call[c].todo, r, k)
  BY <1>3 DEF old
<1> QED
  BY <1>4, <1>5, <1>7, <1>13, <1>16, <1>17, <1>18, <1>19, <1>20, GuardStep

----------------------------------------------------------------------------
(* Opening rooms *)

\* Nothing that is pending is about a room nobody opened yet.
LEMMA FreshBlind ==
    ASSUME NEW m, NEW r \in Room, m[r] = {}, NEW k, NEW x \in Sound(m)
    PROVE  x \in Faithful(m, r, k) /\ x \in Uncoding(m, r) /\ x \in Blind(m, r, k)
<1>1. \A t \in Token : ~Claims(x, t, r)
  BY ClaimsAdmit
<1>2. x.do = "set_room" => x.r # r
  <2>1. x.do = "set_room" => x \in SetRooms(m)
    BY Kinds
  <2> QED
    BY <2>1 DEF SetRooms, Peopled
<1>3. x.do \in {"set_code", "del_code"} => x.r # r
  <2>1. x.do \in {"set_code", "del_code"} => x \in OnRooms(m)
    BY Kinds
  <2> QED
    BY <2>1 DEF OnRooms, Inhabited
<1>4. x.do = "get_joined_room" => x.r # r
  <2>1. x.do = "get_joined_room" => x \in Joins(m)
    BY Kinds
  <2> QED
    BY <2>1 DEF Joins, Inhabited
<1>5. x \in Faithful(m, r, k) /\ x \in Uncoding(m, r)
  BY <1>2, <1>3 DEF Faithful, Uncoding
<1>6. x \in Harmless(m, r, k)
  BY <1>1, <1>2, <1>5 DEF Harmless
<1> QED
  BY <1>3, <1>4, <1>5, <1>6 DEF Blind

LEMMA FreshTodos ==
    ASSUME RInv, NEW r \in Room, r \notin usedRooms, NEW k
    PROVE  /\ \A c \in Caller : /\ call[c].todo \in Seq(Faithful(members, r, k))
                                /\ call[c].todo \in Seq(Uncoding(members, r))
                                /\ call[c].todo \in Seq(Harmless(members, r, k))
                                /\ call[c].todo \in Seq(Blind(members, r, k))
           /\ \A t \in Token : tokens[t] # None => tokens[t].roomName # r
           /\ rooms[r] = None /\ r \notin codes
<1>1. members[r] = {}
  BY DEF RInv, Unopened
<1>2. \A c \in Caller : call[c].todo \in Seq(Sound(members))
  BY DEF RInv, CallsSound, CallType
<1>3. /\ Sound(members) \subseteq Faithful(members, r, k)
      /\ Sound(members) \subseteq Uncoding(members, r)
      /\ Sound(members) \subseteq Blind(members, r, k)
  BY <1>1, FreshBlind
<1>4. \A c \in Caller : /\ call[c].todo \in Seq(Faithful(members, r, k))
                        /\ call[c].todo \in Seq(Uncoding(members, r))
                        /\ call[c].todo \in Seq(Blind(members, r, k))
  BY <1>2, <1>3, Wider
<1>5. /\ \A t \in Token : tokens[t] # None => tokens[t].roomName # r
      /\ rooms[r] = None /\ r \notin codes
  BY <1>1, NoneAssumption DEF RInv, RecordsApart, Admitted, Peopled, Typed, Inhabited
<1> QED
  BY <1>4, <1>5, GuardSetsNest

LEMMA CreateG ==
    ASSUME RInv, RInv', NEW c \in Caller, NEW t \in Token, NEW s \in Room,
           NEW type \in {"standard", "listener"}, CreateSession(c, t, s, type)
    PROVE  /\ \A r \in usedRooms, k \in Token : Guarded(r, k) => Guarded(r, k)'
           /\ Guarded(s, t)'
<1> DEFINE room == NewRoom(t, type, FALSE)
           todo == <<SetRoom(s, room), SetCode(s), Pair(t, s, CreatorRole(type))>>
<1>1. /\ s \notin usedRooms /\ Begins(c, "create", t, todo)
      /\ members' = [members EXCEPT ![s] = {t}] /\ usedRooms' = usedRooms \cup {s}
      /\ UNCHANGED <<tokens, rooms, codes>> /\ HistoryOK'
  BY DEF CreateSession, keys, RInv, Typed
<1>2. Grows(members, members')
  BY <1>1, NewlyOpened
<1>3. /\ room \in RoomRecord /\ room.creatorToken = t
      /\ OwnSlot(room, GuestRole(room.sessionType)) = None
  <2>1. PICK hl \in BOOLEAN : hl = FALSE
    OBVIOUS
  <2>2. /\ room = NewRoom(t, type, hl)
        /\ room \in RoomRecord /\ room.sessionType = type /\ room.creatorToken = t
        /\ OwnSlot(room, GuestRole(type)) = None
    <3>1. room = NewRoom(t, type, hl)
      BY <2>1
    <3> HIDE DEF room
    <3> QED
      BY <3>1, NewRoomFacts
  <2> HIDE DEF room
  <2> QED
    BY <2>2
<1>4. CreatorRole(type) \in Role
  BY Roles
<1> HIDE DEF room
<1>5. call[c].todo = <<>> /\ Todos(c, todo)
  <2>1. todo \in Seq({SetRoom(s, room), SetCode(s), Pair(t, s, CreatorRole(type))})
    BY Few
  <2> HIDE DEF todo
  <2> QED
    BY <1>1, <2>1, BeginsTodos
<1>6. todo \in Seq(Sound(members'))
  <2>1. call'[c].todo \in Seq(Sound(members'))
    BY DEF RInv, CallsSound, CallType
  <2> QED
    BY <1>5, <2>1 DEF Todos
<1>7. /\ SetRoom(s, room) \in Sound(members') /\ SetCode(s) \in Sound(members')
      /\ Pair(t, s, CreatorRole(type)) \in Sound(members')
  <2>1. \A i \in 1..3 : todo[i] \in Sound(members')
    BY <1>6
  <2> QED
    BY <2>1
<1>8. /\ SetRoom(s, room).do = "set_room" /\ SetRoom(s, room).r = s
      /\ SetRoom(s, room).record = room
      /\ SetCode(s).do = "set_code" /\ SetCode(s).r = s
      /\ Pair(t, s, CreatorRole(type)).do = "pair" /\ Pair(t, s, CreatorRole(type)).r = s
  BY DEF SetRoom, SetCode, Pair
<1>9. ASSUME NEW r \in usedRooms, NEW k \in Token, Guarded(r, k)
      PROVE  Guarded(r, k)'
  <2>1. r \in Room /\ r # s
    BY <1>1 DEF RInv, Typed, HistoryOK
  <2>2. /\ SetRoom(s, room) \in Faithful(members', r, k) /\ SetCode(s) \in Faithful(members', r, k)
        /\ Pair(t, s, CreatorRole(type)) \in Faithful(members', r, k)
    BY <1>7, <1>8, <2>1 DEF Faithful
  <2>3. /\ SetRoom(s, room) \in Blind(members', r, k)
        /\ Pair(t, s, CreatorRole(type)) \in Blind(members', r, k)
    BY <1>7, <1>8, <2>1, BlindElsewhere
  <2>4. SetCode(s) \in Blind(members', r, k)
    BY <1>7, <1>8, <2>1 DEF Blind, Harmless, Uncoding, Claims
  <2>5. /\ todo \in Seq(Faithful(members', r, k)) /\ todo \in Seq(Blind(members', r, k))
    BY <2>2, <2>3, <2>4, Few
  <2>6. todo \in Seq(Harmless(members', r, k)) /\ todo \in Seq(Uncoding(members', r))
    BY <2>5, GuardSetsNest
  <2>7. ~Creates(call[c].todo, r, k)
    BY <1>5, <2>1, CreatesFacts
  <2>8. Unredeemed(r, k) => Unredeemed(r, k)'
    BY <1>1 DEF Unredeemed
  <2>9. rooms'[r] # None => rooms'[r].creatorToken = k
    BY <1>1, <1>9 DEF Guarded, OpenedBy
  <2> HIDE DEF todo
  <2> QED
    BY <1>1, <1>2, <1>5, <1>9, <2>1, <2>5, <2>6, <2>7, <2>8, <2>9, GuardStep
<1>10. Guarded(s, t)'
  <2>1. /\ \A d \in Caller : /\ call[d].todo \in Seq(Faithful(members, s, t))
                             /\ call[d].todo \in Seq(Blind(members, s, t))
        /\ \A u \in Token : tokens[u] # None => tokens[u].roomName # s
        /\ rooms[s] = None /\ s \notin codes
    BY <1>1, FreshTodos
  <2>2. \A d \in Caller : /\ call[d].todo \in Seq(Faithful(members', s, t))
                          /\ call[d].todo \in Seq(Blind(members', s, t))
    BY <1>1, <1>2, <2>1, GuardSetsGrow DEF RInv, Typed, HistoryOK
  <2>3. todo \in Seq(Faithful(members', s, t))
    <3>1. /\ SetRoom(s, room) \in Faithful(members', s, t) /\ SetCode(s) \in Faithful(members', s, t)
          /\ Pair(t, s, CreatorRole(type)) \in Faithful(members', s, t)
      BY <1>3, <1>7, <1>8 DEF Faithful
    <3> QED
      BY <3>1, Few
  <2>4. Creates(todo, s, t)
    BY <1>3, <1>4 DEF Creates
  <2> HIDE DEF todo
  <2>5. OpenedBy(s, t)'
    BY <1>1, <1>5, <2>1, <2>2, <2>3 DEF OpenedBy, Todos
  <2>6. Unredeemed(s, t)'
    BY <1>1, <2>1 DEF Unredeemed
  <2>7. Opening(s, t)'
    BY <1>1, <1>5, <2>1, <2>2, <2>4, <2>6 DEF Opening, Todos
  <2> QED
    BY <2>5, <2>7 DEF Guarded
<1> QED
  BY <1>9, <1>10

LEMMA SetupG ==
    ASSUME RInv, RInv', NEW t \in Token, NEW s \in Room, NEW type \in {"standard", "listener"},
           NEW hl \in HeadlessModes, SetupSession(t, s, type, hl)
    PROVE  /\ \A r \in usedRooms, k \in Token : Guarded(r, k) => Guarded(r, k)'
           /\ Guarded(s, t)'
<1> DEFINE record == Paired(NewToken, s, CreatorRole(type))
           room   == NewRoom(t, type, hl)
<1>1. /\ s \notin usedRooms /\ UNCHANGED call
      /\ tokens' = [tokens EXCEPT ![t] = record] /\ rooms' = [rooms EXCEPT ![s] = room]
      /\ codes' = codes \cup {s} /\ usedRooms' = usedRooms \cup {s}
      /\ members' = [members EXCEPT ![s] = {t}] /\ HistoryOK'
  BY DEF SetupSession, RInv, Typed
<1>2. Grows(members, members')
  BY <1>1, NewlyOpened
<1>3. record.roomName = s
  BY NewTokenType, PairedType, Roles
<1>4. room.creatorToken = t /\ OwnSlot(room, GuestRole(room.sessionType)) = None
  <2>1. hl \in BOOLEAN
    BY BoundAssumption
  <2> QED
    BY <2>1, NewRoomFacts
<1> HIDE DEF record, room
<1>5. /\ \A u \in Token : tokens'[u] = IF u = t THEN record ELSE tokens[u]
      /\ \A r \in Room : rooms'[r] = IF r = s THEN room ELSE rooms[r]
  BY <1>1 DEF RInv, Typed
<1>6. ASSUME NEW r \in usedRooms, NEW k \in Token, Guarded(r, k)
      PROVE  Guarded(r, k)'
  <2>1. r \in Room /\ r # s
    BY <1>1 DEF RInv, Typed, HistoryOK
  <2>2. Unredeemed(r, k) => Unredeemed(r, k)'
    BY <1>3, <1>5, <2>1 DEF Unredeemed
  <2>3. rooms'[r] # None => rooms'[r].creatorToken = k
    BY <1>5, <1>6, <2>1 DEF Guarded, OpenedBy
  <2> QED
    BY <1>1, <1>2, <1>6, <2>1, <2>2, <2>3, GuardStill
<1>7. Guarded(s, t)'
  <2>1. /\ \A d \in Caller : /\ call[d].todo \in Seq(Faithful(members, s, t))
                             /\ call[d].todo \in Seq(Harmless(members, s, t))
        /\ \A u \in Token : tokens[u] # None => tokens[u].roomName # s
    BY <1>1, FreshTodos
  <2>2. \A d \in Caller : /\ call'[d].todo \in Seq(Faithful(members', s, t))
                          /\ call'[d].todo \in Seq(Harmless(members', s, t))
    BY <1>1, <1>2, <2>1, GuardSetsGrow DEF RInv, Typed, HistoryOK
  <2>3. OpenedBy(s, t)'
    BY <1>4, <1>5, <2>2 DEF OpenedBy
  <2>4. Unredeemed(s, t)'
    BY <1>4, <1>5, <2>1 DEF Unredeemed
  <2>5. Open(s, t)'
    BY <1>1, <2>2, <2>4 DEF Open
  <2> QED
    BY <2>3, <2>5 DEF Guarded
<1> QED
  BY <1>6, <1>7

----------------------------------------------------------------------------
(* Steps that change no pending command, and crashes *)

LEMMA QuietG ==
    ASSUME RInv, RInv', NEW r \in Room, NEW k \in Token, Guarded(r, k),
           \/ \E t \in Token : Register(t) \/ Delivered(t) \/ Requeue(t)
           \/ Ending
    PROVE  Guarded(r, k)'
<1>1. /\ UNCHANGED <<call, members>> /\ HistoryOK' /\ codes' \subseteq codes
      /\ rooms'[r] \in {rooms[r], None}
      /\ \A t \in Token : tokens'[t] \in {tokens[t], None, NewToken}
  <2>0. /\ tokens \in [Token -> TokenRecord \cup {None}] /\ HistoryOK'
        /\ rooms \in [Room -> RoomRecord \cup {None}]
    BY DEF RInv, Typed
  <2>1. CASE \E t \in Token : Register(t)
    BY <2>0, <2>1 DEF Register
  <2>2. CASE \E t \in Token : Delivered(t) \/ Requeue(t)
    BY <2>0, <2>2 DEF Delivered, Requeue, keys
  <2>3. CASE Ending
    BY <2>0, <2>3 DEF Ending, TokenEnds, InboxEnds, RoomEnds, CodeEnds
  <2> QED
    BY <2>1, <2>2, <2>3
<1>2. Grows(members, members')
  BY <1>1, Refl DEF Grows
<1>3. Unredeemed(r, k) => Unredeemed(r, k)'
  BY <1>1, NewTokenType, NoneAssumption DEF Unredeemed
<1>4. rooms'[r] # None => rooms'[r].creatorToken = k
  BY <1>1 DEF Guarded, OpenedBy
<1> QED
  BY <1>1, <1>2, <1>3, <1>4, GuardStill

\* An instance that stops while it opens a room leaves the room without a
\* code; one that redeems a code may leave it for another.
LEMMA CrashG ==
    ASSUME RInv, RInv', NEW r \in Room, NEW k \in Token, Guarded(r, k),
           NEW c \in Caller, Crash(c)
    PROVE  Guarded(r, k)'
<1>1. /\ call' = [call EXCEPT ![c] = NoCall] /\ HistoryOK'
      /\ UNCHANGED <<tokens, rooms, codes, members>>
  BY DEF Crash, keys, RInv, Typed
<1>2. Todos(c, <<>>)
  <2>1. NoCall.todo = <<>>
    BY DEF NoCall
  <2>2. call'[c] = NoCall /\ \A d \in Caller \ {c} : call'[d] = call[d]
    BY <1>1 DEF RInv, CallsSound
  <2> QED
    BY <2>1, <2>2 DEF Todos
<1>3. Grows(members, members') /\ members' = members
  BY <1>1, Refl DEF Grows
<1>4. Unredeemed(r, k) => Unredeemed(r, k)'
  BY <1>1 DEF Unredeemed
<1>5. rooms'[r] # None => rooms'[r].creatorToken = k
  BY <1>1 DEF Guarded, OpenedBy
<1>6. /\ <<>> \in Seq(Faithful(members, r, k)) /\ <<>> \in Seq(Uncoding(members, r))
      /\ <<>> \in Seq(Harmless(members, r, k)) /\ <<>> \in Seq(Blind(members, r, k))
  BY Few
<1>7. CASE ~Creates(call[c].todo, r, k)
  BY <1>1, <1>2, <1>3, <1>4, <1>5, <1>6, <1>7, GuardStep
<1>8. CASE Creates(call[c].todo, r, k)
  <2>1. /\ r \notin codes
        /\ \A d \in Caller \ {c} : call[d].todo \in Seq(Blind(members, r, k))
    BY <1>8, CreatesOpening
  <2>2. \A d \in Caller : call'[d].todo \in Seq(Uncoding(members, r))
    BY <1>2, <1>6, <2>1, GuardSetsNest DEF Todos
  <2>3. Closed(r)'
    BY <1>1, <2>1, <2>2 DEF Closed
  <2>4. OpenedBy(r, k)'
    BY <1>1, <1>2, <1>5, <1>6 DEF Guarded, OpenedBy, Todos
  <2> QED
    BY <2>3, <2>4 DEF Guarded
<1> QED
  BY <1>7, <1>8

----------------------------------------------------------------------------
(* The second invariant *)

\* Every step but the opening of a room.
LEMMA KeepsG ==
    ASSUME RInv, RInv', NEW r \in Room, NEW k \in Token, Guarded(r, k), Next
    PROVE  \/ Guarded(r, k)'
           \/ \E c \in Caller, t \in Token, s \in Room, type \in {"standard", "listener"} :
                 CreateSession(c, t, s, type)
           \/ \E t \in Token, s \in Room, type \in {"standard", "listener"}, hl \in HeadlessModes :
                 SetupSession(t, s, type, hl)
<1>1. ASSUME NEW c \in Caller, Called(c)
      PROVE  \/ Guarded(r, k)'
             \/ \E t \in Token, s \in Room, type \in {"standard", "listener"} :
                   CreateSession(c, t, s, type)
  <2>1. ASSUME NEW t \in Token, NEW s \in Room, RegisterAndJoin(c, t, s) PROVE Guarded(r, k)'
    BY <2>1, RegisterAndJoinG
  <2>2. ASSUME NEW t \in Token, NEW s \in Room, JoinSession(c, t, s) PROVE Guarded(r, k)'
    BY <2>2, JoinStarts, StartsG
  <2>3. ASSUME NEW t \in Token, NEW hl \in HeadlessModes, UpdateRoomHeadless(c, t, hl)
        PROVE  Guarded(r, k)'
    BY <2>3, HeadlessStarts, StartsG
  <2>4. ASSUME NEW t \in Token, NEW text \in Texts, SendMessage(c, t, text[1], text[2])
        PROVE  Guarded(r, k)'
    BY <2>4, SendStarts, StartsG
  <2>5. ASSUME NEW t \in Token, TouchParticipant(c, t) PROVE Guarded(r, k)'
    BY <2>5, TouchStarts, StartsG
  <2>6. ASSUME NEW t \in Token, ConsumeInboxMessage(c, t) PROVE Guarded(r, k)'
    BY <2>6, ConsumeG
  <2>7. ASSUME NEW t \in Token, LeaveSession(c, t) PROVE Guarded(r, k)'
    BY <2>7, LeaveStarts, StartsG
  <2>8. ASSUME NEW t \in Token, InvalidateByToken(c, t) PROVE Guarded(r, k)'
    BY <2>8, InvalidateStarts, StartsG
  <2>9. ASSUME NEW s \in Room, InvalidateRoom(c, s) PROVE Guarded(r, k)'
    BY <2>9, InvalidateStarts, StartsG
  <2>10. ASSUME NEW s \in Room, InvalidateByCode(c, s) PROVE Guarded(r, k)'
    BY <2>10, InvalidateCodeG
  <2> QED
    BY <1>1, <2>1, <2>2, <2>3, <2>4, <2>5, <2>6, <2>7, <2>8, <2>9, <2>10 DEF Called
<1>2. ASSUME NEW c \in Caller, Writes(c) PROVE Guarded(r, k)'
  BY <1>2, WriteTokenG, RemovesG, WriteRoomG, WriteCodeG DEF Writes
<1>3. ASSUME NEW c \in Caller, Asks(c) PROVE Guarded(r, k)'
  BY <1>3, AsksDerive, DerivesG, ReadCodeG, JoinRoomG
<1>4. ASSUME NEW c \in Caller, Crash(c) PROVE Guarded(r, k)'
  BY <1>4, CrashG
<1>5. CASE Single
  BY <1>5, QuietG DEF Single
<1>6. CASE Ending
  BY <1>6, QuietG
<1> QED
  BY <1>1, <1>2, <1>3, <1>4, <1>5, <1>6 DEF Next

\* Only the opening of a room generates its name.
LEMMA NamesGenerated ==
    ASSUME RInv, Next
    PROVE  \/ usedRooms' = usedRooms
           \/ \E c \in Caller, t \in Token, s \in Room, type \in {"standard", "listener"} :
                 CreateSession(c, t, s, type)
           \/ \E t \in Token, s \in Room, type \in {"standard", "listener"}, hl \in HeadlessModes :
                 SetupSession(t, s, type, hl)
<1>1. ASSUME NEW c \in Caller, Called(c)
      PROVE  \/ usedRooms' = usedRooms
             \/ \E t \in Token, s \in Room, type \in {"standard", "listener"} :
                   CreateSession(c, t, s, type)
  BY <1>1 DEF Called, RegisterAndJoin, JoinSession, UpdateRoomHeadless, SendMessage,
              TouchParticipant, ConsumeInboxMessage, LeaveSession, InvalidateByToken,
              InvalidateRoom, InvalidateByCode, Reads, names
<1>2. ASSUME NEW c \in Caller, Writes(c) PROVE usedRooms' = usedRooms
  BY <1>2 DEF Writes, WriteToken, RemoveToken, WriteRoom, RemoveRoom, WriteCode, RemoveCode,
              PushInbox, RemoveInbox, names
<1>3. ASSUME NEW c \in Caller, Asks(c) PROVE usedRooms' = usedRooms
  BY <1>3, AsksDerive DEF Derives, ReadCode, JoinRoom, Reads, names
<1>4. ASSUME NEW c \in Caller, Crash(c) PROVE usedRooms' = usedRooms
  BY <1>4 DEF Crash, names
<1>5. CASE Single
  BY <1>5 DEF Single, Register, Delivered, Requeue, names
<1>6. CASE Ending
  BY <1>6 DEF Ending, TokenEnds, InboxEnds, RoomEnds, CodeEnds, names
<1> QED
  BY <1>1, <1>2, <1>3, <1>4, <1>5, <1>6 DEF Next

LEMMA CodesNext == RInv /\ RInv' /\ CodesGuard /\ [Next]_vars => CodesGuard'
<1> SUFFICES ASSUME RInv, RInv', CodesGuard, [Next]_vars PROVE CodesGuard'
  OBVIOUS
<1>1. \A r \in usedRooms : r \in Room /\ \E k \in Token : Guarded(r, k)
  BY DEF RInv, Typed, HistoryOK, CodesGuard
<1>2. CASE UNCHANGED vars
  <2>1. UNCHANGED <<tokens, rooms, codes, call, usedRooms, members>>
    BY <1>2 DEF vars, keys, names
  <2>2. \A r \in usedRooms, k \in Token : Guarded(r, k) => Guarded(r, k)'
    BY <2>1 DEF Guarded, OpenedBy, Opening, Open, Closed, Unredeemed
  <2> QED
    BY <1>1, <2>1, <2>2 DEF CodesGuard
<1>3. ASSUME NEW c \in Caller, NEW t \in Token, NEW s \in Room,
             NEW type \in {"standard", "listener"}, CreateSession(c, t, s, type)
      PROVE  CodesGuard'
  <2>1. usedRooms' = usedRooms \cup {s}
    BY <1>3 DEF CreateSession
  <2> QED
    BY <1>1, <1>3, <2>1, CreateG DEF CodesGuard
<1>4. ASSUME NEW t \in Token, NEW s \in Room, NEW type \in {"standard", "listener"},
             NEW hl \in HeadlessModes, SetupSession(t, s, type, hl)
      PROVE  CodesGuard'
  <2>1. usedRooms' = usedRooms \cup {s}
    BY <1>4 DEF SetupSession
  <2> QED
    BY <1>1, <1>4, <2>1, SetupG DEF CodesGuard
<1>5. ASSUME Next, usedRooms' = usedRooms PROVE CodesGuard'
  BY <1>1, <1>3, <1>4, <1>5, KeepsG DEF CodesGuard
<1> QED
  BY <1>2, <1>3, <1>4, <1>5, NamesGenerated

\* Every room that was ever opened is, at every moment, still being opened,
\* open with its code unredeemed, or closed to newcomers for good: the order of
\* the commands of the creating, redeeming and leaving calls allows nothing else.
THEOREM RedisCodesGuarded == Spec => []CodesGuard
<1>1. Init => CodesGuard
  BY DEF Init, CodesGuard
<1> QED
  BY <1>1, RInit, RNext, CodesNext, RedisInvariance, PTL DEF Spec

\* A code that can still be redeemed belongs to a room without a guest,
\* wherever calls stop and whatever old record a call writes back: the code is
\* deleted before its redeemer is paired, and only the call that opens the room
\* ever writes it.
THEOREM CodesAdmitOneGuest == Spec => []RedeemedCodeIsGone
<1>1. RInv /\ CodesGuard => RedeemedCodeIsGone
  <2> SUFFICES ASSUME RInv, CodesGuard, NEW r \in codes, rooms[r] # None
               PROVE  /\ OwnSlot(rooms[r], GuestRole(rooms[r].sessionType)) = None
                      /\ \A t \in Token \ {rooms[r].creatorToken} :
                            tokens[t] # None => tokens[t].roomName # r
    BY DEF RedeemedCodeIsGone
  <2>1. r \in Room /\ r \in usedRooms
    BY DEF RInv, Typed, Inhabited, Unopened
  <2>2. PICK k \in Token : Guarded(r, k)
    BY <2>1 DEF CodesGuard
  <2>3. rooms[r].creatorToken = k /\ Unredeemed(r, k)
    BY <2>2 DEF Guarded, OpenedBy, Opening, Closed, Open
  <2> QED
    BY <2>3 DEF Unredeemed
<1> QED
  BY <1>1, RedisInvariance, RedisCodesGuarded, PTL
=============================================================================
