------------------------- MODULE BrokerStoreProofs -------------------------
(***************************************************************************)
(* What holds of the broker store's tables for any number of tokens and    *)
(* rooms, without the bounds.  The contents of inboxes are not used: the   *)
(* invariant of the tables rests on the tables alone.                      *)
(***************************************************************************)
EXTENDS BrokerStore, BrokerRecordsProofs

----------------------------------------------------------------------------
(* The invariant, of any pair of tables, so that it can be stated of the   *)
(* tables an operation finds, those cleanupExpired() leaves, and those the *)
(* operation leaves.                                                       *)

Types(tk, rm) ==
    /\ tk \in [Token -> TokenRecord \cup {None}]
    /\ rm \in [Room -> RoomRecord \cup {None}]

Placed(tk, rm) ==
    \A t \in Token :
        tk[t] # None =>
           \/ tk[t].roomName = None /\ tk[t].role = None
           \/ /\ tk[t].roomName # None /\ tk[t].role # None
              /\ rm[tk[t].roomName] # None
              /\ OwnSlot(rm[tk[t].roomName], tk[t].role) = t

Occupied(tk, rm) ==
    \A r \in Room :
        rm[r] # None =>
           /\ Slots(rm[r]) # {}
           /\ \A role \in Role :
                LET t == OwnSlot(rm[r], role)
                IN  t # None => /\ tk[t] # None
                                /\ tk[t].roomName = r
                                /\ tk[t].role = role

Agree(tk, rm) == Placed(tk, rm) /\ Occupied(tk, rm)

\* Nothing is known of a name before it is generated.
NotYetGenerated ==
    /\ \A t \in Token : t \notin usedTokens => tokens[t] = None
    /\ \A r \in Room : r \notin usedRooms => rooms[r] = None /\ redeemed[r] = "no"

IInv == TablesOK /\ RoomTokenAgreement /\ CodeGuardsFreeSlot /\ NotYetGenerated

LEMMA Agreement == RoomTokenAgreement <=> Agree(tokens, rooms)
BY DEF RoomTokenAgreement, Agree, Placed, Occupied

\* Every record is still there and still in its place, except that one that
\* has no room may have gone.
Settled(tk1, tk2) ==
    \A t \in Token :
        /\ tk2[t] # None => /\ tk1[t] # None
                            /\ tk2[t].roomName = tk1[t].roomName
                            /\ tk2[t].role = tk1[t].role
        /\ tk1[t] # None /\ tk1[t].roomName # None => tk2[t] # None

\* Not even a close notice was counted.
Unmoved(tk1, tk2) ==
    \A t \in Token :
        /\ tk2[t] = None <=> tk1[t] = None
        /\ tk1[t] # None =>
             /\ tk2[t].roomName = tk1[t].roomName
             /\ tk2[t].role = tk1[t].role
             /\ tk2[t].pendingCloseMessages = tk1[t].pendingCloseMessages

\* Every room has the same people in the same slots.
SameSlots(rm1, rm2) ==
    \A r \in Room :
        /\ rm2[r] = None <=> rm1[r] = None
        /\ rm1[r] # None => /\ Slots(rm2[r]) = Slots(rm1[r])
                            /\ \A role : OwnSlot(rm2[r], role) = OwnSlot(rm1[r], role)

LEMMA UnmovedSettles ==
    ASSUME NEW tk1, NEW tk2, Unmoved(tk1, tk2)
    PROVE  Settled(tk1, tk2)
BY DEF Unmoved, Settled

----------------------------------------------------------------------------
(* Steps that leave everyone in place, and cleanupExpired() *)

LEMMA AgreementKept ==
    ASSUME NEW tk1, NEW tk2, NEW rm,
           Types(tk1, rm), Types(tk2, rm), Agree(tk1, rm), Settled(tk1, tk2)
    PROVE  Agree(tk2, rm)
<1>1. Placed(tk2, rm)
  BY DEF Agree, Placed, Settled
<1>2. Occupied(tk2, rm)
  <2> SUFFICES ASSUME NEW r \in Room, rm[r] # None, NEW role \in Role,
                      OwnSlot(rm[r], role) # None
               PROVE  LET t == OwnSlot(rm[r], role)
                      IN  /\ tk2[t] # None
                          /\ tk2[t].roomName = r
                          /\ tk2[t].role = role
    BY DEF Agree, Occupied
  <2> DEFINE t == OwnSlot(rm[r], role)
  <2>1. t \in Token
    BY SlotFacts DEF Types
  <2>2. tk1[t] # None /\ tk1[t].roomName = r /\ tk1[t].role = role
    BY DEF Agree, Occupied
  <2>3. r # None
    BY NoneAssumption
  <2> QED
    BY <2>1, <2>2, <2>3 DEF Settled
<1> QED
  BY <1>1, <1>2 DEF Agree

\* cleanupExpired() removes no room that agrees with its participants, and
\* no participant.
LEMMA Cleanup ==
    ASSUME TablesOK, RoomTokenAgreement
    PROVE  /\ CleanRooms = rooms
           /\ Types(CleanTokens, rooms)
           /\ Settled(tokens, CleanTokens)
           /\ Agree(CleanTokens, rooms)
<1>1. Types(tokens, rooms)
  BY DEF TablesOK, Types
<1>2. Agree(tokens, rooms)
  BY Agreement
<1>3. CleanRooms = rooms
  <2>1. ASSUME NEW r \in Room, rooms[r] # None
        PROVE  ~NobodyPresent(rooms[r])
    <3>1. PICK role \in Role : OwnSlot(rooms[r], role) # None
      BY <1>1, <1>2, <2>1, SlotFacts DEF Agree, Occupied, Types
    <3>2. tokens[OwnSlot(rooms[r], role)] # None
      BY <1>2, <2>1, <3>1 DEF Agree, Occupied
    <3> QED
      BY <3>1, <3>2 DEF NobodyPresent, HasRecord, OwnSlot, Role
  <2> QED
    BY <1>1, <2>1 DEF CleanRooms, Types
<1>4. ASSUME NEW t \in Token
      PROVE  /\ CleanTokens[t] \in TokenRecord \cup {None}
             /\ CleanTokens[t] # None =>
                  /\ tokens[t] # None
                  /\ CleanTokens[t].roomName = tokens[t].roomName
                  /\ CleanTokens[t].role = tokens[t].role
             /\ tokens[t] # None /\ tokens[t].roomName # None => CleanTokens[t] # None
  <2>1. CASE tokens[t] = None
    BY <2>1 DEF CleanTokens
  <2>2. CASE tokens[t] # None
    <3> DEFINE marked == MarkedForClose(tokens[t], 1)
    <3>1. tokens[t] \in TokenRecord
      BY <1>1, <2>2 DEF Types
    <3>2. /\ marked \in TokenRecord
          /\ marked.roomName = tokens[t].roomName /\ marked.role = tokens[t].role
      BY <3>1, MarkedForCloseType
    <3> HIDE DEF marked
    <3>3. /\ [marked EXCEPT !.idle = FALSE] \in TokenRecord
          /\ [marked EXCEPT !.idle = FALSE].roomName = tokens[t].roomName
          /\ [marked EXCEPT !.idle = FALSE].role = tokens[t].role
      BY <3>2 DEF TokenRecord
    <3>4. CleanTokens[t] = IF TokenExpired(tokens[t]) THEN None
                           ELSE IF Expiring(t) THEN [marked EXCEPT !.idle = FALSE]
                           ELSE tokens[t]
      BY <2>2 DEF CleanTokens, marked
    <3> QED
      BY <2>2, <3>1, <3>3, <3>4, NoneAssumption DEF TokenExpired
  <2> QED
    BY <2>1, <2>2
<1>5. Types(CleanTokens, rooms)
  BY <1>1, <1>4 DEF Types, CleanTokens
<1>6. Settled(tokens, CleanTokens)
  BY <1>4 DEF Settled
<1> QED
  BY <1>1, <1>2, <1>3, <1>5, <1>6, AgreementKept

----------------------------------------------------------------------------
(* Steps that put someone in a room, or take someone out of it *)

LEMMA OpenKeeps ==
    ASSUME NEW tk, NEW rm, Types(tk, rm), Agree(tk, rm),
           NEW t \in Token, tk[t] = None \/ tk[t].roomName = None,
           NEW r \in Room, rm[r] = None,
           NEW type \in {"standard", "listener"}, NEW hl \in BOOLEAN,
           NEW token \in TokenRecord, token.roomName = r, token.role = CreatorRole(type)
    PROVE  /\ Types([tk EXCEPT ![t] = token], [rm EXCEPT ![r] = NewRoom(t, type, hl)])
           /\ Agree([tk EXCEPT ![t] = token], [rm EXCEPT ![r] = NewRoom(t, type, hl)])
<1> DEFINE room == NewRoom(t, type, hl)
           tk2  == [tk EXCEPT ![t] = token]
           rm2  == [rm EXCEPT ![r] = room]
<1>1. /\ room \in RoomRecord
      /\ OwnSlot(room, CreatorRole(type)) = t /\ OwnSlot(room, GuestRole(type)) = None
      /\ Slots(room) # {}
  BY NewRoomFacts
<1>2. /\ CreatorRole(type) \in Role
      /\ Role = {CreatorRole(type), GuestRole(type)}
  BY Roles
<1>3. r # None /\ t # None /\ None \notin Role /\ token # None /\ room # None
  BY <1>1, NoneAssumption
<1> HIDE DEF room
<1>4. Types(tk2, rm2)
  BY <1>1 DEF Types
<1>5. Placed(tk2, rm2)
  <2>1. ASSUME NEW u \in Token, u # t, tk[u] # None, tk[u].roomName # None
        PROVE  tk[u].roomName # r
    BY <2>1 DEF Agree, Placed
  <2> QED
    BY <1>1, <1>2, <1>3, <2>1 DEF Agree, Placed, Types, TokenRecord
<1>6. Occupied(tk2, rm2)
  <2>1. ASSUME NEW q \in Room, q # r, rm[q] # None, NEW role \in Role,
               OwnSlot(rm[q], role) # None
        PROVE  OwnSlot(rm[q], role) \in Token /\ OwnSlot(rm[q], role) # t
    <3>1. OwnSlot(rm[q], role) \in Token
      BY <2>1, SlotFacts DEF Types
    <3>2. q # None
      BY NoneAssumption
    <3> QED
      BY <2>1, <3>1, <3>2 DEF Agree, Occupied
  <2>2. ASSUME NEW q \in Room, q # r
        PROVE  rm2[q] = rm[q]
    BY <2>2 DEF Types
  <2>3. rm2[r] = room /\ tk2[t] = token
    BY DEF Types
  <2>4. \A u \in Token \ {t} : tk2[u] = tk[u]
    BY DEF Types
  <2> HIDE DEF tk2, rm2
  <2>5. ASSUME NEW q \in Room, rm2[q] # None, NEW role \in Role,
               OwnSlot(rm2[q], role) # None
        PROVE  LET u == OwnSlot(rm2[q], role)
               IN  tk2[u] # None /\ tk2[u].roomName = q /\ tk2[u].role = role
    <3>1. CASE q = r
      BY <1>1, <1>2, <1>3, <2>3, <2>5, <3>1
    <3>2. CASE q # r
      BY <2>1, <2>2, <2>4, <2>5, <3>2 DEF Agree, Occupied
    <3> QED
      BY <3>1, <3>2
  <2>6. \A q \in Room : rm2[q] # None => Slots(rm2[q]) # {}
    BY <1>1, <2>2, <2>3 DEF Agree, Occupied
  <2> QED
    BY <2>5, <2>6 DEF Occupied
<1> QED
  BY <1>4, <1>5, <1>6 DEF Agree, room

LEMMA JoinKeeps ==
    ASSUME NEW tk, NEW rm, Types(tk, rm), Agree(tk, rm),
           NEW t \in Token, tk[t] = None \/ tk[t].roomName = None,
           NEW r \in Room, rm[r] # None,
           NEW role \in Role, OwnSlot(rm[r], role) = None,
           NEW token \in TokenRecord, token.roomName = r, token.role = role
    PROVE  /\ Types([tk EXCEPT ![t] = token], [rm EXCEPT ![r] = SetSlot(@, role, t)])
           /\ Agree([tk EXCEPT ![t] = token], [rm EXCEPT ![r] = SetSlot(@, role, t)])
<1> DEFINE room == SetSlot(rm[r], role, t)
           tk2  == [tk EXCEPT ![t] = token]
           rm2  == [rm EXCEPT ![r] = room]
<1>1. /\ room \in RoomRecord
      /\ OwnSlot(room, role) = t
      /\ \A other \in Role \ {role} : OwnSlot(room, other) = OwnSlot(rm[r], other)
  BY SetSlotFacts DEF Types
<1>2. r # None /\ t # None /\ None \notin Role /\ token # None /\ room # None
  BY <1>1, NoneAssumption
<1>3. Slots(room) # {}
  BY <1>1, <1>2, SlotFacts
<1> HIDE DEF room
<1>4. Types(tk2, rm2)
  BY <1>1 DEF Types
<1>5. rm2[r] = room /\ tk2[t] = token
  BY DEF Types
<1>6. /\ \A q \in Room \ {r} : rm2[q] = rm[q]
      /\ \A u \in Token \ {t} : tk2[u] = tk[u]
  BY DEF Types
<1> HIDE DEF tk2, rm2
<1>7. Placed(tk2, rm2)
  <2> SUFFICES ASSUME NEW u \in Token, u # t, tk[u] # None, tk[u].roomName # None
               PROVE  /\ tk[u].role # None
                      /\ rm2[tk[u].roomName] # None
                      /\ OwnSlot(rm2[tk[u].roomName], tk[u].role) = u
    BY <1>1, <1>2, <1>5, <1>6 DEF Agree, Placed
  <2>1. /\ tk[u].role # None /\ rm[tk[u].roomName] # None
        /\ OwnSlot(rm[tk[u].roomName], tk[u].role) = u
        /\ tk[u].roomName \in Room /\ tk[u].role \in Role
    BY DEF Agree, Placed, Types, TokenRecord
  <2>2. u # None
    BY NoneAssumption
  <2> QED
    BY <1>1, <1>2, <1>5, <1>6, <2>1, <2>2
<1>8. Occupied(tk2, rm2)
  <2>1. ASSUME NEW q \in Room, rm[q] # None, NEW other \in Role,
               OwnSlot(rm[q], other) # None
        PROVE  OwnSlot(rm[q], other) \in Token \ {t}
    <3>1. OwnSlot(rm[q], other) \in Token
      BY <2>1, SlotFacts DEF Types
    <3>2. q # None
      BY NoneAssumption
    <3> QED
      BY <2>1, <3>1, <3>2 DEF Agree, Occupied
  <2>2. ASSUME NEW q \in Room, rm2[q] # None, NEW other \in Role,
               OwnSlot(rm2[q], other) # None
        PROVE  LET u == OwnSlot(rm2[q], other)
               IN  tk2[u] # None /\ tk2[u].roomName = q /\ tk2[u].role = other
    <3>1. CASE q = r /\ other = role
      BY <1>1, <1>2, <1>5, <3>1
    <3>2. CASE ~(q = r /\ other = role)
      <4>1. OwnSlot(rm2[q], other) = OwnSlot(rm[q], other) /\ rm[q] # None
        BY <1>1, <1>5, <1>6, <2>2, <3>2
      <4> QED
        BY <1>6, <2>1, <2>2, <4>1 DEF Agree, Occupied
    <3> QED
      BY <3>1, <3>2
  <2>3. \A q \in Room : rm2[q] # None => Slots(rm2[q]) # {}
    BY <1>3, <1>5, <1>6 DEF Agree, Occupied
  <2> QED
    BY <2>2, <2>3 DEF Occupied
<1> QED
  BY <1>4, <1>7, <1>8 DEF Agree, tk2, rm2, room

\* finalizeToken() and leaveSession() leave the same room: a participant is
\* in one slot only.
LEMMA OneSlot ==
    ASSUME NEW tk, NEW rm, Types(tk, rm), Agree(tk, rm),
           NEW t \in Token, tk[t] # None, tk[t].roomName # None
    PROVE  RoomWithout(rm[tk[t].roomName], t)
             = UnlessEmpty(SetSlot(rm[tk[t].roomName], tk[t].role, None))
<1> DEFINE room == rm[tk[t].roomName]
<1>1. /\ tk[t].roomName \in Room /\ tk[t].role \in Role
      /\ room \in RoomRecord /\ room # None /\ OwnSlot(room, tk[t].role) = t
  BY DEF Agree, Placed, Types, TokenRecord
<1>2. \A role \in Role \ {tk[t].role} : OwnSlot(room, role) # t
  <2>1. t # None
    BY NoneAssumption
  <2> QED
    BY <1>1, <2>1 DEF Agree, Occupied
<1>3. [room EXCEPT !.hostToken = IF @ = t THEN None ELSE @,
                   !.joinerToken = IF @ = t THEN None ELSE @]
        = SetSlot(room, tk[t].role, None)
  <2> HIDE DEF room
  <2>1. CASE tk[t].role = "host"
    <3>1. room.hostToken = t /\ room.joinerToken # t
      BY <1>1, <1>2, <2>1 DEF OwnSlot, Role
    <3> QED
      BY <1>1, <2>1, <3>1 DEF SetSlot, RoomRecord
  <2>2. CASE tk[t].role = "joiner"
    <3>1. room.hostToken # t /\ room.joinerToken = t
      BY <1>1, <1>2, <2>2 DEF OwnSlot, Role
    <3> QED
      BY <1>1, <2>2, <3>1 DEF SetSlot, RoomRecord
  <2> QED
    BY <1>1, <2>1, <2>2 DEF Role
<1> QED
  BY <1>3 DEF RoomWithout, Freed

LEMMA VacateKeeps ==
    ASSUME NEW tk, NEW rm, Types(tk, rm), Agree(tk, rm),
           NEW t \in Token, tk[t] # None, tk[t].roomName # None,
           NEW tk2, tk2 \in [Token -> TokenRecord \cup {None}], tk2[t] = None,
           \A u \in Token \ {t} :
               /\ tk2[u] # None => /\ tk[u] # None
                                   /\ tk2[u].roomName = tk[u].roomName
                                   /\ tk2[u].role = tk[u].role
               /\ tk[u] # None /\ tk[u].roomName # None => tk2[u] # None,
           NEW rm2,
           rm2 = [rm EXCEPT ![tk[t].roomName] = UnlessEmpty(SetSlot(@, tk[t].role, None))]
    PROVE  Types(tk2, rm2) /\ Agree(tk2, rm2)
<1> DEFINE r    == tk[t].roomName
           role == tk[t].role
           left == SetSlot(rm[r], role, None)
<1>1. /\ r \in Room /\ role \in Role
      /\ rm[r] # None /\ rm[r] \in RoomRecord /\ OwnSlot(rm[r], role) = t
  BY DEF Agree, Placed, Types, TokenRecord
<1>2. r # None /\ None \notin Role /\ None \notin Token
  BY NoneAssumption
<1>3. /\ left \in RoomRecord
      /\ OwnSlot(left, role) = None
      /\ \A other \in Role \ {role} : OwnSlot(left, other) = OwnSlot(rm[r], other)
  BY <1>1, SetSlotFacts
<1>4. rm2[r] = IF Slots(left) = {} THEN None ELSE left
  BY <1>1, <1>3, UnlessEmptyFacts DEF Types
<1>5. \A q \in Room \ {r} : rm2[q] = rm[q]
  BY DEF Types
<1>6. Types(tk2, rm2)
  BY <1>1, <1>3, UnlessEmptyFacts DEF Types
<1> HIDE DEF left
\* Whoever is still in a room was in it before, in the same slot.
<1>7. ASSUME NEW q \in Room, rm2[q] # None, NEW other \in Role,
             OwnSlot(rm2[q], other) # None
      PROVE  /\ rm[q] # None
             /\ OwnSlot(rm2[q], other) = OwnSlot(rm[q], other)
             /\ OwnSlot(rm[q], other) \in Token \ {t}
  <2>1. rm[q] # None /\ OwnSlot(rm2[q], other) = OwnSlot(rm[q], other)
    BY <1>1, <1>3, <1>4, <1>5, <1>7
  <2>2. OwnSlot(rm[q], other) \in Token
    BY <1>7, <2>1, SlotFacts DEF Types
  <2>3. OwnSlot(rm[q], other) # t
    BY <1>1, <1>3, <1>4, <1>7, <2>1 DEF Agree, Occupied
  <2> QED
    BY <2>1, <2>2, <2>3
<1>8. Occupied(tk2, rm2)
  <2>1. ASSUME NEW q \in Room, rm2[q] # None, NEW other \in Role,
               OwnSlot(rm2[q], other) # None
        PROVE  LET u == OwnSlot(rm2[q], other)
               IN  tk2[u] # None /\ tk2[u].roomName = q /\ tk2[u].role = other
    <3>1. q # None
      BY NoneAssumption
    <3>2. PICK u \in Token \ {t} : u = OwnSlot(rm2[q], other) /\ u = OwnSlot(rm[q], other)
      BY <1>7, <2>1
    <3>3. tk[u] # None /\ tk[u].roomName = q /\ tk[u].role = other
      BY <1>7, <2>1, <3>2 DEF Agree, Occupied
    <3> QED
      BY <3>1, <3>2, <3>3
  <2>2. \A q \in Room : rm2[q] # None => Slots(rm2[q]) # {}
    BY <1>4, <1>5 DEF Agree, Occupied
  <2> QED
    BY <2>1, <2>2 DEF Occupied
<1>9. Placed(tk2, rm2)
  <2> SUFFICES ASSUME NEW u \in Token, u # t, tk2[u] # None, tk[u].roomName # None
               PROVE  /\ tk[u].role # None
                      /\ rm2[tk[u].roomName] # None
                      /\ OwnSlot(rm2[tk[u].roomName], tk[u].role) = u
    BY DEF Agree, Placed
  <2>1. /\ tk[u].role # None /\ rm[tk[u].roomName] # None
        /\ OwnSlot(rm[tk[u].roomName], tk[u].role) = u
        /\ tk[u].roomName \in Room /\ tk[u].role \in Role
    BY DEF Agree, Placed, Types, TokenRecord
  <2>2. CASE tk[u].roomName # r
    BY <1>5, <2>1, <2>2
  <2>3. CASE tk[u].roomName = r
    <3>1. tk[u].role # role
      BY <1>1, <2>1, <2>3
    <3>2. OwnSlot(left, tk[u].role) = u
      BY <1>3, <2>1, <2>3, <3>1
    <3>3. u \in Slots(left)
      BY <1>2, <1>3, <2>1, <3>2, SlotFacts
    <3>4. left # None
      BY <1>3, NoneAssumption
    <3> QED
      BY <1>4, <2>1, <2>3, <3>2, <3>3, <3>4
  <2> QED
    BY <2>2, <2>3
<1> QED
  BY <1>6, <1>8, <1>9 DEF Agree

----------------------------------------------------------------------------
(* The invariant is inductive: what an operation finds and what it leaves  *)

\* What an operation reads of the tables after cleanupExpired().
LEMMA Found ==
    ASSUME IInv
    PROVE  /\ Types(tokens, rooms) /\ Agree(tokens, rooms)
           /\ CleanRooms = rooms
           /\ Types(CleanTokens, rooms) /\ Agree(CleanTokens, rooms)
           /\ Settled(tokens, CleanTokens)
BY Cleanup, Agreement DEF IInv, TablesOK, Types

LEMMA Partner ==
    ASSUME IInv, NEW t \in Token, PartnerOf(t) # None
    PROVE  /\ PartnerOf(t) \in Token
           /\ CleanTokens[PartnerOf(t)] # None
           /\ CleanTokens[t] # None /\ CleanTokens[t].roomName # None
<1>1. /\ CleanTokens[t] # None /\ CleanTokens[t].roomName # None
      /\ RoomOf(t) = rooms[CleanTokens[t].roomName] /\ RoomOf(t) # None
  BY Found DEF PartnerOf, RoomOf
<1>2. RoomOf(t) \in RoomRecord
  BY <1>1, Found DEF Types, TokenRecord
<1> QED
  BY <1>1, <1>2 DEF PartnerOf, PartnerSlot, RoomRecord

LEMMA StillSettled ==
    ASSUME IInv, NEW tk2, Settled(CleanTokens, tk2)
    PROVE  Settled(tokens, tk2)
BY Found DEF Settled

\* An operation that leaves everyone in place.
LEMMA QuietStep ==
    ASSUME IInv, rooms' = rooms, Settled(tokens, tokens'),
           tokens' \in [Token -> TokenRecord \cup {None}],
           codes' \subseteq codes, recounts' \in [Token -> Nat], lapsed' \subseteq Token,
           usedTokens' = usedTokens, usedRooms' = usedRooms, redeemed' = redeemed
    PROVE  IInv'
<1>1. Types(tokens', rooms)
  BY Found DEF Types
<1>2. Agree(tokens', rooms)
  BY <1>1, Found, AgreementKept
<1>3. TablesOK'
  BY DEF IInv, TablesOK
<1>4. RoomTokenAgreement'
  BY <1>2 DEF RoomTokenAgreement, Agree, Placed, Occupied
<1>5. CodeGuardsFreeSlot'
  BY DEF IInv, CodeGuardsFreeSlot
<1>6. NotYetGenerated'
  BY DEF IInv, NotYetGenerated, Settled
<1> QED
  BY <1>3, <1>4, <1>5, <1>6 DEF IInv

\* Marking for close, touching and the other updates of a record leave its
\* place alone.
LEMMA UpdateSettles ==
    ASSUME NEW tk, tk \in [Token -> TokenRecord \cup {None}],
           NEW tk2, tk2 \in [Token -> TokenRecord \cup {None}],
           \A t \in Token : \/ tk2[t] = tk[t]
                           \/ /\ tk[t] # None /\ tk2[t] # None
                              /\ tk2[t].roomName = tk[t].roomName
                              /\ tk2[t].role = tk[t].role
    PROVE  Settled(tk, tk2)
BY DEF Settled

LEMMA RegisterStep ==
    ASSUME IInv, NEW t \in Token, Register(t)
    PROVE  IInv'
<1>1. tokens[t] = None /\ CleanTokens[t] = None
  BY Found DEF IInv, NotYetGenerated, Register, Settled
<1>2. rooms' = rooms
  BY Found DEF Register
<1>3. NewToken \in TokenRecord /\ NewToken # None
  BY NewTokenType, NoneAssumption
<1>4. tokens'[t] = NewToken /\ \A u \in Token \ {t} : tokens'[u] = CleanTokens[u]
  BY Found DEF Register, Types
<1>5. tokens' \in [Token -> TokenRecord \cup {None}]
  BY <1>3, Found DEF Register, Types
<1>6. Placed(tokens', rooms)
  BY <1>3, <1>4, NewTokenType, Found DEF Agree, Placed
<1>7. Occupied(tokens', rooms)
  <2> SUFFICES ASSUME NEW r \in Room, rooms[r] # None, NEW role \in Role,
                      OwnSlot(rooms[r], role) # None
               PROVE  LET u == OwnSlot(rooms[r], role)
                      IN  /\ tokens'[u] # None
                          /\ tokens'[u].roomName = r
                          /\ tokens'[u].role = role
    BY Found DEF Agree, Occupied
  <2>1. OwnSlot(rooms[r], role) \in Token
    BY Found, SlotFacts DEF Types
  <2>2. CleanTokens[OwnSlot(rooms[r], role)] # None
    BY Found DEF Agree, Occupied
  <2> QED
    BY <1>1, <1>4, <2>1, <2>2, Found DEF Agree, Occupied
<1>8. TablesOK'
  BY <1>2, <1>5 DEF IInv, TablesOK, Register
<1>9. RoomTokenAgreement'
  BY <1>2, <1>6, <1>7 DEF RoomTokenAgreement, Placed, Occupied
<1>10. CodeGuardsFreeSlot'
  BY <1>2 DEF IInv, CodeGuardsFreeSlot, Register
<1>11. NotYetGenerated'
  BY <1>2, <1>4, Found DEF IInv, NotYetGenerated, Register, Settled
<1> QED
  BY <1>8, <1>9, <1>10, <1>11 DEF IInv

LEMMA OpenStep ==
    ASSUME IInv, NEW t \in Token, NEW r \in Room,
           NEW type \in {"standard", "listener"}, NEW hl \in BOOLEAN,
           NEW token \in TokenRecord, OpenRoom(t, token, r, type, hl),
           CleanTokens[t] = None \/ CleanTokens[t].roomName = None,
           usedTokens' = usedTokens \cup {t}
    PROVE  IInv'
<1> DEFINE new == Paired(token, r, CreatorRole(type))
<1>1. /\ new \in TokenRecord /\ new.roomName = r /\ new.role = CreatorRole(type)
      /\ new # None
  BY PairedType, Roles, NoneAssumption
<1>2. rooms[r] = None /\ redeemed[r] = "no"
  BY DEF IInv, NotYetGenerated, OpenRoom
<1>3. /\ tokens' = [CleanTokens EXCEPT ![t] = new]
      /\ rooms' = [rooms EXCEPT ![r] = NewRoom(t, type, hl)]
  BY Found DEF OpenRoom
<1> HIDE DEF new
<1>4. Types(tokens', rooms') /\ Agree(tokens', rooms')
  BY <1>1, <1>2, <1>3, Found, OpenKeeps
<1>5. TablesOK'
  BY <1>4 DEF IInv, TablesOK, OpenRoom, Types
<1>6. RoomTokenAgreement'
  BY <1>4 DEF RoomTokenAgreement, Agree, Placed, Occupied
<1>7. rooms'[r] = NewRoom(t, type, hl) /\ \A q \in Room \ {r} : rooms'[q] = rooms[q]
  BY <1>3, Found DEF Types
<1>8. CodeGuardsFreeSlot'
  <2>1. codes' = codes \cup {r} /\ redeemed' = redeemed /\ codes \subseteq Room
    BY DEF OpenRoom, IInv, TablesOK
  <2> QED
    BY <1>2, <1>7, <2>1, NewRoomFacts DEF IInv, CodeGuardsFreeSlot
<1>9. NotYetGenerated'
  <2>1. \A u \in Token \ {t} : tokens'[u] = CleanTokens[u]
    BY <1>3, Found DEF Types
  <2> QED
    BY <1>7, <2>1, Found DEF IInv, NotYetGenerated, OpenRoom, Settled
<1> QED
  BY <1>5, <1>6, <1>8, <1>9 DEF IInv

LEMMA JoinStep ==
    ASSUME IInv, NEW t \in Token, NEW r \in Room,
           NEW token \in TokenRecord, JoinRoom(t, token, r),
           CleanTokens[t] = None \/ CleanTokens[t].roomName = None,
           usedTokens' = usedTokens \cup {t}
    PROVE  IInv'
<1> DEFINE role == GuestRole(rooms[r].sessionType)
           new  == Paired(token, r, role)
<1>1. /\ rooms[r] # None /\ rooms[r] \in RoomRecord /\ r \in codes
      /\ rooms[r].sessionType \in {"standard", "listener"}
  BY Found DEF JoinRoom, Types, RoomRecord
<1>2. role \in Role /\ OwnSlot(rooms[r], role) = None
  BY <1>1, Roles DEF IInv, CodeGuardsFreeSlot
<1>3. new \in TokenRecord /\ new.roomName = r /\ new.role = role /\ new # None
  BY <1>2, PairedType, NoneAssumption
<1>4. /\ tokens' = [CleanTokens EXCEPT ![t] = new]
      /\ rooms' = [rooms EXCEPT ![r] = SetSlot(@, role, t)]
      /\ codes' = codes \ {r}
      /\ \E value \in {"open", "closing"} : redeemed' = [redeemed EXCEPT ![r] = value]
      /\ usedRooms' = usedRooms /\ recounts' = recounts /\ lapsed' = lapsed
  BY Found DEF JoinRoom, CodesWithout
<1> HIDE DEF new, role
<1>5. Types(tokens', rooms') /\ Agree(tokens', rooms')
  BY <1>1, <1>2, <1>3, <1>4, Found, JoinKeeps
<1>6. TablesOK'
  BY <1>4, <1>5 DEF IInv, TablesOK, Types
<1>7. RoomTokenAgreement'
  BY <1>5 DEF RoomTokenAgreement, Agree, Placed, Occupied
<1>8. CodeGuardsFreeSlot'
  BY <1>4, Found DEF IInv, CodeGuardsFreeSlot, TablesOK, Types
<1>9. NotYetGenerated'
  <2>1. r \in usedRooms
    BY <1>1 DEF IInv, TablesOK
  <2>2. \A u \in Token \ {t} : tokens'[u] = CleanTokens[u]
    BY <1>4, Found DEF Types
  <2>3. \A q \in Room \ {r} : rooms'[q] = rooms[q] /\ redeemed'[q] = redeemed[q]
    BY <1>4, Found DEF Types, IInv, TablesOK
  <2> QED
    BY <1>4, <2>1, <2>2, <2>3, Found DEF IInv, NotYetGenerated, Settled
<1> QED
  BY <1>6, <1>7, <1>8, <1>9 DEF IInv

\* A step that takes t out of its room and keeps everyone else.
LEMMA VacateStep ==
    ASSUME IInv, NEW t \in Token, CleanTokens[t] # None, CleanTokens[t].roomName # None,
           tokens' \in [Token -> TokenRecord \cup {None}], tokens'[t] = None,
           \A u \in Token \ {t} :
               /\ tokens'[u] # None => /\ CleanTokens[u] # None
                                       /\ tokens'[u].roomName = CleanTokens[u].roomName
                                       /\ tokens'[u].role = CleanTokens[u].role
               /\ CleanTokens[u] # None /\ CleanTokens[u].roomName # None
                     => tokens'[u] # None,
           rooms' = [rooms EXCEPT ![CleanTokens[t].roomName] =
                        UnlessEmpty(SetSlot(@, CleanTokens[t].role, None))],
           codes' = codes, recounts' \in [Token -> Nat], lapsed' \subseteq Token,
           usedTokens' = usedTokens, usedRooms' = usedRooms, redeemed' = redeemed
    PROVE  IInv'
<1> DEFINE r    == CleanTokens[t].roomName
           role == CleanTokens[t].role
           left == SetSlot(rooms[r], role, None)
<1>1. Types(tokens', rooms') /\ Agree(tokens', rooms')
  BY Found, VacateKeeps
<1>2. /\ r \in Room /\ role \in Role
      /\ rooms[r] # None /\ rooms[r] \in RoomRecord /\ OwnSlot(rooms[r], role) = t
  BY Found DEF Agree, Placed, Types, TokenRecord
<1>3. /\ left \in RoomRecord
      /\ OwnSlot(left, role) = None
      /\ \A other \in Role \ {role} : OwnSlot(left, other) = OwnSlot(rooms[r], other)
      /\ left.sessionType = rooms[r].sessionType
      /\ left.creatorToken = rooms[r].creatorToken
  BY <1>2, SetSlotFacts
<1>4. rooms'[r] = IF Slots(left) = {} THEN None ELSE left
  BY <1>2, <1>3, UnlessEmptyFacts, Found DEF Types
<1>5. \A q \in Room \ {r} : rooms'[q] = rooms[q]
  BY Found DEF Types
<1>6. TablesOK'
  BY <1>1 DEF IInv, TablesOK, Types
<1>7. RoomTokenAgreement'
  BY <1>1 DEF RoomTokenAgreement, Agree, Placed, Occupied
<1> HIDE DEF left
\* The only one in a room whose code is valid is its creator: when it goes,
\* so does the room.
<1>8. CodeGuardsFreeSlot'
  <2>1. r \in codes => rooms'[r] = None
    <3>1. SUFFICES ASSUME r \in codes
                   PROVE  Slots(left) = {}
      BY <1>4
    <3> DEFINE type == rooms[r].sessionType
    <3>2. /\ type \in {"standard", "listener"}
          /\ OwnSlot(rooms[r], GuestRole(type)) = None
      BY <1>2, <3>1 DEF IInv, CodeGuardsFreeSlot, RoomRecord
    <3>3. role # GuestRole(type)
      BY <1>2, <3>2, NoneAssumption
    <3>4. OwnSlot(left, GuestRole(type)) = None /\ OwnSlot(left, CreatorRole(type)) = None
      BY <1>2, <1>3, <3>2, <3>3, Roles
    <3> QED
      BY <1>3, <3>2, <3>4, Roles, SlotFacts
  <2> QED
    BY <1>5, <2>1 DEF IInv, CodeGuardsFreeSlot, TablesOK
<1>9. NotYetGenerated'
  <2>1. \A u \in Token : tokens[u] = None => tokens'[u] = None
    BY Found DEF Settled
  <2>2. \A q \in Room : rooms[q] = None => rooms'[q] = None
    BY <1>2, <1>5
  <2> QED
    BY <2>1, <2>2 DEF IInv, NotYetGenerated
<1> QED
  BY <1>6, <1>7, <1>8, <1>9 DEF IInv

\* Moving lastSeen.
LEMMA SeenUnmoved ==
    ASSUME NEW tk, tk \in [Token -> TokenRecord \cup {None}],
           NEW t \in Token, tk[t] # None, NEW idle \in BOOLEAN
    PROVE  /\ [tk EXCEPT ![t].idle = idle] \in [Token -> TokenRecord \cup {None}]
           /\ Unmoved(tk, [tk EXCEPT ![t].idle = idle])
<1>1. tk[t] \in TokenRecord
  OBVIOUS
<1>2. [tk[t] EXCEPT !.idle = idle] \in TokenRecord
  BY <1>1 DEF TokenRecord
<1> QED
  BY <1>1, <1>2, NoneAssumption DEF Unmoved, TokenRecord

LEMMA HeadlessStep ==
    ASSUME IInv, NEW t \in Token, NEW hl \in HeadlessModes, UpdateRoomHeadless(t, hl)
    PROVE  /\ IInv' /\ Unmoved(CleanTokens, tokens')
           /\ SameSlots(rooms, rooms')
<1> DEFINE r == CleanTokens[t].roomName
<1>1. /\ CleanTokens[t] # None /\ CleanTokens[t] \in TokenRecord
      /\ r \in Room /\ rooms[r] # None /\ rooms[r] \in RoomRecord
  BY Found DEF UpdateRoomHeadless, RoomOf, Types, TokenRecord
<1>2. /\ tokens' = [CleanTokens EXCEPT ![t].idle = FALSE]
      /\ rooms' = [rooms EXCEPT ![r].headless = hl]
  BY Found DEF UpdateRoomHeadless
<1>3. /\ tokens' \in [Token -> TokenRecord \cup {None}]
      /\ Unmoved(CleanTokens, tokens') /\ Settled(CleanTokens, tokens')
  BY <1>1, <1>2, Found, SeenUnmoved, UnmovedSettles DEF Types
<1>4. Agree(tokens', rooms)
  BY <1>3, Found, AgreementKept DEF Types
<1>5. [rooms[r] EXCEPT !.headless = hl] \in RoomRecord
  BY <1>1, BoundAssumption DEF RoomRecord
<1>6. /\ SameSlots(rooms, rooms')
      /\ \A q \in Room : rooms[q] # None =>
            /\ rooms'[q].sessionType = rooms[q].sessionType
            /\ rooms'[q].creatorToken = rooms[q].creatorToken
  BY <1>1, <1>2, <1>5, Found, NoneAssumption DEF Types, RoomRecord, SameSlots, Slots, OwnSlot
<1>7. TablesOK'
  <2>1. rooms' \in [Room -> RoomRecord \cup {None}]
    BY <1>1, <1>2, <1>5, Found DEF Types
  <2> QED
    BY <1>3, <2>1 DEF IInv, TablesOK, UpdateRoomHeadless, history
<1>8. RoomTokenAgreement'
  <2>1. Placed(tokens', rooms')
    BY <1>3, <1>4, <1>6 DEF Agree, Placed, TokenRecord, SameSlots
  <2>2. Occupied(tokens', rooms')
    BY <1>4, <1>6 DEF Agree, Occupied, SameSlots
  <2> QED
    BY <2>1, <2>2 DEF RoomTokenAgreement, Placed, Occupied
<1>9. CodeGuardsFreeSlot'
  BY <1>6 DEF IInv, CodeGuardsFreeSlot, UpdateRoomHeadless, history, TablesOK, SameSlots
<1>10. NotYetGenerated'
  BY <1>3, <1>6, Found DEF IInv, NotYetGenerated, UpdateRoomHeadless, history, Settled,
                           SameSlots
<1> QED
  BY <1>3, <1>6, <1>7, <1>8, <1>9, <1>10 DEF IInv

\* closeRoom() on tables that agree: a notice is counted, nobody moves.
LEMMA CloseRoomSettles ==
    ASSUME NEW tk, NEW rm, Types(tk, rm), NEW ib, NEW r \in Room, CloseRoom(r, tk, rm, ib)
    PROVE  /\ tokens' \in [Token -> TokenRecord \cup {None}]
           /\ Settled(tk, tokens')
           /\ rooms' = rm
<1> DEFINE told == IF rm[r] = None THEN {} ELSE {t \in Slots(rm[r]) : tk[t] # None}
<1>1. tokens' = [t \in Token |-> IF t \in told THEN MarkedForClose(tk[t], 1) ELSE tk[t]]
  BY DEF CloseRoom
<1>2. ASSUME NEW t \in Token, t \in told
      PROVE  /\ tk[t] \in TokenRecord
             /\ MarkedForClose(tk[t], 1) \in TokenRecord
             /\ MarkedForClose(tk[t], 1).roomName = tk[t].roomName
             /\ MarkedForClose(tk[t], 1).role = tk[t].role
  BY <1>2, MarkedForCloseType DEF Types
<1> HIDE DEF told
<1>3. tokens' \in [Token -> TokenRecord \cup {None}]
  BY <1>1, <1>2 DEF Types
<1>4. \A t \in Token : \/ tokens'[t] = tk[t]
                        \/ /\ tk[t] # None /\ tokens'[t] # None
                           /\ tokens'[t].roomName = tk[t].roomName
                           /\ tokens'[t].role = tk[t].role
  BY <1>1, <1>2, NoneAssumption
<1> QED
  BY <1>3, <1>4, UpdateSettles DEF CloseRoom, Types

----------------------------------------------------------------------------
(* The operations that leave everyone in place *)

LEMMA TouchStep ==
    ASSUME IInv, NEW t \in Token, Touch(t)
    PROVE  IInv' /\ Unmoved(CleanTokens, tokens')
<1>1. /\ tokens' \in [Token -> TokenRecord \cup {None}]
      /\ Unmoved(CleanTokens, tokens')
  BY Found, SeenUnmoved DEF Touch, Types
<1> QED
  BY <1>1, Found, UnmovedSettles, StillSettled, QuietStep
  DEF Touch, history, IInv, TablesOK

LEMMA SendStep ==
    ASSUME IInv, NEW t \in Token, NEW kind, NEW short, SendMessage(t, kind, short)
    PROVE  IInv' /\ Unmoved(CleanTokens, tokens')
<1> DEFINE p == PartnerOf(t)
<1>1. /\ p \in Token /\ CleanTokens[p] \in TokenRecord
      /\ CleanTokens[t] \in TokenRecord
  BY Found, Partner DEF SendMessage, Types
<1> DEFINE active == kind = "active_text"
           both   == ~active /\ CleanTokens[p].standby
           count  == IF short THEN CleanTokens[t].recentShortMessageCount + 1 ELSE 0
           paused == count >= LoopThreshold
           sender   == [CleanTokens[t] EXCEPT
                          !.idle = FALSE, !.standby = paused \/ ~active,
                          !.recentShortMessageCount = IF paused THEN 0 ELSE count]
           receiver == [CleanTokens[p] EXCEPT
                          !.standby = paused \/ both,
                          !.recentShortMessageCount = IF paused THEN @ ELSE 0]
<1>2. tokens' = [CleanTokens EXCEPT ![t] = sender, ![p] = receiver]
  BY DEF SendMessage
<1>3. count \in Nat
  BY <1>1 DEF TokenRecord
<1> HIDE DEF count, paused, both, active
<1>4. /\ sender \in TokenRecord
      /\ sender.roomName = CleanTokens[t].roomName /\ sender.role = CleanTokens[t].role
      /\ sender.pendingCloseMessages = CleanTokens[t].pendingCloseMessages
  <2> DEFINE standby == paused \/ ~active
             short2  == IF paused THEN 0 ELSE count
  <2>1. standby \in BOOLEAN /\ short2 \in Nat
    BY <1>3
  <2> HIDE DEF standby, short2
  <2>2. sender = [CleanTokens[t] EXCEPT !.idle = FALSE, !.standby = standby,
                                        !.recentShortMessageCount = short2]
    BY DEF standby, short2
  <2> QED
    BY <1>1, <2>1, <2>2 DEF TokenRecord
<1>5. /\ receiver \in TokenRecord
      /\ receiver.roomName = CleanTokens[p].roomName
      /\ receiver.role = CleanTokens[p].role
      /\ receiver.pendingCloseMessages = CleanTokens[p].pendingCloseMessages
  <2> DEFINE standby == paused \/ both
             short2  == IF paused THEN CleanTokens[p].recentShortMessageCount ELSE 0
  <2>1. standby \in BOOLEAN /\ short2 \in Nat
    BY <1>1 DEF TokenRecord
  <2> HIDE DEF standby, short2
  <2>2. receiver = [CleanTokens[p] EXCEPT !.standby = standby,
                                          !.recentShortMessageCount = short2]
    BY DEF standby, short2
  <2> QED
    BY <1>1, <2>1, <2>2 DEF TokenRecord
<1> HIDE DEF sender, receiver, p
<1>6. tokens' \in [Token -> TokenRecord \cup {None}]
  BY <1>1, <1>2, <1>4, <1>5, Found DEF Types
<1>7. Unmoved(CleanTokens, tokens')
  BY <1>1, <1>2, <1>4, <1>5, Found, NoneAssumption DEF Types, Unmoved
<1> QED
  BY <1>6, <1>7, Found, UnmovedSettles, StillSettled, QuietStep
  DEF SendMessage, history, IInv, TablesOK

LEMMA ConsumeStep ==
    ASSUME IInv, NEW t \in Token, Consume(t)
    PROVE  IInv'
<1> DEFINE notice == IsClose(Head(CleanInboxes[t])) /\ CleanTokens[t] # None
           last   == LastNotice(CleanTokens[t].pendingCloseMessages)
<1>1. notice => CleanTokens[t] # None /\ CleanTokens[t] \in TokenRecord
  BY Found DEF Types
<1>2. /\ recounts' \in [Token -> Nat] /\ lapsed' \subseteq Token
      /\ codes' = codes /\ usedTokens' = usedTokens /\ usedRooms' = usedRooms
      /\ redeemed' = redeemed
  BY DEF Consume, IInv, TablesOK
<1>3. CASE ~notice
  BY <1>2, <1>3, Found, QuietStep DEF Consume, Types
<1>4. CASE notice /\ ~last
  <2> DEFINE one == [CleanTokens[t] EXCEPT !.pendingCloseMessages = @ - 1]
  <2>1. /\ one \in TokenRecord
        /\ one.roomName = CleanTokens[t].roomName /\ one.role = CleanTokens[t].role
    BY <1>1, <1>4 DEF LastNotice, TokenRecord
  <2>2. tokens' = [CleanTokens EXCEPT ![t] = one] /\ rooms' = rooms
    BY <1>4, Found DEF Consume, AccountForClose
  <2> HIDE DEF one
  <2>3. tokens' \in [Token -> TokenRecord \cup {None}]
    BY <2>1, <2>2, Found DEF Types
  <2>4. Settled(CleanTokens, tokens')
    <3>1. \A u \in Token :
             \/ tokens'[u] = CleanTokens[u]
             \/ /\ CleanTokens[u] # None /\ tokens'[u] # None
                /\ tokens'[u].roomName = CleanTokens[u].roomName
                /\ tokens'[u].role = CleanTokens[u].role
      BY <1>1, <1>4, <2>1, <2>2, Found, NoneAssumption DEF Types
    <3> QED
      BY <2>3, <3>1, Found, UpdateSettles DEF Types
  <2> QED
    BY <1>2, <2>2, <2>3, <2>4, StillSettled, QuietStep
<1>5. CASE notice /\ last
  <2>0. CleanTokens[t] # None /\ CleanTokens[t] \in TokenRecord
    BY <1>1, <1>5
  <2>1. /\ tokens' = [CleanTokens EXCEPT ![t] = None]
        /\ rooms' = IF RoomOf(t) = None THEN rooms
                    ELSE [rooms EXCEPT ![CleanTokens[t].roomName] = RoomWithout(@, t)]
    BY <1>5, Found DEF Consume, AccountForClose
  <2>2. /\ tokens' \in [Token -> TokenRecord \cup {None}]
        /\ tokens'[t] = None /\ \A u \in Token \ {t} : tokens'[u] = CleanTokens[u]
    BY <2>1, Found DEF Types
  <2>3. CASE CleanTokens[t].roomName = None
    <3>1. rooms' = rooms
      BY <2>1, <2>3 DEF RoomOf
    <3>2. Settled(CleanTokens, tokens')
      BY <2>2, <2>3 DEF Settled
    <3> QED
      BY <1>2, <2>2, <3>1, <3>2, StillSettled, QuietStep
  <2>4. CASE CleanTokens[t].roomName # None
    <3>1. rooms[CleanTokens[t].roomName] # None /\ CleanTokens[t].roomName \in Room
      BY <2>0, <2>4, Found DEF Agree, Placed, TokenRecord
    <3>2. RoomOf(t) # None
      BY <2>0, <2>4, <3>1, Found DEF RoomOf
    <3>3. rooms' = [rooms EXCEPT ![CleanTokens[t].roomName] =
                      UnlessEmpty(SetSlot(@, CleanTokens[t].role, None))]
      BY <2>0, <2>1, <2>4, <3>1, <3>2, Found, OneSlot
    <3> QED
      BY <1>2, <2>0, <2>2, <2>4, <3>3, VacateStep
  <2> QED
    BY <2>3, <2>4
<1> QED
  BY <1>3, <1>4, <1>5

LEMMA LeaveStep ==
    ASSUME IInv, NEW t \in Token, LeaveSession(t)
    PROVE  IInv'
<1> DEFINE role == CleanTokens[t].role
           p    == PartnerOf(t)
           n    == Len(Farewell(role))
           told == MarkedForClose(CleanTokens[p], n)
<1>1. /\ CleanTokens[t] # None /\ CleanTokens[t] \in TokenRecord
      /\ CleanTokens[t].roomName # None
  BY Found DEF LeaveSession, Types
<1>2. /\ CleanTokens[t].roomName \in Room /\ role \in Role
      /\ rooms[CleanTokens[t].roomName] # None
      /\ rooms[CleanTokens[t].roomName] \in RoomRecord
      /\ OwnSlot(rooms[CleanTokens[t].roomName], role) = t
  BY <1>1, Found DEF Agree, Placed, Types, TokenRecord
<1>3. RoomOf(t) # None
  BY <1>1, <1>2, Found DEF RoomOf
<1>4. rooms' = [rooms EXCEPT ![CleanTokens[t].roomName] =
                   UnlessEmpty(SetSlot(@, CleanTokens[t].role, None))]
  BY <1>2, <1>3, Found DEF LeaveSession, Types
<1>5. /\ codes' = codes /\ recounts' \in [Token -> Nat] /\ redeemed' = redeemed
      /\ lapsed' \subseteq Token
      /\ usedTokens' = usedTokens /\ usedRooms' = usedRooms
  BY DEF LeaveSession, history, IInv, TablesOK
<1>6. CASE p = None
  <2>1. tokens' = [CleanTokens EXCEPT ![t] = None]
    BY <1>6 DEF LeaveSession
  <2>2. /\ tokens' \in [Token -> TokenRecord \cup {None}]
        /\ tokens'[t] = None /\ \A u \in Token \ {t} : tokens'[u] = CleanTokens[u]
    BY <2>1, Found DEF Types
  <2> QED
    BY <1>1, <1>4, <1>5, <2>2, VacateStep
<1>7. CASE p # None
  <2>1. p \in Token /\ CleanTokens[p] \in TokenRecord
    BY <1>7, Partner, Found DEF Types
  <2>2. p # t
    <3>1. p = PartnerSlot(rooms[CleanTokens[t].roomName], role)
      BY <1>1, <1>7, Found DEF PartnerOf, RoomOf
    <3>2. PICK other \in Role \ {role} : p = OwnSlot(rooms[CleanTokens[t].roomName], other)
      BY <1>2, <3>1 DEF PartnerSlot, OwnSlot, Role
    <3> QED
      BY <1>1, <1>2, <2>1, <3>2, Found, NoneAssumption DEF Agree, Occupied
  <2>3. n \in Nat
    BY DEF Farewell
  <2>4. /\ told \in TokenRecord /\ told # None
        /\ told.roomName = CleanTokens[p].roomName /\ told.role = CleanTokens[p].role
    BY <2>1, <2>3, MarkedForCloseType, NoneAssumption
  <2>5. tokens' = [CleanTokens EXCEPT ![t] = None, ![p] = MarkedForClose(@, n)]
    BY <1>7 DEF LeaveSession
  <2>6. /\ tokens'[t] = None /\ tokens'[p] = told
        /\ \A u \in Token \ {t, p} : tokens'[u] = CleanTokens[u]
    BY <2>1, <2>2, <2>5, Found DEF Types
  <2>7. tokens' \in [Token -> TokenRecord \cup {None}]
    <3>1. DOMAIN tokens' = Token /\ tokens' = [u \in Token |-> tokens'[u]]
      BY <2>5, Found DEF Types
    <3>2. \A u \in Token : tokens'[u] \in TokenRecord \cup {None}
      BY <2>4, <2>6, Found DEF Types
    <3> QED
      BY <3>1, <3>2
  <2>8. ASSUME NEW u \in Token \ {t}
        PROVE  /\ tokens'[u] # None => /\ CleanTokens[u] # None
                                       /\ tokens'[u].roomName = CleanTokens[u].roomName
                                       /\ tokens'[u].role = CleanTokens[u].role
               /\ CleanTokens[u] # None /\ CleanTokens[u].roomName # None
                     => tokens'[u] # None
    BY <2>1, <2>4, <2>6, NoneAssumption
  <2> QED
    BY <1>1, <1>4, <1>5, <2>6, <2>7, <2>8, VacateStep
<1> QED
  BY <1>6, <1>7

LEMMA ReadOnlyStep ==
    ASSUME IInv, tokens' = CleanTokens, rooms' = CleanRooms, codes' \subseteq codes,
           UNCHANGED history
    PROVE  IInv'
BY Found, QuietStep DEF history, Types, IInv, TablesOK

LEMMA InvalidateStep ==
    ASSUME IInv, NEW r \in Room, InvalidateRoom(r) \/ InvalidateByCode(r)
    PROVE  IInv'
<1>1. codes' \subseteq codes /\ UNCHANGED history
  BY DEF InvalidateRoom, InvalidateByCode
<1>2. CASE InvalidateRoom(r)
  <2>1. /\ tokens' \in [Token -> TokenRecord \cup {None}]
        /\ Settled(tokens, tokens') /\ rooms' = rooms
    BY <1>2, Found, CloseRoomSettles DEF InvalidateRoom
  <2> QED
    BY <1>1, <2>1, QuietStep DEF history, IInv, TablesOK
<1>3. CASE InvalidateByCode(r)
  <2>1. CloseRoom(r, CleanTokens, rooms, CleanInboxes)
    BY <1>3, Found DEF InvalidateByCode
  <2>2. /\ tokens' \in [Token -> TokenRecord \cup {None}]
        /\ Settled(CleanTokens, tokens') /\ rooms' = rooms
    BY <2>1, Found, CloseRoomSettles
  <2> QED
    BY <1>1, <2>2, StillSettled, QuietStep DEF history, IInv, TablesOK
<1> QED
  BY <1>2, <1>3

LEMMA AgeUnmoved ==
    ASSUME IInv, NEW t \in Token, TokenAges(t)
    PROVE  /\ tokens' \in [Token -> TokenRecord \cup {None}]
           /\ Unmoved(tokens, tokens')
<1>1. tokens[t] \in TokenRecord /\ tokens[t].age \in {0, 1}
  BY Found DEF TokenAges, Types
<1> DEFINE older == [tokens[t] EXCEPT !.age = @ + 1]
<1>2. /\ older \in TokenRecord
      /\ older.roomName = tokens[t].roomName /\ older.role = tokens[t].role
      /\ older.pendingCloseMessages = tokens[t].pendingCloseMessages
  BY <1>1 DEF TokenRecord
<1>3. tokens' = [tokens EXCEPT ![t] = older] /\ tokens[t] # None
  BY DEF TokenAges
<1> HIDE DEF older
<1>4. older # None
  BY <1>2, NoneAssumption
<1>5. tokens \in [Token -> TokenRecord \cup {None}]
  BY Found DEF Types
<1>6. tokens' \in [Token -> TokenRecord \cup {None}]
  BY <1>2, <1>3, <1>5
<1>7. tokens'[t] = older /\ \A u \in Token \ {t} : tokens'[u] = tokens[u]
  BY <1>3, <1>5
<1> QED
  BY <1>2, <1>3, <1>4, <1>6, <1>7 DEF Unmoved

LEMMA TimeStep ==
    ASSUME IInv, Time
    PROVE  /\ IInv' /\ Unmoved(tokens, tokens')
           /\ UNCHANGED <<rooms, held, usedTokens, usedRooms, redeemed, recounts>>
<1>1. ASSUME NEW t \in Token, TokenAges(t) \/ TokenIdles(t)
      PROVE  /\ tokens' \in [Token -> TokenRecord \cup {None}]
             /\ Unmoved(tokens, tokens')
  <2>1. CASE TokenAges(t)
    BY <2>1, AgeUnmoved
  <2>2. CASE TokenIdles(t)
    <3>1. /\ tokens \in [Token -> TokenRecord \cup {None}] /\ tokens[t] # None
          /\ tokens' = [tokens EXCEPT ![t].idle = TRUE]
      BY <2>2, Found DEF TokenIdles, Types
    <3> QED
      BY <3>1, SeenUnmoved
  <2> QED
    BY <1>1, <2>1, <2>2
<1>2. ASSUME tokens' = tokens
      PROVE  /\ tokens' \in [Token -> TokenRecord \cup {None}]
             /\ Unmoved(tokens, tokens')
  BY <1>2, Found DEF Types, Unmoved
<1>3. /\ tokens' \in [Token -> TokenRecord \cup {None}]
      /\ Unmoved(tokens, tokens')
  BY <1>1, <1>2 DEF Time, MessageLapses, CodeLapses
<1>4. /\ UNCHANGED <<rooms, held, usedTokens, usedRooms, redeemed, recounts>>
      /\ codes' \subseteq codes
  BY DEF Time, TokenAges, TokenIdles, MessageLapses, CodeLapses, history
<1>5. lapsed' \subseteq Token
  BY DEF Time, TokenAges, TokenIdles, MessageLapses, CodeLapses, history, IInv, TablesOK
<1> QED
  BY <1>3, <1>4, <1>5, UnmovedSettles, QuietStep DEF IInv, TablesOK

----------------------------------------------------------------------------
(* Theorems *)

LEMMA InitInv == Init => IInv
BY DEF Init, IInv, TablesOK, RoomTokenAgreement, CodeGuardsFreeSlot, NotYetGenerated

LEMMA NextInv == IInv /\ [Next]_vars => IInv'
<1> SUFFICES ASSUME IInv, [Next]_vars
             PROVE  IInv'
  OBVIOUS
<1>1. CASE Open
  <2>1. ASSUME NEW t \in Token, NEW r \in Room, NEW type \in {"standard", "listener"},
               CreateSession(t, r, type)
        PROVE  IInv'
    <3>1. CleanTokens[t] \in TokenRecord
      BY <2>1, Found DEF CreateSession, Types
    <3>2. t \in usedTokens
      BY <2>1, Found DEF CreateSession, IInv, NotYetGenerated, Settled
    <3> QED
      BY <2>1, <3>1, <3>2, OpenStep DEF CreateSession
  <2>2. ASSUME NEW t \in Token, NEW r \in Room, NEW type \in {"standard", "listener"},
               NEW hl \in HeadlessModes, SetupSession(t, r, type, hl)
        PROVE  IInv'
    <3>1. CleanTokens[t] = None
      BY <2>2, Found DEF SetupSession, IInv, NotYetGenerated, Settled
    <3>2. hl \in BOOLEAN
      BY BoundAssumption
    <3> QED
      BY <2>2, <3>1, <3>2, NewTokenType, OpenStep DEF SetupSession
  <2> QED
    BY <1>1, <2>1, <2>2, RegisterStep DEF Open
<1>2. CASE Join
  <2>1. ASSUME NEW t \in Token, NEW r \in Room, JoinSession(t, r)
        PROVE  IInv'
    <3>1. CleanTokens[t] \in TokenRecord
      BY <2>1, Found DEF JoinSession, Types
    <3>2. t \in usedTokens
      BY <2>1, Found DEF JoinSession, IInv, NotYetGenerated, Settled
    <3> QED
      BY <2>1, <3>1, <3>2, JoinStep DEF JoinSession
  <2>2. ASSUME NEW t \in Token, NEW r \in Room, RegisterAndJoin(t, r)
        PROVE  IInv'
    <3>1. CleanTokens[t] = None
      BY <2>2, Found DEF RegisterAndJoin, IInv, NotYetGenerated, Settled
    <3> QED
      BY <2>2, <3>1, NewTokenType, JoinStep DEF RegisterAndJoin
  <2>3. ASSUME NEW r \in Room, JoinGoneRoom(r)
        PROVE  IInv'
    BY <2>3, ReadOnlyStep DEF JoinGoneRoom
  <2> QED
    BY <1>2, <2>1, <2>2, <2>3 DEF Join
<1>3. CASE Talk
  <2>1. ASSUME NEW t \in Token, Delivered(t)
        PROVE  IInv'
    <3>1. UNCHANGED <<tokens, rooms, codes, history>>
      BY <2>1 DEF Delivered
    <3>2. Settled(tokens, tokens')
      BY <3>1 DEF Settled
    <3> QED
      BY <3>1, <3>2, Found, QuietStep DEF history, Types, IInv, TablesOK
  <2>2. ASSUME NEW t \in Token, Requeue(t)
        PROVE  IInv'
    BY <2>2, ReadOnlyStep DEF Requeue
  <2>3. ASSUME Observe
        PROVE  IInv'
    BY <2>3, ReadOnlyStep DEF Observe
  <2> QED
    BY <1>3, <2>1, <2>2, <2>3, TouchStep, SendStep, ConsumeStep, HeadlessStep DEF Talk
<1>4. CASE Close
  BY <1>4, LeaveStep, InvalidateStep DEF Close
<1>5. CASE Time
  BY <1>5, TimeStep
<1>6. CASE UNCHANGED vars
  <2>1. UNCHANGED <<tokens, rooms, codes, history>> /\ Settled(tokens, tokens')
    BY <1>6 DEF vars, Settled
  <2> QED
    BY <2>1, Found, QuietStep DEF history, Types, IInv, TablesOK
<1> QED
  BY <1>1, <1>2, <1>3, <1>4, <1>5, <1>6 DEF Next

\* Every operation, lazy expiry included, keeps the tables of tokens, rooms and
\* codes in agreement.
THEOREM Invariance == Spec => []IInv
BY InitInv, NextInv, PTL DEF Spec

\* Types of the tables, whatever the bounds: no operation leaves a Map with a
\* value of another shape, and no counter goes below zero.
THEOREM TablesTyped == Spec => []TablesOK
<1>1. IInv => TablesOK
  BY DEF IInv
<1> QED
  BY <1>1, Invariance, PTL

\* The tables of tokens and rooms agree, for any number of both: the code's
\* lookups of a participant's room and slot always find what it left there.
THEOREM TokensAndRoomsAgree == Spec => []RoomTokenAgreement
<1>1. IInv => RoomTokenAgreement
  BY DEF IInv
<1> QED
  BY <1>1, Invariance, PTL

\* A one-time code is redeemed once, however many clients try: while it is
\* valid nobody has used it and the slot it grants is free.
THEOREM CodesWorkOnce == Spec => []CodeGuardsFreeSlot
<1>1. IInv => CodeGuardsFreeSlot
  BY DEF IInv
<1> QED
  BY <1>1, Invariance, PTL
=============================================================================
