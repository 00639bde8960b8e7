------------------------ MODULE BrokerRecordsProofs ------------------------
(***************************************************************************)
(* Lemmas about the values that both broker stores compute: the records of *)
(* tokens and rooms, the slots of a room, the messages and what a discard  *)
(* keeps of an inbox.                                                      *)
(***************************************************************************)
EXTENDS BrokerRecords, TLAPS, FiniteSetTheorems, WellFoundedInduction

(* Records of tokens and rooms *)

LEMMA MarkedForCloseType ==
    ASSUME NEW token \in TokenRecord, NEW n \in Nat
    PROVE  /\ MarkedForClose(token, n) \in TokenRecord
           /\ MarkedForClose(token, n).roomName = token.roomName
           /\ MarkedForClose(token, n).role = token.role
BY DEF MarkedForClose, TokenRecord

LEMMA PairedType ==
    ASSUME NEW token \in TokenRecord, NEW r \in Room, NEW role \in Role
    PROVE  /\ Paired(token, r, role) \in TokenRecord
           /\ Paired(token, r, role).roomName = r
           /\ Paired(token, r, role).role = role
BY DEF Paired, TokenRecord

LEMMA NewTokenType == NewToken \in TokenRecord /\ NewToken.roomName = None /\ NewToken.role = None
BY DEF NewToken, TokenRecord

LEMMA NewRoomFacts ==
    ASSUME NEW t \in Token, NEW type \in {"standard", "listener"}, NEW hl \in BOOLEAN
    PROVE  /\ NewRoom(t, type, hl) \in RoomRecord
           /\ NewRoom(t, type, hl).sessionType = type
           /\ NewRoom(t, type, hl).creatorToken = t
           /\ OwnSlot(NewRoom(t, type, hl), CreatorRole(type)) = t
           /\ OwnSlot(NewRoom(t, type, hl), GuestRole(type)) = None
           /\ Slots(NewRoom(t, type, hl)) # {}
BY NoneAssumption DEF NewRoom, RoomRecord, OwnSlot, CreatorRole, GuestRole, Slots

\* The two roles of a room.
LEMMA Roles ==
    ASSUME NEW type \in {"standard", "listener"}
    PROVE  /\ CreatorRole(type) \in Role /\ GuestRole(type) \in Role
           /\ CreatorRole(type) # GuestRole(type)
           /\ Role = {CreatorRole(type), GuestRole(type)}
BY DEF CreatorRole, GuestRole, Role

LEMMA SetSlotFacts ==
    ASSUME NEW room \in RoomRecord, NEW role \in Role, NEW t \in Token \cup {None}
    PROVE  /\ SetSlot(room, role, t) \in RoomRecord
           /\ OwnSlot(SetSlot(room, role, t), role) = t
           /\ \A other \in Role \ {role} :
                 OwnSlot(SetSlot(room, role, t), other) = OwnSlot(room, other)
           /\ SetSlot(room, role, t).sessionType = room.sessionType
           /\ SetSlot(room, role, t).creatorToken = room.creatorToken
BY DEF SetSlot, OwnSlot, Role, RoomRecord

LEMMA SlotFacts ==
    ASSUME NEW room \in RoomRecord
    PROVE  /\ \A role \in Role : OwnSlot(room, role) \in Token \cup {None}
           /\ Slots(room) = {OwnSlot(room, role) : role \in Role} \ {None}
           /\ Slots(room) \subseteq Token
BY DEF OwnSlot, Role, RoomRecord, Slots

\* A room is left, and removed when nobody else is in it.
LEMMA UnlessEmptyFacts ==
    ASSUME NEW room \in RoomRecord
    PROVE  UnlessEmpty(room) = IF Slots(room) = {} THEN None ELSE room
BY NoneAssumption DEF UnlessEmpty, Slots, RoomRecord

----------------------------------------------------------------------------
(* Messages *)

LEMMA NoticeType ==
    ASSUME NEW k \in Kind
    PROVE  /\ Notice(k) \in Message /\ Notice(k) # None
           /\ IsClose(Notice(k)) <=> k \in CloseKind
<1>1. Notice(k) \in Message /\ Notice(k).kind = k
  BY DEF Notice, Message
<1> QED
  BY <1>1, NoneAssumption DEF IsClose

LEMMA TextType ==
    ASSUME NEW k \in TextKind, NEW t \in Token
    PROVE  Text(k, t) \in Message /\ ~IsClose(Text(k, t))
BY DEF Text, Message, IsClose, TextKind, CloseKind, Kind

LEMMA FarewellFacts ==
    ASSUME NEW role \in Role
    PROVE  /\ Farewell(role) \in Seq(Message) /\ Len(Farewell(role)) \in Nat \ {0}
<1>1. Notice("host_closed") \in Message /\ Notice("partner_left") \in Message
  BY NoticeType DEF Kind, CloseKind
<1> HIDE DEF Notice
<1> QED
  BY <1>1 DEF Farewell

----------------------------------------------------------------------------
(* Without() selects: what it returns was there *)

\* A set of naturals that is not empty has a least element.
LEMMA Least ==
    ASSUME NEW S \in SUBSET Nat, S # {}
    PROVE  \E i \in S : \A j \in S : i <= j
<1>1. PICK i \in S : \A j \in S : ~(<<j, i>> \in OpToRel(<, Nat))
  BY WFMin, NatLessThanWellFounded
<1>2. \A j \in S : ~(j < i)
  BY <1>1 DEF OpToRel
<1> QED
  BY <1>2

LEMMA NthExists ==
    ASSUME NEW len \in Nat, NEW K, \A j \in K : j \in 1..len,
           NEW n \in Nat, 1 <= n, n <= Cardinality(K)
    PROVE  Nth(K, n) \in K /\ Cardinality({j \in K : j <= Nth(K, n)}) = n
<1> DEFINE below(i) == {j \in K : j <= i}
           enough   == {i \in Nat : Cardinality(below(i)) >= n}
<1>1. IsFiniteSet(K)
  <2>1. IsFiniteSet(1..len)
    BY FS_Interval
  <2>2. K \in SUBSET (1..len)
    OBVIOUS
  <2> QED
    BY <2>1, <2>2, FS_Subset
<1>2. ASSUME NEW i \in Nat
      PROVE  IsFiniteSet(below(i)) /\ Cardinality(below(i)) \in Nat
  <2>1. below(i) \in SUBSET K
    OBVIOUS
  <2> QED
    BY <1>1, <2>1, FS_Subset, FS_CardinalityType
<1>3. below(len) = K
  OBVIOUS
<1>4. below(0) = {}
  OBVIOUS
<1>5. ASSUME NEW i \in Nat
      PROVE  /\ i + 1 \notin below(i)
             /\ below(i + 1) = IF i + 1 \in K THEN below(i) \cup {i + 1} ELSE below(i)
  OBVIOUS
<1> HIDE DEF below
<1>6. PICK i \in enough : \A j \in enough : i <= j
  <2>1. len \in enough
    BY <1>3
  <2> QED
    BY <2>1, Least
<1>7. i # 0
  BY <1>6, <1>4, FS_EmptySet
<1>8. PICK k \in Nat : i = k + 1
  <2>1. i - 1 \in Nat /\ i = (i - 1) + 1
    BY <1>7
  <2> QED
    BY <2>1
<1>9. Cardinality(below(k)) < n
  BY <1>2, <1>6, <1>8
<1>10. Cardinality(below(i)) >= n
  BY <1>6
<1>11. i \in K
  <2>1. SUFFICES ASSUME i \notin K PROVE FALSE
    OBVIOUS
  <2>2. below(i) = below(k)
    BY <1>5, <1>8, <2>1
  <2>3. Cardinality(below(k)) \in Nat
    BY <1>2, <1>8
  <2> QED
    BY <1>9, <1>10, <2>2, <2>3
<1>12. Cardinality(below(i)) = n
  <2>1. Cardinality(below(i)) = Cardinality(below(k)) + 1
    BY <1>2, <1>5, <1>8, <1>11, FS_AddElement
  <2> QED
    BY <1>2, <1>9, <1>10, <2>1
<1> QED
  BY <1>11, <1>12 DEF Nth, below

LEMMA WithoutSelects ==
    ASSUME NEW s \in Seq(Message), NEW dropped
    PROVE  /\ Without(s, dropped) \in Seq(Message)
           /\ \A n \in DOMAIN Without(s, dropped) :
                \E i \in DOMAIN s : /\ Without(s, dropped)[n] = s[i]
                                    /\ s[i].kind \notin dropped
<1> DEFINE kept == {i \in DOMAIN s : s[i].kind \notin dropped}
<1>1. Len(s) \in Nat /\ \A j \in kept : j \in 1..Len(s)
  OBVIOUS
<1>2. Cardinality(kept) \in Nat
  <2>1. kept \in SUBSET (1..Len(s))
    BY <1>1
  <2>2. IsFiniteSet(1..Len(s))
    BY <1>1, FS_Interval
  <2> HIDE DEF kept
  <2>3. IsFiniteSet(kept)
    BY <2>1, <2>2, FS_Subset
  <2> QED
    BY <2>3, FS_CardinalityType
<1> HIDE DEF kept
<1>3. ASSUME NEW n \in 1..Cardinality(kept) PROVE Nth(kept, n) \in kept
  <2>1. n \in Nat /\ 1 <= n /\ n <= Cardinality(kept)
    BY <1>2
  <2> QED
    BY <1>1, <2>1, NthExists
<1>4. Without(s, dropped) = [n \in 1..Cardinality(kept) |-> s[Nth(kept, n)]]
  BY DEF Without, kept
<1>5. \A n \in 1..Cardinality(kept) :
         /\ s[Nth(kept, n)] \in Message /\ Nth(kept, n) \in DOMAIN s
         /\ s[Nth(kept, n)].kind \notin dropped
  BY <1>1, <1>3 DEF kept
<1> QED
  BY <1>2, <1>4, <1>5
=============================================================================
