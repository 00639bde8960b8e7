------------------------- MODULE BrokerNoticeProofs -------------------------
(***************************************************************************)
(* The second half of what holds of the broker store: what the inboxes     *)
(* contain, and that close notices are counted, so that nobody loses a     *)
(* session without being told.                                             *)
(***************************************************************************)
EXTENDS BrokerStoreProofs

CloseIn(inbox) == \E i \in DOMAIN inbox : IsClose(inbox[i])

\* A close notice waits for t: in its inbox, or taken out and not delivered.
Closing(ib, hd, t) == CloseIn(ib[t]) \/ (hd[t] # None /\ IsClose(hd[t]))

\* A token for which a close notice waits has it counted, and one that never
\* had a room has none.
NoticesCounted(tk, ib, hd) ==
    \A t \in Token :
        tk[t] # None =>
            /\ Closing(ib, hd, t) => tk[t].pendingCloseMessages > 0
            /\ tk[t].roomName = None => tk[t].pendingCloseMessages = 0

\* In a session that opened, both sides are there and neither is being closed,
\* or whoever is there is being closed.
EndTogether(tk, rm, rd) ==
    \A r \in Room :
        (rm[r] # None /\ rd[r] = "open") =>
            \/ \A t \in Slots(rm[r]) : tk[t].pendingCloseMessages > 0
            \/ /\ \A role \in Role : OwnSlot(rm[r], role) # None
               /\ \A t \in Slots(rm[r]) : tk[t].pendingCloseMessages = 0

NothingForUnused(ib, hd) ==
    \A t \in Token : t \notin usedTokens => ib[t] = <<>> /\ hd[t] = None

NInv ==
    /\ InboxesOK
    /\ NothingForUnused(inboxes, held)
    /\ NoticesCounted(tokens, inboxes, held)
    /\ EndTogether(tokens, rooms, redeemed)

----------------------------------------------------------------------------
(* Messages, and the close notices among them *)

LEMMA AppendClose ==
    ASSUME NEW s \in Seq(Message), NEW m \in Message
    PROVE  /\ Append(s, m) \in Seq(Message)
           /\ CloseIn(Append(s, m)) <=> CloseIn(s) \/ IsClose(m)
BY DEF CloseIn

LEMMA ConcatClose ==
    ASSUME NEW s \in Seq(Message), NEW u \in Seq(Message)
    PROVE  /\ s \o u \in Seq(Message)
           /\ CloseIn(s \o u) => CloseIn(s) \/ CloseIn(u)
<1>1. /\ s \o u \in Seq(Message)
      /\ DOMAIN (s \o u) = 1..(Len(s) + Len(u))
      /\ DOMAIN s = 1..Len(s) /\ DOMAIN u = 1..Len(u)
      /\ Len(s) \in Nat /\ Len(u) \in Nat
  OBVIOUS
<1>2. ASSUME NEW i \in 1..(Len(s) + Len(u))
      PROVE  \/ i \in 1..Len(s) /\ (s \o u)[i] = s[i]
             \/ i - Len(s) \in 1..Len(u) /\ (s \o u)[i] = u[i - Len(s)]
  BY <1>1
<1> QED
  BY <1>1, <1>2 DEF CloseIn

LEMMA TailClose ==
    ASSUME NEW s \in Seq(Message), s # <<>>
    PROVE  /\ Tail(s) \in Seq(Message) /\ Head(s) \in Message
           /\ CloseIn(Tail(s)) => CloseIn(s)
           /\ IsClose(Head(s)) => CloseIn(s)
BY DEF CloseIn

LEMMA WithoutClose ==
    ASSUME NEW s \in Seq(Message), NEW dropped
    PROVE  /\ Without(s, dropped) \in Seq(Message)
           /\ CloseIn(Without(s, dropped)) => CloseIn(s)
BY WithoutSelects DEF CloseIn

LEMMA RemoveClose ==
    ASSUME NEW s \in Seq(Message), NEW i \in DOMAIN s
    PROVE  /\ RemoveAt(s, i) \in Seq(Message)
           /\ CloseIn(RemoveAt(s, i)) => CloseIn(s)
<1>1. RemoveAt(s, i) = SubSeq(s, 1, i - 1) \o SubSeq(s, i + 1, Len(s))
  BY DEF RemoveAt
<1>2. /\ i \in 1..Len(s) /\ Len(s) \in Nat
      /\ SubSeq(s, 1, i - 1) \in Seq(Message)
      /\ SubSeq(s, i + 1, Len(s)) \in Seq(Message)
  OBVIOUS
<1>3. ASSUME NEW a \in 1..Len(s) + 1, NEW b \in 0..Len(s)
      PROVE  CloseIn(SubSeq(s, a, b)) => CloseIn(s)
  <2>1. DOMAIN SubSeq(s, a, b) = 1..(IF a <= b THEN b - a + 1 ELSE 0)
    BY <1>2
  <2>2. ASSUME NEW k \in 1..(IF a <= b THEN b - a + 1 ELSE 0)
        PROVE  a + k - 1 \in DOMAIN s /\ SubSeq(s, a, b)[k] = s[a + k - 1]
    <3>1. a \in Nat /\ b \in Nat /\ k \in Nat /\ 1 <= a /\ b <= Len(s)
          /\ 1 <= k /\ a <= b /\ k <= b - a + 1
      BY <1>2, <2>2
    <3>2. a + k - 1 \in 1..Len(s)
      BY <1>2, <3>1
    <3>3. SubSeq(s, a, b)[k] = s[a + k - 1]
      BY <3>1
    <3> QED
      BY <3>2, <3>3
  <2> QED
    BY <2>1, <2>2 DEF CloseIn
<1>4. /\ CloseIn(SubSeq(s, 1, i - 1)) => CloseIn(s)
      /\ CloseIn(SubSeq(s, i + 1, Len(s))) => CloseIn(s)
  BY <1>2, <1>3
<1> DEFINE front == SubSeq(s, 1, i - 1)
           back  == SubSeq(s, i + 1, Len(s))
<1>5. /\ front \in Seq(Message) /\ back \in Seq(Message)
      /\ RemoveAt(s, i) = front \o back
      /\ CloseIn(front) \/ CloseIn(back) => CloseIn(s)
  BY <1>1, <1>2, <1>4
<1> HIDE DEF front, back
<1> QED
  BY <1>5, ConcatClose

----------------------------------------------------------------------------
(* What an operation finds after cleanupExpired() *)

\* The record of a participant as cleanup leaves it.
LEMMA CleanRecord ==
    ASSUME IInv, NEW t \in Token, CleanTokens[t] # None
    PROVE  /\ tokens[t] # None /\ tokens[t] \in TokenRecord
           /\ CleanTokens[t].roomName = tokens[t].roomName
           /\ CleanTokens[t].pendingCloseMessages =
                IF Expiring(t) THEN tokens[t].pendingCloseMessages + 1
                ELSE tokens[t].pendingCloseMessages
<1>1. tokens[t] # None /\ tokens[t] \in TokenRecord
  BY Found DEF Settled, Types
<1>2. /\ MarkedForClose(tokens[t], 1) \in TokenRecord
      /\ MarkedForClose(tokens[t], 1).pendingCloseMessages
           = tokens[t].pendingCloseMessages + 1
  BY <1>1, MarkedForCloseType DEF MarkedForClose, TokenRecord
<1> DEFINE marked == MarkedForClose(tokens[t], 1)
<1> HIDE DEF marked
<1>3. [marked EXCEPT !.idle = FALSE].pendingCloseMessages = marked.pendingCloseMessages
  BY <1>2 DEF TokenRecord, marked
<1>4. CleanTokens[t] = IF Expiring(t) THEN [marked EXCEPT !.idle = FALSE] ELSE tokens[t]
  BY <1>1 DEF CleanTokens, marked
<1>5. CleanTokens[t].pendingCloseMessages =
                IF Expiring(t) THEN tokens[t].pendingCloseMessages + 1
                ELSE tokens[t].pendingCloseMessages
  BY <1>2, <1>3, <1>4 DEF marked
<1> QED
  BY <1>1, <1>5, Found DEF Settled

\* Cleanup closes a session for everyone in it.
LEMMA ExpiringTogether ==
    ASSUME IInv, NEW r \in Room, rooms[r] # None, NEW t \in Slots(rooms[r])
    PROVE  /\ t \in Token /\ tokens[t] # None /\ tokens[t].roomName = r
           /\ CleanTokens[t] # None /\ CleanTokens[t].roomName = r
           /\ Expiring(t) <=> RoomExpired(rooms[r])
<1>1. rooms[r] \in RoomRecord
  BY Found DEF Types
<1>2. PICK role \in Role : t = OwnSlot(rooms[r], role)
  BY <1>1, SlotFacts
<1>3. t \in Token /\ t # None /\ r # None
  BY <1>1, SlotFacts, NoneAssumption
<1>4. /\ tokens[t] # None /\ tokens[t].roomName = r
      /\ CleanTokens[t] # None /\ CleanTokens[t].roomName = r
  BY <1>2, <1>3, Found DEF Agree, Occupied
<1>5. ASSUME NEW q \in Room, rooms[q] # None,
             t \in {rooms[q].hostToken, rooms[q].joinerToken}
      PROVE  q = r
  <2>1. PICK other \in Role : t = OwnSlot(rooms[q], other)
    BY <1>5 DEF OwnSlot, Role
  <2> QED
    BY <1>3, <1>4, <1>5, <2>1, Found DEF Agree, Occupied
<1>6. t \in {rooms[r].hostToken, rooms[r].joinerToken}
  BY DEF Slots
<1> QED
  BY <1>3, <1>4, <1>5, <1>6 DEF Expiring

LEMMA ExpiringHasRoom ==
    ASSUME IInv, NEW t \in Token, Expiring(t)
    PROVE  tokens[t] # None /\ tokens[t].roomName # None
<1>1. PICK r \in Room : /\ rooms[r] # None
                        /\ t \in {rooms[r].hostToken, rooms[r].joinerToken}
  BY DEF Expiring
<1>2. t \in Slots(rooms[r])
  BY <1>1, NoneAssumption DEF Slots
<1> QED
  BY <1>1, <1>2, ExpiringTogether, NoneAssumption

LEMMA NFound ==
    ASSUME IInv, NInv
    PROVE  /\ CleanInboxes \in [Token -> Seq(Message)]
           /\ NothingForUnused(CleanInboxes, held)
           /\ NoticesCounted(CleanTokens, CleanInboxes, held)
           /\ EndTogether(CleanTokens, rooms, redeemed)
<1>1. Notice("session_expired") \in Message
  BY NoticeType DEF Kind, CloseKind
<1>2. inboxes \in [Token -> Seq(Message)]
  BY DEF NInv, InboxesOK
<1>3. \A t \in Token : CleanInboxes[t] = IF Expiring(t)
                          THEN Append(inboxes[t], Notice("session_expired"))
                          ELSE inboxes[t]
  BY DEF CleanInboxes
<1>4. CleanInboxes \in [Token -> Seq(Message)]
  BY <1>1, <1>2, AppendClose DEF CleanInboxes
<1>5. NothingForUnused(CleanInboxes, held)
  BY <1>3, ExpiringHasRoom DEF NothingForUnused, NInv, IInv, NotYetGenerated
<1>6. NoticesCounted(CleanTokens, CleanInboxes, held)
  <2> SUFFICES ASSUME NEW t \in Token, CleanTokens[t] # None
               PROVE  /\ Closing(CleanInboxes, held, t)
                            => CleanTokens[t].pendingCloseMessages > 0
                      /\ CleanTokens[t].roomName = None
                            => CleanTokens[t].pendingCloseMessages = 0
    BY DEF NoticesCounted
  <2>1. tokens[t].pendingCloseMessages \in Nat
    BY CleanRecord DEF TokenRecord
  <2>2. CASE Expiring(t)
    BY <2>1, <2>2, CleanRecord, ExpiringHasRoom
  <2>3. CASE ~Expiring(t)
    BY <1>3, <2>3, CleanRecord DEF NInv, NoticesCounted, Closing
  <2> QED
    BY <2>2, <2>3
<1>7. EndTogether(CleanTokens, rooms, redeemed)
  <2> SUFFICES ASSUME NEW r \in Room, rooms[r] # None, redeemed[r] = "open"
               PROVE  \/ \A t \in Slots(rooms[r]) : CleanTokens[t].pendingCloseMessages > 0
                      \/ /\ \A role \in Role : OwnSlot(rooms[r], role) # None
                         /\ \A t \in Slots(rooms[r]) :
                               CleanTokens[t].pendingCloseMessages = 0
    BY DEF EndTogether
  <2>1. \A t \in Slots(rooms[r]) : tokens[t].pendingCloseMessages \in Nat
    BY ExpiringTogether, CleanRecord DEF TokenRecord
  <2>2. CASE RoomExpired(rooms[r])
    BY <2>1, <2>2, ExpiringTogether, CleanRecord
  <2>3. CASE ~RoomExpired(rooms[r])
    <3>1. \A t \in Slots(rooms[r]) :
             CleanTokens[t].pendingCloseMessages = tokens[t].pendingCloseMessages
      BY <2>3, ExpiringTogether, CleanRecord
    <3> QED
      BY <3>1 DEF NInv, EndTogether
  <2> QED
    BY <2>2, <2>3
<1> QED
  BY <1>4, <1>5, <1>6, <1>7

----------------------------------------------------------------------------
(* Steps that count no notice *)

LEMMA CountedKept ==
    ASSUME NEW tk, NEW ib, NEW hd, NoticesCounted(tk, ib, hd),
           NEW tk2, Unmoved(tk, tk2), NEW ib2, NEW hd2,
           \A t \in Token : tk[t] # None /\ Closing(ib2, hd2, t) => Closing(ib, hd, t)
    PROVE  NoticesCounted(tk2, ib2, hd2)
BY DEF NoticesCounted, Unmoved

LEMMA TogetherKept ==
    ASSUME NEW tk, NEW rm, NEW rd, Types(tk, rm), Agree(tk, rm), EndTogether(tk, rm, rd),
           NEW tk2, Unmoved(tk, tk2)
    PROVE  EndTogether(tk2, rm, rd)
<1>1. ASSUME NEW r \in Room, rm[r] # None, NEW t \in Slots(rm[r])
      PROVE  tk2[t].pendingCloseMessages = tk[t].pendingCloseMessages
  <2>1. PICK role \in Role : t = OwnSlot(rm[r], role)
    BY <1>1, SlotFacts DEF Types
  <2>2. t \in Token /\ t # None
    BY <1>1, SlotFacts, NoneAssumption DEF Types
  <2>3. tk[t] # None
    BY <1>1, <2>1, <2>2 DEF Agree, Occupied
  <2> QED
    BY <2>2, <2>3 DEF Unmoved
<1> QED
  BY <1>1 DEF EndTogether

\* A step on the tables tk and ib, those the operation finds or those before
\* cleanup, that counts no notice and puts none in an inbox.
LEMMA QuietNotices ==
    ASSUME NInv, NEW tk, NEW ib, Types(tk, rooms), Agree(tk, rooms),
           NoticesCounted(tk, ib, held), EndTogether(tk, rooms, redeemed),
           Unmoved(tk, tokens'), rooms' = rooms, UNCHANGED <<usedTokens, redeemed>>,
           inboxes' \in [Token -> Seq(Message)],
           held' \in [Token -> Message \cup {None}],
           NothingForUnused(inboxes', held'),
           \A t \in Token : tk[t] # None /\ Closing(inboxes', held', t)
                                => Closing(ib, held, t)
    PROVE  NInv'
<1>1. NoticesCounted(tokens', inboxes', held')
  BY CountedKept
<1>2. EndTogether(tokens', rooms, redeemed)
  BY TogetherKept
<1> QED
  BY <1>1, <1>2 DEF NInv, InboxesOK, NothingForUnused, NoticesCounted, EndTogether, Closing

LEMMA SameUnmoved ==
    ASSUME NEW tk
    PROVE  Unmoved(tk, tk)
BY DEF Unmoved

\* What most operations do: cleanup, and messages of other kinds for tokens
\* that are there.
LEMMA QuietOperation ==
    ASSUME IInv, NInv, Unmoved(CleanTokens, tokens'), rooms' = rooms, held' = held,
           UNCHANGED history,
           \A t \in Token :
              \/ inboxes'[t] = CleanInboxes[t]
              \/ /\ CleanTokens[t] # None
                 /\ inboxes'[t] \in Seq(Message)
                 /\ CloseIn(inboxes'[t]) => CloseIn(CleanInboxes[t]),
           inboxes' = [t \in Token |-> inboxes'[t]]
    PROVE  NInv'
<1>1. \A t \in Token : inboxes'[t] \in Seq(Message)
  BY NFound
<1>2. inboxes' \in [Token -> Seq(Message)]
  BY <1>1
<1>3. \A t \in Token : CleanTokens[t] # None => t \in usedTokens
  BY Found DEF IInv, NotYetGenerated, Settled
<1>4. NothingForUnused(inboxes', held')
  BY <1>3, NFound DEF NothingForUnused
<1>5. \A t \in Token : Closing(inboxes', held', t) => Closing(CleanInboxes, held, t)
  BY DEF Closing
<1>6. held' \in [Token -> Message \cup {None}]
  BY DEF NInv, InboxesOK
<1> QED
  BY <1>2, <1>4, <1>5, <1>6, Found, NFound, QuietNotices DEF history

LEMMA CleanupOnlyN ==
    ASSUME IInv, NInv, Unmoved(CleanTokens, tokens'), rooms' = rooms, held' = held,
           UNCHANGED history, inboxes' = CleanInboxes
    PROVE  NInv'
<1>1. inboxes' = [t \in Token |-> inboxes'[t]]
  BY NFound
<1> QED
  BY <1>1, QuietOperation

LEMMA HeadlessN ==
    ASSUME IInv, NInv, NEW t \in Token, NEW hl \in HeadlessModes, UpdateRoomHeadless(t, hl)
    PROVE  NInv'
<1>1. /\ Unmoved(CleanTokens, tokens') /\ held' = held /\ UNCHANGED history
      /\ inboxes' = CleanInboxes
  BY HeadlessStep DEF UpdateRoomHeadless
<1>2. NoticesCounted(tokens', inboxes', held')
  BY <1>1, NFound, CountedKept
<1>3. EndTogether(tokens', rooms, redeemed)
  BY <1>1, Found, NFound, TogetherKept
<1>4. EndTogether(tokens', rooms', redeemed)
  <2>1. SameSlots(rooms, rooms')
    BY HeadlessStep
  <2> QED
    BY <1>3, <2>1 DEF EndTogether, SameSlots
<1> QED
  BY <1>1, <1>2, <1>4, NFound DEF NInv, InboxesOK, NothingForUnused, NoticesCounted,
                                  EndTogether, Closing, history

----------------------------------------------------------------------------
(* Messages sent, taken out and put back *)

\* A single broker message of a kind that closes nothing.
LEMMA QuietSingle ==
    ASSUME NEW m \in Message, ~IsClose(m)
    PROVE  <<m>> \in Seq(Message) /\ ~CloseIn(<<m>>)
BY DEF CloseIn

LEMMA EmptyInbox == <<>> \in Seq(Message) /\ ~CloseIn(<<>>)
BY DEF CloseIn

LEMMA SendN ==
    ASSUME IInv, NInv, NEW t \in Token, NEW kind \in TextKind, NEW short,
           SendMessage(t, kind, short)
    PROVE  NInv'
<1> DEFINE p      == PartnerOf(t)
           active == kind = "active_text"
           both   == ~active /\ CleanTokens[p].standby
           count  == IF short THEN CleanTokens[t].recentShortMessageCount + 1 ELSE 0
           paused == count >= LoopThreshold
           first  == IF both THEN <<Notice("all_standby")>> ELSE <<>>
           second == IF paused THEN <<Notice("loop_alert")>> ELSE <<>>
           text   == IF paused THEN <<>> ELSE <<Text(kind, t)>>
           own    == IF active THEN Without(CleanInboxes[t], Obsolete) ELSE CleanInboxes[t]
           other  == IF active THEN Without(CleanInboxes[p], {"all_standby"})
                     ELSE CleanInboxes[p]
<1>1. /\ p \in Token /\ CleanTokens[p] # None /\ CleanTokens[t] # None
      /\ CleanInboxes \in [Token -> Seq(Message)]
  BY Partner, NFound DEF SendMessage
<1>2. inboxes' = [CleanInboxes EXCEPT ![t] = own \o (first \o second),
                                      ![p] = other \o (first \o second) \o text]
  BY DEF SendMessage
<1>3. /\ Unmoved(CleanTokens, tokens') /\ rooms' = rooms
      /\ held' = held /\ UNCHANGED history
  <2>1. Unmoved(CleanTokens, tokens')
    BY SendStep
  <2> QED
    BY <2>1, Found DEF SendMessage
<1>4. /\ first \in Seq(Message) /\ ~CloseIn(first)
      /\ second \in Seq(Message) /\ ~CloseIn(second)
      /\ text \in Seq(Message) /\ ~CloseIn(text)
  <2>1. /\ Notice("all_standby") \in Message /\ ~IsClose(Notice("all_standby"))
        /\ Notice("loop_alert") \in Message /\ ~IsClose(Notice("loop_alert"))
    BY NoticeType DEF Kind, PauseKind, CloseKind
  <2>2. Text(kind, t) \in Message /\ ~IsClose(Text(kind, t))
    BY TextType
  <2> HIDE DEF both, paused
  <2> QED
    BY <2>1, <2>2, QuietSingle, EmptyInbox
<1>5. /\ own \in Seq(Message) /\ other \in Seq(Message)
      /\ CloseIn(own) => CloseIn(CleanInboxes[t])
      /\ CloseIn(other) => CloseIn(CleanInboxes[p])
  BY <1>1, WithoutClose
<1> HIDE DEF first, second, text, own, other, p
<1>6. first \o second \in Seq(Message) /\ ~CloseIn(first \o second)
  BY <1>4, ConcatClose
<1>7. /\ own \o (first \o second) \in Seq(Message)
      /\ CloseIn(own \o (first \o second)) => CloseIn(CleanInboxes[t])
      /\ other \o (first \o second) \in Seq(Message)
      /\ CloseIn(other \o (first \o second)) => CloseIn(CleanInboxes[p])
  <2> DEFINE pause == first \o second
  <2>1. pause \in Seq(Message) /\ ~CloseIn(pause)
    BY <1>6
  <2> HIDE DEF pause
  <2>2. /\ own \o pause \in Seq(Message)
        /\ CloseIn(own \o pause) => CloseIn(CleanInboxes[t])
    BY <1>5, <2>1, ConcatClose
  <2>3. /\ other \o pause \in Seq(Message)
        /\ CloseIn(other \o pause) => CloseIn(CleanInboxes[p])
    BY <1>5, <2>1, ConcatClose
  <2> QED
    BY <2>2, <2>3 DEF pause
<1>8. /\ other \o (first \o second) \o text \in Seq(Message)
      /\ CloseIn(other \o (first \o second) \o text) => CloseIn(CleanInboxes[p])
  BY <1>4, <1>7, ConcatClose
<1> DEFINE forT == own \o (first \o second)
           forP == other \o (first \o second) \o text
<1>9. inboxes' = [CleanInboxes EXCEPT ![t] = forT, ![p] = forP]
  BY <1>2
<1> HIDE DEF forT, forP
<1>10. \A u \in Token :
          \/ inboxes'[u] = CleanInboxes[u]
          \/ u = t /\ inboxes'[u] = forT
          \/ u = p /\ inboxes'[u] = forP
  BY <1>1, <1>9
<1>11. \A u \in Token :
          \/ inboxes'[u] = CleanInboxes[u]
          \/ /\ CleanTokens[u] # None
             /\ inboxes'[u] \in Seq(Message)
             /\ CloseIn(inboxes'[u]) => CloseIn(CleanInboxes[u])
  BY <1>1, <1>7, <1>8, <1>10 DEF forT, forP
<1>12. inboxes' = [u \in Token |-> inboxes'[u]]
  BY <1>1, <1>9
<1> QED
  BY <1>3, <1>11, <1>12, QuietOperation

LEMMA RequeueN ==
    ASSUME IInv, NInv, NEW t \in Token, Requeue(t)
    PROVE  NInv'
<1> DEFINE m == [held[t] EXCEPT !.again = TRUE]
<1>1. held[t] \in Message /\ held[t] # None /\ t \in usedTokens
  BY DEF Requeue, NInv, InboxesOK, NothingForUnused
<1>2. m \in Message /\ m.kind = held[t].kind
  BY <1>1 DEF Message
<1>3. /\ tokens' = CleanTokens /\ rooms' = rooms /\ UNCHANGED history
      /\ inboxes' = [CleanInboxes EXCEPT ![t] = <<m>> \o @]
      /\ held' = [held EXCEPT ![t] = None]
  BY Found DEF Requeue
<1> HIDE DEF m
<1>4. /\ <<m>> \in Seq(Message)
      /\ CloseIn(<<m>>) => IsClose(held[t])
  BY <1>2 DEF CloseIn, IsClose
<1>5. /\ <<m>> \o CleanInboxes[t] \in Seq(Message)
      /\ CloseIn(<<m>> \o CleanInboxes[t]) => CloseIn(CleanInboxes[t]) \/ IsClose(held[t])
  BY <1>4, NFound, ConcatClose
<1>6. held \in [Token -> Message \cup {None}]
  BY DEF NInv, InboxesOK
<1>7. inboxes' \in [Token -> Seq(Message)] /\ held' \in [Token -> Message \cup {None}]
  BY <1>3, <1>5, <1>6, NFound
<1>8. /\ inboxes'[t] = <<m>> \o CleanInboxes[t] /\ held'[t] = None
      /\ \A u \in Token \ {t} : inboxes'[u] = CleanInboxes[u] /\ held'[u] = held[u]
  BY <1>3, <1>6, NFound
<1>9. NothingForUnused(inboxes', held')
  BY <1>1, <1>8, NFound DEF NothingForUnused
<1>10. \A u \in Token : Closing(inboxes', held', u) => Closing(CleanInboxes, held, u)
  BY <1>1, <1>5, <1>8 DEF Closing
<1> QED
  BY <1>3, <1>7, <1>9, <1>10, Found, NFound, SameUnmoved, QuietNotices DEF history

LEMMA DeliveredN ==
    ASSUME IInv, NInv, NEW t \in Token, Delivered(t)
    PROVE  NInv'
<1>1. /\ UNCHANGED <<tokens, rooms, inboxes, history>>
      /\ held' = [held EXCEPT ![t] = None]
      /\ inboxes \in [Token -> Seq(Message)] /\ held \in [Token -> Message \cup {None}]
  BY DEF Delivered, NInv, InboxesOK
<1>2. held'[t] = None /\ \A u \in Token \ {t} : held'[u] = held[u]
  BY <1>1
<1>3. held' \in [Token -> Message \cup {None}]
  BY <1>1
<1>4. NothingForUnused(inboxes', held')
  BY <1>1, <1>2 DEF NInv, NothingForUnused
<1>5. \A u \in Token : Closing(inboxes', held', u) => Closing(inboxes, held, u)
  BY <1>1, <1>2 DEF Closing
<1>6. NoticesCounted(tokens, inboxes, held) /\ EndTogether(tokens, rooms, redeemed)
  BY DEF NInv
<1>7. Unmoved(tokens, tokens')
  BY <1>1, SameUnmoved
<1> QED
  BY <1>1, <1>3, <1>4, <1>5, <1>6, <1>7, Found, QuietNotices DEF history

LEMMA TimeN ==
    ASSUME IInv, NInv, Time
    PROVE  NInv'
<1>1. Unmoved(tokens, tokens') /\ UNCHANGED <<rooms, held, usedTokens, redeemed>>
  BY TimeStep
<1>2. inboxes \in [Token -> Seq(Message)] /\ held \in [Token -> Message \cup {None}]
  BY DEF NInv, InboxesOK
<1>3. /\ inboxes' \in [Token -> Seq(Message)]
      /\ \A u \in Token : /\ CloseIn(inboxes'[u]) => CloseIn(inboxes[u])
                          /\ inboxes[u] = <<>> => inboxes'[u] = <<>>
  <2>1. ASSUME NEW t \in Token, MessageLapses(t)
        PROVE  <1>3!1 /\ <1>3!2
    <3>1. PICK i \in DOMAIN inboxes[t] : inboxes' = [inboxes EXCEPT ![t] = RemoveAt(@, i)]
      BY <2>1 DEF MessageLapses
    <3>2. inboxes[t] # <<>>
      BY <1>2, <3>1
    <3>3. /\ RemoveAt(inboxes[t], i) \in Seq(Message)
          /\ CloseIn(RemoveAt(inboxes[t], i)) => CloseIn(inboxes[t])
      BY <1>2, RemoveClose
    <3>4. /\ inboxes'[t] = RemoveAt(inboxes[t], i)
          /\ \A u \in Token \ {t} : inboxes'[u] = inboxes[u]
      BY <1>2, <3>1
    <3> QED
      BY <1>2, <3>1, <3>2, <3>3, <3>4
  <2>2. ASSUME inboxes' = inboxes
        PROVE  <1>3!1 /\ <1>3!2
    BY <1>2, <2>2
  <2> QED
    BY <2>1, <2>2 DEF Time, TokenAges, TokenIdles, CodeLapses
<1>4. NothingForUnused(inboxes', held')
  BY <1>1, <1>3 DEF NInv, NothingForUnused
<1>5. \A u \in Token : Closing(inboxes', held', u) => Closing(inboxes, held, u)
  BY <1>1, <1>3 DEF Closing
<1>6. NoticesCounted(tokens, inboxes, held) /\ EndTogether(tokens, rooms, redeemed)
  BY DEF NInv
<1>7. held' \in [Token -> Message \cup {None}]
  BY <1>1, <1>2
<1> QED
  BY <1>1, <1>3, <1>4, <1>5, <1>6, <1>7, Found, QuietNotices

----------------------------------------------------------------------------
(* Someone new in a room *)

\* A token without a room has no notice, and is in no slot.
LEMMA Newcomer ==
    ASSUME IInv, NInv, NEW t \in Token, CleanTokens[t] = None \/ CleanTokens[t].roomName = None
    PROVE  /\ CleanTokens[t] # None =>
                /\ ~Closing(CleanInboxes, held, t)
                /\ CleanTokens[t].pendingCloseMessages = 0
           /\ \A r \in Room : rooms[r] # None => t \notin Slots(rooms[r])
<1>1. ASSUME NEW r \in Room, rooms[r] # None
      PROVE  t \notin Slots(rooms[r])
  BY <1>1, ExpiringTogether, NoneAssumption
<1>2. ASSUME CleanTokens[t] # None
      PROVE  /\ ~Closing(CleanInboxes, held, t)
             /\ CleanTokens[t].pendingCloseMessages = 0
  BY <1>2, NFound DEF NoticesCounted
<1> QED
  BY <1>1, <1>2

LEMMA UnusedN ==
    ASSUME IInv, NInv, NEW t \in Token, t \notin usedTokens
    PROVE  /\ CleanTokens[t] = None /\ ~Closing(CleanInboxes, held, t)
<1>1. CleanTokens[t] = None
  BY Found DEF IInv, NotYetGenerated, Settled
<1>2. CleanInboxes[t] = <<>> /\ held[t] = None
  BY NFound DEF NothingForUnused
<1> QED
  BY <1>1, <1>2, EmptyInbox DEF Closing

\* Everyone but t as cleanup left them, and t with a record that counts no
\* notice.
LEMMA ArrivalCounts ==
    ASSUME IInv, NInv, NEW t \in Token, ~Closing(inboxes', held', t),
           tokens'[t].pendingCloseMessages = 0,
           \A u \in Token \ {t} :
              /\ tokens'[u] = CleanTokens[u]
              /\ Closing(inboxes', held', u) => Closing(CleanInboxes, held, u)
    PROVE  NoticesCounted(tokens', inboxes', held')
BY NFound DEF NoticesCounted

LEMMA RegisterN ==
    ASSUME IInv, NInv, NEW t \in Token, Register(t)
    PROVE  NInv'
<1>1. /\ usedTokens' = usedTokens \cup {t} /\ UNCHANGED <<held, redeemed>>
      /\ tokens' = [CleanTokens EXCEPT ![t] = NewToken]
      /\ rooms' = rooms /\ inboxes' = CleanInboxes
  BY Found DEF Register
<1>2. CleanTokens[t] = None /\ ~Closing(CleanInboxes, held, t)
  BY UnusedN DEF Register
<1>3. tokens'[t] = NewToken /\ \A u \in Token \ {t} : tokens'[u] = CleanTokens[u]
  BY <1>1, Found DEF Types
<1>4. NoticesCounted(tokens', inboxes', held')
  <2>1. NewToken.pendingCloseMessages = 0
    BY DEF NewToken
  <2> QED
    BY <1>1, <1>2, <1>3, <2>1, ArrivalCounts DEF Closing
<1>5. EndTogether(tokens', rooms', redeemed')
  <2>1. \A r \in Room : rooms[r] # None => Slots(rooms[r]) \subseteq Token \ {t}
    BY <1>2, Newcomer, ExpiringTogether
  <2> QED
    BY <1>1, <1>3, <2>1, NFound DEF EndTogether
<1> QED
  BY <1>1, <1>4, <1>5, NFound
  DEF NInv, InboxesOK, NothingForUnused, NoticesCounted, EndTogether, Closing

LEMMA OpenN ==
    ASSUME IInv, NInv, NEW t \in Token, NEW r \in Room,
           NEW type \in {"standard", "listener"}, NEW hl,
           NEW token \in TokenRecord, token.pendingCloseMessages = 0,
           OpenRoom(t, token, r, type, hl),
           CleanTokens[t] = None \/ CleanTokens[t].roomName = None,
           ~Closing(CleanInboxes, held, t), usedTokens' = usedTokens \cup {t}
    PROVE  NInv'
<1> DEFINE new == Paired(token, r, CreatorRole(type))
<1>1. /\ tokens' = [CleanTokens EXCEPT ![t] = new]
      /\ rooms' = [rooms EXCEPT ![r] = NewRoom(t, type, hl)]
      /\ inboxes' = CleanInboxes /\ UNCHANGED <<held, redeemed>>
      /\ rooms[r] = None /\ redeemed[r] = "no"
  BY Found DEF OpenRoom, IInv, NotYetGenerated
<1>2. new.pendingCloseMessages = 0
  BY DEF Paired, TokenRecord
<1> HIDE DEF new
<1>3. tokens'[t] = new /\ \A u \in Token \ {t} : tokens'[u] = CleanTokens[u]
  BY <1>1, Found DEF Types
<1>4. NoticesCounted(tokens', inboxes', held')
  BY <1>1, <1>2, <1>3, ArrivalCounts DEF Closing
<1>5. EndTogether(tokens', rooms', redeemed')
  <2>1. \A q \in Room \ {r} : rooms'[q] = rooms[q]
    BY <1>1, Found DEF Types
  <2>2. \A q \in Room : rooms[q] # None => Slots(rooms[q]) \subseteq Token \ {t}
    BY Newcomer, ExpiringTogether
  <2> QED
    BY <1>1, <1>3, <2>1, <2>2, NFound DEF EndTogether
<1> QED
  BY <1>1, <1>4, <1>5, NFound
  DEF NInv, InboxesOK, NothingForUnused, NoticesCounted, EndTogether, Closing

LEMMA JoinN ==
    ASSUME IInv, NInv, NEW t \in Token, NEW r \in Room,
           NEW token \in TokenRecord, token.pendingCloseMessages = 0,
           JoinRoom(t, token, r),
           CleanTokens[t] = None \/ CleanTokens[t].roomName = None,
           ~Closing(CleanInboxes, held, t), usedTokens' = usedTokens \cup {t}
    PROVE  NInv'
<1> DEFINE role == GuestRole(rooms[r].sessionType)
           new  == Paired(token, r, role)
           p    == PartnerSlot(rooms[r], role)
           room == SetSlot(rooms[r], role, t)
           joined == Notice("joined")
<1>1. /\ rooms[r] # None /\ rooms[r] \in RoomRecord /\ r \in codes
      /\ rooms[r].sessionType \in {"standard", "listener"}
  BY Found DEF JoinRoom, Types, RoomRecord
<1>2. role \in Role /\ OwnSlot(rooms[r], role) = None
  BY <1>1, Roles DEF IInv, CodeGuardsFreeSlot
<1>3. /\ tokens' = [CleanTokens EXCEPT ![t] = new]
      /\ rooms' = [rooms EXCEPT ![r] = room]
      /\ inboxes' = IF p = None THEN CleanInboxes
                    ELSE [CleanInboxes EXCEPT ![p] = Append(@, joined)]
      /\ redeemed' = [redeemed EXCEPT ![r] =
            IF p # None /\ CleanTokens[p] # None /\ CleanTokens[p].pendingCloseMessages = 0
            THEN "open" ELSE "closing"]
      /\ held' = held
  BY Found DEF JoinRoom
<1>4. new.pendingCloseMessages = 0
  BY DEF Paired, TokenRecord
<1>5. joined \in Message /\ ~IsClose(joined)
  BY NoticeType DEF Kind, CloseKind
\* The only one there, if anyone is, is the partner.
<1>6. Slots(rooms[r]) = {p} \ {None}
  BY <1>1, <1>2 DEF Slots, OwnSlot, PartnerSlot, Role
<1>7. p # None => /\ p \in Token \ {t} /\ CleanTokens[p] # None
                  /\ p \in usedTokens
  <2>1. ASSUME p # None
        PROVE  /\ p \in Token /\ p \in Slots(rooms[r])
               /\ CleanTokens[p] # None /\ tokens[p] # None
    BY <1>1, <1>6, <2>1, ExpiringTogether
  <2> QED
    BY <1>1, <2>1, Newcomer DEF IInv, NotYetGenerated
<1>8. /\ room \in RoomRecord /\ Slots(room) = {p, t} \ {None}
      /\ p # None => \A any \in Role : OwnSlot(room, any) # None
  <2>1. t # None
    BY NoneAssumption
  <2>2. role = "host" \/ role = "joiner"
    BY <1>2 DEF Role
  <2>3. CASE role = "host"
    BY <1>1, <2>1, <2>3 DEF SetSlot, Slots, OwnSlot, PartnerSlot, Role, RoomRecord
  <2>4. CASE role = "joiner"
    BY <1>1, <2>1, <2>4 DEF SetSlot, Slots, OwnSlot, PartnerSlot, Role, RoomRecord
  <2> QED
    BY <2>2, <2>3, <2>4
<1> HIDE DEF new, room, joined, p, role
<1>9. tokens'[t] = new /\ \A u \in Token \ {t} : tokens'[u] = CleanTokens[u]
  BY <1>3, Found DEF Types
<1>10. /\ inboxes' \in [Token -> Seq(Message)]
       /\ \A u \in Token : CloseIn(inboxes'[u]) => CloseIn(CleanInboxes[u])
       /\ \A u \in Token \ usedTokens : inboxes'[u] = CleanInboxes[u]
  <2>1. CASE p = None
    BY <1>3, <2>1, NFound
  <2>2. CASE p # None
    <3>1. /\ Append(CleanInboxes[p], joined) \in Seq(Message)
          /\ CloseIn(Append(CleanInboxes[p], joined)) => CloseIn(CleanInboxes[p])
      BY <1>5, <1>7, <2>2, NFound, AppendClose
    <3>2. inboxes' = [CleanInboxes EXCEPT ![p] = Append(@, joined)]
      BY <1>3, <2>2
    <3> QED
      BY <1>7, <2>2, <3>1, <3>2, NFound
  <2> QED
    BY <2>1, <2>2
<1>11. NoticesCounted(tokens', inboxes', held')
  BY <1>3, <1>4, <1>9, <1>10, ArrivalCounts DEF Closing
<1>12. EndTogether(tokens', rooms', redeemed')
  <2>1. /\ \A q \in Room \ {r} : rooms'[q] = rooms[q] /\ redeemed'[q] = redeemed[q]
        /\ rooms'[r] = room
    BY <1>3, Found DEF Types, IInv, TablesOK
  <2>2. \A q \in Room : rooms[q] # None => Slots(rooms[q]) \subseteq Token \ {t}
    BY Newcomer, ExpiringTogether
  <2>3. redeemed'[r] = "open" => p # None /\ CleanTokens[p].pendingCloseMessages = 0
    BY <1>3 DEF IInv, TablesOK
  <2>4. redeemed'[r] = "open" =>
           /\ \A any \in Role : OwnSlot(room, any) # None
           /\ \A u \in Slots(room) : tokens'[u].pendingCloseMessages = 0
    BY <1>4, <1>7, <1>8, <1>9, <2>3
  <2> QED
    BY <1>9, <2>1, <2>2, <2>4, NFound DEF EndTogether
<1> QED
  BY <1>3, <1>10, <1>11, <1>12, NFound
  DEF NInv, InboxesOK, NothingForUnused, NoticesCounted, EndTogether, Closing

----------------------------------------------------------------------------
(* Closing, and being told of it *)

\* t leaves its room; whoever stays is being closed.
LEMMA VacatedTogether ==
    ASSUME IInv, NInv, NEW t \in Token, NEW r \in Room,
           rooms[r] # None, t \in Slots(rooms[r]),
           NEW role \in Role, OwnSlot(rooms[r], role) = t,
           rooms' = [rooms EXCEPT ![r] = UnlessEmpty(SetSlot(@, role, None))],
           redeemed' = redeemed,
           redeemed[r] = "open" =>
              \A u \in Slots(rooms[r]) \ {t} : tokens'[u].pendingCloseMessages > 0,
           \A u \in Token \ Slots(rooms[r]) : tokens'[u] = CleanTokens[u]
    PROVE  EndTogether(tokens', rooms', redeemed')
<1> DEFINE left == SetSlot(rooms[r], role, None)
<1>1. rooms[r] \in RoomRecord /\ t # None
  BY Found, NoneAssumption DEF Types
<1>2. /\ left \in RoomRecord
      /\ OwnSlot(left, role) = None
      /\ \A other \in Role \ {role} : OwnSlot(left, other) = OwnSlot(rooms[r], other)
  BY <1>1, SetSlotFacts
<1>3. \A other \in Role \ {role} : OwnSlot(rooms[r], other) # t
  <2>1. tokens[t].role = role
    BY <1>1, Found DEF Agree, Occupied
  <2> QED
    BY <1>1, <2>1, Found DEF Agree, Occupied
<1> HIDE DEF left
<1>4. Slots(left) \subseteq Slots(rooms[r]) \ {t}
  BY <1>1, <1>2, <1>3, SlotFacts
<1>5. /\ rooms'[r] = IF Slots(left) = {} THEN None ELSE left
      /\ \A q \in Room \ {r} : rooms'[q] = rooms[q]
  BY <1>2, Found, UnlessEmptyFacts DEF Types, left
<1>6. ASSUME NEW q \in Room, q # r, rooms[q] # None
      PROVE  Slots(rooms[q]) \subseteq Token \ Slots(rooms[r])
  BY <1>6, ExpiringTogether
<1>7. ASSUME rooms'[r] # None, redeemed[r] = "open"
      PROVE  \A u \in Slots(rooms'[r]) : tokens'[u].pendingCloseMessages > 0
  BY <1>4, <1>5, <1>7
<1>8. ASSUME NEW q \in Room, q # r, rooms[q] # None
      PROVE  \A u \in Slots(rooms[q]) : tokens'[u] = CleanTokens[u]
  BY <1>6, <1>8
<1> QED
  <2> SUFFICES ASSUME NEW q \in Room, rooms'[q] # None, redeemed[q] = "open"
               PROVE  \/ \A u \in Slots(rooms'[q]) : tokens'[u].pendingCloseMessages > 0
                      \/ /\ \A any \in Role : OwnSlot(rooms'[q], any) # None
                         /\ \A u \in Slots(rooms'[q]) : tokens'[u].pendingCloseMessages = 0
    BY DEF EndTogether
  <2>1. CASE q = r
    BY <1>7, <2>1
  <2>2. CASE q # r
    <3>1. rooms'[q] = rooms[q] /\ rooms[q] # None
      BY <1>5, <2>2
    <3>2. \A u \in Slots(rooms[q]) : tokens'[u] = CleanTokens[u]
      BY <1>8, <2>2, <3>1
    <3>3. EndTogether(CleanTokens, rooms, redeemed)
      BY NFound
    <3>4. \/ \A u \in Slots(rooms[q]) : CleanTokens[u].pendingCloseMessages > 0
          \/ /\ \A any \in Role : OwnSlot(rooms[q], any) # None
             /\ \A u \in Slots(rooms[q]) : CleanTokens[u].pendingCloseMessages = 0
      BY <3>1, <3>3 DEF EndTogether
    <3> QED
      BY <3>1, <3>2, <3>4
  <2> QED
    BY <2>1, <2>2

\* Nobody but those in room r is affected by its closing.
LEMMA ClosedTogether ==
    ASSUME NEW tk, NEW rd, Types(tk, rooms), Agree(tk, rooms),
           EndTogether(tk, rooms, rd), NEW tk2, NEW r \in Room,
           (rooms[r] # None /\ rd[r] = "open") =>
              \A u \in Slots(rooms[r]) : tk2[u].pendingCloseMessages > 0,
           \A u \in Token :
              ~(rooms[r] # None /\ u \in Slots(rooms[r])) => tk2[u] = tk[u]
    PROVE  EndTogether(tk2, rooms, rd)
<1>1. ASSUME NEW q \in Room, q # r, rooms[q] # None, NEW u \in Slots(rooms[q])
      PROVE  u \in Token /\ ~(rooms[r] # None /\ u \in Slots(rooms[r]))
  <2>1. rooms[q] \in RoomRecord /\ u \in Token /\ u # None
    BY <1>1, SlotFacts, NoneAssumption DEF Types
  <2>2. PICK role \in Role : u = OwnSlot(rooms[q], role)
    BY <1>1, <2>1, SlotFacts
  <2>3. tk[u].roomName = q
    BY <1>1, <2>1, <2>2 DEF Agree, Occupied
  <2>4. ASSUME rooms[r] # None, u \in Slots(rooms[r])
        PROVE  FALSE
    <3>1. rooms[r] \in RoomRecord
      BY <2>4 DEF Types
    <3>2. PICK other \in Role : u = OwnSlot(rooms[r], other)
      BY <2>4, <3>1, SlotFacts
    <3> QED
      BY <1>1, <2>1, <2>3, <2>4, <3>2 DEF Agree, Occupied
  <2> QED
    BY <2>1, <2>4
<1> QED
  BY <1>1 DEF EndTogether

LEMMA ConsumeN ==
    ASSUME IInv, NInv, NEW t \in Token, Consume(t)
    PROVE  NInv'
<1> DEFINE m == Head(CleanInboxes[t])
           r == CleanTokens[t].roomName
           pending == CleanTokens[t].pendingCloseMessages
<1>1. /\ CleanInboxes[t] # <<>> /\ held[t] = None /\ t \in usedTokens
      /\ CleanTokens[t] # None => /\ CleanTokens[t] \in TokenRecord /\ pending \in Nat
  BY Found, NFound DEF Consume, Types, TokenRecord, NothingForUnused
<1>2. /\ m \in Message /\ m # None
      /\ Tail(CleanInboxes[t]) \in Seq(Message)
      /\ CloseIn(Tail(CleanInboxes[t])) => CloseIn(CleanInboxes[t])
      /\ IsClose(m) => CloseIn(CleanInboxes[t])
  BY <1>1, NFound, TailClose, NoneAssumption
<1>3. /\ held' = [held EXCEPT ![t] = m]
      /\ inboxes' = [CleanInboxes EXCEPT ![t] = Tail(@)]
      /\ usedTokens' = usedTokens /\ usedRooms' = usedRooms /\ redeemed' = redeemed
  BY DEF Consume
<1> HIDE DEF m
<1>4. held \in [Token -> Message \cup {None}]
  BY DEF NInv, InboxesOK
<1>5. /\ held'[t] = m /\ inboxes'[t] = Tail(CleanInboxes[t])
      /\ \A u \in Token \ {t} : held'[u] = held[u] /\ inboxes'[u] = CleanInboxes[u]
      /\ held' \in [Token -> Message \cup {None}]
      /\ inboxes' \in [Token -> Seq(Message)]
  BY <1>2, <1>3, <1>4, NFound
<1>6. \A u \in Token : Closing(inboxes', held', u) => Closing(CleanInboxes, held, u)
  BY <1>1, <1>2, <1>5 DEF Closing
<1>7. NothingForUnused(inboxes', held')
  BY <1>1, <1>5, NFound DEF NothingForUnused
<1>8. SUFFICES /\ NoticesCounted(tokens', inboxes', held')
               /\ EndTogether(tokens', rooms', redeemed)
  BY <1>1, <1>2, <1>3, <1>5, <1>7
  DEF NInv, InboxesOK, NothingForUnused, NoticesCounted, EndTogether, Closing
<1>9. CASE ~IsClose(m) \/ CleanTokens[t] = None
  <2>1. tokens' = CleanTokens /\ rooms' = rooms
    BY <1>9, Found DEF Consume, m
  <2> QED
    BY <1>1, <1>6, <2>1, NFound DEF NoticesCounted
<1>10. CASE IsClose(m) /\ CleanTokens[t] # None
  \* A notice waits, so it was counted, and the room is being closed for all.
  <2>1. pending > 0 /\ r # None
    <3>1. Closing(CleanInboxes, held, t)
      BY <1>2, <1>10 DEF Closing
    <3>2. pending > 0
      BY <1>1, <1>10, <3>1, NFound DEF NoticesCounted
    <3> QED
      BY <1>1, <1>10, <3>2, NFound DEF NoticesCounted
  <2>2. /\ r \in Room /\ rooms[r] # None /\ rooms[r] \in RoomRecord
        /\ CleanTokens[t].role \in Role
        /\ OwnSlot(rooms[r], CleanTokens[t].role) = t
    BY <1>1, <1>10, <2>1, Found DEF Agree, Placed, Types, TokenRecord
  <2>3. t \in Slots(rooms[r])
    BY <2>2, SlotFacts, NoneAssumption
  <2>4. redeemed[r] = "open" =>
           \A u \in Slots(rooms[r]) : CleanTokens[u].pendingCloseMessages > 0
    BY <1>1, <1>10, <2>1, <2>2, <2>3, NFound DEF EndTogether
  <2>5. CASE LastNotice(pending)
    <3>1. /\ tokens' = [CleanTokens EXCEPT ![t] = None]
          /\ rooms' = [rooms EXCEPT ![r] = RoomWithout(@, t)]
      BY <1>1, <1>10, <2>1, <2>2, <2>5, Found DEF Consume, AccountForClose, RoomOf, m
    <3>2. tokens'[t] = None /\ \A u \in Token \ {t} : tokens'[u] = CleanTokens[u]
      BY <3>1, Found DEF Types
    <3>3. rooms' = [rooms EXCEPT ![r] =
                      UnlessEmpty(SetSlot(@, CleanTokens[t].role, None))]
      BY <1>1, <1>10, <2>1, <3>1, Found, OneSlot
    <3>4. Slots(rooms[r]) \subseteq Token
      BY <2>2, SlotFacts
    <3>5. redeemed[r] = "open" =>
             \A u \in Slots(rooms[r]) \ {t} : tokens'[u].pendingCloseMessages > 0
      BY <2>4, <3>2, <3>4
    <3>6. EndTogether(tokens', rooms', redeemed')
      <4>1. \A u \in Token \ Slots(rooms[r]) : tokens'[u] = CleanTokens[u]
        BY <2>3, <3>2
      <4>2. redeemed' = redeemed
        BY <1>3
      <4> QED
        BY <2>2, <2>3, <3>3, <3>5, <4>1, <4>2, VacatedTogether
    <3>7. NoticesCounted(tokens', inboxes', held')
      BY <1>6, <3>2, NFound DEF NoticesCounted
    <3> QED
      BY <1>3, <1>10, <3>2, <3>6, <3>7
  <2>6. CASE ~LastNotice(pending)
    <3> DEFINE one == [CleanTokens[t] EXCEPT !.pendingCloseMessages = @ - 1]
    <3>1. /\ one \in TokenRecord /\ one # None
          /\ one.roomName = r /\ one.pendingCloseMessages > 0
      BY <1>1, <1>10, <2>6, NoneAssumption DEF LastNotice, TokenRecord
    <3>2. tokens' = [CleanTokens EXCEPT ![t] = one] /\ rooms' = rooms
      BY <1>10, <2>6, Found DEF Consume, AccountForClose, m
    <3> HIDE DEF one
    <3>3. tokens'[t] = one /\ \A u \in Token \ {t} : tokens'[u] = CleanTokens[u]
      BY <3>2, Found DEF Types
    <3>4. Slots(rooms[r]) \subseteq Token
      BY <2>2, SlotFacts
    <3>5. redeemed[r] = "open" =>
             \A u \in Slots(rooms[r]) : tokens'[u].pendingCloseMessages > 0
      BY <2>4, <3>1, <3>3, <3>4
    <3>6. EndTogether(tokens', rooms, redeemed)
      <4>1. \A u \in Token :
               ~(rooms[r] # None /\ u \in Slots(rooms[r])) => tokens'[u] = CleanTokens[u]
        BY <2>2, <2>3, <3>3
      <4>2. /\ Types(CleanTokens, rooms) /\ Agree(CleanTokens, rooms)
            /\ EndTogether(CleanTokens, rooms, redeemed)
        BY Found, NFound
      <4> QED
        BY <2>2, <3>5, <4>1, <4>2, ClosedTogether
    <3>7. NoticesCounted(tokens', inboxes', held')
      BY <1>6, <2>1, <3>1, <3>3, NFound DEF NoticesCounted
    <3> QED
      BY <3>1, <3>2, <3>3, <3>6, <3>7
  <2> QED
    BY <2>5, <2>6
<1> QED
  BY <1>9, <1>10

LEMMA LeaveN ==
    ASSUME IInv, NInv, NEW t \in Token, LeaveSession(t)
    PROVE  /\ NInv'
           /\ \A u \in Token \ {t} : CleanTokens[u] # None => tokens'[u] # None
<1> DEFINE role == CleanTokens[t].role
           r    == CleanTokens[t].roomName
           p    == PartnerOf(t)
           bye  == Farewell(role)
           told == MarkedForClose(CleanTokens[p], Len(bye))
<1>1. /\ CleanTokens[t] # None /\ CleanTokens[t] \in TokenRecord
      /\ r # None
  BY Found DEF LeaveSession, Types
<1>2. /\ r \in Room /\ role \in Role
      /\ rooms[r] # None /\ rooms[r] \in RoomRecord
      /\ OwnSlot(rooms[r], role) = t
  BY <1>1, Found DEF Agree, Placed, Types, TokenRecord
<1>3. RoomOf(t) = rooms[r]
  BY <1>1, Found DEF RoomOf
<1>4. /\ rooms' = [rooms EXCEPT ![r] = UnlessEmpty(SetSlot(@, role, None))]
      /\ UNCHANGED <<held, history>>
  BY <1>2, <1>3, Found DEF LeaveSession, Types
<1>5. t \in Slots(rooms[r])
  BY <1>2, SlotFacts, NoneAssumption
<1>6. bye \in Seq(Message) /\ Len(bye) \in Nat \ {0}
  BY <1>2, FarewellFacts
\* The other slot is free when there is no partner with a record.
<1>7. /\ p = None => Slots(rooms[r]) = {t}
      /\ p # None => p \in Slots(rooms[r]) \ {t} /\ Slots(rooms[r]) = {t, p}
                     /\ CleanTokens[p] # None
  <2> DEFINE other == PartnerSlot(rooms[r], role)
  <2>1. Slots(rooms[r]) = {t, other} \ {None}
    BY <1>2 DEF Slots, OwnSlot, PartnerSlot, Role
  <2>2. other # None => CleanTokens[other] # None /\ other # t
    <3>1. ASSUME other # None
          PROVE  CleanTokens[other] # None
      BY <1>2, <2>1, <3>1, ExpiringTogether
    <3>2. PICK any \in Role \ {role} : other = OwnSlot(rooms[r], any)
      BY <1>2 DEF PartnerSlot, OwnSlot, Role
    <3> QED
      BY <1>1, <1>2, <3>1, <3>2, Found, NoneAssumption DEF Agree, Occupied
  <2>3. p = IF other = None \/ CleanTokens[other] = None THEN None ELSE other
    BY <1>2, <1>3 DEF PartnerOf
  <2>4. t # None
    BY NoneAssumption
  <2> QED
    BY <2>1, <2>2, <2>3, <2>4
<1> HIDE DEF p, bye
<1>8. CASE p = None
  <2>1. tokens' = [CleanTokens EXCEPT ![t] = None] /\ inboxes' = CleanInboxes
    BY <1>8 DEF LeaveSession, p
  <2>2. tokens'[t] = None /\ \A u \in Token \ {t} : tokens'[u] = CleanTokens[u]
    BY <2>1, Found DEF Types
  <2>3. EndTogether(tokens', rooms', redeemed')
    <3>1. redeemed' = redeemed
      BY <1>4 DEF history
    <3>2. \A u \in Token \ Slots(rooms[r]) : tokens'[u] = CleanTokens[u]
      BY <1>5, <2>2
    <3>3. \A u \in Slots(rooms[r]) \ {t} : tokens'[u].pendingCloseMessages > 0
      BY <1>7, <1>8
    <3> QED
      BY <1>2, <1>4, <1>5, <3>1, <3>2, <3>3, VacatedTogether
  <2>4. NoticesCounted(tokens', inboxes', held')
    BY <1>4, <2>1, <2>2, NFound DEF NoticesCounted, Closing
  <2> QED
    BY <1>4, <2>1, <2>2, <2>3, <2>4, NFound
    DEF NInv, InboxesOK, NothingForUnused, NoticesCounted, EndTogether, Closing, history
<1>9. CASE p # None
  <2>1. /\ p \in Token \ {t} /\ CleanTokens[p] # None /\ CleanTokens[p] \in TokenRecord
        /\ CleanTokens[p].roomName # None
    BY <1>2, <1>7, <1>9, ExpiringTogether, Found, NoneAssumption DEF Types
  <2>2. /\ told \in TokenRecord /\ told # None
        /\ told.roomName = CleanTokens[p].roomName
        /\ told.pendingCloseMessages > 0
    <3>1. told \in TokenRecord /\ told.roomName = CleanTokens[p].roomName
      BY <1>6, <2>1, MarkedForCloseType
    <3>2. told.pendingCloseMessages = CleanTokens[p].pendingCloseMessages + Len(bye)
      BY <2>1 DEF MarkedForClose, TokenRecord
    <3> QED
      BY <1>6, <2>1, <3>1, <3>2, NoneAssumption DEF TokenRecord
  <2>3. /\ tokens' = [CleanTokens EXCEPT ![t] = None, ![p] = MarkedForClose(@, Len(bye))]
        /\ inboxes' = [CleanInboxes EXCEPT ![p] = @ \o bye]
    BY <1>9 DEF LeaveSession, p, bye
  <2>4. /\ tokens'[t] = None /\ tokens'[p] = told
        /\ \A u \in Token \ {t, p} : tokens'[u] = CleanTokens[u]
    BY <2>1, <2>3, Found DEF Types
  <2> HIDE DEF told
  <2>5. CleanInboxes[p] \o bye \in Seq(Message)
    BY <1>6, <2>1, NFound, ConcatClose
  <2>6. /\ inboxes' \in [Token -> Seq(Message)]
        /\ \A u \in Token \ {p} : inboxes'[u] = CleanInboxes[u]
    BY <2>3, <2>5, NFound
  <2>7. EndTogether(tokens', rooms', redeemed')
    <3>1. redeemed' = redeemed
      BY <1>4 DEF history
    <3>2. \A u \in Token \ Slots(rooms[r]) : tokens'[u] = CleanTokens[u]
      BY <1>7, <1>9, <2>4
    <3>3. \A u \in Slots(rooms[r]) \ {t} : tokens'[u].pendingCloseMessages > 0
      BY <1>7, <1>9, <2>2, <2>4
    <3> QED
      BY <1>2, <1>4, <1>5, <3>1, <3>2, <3>3, VacatedTogether
  <2>8. NoticesCounted(tokens', inboxes', held')
    BY <1>4, <2>1, <2>2, <2>4, <2>6, NFound DEF NoticesCounted, Closing
  <2>9. NothingForUnused(inboxes', held')
    <3>1. p \in usedTokens
      BY <2>1, Found DEF IInv, NotYetGenerated, Settled
    <3> QED
      BY <1>4, <2>6, <3>1, NFound DEF NothingForUnused
  <2>10. \A u \in Token \ {t} : CleanTokens[u] # None => tokens'[u] # None
    BY <2>2, <2>4
  <2> QED
    BY <1>4, <2>6, <2>7, <2>8, <2>9, <2>10
    DEF NInv, InboxesOK, NothingForUnused, NoticesCounted, EndTogether, Closing, history
<1> QED
  BY <1>8, <1>9

\* closeRoom(), on the tables before or after cleanup.
LEMMA CloseN ==
    ASSUME IInv, NInv, NEW r \in Room,
           NEW tk, NEW ib, Types(tk, rooms), Agree(tk, rooms),
           ib \in [Token -> Seq(Message)], NothingForUnused(ib, held),
           NoticesCounted(tk, ib, held), EndTogether(tk, rooms, redeemed),
           Settled(tokens, tk), CloseRoom(r, tk, rooms, ib),
           held' = held, UNCHANGED history
    PROVE  NInv' /\ \A u \in Token : tk[u] # None => tokens'[u] # None
<1> DEFINE told == IF rooms[r] = None THEN {} ELSE {t \in Slots(rooms[r]) : tk[t] # None}
           bye  == Notice("admin_closed")
<1>1. /\ tokens' = [t \in Token |-> IF t \in told THEN MarkedForClose(tk[t], 1) ELSE tk[t]]
      /\ inboxes' = [t \in Token |-> IF t \in told THEN Append(ib[t], bye) ELSE ib[t]]
      /\ rooms' = rooms
  BY DEF CloseRoom
<1>2. bye \in Message
  BY NoticeType DEF Kind, CloseKind
\* Everyone in the room is told.
<1>3. ASSUME rooms[r] # None, NEW t \in Slots(rooms[r])
      PROVE  /\ t \in Token /\ tk[t] # None /\ tk[t] \in TokenRecord
             /\ tk[t].roomName # None
  <2>1. rooms[r] \in RoomRecord /\ t \in Token /\ t # None /\ r # None
    BY <1>3, SlotFacts, NoneAssumption DEF Types
  <2>2. PICK role \in Role : t = OwnSlot(rooms[r], role)
    BY <1>3, <2>1, SlotFacts
  <2> QED
    BY <1>3, <2>1, <2>2 DEF Agree, Occupied, Types
<1>4. told = IF rooms[r] = None THEN {} ELSE Slots(rooms[r])
  BY <1>3
<1>5. ASSUME NEW t \in told
      PROVE  /\ t \in Token /\ tk[t] # None /\ tk[t].roomName # None
             /\ tokens'[t] # None
             /\ tokens'[t].roomName = tk[t].roomName
             /\ tokens'[t].pendingCloseMessages > 0
             /\ Append(ib[t], bye) \in Seq(Message)
             /\ t \in usedTokens
  <2>1. /\ t \in Token /\ tk[t] # None /\ tk[t] \in TokenRecord
        /\ tk[t].roomName # None
    BY <1>3, <1>4, <1>5
  <2>2. /\ MarkedForClose(tk[t], 1) \in TokenRecord
        /\ MarkedForClose(tk[t], 1).roomName = tk[t].roomName
    BY <2>1, MarkedForCloseType
  <2>3. MarkedForClose(tk[t], 1).pendingCloseMessages = tk[t].pendingCloseMessages + 1
    BY <2>1 DEF MarkedForClose, TokenRecord
  <2>4. tk[t].pendingCloseMessages \in Nat
    BY <2>1 DEF TokenRecord
  <2>5. tokens'[t] = MarkedForClose(tk[t], 1)
    BY <1>1, <1>5, <2>1
  <2>6. t \in usedTokens
    BY <2>1 DEF Settled, IInv, NotYetGenerated
  <2> QED
    BY <1>2, <2>1, <2>2, <2>3, <2>4, <2>5, <2>6, AppendClose, NoneAssumption
<1> HIDE DEF told, bye
<1>6. \A u \in Token \ told : tokens'[u] = tk[u] /\ inboxes'[u] = ib[u]
  BY <1>1
<1>7. inboxes' \in [Token -> Seq(Message)]
  BY <1>1, <1>5
<1>8. NothingForUnused(inboxes', held')
  BY <1>5, <1>6 DEF NothingForUnused
<1>9. NoticesCounted(tokens', inboxes', held')
  BY <1>5, <1>6 DEF NoticesCounted, Closing
<1>10. EndTogether(tokens', rooms, redeemed)
  <2>1. (rooms[r] # None /\ redeemed[r] = "open") =>
           \A u \in Slots(rooms[r]) : tokens'[u].pendingCloseMessages > 0
    BY <1>4, <1>5
  <2>2. \A u \in Token :
           ~(rooms[r] # None /\ u \in Slots(rooms[r])) => tokens'[u] = tk[u]
    BY <1>4, <1>6
  <2> QED
    BY <2>1, <2>2, ClosedTogether
<1>11. \A u \in Token : tk[u] # None => tokens'[u] # None
  BY <1>5, <1>6
\* The arguments above are those of NInv' : the history does not change.
<1>12. InboxesOK'
  BY <1>7 DEF InboxesOK, NInv
<1>13. NothingForUnused(inboxes, held)'
  BY <1>8 DEF NothingForUnused, history
<1>14. NoticesCounted(tokens, inboxes, held)'
  BY <1>9 DEF NoticesCounted
<1>15. EndTogether(tokens, rooms, redeemed)'
  BY <1>1, <1>10 DEF EndTogether, history
<1> QED
  BY <1>11, <1>12, <1>13, <1>14, <1>15 DEF NInv

----------------------------------------------------------------------------
(* The invariant is inductive *)

LEMMA NInit == Init => NInv
<1>1. <<>> \in Seq(Message)
  OBVIOUS
<1> QED
  BY <1>1 DEF Init, NInv, InboxesOK, NothingForUnused, NoticesCounted, EndTogether

LEMMA NOpen == ASSUME IInv, NInv, Open PROVE NInv'
<1>1. ASSUME NEW t \in Token, NEW r \in Room, NEW type \in {"standard", "listener"},
             CreateSession(t, r, type)
      PROVE  NInv'
  <2>1. /\ CleanTokens[t] \in TokenRecord /\ CleanTokens[t] # None
        /\ CleanTokens[t].roomName = None
        /\ OpenRoom(t, CleanTokens[t], r, type, FALSE) /\ usedTokens' = usedTokens
    BY <1>1, Found DEF CreateSession, Types
  <2>2. t \in usedTokens
    BY <2>1, Found DEF IInv, NotYetGenerated, Settled
  <2>3. ~Closing(CleanInboxes, held, t) /\ CleanTokens[t].pendingCloseMessages = 0
    BY <2>1, Newcomer
  <2> QED
    BY <2>1, <2>2, <2>3, OpenN
<1>2. ASSUME NEW t \in Token, NEW r \in Room, NEW type \in {"standard", "listener"},
             NEW hl \in HeadlessModes, SetupSession(t, r, type, hl)
      PROVE  NInv'
  <2>1. CleanTokens[t] = None /\ ~Closing(CleanInboxes, held, t)
    BY <1>2, UnusedN DEF SetupSession
  <2>2. NewToken.pendingCloseMessages = 0
    BY DEF NewToken
  <2> QED
    BY <1>2, <2>1, <2>2, NewTokenType, OpenN DEF SetupSession
<1> QED
  BY <1>1, <1>2, RegisterN DEF Open

LEMMA NJoin == ASSUME IInv, NInv, Join PROVE NInv'
<1>1. ASSUME NEW t \in Token, NEW r \in Room, JoinSession(t, r)
      PROVE  NInv'
  <2>1. /\ CleanTokens[t] \in TokenRecord /\ CleanTokens[t] # None
        /\ CleanTokens[t].roomName = None
        /\ JoinRoom(t, CleanTokens[t], r) /\ usedTokens' = usedTokens
    BY <1>1, Found DEF JoinSession, Types
  <2>2. t \in usedTokens
    BY <2>1, Found DEF IInv, NotYetGenerated, Settled
  <2>3. ~Closing(CleanInboxes, held, t) /\ CleanTokens[t].pendingCloseMessages = 0
    BY <2>1, Newcomer
  <2> QED
    BY <2>1, <2>2, <2>3, JoinN
<1>2. ASSUME NEW t \in Token, NEW r \in Room, RegisterAndJoin(t, r)
      PROVE  NInv'
  <2>1. CleanTokens[t] = None /\ ~Closing(CleanInboxes, held, t)
    BY <1>2, UnusedN DEF RegisterAndJoin
  <2>2. NewToken.pendingCloseMessages = 0
    BY DEF NewToken
  <2> QED
    BY <1>2, <2>1, <2>2, NewTokenType, JoinN DEF RegisterAndJoin
<1>3. ASSUME NEW r \in Room, JoinGoneRoom(r)
      PROVE  NInv'
  BY <1>3, Found, SameUnmoved, CleanupOnlyN DEF JoinGoneRoom
<1> QED
  BY <1>1, <1>2, <1>3 DEF Join

LEMMA NTalk == ASSUME IInv, NInv, Talk PROVE NInv'
<1>1. ASSUME Observe
      PROVE  NInv'
  BY <1>1, Found, SameUnmoved, CleanupOnlyN DEF Observe
<1>2. ASSUME NEW t \in Token, Touch(t)
      PROVE  NInv'
  <2>1. Unmoved(CleanTokens, tokens')
    BY <1>2, TouchStep
  <2> QED
    BY <1>2, <2>1, Found, CleanupOnlyN DEF Touch
<1>3. ASSUME NEW t \in Token, NEW text \in Texts, SendMessage(t, text[1], text[2])
      PROVE  NInv'
  <2>1. text[1] \in TextKind
    BY BoundAssumption
  <2> QED
    BY <1>3, <2>1, SendN
<1> QED
  BY <1>1, <1>2, <1>3, ConsumeN, DeliveredN, RequeueN, HeadlessN DEF Talk

LEMMA NClose == ASSUME IInv, NInv, Close PROVE NInv'
<1>1. ASSUME NEW r \in Room, InvalidateRoom(r)
      PROVE  NInv'
  <2>1. Settled(tokens, tokens)
    BY DEF Settled
  <2>2. CloseRoom(r, tokens, rooms, inboxes) /\ held' = held /\ UNCHANGED history
    BY <1>1 DEF InvalidateRoom
  <2>3. /\ inboxes \in [Token -> Seq(Message)] /\ NothingForUnused(inboxes, held)
        /\ NoticesCounted(tokens, inboxes, held) /\ EndTogether(tokens, rooms, redeemed)
    BY DEF NInv, InboxesOK
  <2> QED
    BY <2>1, <2>2, <2>3, Found, CloseN
<1>2. ASSUME NEW r \in Room, InvalidateByCode(r)
      PROVE  NInv'
  <2>1. CloseRoom(r, CleanTokens, rooms, CleanInboxes) /\ held' = held /\ UNCHANGED history
    BY <1>2, Found DEF InvalidateByCode
  <2> QED
    BY <2>1, Found, NFound, CloseN
<1> QED
  BY <1>1, <1>2, LeaveN DEF Close

LEMMA NNext == IInv /\ NInv /\ [Next]_vars => NInv'
<1> SUFFICES ASSUME IInv, NInv, [Next]_vars
             PROVE  NInv'
  OBVIOUS
<1>1. CASE UNCHANGED vars
  BY <1>1 DEF vars, history, NInv, InboxesOK, NothingForUnused, NoticesCounted,
              EndTogether, Closing
<1> QED
  BY <1>1, NOpen, NJoin, NTalk, NClose, TimeN DEF Next

\* Operations, deliveries and deadlines keep the tables in agreement and the
\* notices counted (markTokenForClose, finalizePendingClose).
THEOREM NoticeInvariance == Spec => [](IInv /\ NInv)
BY InitInv, NextInv, NInit, NNext, PTL DEF Spec

----------------------------------------------------------------------------
(* Theorems *)

\* Types, of the inboxes too: what a sequence of operations leaves in an inbox
\* is always a message.
THEOREM StoreTyped == Spec => []TypeOK
<1>1. IInv /\ NInv => TypeOK
  BY DEF IInv, NInv, TypeOK
<1> QED
  BY <1>1, NoticeInvariance, PTL

\* Whenever one side of a session is gone, the other has a close notice
\* counted.
LEMMA LoneIsCounted ==
    ASSUME IInv, NInv, NEW r \in Room, NEW t \in Token, rooms[r] # None,
           redeemed[r] = "open", Slots(rooms[r]) = {t}
    PROVE  tokens[t] # None /\ tokens[t].pendingCloseMessages > 0
<1>1. rooms[r] \in RoomRecord
  BY Found DEF Types
<1>2. tokens[t] # None
  <2>1. PICK role \in Role : OwnSlot(rooms[r], role) = t
    BY <1>1, SlotFacts
  <2> QED
    BY <2>1, Found, NoneAssumption DEF Agree, Occupied
<1>3. CASE \A role \in Role : OwnSlot(rooms[r], role) # None
  <2>1. \A role \in Role : OwnSlot(rooms[r], role) = t
    BY <1>1, <1>3, SlotFacts
  <2>2. "host" \in Role /\ "joiner" \in Role /\ t # None
    BY NoneAssumption DEF Role
  <2> QED
    BY <2>1, <2>2, Found DEF Agree, Occupied
<1> QED
  BY <1>2, <1>3 DEF NInv, EndTogether

----------------------------------------------------------------------------
(* How a participant's token goes *)

\* Only these two operations end a participant's token.
LEMMA ParticipantEnds ==
    ASSUME IInv, Next, NEW t \in Token, tokens[t] # None, tokens[t].roomName # None,
           tokens'[t] = None
    PROVE  LeaveSession(t) \/ Consume(t)
<1>1. CleanTokens[t] # None /\ CleanTokens[t].roomName # None
  BY Found DEF Settled
\* A token that leaves everyone in place leaves t in place.
<1>2. ~Unmoved(CleanTokens, tokens') /\ ~Settled(CleanTokens, tokens')
      /\ ~Unmoved(tokens, tokens') /\ tokens' # CleanTokens /\ tokens' # tokens
  BY <1>1 DEF Unmoved, Settled
<1>3. ~Open
  <2>1. ASSUME NEW u \in Token, NEW token \in TokenRecord,
               tokens' = [CleanTokens EXCEPT ![u] = token]
        PROVE  FALSE
    BY <1>1, <2>1, Found, NoneAssumption DEF Types
  <2>2. ASSUME NEW u \in Token, NEW r \in Room, NEW type \in {"standard", "listener"},
               NEW token \in TokenRecord, NEW hl, OpenRoom(u, token, r, type, hl)
        PROVE  FALSE
    <3>1. Paired(token, r, CreatorRole(type)) \in TokenRecord
      BY PairedType, Roles
    <3> QED
      BY <2>1, <2>2, <3>1 DEF OpenRoom
  <2>3. ASSUME NEW u \in Token, Register(u)
        PROVE  FALSE
    BY <2>1, <2>3, NewTokenType DEF Register
  <2>4. ASSUME NEW u \in Token, NEW r \in Room, NEW type \in {"standard", "listener"},
               CreateSession(u, r, type)
        PROVE  FALSE
    BY <2>2, <2>4, Found DEF CreateSession, Types
  <2>5. ASSUME NEW u \in Token, NEW r \in Room, NEW type \in {"standard", "listener"},
               NEW hl \in HeadlessModes, SetupSession(u, r, type, hl)
        PROVE  FALSE
    BY <2>2, <2>5, NewTokenType DEF SetupSession
  <2> QED
    BY <2>3, <2>4, <2>5 DEF Open
<1>4. ~Join
  <2>1. ASSUME NEW u \in Token, NEW r \in Room, NEW token \in TokenRecord,
               JoinRoom(u, token, r)
        PROVE  FALSE
    <3> DEFINE new == Paired(token, r, GuestRole(CleanRooms[r].sessionType))
    <3>1. rooms[r] \in RoomRecord /\ CleanRooms[r] = rooms[r]
      BY <2>1, Found DEF JoinRoom, Types
    <3>2. GuestRole(CleanRooms[r].sessionType) \in Role
      BY <3>1, Roles DEF RoomRecord
    <3>3. new \in TokenRecord /\ new # None
      BY <3>2, PairedType, NoneAssumption
    <3>4. tokens' = [CleanTokens EXCEPT ![u] = new]
      BY <2>1 DEF JoinRoom
    <3> HIDE DEF new
    <3> QED
      BY <1>1, <3>3, <3>4, Found DEF Types
  <2>2. ASSUME NEW u \in Token, NEW r \in Room, JoinSession(u, r) \/ RegisterAndJoin(u, r)
        PROVE  FALSE
    BY <2>1, <2>2, Found, NewTokenType DEF JoinSession, RegisterAndJoin, Types
  <2>3. ASSUME NEW r \in Room, JoinGoneRoom(r)
        PROVE  FALSE
    BY <1>2, <2>3 DEF JoinGoneRoom
  <2> QED
    BY <2>2, <2>3 DEF Join
<1>5. Talk => Consume(t)
  <2>1. ASSUME NEW u \in Token, Consume(u)
        PROVE  u = t
    <3>1. \/ tokens' = CleanTokens
          \/ tokens' = [CleanTokens EXCEPT ![u] = None]
          \/ tokens' = [CleanTokens EXCEPT ![u].pendingCloseMessages = @ - 1]
      BY <2>1 DEF Consume, AccountForClose
    <3>2. u # t => tokens'[t] = CleanTokens[t]
      BY <3>1, Found DEF Types
    <3> QED
      BY <1>1, <3>2
  <2>2. ASSUME NEW u \in Token, NEW text \in Texts, SendMessage(u, text[1], text[2])
        PROVE  FALSE
    BY <1>2, <2>2, SendStep
  <2>3. ASSUME NEW u \in Token, NEW hl \in HeadlessModes, UpdateRoomHeadless(u, hl)
        PROVE  FALSE
    BY <1>2, <2>3, HeadlessStep
  <2>4. ASSUME NEW u \in Token, Touch(u)
        PROVE  FALSE
    BY <1>2, <2>4, TouchStep
  <2>5. ASSUME NEW u \in Token, Observe \/ Delivered(u) \/ Requeue(u)
        PROVE  FALSE
    BY <1>2, <2>5 DEF Observe, Delivered, Requeue
  <2> QED
    BY <2>1, <2>2, <2>3, <2>4, <2>5 DEF Talk
<1>6. Close => LeaveSession(t)
  <2>1. ASSUME NEW u \in Token, LeaveSession(u)
        PROVE  u = t
    <3>1. \/ tokens' = [CleanTokens EXCEPT ![u] = None]
          \/ tokens' = [CleanTokens EXCEPT ![u] = None, ![PartnerOf(u)] =
                            MarkedForClose(@, Len(Farewell(CleanTokens[u].role)))]
      BY <2>1 DEF LeaveSession
    <3>2. CleanTokens[t] \in TokenRecord
      BY <1>1, Found DEF Types
    <3>3. Len(Farewell(CleanTokens[u].role)) \in Nat
      BY DEF Farewell
    <3>4. MarkedForClose(CleanTokens[t], Len(Farewell(CleanTokens[u].role))) # None
      BY <3>2, <3>3, MarkedForCloseType, NoneAssumption
    <3>5. u # t => \/ tokens'[t] = CleanTokens[t]
                   \/ tokens'[t] = MarkedForClose(CleanTokens[t],
                                                  Len(Farewell(CleanTokens[u].role)))
      BY <3>1, Found DEF Types
    <3> QED
      BY <1>1, <3>4, <3>5
  <2>2. ASSUME NEW r \in Room, InvalidateRoom(r)
        PROVE  FALSE
    BY <2>2, Found, CloseRoomSettles DEF InvalidateRoom, Settled
  <2>3. ASSUME NEW r \in Room, InvalidateByCode(r)
        PROVE  FALSE
    BY <1>2, <2>3, Found, CloseRoomSettles DEF InvalidateByCode
  <2> QED
    BY <2>1, <2>2, <2>3 DEF Close
<1>7. ~Time
  BY <1>2, TimeStep
<1> QED
  BY <1>3, <1>4, <1>5, <1>6, <1>7 DEF Next

\* A session is not lost without a word, for any number of sessions: a
\* participant's token ends with its own leave or with the close notice the
\* step hands it.
THEOREM SessionsEndKnowingly == Spec => TokenEndsKnowingly
<1> DEFINE Knowingly ==
             \A t \in Token :
               (tokens[t] # None /\ tokens[t].roomName # None /\ tokens'[t] = None)
                 => \/ LeaveSession(t)
                    \/ held[t] = None /\ held'[t] # None /\ IsClose(held'[t])
<1>1. IInv /\ NInv /\ [Next]_vars => [Knowingly]_vars
  <2> SUFFICES ASSUME IInv, NInv, Next, NEW t \in Token,
                      tokens[t] # None, tokens[t].roomName # None, tokens'[t] = None,
                      Consume(t)
               PROVE  held[t] = None /\ held'[t] # None /\ IsClose(held'[t])
    BY ParticipantEnds
  <2> DEFINE m == Head(CleanInboxes[t])
  <2>1. CleanTokens[t] # None
    BY Found DEF Settled
  <2>2. m \in Message /\ m # None
    BY NFound, NoneAssumption DEF Consume
  <2>3. held[t] = None /\ held' = [held EXCEPT ![t] = m]
    BY DEF Consume
  <2>4. held'[t] = m
    BY <2>3 DEF NInv, InboxesOK
  <2>5. IsClose(m)
    BY <2>1 DEF Consume
  <2> QED
    BY <2>2, <2>3, <2>4, <2>5
<1> QED
  BY <1>1, NoticeInvariance, PTL DEF TokenEndsKnowingly, Spec
=============================================================================
