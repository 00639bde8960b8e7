--------------------------- MODULE DeliveryProofs ---------------------------
(***************************************************************************)
(* Delivery's safety for any messages, requests and instances, and its     *)
(* implementation of Mailbox.                                              *)
(***************************************************************************)
EXTENDS Delivery, TLAPS

\* An entry of the registry is that of a request whose timer runs, and it is
\* registered at the request's instance.
Wired ==
    /\ \A q \in Request : pc[q] # "idle" => at[q] \in Instance
    /\ \A i \in Instance, q \in Request : waiter[i] = q <=> timer[q] = "set" /\ at[q] = i

\* Until it is registered, a request has no answer but its handler's; while
\* its timer runs or has fired, it has none.
Unanswered ==
    /\ \A q \in Request :
        pc[q] \in {"idle", "asking", "asked"} => timer[q] = "off" /\ reply[q] = None
    /\ \A q \in Request : timer[q] # "off" => reply[q] = None

\* The connection follows the request, and a delivery is the reply of a
\* response that is not finished.
Connected ==
    /\ \A q \in Request : conn[q] = "none" => pc[q] = "idle"
    /\ \A q \in Request : conn[q] = "finished" => reply[q] # None
    /\ \A q \in Request : delivery[q] # None => reply[q] = delivery[q] /\ Live(q)

\* A hand is full from the store's answer to the next step only.  What runs
\* for a wake-up runs for a message that was sent, what runs for a request
\* runs once it listens.
Handed ==
    /\ \A c \in Consumer :
        hand[c] # None => step[c] = "resolving" \/ (c \in Request /\ pc[c] = "asked")
    /\ \A c \in Consumer : step[c] = "resolving" => hand[c] # None
    /\ \A w \in Wake : step[w] # "idle" => w[1] \in sent
    /\ \A q \in Request : pc[q] \in {"idle", "asking", "asked", "registered"} => step[q] = "idle"

\* No message twice.
Distinct(s) == \A n1, n2 \in DOMAIN s : s[n1] = s[n2] => n1 = n2

\* The parts of OnePlace, and that only what was sent is anywhere.
Apart ==
    /\ Distinct(inbox)
    /\ \A c1, c2 \in Consumer : hand[c1] = hand[c2] => hand[c1] = None \/ c1 = c2
    /\ \A q1, q2 \in Request :
        Live(q1) /\ Live(q2) /\ reply[q1] = reply[q2] => reply[q1] \notin Message \/ q1 = q2
    /\ \A c \in Consumer : hand[c] \notin ToSet(inbox)
    /\ \A q \in Request : Live(q) => reply[q] \notin ToSet(inbox)
    /\ \A c \in Consumer, q \in Request :
        Live(q) /\ reply[q] = hand[c] => hand[c] = None
    /\ \A m \in ToSet(received) :
        /\ m \notin ToSet(inbox)
        /\ \A c \in Consumer : hand[c] # m
        /\ \A q \in Request : Live(q) => reply[q] # m
    /\ ToSet(inbox) \subseteq sent
    /\ ToSet(received) \subseteq sent
    /\ \A c \in Consumer : hand[c] # None => hand[c] \in sent
    /\ \A q \in Request : reply[q] \in Message => reply[q] \in sent

DInv == TypeOK /\ Wired /\ Unanswered /\ Connected /\ Handed /\ Apart

----------------------------------------------------------------------------
(* Sequences without repetition *)

\* What the first element and the rest of a sequence hold.
LEMMA TailHolds ==
    ASSUME NEW s \in Seq(Message), s # <<>>, Distinct(s)
    PROVE  /\ Head(s) \in Message /\ Head(s) \in ToSet(s)
           /\ Tail(s) \in Seq(Message) /\ Distinct(Tail(s))
           /\ ToSet(Tail(s)) = ToSet(s) \ {Head(s)}
<1>1. /\ Len(s) \in Nat /\ Len(s) >= 1 /\ DOMAIN s = 1..Len(s)
      /\ Head(s) = s[1] /\ s[1] \in Message
      /\ Tail(s) \in Seq(Message) /\ DOMAIN Tail(s) = 1..(Len(s) - 1)
  OBVIOUS
<1>2. \A n \in 1..(Len(s) - 1) : Tail(s)[n] = s[n + 1]
  BY <1>1
<1>3. \A n \in DOMAIN Tail(s) : n + 1 \in DOMAIN s /\ n + 1 # 1 /\ Tail(s)[n] = s[n + 1]
  BY <1>1, <1>2
<1>4. Distinct(Tail(s))
  <2> SUFFICES ASSUME NEW n1 \in DOMAIN Tail(s), NEW n2 \in DOMAIN Tail(s),
                      Tail(s)[n1] = Tail(s)[n2]
               PROVE  n1 = n2
    BY DEF Distinct
  <2>1. n1 + 1 = n2 + 1
    BY <1>3 DEF Distinct
  <2> QED
    BY <1>1, <2>1
<1>5. ASSUME NEW m \in ToSet(Tail(s)) PROVE m \in ToSet(s) \ {Head(s)}
  <2>1. PICK n \in DOMAIN Tail(s) : m = Tail(s)[n]
    BY <1>5 DEF ToSet
  <2>2. n + 1 \in DOMAIN s /\ n + 1 # 1 /\ m = s[n + 1] /\ 1 \in DOMAIN s
    BY <1>1, <1>3, <2>1
  <2> QED
    BY <1>1, <2>2 DEF Distinct, ToSet
<1>6. ASSUME NEW m \in ToSet(s), m # Head(s) PROVE m \in ToSet(Tail(s))
  <2>1. PICK n \in DOMAIN s : m = s[n]
    BY <1>6 DEF ToSet
  <2>2. n # 1
    BY <1>1, <1>6, <2>1
  <2>3. n - 1 \in 1..(Len(s) - 1) /\ n - 1 + 1 = n
    BY <1>1, <2>1, <2>2
  <2>4. n - 1 \in DOMAIN Tail(s) /\ Tail(s)[n - 1] = m
    BY <1>1, <1>2, <2>1, <2>3
  <2> QED
    BY <2>4 DEF ToSet
<1>7. Head(s) \in ToSet(s)
  BY <1>1 DEF ToSet
<1> QED
  BY <1>1, <1>4, <1>5, <1>6, <1>7

\* What one sequence after another holds.
LEMMA ConcatHolds ==
    ASSUME NEW s1 \in Seq(Message), NEW s2 \in Seq(Message),
           Distinct(s1), Distinct(s2), ToSet(s1) \cap ToSet(s2) = {}
    PROVE  /\ s1 \o s2 \in Seq(Message) /\ Distinct(s1 \o s2)
           /\ ToSet(s1 \o s2) = ToSet(s1) \cup ToSet(s2)
<1> DEFINE l1 == Len(s1)
           l2 == Len(s2)
<1>1. /\ l1 \in Nat /\ l2 \in Nat /\ DOMAIN s1 = 1..l1 /\ DOMAIN s2 = 1..l2
      /\ s1 \o s2 \in Seq(Message) /\ DOMAIN (s1 \o s2) = 1..(l1 + l2)
      /\ \A n \in 1..l1 : (s1 \o s2)[n] = s1[n]
      /\ \A n \in (l1 + 1)..(l1 + l2) : (s1 \o s2)[n] = s2[n - l1]
  OBVIOUS
<1>2. \A n \in 1..l2 : (s1 \o s2)[n + l1] = s2[n]
  BY <1>1
<1> HIDE DEF l1, l2
<1>3. ASSUME NEW n \in 1..(l1 + l2)
      PROVE  \/ n \in 1..l1 /\ (s1 \o s2)[n] = s1[n] /\ s1[n] \in ToSet(s1)
             \/ /\ n \in (l1 + 1)..(l1 + l2) /\ n - l1 \in 1..l2
                /\ (s1 \o s2)[n] = s2[n - l1] /\ s2[n - l1] \in ToSet(s2)
  <2>1. CASE n \in 1..l1
    BY <1>1, <2>1 DEF ToSet
  <2>2. CASE n \in (l1 + 1)..(l1 + l2)
    <3>1. n - l1 \in 1..l2 /\ (s1 \o s2)[n] = s2[n - l1]
      BY <1>1, <2>2
    <3> QED
      BY <1>1, <2>2, <3>1 DEF ToSet
  <2> QED
    BY <1>1, <2>1, <2>2
<1>4. Distinct(s1 \o s2)
  <2> SUFFICES ASSUME NEW n1 \in 1..(l1 + l2), NEW n2 \in 1..(l1 + l2),
                      (s1 \o s2)[n1] = (s1 \o s2)[n2]
               PROVE  n1 = n2
    BY <1>1 DEF Distinct
  <2>1. CASE n1 \in 1..l1 /\ n2 \in 1..l1
    BY <1>1, <2>1 DEF Distinct
  <2>2. CASE n1 \in (l1 + 1)..(l1 + l2) /\ n2 \in (l1 + 1)..(l1 + l2)
    <3>1. n1 - l1 \in 1..l2 /\ n2 - l1 \in 1..l2 /\ s2[n1 - l1] = s2[n2 - l1]
      BY <1>1, <2>2
    <3>2. n1 - l1 = n2 - l1
      BY <1>1, <3>1 DEF Distinct
    <3> QED
      BY <1>1, <3>2
  <2> QED
    BY <1>1, <1>3, <2>1, <2>2
<1>5. ASSUME NEW m \in ToSet(s1) \cup ToSet(s2) PROVE m \in ToSet(s1 \o s2)
  <2>1. CASE m \in ToSet(s1)
    BY <1>1, <2>1 DEF ToSet
  <2>2. CASE m \in ToSet(s2)
    <3>1. PICK n \in 1..l2 : m = s2[n]
      BY <1>1, <2>2 DEF ToSet
    <3>2. n + l1 \in 1..(l1 + l2) /\ (s1 \o s2)[n + l1] = m
      BY <1>1, <1>2, <3>1
    <3> QED
      BY <1>1, <3>2 DEF ToSet
  <2> QED
    BY <1>5, <2>1, <2>2
<1>6. ToSet(s1 \o s2) \subseteq ToSet(s1) \cup ToSet(s2)
  BY <1>1, <1>3 DEF ToSet
<1> QED
  BY <1>1, <1>4, <1>5, <1>6

LEMMA OneHolds ==
    ASSUME NEW m \in Message
    PROVE  <<m>> \in Seq(Message) /\ Distinct(<<m>>) /\ ToSet(<<m>>) = {m}
BY DEF Distinct, ToSet

\* A message at the front.
LEMMA FrontHolds ==
    ASSUME NEW s \in Seq(Message), Distinct(s), NEW m \in Message, m \notin ToSet(s)
    PROVE  /\ <<m>> \o s \in Seq(Message) /\ Distinct(<<m>> \o s)
           /\ ToSet(<<m>> \o s) = ToSet(s) \cup {m}
<1> DEFINE one == <<m>>
<1>1. one \in Seq(Message) /\ Distinct(one) /\ ToSet(one) = {m}
  BY OneHolds
<1> HIDE DEF one
<1>2. /\ one \o s \in Seq(Message) /\ Distinct(one \o s)
      /\ ToSet(one \o s) = ToSet(one) \cup ToSet(s)
  BY <1>1, ConcatHolds
<1> QED
  BY <1>1, <1>2 DEF one

LEMMA AppendHolds ==
    ASSUME NEW s \in Seq(Message), NEW m \in Message
    PROVE  Append(s, m) \in Seq(Message) /\ ToSet(Append(s, m)) = ToSet(s) \cup {m}
<1>1. /\ Len(s) \in Nat /\ DOMAIN s = 1..Len(s)
      /\ Append(s, m) \in Seq(Message) /\ DOMAIN Append(s, m) = 1..(Len(s) + 1)
      /\ \A n \in 1..Len(s) : Append(s, m)[n] = s[n]
      /\ Append(s, m)[Len(s) + 1] = m
  OBVIOUS
<1>2. ASSUME NEW x \in ToSet(Append(s, m)) PROVE x \in ToSet(s) \cup {m}
  <2>1. PICK n \in 1..(Len(s) + 1) : x = Append(s, m)[n]
    BY <1>1, <1>2 DEF ToSet
  <2>2. n \in 1..Len(s) \/ n = Len(s) + 1
    BY <1>1, <2>1
  <2> QED
    BY <1>1, <2>1, <2>2 DEF ToSet
<1>3. ASSUME NEW x \in ToSet(s) PROVE x \in ToSet(Append(s, m))
  <2>1. PICK n \in 1..Len(s) : x = s[n]
    BY <1>1, <1>3 DEF ToSet
  <2>2. n \in 1..(Len(s) + 1) /\ x = Append(s, m)[n]
    BY <1>1, <2>1
  <2> QED
    BY <1>1, <2>2 DEF ToSet
<1>4. m \in ToSet(Append(s, m))
  <2>1. Len(s) + 1 \in 1..(Len(s) + 1)
    BY <1>1
  <2> QED
    BY <1>1, <2>1 DEF ToSet
<1> QED
  BY <1>1, <1>2, <1>3, <1>4

\* A message at the end.
LEMMA LastHolds ==
    ASSUME NEW s \in Seq(Message), Distinct(s), NEW m \in Message, m \notin ToSet(s)
    PROVE  Distinct(Append(s, m))
<1>1. /\ Len(s) \in Nat /\ DOMAIN s = 1..Len(s)
      /\ DOMAIN Append(s, m) = 1..(Len(s) + 1)
      /\ \A n \in 1..Len(s) : Append(s, m)[n] = s[n] /\ s[n] # m
      /\ Append(s, m)[Len(s) + 1] = m
  BY DEF ToSet
<1>2. \A n \in 1..(Len(s) + 1) : n \in 1..Len(s) \/ n = Len(s) + 1
  BY <1>1
<1> QED
  BY <1>1, <1>2 DEF Distinct

\* The messages of one send.
LEMMA BatchHolds ==
    ASSUME NEW batch \in Batches
    PROVE  /\ batch \in Seq(Message) /\ Distinct(batch)
           /\ Head(batch) \in ToSet(batch) /\ ToSet(batch) \subseteq Message
<1>1. CASE batch \in {<<m>> : m \in Message}
  <2>1. PICK m \in Message : batch = <<m>>
    BY <1>1
  <2> QED
    BY <2>1 DEF Distinct, ToSet
<1>2. CASE batch \in {<<p[1], p[2]>> : p \in {p \in Message \X Message : p[1] # p[2]}}
  <2>1. PICK p \in Message \X Message : p[1] # p[2] /\ batch = <<p[1], p[2]>>
    BY <1>2
  <2>2. DOMAIN batch = 1..2 /\ batch[1] = p[1] /\ batch[2] = p[2] /\ Head(batch) = p[1]
        /\ p[1] \in Message /\ p[2] \in Message /\ batch \in Seq(Message)
    BY <2>1
  <2> QED
    BY <2>1, <2>2 DEF Distinct, ToSet
<1> QED
  BY <1>1, <1>2 DEF Batches

----------------------------------------------------------------------------
(* What the operations on the inbox and the registry do *)

LEMMA ConsumerIs == Wake \subseteq Consumer /\ Request \subseteq Consumer
BY DEF Consumer

\* A consumer that is in consumeWake() has its instance.
LEMMA RunsSomewhere ==
    ASSUME TypeOK, Wired, Handed, NEW c \in Consumer, c \in Request => step[c] # "idle"
    PROVE  InstanceOf(c) \in Instance
BY DEF InstanceOf, Consumer, Wake, Wired, Handed, TypeOK

\* What is taken from the inbox.
LEMMA TakeFirstHolds ==
    ASSUME TypeOK, Apart, NEW c \in Consumer, TakeFirst(c)
    PROVE  /\ hand' = [hand EXCEPT ![c] = hand'[c]]
           /\ inbox' \in Seq(Message) /\ Distinct(inbox')
           /\ \/ inbox = <<>> /\ hand'[c] = None /\ ToSet(inbox') = ToSet(inbox)
              \/ /\ inbox # <<>>
                 /\ hand'[c] \in Message /\ hand'[c] \in ToSet(inbox)
                 /\ ToSet(inbox') = ToSet(inbox) \ {hand'[c]}
<1>1. CASE inbox = <<>>
  BY <1>1 DEF TakeFirst, TypeOK, Apart
<1>2. CASE inbox # <<>>
  <2>1. hand' = [hand EXCEPT ![c] = Head(inbox)] /\ inbox' = Tail(inbox)
    BY <1>2 DEF TakeFirst
  <2>2. hand'[c] = Head(inbox)
    BY <2>1 DEF TypeOK
  <2> QED
    BY <1>2, <2>1, <2>2, TailHolds DEF TypeOK, Apart
<1> QED
  BY <1>1, <1>2

\* What PutBack() makes of the inbox.
LEMMA PutBackHolds ==
    ASSUME TypeOK, Apart, NEW m \in Message, m \notin ToSet(inbox), PutBack(m)
    PROVE  /\ inbox' \in Seq(Message) /\ Distinct(inbox')
           /\ ToSet(inbox') = ToSet(inbox) \cup {m}
           /\ unannounced' = unannounced \cup {m}
BY FrontHolds DEF PutBack, TypeOK, Apart

\* Clearing an entry stops the timer of the request that waited.
LEMMA ClearHolds ==
    ASSUME TypeOK, NEW i \in Instance, Clear(i)
    PROVE  /\ waiter' \in [Instance -> Request \cup {None}]
           /\ timer' \in [Request -> {"off", "set", "fired"}]
           /\ \A j \in Instance : waiter'[j] = IF j = i THEN None ELSE waiter[j]
           /\ \A q \in Request : timer'[q] = IF q = waiter[i] THEN "off" ELSE timer[q]
BY NoneAssumption DEF Clear, TypeOK

\* A 'close' listener leaves the registry alone, or clears the entry of its
\* request's instance.
LEMMA CloseHolds ==
    ASSUME TypeOK, Wired, NEW q \in Request, CloseListener(q)
    PROVE  \/ UNCHANGED <<waiter, timer, evicted>>
           \/ /\ at[q] \in Instance /\ Clear(at[q])
              /\ evicted' \subseteq Request
BY DEF CloseListener, Wired, TypeOK

\* resolveIfActive() puts the message back, or makes it the reply of the
\* request that waits; its entry is gone either way.
LEMMA ResolveHolds ==
    ASSUME DInv, NEW c \in Consumer, Resolve(c)
    PROVE  /\ step[c] = "resolving" /\ InstanceOf(c) \in Instance
           /\ hand[c] \in Message /\ hand[c] \notin ToSet(inbox) /\ hand[c] \in sent
           /\ hand' = [hand EXCEPT ![c] = None] /\ step' = [step EXCEPT ![c] = "done"]
           /\ UNCHANGED <<draining, at, conn, pc, sent, received, evicted>>
           /\ \/ waiter[InstanceOf(c)] = None /\ UNCHANGED <<waiter, timer>>
              \/ waiter[InstanceOf(c)] \in Request /\ Clear(InstanceOf(c))
           /\ \/ PutBack(hand[c]) /\ UNCHANGED <<reply, delivery>>
              \/ /\ UNCHANGED <<inbox, unannounced>>
                 /\ waiter[InstanceOf(c)] \in Request /\ Live(waiter[InstanceOf(c)])
                 /\ reply' = [reply EXCEPT ![waiter[InstanceOf(c)]] = hand[c]]
                 /\ delivery' = [delivery EXCEPT ![waiter[InstanceOf(c)]] = hand[c]]
<1>1. step[c] = "resolving" /\ hand[c] \in Message /\ hand[c] \notin ToSet(inbox)
      /\ hand[c] \in sent
  BY DEF Resolve, DInv, Handed, Apart, TypeOK
<1>2. InstanceOf(c) \in Instance /\ waiter[InstanceOf(c)] \in Request \cup {None}
  BY <1>1, RunsSomewhere DEF DInv, TypeOK
<1> QED
  BY <1>1, <1>2, NoneAssumption DEF Resolve, TakeEntry, AfterResolved

\* When a connection closes, its unfinished delivery is put back.
LEMMA ConnectionClosesHolds ==
    ASSUME DInv, NEW q \in Request, ConnectionCloses(q)
    PROVE  \/ delivery[q] = None /\ UNCHANGED <<inbox, unannounced>>
           \/ /\ delivery[q] \in Message /\ reply[q] = delivery[q] /\ Live(q)
              /\ delivery[q] \notin ToSet(inbox) /\ delivery[q] \in sent
              /\ PutBack(delivery[q])
BY DEF ConnectionCloses, Unfinished, DInv, Connected, Apart, TypeOK


----------------------------------------------------------------------------
(* Every step keeps each part of the invariant *)

LEMMA KeepTypes == ASSUME DInv, [Next]_vars PROVE TypeOK'
<1> USE NoneAssumption, ConsumerIs DEF DInv
<1>1. ASSUME NEW batch \in Batches, SendBatch(batch) PROVE TypeOK'
  BY <1>1, BatchHolds DEF SendBatch, TypeOK
<1>2. ASSUME NEW q \in Request, NEW i \in Instance, Arrive(q, i) PROVE TypeOK'
  BY <1>2 DEF Arrive, Notices, history, TypeOK
<1>3. ASSUME NEW q \in Request, Refuse(q) PROVE TypeOK'
  BY <1>3 DEF Refuse, Notices, history, TypeOK
<1>4. ASSUME NEW q \in Request, AskInbox(q) PROVE TypeOK'
  <2>1. inbox' \in Seq(Message) /\ hand' \in [Consumer -> Message \cup {None}]
    BY <1>4, TakeFirstHolds DEF AskInbox, TypeOK
  <2>2. pc' \in [Request -> {"idle", "asking", "asked", "registered", "listening", "done"}]
    BY <1>4 DEF AskInbox, TypeOK
  <2> QED
    BY <1>4, <2>1, <2>2 DEF AskInbox, history, TypeOK
<1>5. ASSUME NEW q \in Request, ReplyQueued(q) PROVE TypeOK'
  BY <1>5 DEF ReplyQueued, history, TypeOK
<1>6. ASSUME NEW q \in Request, RegisterWaiter(q) PROVE TypeOK'
  <2>1. at[q] \in Instance
    BY <1>6 DEF RegisterWaiter, Wired
  <2>2. CASE waiter[at[q]] = None
    BY <1>6, <2>1, <2>2 DEF RegisterWaiter, history, TypeOK
  <2>3. CASE waiter[at[q]] # None
    BY <1>6, <2>1, <2>3 DEF RegisterWaiter, Notices, history, TypeOK
  <2> QED
    BY <2>2, <2>3
<1>7. ASSUME NEW q \in Request, Listen(q) PROVE TypeOK'
  BY <1>7 DEF Listen, LastLook, WakeStep, history, TypeOK
<1>8. ASSUME NEW q \in Request, TimerFires(q) PROVE TypeOK'
  BY <1>8 DEF TimerFires, history, TypeOK
<1>9. ASSUME NEW q \in Request, TimeOut(q) PROVE TypeOK'
  BY <1>9 DEF TimeOut, TimeoutReply, Notices, history, TypeOK
<1>10. ASSUME NEW q \in Request, GiveUp(q) PROVE TypeOK'
  BY <1>10 DEF GiveUp, history, TypeOK
<1>11. ASSUME NEW q \in Request, Finish(q) PROVE TypeOK'
  <2>1. received' \in Seq(Message)
    BY <1>11, AppendHolds DEF Finish, TypeOK
  <2>2. /\ waiter' \in [Instance -> Request \cup {None}]
        /\ timer' \in [Request -> {"off", "set", "fired"}]
        /\ evicted' \subseteq Request
    BY <1>11, CloseHolds, ClearHolds DEF Finish, TypeOK
  <2> QED
    BY <1>11, <2>1, <2>2 DEF Finish, TypeOK
<1>12. ASSUME NEW q \in Request, ConnectionCloses(q) PROVE TypeOK'
  <2>1. inbox' \in Seq(Message) /\ unannounced' \subseteq sent
    <3>1. CASE UNCHANGED <<inbox, unannounced>>
      BY <3>1 DEF TypeOK
    <3>2. CASE delivery[q] \in Message /\ delivery[q] \notin ToSet(inbox)
               /\ delivery[q] \in sent /\ PutBack(delivery[q])
      BY <3>2, PutBackHolds DEF TypeOK
    <3> QED
      BY <1>12, <3>1, <3>2, ConnectionClosesHolds
  <2> QED
    BY <1>12, <2>1, CloseHolds, ClearHolds DEF ConnectionCloses, TypeOK
<1>13. ASSUME NEW w \in Wake, Woken(w) PROVE TypeOK'
  BY <1>13 DEF Woken, WakeStep, history, TypeOK
<1>14. ASSUME NEW c \in Consumer, Pop(c) PROVE TypeOK'
  BY <1>14, TakeFirstHolds DEF Pop, AfterPop, history, TypeOK
<1>15. ASSUME NEW c \in Consumer, Resolve(c) PROVE TypeOK'
  <2>1. inbox' \in Seq(Message) /\ unannounced' \subseteq sent'
    BY <1>15, ResolveHolds, PutBackHolds DEF TypeOK
  <2>2. /\ waiter' \in [Instance -> Request \cup {None}]
        /\ timer' \in [Request -> {"off", "set", "fired"}]
    BY <1>15, ResolveHolds, ClearHolds DEF TypeOK
  <2>3. /\ reply' \in [Request -> Message \cup Notices \cup {None}]
        /\ delivery' \in [Request -> Message \cup {None}]
    <3>1. CASE UNCHANGED <<reply, delivery>>
      BY <3>1 DEF TypeOK
    <3>2. ASSUME NEW q \in Request, reply' = [reply EXCEPT ![q] = hand[c]],
                 delivery' = [delivery EXCEPT ![q] = hand[c]]
          PROVE  /\ reply' \in [Request -> Message \cup Notices \cup {None}]
                 /\ delivery' \in [Request -> Message \cup {None}]
      BY <1>15, <3>2, ResolveHolds DEF TypeOK
    <3> QED
      BY <1>15, <3>1, <3>2, ResolveHolds
  <2>4. /\ hand' \in [Consumer -> Message \cup {None}]
        /\ step' \in [Consumer -> {"idle", "woken", "popping", "resolving", "done"}]
    BY <1>15, ResolveHolds DEF TypeOK
  <2> QED
    BY <1>15, <2>1, <2>2, <2>3, <2>4, ResolveHolds DEF TypeOK
<1>16. ASSUME NEW i \in Instance, BeginDrain(i) PROVE TypeOK'
  BY <1>16, ClearHolds DEF BeginDrain, TakeEntry, Notices, history, TypeOK
<1>17. CASE UNCHANGED vars
  BY <1>17 DEF vars, history, TypeOK
<1>18. ASSUME NEW m \in Message, ExpireRoom(m) PROVE TypeOK'
  BY <1>18, AppendHolds DEF ExpireRoom, TypeOK
<1> QED
  BY <1>1, <1>2, <1>3, <1>4, <1>5, <1>6, <1>7, <1>8, <1>9, <1>10, <1>11, <1>12, <1>13, <1>14, <1>15, <1>16, <1>17, <1>18 DEF Next, Handle, Consume

\* A request's timer, its entry and its instance.
LEMMA KeepWired == ASSUME DInv, [Next]_vars PROVE Wired'
<1> USE NoneAssumption, ConsumerIs DEF DInv
<1>1. ASSUME NEW batch \in Batches, SendBatch(batch) PROVE Wired'
  BY <1>1 DEF SendBatch, Wired
<1>2. ASSUME NEW q \in Request, NEW i \in Instance, Arrive(q, i) PROVE Wired'
  BY <1>2 DEF Arrive, Wired, TypeOK, Unanswered
<1>3. ASSUME NEW q \in Request, Refuse(q) PROVE Wired'
  BY <1>3 DEF Refuse, Wired
<1>4. ASSUME NEW q \in Request, AskInbox(q) PROVE Wired'
  BY <1>4 DEF AskInbox, Wired
<1>5. ASSUME NEW q \in Request, ReplyQueued(q) PROVE Wired'
  BY <1>5 DEF ReplyQueued, Wired
<1>6. ASSUME NEW q \in Request, RegisterWaiter(q) PROVE Wired'
  BY <1>6 DEF RegisterWaiter, Wired, TypeOK
<1>7. ASSUME NEW q \in Request, Listen(q) PROVE Wired'
  BY <1>7 DEF Listen, LastLook, WakeStep, Wired
<1>8. ASSUME NEW q \in Request, TimerFires(q) PROVE Wired'
  BY <1>8 DEF TimerFires, Wired, TypeOK
<1>9. ASSUME NEW q \in Request, TimeOut(q) PROVE Wired'
  BY <1>9 DEF TimeOut, TimeoutReply, Wired
<1>10. ASSUME NEW q \in Request, GiveUp(q) PROVE Wired'
  BY <1>10 DEF GiveUp, Wired
<1>11. ASSUME NEW q \in Request, Finish(q) PROVE Wired'
  BY <1>11, CloseHolds, ClearHolds DEF Finish, Live, Wired
<1>12. ASSUME NEW q \in Request, ConnectionCloses(q) PROVE Wired'
  BY <1>12, CloseHolds, ClearHolds DEF ConnectionCloses, Unfinished, Wired
<1>13. ASSUME NEW w \in Wake, Woken(w) PROVE Wired'
  BY <1>13 DEF Woken, WakeStep, Wired
<1>14. ASSUME NEW c \in Consumer, Pop(c) PROVE Wired'
  BY <1>14 DEF Pop, AfterPop, Wired
<1>15. ASSUME NEW c \in Consumer, Resolve(c) PROVE Wired'
  BY <1>15, ResolveHolds, ClearHolds DEF Wired
<1>16. ASSUME NEW i \in Instance, BeginDrain(i) PROVE Wired'
  BY <1>16, ClearHolds DEF BeginDrain, TakeEntry, Wired
<1>17. CASE UNCHANGED vars
  BY <1>17 DEF vars, Wired
<1>18. ASSUME NEW m \in Message, ExpireRoom(m) PROVE Wired'
  BY <1>18 DEF ExpireRoom, Wired
<1> QED
  BY <1>1, <1>2, <1>3, <1>4, <1>5, <1>6, <1>7, <1>8, <1>9, <1>10, <1>11, <1>12, <1>13, <1>14, <1>15, <1>16, <1>17, <1>18 DEF Next, Handle, Consume

\* Whoever answers finds no answer.
LEMMA KeepUnanswered == ASSUME DInv, [Next]_vars PROVE Unanswered'
<1> USE NoneAssumption, ConsumerIs DEF DInv
<1>1. ASSUME NEW batch \in Batches, SendBatch(batch) PROVE Unanswered'
  BY <1>1 DEF SendBatch, Unanswered
<1>2. ASSUME NEW q \in Request, NEW i \in Instance, Arrive(q, i) PROVE Unanswered'
  BY <1>2 DEF Arrive, Unanswered, TypeOK
<1>3. ASSUME NEW q \in Request, Refuse(q) PROVE Unanswered'
  BY <1>3 DEF Refuse, Unanswered, TypeOK
<1>4. ASSUME NEW q \in Request, AskInbox(q) PROVE Unanswered'
  BY <1>4 DEF AskInbox, Unanswered
<1>5. ASSUME NEW q \in Request, ReplyQueued(q) PROVE Unanswered'
  BY <1>5 DEF ReplyQueued, Unanswered, TypeOK
<1>6. ASSUME NEW q \in Request, RegisterWaiter(q) PROVE Unanswered'
  <2>1. CASE waiter[at[q]] = None
    BY <1>6, <2>1 DEF RegisterWaiter, Unanswered, TypeOK
  <2>2. CASE waiter[at[q]] # None
    BY <1>6, <2>2 DEF RegisterWaiter, Unanswered, TypeOK
  <2> QED
    BY <2>1, <2>2
<1>7. ASSUME NEW q \in Request, Listen(q) PROVE Unanswered'
  BY <1>7 DEF Listen, LastLook, WakeStep, Unanswered
<1>8. ASSUME NEW q \in Request, TimerFires(q) PROVE Unanswered'
  BY <1>8 DEF TimerFires, Unanswered
<1>9. ASSUME NEW q \in Request, TimeOut(q) PROVE Unanswered'
  BY <1>9 DEF TimeOut, TimeoutReply, Unanswered, TypeOK
<1>10. ASSUME NEW q \in Request, GiveUp(q) PROVE Unanswered'
  BY <1>10 DEF GiveUp, Unanswered
<1>11. ASSUME NEW q \in Request, Finish(q) PROVE Unanswered'
  BY <1>11, CloseHolds, ClearHolds DEF Finish, Unanswered
<1>12. ASSUME NEW q \in Request, ConnectionCloses(q) PROVE Unanswered'
  BY <1>12, CloseHolds, ClearHolds DEF ConnectionCloses, Unfinished, Unanswered
<1>13. ASSUME NEW w \in Wake, Woken(w) PROVE Unanswered'
  BY <1>13 DEF Woken, WakeStep, Unanswered
<1>14. ASSUME NEW c \in Consumer, Pop(c) PROVE Unanswered'
  BY <1>14 DEF Pop, AfterPop, Unanswered
<1>15. ASSUME NEW c \in Consumer, Resolve(c) PROVE Unanswered'
  BY <1>15, ResolveHolds, ClearHolds DEF Wired, Unanswered, TypeOK
<1>16. ASSUME NEW i \in Instance, BeginDrain(i) PROVE Unanswered'
  BY <1>16, ClearHolds DEF BeginDrain, TakeEntry, Wired, Unanswered
<1>17. CASE UNCHANGED vars
  BY <1>17 DEF vars, Unanswered
<1>18. ASSUME NEW m \in Message, ExpireRoom(m) PROVE Unanswered'
  BY <1>18 DEF ExpireRoom, Unanswered
<1> QED
  BY <1>1, <1>2, <1>3, <1>4, <1>5, <1>6, <1>7, <1>8, <1>9, <1>10, <1>11, <1>12, <1>13, <1>14, <1>15, <1>16, <1>17, <1>18 DEF Next, Handle, Consume

\* A delivery is pending while its response is.
LEMMA KeepConnected == ASSUME DInv, [Next]_vars PROVE Connected'
<1> USE NoneAssumption, ConsumerIs DEF DInv
<1>1. ASSUME NEW batch \in Batches, SendBatch(batch) PROVE Connected'
  BY <1>1 DEF SendBatch, Connected, Live
<1>2. ASSUME NEW q \in Request, NEW i \in Instance, Arrive(q, i) PROVE Connected'
  BY <1>2 DEF Arrive, Unanswered, Connected, Live, TypeOK
<1>3. ASSUME NEW q \in Request, Refuse(q) PROVE Connected'
  BY <1>3 DEF Refuse, Unanswered, Connected, Live
<1>4. ASSUME NEW q \in Request, AskInbox(q) PROVE Connected'
  BY <1>4 DEF AskInbox, Connected, Live
<1>5. ASSUME NEW q \in Request, ReplyQueued(q) PROVE Connected'
  BY <1>5 DEF ReplyQueued, Unanswered, Connected, Live
<1>6. ASSUME NEW q \in Request, RegisterWaiter(q) PROVE Connected'
  BY <1>6 DEF RegisterWaiter, Unanswered, Connected, Live, TypeOK
<1>7. ASSUME NEW q \in Request, Listen(q) PROVE Connected'
  BY <1>7 DEF Listen, LastLook, WakeStep, Connected, Live
<1>8. ASSUME NEW q \in Request, TimerFires(q) PROVE Connected'
  BY <1>8 DEF TimerFires, Connected, Live
<1>9. ASSUME NEW q \in Request, TimeOut(q) PROVE Connected'
  BY <1>9 DEF TimeOut, TimeoutReply, Unanswered, Connected, Live
<1>10. ASSUME NEW q \in Request, GiveUp(q) PROVE Connected'
  BY <1>10 DEF GiveUp, Connected, Live
<1>11. ASSUME NEW q \in Request, Finish(q) PROVE Connected'
  BY <1>11 DEF Finish, Connected, Live, TypeOK
<1>12. ASSUME NEW q \in Request, ConnectionCloses(q) PROVE Connected'
  BY <1>12 DEF ConnectionCloses, Unfinished, Connected, Live, TypeOK
<1>13. ASSUME NEW w \in Wake, Woken(w) PROVE Connected'
  BY <1>13 DEF Woken, WakeStep, Connected, Live
<1>14. ASSUME NEW c \in Consumer, Pop(c) PROVE Connected'
  BY <1>14 DEF Pop, AfterPop, Connected, Live
<1>15. ASSUME NEW c \in Consumer, Resolve(c) PROVE Connected'
  <2>1. conn' = conn /\ pc' = pc
    BY <1>15, ResolveHolds
  <2>2. CASE UNCHANGED <<reply, delivery>>
    BY <2>1, <2>2 DEF Connected, Live
  <2>3. ASSUME NEW q \in Request, Live(q),
               reply' = [reply EXCEPT ![q] = hand[c]],
               delivery' = [delivery EXCEPT ![q] = hand[c]]
        PROVE  Connected'
    <3>1. hand[c] \in Message
      BY <1>15, ResolveHolds
    <3> QED
      BY <2>1, <2>3, <3>1 DEF Connected, Live, TypeOK
  <2> QED
    BY <1>15, <2>2, <2>3, ResolveHolds
<1>16. ASSUME NEW i \in Instance, BeginDrain(i) PROVE Connected'
  BY <1>16 DEF BeginDrain, TakeEntry, Wired, Unanswered, Connected, Live
<1>17. CASE UNCHANGED vars
  BY <1>17 DEF vars, Connected, Live
<1>18. ASSUME NEW m \in Message, ExpireRoom(m) PROVE Connected'
  BY <1>18 DEF ExpireRoom, Connected, Live
<1> QED
  BY <1>1, <1>2, <1>3, <1>4, <1>5, <1>6, <1>7, <1>8, <1>9, <1>10, <1>11, <1>12, <1>13, <1>14, <1>15, <1>16, <1>17, <1>18 DEF Next, Handle, Consume

\* A hand is full while something is on its way.
LEMMA KeepHanded == ASSUME DInv, [Next]_vars PROVE Handed'
<1> USE NoneAssumption, ConsumerIs DEF DInv
<1>1. ASSUME NEW batch \in Batches, SendBatch(batch) PROVE Handed'
  <2>1. Head(batch) \in Message \ sent /\ sent \subseteq sent'
    <3>1. Head(batch) \in ToSet(batch) /\ ToSet(batch) \subseteq Message
      BY BatchHolds
    <3>2. PICK n \in DOMAIN batch : Head(batch) = batch[n]
      BY <3>1 DEF ToSet
    <3> QED
      BY <1>1, <3>1, <3>2 DEF SendBatch
  <2>2. Head(batch) \in sent'
    BY <1>1, BatchHolds DEF SendBatch
  <2> DEFINE new == {<<Head(batch), i>> : i \in Instance}
  <2>3. new \subseteq Wake /\ \A w \in new : w[1] = Head(batch) /\ step[w] = "idle"
    BY <2>1 DEF Wake, Handed
  <2>4. \A c \in Consumer : step'[c] = IF c \in new THEN "woken" ELSE step[c]
    BY <1>1 DEF SendBatch
  <2>5. \A c \in new : hand[c] = None /\ c \notin Request
    BY <2>3 DEF Handed
  <2> HIDE DEF new
  <2> QED
    BY <1>1, <2>1, <2>2, <2>3, <2>4, <2>5 DEF SendBatch, Handed
<1>2. ASSUME NEW q \in Request, NEW i \in Instance, Arrive(q, i) PROVE Handed'
  BY <1>2 DEF Arrive, history, Handed, Consumer, TypeOK
<1>3. ASSUME NEW q \in Request, Refuse(q) PROVE Handed'
  BY <1>3 DEF Refuse, history, Handed, Consumer
<1>4. ASSUME NEW q \in Request, AskInbox(q) PROVE Handed'
  BY <1>4, TakeFirstHolds DEF AskInbox, history, Handed, Consumer, TypeOK
<1>5. ASSUME NEW q \in Request, ReplyQueued(q) PROVE Handed'
  BY <1>5 DEF ReplyQueued, history, Handed, Consumer, TypeOK
<1>6. ASSUME NEW q \in Request, RegisterWaiter(q) PROVE Handed'
  BY <1>6 DEF RegisterWaiter, history, Handed, Consumer, TypeOK
<1>7. ASSUME NEW q \in Request, Listen(q) PROVE Handed'
  BY <1>7 DEF Listen, LastLook, WakeStep, history, Handed, Consumer, TypeOK
<1>8. ASSUME NEW q \in Request, TimerFires(q) PROVE Handed'
  BY <1>8 DEF TimerFires, history, Handed, Consumer
<1>9. ASSUME NEW q \in Request, TimeOut(q) PROVE Handed'
  BY <1>9 DEF TimeOut, TimeoutReply, history, Handed, Consumer
<1>10. ASSUME NEW q \in Request, GiveUp(q) PROVE Handed'
  BY <1>10 DEF GiveUp, history, Handed, Consumer
<1>11. ASSUME NEW q \in Request, Finish(q) PROVE Handed'
  BY <1>11 DEF Finish, Handed, Consumer
<1>12. ASSUME NEW q \in Request, ConnectionCloses(q) PROVE Handed'
  BY <1>12 DEF ConnectionCloses, Unfinished, Handed, Consumer
<1>13. ASSUME NEW w \in Wake, Woken(w) PROVE Handed'
  BY <1>13 DEF Woken, WakeStep, history, Handed, Consumer
<1>14. ASSUME NEW c \in Consumer, Pop(c) PROVE Handed'
  BY <1>14, TakeFirstHolds DEF Pop, AfterPop, history, Handed, Consumer, TypeOK
<1>15. ASSUME NEW c \in Consumer, Resolve(c) PROVE Handed'
  BY <1>15, ResolveHolds DEF Wired, Unanswered, Handed, Consumer, TypeOK
<1>16. ASSUME NEW i \in Instance, BeginDrain(i) PROVE Handed'
  BY <1>16 DEF BeginDrain, TakeEntry, history, Handed, Consumer
<1>17. CASE UNCHANGED vars
  BY <1>17 DEF vars, history, Handed, Consumer
<1>18. ASSUME NEW m \in Message, ExpireRoom(m) PROVE Handed'
  BY <1>18 DEF ExpireRoom, Handed, Wake
<1> QED
  BY <1>1, <1>2, <1>3, <1>4, <1>5, <1>6, <1>7, <1>8, <1>9, <1>10, <1>11, <1>12, <1>13, <1>14, <1>15, <1>16, <1>17, <1>18 DEF Next, Handle, Consume

\* Taking the first message moves it to a hand.
LEMMA TakeApart ==
    ASSUME DInv, NEW c \in Consumer, TakeFirst(c), UNCHANGED <<conn, reply, sent, received>>
    PROVE  Apart'
<1> USE NoneAssumption DEF DInv
<1>1. CASE inbox = <<>> /\ hand'[c] = None /\ ToSet(inbox') = ToSet(inbox)
  <2>1. /\ \A d \in Consumer : hand'[d] = IF d = c THEN None ELSE hand[d]
        /\ Distinct(inbox') /\ None \notin ToSet(inbox) /\ None \notin ToSet(received)
    BY <1>1, TakeFirstHolds DEF ToSet, TypeOK
  <2>2. Distinct(inbox)'
    BY <2>1 DEF Distinct
  <2> QED
    BY <1>1, <2>1, <2>2 DEF Apart, Live
<1>2. ASSUME hand'[c] \in Message, hand'[c] \in ToSet(inbox),
             ToSet(inbox') = ToSet(inbox) \ {hand'[c]}
      PROVE  Apart'
  <2> DEFINE m == hand'[c]
  <2>1. /\ hand' = [hand EXCEPT ![c] = m] /\ Distinct(inbox')
        /\ \A d \in Consumer : hand'[d] = IF d = c THEN m ELSE hand[d]
        /\ m \in sent /\ m \notin ToSet(received) /\ m # None
        /\ \A d \in Consumer : hand[d] # m
        /\ \A q \in Request : Live(q) => reply[q] # m
    BY <1>2, TakeFirstHolds DEF Apart, TypeOK
  <2>2. ToSet(inbox') = ToSet(inbox) \ {m}
    BY <1>2
  <2> HIDE DEF m
  <2>3. Distinct(inbox)'
    BY <2>1 DEF Distinct
  <2>4. \A c1, c2 \in Consumer : hand'[c1] = hand'[c2] => hand'[c1] = None \/ c1 = c2
    BY <2>1 DEF Apart
  <2> QED
    BY <2>1, <2>2, <2>3, <2>4 DEF Apart, Live
<1> QED
  BY <1>1, <1>2, TakeFirstHolds

\* A message moves from one place to another.
LEMMA KeepApart == ASSUME DInv, [Next]_vars PROVE Apart'
<1> USE NoneAssumption, ConsumerIs DEF DInv
<1>1. ASSUME NEW batch \in Batches, SendBatch(batch) PROVE Apart'
  <2>1. /\ batch \in Seq(Message) /\ Distinct(batch)
        /\ \A m \in ToSet(batch) : m \in Message /\ m \notin sent
    BY <1>1, BatchHolds DEF SendBatch, ToSet
  <2>2. Distinct(inbox') /\ ToSet(inbox') = ToSet(inbox) \cup ToSet(batch)
    BY <1>1, <2>1, ConcatHolds DEF SendBatch, Apart, TypeOK
  <2>3. Distinct(inbox)'
    BY <2>2 DEF Distinct
  <2>4. \A c \in Consumer : hand[c] \notin ToSet(batch)
    BY <2>1 DEF Apart
  <2>5. \A q \in Request : reply[q] \notin ToSet(batch)
    BY <2>1 DEF Apart
  <2> QED
    BY <1>1, <2>1, <2>2, <2>3, <2>4, <2>5 DEF SendBatch, Apart, Live
<1>2. ASSUME NEW q \in Request, NEW i \in Instance, Arrive(q, i) PROVE Apart'
  BY <1>2 DEF Arrive, Notices, history, Unanswered, Connected, Handed, Apart, Live, TypeOK
<1>3. ASSUME NEW q \in Request, Refuse(q) PROVE Apart'
  BY <1>3 DEF Refuse, Notices, history, Apart, Live, TypeOK
<1>4. ASSUME NEW q \in Request, AskInbox(q) PROVE Apart'
  BY <1>4, TakeApart DEF AskInbox, history
<1>5. ASSUME NEW q \in Request, ReplyQueued(q) PROVE Apart'
  BY <1>5 DEF ReplyQueued, history, Apart, Live, TypeOK
<1>6. ASSUME NEW q \in Request, RegisterWaiter(q) PROVE Apart'
  <2>1. \A r \in Request : reply'[r] = reply[r] \/ reply'[r] = "conflict"
    BY <1>6 DEF RegisterWaiter, TypeOK
  <2>2. "conflict" \notin Message
    BY DEF Notices
  <2>3. /\ \A r \in Request : reply'[r] \in Message => reply'[r] = reply[r]
        /\ ToSet(inbox) \subseteq Message /\ ToSet(received) \subseteq Message
        /\ \A c \in Consumer : hand[c] \in Message \cup {None}
    BY <2>1, <2>2 DEF ToSet, TypeOK
  <2>4. \A r \in Request : reply'[r] # None => reply[r] # None \/ reply'[r] = "conflict"
    BY <2>1
  <2> QED
    BY <1>6, <2>1, <2>2, <2>3, <2>4 DEF RegisterWaiter, history, Apart, Distinct, Live
<1>7. ASSUME NEW q \in Request, Listen(q) PROVE Apart'
  BY <1>7 DEF Listen, LastLook, WakeStep, history, Apart, Live
<1>8. ASSUME NEW q \in Request, TimerFires(q) PROVE Apart'
  BY <1>8 DEF TimerFires, history, Apart, Live
<1>9. ASSUME NEW q \in Request, TimeOut(q) PROVE Apart'
  BY <1>9 DEF TimeOut, TimeoutReply, Notices, history, Apart, Live, TypeOK
<1>10. ASSUME NEW q \in Request, GiveUp(q) PROVE Apart'
  BY <1>10 DEF GiveUp, history, Apart, Live
<1>11. ASSUME NEW q \in Request, Finish(q) PROVE Apart'
  BY <1>11, AppendHolds DEF Finish, Apart, Live, TypeOK
<1>12. ASSUME NEW q \in Request, ConnectionCloses(q) PROVE Apart'
  BY <1>12, ConnectionClosesHolds, PutBackHolds DEF ConnectionCloses, Unfinished, Connected, Apart, Live, TypeOK
<1>13. ASSUME NEW w \in Wake, Woken(w) PROVE Apart'
  BY <1>13 DEF Woken, WakeStep, history, Apart, Live
<1>14. ASSUME NEW c \in Consumer, Pop(c) PROVE Apart'
  BY <1>14, TakeApart DEF Pop, history
<1>15. ASSUME NEW c \in Consumer, Resolve(c) PROVE Apart'
  <2> DEFINE m == hand[c]
  <2>1. None \notin ToSet(inbox) /\ None \notin ToSet(received)
    BY DEF ToSet, TypeOK
  <2>2. /\ m \in Message /\ m \notin ToSet(inbox) /\ m \in sent /\ m # None
        /\ \A d \in Consumer : hand'[d] = IF d = c THEN None ELSE hand[d]
        /\ UNCHANGED <<conn, sent, received>>
        /\ m \notin ToSet(received)
        /\ \A d \in Consumer : hand'[d] # m
        /\ \A q \in Request : Live(q) => reply[q] # m
    BY <1>15, ResolveHolds DEF Apart, TypeOK
  <2>3. CASE PutBack(m) /\ UNCHANGED reply
    <3>1. Distinct(inbox') /\ ToSet(inbox') = ToSet(inbox) \cup {m}
      BY <2>2, <2>3, PutBackHolds
    <3>2. Distinct(inbox)'
      BY <3>1 DEF Distinct
    <3> HIDE DEF m
    <3> QED
      BY <2>1, <2>2, <2>3, <3>1, <3>2 DEF Apart, Live
  <2>4. ASSUME UNCHANGED inbox, NEW q \in Request, Live(q), reply' = [reply EXCEPT ![q] = m]
        PROVE  Apart'
    <3>1. \A r \in Request : reply'[r] = IF r = q THEN m ELSE reply[r]
      BY <2>4 DEF TypeOK
    <3> HIDE DEF m
    <3> QED
      BY <2>1, <2>2, <2>4, <3>1 DEF Apart, Live, Distinct
  <2> QED
    BY <1>15, <2>3, <2>4, ResolveHolds
<1>16. ASSUME NEW i \in Instance, BeginDrain(i) PROVE Apart'
  BY <1>16 DEF BeginDrain, TakeEntry, Notices, history, Apart, Live, TypeOK
<1>17. CASE UNCHANGED vars
  BY <1>17 DEF vars, history, Apart, Live
<1>18. ASSUME NEW m \in Message, ExpireRoom(m) PROVE Apart'
  <2>1. Distinct(inbox') /\ ToSet(inbox') = ToSet(inbox) \cup {m}
    <3>1. m \notin ToSet(inbox)
      BY <1>18 DEF ExpireRoom, Apart
    <3> QED
      BY <1>18, <3>1, AppendHolds, LastHolds DEF ExpireRoom, Apart, TypeOK
  <2>2. Distinct(inbox)'
    BY <2>1 DEF Distinct
  <2> QED
    BY <1>18, <2>1, <2>2 DEF ExpireRoom, Apart, Live
<1> QED
  BY <1>1, <1>2, <1>3, <1>4, <1>5, <1>6, <1>7, <1>8, <1>9, <1>10, <1>11, <1>12, <1>13, <1>14, <1>15, <1>16, <1>17, <1>18 DEF Next, Handle, Consume

LEMMA DInit == Init => DInv
<1> SUFFICES ASSUME Init PROVE DInv
  OBVIOUS
<1> USE NoneAssumption, ConsumerIs DEF Init
<1>1. TypeOK
  BY DEF TypeOK
<1>2. Wired /\ Unanswered /\ Connected /\ Handed
  BY DEF Wired, Unanswered, Connected, Handed
<1>3. Distinct(inbox) /\ ToSet(inbox) = {} /\ ToSet(received) = {}
  BY DEF Distinct, ToSet
<1>4. Apart
  BY <1>3 DEF Apart
<1> QED
  BY <1>1, <1>2, <1>4 DEF DInv

LEMMA DStep == ASSUME DInv, [Next]_vars PROVE DInv'
BY KeepTypes, KeepWired, KeepUnanswered, KeepConnected, KeepHanded, KeepApart DEF DInv

LEMMA DInvariant == Spec => []DInv
BY DInit, DStep, PTL DEF Spec

----------------------------------------------------------------------------
(* Types, and one place for every message *)

\* In every reachable state each part of the registry, of the connections and
\* of the inbox has its type.
THEOREM DeliveryTyped == Spec => []TypeOK
BY DInvariant, PTL DEF DInv

LEMMA ApartIsOnePlace == ASSUME DInv PROVE OnePlace
<1> SUFFICES ASSUME NEW m \in Message
             PROVE  /\ \A p1, p2 \in Places(m) : p1 = p2
                    /\ m \in ToSet(received) => Places(m) = {}
  BY DEF OnePlace
<1>1. m # None
  BY NoneAssumption
<1>2. ASSUME NEW p \in Places(m)
      PROVE  \/ /\ p[2] \in DOMAIN inbox /\ inbox[p[2]] = m /\ m \in ToSet(inbox)
                /\ p = <<"inbox", p[2]>>
             \/ p[2] \in Consumer /\ hand[p[2]] = m /\ p = <<"hand", p[2]>>
             \/ p[2] \in Request /\ reply[p[2]] = m /\ Live(p[2]) /\ p = <<"reply", p[2]>>
  BY <1>2 DEF Places, ToSet
<1>3. ASSUME NEW p1 \in Places(m), NEW p2 \in Places(m) PROVE p1[2] = p2[2] /\ p1 = p2
  <2>1. CASE m \in ToSet(inbox)
    BY <1>1, <1>2, <2>1 DEF DInv, Apart, Distinct
  <2>2. CASE m \notin ToSet(inbox)
    BY <1>1, <1>2, <2>2 DEF DInv, Apart
  <2> QED
    BY <2>1, <2>2
<1>4. ASSUME m \in ToSet(received), NEW p \in Places(m) PROVE FALSE
  BY <1>2, <1>4 DEF DInv, Apart
<1> QED
  BY <1>3, <1>4

\* A message is in one place at a time, on whichever instances consumers,
\* timers and connections run, and in none once it is received.
THEOREM MessagesHaveOnePlace == Spec => []OnePlace
BY DInvariant, ApartIsOnePlace, PTL

----------------------------------------------------------------------------
(* No wake-up is missed *)

\* What only empties the inbox or the registry leaves it so.
LEMMA WakeupStays ==
    ASSUME DInv, NoLostWakeup, UNCHANGED <<step, at>>,
           \A j \in Instance : waiter'[j] = waiter[j] \/ waiter'[j] = None,
           \A q \in Request : pc'[q] = "listening" => pc[q] = "listening",
           ToSet(inbox') \ unannounced' \subseteq ToSet(inbox) \ unannounced
    PROVE  NoLostWakeup'
<1>1. \A i \in Instance : Underway(i)' <=> Underway(i)
  BY DEF Underway, InstanceOf
<1>2. ASSUME NEW i \in Instance, NEW q \in Request,
             waiter'[i] = q, pc'[q] = "listening", ToSet(inbox') \ unannounced' # {}
      PROVE  Underway(i)'
  <2>1. waiter[i] = q /\ pc[q] = "listening" /\ ToSet(inbox) \ unannounced # {}
    BY <1>2, NoneAssumption
  <2> QED
    BY <1>1, <2>1 DEF NoLostWakeup
<1> QED
  BY <1>2 DEF NoLostWakeup

LEMMA KeepWakeup == ASSUME DInv, NoLostWakeup, [Next]_vars PROVE NoLostWakeup'
<1> USE NoneAssumption, ConsumerIs DEF DInv
<1>1. ASSUME NEW batch \in Batches, SendBatch(batch) PROVE NoLostWakeup'
  <2>1. Head(batch) \in Message
    BY BatchHolds
  <2>2. ASSUME NEW i \in Instance PROVE Underway(i)'
    <3>1. <<Head(batch), i>> \in Wake /\ <<Head(batch), i>>[2] = i
      BY <2>1 DEF Wake
    <3>2. step'[<<Head(batch), i>>] = "woken"
      BY <1>1, <3>1 DEF SendBatch
    <3>3. InstanceOf(<<Head(batch), i>>)' = i
      BY <3>1 DEF InstanceOf
    <3> QED
      BY <3>1, <3>2, <3>3 DEF Underway
  <2> QED
    BY <2>2 DEF NoLostWakeup
<1>2. ASSUME NEW q \in Request, NEW i \in Instance, Arrive(q, i) PROVE NoLostWakeup'
  BY <1>2 DEF Arrive, history, NoLostWakeup, Underway, InstanceOf, Handed, TypeOK
<1>3. ASSUME NEW q \in Request, Refuse(q) PROVE NoLostWakeup'
  BY <1>3 DEF Refuse, history, NoLostWakeup, Underway, InstanceOf
<1>4. ASSUME NEW q \in Request, AskInbox(q) PROVE NoLostWakeup'
  <2>1. \A r \in Request : pc'[r] = "listening" => pc[r] = "listening"
    BY <1>4 DEF AskInbox
  <2> QED
    BY <1>4, <2>1, TakeFirstHolds, WakeupStays DEF AskInbox, history
<1>5. ASSUME NEW q \in Request, ReplyQueued(q) PROVE NoLostWakeup'
  BY <1>5 DEF ReplyQueued, history, NoLostWakeup, Underway, InstanceOf, Wired, Handed
<1>6. ASSUME NEW q \in Request, RegisterWaiter(q) PROVE NoLostWakeup'
  BY <1>6 DEF RegisterWaiter, Notices, history, NoLostWakeup, Underway, InstanceOf, TypeOK
<1>7. ASSUME NEW q \in Request, Listen(q) PROVE NoLostWakeup'
  BY <1>7 DEF Listen, LastLook, WakeStep, history, NoLostWakeup, Underway, InstanceOf, Wired, TypeOK
<1>8. ASSUME NEW q \in Request, TimerFires(q) PROVE NoLostWakeup'
  BY <1>8 DEF TimerFires, history, NoLostWakeup, Underway, InstanceOf
<1>9. ASSUME NEW q \in Request, TimeOut(q) PROVE NoLostWakeup'
  BY <1>9 DEF TimeOut, TimeoutReply, history, NoLostWakeup, Underway, InstanceOf
<1>10. ASSUME NEW q \in Request, GiveUp(q) PROVE NoLostWakeup'
  BY <1>10 DEF GiveUp, history, NoLostWakeup, Underway, InstanceOf
<1>11. ASSUME NEW q \in Request, Finish(q) PROVE NoLostWakeup'
  <2>1. \A j \in Instance : waiter'[j] = waiter[j] \/ waiter'[j] = None
    BY <1>11, CloseHolds, ClearHolds DEF Finish
  <2> QED
    BY <1>11, <2>1, WakeupStays DEF Finish
<1>12. ASSUME NEW q \in Request, ConnectionCloses(q) PROVE NoLostWakeup'
  <2>1. \A j \in Instance : waiter'[j] = waiter[j] \/ waiter'[j] = None
    BY <1>12, CloseHolds, ClearHolds DEF ConnectionCloses
  <2>2. ToSet(inbox') \ unannounced' \subseteq ToSet(inbox) \ unannounced
    <3>1. CASE UNCHANGED <<inbox, unannounced>>
      BY <3>1
    <3>2. CASE delivery[q] \in Message /\ delivery[q] \notin ToSet(inbox) /\ PutBack(delivery[q])
      BY <3>2, PutBackHolds
    <3> QED
      BY <1>12, <3>1, <3>2, ConnectionClosesHolds
  <2> QED
    BY <1>12, <2>1, <2>2, WakeupStays DEF ConnectionCloses
<1>13. ASSUME NEW w \in Wake, Woken(w) PROVE NoLostWakeup'
  BY <1>13 DEF Woken, WakeStep, history, NoLostWakeup, Underway, InstanceOf
<1>14. ASSUME NEW c \in Consumer, Pop(c) PROVE NoLostWakeup'
  <2>1. /\ ToSet(inbox') \subseteq ToSet(inbox)
        /\ inbox = <<>> => ToSet(inbox') = {}
    <3>1. ToSet(inbox') \subseteq ToSet(inbox)
      BY <1>14, TakeFirstHolds DEF Pop
    <3>2. inbox = <<>> => inbox' = <<>>
      BY <1>14 DEF Pop, TakeFirst
    <3> QED
      BY <3>1, <3>2 DEF ToSet
  <2>2. inbox # <<>> => \A d \in Consumer : step'[d] = IF d = c THEN "resolving" ELSE step[d]
    BY <1>14 DEF Pop, AfterPop, TypeOK
  <2>3. inbox # <<>> => \A i \in Instance : Underway(i) => Underway(i)'
    BY <1>14, <2>2 DEF Pop, Underway, InstanceOf
  <2> QED
    BY <1>14, <2>1, <2>3 DEF Pop, history, NoLostWakeup
<1>15. ASSUME NEW c \in Consumer, Resolve(c) PROVE NoLostWakeup'
  <2> DEFINE i == InstanceOf(c)
  <2>1. /\ i \in Instance /\ waiter'[i] = None
        /\ \A j \in Instance : j # i => waiter'[j] = waiter[j]
    BY <1>15, ResolveHolds, ClearHolds
  <2>2. ToSet(inbox') \ unannounced' \subseteq ToSet(inbox) \ unannounced
    BY <1>15, ResolveHolds, PutBackHolds
  <2>3. UNCHANGED <<at, pc>> /\ \A d \in Consumer : d # c => step'[d] = step[d]
    BY <1>15, ResolveHolds DEF TypeOK
  <2>4. \A j \in Instance : j # i /\ Underway(j) => Underway(j)'
    BY <2>3 DEF Underway, InstanceOf
  <2> HIDE DEF i
  <2> QED
    BY <2>1, <2>2, <2>3, <2>4 DEF NoLostWakeup
<1>16. ASSUME NEW i \in Instance, BeginDrain(i) PROVE NoLostWakeup'
  <2>1. \A j \in Instance : waiter'[j] = waiter[j] \/ waiter'[j] = None
    BY <1>16, ClearHolds DEF BeginDrain, TakeEntry
  <2> QED
    BY <1>16, <2>1, WakeupStays DEF BeginDrain, history
<1>17. CASE UNCHANGED vars
  BY <1>17 DEF vars, history, NoLostWakeup, Underway, InstanceOf
<1>18. ASSUME NEW m \in Message, ExpireRoom(m) PROVE NoLostWakeup'
  <2>1. ToSet(inbox') = ToSet(inbox) \cup {m}
    BY <1>18, AppendHolds DEF ExpireRoom, TypeOK
  <2> QED
    BY <1>18, <2>1, WakeupStays DEF ExpireRoom
<1> QED
  BY <1>1, <1>2, <1>3, <1>4, <1>5, <1>6, <1>7, <1>8, <1>9, <1>10, <1>11, <1>12, <1>13, <1>14, <1>15, <1>16, <1>17, <1>18 DEF Next, Handle, Consume

\* While a message that came with a wake-up is queued and a request listens,
\* something on the request's instance is on its way: no interleaving of
\* senders, expiries, consumers, timers and connections makes it miss the
\* wake-up.
THEOREM WakeupsAreNotLost == Spec => []NoLostWakeup
<1>1. Init => NoLostWakeup
  BY NoneAssumption DEF Init, NoLostWakeup
<1> QED
  BY <1>1, KeepWakeup, DInvariant, PTL DEF Spec

----------------------------------------------------------------------------
(* One answer *)

\* A request that has its answer keeps it: the timer, the wake-ups, the drain
\* and the handler find it unanswered.
THEOREM AnswersAreFinal == Spec => AnsweredOnce
<1> DEFINE Final == \A q \in Request : reply[q] # None => reply'[q] = reply[q]
<1>1. ASSUME DInv, [Next]_vars PROVE Final
  <2> USE NoneAssumption, ConsumerIs, <1>1 DEF DInv
  <2>1. ASSUME NEW batch \in Batches, SendBatch(batch) PROVE Final
    BY <2>1 DEF SendBatch
  <2>2. ASSUME NEW q \in Request, NEW i \in Instance, Arrive(q, i) PROVE Final
    BY <2>2 DEF Arrive, Unanswered, TypeOK
  <2>3. ASSUME NEW q \in Request, Refuse(q) PROVE Final
    BY <2>3 DEF Refuse, Unanswered
  <2>4. ASSUME NEW q \in Request, AskInbox(q) PROVE Final
    BY <2>4 DEF AskInbox
  <2>5. ASSUME NEW q \in Request, ReplyQueued(q) PROVE Final
    BY <2>5 DEF ReplyQueued, Unanswered
  <2>6. ASSUME NEW q \in Request, RegisterWaiter(q) PROVE Final
    BY <2>6 DEF RegisterWaiter, Unanswered, TypeOK
  <2>7. ASSUME NEW q \in Request, Listen(q) PROVE Final
    BY <2>7 DEF Listen, LastLook, WakeStep
  <2>8. ASSUME NEW q \in Request, TimerFires(q) PROVE Final
    BY <2>8 DEF TimerFires
  <2>9. ASSUME NEW q \in Request, TimeOut(q) PROVE Final
    BY <2>9 DEF TimeOut, TimeoutReply, Unanswered
  <2>10. ASSUME NEW q \in Request, GiveUp(q) PROVE Final
    BY <2>10 DEF GiveUp
  <2>11. ASSUME NEW q \in Request, Finish(q) PROVE Final
    BY <2>11 DEF Finish
  <2>12. ASSUME NEW q \in Request, ConnectionCloses(q) PROVE Final
    BY <2>12 DEF ConnectionCloses, Unfinished
  <2>13. ASSUME NEW w \in Wake, Woken(w) PROVE Final
    BY <2>13 DEF Woken, WakeStep
  <2>14. ASSUME NEW c \in Consumer, Pop(c) PROVE Final
    BY <2>14 DEF Pop, AfterPop
  <2>15. ASSUME NEW c \in Consumer, Resolve(c) PROVE Final
    BY <2>15, ResolveHolds DEF Wired, Unanswered, TypeOK
  <2>16. ASSUME NEW i \in Instance, BeginDrain(i) PROVE Final
    BY <2>16 DEF BeginDrain, TakeEntry, Wired, Unanswered
  <2>17. CASE UNCHANGED vars
    BY <2>17 DEF vars
  <2>18. ASSUME NEW m \in Message, ExpireRoom(m) PROVE Final
    BY <2>18 DEF ExpireRoom
  <2> QED
    BY <2>1, <2>2, <2>3, <2>4, <2>5, <2>6, <2>7, <2>8, <2>9, <2>10, <2>11, <2>12, <2>13, <2>14, <2>15, <2>16, <2>17, <2>18 DEF Next, Handle, Consume
<1> QED
  BY <1>1, DInvariant, PTL DEF Spec, AnsweredOnce


----------------------------------------------------------------------------
(* What a step does to the messages that are kept *)

\* A message is somewhere.
Somewhere(m) ==
    \/ m \in ToSet(inbox)
    \/ \E c \in Consumer : hand[c] = m
    \/ \E q \in Request : Live(q) /\ reply[q] = m

\* A labelled set is empty if the set is.
LEMMA LabelledAll == \A x, S : {x} \X S # {} <=> S # {}
<1> SUFFICES ASSUME NEW x, NEW S PROVE {x} \X S # {} <=> S # {}
  OBVIOUS
<1>1. \A s \in S : <<x, s>> \in {x} \X S
  OBVIOUS
<1>2. \A p \in {x} \X S : p[2] \in S
  OBVIOUS
<1> QED
  BY <1>1, <1>2

LEMMA KeptIsSomewhere ==
    /\ Kept = {m \in Message : Somewhere(m)}
    /\ Kept' = {m \in Message : Somewhere(m)'}
<1>1. ASSUME NEW m \in Message PROVE Places(m) # {} <=> Somewhere(m)
  <2> DEFINE P1 == {n \in DOMAIN inbox : inbox[n] = m}
             P2 == {c \in Consumer : hand[c] = m}
             P3 == {q \in Request : reply[q] = m /\ Live(q)}
  <2>1. Places(m) # {} <=> P1 # {} \/ P2 # {} \/ P3 # {}
    <3> HIDE DEF P1, P2, P3
    <3>1. Places(m) = ({"inbox"} \X P1) \cup ({"hand"} \X P2) \cup ({"reply"} \X P3)
      BY DEF Places, P1, P2, P3
    <3>2. /\ {"inbox"} \X P1 # {} <=> P1 # {}
          /\ {"hand"} \X P2 # {} <=> P2 # {}
          /\ {"reply"} \X P3 # {} <=> P3 # {}
      BY LabelledAll
    <3> DEFINE L1 == {"inbox"} \X P1
               L2 == {"hand"} \X P2
               L3 == {"reply"} \X P3
    <3> HIDE DEF L1, L2, L3
    <3>3. L1 \cup L2 \cup L3 # {} <=> L1 # {} \/ L2 # {} \/ L3 # {}
      OBVIOUS
    <3> QED
      BY <3>1, <3>2, <3>3 DEF L1, L2, L3
  <2> QED
    BY <2>1 DEF Somewhere, ToSet
<1>2. ASSUME NEW m \in Message PROVE (Places(m) # {})' <=> Somewhere(m)'
  <2> DEFINE P1 == {n \in DOMAIN inbox' : inbox'[n] = m}
             P2 == {c \in Consumer : hand'[c] = m}
             P3 == {q \in Request : reply'[q] = m /\ Live(q)'}
  <2>1. (Places(m) # {})' <=> P1 # {} \/ P2 # {} \/ P3 # {}
    <3> HIDE DEF P1, P2, P3
    <3>1. Places(m)' = ({"inbox"} \X P1) \cup ({"hand"} \X P2) \cup ({"reply"} \X P3)
      BY DEF Places, P1, P2, P3
    <3>2. /\ {"inbox"} \X P1 # {} <=> P1 # {}
          /\ {"hand"} \X P2 # {} <=> P2 # {}
          /\ {"reply"} \X P3 # {} <=> P3 # {}
      BY LabelledAll
    <3> DEFINE L1 == {"inbox"} \X P1
               L2 == {"hand"} \X P2
               L3 == {"reply"} \X P3
    <3> HIDE DEF L1, L2, L3
    <3>3. L1 \cup L2 \cup L3 # {} <=> L1 # {} \/ L2 # {} \/ L3 # {}
      OBVIOUS
    <3> QED
      BY <3>1, <3>2, <3>3 DEF L1, L2, L3
  <2> QED
    BY <2>1 DEF Somewhere, ToSet
<1> QED
  BY <1>1, <1>2 DEF Kept

\* The response of q took m with it: KeptUntilWritten's two ways.
Leaves(q, m) ==
    \/ /\ reply[q] = m
       /\ Live(q)
       /\ \/ conn'[q] = "finished"
          \/ conn'[q] = "closed" /\ delivery[q] = None
    \/ /\ hand[q] = m
       /\ pc[q] = "asked"
       /\ conn[q] = "closed"

Silent == UNCHANGED <<Kept, sent, received>>

Left == \E q \in Request, m \in Kept :
            /\ Leaves(q, m) /\ Kept' = Kept \ {m} /\ sent' = sent
            /\ received' \in {received, Append(received, m)}

Sent == \E new \in SUBSET Message :
            /\ new # {} /\ new \cap sent = {}
            /\ Kept' = Kept \cup new /\ sent' = sent \cup new
            /\ UNCHANGED received

LEMMA SendKeeps == ASSUME DInv, NEW batch \in Batches, SendBatch(batch) PROVE Sent
<1>1. /\ batch \in Seq(Message) /\ Distinct(batch) /\ ToSet(batch) # {}
      /\ ToSet(batch) \subseteq Message
      /\ \A m \in ToSet(batch) : m \notin sent
  BY BatchHolds DEF SendBatch, ToSet
<1>2. ToSet(inbox') = ToSet(inbox) \cup ToSet(batch)
  BY <1>1, ConcatHolds DEF SendBatch, Apart, TypeOK, DInv
<1>3. \A m \in Message : Somewhere(m)' <=> Somewhere(m) \/ m \in ToSet(batch)
  BY <1>2 DEF SendBatch, Somewhere, Live
<1>4. Kept' = Kept \cup ToSet(batch)
  BY <1>1, <1>3, KeptIsSomewhere
<1>5. ToSet(batch) \in SUBSET Message /\ ToSet(batch) \cap sent = {}
  BY <1>1
<1> QED
  BY <1>1, <1>4, <1>5 DEF Sent, SendBatch

LEMMA ExpiryKeeps == ASSUME DInv, NEW m \in Message, ExpireRoom(m) PROVE Sent
<1>1. ToSet(inbox') = ToSet(inbox) \cup {m}
  BY AppendHolds DEF ExpireRoom, TypeOK, DInv
<1>2. \A n \in Message : Somewhere(n)' <=> Somewhere(n) \/ n = m
  BY <1>1 DEF ExpireRoom, Somewhere, Live
<1>3. Kept' = Kept \cup {m}
  BY <1>2, KeptIsSomewhere
<1>4. {m} \in SUBSET Message /\ {m} # {} /\ {m} \cap sent = {}
  BY DEF ExpireRoom
<1> QED
  BY <1>3, <1>4 DEF Sent, ExpireRoom

\* Taking a message moves it, since the hand is empty.
LEMMA TakeKeeps ==
    ASSUME DInv, NEW c \in Consumer, hand[c] = None, TakeFirst(c),
           UNCHANGED <<conn, reply, sent, received>>
    PROVE  Silent
<1>1. \A d \in Consumer : d # c => hand'[d] = hand[d]
  BY TakeFirstHolds DEF DInv, TypeOK
<1>2. \A m \in Message : Somewhere(m)' <=> Somewhere(m)
  BY <1>1, TakeFirstHolds, NoneAssumption DEF Somewhere, Live, DInv
<1> QED
  BY <1>2, KeptIsSomewhere DEF Silent

\* What changes no place of a message changes nothing.
LEMMA NothingMoves ==
    ASSUME DInv, UNCHANGED <<inbox, hand, sent, received>>,
           \A q \in Request : \/ Live(q)' = Live(q) /\ reply'[q] = reply[q]
                              \/ ~(Live(q) /\ reply[q] \in Message) /\ ~(Live(q)' /\ reply'[q] \in Message)
    PROVE  Silent
<1>1. \A m \in Message : Somewhere(m)' <=> Somewhere(m)
  BY DEF Somewhere
<1> QED
  BY <1>1, KeptIsSomewhere DEF Silent

\* Without a trace: the only place of m was the response of q.
LEMMA OnlyThereLeaves ==
    ASSUME DInv, NEW q \in Request, NEW m \in Message, Leaves(q, m), Somewhere(m),
           sent' = sent, received' \in {received, Append(received, m)},
           \A x \in Message : Somewhere(x)' <=> Somewhere(x) /\ x # m
    PROVE  Left
<1>1. m \in Kept /\ Kept' = Kept \ {m}
  BY KeptIsSomewhere
<1> QED
  BY <1>1 DEF Left

LEMMA KeptChanges == ASSUME DInv, [Next]_vars PROVE Silent \/ Sent \/ Left
<1> USE NoneAssumption, ConsumerIs DEF DInv
<1>1. ASSUME NEW batch \in Batches, SendBatch(batch) PROVE Silent \/ Sent \/ Left
  BY <1>1, SendKeeps
<1>2. ASSUME NEW q \in Request, NEW i \in Instance, Arrive(q, i) PROVE Silent \/ Sent \/ Left
  BY <1>2, NothingMoves DEF Arrive, Notices, history, Live, Unanswered, TypeOK
<1>3. ASSUME NEW q \in Request, Refuse(q) PROVE Silent \/ Sent \/ Left
  BY <1>3, NothingMoves DEF Refuse, Notices, history, Live, Unanswered
<1>4. ASSUME NEW q \in Request, AskInbox(q) PROVE Silent \/ Sent \/ Left
  <2>1. hand[q] = None
    BY <1>4 DEF AskInbox, Handed
  <2> QED
    BY <1>4, <2>1, TakeKeeps DEF AskInbox, history
<1>5. ASSUME NEW q \in Request, ReplyQueued(q) PROVE Silent \/ Sent \/ Left
  <2> PICK m \in Message : m = hand[q]
    BY <1>5 DEF ReplyQueued, TypeOK
  <2>1. /\ m = hand[q] /\ pc[q] = "asked" /\ reply[q] = None
        /\ \A d \in Consumer : hand'[d] = IF d = q THEN None ELSE hand[d]
        /\ \A r \in Request : reply'[r] = IF r = q THEN m ELSE reply[r]
        /\ UNCHANGED <<inbox, conn, sent, received>>
    BY <1>5 DEF ReplyQueued, history, Unanswered, TypeOK
  <2>2. /\ m \notin ToSet(inbox)
        /\ \A d \in Consumer : hand'[d] # m
        /\ \A r \in Request : Live(r) => reply[r] # m
    BY <2>1 DEF Apart
  <2>3. Somewhere(m)
    BY <2>1 DEF Somewhere
  <2>4. CASE Live(q)
    <3>1. \A x \in Message : Somewhere(x)' <=> Somewhere(x)
      BY <2>1, <2>4 DEF Somewhere, Live
    <3> QED
      BY <2>1, <3>1, KeptIsSomewhere DEF Silent
  <2>5. CASE ~Live(q)
    <3>1. \A r \in Request : Live(r)' => Live(r) /\ r # q
      BY <2>1, <2>5 DEF Live
    <3>2. \A x \in Message : Somewhere(x)' <=> Somewhere(x) /\ x # m
      <4>1. ~Somewhere(m)'
        BY <2>1, <2>2, <3>1 DEF Somewhere
      <4>2. ASSUME NEW x \in Message, x # m PROVE Somewhere(x)' <=> Somewhere(x)
        BY <2>1, <4>2, <2>5 DEF Somewhere, Live
      <4> QED
        BY <4>1, <4>2
    <3>3. conn[q] = "closed"
      BY <2>1, <2>5 DEF Live, Connected, TypeOK
    <3>4. Leaves(q, m)
      BY <2>1, <3>3 DEF Leaves
    <3> QED
      BY <2>1, <2>3, <3>2, <3>4, OnlyThereLeaves
  <2> QED
    BY <2>4, <2>5
<1>6. ASSUME NEW q \in Request, RegisterWaiter(q) PROVE Silent \/ Sent \/ Left
  BY <1>6, NothingMoves DEF RegisterWaiter, Notices, history, Live, Unanswered, TypeOK
<1>7. ASSUME NEW q \in Request, Listen(q) PROVE Silent \/ Sent \/ Left
  BY <1>7, NothingMoves DEF Listen, LastLook, WakeStep, history, Live
<1>8. ASSUME NEW q \in Request, TimerFires(q) PROVE Silent \/ Sent \/ Left
  BY <1>8, NothingMoves DEF TimerFires, history, Live
<1>9. ASSUME NEW q \in Request, TimeOut(q) PROVE Silent \/ Sent \/ Left
  BY <1>9, NothingMoves DEF TimeOut, TimeoutReply, Notices, history, Live, Unanswered
<1>10. ASSUME NEW q \in Request, GiveUp(q) PROVE Silent \/ Sent \/ Left
  BY <1>10, NothingMoves DEF GiveUp, history, Live
<1>11. ASSUME NEW q \in Request, Finish(q) PROVE Silent \/ Sent \/ Left
  <2> DEFINE m == reply[q]
  <2>1. /\ Live(q) /\ ~Live(q)' /\ conn'[q] = "finished"
        /\ \A r \in Request : r # q => Live(r)' = Live(r)
        /\ UNCHANGED <<inbox, hand, reply, sent>>
        /\ m \notin Message => received' = received
        /\ received' \in {received, Append(received, m)}
    BY <1>11 DEF Finish, Live, TypeOK
  <2>2. CASE m \notin Message
    BY <2>1, <2>2, NothingMoves
  <2>3. CASE m \in Message
    <3>1. Somewhere(m) /\ Leaves(q, m)
      BY <2>1 DEF Somewhere, Leaves
    <3>2. ~Somewhere(m)'
      BY <2>1, <2>3 DEF Somewhere, Apart
    <3>3. \A x \in Message : Somewhere(x)' <=> Somewhere(x) /\ x # m
      BY <2>1, <3>2 DEF Somewhere
    <3> HIDE DEF m
    <3> QED
      BY <2>1, <2>3, <3>1, <3>3, OnlyThereLeaves
  <2> QED
    BY <2>2, <2>3
<1>12. ASSUME NEW q \in Request, ConnectionCloses(q) PROVE Silent \/ Sent \/ Left
  <2> DEFINE m == reply[q]
  <2>1. /\ Live(q) /\ ~Live(q)' /\ conn'[q] = "closed"
        /\ \A r \in Request : r # q => Live(r)' = Live(r)
        /\ UNCHANGED <<hand, reply, sent, received>>
    BY <1>12 DEF ConnectionCloses, Live, TypeOK
  <2>2. CASE delivery[q] = m /\ m \in Message /\ m \notin ToSet(inbox) /\ PutBack(m)
    <3>1. ToSet(inbox') = ToSet(inbox) \cup {m}
      BY <2>2, PutBackHolds
    <3>2. \A x \in Message : Somewhere(x)' <=> Somewhere(x)
      BY <2>1, <3>1 DEF Somewhere
    <3> QED
      BY <2>1, <3>2, KeptIsSomewhere DEF Silent
  <2>3. CASE delivery[q] = None /\ UNCHANGED <<inbox, unannounced>>
    <3>1. CASE m \notin Message
      BY <2>1, <2>3, <3>1, NothingMoves
    <3>2. CASE m \in Message
      <4>1. Somewhere(m) /\ Leaves(q, m)
        BY <2>1, <2>3 DEF Somewhere, Leaves
      <4>2. ~Somewhere(m)'
        BY <2>1, <2>3, <3>2 DEF Somewhere, Apart
      <4>3. \A x \in Message : Somewhere(x)' <=> Somewhere(x) /\ x # m
        BY <2>1, <2>3, <4>2 DEF Somewhere
      <4> HIDE DEF m
      <4> QED
        BY <2>1, <3>2, <4>1, <4>3, OnlyThereLeaves
    <3> QED
      BY <3>1, <3>2
  <2> QED
    BY <1>12, <2>2, <2>3, ConnectionClosesHolds
<1>13. ASSUME NEW w \in Wake, Woken(w) PROVE Silent \/ Sent \/ Left
  BY <1>13, NothingMoves DEF Woken, WakeStep, history, Live
<1>14. ASSUME NEW c \in Consumer, Pop(c) PROVE Silent \/ Sent \/ Left
  <2>1. hand[c] = None
    BY <1>14 DEF Pop, Handed
  <2> QED
    BY <1>14, <2>1, TakeKeeps DEF Pop, history
<1>15. ASSUME NEW c \in Consumer, Resolve(c) PROVE Silent \/ Sent \/ Left
  <2> DEFINE m == hand[c]
  <2>1. /\ m \in Message /\ m # None /\ m \notin ToSet(inbox)
        /\ \A d \in Consumer : hand'[d] = IF d = c THEN None ELSE hand[d]
        /\ UNCHANGED <<conn, sent, received>>
    BY <1>15, ResolveHolds DEF TypeOK
  <2>2. CASE PutBack(m) /\ UNCHANGED reply
    <3>1. ToSet(inbox') = ToSet(inbox) \cup {m}
      BY <2>1, <2>2, PutBackHolds
    <3>2. \A x \in Message : Somewhere(x)' <=> Somewhere(x)
      BY <2>1, <2>2, <3>1 DEF Somewhere, Live
    <3> QED
      BY <2>1, <3>2, KeptIsSomewhere DEF Silent
  <2>3. ASSUME NEW q \in Request, UNCHANGED inbox, Live(q), reply[q] = None,
               reply' = [reply EXCEPT ![q] = m]
        PROVE  Silent
    <3>1. \A r \in Request : reply'[r] = IF r = q THEN m ELSE reply[r]
      BY <2>3 DEF TypeOK
    <3>2. \A x \in Message : Somewhere(x)' <=> Somewhere(x)
      BY <2>1, <2>3, <3>1 DEF Somewhere, Live
    <3> QED
      BY <2>1, <3>2, KeptIsSomewhere DEF Silent
  <2>4. \A q \in Request : waiter[InstanceOf(c)] = q => reply[q] = None
    BY <1>15, ResolveHolds DEF Wired, Unanswered
  <2> QED
    BY <1>15, <2>2, <2>3, <2>4, ResolveHolds
<1>16. ASSUME NEW i \in Instance, BeginDrain(i) PROVE Silent \/ Sent \/ Left
  <2>1. \A q \in Request : \/ reply'[q] = reply[q]
                           \/ reply[q] = None /\ reply'[q] = "drain"
    BY <1>16 DEF BeginDrain, Wired, Unanswered
  <2>2. \A q \in Request : reply[q] = None => reply[q] \notin Message
    OBVIOUS
  <2>3. "drain" \notin Message
    BY DEF Notices
  <2> QED
    BY <1>16, <2>1, <2>2, <2>3, NothingMoves DEF BeginDrain, history, Live
<1>17. CASE UNCHANGED vars
  BY <1>17, NothingMoves DEF vars, history, Live
<1>18. ASSUME NEW m \in Message, ExpireRoom(m) PROVE Silent \/ Sent \/ Left
  BY <1>18, ExpiryKeeps
<1> QED
  BY <1>1, <1>2, <1>3, <1>4, <1>5, <1>6, <1>7, <1>8, <1>9, <1>10, <1>11, <1>12, <1>13, <1>14, <1>15, <1>16, <1>17, <1>18 DEF Next, Handle, Consume

\* A message is lost only by a response that was written to a client that had
\* gone, or that answered from the queue without a registry entry.
THEOREM MessagesLeaveByResponses == Spec => KeptUntilWritten
<1> DEFINE Out == \A m \in Kept \ Kept' : \E q \in Request : Leaves(q, m)
<1>1. ASSUME DInv, [Next]_vars PROVE Out
  <2>1. CASE Silent
    BY <2>1 DEF Silent
  <2>2. CASE Sent
    BY <2>2 DEF Sent
  <2>3. CASE Left
    BY <2>3 DEF Left
  <2> QED
    BY <1>1, <2>1, <2>2, <2>3, KeptChanges
<1>2. Spec => [][Out]_vars
  BY <1>1, DInvariant, PTL DEF Spec
<1> QED
  BY <1>2 DEF KeptUntilWritten, Leaves

----------------------------------------------------------------------------
(* Delivery implements Mailbox *)

LEMMA InitMaps == Init => MB!Init
<1> SUFFICES ASSUME Init PROVE Kept = {}
  BY DEF MB!Init, Init
<1>1. \A m \in Message : ~Somewhere(m)
  BY NoneAssumption DEF Init, Somewhere, ToSet
<1> QED
  BY <1>1, KeptIsSomewhere

\* Every step sends, receives or loses, or does nothing for the mailbox.
LEMMA StepMaps == ASSUME DInv, [Next]_vars PROVE [MB!Next]_MB!vars
<1>1. CASE Silent
  BY <1>1 DEF Silent, MB!vars
<1>2. CASE Sent
  <2>1. PICK new \in SUBSET Message :
            /\ new # {} /\ new \cap sent = {}
            /\ Kept' = Kept \cup new /\ sent' = sent \cup new
            /\ UNCHANGED received
    BY <1>2 DEF Sent
  <2>2. MB!Send(new)
    BY <2>1 DEF MB!Send
  <2> QED
    BY <2>2 DEF MB!Next
<1>3. CASE Left
  <2>1. PICK m \in Kept : /\ Kept' = Kept \ {m} /\ sent' = sent
                          /\ received' \in {received, Append(received, m)}
    BY <1>3 DEF Left
  <2>2. m \in Message /\ (MB!Receive(m) \/ MB!Lose(m))
    BY <2>1 DEF MB!Receive, MB!Lose, Kept
  <2> QED
    BY <2>2 DEF MB!Next
<1> QED
  BY <1>1, <1>2, <1>3, KeptChanges

\* The broker keeps a recipient's messages as a mailbox does: each is kept
\* until it is received, once, or lost.
THEOREM DeliveryIsMailbox == Spec => KeepsMailbox
BY InitMaps, StepMaps, DInvariant, PTL DEF Spec, KeepsMailbox, MB!Spec
=============================================================================
