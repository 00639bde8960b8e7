------------------------ MODULE BrokerMessageProofs ------------------------
(***************************************************************************)
(* What the messages in the broker store's inboxes say: that texts stay in *)
(* their room, that a pause is announced only while it holds, that fresh   *)
(* close notices are counted, and that no active text is dropped.          *)
(***************************************************************************)
EXTENDS BrokerNoticeProofs

\* The messages that the properties count or look for.
FreshCloses == {m \in Message : IsClose(m) /\ ~m.again}
FreshPauses == {m \in Message : m.kind = "all_standby" /\ ~m.again}
ActiveOnes  == {m \in Message : m.kind = "active_text"}

Hits(s, S)  == {i \in DOMAIN s : s[i] \in S}
Count(s, S) == Cardinality(Hits(s, S))

\* The messages that have been addressed to t and that it may still see.
Reaching(ib, hd, t) == ToSet(ib[t]) \cup ({hd[t]} \ {None})

\* A text that reaches t is another's, and one room has both, those of the
\* two whose records are left.
TextsMeet(tk, ib, hd, ut) ==
    \A t \in Token : \A m \in Reaching(ib, hd, t) :
        m.kind \in TextKind =>
            /\ m.from # t /\ {t, m.from} \subseteq ut
            /\ \E r \in Room : \A u \in {t, m.from} : tk[u] # None => tk[u].roomName = r

\* Whoever has a fresh pause to read is in a room whose code is gone, so that
\* nobody joins it, and everyone there is standing by.
PausesAgree(tk, ib, cs) ==
    \A t \in Token :
        (tk[t] # None /\ ToSet(ib[t]) \cap FreshPauses # {}) =>
            /\ tk[t].roomName \in Room \ cs
            /\ \A p \in Token :
                  (tk[p] # None /\ tk[p].roomName = tk[t].roomName) => tk[p].standby

\* There are no more fresh close notices in an inbox than are still counted.
NoticesBounded(tk, ib, rc) ==
    \A t \in Token :
        tk[t] # None => Count(ib[t], FreshCloses) <= tk[t].pendingCloseMessages + rc[t]

MInv ==
    /\ TextsMeet(tokens, inboxes, held, usedTokens)
    /\ PausesAgree(tokens, inboxes, codes)
    /\ NoticesBounded(tokens, inboxes, recounts)

----------------------------------------------------------------------------
(* Counting messages *)

LEMMA HitsFinite ==
    ASSUME NEW s \in Seq(Message), NEW S
    PROVE  /\ Hits(s, S) \subseteq 1..Len(s)
           /\ IsFiniteSet(Hits(s, S)) /\ Count(s, S) \in Nat
<1>1. Hits(s, S) \in SUBSET (1..Len(s)) /\ IsFiniteSet(1..Len(s))
  BY FS_Interval DEF Hits
<1>2. IsFiniteSet(Hits(s, S))
  BY <1>1, FS_Subset
<1> QED
  BY <1>1, <1>2, FS_CardinalityType DEF Count

LEMMA CountFew ==
    ASSUME NEW S
    PROVE  /\ Count(<<>>, S) = 0
           /\ \A m : Count(<<m>>, S) = IF m \in S THEN 1 ELSE 0
<1>1. Hits(<<>>, S) = {}
  BY DEF Hits
<1>2. ASSUME NEW m
      PROVE  Hits(<<m>>, S) = IF m \in S THEN {1} ELSE {}
  BY DEF Hits
<1> QED
  BY <1>1, <1>2, FS_EmptySet, FS_Singleton DEF Count

LEMMA CountConcat ==
    ASSUME NEW s \in Seq(Message), NEW u \in Seq(Message), NEW S
    PROVE  /\ s \o u \in Seq(Message)
           /\ Count(s \o u, S) = Count(s, S) + Count(u, S)
<1> DEFINE shifted == {i + Len(s) : i \in Hits(u, S)}
           shift == [i \in Hits(u, S) |-> i + Len(s)]
<1>1. /\ Len(s) \in Nat /\ Len(u) \in Nat /\ s \o u \in Seq(Message)
      /\ DOMAIN s = 1..Len(s) /\ DOMAIN u = 1..Len(u)
      /\ DOMAIN (s \o u) = 1..(Len(s) + Len(u))
  OBVIOUS
<1>2. /\ \A i \in 1..Len(s) : i \in DOMAIN (s \o u) /\ (s \o u)[i] = s[i]
      /\ \A i \in 1..Len(u) : i + Len(s) \in DOMAIN (s \o u) /\ (s \o u)[i + Len(s)] = u[i]
      /\ \A i \in DOMAIN (s \o u) : i \in 1..Len(s) \/ i - Len(s) \in 1..Len(u)
  BY <1>1
<1>3. Hits(s \o u, S) = Hits(s, S) \cup shifted
  <2>1. ASSUME NEW i \in Hits(s \o u, S)
        PROVE  i \in Hits(s, S) \cup shifted
    <3>1. i \in DOMAIN (s \o u) /\ (s \o u)[i] \in S
      BY DEF Hits
    <3>2. CASE i \in 1..Len(s)
      BY <1>1, <1>2, <3>1, <3>2 DEF Hits
    <3>3. CASE i - Len(s) \in 1..Len(u)
      <4>1. (s \o u)[i] = u[i - Len(s)] /\ i = (i - Len(s)) + Len(s)
        BY <1>1, <1>2, <3>1, <3>3
      <4>2. i - Len(s) \in Hits(u, S)
        BY <1>1, <3>1, <3>3, <4>1 DEF Hits
      <4> QED
        BY <4>1, <4>2
    <3> QED
      BY <1>2, <3>1, <3>2, <3>3
  <2>2. Hits(s, S) \subseteq Hits(s \o u, S)
    BY <1>1, <1>2 DEF Hits
  <2>3. ASSUME NEW i \in Hits(u, S)
        PROVE  i + Len(s) \in Hits(s \o u, S)
    BY <1>1, <1>2 DEF Hits
  <2> QED
    BY <2>1, <2>2, <2>3
<1>4. Hits(s, S) \cap shifted = {}
  <2>1. /\ \A i \in Hits(s, S) : i \in Nat /\ i <= Len(s)
        /\ \A i \in Hits(u, S) : i \in Nat /\ i >= 1
    BY <1>1 DEF Hits
  <2> QED
    BY <1>1, <2>1
<1>5. IsFiniteSet(shifted) /\ Cardinality(shifted) = Cardinality(Hits(u, S))
  <2>1. shift \in Surjection(Hits(u, S), shifted)
    BY DEF Surjection
  <2>2. shift \in Injection(Hits(u, S), shifted)
    <3>1. \A i \in Hits(u, S) : i \in Nat
      BY <1>1 DEF Hits
    <3> QED
      BY <1>1, <3>1 DEF Injection, IsInjective
  <2> HIDE DEF shift, shifted
  <2> QED
    BY <2>1, <2>2, HitsFinite, FS_Surjection
<1> HIDE DEF shifted
<1>6. Cardinality(Hits(s \o u, S)) = Cardinality(Hits(s, S)) + Cardinality(shifted) - 0
  BY <1>3, <1>4, <1>5, HitsFinite, FS_Union, FS_EmptySet
<1> QED
  BY <1>1, <1>5, <1>6, HitsFinite DEF Count

LEMMA CountTail ==
    ASSUME NEW s \in Seq(Message), s # <<>>, NEW S
    PROVE  /\ Head(s) \in Message /\ Tail(s) \in Seq(Message)
           /\ Count(s, S) = Count(Tail(s), S) + (IF Head(s) \in S THEN 1 ELSE 0)
<1> DEFINE first == <<Head(s)>>
           rest  == Tail(s)
<1>1. /\ Head(s) \in Message /\ rest \in Seq(Message) /\ first \in Seq(Message)
      /\ s = first \o rest
  OBVIOUS
<1>2. Count(first, S) = IF Head(s) \in S THEN 1 ELSE 0
  BY CountFew
<1> HIDE DEF first, rest
<1>3. Count(first \o rest, S) = Count(first, S) + Count(rest, S)
  BY <1>1, CountConcat
<1>4. Count(rest, S) \in Nat
  BY <1>1, HitsFinite
<1>5. Count(s, S) = Count(rest, S) + (IF Head(s) \in S THEN 1 ELSE 0)
  BY <1>1, <1>2, <1>3, <1>4
<1> QED
  BY <1>1, <1>5 DEF rest

\* Every message of s2 is one of s, another one each.
LEMMA CountSelected ==
    ASSUME NEW s \in Seq(Message), NEW s2 \in Seq(Message),
           NEW f \in [DOMAIN s2 -> DOMAIN s],
           \A n \in DOMAIN s2 : s2[n] = s[f[n]],
           \A n, k \in DOMAIN s2 : f[n] = f[k] => n = k, NEW S
    PROVE  ToSet(s2) \subseteq ToSet(s) /\ Count(s2, S) <= Count(s, S)
<1> DEFINE g == [n \in Hits(s2, S) |-> f[n]]
<1>1. g \in Injection(Hits(s2, S), Hits(s, S))
  BY DEF Injection, IsInjective, Hits
<1>2. Cardinality(Hits(s2, S)) <= Cardinality(Hits(s, S))
  BY <1>1, HitsFinite, FS_Injection
<1> QED
  BY <1>2 DEF Count, ToSet

LEMMA CountRemove ==
    ASSUME NEW s \in Seq(Message), NEW i \in DOMAIN s, NEW S
    PROVE  /\ RemoveAt(s, i) \in Seq(Message)
           /\ ToSet(RemoveAt(s, i)) \subseteq ToSet(s)
           /\ Count(RemoveAt(s, i), S) <= Count(s, S)
<1> DEFINE front == SubSeq(s, 1, i - 1)
           back  == SubSeq(s, i + 1, Len(s))
           s2    == RemoveAt(s, i)
           f     == [n \in DOMAIN s2 |-> IF n < i THEN n ELSE n + 1]
<1>1. /\ i \in 1..Len(s) /\ Len(s) \in Nat /\ DOMAIN s = 1..Len(s)
      /\ front \in Seq(Message) /\ back \in Seq(Message)
      /\ Len(front) = i - 1 /\ Len(back) = Len(s) - i
  OBVIOUS
<1>2. /\ \A n \in 1..(i - 1) : front[n] = s[n]
      /\ \A n \in 1..(Len(s) - i) : back[n] = s[n + i]
  BY <1>1
<1>3. s2 = front \o back
  BY DEF RemoveAt
<1> HIDE DEF front, back, s2
<1>4. s2 \in Seq(Message) /\ Len(s2) = Len(s) - 1 /\ DOMAIN s2 = 1..(Len(s) - 1)
  <2>1. /\ front \o back \in Seq(Message)
        /\ Len(front \o back) = Len(front) + Len(back)
        /\ DOMAIN (front \o back) = 1..Len(front \o back)
    BY <1>1
  <2>2. Len(front) + Len(back) = Len(s) - 1
    BY <1>1
  <2> QED
    BY <1>3, <2>1, <2>2
<1>5. ASSUME NEW n \in DOMAIN s2
      PROVE  f[n] \in DOMAIN s /\ s2[n] = s[f[n]]
  <2>1. n \in 1..(Len(s) - 1)
    BY <1>4
  <2>2. CASE n < i
    <3>1. s2[n] = front[n] /\ front[n] = s[n] /\ n \in DOMAIN s
      BY <1>1, <1>2, <1>3, <2>1, <2>2
    <3> QED
      BY <2>2, <3>1
  <2>3. CASE ~(n < i)
    <3>1. n - (i - 1) \in 1..(Len(s) - i) /\ n - (i - 1) + i = n + 1 /\ n + 1 \in DOMAIN s
      BY <1>1, <2>1, <2>3
    <3>2. s2[n] = back[n - (i - 1)]
      BY <1>1, <1>3, <2>1, <2>3
    <3>3. back[n - (i - 1)] = s[n + 1]
      BY <1>2, <3>1
    <3> QED
      BY <2>3, <3>1, <3>2, <3>3
  <2> QED
    BY <2>2, <2>3
<1>6. f \in [DOMAIN s2 -> DOMAIN s]
  BY <1>5
<1>7. \A n, k \in DOMAIN s2 : f[n] = f[k] => n = k
  BY <1>1, <1>4
<1> HIDE DEF f
<1> QED
  BY <1>4, <1>5, <1>6, <1>7, CountSelected DEF s2

\* A discard keeps the order and the number of what it does not drop.
LEMMA CountWithout ==
    ASSUME NEW s \in Seq(Message), NEW dropped, NEW S
    PROVE  /\ Without(s, dropped) \in Seq(Message)
           /\ ToSet(Without(s, dropped)) \subseteq {m \in ToSet(s) : m.kind \notin dropped}
           /\ Count(Without(s, dropped), S) <= Count(s, S)
           /\ (\A m \in S : m.kind \notin dropped)
                 => Count(Without(s, dropped), S) = Count(s, S)
<1> DEFINE kept == {i \in DOMAIN s : s[i].kind \notin dropped}
           size == Cardinality(kept)
           s2   == Without(s, dropped)
           f    == [n \in 1..size |-> Nth(kept, n)]
           g    == [n \in Hits(s2, S) |-> f[n]]
<1>1. Len(s) \in Nat /\ kept \in SUBSET (1..Len(s)) /\ IsFiniteSet(1..Len(s))
  BY FS_Interval
<1>2. IsFiniteSet(kept) /\ size \in Nat /\ IsFiniteSet(1..size)
      /\ Cardinality(1..size) = size
  <2> HIDE DEF kept
  <2>1. IsFiniteSet(kept)
    BY <1>1, FS_Subset
  <2>2. size \in Nat
    BY <2>1, FS_CardinalityType
  <2> HIDE DEF size
  <2> QED
    BY <2>1, <2>2, FS_Interval
<1>3. s2 \in Seq(Message) /\ ToSet(s2) \subseteq {m \in ToSet(s) : m.kind \notin dropped}
  <2>1. \A n \in DOMAIN s2 : \E i \in DOMAIN s : s2[n] = s[i] /\ s[i].kind \notin dropped
    BY WithoutSelects
  <2>2. s2 \in Seq(Message)
    BY WithoutSelects
  <2> HIDE DEF s2
  <2> QED
    BY <2>1, <2>2 DEF ToSet
<1>4. s2 = [n \in 1..size |-> s[Nth(kept, n)]]
  BY DEF Without
<1> HIDE DEF kept, size, s2
<1>5. ASSUME NEW n \in 1..size
      PROVE  Nth(kept, n) \in kept /\ Cardinality({j \in kept : j <= Nth(kept, n)}) = n
  <2>1. /\ n \in Nat /\ 1 <= n /\ n <= Cardinality(kept)
        /\ \A j \in kept : j \in 1..Len(s)
    BY <1>1, <1>2 DEF size
  <2> QED
    BY <1>1, <2>1, NthExists
<1>6. f \in [1..size -> kept] /\ \A n, k \in 1..size : f[n] = f[k] => n = k
  BY <1>5
<1>7. \A i \in kept : \E n \in 1..size : f[n] = i
  <2>1. f \in Injection(1..size, kept)
    BY <1>6 DEF Injection, IsInjective
  <2> HIDE DEF f
  <2>2. f \in Surjection(1..size, kept)
    BY <1>2, <2>1, FS_Injection DEF size
  <2> QED
    BY <2>2 DEF Surjection
<1>8. /\ DOMAIN s2 = 1..size
      /\ \A n \in 1..size : s2[n] = s[f[n]] /\ f[n] \in DOMAIN s
  BY <1>4, <1>5 DEF kept
<1> HIDE DEF f
<1>9. g \in Injection(Hits(s2, S), Hits(s, S))
  BY <1>6, <1>8 DEF Injection, IsInjective, Hits
<1>10. ASSUME \A m \in S : m.kind \notin dropped
       PROVE  g \in Surjection(Hits(s2, S), Hits(s, S))
  <2>1. ASSUME NEW i \in Hits(s, S)
        PROVE  \E n \in Hits(s2, S) : g[n] = i
    <3>1. i \in kept /\ s[i] \in S
      BY <1>10, <2>1 DEF Hits, kept
    <3>2. PICK n \in 1..size : f[n] = i
      BY <1>7, <3>1
    <3>3. n \in Hits(s2, S)
      BY <1>8, <3>1, <3>2 DEF Hits
    <3> QED
      BY <3>2, <3>3
  <2>2. g \in [Hits(s2, S) -> Hits(s, S)]
    BY <1>9 DEF Injection
  <2> HIDE DEF g
  <2> QED
    BY <2>1, <2>2 DEF Surjection
<1> HIDE DEF g
<1>11. /\ Cardinality(Hits(s2, S)) <= Cardinality(Hits(s, S))
       /\ Cardinality(Hits(s2, S)) = Cardinality(Hits(s, S))
            <=> g \in Surjection(Hits(s2, S), Hits(s, S))
  BY <1>9, HitsFinite, FS_Injection
<1> QED
  BY <1>3, <1>10, <1>11 DEF Count, s2

\* A message of the broker's that announces no pause.
Plain == {m \in Message : m.kind \notin TextKind \cup {"all_standby"}}

LEMMA PlainNotices ==
    ASSUME NEW k \in CloseKind \cup {"loop_alert", "joined"}
    PROVE  /\ Notice(k) \in Plain
           /\ Notice(k) \in FreshCloses <=> k \in CloseKind
BY DEF Notice, Plain, FreshCloses, Message, IsClose, Kind, CloseKind, PauseKind, TextKind

LEMMA KindsApart ==
    /\ ActiveOnes \cap Plain = {} /\ FreshPauses \cap Plain = {}
    /\ \A m \in Plain : m.kind \notin TextKind
BY DEF ActiveOnes, FreshPauses, Plain, TextKind

LEMMA ToSetConcat ==
    ASSUME NEW s \in Seq(Message), NEW u \in Seq(Message)
    PROVE  ToSet(s \o u) = ToSet(s) \cup ToSet(u)
<1>1. /\ Len(s) \in Nat /\ Len(u) \in Nat
      /\ DOMAIN s = 1..Len(s) /\ DOMAIN u = 1..Len(u)
      /\ DOMAIN (s \o u) = 1..(Len(s) + Len(u))
  OBVIOUS
<1>2. /\ \A i \in 1..Len(s) : i \in DOMAIN (s \o u) /\ (s \o u)[i] = s[i]
      /\ \A i \in 1..Len(u) : i + Len(s) \in DOMAIN (s \o u) /\ (s \o u)[i + Len(s)] = u[i]
      /\ \A i \in DOMAIN (s \o u) :
            \/ i \in 1..Len(s)
            \/ i - Len(s) \in 1..Len(u) /\ (s \o u)[i] = u[i - Len(s)]
  BY <1>1
<1>3. ToSet(s \o u) \subseteq ToSet(s) \cup ToSet(u)
  BY <1>1, <1>2 DEF ToSet
<1>4. ToSet(s) \subseteq ToSet(s \o u)
  <2> SUFFICES ASSUME NEW i \in 1..Len(s) PROVE s[i] \in ToSet(s \o u)
    BY <1>1 DEF ToSet
  <2> QED
    BY <1>2 DEF ToSet
<1>5. ToSet(u) \subseteq ToSet(s \o u)
  <2> SUFFICES ASSUME NEW i \in 1..Len(u) PROVE u[i] \in ToSet(s \o u)
    BY <1>1 DEF ToSet
  <2> QED
    BY <1>2 DEF ToSet
<1> QED
  BY <1>3, <1>4, <1>5

LEMMA ToSetFew ==
    ASSUME NEW m, NEW k
    PROVE  ToSet(<<>>) = {} /\ ToSet(<<m>>) = {m} /\ ToSet(<<m, k>>) = {m, k}
BY DEF ToSet

----------------------------------------------------------------------------
(* What a step keeps, part by part *)

HasPause(inbox) == ToSet(inbox) \cap FreshPauses # {}

\* Whoever had a room is still in it, or gone.
SameRoom(tk, tk2, ut) ==
    \A t \in ut :
        tk2[t] # None => /\ tk[t] # None
                         /\ tk[t].roomName # None => tk2[t].roomName = tk[t].roomName

\* The texts that reach somebody reached it before.
SameTexts(ib, hd, ib2, hd2) ==
    \A t \in Token : \A m \in Reaching(ib2, hd2, t) :
        m.kind \in TextKind =>
            \E old \in Reaching(ib, hd, t) : old.kind \in TextKind /\ old.from = m.from

LEMMA TextsKept ==
    ASSUME NEW tk, NEW ib, NEW hd, NEW ut \in SUBSET Token, TextsMeet(tk, ib, hd, ut),
           NEW tk2, NEW ib2, NEW hd2, NEW ut2, ut \subseteq ut2,
           SameRoom(tk, tk2, ut), SameTexts(ib, hd, ib2, hd2)
    PROVE  TextsMeet(tk2, ib2, hd2, ut2)
<1> SUFFICES ASSUME NEW t \in Token, NEW m \in Reaching(ib2, hd2, t), m.kind \in TextKind
             PROVE  /\ m.from # t /\ {t, m.from} \subseteq ut2
                    /\ \E r \in Room :
                         \A u \in {t, m.from} : tk2[u] # None => tk2[u].roomName = r
  BY DEF TextsMeet
<1>1. PICK old \in Reaching(ib, hd, t) : old.kind \in TextKind /\ old.from = m.from
  BY DEF SameTexts
<1>2. m.from # t /\ {t, m.from} \subseteq ut
  BY <1>1 DEF TextsMeet
<1>3. PICK r \in Room : \A u \in {t, m.from} : tk[u] # None => tk[u].roomName = r
  BY <1>1 DEF TextsMeet
<1>4. \A u \in {t, m.from} : tk2[u] # None => tk2[u].roomName = r
  BY <1>2, <1>3, NoneAssumption DEF SameRoom
<1> QED
  BY <1>2, <1>4

\* The token n arrives in the room q, where nobody has a pause to read; whoever
\* else is there stays as it is and reads no new pause.
Arrives(tk, ib, cs, tk2, ib2, cs2, n, q) ==
    /\ cs2 \subseteq cs \cup {q}
    /\ \A t \in Token \ {n} :
          /\ tk2[t] # None => /\ tk[t] # None
                              /\ tk2[t].roomName = tk[t].roomName
                              /\ tk2[t].standby = tk[t].standby
                              /\ HasPause(ib2[t]) => HasPause(ib[t])
          /\ tk[t] # None /\ HasPause(ib[t]) => tk[t].roomName # q
    /\ tk2[n] # None => ~HasPause(ib2[n]) /\ tk2[n].roomName = q

LEMMA PausesKept ==
    ASSUME NEW tk, NEW ib, NEW cs, PausesAgree(tk, ib, cs),
           NEW tk2, NEW ib2, NEW cs2, NEW n \in Token, NEW q,
           Arrives(tk, ib, cs, tk2, ib2, cs2, n, q)
    PROVE  PausesAgree(tk2, ib2, cs2)
<1> SUFFICES ASSUME NEW t \in Token, tk2[t] # None, HasPause(ib2[t])
             PROVE  /\ tk2[t].roomName \in Room \ cs2
                    /\ \A p \in Token :
                          (tk2[p] # None /\ tk2[p].roomName = tk2[t].roomName)
                             => tk2[p].standby
  BY DEF PausesAgree, HasPause
<1>1. /\ t \in Token \ {n} /\ tk[t] # None /\ HasPause(ib[t])
      /\ tk2[t].roomName = tk[t].roomName /\ tk[t].roomName # q
  BY DEF Arrives
<1>2. /\ tk[t].roomName \in Room \ cs
      /\ \A p \in Token : tk[p] # None /\ tk[p].roomName = tk[t].roomName => tk[p].standby
  BY <1>1 DEF PausesAgree, HasPause
<1>3. ASSUME NEW p \in Token, tk2[p] # None, tk2[p].roomName = tk2[t].roomName
      PROVE  tk2[p].standby
  BY <1>1, <1>2, <1>3 DEF Arrives
<1> QED
  BY <1>1, <1>2, <1>3 DEF Arrives

LEMMA PausesQuiet ==
    ASSUME NEW tk, NEW ib, NEW cs, PausesAgree(tk, ib, cs),
           NEW tk2, NEW ib2, NEW cs2, cs2 \subseteq cs,
           \A t \in Token :
              tk2[t] # None => /\ tk[t] # None
                               /\ tk2[t].roomName = tk[t].roomName
                               /\ tk2[t].standby = tk[t].standby
                               /\ HasPause(ib2[t]) => HasPause(ib[t])
    PROVE  PausesAgree(tk2, ib2, cs2)
<1> SUFFICES ASSUME NEW t \in Token, tk2[t] # None, HasPause(ib2[t])
             PROVE  /\ tk2[t].roomName \in Room \ cs2
                    /\ \A p \in Token :
                          (tk2[p] # None /\ tk2[p].roomName = tk2[t].roomName)
                             => tk2[p].standby
  BY DEF PausesAgree, HasPause
<1>1. tk[t] # None /\ HasPause(ib[t]) /\ tk2[t].roomName = tk[t].roomName
  OBVIOUS
<1>2. /\ tk[t].roomName \in Room \ cs
      /\ \A p \in Token : tk[p] # None /\ tk[p].roomName = tk[t].roomName => tk[p].standby
  BY <1>1 DEF PausesAgree, HasPause
<1> QED
  BY <1>1, <1>2

\* The fresh notices in an inbox are no more than are newly accounted for.
Balanced(tk, ib, rc, tk2, ib2, rc2) ==
    \A t \in Token :
        tk2[t] # None =>
            \/ Count(ib2[t], FreshCloses) = 0
            \/ /\ tk[t] # None
               /\ Count(ib2[t], FreshCloses) + (tk[t].pendingCloseMessages + rc[t])
                     <= Count(ib[t], FreshCloses) + (tk2[t].pendingCloseMessages + rc2[t])

LEMMA CountsKept ==
    ASSUME NEW tk, NEW ib, NEW rc, NoticesBounded(tk, ib, rc),
           NEW tk2, NEW ib2, NEW rc2, Balanced(tk, ib, rc, tk2, ib2, rc2),
           tk \in [Token -> TokenRecord \cup {None}], tk2 \in [Token -> TokenRecord \cup {None}],
           rc \in [Token -> Nat], rc2 \in [Token -> Nat],
           ib \in [Token -> Seq(Message)], ib2 \in [Token -> Seq(Message)]
    PROVE  NoticesBounded(tk2, ib2, rc2)
<1> SUFFICES ASSUME NEW t \in Token, tk2[t] # None
             PROVE  Count(ib2[t], FreshCloses) <= tk2[t].pendingCloseMessages + rc2[t]
  BY DEF NoticesBounded
<1>1. /\ tk2[t].pendingCloseMessages \in Nat /\ rc[t] \in Nat /\ rc2[t] \in Nat
      /\ tk[t] # None => tk[t].pendingCloseMessages \in Nat
  BY DEF TokenRecord
<1>2. Count(ib[t], FreshCloses) \in Nat /\ Count(ib2[t], FreshCloses) \in Nat
  BY HitsFinite
<1>3. CASE Count(ib2[t], FreshCloses) = 0
  BY <1>1, <1>3
<1>4. CASE Count(ib2[t], FreshCloses) # 0
  <2>1. /\ tk[t] # None
        /\ Count(ib2[t], FreshCloses) + (tk[t].pendingCloseMessages + rc[t])
             <= Count(ib[t], FreshCloses) + (tk2[t].pendingCloseMessages + rc2[t])
    BY <1>4 DEF Balanced
  <2>2. Count(ib[t], FreshCloses) <= tk[t].pendingCloseMessages + rc[t]
    BY <2>1 DEF NoticesBounded
  <2> QED
    BY <1>1, <1>2, <2>1, <2>2
<1> QED
  BY <1>3, <1>4

----------------------------------------------------------------------------
(* Steps that only tell: notices are added to inboxes, and counted *)

\* What t sees of a step that tells.
Told(tk, ib, tk2, ib2, t) ==
    /\ ib2[t] \in Seq(Message) /\ ToSet(ib2[t]) \subseteq ToSet(ib[t]) \cup Plain
    /\ Count(ib2[t], ActiveOnes) = Count(ib[t], ActiveOnes)
    /\ tk2[t] # None =>
         /\ tk[t] # None
         /\ tk2[t].roomName = tk[t].roomName /\ tk2[t].standby = tk[t].standby
         /\ Count(ib2[t], FreshCloses) + tk[t].pendingCloseMessages
              = Count(ib[t], FreshCloses) + tk2[t].pendingCloseMessages

Tells(tk, ib, tk2, ib2) == \A t \in Token : Told(tk, ib, tk2, ib2, t)

\* The notices n are added.
LEMMA ToldThese ==
    ASSUME NEW tk, NEW ib, NEW tk2, NEW ib2, NEW t, ib[t] \in Seq(Message),
           NEW n \in Seq(Message), ToSet(n) \subseteq Plain, ib2[t] = ib[t] \o n,
           tk2[t] # None =>
              /\ tk[t] # None
              /\ tk2[t].roomName = tk[t].roomName /\ tk2[t].standby = tk[t].standby
              /\ tk[t].pendingCloseMessages \in Nat
              /\ tk2[t].pendingCloseMessages
                   = tk[t].pendingCloseMessages + Count(n, FreshCloses)
    PROVE  Told(tk, ib, tk2, ib2, t)
<1>1. /\ ib[t] \o n \in Seq(Message) /\ ToSet(ib[t] \o n) = ToSet(ib[t]) \cup ToSet(n)
      /\ Count(ib[t] \o n, ActiveOnes) = Count(ib[t], ActiveOnes) + Count(n, ActiveOnes)
      /\ Count(ib[t] \o n, FreshCloses) = Count(ib[t], FreshCloses) + Count(n, FreshCloses)
  BY CountConcat, ToSetConcat
<1>2. Count(n, ActiveOnes) = 0
  <2>1. Hits(n, ActiveOnes) = {}
    BY KindsApart DEF Hits, ToSet
  <2> QED
    BY <2>1, FS_EmptySet DEF Count
<1>3. /\ Count(ib[t], ActiveOnes) \in Nat /\ Count(ib[t], FreshCloses) \in Nat
      /\ Count(n, FreshCloses) \in Nat
  BY HitsFinite
<1> QED
  BY <1>1, <1>2, <1>3 DEF Told

\* Nothing is added.
LEMMA ToldNothing ==
    ASSUME NEW tk, NEW ib, NEW tk2, NEW ib2, NEW t, ib[t] \in Seq(Message),
           ib2[t] = ib[t],
           tk2[t] # None =>
              /\ tk[t] # None
              /\ tk2[t].roomName = tk[t].roomName /\ tk2[t].standby = tk[t].standby
              /\ tk2[t].pendingCloseMessages = tk[t].pendingCloseMessages
    PROVE  Told(tk, ib, tk2, ib2, t)
BY DEF Told

LEMMA TellingKeeps ==
    ASSUME NEW tk, NEW ib, NEW hd, NEW cs, NEW rc, NEW ut \in SUBSET Token,
           TextsMeet(tk, ib, hd, ut), PausesAgree(tk, ib, cs), NoticesBounded(tk, ib, rc),
           NEW tk2, NEW ib2, NEW cs2, Tells(tk, ib, tk2, ib2), cs2 \subseteq cs,
           tk \in [Token -> TokenRecord \cup {None}], tk2 \in [Token -> TokenRecord \cup {None}],
           rc \in [Token -> Nat],
           ib \in [Token -> Seq(Message)], ib2 \in [Token -> Seq(Message)]
    PROVE  /\ TextsMeet(tk2, ib2, hd, ut) /\ PausesAgree(tk2, ib2, cs2)
           /\ NoticesBounded(tk2, ib2, rc)
<1>1. SameRoom(tk, tk2, ut)
  BY DEF SameRoom, Tells, Told
<1>2. SameTexts(ib, hd, ib2, hd)
  BY KindsApart DEF SameTexts, Reaching, Tells, Told
<1>3. TextsMeet(tk2, ib2, hd, ut)
  BY <1>1, <1>2, TextsKept
<1>4. \A t \in Token : HasPause(ib2[t]) => HasPause(ib[t])
  BY KindsApart DEF HasPause, Tells, Told
<1>5. PausesAgree(tk2, ib2, cs2)
  <2>1. \A t \in Token :
           tk2[t] # None => /\ tk[t] # None
                            /\ tk2[t].roomName = tk[t].roomName
                            /\ tk2[t].standby = tk[t].standby
                            /\ HasPause(ib2[t]) => HasPause(ib[t])
    BY <1>4 DEF Tells, Told
  <2> QED
    BY <2>1, PausesQuiet
<1>6. Balanced(tk, ib, rc, tk2, ib2, rc)
  <2> SUFFICES ASSUME NEW t \in Token, tk2[t] # None
               PROVE  /\ tk[t] # None
                      /\ Count(ib2[t], FreshCloses) + (tk[t].pendingCloseMessages + rc[t])
                           <= Count(ib[t], FreshCloses) + (tk2[t].pendingCloseMessages + rc[t])
    BY DEF Balanced
  <2>1. /\ tk[t] # None
        /\ Count(ib2[t], FreshCloses) + tk[t].pendingCloseMessages
              = Count(ib[t], FreshCloses) + tk2[t].pendingCloseMessages
    BY DEF Tells, Told
  <2>2. /\ tk[t].pendingCloseMessages \in Nat /\ tk2[t].pendingCloseMessages \in Nat
        /\ rc[t] \in Nat
        /\ Count(ib[t], FreshCloses) \in Nat /\ Count(ib2[t], FreshCloses) \in Nat
    BY <2>1, HitsFinite DEF TokenRecord
  <2> QED
    BY <2>1, <2>2
<1> QED
  BY <1>3, <1>5, <1>6, CountsKept

----------------------------------------------------------------------------
(* cleanupExpired() and the operations that only tell *)

LEMMA MarkedFacts ==
    ASSUME NEW token \in TokenRecord, NEW n \in Nat
    PROVE  /\ MarkedForClose(token, n) \in TokenRecord
           /\ MarkedForClose(token, n).roomName = token.roomName
           /\ MarkedForClose(token, n).standby = token.standby
           /\ token.pendingCloseMessages \in Nat
           /\ MarkedForClose(token, n).pendingCloseMessages = token.pendingCloseMessages + n
BY DEF MarkedForClose, TokenRecord

LEMMA OneNotice ==
    ASSUME NEW k \in CloseKind
    PROVE  /\ Notice(k) \in Message /\ <<Notice(k)>> \in Seq(Message)
           /\ ToSet(<<Notice(k)>>) \subseteq Plain
           /\ Count(<<Notice(k)>>, FreshCloses) = 1
<1> DEFINE m == Notice(k)
<1>1. m \in Message /\ m \in Plain /\ m \in FreshCloses
  BY PlainNotices DEF Plain
<1> HIDE DEF m
<1>2. <<m>> \in Seq(Message) /\ ToSet(<<m>>) \subseteq Plain
  <2>1. <<m>> \in Seq(Message)
    BY <1>1
  <2>2. ToSet(<<m>>) = {m}
    BY ToSetFew
  <2> QED
    BY <1>1, <2>1, <2>2
<1>3. Count(<<m>>, FreshCloses) = 1
  BY <1>1, CountFew
<1> QED
  BY <1>1, <1>2, <1>3 DEF m

LEMMA FarewellTells ==
    ASSUME NEW role
    PROVE  /\ Farewell(role) \in Seq(Message) /\ ToSet(Farewell(role)) \subseteq Plain
           /\ Len(Farewell(role)) \in Nat
           /\ Count(Farewell(role), FreshCloses) = Len(Farewell(role))
<1> DEFINE h == Notice("host_closed")
           p == Notice("partner_left")
<1>1. "host_closed" \in CloseKind /\ "partner_left" \in CloseKind
  BY DEF CloseKind
<1>2. /\ h \in Message /\ <<h>> \in Seq(Message) /\ ToSet(<<h>>) \subseteq Plain
      /\ Count(<<h>>, FreshCloses) = 1
  BY <1>1, OneNotice
<1>3. /\ p \in Message /\ <<p>> \in Seq(Message) /\ ToSet(<<p>>) \subseteq Plain
      /\ Count(<<p>>, FreshCloses) = 1
  BY <1>1, OneNotice
<1>4. Farewell(role) = IF role = "host" THEN <<h, h>> ELSE <<p>>
  BY DEF Farewell
<1> HIDE DEF h, p
<1>5. <<h, h>> = <<h>> \o <<h>>
  OBVIOUS
<1>6. /\ <<h, h>> \in Seq(Message) /\ Count(<<h, h>>, FreshCloses) = 2
      /\ ToSet(<<h, h>>) \subseteq Plain /\ Len(<<h, h>>) = 2 /\ Len(<<p>>) = 1
  <2> DEFINE s == <<h>>
             u == <<h, h>>
  <2>1. s \in Seq(Message) /\ Count(s, FreshCloses) = 1 /\ u = s \o s
    BY <1>2, <1>5
  <2>2. Count(<<h, h>>, FreshCloses) = 2
    <3> HIDE DEF s, u
    <3>1. Count(s \o s, FreshCloses) = Count(s, FreshCloses) + Count(s, FreshCloses)
      BY <2>1, CountConcat
    <3>2. Count(u, FreshCloses) = 2
      BY <2>1, <3>1
    <3> QED
      BY <3>2 DEF u
  <2>3. ToSet(<<h, h>>) \subseteq Plain
    BY <1>2, ToSetFew
  <2> QED
    BY <1>2, <2>2, <2>3
<1> QED
  BY <1>3, <1>4, <1>6

LEMMA CleanTells ==
    ASSUME IInv, NInv
    PROVE  Tells(tokens, inboxes, CleanTokens, CleanInboxes)
<1> SUFFICES ASSUME NEW t \in Token
             PROVE  Told(tokens, inboxes, CleanTokens, CleanInboxes, t)
  BY DEF Tells
<1>1. inboxes[t] \in Seq(Message) /\ tokens[t] \in TokenRecord \cup {None}
  BY Found DEF NInv, InboxesOK, Types
<1>2. CASE Expiring(t)
  <2> DEFINE bye    == Notice("session_expired")
             marked == MarkedForClose(tokens[t], 1)
  <2>1. /\ tokens[t] # None /\ tokens[t] \in TokenRecord /\ CleanTokens[t] # None
    BY <1>1, <1>2, ExpiringHasRoom, Found DEF Settled
  <2>2. CleanTokens[t] = [marked EXCEPT !.idle = FALSE]
    BY <1>2, <2>1 DEF CleanTokens
  <2>3. CleanInboxes[t] = Append(inboxes[t], bye)
    BY <1>2 DEF CleanInboxes
  <2>4. /\ bye \in Message /\ <<bye>> \in Seq(Message) /\ ToSet(<<bye>>) \subseteq Plain
        /\ Count(<<bye>>, FreshCloses) = 1
    BY OneNotice DEF CloseKind
  <2> HIDE DEF bye
  <2>5. CleanInboxes[t] = inboxes[t] \o <<bye>>
    BY <1>1, <2>3, <2>4
  <2>6. /\ marked \in TokenRecord
        /\ marked.roomName = tokens[t].roomName /\ marked.standby = tokens[t].standby
        /\ tokens[t].pendingCloseMessages \in Nat
        /\ marked.pendingCloseMessages = tokens[t].pendingCloseMessages + 1
    BY <2>1, MarkedFacts
  <2> HIDE DEF marked
  <2>7. /\ CleanTokens[t].roomName = tokens[t].roomName
        /\ CleanTokens[t].standby = tokens[t].standby
        /\ CleanTokens[t].pendingCloseMessages
              = tokens[t].pendingCloseMessages + Count(<<bye>>, FreshCloses)
    BY <2>2, <2>4, <2>6 DEF TokenRecord
  <2> QED
    BY <1>1, <2>1, <2>4, <2>5, <2>6, <2>7, ToldThese
<1>3. CASE ~Expiring(t)
  <2>1. CleanTokens[t] # None => tokens[t] # None /\ CleanTokens[t] = tokens[t]
    BY <1>3 DEF CleanTokens
  <2>2. CleanInboxes[t] = inboxes[t]
    BY <1>3 DEF CleanInboxes
  <2> QED
    BY <1>1, <2>1, <2>2, ToldNothing
<1> QED
  BY <1>2, <1>3

LEMMA MFound ==
    ASSUME IInv, NInv, MInv
    PROVE  /\ TextsMeet(CleanTokens, CleanInboxes, held, usedTokens)
           /\ PausesAgree(CleanTokens, CleanInboxes, codes)
           /\ NoticesBounded(CleanTokens, CleanInboxes, recounts)
<1>1. /\ tokens \in [Token -> TokenRecord \cup {None}]
      /\ CleanTokens \in [Token -> TokenRecord \cup {None}]
      /\ inboxes \in [Token -> Seq(Message)] /\ CleanInboxes \in [Token -> Seq(Message)]
  BY Found, NFound DEF Types, NInv, InboxesOK
<1>2. recounts \in [Token -> Nat] /\ usedTokens \in SUBSET Token
  BY DEF IInv, TablesOK
<1>3. Tells(tokens, inboxes, CleanTokens, CleanInboxes)
  BY CleanTells
<1>4. /\ TextsMeet(tokens, inboxes, held, usedTokens) /\ PausesAgree(tokens, inboxes, codes)
      /\ NoticesBounded(tokens, inboxes, recounts)
  BY DEF MInv
<1> QED
  BY <1>1, <1>2, <1>3, <1>4, TellingKeeps

\* A step that only tells, on the tables before or after cleanup.
LEMMA TellingM ==
    ASSUME IInv, NInv, MInv, IInv', NInv', NEW tk, NEW ib,
           \/ tk = tokens /\ ib = inboxes
           \/ tk = CleanTokens /\ ib = CleanInboxes,
           Tells(tk, ib, tokens', inboxes'), codes' \subseteq codes,
           held' = held, UNCHANGED history
    PROVE  MInv'
<1>1. /\ TextsMeet(tk, ib, held, usedTokens) /\ PausesAgree(tk, ib, codes)
      /\ NoticesBounded(tk, ib, recounts)
      /\ tk \in [Token -> TokenRecord \cup {None}] /\ ib \in [Token -> Seq(Message)]
  BY MFound, Found, NFound DEF MInv, NInv, InboxesOK, Types
<1>2. /\ tokens' \in [Token -> TokenRecord \cup {None}]
      /\ inboxes' \in [Token -> Seq(Message)]
      /\ recounts \in [Token -> Nat] /\ usedTokens \in SUBSET Token
  BY DEF IInv, TablesOK, NInv, InboxesOK
<1>3. /\ TextsMeet(tokens', inboxes', held, usedTokens) /\ PausesAgree(tokens', inboxes', codes')
      /\ NoticesBounded(tokens', inboxes', recounts)
  BY <1>1, <1>2, TellingKeeps
<1> QED
  BY <1>3 DEF MInv, TextsMeet, PausesAgree, NoticesBounded, Reaching, history

LEMMA SeenTells ==
    ASSUME NEW tk, NEW ib, tk \in [Token -> TokenRecord \cup {None}],
           ib \in [Token -> Seq(Message)], NEW t \in Token, tk[t] # None, NEW idle \in BOOLEAN
    PROVE  Tells(tk, ib, [tk EXCEPT ![t].idle = idle], ib)
<1> DEFINE tk2 == [tk EXCEPT ![t].idle = idle]
<1>1. tk[t] \in TokenRecord
  OBVIOUS
<1>2. ASSUME NEW u \in Token, tk2[u] # None
      PROVE  /\ tk[u] # None
             /\ tk2[u].roomName = tk[u].roomName /\ tk2[u].standby = tk[u].standby
             /\ tk2[u].pendingCloseMessages = tk[u].pendingCloseMessages
  <2>1. CASE u = t
    BY <1>1, <2>1 DEF TokenRecord
  <2>2. CASE u # t
    BY <1>2, <2>2
  <2> QED
    BY <2>1, <2>2
<1> HIDE DEF tk2
<1>3. \A u \in Token : Told(tk, ib, tk2, ib, u)
  BY <1>2, ToldNothing
<1> QED
  BY <1>3 DEF Tells, tk2

LEMMA SameTells ==
    ASSUME NEW tk, NEW ib, ib \in [Token -> Seq(Message)]
    PROVE  Tells(tk, ib, tk, ib)
BY ToldNothing DEF Tells

\* Calls that only move lastSeen.
LEMMA LooksTell ==
    ASSUME IInv, NInv, NEW t \in Token, NEW hl, Touch(t) \/ UpdateRoomHeadless(t, hl)
    PROVE  Tells(CleanTokens, CleanInboxes, tokens', inboxes')
<1>1. /\ CleanTokens \in [Token -> TokenRecord \cup {None}]
      /\ CleanInboxes \in [Token -> Seq(Message)]
  BY Found, NFound DEF Types
<1>2. /\ CleanTokens[t] # None /\ inboxes' = CleanInboxes
      /\ tokens' = [CleanTokens EXCEPT ![t].idle = FALSE]
  BY DEF Touch, UpdateRoomHeadless, RoomOf
<1>3. Tells(CleanTokens, CleanInboxes, [CleanTokens EXCEPT ![t].idle = FALSE], CleanInboxes)
  BY <1>1, <1>2, SeenTells
<1> QED
  BY <1>2, <1>3

\* Whoever is told of a departure, or is sent a text, is the other one there.
LEMMA PartnerIsAnother ==
    ASSUME IInv, NEW t \in Token, PartnerOf(t) # None
    PROVE  /\ PartnerOf(t) \in Token \ {t}
           /\ CleanTokens[t] # None /\ CleanTokens[t].roomName \in Room
           /\ CleanTokens[t].roomName \notin codes
           /\ \A p \in Token : CleanTokens[p] # None =>
                 (CleanTokens[p].roomName = CleanTokens[t].roomName <=> p \in {t, PartnerOf(t)})
<1> DEFINE r    == CleanTokens[t].roomName
           role == CleanTokens[t].role
           p    == PartnerOf(t)
<1>1. p \in Token /\ CleanTokens[p] # None /\ CleanTokens[t] # None /\ r # None
  BY Partner
<1>2. /\ r \in Room /\ role \in Role /\ rooms[r] # None /\ rooms[r] \in RoomRecord
      /\ OwnSlot(rooms[r], role) = t
  BY <1>1, Found DEF Agree, Placed, Types, TokenRecord
<1>3. RoomOf(t) = rooms[r] /\ p = PartnerSlot(rooms[r], role)
  BY <1>1, <1>2, Found DEF PartnerOf, RoomOf
<1>4. PICK other \in Role : /\ other # role /\ p = OwnSlot(rooms[r], other)
                            /\ Role = {role, other}
  BY <1>2, <1>3 DEF PartnerSlot, OwnSlot, Role
<1> HIDE DEF p
<1>5. /\ CleanTokens[p].roomName = r /\ CleanTokens[p].role = other
  BY <1>1, <1>2, <1>4, NoneAssumption, Found DEF Agree, Occupied
<1>6. p # t
  BY <1>4, <1>5
<1>7. ASSUME NEW u \in Token, CleanTokens[u] # None, CleanTokens[u].roomName = r
      PROVE  u \in {t, p}
  <2>1. CleanTokens[u].role \in Role /\ OwnSlot(rooms[r], CleanTokens[u].role) = u
    BY <1>1, <1>7, Found DEF Agree, Placed, Types, TokenRecord
  <2> QED
    BY <1>2, <1>4, <2>1
<1>8. r \notin codes
  <2>1. ASSUME r \in codes PROVE FALSE
    <3>1. /\ rooms[r].sessionType \in {"standard", "listener"}
          /\ OwnSlot(rooms[r], GuestRole(rooms[r].sessionType)) = None
      BY <1>2, <2>1 DEF IInv, CodeGuardsFreeSlot, RoomRecord
    <3>2. GuestRole(rooms[r].sessionType) \in {role, other}
      BY <1>4, <3>1, Roles
    <3> QED
      BY <1>1, <1>2, <1>4, <3>1, <3>2, NoneAssumption
  <2> QED
    BY <2>1
<1> QED
  BY <1>1, <1>2, <1>5, <1>6, <1>7, <1>8 DEF p

LEMMA LeaveTells ==
    ASSUME IInv, NInv, NEW t \in Token, LeaveSession(t)
    PROVE  Tells(CleanTokens, CleanInboxes, tokens', inboxes')
<1> DEFINE role == CleanTokens[t].role
           p    == PartnerOf(t)
           bye  == Farewell(role)
           told == MarkedForClose(CleanTokens[p], Len(bye))
<1>1. /\ CleanTokens \in [Token -> TokenRecord \cup {None}]
      /\ CleanInboxes \in [Token -> Seq(Message)]
  BY Found, NFound DEF Types
<1>2. /\ bye \in Seq(Message) /\ ToSet(bye) \subseteq Plain /\ Len(bye) \in Nat
      /\ Count(bye, FreshCloses) = Len(bye)
  BY FarewellTells
<1> HIDE DEF bye
<1>3. ASSUME NEW u \in Token, inboxes'[u] = CleanInboxes[u],
             tokens'[u] = None \/ tokens'[u] = CleanTokens[u]
      PROVE  Told(CleanTokens, CleanInboxes, tokens', inboxes', u)
  BY <1>1, <1>3, ToldNothing
<1>4. CASE p = None
  <2>1. tokens' = [CleanTokens EXCEPT ![t] = None] /\ inboxes' = CleanInboxes
    BY <1>4 DEF LeaveSession
  <2>2. \A u \in Token : tokens'[u] = None \/ tokens'[u] = CleanTokens[u]
    BY <1>1, <2>1
  <2> QED
    BY <1>3, <2>1, <2>2 DEF Tells
<1>5. CASE p # None
  <2>1. p \in Token /\ CleanTokens[p] # None /\ CleanTokens[p] \in TokenRecord
    BY <1>1, <1>5, Partner
  <2>2. /\ tokens' = [CleanTokens EXCEPT ![t] = None, ![p] = MarkedForClose(@, Len(bye))]
        /\ inboxes' = [CleanInboxes EXCEPT ![p] = @ \o bye]
    BY <1>5 DEF LeaveSession, bye
  <2>3. /\ told.roomName = CleanTokens[p].roomName /\ told.standby = CleanTokens[p].standby
        /\ CleanTokens[p].pendingCloseMessages \in Nat
        /\ told.pendingCloseMessages = CleanTokens[p].pendingCloseMessages + Len(bye)
    BY <1>2, <2>1, MarkedFacts
  <2>4. p # t
    BY <1>5, PartnerIsAnother
  <2>5. /\ inboxes'[p] = CleanInboxes[p] \o bye /\ tokens'[p] = told
        /\ \A u \in Token \ {p} : /\ inboxes'[u] = CleanInboxes[u]
                                  /\ tokens'[u] = None \/ tokens'[u] = CleanTokens[u]
    BY <1>1, <2>1, <2>2, <2>4
  <2> HIDE DEF told, p
  <2>6. Told(CleanTokens, CleanInboxes, tokens', inboxes', p)
    BY <1>1, <1>2, <2>1, <2>3, <2>5, ToldThese
  <2> QED
    BY <1>3, <2>5, <2>6 DEF Tells
<1> QED
  BY <1>4, <1>5

LEMMA CloseTells ==
    ASSUME NEW tk, NEW rm, NEW ib, tk \in [Token -> TokenRecord \cup {None}],
           ib \in [Token -> Seq(Message)], NEW r \in Room, CloseRoom(r, tk, rm, ib)
    PROVE  Tells(tk, ib, tokens', inboxes')
<1> DEFINE told == IF rm[r] = None THEN {} ELSE {t \in Slots(rm[r]) : tk[t] # None}
           bye  == Notice("admin_closed")
<1>1. /\ tokens' = [t \in Token |-> IF t \in told THEN MarkedForClose(tk[t], 1) ELSE tk[t]]
      /\ inboxes' = [t \in Token |-> IF t \in told THEN Append(ib[t], bye) ELSE ib[t]]
  BY DEF CloseRoom
<1>2. /\ bye \in Message /\ <<bye>> \in Seq(Message) /\ ToSet(<<bye>>) \subseteq Plain
      /\ Count(<<bye>>, FreshCloses) = 1
  BY OneNotice DEF CloseKind
<1>3. \A t \in told : tk[t] # None
  OBVIOUS
<1> HIDE DEF told, bye
<1>4. ASSUME NEW t \in Token, t \in told
      PROVE  Told(tk, ib, tokens', inboxes', t)
  <2>1. tk[t] # None /\ tk[t] \in TokenRecord
    BY <1>3, <1>4
  <2>2. tokens'[t] = MarkedForClose(tk[t], 1) /\ inboxes'[t] = ib[t] \o <<bye>>
    BY <1>1, <1>2, <1>4
  <2>3. /\ tokens'[t].roomName = tk[t].roomName /\ tokens'[t].standby = tk[t].standby
        /\ tk[t].pendingCloseMessages \in Nat
        /\ tokens'[t].pendingCloseMessages
             = tk[t].pendingCloseMessages + Count(<<bye>>, FreshCloses)
    BY <1>2, <2>1, <2>2, MarkedFacts
  <2> QED
    BY <1>2, <2>1, <2>2, <2>3, ToldThese
<1>5. ASSUME NEW t \in Token, t \notin told
      PROVE  Told(tk, ib, tokens', inboxes', t)
  BY <1>1, <1>5, ToldNothing
<1> QED
  BY <1>4, <1>5 DEF Tells

LEMMA DeadlinesTell ==
    ASSUME IInv, NInv, NEW t \in Token, TokenAges(t) \/ TokenIdles(t)
    PROVE  Tells(tokens, inboxes, tokens', inboxes')
<1>1. tokens \in [Token -> TokenRecord \cup {None}] /\ inboxes \in [Token -> Seq(Message)]
  BY Found DEF Types, NInv, InboxesOK
<1>2. CASE TokenAges(t)
  <2>1. /\ tokens[t] # None /\ tokens[t] \in TokenRecord /\ inboxes' = inboxes
        /\ tokens' = [tokens EXCEPT ![t].age = @ + 1]
    BY <1>1, <1>2 DEF TokenAges
  <2>2. ASSUME NEW u \in Token, tokens'[u] # None
        PROVE  /\ tokens[u] # None
               /\ tokens'[u].roomName = tokens[u].roomName
               /\ tokens'[u].standby = tokens[u].standby
               /\ tokens'[u].pendingCloseMessages = tokens[u].pendingCloseMessages
    <3>1. CASE u = t
      BY <1>1, <2>1, <3>1 DEF TokenRecord
    <3>2. CASE u # t
      BY <1>1, <2>1, <2>2, <3>2
    <3> QED
      BY <3>1, <3>2
  <2>3. \A u \in Token : Told(tokens, inboxes, tokens', inboxes', u)
    BY <1>1, <2>1, <2>2, ToldNothing
  <2> QED
    BY <2>3 DEF Tells
<1>3. CASE TokenIdles(t)
  <2>1. /\ tokens[t] # None /\ inboxes' = inboxes
        /\ tokens' = [tokens EXCEPT ![t].idle = TRUE]
    BY <1>3 DEF TokenIdles
  <2>2. Tells(tokens, inboxes, [tokens EXCEPT ![t].idle = TRUE], inboxes)
    BY <1>1, <2>1, SeenTells
  <2> QED
    BY <2>1, <2>2
<1> QED
  BY <1>2, <1>3

\* The steps that only tell.
TellingStep ==
    \/ Observe
    \/ \E t \in Token : \/ Touch(t) \/ LeaveSession(t) \/ TokenAges(t) \/ TokenIdles(t)
                        \/ \E hl \in HeadlessModes : UpdateRoomHeadless(t, hl)
    \/ \E r \in Room : \/ JoinGoneRoom(r) \/ InvalidateRoom(r)
                       \/ InvalidateByCode(r) \/ CodeLapses(r)

LEMMA TellingFacts ==
    ASSUME IInv, NInv, TellingStep
    PROVE  /\ \/ Tells(tokens, inboxes, tokens', inboxes')
              \/ Tells(CleanTokens, CleanInboxes, tokens', inboxes')
           /\ codes' \subseteq codes /\ held' = held /\ UNCHANGED history
<1>1. /\ tokens \in [Token -> TokenRecord \cup {None}] /\ inboxes \in [Token -> Seq(Message)]
      /\ CleanTokens \in [Token -> TokenRecord \cup {None}]
      /\ CleanInboxes \in [Token -> Seq(Message)]
  BY Found, NFound DEF Types, NInv, InboxesOK
<1>2. CASE Observe
  <2>1. Tells(CleanTokens, CleanInboxes, tokens', inboxes')
    BY <1>1, <1>2, SameTells DEF Observe
  <2> QED
    BY <1>2, <2>1 DEF Observe
<1>3. ASSUME NEW t \in Token,
             \/ Touch(t) \/ LeaveSession(t) \/ TokenAges(t) \/ TokenIdles(t)
             \/ \E hl \in HeadlessModes : UpdateRoomHeadless(t, hl)
      PROVE  /\ \/ Tells(tokens, inboxes, tokens', inboxes')
                \/ Tells(CleanTokens, CleanInboxes, tokens', inboxes')
             /\ codes' \subseteq codes /\ held' = held /\ UNCHANGED history
  <2>1. codes' \subseteq codes /\ held' = held /\ UNCHANGED history
    BY <1>3 DEF Touch, LeaveSession, TokenAges, TokenIdles, UpdateRoomHeadless
  <2> QED
    BY <1>3, <2>1, LooksTell, LeaveTells, DeadlinesTell
<1>4. ASSUME NEW r \in Room, JoinGoneRoom(r) \/ CodeLapses(r)
      PROVE  /\ \/ Tells(tokens, inboxes, tokens', inboxes')
                \/ Tells(CleanTokens, CleanInboxes, tokens', inboxes')
             /\ codes' \subseteq codes /\ held' = held /\ UNCHANGED history
  <2>1. CASE JoinGoneRoom(r)
    BY <1>1, <2>1, SameTells DEF JoinGoneRoom
  <2>2. CASE CodeLapses(r)
    <3>1. Tells(tokens, inboxes, tokens', inboxes')
      BY <1>1, <2>2, SameTells DEF CodeLapses
    <3> QED
      BY <2>2, <3>1 DEF CodeLapses
  <2> QED
    BY <1>4, <2>1, <2>2
<1>5. ASSUME NEW r \in Room, InvalidateRoom(r)
      PROVE  /\ Tells(tokens, inboxes, tokens', inboxes')
             /\ codes' \subseteq codes /\ held' = held /\ UNCHANGED history
  <2>1. CloseRoom(r, tokens, rooms, inboxes)
        /\ codes' = codes /\ held' = held /\ UNCHANGED history
    BY <1>5 DEF InvalidateRoom
  <2>2. Tells(tokens, inboxes, tokens', inboxes')
    BY <1>1, <2>1, CloseTells
  <2> QED
    BY <2>1, <2>2
<1>6. ASSUME NEW r \in Room, InvalidateByCode(r)
      PROVE  /\ Tells(CleanTokens, CleanInboxes, tokens', inboxes')
             /\ codes' \subseteq codes /\ held' = held /\ UNCHANGED history
  <2>1. CloseRoom(r, CleanTokens, CleanRooms, CleanInboxes)
        /\ codes' \subseteq codes /\ held' = held /\ UNCHANGED history
    BY <1>6 DEF InvalidateByCode
  <2>2. Tells(CleanTokens, CleanInboxes, tokens', inboxes')
    BY <1>1, <2>1, CloseTells
  <2> QED
    BY <2>1, <2>2
<1> QED
  BY <1>2, <1>3, <1>4, <1>5, <1>6 DEF TellingStep

----------------------------------------------------------------------------
(* Messages are taken out, put back, or lapse *)

LEMMA SettleM ==
    ASSUME IInv, NInv, MInv, IInv', NInv', NEW tk, NEW ib,
           \/ tk = tokens /\ ib = inboxes
           \/ tk = CleanTokens /\ ib = CleanInboxes,
           SameRoom(tk, tokens', usedTokens), SameTexts(ib, held, inboxes', held'),
           PausesAgree(tk, ib, codes) => PausesAgree(tokens', inboxes', codes'),
           Balanced(tk, ib, recounts, tokens', inboxes', recounts'),
           usedTokens \subseteq usedTokens'
    PROVE  MInv'
<1>1. /\ TextsMeet(tk, ib, held, usedTokens) /\ PausesAgree(tk, ib, codes)
      /\ NoticesBounded(tk, ib, recounts)
      /\ tk \in [Token -> TokenRecord \cup {None}] /\ ib \in [Token -> Seq(Message)]
  BY MFound, Found, NFound DEF MInv, NInv, InboxesOK, Types
<1>2. /\ tokens' \in [Token -> TokenRecord \cup {None}]
      /\ inboxes' \in [Token -> Seq(Message)]
      /\ recounts \in [Token -> Nat] /\ recounts' \in [Token -> Nat]
      /\ usedTokens \in SUBSET Token
  BY DEF IInv, TablesOK, NInv, InboxesOK
<1>3. TextsMeet(tokens', inboxes', held', usedTokens')
  BY <1>1, <1>2, TextsKept
<1>4. NoticesBounded(tokens', inboxes', recounts')
  BY <1>1, <1>2, CountsKept
<1>5. PausesAgree(tokens', inboxes', codes')
  BY <1>1
<1> QED
  BY <1>3, <1>4, <1>5 DEF MInv, TextsMeet, PausesAgree, NoticesBounded, Reaching

\* The token's own inbox is all that changes, and no count but its own.
LEMMA OneInbox ==
    ASSUME IInv, NInv, MInv, IInv', NInv', NEW tk, NEW ib, NEW t \in Token,
           \/ tk = tokens /\ ib = inboxes
           \/ tk = CleanTokens /\ ib = CleanInboxes,
           \A u \in Token : tokens'[u] # None =>
              /\ tk[u] # None /\ tokens'[u].roomName = tk[u].roomName
              /\ tokens'[u].standby = tk[u].standby,
           \A u \in Token \ {t} :
              /\ inboxes'[u] = ib[u] /\ held'[u] = held[u] /\ recounts'[u] = recounts[u]
              /\ tokens'[u] # None =>
                   tokens'[u].pendingCloseMessages = tk[u].pendingCloseMessages,
           \A m \in Reaching(inboxes', held', t) : m.kind \in TextKind =>
              \E old \in Reaching(ib, held, t) : old.kind \in TextKind /\ old.from = m.from,
           HasPause(inboxes'[t]) => HasPause(ib[t]),
           tokens'[t] # None =>
              Count(inboxes'[t], FreshCloses) + (tk[t].pendingCloseMessages + recounts[t])
                 <= Count(ib[t], FreshCloses)
                      + (tokens'[t].pendingCloseMessages + recounts'[t]),
           codes' = codes, usedTokens' = usedTokens
    PROVE  MInv'
<1>1. /\ tk \in [Token -> TokenRecord \cup {None}] /\ ib \in [Token -> Seq(Message)]
      /\ recounts \in [Token -> Nat] /\ usedTokens \subseteq Token
  BY Found, NFound DEF NInv, InboxesOK, Types, IInv, TablesOK
<1>2. SameRoom(tk, tokens', usedTokens)
  BY <1>1 DEF SameRoom
<1>3. SameTexts(ib, held, inboxes', held')
  BY DEF SameTexts, Reaching
<1>4. PausesAgree(tk, ib, codes) => PausesAgree(tokens', inboxes', codes')
  <2>1. \A u \in Token : HasPause(inboxes'[u]) => HasPause(ib[u])
    OBVIOUS
  <2> QED
    BY <2>1, PausesQuiet
<1>5. Balanced(tk, ib, recounts, tokens', inboxes', recounts')
  <2> SUFFICES ASSUME NEW u \in Token, tokens'[u] # None
               PROVE  Count(inboxes'[u], FreshCloses)
                         + (tk[u].pendingCloseMessages + recounts[u])
                      <= Count(ib[u], FreshCloses)
                         + (tokens'[u].pendingCloseMessages + recounts'[u])
    BY DEF Balanced
  <2>1. CASE u = t
    BY <2>1
  <2>2. CASE u # t
    <3>1. /\ tk[u].pendingCloseMessages \in Nat /\ recounts[u] \in Nat
          /\ Count(ib[u], FreshCloses) \in Nat
      BY <1>1, HitsFinite DEF TokenRecord
    <3> QED
      BY <2>2, <3>1
  <2> QED
    BY <2>1, <2>2
<1> QED
  BY <1>2, <1>3, <1>4, <1>5, SettleM

LEMMA DeliveredM ==
    ASSUME IInv, NInv, MInv, IInv', NInv', NEW t \in Token, Delivered(t)
    PROVE  MInv'
<1>1. /\ tokens' = tokens /\ codes' = codes /\ inboxes' = inboxes
      /\ usedTokens' = usedTokens /\ recounts' = recounts
      /\ held' = [held EXCEPT ![t] = None]
      /\ tokens \in [Token -> TokenRecord \cup {None}] /\ inboxes \in [Token -> Seq(Message)]
      /\ held \in [Token -> Message \cup {None}] /\ recounts \in [Token -> Nat]
  BY DEF Delivered, history, NInv, InboxesOK, IInv, TablesOK
<1>2. held'[t] = None /\ \A u \in Token \ {t} : held'[u] = held[u]
  BY <1>1
<1>3. Reaching(inboxes', held', t) \subseteq Reaching(inboxes, held, t)
  BY <1>1, <1>2 DEF Reaching
<1>4. tokens[t] # None =>
        /\ Count(inboxes[t], FreshCloses) \in Nat
        /\ tokens[t].pendingCloseMessages + recounts[t] \in Nat
  BY <1>1, HitsFinite DEF TokenRecord
<1>5. tokens'[t] # None =>
        Count(inboxes'[t], FreshCloses) + (tokens[t].pendingCloseMessages + recounts[t])
          <= Count(inboxes[t], FreshCloses)
               + (tokens'[t].pendingCloseMessages + recounts'[t])
  BY <1>1, <1>4
<1> QED
  BY <1>1, <1>2, <1>3, <1>5, OneInbox

LEMMA LapsesM ==
    ASSUME IInv, NInv, MInv, IInv', NInv', NEW t \in Token, MessageLapses(t)
    PROVE  MInv'
<1>1. /\ tokens' = tokens /\ codes' = codes /\ held' = held
      /\ usedTokens' = usedTokens /\ recounts' = recounts
      /\ tokens \in [Token -> TokenRecord \cup {None}] /\ inboxes \in [Token -> Seq(Message)]
      /\ recounts \in [Token -> Nat]
  BY DEF MessageLapses, history, NInv, InboxesOK, IInv, TablesOK
<1>2. PICK i \in DOMAIN inboxes[t] : inboxes' = [inboxes EXCEPT ![t] = RemoveAt(@, i)]
  BY DEF MessageLapses
<1>3. /\ inboxes'[t] \in Seq(Message) /\ ToSet(inboxes'[t]) \subseteq ToSet(inboxes[t])
      /\ Count(inboxes'[t], FreshCloses) <= Count(inboxes[t], FreshCloses)
      /\ \A u \in Token \ {t} : inboxes'[u] = inboxes[u]
  BY <1>1, <1>2, CountRemove
<1>4. Reaching(inboxes', held', t) \subseteq Reaching(inboxes, held, t)
  BY <1>1, <1>3 DEF Reaching
<1>5. HasPause(inboxes'[t]) => HasPause(inboxes[t])
  BY <1>3 DEF HasPause
<1>6. tokens'[t] # None =>
        Count(inboxes'[t], FreshCloses) + (tokens[t].pendingCloseMessages + recounts[t])
          <= Count(inboxes[t], FreshCloses)
               + (tokens'[t].pendingCloseMessages + recounts'[t])
  <2>1. tokens[t] # None =>
          /\ Count(inboxes[t], FreshCloses) \in Nat /\ Count(inboxes'[t], FreshCloses) \in Nat
          /\ tokens[t].pendingCloseMessages + recounts[t] \in Nat
    BY <1>1, <1>3, HitsFinite DEF TokenRecord
  <2> QED
    BY <1>1, <1>3, <2>1
<1> QED
  BY <1>1, <1>3, <1>4, <1>5, <1>6, OneInbox

LEMMA RequeueM ==
    ASSUME IInv, NInv, MInv, IInv', NInv', NEW t \in Token, Requeue(t)
    PROVE  MInv'
<1> DEFINE m == [held[t] EXCEPT !.again = TRUE]
           s == <<m>>
<1>1. /\ held[t] \in Message /\ held[t] # None
      /\ held \in [Token -> Message \cup {None}] /\ recounts \in [Token -> Nat]
  BY DEF Requeue, NInv, InboxesOK, IInv, TablesOK
<1>2. /\ m \in Message /\ m.kind = held[t].kind /\ m.from = held[t].from /\ m.again
  BY <1>1 DEF Message
<1>3. /\ tokens' = CleanTokens /\ codes' = codes /\ held' = [held EXCEPT ![t] = None]
      /\ usedTokens' = usedTokens /\ recounts' = recounts
      /\ inboxes' = [CleanInboxes EXCEPT ![t] = s \o @]
      /\ CleanTokens \in [Token -> TokenRecord \cup {None}]
      /\ CleanInboxes \in [Token -> Seq(Message)]
  BY Found, NFound DEF Requeue, history, Types
<1> HIDE DEF m
<1>4. s \in Seq(Message) /\ ToSet(s) = {m} /\ Count(s, FreshCloses) = 0
  <2>1. m \notin FreshCloses
    BY <1>2 DEF FreshCloses
  <2>2. Count(<<m>>, FreshCloses) = 0
    BY <2>1, CountFew
  <2>3. ToSet(<<m>>) = {m}
    BY ToSetFew
  <2>4. <<m>> \in Seq(Message)
    BY <1>2
  <2> QED
    BY <2>2, <2>3, <2>4
<1> HIDE DEF s
<1>5. /\ inboxes'[t] = s \o CleanInboxes[t] /\ held'[t] = None
      /\ \A u \in Token \ {t} : inboxes'[u] = CleanInboxes[u] /\ held'[u] = held[u]
      /\ CleanInboxes[t] \in Seq(Message)
  BY <1>1, <1>3
<1>6. /\ ToSet(s \o CleanInboxes[t]) = {m} \cup ToSet(CleanInboxes[t])
      /\ Count(s \o CleanInboxes[t], FreshCloses) = 0 + Count(CleanInboxes[t], FreshCloses)
  BY <1>4, <1>5, ToSetConcat, CountConcat
<1>7. Count(CleanInboxes[t], FreshCloses) \in Nat
  BY <1>5, HitsFinite
<1>8. ASSUME NEW k \in Reaching(inboxes', held', t), k.kind \in TextKind
      PROVE  \E old \in Reaching(CleanInboxes, held, t) :
                old.kind \in TextKind /\ old.from = k.from
  <2>1. k = m \/ k \in ToSet(CleanInboxes[t])
    BY <1>5, <1>6 DEF Reaching
  <2>2. CASE k = m
    <3>1. held[t] \in Reaching(CleanInboxes, held, t)
      BY <1>1 DEF Reaching
    <3> QED
      BY <1>2, <1>8, <2>2, <3>1
  <2>3. CASE k \in ToSet(CleanInboxes[t])
    BY <1>8, <2>3 DEF Reaching
  <2> QED
    BY <2>1, <2>2, <2>3
<1>9. HasPause(inboxes'[t]) => HasPause(CleanInboxes[t])
  BY <1>2, <1>5, <1>6 DEF HasPause, FreshPauses
<1>10. tokens'[t] # None =>
         Count(inboxes'[t], FreshCloses) + (CleanTokens[t].pendingCloseMessages + recounts[t])
           <= Count(CleanInboxes[t], FreshCloses)
                + (tokens'[t].pendingCloseMessages + recounts'[t])
  <2>1. CleanTokens[t] # None => CleanTokens[t].pendingCloseMessages + recounts[t] \in Nat
    BY <1>1, <1>3 DEF TokenRecord
  <2> QED
    BY <1>3, <1>5, <1>6, <1>7, <2>1
<1>11. /\ \A u \in Token : tokens'[u] # None =>
            /\ CleanTokens[u] # None /\ tokens'[u].roomName = CleanTokens[u].roomName
            /\ tokens'[u].standby = CleanTokens[u].standby
       /\ \A u \in Token \ {t} :
            /\ inboxes'[u] = CleanInboxes[u] /\ held'[u] = held[u]
            /\ recounts'[u] = recounts[u]
            /\ tokens'[u] # None =>
                 tokens'[u].pendingCloseMessages = CleanTokens[u].pendingCloseMessages
  BY <1>3, <1>5
<1>12. \A k \in Reaching(inboxes', held', t) : k.kind \in TextKind =>
          \E old \in Reaching(CleanInboxes, held, t) :
             old.kind \in TextKind /\ old.from = k.from
  BY <1>8
<1>13. codes' = codes /\ usedTokens' = usedTokens
  BY <1>3
<1> QED
  BY <1>9, <1>10, <1>11, <1>12, <1>13, OneInbox

\* What taking out the message m does to the token's record.
LEMMA ConsumeRecord ==
    ASSUME IInv, NInv, NEW t \in Token, Consume(t)
    PROVE  /\ \A u \in Token \ {t} : tokens'[u] = CleanTokens[u]
           /\ tokens'[t] # None =>
                /\ CleanTokens[t] # None
                /\ tokens'[t].roomName = CleanTokens[t].roomName
                /\ tokens'[t].standby = CleanTokens[t].standby
                /\ CleanTokens[t].pendingCloseMessages =
                      tokens'[t].pendingCloseMessages
                      + (IF IsClose(Head(CleanInboxes[t])) THEN 1 ELSE 0)
<1>1. CleanTokens \in [Token -> TokenRecord \cup {None}]
  BY Found DEF Types
<1>2. CASE IsClose(Head(CleanInboxes[t])) /\ CleanTokens[t] # None
  <2>1. AccountForClose(t)
    BY <1>2 DEF Consume
  <2>2. CASE LastNotice(CleanTokens[t].pendingCloseMessages)
    <3>1. tokens' = [CleanTokens EXCEPT ![t] = None]
      BY <2>1, <2>2 DEF AccountForClose
    <3> QED
      BY <1>1, <3>1
  <2>3. CASE ~LastNotice(CleanTokens[t].pendingCloseMessages)
    <3>1. tokens' = [CleanTokens EXCEPT ![t].pendingCloseMessages = @ - 1]
      BY <2>1, <2>3 DEF AccountForClose
    <3>2. CleanTokens[t] \in TokenRecord
      BY <1>1, <1>2
    <3>3. /\ \A u \in Token \ {t} : tokens'[u] = CleanTokens[u]
          /\ tokens'[t] = [CleanTokens[t] EXCEPT !.pendingCloseMessages = @ - 1]
      BY <1>1, <3>1
    <3>4. /\ tokens'[t].roomName = CleanTokens[t].roomName
          /\ tokens'[t].standby = CleanTokens[t].standby
          /\ tokens'[t].pendingCloseMessages = CleanTokens[t].pendingCloseMessages - 1
          /\ CleanTokens[t].pendingCloseMessages \in Nat
      BY <3>2, <3>3 DEF TokenRecord
    <3>5. CleanTokens[t].pendingCloseMessages = tokens'[t].pendingCloseMessages + 1
      BY <3>4
    <3> QED
      BY <1>2, <3>3, <3>4, <3>5
  <2> QED
    BY <2>2, <2>3
<1>3. CASE ~(IsClose(Head(CleanInboxes[t])) /\ CleanTokens[t] # None)
  <2>1. tokens' = CleanTokens
    BY <1>3 DEF Consume
  <2>2. CleanTokens[t] # None => CleanTokens[t].pendingCloseMessages \in Nat
    BY <1>1 DEF TokenRecord
  <2> QED
    BY <1>3, <2>1, <2>2
<1> QED
  BY <1>2, <1>3

LEMMA ConsumeM ==
    ASSUME IInv, NInv, MInv, IInv', NInv', NEW t \in Token, Consume(t)
    PROVE  MInv'
<1> DEFINE c == CleanInboxes[t]
           m == Head(c)
<1>1. /\ CleanTokens \in [Token -> TokenRecord \cup {None}]
      /\ CleanInboxes \in [Token -> Seq(Message)]
      /\ held \in [Token -> Message \cup {None}] /\ recounts \in [Token -> Nat]
      /\ tokens' \in [Token -> TokenRecord \cup {None}]
  BY Found, NFound DEF Types, NInv, InboxesOK, IInv, TablesOK
<1>2. /\ c \in Seq(Message) /\ c # <<>> /\ held[t] = None
      /\ held' = [held EXCEPT ![t] = m]
      /\ inboxes' = [CleanInboxes EXCEPT ![t] = Tail(@)]
      /\ codes' = codes /\ usedTokens' = usedTokens
      /\ recounts' = IF IsClose(m) /\ CleanTokens[t] # None /\ m.again
                     THEN [recounts EXCEPT ![t] = @ + 1] ELSE recounts
  BY <1>1 DEF Consume
<1>3. /\ m \in Message /\ Tail(c) \in Seq(Message) /\ m \in ToSet(c)
      /\ Count(c, FreshCloses) = Count(Tail(c), FreshCloses)
                                   + (IF m \in FreshCloses THEN 1 ELSE 0)
  BY <1>2, CountTail DEF ToSet
<1>4. ToSet(Tail(c)) \subseteq ToSet(c)
  BY <1>2 DEF ToSet
<1>5. /\ inboxes'[t] = Tail(c) /\ held'[t] = m
      /\ \A u \in Token \ {t} : /\ inboxes'[u] = CleanInboxes[u] /\ held'[u] = held[u]
                                /\ recounts'[u] = recounts[u]
      /\ recounts'[t] = IF IsClose(m) /\ CleanTokens[t] # None /\ m.again
                        THEN recounts[t] + 1 ELSE recounts[t]
  BY <1>1, <1>2
<1> HIDE DEF c, m
<1>6. Reaching(inboxes', held', t) \subseteq Reaching(CleanInboxes, held, t)
  BY <1>3, <1>4, <1>5 DEF Reaching, c
<1>7. HasPause(inboxes'[t]) => HasPause(CleanInboxes[t])
  BY <1>4, <1>5 DEF HasPause, c
<1>8. ASSUME tokens'[t] # None
      PROVE  Count(inboxes'[t], FreshCloses)
                + (CleanTokens[t].pendingCloseMessages + recounts[t])
             <= Count(c, FreshCloses) + (tokens'[t].pendingCloseMessages + recounts'[t])
  <2>1. /\ CleanTokens[t] # None
        /\ CleanTokens[t].pendingCloseMessages =
              tokens'[t].pendingCloseMessages + (IF IsClose(m) THEN 1 ELSE 0)
    BY <1>8, ConsumeRecord DEF c, m
  <2>2. /\ tokens'[t].pendingCloseMessages \in Nat /\ recounts[t] \in Nat
        /\ Count(Tail(c), FreshCloses) \in Nat
    BY <1>1, <1>3, <1>8, HitsFinite DEF TokenRecord
  <2>3. m \in FreshCloses <=> IsClose(m) /\ ~m.again
    BY <1>3 DEF FreshCloses
  <2> QED
    BY <1>3, <1>5, <2>1, <2>2, <2>3
<1>9. \A u \in Token : tokens'[u] # None =>
              /\ CleanTokens[u] # None /\ tokens'[u].roomName = CleanTokens[u].roomName
              /\ tokens'[u].standby = CleanTokens[u].standby
  BY ConsumeRecord
<1>10. \A u \in Token \ {t} :
          /\ inboxes'[u] = CleanInboxes[u] /\ held'[u] = held[u]
          /\ recounts'[u] = recounts[u]
          /\ tokens'[u] # None =>
               tokens'[u].pendingCloseMessages = CleanTokens[u].pendingCloseMessages
  BY <1>5, ConsumeRecord
<1>11. \A k \in Reaching(inboxes', held', t) : k.kind \in TextKind =>
          \E old \in Reaching(CleanInboxes, held, t) :
             old.kind \in TextKind /\ old.from = k.from
  BY <1>6
<1>12. codes' = codes /\ usedTokens' = usedTokens
  BY <1>2
<1>13. tokens'[t] # None =>
          Count(inboxes'[t], FreshCloses)
                + (CleanTokens[t].pendingCloseMessages + recounts[t])
             <= Count(CleanInboxes[t], FreshCloses)
                + (tokens'[t].pendingCloseMessages + recounts'[t])
  BY <1>8 DEF c
<1> QED
  BY <1>7, <1>9, <1>10, <1>11, <1>12, <1>13, OneInbox

----------------------------------------------------------------------------
(* Someone new in a room, or without one *)

LEMMA ArrivalM ==
    ASSUME IInv, NInv, MInv, IInv', NInv', NEW t \in Token, NEW q,
           CleanTokens[t] = None \/ CleanTokens[t].roomName = None,
           t \in usedTokens => CleanTokens[t] # None,
           ~CloseIn(CleanInboxes[t]),
           tokens'[t] # None => tokens'[t].roomName = q,
           \A u \in Token \ {t} : tokens'[u] = CleanTokens[u],
           \A u \in Token : \/ inboxes'[u] = CleanInboxes[u]
                            \/ inboxes'[u] = CleanInboxes[u] \o <<Notice("joined")>>,
           held' = held, recounts' = recounts, usedTokens \subseteq usedTokens',
           codes' \subseteq codes \cup {q},
           \A u \in Token \ {t} :
              CleanTokens[u] # None /\ CleanTokens[u].roomName \in Room \ codes
                 => CleanTokens[u].roomName # q
    PROVE  MInv'
<1> DEFINE j == Notice("joined")
           s == <<j>>
<1>1. /\ CleanTokens \in [Token -> TokenRecord \cup {None}]
      /\ CleanInboxes \in [Token -> Seq(Message)] /\ recounts \in [Token -> Nat]
      /\ usedTokens \subseteq Token /\ inboxes' \in [Token -> Seq(Message)]
  BY Found, NFound DEF Types, NInv, InboxesOK, IInv, TablesOK
<1>2. s \in Seq(Message) /\ ToSet(s) \subseteq Plain /\ Count(s, FreshCloses) = 0
  <2>1. j \in Plain /\ j \notin FreshCloses
    BY PlainNotices DEF CloseKind
  <2> HIDE DEF j
  <2>2. j \in Message
    BY <2>1 DEF Plain
  <2>3. Count(<<j>>, FreshCloses) = 0
    BY <2>1, CountFew
  <2>4. ToSet(<<j>>) = {j}
    BY ToSetFew
  <2> QED
    BY <2>1, <2>2, <2>3, <2>4
<1> HIDE DEF j, s
<1>3. ASSUME NEW u \in Token
      PROVE  /\ ToSet(inboxes'[u]) \subseteq ToSet(CleanInboxes[u]) \cup Plain
             /\ Count(inboxes'[u], FreshCloses) = Count(CleanInboxes[u], FreshCloses)
  <2>1. CASE inboxes'[u] = CleanInboxes[u]
    BY <2>1
  <2>2. CASE inboxes'[u] = CleanInboxes[u] \o s
    <3>1. /\ ToSet(CleanInboxes[u] \o s) = ToSet(CleanInboxes[u]) \cup ToSet(s)
          /\ Count(CleanInboxes[u] \o s, FreshCloses)
                = Count(CleanInboxes[u], FreshCloses) + Count(s, FreshCloses)
          /\ Count(CleanInboxes[u], FreshCloses) \in Nat
      BY <1>1, <1>2, ToSetConcat, CountConcat, HitsFinite
    <3> QED
      BY <1>2, <2>2, <3>1
  <2> QED
    BY <2>1, <2>2 DEF s, j
<1>4. \A u \in Token : HasPause(inboxes'[u]) => HasPause(CleanInboxes[u])
  BY <1>3, KindsApart DEF HasPause
<1>5. SameRoom(CleanTokens, tokens', usedTokens)
  BY <1>1 DEF SameRoom
<1>6. SameTexts(CleanInboxes, held, inboxes', held')
  BY <1>3, KindsApart DEF SameTexts, Reaching
<1>7. ASSUME PausesAgree(CleanTokens, CleanInboxes, codes)
      PROVE  PausesAgree(tokens', inboxes', codes')
  <2>1. \A u \in Token : CleanTokens[u] # None /\ HasPause(CleanInboxes[u])
                            => CleanTokens[u].roomName \in Room \ codes
    BY <1>7 DEF PausesAgree, HasPause
  <2>2. ~HasPause(inboxes'[t])
    <3>1. CASE t \in usedTokens
      BY <1>4, <2>1, <3>1, NoneAssumption
    <3>2. CASE t \notin usedTokens
      <4>1. CleanInboxes[t] = <<>>
        BY <3>2, NFound DEF NothingForUnused
      <4>2. ToSet(CleanInboxes[t]) = {}
        BY <4>1, ToSetFew
      <4> QED
        BY <1>4, <4>2 DEF HasPause
    <3> QED
      BY <3>1, <3>2
  <2>3. \A u \in Token \ {t} :
           tokens'[u] # None => /\ CleanTokens[u] # None
                                /\ tokens'[u].roomName = CleanTokens[u].roomName
                                /\ tokens'[u].standby = CleanTokens[u].standby
                                /\ HasPause(inboxes'[u]) => HasPause(CleanInboxes[u])
    BY <1>4
  <2>4. \A u \in Token \ {t} : CleanTokens[u] # None /\ HasPause(CleanInboxes[u])
                                  => CleanTokens[u].roomName # q
    BY <2>1
  <2>5. codes' \subseteq codes \cup {q}
    OBVIOUS
  <2>6. tokens'[t] # None => ~HasPause(inboxes'[t]) /\ tokens'[t].roomName = q
    BY <2>2
  <2> QED
    <3>1. Arrives(CleanTokens, CleanInboxes, codes, tokens', inboxes', codes', t, q)
      BY <2>3, <2>4, <2>5, <2>6 DEF Arrives
    <3> QED
      BY <1>7, <3>1, PausesKept
<1>8. Balanced(CleanTokens, CleanInboxes, recounts, tokens', inboxes', recounts')
  <2> SUFFICES ASSUME NEW u \in Token, tokens'[u] # None
               PROVE  \/ Count(inboxes'[u], FreshCloses) = 0
                      \/ /\ CleanTokens[u] # None
                         /\ Count(inboxes'[u], FreshCloses)
                               + (CleanTokens[u].pendingCloseMessages + recounts[u])
                            <= Count(CleanInboxes[u], FreshCloses)
                               + (tokens'[u].pendingCloseMessages + recounts'[u])
    BY DEF Balanced
  <2>1. CASE u = t
    <3>1. Hits(CleanInboxes[t], FreshCloses) = {}
      BY DEF Hits, CloseIn, FreshCloses
    <3> QED
      BY <1>3, <2>1, <3>1, FS_EmptySet DEF Count
  <2>2. CASE u # t
    <3>1. /\ tokens'[u] = CleanTokens[u] /\ recounts'[u] = recounts[u]
          /\ Count(inboxes'[u], FreshCloses) = Count(CleanInboxes[u], FreshCloses)
      BY <1>3, <2>2
    <3>2. /\ CleanTokens[u].pendingCloseMessages \in Nat /\ recounts[u] \in Nat
          /\ Count(CleanInboxes[u], FreshCloses) \in Nat
      BY <1>1, <3>1, HitsFinite DEF TokenRecord
    <3> QED
      BY <3>1, <3>2
  <2> QED
    BY <2>1, <2>2
<1> QED
  BY <1>5, <1>6, <1>7, <1>8, SettleM

LEMMA Arriving ==
    ASSUME IInv, NInv, NEW t \in Token,
           \/ t \notin usedTokens
           \/ CleanTokens[t] # None /\ CleanTokens[t].roomName = None
    PROVE  /\ CleanTokens[t] = None \/ CleanTokens[t].roomName = None
           /\ t \in usedTokens => CleanTokens[t] # None
           /\ ~CloseIn(CleanInboxes[t])
<1>1. CASE t \notin usedTokens
  BY <1>1, UnusedN DEF Closing
<1>2. CASE CleanTokens[t] # None /\ CleanTokens[t].roomName = None
  BY <1>2, Newcomer DEF Closing
<1> QED
  BY <1>1, <1>2

LEMMA RegisterM ==
    ASSUME IInv, NInv, MInv, IInv', NInv', NEW t \in Token, Register(t)
    PROVE  MInv'
<1>1. /\ t \notin usedTokens /\ usedTokens \subseteq usedTokens'
      /\ tokens' = [CleanTokens EXCEPT ![t] = NewToken] /\ inboxes' = CleanInboxes
      /\ codes' = codes /\ held' = held /\ recounts' = recounts
      /\ CleanTokens \in [Token -> TokenRecord \cup {None}]
  BY Found DEF Register, Types
<1>2. /\ tokens'[t].roomName = None
      /\ \A u \in Token \ {t} : tokens'[u] = CleanTokens[u]
  BY <1>1, NewTokenType
<1>3. \A u \in Token : CleanTokens[u].roomName \in Room => CleanTokens[u].roomName # None
  BY NoneAssumption
<1> QED
  BY <1>1, <1>2, <1>3, Arriving, ArrivalM

LEMMA OpenM ==
    ASSUME IInv, NInv, MInv, IInv', NInv', NEW t \in Token, NEW r \in Room,
           NEW type, NEW hl, NEW token \in TokenRecord,
           OpenRoom(t, token, r, type, hl), usedTokens \subseteq usedTokens',
           \/ t \notin usedTokens
           \/ CleanTokens[t] # None /\ CleanTokens[t].roomName = None
    PROVE  MInv'
<1>1. /\ tokens' = [CleanTokens EXCEPT ![t] = Paired(token, r, CreatorRole(type))]
      /\ codes' = codes \cup {r} /\ inboxes' = CleanInboxes
      /\ held' = held /\ recounts' = recounts /\ rooms[r] = None
      /\ CleanTokens \in [Token -> TokenRecord \cup {None}]
  BY Found DEF OpenRoom, IInv, NotYetGenerated, Types
<1>2. /\ tokens'[t].roomName = r
      /\ \A u \in Token \ {t} : tokens'[u] = CleanTokens[u]
  <2>1. Paired(token, r, CreatorRole(type)).roomName = r
    BY DEF Paired, TokenRecord
  <2> QED
    BY <1>1, <2>1
<1>3. \A u \in Token : (CleanTokens[u] # None /\ CleanTokens[u].roomName \in Room)
                          => CleanTokens[u].roomName # r
  BY <1>1, Found, NoneAssumption DEF Agree, Placed
<1>4. /\ CleanTokens[t] = None \/ CleanTokens[t].roomName = None
      /\ t \in usedTokens => CleanTokens[t] # None
      /\ ~CloseIn(CleanInboxes[t])
  BY Arriving
<1>5. /\ tokens'[t] # None => tokens'[t].roomName = r
      /\ \A u \in Token \ {t} : tokens'[u] = CleanTokens[u]
  BY <1>2
<1>6. /\ held' = held /\ recounts' = recounts /\ codes' \subseteq codes \cup {r}
      /\ \A u \in Token : inboxes'[u] = CleanInboxes[u]
  BY <1>1
<1> QED
  BY <1>3, <1>4, <1>5, <1>6, ArrivalM

LEMMA JoinM ==
    ASSUME IInv, NInv, MInv, IInv', NInv', NEW t \in Token, NEW r \in Room,
           NEW token \in TokenRecord, JoinRoom(t, token, r), usedTokens \subseteq usedTokens',
           \/ t \notin usedTokens
           \/ CleanTokens[t] # None /\ CleanTokens[t].roomName = None
    PROVE  MInv'
<1> DEFINE j    == Notice("joined")
           role == GuestRole(CleanRooms[r].sessionType)
           p    == PartnerSlot(CleanRooms[r], role)
<1>1. /\ tokens' = [CleanTokens EXCEPT ![t] = Paired(token, r, role)]
      /\ r \in codes /\ codes' \subseteq codes
      /\ inboxes' = IF p = None THEN CleanInboxes
                    ELSE [CleanInboxes EXCEPT ![p] = Append(@, j)]
      /\ held' = held /\ recounts' = recounts
      /\ CleanTokens \in [Token -> TokenRecord \cup {None}]
      /\ CleanInboxes \in [Token -> Seq(Message)]
  BY Found, NFound DEF JoinRoom, CodesWithout, Types
<1>2. /\ tokens'[t].roomName = r
      /\ \A u \in Token \ {t} : tokens'[u] = CleanTokens[u]
  <2>1. Paired(token, r, role).roomName = r
    BY DEF Paired, TokenRecord
  <2> QED
    BY <1>1, <2>1
<1>3. j \in Message
  BY PlainNotices DEF Plain
<1> HIDE DEF j, p
<1>4. \A u \in Token : \/ inboxes'[u] = CleanInboxes[u]
                       \/ inboxes'[u] = Append(CleanInboxes[u], j)
  BY <1>1
<1>5. \A u \in Token : Append(CleanInboxes[u], j) = CleanInboxes[u] \o <<j>>
  BY <1>1, <1>3
<1>6. \A u \in Token : \/ inboxes'[u] = CleanInboxes[u]
                       \/ inboxes'[u] = CleanInboxes[u] \o <<Notice("joined")>>
  BY <1>4, <1>5 DEF j
<1>7. codes' \subseteq codes \cup {r}
  BY <1>1
<1>8. \A u \in Token \ {t} :
         CleanTokens[u] # None /\ CleanTokens[u].roomName \in Room \ codes
            => CleanTokens[u].roomName # r
  BY <1>1
<1>9. held' = held /\ recounts' = recounts
  BY <1>1
<1>10. /\ CleanTokens[t] = None \/ CleanTokens[t].roomName = None
       /\ t \in usedTokens => CleanTokens[t] # None
       /\ ~CloseIn(CleanInboxes[t])
  BY Arriving
<1>11. tokens'[t] # None => tokens'[t].roomName = r
  BY <1>2
<1>12. \A u \in Token \ {t} : tokens'[u] = CleanTokens[u]
  BY <1>2
<1> HIDE DEF role
<1> QED
  BY <1>6, <1>7, <1>8, <1>9, <1>10, <1>11, <1>12, ArrivalM

----------------------------------------------------------------------------
(* sendMessage() *)

\* What a discard leaves of an inbox.
LEMMA KeptOf ==
    ASSUME NEW s \in Seq(Message), NEW dropped \in SUBSET Obsolete
    PROVE  /\ Without(s, dropped) \in Seq(Message)
           /\ ToSet(Without(s, dropped)) \subseteq ToSet(s)
           /\ Count(Without(s, dropped), FreshCloses) = Count(s, FreshCloses)
           /\ Count(Without(s, dropped), ActiveOnes) = Count(s, ActiveOnes)
           /\ "all_standby" \in dropped => ~HasPause(Without(s, dropped))
<1>1. /\ \A m \in FreshCloses : m.kind \notin dropped
      /\ \A m \in ActiveOnes : m.kind \notin dropped
  BY DEF FreshCloses, ActiveOnes, IsClose, CloseKind, Obsolete
<1>2. /\ Without(s, dropped) \in Seq(Message)
      /\ ToSet(Without(s, dropped)) \subseteq {m \in ToSet(s) : m.kind \notin dropped}
  BY CountWithout
<1>3. Count(Without(s, dropped), FreshCloses) = Count(s, FreshCloses)
  BY <1>1, CountWithout
<1>4. Count(Without(s, dropped), ActiveOnes) = Count(s, ActiveOnes)
  BY <1>1, CountWithout
<1>5. "all_standby" \in dropped => ~HasPause(Without(s, dropped))
  BY <1>2 DEF HasPause, FreshPauses
<1> QED
  BY <1>2, <1>3, <1>4, <1>5

\* What is added to it.
LEMMA SentBox ==
    ASSUME NEW kept \in Seq(Message), NEW added \in Seq(Message),
           ToSet(added) \cap FreshCloses = {}
    PROVE  /\ kept \o added \in Seq(Message)
           /\ ToSet(kept \o added) = ToSet(kept) \cup ToSet(added)
           /\ Count(kept \o added, FreshCloses) = Count(kept, FreshCloses)
           /\ Count(kept \o added, ActiveOnes) >= Count(kept, ActiveOnes)
<1>1. Hits(added, FreshCloses) = {}
  BY DEF Hits, ToSet
<1>2. Count(added, FreshCloses) = 0
  BY <1>1, FS_EmptySet DEF Count
<1>3. /\ Count(added, ActiveOnes) \in Nat /\ Count(kept, ActiveOnes) \in Nat
      /\ Count(kept, FreshCloses) \in Nat
  BY HitsFinite
<1>4. /\ kept \o added \in Seq(Message)
      /\ ToSet(kept \o added) = ToSet(kept) \cup ToSet(added)
      /\ Count(kept \o added, FreshCloses)
           = Count(kept, FreshCloses) + Count(added, FreshCloses)
      /\ Count(kept \o added, ActiveOnes)
           = Count(kept, ActiveOnes) + Count(added, ActiveOnes)
  BY CountConcat, ToSetConcat
<1> QED
  BY <1>2, <1>3, <1>4

\* A pause that is read after a text was sent is one that the sender and its
\* partner agree on, or was there and the text's sender is the first of them.
LEMMA SendFacts ==
    ASSUME IInv, NInv, NEW t \in Token, NEW kind \in TextKind, NEW short,
           SendMessage(t, kind, short)
    PROVE  /\ \A u \in Token \ {t, PartnerOf(t)} : inboxes'[u] = CleanInboxes[u]
           /\ \A u \in {t, PartnerOf(t)} :
                /\ \A m \in ToSet(inboxes'[u]) :
                     m.kind \in TextKind => \/ m \in ToSet(CleanInboxes[u])
                                            \/ u = PartnerOf(t) /\ m.from = t
                /\ Count(inboxes'[u], FreshCloses) = Count(CleanInboxes[u], FreshCloses)
                /\ Count(inboxes'[u], ActiveOnes) >= Count(CleanInboxes[u], ActiveOnes)
                /\ HasPause(inboxes'[u]) =>
                     \/ tokens'[t].standby /\ tokens'[PartnerOf(t)].standby
                     \/ HasPause(CleanInboxes[u]) /\ ~CleanTokens[PartnerOf(t)].standby
<1> DEFINE p      == PartnerOf(t)
           active == kind = "active_text"
           both   == ~active /\ CleanTokens[p].standby
           count  == IF short THEN CleanTokens[t].recentShortMessageCount + 1 ELSE 0
           paused == count >= LoopThreshold
           all    == Notice("all_standby")
           alert  == Notice("loop_alert")
           words  == Text(kind, t)
           first  == IF both THEN <<all>> ELSE <<>>
           second == IF paused THEN <<alert>> ELSE <<>>
           pause  == first \o second
           text   == IF paused THEN <<>> ELSE <<words>>
           own    == IF active THEN Without(CleanInboxes[t], Obsolete) ELSE CleanInboxes[t]
           other  == IF active THEN Without(CleanInboxes[p], {"all_standby"})
                     ELSE CleanInboxes[p]
           sender   == [CleanTokens[t] EXCEPT
                          !.idle = FALSE, !.standby = paused \/ ~active,
                          !.recentShortMessageCount = IF paused THEN 0 ELSE count]
           receiver == [CleanTokens[p] EXCEPT
                          !.standby = paused \/ both,
                          !.recentShortMessageCount = IF paused THEN @ ELSE 0]
<1>1. /\ p \in Token /\ p # t /\ CleanTokens[p] # None /\ CleanTokens[t] # None
      /\ CleanTokens[p] \in TokenRecord /\ CleanTokens[t] \in TokenRecord
      /\ CleanInboxes \in [Token -> Seq(Message)]
      /\ CleanTokens \in [Token -> TokenRecord \cup {None}]
  BY Partner, PartnerIsAnother, Found, NFound DEF SendMessage, Types
<1>2. /\ inboxes' = [CleanInboxes EXCEPT ![t] = own \o pause, ![p] = other \o pause \o text]
      /\ tokens' = [CleanTokens EXCEPT ![t] = sender, ![p] = receiver]
  BY DEF SendMessage
<1>3. /\ sender.standby = (paused \/ ~active) /\ receiver.standby = (paused \/ both)
      /\ both \in BOOLEAN
  BY <1>1 DEF TokenRecord
<1>4. /\ all \in Message /\ all \notin FreshCloses /\ all.kind \notin TextKind
      /\ alert \in Message /\ alert \notin FreshCloses \cup FreshPauses
      /\ alert.kind \notin TextKind
      /\ words \in Message /\ words \notin FreshCloses \cup FreshPauses
      /\ words.from = t
  BY DEF Notice, Text, Message, FreshCloses, FreshPauses, IsClose, Kind, CloseKind,
         PauseKind, TextKind
<1> HIDE DEF sender, receiver, all, alert, words
<1>5. /\ own \in Seq(Message) /\ ToSet(own) \subseteq ToSet(CleanInboxes[t])
      /\ Count(own, FreshCloses) = Count(CleanInboxes[t], FreshCloses)
      /\ Count(own, ActiveOnes) = Count(CleanInboxes[t], ActiveOnes)
      /\ active => ~HasPause(own)
  <2>1. CASE active
    BY <1>1, <2>1, KeptOf DEF Obsolete
  <2>2. CASE ~active
    BY <1>1, <2>2
  <2> QED
    BY <2>1, <2>2
<1>6. /\ other \in Seq(Message) /\ ToSet(other) \subseteq ToSet(CleanInboxes[p])
      /\ Count(other, FreshCloses) = Count(CleanInboxes[p], FreshCloses)
      /\ Count(other, ActiveOnes) = Count(CleanInboxes[p], ActiveOnes)
      /\ active => ~HasPause(other)
  <2>1. CASE active
    BY <1>1, <2>1, KeptOf DEF Obsolete
  <2>2. CASE ~active
    BY <1>1, <2>2
  <2> QED
    BY <2>1, <2>2
<1> HIDE DEF own, other
<1>7. /\ first \in Seq(Message) /\ ToSet(first) \subseteq {all}
      /\ ~both => ToSet(first) = {}
  <2>1. <<all>> \in Seq(Message) /\ <<>> \in Seq(Message)
    BY <1>4
  <2>2. ToSet(<<all>>) = {all} /\ ToSet(<<>>) = {}
    BY ToSetFew
  <2> HIDE DEF both
  <2> QED
    BY <2>1, <2>2
<1>8. /\ second \in Seq(Message) /\ ToSet(second) \subseteq {alert}
  <2>1. <<alert>> \in Seq(Message) /\ <<>> \in Seq(Message)
    BY <1>4
  <2>2. ToSet(<<alert>>) = {alert} /\ ToSet(<<>>) = {}
    BY ToSetFew
  <2> HIDE DEF paused
  <2> QED
    BY <2>1, <2>2
<1>9. /\ text \in Seq(Message) /\ ToSet(text) \subseteq {words}
  <2>1. <<words>> \in Seq(Message) /\ <<>> \in Seq(Message)
    BY <1>4
  <2>2. ToSet(<<words>>) = {words} /\ ToSet(<<>>) = {}
    BY ToSetFew
  <2> HIDE DEF paused
  <2> QED
    BY <2>1, <2>2
<1> HIDE DEF first, second, text
<1>10. /\ pause \in Seq(Message) /\ ToSet(pause) \subseteq {all, alert}
       /\ HasPause(pause) => both
  <2>1. first \o second \in Seq(Message)
    BY <1>7, <1>8, CountConcat
  <2>2. ToSet(first \o second) = ToSet(first) \cup ToSet(second)
    BY <1>7, <1>8, ToSetConcat
  <2> QED
    BY <1>4, <1>7, <1>8, <2>1, <2>2 DEF HasPause
<1> HIDE DEF pause
<1>11. /\ own \o pause \in Seq(Message)
       /\ ToSet(own \o pause) = ToSet(own) \cup ToSet(pause)
       /\ Count(own \o pause, FreshCloses) = Count(own, FreshCloses)
       /\ Count(own \o pause, ActiveOnes) >= Count(own, ActiveOnes)
  BY <1>4, <1>5, <1>10, SentBox
<1>12. /\ other \o pause \in Seq(Message)
       /\ ToSet(other \o pause) = ToSet(other) \cup ToSet(pause)
       /\ Count(other \o pause, FreshCloses) = Count(other, FreshCloses)
       /\ Count(other \o pause, ActiveOnes) >= Count(other, ActiveOnes)
  BY <1>4, <1>6, <1>10, SentBox
<1> DEFINE fore == other \o pause
           forT == own \o pause
           forP == fore \o text
<1>13. /\ fore \o text \in Seq(Message)
       /\ ToSet(fore \o text) = ToSet(fore) \cup ToSet(text)
       /\ Count(fore \o text, FreshCloses) = Count(fore, FreshCloses)
       /\ Count(fore \o text, ActiveOnes) >= Count(fore, ActiveOnes)
  <2> HIDE DEF fore
  <2> QED
    BY <1>4, <1>9, <1>12, SentBox DEF fore
<1>14. Count(other, ActiveOnes) \in Nat /\ Count(fore, ActiveOnes) \in Nat
       /\ Count(forP, ActiveOnes) \in Nat
  BY <1>6, <1>12, <1>13, HitsFinite
<1>15. /\ inboxes' = [CleanInboxes EXCEPT ![t] = forT, ![p] = forP]
  BY <1>2
<1> HIDE DEF forT, forP, p
<1>16. /\ inboxes'[t] = forT /\ inboxes'[p] = forP
       /\ \A u \in Token \ {t, p} : inboxes'[u] = CleanInboxes[u]
       /\ tokens'[t] = sender /\ tokens'[p] = receiver
  BY <1>1, <1>2, <1>15
<1>17. /\ ToSet(forT) \subseteq ToSet(CleanInboxes[t]) \cup {all, alert}
       /\ Count(forT, FreshCloses) = Count(CleanInboxes[t], FreshCloses)
       /\ Count(forT, ActiveOnes) >= Count(CleanInboxes[t], ActiveOnes)
       /\ HasPause(forT) => HasPause(own) \/ both
  BY <1>5, <1>10, <1>11 DEF forT, HasPause
<1>18. /\ ToSet(forP) \subseteq ToSet(CleanInboxes[p]) \cup {all, alert, words}
       /\ Count(forP, FreshCloses) = Count(CleanInboxes[p], FreshCloses)
       /\ HasPause(forP) => HasPause(other) \/ both
  BY <1>4, <1>6, <1>9, <1>10, <1>12, <1>13 DEF forP, HasPause
<1>19. Count(forP, ActiveOnes) >= Count(CleanInboxes[p], ActiveOnes)
  BY <1>6, <1>12, <1>13, <1>14 DEF forP
<1>20. HasPause(own) => ~active /\ HasPause(CleanInboxes[t])
  BY <1>5 DEF HasPause
<1>21. HasPause(other) => ~active /\ HasPause(CleanInboxes[p])
  BY <1>6 DEF HasPause
<1>22. ASSUME NEW u \in {t, p}, HasPause(inboxes'[u])
       PROVE  \/ tokens'[t].standby /\ tokens'[p].standby
              \/ HasPause(CleanInboxes[u]) /\ ~CleanTokens[p].standby
  <2>1. both \/ (~active /\ HasPause(CleanInboxes[u]))
    BY <1>16, <1>17, <1>18, <1>20, <1>21, <1>22
  <2> HIDE DEF active, paused
  <2> QED
    BY <1>3, <1>16, <2>1
<1>23. ASSUME NEW u \in {t, p}, NEW m \in ToSet(inboxes'[u]), m.kind \in TextKind
       PROVE  m \in ToSet(CleanInboxes[u]) \/ (u = p /\ m.from = t)
  <2>1. CASE u = t
    BY <1>4, <1>16, <1>17, <1>23, <2>1
  <2>2. CASE u = p
    <3>1. m \in ToSet(CleanInboxes[p]) \cup {all, alert, words}
      BY <1>16, <1>18, <2>2
    <3> QED
      BY <1>4, <1>23, <2>2, <3>1
  <2> QED
    BY <2>1, <2>2
<1> QED
  BY <1>16, <1>17, <1>18, <1>19, <1>22, <1>23 DEF p

LEMMA SendM ==
    ASSUME IInv, NInv, MInv, IInv', NInv', NEW t \in Token, NEW kind \in TextKind, NEW short,
           SendMessage(t, kind, short)
    PROVE  MInv'
<1> DEFINE p == PartnerOf(t)
           r == CleanTokens[t].roomName
<1>1. /\ p \in Token \ {t} /\ CleanTokens[t] # None /\ CleanTokens[p] # None
      /\ r \in Room \ codes
      /\ \A u \in Token : CleanTokens[u] # None =>
            (CleanTokens[u].roomName = r <=> u \in {t, p})
  BY Partner, PartnerIsAnother DEF SendMessage
<1>2. /\ TextsMeet(CleanTokens, CleanInboxes, held, usedTokens)
      /\ PausesAgree(CleanTokens, CleanInboxes, codes)
      /\ NoticesBounded(CleanTokens, CleanInboxes, recounts)
  BY MFound
<1>3. /\ codes' = codes /\ held' = held /\ UNCHANGED history
      /\ \A u \in Token \ {t, p} : tokens'[u] = CleanTokens[u]
      /\ Unmoved(CleanTokens, tokens')
  <2>1. Unmoved(CleanTokens, tokens')
    BY SendStep
  <2> QED
    BY <2>1, Found DEF SendMessage, Types
<1>4. /\ \A u \in Token \ {t, p} : inboxes'[u] = CleanInboxes[u]
      /\ \A u \in {t, p} :
           /\ \A m \in ToSet(inboxes'[u]) :
                m.kind \in TextKind => \/ m \in ToSet(CleanInboxes[u])
                                       \/ u = p /\ m.from = t
           /\ Count(inboxes'[u], FreshCloses) = Count(CleanInboxes[u], FreshCloses)
           /\ HasPause(inboxes'[u]) =>
                \/ tokens'[t].standby /\ tokens'[p].standby
                \/ HasPause(CleanInboxes[u]) /\ ~CleanTokens[p].standby
  BY SendFacts
<1> HIDE DEF p, r
<1>5. ASSUME NEW u \in Token, NEW m \in Reaching(inboxes', held', u), m.kind \in TextKind
      PROVE  /\ m.from # u /\ {u, m.from} \subseteq usedTokens
             /\ \E q \in Room :
                   \A v \in {u, m.from} : tokens'[v] # None => tokens'[v].roomName = q
  <2>1. CASE m \in Reaching(CleanInboxes, held, u)
    <3>1. /\ m.from # u /\ {u, m.from} \subseteq usedTokens
          /\ \E q \in Room : \A v \in {u, m.from} :
                CleanTokens[v] # None => CleanTokens[v].roomName = q
      BY <1>2, <1>5, <2>1 DEF TextsMeet
    <3>2. \A v \in usedTokens : v \in Token
      BY DEF IInv, TablesOK
    <3> QED
      BY <1>3, <3>1, <3>2 DEF Unmoved
  <2>2. CASE m \notin Reaching(CleanInboxes, held, u)
    <3>1. u = p /\ m.from = t
      BY <1>3, <1>4, <1>5, <2>2 DEF Reaching
    <3>2. {t, p} \subseteq usedTokens
      BY <1>1, Found DEF IInv, NotYetGenerated, Settled
    <3>3. CleanTokens[p].roomName = r
      BY <1>1
    <3>4. tokens'[t].roomName = r /\ tokens'[p].roomName = r
      BY <1>1, <1>3, <3>3 DEF Unmoved, r
    <3> QED
      BY <1>1, <3>1, <3>2, <3>4
  <2> QED
    BY <2>1, <2>2
<1>6. TextsMeet(tokens', inboxes', held', usedTokens')
  BY <1>3, <1>5 DEF TextsMeet, history
<1>7. ASSUME NEW u \in Token, tokens'[u] # None, HasPause(inboxes'[u])
      PROVE  /\ tokens'[u].roomName \in Room \ codes
             /\ \A v \in Token : (tokens'[v] # None /\ tokens'[v].roomName = tokens'[u].roomName)
                   => tokens'[v].standby
  <2>1. /\ CleanTokens[u] # None /\ tokens'[u].roomName = CleanTokens[u].roomName
        /\ \A v \in Token : tokens'[v] # None =>
              CleanTokens[v] # None /\ tokens'[v].roomName = CleanTokens[v].roomName
    BY <1>3, <1>7 DEF Unmoved
  <2>2. CASE u \in {t, p}
    <3>1. tokens'[u].roomName = r
      BY <1>1, <2>1, <2>2
    <3>2. HasPause(CleanInboxes[u]) => CleanTokens[p].standby
      BY <1>1, <1>2, <2>1, <2>2, <3>1 DEF PausesAgree, HasPause
    <3>3. tokens'[t].standby /\ tokens'[p].standby
      BY <1>4, <1>7, <2>2, <3>2
    <3> QED
      BY <1>1, <2>1, <3>1, <3>3
  <2>3. CASE u \notin {t, p}
    <3>1. tokens'[u].roomName # r /\ HasPause(CleanInboxes[u])
      BY <1>1, <1>4, <1>7, <2>1, <2>3
    <3>2. /\ CleanTokens[u].roomName \in Room \ codes
          /\ \A v \in Token :
               (CleanTokens[v] # None /\ CleanTokens[v].roomName = CleanTokens[u].roomName)
                  => CleanTokens[v].standby
      BY <1>2, <2>1, <3>1 DEF PausesAgree, HasPause
    <3>3. \A v \in {t, p} : tokens'[v] # None => tokens'[v].roomName = r
      BY <1>1, <2>1
    <3> QED
      BY <1>3, <2>1, <3>1, <3>2, <3>3
  <2> QED
    BY <2>2, <2>3
<1>8. PausesAgree(tokens', inboxes', codes')
  BY <1>3, <1>7 DEF PausesAgree, HasPause
<1>9. ASSUME NEW u \in Token, tokens'[u] # None
      PROVE  Count(inboxes'[u], FreshCloses) <= tokens'[u].pendingCloseMessages + recounts'[u]
  <2>1. /\ CleanTokens[u] # None
        /\ tokens'[u].pendingCloseMessages = CleanTokens[u].pendingCloseMessages
    BY <1>3, <1>9 DEF Unmoved
  <2>2. Count(inboxes'[u], FreshCloses) = Count(CleanInboxes[u], FreshCloses)
    BY <1>4
  <2> QED
    BY <1>2, <1>3, <2>1, <2>2 DEF NoticesBounded, history
<1>10. NoticesBounded(tokens', inboxes', recounts')
  BY <1>9 DEF NoticesBounded
<1> QED
  BY <1>6, <1>8, <1>10 DEF MInv, TextsMeet, PausesAgree, NoticesBounded, Reaching

----------------------------------------------------------------------------
(* The invariant is inductive *)

LEMMA MInit == Init => MInv
<1> SUFFICES ASSUME Init
             PROVE  MInv
  OBVIOUS
<1>1. \A t \in Token : tokens[t] = None /\ inboxes[t] = <<>> /\ held[t] = None
  BY DEF Init
<1>2. \A t \in Token : Reaching(inboxes, held, t) = {}
  BY <1>1, ToSetFew DEF Reaching
<1> QED
  BY <1>1, <1>2 DEF MInv, TextsMeet, PausesAgree, NoticesBounded

LEMMA MOpen == ASSUME IInv, NInv, MInv, IInv', NInv', Open PROVE MInv'
<1>1. ASSUME NEW t \in Token, NEW r \in Room, NEW type \in {"standard", "listener"},
             CreateSession(t, r, type)
      PROVE  MInv'
  <2>1. /\ CleanTokens[t] # None /\ CleanTokens[t] \in TokenRecord
        /\ CleanTokens[t].roomName = None
        /\ OpenRoom(t, CleanTokens[t], r, type, FALSE) /\ usedTokens' = usedTokens
    BY <1>1, Found DEF CreateSession, Types
  <2> QED
    BY <2>1, OpenM
<1>2. ASSUME NEW t \in Token, NEW r \in Room, NEW type \in {"standard", "listener"},
             NEW hl \in HeadlessModes, SetupSession(t, r, type, hl)
      PROVE  MInv'
  <2>1. /\ t \notin usedTokens /\ usedTokens \subseteq usedTokens'
        /\ OpenRoom(t, NewToken, r, type, hl)
    BY <1>2 DEF SetupSession
  <2> QED
    BY <2>1, NewTokenType, OpenM
<1> QED
  BY <1>1, <1>2, RegisterM DEF Open

LEMMA MJoin ==
    ASSUME IInv, NInv, MInv, IInv', NInv', NEW t \in Token, NEW r \in Room,
           JoinSession(t, r) \/ RegisterAndJoin(t, r)
    PROVE  MInv'
<1>1. CASE JoinSession(t, r)
  <2>1. /\ CleanTokens[t] # None /\ CleanTokens[t] \in TokenRecord
        /\ CleanTokens[t].roomName = None
        /\ JoinRoom(t, CleanTokens[t], r) /\ usedTokens' = usedTokens
    BY <1>1, Found DEF JoinSession, Types
  <2> QED
    BY <2>1, JoinM
<1>2. CASE RegisterAndJoin(t, r)
  <2>1. /\ t \notin usedTokens /\ usedTokens \subseteq usedTokens'
        /\ JoinRoom(t, NewToken, r)
    BY <1>2 DEF RegisterAndJoin
  <2> QED
    BY <2>1, NewTokenType, JoinM
<1> QED
  BY <1>1, <1>2

\* Every step only tells, or is one of the others.
LEMMA StepKinds ==
    ASSUME Next
    PROVE  \/ TellingStep
           \/ Open
           \/ \E r \in Room, t \in Token : JoinSession(t, r) \/ RegisterAndJoin(t, r)
           \/ \E t \in Token : \/ \E text \in Texts : SendMessage(t, text[1], text[2])
                               \/ Consume(t) \/ Delivered(t) \/ Requeue(t)
                               \/ MessageLapses(t)
<1>1. CASE Open
  BY <1>1
<1>2. CASE Join
  BY <1>2 DEF Join, TellingStep
<1>3. CASE Talk
  BY <1>3 DEF Talk, TellingStep
<1>4. CASE Close
  BY <1>4 DEF Close, TellingStep
<1>5. CASE Time
  BY <1>5 DEF Time, TellingStep
<1> QED
  BY <1>1, <1>2, <1>3, <1>4, <1>5 DEF Next

LEMMA MNext == IInv /\ NInv /\ MInv /\ IInv' /\ NInv' /\ [Next]_vars => MInv'
<1> SUFFICES ASSUME IInv, NInv, MInv, IInv', NInv', [Next]_vars
             PROVE  MInv'
  OBVIOUS
<1>1. CASE UNCHANGED vars
  BY <1>1 DEF vars, history, MInv, TextsMeet, PausesAgree, NoticesBounded, Reaching
<1>2. CASE TellingStep
  <2>1. /\ \/ Tells(tokens, inboxes, tokens', inboxes')
           \/ Tells(CleanTokens, CleanInboxes, tokens', inboxes')
        /\ codes' \subseteq codes /\ held' = held /\ UNCHANGED history
    BY <1>2, TellingFacts
  <2> QED
    BY <2>1, TellingM
<1>3. ASSUME NEW t \in Token, NEW text \in Texts, SendMessage(t, text[1], text[2])
      PROVE  MInv'
  <2>1. text[1] \in TextKind
    BY BoundAssumption
  <2> QED
    BY <1>3, <2>1, SendM
<1> QED
  BY <1>1, <1>2, <1>3, StepKinds, MOpen, MJoin, ConsumeM, DeliveredM, RequeueM, LapsesM

\* Texts, pauses and close notices keep their relation to the tables through
\* sendMessage(), joining, leaving, closing, taking out and putting back.
THEOREM MessageInvariance == Spec => [](IInv /\ NInv /\ MInv)
BY InitInv, NextInv, NInit, NNext, MInit, MNext, PTL DEF Spec

----------------------------------------------------------------------------
(* Theorems *)

\* Sessions do not mix: whatever joins, leaves and puts back, a text that
\* sendMessage() queued is read by another participant of the sender's room.
THEOREM TextsKeepToTheirRoom == Spec => []TextsStayInTheRoom
<1>1. IInv /\ NInv /\ MInv => TextsStayInTheRoom
  <2> SUFFICES ASSUME NInv, MInv, NEW t \in Token, NEW i \in DOMAIN inboxes[t],
                      inboxes[t][i].kind \in TextKind
               PROVE  LET from == inboxes[t][i].from
                      IN  /\ from # t
                          /\ (tokens[t] # None /\ tokens[from] # None)
                                => tokens[from].roomName = tokens[t].roomName
    BY DEF TextsStayInTheRoom
  <2>1. inboxes[t][i] \in Reaching(inboxes, held, t)
    BY DEF Reaching, ToSet
  <2> QED
    BY <2>1 DEF MInv, TextsMeet
<1> QED
  BY <1>1, MessageInvariance, PTL

\* markTokenForClose() counts every notice it queues: an inbox holds no more
\* fresh ones than are still to be counted down, however they are put back.
THEOREM QueuedNoticesCounted == Spec => []QueuedNoticesAreCounted
<1>1. IInv /\ NInv /\ MInv => QueuedNoticesAreCounted
  <2> SUFFICES ASSUME NInv, MInv, NEW t \in Token, tokens[t] # None
               PROVE  Cardinality({i \in DOMAIN inboxes[t] :
                                      IsClose(inboxes[t][i]) /\ ~inboxes[t][i].again})
                        <= tokens[t].pendingCloseMessages + recounts[t]
    BY DEF QueuedNoticesAreCounted
  <2>1. \A i \in DOMAIN inboxes[t] : inboxes[t][i] \in Message
    BY DEF NInv, InboxesOK
  <2>2. Hits(inboxes[t], FreshCloses)
          = {i \in DOMAIN inboxes[t] : IsClose(inboxes[t][i]) /\ ~inboxes[t][i].again}
    BY <2>1 DEF Hits, FreshCloses
  <2>3. Count(inboxes[t], FreshCloses) <= tokens[t].pendingCloseMessages + recounts[t]
    BY DEF MInv, NoticesBounded
  <2> QED
    BY <2>2, <2>3 DEF Count
<1> QED
  BY <1>1, MessageInvariance, PTL

\* The pause that sendMessage() announces is cancelled before it is outdated:
\* whoever still has it to read is standing by, and so is its partner.
THEOREM PausesAreCurrent == Spec => []PauseIsCurrent
<1>1. IInv /\ NInv /\ MInv => PauseIsCurrent
  <2> SUFFICES ASSUME NInv, MInv, NEW t \in Token, tokens[t] # None,
                      NEW i \in DOMAIN inboxes[t],
                      inboxes[t][i].kind = "all_standby", ~inboxes[t][i].again
               PROVE  /\ tokens[t].standby
                      /\ \A p \in Token :
                           (p # t /\ tokens[p] # None
                              /\ tokens[p].roomName = tokens[t].roomName)
                           => tokens[p].standby
    BY DEF PauseIsCurrent
  <2>1. inboxes[t][i] \in Message
    BY DEF NInv, InboxesOK
  <2>2. inboxes[t][i] \in ToSet(inboxes[t]) \cap FreshPauses
    BY <2>1 DEF ToSet, FreshPauses
  <2> QED
    BY <2>2 DEF MInv, PausesAgree
<1> QED
  BY <1>1, MessageInvariance, PTL

----------------------------------------------------------------------------
(* No active text is dropped *)

LEMMA ActiveHits ==
    ASSUME NEW s \in Seq(Message)
    PROVE  Cardinality(ActiveTexts(s)) = Count(s, ActiveOnes) /\ Count(s, ActiveOnes) \in Nat
<1>1. ActiveTexts(s) = Hits(s, ActiveOnes)
  BY DEF ActiveTexts, Hits, ActiveOnes
<1> QED
  BY <1>1, HitsFinite DEF Count

LEMMA ActiveStays ==
    ASSUME IInv, NInv, IInv', NInv', [Next]_vars, NEW t \in Token
    PROVE  \/ Count(inboxes'[t], ActiveOnes) >= Count(inboxes[t], ActiveOnes)
           \/ held'[t] # held[t] \/ MessageLapses(t)
<1>1. /\ inboxes \in [Token -> Seq(Message)] /\ inboxes' \in [Token -> Seq(Message)]
      /\ CleanInboxes \in [Token -> Seq(Message)]
      /\ held \in [Token -> Message \cup {None}]
  BY NFound DEF NInv, InboxesOK
<1>2. /\ Count(inboxes[t], ActiveOnes) \in Nat /\ Count(inboxes'[t], ActiveOnes) \in Nat
      /\ Count(CleanInboxes[t], ActiveOnes) = Count(inboxes[t], ActiveOnes)
  <2>1. Count(CleanInboxes[t], ActiveOnes) = Count(inboxes[t], ActiveOnes)
    BY CleanTells DEF Tells, Told
  <2> QED
    BY <1>1, <2>1, HitsFinite
<1>3. CASE inboxes'[t] = inboxes[t] \/ inboxes'[t] = CleanInboxes[t]
  BY <1>2, <1>3
<1>4. CASE UNCHANGED vars
  BY <1>3, <1>4 DEF vars
<1>5. CASE TellingStep
  BY <1>2, <1>5, TellingFacts DEF Tells, Told
<1>6. CASE Open
  <2>1. inboxes' = CleanInboxes
    BY <1>6 DEF Open, Register, CreateSession, SetupSession, OpenRoom
  <2> QED
    BY <1>3, <2>1
<1>7. ASSUME NEW r \in Room, NEW u \in Token, JoinSession(u, r) \/ RegisterAndJoin(u, r)
      PROVE  Count(inboxes'[t], ActiveOnes) >= Count(inboxes[t], ActiveOnes)
  <2> DEFINE j == Notice("joined")
             p == PartnerSlot(CleanRooms[r], GuestRole(CleanRooms[r].sessionType))
             s == <<j>>
  <2>1. inboxes' = IF p = None THEN CleanInboxes ELSE [CleanInboxes EXCEPT ![p] = Append(@, j)]
    BY <1>7 DEF JoinSession, RegisterAndJoin, JoinRoom
  <2>2. j \in Message /\ s \in Seq(Message)
    BY PlainNotices DEF Plain
  <2>3. ToSet(s) \cap FreshCloses = {}
    <3>1. ToSet(s) = {j}
      BY ToSetFew
    <3> QED
      BY <3>1, PlainNotices DEF CloseKind
  <2>4. \/ inboxes'[t] = CleanInboxes[t]
        \/ inboxes'[t] = CleanInboxes[t] \o s
    <3> HIDE DEF j, p
    <3>1. \/ inboxes'[t] = CleanInboxes[t]
          \/ inboxes'[t] = Append(CleanInboxes[t], j)
      BY <1>1, <2>1
    <3>2. Append(CleanInboxes[t], j) = CleanInboxes[t] \o <<j>>
      BY <1>1, <2>2
    <3> QED
      BY <3>1, <3>2
  <2> HIDE DEF s
  <2>5. CASE inboxes'[t] = CleanInboxes[t] \o s
    <3>1. Count(CleanInboxes[t] \o s, ActiveOnes) >= Count(CleanInboxes[t], ActiveOnes)
      BY <1>1, <2>2, <2>3, SentBox
    <3>2. Count(inboxes'[t], ActiveOnes) >= Count(CleanInboxes[t], ActiveOnes)
      BY <2>5, <3>1
    <3> QED
      BY <1>2, <3>2
  <2>6. CASE inboxes'[t] = CleanInboxes[t]
    BY <1>2, <2>6
  <2> QED
    BY <2>4, <2>5, <2>6
<1>8. ASSUME NEW u \in Token, NEW text \in Texts, SendMessage(u, text[1], text[2])
      PROVE  Count(inboxes'[t], ActiveOnes) >= Count(inboxes[t], ActiveOnes)
  <2>1. text[1] \in TextKind
    BY BoundAssumption
  <2>2. \/ inboxes'[t] = CleanInboxes[t]
        \/ Count(inboxes'[t], ActiveOnes) >= Count(CleanInboxes[t], ActiveOnes)
    BY <1>8, <2>1, SendFacts
  <2> QED
    BY <1>2, <2>2
<1>9. ASSUME NEW u \in Token, Consume(u) \/ Requeue(u)
      PROVE  inboxes'[t] = CleanInboxes[t] \/ held'[t] # held[t]
  <2>1. CASE u # t
    BY <1>1, <1>9, <2>1 DEF Consume, Requeue
  <2>2. CASE u = t /\ Consume(t)
    <3>1. /\ held[t] = None /\ held' = [held EXCEPT ![t] = Head(CleanInboxes[t])]
          /\ CleanInboxes[t] # <<>>
      BY <2>2 DEF Consume
    <3>2. Head(CleanInboxes[t]) \in Message
      BY <1>1, <3>1
    <3> QED
      BY <1>1, <3>1, <3>2, NoneAssumption
  <2>3. CASE u = t /\ Requeue(t)
    BY <1>1, <2>3 DEF Requeue
  <2> QED
    BY <1>9, <2>1, <2>2, <2>3
<1>10. ASSUME NEW u \in Token, Delivered(u)
       PROVE  inboxes'[t] = inboxes[t]
  BY <1>10 DEF Delivered
<1>11. ASSUME NEW u \in Token, MessageLapses(u)
       PROVE  inboxes'[t] = inboxes[t] \/ MessageLapses(t)
  BY <1>1, <1>11 DEF MessageLapses
<1> QED
  BY <1>3, <1>4, <1>5, <1>6, <1>7, <1>8, <1>9, <1>10, <1>11, StepKinds

\* A text that expects an answer is not lost: sendMessage(), closeRoom(),
\* leaving and joining never make an inbox hold fewer of them; they go by
\* being taken out, or by reaching inboxTtlMs.
THEOREM ActiveTextsAreKept == Spec => ActiveTextIsKept
<1>1. ASSUME IInv, NInv, IInv', NInv', [Next]_vars
      PROVE  [\A t \in Token :
                Cardinality(ActiveTexts(inboxes'[t])) < Cardinality(ActiveTexts(inboxes[t]))
                   => held'[t] # held[t] \/ MessageLapses(t)]_vars
  <2> SUFFICES ASSUME NEW t \in Token,
                      Cardinality(ActiveTexts(inboxes'[t]))
                         < Cardinality(ActiveTexts(inboxes[t]))
               PROVE  held'[t] # held[t] \/ MessageLapses(t)
    OBVIOUS
  <2>1. inboxes[t] \in Seq(Message) /\ inboxes'[t] \in Seq(Message)
    BY <1>1 DEF NInv, InboxesOK
  <2>2. \/ Count(inboxes'[t], ActiveOnes) >= Count(inboxes[t], ActiveOnes)
        \/ held'[t] # held[t] \/ MessageLapses(t)
    BY <1>1, ActiveStays
  <2> QED
    BY <2>1, <2>2, ActiveHits
<1> QED
  BY <1>1, NoticeInvariance, PTL DEF Spec, ActiveTextIsKept

----------------------------------------------------------------------------
(* A notice that is counted is there to be read *)

\* Of the notices still counted none is missing from the inbox, unless one
\* expired there.
NoticesWaiting(tk, ib, ls) ==
    \A t \in Token : (tk[t] # None /\ t \notin ls)
        => tk[t].pendingCloseMessages <= Count(ib[t], FreshCloses)

WInv == NoticesWaiting(tokens, inboxes, lapsed)

\* What a step adds to t's count it adds to the inbox, and what it takes out
\* of the inbox it takes off the count.
Awaits(tk, ib, t) ==
    tokens'[t] # None =>
        \/ tokens'[t].pendingCloseMessages = 0
        \/ /\ tk[t] # None
           /\ Count(ib[t], FreshCloses) + tokens'[t].pendingCloseMessages
                <= Count(inboxes'[t], FreshCloses) + tk[t].pendingCloseMessages

LEMMA WaitingKept ==
    ASSUME NEW tk, NEW ib, NEW ls, NoticesWaiting(tk, ib, ls),
           tk \in [Token -> TokenRecord \cup {None}], ib \in [Token -> Seq(Message)],
           tokens' \in [Token -> TokenRecord \cup {None}], inboxes' \in [Token -> Seq(Message)],
           ls \subseteq lapsed', \A t \in Token \ lapsed' : Awaits(tk, ib, t)
    PROVE  WInv'
<1> SUFFICES ASSUME NEW t \in Token, tokens'[t] # None, t \notin lapsed'
             PROVE  tokens'[t].pendingCloseMessages <= Count(inboxes'[t], FreshCloses)
  BY DEF WInv, NoticesWaiting
<1>1. /\ tokens'[t].pendingCloseMessages \in Nat
      /\ tk[t] # None => tk[t].pendingCloseMessages \in Nat
      /\ Count(ib[t], FreshCloses) \in Nat /\ Count(inboxes'[t], FreshCloses) \in Nat
  BY HitsFinite DEF TokenRecord
<1>2. Awaits(tk, ib, t) /\ t \notin ls
  OBVIOUS
<1>3. tk[t] # None => tk[t].pendingCloseMessages <= Count(ib[t], FreshCloses)
  BY <1>2 DEF NoticesWaiting
<1> QED
  BY <1>1, <1>2, <1>3 DEF Awaits

LEMMA TellsAwaits ==
    ASSUME NEW tk, NEW ib, Tells(tk, ib, tokens', inboxes'), NEW t \in Token,
           tk \in [Token -> TokenRecord \cup {None}], ib \in [Token -> Seq(Message)],
           tokens' \in [Token -> TokenRecord \cup {None}], inboxes' \in [Token -> Seq(Message)]
    PROVE  Awaits(tk, ib, t)
<1>1. tokens'[t] # None =>
         /\ tk[t] # None
         /\ Count(inboxes'[t], FreshCloses) + tk[t].pendingCloseMessages
              = Count(ib[t], FreshCloses) + tokens'[t].pendingCloseMessages
         /\ tk[t].pendingCloseMessages \in Nat /\ tokens'[t].pendingCloseMessages \in Nat
         /\ Count(ib[t], FreshCloses) \in Nat /\ Count(inboxes'[t], FreshCloses) \in Nat
  BY HitsFinite DEF Tells, Told, TokenRecord
<1> QED
  BY <1>1 DEF Awaits

LEMMA WFound ==
    ASSUME IInv, NInv, WInv
    PROVE  NoticesWaiting(CleanTokens, CleanInboxes, lapsed)
<1> SUFFICES ASSUME NEW t \in Token, CleanTokens[t] # None, t \notin lapsed
             PROVE  CleanTokens[t].pendingCloseMessages <= Count(CleanInboxes[t], FreshCloses)
  BY DEF NoticesWaiting
<1>1. /\ tokens \in [Token -> TokenRecord \cup {None}]
      /\ CleanTokens \in [Token -> TokenRecord \cup {None}]
      /\ inboxes \in [Token -> Seq(Message)] /\ CleanInboxes \in [Token -> Seq(Message)]
  BY Found, NFound DEF Types, NInv, InboxesOK
<1>2. /\ tokens[t] # None
      /\ Count(CleanInboxes[t], FreshCloses) + tokens[t].pendingCloseMessages
           = Count(inboxes[t], FreshCloses) + CleanTokens[t].pendingCloseMessages
  BY CleanTells DEF Tells, Told
<1>3. /\ tokens[t].pendingCloseMessages \in Nat
      /\ CleanTokens[t].pendingCloseMessages \in Nat
      /\ Count(inboxes[t], FreshCloses) \in Nat /\ Count(CleanInboxes[t], FreshCloses) \in Nat
  BY <1>1, <1>2, HitsFinite DEF TokenRecord
<1>4. tokens[t].pendingCloseMessages <= Count(inboxes[t], FreshCloses)
  BY <1>2 DEF WInv, NoticesWaiting
<1> QED
  BY <1>2, <1>3, <1>4

\* Whose notices and count an operation leaves alone.
LEMMA SameAwaits ==
    ASSUME NEW tk, NEW ib, NEW t \in Token,
           tk \in [Token -> TokenRecord \cup {None}], ib \in [Token -> Seq(Message)],
           Count(inboxes'[t], FreshCloses) = Count(ib[t], FreshCloses),
           tokens'[t] # None =>
              \/ tokens'[t].pendingCloseMessages = 0
              \/ /\ tk[t] # None
                 /\ tokens'[t].pendingCloseMessages = tk[t].pendingCloseMessages
    PROVE  Awaits(tk, ib, t)
<1>1. /\ tk[t] # None => tk[t].pendingCloseMessages \in Nat
      /\ Count(ib[t], FreshCloses) \in Nat
  BY HitsFinite DEF TokenRecord
<1> QED
  BY <1>1 DEF Awaits

\* The notices' counts in the step of an operation that begins with cleanup.
LEMMA CallAwaits ==
    ASSUME IInv, NInv, IInv', NInv', NEW t \in Token, NEW u \in Token,
           \/ \E text \in Texts : SendMessage(u, text[1], text[2])
           \/ Consume(u) \/ Requeue(u)
    PROVE  Awaits(CleanTokens, CleanInboxes, t) /\ lapsed' = lapsed
<1> SUFFICES Awaits(CleanTokens, CleanInboxes, t)
  BY DEF SendMessage, Consume, Requeue, history
<1>1. /\ CleanTokens \in [Token -> TokenRecord \cup {None}]
      /\ CleanInboxes \in [Token -> Seq(Message)]
      /\ held \in [Token -> Message \cup {None}]
      /\ tokens' \in [Token -> TokenRecord \cup {None}]
  BY Found, NFound DEF Types, NInv, InboxesOK, IInv, TablesOK
<1>2. ASSUME NEW text \in Texts, SendMessage(u, text[1], text[2])
      PROVE  Awaits(CleanTokens, CleanInboxes, t)
  <2>1. text[1] \in TextKind
    BY BoundAssumption
  <2>2. Count(inboxes'[t], FreshCloses) = Count(CleanInboxes[t], FreshCloses)
    BY <1>2, <2>1, SendFacts
  <2>3. Unmoved(CleanTokens, tokens')
    BY <1>2, <2>1, SendStep
  <2>4. tokens'[t] # None =>
           /\ CleanTokens[t] # None
           /\ tokens'[t].pendingCloseMessages = CleanTokens[t].pendingCloseMessages
    BY <2>3 DEF Unmoved
  <2> QED
    BY <1>1, <2>2, <2>4, SameAwaits
<1>3. CASE Consume(u) /\ u = t
  <2> DEFINE c == CleanInboxes[t]
             m == Head(c)
  <2>1. c \in Seq(Message) /\ c # <<>> /\ inboxes' = [CleanInboxes EXCEPT ![t] = Tail(@)]
    BY <1>1, <1>3 DEF Consume
  <2>2. /\ m \in Message /\ Tail(c) \in Seq(Message)
        /\ Count(c, FreshCloses) = Count(Tail(c), FreshCloses)
                                     + (IF m \in FreshCloses THEN 1 ELSE 0)
    BY <2>1, CountTail
  <2>3. inboxes'[t] = Tail(c)
    BY <1>1, <2>1
  <2> HIDE DEF c, m
  <2>4. m \in FreshCloses => IsClose(m)
    BY DEF FreshCloses
  <2>5. ASSUME tokens'[t] # None
        PROVE  /\ CleanTokens[t] # None
               /\ Count(c, FreshCloses) + tokens'[t].pendingCloseMessages
                    <= Count(Tail(c), FreshCloses) + CleanTokens[t].pendingCloseMessages
    <3>1. /\ CleanTokens[t] # None
          /\ CleanTokens[t].pendingCloseMessages =
                tokens'[t].pendingCloseMessages + (IF IsClose(m) THEN 1 ELSE 0)
      BY <1>3, <2>5, ConsumeRecord DEF c, m
    <3>2. tokens'[t].pendingCloseMessages \in Nat /\ Count(Tail(c), FreshCloses) \in Nat
      BY <1>1, <2>2, <2>5, HitsFinite DEF TokenRecord
    <3> QED
      BY <2>2, <2>4, <3>1, <3>2
  <2> QED
    BY <2>3, <2>5 DEF Awaits, c
<1>4. CASE Consume(u) /\ u # t
  <2>1. inboxes'[t] = CleanInboxes[t]
    BY <1>1, <1>4 DEF Consume
  <2>2. tokens'[t] = CleanTokens[t]
    BY <1>4, ConsumeRecord
  <2> QED
    BY <1>1, <2>1, <2>2, SameAwaits
<1>5. CASE Requeue(u)
  <2> DEFINE m == [held[u] EXCEPT !.again = TRUE]
             s == <<m>>
  <2>1. /\ tokens' = CleanTokens /\ inboxes' = [CleanInboxes EXCEPT ![u] = s \o @]
        /\ held[u] \in Message
    BY <1>1, <1>5 DEF Requeue
  <2>2. m \in Message /\ m \notin FreshCloses
    BY <2>1 DEF Message, FreshCloses
  <2> HIDE DEF m
  <2>3. s \in Seq(Message) /\ Count(s, FreshCloses) = 0
    BY <2>2, CountFew
  <2> HIDE DEF s
  <2>4. Count(s \o CleanInboxes[u], FreshCloses) = 0 + Count(CleanInboxes[u], FreshCloses)
    BY <1>1, <2>3, CountConcat
  <2>5. Count(CleanInboxes[u], FreshCloses) \in Nat
    BY <1>1, HitsFinite
  <2>6. inboxes'[t] = IF t = u THEN s \o CleanInboxes[u] ELSE CleanInboxes[t]
    BY <1>1, <2>1
  <2>7. Count(inboxes'[t], FreshCloses) = Count(CleanInboxes[t], FreshCloses)
    BY <2>4, <2>5, <2>6
  <2> QED
    BY <1>1, <2>1, <2>7, SameAwaits
<1> QED
  BY <1>2, <1>3, <1>4, <1>5

\* A newcomer has no notice counted.
LEMMA ArrivalAwaits ==
    ASSUME IInv, NInv, IInv', NInv', NEW t \in Token,
           Open \/ (\E r \in Room, u \in Token : JoinSession(u, r) \/ RegisterAndJoin(u, r))
    PROVE  Awaits(CleanTokens, CleanInboxes, t) /\ lapsed' = lapsed
<1> DEFINE j == Notice("joined")
           s == <<j>>
           Counted == tokens'[t] # None =>
              \/ tokens'[t].pendingCloseMessages = 0
              \/ /\ CleanTokens[t] # None
                 /\ tokens'[t].pendingCloseMessages = CleanTokens[t].pendingCloseMessages
<1>1. /\ CleanTokens \in [Token -> TokenRecord \cup {None}]
      /\ CleanInboxes \in [Token -> Seq(Message)]
  BY Found, NFound DEF Types
<1>2. s \in Seq(Message) /\ Count(s, FreshCloses) = 0 /\ j \in Message
  <2>1. j \in Plain /\ j \notin FreshCloses
    BY PlainNotices DEF CloseKind
  <2> HIDE DEF j
  <2>2. j \in Message
    BY <2>1 DEF Plain
  <2>3. Count(<<j>>, FreshCloses) = 0
    BY <2>1, CountFew
  <2> QED
    BY <2>2, <2>3
<1>3. /\ \/ inboxes'[t] = CleanInboxes[t]
         \/ inboxes'[t] = Append(CleanInboxes[t], j)
      /\ lapsed' = lapsed
  <2>1. CASE Open
    <3>1. inboxes' = CleanInboxes /\ lapsed' = lapsed
      BY <2>1 DEF Open, Register, CreateSession, SetupSession, OpenRoom
    <3> QED
      BY <3>1
  <2>2. ASSUME NEW r \in Room, NEW u \in Token, JoinSession(u, r) \/ RegisterAndJoin(u, r)
        PROVE  /\ \/ inboxes'[t] = CleanInboxes[t]
                  \/ inboxes'[t] = Append(CleanInboxes[t], j)
               /\ lapsed' = lapsed
    <3> DEFINE p == PartnerSlot(CleanRooms[r], GuestRole(CleanRooms[r].sessionType))
    <3>1. /\ inboxes' = IF p = None THEN CleanInboxes
                        ELSE [CleanInboxes EXCEPT ![p] = Append(@, j)]
          /\ lapsed' = lapsed
      BY <2>2 DEF JoinSession, RegisterAndJoin, JoinRoom
    <3> HIDE DEF j, p
    <3>2. \/ inboxes'[t] = CleanInboxes[t]
          \/ inboxes'[t] = Append(CleanInboxes[t], j)
      BY <1>1, <3>1
    <3> QED
      BY <3>1, <3>2
  <2> QED
    BY <2>1, <2>2
<1>4. Count(inboxes'[t], FreshCloses) = Count(CleanInboxes[t], FreshCloses)
  <2> HIDE DEF j
  <2>1. CleanInboxes[t] \in Seq(Message)
    BY <1>1
  <2>2. Append(CleanInboxes[t], j) = CleanInboxes[t] \o s
    BY <1>2, <2>1
  <2> HIDE DEF s
  <2>3. /\ Count(CleanInboxes[t] \o s, FreshCloses)
              = Count(CleanInboxes[t], FreshCloses) + Count(s, FreshCloses)
        /\ Count(CleanInboxes[t], FreshCloses) \in Nat
    BY <1>2, <2>1, CountConcat, HitsFinite
  <2>4. CASE inboxes'[t] = CleanInboxes[t]
    BY <2>4
  <2>5. CASE inboxes'[t] = CleanInboxes[t] \o s
    BY <1>2, <2>3, <2>5
  <2> QED
    BY <1>3, <2>2, <2>4, <2>5
<1>5. ASSUME NEW u \in Token, NEW token, token.pendingCloseMessages = 0,
             tokens' = [CleanTokens EXCEPT ![u] = token]
      PROVE  Counted
  <2>1. tokens'[t] = token \/ tokens'[t] = CleanTokens[t]
    BY <1>1, <1>5
  <2> QED
    BY <1>5, <2>1
<1>6. ASSUME NEW u \in Token, NEW token \in TokenRecord, NEW r, NEW role,
             token.pendingCloseMessages = 0,
             tokens' = [CleanTokens EXCEPT ![u] = Paired(token, r, role)]
      PROVE  Counted
  <2>1. Paired(token, r, role).pendingCloseMessages = 0
    BY <1>6 DEF Paired, TokenRecord
  <2> QED
    BY <1>5, <1>6, <2>1
<1>7. NewToken \in TokenRecord /\ NewToken.pendingCloseMessages = 0
  BY NewTokenType DEF NewToken
<1>8. ASSUME NEW u \in Token, CleanTokens[u] # None, CleanTokens[u].roomName = None
      PROVE  CleanTokens[u] \in TokenRecord /\ CleanTokens[u].pendingCloseMessages = 0
  BY <1>1, <1>8, Newcomer
<1>9. Counted
  <2>1. ASSUME NEW u \in Token, Register(u)
        PROVE  Counted
    BY <1>5, <1>7, <2>1 DEF Register
  <2>2. ASSUME NEW u \in Token, NEW r \in Room, NEW type, CreateSession(u, r, type)
        PROVE  Counted
    <3>1. /\ CleanTokens[u] # None /\ CleanTokens[u].roomName = None
          /\ tokens' = [CleanTokens EXCEPT ![u] = Paired(CleanTokens[u], r, CreatorRole(type))]
      BY <2>2 DEF CreateSession, OpenRoom
    <3> QED
      BY <1>6, <1>8, <3>1
  <2>3. ASSUME NEW u \in Token, NEW r \in Room, NEW type, NEW hl, SetupSession(u, r, type, hl)
        PROVE  Counted
    <3>1. tokens' = [CleanTokens EXCEPT ![u] = Paired(NewToken, r, CreatorRole(type))]
      BY <2>3 DEF SetupSession, OpenRoom
    <3> QED
      BY <1>6, <1>7, <3>1
  <2>4. ASSUME NEW u \in Token, NEW r \in Room, JoinSession(u, r) \/ RegisterAndJoin(u, r)
        PROVE  Counted
    <3> DEFINE role == GuestRole(CleanRooms[r].sessionType)
    <3>1. CASE JoinSession(u, r)
      <4>1. /\ CleanTokens[u] # None /\ CleanTokens[u].roomName = None
            /\ tokens' = [CleanTokens EXCEPT ![u] = Paired(CleanTokens[u], r, role)]
        BY <3>1 DEF JoinSession, JoinRoom
      <4> QED
        BY <1>6, <1>8, <4>1
    <3>2. CASE RegisterAndJoin(u, r)
      <4>1. tokens' = [CleanTokens EXCEPT ![u] = Paired(NewToken, r, role)]
        BY <3>2 DEF RegisterAndJoin, JoinRoom
      <4> QED
        BY <1>6, <1>7, <4>1
    <3> QED
      BY <2>4, <3>1, <3>2
  <2> HIDE DEF Counted
  <2> QED
    BY <2>1, <2>2, <2>3, <2>4 DEF Open
<1> QED
  BY <1>1, <1>3, <1>4, <1>9, SameAwaits

LEMMA ConcatFacts ==
    ASSUME NEW s \in Seq(Message), NEW u \in Seq(Message)
    PROVE  /\ s \o u \in Seq(Message) /\ Len(s \o u) = Len(s) + Len(u)
           /\ \A n \in 1..Len(s) : (s \o u)[n] = s[n]
           /\ \A n \in 1..Len(u) : (s \o u)[n + Len(s)] = u[n]
OBVIOUS

LEMMA SameSequence ==
    ASSUME NEW s \in Seq(Message), NEW u \in Seq(Message), Len(u) = Len(s),
           \A n \in 1..Len(s) : u[n] = s[n]
    PROVE  u = s
OBVIOUS

LEMMA CountRemoveOther ==
    ASSUME NEW s \in Seq(Message), NEW i \in DOMAIN s, NEW S, s[i] \notin S
    PROVE  Count(RemoveAt(s, i), S) = Count(s, S)
<1> DEFINE front == SubSeq(s, 1, i - 1)
           this  == <<s[i]>>
           back  == SubSeq(s, i + 1, Len(s))
           fore  == front \o this
           whole == fore \o back
<1>1. /\ front \in Seq(Message) /\ back \in Seq(Message) /\ this \in Seq(Message)
      /\ s = (front \o this) \o back
  <2>1. /\ i \in 1..Len(s) /\ Len(s) \in Nat /\ DOMAIN s = 1..Len(s)
        /\ front \in Seq(Message) /\ back \in Seq(Message) /\ this \in Seq(Message)
        /\ Len(front) = i - 1 /\ Len(back) = Len(s) - i /\ Len(this) = 1
    OBVIOUS
  <2>2. /\ \A n \in 1..(i - 1) : front[n] = s[n]
        /\ \A n \in 1..(Len(s) - i) : back[n] = s[n + i]
        /\ this[1] = s[i]
    BY <2>1
  <2> HIDE DEF front, this, back, fore, whole
  <2>3. /\ fore \in Seq(Message) /\ Len(fore) = Len(front) + Len(this)
        /\ \A n \in 1..Len(front) : fore[n] = front[n]
        /\ \A n \in 1..Len(this) : fore[n + Len(front)] = this[n]
    BY <2>1, ConcatFacts DEF fore
  <2>4. /\ whole \in Seq(Message) /\ Len(whole) = Len(fore) + Len(back)
        /\ \A n \in 1..Len(fore) : whole[n] = fore[n]
        /\ \A n \in 1..Len(back) : whole[n + Len(fore)] = back[n]
    BY <2>1, <2>3, ConcatFacts DEF whole
  <2>5. Len(fore) = i /\ Len(whole) = Len(s)
    BY <2>1, <2>3, <2>4
  <2>6. ASSUME NEW n \in 1..Len(s)
        PROVE  whole[n] = s[n]
    <3>1. CASE n \in 1..(i - 1)
      <4>1. n \in 1..Len(front) /\ n \in 1..Len(fore)
        BY <2>1, <2>5, <3>1
      <4> QED
        BY <2>2, <2>3, <2>4, <3>1, <4>1
    <3>2. CASE n = i
      <4>1. 1 \in 1..Len(this) /\ 1 + Len(front) = i /\ i \in 1..Len(fore)
        BY <2>1, <2>5
      <4>2. fore[1 + Len(front)] = this[1] /\ whole[i] = fore[i]
        BY <2>3, <2>4, <4>1
      <4> QED
        BY <2>2, <3>2, <4>1, <4>2
    <3>3. CASE n \notin 1..i
      <4>1. n - i \in 1..Len(back) /\ (n - i) + i = n /\ n - i \in 1..(Len(s) - i)
        BY <2>1, <3>3
      <4>2. whole[(n - i) + Len(fore)] = back[n - i] /\ back[n - i] = s[(n - i) + i]
        BY <2>2, <2>4, <4>1
      <4> QED
        BY <2>5, <4>1, <4>2
    <3>4. n \in 1..(i - 1) \/ n = i \/ n \notin 1..i
      BY <2>1
    <3> QED
      BY <3>1, <3>2, <3>3, <3>4
  <2>7. whole = s
    <3>1. s \in Seq(Message) /\ whole \in Seq(Message) /\ Len(whole) = Len(s)
      BY <2>4, <2>5
    <3>2. \A n \in 1..Len(s) : whole[n] = s[n]
      BY <2>6
    <3> QED
      BY <3>1, <3>2, SameSequence
  <2> QED
    BY <2>1, <2>7 DEF whole, fore
<1>2. Count(this, S) = 0
  BY CountFew
<1> HIDE DEF front, this, back, fore, whole
<1>3. /\ front \o this \in Seq(Message)
      /\ Count(front \o this, S) = Count(front, S) + Count(this, S)
      /\ Count(front \o back, S) = Count(front, S) + Count(back, S)
  BY <1>1, CountConcat
<1>4. Count((front \o this) \o back, S) = Count(front \o this, S) + Count(back, S)
  BY <1>1, <1>3, CountConcat
<1>5. Count(front, S) \in Nat /\ Count(back, S) \in Nat
  BY <1>1, HitsFinite
<1>6. RemoveAt(s, i) = front \o back
  BY DEF RemoveAt, front, back
<1> QED
  BY <1>1, <1>2, <1>3, <1>4, <1>5, <1>6

LEMMA LapseAwaits ==
    ASSUME IInv, NInv, NEW u \in Token, MessageLapses(u), NEW t \in Token \ lapsed'
    PROVE  Awaits(tokens, inboxes, t) /\ lapsed \subseteq lapsed'
<1>1. /\ tokens' = tokens /\ tokens \in [Token -> TokenRecord \cup {None}]
      /\ inboxes \in [Token -> Seq(Message)]
  BY Found DEF MessageLapses, NInv, InboxesOK, Types
<1>2. PICK i \in DOMAIN inboxes[u] :
         /\ inboxes' = [inboxes EXCEPT ![u] = RemoveAt(@, i)]
         /\ lapsed' = IF IsClose(inboxes[u][i]) THEN lapsed \cup {u} ELSE lapsed
  BY DEF MessageLapses
<1>3. Count(inboxes'[t], FreshCloses) = Count(inboxes[t], FreshCloses)
  <2>1. CASE u # t
    BY <1>1, <1>2, <2>1
  <2>2. CASE u = t
    <3>1. inboxes[u][i] \notin FreshCloses
      BY <1>2, <2>2 DEF FreshCloses
    <3>2. Count(RemoveAt(inboxes[u], i), FreshCloses) = Count(inboxes[u], FreshCloses)
      BY <1>1, <3>1, CountRemoveOther
    <3> QED
      BY <1>1, <1>2, <2>2, <3>2
  <2> QED
    BY <2>1, <2>2
<1> QED
  BY <1>1, <1>2, <1>3, SameAwaits

LEMMA WNext == IInv /\ NInv /\ WInv /\ IInv' /\ NInv' /\ [Next]_vars => WInv'
<1> SUFFICES ASSUME IInv, NInv, WInv, IInv', NInv', [Next]_vars
             PROVE  WInv'
  OBVIOUS
<1>1. /\ tokens \in [Token -> TokenRecord \cup {None}] /\ inboxes \in [Token -> Seq(Message)]
      /\ CleanTokens \in [Token -> TokenRecord \cup {None}]
      /\ CleanInboxes \in [Token -> Seq(Message)]
      /\ tokens' \in [Token -> TokenRecord \cup {None}]
      /\ inboxes' \in [Token -> Seq(Message)]
  BY Found, NFound DEF Types, NInv, InboxesOK, IInv, TablesOK
<1>2. /\ NoticesWaiting(tokens, inboxes, lapsed)
      /\ NoticesWaiting(CleanTokens, CleanInboxes, lapsed)
  BY WFound DEF WInv
<1>3. CASE UNCHANGED vars
  BY <1>3 DEF vars, history, WInv, NoticesWaiting
<1>4. CASE TellingStep
  <2>1. /\ \/ Tells(tokens, inboxes, tokens', inboxes')
           \/ Tells(CleanTokens, CleanInboxes, tokens', inboxes')
        /\ lapsed' = lapsed
    BY <1>4, TellingFacts DEF history
  <2>2. \/ \A t \in Token : Awaits(tokens, inboxes, t)
        \/ \A t \in Token : Awaits(CleanTokens, CleanInboxes, t)
    BY <1>1, <2>1, TellsAwaits
  <2> QED
    BY <1>1, <1>2, <2>1, <2>2, WaitingKept
<1>5. CASE Open \/ \E r \in Room, u \in Token : JoinSession(u, r) \/ RegisterAndJoin(u, r)
  <2>1. \A t \in Token : Awaits(CleanTokens, CleanInboxes, t) /\ lapsed' = lapsed
    BY <1>5, ArrivalAwaits
  <2>2. lapsed \subseteq lapsed'
    <3>1. lapsed \subseteq Token
      BY DEF IInv, TablesOK
    <3> QED
      BY <2>1, <3>1
  <2> QED
    BY <1>1, <1>2, <2>1, <2>2, WaitingKept
<1>6. ASSUME NEW u \in Token,
             \/ \E text \in Texts : SendMessage(u, text[1], text[2])
             \/ Consume(u) \/ Requeue(u)
      PROVE  WInv'
  <2>1. \A t \in Token : Awaits(CleanTokens, CleanInboxes, t) /\ lapsed' = lapsed
    BY <1>6, CallAwaits
  <2> QED
    BY <1>1, <1>2, <1>6, <2>1, WaitingKept
<1>7. ASSUME NEW u \in Token, Delivered(u)
      PROVE  WInv'
  BY <1>7 DEF Delivered, history, WInv, NoticesWaiting
<1>8. ASSUME NEW u \in Token, MessageLapses(u)
      PROVE  WInv'
  <2>1. lapsed \subseteq lapsed'
    BY <1>8 DEF MessageLapses
  <2>2. \A t \in Token \ lapsed' : Awaits(tokens, inboxes, t)
    BY <1>8, LapseAwaits
  <2> QED
    BY <1>1, <1>2, <2>1, <2>2, WaitingKept
<1> QED
  BY <1>3, <1>4, <1>5, <1>6, <1>7, <1>8, StepKinds

\* Nobody is left behind in silence, for any number of sessions: a close
\* notice waits for whoever has seen the other side go (leaveSession(),
\* finalizePendingClose()), unless it let one expire.
THEOREM NobodyWaitsInSilence == Spec => []LoneParticipantIsNotified
<1>1. Init => WInv
  BY DEF Init, WInv, NoticesWaiting
<1>2. IInv /\ NInv /\ WInv => LoneParticipantIsNotified
  <2> SUFFICES ASSUME IInv, NInv, WInv, NEW r \in Room, NEW t \in Token, rooms[r] # None,
                      redeemed[r] = "open", Slots(rooms[r]) = {t}, t \notin lapsed
               PROVE  \E i \in DOMAIN inboxes[t] : IsClose(inboxes[t][i])
    BY DEF LoneParticipantIsNotified
  <2>1. tokens[t] # None /\ tokens[t].pendingCloseMessages > 0
    BY LoneIsCounted
  <2>2. tokens[t].pendingCloseMessages <= Count(inboxes[t], FreshCloses)
    BY <2>1 DEF WInv, NoticesWaiting
  <2>3. tokens[t].pendingCloseMessages \in Nat
    BY <2>1, Found DEF Types, TokenRecord
  <2>4. inboxes[t] \in Seq(Message) /\ Count(inboxes[t], FreshCloses) \in Nat
    BY HitsFinite DEF NInv, InboxesOK
  <2>5. Count(inboxes[t], FreshCloses) # 0
    BY <2>1, <2>2, <2>3, <2>4
  <2>6. Hits(inboxes[t], FreshCloses) # {}
    BY <2>5, FS_EmptySet DEF Count
  <2> QED
    BY <2>6 DEF Hits, FreshCloses
<1> QED
  BY <1>1, <1>2, WNext, InitInv, NextInv, NInit, NNext, PTL DEF Spec
=============================================================================
