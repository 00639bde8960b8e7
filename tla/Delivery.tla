------------------------------ MODULE Delivery ------------------------------
(***************************************************************************)
(* How a message reaches a recipient: GET /wait, the wake-ups and the      *)
(* waiter registry (src/http-server.ts, src/waiter-registry.ts,            *)
(* src/wake-bus.ts), on any number of broker instances that share a store. *)
(*                                                                         *)
(* The model follows one recipient, so an instance's registry holds one    *)
(* entry at most, and a lookup id needs no name.  Code between two awaits  *)
(* is one step, joined with the store call that it ends with: other        *)
(* requests, wake-ups, timers and connection events come between.  The     *)
(* store is its inbox, on which every call is atomic (Redis LPOP, RPUSH    *)
(* and LPUSH); BrokerStore models the rest of it.                          *)
(***************************************************************************)
EXTENDS Naturals, SequencesExt

CONSTANTS
    Message,    \* the messages sent to the recipient
    Request,    \* the recipient's calls of GET /wait
    Instance,   \* the broker instances
    None        \* null: no message, no request, no reply

\* A send publishes one wake-up, which every instance receives.  It is named
\* after the first message of the send.
Wake == Message \X Instance

\* Whatever runs consumeWake(): a wake-up, and the end of a request's handler.
Consumer == Wake \cup Request

Notices == {"timeout", "drain", "conflict", "refused"}

ASSUME NoneAssumption ==
    /\ None \notin Message \cup Request \cup Instance \cup Notices
    /\ Message \cap Notices = {}
    /\ Wake \cap Request = {}

VARIABLES
    inbox,     \* the recipient's inbox in the store
    draining,  \* the instances that drain
    at,        \* the instance a request is made to
    conn,      \* its connection: "open"; "gone" once the client gave up,
               \* "closed" once the server knows; "finished" with its response
    pc,        \* how far its handler is
    timer,     \* its timer: "off", "set", or "fired" and not yet answered
    reply,     \* what was given to res.send()
    delivery,  \* the delivery of its registry entry: unfinished if not None
    waiter,    \* the registry: the request that waits at an instance
    step,      \* how far each consumer is
    hand,      \* the message it, or a request's handler, took from the inbox
    sent,      \* history: the messages sent
    received,  \* history: the messages the client got
    unannounced, \* history: the messages queued without waking anybody:
                 \* by a requeue, or by the expiry of a room
    evicted    \* history: the requests whose entry another request removed

history == <<sent, received, unannounced, evicted>>
vars == <<inbox, draining, at, conn, pc, timer, reply, delivery, waiter,
          step, hand, history>>

----------------------------------------------------------------------------
(* The registry and the connection *)

\* waiters.clear(): whoever waits at i.
Clear(i) ==
    /\ waiter' = [waiter EXCEPT ![i] = None]
    /\ timer' = IF waiter[i] = None THEN timer ELSE [timer EXCEPT ![waiter[i]] = "off"]

\* Mutant: the handler's timer is left running.
ClearEntryOnly(i) ==
    /\ waiter' = [waiter EXCEPT ![i] = None]
    /\ UNCHANGED timer

\* resolve() and resolveIfActive() remove the entry before they send.
TakeEntry(i) == Clear(i)

\* The 'close' listener of a request, once attached, clears the entry of its
\* lookup id, whichever request that entry is of by now.
CloseListener(q) ==
    IF pc[q] = "listening"
    THEN /\ Clear(at[q])
         /\ evicted' = evicted \cup ({waiter[at[q]]} \ {q, None})
    ELSE UNCHANGED <<waiter, timer, evicted>>

Live(q) == conn[q] \in {"open", "gone"}

----------------------------------------------------------------------------
(* What queues messages for the recipient *)

\* What one operation of the store queues for a recipient: one message, or two.
Batches == {<<m>> : m \in Message}
             \cup {<<p[1], p[2]>> : p \in {p \in Message \X Message : p[1] # p[2]}}

\* POST /send, /leave, a join or /admin/invalidate by somebody else: the
\* message goes to the inbox, then a wake-up is published.
SendBatch(batch) ==
    /\ \A n \in DOMAIN batch : batch[n] \notin sent
    /\ sent' = sent \cup ToSet(batch)
    /\ inbox' = inbox \o batch
    /\ step' = [c \in Consumer |->
                  IF c \in {<<Head(batch), i>> : i \in Instance} THEN "woken" ELSE step[c]]
    /\ UNCHANGED <<draining, at, conn, pc, timer, reply, delivery, waiter, hand,
                   received, unannounced, evicted>>

\* closeRoom() of cleanupExpired(), in whatever operation comes next, or of
\* maybeExpireRoom(): the wake tokens it returns are dropped.
ExpireRoom(m) ==
    /\ m \notin sent
    /\ sent' = sent \cup {m}
    /\ inbox' = Append(inbox, m)
    /\ unannounced' = unannounced \cup {m}
    /\ UNCHANGED <<draining, at, conn, pc, timer, reply, delivery, waiter, step, hand,
                   received, evicted>>

----------------------------------------------------------------------------
(* The handler of GET /wait *)

\* The request arrives, and is refused by an instance that drains.
Arrive(q, i) ==
    /\ pc[q] = "idle"
    /\ at' = [at EXCEPT ![q] = i]
    /\ conn' = [conn EXCEPT ![q] = "open"]
    /\ IF i \in draining
       THEN /\ pc' = [pc EXCEPT ![q] = "done"]
            /\ reply' = [reply EXCEPT ![q] = "refused"]
       ELSE /\ pc' = [pc EXCEPT ![q] = "asking"]
            /\ UNCHANGED reply
    /\ UNCHANGED <<inbox, draining, timer, delivery, waiter, step, hand, history>>

\* The rate limiter or touchParticipant() turns it away.
Refuse(q) ==
    /\ pc[q] = "asking"
    /\ pc' = [pc EXCEPT ![q] = "done"]
    /\ reply' = [reply EXCEPT ![q] = "refused"]
    /\ UNCHANGED <<inbox, draining, at, conn, timer, delivery, waiter, step, hand, history>>

\* What a consumer takes from the inbox, if there is anything.
TakeFirst(c) ==
    /\ hand' = [hand EXCEPT ![c] = IF inbox = <<>> THEN None ELSE Head(inbox)]
    /\ inbox' = IF inbox = <<>> THEN inbox ELSE Tail(inbox)

\* store.consumeInbox()
AskInbox(q) ==
    /\ pc[q] = "asking"
    /\ TakeFirst(q)
    /\ pc' = [pc EXCEPT ![q] = "asked"]
    /\ UNCHANGED <<draining, at, conn, timer, reply, delivery, waiter, step, history>>

\* A message was queued: it is the reply, and no listener looks after it.
ReplyQueued(q) ==
    /\ pc[q] = "asked"
    /\ hand[q] # None
    /\ reply' = [reply EXCEPT ![q] = hand[q]]
    /\ hand' = [hand EXCEPT ![q] = None]
    /\ pc' = [pc EXCEPT ![q] = "done"]
    /\ UNCHANGED <<inbox, draining, at, conn, timer, delivery, waiter, step, history>>

\* waiters.register(): one request waits at an instance at a time.
RegisterWaiter(q) ==
    /\ pc[q] = "asked"
    /\ hand[q] = None
    /\ IF waiter[at[q]] = None
       THEN /\ waiter' = [waiter EXCEPT ![at[q]] = q]
            /\ timer' = [timer EXCEPT ![q] = "set"]
            /\ pc' = [pc EXCEPT ![q] = "registered"]
            /\ UNCHANGED reply
       ELSE /\ reply' = [reply EXCEPT ![q] = "conflict"]
            /\ pc' = [pc EXCEPT ![q] = "done"]
            /\ UNCHANGED <<waiter, timer>>
    /\ UNCHANGED <<inbox, draining, at, conn, delivery, step, hand, history>>

\* consumeWake() goes on only if somebody waits here.
WakeStep(i) == IF waiter[i] = None THEN "done" ELSE "popping"

\* Mutant: the handler ends when its entry is registered.
NoLastLook(i) == "done"

\* The handler's own consumeWake().
LastLook(i) == WakeStep(i)

\* incrementWaits() and registerWaiterOwner() are done: the 'close' listener
\* is attached, and the inbox looked at once more.
Listen(q) ==
    /\ pc[q] = "registered"
    /\ pc' = [pc EXCEPT ![q] = "listening"]
    /\ step' = [step EXCEPT ![q] = LastLook(at[q])]
    /\ UNCHANGED <<inbox, draining, at, conn, timer, reply, delivery, waiter, hand, history>>

----------------------------------------------------------------------------
(* consumeWake() *)

InstanceOf(c) == IF c \in Request THEN at[c] ELSE c[2]

\* A wake-up reaches an instance.
Woken(w) ==
    /\ step[w] = "woken"
    /\ step' = [step EXCEPT ![w] = WakeStep(w[2])]
    /\ UNCHANGED <<inbox, draining, at, conn, pc, timer, reply, delivery, waiter,
                   hand, history>>

\* Mutant: an empty inbox is not noticed.
AlwaysResolve == "resolving"

\* An empty inbox ends consumeWake().
AfterPop == IF inbox = <<>> THEN "done" ELSE "resolving"

\* store.consumeInboxMessage()
Pop(c) ==
    /\ step[c] = "popping"
    /\ TakeFirst(c)
    /\ step' = [step EXCEPT ![c] = AfterPop]
    /\ UNCHANGED <<draining, at, conn, pc, timer, reply, delivery, waiter, history>>

\* store.requeueInboxMessageFront(): nobody is woken for it.
PutBack(m) ==
    /\ inbox' = <<m>> \o inbox
    /\ unannounced' = unannounced \cup {m}

\* Mutant: the return after 'resolved' is missing.
AlwaysPutBack(m) == PutBack(m)

\* 'resolved': nothing is left to do with the message.
AfterResolved(m) == UNCHANGED <<inbox, unannounced>>

\* resolveIfActive(): the message becomes the reply of whoever waits.  Without
\* a waiter ('missing'), or with one whose connection is known to be closed
\* ('stale'), it is put back.
Resolve(c) ==
    /\ step[c] = "resolving"
    /\ LET i == InstanceOf(c)
           q == waiter[i]
           m == hand[c]
       IN  \/ /\ q = None
              /\ PutBack(m)
              /\ UNCHANGED <<waiter, timer, reply, delivery>>
           \/ /\ q # None
              /\ ~Live(q)
              /\ TakeEntry(i)
              /\ PutBack(m)
              /\ UNCHANGED <<reply, delivery>>
           \/ /\ q # None
              /\ Live(q)
              /\ TakeEntry(i)
              /\ reply' = [reply EXCEPT ![q] = m]
              /\ delivery' = [delivery EXCEPT ![q] = m]
              /\ AfterResolved(m)
    /\ hand' = [hand EXCEPT ![c] = None]
    /\ step' = [step EXCEPT ![c] = "done"]
    /\ UNCHANGED <<draining, at, conn, pc, sent, received, evicted>>

----------------------------------------------------------------------------
(* The timer, and draining *)

\* waiters.clear() removes the entry, the request's own while its timer runs.
TimerFires(q) ==
    /\ timer[q] = "set"
    /\ waiter' = [waiter EXCEPT ![at[q]] = None]
    /\ timer' = [timer EXCEPT ![q] = "fired"]
    /\ UNCHANGED <<inbox, draining, at, conn, pc, reply, delivery, step, hand, history>>

\* Mutant: the timer only removes the entry.
TimeoutUnsent == None
TimeoutReply == "timeout"

\* clearWaiterOwner() is done.
TimeOut(q) ==
    /\ timer[q] = "fired"
    /\ timer' = [timer EXCEPT ![q] = "off"]
    /\ reply' = [reply EXCEPT ![q] = TimeoutReply]
    /\ UNCHANGED <<inbox, draining, at, conn, pc, delivery, waiter, step, hand, history>>

\* beginDrain(), and resolveAll()
BeginDrain(i) ==
    /\ i \notin draining
    /\ draining' = draining \cup {i}
    /\ TakeEntry(i)
    /\ reply' = IF waiter[i] = None THEN reply
                ELSE [reply EXCEPT ![waiter[i]] = "drain"]
    /\ UNCHANGED <<inbox, at, conn, pc, delivery, step, hand, history>>

----------------------------------------------------------------------------
(* The connection *)

\* The client stops waiting; the server does not know yet.
GiveUp(q) ==
    /\ conn[q] = "open"
    /\ conn' = [conn EXCEPT ![q] = "gone"]
    /\ UNCHANGED <<inbox, draining, at, pc, timer, reply, delivery, waiter, step, hand,
                   history>>

\* 'finish': the response is written.  If the client is gone it is lost.
Finish(q) ==
    /\ reply[q] # None
    /\ Live(q)
    /\ conn' = [conn EXCEPT ![q] = "finished"]
    /\ received' = IF conn[q] = "open" /\ reply[q] \in Message
                   THEN Append(received, reply[q]) ELSE received
    /\ delivery' = [delivery EXCEPT ![q] = None]
    /\ CloseListener(q)
    /\ UNCHANGED <<inbox, draining, at, pc, reply, step, hand, sent, unannounced>>

\* Mutant: an unfinished delivery is forgotten.
Forgotten(m) == UNCHANGED <<inbox, unannounced>>

\* onUnfinishedDelivery()
Unfinished(m) == IF m = None THEN UNCHANGED <<inbox, unannounced>> ELSE PutBack(m)

\* 'close' of a connection whose response did not finish.
ConnectionCloses(q) ==
    /\ conn[q] = "gone"
    /\ conn' = [conn EXCEPT ![q] = "closed"]
    /\ Unfinished(delivery[q])
    /\ delivery' = [delivery EXCEPT ![q] = None]
    /\ CloseListener(q)
    /\ UNCHANGED <<draining, at, pc, reply, step, hand, sent, received>>

----------------------------------------------------------------------------
Init ==
    /\ inbox = <<>>
    /\ draining = {}
    /\ at = [q \in Request |-> None]
    /\ conn = [q \in Request |-> "none"]
    /\ pc = [q \in Request |-> "idle"]
    /\ timer = [q \in Request |-> "off"]
    /\ reply = [q \in Request |-> None]
    /\ delivery = [q \in Request |-> None]
    /\ waiter = [i \in Instance |-> None]
    /\ step = [c \in Consumer |-> "idle"]
    /\ hand = [c \in Consumer |-> None]
    /\ sent = {}
    /\ received = <<>>
    /\ unannounced = {}
    /\ evicted = {}

Handle(q) ==
    Refuse(q) \/ AskInbox(q) \/ ReplyQueued(q) \/ RegisterWaiter(q) \/ Listen(q)

Consume(c) == (c \in Wake /\ Woken(c)) \/ Pop(c) \/ Resolve(c)

Next ==
    \/ \E batch \in Batches : SendBatch(batch)
    \/ \E m \in Message : ExpireRoom(m)
    \/ \E q \in Request :
        \/ \E i \in Instance : Arrive(q, i)
        \/ Handle(q)
        \/ TimerFires(q)
        \/ TimeOut(q)
        \/ GiveUp(q)
        \/ Finish(q)
        \/ ConnectionCloses(q)
    \/ \E c \in Consumer : Consume(c)
    \/ \E i \in Instance : BeginDrain(i)

Spec == Init /\ [][Next]_vars

\* Every await is over some time: a handler, a consumer and a timer's callback
\* that began go on.  Timers need not fire, which shows what wake-ups achieve
\* by themselves.
PromptSpec ==
    /\ Spec
    /\ \A q \in Request : WF_vars(Handle(q)) /\ WF_vars(TimeOut(q))
    /\ \A c \in Consumer : WF_vars(Consume(c))

\* setTimeout() fires.
TimersFire == \A q \in Request : WF_vars(TimerFires(q))

TimedSpec == PromptSpec /\ TimersFire

----------------------------------------------------------------------------
(* Properties *)

TypeOK ==
    /\ inbox \in Seq(Message)
    /\ draining \subseteq Instance
    /\ at \in [Request -> Instance \cup {None}]
    /\ conn \in [Request -> {"none", "open", "gone", "closed", "finished"}]
    /\ pc \in [Request -> {"idle", "asking", "asked", "registered", "listening", "done"}]
    /\ timer \in [Request -> {"off", "set", "fired"}]
    /\ reply \in [Request -> Message \cup Notices \cup {None}]
    /\ delivery \in [Request -> Message \cup {None}]
    /\ waiter \in [Instance -> Request \cup {None}]
    /\ step \in [Consumer -> {"idle", "woken", "popping", "resolving", "done"}]
    /\ hand \in [Consumer -> Message \cup {None}]
    /\ sent \subseteq Message
    /\ received \in Seq(Message)
    /\ unannounced \subseteq sent
    /\ evicted \subseteq Request

\* Where a message is: at a position of the inbox, in the hand of a consumer
\* or handler, or in a reply that is not finished.
Places(m) ==
    ({"inbox"} \X {n \in DOMAIN inbox : inbox[n] = m})
      \cup ({"hand"} \X {c \in Consumer : hand[c] = m})
      \cup ({"reply"} \X {q \in Request : reply[q] = m /\ Live(q)})

Kept == {m \in Message : Places(m) # {}}

\* A message is in one place at a time, whatever takes it, gives it to a
\* response or puts it back, on whichever instance; once received it is in
\* none.
OnePlace ==
    \A m \in Message :
        /\ \A p1, p2 \in Places(m) : p1 = p2
        /\ m \in ToSet(received) => Places(m) = {}

\* A message is lost only by a response: one that was written to a client
\* that had gone, or one that answered from the queue without a registry
\* entry, and so without the listeners that put an unfinished one back.
KeptUntilWritten ==
    [][\A m \in Kept \ Kept' :
         \E q \in Request :
            \/ /\ reply[q] = m
               /\ Live(q)
               /\ \/ conn'[q] = "finished"
                  \/ conn'[q] = "closed" /\ delivery[q] = None
            \/ /\ hand[q] = m
               /\ pc[q] = "asked"
               /\ conn[q] = "closed"]_vars

\* The detailed delivery keeps the promise of a mailbox.
MB == INSTANCE Mailbox WITH kept <- Kept
KeepsMailbox == MB!Spec

\* No wake-up is missed between asking the inbox and being registered, or
\* while another consumer runs: if a message is queued while a request
\* listens, somebody on its instance is on the way to the inbox or to the
\* request.  Messages that were put back, or queued by the expiry of a room,
\* are left out: for those the code wakes nobody.
Underway(i) ==
    \E c \in Consumer : /\ step[c] \in {"woken", "popping", "resolving"}
                        /\ InstanceOf(c) = i

NoLostWakeup ==
    \A i \in Instance, q \in Request :
        /\ waiter[i] = q
        /\ pc[q] = "listening"
        /\ ToSet(inbox) \ unannounced # {}
        => Underway(i)

\* A request is answered once: whoever answers it, timer, wake-up or drain,
\* finds it unanswered.
AnsweredOnce ==
    [][\A q \in Request : reply[q] # None => reply'[q] = reply[q]]_vars

\* A listening request need not wait for its timer: while a message that
\* came with a wake-up is queued, either it is taken or the request is over.
\* Nothing is said of one that was put back, or queued by an expiry, which
\* waits for the timer, the next wake-up or the next request.
WokenByMessages ==
    \A i \in Instance, q \in Request, m \in Message :
        (waiter[i] = q /\ pc[q] = "listening" /\ m \in ToSet(inbox) \ unannounced)
            ~> (waiter[i] # q \/ m \notin ToSet(inbox))

\* Waiting ends if timers fire: a registered request is answered, unless its
\* connection closes or another request removes its entry.
WaitEnds ==
    TimersFire => \A q \in Request :
        (timer[q] = "set") ~> (reply[q] # None \/ conn[q] = "closed" \/ q \in evicted)

\* CONTRIBUTING.md, of waiter-registry.ts and wake-bus.ts: they handle "waking
\* up suspended HTTP `/wait` requests when a message arrives".  At an instance
\* that does not drain, a suspended request whose connection stays open is
\* answered, by a message or else by its timer.
WaitsAreAnswered ==
    \A q \in Request :
        (timer[q] = "set") ~> \/ reply[q] # None
                              \/ conn[q] = "closed"
                              \/ at[q] \in draining
=============================================================================
