# A2A Linker in TLA+

A2A Linker lets two coding agents on different machines talk through a broker.
Each agent has a token, the two share a room, and everything one says goes to
the other's inbox, which the other reads with a long poll (`GET /wait`). On each
side a local supervisor may run the agent: it waits for what the partner says,
lets a policy judge it, and sends the agent's answer. This directory holds TLA+
modules of the broker and the supervisor, TLC configurations that check them on
small instances, and TLAPS proofs of their most important properties.

Paths are relative to the repository root (the directory with `package.json`).

## The system

| Component | State | Operations | What makes it correct |
|---|---|---|---|
| Memory store (`src/memory-broker-store.ts`) | maps of tokens, rooms, codes, inboxes, counters | register, setup, create, join, send, touch, consume, requeue, leave, invalidate, each with a lazy `cleanupExpired()` | rooms and tokens agree; a code admits one guest; nobody is left alone or dropped unawares; a pause notice is true |
| Redis store (`src/redis-broker-store.ts`) | the same records as Redis keys | the same calls, every read and write an `await` | as the memory store one call at a time; nobody enters another session when calls interleave |
| Message delivery (`src/http-server.ts` `/wait`, `consumeWake`; `src/waiter-registry.ts`; `src/wake-bus.ts`) | registry of suspended responses per instance, timers, connections | register, resolve, clear, drain, timeout, requeue | a message is in one place, is lost only by the paths that cannot put it back, and wakes whoever waits |
| Supervisor (`src/supervisor.ts`) | session state, recent turns, stored artifacts, session and policy files | connect, event loop, approval, runner actions, send, signals | what runs is allowed; every message is answered; approvals last; files and memory agree |
| Policy (`src/policy.ts`) | a session's settings and grants | evaluate a request, grant access | an approval meets what it was asked for and nothing forbidden |
| HTTP routes (`src/http-server.ts`) | `draining` | register, setup, join, send, leave, ping, admin | thin over the store |
| Rate limiting (both stores) | counters with an end | `consumeRateLimit` | at most `max` per window; a window ends |
| Client scripts (`.agents/skills/a2alinker/scripts/`) | token, pid, pending and in-flight files | send, wait loop, passive waiter, leave | one waiter at a time; no reply lost or answered twice |
| Bootstrap, configuration, logging, identifiers, supervisor UI, compiled `runtime/*.js`, deployment, examples | little or none | | not modelled |

How they interact: a route calls the store; the store answers with the tokens
to wake; the route publishes a wake-up for each on the wake bus; every instance
hears it and, if it holds a suspended `/wait` of that recipient, pops a message
and finishes the response. The supervisor starts the scripts, which are HTTP
clients of the routes, and reads what they print.

What is hard: requests interleave at every `await`; a connection may close at
any point between popping a message and writing it; a timer, a wake-up, a drain
and the 'close' of an older request may all act on one registry entry; close
notices are counted, copied, requeued and may expire while the count stays; in
the memory store deadlines take effect inside whatever operation comes next; in
the Redis store a call writes back records it read many commands before; the
supervisor waits for a human whose answer may come after the policy expired, and
leaves its loop by a dozen paths, on each of which the partner may be waiting.
`PROJECT.json` lists these hazards with their lines.

## Modules

| Module | Models |
|---|---|
| `BrokerRecords` | the records, messages and computations both stores share |
| `BrokerStore` | the memory store: its four maps and the message the HTTP layer has taken out |
| `MCBrokerStore`, `MCBrokerSession`, `MCLoopPause` | instances of it for TLC |
| `BrokerRecordsProofs` | lemmas about the records, messages and discards of both stores |
| `BrokerStoreProofs`, `BrokerNoticeProofs`, `BrokerMessageProofs` | proofs about the memory store's tables, its close notices and its messages, each on top of the former |
| `RedisStore` | the Redis store: every operation as a series of commands |
| `RedisSerial` | `RedisStore` called by one caller at a time, and its refinement of `BrokerStore` |
| `MCRedisSerial`, `MCRedisRaces`, `MCRedisIdle` | instances of these for TLC; `MCRedisIdle` adds which tokens were written since their room |
| `RedisProofs` | proofs about the Redis store |
| `Delivery` | `/wait`, the registry, wake-ups and connections, for one recipient on any number of instances |
| `Mailbox` | what delivery promises: messages kept until received once, or lost |
| `DeliveryProofs` | proofs about `Delivery`, and that it implements `Mailbox` |
| `MCDelivery` | instances of `Delivery` for TLC |
| `Policy`, `PolicyProofs` | the decision on a request, and theorems about it |
| `Supervisor`, `SupervisorProofs` | the sessions of one workspace, and proofs about them |
| `MCSupervisor` | instances of `Supervisor` for TLC |

### BrokerStore

Node runs one callback at a time and no store operation awaits between its reads
and writes, so an operation is one action: `SetupSession`, `CreateSession`,
`Register`, `JoinSession`, `RegisterAndJoin`, `UpdateRoomHeadless`, `SendMessage`,
`Touch`, `Consume`, `Requeue`, `LeaveSession`, `InvalidateRoom` (by token and by
room name), `InvalidateByCode`, and `Observe` for those that only clean up.
`Delivered` is the HTTP layer's: the response was written.

* `cleanupExpired()` is not an action. The operators `CleanTokens`, `CleanRooms`
  and `CleanInboxes` are the tables as it leaves them; each operation that calls
  it reads and updates those. `TokenAges`, `TokenIdles`, `CodeLapses` and
  `MessageLapses` only let a deadline pass.
* A token's `createdAt` is how many of two deadlines it has passed: the token's
  own and the waiting room's, which are one, and the longer one of a headless
  listener's room. `lastSeen` is whether the idle limit has passed.
* A message is its kind and its author. Badges (`[STANDBY]`) are parts of the
  kind because `discardObsoleteStandbyInboxMessages` filters on them.
* `Without` removes messages by an index set instead of `SelectSeq`, whose
  definition is recursive and so out of reach of the proofs.
* `redeemed`, `recounts`, `lapsed`, `usedTokens`, `usedRooms` and a message's `again` are
  history and guard nothing but freshness of names. `lapsed` is who let a close notice
  expire unread: the count keeps such a notice, the inbox does not.
* Left out: counters for metrics, rate limits, waiter-owner keys (written, never
  read for a decision), rendering.

### RedisStore

A call in progress (`call`) is the sequence of commands it still has to issue, and
an action executes the first of them. A command that writes takes its values from
the call; one that reads is replaced by the commands that the code issues next, with
the values it read inside them. So a record read early and written late overwrites
whatever came between, as in the code. The first command of an operation is the
action named after it (`SendMessage` is the `GET` of the sender).

* `Promise.all` issues its commands in order on one connection, and the model keeps
  that order. `Discard` and `DiscardPartner` are the two `LRANGE`s of two discards
  that run together; their `DEL`s and `RPUSH`es follow.
* `SetupSession` is one step: it writes only names that nobody else knows.
* Keys end at any moment (`TokenEnds`, `RoomEnds`, `CodeEnds`, `InboxEnds`). When a room
  is too old for `maybeExpireRoom()` is left open (`JudgeRoom`), which allows more
  than the clock does. `Crash` stops an instance in the middle of a call.
* `members` is history: the tokens a room was opened for or has admitted with its
  code. `calls` counts what the bound `MaxCalls` limits.
* As in the memory store, the HTTP layer takes one message at a time for a token.

### Delivery

A request of `/wait` runs through `Arrive`, `Refuse` or `AskInbox`, then
`ReplyQueued` or `RegisterWaiter`, then `Listen` (attach the 'close' listener, look once
more). Each await of the handler separates two steps. `consumeWake()` runs for a
wake-up (`Woken`) or at the end of a handler, as `Pop` and `Resolve`; several may
run at once. `TimerFires` and `TimeOut` are the two halves of the timer's
callback around its await. `GiveUp` is the client's; `ConnectionCloses` and
`Finish` are the two ways a response ends, each with the listeners of the
registry and of the request. `BeginDrain` is the drain with `resolveAll()`.

* One recipient: the registry, inbox and wake-ups of different lookup ids do not
  touch each other.
* Store calls on the inbox are atomic, as LPOP, RPUSH and LPUSH are. With the
  memory store fewer interleavings are possible, so what holds here holds there.
* A send queues one message or two and publishes one wake-up, named after the
  first (`SendBatch`). Publication does not fail and wake-ups are not lost (one Redis
  connection; a reconnect is not modelled).
* The expiry of a room queues a close notice and wakes nobody (`ExpireRoom`):
  `cleanupExpired()` (`src/memory-broker-store.ts:588`) and `maybeExpireRoom()`
  (`src/redis-broker-store.ts:758`) drop the wake tokens that `closeRoom()` returns.
  `unannounced` is history: the messages queued so, or put back.
* 'close' of a request also follows its finished response (Node 20); the
  listeners then run before another request is read.
* Waiter-owner keys are written only; 409 is per instance, as in the code.
* What closing notices do to the token is `BrokerStore`'s.

### Policy and Supervisor

A request is what the patterns of `policy.ts` recognise in a text: whether it is
forbidden, asks to edit, to test, to read, for the web, for a shell, the command it
quotes and the commands that occur in it. `Decision` and `Asked` are
`evaluateIncomingMessage()`: the verdict and the grants it asks for. Two commands
that differ in case share a grant but not an entry of `allowedCommands`, which is
why commands have a `Fold`.

`pc` says what the supervisor awaits: the connection, the wait for a joiner, the
opening's delivery, the loop script, a pause before a retry, the human, the runner,
one of its actions, or a delivery. A step is what runs from one await to the next.

* `RunSupervisor`, `BootstrapHostAttachSession` and `Connected` start a session.
  Sessions of one workspace follow one another and share the policy file, except
  listeners, which have their own. The artifact directory is new for each.
* `RoomAlive`, `RoomClosed` (also a system message that closes), `PingFailed`,
  `JoinNotice`, `OtherNotice`, `Paused`, `Alerted` and `Hears` are what the loop script can
  report. The script swallows a join notice unless `surface` says otherwise.
* `Hears` stores an artifact-like payload, judges the message (a payload by its kind
  only) and leads to the human, the runner or a refusal. `Approved` writes the policy
  and judges again.
* `Requests`, `ActionEnds` and `Replies` are `runRunnerActionLoop()`: only an unattended
  listener's runner may ask for actions. Parsing errors are the request `"malformed"`.
* Storing a payload may fail before, between or after its two files (`Store`).
* A turn is whose it is, the payload it stands for and, when it is only a reference, the
  id of the stored artifact. A body that the code cuts for its size counts as if it
  were there.
* `carried` is history: the grants given under the policy that the file holds, in any
  session of the workspace.
* `Fails` is any script or runner that throws, `Interrupted` a signal that is handled,
  `Killed` one that is not. The policy may expire at any moment.
* Left out: wording of prompts and replies, with it the guard that replaces what an
  unattended listener would send when text patterns find it sensitive
  (`src/supervisor.ts:1624-1684`; something is sent either way); the transcript beyond
  what `TranscriptTurns` takes from it, the screen, the commands that read and
  reconcile a session's status from another process, and two supervisors that run in
  one workspace at once. `Closes` is one step, where the code writes the status at the
  notice (`src/supervisor.ts:724`, `:793`) and leaves in the `finally` block (`:973`): a kill
  between the two, after which the file says `closed` and nobody left, is not seen.

## Runs

| Run | Instance | Question |
|---|---|---|
| `store` | 2 tokens, 1 room, three texts, inbox of 2, threshold 2; a behaviour talks, or lets time pass, or loses messages | types; are queued notices counted, pauses true, codes for free slots, notices in the inbox of whoever is left, session ends known, active texts kept? |
| `store_rooms` | 3 tokens, 2 rooms, one kind of text (`RoomsSpec`) | do slots and records agree; do texts stay in their room? |
| `delivery` | 2 messages on one instance, or 1 on two; 2 requests | one place; no missed wake-up; loss only where the code cannot help it; one answer per request; refines `Mailbox` |
| `delivery_live` | 1 message, 2 requests, 1 instance | does a message sent with a wake-up wake the waiter; does waiting end? |
| `redis_serial` | 2 tokens, 1 room, one caller, two texts; codes, inboxes and unused tokens expire | does each call do what the memory store's does? |
| `redis_races` | 3 tokens, 1 room, two callers, all faults; a behaviour enters and leaves, or talks | does a redeemed code stay gone; is every guest paired; does a token go knowingly? |
| `supervisor` | 2 sessions of 3 messages; 6 launches, 12 messages, 6 actions | the properties of `Supervisor` below |
| `loop_pause` | threshold 3 | violated: see Findings |
| `wait_answer` | 1 message, 2 requests | violated |
| `redis_codes` | 3 tokens, two callers, no fault | violated |
| `redis_idle` | 2 tokens, one caller, room keys end | violated |
| `supervisor_opening` | as `supervisor` | violated |

All runs say `CHECK_DEADLOCK FALSE`: rooms, tokens, messages, requests and sessions
are finite in number and may be used up.

Bounds. A room has two participants, so two tokens and a room show every
conversation; a third token and a second room let two want one code, or be in
rooms whose operations meet; there, to stay in reach, close notices are
not put back once taken out (`NoticesStayOut`), which `store` allows. `store` has three
themes (`MCBrokerSession`): joining, leaving, closing and reading happen in all;
talking, the passage of time and the loss of waiting messages in one each, since a
property about texts needs no deadline and the reverse. Messages are put back when
talking and when messages lapse, not while time passes. Of
the four texts it leaves out the long standby text (`ThreeTexts`). An inbox of two
is what a close needs (it queues two copies for the guest). The threshold of 2 is
the least that can be counted up to and reset. For delivery, two requests are
needed for one to act on the other's entry, two messages for a batch and for two
consumers that hold one each, two instances for a wake-up that two hear; both at
once are out of reach (`OneMessageOrInstance`).

In `redis_races` two calls overlap: `MaxCalls` is 1, so one call is made while another is
in progress, at any point of it and in any state that calls without overlap
reach. This is the least in which a stale record is written. Three tokens are needed
for two that want the same code. Texts are of one kind there, and where two talk the
room is opened by its host and one message waits before the overlap (`QuietTalk`).
In `redis_serial` nothing is put back (a requeue is one command in both stores) and
`invalidateByToken` and `invalidateByRoomName` are left to `invalidateByCode`, which
closes the same way. Between two calls a code, an inbox or a token without a room may
end; the memory store follows, message by message and age by age, before the next call.
What may not end there is where the two stores do differ, so that no refinement holds:

* the key of a participant or of a room, which the memory store never drops by itself
  (it closes the room, and tells);
* a room that is too old: `touchParticipant()` and `sendMessage()` of the Redis store write
  back the record they read before `maybeExpireRoom()` marked it
  (`src/redis-broker-store.ts:248`, `:307`, `:328`), so that the count of the notice just
  queued is lost, which the memory store keeps.

So the run shows that the stores agree as long as neither of these two happens.

For the supervisor, two sessions let a policy file be found, and three messages let
an approved one, another and a repeated one follow each other; the limits of turns
(2), actions (2) and prompt artifacts (1) are small enough to be exceeded. Requests
that need judging and payloads that need storing are in different behaviours
(`theme`): a payload is judged by its kind alone.

Fairness. The safety runs have none. `PromptSpec` has weak fairness for a
handler, a `consumeWake()` and a timer's callback that is under way: each waits
for a Redis call or for its turn in the event loop. It has none for timers,
clients and senders, which is what makes `WokenByMessages` say something: the
wake-up alone must do. `WaitEnds` assumes on top that timers fire (`TimersFire`).
No client need ever close, give up or call. The supervisor has no liveness
property: what it awaits is a partner, a human and a program without a time limit.

### What the properties say

Broker:

* `RoomTokenAgreement`: slots of rooms and records of tokens name each other, and
  a room that exists has someone in it.
* `CodeGuardsFreeSlot`: a code that can be redeemed was not, and its slot is free.
* `LoneParticipantIsNotified`: whoever is alone in a room that two had entered has a
  close notice in its inbox. Exceptions: one who let a close notice expire unread
  (`lapsed`), whose count stays while there may be nothing to read; and a guest whose code
  survived the closing of its room (`redeemed = "closing"`), whom nothing tells when the
  other is gone.
* `TokenEndsKnowingly`: a participant's token goes with its own leave or as a close
  notice is handed to it.
* `PauseIsCurrent`, `TextsStayInTheRoom`, `ActiveTextIsKept`: what may sit in an
  inbox, and what may be taken from it unread. Messages that were put back are
  left out of `PauseIsCurrent`: a stale notice may come back after it was cancelled.
* `QueuedNoticesAreCounted`: the count that finalizes a token covers the notices
  queued, less those counted twice because they were put back (`recounts`).
* `OnePlace`, `KeptUntilWritten`, `KeepsMailbox`: no duplicate; the only losses are a
  response written to a client that had gone and a direct reply of the queue,
  which no listener looks after; the whole implements `Mailbox`.
* `NoLostWakeup`, `WokenByMessages`: a message that came with a wake-up does not sit
  in the inbox while a request listens, unless somebody is on the way. Messages that
  are `unannounced` are left out, because the code does lose their wake-up: a requeue
  wakes nobody, nor does the expiry of a room. A lone host in a long poll as its room
  grows too old learns of it when its timer fires, or with the next message.
* `AnsweredOnce`, `WaitEnds`: one answer, and in the end one, unless another
  request removed the entry (`evicted`).

Redis store:

* `ImplementsMemoryStore`: with one call at a time, and what ends as said under Bounds, the
  state between two calls changes as `BrokerStore` allows in one step, or not at all. The mapping adds to an inbox what
  `deleteToken()` deleted with the token (`leftover`): the memory store keeps the
  messages of a token that is gone. `redeemed` and `recounts`, the histories of
  `BrokerStore`, are computed from the call as a whole. So what is proved of the
  memory store holds of such a Redis store, on the instance that TLC checks.
* `RedeemedCodeIsGone`: a code that can be redeemed belongs to a room without a guest,
  wherever a call stopped and whatever an older call writes back. It rests on the
  order of `joinSession()`: the code is deleted before anything else is written.
* `GuestsArePaired`: a guest that a room names, and whose token is there, is paired: it can
  answer and leave, wherever its join stopped and whatever older record was written
  back since. A creator may be unpaired: a close that overlaps `createSession()` can
  write back the record from before the pairing.
* `TokenGoesKnowingly`: the token of a participant is deleted by its own leave, or as it
  takes a close notice, or its key ends; no overlap of calls makes it go otherwise.
* `SessionsStayApart`: rooms hold, records name and inboxes quote only participants
  who opened the room or came with its code. With the one room of the runs this
  says nothing, so no run checks it; it is proved for any number.
* What does not survive interleaving: the agreement of rooms and records, and the count
  of close notices. A room written back late holds a token that is gone; two changes of
  one count become one. No document promises otherwise, so these are hazards with a
  note and not runs.

Supervisor:

* `RunsOnlyAllowed`: the runner starts only for a message that the policy, as it is then,
  allows. An approval that comes when the policy has expired, or that leaves
  something else unmet, starts nothing.
* `EveryMessageIsAnswered`: the next wait begins, and a session ends regularly, only when
  the last message that expects an answer got one. A session that fails or is killed
  may owe one.
* `AskedOnce`: nobody is asked in one session for what was approved in it.
* `ApprovalsCarryOver`: nor in a later session of a host or a joiner, as long as the policy
  file has not expired. An approval is in the file before the session goes on, so no
  failure or kill loses it, and no listener in between writes there.
* `StartupChoicesRule`: only a listener launched to edit or to test does, whatever was
  approved since (`README.md:383`) and whatever policy file lies there. For hosts and
  joiners a policy file that has not expired is used again, grants included.
* `ClosedMeansLeft`: the session file says `closed` exactly when the leave script ran.
  An interrupted listener leaves with the status `interrupted`.
* `StoredFilesMatchIndex`, `ReferencesResolve`: what the index lists is in its file, and a
  remembered turn that names an artifact instead of its payload names the one with
  that payload, long after and also when storing failed in between: ids are counted
  from the index, and one may be used again.
* `TypeOK` contains the limits of turns, artifacts and actions.

Every property has a mutant in the modules (marked `Mutant:`, or standing before the
operator it changes), a small change of an operator, under which its run fails.

### Findings

* `loop_pause`. Each delivery resets the partner's short-message count
  (`src/memory-broker-store.ts:315`), so two agents that answer each other with
  short texts are never paused, although `README.md:17` says the broker watches
  "so two agents do not keep auto-replying forever".
* `wait_answer`. The 'close' listener (`src/http-server.ts:523`) clears whatever
  entry has the lookup id. While a timed-out request awaits `clearWaiterOwner` a newer
  one can register; when the older response ends, the newer entry and its timer
  are gone and its client waits for nothing, with a message queued or not.
  `CONTRIBUTING.md:21` says suspended requests are woken.
* `redis_codes`. `joinSession()` reads the code (`src/redis-broker-store.ts:165`) and deletes
  it three commands later (`:177`). Two joiners that both read it in between are both
  admitted and told that they joined; the later write of the room wins.
  `README.md:190` calls the codes single-use.
* `redis_idle`. The room's key is given its lifetime by `setRoom()` only
  (`src/redis-broker-store.ts:584`). Sending and touching renew the keys of the two tokens,
  not the room's: a session that is in use loses its room one lifetime after the
  join. `README.md:252` calls the setting an idle lifetime of paired sessions.
* `supervisor_opening`. A host with a task that waits for its joiner returns from
  `getInitialHostEvent()` with the first `TIMEOUT_ROOM_ALIVE`
  (`src/supervisor.ts:1586`), which the wait script prints after 15 seconds without a
  message. The loop script that runs from then on keeps join notices to itself, so
  the task is never sent and both sides wait. `tests/supervisor.test.ts:774` says the
  supervisor "waits for a host partner join notification before sending the opening
  goal".

## Proofs

All are for any sets and any bounds. Assumed of the broker: `None` is neither a name
nor a record, the threshold is above zero, and the sets of deadlines, texts and
headless settings are what their names say. Assumed of the supervisor: the limits are
positive, the sets of launches, messages and actions are of their kinds, a launch
names finitely many commands, `None` is none of their values, and `Fold` and `Size`
are functions on commands. Each safety property that a passing run checks, and each
action property, is stated by a theorem; the exceptions are at the end.

### Memory store

`BrokerRecordsProofs` has what both stores compute: the records of a pairing and of a
closing, the slots of a room, and that a discard (`Without`) returns messages that were
there, in their order.

`BrokerStoreProofs`. `RoomTokenAgreement` is not inductive alone: a join pairs a fresh token,
and that its slot was free follows from `CodeGuardsFreeSlot`, which in turn needs
that the creator's record is where the room says, and that names not generated
yet have no record. So

    IInv == TablesOK /\ RoomTokenAgreement /\ CodeGuardsFreeSlot /\ NotYetGenerated

is proved preserved, one lemma per action (`Invariance`). A first group of
lemmas shows that under it cleanup removes no participant and no room (`Settled`); the
actions are then argued over the cleaned tables. Results: `TablesTyped`,
`TokensAndRoomsAgree`, `CodesWorkOnce`.

`BrokerNoticeProofs` adds

    NInv == InboxesOK /\ NothingForUnused /\ NoticesCounted /\ EndTogether

`NoticesCounted`: a token for which a close notice waits, in the inbox or in hand,
has a positive count, and one without room has none. `EndTogether`: in a room that
two entered either both are there and neither is being closed, or everyone
there is. The second is one half of `LoneParticipantIsNotified` (`LoneIsCounted`): a token
can only go once its count is down, and by then its partner's is up. Without
`NoticesCounted` a requeued notice could finalize a token not being closed.
Results: `StoreTyped`, and the action property `SessionsEndKnowingly`, from the same
invariant.

`BrokerMessageProofs` adds

    MInv == TextsMeet /\ PausesAgree /\ NoticesBounded
    WInv == NoticesWaiting

* `TextsMeet` strengthens `TextsStayInTheRoom` in two ways. It covers the message in hand,
  which may be put back. And it asks for one room that fits whichever of the two
  records is left, because the record of one may go and a name is never given again:
  both must have been generated when the text was sent.
* `PausesAgree` adds to `PauseIsCurrent` that the room's code is gone. A newcomer is not
  standing by, so a pause that could be read while somebody may still join would
  become untrue by the joining; two are in the room when a pause is queued, and the
  second redeemed the code.
* `NoticesBounded` is the count of fresh notices as a number of positions
  (`Count`), for which a section proves what appending, taking the head, putting
  back and discarding do to it.
* `NoticesWaiting` is the converse and the other half of `LoneParticipantIsNotified`: unless one
  expired, the inbox has as many fresh notices as are counted. So a count that is
  positive, which is what `LoneIsCounted` gives, means that there is one to read. A step
  that raises the count appends as many notices, no discard takes one, and what is
  taken out is counted off.

The operations that queue something (send, join, leave, close) are argued from a
description of what they do to one inbox; those that leave the messages alone
follow from one lemma. Results: `TextsKeepToTheirRoom`, `PausesAreCurrent`,
`QueuedNoticesCounted`, `NobodyWaitsInSilence`, and the action property `ActiveTextsAreKept`: a send may cancel a
pause and standby texts, a close may add notices, and in each the number of
active texts does not fall.

### Delivery

    DInv == TypeOK /\ Wired /\ Unanswered /\ Connected /\ Handed /\ Apart

`Apart` states that inbox, hands, unfinished replies and what was received have no
message in common and that none holds one twice; `OnePlace` follows. It is kept because
a full hand belongs to a step that will give it away (`Handed`), because a response that
gets a message had none (`Unanswered`), and because the listener of an unfinished
response puts back just the reply of that response (`Connected`). `Unanswered` in turn
needs `Wired`: an entry of the registry, a running timer and an instance
are one thing. What the registry may lose (the finding `wait_answer`) is
a request's entry, which `Wired` allows, since the timer goes with it.

`NoLostWakeup` is preserved given `DInv`: a sender queues and starts a wake-up at
each instance in one step, and a request that becomes listening looks once
more itself. A consumer that finds the inbox empty leaves it so, and one that takes
a message finds the listening request or puts it back, which makes the message
`unannounced`. The expiry of a room only adds to the messages that are.

Results: `DeliveryTyped`, `MessagesHaveOnePlace`, `WakeupsAreNotLost`; the action properties
`AnswersAreFinal` and `MessagesLeaveByResponses`; and `DeliveryIsMailbox`, the refinement. For the
last, each action is shown to be a send (the sent messages join those kept), a
receipt or a loss of one message (its only place is emptied), or a stutter (it
moves from place to place). The mapping is `kept <- Kept`, the messages that are somewhere.

### Redis store

`RInv` is about commands as well as keys: a call in progress holds values read long
ago, and what it will write must fit the keys of that later moment.
So `CallsSound` says of each command still to be issued that it is of its kind and
claims only what stays true: that a token was admitted to a room (`members`), which is
never taken back, and never that a record still is what was read. A write of a
stale record then keeps `RecordsApart` (records and rooms name only who was admitted) and
`MessagesApart` (what is in an inbox or in hand was said in a room of both). Each answer of
a read is shown to lead to sound commands, and each command to keep the
keys; `Unopened` makes a new room's name fresh. Results: `RedisTyped`, `SessionsNeverMix`.

`CodesGuard`, on top of it, follows each room through three phases: it is being
opened, and the one call that opens it is the only one that may write its code; it is open, and
nobody but the creator is in it; or it is closed, and no command that
writes its code is left anywhere. The order of `joinSession()` (delete the code, then
pair, then write the room) makes the step from the second to the third happen before
anyone is let in, also if two redeem at once. Result: `CodesAdmitOneGuest`, for any number
of callers and calls, where the run has two that overlap once.

### Policy and supervisor

`PolicyProofs`. Granting changes no command that a request is taken to name
(`CommandOfGranted`) and adds nothing to what it lacks (`CandidatesOfGranted`). Hence
`ApprovalMeetsRequest` (nothing more is asked for after an approval), `ApprovalDecides`
(the request is then allowed, unless it wants some command run without naming
which) and `GrantsOnlyWiden` (what was allowed stays allowed, and exactly what was
forbidden is forbidden). `AskedAreGrants` needs the longest of the commands that a
text mentions to exist (`LongestIsOne`), which is why a launch's are assumed finite.

`SupervisorProofs`. The invariant is `Shapes` (the records have their fields) and the parts
that one property each needs: `Answered` says in which states nothing can be owed; `Granted`
that what was approved is in the policy, and what is asked for is not; `Carried` that
what was ever approved for a host or a joiner is in the policy file, and that the
policy of the one that runs is the file's; `Chosen` that a listener's settings are its
launch's and an action under way is within them; `Staying` that a running session has
not left; `Filed` that the index is a sequence within the ids, without which
the next id could not be shown to be free. These are preserved given `Shapes` alone.
`SupervisorTyped` adds `SessionKinds`, `WorkKinds` and `Remembered`: a policy is there while a
session runs, a message is there while one is in work, and the actions done are
below the limit while the loop goes on, so that the one more that `ResultAdded`
counts is within it. An id is remembered once because remembering removes it first
(`RemovedFacts`). `Remembered` also says that the remembered ids and the references of the
turns lead into the index to the payloads they stand for; that holds of a reference
when it is made (`Selected`), and then for good, since during a session the index only grows
(`RecordsLast`). With `Filed` it gives `ReferencesLead`. `RunnerIsAllowed` needs no invariant: only a judged message, or a
judged and approved one, leads to the runner.

### Only model-checked

* `WokenByMessages` and `WaitEnds`: liveness under fairness is out of the prover's reach.
* `ImplementsMemoryStore`: the refinement maps a whole call of the Redis store to one step
  of the memory store, and its histories are recovered from the call.
  A proof has to describe every prefix of every operation; see the plan.
* `GuestsArePaired` and `TokenGoesKnowingly`, for which `RInv` says too little about what the
  commands left of a join or a close have to do with each other.
* The five violations, which are facts about instances.

Out of the prover's reach in general: `ENABLED`, induction over data, and what rests on
`RECURSIVE` operators. Two definitions are worded for it: `Without` selects by an index
set, and `Remember` uses `RemoveFirst`, where the code filters.

## Not modelled

* Rate limiting: one counter for each key, independent of everything else; next in the plan.
* Client scripts: the passive waiter, the pending and in-flight files and the retry of a
  send; next in the plan. `Supervisor` takes from the loop script what it reports.
* The status commands of the supervisor (`src/supervisor.ts:2173-2321`), which read and
  reconcile a session's file from another process.
* Header parsing, status codes, the admin routes; bootstrap, configuration, logging,
  identifiers, the supervisor's screen and command line: no state of their own.
* `runtime/*.js`: the compiler's output of the sources that are modelled.

## Plan

Done: (1) `BrokerStore` with its proofs; (2) `Delivery` and `Mailbox`; (3) `RedisStore`, its
refinement and its races; (4) `Policy` and `Supervisor` with their proofs.

5. Theorems, done but for three: `ImplementsMemoryStore` of `RedisSerial`, which needs an
   invariant that relates the commands left of the one call in progress to the state at
   its beginning (`RedisProofs` has the types and what each answer leads to); and
   `GuestsArePaired` and `TokenGoesKnowingly`.
6. `WaitLoop`: the client scripts' passive waiter, pending and in-flight files,
   and the send retry, over `Delivery`'s promise.
7. The status commands beside `Supervisor`: two processes and one file.
8. `RateLimit`: fixed windows, and the crash between INCR and PEXPIRE.
