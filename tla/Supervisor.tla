----------------------------- MODULE Supervisor -----------------------------
(***************************************************************************)
(* The local supervisor (src/supervisor.ts): the sessions one workspace    *)
(* launches, one after the other.  A session connects, waits for what the  *)
(* partner sends, lets the policy judge it, has the runner answer it and   *)
(* sends the answer.  A step runs from one await to the next.              *)
(***************************************************************************)
EXTENDS Policy, SequencesExt

CONSTANTS
    Launches,            \* bound: the options sessions are launched with
    Messages,            \* bound: the messages the partner may send
    ActionRequests,      \* bound: what an unattended runner may ask for
    ArtifactBody,        \* the fingerprints of artifact-like payloads
    CodeBody,            \* those of them whose kind is "code"
    MaxActions,          \* MAX_SUPERVISOR_ACTION_ITERATIONS
    MaxRecentTurns,      \* MAX_RECENT_CONTEXT_TURNS
    MaxPromptArtifacts,  \* MAX_PROMPT_ARTIFACTS
    MaxSessions,         \* bound: the sessions of a behaviour
    MaxMessages          \* bound: the messages of a session

\* How a session ends.
Ending == {"closed", "parked", "alert", "error", "interrupted", "killed"}

\* asks: somebody can be asked (an approvalProvider or a terminal).
\* attaches: a listenerCode is given; choices: the A2A_ALLOW_* settings.
Launch ==
    {l \in [mode : {"host", "join", "listen"}, headless : BOOLEAN,
            goal : BOOLEAN, attaches : BOOLEAN, asks : BOOLEAN,
            choices : [edits : BOOLEAN, tests : BOOLEAN, web : BOOLEAN,
                       trigger : BOOLEAN, commands : SUBSET Command]] :
        l.mode = "host" => l.attaches \/ l.goal}

IncomingMessage ==
    [signal : {"OVER", "STANDBY", None}, request : Request,
     artifact : ArtifactBody \cup {None}]

\* path: where the worst of the paths it names leads; None: it names none.
ActionRequest ==
    [action : {"list_files", "read_file", "apply_patch", "run_command", "malformed"},
     path : {"inside", "missing", "control", "sensitive", "outside", None},
     command : Command \cup {None}]

ASSUME SupervisorAssumption ==
    /\ {MaxActions, MaxRecentTurns, MaxPromptArtifacts} \subseteq Nat \ {0}
    /\ {MaxSessions, MaxMessages} \subseteq Nat
    /\ Launches \subseteq Launch
    /\ \A l \in Launches : IsFiniteSet(l.choices.commands)
    /\ Messages \subseteq IncomingMessage
    /\ ActionRequests \subseteq ActionRequest
    /\ CodeBody \subseteq ArtifactBody
    /\ None \notin ArtifactBody \cup Ending \cup Nat

VARIABLES
    pc,         \* what the supervisor awaits; "off": no supervisor runs
    session,    \* how many sessions have been launched
    launch,     \* the options of the latest
    policy,     \* its policy
    policyFile, \* .a2a-session-policy.json
    artifact,   \* .a2a-<mode>-session.json: its status and pid
    partner,    \* the partner: "absent", "joining" (its notice is queued), "present"
    surface,    \* A2A_SURFACE_JOIN_NOTICE of the loop script that runs
    message,    \* the message in work, and the grants asked for it
    outbound,   \* what is being sent: "refusal", "reply" or "nothing"
    iteration,  \* the actions done for the message in work
    recentTurns, storedArtifacts,  \* the session's memory of the conversation
    index,      \* artifacts-index.json: the fingerprint under each id
    files,      \* the fingerprint of what each artifact file holds
    history     \* what the properties look back at

control == <<pc, surface, message, outbound, iteration>>
memory == <<recentTurns, storedArtifacts, index, files>>
policies == <<policy, policyFile>>
vars == <<control, memory, policies, session, launch, artifact, partner, history>>

Away == [status |-> None, pid |-> None]
NoMessage == [text |-> None, asked |-> {}]
NoText == "nothing"
Ids == 1..MaxMessages

\* heard: messages received; owed: one that expects an answer has none;
\* approved: the grants given; carried: those given under the policy that the
\* file holds, in earlier sessions too; opened: the opening was delivered;
\* left: the leave script ran; ended: how the latest session ended.
Fresh == [heard |-> 0, owed |-> FALSE, approved |-> {}, carried |-> {},
          opened |-> FALSE, left |-> FALSE, ended |-> None]

Init ==
    /\ pc = "off" /\ session = 0 /\ launch = None
    /\ policy = None /\ policyFile = None
    /\ artifact = Away /\ partner = "absent" /\ surface = FALSE
    /\ message = NoMessage /\ outbound = NoText /\ iteration = 0
    /\ recentTurns = <<>> /\ storedArtifacts = <<>>
    /\ index = <<>> /\ files = [i \in Ids |-> None]
    /\ history = Fresh

Unattended == launch.mode = "listen" /\ launch.headless

Latest(s, n) == SubSeq(s, 1 + (IF Len(s) > n THEN Len(s) - n ELSE 0), Len(s))

----------------------------------------------------------------------------
(* How a session goes on or ends *)

WriteStatus(status) == artifact' = [artifact EXCEPT !.status = status]

\* runLoopScript.
Wait(asked) ==
    /\ pc' = "looping" /\ surface' = asked
    /\ message' = NoMessage /\ outbound' = NoText /\ iteration' = 0

Stop(how, leaves) ==
    /\ pc' = "off" /\ surface' = FALSE
    /\ message' = NoMessage /\ outbound' = NoText /\ iteration' = 0
    /\ history' = [history EXCEPT !.ended = how, !.left = leaves]

\* The 'finally' block: the session leaves the room only when it was closed.
Closes == Stop("closed", TRUE) /\ WriteStatus("closed")

\* connectSession, runLoopScript, runRunner or runSendScript throws.
Fails ==
    /\ pc \in {"connecting", "joining", "opening", "looping", "running", "sending"}
    /\ Stop("error", FALSE) /\ WriteStatus("error")
    /\ UNCHANGED <<memory, policies, session, launch, partner>>

\* installSignalCleanup.  SIGHUP is ignored by an unattended listener.
Interrupted ==
    /\ pc # "off"
    /\ Stop("interrupted", launch.mode = "listen") /\ WriteStatus("interrupted")
    /\ UNCHANGED <<memory, policies, session, launch, partner>>

\* The process is killed: nothing of the above happens.
Killed ==
    /\ pc # "off"
    /\ Stop("killed", FALSE)
    /\ UNCHANGED <<memory, policies, session, launch, partner, artifact>>

----------------------------------------------------------------------------
(* Launching and connecting *)

ReusableByAll(l) == policyFile # None /\ ~policyFile.expired

Reusable(l) == l.mode # "listen" /\ policyFile # None /\ ~policyFile.expired

LoadOrCreatePolicy(l) ==
    IF Reusable(l) THEN policyFile ELSE CreatePolicy(l.choices)

\* Mutant: an approval is not written down.
WrittenAtLaunch(mode) ==
    policyFile' = IF mode = "listen" \/ pc # "off" THEN policyFile ELSE policy'

\* Listeners have a policy file of their own, which none reads.
WritePolicyFile(mode) == policyFile' = IF mode = "listen" THEN policyFile ELSE policy'

\* History: the grants given so far stay with the file, unless it is replaced.
Anew(l) ==
    [Fresh EXCEPT !.carried = IF l.mode = "listen" \/ (policyFile # None /\ ~policyFile.expired)
                              THEN history.carried ELSE {}]

\* What starting a session does before it connects; createSessionState takes
\* a new directory.
Begin(l) ==
    /\ pc = "off" /\ session < MaxSessions
    /\ session' = session + 1 /\ launch' = l
    /\ policy' = LoadOrCreatePolicy(l) /\ WritePolicyFile(l.mode)
    /\ recentTurns' = <<>> /\ storedArtifacts' = <<>>
    /\ index' = <<>> /\ files' = [i \in Ids |-> None]
    /\ partner' = "absent"

RunSupervisor(l) ==
    /\ Begin(l)
    /\ pc' = "connecting"
    /\ artifact' = [status |-> "starting", pid |-> session']
    /\ history' = Anew(l)
    /\ UNCHANGED <<surface, message, outbound, iteration>>

\* A host that attached without a task returns control to the human.
Parked ==
    /\ Stop("parked", FALSE)
    /\ artifact' = [status |-> "connected", pid |-> None]

BootstrapHostAttachSession(l) ==
    /\ l.mode = "host" /\ l.attaches
    /\ Begin(l)
    /\ pc' = "off" /\ history' = [Anew(l) EXCEPT !.ended = "parked"]
    /\ artifact' = [status |-> "connected", pid |-> None]
    /\ UNCHANGED <<surface, message, outbound, iteration>>

Connected(status) ==
    /\ pc = "connecting"
    /\ launch.mode = "listen" => status = "waiting"
    /\ partner' = IF status = "ready" THEN "present" ELSE "absent"
    /\ \/ /\ launch.mode = "host" /\ ~launch.goal
          /\ Parked
       \/ /\ launch.mode = "host" /\ launch.goal
          /\ pc' = IF status = "ready" THEN "opening" ELSE "joining"
          /\ UNCHANGED <<surface, message, outbound, iteration, history>>
          /\ WriteStatus(IF status = "ready" THEN "connected" ELSE "waiting_for_host")
       \/ /\ launch.mode # "host"
          /\ Wait(status = "waiting")
          /\ WriteStatus(CASE status = "ready" -> "connected"
                           [] launch.mode = "join" -> "waiting_for_host_message"
                           [] OTHER -> "waiting_for_host")
          /\ UNCHANGED history
    /\ UNCHANGED <<memory, policies, session, launch>>

\* getInitialHostEvent: the notice it waits for came.
HostSeesJoin ==
    /\ pc = "joining" /\ partner = "joining"
    /\ partner' = "present" /\ pc' = "opening"
    /\ UNCHANGED <<surface, message, outbound, iteration, memory, policies,
                   session, launch, artifact, history>>

OpeningSent ==
    /\ pc = "opening"
    /\ Wait(FALSE)
    /\ history' = [history EXCEPT !.opened = TRUE]
    /\ UNCHANGED <<memory, policies, session, launch, artifact, partner>>

PartnerJoins ==
    /\ pc \notin {"off", "connecting"} /\ partner = "absent"
    /\ partner' = "joining"
    /\ UNCHANGED <<control, memory, policies, session, launch, artifact, history>>

----------------------------------------------------------------------------
(* What the loop script reports *)

\* The first report of the wait script ends the wait for a joiner as well.
Reported == pc \in {"looping", "joining"}

RoomAlive ==
    /\ Reported
    /\ Wait(FALSE) /\ WriteStatus("connected")
    /\ UNCHANGED <<memory, policies, session, launch, partner, history>>

RoomClosed ==
    /\ Reported
    /\ Closes
    /\ UNCHANGED <<memory, policies, session, launch, partner>>

PingFailed ==
    /\ pc = "looping"
    /\ pc' = "retrying" /\ WriteStatus("retrying")
    /\ UNCHANGED <<surface, message, outbound, iteration, memory, policies,
                   session, launch, partner, history>>

Retry ==
    /\ pc = "retrying"
    /\ Wait(FALSE)
    /\ UNCHANGED <<memory, policies, session, launch, artifact, partner, history>>

\* The loop script keeps a join notice to itself unless it is to surface it.
JoinNotice ==
    /\ pc = "looping" /\ partner = "joining"
    /\ partner' = "present"
    /\ IF surface THEN Wait(FALSE) /\ WriteStatus("connected")
                  ELSE UNCHANGED <<control, artifact>>
    /\ UNCHANGED <<memory, policies, session, launch, history>>

\* Any other notice: a drain's.
OtherNotice ==
    /\ Reported
    /\ Wait(FALSE)
    /\ UNCHANGED <<memory, policies, session, launch, artifact, partner, history>>

Paused ==
    /\ pc = "looping" /\ partner = "present"
    /\ Wait(FALSE) /\ WriteStatus("paused")
    /\ UNCHANGED <<memory, policies, session, launch, partner, history>>

AlertedLeaves ==
    /\ pc = "looping" /\ partner = "present"
    /\ Stop("alert", TRUE) /\ WriteStatus("paused")
    /\ UNCHANGED <<memory, policies, session, launch, partner>>

Alerted ==
    /\ pc = "looping" /\ partner = "present"
    /\ Stop("alert", FALSE) /\ WriteStatus("paused")
    /\ UNCHANGED <<memory, policies, session, launch, partner>>

----------------------------------------------------------------------------
(* The memory of the conversation *)

IdByMemory(stored, known) == Len(stored) + 1
NextId(stored, known) == Len(known) + 1

\* storeInboundArtifact: writing the file, then the index, may fail between.
Store(body, id) ==
    IF body \in ToSet(index)
    THEN id = SelectInSeq(index, LAMBDA b : b = body) /\ UNCHANGED <<index, files>>
    ELSE LET next == NextId(storedArtifacts, index)
         IN \/ id = next /\ index' = Append(index, body)
               /\ files' = [files EXCEPT ![next] = body]
            \/ id = None /\ UNCHANGED index
               /\ files' \in {files, [files EXCEPT ![next] = body]}

\* rememberStoredArtifact.  An id is there at most once, so that removing the
\* first is what the code's filter does.
Remember(id) ==
    storedArtifacts' =
        IF id = None THEN storedArtifacts
        ELSE Latest(Append(RemoveFirst(storedArtifacts, id), id), MaxPromptArtifacts)

KeepArtifact(m, id) ==
    IF m.artifact = None
    THEN id = None /\ UNCHANGED <<index, files, storedArtifacts>>
    ELSE Store(m.artifact, id) /\ Remember(id)

\* A turn is the partner's or the supervisor's own; ref: the id of the stored
\* artifact that stands for its body.
Turn(own, body) == [own |-> own, body |-> body, ref |-> None]

\* sanitizeRecentTurn.  A turn that is a reference already stays one.
Sanitized(turn, known) ==
    IF turn.ref = None /\ turn.body \in ToSet(known)
    THEN [turn EXCEPT !.ref = SelectInSeq(known, LAMBDA b : b = turn.body)]
    ELSE turn

UnlimitedTurns(turns, turn, known) == Append(turns, Sanitized(turn, known))

\* rememberRecentTurn.
Turns(turns, turn, known) ==
    Latest(Append(turns, Sanitized(turn, known)), MaxRecentTurns)

\* readRecentConversationTurns, before any turn is remembered: all that can be
\* in the transcript besides the message in work is the opening.
TranscriptTurns == IF history.opened THEN <<Turn(TRUE, None)>> ELSE <<>>

\* getRecentTurnsForPrompt.
PromptTurns ==
    IF recentTurns # <<>>
    THEN [i \in DOMAIN recentTurns |-> Sanitized(recentTurns[i], index)]
    ELSE TranscriptTurns

----------------------------------------------------------------------------
(* Judging a message *)

Plain == [forbidden |-> FALSE, broker |-> FALSE, edit |-> FALSE, test |-> FALSE,
          read |-> FALSE, web |-> FALSE, shell |-> FALSE, negated |-> FALSE,
          quoted |-> None, mentions |-> {}]

\* summarizeArtifactMessageForPolicy: "review", and the payload's kind, are
\* all that the patterns recognise.
Judged(m) ==
    IF m.artifact = None THEN m.request
    ELSE [Plain EXCEPT !.read = m.artifact \in CodeBody]

Sends(what, turns, known) ==
    /\ pc' = "sending" /\ outbound' = what
    /\ recentTurns' = Turns(turns, Turn(FALSE, message'.text.artifact), known)

RefusesSilently(m) == pc' = "looping" /\ UNCHANGED <<outbound, recentTurns>>

Refuses(m) == Sends("refusal", recentTurns, index')

Runs == pc' = "running" /\ UNCHANGED <<outbound, recentTurns>>

\* What the decision on the message leads to.
Decided(decision, m) == IF decision = "allow" THEN Runs ELSE Refuses(m)

Hears(m) ==
    /\ pc = "looping" /\ partner = "present" /\ history.heard < MaxMessages
    /\ \E id \in Ids \cup {None} : KeepArtifact(m, id)
    /\ IF m.signal = "STANDBY"
       THEN /\ Wait(FALSE)
            /\ recentTurns' = Turns(recentTurns, Turn(FALSE, m.artifact), index')
            /\ history' = [history EXCEPT !.heard = @ + 1]
       ELSE LET asked == Asked(policy, Judged(m))
            IN /\ message' = [text |-> m, asked |-> asked]
               /\ history' = [history EXCEPT !.heard = @ + 1, !.owed = TRUE]
               /\ iteration' = 0 /\ UNCHANGED surface
               /\ IF asked # {} /\ launch.asks
                  THEN pc' = "asking" /\ UNCHANGED <<outbound, recentTurns>>
                  ELSE Decided(Decision(policy, Judged(m)), m)
    /\ UNCHANGED <<policies, session, launch, artifact, partner>>

\* After an approval the message is judged again.
TakenAsAllowed(m) == "allow"
Again(m) == Decision(policy', Judged(m))

\* promptForSessionGrant is answered.
Approved ==
    /\ pc = "asking"
    /\ policy' = GrantSessionAccess(policy, message.asked)
    /\ WritePolicyFile(launch.mode)
    /\ history' = [history EXCEPT
          !.approved = @ \cup message.asked,
          !.carried = IF launch.mode = "listen" THEN @ ELSE @ \cup message.asked]
    /\ UNCHANGED <<message, surface, iteration, index, files, storedArtifacts>>
    /\ Decided(Again(message.text), message.text)
    /\ UNCHANGED <<session, launch, artifact, partner>>

Denied ==
    /\ pc = "asking"
    /\ UNCHANGED <<message, surface, iteration, index, files, storedArtifacts>>
    /\ Refuses(message.text)
    /\ UNCHANGED <<policies, session, launch, artifact, partner, history>>

----------------------------------------------------------------------------
(* The runner *)

Replies ==
    /\ pc = "running"
    /\ UNCHANGED <<message, surface, iteration, index, files, storedArtifacts>>
    /\ Sends("reply", recentTurns, index)
    /\ UNCHANGED <<policies, session, launch, artifact, partner, history>>

\* resolveWorkspaceActionPath.
PathAllowed(r) ==
    /\ r.path \notin {"outside", "sensitive"}
    /\ r.action = "apply_patch" => r.path \notin {"control", None}

\* executeSupervisorAction and the actions it calls.
ActionAllowed(r) ==
    /\ r.action # "malformed"
    /\ ~policy.expired
    /\ CASE r.action \in {"list_files", "read_file"} -> PathAllowed(r)
         [] r.action = "apply_patch" -> policy.allowRepoEdits /\ PathAllowed(r)
         [] r.action = "run_command" ->
              policy.allowTestsBuilds /\ r.command \in policy.allowedCommands
         [] OTHER -> FALSE

\* One more result: the runner is asked again, up to a limit.
ResultAdded ==
    /\ iteration' = iteration + 1
    /\ IF iteration' < MaxActions
       THEN pc' = "running" /\ UNCHANGED <<outbound, recentTurns>>
       ELSE Sends("reply", recentTurns, index)

Requests(r) ==
    /\ pc = "running" /\ Unattended
    /\ UNCHANGED <<message, surface, index, files, storedArtifacts>>
    /\ \/ /\ ~ActionAllowed(r)
          /\ UNCHANGED iteration
          /\ Sends("reply", recentTurns, index)
       \/ /\ ActionAllowed(r) /\ r.action \in {"list_files", "read_file"}
          /\ ResultAdded
       \/ /\ ActionAllowed(r) /\ r.action \notin {"list_files", "read_file"}
          /\ pc' = r.action
          /\ UNCHANGED <<iteration, outbound, recentTurns>>
    /\ UNCHANGED <<policies, session, launch, artifact, partner, history>>

\* git apply or the command ended, well or not.
ActionEnds ==
    /\ pc \in {"apply_patch", "run_command"}
    /\ UNCHANGED <<message, surface, index, files, storedArtifacts>>
    /\ ResultAdded
    /\ UNCHANGED <<policies, session, launch, artifact, partner, history>>

Sent ==
    /\ pc = "sending"
    /\ Wait(FALSE)
    /\ recentTurns' = Turns(recentTurns, Turn(TRUE, None), index)
    /\ IF outbound = "reply" THEN WriteStatus("connected") ELSE UNCHANGED artifact
    /\ history' = [history EXCEPT !.owed = FALSE]
    /\ UNCHANGED <<index, files, storedArtifacts, policies, session, launch, partner>>

----------------------------------------------------------------------------
(* Time, and the specification *)

PolicyExpires ==
    /\ pc # "off" /\ ~policy.expired
    /\ policy' = [policy EXCEPT !.expired = TRUE]
    /\ WritePolicyFile(launch.mode)
    /\ UNCHANGED <<control, memory, session, launch, artifact, partner, history>>

FileExpires ==
    /\ policyFile # None /\ (pc = "off" \/ launch.mode = "listen")
    /\ ~policyFile.expired
    /\ policyFile' = [policyFile EXCEPT !.expired = TRUE]
    /\ UNCHANGED <<control, memory, policy, session, launch, artifact, partner, history>>

Starting == \E l \in Launches : RunSupervisor(l) \/ BootstrapHostAttachSession(l)

Connecting ==
    \/ \E status \in {"ready", "waiting"} : Connected(status)
    \/ HostSeesJoin \/ OpeningSent \/ PartnerJoins

Reporting ==
    \/ RoomAlive \/ RoomClosed \/ PingFailed \/ Retry
    \/ JoinNotice \/ OtherNotice \/ Paused \/ Alerted

Judging == (\E m \in Messages : Hears(m)) \/ Approved \/ Denied

Answering ==
    \/ Replies
    \/ \E r \in ActionRequests : Requests(r)
    \/ ActionEnds \/ Sent

Stopping == Fails \/ Interrupted \/ Killed

Passing == PolicyExpires \/ FileExpires

Next ==
    \/ Starting \/ Connecting \/ Reporting \/ Judging
    \/ Answering \/ Stopping \/ Passing

Spec == Init /\ [][Next]_vars

----------------------------------------------------------------------------
(* Properties *)

Statuses ==
    {"starting", "waiting_for_host", "waiting_for_host_message", "connected",
     "retrying", "paused", "closed", "error", "interrupted"}

\* The types, and the bounds of what is remembered: neither the prompt nor
\* the action loop grows with the conversation (supervisor.ts:1697, :1448,
\* :1456).
TypeOK ==
    /\ pc \in {"off", "connecting", "joining", "opening", "looping", "retrying",
               "asking", "running", "apply_patch", "run_command", "sending"}
    /\ session \in 0..MaxSessions
    /\ launch \in Launches \cup {None}
    /\ {policy, policyFile} \subseteq SessionPolicy \cup {None}
    /\ artifact \in [status : Statuses \cup {None}, pid : 1..MaxSessions \cup {None}]
    /\ partner \in {"absent", "joining", "present"} /\ surface \in BOOLEAN
    /\ message.text \in Messages \cup {None} /\ message.asked \subseteq GrantKey
    /\ outbound \in {"nothing", "refusal", "reply"}
    /\ iteration \in 0..MaxActions
    /\ Len(PromptTurns) <= MaxRecentTurns
    /\ storedArtifacts \in BoundedSeq(Ids, MaxPromptArtifacts)
    /\ IsInjective(storedArtifacts)
    /\ index \in BoundedSeq(ArtifactBody, MaxMessages)
    /\ files \in [Ids -> ArtifactBody \cup {None}]

\* The runner is started only for a message that the policy, as it is at
\* that moment, allows: approving the grants a message lacks is no answer to
\* what else forbids it, and an approval that comes after the policy expired
\* comes too late (supervisor.ts:869-884).
StartsAllowed ==
    pc # "running" /\ pc' = "running" /\ ~(pc \in {"apply_patch", "run_command"})
        => Decision(policy', Judged(message'.text)) = "allow"
RunsOnlyAllowed == [][StartsAllowed]_vars

\* The supervisor waits for the next message only when the last one that
\* expects an answer got one: a refusal, a reply, a denied action and the
\* end of the action loop are all sent (supervisor.ts:884-958, 1712-1731).
EveryMessageIsAnswered ==
    pc \in {"looping", "retrying"} \/ history.ended \in {"closed", "alert", "parked"}
        => ~history.owed

\* Nobody is asked twice in a session to approve the same thing: what was
\* approved stays approved while other things are (policy.ts:315-333).
AskedOnce == pc = "asking" => message.asked \cap history.approved = {}

\* What was approved for a host or a joiner is not asked for again in a later
\* session of either that starts while the policy lasts, however the earlier
\* one ended and whatever a listener did in between (supervisor.ts:874,
\* 2118-2136).
ApprovalsCarryOver ==
    pc = "asking" /\ launch.mode # "listen" => message.asked \cap history.carried = {}

\* What a listener was launched with decides to the end whether it edits the
\* repository or runs tests, whatever was approved since and whatever policy
\* file is there (supervisor.ts:1881, 1910, 2118).
StartupChoicesRule ==
    launch # None /\ launch.mode = "listen" =>
        /\ pc = "apply_patch" => launch.choices.edits
        /\ pc = "run_command" => launch.choices.tests

\* The session's file says "closed" exactly when the session was over and
\* the leave script ran; a paused, parked or failed session keeps its place
\* in the room (supervisor.ts:721-729, 788-824, 971-976).
ClosedMeansLeft ==
    pc = "off" /\ history.ended # "interrupted"
        => (artifact.status = "closed" <=> history.left)

\* Every artifact the index lists is the one in its file, also after storing
\* one failed between the file and the index (supervisor.ts:1301-1327).
StoredFilesMatchIndex == \A i \in DOMAIN index : files[i] = index[i]

\* A reference outlives the message it was made for: the turns remembered
\* still lead to the file with the payload they stand for, and what the
\* session remembers to be stored is, whatever was stored or failed to be
\* stored since (supervisor.ts:1307-1311, 1411-1419, 1456).
ReferencesResolve ==
    /\ \A i \in DOMAIN recentTurns :
          recentTurns[i].ref # None => files[recentTurns[i].ref] = recentTurns[i].body
    /\ \A i \in DOMAIN storedArtifacts : storedArtifacts[i] \in DOMAIN index

\* A host with a task sends it once its partner is there: when it waits for
\* the partner's answer, the opening was delivered (supervisor.ts:1571-1592).
OpeningIsSent ==
    pc = "looping" /\ launch.mode = "host" /\ partner = "present" => history.opened
=============================================================================
