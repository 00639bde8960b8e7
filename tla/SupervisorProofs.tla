-------------------------- MODULE SupervisorProofs --------------------------
(***************************************************************************)
(* Supervisor's safety for all launches, messages, action requests and     *)
(* bounds.  The invariant is the conjunction of the parts below; each is   *)
(* kept by every step on its own, given the shapes of the records.  The    *)
(* types, which come last, need one another.                               *)
(***************************************************************************)
EXTENDS Supervisor, PolicyProofs

\* The records have their fields.
PolicyShape(p) ==
    p = [allowRepoEdits |-> p.allowRepoEdits,
         allowTestsBuilds |-> p.allowTestsBuilds,
         allowWebAccess |-> p.allowWebAccess,
         allowRemoteTriggerWithinScope |-> p.allowRemoteTriggerWithinScope,
         allowedCommands |-> p.allowedCommands,
         sessionGrants |-> p.sessionGrants, expired |-> p.expired]

HistoryShape ==
    history = [heard |-> history.heard, owed |-> history.owed,
               approved |-> history.approved, carried |-> history.carried,
               opened |-> history.opened, left |-> history.left,
               ended |-> history.ended]

ArtifactShape == artifact = [status |-> artifact.status, pid |-> artifact.pid]

Shapes ==
    /\ pc # "off" => PolicyShape(policy)
    /\ policyFile # None => PolicyShape(policyFile)
    /\ HistoryShape
    /\ ArtifactShape

\* A message is owed an answer only while it is in work.
Answered ==
    /\ pc \in {"connecting", "joining", "opening", "looping", "retrying"} => ~history.owed
    /\ pc # "off" => history.ended = None
    /\ history.ended \in {"closed", "alert", "parked"} => ~history.owed

\* What was approved is granted, and what is asked for is not.
Granted ==
    /\ pc # "off" => history.approved \subseteq policy.sessionGrants
    /\ pc = "asking" => message.asked \cap policy.sessionGrants = {}

\* What was approved for hosts and joiners is in their policy file, which is
\* the policy of the one that runs.
Carried ==
    /\ history.carried = {} \/ history.carried \subseteq policyFile.sessionGrants
    /\ pc # "off" /\ launch.mode # "listen" => policyFile = policy

\* A listener's policy is as launched, and actions run under it.
Chosen ==
    /\ pc # "off" /\ launch.mode = "listen" =>
        /\ policy.allowRepoEdits = launch.choices.edits
        /\ policy.allowTestsBuilds = launch.choices.tests
    /\ pc = "apply_patch" => policy.allowRepoEdits
    /\ pc = "run_command" => policy.allowTestsBuilds

\* A running session has neither left nor is marked closed.
Staying ==
    /\ pc # "off" => ~history.left /\ artifact.status # "closed"
    /\ ClosedMeansLeft

\* The artifacts of the index are in their files.
Filed ==
    /\ index \in Seq(ArtifactBody)
    /\ files \in [Ids -> ArtifactBody \cup {None}]
    /\ \A i \in 1..Len(index) : i \in Ids /\ files[i] = index[i]

----------------------------------------------------------------------------
(* The initial state *)

LEMMA PartsInitially ==
    ASSUME Init
    PROVE  Shapes /\ Answered /\ Granted /\ Carried /\ Chosen /\ Staying /\ Filed
  <1>1. Shapes
    BY DEF Init, Shapes, HistoryShape, ArtifactShape, Fresh, Away
  <1>2. Answered
    BY SupervisorAssumption DEF Init, Answered, Fresh, Ending
  <1>3. Carried
    BY DEF Init, Carried, Fresh
  <1>4. Granted /\ Chosen
    BY DEF Init, Granted, Chosen
  <1>5. Staying
    BY SupervisorAssumption DEF Init, Staying, ClosedMeansLeft, Fresh, Away, Ending
  <1>6. Filed
    BY DEF Init, Filed
  <1> QED
    BY <1>1, <1>2, <1>3, <1>4, <1>5, <1>6

----------------------------------------------------------------------------
(* Shapes *)

LEMMA CreatedShape ==
    ASSUME NEW choices PROVE PolicyShape(CreatePolicy(choices))
  BY DEF CreatePolicy, PolicyShape

LEMMA GrantedShape ==
    ASSUME NEW p, NEW grants, PolicyShape(p)
    PROVE  PolicyShape(GrantSessionAccess(p, grants))
  BY DEF GrantSessionAccess, PolicyShape

LEMMA ShapesKept ==
    ASSUME Shapes, [Next]_vars
    PROVE  Shapes'
  <1> USE DEF Shapes, HistoryShape, ArtifactShape
  <1>1. CASE Starting
    <2>1. PICK l \in Launches : RunSupervisor(l) \/ BootstrapHostAttachSession(l)
      BY <1>1 DEF Starting
    <2>2. PolicyShape(policy') /\ (policyFile' # None => PolicyShape(policyFile'))
      BY <2>1, CreatedShape DEF RunSupervisor, BootstrapHostAttachSession, Begin,
           LoadOrCreatePolicy, Reusable, WritePolicyFile
    <2>3. HistoryShape' /\ ArtifactShape'
      BY <2>1 DEF RunSupervisor, BootstrapHostAttachSession, Fresh, Anew
    <2> QED
      BY <2>2, <2>3
  <1>2. CASE Connecting
    BY <1>2 DEF Connecting, Connected, HostSeesJoin, OpeningSent, PartnerJoins,
         Parked, Wait, Stop, WriteStatus, policies
  <1>3. CASE Reporting
    BY <1>3 DEF Reporting, RoomAlive, RoomClosed, PingFailed, Retry, JoinNotice,
         OtherNotice, Paused, Alerted, Reported, Closes, Wait, Stop, WriteStatus, policies, control
  <1>4. CASE Judging
    <2>1. CASE \E m \in Messages : Hears(m)
      BY <2>1 DEF Hears, Wait, policies
    <2>2. CASE Approved
      BY <2>2, GrantedShape DEF Approved, WritePolicyFile
    <2>3. CASE Denied
      BY <2>3 DEF Denied, policies
    <2> QED
      BY <1>4, <2>1, <2>2, <2>3 DEF Judging
  <1>5. CASE Answering
    BY <1>5 DEF Answering, Replies, Requests, ActionEnds, Sent, WriteStatus, policies
  <1>6. CASE Stopping
    BY <1>6 DEF Stopping, Fails, Interrupted, Killed, Stop, WriteStatus, policies
  <1>7. CASE Passing
    BY <1>7 DEF Passing, PolicyExpires, FileExpires, WritePolicyFile, PolicyShape, control
  <1>8. CASE UNCHANGED vars
    BY <1>8 DEF vars, policies, control
  <1> QED
    BY <1>1, <1>2, <1>3, <1>4, <1>5, <1>6, <1>7, <1>8 DEF Next

----------------------------------------------------------------------------
(* Steps *)

\* What hearing a message leads to.
LEMMA HeardOrAsked ==
    ASSUME NEW m \in Messages, Hears(m), HistoryShape
    PROVE  /\ pc = "looping" /\ UNCHANGED <<policies, session, launch, artifact>>
           /\ \/ pc' = "looping" /\ history'.owed = history.owed
              \/ pc' \in {"asking", "running", "sending"}
           /\ history'.ended = history.ended /\ history'.left = history.left
           /\ history'.approved = history.approved
           /\ history'.carried = history.carried
           /\ pc' # "looping" => message' = [text |-> m, asked |-> Asked(policy, Judged(m))]
  <1>1. CASE m.signal = "STANDBY"
    BY <1>1 DEF Hears, Wait, HistoryShape, policies
  <1>2. CASE m.signal # "STANDBY"
    <2>1. history' = [history EXCEPT !.heard = @ + 1, !.owed = TRUE]
      BY <1>2 DEF Hears
    <2>2. /\ message' = [text |-> m, asked |-> Asked(policy, Judged(m))]
          /\ UNCHANGED <<policies, session, launch, artifact>> /\ pc = "looping"
      BY <1>2 DEF Hears
    <2>3. pc' = "asking" \/ Decided(Decision(policy, Judged(m)), m)
      BY <1>2 DEF Hears
    <2>4. pc' \in {"asking", "running", "sending"}
      BY <2>3 DEF Decided, Runs, Refuses, Sends
    <2> QED
      BY <2>1, <2>2, <2>4 DEF HistoryShape
  <1> QED
    BY <1>1, <1>2

\* What sending, judging and one more result lead to.
LEMMA SendsLeads ==
    ASSUME NEW what \in {"refusal", "reply"}, NEW turns, NEW known,
           Sends(what, turns, known)
    PROVE  pc' = "sending" /\ outbound' \in {"nothing", "refusal", "reply"}
  BY DEF Sends

LEMMA DecidedLeads ==
    ASSUME NEW decision, NEW m, Decided(decision, m)
    PROVE  \/ decision = "allow" /\ pc' = "running" /\ outbound' = outbound
           \/ pc' = "sending" /\ outbound' \in {"nothing", "refusal", "reply"}
  BY DEF Decided, Runs, Refuses, Sends

LEMMA AddedLeads ==
    ASSUME ResultAdded
    PROVE  \/ pc' = "running" /\ outbound' = outbound
           \/ pc' = "sending" /\ outbound' \in {"nothing", "refusal", "reply"}
  BY SendsLeads DEF ResultAdded

\* An action is started only if the policy allows it.
LEMMA RequestLeads ==
    ASSUME NEW r \in ActionRequests, Requests(r)
    PROVE  /\ pc = "running" /\ UNCHANGED <<policies, session, launch, artifact, history>>
           /\ \/ pc' \in {"running", "sending"}
              \/ pc' = "apply_patch" /\ policy.allowRepoEdits
              \/ pc' = "run_command" /\ policy.allowTestsBuilds
           /\ UNCHANGED <<index, files>>
  <1>1. /\ pc = "running" /\ UNCHANGED <<policies, session, launch, artifact, history>>
        /\ UNCHANGED <<index, files>>
    BY DEF Requests
  <1>2. \/ Sends("reply", recentTurns, index)
        \/ ResultAdded
        \/ /\ ActionAllowed(r) /\ r.action \notin {"list_files", "read_file"}
           /\ pc' = r.action /\ outbound' = outbound
    BY DEF Requests
  <1>3. CASE Sends("reply", recentTurns, index) \/ ResultAdded
    BY <1>1, <1>3, SendsLeads, AddedLeads
  <1>4. CASE /\ ActionAllowed(r) /\ r.action \notin {"list_files", "read_file"}
             /\ pc' = r.action /\ outbound' = outbound
    <2>1. r.action \in {"apply_patch", "run_command"}
      BY <1>4, SupervisorAssumption DEF ActionAllowed, ActionRequest
    <2>2. CASE r.action = "apply_patch"
      BY <1>1, <1>4, <2>2 DEF ActionAllowed
    <2>3. CASE r.action = "run_command"
      BY <1>1, <1>4, <2>3 DEF ActionAllowed
    <2> QED
      BY <2>1, <2>2, <2>3
  <1> QED
    BY <1>2, <1>3, <1>4

----------------------------------------------------------------------------
(* Answers *)

LEMMA AnsweredKept ==
    ASSUME Shapes, Answered, [Next]_vars
    PROVE  Answered'
  <1> USE SupervisorAssumption DEF Shapes, HistoryShape, Answered
  <1>1. CASE Starting
    BY <1>1 DEF Starting, RunSupervisor, BootstrapHostAttachSession, Begin, Fresh, Anew, Ending
  <1>2. CASE Connecting
    BY <1>2 DEF Connecting, Connected, HostSeesJoin, OpeningSent, PartnerJoins,
         Parked, Wait, Stop, control
  <1>3. CASE Reporting
    BY <1>3 DEF Reporting, RoomAlive, RoomClosed, PingFailed, Retry, JoinNotice,
         OtherNotice, Paused, Alerted, Reported, Closes, Wait, Stop, control
  <1>4. CASE Judging
    <2>1. CASE \E m \in Messages : Hears(m)
      BY <2>1, HeardOrAsked DEF Ending
    <2>2. CASE Approved \/ Denied
      BY <2>2 DEF Approved, Denied, Decided, Refuses, Sends, Runs
    <2> QED
      BY <1>4, <2>1, <2>2 DEF Judging
  <1>5. CASE Answering
    <2>1. CASE \/ Replies
               \/ \E r \in ActionRequests : Requests(r)
               \/ ActionEnds
      <3>1. /\ pc' \in {"running", "apply_patch", "run_command", "sending"}
            /\ pc # "off" /\ history' = history
        BY <2>1, SendsLeads, AddedLeads, RequestLeads DEF Replies, ActionEnds
      <3> QED
        BY <3>1 DEF Ending
    <2>2. CASE Sent
      BY <2>2 DEF Sent, Wait
    <2> QED
      BY <1>5, <2>1, <2>2 DEF Answering
  <1>6. CASE Stopping
    BY <1>6 DEF Stopping, Fails, Interrupted, Killed, Stop
  <1>7. CASE Passing
    BY <1>7 DEF Passing, PolicyExpires, FileExpires, control
  <1>8. CASE UNCHANGED vars
    BY <1>8 DEF vars, control
  <1> QED
    BY <1>1, <1>2, <1>3, <1>4, <1>5, <1>6, <1>7, <1>8 DEF Next

----------------------------------------------------------------------------
(* Grants *)

LEMMA GrantsKept ==
    ASSUME NEW p, NEW grants, PolicyShape(p)
    PROVE  /\ GrantSessionAccess(p, grants).sessionGrants = p.sessionGrants \cup grants
           /\ GrantSessionAccess(p, grants).allowRepoEdits = p.allowRepoEdits
           /\ GrantSessionAccess(p, grants).allowTestsBuilds = p.allowTestsBuilds
  BY DEF GrantSessionAccess, PolicyShape

LEMMA ExpiryKept ==
    ASSUME NEW p, PolicyShape(p)
    PROVE  LET q == [p EXCEPT !.expired = TRUE]
           IN /\ q.sessionGrants = p.sessionGrants
              /\ q.allowRepoEdits = p.allowRepoEdits
              /\ q.allowTestsBuilds = p.allowTestsBuilds
  BY DEF PolicyShape

LEMMA AskedIsMissing ==
    ASSUME NEW p, NEW r PROVE Asked(p, r) \cap p.sessionGrants = {}
  BY DEF Asked, Unmet

LEMMA GrantedKept ==
    ASSUME Shapes, Granted, [Next]_vars
    PROVE  Granted'
  <1> USE DEF Shapes, HistoryShape, Granted
  <1>1. CASE Starting
    BY <1>1 DEF Starting, RunSupervisor, BootstrapHostAttachSession, Begin, Fresh, Anew
  <1>2. CASE Connecting
    BY <1>2 DEF Connecting, Connected, HostSeesJoin, OpeningSent, PartnerJoins,
         Parked, Wait, Stop, control, policies
  <1>3. CASE Reporting
    BY <1>3 DEF Reporting, RoomAlive, RoomClosed, PingFailed, Retry, JoinNotice,
         OtherNotice, Paused, Alerted, Reported, Closes, Wait, Stop, control, policies
  <1>4. CASE Judging
    <2>1. CASE \E m \in Messages : Hears(m)
      <3>1. PICK m \in Messages : Hears(m)
        BY <2>1
      <3>2. /\ pc = "looping" /\ policy' = policy
            /\ history'.approved = history.approved
            /\ pc' # "looping" => message' = [text |-> m, asked |-> Asked(policy, Judged(m))]
        BY <3>1, HeardOrAsked DEF policies
      <3> QED
        BY <3>2, AskedIsMissing
    <2>2. CASE Approved
      <3>1. pc = "asking" /\ pc' \in {"running", "sending"}
        BY <2>2, DecidedLeads DEF Approved
      <3>2. policy'.sessionGrants = policy.sessionGrants \cup message.asked
        BY <2>2, <3>1, GrantsKept DEF Approved
      <3>3. history'.approved = history.approved \cup message.asked
        BY <2>2 DEF Approved
      <3> QED
        BY <3>1, <3>2, <3>3
    <2>3. CASE Denied
      BY <2>3 DEF Denied, Refuses, Sends, policies
    <2> QED
      BY <1>4, <2>1, <2>2, <2>3 DEF Judging
  <1>5. CASE Answering
    <2>1. /\ pc # "off" /\ policy' = policy /\ history'.approved = history.approved
          /\ pc' # "asking"
      <3>1. CASE Sent
        BY <3>1 DEF Sent, Wait, policies
      <3>2. CASE \/ Replies
                 \/ ActionEnds
        BY <3>2, SendsLeads, AddedLeads DEF Replies, ActionEnds, policies
      <3>3. CASE \E r \in ActionRequests : Requests(r)
        BY <3>3, RequestLeads DEF policies
      <3> QED
        BY <1>5, <3>1, <3>2, <3>3 DEF Answering
    <2> QED
      BY <2>1
  <1>6. CASE Stopping
    BY <1>6 DEF Stopping, Fails, Interrupted, Killed, Stop, policies
  <1>7. CASE Passing
    <2>1. CASE PolicyExpires
      <3>1. /\ pc # "off" /\ policy' = [policy EXCEPT !.expired = TRUE]
            /\ pc' = pc /\ message' = message /\ history' = history
        BY <2>1 DEF PolicyExpires, control
      <3>2. policy'.sessionGrants = policy.sessionGrants
        BY <3>1, ExpiryKept
      <3> QED
        BY <3>1, <3>2
    <2>2. CASE FileExpires
      BY <2>2 DEF FileExpires, control
    <2> QED
      BY <1>7, <2>1, <2>2 DEF Passing
  <1>8. CASE UNCHANGED vars
    BY <1>8 DEF vars, control, policies
  <1> QED
    BY <1>1, <1>2, <1>3, <1>4, <1>5, <1>6, <1>7, <1>8 DEF Next

LEMMA CarriedKept ==
    ASSUME Shapes, Carried, [Next]_vars
    PROVE  Carried'
  <1> USE DEF Shapes, HistoryShape, Carried
  <1>i. ASSUME UNCHANGED policies, history'.carried = history.carried,
               launch' = launch, pc # "off" \/ pc' = "off"
        PROVE  Carried'
    BY <1>i DEF policies
  <1>1. CASE Starting
    <2>1. PICK l \in Launches : RunSupervisor(l) \/ BootstrapHostAttachSession(l)
      BY <1>1 DEF Starting
    <2>2. /\ launch' = l /\ policy' = LoadOrCreatePolicy(l)
          /\ policyFile' = IF l.mode = "listen" THEN policyFile ELSE policy'
      BY <2>1 DEF RunSupervisor, BootstrapHostAttachSession, Begin, WritePolicyFile
    <2>3. history'.carried = IF l.mode = "listen" \/ (policyFile # None /\ ~policyFile.expired)
                             THEN history.carried ELSE {}
      BY <2>1 DEF RunSupervisor, BootstrapHostAttachSession, Fresh, Anew
    <2>4. CASE l.mode = "listen"
      BY <2>2, <2>3, <2>4
    <2>5. CASE l.mode # "listen"
      BY <2>2, <2>3, <2>5 DEF LoadOrCreatePolicy, Reusable
    <2> QED
      BY <2>4, <2>5
  <1>2. CASE Connecting
    <2>1. /\ UNCHANGED policies /\ launch' = launch /\ pc # "off"
          /\ history'.carried = history.carried
      BY <1>2 DEF Connecting, Connected, HostSeesJoin, OpeningSent, PartnerJoins,
           Parked, Stop
    <2> QED
      BY <1>i, <2>1
  <1>3. CASE Reporting
    <2>1. /\ UNCHANGED policies /\ launch' = launch /\ pc # "off"
          /\ history'.carried = history.carried
      BY <1>3 DEF Reporting, RoomAlive, RoomClosed, PingFailed, Retry, JoinNotice,
           OtherNotice, Paused, Alerted, Reported, Closes, Stop
    <2> QED
      BY <1>i, <2>1
  <1>4. CASE Judging
    <2>1. CASE \E m \in Messages : Hears(m)
      BY <1>i, <2>1, HeardOrAsked
    <2>2. CASE Approved
      <3>1. /\ pc = "asking" /\ launch' = launch
            /\ policy' = GrantSessionAccess(policy, message.asked)
            /\ policyFile' = IF launch.mode = "listen" THEN policyFile ELSE policy'
        BY <2>2 DEF Approved, WritePolicyFile
      <3>2. policy'.sessionGrants = policy.sessionGrants \cup message.asked
        BY <3>1, GrantsKept
      <3>3. history'.carried = IF launch.mode = "listen" THEN history.carried
                               ELSE history.carried \cup message.asked
        BY <2>2 DEF Approved
      <3>4. CASE launch.mode = "listen"
        BY <3>1, <3>3, <3>4
      <3>5. CASE launch.mode # "listen"
        BY <3>1, <3>2, <3>3, <3>5
      <3> QED
        BY <3>4, <3>5
    <2>3. CASE Denied
      BY <1>i, <2>3 DEF Denied
    <2> QED
      BY <1>4, <2>1, <2>2, <2>3 DEF Judging
  <1>5. CASE Answering
    <2>1. /\ UNCHANGED policies /\ launch' = launch /\ pc # "off"
          /\ history'.carried = history.carried
      BY <1>5 DEF Answering, Replies, Requests, ActionEnds, Sent
    <2> QED
      BY <1>i, <2>1
  <1>6. CASE Stopping
    <2>1. /\ UNCHANGED policies /\ launch' = launch /\ pc # "off"
          /\ history'.carried = history.carried
      BY <1>6 DEF Stopping, Fails, Interrupted, Killed, Stop
    <2> QED
      BY <1>i, <2>1
  <1>7. CASE Passing
    <2>1. CASE PolicyExpires
      <3>1. /\ pc # "off" /\ pc' = pc /\ launch' = launch /\ history' = history
            /\ policy' = [policy EXCEPT !.expired = TRUE]
            /\ policyFile' = IF launch.mode = "listen" THEN policyFile ELSE policy'
        BY <2>1 DEF PolicyExpires, WritePolicyFile, control
      <3>2. policy'.sessionGrants = policy.sessionGrants
        BY <3>1, ExpiryKept
      <3> QED
        BY <3>1, <3>2
    <2>2. CASE FileExpires
      <3>1. /\ policyFile # None /\ (pc = "off" \/ launch.mode = "listen")
            /\ policyFile' = [policyFile EXCEPT !.expired = TRUE]
            /\ UNCHANGED <<pc, launch, history>>
        BY <2>2 DEF FileExpires, control
      <3>2. policyFile'.sessionGrants = policyFile.sessionGrants
        BY <3>1, ExpiryKept
      <3> QED
        BY <3>1, <3>2
    <2> QED
      BY <1>7, <2>1, <2>2 DEF Passing
  <1>8. CASE UNCHANGED vars
    BY <1>8 DEF vars, policies, control
  <1> QED
    BY <1>1, <1>2, <1>3, <1>4, <1>5, <1>6, <1>7, <1>8 DEF Next

----------------------------------------------------------------------------
(* Startup choices *)

LEMMA ChosenKept ==
    ASSUME Shapes, Chosen, [Next]_vars
    PROVE  Chosen'
  <1> USE DEF Shapes, Chosen
  <1>1. CASE Starting
    <2>1. PICK l \in Launches : RunSupervisor(l) \/ BootstrapHostAttachSession(l)
      BY <1>1 DEF Starting
    <2>2. /\ l.mode = "listen" => policy' = CreatePolicy(l.choices)
          /\ launch' = l /\ pc' \in {"off", "connecting"}
      BY <2>1 DEF RunSupervisor, BootstrapHostAttachSession, Begin,
           LoadOrCreatePolicy, Reusable
    <2> QED
      BY <2>2 DEF CreatePolicy
  <1>2. CASE Connecting
    BY <1>2 DEF Connecting, Connected, HostSeesJoin, OpeningSent, PartnerJoins,
         Parked, Wait, Stop, control, policies
  <1>3. CASE Reporting
    BY <1>3 DEF Reporting, RoomAlive, RoomClosed, PingFailed, Retry, JoinNotice,
         OtherNotice, Paused, Alerted, Reported, Closes, Wait, Stop, control, policies
  <1>4. CASE Judging
    <2>1. CASE \E m \in Messages : Hears(m)
      BY <2>1, HeardOrAsked DEF policies
    <2>2. CASE Approved
      <3>1. /\ pc = "asking" /\ pc' \in {"running", "sending"} /\ launch' = launch
            /\ policy' = GrantSessionAccess(policy, message.asked)
        BY <2>2, DecidedLeads DEF Approved
      <3>2. /\ policy'.allowRepoEdits = policy.allowRepoEdits
            /\ policy'.allowTestsBuilds = policy.allowTestsBuilds
        BY <3>1, GrantsKept
      <3> QED
        BY <3>1, <3>2
    <2>3. CASE Denied
      BY <2>3 DEF Denied, Refuses, Sends, policies
    <2> QED
      BY <1>4, <2>1, <2>2, <2>3 DEF Judging
  <1>5. CASE Answering
    <2>1. CASE Sent
      BY <2>1 DEF Sent, Wait, policies
    <2>2. CASE \/ Replies
               \/ ActionEnds
      BY <2>2, SendsLeads, AddedLeads DEF Replies, ActionEnds, policies
    <2>3. CASE \E r \in ActionRequests : Requests(r)
      BY <2>3, RequestLeads DEF policies
    <2> QED
      BY <1>5, <2>1, <2>2, <2>3 DEF Answering
  <1>6. CASE Stopping
    BY <1>6 DEF Stopping, Fails, Interrupted, Killed, Stop, policies
  <1>7. CASE Passing
    BY <1>7, ExpiryKept DEF Passing, PolicyExpires, FileExpires, control
  <1>8. CASE UNCHANGED vars
    BY <1>8 DEF vars, control, policies
  <1> QED
    BY <1>1, <1>2, <1>3, <1>4, <1>5, <1>6, <1>7, <1>8 DEF Next

----------------------------------------------------------------------------
(* Leaving and the status *)

LEMMA StayingKept ==
    ASSUME Shapes, Staying, [Next]_vars
    PROVE  Staying'
  <1> USE DEF Shapes, HistoryShape, ArtifactShape, Staying, ClosedMeansLeft
  <1>1. CASE Starting
    <2>1. PICK l \in Launches : RunSupervisor(l) \/ BootstrapHostAttachSession(l)
      BY <1>1 DEF Starting
    <2>2. /\ artifact'.status \in {"starting", "connected"}
          /\ \/ history' = Anew(l)
             \/ history' = [Anew(l) EXCEPT !.ended = "parked"]
      BY <2>1 DEF RunSupervisor, BootstrapHostAttachSession
    <2>3. ~history'.left
      BY <2>2 DEF Anew, Fresh
    <2> QED
      BY <2>2, <2>3
  <1>2. CASE Connecting
    <2>1. CASE \E status \in {"ready", "waiting"} : Connected(status)
      <3>1. CASE Parked
        BY <3>1 DEF Parked, Stop
      <3>2. CASE ~Parked
        <4>1. /\ pc = "connecting" /\ pc' # "off" /\ history' = history
              /\ \E status \in Statuses \ {"closed"} : WriteStatus(status)
          BY <2>1, <3>2 DEF Connected, Wait, Statuses
        <4> QED
          BY <4>1 DEF WriteStatus
      <3> QED
        BY <3>1, <3>2
    <2>2. CASE HostSeesJoin \/ OpeningSent \/ PartnerJoins
      BY <2>2 DEF HostSeesJoin, OpeningSent, PartnerJoins, Wait, control
    <2> QED
      BY <1>2, <2>1, <2>2 DEF Connecting
  <1>3. CASE Reporting
    BY <1>3 DEF Reporting, RoomAlive, RoomClosed, PingFailed, Retry, JoinNotice,
         OtherNotice, Paused, Alerted, Reported, Closes, Wait, Stop, WriteStatus, control
  <1>4. CASE Judging
    <2>1. CASE \E m \in Messages : Hears(m)
      BY <2>1, HeardOrAsked
    <2>2. CASE Approved
      BY <2>2, DecidedLeads DEF Approved
    <2>3. CASE Denied
      BY <2>3 DEF Denied, Refuses, Sends
    <2> QED
      BY <1>4, <2>1, <2>2, <2>3 DEF Judging
  <1>5. CASE Answering
    <2>1. CASE Sent
      BY <2>1 DEF Sent, Wait, WriteStatus
    <2>2. CASE \/ Replies
               \/ ActionEnds
      BY <2>2, SendsLeads, AddedLeads DEF Replies, ActionEnds
    <2>3. CASE \E r \in ActionRequests : Requests(r)
      BY <2>3, RequestLeads
    <2> QED
      BY <1>5, <2>1, <2>2, <2>3 DEF Answering
  <1>6. CASE Stopping
    BY <1>6 DEF Stopping, Fails, Interrupted, Killed, Stop, WriteStatus
  <1>7. CASE Passing
    BY <1>7 DEF Passing, PolicyExpires, FileExpires, control
  <1>8. CASE UNCHANGED vars
    BY <1>8 DEF vars, control
  <1> QED
    BY <1>1, <1>2, <1>3, <1>4, <1>5, <1>6, <1>7, <1>8 DEF Next

----------------------------------------------------------------------------
(* Artifacts *)

\* The least number of a set is in it.
LEMMA LeastNumber ==
    ASSUME NEW S \in SUBSET Nat, S # {}
    PROVE  Min(S) \in S
  <1>1. PICK i \in S : \A j \in S : ~(<<j, i>> \in OpToRel(<, Nat))
    BY WFMin, NatLessThanWellFounded
  <1>2. \A j \in S : ~(j < i)
    BY <1>1 DEF OpToRel
  <1>3. \A j \in S : i <= j
    BY <1>2
  <1> QED
    BY <1>3 DEF Min

\* The first place of an element in a sequence that has it.
LEMMA Selected ==
    ASSUME NEW S, NEW s \in Seq(S), NEW e \in ToSet(s)
    PROVE  /\ SelectInSeq(s, LAMBDA v : v = e) \in 1..Len(s)
           /\ s[SelectInSeq(s, LAMBDA v : v = e)] = e
  <1> DEFINE at == {i \in 1..Len(s) : s[i] = e}
  <1>1. at \in SUBSET Nat /\ at # {}
    BY DEF ToSet
  <1>2. SelectInSeq(s, LAMBDA v : v = e) = Min(at)
    BY <1>1 DEF SelectInSeq
  <1>3. Min(at) \in at
    <2> HIDE DEF at
    <2> QED
      BY <1>1, LeastNumber
  <1> QED
    BY <1>2, <1>3

\* Storing appends to the index what it wrote, or leaves the index alone and
\* writes where the index has nothing.
LEMMA StoreFiles ==
    ASSUME Filed, NEW body \in ArtifactBody, NEW id \in Ids \cup {None}, Store(body, id)
    PROVE  Filed'
  <1> USE DEF Filed
  <1>1. CASE body \in ToSet(index)
    BY <1>1 DEF Store
  <1>2. CASE body \notin ToSet(index)
    <2> DEFINE next == Len(index) + 1
    <2>1. next \in Nat /\ \A i \in 1..Len(index) : i # next
      OBVIOUS
    <2>2. CASE id = next /\ index' = Append(index, body) /\ files' = [files EXCEPT ![next] = body]
      <3>1. next \in Ids
        BY <2>1, <2>2, SupervisorAssumption
      <3>2. /\ index' \in Seq(ArtifactBody) /\ Len(index') = next
            /\ index'[next] = body /\ \A i \in 1..Len(index) : index'[i] = index[i]
        BY <2>2
      <3>3. /\ files' \in [Ids -> ArtifactBody \cup {None}]
            /\ files'[next] = body /\ \A i \in 1..Len(index) : files'[i] = files[i]
        BY <2>1, <2>2, <3>1
      <3> QED
        BY <2>1, <3>1, <3>2, <3>3
    <2>3. CASE index' = index /\ files' \in {files, [files EXCEPT ![next] = body]}
      BY <2>1, <2>3
    <2>4. \/ id = next /\ index' = Append(index, body) /\ files' = [files EXCEPT ![next] = body]
          \/ index' = index /\ files' \in {files, [files EXCEPT ![next] = body]}
      BY <1>2 DEF Store, NextId
    <2> QED
      BY <2>2, <2>3, <2>4
  <1> QED
    BY <1>1, <1>2

LEMMA FiledKept ==
    ASSUME Filed, [Next]_vars
    PROVE  Filed'
  <1>1. CASE Starting
    <2>1. index' = <<>> /\ files' = [i \in Ids |-> None]
      BY <1>1 DEF Starting, RunSupervisor, BootstrapHostAttachSession, Begin
    <2>2. <<>> \in Seq(ArtifactBody) /\ Len(<<>>) = 0
      OBVIOUS
    <2> QED
      BY <2>1, <2>2 DEF Filed
  <1>2. CASE \E m \in Messages : Hears(m)
    <2>1. PICK m \in Messages : Hears(m)
      BY <1>2
    <2>2. PICK id \in Ids \cup {None} : KeepArtifact(m, id)
      BY <2>1 DEF Hears
    <2>3. CASE m.artifact = None
      BY <2>2, <2>3 DEF KeepArtifact, Filed
    <2>4. CASE m.artifact # None
      <3>1. m.artifact \in ArtifactBody
        BY <2>4, SupervisorAssumption DEF IncomingMessage
      <3> QED
        BY <2>2, <2>4, <3>1, StoreFiles DEF KeepArtifact
    <2> QED
      BY <2>3, <2>4
  <1>3. CASE UNCHANGED <<index, files>>
    BY <1>3 DEF Filed
  <1>4. \/ Starting \/ \E m \in Messages : Hears(m)
        \/ UNCHANGED <<index, files>>
    <2>1. CASE Connecting
      BY <2>1 DEF Connecting, Connected, HostSeesJoin, OpeningSent, PartnerJoins, memory
    <2>2. CASE Reporting
      BY <2>2 DEF Reporting, RoomAlive, RoomClosed, PingFailed, Retry, JoinNotice,
           OtherNotice, Paused, Alerted, memory
    <2>3. CASE Approved \/ Denied
      BY <2>3 DEF Approved, Denied
    <2>4. CASE Answering
      BY <2>4 DEF Answering, Replies, Requests, ActionEnds, Sent
    <2>5. CASE Stopping \/ Passing
      BY <2>5 DEF Stopping, Passing, Fails, Interrupted, Killed, PolicyExpires,
           FileExpires, memory
    <2>6. CASE UNCHANGED vars
      BY <2>6 DEF vars, memory
    <2> QED
      BY <2>1, <2>2, <2>3, <2>4, <2>5, <2>6 DEF Next, Judging
  <1> QED
    BY <1>1, <1>2, <1>3, <1>4

\* Storing yields an id of the index, or none, and the index only grows.
LEMMA StoreGrows ==
    ASSUME index \in Seq(ArtifactBody), NEW body \in ArtifactBody,
           NEW id \in Ids \cup {None}, Store(body, id)
    PROVE  /\ index' \in Seq(ArtifactBody) /\ Len(index) <= Len(index')
           /\ \A i \in 1..Len(index) : index'[i] = index[i]
           /\ id \in 1..Len(index') \cup {None}
  <1>1. CASE body \in ToSet(index)
    <2>1. index' = index /\ id = SelectInSeq(index, LAMBDA b : b = body)
      BY <1>1 DEF Store
    <2>2. SelectInSeq(index, LAMBDA b : b = body) \in 1..Len(index)
      BY <1>1, Selected
    <2> QED
      BY <2>1, <2>2
  <1>2. CASE body \notin ToSet(index)
    <2>1. \/ id = Len(index) + 1 /\ index' = Append(index, body)
          \/ id = None /\ index' = index
      BY <1>2 DEF Store, NextId
    <2> QED
      BY <2>1
  <1> QED
    BY <1>1, <1>2

LEMMA HearingGrows ==
    ASSUME index \in Seq(ArtifactBody), NEW m \in Messages,
           NEW id \in Ids \cup {None}, KeepArtifact(m, id)
    PROVE  /\ index' \in Seq(ArtifactBody) /\ Len(index) <= Len(index')
           /\ \A i \in 1..Len(index) : index'[i] = index[i]
           /\ storedArtifacts' = storedArtifacts
                 \/ \E i \in 1..Len(index') \cup {None} : Remember(i)
  <1>1. CASE m.artifact = None
    BY <1>1 DEF KeepArtifact
  <1>2. CASE m.artifact # None
    <2>1. m.artifact \in ArtifactBody
      BY <1>2, SupervisorAssumption DEF IncomingMessage
    <2>2. Store(m.artifact, id) /\ Remember(id)
      BY <1>2 DEF KeepArtifact
    <2> QED
      BY <2>1, <2>2, StoreGrows
  <1> QED
    BY <1>1, <1>2

----------------------------------------------------------------------------
(* Types *)

\* A turn whose reference, if it is one, leads to the body it stands for.
TurnRecord(known) ==
    {t \in [own : BOOLEAN, body : ArtifactBody \cup {None}, ref : Nat \cup {None}] :
        t.ref # None => t.ref \in 1..Len(known) /\ known[t.ref] = t.body}

Working == pc \in {"asking", "running", "apply_patch", "run_command"}

\* A policy that is in force, or that lies in the workspace.  The code's
\* lists of commands are finite.
PolicyKind(p) == p \in SessionPolicy /\ IsFiniteSet(p.allowedCommands)

\* The session's part of TypeOK.
SessionKinds ==
    /\ pc \in {"off", "connecting", "joining", "opening", "looping", "retrying",
               "asking", "running", "apply_patch", "run_command", "sending"}
    /\ session \in 0..MaxSessions
    /\ launch \in Launches \cup {None}
    /\ pc # "off" => launch \in Launches /\ PolicyKind(policy)
    /\ policy \in SessionPolicy \cup {None}
    /\ policyFile # None => PolicyKind(policyFile)
    /\ artifact \in [status : Statuses \cup {None}, pid : 1..MaxSessions \cup {None}]
    /\ partner \in {"absent", "joining", "present"} /\ surface \in BOOLEAN

\* What is in work: the action loop is below its limit while it goes on.
WorkKinds ==
    /\ message \in [text : Messages \cup {None}, asked : SUBSET GrantKey]
    /\ Working => message.text \in Messages /\ iteration < MaxActions
    /\ outbound \in {"nothing", "refusal", "reply"}
    /\ iteration \in 0..MaxActions

\* What is remembered, within its limits, and in the index.
Remembered ==
    /\ recentTurns \in Seq(TurnRecord(index)) /\ Len(recentTurns) <= MaxRecentTurns
    /\ storedArtifacts \in Seq(1..Len(index)) /\ Len(storedArtifacts) <= MaxPromptArtifacts
    /\ IsInjective(storedArtifacts)

\* The latest of a sequence are its end, and at most n.
LEMMA LatestFacts ==
    ASSUME NEW S, NEW s \in Seq(S), NEW n \in Nat \ {0}
    PROVE  /\ Latest(s, n) \in Seq(S) /\ Len(Latest(s, n)) <= n
           /\ IsInjective(s) => IsInjective(Latest(s, n))
  <1> DEFINE skip == IF Len(s) > n THEN Len(s) - n ELSE 0
  <1>1. skip \in Nat /\ skip <= Len(s) /\ Len(s) - skip <= n
    OBVIOUS
  <1>2. Latest(s, n) = SubSeq(s, 1 + skip, Len(s))
    BY DEF Latest
  <1> HIDE DEF skip
  <1>3. /\ Latest(s, n) \in Seq(S) /\ Len(Latest(s, n)) = Len(s) - skip
        /\ \A i \in 1..(Len(s) - skip) : Latest(s, n)[i] = s[i + skip]
    BY <1>1, <1>2
  <1>4. ASSUME IsInjective(s) PROVE IsInjective(Latest(s, n))
    <2> SUFFICES ASSUME NEW i \in 1..(Len(s) - skip), NEW j \in 1..(Len(s) - skip),
                        Latest(s, n)[i] = Latest(s, n)[j]
                 PROVE  i = j
      BY <1>3 DEF IsInjective
    <2>1. i + skip \in DOMAIN s /\ j + skip \in DOMAIN s /\ s[i + skip] = s[j + skip]
      BY <1>1, <1>3
    <2> QED
      BY <1>1, <1>4, <2>1 DEF IsInjective
  <1> QED
    BY <1>1, <1>3, <1>4

\* What stands where in two sequences put together.
LEMMA JoinedFacts ==
    ASSUME NEW S, NEW s \in Seq(S), NEW u \in Seq(S)
    PROVE  /\ s \o u \in Seq(S) /\ Len(s \o u) = Len(s) + Len(u)
           /\ \A i \in 1..Len(s) : (s \o u)[i] = s[i]
           /\ \A i \in 1..Len(u) : (s \o u)[Len(s) + i] = u[i]
  OBVIOUS

\* Removing an element of a sequence without repetitions leaves one without
\* that element, and without repetitions.
LEMMA RemovedFacts ==
    ASSUME NEW S, NEW s \in Seq(S), NEW e, IsInjective(s)
    PROVE  /\ RemoveFirst(s, e) \in Seq(S) /\ IsInjective(RemoveFirst(s, e))
           /\ \A i \in 1..Len(RemoveFirst(s, e)) : RemoveFirst(s, e)[i] # e
  <1>1. CASE ~(\E i \in 1..Len(s) : s[i] = e)
    BY <1>1 DEF RemoveFirst
  <1>2. CASE \E i \in 1..Len(s) : s[i] = e
    <2> DEFINE at == {i \in 1..Len(s) : s[i] = e}
               k == Min(at)
               r == RemoveFirst(s, e)
    <2>1. k \in 1..Len(s) /\ s[k] = e
      <3>1. at \in SUBSET Nat /\ at # {}
        BY <1>2
      <3>2. Min(at) \in at
        <4> HIDE DEF at
        <4> QED
          BY <3>1, LeastNumber
      <3> QED
        BY <3>2
    <2>2. r = SubSeq(s, 1, k - 1) \o SubSeq(s, k + 1, Len(s))
      <3>1. SelectInSeq(s, LAMBDA v : v = e) = k
        BY <1>2 DEF SelectInSeq
      <3> QED
        BY <1>2, <3>1 DEF RemoveFirst, RemoveAt
    <2> HIDE DEF k, r
    <2> DEFINE front == SubSeq(s, 1, k - 1)
               back  == SubSeq(s, k + 1, Len(s))
    <2>3. /\ front \in Seq(S) /\ Len(front) = k - 1
          /\ \A i \in 1..(k - 1) : front[i] = s[i]
      BY <2>1
    <2>4. /\ back \in Seq(S) /\ Len(back) = Len(s) - k
          /\ \A i \in 1..(Len(s) - k) : back[i] = s[i + k]
      BY <2>1
    <2> HIDE DEF front, back
    <2>5. r = front \o back
      BY <2>2 DEF front, back
    <2>6. /\ r \in Seq(S) /\ Len(r) = Len(s) - 1
          /\ \A i \in 1..(Len(s) - 1) : r[i] = IF i < k THEN front[i] ELSE back[i - k + 1]
      <3>1. /\ r \in Seq(S) /\ Len(r) = (k - 1) + (Len(s) - k)
            /\ \A i \in 1..(k - 1) : r[i] = front[i]
            /\ \A i \in 1..(Len(s) - k) : r[(k - 1) + i] = back[i]
        <4>1. /\ front \o back \in Seq(S)
              /\ Len(front \o back) = Len(front) + Len(back)
              /\ \A i \in 1..Len(front) : (front \o back)[i] = front[i]
              /\ \A i \in 1..Len(back) : (front \o back)[Len(front) + i] = back[i]
          <5>1. front \in Seq(S) /\ back \in Seq(S)
            BY <2>3, <2>4
          <5> QED
            BY <5>1, JoinedFacts
        <4>2. Len(front) = k - 1 /\ Len(back) = Len(s) - k
          BY <2>3, <2>4
        <4> QED
          BY <4>1, <4>2, <2>5
      <3>2. k \in Nat /\ Len(s) \in Nat /\ 1 <= k /\ k <= Len(s)
        BY <2>1
      <3>3. ASSUME NEW i \in 1..(Len(s) - 1)
            PROVE  r[i] = IF i < k THEN front[i] ELSE back[i - k + 1]
        <4>1. CASE i < k
          <5>1. i \in 1..(k - 1)
            BY <3>2, <4>1
          <5> QED
            BY <3>1, <4>1, <5>1
        <4>2. CASE ~(i < k)
          <5>1. /\ i - k + 1 \in 1..(Len(s) - k)
                /\ (k - 1) + (i - k + 1) = i
            BY <3>2, <4>2
          <5> QED
            BY <3>1, <4>2, <5>1
        <4> QED
          BY <4>1, <4>2
      <3> QED
        BY <3>1, <3>2, <3>3
    <2> DEFINE from(i) == IF i < k THEN i ELSE i + 1
    <2>7. ASSUME NEW i \in 1..(Len(s) - 1)
          PROVE  from(i) \in 1..Len(s) /\ from(i) # k /\ r[i] = s[from(i)]
      <3>1. CASE i < k
        <4>1. i \in 1..(k - 1) /\ i \in 1..Len(s)
          BY <2>1, <3>1
        <4>2. front[i] = s[i]
          BY <2>3, <4>1
        <4> QED
          BY <2>6, <3>1, <4>1, <4>2
      <3>2. CASE ~(i < k)
        <4>1. i - k + 1 \in 1..(Len(s) - k) /\ (i - k + 1) + k = i + 1
          BY <2>1, <3>2
        <4> QED
          BY <2>1, <2>4, <2>6, <3>2, <4>1
      <3> QED
        BY <3>1, <3>2
    <2>8. ASSUME NEW i \in 1..(Len(s) - 1), NEW j \in 1..(Len(s) - 1), from(i) = from(j)
          PROVE  i = j
      BY <2>1, <2>8
    <2> HIDE DEF from
    <2>9. IsInjective(r)
      <3> SUFFICES ASSUME NEW i \in 1..(Len(s) - 1), NEW j \in 1..(Len(s) - 1), r[i] = r[j]
                   PROVE  i = j
        BY <2>6 DEF IsInjective
      <3>1. s[from(i)] = s[from(j)] /\ from(i) \in DOMAIN s /\ from(j) \in DOMAIN s
        BY <2>7
      <3>2. from(i) = from(j)
        BY <3>1 DEF IsInjective
      <3> QED
        BY <2>8, <3>2
    <2>10. \A i \in 1..Len(r) : r[i] # e
      <3> SUFFICES ASSUME NEW i \in 1..(Len(s) - 1) PROVE r[i] # e
        BY <2>6
      <3>1. from(i) \in DOMAIN s /\ k \in DOMAIN s /\ from(i) # k /\ r[i] = s[from(i)]
        BY <2>1, <2>7
      <3> QED
        BY <2>1, <3>1 DEF IsInjective
    <2> QED
      BY <2>6, <2>9, <2>10 DEF r
  <1> QED
    BY <1>1, <1>2

\* An artifact is remembered once, and only the latest are.
LEMMA RememberKept ==
    ASSUME NEW S, storedArtifacts \in Seq(S), Len(storedArtifacts) <= MaxPromptArtifacts,
           IsInjective(storedArtifacts), NEW id \in S \cup {None}, Remember(id)
    PROVE  /\ storedArtifacts' \in Seq(S) /\ Len(storedArtifacts') <= MaxPromptArtifacts
           /\ IsInjective(storedArtifacts')
  <1>1. CASE id = None
    BY <1>1 DEF Remember
  <1>2. CASE id # None
    <2> DEFINE others == RemoveFirst(storedArtifacts, id)
               all == Append(others, id)
    <2>1. /\ others \in Seq(S) /\ IsInjective(others)
          /\ \A i \in 1..Len(others) : others[i] # id
      BY RemovedFacts
    <2>2. storedArtifacts' = Latest(all, MaxPromptArtifacts)
      BY <1>2 DEF Remember
    <2> HIDE DEF others
    <2>3. /\ all \in Seq(S) /\ Len(all) = Len(others) + 1 /\ all[Len(others) + 1] = id
          /\ \A i \in 1..Len(others) : all[i] = others[i]
      BY <1>2, <2>1
    <2> HIDE DEF all
    <2>4. IsInjective(all)
      <3> SUFFICES ASSUME NEW i \in 1..(Len(others) + 1), NEW j \in 1..(Len(others) + 1),
                          all[i] = all[j]
                   PROVE  i = j
        BY <2>3 DEF IsInjective
      <3>1. CASE i \in 1..Len(others) /\ j \in 1..Len(others)
        BY <2>1, <2>3, <3>1 DEF IsInjective
      <3>2. CASE i = Len(others) + 1 \/ j = Len(others) + 1
        BY <2>1, <2>3, <3>2
      <3> QED
        BY <2>1, <3>1, <3>2
    <2> QED
      BY <2>2, <2>3, <2>4, LatestFacts, SupervisorAssumption
  <1> QED
    BY <1>1, <1>2

LEMMA KindsInitially ==
    ASSUME Init
    PROVE  SessionKinds /\ WorkKinds /\ Remembered
  <1>1. SessionKinds
    <2>1. MaxSessions \in Nat
      BY SupervisorAssumption
    <2>2. Away \in [status : Statuses \cup {None}, pid : 1..MaxSessions \cup {None}]
      BY DEF Away
    <2>3. /\ pc = "off" /\ session = 0 /\ launch = None /\ policy = None
          /\ policyFile = None /\ artifact = Away /\ partner = "absent" /\ surface = FALSE
      BY DEF Init
    <2>4. session \in 0..MaxSessions
      BY <2>1, <2>3
    <2> QED
      BY <2>2, <2>3, <2>4 DEF SessionKinds
  <1>2. WorkKinds
    BY SupervisorAssumption DEF Init, WorkKinds, Working, NoMessage, NoText
  <1>3. Remembered
    BY SupervisorAssumption DEF Init, Remembered, IsInjective
  <1> QED
    BY <1>1, <1>2, <1>3

\* What a policy is made of, and what it becomes.
LEMMA PolicyKinds ==
    /\ \A l \in Launches : PolicyKind(CreatePolicy(l.choices))
    /\ \A p : \A grants \in SUBSET GrantKey :
          PolicyKind(p) => PolicyKind(GrantSessionAccess(p, grants))
    /\ \A p : PolicyKind(p) => PolicyKind([p EXCEPT !.expired = TRUE])
  <1>1. ASSUME NEW l \in Launches PROVE PolicyKind(CreatePolicy(l.choices))
    <2>1. /\ l.choices \in [edits : BOOLEAN, tests : BOOLEAN, web : BOOLEAN,
                            trigger : BOOLEAN, commands : SUBSET Command]
          /\ IsFiniteSet(l.choices.commands)
      BY SupervisorAssumption DEF Launch
    <2>2. CreatePolicy(l.choices).allowedCommands = l.choices.commands
      BY DEF CreatePolicy
    <2>3. CreatePolicy(l.choices) \in SessionPolicy
      BY <2>1 DEF CreatePolicy, SessionPolicy
    <2> QED
      BY <2>1, <2>2, <2>3 DEF PolicyKind
  <1>2. ASSUME NEW p, NEW grants \in SUBSET GrantKey, PolicyKind(p)
        PROVE  PolicyKind(GrantSessionAccess(p, grants))
    <2>1. p \in SessionPolicy /\ IsFiniteSet(p.allowedCommands)
      BY <1>2 DEF PolicyKind
    <2>2. /\ GrantSessionAccess(p, grants) \in SessionPolicy
          /\ GrantSessionAccess(p, grants).allowedCommands = p.allowedCommands
      BY <2>1 DEF SessionPolicy, GrantSessionAccess
    <2> QED
      BY <2>1, <2>2 DEF PolicyKind
  <1>3. ASSUME NEW p, PolicyKind(p) PROVE PolicyKind([p EXCEPT !.expired = TRUE])
    <2>1. p \in SessionPolicy /\ IsFiniteSet(p.allowedCommands)
      BY <1>3 DEF PolicyKind
    <2>2. /\ [p EXCEPT !.expired = TRUE] \in SessionPolicy
          /\ [p EXCEPT !.expired = TRUE].allowedCommands = p.allowedCommands
      BY <2>1 DEF SessionPolicy
    <2> QED
      BY <2>1, <2>2 DEF PolicyKind
  <1> QED
    BY <1>1, <1>2, <1>3

\* A status is written into a file that has its fields.
LEMMA StatusKept ==
    ASSUME artifact \in [status : Statuses \cup {None}, pid : 1..MaxSessions \cup {None}],
           NEW status \in Statuses, WriteStatus(status)
    PROVE  artifact' \in [status : Statuses \cup {None}, pid : 1..MaxSessions \cup {None}]
  BY DEF WriteStatus

\* What the partner's message is judged as, and what is asked for it.
LEMMA JudgedKind ==
    ASSUME NEW m \in Messages
    PROVE  Judged(m) \in Request /\ m.artifact \in ArtifactBody \cup {None}
  <1>1. m \in IncomingMessage
    BY SupervisorAssumption
  <1>2. Plain \in Request
    BY DEF Plain, Request
  <1>3. m.request \in Request /\ m.artifact \in ArtifactBody \cup {None}
    BY <1>1 DEF IncomingMessage
  <1>4. [Plain EXCEPT !.read = m.artifact \in CodeBody] \in Request
    <2>1. (m.artifact \in CodeBody) \in BOOLEAN
      OBVIOUS
    <2>2. \A b \in BOOLEAN : [Plain EXCEPT !.read = b] \in Request
      BY <1>2 DEF Request
    <2> QED
      BY <2>1, <2>2
  <1> QED
    BY <1>3, <1>4 DEF Judged

LEMMA SessionKindsKept ==
    ASSUME Shapes, SessionKinds, WorkKinds, [Next]_vars
    PROVE  SessionKinds'
  <1> DEFINE Places == {"off", "connecting", "joining", "opening", "looping", "retrying",
                        "asking", "running", "apply_patch", "run_command", "sending"}
             Files == [status : Statuses \cup {None}, pid : 1..MaxSessions \cup {None}]
  <1>0. /\ pc \in Places /\ session \in 0..MaxSessions /\ launch \in Launches \cup {None}
        /\ pc # "off" => launch \in Launches /\ PolicyKind(policy)
        /\ policy \in SessionPolicy \cup {None}
        /\ policyFile # None => PolicyKind(policyFile)
        /\ artifact \in Files
        /\ partner \in {"absent", "joining", "present"} /\ surface \in BOOLEAN
    BY DEF SessionKinds
  <1>f. /\ \A s \in Statuses : WriteStatus(s) => artifact' \in Files
        /\ UNCHANGED artifact => artifact' \in Files
        /\ UNCHANGED policies => /\ policy' = policy
                                 /\ policyFile' # None => PolicyKind(policyFile')
    BY <1>0, StatusKept DEF policies
  <1>s. {"waiting_for_host", "waiting_for_host_message", "connected", "retrying",
         "paused", "closed", "error", "interrupted"} \subseteq Statuses
    BY DEF Statuses
  <1> HIDE DEF Files
  <1>1. CASE Starting
    <2>1. PICK l \in Launches : RunSupervisor(l) \/ BootstrapHostAttachSession(l)
      BY <1>1 DEF Starting
    <2>2. Begin(l) /\ pc' \in {"off", "connecting"} /\ surface' = surface
      BY <2>1 DEF RunSupervisor, BootstrapHostAttachSession
    <2>3. policy' = IF Reusable(l) THEN policyFile ELSE CreatePolicy(l.choices)
      BY <2>2 DEF Begin, LoadOrCreatePolicy
    <2>4. PolicyKind(policy') /\ policy' \in SessionPolicy
      BY <1>0, <2>3, PolicyKinds DEF Reusable, PolicyKind
    <2>5. policyFile' # None => PolicyKind(policyFile')
      BY <1>0, <2>2, <2>4 DEF Begin, WritePolicyFile
    <2>6. session' \in 1..MaxSessions
      BY <1>0, <2>2, SupervisorAssumption DEF Begin
    <2>7. artifact' \in Files
      BY <2>1, <2>6 DEF RunSupervisor, BootstrapHostAttachSession, Files, Statuses
    <2>8. launch' = l /\ partner' = "absent"
      BY <2>2 DEF Begin
    <2> QED
      BY <1>0, <2>2, <2>4, <2>5, <2>6, <2>7, <2>8 DEF SessionKinds, Files
  <1>2. CASE Connecting
    <2>1. /\ pc # "off" /\ UNCHANGED <<policies, launch, session>>
          /\ pc' \in Places
          /\ partner' \in {"absent", "joining", "present"} /\ surface' \in BOOLEAN
      BY <1>0, <1>2 DEF Connecting, Connected, HostSeesJoin, OpeningSent, PartnerJoins,
           Parked, Wait, Stop, control
    <2>2. artifact' \in Files
      <3>1. CASE \E status \in {"ready", "waiting"} : Connected(status)
        <4>1. Parked \/ \E s \in Statuses : WriteStatus(s)
          BY <3>1, <1>s DEF Connected
        <4>2. CASE Parked
          BY <4>2, <1>s DEF Parked, Files
        <4> QED
          BY <4>1, <4>2, <1>f
      <3>2. CASE HostSeesJoin \/ OpeningSent \/ PartnerJoins
        BY <3>2, <1>f DEF HostSeesJoin, OpeningSent, PartnerJoins
      <3> QED
        BY <1>2, <3>1, <3>2 DEF Connecting
    <2> QED
      BY <1>0, <1>f, <2>1, <2>2 DEF SessionKinds, Files
  <1>3. CASE Reporting
    <2>1. /\ pc # "off" /\ UNCHANGED <<policies, launch, session>>
          /\ pc' \in Places
          /\ partner' \in {"absent", "joining", "present"} /\ surface' \in BOOLEAN
      BY <1>0, <1>3 DEF Reporting, RoomAlive, RoomClosed, PingFailed, Retry, JoinNotice,
           OtherNotice, Paused, Alerted, Reported, Closes, Wait, Stop, control
    <2>2. UNCHANGED artifact \/ \E s \in Statuses : WriteStatus(s)
      BY <1>3, <1>s DEF Reporting, RoomAlive, RoomClosed, PingFailed, Retry, JoinNotice,
           OtherNotice, Paused, Alerted, Closes
    <2> QED
      BY <1>0, <1>f, <2>1, <2>2 DEF SessionKinds, Files
  <1>4. CASE Judging
    <2>1. CASE \E m \in Messages : Hears(m)
      <3>1. PICK m \in Messages : Hears(m)
        BY <2>1
      <3>2. /\ pc = "looping" /\ UNCHANGED <<policies, session, launch, artifact>>
            /\ pc' \in {"looping", "asking", "running", "sending"}
        BY <3>1, HeardOrAsked DEF Shapes
      <3>3. partner' = partner /\ surface' \in BOOLEAN
        BY <1>0, <3>1 DEF Hears, Wait
      <3> QED
        BY <1>0, <1>f, <3>2, <3>3 DEF SessionKinds, Files
    <2>2. CASE Approved
      <3>1. /\ pc = "asking" /\ pc' \in {"running", "sending"}
            /\ UNCHANGED <<session, launch, artifact, partner, surface>>
            /\ policy' = GrantSessionAccess(policy, message.asked)
            /\ WritePolicyFile(launch.mode)
        BY <2>2, DecidedLeads DEF Approved
      <3>2. PolicyKind(policy') /\ policy' \in SessionPolicy
        BY <1>0, <3>1, PolicyKinds DEF WorkKinds, PolicyKind
      <3>3. policyFile' # None => PolicyKind(policyFile')
        BY <1>0, <3>1, <3>2 DEF WritePolicyFile
      <3> QED
        BY <1>0, <1>f, <3>1, <3>2, <3>3 DEF SessionKinds, Files
    <2>3. CASE Denied
      <3>1. /\ pc = "asking" /\ pc' = "sending"
            /\ UNCHANGED <<policies, session, launch, artifact, partner, surface>>
        BY <2>3 DEF Denied, Refuses, Sends
      <3> QED
        BY <1>0, <1>f, <3>1 DEF SessionKinds, Files
    <2> QED
      BY <1>4, <2>1, <2>2, <2>3 DEF Judging
  <1>5. CASE Answering
    <2>1. CASE Sent
      <3>1. /\ pc = "sending" /\ pc' = "looping" /\ surface' = FALSE
            /\ UNCHANGED <<policies, session, launch, partner>>
        BY <2>1 DEF Sent, Wait
      <3>2. UNCHANGED artifact \/ \E s \in Statuses : WriteStatus(s)
        BY <2>1, <1>s DEF Sent
      <3> QED
        BY <1>0, <1>f, <3>1, <3>2 DEF SessionKinds, Files
    <2>2. CASE \/ Replies
               \/ ActionEnds \/ \E r \in ActionRequests : Requests(r)
      <3>1. /\ pc # "off" /\ pc' \in {"running", "sending", "apply_patch", "run_command"}
            /\ UNCHANGED <<policies, session, launch, artifact>>
        BY <2>2, SendsLeads, AddedLeads, RequestLeads DEF Replies, ActionEnds
      <3>2. UNCHANGED <<partner, surface>>
        BY <2>2 DEF Replies, ActionEnds, Requests
      <3> QED
        BY <1>0, <1>f, <3>1, <3>2 DEF SessionKinds, Files
    <2> QED
      BY <1>5, <2>1, <2>2 DEF Answering
  <1>6. CASE Stopping
    <2>1. /\ pc # "off" /\ pc' = "off" /\ surface' = FALSE
          /\ UNCHANGED <<policies, session, launch, partner>>
      BY <1>6 DEF Stopping, Fails, Interrupted, Killed, Stop
    <2>2. UNCHANGED artifact \/ \E s \in Statuses : WriteStatus(s)
      BY <1>6, <1>s DEF Stopping, Fails, Interrupted, Killed
    <2> QED
      BY <1>0, <1>f, <2>1, <2>2 DEF SessionKinds, Files
  <1>7. CASE Passing
    <2>1. UNCHANGED <<pc, session, launch, artifact, partner, surface>>
      BY <1>7 DEF Passing, PolicyExpires, FileExpires, control
    <2>2. CASE PolicyExpires
      <3>1. PolicyKind(policy') /\ policy' \in SessionPolicy
        BY <1>0, <2>2, PolicyKinds DEF PolicyExpires, PolicyKind
      <3>2. policyFile' # None => PolicyKind(policyFile')
        BY <1>0, <2>2, <3>1 DEF PolicyExpires, WritePolicyFile
      <3> QED
        BY <1>0, <1>f, <2>1, <3>1, <3>2 DEF SessionKinds, Files
    <2>3. CASE FileExpires
      <3>1. policy' = policy /\ (policyFile' # None => PolicyKind(policyFile'))
        BY <1>0, <2>3, PolicyKinds DEF FileExpires
      <3> QED
        BY <1>0, <1>f, <2>1, <3>1 DEF SessionKinds, Files
    <2> QED
      BY <1>7, <2>2, <2>3 DEF Passing
  <1>8. CASE UNCHANGED vars
    BY <1>0, <1>8, <1>f DEF vars, control, policies, SessionKinds, Files
  <1> QED
    BY <1>1, <1>2, <1>3, <1>4, <1>5, <1>6, <1>7, <1>8 DEF Next

\* What one more result leaves in work.
LEMMA ResultWork ==
    ASSUME ResultAdded, iteration \in 0..MaxActions, iteration < MaxActions,
           outbound \in {"nothing", "refusal", "reply"}
    PROVE  /\ iteration' \in 0..MaxActions
           /\ pc' \in {"running", "sending"} /\ (pc' = "running" => iteration' < MaxActions)
           /\ outbound' \in {"nothing", "refusal", "reply"}
  <1>1. iteration' = iteration + 1 /\ iteration' \in 0..MaxActions
    BY SupervisorAssumption DEF ResultAdded
  <1>2. CASE iteration' < MaxActions
    BY <1>1, <1>2 DEF ResultAdded
  <1>3. CASE ~(iteration' < MaxActions)
    <2>1. Sends("reply", recentTurns, index)
      BY <1>3 DEF ResultAdded
    <2> QED
      BY <1>1, <2>1, SendsLeads
  <1> QED
    BY <1>2, <1>3

LEMMA WorkKindsKept ==
    ASSUME Shapes, SessionKinds, WorkKinds, [Next]_vars
    PROVE  WorkKinds'
  <1> DEFINE Work == [text : Messages \cup {None}, asked : SUBSET GrantKey]
             Outbound == {"nothing", "refusal", "reply"}
  <1>0. /\ message \in Work /\ outbound \in Outbound /\ iteration \in 0..MaxActions
        /\ Working => message.text \in Messages /\ iteration < MaxActions
    BY DEF WorkKinds
  <1>w. NoMessage \in Work /\ NoText \in Outbound /\ 0 \in 0..MaxActions /\ 0 < MaxActions
    BY SupervisorAssumption DEF NoMessage, NoText
  <1>i. ASSUME UNCHANGED <<message, outbound, iteration>>,
               pc' = pc \/ pc' \notin {"asking", "running", "apply_patch", "run_command"}
        PROVE  WorkKinds'
    BY <1>0, <1>i DEF WorkKinds, Working
  <1>r. ASSUME message' = NoMessage, outbound' = NoText, iteration' = 0,
               pc' \notin {"asking", "running", "apply_patch", "run_command"}
        PROVE  WorkKinds'
    BY <1>w, <1>r DEF WorkKinds, Working
  <1> HIDE DEF Work, Outbound
  <1>1. CASE Starting
    <2>1. UNCHANGED <<message, outbound, iteration>> /\ pc' \in {"connecting", "off"}
      BY <1>1 DEF Starting, RunSupervisor, BootstrapHostAttachSession
    <2> QED
      BY <1>i, <2>1
  <1>2. CASE Connecting
    <2>1. \/ /\ UNCHANGED <<message, outbound, iteration>>
             /\ pc' = pc \/ pc' \in {"opening", "joining"}
          \/ /\ message' = NoMessage /\ outbound' = NoText /\ iteration' = 0
             /\ pc' \in {"off", "looping"}
      BY <1>2 DEF Connecting, Connected, HostSeesJoin, OpeningSent, PartnerJoins,
           Parked, Wait, Stop, control
    <2> QED
      BY <1>i, <1>r, <2>1
  <1>3. CASE Reporting
    <2>1. \/ /\ UNCHANGED <<message, outbound, iteration>>
             /\ pc' = pc \/ pc' = "retrying"
          \/ /\ message' = NoMessage /\ outbound' = NoText /\ iteration' = 0
             /\ pc' \in {"off", "looping"}
      BY <1>3 DEF Reporting, RoomAlive, RoomClosed, PingFailed, Retry, JoinNotice,
           OtherNotice, Paused, Alerted, Closes, Wait, Stop, control
    <2> QED
      BY <1>i, <1>r, <2>1
  <1>4. CASE Judging
    <2>1. CASE \E m \in Messages : Hears(m)
      <3>1. PICK m \in Messages : Hears(m)
        BY <2>1
      <3>2. CASE m.signal = "STANDBY"
        <4>1. Wait(FALSE)
          BY <3>1, <3>2 DEF Hears
        <4> QED
          BY <1>r, <4>1 DEF Wait
      <3>3. CASE m.signal # "STANDBY"
        <4> DEFINE asked == Asked(policy, Judged(m))
        <4>1. /\ message' = [text |-> m, asked |-> asked] /\ iteration' = 0
              /\ \/ pc' = "asking" /\ outbound' = outbound
                 \/ Decided(Decision(policy, Judged(m)), m)
          BY <3>1, <3>3 DEF Hears
        <4>2. asked \in SUBSET GrantKey
          <5>1. PolicyKind(policy)
            BY <3>1 DEF Hears, SessionKinds
          <5> QED
            BY <5>1, JudgedKind, AskedAreGrants DEF PolicyKind
        <4> HIDE DEF asked
        <4>3. message' \in Work /\ message'.text \in Messages
          BY <4>1, <4>2 DEF Work
        <4>4. outbound' \in Outbound
          BY <1>0, <4>1, DecidedLeads DEF Outbound
        <4> QED
          BY <1>w, <4>1, <4>3, <4>4 DEF WorkKinds, Work, Outbound
      <3> QED
        BY <3>2, <3>3
    <2>2. CASE Approved \/ Denied
      <3>1. /\ pc = "asking" /\ UNCHANGED <<message, iteration>>
            /\ \E decision : Decided(decision, message.text)
        <4>1. CASE Approved
          BY <4>1 DEF Approved
        <4>2. CASE Denied
          <5>1. Decided("forbid", message.text)
            BY <4>2 DEF Denied, Decided
          <5> QED
            BY <5>1, <4>2 DEF Denied
        <4> QED
          BY <2>2, <4>1, <4>2
      <3>2. pc' \in {"running", "sending"} /\ outbound' \in Outbound
        BY <1>0, <3>1, DecidedLeads DEF Outbound
      <3> QED
        BY <1>0, <3>1, <3>2 DEF WorkKinds, Working, Work, Outbound
    <2> QED
      BY <1>4, <2>1, <2>2 DEF Judging
  <1>5. CASE Answering
    <2>1. CASE Sent
      <3>1. Wait(FALSE)
        BY <2>1 DEF Sent
      <3> QED
        BY <1>r, <3>1 DEF Wait
    <2>2. CASE Replies
      <3>1. UNCHANGED <<message, iteration>> /\ Sends("reply", recentTurns, index)
        BY <2>2 DEF Replies
      <3>2. pc' = "sending" /\ outbound' \in Outbound
        BY <3>1, SendsLeads DEF Outbound
      <3> QED
        BY <1>0, <3>1, <3>2 DEF WorkKinds, Working, Work, Outbound
    <2>3. CASE ActionEnds
      <3>1. Working /\ message' = message /\ ResultAdded
        BY <2>3 DEF ActionEnds, Working
      <3>2. /\ iteration' \in 0..MaxActions /\ outbound' \in Outbound
            /\ pc' \in {"running", "sending"} /\ (pc' = "running" => iteration' < MaxActions)
        BY <1>0, <3>1, ResultWork DEF Outbound
      <3> QED
        BY <1>0, <3>1, <3>2 DEF WorkKinds, Working, Work, Outbound
    <2>4. CASE \E r \in ActionRequests : Requests(r)
      <3>1. PICK r \in ActionRequests : Requests(r)
        BY <2>4
      <3>2. Working /\ message' = message /\ pc = "running"
        BY <3>1 DEF Requests, Working
      <3>3. \/ UNCHANGED iteration /\ Sends("reply", recentTurns, index)
            \/ ResultAdded
            \/ UNCHANGED <<iteration, outbound>>
        BY <3>1 DEF Requests
      <3>4. CASE UNCHANGED iteration /\ Sends("reply", recentTurns, index)
        <4>1. pc' = "sending" /\ outbound' \in Outbound
          BY <3>4, SendsLeads DEF Outbound
        <4> QED
          BY <1>0, <3>2, <3>4, <4>1 DEF WorkKinds, Working, Work, Outbound
      <3>5. CASE ResultAdded
        <4>1. /\ iteration' \in 0..MaxActions /\ outbound' \in Outbound
              /\ pc' \in {"running", "sending"} /\ (pc' = "running" => iteration' < MaxActions)
          BY <1>0, <3>2, <3>5, ResultWork DEF Outbound
        <4> QED
          BY <1>0, <3>2, <4>1 DEF WorkKinds, Working, Work, Outbound
      <3>6. CASE UNCHANGED <<iteration, outbound>>
        BY <1>0, <3>2, <3>6 DEF WorkKinds, Work, Outbound
      <3> QED
        BY <3>3, <3>4, <3>5, <3>6
    <2> QED
      BY <1>5, <2>1, <2>2, <2>3, <2>4 DEF Answering
  <1>6. CASE Stopping
    <2>1. pc' = "off" /\ message' = NoMessage /\ outbound' = NoText /\ iteration' = 0
      BY <1>6 DEF Stopping, Fails, Interrupted, Killed, Stop
    <2> QED
      BY <1>r, <2>1
  <1>7. CASE Passing \/ UNCHANGED vars
    <2>1. UNCHANGED <<pc, message, outbound, iteration>>
      BY <1>7 DEF Passing, PolicyExpires, FileExpires, control, vars
    <2> QED
      BY <1>i, <2>1
  <1> QED
    BY <1>1, <1>2, <1>3, <1>4, <1>5, <1>6, <1>7 DEF Next

\* A turn that is remembered has its fields, and the turns stay within bounds.
LEMMA TurnsKept ==
    ASSUME NEW known \in Seq(ArtifactBody), recentTurns \in Seq(TurnRecord(known)),
           NEW own \in BOOLEAN, NEW body \in ArtifactBody \cup {None}
    PROVE  /\ Turns(recentTurns, Turn(own, body), known) \in Seq(TurnRecord(known))
           /\ Len(Turns(recentTurns, Turn(own, body), known)) <= MaxRecentTurns
  <1> DEFINE turn == Sanitized(Turn(own, body), known)
             all == Append(recentTurns, turn)
  <1>1. turn \in TurnRecord(known)
    <2> DEFINE place == SelectInSeq(known, LAMBDA b : b = body)
    <2>1. Turn(own, body) \in TurnRecord(known)
      BY DEF Turn, TurnRecord
    <2>2. CASE body \in ToSet(known)
      <3>1. place \in 1..Len(known) /\ known[place] = body
        BY <2>2, Selected
      <3>2. turn = [own |-> own, body |-> body, ref |-> place]
        BY <2>2 DEF Sanitized, Turn
      <3> HIDE DEF place
      <3>3. place \in Nat \cup {None}
        BY <3>1
      <3> QED
        BY <3>1, <3>2, <3>3 DEF TurnRecord
    <2>3. CASE body \notin ToSet(known)
      BY <2>1, <2>3 DEF Sanitized, Turn
    <2> QED
      BY <2>2, <2>3
  <1>2. Turns(recentTurns, Turn(own, body), known) = Latest(all, MaxRecentTurns)
    BY DEF Turns
  <1> HIDE DEF turn
  <1>3. all \in Seq(TurnRecord(known))
    BY <1>1
  <1> HIDE DEF all
  <1> QED
    BY <1>2, <1>3, LatestFacts, SupervisorAssumption

\* What leads somewhere in an index still does when the index has grown.
LEMMA RecordsLast ==
    ASSUME NEW old \in Seq(ArtifactBody), NEW new \in Seq(ArtifactBody), Len(old) <= Len(new),
           \A i \in 1..Len(old) : new[i] = old[i]
    PROVE  /\ \A s \in Seq(TurnRecord(old)) : s \in Seq(TurnRecord(new))
           /\ \A s \in Seq(1..Len(old)) : s \in Seq(1..Len(new))
  <1>1. TurnRecord(old) \subseteq TurnRecord(new)
    BY DEF TurnRecord
  <1>2. 1..Len(old) \subseteq 1..Len(new)
    OBVIOUS
  <1>3. \A S, T : S \subseteq T => \A s \in Seq(S) : s \in Seq(T)
    OBVIOUS
  <1> HIDE DEF TurnRecord
  <1> QED
    BY <1>1, <1>2, <1>3

\* What a step remembers of the conversation.
LEMMA MemorySteps ==
    ASSUME Shapes, SessionKinds, WorkKinds, Filed, [Next]_vars, ~Starting
    PROVE  /\ index' \in Seq(ArtifactBody) /\ Len(index) <= Len(index')
           /\ \A i \in 1..Len(index) : index'[i] = index[i]
           /\ \/ recentTurns' = recentTurns
              \/ \E own \in BOOLEAN, body \in ArtifactBody \cup {None} :
                    recentTurns' = Turns(recentTurns, Turn(own, body), index')
           /\ \/ storedArtifacts' = storedArtifacts
              \/ \E id \in 1..Len(index') \cup {None} : Remember(id)
  <1> DEFINE Adds == \E own \in BOOLEAN, body \in ArtifactBody \cup {None} :
                        recentTurns' = Turns(recentTurns, Turn(own, body), index')
             Grows == /\ index' \in Seq(ArtifactBody) /\ Len(index) <= Len(index')
                      /\ \A i \in 1..Len(index) : index'[i] = index[i]
             Keeps == \/ storedArtifacts' = storedArtifacts
                      \/ \E id \in 1..Len(index') \cup {None} : Remember(id)
  <1>g. index \in Seq(ArtifactBody) /\ (index' = index => Grows)
    BY DEF Filed
  <1>s. ASSUME NEW what, message'.text \in Messages,
               \/ Sends(what, recentTurns, index')
               \/ index' = index /\ Sends(what, recentTurns, index)
        PROVE  Adds
    <2>1. message'.text.artifact \in ArtifactBody \cup {None}
      BY <1>s, JudgedKind
    <2>2. recentTurns' = Turns(recentTurns, Turn(FALSE, message'.text.artifact), index')
      BY <1>s DEF Sends
    <2> QED
      BY <2>1, <2>2
  <1>d. ASSUME NEW decision, NEW m, Decided(decision, m), message'.text \in Messages
        PROVE  Adds \/ recentTurns' = recentTurns
    <2>1. CASE decision = "allow"
      BY <1>d, <2>1 DEF Decided, Runs
    <2>2. CASE decision # "allow"
      BY <1>d, <1>s, <2>2 DEF Decided, Refuses
    <2> QED
      BY <2>1, <2>2
  <1>a. ASSUME ResultAdded, message'.text \in Messages, index' = index
        PROVE  Adds \/ recentTurns' = recentTurns
    BY <1>a, <1>s DEF ResultAdded
  <1> HIDE DEF Adds, Grows
  <1>2. CASE Connecting \/ Reporting \/ Stopping \/ Passing \/ UNCHANGED vars
    <2>1. UNCHANGED memory
      BY <1>2 DEF Connecting, Reporting, Stopping, Passing, Connected, HostSeesJoin,
           OpeningSent, PartnerJoins, RoomAlive, RoomClosed, PingFailed, Retry,
           JoinNotice, OtherNotice, Paused, Alerted, Fails, Interrupted, Killed,
           PolicyExpires, FileExpires, vars
    <2> QED
      BY <1>g, <2>1 DEF memory, Grows
  <1>3. CASE \E m \in Messages : Hears(m)
    <2>1. PICK m \in Messages : Hears(m)
      BY <1>3
    <2>2. Keeps /\ Grows
      <3>1. PICK id \in Ids \cup {None} : KeepArtifact(m, id)
        BY <2>1 DEF Hears
      <3> QED
        BY <1>g, <3>1, HearingGrows DEF Grows
    <2>3. Adds \/ recentTurns' = recentTurns
      <3>1. CASE m.signal = "STANDBY"
        <4>1. recentTurns' = Turns(recentTurns, Turn(FALSE, m.artifact), index')
          BY <2>1, <3>1 DEF Hears
        <4> QED
          BY <4>1, JudgedKind DEF Adds
      <3>2. CASE m.signal # "STANDBY"
        <4>1. message' = [text |-> m, asked |-> Asked(policy, Judged(m))]
          BY <2>1, <3>2 DEF Hears
        <4>2. message'.text \in Messages
          BY <4>1
        <4>3. \/ UNCHANGED <<outbound, recentTurns>>
              \/ Decided(Decision(policy, Judged(m)), m)
          BY <2>1, <3>2 DEF Hears
        <4> QED
          BY <1>d, <4>2, <4>3
      <3> QED
        BY <3>1, <3>2
    <2> QED
      BY <2>2, <2>3 DEF Adds, Grows
  <1>4. CASE Approved \/ Denied
    <2>1. /\ message' = message /\ storedArtifacts' = storedArtifacts /\ pc = "asking"
          /\ index' = index
      BY <1>4 DEF Approved, Denied
    <2>2. message'.text \in Messages
      BY <2>1 DEF WorkKinds, Working
    <2>3. Adds \/ recentTurns' = recentTurns
      <3>1. CASE Approved
        BY <1>d, <2>2, <3>1 DEF Approved
      <3>2. CASE Denied
        BY <1>s, <2>2, <3>2 DEF Denied, Refuses
      <3> QED
        BY <1>4, <3>1, <3>2
    <2> QED
      BY <1>g, <2>1, <2>3 DEF Adds, Grows
  <1>5. CASE Sent
    <2>1. /\ recentTurns' = Turns(recentTurns, Turn(TRUE, None), index)
          /\ storedArtifacts' = storedArtifacts /\ index' = index
      BY <1>5 DEF Sent
    <2> QED
      BY <1>g, <2>1 DEF Grows
  <1>6. CASE \/ Replies
             \/ ActionEnds \/ \E r \in ActionRequests : Requests(r)
    <2>1. /\ Working /\ message' = message /\ storedArtifacts' = storedArtifacts
          /\ index' = index
      BY <1>6 DEF Replies, ActionEnds, Requests, Working
    <2>2. message'.text \in Messages
      BY <2>1 DEF WorkKinds
    <2>3. \/ Sends("reply", recentTurns, index)
          \/ ResultAdded \/ recentTurns' = recentTurns
      BY <1>6 DEF Replies, ActionEnds, Requests
    <2> QED
      BY <1>g, <1>s, <1>a, <2>1, <2>2, <2>3 DEF Adds, Grows
  <1> QED
    BY <1>2, <1>3, <1>4, <1>5, <1>6 DEF Next, Judging, Answering

LEMMA RememberedKept ==
    ASSUME Shapes, SessionKinds, WorkKinds, Filed, Remembered, [Next]_vars
    PROVE  Remembered'
  <1>1. CASE Starting
    <2>1. recentTurns' = <<>> /\ storedArtifacts' = <<>> /\ index' = <<>>
      BY <1>1 DEF Starting, RunSupervisor, BootstrapHostAttachSession, Begin
    <2>2. \A S : <<>> \in Seq(S)
      OBVIOUS
    <2>3. Len(<<>>) = 0 /\ IsInjective(<<>>)
      BY DEF IsInjective
    <2> QED
      BY <2>1, <2>2, <2>3, SupervisorAssumption DEF Remembered
  <1>2. CASE ~Starting
    <2>1. /\ index \in Seq(ArtifactBody) /\ index' \in Seq(ArtifactBody)
          /\ Len(index) <= Len(index') /\ \A i \in 1..Len(index) : index'[i] = index[i]
      BY <1>2, MemorySteps DEF Filed
    <2>2. recentTurns \in Seq(TurnRecord(index')) /\ storedArtifacts \in Seq(1..Len(index'))
      BY <2>1, RecordsLast DEF Remembered
    <2>3. recentTurns' \in Seq(TurnRecord(index')) /\ Len(recentTurns') <= MaxRecentTurns
      <3>1. CASE recentTurns' = recentTurns
        BY <2>2, <3>1 DEF Remembered
      <3>2. CASE \E own \in BOOLEAN, body \in ArtifactBody \cup {None} :
                    recentTurns' = Turns(recentTurns, Turn(own, body), index')
        BY <2>1, <2>2, <3>2, TurnsKept
      <3> QED
        BY <1>2, <3>1, <3>2, MemorySteps
    <2>4. /\ storedArtifacts' \in Seq(1..Len(index'))
          /\ Len(storedArtifacts') <= MaxPromptArtifacts /\ IsInjective(storedArtifacts')
      <3>1. CASE storedArtifacts' = storedArtifacts
        BY <2>2, <3>1 DEF Remembered
      <3>2. CASE \E id \in 1..Len(index') \cup {None} : Remember(id)
        BY <2>2, <3>2, RememberKept DEF Remembered
      <3> QED
        BY <1>2, <3>1, <3>2, MemorySteps
    <2> QED
      BY <2>3, <2>4 DEF Remembered
  <1> QED
    BY <1>1, <1>2

\* Bounded sequences, and the length of a prompt's turns.
LEMMA Bounded ==
    ASSUME NEW S, NEW n \in Nat, NEW s \in Seq(S), Len(s) <= n
    PROVE  s \in BoundedSeq(S, n)
  <1>1. s \in [1..Len(s) -> S] /\ Len(s) \in 0..n
    OBVIOUS
  <1> QED
    BY <1>1 DEF BoundedSeq, SeqOf

LEMMA PromptLength ==
    ASSUME NEW S, recentTurns \in Seq(S), Len(recentTurns) <= MaxRecentTurns
    PROVE  Len(PromptTurns) <= MaxRecentTurns
  <1>1. CASE recentTurns # <<>>
    <2> DEFINE body(i) == Sanitized(recentTurns[i], index)
    <2>1. PromptTurns = [i \in 1..Len(recentTurns) |-> body(i)]
      BY <1>1 DEF PromptTurns
    <2> HIDE DEF body
    <2>2. Len(PromptTurns) = Len(recentTurns)
      BY <2>1
    <2> QED
      BY <2>2
  <1>2. CASE recentTurns = <<>>
    <2>1. PromptTurns = IF history.opened THEN <<Turn(TRUE, None)>> ELSE <<>>
      BY <1>2 DEF PromptTurns, TranscriptTurns
    <2>2. Len(PromptTurns) <= 1
      <3> HIDE DEF Turn
      <3> QED
        BY <2>1
    <2>3. MaxRecentTurns \in Nat \ {0}
      BY SupervisorAssumption
    <2> QED
      BY <2>2, <2>3, <2>1
  <1> QED
    BY <1>1, <1>2

----------------------------------------------------------------------------
(* The theorems *)

LEMMA Invariance ==
    Spec => [](/\ Shapes /\ Answered /\ Granted /\ Carried /\ Chosen /\ Staying /\ Filed
               /\ SessionKinds /\ WorkKinds /\ Remembered)
  <1> DEFINE Inv == /\ Shapes /\ Answered /\ Granted /\ Carried /\ Chosen /\ Staying
                    /\ Filed /\ SessionKinds /\ WorkKinds /\ Remembered
  <1>1. Init => Inv
    BY PartsInitially, KindsInitially
  <1>2. Inv /\ [Next]_vars => Inv'
    BY ShapesKept, AnsweredKept, GrantedKept, CarriedKept, ChosenKept, StayingKept, FiledKept,
       SessionKindsKept, WorkKindsKept, RememberedKept
  <1> QED
    BY <1>1, <1>2, PTL DEF Spec

\* Everything is of its kind, and neither the prompt nor the action loop
\* grows with the conversation: turns, artifacts and actions stay within
\* MAX_RECENT_CONTEXT_TURNS, MAX_PROMPT_ARTIFACTS and
\* MAX_SUPERVISOR_ACTION_ITERATIONS.
THEOREM SupervisorTyped == Spec => []TypeOK
  <1>1. SessionKinds /\ WorkKinds /\ Remembered /\ Filed => TypeOK
    <2> SUFFICES ASSUME SessionKinds, WorkKinds, Remembered, Filed
                 PROVE  TypeOK
      OBVIOUS
    <2>1. Len(PromptTurns) <= MaxRecentTurns
      BY PromptLength DEF Remembered
    <2>2. storedArtifacts \in BoundedSeq(Ids, MaxPromptArtifacts)
      <3>1. storedArtifacts \in Seq(1..Len(index)) /\ 1..Len(index) \subseteq Ids
        BY DEF Remembered, Filed
      <3>2. storedArtifacts \in Seq(Ids)
        BY <3>1
      <3> QED
        BY <3>2, Bounded, SupervisorAssumption DEF Remembered
    <2>3. index \in BoundedSeq(ArtifactBody, MaxMessages)
      <3>1. Len(index) <= MaxMessages
        <4>1. CASE Len(index) = 0
          BY <4>1, SupervisorAssumption
        <4>2. CASE Len(index) # 0
          <5>1. Len(index) \in Ids
            BY <4>2 DEF Filed
          <5> QED
            BY <5>1, SupervisorAssumption DEF Ids
        <4> QED
          BY <4>1, <4>2
      <3> QED
        BY <3>1, Bounded, SupervisorAssumption DEF Filed
    <2>4. /\ {policy, policyFile} \subseteq SessionPolicy \cup {None}
          /\ message.text \in Messages \cup {None} /\ message.asked \subseteq GrantKey
      BY DEF SessionKinds, WorkKinds, PolicyKind
    <2> QED
      BY <2>1, <2>2, <2>3, <2>4 DEF TypeOK, SessionKinds, WorkKinds, Remembered, Filed
  <1> QED
    BY <1>1, Invariance, PTL

\* A reference that is remembered leads to the payload it stands for,
\* whatever was stored since, and whatever write failed.
THEOREM ReferencesLead == Spec => []ReferencesResolve
  <1>1. Remembered /\ Filed => ReferencesResolve
    <2> SUFFICES ASSUME Remembered, Filed
                 PROVE  ReferencesResolve
      OBVIOUS
    <2>1. ASSUME NEW i \in DOMAIN recentTurns, recentTurns[i].ref # None
          PROVE  files[recentTurns[i].ref] = recentTurns[i].body
      <3>1. recentTurns[i] \in TurnRecord(index)
        BY <2>1 DEF Remembered
      <3>2. recentTurns[i].ref \in 1..Len(index) /\ index[recentTurns[i].ref] = recentTurns[i].body
        BY <2>1, <3>1 DEF TurnRecord
      <3> QED
        BY <3>2 DEF Filed
    <2>2. ASSUME NEW i \in DOMAIN storedArtifacts
          PROVE  storedArtifacts[i] \in DOMAIN index
      BY <2>2 DEF Remembered, Filed
    <2> QED
      BY <2>1, <2>2 DEF ReferencesResolve
  <1> QED
    BY <1>1, Invariance, PTL

\* The supervisor never waits for the next message while the last one is
\* owed an answer.
THEOREM SupervisorAnswers == Spec => []EveryMessageIsAnswered
  <1>1. Answered => EveryMessageIsAnswered
    BY DEF Answered, EveryMessageIsAnswered
  <1> QED
    BY <1>1, Invariance, PTL

\* Nobody is asked twice for what was approved.
THEOREM ApprovalsLast == Spec => []AskedOnce
  <1>1. Granted => AskedOnce
    BY DEF Granted, AskedOnce
  <1> QED
    BY <1>1, Invariance, PTL

\* What was approved for a host or a joiner is not asked for again in their
\* later sessions, while the policy file holds it.
THEOREM ApprovalsOutliveSessions == Spec => []ApprovalsCarryOver
  <1>1. Granted /\ Carried => ApprovalsCarryOver
    BY DEF Granted, Carried, ApprovalsCarryOver
  <1> QED
    BY <1>1, Invariance, PTL

\* What a listener may do is what it was launched with, in every later
\* session too.
THEOREM ListenersKeepChoices == Spec => []StartupChoicesRule
  <1>1. Chosen => StartupChoicesRule
    BY DEF Chosen, StartupChoicesRule
  <1> QED
    BY <1>1, Invariance, PTL

\* "closed" in the session's file is a departure from the room.
THEOREM ClosedIsLeft == Spec => []ClosedMeansLeft
  <1>1. Staying => ClosedMeansLeft
    BY DEF Staying
  <1> QED
    BY <1>1, Invariance, PTL

\* Every artifact of the index is in its file, whatever write failed.
THEOREM IndexIsBacked == Spec => []StoredFilesMatchIndex
  <1>1. Filed => StoredFilesMatchIndex
    BY DEF Filed, StoredFilesMatchIndex
  <1> QED
    BY <1>1, Invariance, PTL

\* The runner starts only on a message that the policy of that moment allows.
THEOREM RunnerIsAllowed == Spec => RunsOnlyAllowed
  <1>1. [Next]_vars => [StartsAllowed]_vars
    <2> SUFFICES ASSUME [Next]_vars PROVE StartsAllowed
      OBVIOUS
    <2>1. CASE \E m \in Messages : Hears(m)
      <3>1. PICK m \in Messages : Hears(m)
        BY <2>1
      <3>2. CASE m.signal = "STANDBY"
        BY <3>1, <3>2 DEF Hears, Wait, StartsAllowed
      <3>3. CASE m.signal # "STANDBY"
        <4>1. /\ message' = [text |-> m, asked |-> Asked(policy, Judged(m))]
              /\ policy' = policy
              /\ pc' = "asking" \/ Decided(Decision(policy, Judged(m)), m)
          BY <3>1, <3>3 DEF Hears, policies
        <4>2. pc' = "running" => Decision(policy, Judged(m)) = "allow"
          BY <4>1, DecidedLeads
        <4> QED
          BY <4>1, <4>2 DEF StartsAllowed
      <3> QED
        BY <3>2, <3>3
    <2>2. CASE Approved
      BY <2>2, DecidedLeads DEF Approved, Again, StartsAllowed
    <2>3. CASE Denied
      BY <2>3 DEF Denied, Refuses, Sends, StartsAllowed
    <2>4. CASE Starting \/ Connecting
      BY <2>4 DEF Starting, Connecting, RunSupervisor, BootstrapHostAttachSession,
           Connected, HostSeesJoin, OpeningSent, PartnerJoins, Parked, Wait, Stop,
           control, StartsAllowed
    <2>5. CASE Reporting
      BY <2>5 DEF Reporting, RoomAlive, RoomClosed, PingFailed, Retry, JoinNotice,
           OtherNotice, Paused, Alerted, Closes, Wait, Stop, control, StartsAllowed
    <2>6. CASE Answering
      BY <2>6, SendsLeads DEF Answering, Replies, Requests, ActionEnds, Sent, Wait,
           StartsAllowed
    <2>7. CASE Stopping \/ Passing \/ UNCHANGED vars
      BY <2>7 DEF Stopping, Passing, Fails, Interrupted, Killed, PolicyExpires,
           FileExpires, Stop, vars, control, StartsAllowed
    <2> QED
      BY <2>1, <2>2, <2>3, <2>4, <2>5, <2>6, <2>7 DEF Next, Judging
  <1> QED
    BY <1>1, PTL DEF Spec, RunsOnlyAllowed
=============================================================================
