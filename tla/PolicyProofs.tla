---------------------------- MODULE PolicyProofs ----------------------------
(***************************************************************************)
(* What the decisions of src/policy.ts amount to, for all commands,        *)
(* policies and requests.                                                  *)
(***************************************************************************)
EXTENDS Policy, TLAPS, FiniteSets, FiniteSetTheorems, WellFoundedInduction

\* What a request asks for depends on the settings, and only what it lacks
\* on the grants.
LEMMA CommandOfGranted ==
    ASSUME NEW p \in SessionPolicy, NEW r \in Request, NEW grants
    PROVE  /\ ExactCommand(GrantSessionAccess(p, grants), r) = ExactCommand(p, r)
           /\ GrantSessionAccess(p, grants).sessionGrants = p.sessionGrants \cup grants
           /\ GrantSessionAccess(p, grants).allowedCommands = p.allowedCommands
           /\ GrantSessionAccess(p, grants).expired = p.expired
           /\ GrantSessionAccess(p, grants).allowRemoteTriggerWithinScope
                = p.allowRemoteTriggerWithinScope
  <1> DEFINE q == GrantSessionAccess(p, grants)
  <1>1. /\ q.allowedCommands = p.allowedCommands
        /\ q.sessionGrants = p.sessionGrants \cup grants
        /\ q.expired = p.expired
        /\ q.allowRemoteTriggerWithinScope = p.allowRemoteTriggerWithinScope
    BY DEF GrantSessionAccess, SessionPolicy
  <1>2. Mentioned(q, r) = Mentioned(p, r)
    BY <1>1 DEF Mentioned
  <1> QED
    BY <1>1, <1>2 DEF ExactCommand

LEMMA CandidatesOfGranted ==
    ASSUME NEW p \in SessionPolicy, NEW r \in Request, NEW grants
    PROVE  /\ Candidates(GrantSessionAccess(p, grants), r) \subseteq Candidates(p, r)
           /\ Unmet(GrantSessionAccess(p, grants), r) \subseteq Unmet(p, r) \ grants
  <1> DEFINE q == GrantSessionAccess(p, grants)
  <1>1. /\ q.allowRepoEdits = p.allowRepoEdits
        /\ q.allowTestsBuilds = p.allowTestsBuilds
        /\ q.allowWebAccess = p.allowWebAccess
    BY DEF GrantSessionAccess, SessionPolicy
  <1>2. ASSUME NEW c, Preapproved(p, c)
        PROVE  Preapproved(q, c)
    BY <1>2, CommandOfGranted DEF Preapproved
  <1>3. Candidates(q, r) \subseteq Candidates(p, r)
    <2> HIDE DEF q
    <2>1. ExactCommand(q, r) = ExactCommand(p, r)
      BY CommandOfGranted DEF q
    <2> QED
      BY <1>1, <1>2, <2>1 DEF Candidates
  <1>4. q.sessionGrants = p.sessionGrants \cup grants
    BY CommandOfGranted
  <1> QED
    BY <1>3, <1>4 DEF Unmet

\* Once what a request lacks is granted, nothing more is asked for it: the
\* approval of src/supervisor.ts:869-881 is never followed by another for the
\* same message.
THEOREM ApprovalMeetsRequest ==
    ASSUME NEW p \in SessionPolicy, NEW r \in Request
    PROVE  Asked(GrantSessionAccess(p, Asked(p, r)), r) = {}
  <1> DEFINE q == GrantSessionAccess(p, Asked(p, r))
  <1>1. /\ q.expired = p.expired
        /\ q.allowRemoteTriggerWithinScope = p.allowRemoteTriggerWithinScope
    BY CommandOfGranted
  <1>2. Refused(q, r) = Refused(p, r)
    BY <1>1 DEF Refused
  <1>3. Unmet(q, r) \subseteq Unmet(p, r) \ Asked(p, r)
    BY CandidatesOfGranted
  <1> HIDE DEF q
  <1> QED
    BY <1>1, <1>2, <1>3 DEF Asked, q

\* What an approval leads to: the request is then allowed, unless it wants
\* some command run without naming which (policy.ts:234-241).
THEOREM ApprovalDecides ==
    ASSUME NEW p \in SessionPolicy, NEW r \in Request, Asked(p, r) # {}
    PROVE  Decision(GrantSessionAccess(p, Asked(p, r)), r) = "allow"
             <=> ~(General(r) /\ ExactCommand(p, r) = None)
  <1> DEFINE q == GrantSessionAccess(p, Asked(p, r))
  <1>1. ~p.expired /\ ~Refused(p, r) /\ p.allowRemoteTriggerWithinScope
    BY DEF Asked
  <1>2. /\ q.expired = p.expired
        /\ q.allowRemoteTriggerWithinScope = p.allowRemoteTriggerWithinScope
        /\ ExactCommand(q, r) = ExactCommand(p, r)
    BY CommandOfGranted
  <1>3. ~Refused(q, r)
    BY <1>1, <1>2 DEF Refused
  <1>4. Unmet(q, r) = {}
    <2>1. Asked(q, r) = {}
      BY ApprovalMeetsRequest
    <2> HIDE DEF q
    <2> QED
      BY <1>1, <1>2, <1>3, <2>1 DEF Asked
  <1> HIDE DEF q
  <1> QED
    BY <1>1, <1>2, <1>3, <1>4 DEF Decision, q

\* Grants only widen what is allowed, and never reach what is forbidden.
THEOREM GrantsOnlyWiden ==
    ASSUME NEW p \in SessionPolicy, NEW r \in Request, NEW grants
    PROVE  /\ Decision(p, r) = "allow"
                => Decision(GrantSessionAccess(p, grants), r) = "allow"
           /\ Decision(p, r) = "forbid"
                <=> Decision(GrantSessionAccess(p, grants), r) = "forbid"
  <1> DEFINE q == GrantSessionAccess(p, grants)
  <1>1. /\ q.expired = p.expired
        /\ q.allowRemoteTriggerWithinScope = p.allowRemoteTriggerWithinScope
        /\ ExactCommand(q, r) = ExactCommand(p, r)
    BY CommandOfGranted
  <1>2. Refused(q, r) = Refused(p, r)
    BY <1>1 DEF Refused
  <1>3. Unmet(p, r) = {} => Unmet(q, r) = {}
    BY CandidatesOfGranted
  <1> HIDE DEF q
  <1> QED
    BY <1>1, <1>2, <1>3 DEF Decision, q

----------------------------------------------------------------------------
(* Grants are grants *)

\* Among finitely many commands one is longest: the sort of policy.ts finds it.
LEMMA LongestIsOne ==
    ASSUME NEW commands \in SUBSET Command, IsFiniteSet(commands), commands # {}
    PROVE  Longest(commands) \in commands
  <1>1. PICK n \in Nat : ExistsSurjection(1..n, commands)
    BY FS_NatSurjection
  <1>2. PICK f \in [1..n -> commands] : \A c \in commands : \E i \in 1..n : f[i] = c
    BY <1>1 DEF ExistsSurjection, Surjection
  <1>3. n >= 1
    BY <1>2
  <1>4. \A i \in 1..n : Size[f[i]] \in Nat
    BY <1>2, CommandAssumption
  <1> DEFINE LongestTo(k) == \E j \in 1..k : \A i \in 1..k : Size[f[i]] <= Size[f[j]]
             bad == {k \in 1..n : ~LongestTo(k)}
  <1>5. bad = {}
    <2> SUFFICES ASSUME bad # {} PROVE FALSE
      OBVIOUS
    <2>1. bad \in SUBSET Nat
      OBVIOUS
    <2>2. PICK k \in bad : \A j \in bad : ~(<<j, k>> \in OpToRel(<, Nat))
      <3> HIDE DEF bad
      <3> QED
        BY <2>1, WFMin, NatLessThanWellFounded
    <2>3. k \in 1..n /\ ~LongestTo(k) /\ \A j \in bad : ~(j < k)
      <3>1. \A j \in bad : ~(j < k)
        BY <2>1, <2>2 DEF OpToRel
      <3> QED
        BY <3>1
    <2>4. CASE k = 1
      <3>1. LongestTo(1)
        BY <1>3, <1>4
      <3> QED
        BY <2>3, <2>4, <3>1
    <2>5. CASE k # 1
      <3>1. k - 1 \in 1..n /\ k - 1 < k
        BY <2>3, <2>5
      <3>2. k - 1 \notin bad
        BY <2>3, <3>1
      <3>3. PICK j \in 1..(k - 1) : \A i \in 1..(k - 1) : Size[f[i]] <= Size[f[j]]
        BY <3>1, <3>2
      <3>4. \A i \in 1..k : i \in 1..(k - 1) \/ i = k
        BY <2>3
      <3>5. j \in 1..k /\ k \in 1..k /\ Size[f[j]] \in Nat /\ Size[f[k]] \in Nat
        BY <1>4, <2>3, <3>1
      <3>6. CASE Size[f[k]] <= Size[f[j]]
        <4>1. \A i \in 1..k : Size[f[i]] <= Size[f[j]]
          BY <3>3, <3>4, <3>6
        <4> QED
          BY <2>3, <3>5, <4>1
      <3>7. CASE Size[f[j]] < Size[f[k]]
        <4>1. ASSUME NEW i \in 1..(k - 1) PROVE Size[f[i]] <= Size[f[k]]
          <5>1. i \in 1..n /\ Size[f[i]] \in Nat /\ Size[f[i]] <= Size[f[j]]
            BY <1>4, <3>1, <3>3
          <5> QED
            BY <3>5, <3>7, <5>1
        <4>2. \A i \in 1..k : Size[f[i]] <= Size[f[k]]
          BY <3>4, <3>5, <4>1
        <4> QED
          BY <2>3, <3>5, <4>2
      <3> QED
        BY <3>5, <3>6, <3>7
    <2> QED
      BY <2>4, <2>5
  <1>6. PICK j \in 1..n : \A i \in 1..n : Size[f[i]] <= Size[f[j]]
    <2>1. n \in 1..n
      BY <1>3
    <2> QED
      BY <1>5, <2>1
  <1>7. f[j] \in commands /\ \A d \in commands : Size[d] <= Size[f[j]]
    BY <1>2, <1>6
  <1> QED
    BY <1>7 DEF Longest

\* What is asked for is a grant of the five kinds, and names a command only
\* if it is one: the human is never asked to approve something unheard of.
THEOREM AskedAreGrants ==
    ASSUME NEW p \in SessionPolicy, NEW r \in Request, IsFiniteSet(p.allowedCommands)
    PROVE  Asked(p, r) \subseteq GrantKey
  <1>1. ExactCommand(p, r) \in Command \cup {None}
    <2>1. r.quoted \in Command \cup {None}
      BY DEF Request
    <2>2. Mentioned(p, r) \in SUBSET Command /\ IsFiniteSet(Mentioned(p, r))
      <3>1. p.allowedCommands \in SUBSET Command
        BY DEF SessionPolicy
      <3>2. Mentioned(p, r) \in SUBSET p.allowedCommands
        BY DEF Mentioned
      <3> QED
        BY <3>1, <3>2, FS_Subset
    <2>3. Mentioned(p, r) # {} => Longest(Mentioned(p, r)) \in Command
      BY <2>2, LongestIsOne
    <2> QED
      BY <2>1, <2>3 DEF ExactCommand
  <1>2. \A k \in SessionGrantKind : Grant(k) \in GrantKey
    BY DEF Grant, GrantKey
  <1>3. \A c \in Command : CommandGrant(c) \in GrantKey
    BY CommandAssumption DEF CommandGrant, GrantKey, SessionGrantKind
  <1>4. Candidates(p, r) \subseteq GrantKey
    BY <1>1, <1>2, <1>3 DEF Candidates
  <1> QED
    BY <1>4 DEF Asked, Unmet
=============================================================================
