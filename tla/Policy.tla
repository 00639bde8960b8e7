------------------------------- MODULE Policy -------------------------------
(***************************************************************************)
(* Which requests of the remote partner a session's local policy lets      *)
(* through (src/policy.ts).  A request is what the patterns of policy.ts   *)
(* recognise in its text; the text itself is left out.                     *)
(***************************************************************************)
EXTENDS Integers

CONSTANTS
    Command,  \* the commands requests and policies name, spaces normalised
    Fold,     \* a command in lower case
    Size,     \* the length of a command
    None      \* null

ASSUME CommandAssumption ==
    /\ Fold \in [Command -> Command]
    /\ Size \in [Command -> Nat]
    /\ None \notin Command

----------------------------------------------------------------------------
(* Policies and requests *)

SessionGrantKind ==
    {"repo_edit", "test_build", "read_workspace", "exact_command", "web_access"}

\* getGrantKey: two grants of one key are the same.
GrantKey == [kind : SessionGrantKind, value : Command \cup {None}]

Grant(kind) == [kind |-> kind, value |-> None]
CommandGrant(command) == [kind |-> "exact_command", value |-> Fold[command]]

\* expired: expiresAt has passed.
SessionPolicy ==
    [allowRepoEdits : BOOLEAN, allowTestsBuilds : BOOLEAN,
     allowWebAccess : BOOLEAN, allowRemoteTriggerWithinScope : BOOLEAN,
     allowedCommands : SUBSET Command, sessionGrants : SUBSET GrantKey,
     expired : BOOLEAN]

\* forbidden: FORBIDDEN_PATTERNS; broker: isBrokerMutationRequest; edit, test,
\* read, web: what it asks for; shell, negated: COMMAND_HINTS and
\* NEGATED_EXECUTION_HINTS; quoted: the text in backquotes; mentions: the
\* commands, in lower case, that occur in the text.
Request ==
    [forbidden : BOOLEAN, broker : BOOLEAN, edit : BOOLEAN, test : BOOLEAN,
     read : BOOLEAN, web : BOOLEAN, shell : BOOLEAN, negated : BOOLEAN,
     quoted : Command \cup {None}, mentions : SUBSET Command]

CreatePolicy(choices) ==
    [allowRepoEdits |-> choices.edits, allowTestsBuilds |-> choices.tests,
     allowWebAccess |-> choices.web,
     allowRemoteTriggerWithinScope |-> choices.trigger,
     allowedCommands |-> choices.commands, sessionGrants |-> {},
     expired |-> FALSE]

----------------------------------------------------------------------------
(* What a request asks for *)

General(r) == r.shell /\ ~r.test /\ ~r.negated

Executes(r) == (General(r) \/ r.test) /\ ~r.negated

Mentioned(p, r) == {c \in p.allowedCommands : Fold[c] \in r.mentions}

Longest(commands) == CHOOSE c \in commands : \A d \in commands : Size[d] <= Size[c]

ExactCommand(p, r) ==
    IF r.quoted # None /\ Executes(r) THEN r.quoted
    ELSE IF Mentioned(p, r) # {} THEN Longest(Mentioned(p, r))
    ELSE None

Preapproved(p, command) ==
    command \in p.allowedCommands \/ CommandGrant(command) \in p.sessionGrants

\* normalizeIncomingRequest's grant candidates.
Candidates(p, r) ==
    {Grant(k) : k \in {kind \in SessionGrantKind :
        \/ kind = "repo_edit" /\ r.edit /\ ~p.allowRepoEdits
        \/ kind = "test_build" /\ r.test /\ ~p.allowTestsBuilds
        \/ kind = "read_workspace" /\ r.read /\ ~r.edit /\ ~p.allowRepoEdits
        \/ kind = "web_access" /\ r.web /\ ~p.allowWebAccess}}
    \cup {CommandGrant(c) : c \in {d \in {ExactCommand(p, r)} :
              d # None /\ ~Preapproved(p, d)}}

Unmet(p, r) == Candidates(p, r) \ p.sessionGrants

----------------------------------------------------------------------------
(* The decision *)

Refused(p, r) == ~p.expired /\ (r.forbidden \/ r.broker)

Decision(p, r) ==
    IF Refused(p, r) THEN "forbid"
    ELSE IF \/ p.expired
            \/ ~p.allowRemoteTriggerWithinScope
            \/ Unmet(p, r) # {}
            \/ General(r) /\ ExactCommand(p, r) = None
         THEN "require_approval"
    ELSE "allow"

\* The grants that evaluateIncomingMessage asks for.
Asked(p, r) ==
    IF p.expired \/ Refused(p, r) \/ ~p.allowRemoteTriggerWithinScope
    THEN {} ELSE Unmet(p, r)

LastGrantOnly(p, grants) == [p EXCEPT !.sessionGrants = grants]

GrantSessionAccess(p, grants) ==
    [p EXCEPT !.sessionGrants = @ \cup grants]

=============================================================================
