---------------------------- MODULE MCSupervisor ----------------------------
(***************************************************************************)
(* Supervisor on small sets.  Bound: in a behaviour the partner sends      *)
(* requests, and sessions follow one another, or it sends artifacts within *)
(* one session.                                                            *)
(***************************************************************************)
EXTENDS Supervisor

CONSTANTS jest, Jest, deploy, html, json, code

VARIABLE theme

Commands == {jest, Jest, deploy}
Folded == [c \in Commands |-> IF c = Jest THEN jest ELSE c]
Sizes == [c \in Commands |-> IF c = deploy THEN 6 ELSE 4]
Bodies == {html, json, code}
CodeBodies == {code}

Settings(edits, tests) ==
    [edits |-> edits, tests |-> tests, web |-> FALSE, trigger |-> TRUE,
     commands |-> {jest}]

Listen(headless, asks, choices) ==
    [mode |-> "listen", headless |-> headless, goal |-> FALSE,
     attaches |-> FALSE, asks |-> asks, choices |-> choices]

\* A joiner that nobody may trigger has no more to ask for.
LaunchSet == {
    Listen(TRUE, TRUE, Settings(FALSE, FALSE)),
    Listen(TRUE, FALSE, Settings(TRUE, TRUE)),
    Listen(FALSE, TRUE, [Settings(TRUE, FALSE) EXCEPT !.trigger = FALSE]),
    [Listen(FALSE, TRUE, Settings(TRUE, FALSE)) EXCEPT !.mode = "join"],
    [Listen(FALSE, FALSE, Settings(FALSE, TRUE)) EXCEPT !.mode = "host", !.goal = TRUE],
    [Listen(FALSE, FALSE, Settings(TRUE, TRUE)) EXCEPT !.mode = "host", !.attaches = TRUE]}

Text(request) == [signal |-> "OVER", request |-> request, artifact |-> None]
Payload(body, signal) == [signal |-> signal, request |-> Plain, artifact |-> body]

\* "fetch it and run something": approving web access leaves the rest open.
MessageSet == {
    Text([Plain EXCEPT !.test = TRUE, !.mentions = {jest}]),
    Text([Plain EXCEPT !.shell = TRUE, !.quoted = Jest]),
    Text([Plain EXCEPT !.shell = TRUE, !.quoted = deploy]),
    Text([Plain EXCEPT !.web = TRUE, !.shell = TRUE]),
    Text([Plain EXCEPT !.edit = TRUE]),
    Text([Plain EXCEPT !.forbidden = TRUE])}
    \cup {Payload(b, s) : b \in Bodies, s \in {"OVER", "STANDBY"}}

RequestSet == {
    [action |-> "read_file", path |-> "inside", command |-> None],
    [action |-> "list_files", path |-> "outside", command |-> None],
    [action |-> "apply_patch", path |-> "inside", command |-> None],
    [action |-> "apply_patch", path |-> "control", command |-> None],
    [action |-> "run_command", path |-> None, command |-> jest],
    [action |-> "malformed", path |-> None, command |-> None]}

MCInit == Init /\ theme \in {"requests", "artifacts"}

MCNext ==
    /\ UNCHANGED theme
    /\ Next
    /\ theme = "artifacts" => session' <= 1
    /\ message'.text # None => (message'.text.artifact # None <=> theme = "artifacts")
    /\ \A i \in DOMAIN recentTurns' : recentTurns'[i].body # None => theme = "artifacts"

MCSpec == MCInit /\ [][MCNext]_<<vars, theme>>
=============================================================================
