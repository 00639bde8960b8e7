---------------------------- MODULE MCLoopPause ----------------------------
(***************************************************************************)
(* BrokerStore, watched for how long two participants can keep answering   *)
(* each other: exchange[r] counts the active short texts delivered in room *)
(* r since the session last paused.                                        *)
(***************************************************************************)
EXTENDS MCBrokerStore

\* Bound: how long an exchange is followed.
MaxExchange == 2 * LoopThreshold

VARIABLE exchange

ShortTexts == {<<"active_text", TRUE>>}

RoomPaused(r) ==
    \E t \in Token : /\ tokens'[t] # None /\ tokens'[t].roomName = r
                     /\ tokens'[t].standby

LoopInit == Init /\ exchange = [r \in Room |-> 0]

LoopNext ==
    /\ Next
    /\ exchange' = [r \in Room |->
          IF RoomPaused(r) THEN 0
          ELSE IF \E t \in Token : /\ tokens[t] # None /\ tokens[t].roomName = r
                                   /\ SendMessage(t, "active_text", TRUE)
               THEN exchange[r] + 1 ELSE exchange[r]]
    /\ \A r \in Room : exchange'[r] <= MaxExchange

LoopSpec == LoopInit /\ [][LoopNext]_<<vars, exchange>>

\* The broker interrupts a loop: two participants who only ever send each
\* other short texts that ask for an answer are paused before they have
\* exchanged twice the threshold.
LoopsAreInterrupted ==
    \A r \in Room : exchange[r] < 2 * LoopThreshold
=============================================================================
