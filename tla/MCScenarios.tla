----------------------------- MODULE MCScenarios -----------------------------
(***************************************************************************)
(* One run of SessionClient goes through several scenarios.  Each is a     *)
(* part of what the caller and the server may do, within bounds of its     *)
(* own, so that every part goes deep: both directions of PUBLISH at once,  *)
(* many PUBLISHes of the client, subscriptions beside a PUBLISH, and the   *)
(* connection with all its parameters, authentication and timers.          *)
(***************************************************************************)
EXTENDS MCSession

CONSTANT Scenarios

VARIABLE scenario

\* Both sides use the first identifiers only, and no PUBLISH is sent after so
\* many flow events.
Within(ids, events) ==
    /\ (inUse \cup IncomingIds)' \subseteq 1..ids
    /\ OutgoingIds' \subseteq OutgoingIds \/ nextSeq < events

\* Of all that a connection negotiates only Receive Maximum differs.
PlainConnection ==
    /\ serverCapabilities = DefaultCapabilities
    /\ authState = "Idle"
    /\ keepAliveSecs = 0 /\ now = 0
    /\ peerMaximum = 0 /\ ownMaximum = 0
    /\ sessionExpiryInterval = 0
    /\ maxPacketSize = DefaultPacketSize

ScenarioNext ==
    \/ /\ scenario = "Flows"
       /\ ConnectionNext \/ SendNext \/ ReceiveNext
       /\ PlainConnection' /\ Within(2, 3)
    \/ /\ scenario = "Sending"
       /\ ConnectionNext \/ SendNext
       /\ PlainConnection' /\ Within(3, 5)
       /\ ownReceiveMaximum' = U16Max
    \/ /\ scenario = "Subscriptions"
       /\ ConnectionNext \/ SendNext \/ SubscriptionNext
       /\ PlainConnection' /\ Within(2, 1)
       /\ receiveMaximum' = U16Max /\ ownReceiveMaximum' = U16Max
    \/ /\ scenario = "Connection"
       /\ ConnectionNext \/ SendNext \/ ReceiveNext \/ TimerNext \/ AuthenticationNext
       /\ Within(1, 1)

ScenarioInit == Init /\ scenario \in Scenarios

ScenarioSpec ==
    /\ ScenarioInit
    /\ [][ScenarioNext /\ UNCHANGED scenario]_<<vars, scenario>>

=============================================================================
