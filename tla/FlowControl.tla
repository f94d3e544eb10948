----------------------------- MODULE FlowControl -----------------------------
(***************************************************************************)
(* Receive Maximum accounting in both directions (state/flow_control.rs).  *)
(***************************************************************************)
EXTENDS MqttTypes

VARIABLES
    receiveMaximum,     \* receive_maximum: the limit the server announced
    outstandingCount,   \* outstanding_count: unacknowledged PUBLISHes sent
    initialized,        \* initialized: the server announced a limit
    ownReceiveMaximum,  \* own_receive_maximum: the limit the client announced
    incomingCount       \* incoming_count: unacknowledged PUBLISHes received

fcVars == <<receiveMaximum, outstandingCount, initialized,
            ownReceiveMaximum, incomingCount>>
fcSendVars == <<receiveMaximum, outstandingCount, initialized>>
fcReceiveVars == <<ownReceiveMaximum, incomingCount>>

FcTypeOK ==
    /\ receiveMaximum \in 1..U16Max
    /\ outstandingCount \in 0..U16Max
    /\ initialized \in BOOLEAN
    /\ ownReceiveMaximum \in 1..U16Max
    /\ incomingCount \in 0..U16Max

FcInit ==
    /\ receiveMaximum = U16Max
    /\ outstandingCount = 0
    /\ initialized = FALSE
    /\ ownReceiveMaximum = U16Max
    /\ incomingCount = 0

\* Mutant: a subtraction that does not saturate
DecrementedUnchecked(count) == count - 1

\* u16::saturating_sub(1)
Decremented(count) == IF count = 0 THEN 0 ELSE count - 1

\* can_send
CanSend == outstandingCount < receiveMaximum

\* can_receive
CanReceive == incomingCount < ownReceiveMaximum

\* set_receive_maximum(max): rejects 0
FcSetReceiveMaximum(max) ==
    /\ max # 0
    /\ receiveMaximum' = max
    /\ initialized' = TRUE
    /\ UNCHANGED <<outstandingCount, fcReceiveVars>>

\* set_own_receive_maximum(max): rejects 0
FcSetOwnReceiveMaximum(max) ==
    /\ max # 0
    /\ ownReceiveMaximum' = max
    /\ UNCHANGED <<fcSendVars, incomingCount>>

\* publish_sent returning Ok
FcPublishSent ==
    /\ CanSend
    /\ outstandingCount' = outstandingCount + 1
    /\ UNCHANGED <<receiveMaximum, initialized, fcReceiveVars>>

\* publish_acked
FcPublishAcked ==
    /\ outstandingCount' = Decremented(outstandingCount)
    /\ UNCHANGED <<receiveMaximum, initialized, fcReceiveVars>>

\* publish_received returning Ok
FcPublishReceived ==
    /\ CanReceive
    /\ incomingCount' = incomingCount + 1
    /\ UNCHANGED <<fcSendVars, ownReceiveMaximum>>

\* publish_ack_sent
FcPublishAckSent ==
    /\ incomingCount' = Decremented(incomingCount)
    /\ UNCHANGED <<fcSendVars, ownReceiveMaximum>>

\* reset(keep_own_receive_maximum)
FcReset(keepOwnReceiveMaximum) ==
    /\ receiveMaximum' = U16Max
    /\ outstandingCount' = 0
    /\ initialized' = FALSE
    /\ ownReceiveMaximum' = IF keepOwnReceiveMaximum THEN ownReceiveMaximum
                                                    ELSE U16Max
    /\ incomingCount' = 0

FcNext ==
    \/ FcPublishSent \/ FcPublishAcked \/ FcPublishReceived \/ FcPublishAckSent
    \/ \E max \in 0..U16Max : FcSetReceiveMaximum(max) \/ FcSetOwnReceiveMaximum(max)
    \/ FcReset(TRUE) \/ FcReset(FALSE)

=============================================================================
