------------------------------ MODULE KeepAlive ------------------------------
(***************************************************************************)
(* The Keep Alive timers (state/keep_alive.rs).  Timestamps are passed in  *)
(* by the caller; MsPerSec is the 1000 that turns Keep Alive seconds into  *)
(* timestamps.                                                             *)
(***************************************************************************)
EXTENDS MqttTypes

CONSTANT MsPerSec

ASSUME MsPerSecAssumption == MsPerSec \in Nat \ {0}

VARIABLES
    keepAliveSecs,  \* keep_alive_secs: 0 turns Keep Alive off
    lastActivity,   \* last_activity: when a packet was last sent
    pingreqSentAt   \* pingreq_sent_at: when the unanswered PINGREQ was sent

kaVars == <<keepAliveSecs, lastActivity, pingreqSentAt>>

KaTypeOK ==
    /\ keepAliveSecs \in 0..U16Max
    /\ lastActivity \in Nat
    /\ pingreqSentAt \in Nat \cup {None}

KaInit ==
    /\ keepAliveSecs = 0
    /\ lastActivity = 0
    /\ pingreqSentAt = None

\* u64::saturating_sub
Elapsed(now, since) == IF now < since THEN 0 ELSE now - since

\* should_send_pingreq
ShouldSendPingreq(now) ==
    keepAliveSecs # 0 /\ Elapsed(now, lastActivity) >= keepAliveSecs * MsPerSec

\* has_timed_out
HasTimedOut(now) ==
    /\ keepAliveSecs # 0
    /\ pingreqSentAt # None
    /\ Elapsed(now, pingreqSentAt) >= keepAliveSecs * MsPerSec

\* set_keep_alive
KaSetKeepAlive(secs) ==
    /\ keepAliveSecs' = secs
    /\ UNCHANGED <<lastActivity, pingreqSentAt>>

KaActivity(now) ==
    /\ lastActivity' = now
    /\ UNCHANGED <<keepAliveSecs, pingreqSentAt>>

KaPingreqSent(now) ==
    /\ pingreqSentAt' = now
    /\ lastActivity' = now
    /\ UNCHANGED keepAliveSecs

\* Mutant: PINGRESP is not recorded.
KaPingrespIgnored == UNCHANGED kaVars

KaPingrespReceived ==
    /\ pingreqSentAt' = None
    /\ UNCHANGED <<keepAliveSecs, lastActivity>>

KaReset ==
    /\ keepAliveSecs' = 0
    /\ lastActivity' = 0
    /\ pingreqSentAt' = None

KaNext ==
    \/ KaPingrespReceived \/ KaReset
    \/ \E secs \in 0..U16Max : KaSetKeepAlive(secs)
    \/ \E now \in Nat : KaActivity(now) \/ KaPingreqSent(now)

=============================================================================
