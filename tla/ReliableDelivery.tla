--------------------------- MODULE ReliableDelivery ---------------------------
(***************************************************************************)
(* What QoS 1 and QoS 2 promise, without connections, identifiers or       *)
(* acknowledgements: a message that the sender accepted for sending        *)
(* reaches the receiver, QoS 2 exactly once and QoS 1 at least once, for   *)
(* the first time in the order of acceptance, and the sender counts it as  *)
(* complete afterwards and not before.                                     *)
(***************************************************************************)
EXTENDS Naturals, Sequences

CONSTANTS
    Messages,
    OnceMessages  \* those with QoS 2

VARIABLES
    accepted,   \* the messages sent, in their order
    copies,     \* how often each message reached the receiving application
    completed   \* the messages whose flow ended at the sender

deliveryVars == <<accepted, copies, completed>>

IsAccepted(m) == \E i \in DOMAIN accepted : accepted[i] = m

Init ==
    /\ accepted = << >>
    /\ copies = [m \in Messages |-> 0]
    /\ completed = {}

Accept(m) ==
    /\ ~IsAccepted(m)
    /\ accepted' = Append(accepted, m)
    /\ UNCHANGED <<copies, completed>>

\* The first delivery of m: every message accepted before it was delivered.
Deliver(m) ==
    /\ copies[m] = 0
    /\ \E i \in DOMAIN accepted :
          /\ accepted[i] = m
          /\ \A j \in 1..(i - 1) : copies[accepted[j]] > 0
    /\ copies' = [copies EXCEPT ![m] = 1]
    /\ UNCHANGED <<accepted, completed>>

\* Another delivery of m, which QoS 1 allows until the sender knows better.
Redeliver(m) ==
    /\ copies[m] > 0
    /\ m \notin OnceMessages
    /\ m \notin completed
    /\ copies' = [copies EXCEPT ![m] = @ + 1]
    /\ UNCHANGED <<accepted, completed>>

Complete(m) ==
    /\ copies[m] > 0
    /\ m \notin completed
    /\ completed' = completed \cup {m}
    /\ UNCHANGED <<accepted, copies>>

Next == \E m \in Messages : Accept(m) \/ Deliver(m) \/ Redeliver(m) \/ Complete(m)

SafetySpec == Init /\ [][Next]_deliveryVars

Spec ==
    /\ SafetySpec
    /\ \A m \in Messages :
          WF_deliveryVars(Deliver(m)) /\ WF_deliveryVars(Complete(m))

=============================================================================
