------------------------- MODULE SubscriptionManager -------------------------
(***************************************************************************)
(* The subscription table (state/subscribe.rs): what SUBSCRIBE and         *)
(* UNSUBSCRIBE requested, what SUBACK and UNSUBACK confirmed, and the      *)
(* reverse index from subscription identifiers to topic filters.           *)
(*                                                                         *)
(* An entry is the pair of its topic filter and its subscription           *)
(* identifier; the other options are carried along unchanged by the code   *)
(* and left out.  A list of the reverse index is the bag of its filters.   *)
(***************************************************************************)
EXTENDS MqttTypes, Sequences

CONSTANTS
    Filters,             \* topic filters
    SubIds,              \* subscription identifiers
    NoSubId,             \* an entry without a subscription identifier
    SubscribeRequests,   \* the entry lists the application subscribes with
    UnsubscribeRequests  \* the filter lists the application unsubscribes

Entries == [filter : Filters, subId : SubIds \cup {NoSubId}]

ASSUME SubscriptionAssumption ==
    /\ NoSubId \notin SubIds
    /\ None \notin SubIds \cup {NoSubId}
    /\ SubscribeRequests \subseteq Seq(Entries) \ {<< >>}
    /\ UnsubscribeRequests \subseteq Seq(Filters) \ {<< >>}

VARIABLES
    active,               \* active: filter -> the identifier it was granted with
    pendingSubscribes,    \* pending_subscribes: packet id -> entries
    pendingUnsubscribes,  \* pending_unsubscribes: packet id -> filters
    subscriptionIds       \* subscription_ids: identifier -> bag of filters

subVars == <<active, pendingSubscribes, pendingUnsubscribes, subscriptionIds>>

SubTypeOK ==
    /\ active \in [Filters -> SubIds \cup {NoSubId, None}]
    /\ pendingSubscribes \in [PacketIds -> SubscribeRequests \cup {<< >>}]
    /\ pendingUnsubscribes \in [PacketIds -> UnsubscribeRequests \cup {<< >>}]
    /\ subscriptionIds \in [SubIds -> [Filters -> Nat]]

SubInit ==
    /\ active = [f \in Filters |-> None]
    /\ pendingSubscribes = [id \in PacketIds |-> << >>]
    /\ pendingUnsubscribes = [id \in PacketIds |-> << >>]
    /\ subscriptionIds = [s \in SubIds |-> [f \in Filters |-> 0]]

PendingSubscribeIds == {id \in PacketIds : pendingSubscribes[id] # << >>}
PendingUnsubscribeIds == {id \in PacketIds : pendingUnsubscribes[id] # << >>}

\* subscribe_sent
SubSubscribeSent(id, entries) ==
    /\ pendingSubscribes' = [pendingSubscribes EXCEPT ![id] = entries]
    /\ UNCHANGED <<active, pendingUnsubscribes, subscriptionIds>>

\* drop_pending_subscribe
SubDropPendingSubscribe(id) ==
    /\ pendingSubscribes' = [pendingSubscribes EXCEPT ![id] = << >>]
    /\ UNCHANGED <<active, pendingUnsubscribes, subscriptionIds>>

\* unsubscribe_sent
SubUnsubscribeSent(id, filters) ==
    /\ pendingUnsubscribes' = [pendingUnsubscribes EXCEPT ![id] = filters]
    /\ UNCHANGED <<active, pendingSubscribes, subscriptionIds>>

\* drop_pending_unsubscribe
SubDropPendingUnsubscribe(id) ==
    /\ pendingUnsubscribes' = [pendingUnsubscribes EXCEPT ![id] = << >>]
    /\ UNCHANGED <<active, pendingSubscribes, subscriptionIds>>

-----------------------------------------------------------------------------
(***************************************************************************)
(* SUBACK.  granted[i] says that the i-th reason code is 0x02 or smaller.  *)
(* The loop goes through the entries in order: for each granted one it     *)
(* drops the filter from the list of the identifier the filter is active   *)
(* with, adds it to the list of its new identifier, and makes it active.   *)
(* Its result is stated filter by filter.                                  *)
(***************************************************************************)

\* The positions granted to filter f
GrantedAt(entries, granted, f) ==
    {i \in DOMAIN entries : granted[i] /\ entries[i].filter = f}

\* The identifier filter f ends up with: that of its last granted entry
LastSubId(entries, positions) ==
    entries[CHOOSE i \in positions : \A j \in positions : j <= i].subId

\* The identifiers filter f is dropped from: the one it was active with and
\* those of its granted entries but the last.
DroppedSubIds(entries, positions, f) ==
    {active[f]} \cup {entries[i].subId :
        i \in {j \in positions : \E k \in positions : j < k}}

ActiveAfterSuback(entries, granted) ==
    [f \in Filters |->
        LET positions == GrantedAt(entries, granted, f)
        IN  IF positions = {} THEN active[f] ELSE LastSubId(entries, positions)]

\* Mutant: the filter is not dropped from the list of its former identifier.
SubscriptionIdsKeepFormer(entries, granted) ==
    [s \in SubIds |-> [f \in Filters |->
        LET positions == GrantedAt(entries, granted, f)
        IN  subscriptionIds[s][f] +
            (IF positions # {} /\ s = LastSubId(entries, positions) THEN 1 ELSE 0)]]

SubscriptionIdsAfterSuback(entries, granted) ==
    [s \in SubIds |-> [f \in Filters |->
        LET positions == GrantedAt(entries, granted, f)
            kept == IF s \in DroppedSubIds(entries, positions, f)
                    THEN 0 ELSE subscriptionIds[s][f]
        IN  IF positions = {}
            THEN subscriptionIds[s][f]
            ELSE kept + (IF s = LastSubId(entries, positions) THEN 1 ELSE 0)]]

\* suback_received: the pending entry is dropped whatever the answer; the
\* table only changes when there is one reason code per entry.
SubSubackReceived(id, granted) ==
    LET entries == pendingSubscribes[id]
    IN  /\ pendingSubscribes' = [pendingSubscribes EXCEPT ![id] = << >>]
        /\ IF Len(granted) = Len(entries)
           THEN /\ active' = ActiveAfterSuback(entries, granted)
                /\ subscriptionIds' = SubscriptionIdsAfterSuback(entries, granted)
           ELSE UNCHANGED <<active, subscriptionIds>>
        /\ UNCHANGED pendingUnsubscribes

\* The filters an UNSUBACK confirms.  gone[i] says that the i-th reason code is
\* 0x00 or 0x11; the empty list is the UNSUBACK of MQTT v3.1.1, which confirms
\* everything.
Removed(filters, gone) ==
    {filters[i] : i \in {j \in DOMAIN filters : gone = << >> \/ gone[j]}}

SubscriptionIdsWithout(removed) ==
    [s \in SubIds |-> [f \in Filters |->
        IF f \in removed /\ active[f] = s THEN 0 ELSE subscriptionIds[s][f]]]

\* unsuback_received
SubUnsubackReceived(id, gone) ==
    LET filters == pendingUnsubscribes[id]
        removed == Removed(filters, gone)
    IN  /\ pendingUnsubscribes' = [pendingUnsubscribes EXCEPT ![id] = << >>]
        /\ IF gone = << >> \/ Len(gone) = Len(filters)
           THEN /\ active' = [f \in Filters |->
                       IF f \in removed THEN None ELSE active[f]]
                /\ subscriptionIds' = SubscriptionIdsWithout(removed)
           ELSE UNCHANGED <<active, subscriptionIds>>
        /\ UNCHANGED pendingSubscribes

SubReset ==
    /\ active' = [f \in Filters |-> None]
    /\ pendingSubscribes' = [id \in PacketIds |-> << >>]
    /\ pendingUnsubscribes' = [id \in PacketIds |-> << >>]
    /\ subscriptionIds' = [s \in SubIds |-> [f \in Filters |-> 0]]

SubNext ==
    \/ SubReset
    \/ \E id \in PacketIds :
          \/ SubDropPendingSubscribe(id) \/ SubDropPendingUnsubscribe(id)
          \/ \E entries \in SubscribeRequests : SubSubscribeSent(id, entries)
          \/ \E filters \in UnsubscribeRequests : SubUnsubscribeSent(id, filters)
          \/ \E codes \in Seq(BOOLEAN) :
                SubSubackReceived(id, codes) \/ SubUnsubackReceived(id, codes)

-----------------------------------------------------------------------------

(***************************************************************************)
(* find_by_subscription_identifier(s) finds exactly the subscriptions that *)
(* are active with identifier s, each of them once: re-subscribing with    *)
(* another identifier leaves no stale entry and repeats none.              *)
(***************************************************************************)
ReverseIndexExact ==
    \A s \in SubIds, f \in Filters :
        subscriptionIds[s][f] = IF active[f] = s THEN 1 ELSE 0

=============================================================================
