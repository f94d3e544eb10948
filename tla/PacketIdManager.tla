--------------------------- MODULE PacketIdManager ---------------------------
(***************************************************************************)
(* The pool of packet identifiers (state/packet_id.rs).                    *)
(*                                                                         *)
(* `allocate` hands out the smallest released identifier, or the next one  *)
(* that was never handed out; `release` takes an identifier back.          *)
(***************************************************************************)
EXTENDS MqttTypes

VARIABLES
    nextId,    \* next_id: the next identifier never handed out so far
    freeList,  \* free_list: released identifiers
    inUse      \* in_use: identifiers handed out and not released

pidVars == <<nextId, freeList, inUse>>

PidTypeOK ==
    /\ nextId \in 1..U16Max + 1
    /\ freeList \subseteq PacketIds
    /\ inUse \subseteq PacketIds

PidInit ==
    /\ nextId = 1
    /\ freeList = {}
    /\ inUse = {}

\* The identifiers the counting loop of `allocate` may still reach.
FreshIds == {id \in nextId..U16Max : id \notin inUse}

\* The identifiers among which `allocate` takes the smallest.
Candidates == IF freeList # {} THEN freeList ELSE FreshIds

\* `allocate` returns Some(id).
PidAllocate(id) ==
    /\ id \in Candidates
    /\ \A other \in Candidates : id <= other
    /\ freeList' = freeList \ {id}
    /\ nextId' = IF freeList # {} THEN nextId ELSE id + 1
    /\ inUse' = inUse \cup {id}

\* `allocate` returns None: the loop ran through every identifier left.
PidExhausted ==
    /\ Candidates = {}
    /\ nextId' = U16Max + 1
    /\ UNCHANGED <<freeList, inUse>>

\* `release`: an identifier that is not in use is left alone.
PidRelease(id) ==
    /\ inUse' = inUse \ {id}
    /\ freeList' = IF id \in inUse THEN freeList \cup {id} ELSE freeList
    /\ UNCHANGED nextId

PidReset ==
    /\ nextId' = 1
    /\ freeList' = {}
    /\ inUse' = {}

PidNext ==
    \/ PidExhausted \/ PidReset
    \/ \E id \in PacketIds : PidAllocate(id) \/ PidRelease(id)

\* What any use of the pool may do
PidSpec == PidInit /\ [][PidNext]_pidVars

-----------------------------------------------------------------------------

(***************************************************************************)
(* Every identifier below the counter is either in use or released, never  *)
(* both, and none above it is known to the pool: nothing is handed out     *)
(* twice and nothing is lost.                                              *)
(***************************************************************************)
PoolPartition ==
    /\ freeList \cap inUse = {}
    /\ freeList \cup inUse = 1..(nextId - 1)

=============================================================================
