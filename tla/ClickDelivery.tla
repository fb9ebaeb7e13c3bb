---------------------------- MODULE ClickDelivery ----------------------------
(***************************************************************************)
(* What the click pipeline promises from the topic to the table, as the    *)
(* docstring of src/src/worker/consumer.py states it: at-least-once.       *)
(* Clicks are published to partitions; the worker delivers them in         *)
(* batches, in any order and possibly again; and a partition's offset is   *)
(* acknowledged only past clicks that have been delivered.                 *)
(***************************************************************************)
EXTENDS Integers

CONSTANTS Partitions, MaxLog

VARIABLES
    published,      \* the number of clicks published to each partition
    delivered,      \* the clicks <<partition, offset>> that have a row
    acked           \* the acknowledged offset of each partition

deliveryVars == <<published, delivered, acked>>

Clicks == {s \in Partitions \X (0 .. MaxLog - 1) : s[2] < published[s[1]]}

DeliveryInit == /\ published = [p \in Partitions |-> 0]
                /\ delivered = {}
                /\ acked = [p \in Partitions |-> 0]

PublishClick(p) == /\ published[p] < MaxLog
                   /\ published' = [published EXCEPT ![p] = @ + 1]
                   /\ UNCHANGED <<delivered, acked>>

DeliverBatch == /\ delivered' \in SUBSET Clicks
                /\ delivered \subseteq delivered'
                /\ UNCHANGED <<published, acked>>

Acknowledge == /\ acked' \in [Partitions -> 0 .. MaxLog]
               /\ \A p \in Partitions : acked[p] <= acked'[p]
               /\ \A p \in Partitions : \A o \in 0 .. acked'[p] - 1 : <<p, o>> \in delivered
               /\ UNCHANGED <<published, delivered>>

DeliveryNext == \/ \E p \in Partitions : PublishClick(p)
                \/ DeliverBatch
                \/ Acknowledge

DeliverySpec == DeliveryInit /\ [][DeliveryNext]_deliveryVars
=============================================================================
