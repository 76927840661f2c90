---------------------------- MODULE MCKafkaInput ----------------------------
(* Instances of KafkaInput for TLC. *)
EXTENDS KafkaInput, TLC

MCNothingDeleted == [p \in Partitions |-> 0]
MCRetention == [p \in Partitions |-> 1]
MCThirdEmpty == {<<p, 2>> : p \in Partitions}
MCNone == {}
=============================================================================
