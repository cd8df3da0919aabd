---------------------------- MODULE MCKafkaRunner ---------------------------
(* Small instances of KafkaRunner. *)
EXTENDS KafkaRunner

\* Three messages on every partition.
ShortLog == [q \in Partitions |-> 3]

=============================================================================
