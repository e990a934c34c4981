--------------------------- MODULE MCQueueManager ---------------------------
(* QueueManager on four messages, one of them without recipients, for TLC. *)
EXTENDS QueueManager, TLC

CONSTANTS q1, q2, q3, q4, d1

MCDomainOf   == [i \in Ids |-> IF i = q4 THEN NoDomain ELSE d1]
MCPriorityOf == [i \in Ids |-> IF i = q1 THEN 3 ELSE 1]

=============================================================================
