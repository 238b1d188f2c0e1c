--------------------------- MODULE MCPersistence ---------------------------
(* TLC instances of Persistence: ids whose specs share a local port.       *)
EXTENDS Persistence

OnePort == [id \in Ids |-> 80]
=============================================================================
