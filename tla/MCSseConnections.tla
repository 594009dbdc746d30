-------------------------- MODULE MCSseConnections --------------------------
(* Small instances of SseConnections for TLC. *)
EXTENDS SseConnections

CONSTANT u1

OneOwner == [e \in Emitters |-> u1]

=============================================================================
