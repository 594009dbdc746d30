--------------------------- MODULE MCSseMessages ---------------------------
(* Small instances of SseMessages for TLC. *)
EXTENDS SseMessages

\* Threads are interchangeable, and so are ids.
Symmetric == Permutations(Savers) \cup Permutations(Ids)

=============================================================================
