-------------------------- MODULE MCNotifications --------------------------
(* Small instances of Notifications for TLC. *)
EXTENDS Notifications

CONSTANT u1  \* who writes, and whose role changes

WrittenBy == [m \in Messages |-> u1]
ChangedOf == [c \in RoleChanges |-> u1]

=============================================================================
