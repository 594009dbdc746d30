------------------------------ MODULE Sessions ------------------------------
(***************************************************************************)
(* What JwtRegistry promises its callers.  Of each user it remembers at    *)
(* most MaxActive pairs, oldest first: it admits a pair only when there is *)
(* room, and gives up the oldest only to make room.  Only a pair that was  *)
(* admitted becomes usable; usable pairs lapse together.  That a pair is   *)
(* given up does not make it unusable.                                     *)
(***************************************************************************)
EXTENDS Naturals, Sequences

CONSTANTS Users, Tokens, Owner, MaxActive

VARIABLES list,      \* the pairs remembered of each user
          admitted,  \* pairs that were ever remembered
          usable     \* pairs whose access token is accepted until it expires

vars == <<list, admitted, usable>>

Init == /\ list = [u \in Users |-> <<>>]
        /\ admitted = {}
        /\ usable = {}

Admit(t) ==
    LET u == Owner[t] IN
    /\ Len(list[u]) < MaxActive
    /\ list' = [list EXCEPT ![u] = Append(@, t)]
    /\ admitted' = admitted \cup {t}
    /\ UNCHANGED usable

Evict(u) ==
    /\ Len(list[u]) = MaxActive
    /\ list' = [list EXCEPT ![u] = Tail(@)]
    /\ UNCHANGED <<admitted, usable>>

Forget(u) ==
    /\ list' = [list EXCEPT ![u] = <<>>]
    /\ UNCHANGED <<admitted, usable>>

Open(t) ==
    /\ t \in admitted
    /\ usable' = usable \cup {t}
    /\ UNCHANGED <<list, admitted>>

Lapse ==
    /\ usable' = {}
    /\ UNCHANGED <<list, admitted>>

Next == \/ \E t \in Tokens : Admit(t) \/ Open(t)
        \/ \E u \in Users : Evict(u) \/ Forget(u)
        \/ Lapse

Spec == Init /\ [][Next]_vars

=============================================================================
