--------------------------- MODULE MCJwtRegistry ---------------------------
(* Small instances of JwtRegistry for TLC. *)
EXTENDS JwtRegistry, TLC

CONSTANTS u1, u2,       \* users
          Second,       \* the tokens of u2
          Refreshed     \* tokens that a refresh may mint

OwnerOf    == [t \in Tokens |-> IF t \in Second THEN u2 ELSE u1]
OneRefresh == [t \in Tokens |-> IF t \in Refreshed THEN 1 ELSE 0]

\* Nothing orders processes, nor the tokens of one user and claim.  Not for liveness.
Symmetric == Permutations(Procs) \cup Permutations(Tokens \ (Refreshed \cup Second))

\* The locals of p that its remaining steps can still read, if its property does
\* not read what an operation was asked to end.
Live(p) ==
    [job[p] EXCEPT
        !.scope = {},
        !.tries = IF pc[p] = "acquire" THEN @ ELSE 0]

\* No guard reads the history, what was announced or whose access token was handed
\* out: runs whose properties do not either may identify states that differ there only.
WithoutHistory ==
    <<redis, issued, thisSecond, dead, cookies, pc, [p \in Procs |-> Live(p)]>>

\* The same where the refinement mapping reads what was admitted, and the promise to
\* a login who was answered and what an index lost unarmed.
WithPromises == <<WithoutHistory, admitted, held, cut>>

=============================================================================
