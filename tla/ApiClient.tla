----------------------------- MODULE ApiClient -----------------------------
(***************************************************************************)
(* The front end's API client: what its response interceptor does with     *)
(* requests that the server refuses for their token.  One of them refreshes *)
(* the token, those refused meanwhile wait, then all are sent once more.   *)
(* Each action is what the browser runs without an await in between.       *)
(***************************************************************************)
EXTENDS Naturals, FiniteSets, SequencesExt

CONSTANT Requests

ASSUME RequestsAssumption == IsFiniteSet(Requests)

VARIABLES
    state,       \* of each request
    retried,     \* requests with the _retry header
    refreshing,  \* Ys: an interceptor awaits refreshToken
    queue,       \* pi: requests that wait for it
    sends,       \* history: how often each request was sent
    authErrors   \* history: "auth-error" events, upon which the page logs out

vars == <<state, retried, refreshing, queue, sends, authErrors>>

Waiting == ToSet(queue)

Send(R) == /\ state' = [r \in Requests |-> IF r \in R THEN "sent" ELSE state[r]]
           /\ sends' = [r \in Requests |-> IF r \in R THEN sends[r] + 1 ELSE sends[r]]

Settle(R, how) == /\ state' = [r \in Requests |-> IF r \in R THEN how ELSE state[r]]
                  /\ UNCHANGED sends

Request(r) ==
    /\ state[r] = "new"
    /\ Send({r})
    /\ UNCHANGED <<retried, refreshing, queue, authErrors>>

Succeeds(r) ==
    /\ state[r] = "sent"
    /\ Settle({r}, "ok")
    /\ UNCHANGED <<retried, refreshing, queue, authErrors>>

\* No answer, or an error other than 401.
Fails(r) ==
    /\ state[r] = "sent"
    /\ Settle({r}, "rejected")
    /\ UNCHANGED <<retried, refreshing, queue, authErrors>>

-----------------------------------------------------------------------------
(* 401 *)

\* Mutant of RefusedAgain: the event is raised, the request not rejected.
RefusedAgainAndAgain(r) ==
    /\ state[r] = "sent"
    /\ r \in retried
    /\ authErrors' = authErrors + 1
    /\ UNCHANGED <<state, retried, refreshing, queue, sends>>

RefusedAgain(r) ==
    /\ state[r] = "sent"
    /\ r \in retried
    /\ authErrors' = authErrors + 1
    /\ Settle({r}, "rejected")
    /\ UNCHANGED <<retried, refreshing, queue>>

RefusedMeanwhile(r) ==
    /\ state[r] = "sent"
    /\ r \notin retried
    /\ refreshing
    /\ queue' = Append(queue, r)
    /\ Settle({r}, "waiting")
    /\ UNCHANGED <<retried, refreshing, authErrors>>

\* Mutant of RefusedFirst: the flag is not looked at.
RefreshAnyway(r) ==
    /\ state[r] = "sent"
    /\ r \notin retried
    /\ refreshing' = TRUE
    /\ Settle({r}, "refreshing")
    /\ UNCHANGED <<retried, queue, authErrors>>

RefusedFirst(r) ==
    /\ state[r] = "sent"
    /\ r \notin retried
    /\ ~refreshing
    /\ refreshing' = TRUE
    /\ Settle({r}, "refreshing")
    /\ UNCHANGED <<retried, queue, authErrors>>

-----------------------------------------------------------------------------
(* The answer to the refresh *)

\* Mutant of Refreshed: the waiting requests are sent without the header.
RefreshedUnmarked(r) ==
    /\ state[r] = "refreshing"
    /\ Send({r} \cup Waiting)
    /\ retried' = retried \cup {r}
    /\ queue' = <<>>
    /\ refreshing' = FALSE
    /\ UNCHANGED authErrors

Refreshed(r) ==
    /\ state[r] = "refreshing"
    /\ Send({r} \cup Waiting)
    /\ retried' = retried \cup {r} \cup Waiting
    /\ queue' = <<>>
    /\ refreshing' = FALSE
    /\ UNCHANGED authErrors

\* Mutant of RefreshFails: the queue is dropped, what waits in it never settles.
RefreshFailsQuietly(r) ==
    /\ state[r] = "refreshing"
    /\ Settle({r}, "rejected")
    /\ queue' = <<>>
    /\ refreshing' = FALSE
    /\ authErrors' = authErrors + 1
    /\ UNCHANGED retried

RefreshFails(r) ==
    /\ state[r] = "refreshing"
    /\ Settle({r} \cup Waiting, "rejected")
    /\ queue' = <<>>
    /\ refreshing' = FALSE
    /\ authErrors' = authErrors + 1
    /\ UNCHANGED retried

-----------------------------------------------------------------------------
Init ==
    /\ state      = [r \in Requests |-> "new"]
    /\ retried    = {}
    /\ refreshing = FALSE
    /\ queue      = <<>>
    /\ sends      = [r \in Requests |-> 0]
    /\ authErrors = 0

Answer(r) == Succeeds(r) \/ Fails(r) \/ RefusedAgain(r) \/ RefusedMeanwhile(r) \/ RefusedFirst(r)

AnswerToRefresh(r) == Refreshed(r) \/ RefreshFails(r)

Next == \E r \in Requests : Request(r) \/ Answer(r) \/ AnswerToRefresh(r)

Spec == Init /\ [][Next]_vars

\* Every request is answered or fails, the refresh included.
FairSpec == Spec /\ \A r \in Requests : WF_vars(Answer(r)) /\ WF_vars(AnswerToRefresh(r))

-----------------------------------------------------------------------------
(* Properties. *)

\* Every variable stays in its domain; the page is told to log out at most once
\* for each request.
TypeOK ==
    /\ state \in [Requests -> {"new", "sent", "waiting", "refreshing", "ok", "rejected"}]
    /\ retried \subseteq Requests
    /\ refreshing \in BOOLEAN
    /\ queue \in Seq(Requests)
    /\ sends \in [Requests -> Nat]
    /\ authErrors \in 0 .. Cardinality(Requests)

\* The flag is up exactly as long as one interceptor awaits the refresh; what is
\* refused meanwhile is in the queue, once, and nothing waits when nobody is
\* going to send it again or to reject it.
OneRefresh ==
    /\ refreshing <=> \E r \in Requests : state[r] = "refreshing"
    /\ \A r, s \in Requests : state[r] = "refreshing" /\ state[s] = "refreshing" => r = s
    /\ \A r \in Requests : r \in Waiting <=> state[r] = "waiting"
    /\ IsInjective(queue)
    /\ queue # <<>> => refreshing

\* No request is sent more than twice, however refreshes and refusals mix: a
\* server that refuses every token is not asked forever.
SentTwice == \A r \in Requests : sends[r] <= 2

\* Whoever waits for an answer gets one or an error, also through the queue.
RequestsSettle ==
    \A r \in Requests : state[r] = "sent" ~> state[r] \in {"ok", "rejected"}

=============================================================================
