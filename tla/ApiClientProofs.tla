-------------------------- MODULE ApiClientProofs --------------------------
(***************************************************************************)
(* What holds of the API client for any number of requests, whatever the   *)
(* server answers and in whatever order.                                   *)
(***************************************************************************)
EXTENDS ApiClient, QueueLemmas, FiniteSetTheorems

-----------------------------------------------------------------------------
(* The inductive invariant. *)

\* Every variable stays in its domain; the bound of the events is ErrorsReject.
Typed ==
    /\ state \in [Requests -> {"new", "sent", "waiting", "refreshing", "ok", "rejected"}]
    /\ retried \subseteq Requests
    /\ refreshing \in BOOLEAN
    /\ queue \in Seq(Requests)
    /\ sends \in [Requests -> Nat]
    /\ authErrors \in Nat

Rejected == {r \in Requests : state[r] = "rejected"}

\* Each event rejects a request that was not rejected before.
ErrorsReject == authErrors <= Cardinality(Rejected)

\* What was sent once is not marked, and what waits for the refresh was sent once.
SentUnmarked ==
    /\ \A r \in Requests : state[r] = "new" => sends[r] = 0
    /\ \A r \in Requests : state[r] \in {"new", "waiting", "refreshing"} => r \notin retried
    /\ \A r \in Requests : r \notin retried => sends[r] <= 1

Inv == Typed /\ ErrorsReject /\ OneRefresh /\ SentUnmarked /\ SentTwice

-----------------------------------------------------------------------------
(* The events. *)

\* More requests that are rejected, more room for events.
LEMMA MoreRejected ==
    ASSUME Typed, ErrorsReject, Rejected \subseteq Rejected',
           \/ authErrors' = authErrors
           \/ /\ authErrors' = authErrors + 1
              /\ \E r \in Requests : r \in Rejected' \ Rejected
    PROVE  ErrorsReject'
<1>1. IsFiniteSet(Rejected) /\ IsFiniteSet(Rejected')
  BY RequestsAssumption, FS_Subset DEF Rejected
<1>2. Cardinality(Rejected) \in Nat /\ Cardinality(Rejected') \in Nat
  BY <1>1, FS_CardinalityType
<1>3. CASE authErrors' = authErrors
  <2>1. Cardinality(Rejected) <= Cardinality(Rejected')
    BY <1>1, FS_Subset
  <2> QED  BY <1>2, <1>3, <2>1 DEF ErrorsReject, Typed
<1>4. CASE /\ authErrors' = authErrors + 1
           /\ \E r \in Requests : r \in Rejected' \ Rejected
  <2>1. Rejected # Rejected'
    BY <1>4
  <2>2. /\ Cardinality(Rejected) <= Cardinality(Rejected')
        /\ Cardinality(Rejected) # Cardinality(Rejected')
    BY <1>1, <2>1, FS_Subset
  <2> QED  BY <1>2, <1>4, <2>2 DEF ErrorsReject, Typed
<1> QED  BY <1>3, <1>4

\* There are no more rejected requests than requests.
LEMMA RejectedBound ==
    ASSUME ErrorsReject, authErrors \in Nat
    PROVE  authErrors \in 0 .. Cardinality(Requests)
<1>1. IsFiniteSet(Rejected) /\ Cardinality(Rejected) <= Cardinality(Requests)
  BY RequestsAssumption, FS_Subset DEF Rejected
<1>2. Cardinality(Rejected) \in Nat /\ Cardinality(Requests) \in Nat
  BY <1>1, RequestsAssumption, FS_CardinalityType
<1> QED  BY <1>1, <1>2 DEF ErrorsReject

LEMMA InvTypeOK == Inv => TypeOK
BY RejectedBound DEF Inv, Typed, TypeOK

-----------------------------------------------------------------------------
(* What a step does to the requests it is about. *)

\* A request that is sent and not retried is in no queue.
LEMMA SentNotWaiting ==
    ASSUME Inv, NEW r \in Requests, state[r] = "sent"
    PROVE  r \notin Waiting
BY DEF Inv, OneRefresh

\* Only the request that refreshes is refreshing, and the queue waits for it.
LEMMA WhileRefreshing ==
    ASSUME Inv, NEW r \in Requests, state[r] = "refreshing"
    PROVE  /\ \A q \in Requests : state[q] = "refreshing" => q = r
           /\ \A q \in Requests : state[q] = "waiting" <=> q \in Waiting
           /\ Waiting \subseteq Requests
<1>1. Waiting \subseteq Requests
  BY SeqDef DEF Inv, Typed, Waiting, ToSet
<1> QED  BY <1>1 DEF Inv, OneRefresh

\* The empty queue.
LEMMA EmptyQueue ==
    /\ <<>> \in Seq(Requests) /\ ToSet(<<>>) = {} /\ IsInjective(<<>>)
<1>1. <<>> \in Seq(Requests) /\ DOMAIN <<>> = {}
  BY EmptySeq, LenProperties
<1> QED  BY <1>1 DEF ToSet, IsInjective

-----------------------------------------------------------------------------
(* Every step keeps the invariant. *)

\* A request that is sent, settled or refused while nothing is queued anew.
LEMMA OneSettles ==
    ASSUME Inv, NEW r \in Requests, NEW how \in {"ok", "rejected"},
           state[r] = "sent", Settle({r}, how),
           UNCHANGED <<retried, refreshing, queue>>,
           \/ authErrors' = authErrors
           \/ authErrors' = authErrors + 1 /\ how = "rejected"
    PROVE  Inv'
<1> USE DEF Inv, Settle
<1>1. Typed'
  BY DEF Typed
<1>2. ErrorsReject'
  <2>1. Rejected \subseteq Rejected' /\ (how = "rejected" => r \in Rejected' \ Rejected)
    BY DEF Rejected, Typed
  <2> QED  BY <2>1, MoreRejected
<1>3. OneRefresh'
  BY SentNotWaiting DEF OneRefresh, Typed, Waiting
<1>4. SentUnmarked' /\ SentTwice'
  BY DEF SentUnmarked, SentTwice, Typed
<1> QED  BY <1>1, <1>2, <1>3, <1>4

LEMMA InitInv == Init => Inv
<1> SUFFICES ASSUME Init PROVE Inv
  OBVIOUS
<1>1. Typed
  BY EmptyQueue DEF Init, Typed
<1>2. ErrorsReject
  <2>1. Rejected = {}
    BY DEF Init, Rejected
  <2> QED  BY <2>1, FS_EmptySet DEF Init, ErrorsReject
<1>3. OneRefresh
  BY EmptyQueue DEF Init, OneRefresh, Waiting
<1>4. SentUnmarked /\ SentTwice
  BY DEF Init, SentUnmarked, SentTwice
<1> QED  BY <1>1, <1>2, <1>3, <1>4 DEF Inv

LEMMA RequestKeeps ==
    ASSUME Inv, NEW r \in Requests, Request(r)
    PROVE  Inv'
<1> USE DEF Inv, Request, Send
<1>1. Typed'
  BY DEF Typed
<1>2. ErrorsReject'
  <2>1. Rejected \subseteq Rejected'
    BY DEF Rejected, Typed
  <2> QED  BY <2>1, MoreRejected
<1>3. OneRefresh'
  BY DEF OneRefresh, Typed, Waiting
<1>4. SentUnmarked' /\ SentTwice'
  BY DEF SentUnmarked, SentTwice, Typed
<1> QED  BY <1>1, <1>2, <1>3, <1>4

LEMMA RefusedMeanwhileKeeps ==
    ASSUME Inv, NEW r \in Requests, RefusedMeanwhile(r)
    PROVE  Inv'
<1> USE DEF Inv, RefusedMeanwhile, Settle
<1>1. /\ queue' \in Seq(Requests)
      /\ Waiting' = Waiting \cup {r}
      /\ r \notin Waiting
  BY AppendToSet, AppendProperties, SentNotWaiting DEF Typed, Waiting
<1>2. Typed'
  BY <1>1 DEF Typed
<1>3. ErrorsReject'
  <2>1. Rejected \subseteq Rejected'
    BY DEF Rejected, Typed
  <2> QED  BY <2>1, MoreRejected
<1>4. OneRefresh'
  <2>1. IsInjective(queue')
    <3>1. queue \in Seq(Requests) /\ queue' = Append(queue, r) /\ r \notin ToSet(queue)
      <4>1. ToSet(queue) = Waiting
        BY DEF OneRefresh, Waiting
      <4>2. queue \in Seq(Requests) /\ queue' = Append(queue, r)
        BY DEF Typed
      <4> QED  BY ONLY <1>1, <4>1, <4>2
    <3>2. \A i, j \in DOMAIN queue : queue[i] = queue[j] => i = j
      BY DEF OneRefresh, IsInjective
    <3>3. \A i, j \in DOMAIN Append(queue, r) :
              Append(queue, r)[i] = Append(queue, r)[j] => i = j
      BY ONLY <3>1, <3>2, AppendOnce
    <3> QED  BY ONLY <3>1, <3>3 DEF IsInjective
  <2> QED  BY <1>1, <2>1 DEF OneRefresh, Typed
<1>5. SentUnmarked' /\ SentTwice'
  BY DEF SentUnmarked, SentTwice, Typed
<1> QED  BY <1>2, <1>3, <1>4, <1>5

LEMMA RefusedFirstKeeps ==
    ASSUME Inv, NEW r \in Requests, RefusedFirst(r)
    PROVE  Inv'
<1> USE DEF Inv, RefusedFirst, Settle
<1>1. Typed'
  BY DEF Typed
<1>2. ErrorsReject'
  <2>1. Rejected \subseteq Rejected'
    BY DEF Rejected, Typed
  <2> QED  BY <2>1, MoreRejected
<1>3. OneRefresh'
  BY SentNotWaiting DEF OneRefresh, Typed, Waiting
<1>4. SentUnmarked' /\ SentTwice'
  BY DEF SentUnmarked, SentTwice, Typed
<1> QED  BY <1>1, <1>2, <1>3, <1>4

LEMMA RefreshedKeeps ==
    ASSUME Inv, NEW r \in Requests, Refreshed(r)
    PROVE  Inv'
<1> USE DEF Inv, Refreshed, Send
<1>1. Waiting' = {} /\ IsInjective(queue') /\ queue' \in Seq(Requests)
  BY EmptyQueue DEF Waiting
<1>2. Typed'
  <2>1. Waiting \subseteq Requests
    BY WhileRefreshing
  <2>2. state' \in [Requests -> {"new", "sent", "waiting", "refreshing", "ok", "rejected"}]
    BY DEF Typed
  <2>3. sends' \in [Requests -> Nat]
    BY DEF Typed
  <2>4. retried' \subseteq Requests
    BY <2>1 DEF Typed
  <2>5. refreshing' \in BOOLEAN /\ authErrors' \in Nat
    BY DEF Typed
  <2> QED  BY <1>1, <2>2, <2>3, <2>4, <2>5, Zenon DEF Typed
<1>3. ErrorsReject'
  <2>1. Rejected \subseteq Rejected'
    BY WhileRefreshing DEF Rejected, Typed
  <2> QED  BY <2>1, MoreRejected
<1>4. OneRefresh'
  BY <1>1, WhileRefreshing DEF OneRefresh, Typed
<1>5. SentUnmarked' /\ SentTwice'
  BY WhileRefreshing DEF SentUnmarked, SentTwice, Typed
<1> QED  BY <1>2, <1>3, <1>4, <1>5

LEMMA RefreshFailsKeeps ==
    ASSUME Inv, NEW r \in Requests, RefreshFails(r)
    PROVE  Inv'
<1> USE DEF Inv, RefreshFails, Settle
<1>1. Waiting' = {} /\ IsInjective(queue') /\ queue' \in Seq(Requests)
  BY EmptyQueue DEF Waiting
<1>2. Typed'
  <2>1. Waiting \subseteq Requests
    BY WhileRefreshing
  <2>2. state' \in [Requests -> {"new", "sent", "waiting", "refreshing", "ok", "rejected"}]
    BY DEF Typed
  <2>3. refreshing' \in BOOLEAN
    BY Zenon
  <2>4. authErrors' \in Nat
    <3>1. authErrors \in Nat /\ authErrors' = authErrors + 1
      BY DEF Typed
    <3> HIDE DEF Inv, RefreshFails
    <3> QED  BY <3>1
  <2>5. retried' \subseteq Requests /\ sends' \in [Requests -> Nat]
    BY DEF Typed
  <2> HIDE DEF Inv, RefreshFails
  <2> QED  BY <1>1, <2>2, <2>3, <2>4, <2>5, Zenon DEF Typed
<1>3. ErrorsReject'
  <2>1. Rejected \subseteq Rejected' /\ r \in Rejected' \ Rejected
    BY WhileRefreshing DEF Rejected, Typed
  <2> QED  BY <2>1, MoreRejected
<1>4. OneRefresh'
  BY <1>1, WhileRefreshing DEF OneRefresh, Typed
<1>5. SentUnmarked' /\ SentTwice'
  BY WhileRefreshing DEF SentUnmarked, SentTwice, Typed
<1> QED  BY <1>2, <1>3, <1>4, <1>5

LEMMA NextInv == Inv /\ [Next]_vars => Inv'
<1> SUFFICES ASSUME Inv, [Next]_vars PROVE Inv'
  OBVIOUS
<1>1. ASSUME NEW r \in Requests, Request(r) PROVE Inv'
  BY <1>1, RequestKeeps
<1>2. ASSUME NEW r \in Requests, Succeeds(r) PROVE Inv'
  BY <1>2, OneSettles DEF Succeeds
<1>3. ASSUME NEW r \in Requests, Fails(r) PROVE Inv'
  BY <1>3, OneSettles DEF Fails
<1>4. ASSUME NEW r \in Requests, RefusedAgain(r) PROVE Inv'
  BY <1>4, OneSettles DEF RefusedAgain
<1>5. ASSUME NEW r \in Requests, RefusedMeanwhile(r) PROVE Inv'
  BY <1>5, RefusedMeanwhileKeeps
<1>6. ASSUME NEW r \in Requests, RefusedFirst(r) PROVE Inv'
  BY <1>6, RefusedFirstKeeps
<1>7. ASSUME NEW r \in Requests, Refreshed(r) PROVE Inv'
  BY <1>7, RefreshedKeeps
<1>8. ASSUME NEW r \in Requests, RefreshFails(r) PROVE Inv'
  BY <1>8, RefreshFailsKeeps
<1>9. CASE UNCHANGED vars
  BY <1>9 DEF vars, Inv, Typed, ErrorsReject, Rejected, OneRefresh, Waiting, SentUnmarked, SentTwice
<1> QED  BY <1>1, <1>2, <1>3, <1>4, <1>5, <1>6, <1>7, <1>8, <1>9 DEF Next, Answer, AnswerToRefresh

LEMMA Invariance == Spec => []Inv
BY InitInv, NextInv, PTL DEF Spec

-----------------------------------------------------------------------------
(* The theorems. *)

\* Every variable stays in its domain, and the page is told to log out at most
\* once for each request, however many the page makes.
THEOREM TypeCorrect == Spec => []TypeOK
BY Invariance, InvTypeOK, PTL

\* However many requests are refused at once, one interceptor refreshes, and
\* what waits is in its queue, once.
THEOREM Refreshes == Spec => []OneRefresh
<1>1. Inv => OneRefresh
  BY DEF Inv
<1> QED  BY <1>1, Invariance, PTL

\* However refreshes and refusals mix, no request is sent a third time.
THEOREM Sends == Spec => []SentTwice
<1>1. Inv => SentTwice
  BY DEF Inv
<1> QED  BY <1>1, Invariance, PTL

=============================================================================
