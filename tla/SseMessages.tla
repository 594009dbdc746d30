---------------------------- MODULE SseMessages ----------------------------
(***************************************************************************)
(* SseMessageRepository: the events kept for a replay.  The threads of     *)
(* sseExecutor save one message for each emitter they send to.  The deque  *)
(* and the map are each thread-safe, their combination is not: one action  *)
(* is one call on either of them.  get is left out: what is sent to a      *)
(* client carries no SSE id, so it never learns one to call get with.      *)
(***************************************************************************)
EXTENDS Naturals, FiniteSets, SequencesExt

CONSTANTS
    Ids,       \* the UUIDs that send draws, one per emitter (bounds the sends)
    Savers,    \* threads of sseExecutor
    MaxQueue,  \* MAX_QUEUE_SIZE
    NoId

\* A saver finds something to pop: fewer threads than MAX_QUEUE_SIZE.
ASSUME QueueAssumption ==
    /\ MaxQueue \in Nat \ {0}
    /\ IsFiniteSet(Savers)
    /\ Cardinality(Savers) \in 1 .. MaxQueue
    /\ NoId \notin Ids

VARIABLES
    eventIdQueue,  \* the deque, first element first
    messages,      \* ids whose message is in the map
    pc,            \* next call of each thread
    mine,          \* the id a thread saves
    popped,        \* the id a thread popped and has still to remove
    drawn          \* UUIDs that were drawn: randomUUID draws none twice

vars == <<eventIdQueue, messages, pc, mine, popped, drawn>>

Goto(p, l) == pc' = [pc EXCEPT ![p] = l]

-----------------------------------------------------------------------------
(* save, from the loop of AsyncSseService.send. *)

\* Mutant of StartSave: the message is saved without an id of its own.
StartSaveNoId(p) ==
    /\ pc[p] = "idle"
    /\ \E id \in Ids \ drawn : drawn' = drawn \cup {id}
    /\ Goto(p, "size")
    /\ UNCHANGED <<eventIdQueue, messages, mine, popped>>

StartSave(p) ==
    /\ pc[p] = "idle"
    /\ \E id \in Ids \ drawn :
         /\ mine' = [mine EXCEPT ![p] = id]
         /\ drawn' = drawn \cup {id}
    /\ Goto(p, "size")
    /\ UNCHANGED <<eventIdQueue, messages, popped>>

\* Mutant of Size: evicts one event too late.
SizeOffByOne(p) ==
    /\ pc[p] = "size"
    /\ Goto(p, IF Len(eventIdQueue) > MaxQueue THEN "pop" ELSE "push")
    /\ UNCHANGED <<eventIdQueue, messages, mine, popped, drawn>>

\* Mutant of Size: starts to evict before the queue is full.
SizeTooEarly(p) ==
    /\ pc[p] = "size"
    /\ Goto(p, IF Len(eventIdQueue) >= MaxQueue - 1 THEN "pop" ELSE "push")
    /\ UNCHANGED <<eventIdQueue, messages, mine, popped, drawn>>

Size(p) ==
    /\ pc[p] = "size"
    /\ Goto(p, IF Len(eventIdQueue) >= MaxQueue THEN "pop" ELSE "push")
    /\ UNCHANGED <<eventIdQueue, messages, mine, popped, drawn>>

\* Mutant of Pop: peek for pop, the evicted id stays queued.
PopPeeks(p) ==
    /\ pc[p] = "pop"
    /\ popped' = [popped EXCEPT ![p] = Head(eventIdQueue)]
    /\ Goto(p, "remove")
    /\ UNCHANGED <<eventIdQueue, messages, mine, drawn>>

\* pop takes the first element, which is the one pushed last.
Pop(p) ==
    /\ pc[p] = "pop"
    /\ popped' = [popped EXCEPT ![p] = Head(eventIdQueue)]
    /\ eventIdQueue' = Tail(eventIdQueue)
    /\ Goto(p, "remove")
    /\ UNCHANGED <<messages, mine, drawn>>

RemovePopped(p) ==
    /\ pc[p] = "remove"
    /\ messages' = messages \ {popped[p]}
    /\ Goto(p, "push")
    /\ UNCHANGED <<eventIdQueue, mine, popped, drawn>>

Push(p) ==
    /\ pc[p] = "push"
    /\ eventIdQueue' = <<mine[p]>> \o eventIdQueue
    /\ Goto(p, "put")
    /\ UNCHANGED <<messages, mine, popped, drawn>>

\* The map has the message; the thread sends it, and goes on to the next emitter
\* or to its next task.
Put(p) ==
    /\ pc[p] = "put"
    /\ messages' = messages \cup {mine[p]}
    /\ Goto(p, "idle")
    /\ UNCHANGED <<eventIdQueue, mine, popped, drawn>>

-----------------------------------------------------------------------------
Init ==
    /\ eventIdQueue = <<>>
    /\ messages = {}
    /\ pc     = [p \in Savers |-> "idle"]
    /\ mine   = [p \in Savers |-> NoId]
    /\ popped = [p \in Savers |-> NoId]
    /\ drawn  = {}

SaveStep(p) == StartSave(p) \/ Size(p) \/ Pop(p) \/ RemovePopped(p) \/ Push(p) \/ Put(p)

Next == \E p \in Savers : SaveStep(p)

Spec == Init /\ [][Next]_vars

-----------------------------------------------------------------------------
(* Properties. *)

Labels == {"idle", "size", "pop", "remove", "push", "put"}

\* Every variable stays in its domain.
TypeOK ==
    /\ eventIdQueue \in Seq(Ids)
    /\ messages \in SUBSET Ids
    /\ pc \in [Savers -> Labels]
    /\ mine \in [Savers -> Ids \cup {NoId}]
    /\ popped \in [Savers -> Ids \cup {NoId}]
    /\ drawn \in SUBSET Ids

\* Savers that wait to pop find something to pop, although others pop between
\* their check and their pop: pop never throws NoSuchElementException.
PopFinds == Cardinality({p \in Savers : pc[p] = "pop"}) <= Len(eventIdQueue)

\* Savers that have made room, or found room, and have not used it yet.
Pending == {p \in Savers : pc[p] \in {"remove", "push"}}

\* The size is checked before it is used: n savers can overshoot the limit by
\* n - 1, and however they interleave later, never by more.
QueueBounded == Len(eventIdQueue) + Cardinality(Pending) < MaxQueue + Cardinality(Savers)

\* A queued id has its message, unless its saver is about to store it, although
\* other savers evict from the queue and from the map in two steps.
QueuedIsStored ==
    \A i \in DOMAIN eventIdQueue :
        \/ eventIdQueue[i] \in messages
        \/ \E p \in Savers : pc[p] = "put" /\ mine[p] = eventIdQueue[i]

\* Savers whose id is not in the queue yet.
Preparing(p) == pc[p] \in {"size", "pop", "remove", "push"}

\* Ids in flight are in no two hands, and what is queued is queued once: with
\* this, removing the popped id takes no other queued event's message away.
IdsApart ==
    /\ \A i, j \in DOMAIN eventIdQueue : eventIdQueue[i] = eventIdQueue[j] => i = j
    /\ \A p \in Savers : Preparing(p) =>
         /\ mine[p] \notin ToSet(eventIdQueue)
         /\ \A q \in Savers \ {p} : Preparing(q) => mine[q] # mine[p]
    /\ \A p \in Savers : pc[p] = "remove" =>
         /\ popped[p] \notin ToSet(eventIdQueue)
         /\ \A q \in Savers : Preparing(q) => mine[q] # popped[p]

=============================================================================
