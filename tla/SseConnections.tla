--------------------------- MODULE SseConnections ---------------------------
(***************************************************************************)
(* The emitters of connected clients: the map from users to lists, which   *)
(* connecting requests, callbacks of ended requests and sending tasks      *)
(* share without a lock.  Lists are ArrayLists: an array, of which size    *)
(* elements count, and a count of modifications.  A list is named after    *)
(* the emitter whose connection created it.                                *)
(***************************************************************************)
EXTENDS Naturals, Sequences, FiniteSets

CONSTANTS
    Users,
    Emitters,        \* one for each connection to be made
    Owner,           \* the user of each emitter
    Senders,         \* threads of sseExecutor
    ConnectThreads,  \* bounds the requests that connect at the same time
    MAX_CONNECTION,
    MaxSends,        \* bounds the sending tasks
    NoList

ASSUME ConnectionsAssumption ==
    /\ IsFiniteSet(Emitters)
    /\ Owner \in [Emitters -> Users]
    /\ ConnectThreads \in Nat \ {0}
    /\ MAX_CONNECTION \in Nat \ {0}
    /\ MaxSends \in Nat
    /\ NoList \notin Emitters

VARIABLES
    data,       \* the list of each user
    array, size, modCount,  \* of each list
    pc,         \* what becomes of each emitter
    ref, seen,  \* the list a connection adds to, and the size it read
    completed,  \* emitters that accept no event any more
    callbacks,  \* calls of remove that the container still makes
    removal,    \* the list that such a call completes, and how far it is
    sending,    \* the same for the tasks
    sends,
    raced,      \* history: users two of whose connections were saved at once
    revived,    \* history: users whose removed list was put back
    stillborn   \* history: emitters completed before their connect returned

lists   == <<array, size, modCount>>
connect == <<ref, seen>>
ends    == <<callbacks, removal>>
tasks   == <<sending, sends>>
history == <<raced, revived, stillborn>>
vars    == <<data, lists, pc, connect, completed, ends, tasks, history>>

Saving     == {"get", "size", "write", "put"}
Connecting == {e \in Emitters : pc[e] \in {"contains", "return"} \cup Saving}

Goto(e, l) == pc' = [pc EXCEPT ![e] = l]

Elements(l) == {array[l][i] : i \in 1 .. size[l]}
Listed      == {e \in Emitters : data[Owner[e]] # NoList /\ e \in Elements(data[Owner[e]])}

\* ArrayList.forEach keeps the size and the modCount it starts with.
NoLoop     == [list |-> NoList, next |-> 0, size |-> 0, mod |-> 0]
Loop(l)    == [list |-> l, next |-> 1, size |-> size[l], mod |-> modCount[l]]
Element(p) == array[p.list][p.next]
Advance(p) == IF p.next < p.size THEN [p EXCEPT !.next = @ + 1] ELSE NoLoop
\* Without a lock it notices a modification or not.
MayThrow(p) == modCount[p.list] # p.mod

-----------------------------------------------------------------------------
(* connect *)

\* A request arrives.  The emitters are counted list by list; here all at one moment,
\* for which CountFails makes up.
Count(e) ==
    /\ pc[e] = "new"
    /\ Cardinality(Connecting) < ConnectThreads
    /\ Goto(e, IF Cardinality(Listed) >= MAX_CONNECTION THEN "over" ELSE "contains")
    /\ UNCHANGED <<data, lists, connect, completed, ends, tasks, history>>

\* The forEach that counts notices that an add modified the list meanwhile.
CountFails(e) ==
    /\ pc[e] = "new"
    /\ Cardinality(Connecting) < ConnectThreads
    /\ \E f \in Emitters : pc[f] = "write"
    /\ Goto(e, "over")
    /\ UNCHANGED <<data, lists, connect, completed, ends, tasks, history>>

\* A list of one's own, which nobody else sees before it is put.
Create(e) ==
    /\ ref' = [ref EXCEPT ![e] = e]
    /\ array' = [array EXCEPT ![e] = <<e>>]
    /\ size' = [size EXCEPT ![e] = 1]
    /\ modCount' = [modCount EXCEPT ![e] = 1]
    /\ Goto(e, "put")

Contains(e) ==
    /\ pc[e] = "contains"
    /\ raced' = IF \E f \in Emitters : Owner[f] = Owner[e] /\ pc[f] \in Saving
                THEN raced \cup {Owner[e]} ELSE raced
    /\ IF data[Owner[e]] # NoList
       THEN Goto(e, "get") /\ UNCHANGED <<lists, ref>>
       ELSE Create(e)
    /\ UNCHANGED <<data, seen, completed, ends, tasks, revived, stillborn>>

\* getOrDefault
Get(e) ==
    /\ pc[e] = "get"
    /\ IF data[Owner[e]] # NoList
       THEN /\ ref' = [ref EXCEPT ![e] = data[Owner[e]]]
            /\ Goto(e, "size")
            /\ UNCHANGED lists
       ELSE Create(e)
    /\ UNCHANGED <<data, seen, completed, ends, tasks, history>>

\* add reads the size ...
ReadSize(e) ==
    /\ pc[e] = "size"
    /\ seen' = [seen EXCEPT ![e] = size[ref[e]]]
    /\ Goto(e, "write")
    /\ UNCHANGED <<data, lists, ref, completed, ends, tasks, history>>

\* Mutant of Write: it increments the size that is there, not the one it read.
WriteIncrements(e) ==
    LET l == ref[e] IN
    /\ pc[e] = "write"
    /\ array' = [array EXCEPT ![l] = SubSeq(@, 1, seen[e]) \o <<e>> \o SubSeq(@, seen[e] + 2, Len(@))]
    /\ size' = [size EXCEPT ![l] = @ + 1]
    /\ modCount' = [modCount EXCEPT ![l] = @ + 1]
    /\ Goto(e, "put")
    /\ UNCHANGED <<data, connect, completed, ends, tasks, history>>

\* ... and writes the element, perhaps over another one, and the next size.
Write(e) ==
    LET l == ref[e] IN
    /\ pc[e] = "write"
    /\ array' = [array EXCEPT ![l] = SubSeq(@, 1, seen[e]) \o <<e>> \o SubSeq(@, seen[e] + 2, Len(@))]
    /\ size' = [size EXCEPT ![l] = seen[e] + 1]
    /\ modCount' = [modCount EXCEPT ![l] = @ + 1]
    /\ Goto(e, "put")
    /\ UNCHANGED <<data, connect, completed, ends, tasks, history>>

Put(e) ==
    /\ pc[e] = "put"
    /\ data' = [data EXCEPT ![Owner[e]] = ref[e]]
    /\ revived' = IF ref[e] \notin {e, data[Owner[e]]} THEN revived \cup {Owner[e]} ELSE revived
    /\ ref' = [ref EXCEPT ![e] = NoList]
    /\ seen' = [seen EXCEPT ![e] = 0]
    /\ Goto(e, "return")
    /\ UNCHANGED <<lists, completed, ends, tasks, raced, stillborn>>

\* Spring starts the response; it registers the callbacks with the container
\* unless the emitter is complete by now.
Return(e) ==
    /\ pc[e] = "return"
    /\ Goto(e, IF e \in completed THEN "over" ELSE "open")
    /\ UNCHANGED <<data, lists, connect, completed, ends, tasks, history>>

-----------------------------------------------------------------------------
(* The end of a connection, and remove *)

\* The container calls onCompletion, before it onTimeout or onError if they apply.
End(e, n) ==
    /\ pc[e] = "open"
    /\ Goto(e, "ended")
    /\ callbacks' = [callbacks EXCEPT ![e] = n]

\* Mutant of TimesOut: no timeout.
NeverTimesOut(e) == FALSE

\* Mutant of TimesOut: no callbacks.
TimesOutSilently(e) ==
    /\ e \notin completed
    /\ pc[e] = "open"
    /\ Goto(e, "over")
    /\ UNCHANGED <<data, lists, connect, completed, ends, tasks, history>>

TimesOut(e) ==
    /\ e \notin completed
    /\ End(e, 2)
    /\ UNCHANGED <<data, lists, connect, completed, removal, tasks, history>>

\* complete was called, the container ends the request.
Completes(e) ==
    /\ e \in completed
    /\ End(e, 1)
    /\ UNCHANGED <<data, lists, connect, completed, removal, tasks, history>>

Complete(S) ==
    /\ completed' = completed \cup S
    /\ stillborn' = stillborn \cup (S \cap Connecting)
    /\ UNCHANGED <<raced, revived>>

\* What the emitter does after a callback.
AfterCallback(e, n) == Goto(e, IF n = 0 THEN "over" ELSE "ended")

\* Mutant of Remove: the list is completed but stays in the map.
RemoveKeepsList(e) ==
    LET l == data[Owner[e]] IN
    /\ pc[e] = "ended"
    /\ callbacks' = [callbacks EXCEPT ![e] = @ - 1]
    /\ Complete({e})
    /\ IF l = NoList
       THEN AfterCallback(e, callbacks[e] - 1) /\ UNCHANGED removal
       ELSE Goto(e, "removing") /\ removal' = [removal EXCEPT ![e] = Loop(l)]
    /\ UNCHANGED <<data, lists, connect, tasks>>

\* A callback sets the emitter's own flag and takes the user's list, whole.
Remove(e) ==
    LET l == data[Owner[e]] IN
    /\ pc[e] = "ended"
    /\ callbacks' = [callbacks EXCEPT ![e] = @ - 1]
    /\ data' = [data EXCEPT ![Owner[e]] = NoList]
    /\ Complete({e})
    /\ IF l = NoList
       THEN AfterCallback(e, callbacks[e] - 1) /\ UNCHANGED removal
       ELSE Goto(e, "removing") /\ removal' = [removal EXCEPT ![e] = Loop(l)]
    /\ UNCHANGED <<lists, connect, tasks>>

\* Mutant of CompleteNext: the list is dropped, its emitters are not completed.
DropList(e) ==
    /\ pc[e] = "removing"
    /\ removal' = [removal EXCEPT ![e] = NoLoop]
    /\ AfterCallback(e, callbacks[e])
    /\ UNCHANGED <<data, lists, connect, completed, callbacks, tasks, history>>

CompleteNext(e) ==
    /\ pc[e] = "removing"
    /\ \/ /\ Complete({Element(removal[e])})
          /\ removal' = [removal EXCEPT ![e] = Advance(@)]
       \/ /\ MayThrow(removal[e])
          /\ removal' = [removal EXCEPT ![e] = NoLoop]
          /\ UNCHANGED <<completed, history>>
    /\ IF removal'[e] = NoLoop THEN AfterCallback(e, callbacks[e]) ELSE UNCHANGED pc
    /\ UNCHANGED <<data, lists, connect, callbacks, tasks>>

-----------------------------------------------------------------------------
(* send, for one receiver.  getEmitters asks containsKey, then get; a removal *)
(* in between makes the task end with an exception, having changed nothing.  *)

StartSend(s, u) ==
    /\ sending[s] = NoLoop
    /\ sends < MaxSends
    /\ data[u] # NoList
    /\ sends' = sends + 1
    /\ sending' = [sending EXCEPT ![s] = Loop(data[u])]
    /\ UNCHANGED <<data, lists, pc, connect, completed, ends, history>>

\* An emitter without a response keeps the event; an IOException ends the
\* request, and the complete() that follows it is ignored.
SendNext(s) ==
    LET p == sending[s]  e == Element(p) IN
    /\ p # NoLoop
    /\ e \notin completed
    /\ sending' = [sending EXCEPT ![s] = Advance(p)]
    /\ \/ UNCHANGED <<pc, callbacks>>
       \/ End(e, 2)
    /\ UNCHANGED <<data, lists, connect, completed, removal, sends, history>>

\* The emitter refuses, because it is complete or ending, or the list was modified.
SendThrows(s) ==
    /\ sending[s] # NoLoop
    /\ \/ Element(sending[s]) \in completed
       \/ pc[Element(sending[s])] = "ended"
       \/ MayThrow(sending[s])
    /\ sending' = [sending EXCEPT ![s] = NoLoop]
    /\ UNCHANGED <<data, lists, pc, connect, completed, ends, sends, history>>

-----------------------------------------------------------------------------
Init ==
    /\ data      = [u \in Users |-> NoList]
    /\ array     = [l \in Emitters |-> <<>>]
    /\ size      = [l \in Emitters |-> 0]
    /\ modCount  = [l \in Emitters |-> 0]
    /\ pc        = [e \in Emitters |-> "new"]
    /\ ref       = [e \in Emitters |-> NoList]
    /\ seen      = [e \in Emitters |-> 0]
    /\ completed = {}
    /\ callbacks = [e \in Emitters |-> 0]
    /\ removal   = [e \in Emitters |-> NoLoop]
    /\ sending   = [s \in Senders |-> NoLoop]
    /\ sends     = 0
    /\ raced     = {}
    /\ revived   = {}
    /\ stillborn = {}

ConnectStep(e) ==
    Contains(e) \/ Get(e) \/ ReadSize(e) \/ Write(e) \/ Put(e) \/ Return(e)

EndStep(e) == TimesOut(e) \/ Completes(e) \/ Remove(e) \/ CompleteNext(e)

SendStep(s) == SendNext(s) \/ SendThrows(s)

Next ==
    \/ \E e \in Emitters : Count(e) \/ CountFails(e) \/ ConnectStep(e) \/ EndStep(e)
    \/ \E s \in Senders : SendStep(s) \/ \E u \in Users : StartSend(s, u)

Spec == Init /\ [][Next]_vars

\* Request threads run, connections end after an hour at the latest.
FairSpec == Spec /\ \A e \in Emitters : WF_vars(ConnectStep(e)) /\ WF_vars(EndStep(e))

-----------------------------------------------------------------------------
(* Properties. *)

Labels == {"new", "contains", "return", "open", "ended", "removing", "over"} \cup Saving

Loops == [list : Emitters \cup {NoList}, next : Nat, size : Nat, mod : Nat]

\* Every variable stays in its domain; sizes stay within the arrays.
TypeOK ==
    /\ data \in [Users -> Emitters \cup {NoList}]
    /\ array \in [Emitters -> Seq(Emitters)]
    /\ size \in [Emitters -> Nat]
    /\ \A l \in Emitters : size[l] <= Len(array[l])
    /\ modCount \in [Emitters -> Nat]
    /\ pc \in [Emitters -> Labels]
    /\ ref \in [Emitters -> Emitters \cup {NoList}]
    /\ seen \in [Emitters -> Nat]
    /\ completed \subseteq Emitters
    /\ callbacks \in [Emitters -> 0 .. 2]
    /\ removal \in [Emitters -> Loops]
    /\ sending \in [Senders -> Loops]
    /\ sends \in 0 .. MaxSends
    /\ raced \subseteq Users /\ revived \subseteq Users /\ stillborn \subseteq Emitters

\* Nothing is left in the map of users whose connections are all over, whichever
\* of them put the list and whichever removed it, unless one was completed while
\* it connected, for which the container makes no callback.
NoLeak ==
    \A u \in Users :
        data[u] # NoList =>
            \E e \in Emitters :
                /\ Owner[e] = u
                /\ \/ pc[e] \notin {"new", "over"}
                   \/ e \in stillborn /\ (e \in Listed \/ u \in raced)

\* An open connection is not deaf: the user's sends find it, or a removal is
\* about to close it, or a list it is in is about to be put back.  Only saving
\* two connections of one user at once breaks this.
OpenIsListed ==
    \A e \in Emitters :
        pc[e] = "open" /\ e \notin completed /\ Owner[e] \notin raced =>
            \/ e \in Listed
            \/ \E f \in Emitters :
                 /\ pc[f] = "removing"
                 /\ \E i \in removal[f].next .. removal[f].size : array[removal[f].list][i] = e
            \/ \E f \in Emitters :
                 Owner[f] = Owner[e] /\ pc[f] \in {"size", "write", "put"} /\ e \in Elements(ref[f])

\* A connection that is over, at which a send would throw and leave out the
\* receivers that follow, is listed only after a connect has put a list back
\* that a callback had removed, or if it was completed while it connected.
OverIsRePut ==
    \A e \in Listed \ stillborn : pc[e] = "over" => Owner[e] \in revived

\* When clients stop connecting, the map becomes and stays empty: every emitter
\* that a late put leaves behind completed goes with a connection that lives on.
MapEmpties ==
    \A u \in Users : <>[](data[u] = NoList \/ \E e \in stillborn : Owner[e] = u)

=============================================================================
