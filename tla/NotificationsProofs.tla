------------------------ MODULE NotificationsProofs ------------------------
(***************************************************************************)
(* What holds of the notifications for any number of users, events, tasks, *)
(* restarts and failures.                                                  *)
(***************************************************************************)
EXTENDS Notifications, FiniteSetTheorems, TLAPS

-----------------------------------------------------------------------------
(* The inductive invariant: the domains of the variables first. *)

MembersOK ==
    /\ channel \in BOOLEAN /\ private \in BOOLEAN
    /\ gone \subseteq Users /\ profiled \subseteq Users
    /\ written \subseteq Messages
    /\ readStatuses \in [Users -> Nat]
    /\ checked \in [Users -> Nat]
    /\ stayed \in [Messages -> SUBSET Users]

RecordsOK ==
    /\ tx \in [Events -> TxStates]
    /\ outgoing \subseteq Events
    /\ record \in [Events -> {"none", "logged", "handed", "acked"}]
    /\ attempts \in [Events -> 0 .. MaxDeliveries]

TaskType == [pc : Labels, to : [Users -> Nat]]

TasksOK ==
    /\ rows \in [Events -> [Users -> Nat]]
    /\ task \in [Events -> [Deliveries -> TaskType]]
    /\ sent \subseteq Events \X Users

ListsOK ==
    /\ cache \in [Users -> [Events -> Nat] \cup {NoList}]
    /\ reading \in [Users -> [Events -> Nat] \cup {NoList}]

BoundsOK ==
    /\ restarts \in 0 .. MaxRestarts
    /\ redeliveries \in 0 .. MaxRedeliveries
    /\ faults \in 0 .. MaxFaults
    /\ lost \subseteq Events

\* UNIQUE (user_id, channel_id)
UniqueReadStatus == \A u \in Users : readStatuses[u] <= 1

\* An event leaves its request when the transaction has committed.
FromCommit ==
    \A e \in Events : tx[e] # "committed" =>
        /\ e \notin outgoing
        /\ record[e] = "none"
        /\ \A n \in Deliveries : task[e][n].pc = "none"
        /\ \A u \in Users : rows[e][u] = 0

\* It is published once.
PublishedOnce == \A e \in outgoing : record[e] = "none"

\* A record that the container has not given up may be handed over again.
Retried == \A e \in Events : record[e] # "acked" => attempts[e] < MaxDeliveries

\* A task holds one notification per receiver.
OneEach == \A e \in Events, n \in Deliveries, u \in Users : task[e][n].to[u] <= 1

HandedOver(e) == {n \in Deliveries : task[e][n].pc # "none"}
MostTasks(e)  == redeliveries + IF record[e] \in {"handed", "acked"} THEN 1 ELSE 0

\* A record gets a task of the process once, and once more for each redelivery.
TaskPerHandOver == \A e \in Events : \E k \in 0 .. MostTasks(e) : HandedOver(e) = 1 .. k

SaveTried(e) == {n \in Deliveries : task[e][n].pc \in {"evict", "send", "done"}}

\* A task inserts its rows once.
RowPerSave == \A e \in Events, u \in Users : rows[e][u] <= Cardinality(SaveTried(e))

\* Rows come before the events that announce them.
SavedFirst ==
    \A e \in Events, n \in Deliveries, u \in Users :
        task[e][n].pc \in {"evict", "send"} /\ task[e][n].to[u] > 0 => rows[e][u] > 0

IInv ==
    /\ MembersOK /\ RecordsOK /\ TasksOK /\ ListsOK /\ BoundsOK
    /\ UniqueReadStatus /\ OneEach
    /\ FromCommit /\ PublishedOnce /\ Retried
    /\ TaskPerHandOver /\ RowPerSave
    /\ SavedFirst /\ SentIsStored

-----------------------------------------------------------------------------
(* Which steps change what. *)

LEMMA MembersChange ==
    ASSUME [Next]_vars
    PROVE  \/ UNCHANGED members
           \/ \E u \in Users : \/ CheckReadStatus(u) \/ InsertReadStatus(u)
                               \/ DeleteUser(u) \/ GetsProfile(u)
           \/ \E m \in Messages : DeleteMessage(m)
           \/ DeleteChannel
           \/ \E e \in Events : Commit(e)
           \/ Restart
<1>1. CASE vars' = vars
  BY <1>1 DEF vars
<1>2. CASE Request
  BY <1>2, NotificationsAssumption DEF Request, Events, Begin, RollBack, Report
<1>3. ASSUME NEW e \in Events, PublishStep(e) \/ ConsumerStep(e) \/ Redeliver(e)
      PROVE  UNCHANGED members
  BY <1>3 DEF PublishStep, ConsumerStep, Publish, PublishFails, HandOver, HandOverRejected,
              CommitOffset, Redeliver
<1>4. ASSUME NEW e \in Events, NEW n \in Deliveries, TaskStep(e, n)
      PROVE  UNCHANGED members
  BY <1>4 DEF TaskStep, Look, LookFails, Save, SaveFails, Evict, Send, EndTask
<1>5. ASSUME NEW u \in Readers, ReadRows(u) \/ PutList(u) \/ ListExpires(u)
      PROVE  UNCHANGED members
  BY <1>5 DEF ReadRows, PutList, ListExpires
<1> QED  BY <1>1, <1>2, <1>3, <1>4, <1>5 DEF Next

LEMMA RecordsChange ==
    ASSUME [Next]_vars
    PROVE  \/ UNCHANGED <<tx, outgoing, record, attempts>>
           \/ \E e \in Events : \/ Begin(e) \/ Commit(e) \/ RollBack(e) \/ Report(e)
                                \/ PublishStep(e) \/ ConsumerStep(e) \/ Redeliver(e)
           \/ Restart
<1>1. CASE vars' = vars
  BY <1>1 DEF vars, notifying, kafka
<1>2. CASE Request
  BY <1>2 DEF Request, CheckReadStatus, InsertReadStatus, DeleteUser, GetsProfile,
              DeleteMessage, DeleteChannel, Events, notifying, kafka
<1>3. ASSUME NEW e \in Events, NEW n \in Deliveries, TaskStep(e, n)
      PROVE  UNCHANGED <<tx, outgoing, kafka>>
  BY <1>3 DEF TaskStep, Look, LookFails, Save, SaveFails, Evict, Send, EndTask
<1>4. ASSUME NEW u \in Readers, ReadRows(u) \/ PutList(u) \/ ListExpires(u)
      PROVE  UNCHANGED <<tx, outgoing, kafka>>
  BY <1>4 DEF ReadRows, PutList, ListExpires
<1> QED  BY <1>1, <1>2, <1>3, <1>4 DEF Next, kafka

LEMMA TasksChange ==
    ASSUME [Next]_vars
    PROVE  \/ UNCHANGED <<rows, task, sent>>
           \/ \E e \in Events : HandOver(e)
           \/ \E e \in Events, n \in Deliveries : TaskStep(e, n)
           \/ Restart
<1>1. CASE vars' = vars
  BY <1>1 DEF vars, notifying
<1>2. CASE Request
  BY <1>2 DEF Request, CheckReadStatus, InsertReadStatus, DeleteUser, GetsProfile,
              DeleteMessage, DeleteChannel, Begin, Commit, RollBack, Report, notifying
<1>3. ASSUME NEW e \in Events, PublishStep(e) \/ ConsumerStep(e) \/ Redeliver(e)
      PROVE  UNCHANGED <<rows, task, sent>> \/ HandOver(e)
  BY <1>3 DEF PublishStep, ConsumerStep, Publish, PublishFails, HandOverRejected, CommitOffset,
              Redeliver
<1>4. ASSUME NEW u \in Readers, ReadRows(u) \/ PutList(u) \/ ListExpires(u)
      PROVE  UNCHANGED <<rows, task, sent>>
  BY <1>4 DEF ReadRows, PutList, ListExpires
<1> QED  BY <1>1, <1>2, <1>3, <1>4 DEF Next

LEMMA ListsChange ==
    ASSUME [Next]_vars
    PROVE  \/ UNCHANGED <<cache, reading>>
           \/ \E e \in Events, n \in Deliveries : Evict(e, n)
           \/ \E u \in Users : ReadRows(u) \/ PutList(u) \/ ListExpires(u)
           \/ Restart
<1>1. CASE vars' = vars
  BY <1>1 DEF vars, notifying, lists
<1>2. CASE Request
  BY <1>2 DEF Request, CheckReadStatus, InsertReadStatus, DeleteUser, GetsProfile,
              DeleteMessage, DeleteChannel, Begin, Commit, RollBack, Report, notifying, lists
<1>3. ASSUME NEW e \in Events, PublishStep(e) \/ ConsumerStep(e) \/ Redeliver(e)
      PROVE  UNCHANGED lists
  BY <1>3 DEF PublishStep, ConsumerStep, Publish, PublishFails, HandOver, HandOverRejected,
              CommitOffset, Redeliver
<1>4. ASSUME NEW e \in Events, NEW n \in Deliveries, TaskStep(e, n)
      PROVE  UNCHANGED lists \/ Evict(e, n)
  BY <1>4 DEF TaskStep, Look, LookFails, Save, SaveFails, Send, EndTask
<1> QED  BY <1>1, <1>2, <1>3, <1>4, NotificationsAssumption DEF Next, lists

LEMMA BoundsChange ==
    ASSUME [Next]_vars
    PROVE  \/ UNCHANGED <<bounds, lost>>
           \/ \E e \in Events : Fault(e) \/ Redeliver(e)
           \/ \E e \in Events : UNCHANGED bounds /\ lost' = lost \cup {e}
           \/ Restart
<1>1. CASE vars' = vars
  BY <1>1 DEF vars, notifying, bounds
<1>2. CASE Request
  BY <1>2 DEF Request, CheckReadStatus, InsertReadStatus, DeleteUser, GetsProfile,
              DeleteMessage, DeleteChannel, Begin, Commit, RollBack, Report, Submit, Events,
              notifying, bounds
<1>3. ASSUME NEW e \in Events, PublishStep(e) \/ ConsumerStep(e) \/ Redeliver(e)
      PROVE  UNCHANGED <<bounds, lost>> \/ Fault(e) \/ Redeliver(e)
  BY <1>3 DEF PublishStep, ConsumerStep, Publish, PublishFails, HandOver, HandOverRejected,
              CommitOffset
<1>4. ASSUME NEW e \in Events, NEW n \in Deliveries, TaskStep(e, n)
      PROVE  \/ UNCHANGED <<bounds, lost>> \/ Fault(e)
             \/ UNCHANGED bounds /\ lost' = lost \cup {e}
  BY <1>4 DEF TaskStep, Look, LookFails, Save, SaveFails, Evict, Send, EndTask, bounds
<1>5. ASSUME NEW u \in Readers, ReadRows(u) \/ PutList(u) \/ ListExpires(u)
      PROVE  UNCHANGED <<bounds, lost>>
  BY <1>5 DEF ReadRows, PutList, ListExpires
<1> QED  BY <1>1, <1>2, <1>3, <1>4, <1>5 DEF Next

-----------------------------------------------------------------------------
(* It holds at first, and every step keeps it. *)

LEMMA TypeParts == TypeOK <=> MembersOK /\ RecordsOK /\ TasksOK /\ ListsOK /\ BoundsOK
BY DEF TypeOK, MembersOK, RecordsOK, TasksOK, ListsOK, BoundsOK, TaskType

LEMMA Init_IInv == Init => IInv
<1> SUFFICES ASSUME Init PROVE IInv
  OBVIOUS
<1>1. \A e \in Events, n \in Deliveries : task[e][n] = NoTask
  BY DEF Init
<1>2. MembersOK /\ RecordsOK /\ TasksOK /\ ListsOK /\ BoundsOK
  <2>1. MembersOK /\ RecordsOK
    BY NotificationsAssumption DEF Init, MembersOK, RecordsOK, TxStates, Nobody
  <2>2. TasksOK
    BY DEF Init, TasksOK, TaskType, Labels, NoTask, Nobody
  <2>3. ListsOK /\ BoundsOK
    BY NotificationsAssumption DEF Init, ListsOK, BoundsOK
  <2> QED  BY <2>1, <2>2, <2>3
<1>3. UniqueReadStatus /\ OneEach
  <2>1. UniqueReadStatus
    <3>1. readStatuses \in [Users -> {0, 1}]
      BY DEF Init
    <3> QED  BY <3>1 DEF UniqueReadStatus
  <2>2. OneEach
    BY <1>1 DEF OneEach, NoTask, Nobody
  <2> QED  BY <2>1, <2>2
<1>4. FromCommit /\ PublishedOnce /\ Retried
  BY <1>1, NotificationsAssumption DEF Init, FromCommit, PublishedOnce, Retried, NoTask, Nobody
<1>5. TaskPerHandOver
  <2> SUFFICES ASSUME NEW e \in Events
               PROVE  0 \in 0 .. MostTasks(e) /\ HandedOver(e) = 1 .. 0
    BY DEF TaskPerHandOver
  <2>1. MostTasks(e) = 0
    BY DEF Init, MostTasks
  <2>2. HandedOver(e) = {}
    BY <1>1 DEF HandedOver, NoTask
  <2> QED  BY <2>1, <2>2
<1>6. RowPerSave
  <2> SUFFICES ASSUME NEW e \in Events, NEW u \in Users
               PROVE  rows[e][u] <= Cardinality(SaveTried(e))
    BY DEF RowPerSave
  <2>1. SaveTried(e) = {}
    BY <1>1 DEF SaveTried, NoTask
  <2> QED  BY <2>1, FS_EmptySet DEF Init, Nobody
<1>7. SavedFirst /\ SentIsStored
  BY <1>1 DEF Init, SavedFirst, SentIsStored, NoTask
<1> QED  BY <1>2, <1>3, <1>4, <1>5, <1>6, <1>7 DEF IInv

\* Read statuses are unique per user, whoever races to insert them.
LEMMA MembersStep ==
    ASSUME IInv, [Next]_vars
    PROVE  MembersOK' /\ UniqueReadStatus'
<1> USE DEF IInv, MembersOK, UniqueReadStatus, Nobody
<1>1. CASE UNCHANGED members
  BY <1>1 DEF members, accounts
<1>2. ASSUME NEW u \in Users, CheckReadStatus(u)
      PROVE  MembersOK' /\ UniqueReadStatus'
  BY <1>2 DEF CheckReadStatus, accounts
<1>3. ASSUME NEW u \in Users, InsertReadStatus(u)
      PROVE  MembersOK' /\ UniqueReadStatus'
  BY <1>3 DEF InsertReadStatus, accounts
<1>4. ASSUME NEW u \in Users, DeleteUser(u) \/ GetsProfile(u)
      PROVE  MembersOK' /\ UniqueReadStatus'
  BY <1>4 DEF DeleteUser, GetsProfile
<1>5. ASSUME NEW m \in Messages, DeleteMessage(m)
      PROVE  MembersOK' /\ UniqueReadStatus'
  BY <1>5 DEF DeleteMessage, accounts
<1>6. CASE DeleteChannel
  <2>1. /\ channel' = FALSE /\ readStatuses' = Nobody /\ written' = {}
        /\ stayed' = [m \in Messages |-> {}]
        /\ UNCHANGED <<private, gone, profiled, checked>>
    BY <1>6 DEF DeleteChannel, accounts
  <2>2. stayed' \in [Messages -> SUBSET Users]
    BY <2>1
  <2>3. readStatuses' \in [Users -> Nat] /\ UniqueReadStatus'
    BY <2>1
  <2> QED  BY <2>1, <2>2, <2>3
<1>7. ASSUME NEW e \in Events, Commit(e)
      PROVE  MembersOK' /\ UniqueReadStatus'
  <2>1. /\ written' = written \cup ({e} \cap Messages)
        /\ stayed' = [m \in Messages |-> IF m = e THEN {u \in Users : readStatuses[u] > 0}
                                         ELSE stayed[m]]
        /\ UNCHANGED <<channel, private, gone, profiled, readStatuses, checked>>
    BY <1>7 DEF Commit, accounts
  <2>2. stayed' \in [Messages -> SUBSET Users]
    BY <2>1
  <2> QED  BY <2>1, <2>2
<1>8. CASE Restart
  <2>1. /\ channel' = FALSE /\ written' = {} /\ profiled' = {} /\ gone' \subseteq Users
        /\ readStatuses' = Nobody /\ checked' = Nobody
        /\ stayed' = [m \in Messages |-> {}]
        /\ private' = private
    BY <1>8 DEF Restart
  <2>2. stayed' \in [Messages -> SUBSET Users]
    BY <2>1
  <2>3. readStatuses' \in [Users -> Nat] /\ checked' \in [Users -> Nat] /\ UniqueReadStatus'
    BY <2>1
  <2> QED  BY <2>1, <2>2, <2>3
<1> QED  BY <1>1, <1>2, <1>3, <1>4, <1>5, <1>6, <1>7, <1>8, MembersChange

LEMMA ListsStep ==
    ASSUME IInv, [Next]_vars
    PROVE  ListsOK'
<1> USE DEF IInv, ListsOK, TasksOK
<1>1. CASE UNCHANGED <<cache, reading>>
  BY <1>1
<1>2. ASSUME NEW e \in Events, NEW n \in Deliveries, Evict(e, n)
      PROVE  ListsOK'
  BY <1>2 DEF Evict
<1>3. ASSUME NEW u \in Users, ReadRows(u) \/ PutList(u) \/ ListExpires(u)
      PROVE  ListsOK'
  <2>1. List(u) \in [Events -> Nat]
    BY DEF List
  <2> QED  BY <1>3, <2>1 DEF ReadRows, PutList, ListExpires
<1>4. CASE Restart
  BY <1>4 DEF Restart
<1> QED  BY <1>1, <1>2, <1>3, <1>4, ListsChange

LEMMA BoundsStep ==
    ASSUME IInv, [Next]_vars
    PROVE  BoundsOK' /\ redeliveries' >= redeliveries
<1> USE NotificationsAssumption DEF IInv, BoundsOK
<1>1. CASE UNCHANGED <<bounds, lost>>
  BY <1>1 DEF bounds
<1>2. ASSUME NEW e \in Events, Fault(e)
      PROVE  BoundsOK' /\ redeliveries' >= redeliveries
  <2>1. /\ faults < MaxFaults /\ faults' = faults + 1
        /\ lost' = lost \cup {e}
        /\ UNCHANGED <<restarts, redeliveries>>
    BY <1>2 DEF Fault
  <2> QED  BY <2>1
<1>3. ASSUME NEW e \in Events, Redeliver(e)
      PROVE  BoundsOK' /\ redeliveries' >= redeliveries
  BY <1>3 DEF Redeliver
<1>4. ASSUME NEW e \in Events, UNCHANGED bounds, lost' = lost \cup {e}
      PROVE  BoundsOK' /\ redeliveries' >= redeliveries
  BY <1>4 DEF bounds
<1>5. CASE Restart
  <2>1. /\ restarts < MaxRestarts /\ restarts' = restarts + 1
        /\ UNCHANGED <<redeliveries, faults>>
        /\ lost' \subseteq Events
    BY <1>5 DEF Restart
  <2> QED  BY <2>1
<1> QED  BY <1>1, <1>2, <1>3, <1>4, <1>5, BoundsChange

\* An event is published by its commit, once, and its record is retried in vain
\* MaxDeliveries times at most.
LEMMA RecordsStep ==
    ASSUME IInv, [Next]_vars
    PROVE  RecordsOK' /\ PublishedOnce' /\ Retried'
<1> USE NotificationsAssumption DEF IInv, RecordsOK, PublishedOnce, Retried, FromCommit, TxStates
<1>1. CASE UNCHANGED <<tx, outgoing, record, attempts>>
  BY <1>1
<1>2. ASSUME NEW e \in Events, Begin(e) \/ RollBack(e)
      PROVE  RecordsOK' /\ PublishedOnce' /\ Retried'
  BY <1>2 DEF Begin, RollBack, notifying, kafka
<1>3. ASSUME NEW e \in Events, Commit(e) \/ Report(e)
      PROVE  RecordsOK' /\ PublishedOnce' /\ Retried'
  <2>1. /\ tx[e] # "committed" /\ tx' = [tx EXCEPT ![e] = "committed"]
        /\ outgoing' \in {outgoing, outgoing \cup {e}}
        /\ UNCHANGED <<record, attempts>>
    BY <1>3 DEF Commit, Report, Submit, MayHappen, kafka
  <2> QED  BY <2>1
<1>4. ASSUME NEW e \in Events, PublishStep(e)
      PROVE  RecordsOK' /\ PublishedOnce' /\ Retried'
  BY <1>4 DEF PublishStep, Publish, PublishFails, kafka
<1>5. ASSUME NEW e \in Events, HandOver(e) \/ CommitOffset(e) \/ Redeliver(e)
      PROVE  RecordsOK' /\ PublishedOnce' /\ Retried'
  BY <1>5 DEF HandOver, CommitOffset, Redeliver
<1>6. ASSUME NEW e \in Events, HandOverRejected(e)
      PROVE  RecordsOK' /\ PublishedOnce' /\ Retried'
  BY <1>6 DEF HandOverRejected
<1>7. CASE Restart
  BY <1>7 DEF Restart
<1> QED  BY <1>1, <1>2, <1>3, <1>4, <1>5, <1>6, <1>7, RecordsChange DEF ConsumerStep

\* What was committed stays committed.
LEMMA CommittedStays ==
    ASSUME IInv, [Next]_vars, NEW e \in Events, tx[e] = "committed"
    PROVE  tx'[e] = "committed"
<1> USE DEF IInv, RecordsOK
<1>1. CASE UNCHANGED <<tx, outgoing, record, attempts>>
  BY <1>1
<1>2. ASSUME NEW f \in Events, \/ Begin(f) \/ Commit(f) \/ RollBack(f) \/ Report(f)
                              \/ PublishStep(f) \/ ConsumerStep(f) \/ Redeliver(f)
      PROVE  tx'[e] = "committed"
  BY <1>2 DEF Begin, Commit, RollBack, Report, MayHappen, PublishStep, Publish, PublishFails,
              ConsumerStep, HandOver, HandOverRejected, CommitOffset, Redeliver
<1>3. CASE Restart
  BY <1>3 DEF Restart
<1> QED  BY <1>1, <1>2, <1>3, RecordsChange

-----------------------------------------------------------------------------
(* The tasks. *)

\* A task notifies every receiver once.
LEMMA ReceiversOnce ==
    ASSUME IInv, NEW e \in Events
    PROVE  /\ Receivers(e) \in [Users -> Nat]
           /\ \A u \in Users : Receivers(e)[u] <= 1
<1>1. \A u \in Users : readStatuses[u] \in Nat /\ readStatuses[u] <= 1
  BY DEF IInv, MembersOK, UniqueReadStatus
<1> QED  BY <1>1 DEF Receivers

\* What a step of task n of event e does to it, and to the rows of the event.
LEMMA TaskStepEffect ==
    ASSUME IInv, NEW e \in Events, NEW n \in Deliveries, TaskStep(e, n)
    PROVE  LET old == task[e][n]  new == task'[e][n] IN
           /\ task' = [task EXCEPT ![e][n] = new]
           /\ UNCHANGED record
           /\ new \in TaskType
           /\ old.pc \notin {"none", "done"} /\ new.pc # "none"
           /\ \A u \in Users : new.to[u] <= 1
           /\ \/ /\ old.pc = "look" /\ new.pc \in {"save", "done"}
                 /\ UNCHANGED <<rows, sent>>
              \/ /\ old.pc \in {"save", "evicted"} /\ new.to = old.to
                 /\ new.pc = IF old.pc = "save" THEN "evict" ELSE "send"
                 /\ rows' = [rows EXCEPT ![e] = [u \in Users |-> rows[e][u] + old.to[u]]]
                 /\ UNCHANGED sent
              \/ /\ old.pc = "save" /\ new.pc = "evicted"
                 /\ UNCHANGED <<rows, sent>>
              \/ /\ old.pc = "evict" /\ new.pc = "send" /\ new.to = old.to
                 /\ UNCHANGED <<rows, sent>>
              \/ /\ old.pc = "send" /\ new.pc = "send"
                 /\ \E u \in Users : old.to[u] > 0 /\ sent' = sent \cup {<<e, u>>}
                 /\ \A u \in Users : new.to[u] > 0 => old.to[u] > 0
                 /\ UNCHANGED rows
              \/ new.pc = "done" /\ UNCHANGED <<rows, sent>>
<1> DEFINE old == task[e][n]
           new == task'[e][n]
<1>0. /\ task \in [Events -> [Deliveries -> TaskType]]
      /\ old \in TaskType
      /\ \A u \in Users : old.to[u] \in Nat /\ old.to[u] <= 1
  BY DEF IInv, TasksOK, OneEach, TaskType
<1>1. CASE Look(e, n)
  <2>1. Receivers(e) \in [Users -> Nat] /\ \A u \in Users : Receivers(e)[u] <= 1
    BY ReceiversOnce
  <2>2. PICK l \in {"save", "done"} :
            task' = [task EXCEPT ![e][n] = [pc |-> l, to |-> Receivers(e)]]
    BY <1>1 DEF Look
  <2>3. new = [pc |-> l, to |-> Receivers(e)]
    BY <1>0, <2>2
  <2>4. old.pc = "look" /\ UNCHANGED <<rows, sent, record>>
    BY <1>1 DEF Look, kafka
  <2>5. new \in TaskType
    BY <2>1, <2>3 DEF TaskType, Labels
  <2>6. new.pc = l /\ new.pc # "none" /\ \A u \in Users : new.to[u] <= 1
    BY <2>1, <2>3
  <2>7. task' = [task EXCEPT ![e][n] = new]
    BY <2>2, <2>3
  <2> HIDE DEF old, new
  <2> QED  BY <2>4, <2>5, <2>6, <2>7 DEF old, new
<1>2. CASE Save(e, n)
  <2>1. PICK l \in {"evict", "send"} :
            /\ l = (IF task[e][n].pc = "save" THEN "evict" ELSE "send")
            /\ task' = [task EXCEPT ![e][n].pc = l]
    BY <1>2 DEF Save, Goto
  <2>2. new = [old EXCEPT !.pc = l]
    BY <1>0, <2>1
  <2>3. /\ old.pc \in {"save", "evicted"}
        /\ rows' = [rows EXCEPT ![e] = [u \in Users |-> rows[e][u] + old.to[u]]]
        /\ UNCHANGED <<sent, record>>
    BY <1>2 DEF Save, kafka, IInv, TasksOK
  <2>4. new \in TaskType /\ new.pc = l /\ new.to = old.to
    BY <1>0, <2>2 DEF TaskType, Labels
  <2>5. task' = [task EXCEPT ![e][n] = new]
    BY <1>0, <2>1, <2>2
  <2> QED  BY <1>0, <2>1, <2>3, <2>4, <2>5
<1>3. CASE SaveFails(e, n)
  <2>1. task' = [task EXCEPT ![e][n].pc = "done"]
    BY <1>3 DEF SaveFails, Goto
  <2>2. new = [old EXCEPT !.pc = "done"]
    BY <1>0, <2>1
  <2>3. old.pc \in {"save", "evicted"} /\ UNCHANGED <<rows, sent, record>>
    BY <1>3 DEF SaveFails, kafka
  <2>4. new \in TaskType /\ new.pc = "done" /\ new.to = old.to
    BY <1>0, <2>2 DEF TaskType, Labels
  <2>5. task' = [task EXCEPT ![e][n] = new]
    BY <1>0, <2>1, <2>2
  <2> QED  BY <1>0, <2>3, <2>4, <2>5
<1>4. CASE Evict(e, n)
  <2>1. PICK l \in {"evicted", "send"} :
            /\ l = (IF task[e][n].pc = "save" THEN "evicted" ELSE "send")
            /\ task' = [task EXCEPT ![e][n].pc = l]
    BY <1>4 DEF Evict, Goto
  <2>2. new = [old EXCEPT !.pc = l]
    BY <1>0, <2>1
  <2>3. old.pc \in {"save", "evict"} /\ UNCHANGED <<rows, sent, record>>
    BY <1>4 DEF Evict, kafka
  <2>4. new \in TaskType /\ new.pc = l /\ new.to = old.to
    BY <1>0, <2>2 DEF TaskType, Labels
  <2>5. task' = [task EXCEPT ![e][n] = new]
    BY <1>0, <2>1, <2>2
  <2> QED  BY <1>0, <2>1, <2>3, <2>4, <2>5
<1>5. CASE Send(e, n)
  <2>1. PICK u \in Users : /\ old.to[u] > 0
                           /\ sent' = sent \cup {<<e, u>>}
                           /\ task' = [task EXCEPT ![e][n].to[u] = @ - 1]
    BY <1>5 DEF Send
  <2>2. new = [old EXCEPT !.to[u] = @ - 1]
    BY <1>0, <2>1
  <2>3. old.pc = "send" /\ UNCHANGED <<rows, record>>
    BY <1>5 DEF Send, kafka
  <2>4. new.pc = old.pc /\ new.to = [old.to EXCEPT ![u] = @ - 1]
    BY <1>0, <2>2 DEF TaskType
  <2>5. new = [pc |-> old.pc, to |-> new.to]
    BY <1>0, <2>2, <2>4 DEF TaskType
  <2>6. /\ new.to \in [Users -> Nat]
        /\ \A v \in Users : new.to[v] <= 1 /\ (new.to[v] > 0 => old.to[v] > 0)
    BY <1>0, <2>1, <2>4 DEF TaskType
  <2>7. new \in TaskType
    BY <2>3, <2>5, <2>6 DEF TaskType, Labels
  <2>8. task' = [task EXCEPT ![e][n] = new]
    BY <1>0, <2>1, <2>2
  <2> QED  BY <1>0, <2>1, <2>3, <2>4, <2>6, <2>7, <2>8
<1>6. CASE EndTask(e, n)
  <2>1. task' = [task EXCEPT ![e][n] = [pc |-> "done", to |-> Nobody]]
    BY <1>6 DEF EndTask
  <2>2. new = [pc |-> "done", to |-> Nobody]
    BY <1>0, <2>1
  <2>3. old.pc = "send" /\ UNCHANGED <<rows, sent, record>>
    BY <1>6 DEF EndTask, kafka
  <2>4. new \in TaskType
    BY <2>2 DEF TaskType, Labels, Nobody
  <2>5. new.pc = "done" /\ \A u \in Users : new.to[u] <= 1
    BY <2>2 DEF Nobody
  <2>6. task' = [task EXCEPT ![e][n] = new]
    BY <2>1, <2>2
  <2> QED  BY <2>3, <2>4, <2>5, <2>6
<1>7. CASE LookFails(e, n)
  <2>1. task' = [task EXCEPT ![e][n].pc = "done"]
    BY <1>7 DEF LookFails, Goto
  <2>2. new = [old EXCEPT !.pc = "done"]
    BY <1>0, <2>1
  <2>3. old.pc = "look" /\ UNCHANGED <<rows, sent, record>>
    BY <1>7 DEF LookFails, kafka
  <2>4. new \in TaskType /\ new.pc = "done" /\ new.to = old.to
    BY <1>0, <2>2 DEF TaskType, Labels
  <2>5. task' = [task EXCEPT ![e][n] = new]
    BY <1>0, <2>1, <2>2
  <2> QED  BY <1>0, <2>3, <2>4, <2>5
<1> QED  BY <1>1, <1>2, <1>3, <1>4, <1>5, <1>6, <1>7 DEF TaskStep

\* A hand-over starts the next task.
LEMMA HandOverEffect ==
    ASSUME IInv, NEW e \in Events, HandOver(e)
    PROVE  \E k \in 0 .. redeliveries :
             /\ HandedOver(e) = 1 .. k
             /\ k + 1 \in Deliveries
             /\ task' = [task EXCEPT ![e][k + 1].pc = "look"]
             /\ record[e] = "logged" /\ record' = [record EXCEPT ![e] = "handed"]
             /\ UNCHANGED <<rows, sent, redeliveries, tx, outgoing>>
<1>1. record[e] = "logged" /\ MostTasks(e) = redeliveries /\ redeliveries \in 0 .. MaxRedeliveries
  BY DEF IInv, BoundsOK, MostTasks, HandOver
<1>2. PICK k \in 0 .. redeliveries : HandedOver(e) = 1 .. k
  BY <1>1 DEF IInv, TaskPerHandOver
<1>3. k \in Nat /\ k + 1 \in Deliveries
  BY <1>1, NotificationsAssumption DEF Deliveries
<1>4. Cardinality(1 .. k) = k
  BY <1>3, FS_Interval
<1>5. NextTask(e) = k + 1
  BY <1>2, <1>4 DEF NextTask, HandedOver
<1> QED  BY <1>1, <1>2, <1>3, <1>5 DEF HandOver, bounds

LEMMA TasksStep ==
    ASSUME IInv, [Next]_vars
    PROVE  TasksOK' /\ OneEach'
<1>1. CASE UNCHANGED <<rows, task, sent>>
  BY <1>1 DEF IInv, TasksOK, OneEach
<1>2. ASSUME NEW e \in Events, HandOver(e)
      PROVE  TasksOK' /\ OneEach'
  <2>1. PICK k \in 0 .. redeliveries :
            /\ k + 1 \in Deliveries
            /\ task' = [task EXCEPT ![e][k + 1].pc = "look"]
            /\ UNCHANGED <<rows, sent>>
    BY <1>2, HandOverEffect
  <2> DEFINE new == [task[e][k + 1] EXCEPT !.pc = "look"]
  <2>2. new \in TaskType /\ new.to = task[e][k + 1].to
    <3>1. task[e][k + 1] \in TaskType
      BY <2>1 DEF IInv, TasksOK
    <3> QED  BY <3>1 DEF TaskType, Labels
  <2>3. \A u \in Users : new.to[u] <= 1
    BY <2>1, <2>2 DEF IInv, OneEach
  <2>4. task' = [task EXCEPT ![e][k + 1] = new]
    BY <2>1 DEF IInv, TasksOK
  <2> HIDE DEF new
  <2>5. TasksOK'
    BY <2>1, <2>2, <2>4 DEF IInv, TasksOK
  <2>6. OneEach'
    BY <2>1, <2>3, <2>4 DEF IInv, TasksOK, OneEach
  <2> QED  BY <2>5, <2>6
<1>3. ASSUME NEW e \in Events, NEW n \in Deliveries, TaskStep(e, n)
      PROVE  TasksOK' /\ OneEach'
  <2> DEFINE new == task'[e][n]
  <2>1. /\ task' = [task EXCEPT ![e][n] = new]
        /\ new \in TaskType
        /\ \A u \in Users : new.to[u] <= 1
        /\ \/ rows' = rows
           \/ rows' = [rows EXCEPT ![e] = [u \in Users |-> rows[e][u] + task[e][n].to[u]]]
        /\ \/ sent' = sent
           \/ \E u \in Users : sent' = sent \cup {<<e, u>>}
    BY <1>3, TaskStepEffect
  <2> HIDE DEF new
  <2>2. rows' \in [Events -> [Users -> Nat]]
    <3>1. CASE rows' = rows
      BY <3>1 DEF IInv, TasksOK
    <3>2. CASE rows' = [rows EXCEPT ![e] = [u \in Users |-> rows[e][u] + task[e][n].to[u]]]
      <4>1. [u \in Users |-> rows[e][u] + task[e][n].to[u]] \in [Users -> Nat]
        BY DEF IInv, TasksOK, TaskType
      <4> QED  BY <3>2, <4>1 DEF IInv, TasksOK
    <3> QED  BY <2>1, <3>1, <3>2
  <2>3. task' \in [Events -> [Deliveries -> TaskType]]
    BY <2>1 DEF IInv, TasksOK
  <2>4. sent' \subseteq Events \X Users
    BY <2>1 DEF IInv, TasksOK
  <2>5. OneEach'
    BY <2>1 DEF IInv, TasksOK, OneEach
  <2> QED  BY <2>2, <2>3, <2>4, <2>5 DEF TasksOK
<1>4. CASE Restart
  <2>1. /\ task' = [e \in Events |-> [n \in Deliveries |-> NoTask]]
        /\ rows' = [e \in Events |-> Nobody] /\ sent' = {}
    BY <1>4 DEF Restart
  <2>2. NoTask \in TaskType /\ Nobody \in [Users -> Nat] /\ \A u \in Users : NoTask.to[u] <= 1
    BY DEF NoTask, Nobody, TaskType, Labels
  <2> QED  BY <2>1, <2>2 DEF TasksOK, OneEach
<1> QED  BY <1>1, <1>2, <1>3, <1>4, TasksChange

\* What a restart leaves of an event.
LEMMA RestartEffect ==
    ASSUME IInv, Restart, NEW e \in Events
    PROVE  /\ record'[e] = IF record[e] = "handed" THEN "logged" ELSE record[e]
           /\ tx'[e] = IF tx[e] = "open" THEN "rolledBack" ELSE tx[e]
           /\ outgoing' = {} /\ sent' = {}
           /\ \A u \in Users : rows'[e][u] = 0
           /\ \A n \in Deliveries : task'[e][n].pc = "none"
BY DEF Restart, NoTask, Nobody

LEMMA FromCommitStep ==
    ASSUME IInv, [Next]_vars
    PROVE  FromCommit'
<1> SUFFICES ASSUME NEW e \in Events, tx'[e] # "committed"
             PROVE  /\ e \notin outgoing'
                    /\ record'[e] = "none"
                    /\ \A n \in Deliveries : task'[e][n].pc = "none"
                    /\ \A u \in Users : rows'[e][u] = 0
  BY DEF FromCommit
<1>1. /\ tx[e] # "committed"
      /\ e \notin outgoing
      /\ record[e] = "none"
      /\ \A n \in Deliveries : task[e][n].pc = "none"
      /\ \A u \in Users : rows[e][u] = 0
  BY CommittedStays DEF IInv, FromCommit
<1>2. e \notin outgoing' /\ record'[e] = "none"
  <2>1. CASE UNCHANGED <<tx, outgoing, record, attempts>>
    BY <1>1, <2>1
  <2>2. ASSUME NEW f \in Events, Begin(f) \/ RollBack(f)
        PROVE  e \notin outgoing' /\ record'[e] = "none"
    BY <1>1, <2>2 DEF Begin, RollBack, notifying, kafka
  <2>3. ASSUME NEW f \in Events, Commit(f) \/ Report(f)
        PROVE  e \notin outgoing' /\ record'[e] = "none"
    <3>1. /\ tx' = [tx EXCEPT ![f] = "committed"]
          /\ outgoing' \in {outgoing, outgoing \cup {f}}
          /\ UNCHANGED record
      BY <2>3 DEF Commit, Report, Submit, kafka
    <3>2. e # f
      BY <3>1 DEF IInv, RecordsOK
    <3> QED  BY <1>1, <3>1, <3>2
  <2>4. ASSUME NEW f \in Events, PublishStep(f) \/ ConsumerStep(f) \/ Redeliver(f)
        PROVE  e \notin outgoing' /\ record'[e] = "none"
    BY <1>1, <2>4
       DEF IInv, RecordsOK, PublishStep, Publish, PublishFails, ConsumerStep, HandOver,
           HandOverRejected, CommitOffset, Redeliver, kafka
  <2>5. CASE Restart
    BY <1>1, <2>5, RestartEffect
  <2> QED  BY <2>1, <2>2, <2>3, <2>4, <2>5, RecordsChange
<1>3. /\ \A n \in Deliveries : task'[e][n].pc = "none"
      /\ \A u \in Users : rows'[e][u] = 0
  <2>1. CASE UNCHANGED <<rows, task, sent>>
    BY <1>1, <2>1
  <2>2. ASSUME NEW f \in Events, HandOver(f)
        PROVE  task'[e] = task[e] /\ rows'[e] = rows[e]
    <3>1. e # f
      BY <1>1, <2>2 DEF HandOver
    <3> QED  BY <2>2, <3>1 DEF HandOver, IInv, TasksOK
  <2>3. ASSUME NEW f \in Events, NEW n \in Deliveries, TaskStep(f, n)
        PROVE  task'[e] = task[e] /\ rows'[e] = rows[e]
    <3>1. /\ task[f][n].pc # "none"
          /\ task' = [task EXCEPT ![f][n] = task'[f][n]]
          /\ \/ rows' = rows
             \/ rows' = [rows EXCEPT ![f] = [u \in Users |-> rows[f][u] + task[f][n].to[u]]]
      BY <2>3, TaskStepEffect
    <3>2. e # f
      BY <1>1, <3>1
    <3> QED  BY <3>1, <3>2 DEF IInv, TasksOK
  <2>4. CASE Restart
    BY <1>1, <2>4, RestartEffect
  <2> QED  BY <1>1, <2>1, <2>2, <2>3, <2>4, TasksChange
<1> QED  BY <1>2, <1>3

LEMMA TaskPerHandOverStep ==
    ASSUME IInv, [Next]_vars
    PROVE  TaskPerHandOver'
<1> SUFFICES ASSUME NEW e \in Events
             PROVE  \E k \in 0 .. MostTasks(e)' : HandedOver(e)' = 1 .. k
  BY DEF TaskPerHandOver
<1>1. PICK k \in 0 .. MostTasks(e) : HandedOver(e) = 1 .. k
  BY DEF IInv, TaskPerHandOver
<1>2. /\ redeliveries \in Nat /\ redeliveries' \in Nat /\ redeliveries' >= redeliveries
      /\ k \in Nat /\ MostTasks(e) \in Nat /\ MostTasks(e)' \in Nat
  BY BoundsStep, NotificationsAssumption DEF IInv, BoundsOK, MostTasks
<1>3. CASE Restart
  <2>1. HandedOver(e)' = {}
    BY <1>3, RestartEffect DEF HandedOver
  <2> QED  BY <1>2, <2>1
<1>4. CASE HandOver(e)
  <2>1. PICK j \in 0 .. redeliveries :
            /\ HandedOver(e) = 1 .. j
            /\ j + 1 \in Deliveries
            /\ task' = [task EXCEPT ![e][j + 1].pc = "look"]
            /\ record' = [record EXCEPT ![e] = "handed"]
            /\ redeliveries' = redeliveries
    BY <1>4, HandOverEffect
  <2>2. HandedOver(e)' = 1 .. j + 1
    <3>1. \A n \in Deliveries :
             task'[e][n].pc = IF n = j + 1 THEN "look" ELSE task[e][n].pc
      BY <2>1 DEF IInv, TasksOK, TaskType
    <3>2. HandedOver(e)' = HandedOver(e) \cup {j + 1}
      BY <2>1, <3>1 DEF HandedOver
    <3>3. 1 .. j + 1 = (1 .. j) \cup {j + 1}
      BY <1>2, <2>1
    <3> QED  BY <2>1, <3>2, <3>3
  <2>3. MostTasks(e)' = redeliveries + 1
    BY <2>1 DEF MostTasks, IInv, RecordsOK
  <2> QED  BY <1>2, <2>1, <2>2, <2>3
<1>5. CASE ~ Restart /\ ~ HandOver(e)
  <2>1. HandedOver(e)' = HandedOver(e)
    <3>1. CASE UNCHANGED <<rows, task, sent>>
      BY <3>1 DEF HandedOver
    <3>2. ASSUME NEW f \in Events, f # e, HandOver(f)
          PROVE  HandedOver(e)' = HandedOver(e)
      BY <3>2 DEF HandOver, HandedOver, IInv, TasksOK
    <3>3. ASSUME NEW f \in Events, NEW n \in Deliveries, TaskStep(f, n)
          PROVE  HandedOver(e)' = HandedOver(e)
      <4> DEFINE new == task'[f][n]
      <4>1. /\ task' = [task EXCEPT ![f][n] = new]
            /\ task[f][n].pc # "none" /\ new.pc # "none"
        BY <3>3, TaskStepEffect
      <4> HIDE DEF new
      <4>2. \A m \in Deliveries : task[e][m].pc = "none" <=> task'[e][m].pc = "none"
        BY <4>1 DEF IInv, TasksOK
      <4> QED  BY <4>2 DEF HandedOver
    <3> QED  BY <1>5, <3>1, <3>2, <3>3, TasksChange
  <2>2. \/ record[e] \in {"handed", "acked"} => record'[e] \in {"handed", "acked"}
        \/ redeliveries' = redeliveries + 1
    <3>1. CASE UNCHANGED <<tx, outgoing, record, attempts>>
      BY <3>1
    <3>2. ASSUME NEW f \in Events, Begin(f) \/ Commit(f) \/ RollBack(f) \/ Report(f)
          PROVE  record' = record
      BY <3>2 DEF Begin, Commit, RollBack, Report, notifying, kafka
    <3>4. ASSUME NEW f \in Events, Redeliver(f)
          PROVE  redeliveries' = redeliveries + 1
      BY <3>4 DEF Redeliver
    <3>3. ASSUME NEW f \in Events, PublishStep(f) \/ ConsumerStep(f)
          PROVE  record[e] \in {"handed", "acked"} => record'[e] \in {"handed", "acked"}
      BY <3>3
         DEF IInv, RecordsOK, PublishedOnce, PublishStep, Publish, PublishFails, ConsumerStep,
             HandOver, HandOverRejected, CommitOffset, kafka
    <3> QED  BY <1>5, <3>1, <3>2, <3>3, <3>4, RecordsChange
  <2>3. MostTasks(e)' >= MostTasks(e)
    <3>1. CASE record[e] \in {"handed", "acked"} => record'[e] \in {"handed", "acked"}
      BY <1>2, <3>1 DEF MostTasks
    <3>2. CASE redeliveries' = redeliveries + 1
      BY <1>2, <3>2 DEF MostTasks
    <3> QED  BY <2>2, <3>1, <3>2
  <2> QED  BY <1>1, <1>2, <2>1, <2>3
<1> QED  BY <1>3, <1>4, <1>5

LEMMA RowPerSaveStep ==
    ASSUME IInv, [Next]_vars
    PROVE  RowPerSave'
<1> SUFFICES ASSUME NEW e \in Events, NEW u \in Users
             PROVE  rows'[e][u] <= Cardinality(SaveTried(e)')
  BY DEF RowPerSave
<1>1. /\ rows[e][u] \in Nat /\ rows[e][u] <= Cardinality(SaveTried(e))
      /\ \A n \in Deliveries : task[e][n].to[u] \in Nat /\ task[e][n].to[u] <= 1
  BY DEF IInv, TasksOK, TaskType, RowPerSave, OneEach
<1>2. /\ IsFiniteSet(SaveTried(e)) /\ IsFiniteSet(SaveTried(e)')
      /\ Cardinality(SaveTried(e)) \in Nat /\ Cardinality(SaveTried(e)') \in Nat
  <2>1. IsFiniteSet(Deliveries)
    <3>1. MaxRedeliveries + 1 \in Int
      BY NotificationsAssumption
    <3> QED  BY <3>1, FS_Interval DEF Deliveries
  <2>2. SaveTried(e) \subseteq Deliveries /\ SaveTried(e)' \subseteq Deliveries
    BY DEF SaveTried
  <2> QED  BY <2>1, <2>2, FS_Subset, FS_CardinalityType
<1>3. ASSUME SaveTried(e) \subseteq SaveTried(e)', rows'[e] = rows[e]
      PROVE  rows'[e][u] <= Cardinality(SaveTried(e)')
  <2>1. Cardinality(SaveTried(e)) <= Cardinality(SaveTried(e)')
    BY <1>2, <1>3, FS_Subset
  <2> QED  BY <1>1, <1>2, <1>3, <2>1
<1>4. CASE UNCHANGED <<rows, task, sent>>
  BY <1>3, <1>4 DEF SaveTried
<1>5. ASSUME NEW f \in Events, HandOver(f)
      PROVE  rows'[e][u] <= Cardinality(SaveTried(e)')
  <2>1. PICK k \in 0 .. redeliveries :
            /\ HandedOver(f) = 1 .. k
            /\ k + 1 \in Deliveries
            /\ task' = [task EXCEPT ![f][k + 1].pc = "look"]
            /\ rows' = rows
    BY <1>5, HandOverEffect
  <2>2. k + 1 \notin 1 .. k
    BY <2>1
  <2>3. task[f][k + 1].pc = "none"
    BY <2>1, <2>2 DEF HandedOver
  <2>4. \A n \in Deliveries : task[e][n].pc # "none" => task'[e][n] = task[e][n]
    BY <2>1, <2>3 DEF IInv, TasksOK
  <2> QED  BY <1>3, <2>1, <2>4 DEF SaveTried
<1>6. ASSUME NEW f \in Events, NEW n \in Deliveries, TaskStep(f, n)
      PROVE  rows'[e][u] <= Cardinality(SaveTried(e)')
  <2> DEFINE new == task'[f][n]
             save == rows' = [rows EXCEPT ![f] = [v \in Users |-> rows[f][v] + task[f][n].to[v]]]
  <2>1. /\ task' = [task EXCEPT ![f][n] = new]
        /\ \/ /\ task[f][n].pc \in {"save", "evicted"}
              /\ new.pc \in {"evict", "send"}
              /\ save
           \/ /\ rows' = rows
              /\ task[f][n].pc \in {"evict", "send", "done"} => new.pc \in {"send", "done"}
    BY <1>6, TaskStepEffect
  <2> HIDE DEF new
  <2>2. SaveTried(e) \subseteq SaveTried(e)'
    BY <2>1 DEF SaveTried, IInv, TasksOK
  <2>3. CASE rows'[e] = rows[e]
    BY <1>3, <2>2, <2>3
  <2>4. CASE /\ f = e /\ save
             /\ task[e][n].pc \in {"save", "evicted"} /\ new.pc \in {"evict", "send"}
    <3>1. rows'[e][u] = rows[e][u] + task[e][n].to[u]
      BY <2>4 DEF IInv, TasksOK
    <3>2. SaveTried(e)' = SaveTried(e) \cup {n} /\ n \notin SaveTried(e)
      BY <2>1, <2>4 DEF SaveTried, IInv, TasksOK
    <3>3. Cardinality(SaveTried(e)') = Cardinality(SaveTried(e)) + 1
      BY <1>2, <3>2, FS_AddElement
    <3> QED  BY <1>1, <1>2, <3>1, <3>3
  <2>5. f # e => rows'[e] = rows[e]
    BY <2>1 DEF IInv, TasksOK
  <2> QED  BY <2>1, <2>3, <2>4, <2>5
<1>7. CASE Restart
  <2>1. rows'[e][u] = 0
    BY <1>7, RestartEffect
  <2> QED  BY <1>2, <2>1
<1> QED  BY <1>4, <1>5, <1>6, <1>7, TasksChange

LEMMA SavedFirstStep ==
    ASSUME IInv, [Next]_vars
    PROVE  SavedFirst' /\ SentIsStored'
<1>1. ASSUME NEW e \in Events, NEW u \in Users, rows[e][u] > 0, ~ Restart
      PROVE  rows'[e][u] > 0
  <2>1. rows[e][u] \in Nat /\ \A n \in Deliveries : task[e][n].to[u] \in Nat
    BY DEF IInv, TasksOK, TaskType
  <2>2. CASE rows' = rows
    BY <1>1, <2>2
  <2>3. ASSUME NEW f \in Events, NEW n \in Deliveries,
               rows' = [rows EXCEPT ![f] = [v \in Users |-> rows[f][v] + task[f][n].to[v]]]
        PROVE  rows'[e][u] > 0
    <3>1. CASE e = f
      <4>1. rows'[e][u] = rows[e][u] + task[e][n].to[u]
        BY <2>3, <3>1 DEF IInv, TasksOK
      <4> QED  BY <1>1, <2>1, <4>1
    <3>2. CASE e # f
      BY <1>1, <2>3, <3>2 DEF IInv, TasksOK
    <3> QED  BY <3>1, <3>2
  <2>4. \/ rows' = rows
        \/ \E f \in Events, n \in Deliveries :
              rows' = [rows EXCEPT ![f] = [v \in Users |-> rows[f][v] + task[f][n].to[v]]]
    <3>1. ASSUME NEW f \in Events, NEW n \in Deliveries, TaskStep(f, n)
          PROVE  \/ rows' = rows
                 \/ rows' = [rows EXCEPT ![f] = [v \in Users |-> rows[f][v] + task[f][n].to[v]]]
      BY <3>1, TaskStepEffect
    <3> QED  BY <1>1, <3>1, TasksChange DEF HandOver
  <2> QED  BY <2>2, <2>3, <2>4
<1>2. ASSUME NEW e \in Events, NEW n \in Deliveries, NEW u \in Users,
             task'[e][n].pc \in {"evict", "send"}, task'[e][n].to[u] > 0, ~ Restart
      PROVE  rows'[e][u] > 0
  <2>1. CASE UNCHANGED <<rows, task, sent>>
    BY <1>2, <2>1 DEF IInv, SavedFirst
  <2>2. ASSUME task'[e][n] = task[e][n]
        PROVE  rows'[e][u] > 0
    BY <1>1, <1>2, <2>2 DEF IInv, SavedFirst
  <2>3. ASSUME NEW f \in Events, HandOver(f)
        PROVE  rows'[e][u] > 0
    <3>1. PICK m \in Deliveries : task' = [task EXCEPT ![f][m].pc = "look"]
      BY <2>3, HandOverEffect
    <3>2. e # f \/ n # m
      <4> SUFFICES ASSUME e = f, n = m PROVE FALSE
        OBVIOUS
      <4>1. task'[e][n].pc = "look"
        BY <3>1 DEF IInv, TasksOK, TaskType
      <4> QED  BY <1>2, <4>1
    <3> QED  BY <2>2, <3>1, <3>2 DEF IInv, TasksOK
  <2>4. ASSUME NEW f \in Events, NEW m \in Deliveries, TaskStep(f, m)
        PROVE  rows'[e][u] > 0
    <3> DEFINE old == task[f][m]
               new == task'[f][m]
    <3>1. /\ task' = [task EXCEPT ![f][m] = new]
          /\ \/ new.pc \in {"save", "done", "evicted"}
             \/ /\ new.to = old.to
                /\ rows' = [rows EXCEPT ![f] = [v \in Users |-> rows[f][v] + old.to[v]]]
             \/ /\ old.pc \in {"evict", "send"}
                /\ \A v \in Users : new.to[v] > 0 => old.to[v] > 0
      BY <2>4, TaskStepEffect
    <3> HIDE DEF new
    <3>2. CASE e # f \/ n # m
      BY <2>2, <3>1, <3>2 DEF IInv, TasksOK
    <3>3. CASE e = f /\ n = m
      <4>1. new = task'[e][n] /\ new.pc \in {"evict", "send"} /\ new.to[u] > 0
        BY <1>2, <3>3 DEF new
      <4>2. CASE /\ new.to = old.to
                 /\ rows' = [rows EXCEPT ![f] = [v \in Users |-> rows[f][v] + old.to[v]]]
        <5>1. rows'[e][u] = rows[e][u] + old.to[u]
          BY <3>3, <4>2 DEF IInv, TasksOK
        <5>2. rows[e][u] \in Nat /\ old.to[u] \in Nat /\ old.to[u] > 0
          BY <4>1, <4>2 DEF IInv, TasksOK, TaskType
        <5> QED  BY <5>1, <5>2
      <4>3. CASE /\ old.pc \in {"evict", "send"}
                 /\ \A v \in Users : new.to[v] > 0 => old.to[v] > 0
        <5>1. rows[e][u] > 0
          BY <3>3, <4>1, <4>3 DEF IInv, SavedFirst
        <5> QED  BY <1>1, <1>2, <5>1
      <4> QED  BY <3>1, <4>1, <4>2, <4>3
    <3> QED  BY <3>2, <3>3
  <2> QED  BY <1>2, <2>1, <2>3, <2>4, TasksChange
<1>3. ASSUME NEW s \in sent', ~ Restart
      PROVE  rows'[s[1]][s[2]] > 0
  <2>1. CASE s \in sent
    <3>1. s[1] \in Events /\ s[2] \in Users /\ rows[s[1]][s[2]] > 0
      BY <2>1 DEF IInv, TasksOK, SentIsStored
    <3> QED  BY <1>1, <1>3, <3>1
  <2>2. CASE s \notin sent
    <3>1. PICK e \in Events, n \in Deliveries : TaskStep(e, n)
      BY <1>3, <2>2, TasksChange DEF HandOver
    <3>2. PICK u \in Users : /\ task[e][n].pc = "send" /\ task[e][n].to[u] > 0
                             /\ sent' = sent \cup {<<e, u>>}
      BY <1>3, <2>2, <3>1, TaskStepEffect
    <3>3. s = <<e, u>> /\ rows[e][u] > 0
      BY <1>3, <2>2, <3>2 DEF IInv, SavedFirst
    <3> QED  BY <1>1, <1>3, <3>3
  <2> QED  BY <2>1, <2>2
<1>4. CASE Restart
  <2>1. \A e \in Events, n \in Deliveries : task'[e][n].pc = "none"
    BY <1>4, RestartEffect
  <2>2. sent' = {}
    BY <1>4 DEF Restart
  <2> QED  BY <2>1, <2>2 DEF SavedFirst, SentIsStored
<1> QED  BY <1>2, <1>3, <1>4 DEF SavedFirst, SentIsStored

LEMMA Next_IInv == IInv /\ [Next]_vars => IInv'
<1> SUFFICES ASSUME IInv, [Next]_vars PROVE IInv'
  OBVIOUS
<1> QED  BY MembersStep, RecordsStep, TasksStep, ListsStep, BoundsStep, FromCommitStep,
            TaskPerHandOverStep, RowPerSaveStep, SavedFirstStep
         DEF IInv

THEOREM Inductive == Spec => []IInv
BY Init_IInv, Next_IInv, PTL DEF Spec

-----------------------------------------------------------------------------
(* What follows from it. *)

\* The variables stay in their domains: NotificationRequiredTopicListner's
\* container tries MaxDeliveries times at most to hand a record over, and the
\* notifications it inserts are those of known users.
THEOREM TypeCorrect == Spec => []TypeOK
<1>1. IInv => TypeOK
  BY TypeParts DEF IInv
<1> QED  BY <1>1, Inductive, PTL

\* KafkaProduceRequiredEventListener listens AFTER_COMMIT: nobody is ever
\* notified of a message or role change that was rolled back, or may be yet.
THEOREM CommittedOnly == Spec => []OnlyCommitted
<1>1. IInv => OnlyCommitted
  <2> SUFFICES ASSUME IInv, NEW e \in Events, NEW u \in Users,
                      rows[e][u] > 0, tx[e] # "committed"
               PROVE  FALSE
    BY DEF OnlyCommitted
  <2>1. rows[e][u] = 0
    BY DEF IInv, FromCommit
  <2> QED  BY <2>1
<1> QED  BY <1>1, Inductive, PTL

\* A user gets one row per event, and one more at most for each redelivery of a
\* record, however hand-overs, commits of offsets, inserts of read statuses,
\* redeliveries and restarts interleave.
THEOREM NotifiedOncePerDelivery == Spec => []NotifiedOnce
<1>1. IInv => NotifiedOnce
  <2> SUFFICES ASSUME IInv, NEW e \in Events, NEW u \in Users
               PROVE  rows[e][u] <= 1 + redeliveries
    BY DEF NotifiedOnce
  <2>1. PICK k \in 0 .. MostTasks(e) : HandedOver(e) = 1 .. k
    BY DEF IInv, TaskPerHandOver
  <2>2. redeliveries \in Nat /\ MostTasks(e) \in Nat /\ MostTasks(e) <= 1 + redeliveries /\ k \in Nat
    BY <2>1, NotificationsAssumption DEF IInv, BoundsOK, MostTasks
  <2>3. IsFiniteSet(HandedOver(e)) /\ Cardinality(HandedOver(e)) = k
    BY <2>1, <2>2, FS_Interval
  <2>4. SaveTried(e) \subseteq HandedOver(e)
    BY DEF SaveTried, HandedOver
  <2>5. Cardinality(SaveTried(e)) \in Nat /\ Cardinality(SaveTried(e)) <= k
    BY <2>3, <2>4, FS_Subset, FS_CardinalityType
  <2>6. rows[e][u] \in Nat /\ rows[e][u] <= Cardinality(SaveTried(e))
    BY DEF IInv, TasksOK, RowPerSave
  <2> QED  BY <2>1, <2>2, <2>5, <2>6
<1> QED  BY <1>1, Inductive, PTL

\* The "notifications.created" event comes after the row it announces, and no
\* failure or restart in between makes it come without.
THEOREM AnnouncedAreStored == Spec => []SentIsStored
<1>1. IInv => SentIsStored
  BY DEF IInv
<1> QED  BY <1>1, Inductive, PTL

=============================================================================
