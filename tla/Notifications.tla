--------------------------- MODULE Notifications ---------------------------
(***************************************************************************)
(* How a new message, a role change or a failed upload becomes rows of the *)
(* notifications table.  A request commits, a task publishes the event to  *)
(* Kafka, the consumer hands the record to another task, which looks up    *)
(* the receivers, inserts their rows, evicts the cached lists and tells    *)
(* the receivers' clients.  The instance is one channel, whose read        *)
(* statuses say who is notified of its messages.  Tasks that the default   *)
(* executor accepts run side by side; whether it accepts is left open.     *)
(***************************************************************************)
EXTENDS Naturals, FiniteSets

CONSTANTS
    Users,
    Messages,       \* messages to be written in the channel
    RoleChanges,    \* role changes to be made
    Failures,       \* uploads that S3BinaryContentStorage gives up
    Author,         \* of each message
    Target,         \* the user of each role change
    Admins,         \* accounts with ROLE_ADMIN, of which start-up creates one
    MaxDeliveries,  \* attempts of the Kafka container to hand a record over
    Joiners,        \* users whose clients create a read status
    Readers,        \* users whose clients fetch the list
    MaxRequests,    \* bounds the concurrent requests for one read status
    MaxEvents,      \* bounds the events that happen
    MaxRestarts,    \* bounds the restarts
    MaxRedeliveries, \* bounds the redeliveries while the process lives
    MaxFaults,      \* bounds the other failures
    NoList

Events == Messages \cup RoleChanges \cup Failures

ASSUME NotificationsAssumption ==
    /\ Messages \cap RoleChanges = {}
    /\ Failures \cap (Messages \cup RoleChanges) = {}
    /\ Author \in [Messages -> Users]
    /\ Target \in [RoleChanges -> Users]
    /\ Admins \subseteq Users /\ Admins # {}
    /\ MaxDeliveries \in Nat \ {0}
    /\ Joiners \subseteq Users /\ Readers \subseteq Users
    /\ MaxRequests \in Nat
    /\ MaxEvents \in Nat
    /\ MaxRestarts \in Nat
    /\ MaxRedeliveries \in Nat
    /\ MaxFaults \in Nat
    /\ NoList \notin [Events -> Nat]

VARIABLES
    \* the database
    channel,       \* the channel's row exists
    private,       \* its type: members of a private channel have notificationEnabled
    gone,          \* users without a row
    profiled,      \* administrators with a profile
    written,       \* rows of messages
    readStatuses,  \* rows of read_statuses, per user
    tx,            \* the transaction behind each event
    rows,          \* notification rows, per event and receiver
    \* the process
    checked,       \* requests for a read status that found none
    outgoing,      \* accepted tasks of KafkaProduceRequiredEventListener
    task,          \* tasks of NotificationRequiredTopicListner, per event and hand-over
    \* Kafka
    record,        \* what became of each event's record
    attempts,      \* failed hand-overs of it
    \* Redis and the clients
    cache,         \* the cached list of each user
    reading,       \* a list that was read from the database, not cached yet
    sent,          \* the "notifications.created" accepted for sending
    \* bounds and history
    restarts,
    redeliveries,
    faults,
    lost,          \* events that a failure may have kept from their receivers
    stayed         \* members ever since the message was committed

accounts == <<gone, profiled>>
members  == <<channel, private, accounts, written, readStatuses, checked, stayed>>
kafka    == <<record, attempts>>
lists    == <<cache, reading>>
bounds   == <<restarts, redeliveries, faults>>
notifying == <<rows, outgoing, task, kafka, lists, sent, bounds, lost>>
vars     == <<members, tx, notifying>>

Deliveries == 1 .. MaxRedeliveries + 1
Nobody     == [u \in Users |-> 0]
NoTask     == [pc |-> "none", to |-> Nobody]

\* One of the bounded failures, which may keep e from its receivers.
Fault(e) ==
    /\ faults < MaxFaults
    /\ faults' = faults + 1
    /\ lost' = lost \cup {e}
    /\ UNCHANGED <<restarts, redeliveries>>

-----------------------------------------------------------------------------
(* Read statuses, the channel, the users *)

\* create checks that the user and channel exist and the read status does not ...
CheckReadStatus(u) ==
    /\ channel /\ u \notin gone
    /\ readStatuses[u] = 0
    /\ checked[u] < MaxRequests
    /\ checked' = [checked EXCEPT ![u] = @ + 1]
    /\ UNCHANGED <<channel, private, accounts, written, readStatuses, stayed, tx, notifying>>

\* Mutant of InsertReadStatus: the table has no unique constraint.
InsertTwice(u) ==
    /\ checked[u] > 0
    /\ checked' = [checked EXCEPT ![u] = @ - 1]
    /\ readStatuses' = IF channel /\ u \notin gone
                       THEN [readStatuses EXCEPT ![u] = @ + 1]
                       ELSE readStatuses
    /\ UNCHANGED <<channel, private, accounts, written, stayed, tx, notifying>>

\* ... and inserts it, unless the unique constraint on (user_id, channel_id) or
\* a foreign key forbids it by now.
InsertReadStatus(u) ==
    /\ checked[u] > 0
    /\ checked' = [checked EXCEPT ![u] = @ - 1]
    /\ readStatuses' = IF channel /\ u \notin gone /\ readStatuses[u] = 0
                       THEN [readStatuses EXCEPT ![u] = 1]
                       ELSE readStatuses
    /\ UNCHANGED <<channel, private, accounts, written, stayed, tx, notifying>>

DeleteMessage(m) ==
    /\ m \in written
    /\ written' = written \ {m}
    /\ UNCHANGED <<channel, private, accounts, readStatuses, checked, stayed, tx, notifying>>

\* With its messages and read statuses.
DeleteChannel ==
    /\ channel
    /\ channel' = FALSE
    /\ written' = {}
    /\ readStatuses' = Nobody
    /\ stayed' = [m \in Messages |-> {}]
    /\ UNCHANGED <<private, accounts, checked, tx, notifying>>

\* The foreign keys of read statuses and messages forbid it while there are some;
\* notifications have none and stay.
DeleteUser(u) ==
    /\ u \notin gone
    /\ readStatuses[u] = 0
    /\ \A m \in written : Author[m] # u
    /\ gone' = gone \cup {u}
    /\ UNCHANGED <<channel, private, profiled, written, readStatuses, checked, stayed, tx, notifying>>

GetsProfile(u) ==
    /\ u \in Admins \ (gone \cup profiled)
    /\ profiled' = profiled \cup {u}
    /\ UNCHANGED <<channel, private, gone, written, readStatuses, checked, stayed, tx, notifying>>

-----------------------------------------------------------------------------
(* The request, and the task that publishes its event *)

\* An event happens once, and only so many of them do.
MayHappen(e) ==
    /\ tx[e] = "none"
    /\ Cardinality({f \in Events : tx[f] # "none"}) < MaxEvents

\* The rows that the transaction of e reads at its begin and that its commit
\* depends on: the foreign keys of a message, the row a role change updates.
RowsExist(e) ==
    /\ e \in Messages => channel /\ Author[e] \notin gone
    /\ e \in RoleChanges => Target[e] \notin gone

\* Mutant of Begin: the listener is an @EventListener, it does not wait for the commit.
BeginAndPublish(e) ==
    /\ MayHappen(e)
    /\ RowsExist(e)
    /\ tx' = [tx EXCEPT ![e] = "open"]
    /\ outgoing' = outgoing \cup {e}
    /\ UNCHANGED <<members, rows, task, kafka, lists, sent, bounds, lost>>

Begin(e) ==
    /\ MayHappen(e)
    /\ RowsExist(e)
    /\ tx' = [tx EXCEPT ![e] = "open"]
    /\ UNCHANGED <<members, notifying>>

\* @Async: the executor takes the task, or rejects it; whoever published the
\* event does not learn of it.
Submit(e) ==
    \/ outgoing' = outgoing \cup {e} /\ UNCHANGED <<bounds, lost>>
    \/ Fault(e) /\ UNCHANGED outgoing

\* AFTER_COMMIT of a message or role change.
Commit(e) ==
    /\ tx[e] = "open"
    /\ RowsExist(e)
    /\ tx' = [tx EXCEPT ![e] = "committed"]
    /\ written' = written \cup ({e} \cap Messages)
    /\ stayed' = [m \in Messages |-> IF m = e THEN {u \in Users : readStatuses[u] > 0}
                                     ELSE stayed[m]]
    /\ Submit(e)
    /\ UNCHANGED <<channel, private, accounts, readStatuses, checked, rows, task, kafka, lists, sent>>

\* A foreign key, a full SSE executor in the role change, or any other failure.
RollBack(e) ==
    /\ tx[e] = "open"
    /\ tx' = [tx EXCEPT ![e] = "rolledBack"]
    /\ UNCHANGED <<members, notifying>>

\* recover of the S3 storage publishes outside any transaction.
Report(e) ==
    /\ MayHappen(e)
    /\ tx' = [tx EXCEPT ![e] = "committed"]
    /\ Submit(e)
    /\ UNCHANGED <<members, rows, task, kafka, lists, sent>>

Publish(e) ==
    /\ e \in outgoing
    /\ outgoing' = outgoing \ {e}
    /\ record' = [record EXCEPT ![e] = "logged"]
    /\ UNCHANGED <<members, tx, rows, task, attempts, lists, sent, bounds, lost>>

\* Nobody looks at the future that kafkaTemplate.send returns.
PublishFails(e) ==
    /\ e \in outgoing
    /\ outgoing' = outgoing \ {e}
    /\ Fault(e)
    /\ UNCHANGED <<members, tx, rows, task, kafka, lists, sent>>

-----------------------------------------------------------------------------
(* The consumer.  The listener is @Async: it has returned, for the container, *)
(* when the executor has taken its task.                                      *)

NextTask(e) == Cardinality({n \in Deliveries : task[e][n].pc # "none"}) + 1

HandOver(e) ==
    /\ record[e] = "logged"
    /\ record' = [record EXCEPT ![e] = "handed"]
    /\ task' = [task EXCEPT ![e][NextTask(e)].pc = "look"]
    /\ UNCHANGED <<members, tx, rows, outgoing, attempts, lists, sent, bounds, lost>>

\* Mutant of HandOverRejected: the error handler does not try again.
HandOverDropped(e) ==
    /\ record[e] = "logged"
    /\ record' = [record EXCEPT ![e] = "acked"]
    /\ UNCHANGED <<members, tx, rows, outgoing, task, attempts, lists, sent, bounds, lost>>

\* Mutant of HandOverRejected: the container tries again without end.
HandOverAgain(e) ==
    /\ record[e] = "logged"
    /\ attempts' = [attempts EXCEPT ![e] = @ + 1]
    /\ UNCHANGED <<members, tx, rows, outgoing, task, record, lists, sent, bounds, lost>>

\* A full executor makes the listener throw: the container tries again and, after
\* the last attempt, logs the record and goes on.
HandOverRejected(e) ==
    /\ record[e] = "logged"
    /\ attempts' = [attempts EXCEPT ![e] = @ + 1]
    /\ IF attempts[e] + 1 < MaxDeliveries
       THEN UNCHANGED <<record, bounds, lost>>
       ELSE Fault(e) /\ record' = [record EXCEPT ![e] = "acked"]
    /\ UNCHANGED <<members, tx, rows, outgoing, task, lists, sent>>

\* The group is rebalanced before the offset is committed: whoever has the
\* partition now gets the record again, while the first task may still run.
Redeliver(e) ==
    /\ record[e] = "handed"
    /\ redeliveries < MaxRedeliveries
    /\ redeliveries' = redeliveries + 1
    /\ record' = [record EXCEPT ![e] = "logged"]
    /\ attempts' = [attempts EXCEPT ![e] = 0]
    /\ UNCHANGED <<members, tx, rows, outgoing, task, lists, sent, restarts, faults, lost>>

\* The container commits the offset after the batch it polled.
CommitOffset(e) ==
    /\ record[e] = "handed"
    /\ record' = [record EXCEPT ![e] = "acked"]
    /\ UNCHANGED <<members, tx, rows, outgoing, task, attempts, lists, sent, bounds, lost>>

-----------------------------------------------------------------------------
(* The listener's task *)

Goto(e, n, l) == task' = [task EXCEPT ![e][n].pc = l]

\* Whom a task will notify, with one notification for each row it finds, whether
\* notificationEnabled is set or not.  The author's own read status counts, too:
\* the filter compares the ids as references.
Receivers(e) ==
    [u \in Users |-> CASE e \in Messages    -> readStatuses[u]
                       [] e \in RoleChanges -> IF u = Target[e] THEN 1 ELSE 0
                       [] OTHER             -> IF u \in Admins \ gone THEN 1 ELSE 0]

\* findAllByRole maps the administrators outside of any transaction: a profile,
\* which is lazy, cannot be loaded any more.
LookThrows(e) == e \in Failures /\ (Admins \ gone) \cap profiled # {}

\* Without administrators there is nobody to tell of a failed upload.
Look(e, n) ==
    /\ task[e][n].pc = "look"
    /\ ~ LookThrows(e)
    /\ task' = [task EXCEPT ![e][n] =
                 [pc |-> IF e \in Failures /\ Receivers(e) = Nobody THEN "done" ELSE "save",
                  to |-> Receivers(e)]]
    /\ UNCHANGED <<members, tx, rows, outgoing, kafka, lists, sent, bounds, lost>>

LookFails(e, n) ==
    /\ task[e][n].pc = "look"
    /\ LookThrows(e)
    /\ Goto(e, n, "done")
    /\ lost' = lost \cup {e}
    /\ UNCHANGED <<members, tx, rows, outgoing, kafka, lists, sent, bounds>>

\* A role change evicts the receiver's list, the others every list.
EvictedBy(e) == IF e \in RoleChanges THEN {Target[e]} ELSE Users

\* The transaction of saveAllNotifications or saveNotification commits.  Whether
\* @CacheEvict acts inside or outside of it is not determined by the code.
Save(e, n) ==
    /\ task[e][n].pc \in {"save", "evicted"}
    /\ rows' = [rows EXCEPT ![e] = [u \in Users |-> @[u] + task[e][n].to[u]]]
    /\ Goto(e, n, IF task[e][n].pc = "save" THEN "evict" ELSE "send")
    /\ UNCHANGED <<members, tx, outgoing, kafka, lists, sent, bounds, lost>>

\* Mutant of SaveFails: the exception is caught and logged.
SaveFailureIgnored(e, n) ==
    /\ task[e][n].pc \in {"save", "evicted"}
    /\ Goto(e, n, "send")
    /\ Fault(e)
    /\ UNCHANGED <<members, tx, rows, outgoing, kafka, lists, sent>>

SaveFails(e, n) ==
    /\ task[e][n].pc \in {"save", "evicted"}
    /\ Goto(e, n, "done")
    /\ Fault(e)
    /\ UNCHANGED <<members, tx, rows, outgoing, kafka, lists, sent>>

Evict(e, n) ==
    /\ task[e][n].pc \in {"save", "evict"}
    /\ cache' = [u \in Users |-> IF u \in EvictedBy(e) THEN NoList ELSE cache[u]]
    /\ Goto(e, n, IF task[e][n].pc = "save" THEN "evicted" ELSE "send")
    /\ UNCHANGED <<members, tx, rows, outgoing, kafka, reading, sent, bounds, lost>>

\* sendSSe, one notification after the other.
Send(e, n) ==
    /\ task[e][n].pc = "send"
    /\ \E u \in Users :
         /\ task[e][n].to[u] > 0
         /\ sent' = sent \cup {<<e, u>>}
         /\ task' = [task EXCEPT ![e][n].to[u] = @ - 1]
    /\ UNCHANGED <<members, tx, rows, outgoing, kafka, lists, bounds, lost>>

\* The loop is over, or sseExecutor rejects and the task ends with an exception.
EndTask(e, n) ==
    /\ task[e][n].pc = "send"
    /\ \/ task[e][n].to = Nobody /\ UNCHANGED <<bounds, lost>>
       \/ task[e][n].to # Nobody /\ Fault(e)
    /\ task' = [task EXCEPT ![e][n] = [pc |-> "done", to |-> Nobody]]
    /\ UNCHANGED <<members, tx, rows, outgoing, kafka, lists, sent>>

-----------------------------------------------------------------------------
(* Reading the list through the cache *)

List(u) == [e \in Events |-> rows[e][u]]

Empty == [e \in Events |-> 0]

\* A miss reads the rows; an empty list is not cached.
ReadRows(u) ==
    /\ cache[u] = NoList /\ reading[u] = NoList
    /\ u \notin gone
    /\ List(u) # Empty
    /\ reading' = [reading EXCEPT ![u] = List(u)]
    /\ UNCHANGED <<members, tx, rows, outgoing, task, kafka, cache, sent, bounds, lost>>

PutList(u) ==
    /\ reading[u] # NoList
    /\ cache' = [cache EXCEPT ![u] = reading[u]]
    /\ reading' = [reading EXCEPT ![u] = NoList]
    /\ UNCHANGED <<members, tx, rows, outgoing, task, kafka, sent, bounds, lost>>

\* Mutant of ListExpires: no entryTtl.
ListStays(u) == cache[u] # NoList /\ UNCHANGED vars

\* entryTtl
ListExpires(u) ==
    /\ cache[u] # NoList
    /\ cache' = [cache EXCEPT ![u] = NoList]
    /\ UNCHANGED <<members, tx, rows, outgoing, task, kafka, reading, sent, bounds, lost>>

-----------------------------------------------------------------------------
\* Open transactions, tasks and requests are gone; ddl-auto creates the tables
\* anew and start-up an administrator, while Redis and Kafka keep what they have.
\* Records whose offset was not committed are delivered again, of the other events
\* nothing is left.
Restart ==
    /\ restarts < MaxRestarts
    /\ restarts' = restarts + 1
    /\ channel' = FALSE /\ written' = {} /\ profiled' = {}
    /\ \E a \in Admins : gone' = Users \ {a}
    /\ readStatuses' = Nobody /\ checked' = Nobody
    /\ stayed' = [m \in Messages |-> {}]
    /\ rows' = [e \in Events |-> Nobody]
    /\ tx' = [e \in Events |-> IF tx[e] = "open" THEN "rolledBack" ELSE tx[e]]
    /\ outgoing' = {}
    /\ task' = [e \in Events |-> [n \in Deliveries |-> NoTask]]
    /\ record' = [e \in Events |-> IF record[e] = "handed" THEN "logged" ELSE record[e]]
    /\ attempts' = [e \in Events |-> 0]
    /\ reading' = [u \in Users |-> NoList]
    /\ sent' = {}
    /\ lost' = lost \cup {e \in Events : tx[e] = "committed" /\ record[e] \in {"none", "acked"}}
    /\ UNCHANGED <<private, cache, redeliveries, faults>>

-----------------------------------------------------------------------------
Init ==
    /\ channel = TRUE
    /\ private \in BOOLEAN
    /\ gone = {}
    /\ profiled = {}
    /\ written = {}
    /\ readStatuses \in [Users -> {0, 1}]
    /\ tx = [e \in Events |-> "none"]
    /\ rows = [e \in Events |-> Nobody]
    /\ checked = Nobody
    /\ outgoing = {}
    /\ task = [e \in Events |-> [n \in Deliveries |-> NoTask]]
    /\ record = [e \in Events |-> "none"]
    /\ attempts = [e \in Events |-> 0]
    /\ cache = [u \in Users |-> NoList]
    /\ reading = [u \in Users |-> NoList]
    /\ sent = {}
    /\ restarts = 0
    /\ redeliveries = 0
    /\ faults = 0
    /\ lost = {}
    /\ stayed = [m \in Messages |-> {}]

Request ==
    \/ \E u \in Joiners : CheckReadStatus(u) \/ InsertReadStatus(u)
    \/ \E u \in Users : DeleteUser(u) \/ GetsProfile(u)
    \/ \E m \in Messages : DeleteMessage(m)
    \/ DeleteChannel
    \/ \E e \in Messages \cup RoleChanges : Begin(e) \/ Commit(e) \/ RollBack(e)
    \/ \E e \in Failures : Report(e)

PublishStep(e) == Publish(e) \/ PublishFails(e)

ConsumerStep(e) == HandOver(e) \/ HandOverRejected(e) \/ CommitOffset(e)

TaskStep(e, n) == Look(e, n) \/ LookFails(e, n) \/ Save(e, n) \/ SaveFails(e, n) \/ Evict(e, n)
                  \/ Send(e, n) \/ EndTask(e, n)

Next ==
    \/ Request
    \/ \E e \in Events : PublishStep(e) \/ ConsumerStep(e) \/ Redeliver(e)
    \/ \E e \in Events, n \in Deliveries : TaskStep(e, n)
    \/ \E u \in Readers : ReadRows(u) \/ PutList(u) \/ ListExpires(u)
    \/ Restart

Spec == Init /\ [][Next]_vars

\* Accepted tasks and the consumer run, a reader stores what it read, Redis
\* expires entries.  Requests need not come.
FairSpec ==
    /\ Spec
    /\ \A e \in Events : WF_vars(PublishStep(e)) /\ WF_vars(ConsumerStep(e))
    /\ \A e \in Events, n \in Deliveries : WF_vars(TaskStep(e, n))
    /\ \A u \in Readers : WF_vars(PutList(u)) /\ WF_vars(ListExpires(u))

-----------------------------------------------------------------------------
(* Properties. *)

TxStates == {"none", "open", "committed", "rolledBack"}
Labels   == {"none", "look", "save", "evict", "evicted", "send", "done"}

\* Every variable stays in its domain.
TypeOK ==
    /\ channel \in BOOLEAN
    /\ private \in BOOLEAN
    /\ gone \subseteq Users /\ profiled \subseteq Users
    /\ written \subseteq Messages
    /\ readStatuses \in [Users -> Nat]
    /\ tx \in [Events -> TxStates]
    /\ rows \in [Events -> [Users -> Nat]]
    /\ checked \in [Users -> Nat]
    /\ outgoing \subseteq Events
    /\ task \in [Events -> [Deliveries -> [pc : Labels, to : [Users -> Nat]]]]
    /\ record \in [Events -> {"none", "logged", "handed", "acked"}]
    /\ attempts \in [Events -> 0 .. MaxDeliveries]
    /\ cache \in [Users -> [Events -> Nat] \cup {NoList}]
    /\ reading \in [Users -> [Events -> Nat] \cup {NoList}]
    /\ sent \subseteq Events \X Users
    /\ restarts \in 0 .. MaxRestarts
    /\ redeliveries \in 0 .. MaxRedeliveries
    /\ faults \in 0 .. MaxFaults
    /\ lost \subseteq Events
    /\ stayed \in [Messages -> SUBSET Users]

\* Users are notified of what was committed, never of a message or role change
\* that is rolled back after its event was published.
OnlyCommitted ==
    \A e \in Events : (\E u \in Users : rows[e][u] > 0) => tx[e] = "committed"

\* A user is notified once of an event, and once more at most for each redelivery
\* of a record whose first task may still run; neither requests that race to
\* create the user's read status nor restarts add to it.
NotifiedOnce == \A e \in Events, u \in Users : rows[e][u] <= 1 + redeliveries

\* A client is told of a notification only when its row is there to be read.
SentIsStored == \A s \in sent : rows[s[1]][s[2]] > 0

\* Users an event is meant for: those who were members of a private channel when
\* the message was committed, and still are, but for its author; the user whose
\* role changed; the administrators.
Due(e) ==
    CASE e \in Messages    -> IF private THEN stayed[e] \ {Author[e]} ELSE {}
      [] e \in RoleChanges -> {Target[e]}
      [] OTHER             -> Admins \ gone

\* Whatever was committed reaches those it is meant for, although it passes two
\* executors and Kafka, unless one of the failures struck that the code does not
\* retry.
EventuallyNotified ==
    \A e \in Events :
        tx[e] = "committed" ~> e \in lost \/ \A u \in Due(e) : rows[e][u] > 0

\* What the listener says of itself: receivers get a message by their
\* notificationEnabled (its comment), which is false in a public channel, and the
\* author is left out (its filter).  Whoever is the one and the other is spared.
AuthorSpared == \A m \in Messages : rows[m][Author[m]] > 0 => private

\* Lists that were read before a change and cached after its eviction do not
\* stay: in the end the cache holds what the table holds, or nothing.
CacheCatchesUp == \A u \in Readers : <>[](cache[u] \in {NoList, List(u)})

=============================================================================
