------------------------ MODULE BinaryContentUpload ------------------------
(***************************************************************************)
(* Uploaded files.  A request commits the row of a file as PROCESSING;     *)
(* after the commit a task of the asynchronous executor stores the bytes   *)
(* and then sets the row to SUCCESS or FAIL.  The event by which it tells  *)
(* the uploader's clients holds no status, so only whether the executor of *)
(* the server-sent events accepts it matters here.                         *)
(***************************************************************************)
EXTENDS Naturals, SequencesExt

CONSTANTS
    Contents,       \* files; each is uploaded once
    EmptyContents,  \* those without bytes
    Workers,        \* threads of the default executor (its maximal pool)
    QueueCapacity,  \* of the default executor
    MaxAttempts,    \* of the S3 put
    NoContent

ASSUME UploadAssumption ==
    /\ EmptyContents \subseteq Contents
    /\ QueueCapacity \in Nat
    /\ MaxAttempts \in Nat \ {0}
    /\ NoContent \notin Contents

VARIABLES
    status,    \* committed row of each file
    object,    \* what the storage holds of it
    queue,     \* waiting tasks
    task,      \* what each worker works on
    pc,        \* next step of each worker
    attempt,   \* attempts of the put in progress
    aim,       \* the status each worker's updateStatus sets
    reported,  \* files whose UploadFailedEvent was published
    storage,   \* the configured one, "s3" or "local"
    struck,    \* history: files whose task was rejected or could not record FAIL
    unanswered \* history: files of which a commit of SUCCESS was taken for failed

rows  == <<status, object>>
pool  == <<queue, task, pc, attempt, aim>>
past  == <<struck, unanswered>>
other == <<reported, storage, past>>
vars  == <<rows, pool, other>>

Final  == {"SUCCESS", "FAIL"}
Status == {"none", "PROCESSING", "deleted"} \cup Final

Goto(w, l) == pc' = [pc EXCEPT ![w] = l]

Finish(w) ==
    /\ Goto(w, "idle")
    /\ task' = [task EXCEPT ![w] = NoContent]
    /\ attempt' = [attempt EXCEPT ![w] = 0]
    /\ aim' = [aim EXCEPT ![w] = "SUCCESS"]

-----------------------------------------------------------------------------
(* The request *)

Run(w, c) ==
    /\ pc[w] = "idle"
    /\ task' = [task EXCEPT ![w] = c]
    /\ Goto(w, "check")

\* The request that creates a user, a message or a new profile commits, and the
\* AFTER_COMMIT listener is submitted.  A full executor rejects the task; the
\* exception is logged after the commit and goes no further.
Create(c) ==
    /\ status[c] = "none"
    /\ status' = [status EXCEPT ![c] = "PROCESSING"]
    /\ \/ /\ Len(queue) < QueueCapacity
          /\ queue' = Append(queue, c)
          /\ UNCHANGED <<task, pc, struck>>
       \/ /\ Len(queue) >= QueueCapacity
          /\ \/ (\E w \in Workers : Run(w, c)) /\ UNCHANGED struck
             \/ UNCHANGED <<task, pc>> /\ struck' = struck \cup {c}
          /\ UNCHANGED queue
    /\ UNCHANGED <<object, attempt, aim, reported, storage, unanswered>>

\* The row goes with its message or user, or when a new profile replaces it, or
\* with the tables when another replica starts.  The stored bytes stay.
Delete(c) ==
    /\ status[c] \in {"PROCESSING"} \cup Final
    /\ status' = [status EXCEPT ![c] = "deleted"]
    /\ UNCHANGED <<object, pool, other>>

-----------------------------------------------------------------------------
(* The task *)

Take(w) ==
    /\ queue # <<>>
    /\ Run(w, Head(queue))
    /\ queue' = Tail(queue)
    /\ UNCHANGED <<rows, attempt, aim, other>>

\* A file without bytes is refused outside the try block.
Check(w) ==
    /\ pc[w] = "check"
    /\ IF task[w] \in EmptyContents
       THEN Finish(w)
       ELSE /\ Goto(w, "put")
            /\ attempt' = [attempt EXCEPT ![w] = 1]
            /\ UNCHANGED <<task, aim>>
    /\ UNCHANGED <<rows, queue, other>>

Store(c, o) == object' = [object EXCEPT ![c] = o]

\* The call of updateStatus that follows a put, in the try or the catch block.
Settle(w, st) ==
    /\ Goto(w, "find")
    /\ aim' = [aim EXCEPT ![w] = st]

PutSucceeds(w) ==
    /\ pc[w] = "put"
    /\ storage = "local" => object[task[w]] = "absent"
    /\ Store(task[w], "complete")
    /\ Settle(w, "SUCCESS")
    /\ UNCHANGED <<status, queue, task, attempt, other>>

\* Mutant of LocalPutFails: the IOException is caught and logged.
LocalPutIgnoresFailure(w) ==
    /\ pc[w] = "put"
    /\ storage = "local"
    /\ \E o \in {object[task[w]], "partial"} : Store(task[w], o)
    /\ Settle(w, "SUCCESS")
    /\ UNCHANGED <<status, queue, task, attempt, other>>

\* The local file exists already, cannot be created, or is left half written.
LocalPutFails(w) ==
    /\ pc[w] = "put"
    /\ storage = "local"
    /\ \E o \in IF object[task[w]] = "absent" THEN {"absent", "partial"} ELSE {object[task[w]]} :
         Store(task[w], o)
    /\ Settle(w, "FAIL")
    /\ UNCHANGED <<status, queue, task, attempt, other>>

\* Mutant of S3PutRetries: one attempt too many.
S3PutOnceMore(w) ==
    /\ pc[w] = "put"
    /\ storage = "s3"
    /\ attempt[w] <= MaxAttempts
    /\ \E o \in {object[task[w]], "complete"} : Store(task[w], o)
    /\ attempt' = [attempt EXCEPT ![w] = @ + 1]
    /\ UNCHANGED <<status, queue, task, pc, aim, other>>

\* Mutant of S3PutRetries: after the last attempt the count starts over.
S3PutStartsOver(w) ==
    /\ pc[w] = "put"
    /\ storage = "s3"
    /\ \E o \in {object[task[w]], "complete"} : Store(task[w], o)
    /\ attempt' = [attempt EXCEPT ![w] = (@ % MaxAttempts) + 1]
    /\ UNCHANGED <<status, queue, task, pc, aim, other>>

\* SdkClientException: no answer, the bytes may have arrived or not.
S3PutRetries(w) ==
    /\ pc[w] = "put"
    /\ storage = "s3"
    /\ attempt[w] < MaxAttempts
    /\ \E o \in {object[task[w]], "complete"} : Store(task[w], o)
    /\ attempt' = [attempt EXCEPT ![w] = @ + 1]
    /\ UNCHANGED <<status, queue, task, pc, aim, other>>

\* Mutant of S3PutGivesUp: recover returns instead of throwing.
S3PutSwallows(w) ==
    /\ pc[w] = "put"
    /\ storage = "s3"
    /\ attempt[w] = MaxAttempts
    /\ \E o \in {object[task[w]], "complete"} : Store(task[w], o)
    /\ reported' = reported \cup {task[w]}
    /\ Settle(w, "SUCCESS")
    /\ UNCHANGED <<status, queue, task, attempt, storage, past>>

\* The last attempt fails: recover publishes the failure, unless the executor
\* of its listener is full, and throws.
S3PutGivesUp(w) ==
    /\ pc[w] = "put"
    /\ storage = "s3"
    /\ attempt[w] = MaxAttempts
    /\ \E o \in {object[task[w]], "complete"} : Store(task[w], o)
    /\ reported' \in {reported, reported \cup {task[w]}}
    /\ Settle(w, "FAIL")
    /\ UNCHANGED <<status, queue, task, attempt, storage, past>>

\* S3Exception: S3 refuses; this is neither retried nor reported.
S3PutRefused(w) ==
    /\ pc[w] = "put"
    /\ storage = "s3"
    /\ Settle(w, "FAIL")
    /\ UNCHANGED <<rows, queue, task, attempt, other>>

-----------------------------------------------------------------------------
(* updateStatus, a transaction: the row is looked up, the event is sent, the *)
(* row is committed.  When it fails for SUCCESS it is called again for FAIL. *)

\* What the listener does about an exception of updateStatus.
UpdateFails(w) ==
    /\ IF aim[w] = "SUCCESS"
       THEN Settle(w, "FAIL") /\ UNCHANGED <<task, attempt>>
       ELSE Finish(w)
    /\ UNCHANGED <<object, queue, reported, storage>>

\* A failure that leaves the row as it is; the second one leaves it for good.
Struck(w) ==
    /\ UpdateFails(w)
    /\ struck' = IF aim[w] = "FAIL" THEN struck \cup {task[w]} ELSE struck
    /\ UNCHANGED <<status, unanswered>>

FindRow(w) ==
    /\ pc[w] = "find"
    /\ IF status[task[w]] = "deleted"
       THEN UpdateFails(w) /\ UNCHANGED <<status, past>>
       ELSE /\ Goto(w, "send")
            /\ UNCHANGED <<rows, queue, task, attempt, aim, other>>

SendStatus(w) ==
    /\ pc[w] = "send"
    /\ Goto(w, "commit")
    /\ UNCHANGED <<rows, queue, task, attempt, aim, other>>

\* The SSE executor is full.
SendRejected(w) == pc[w] = "send" /\ Struck(w)

\* Mutant of CommitStatus: the row is inserted again when it is gone.
CommitRevives(w) ==
    /\ pc[w] = "commit"
    /\ status' = [status EXCEPT ![task[w]] = aim[w]]
    /\ Finish(w)
    /\ UNCHANGED <<object, queue, other>>

\* A row deleted since the look-up makes the flush fail.
CommitStatus(w) ==
    /\ pc[w] = "commit"
    /\ IF status[task[w]] = "deleted"
       THEN UpdateFails(w) /\ UNCHANGED <<status, past>>
       ELSE /\ status' = [status EXCEPT ![task[w]] = aim[w]]
            /\ Finish(w)
            /\ UNCHANGED <<object, queue, other>>

\* The database fails.
CommitFails(w) == pc[w] = "commit" /\ Struck(w)

\* The database commits, but its answer is lost: the caller takes it for a failure.
CommitUnanswered(w) ==
    /\ pc[w] = "commit"
    /\ status[task[w]] # "deleted"
    /\ status' = [status EXCEPT ![task[w]] = aim[w]]
    /\ unanswered' = IF aim[w] = "SUCCESS" THEN unanswered \cup {task[w]} ELSE unanswered
    /\ UpdateFails(w)
    /\ UNCHANGED struck

UpdateStatus(w) ==
    \/ FindRow(w)
    \/ SendStatus(w) \/ SendRejected(w)
    \/ CommitStatus(w) \/ CommitFails(w) \/ CommitUnanswered(w)

-----------------------------------------------------------------------------
(* The environment *)

\* The process dies and with it its tasks; the next one creates the tables anew.
Crash ==
    /\ status' = [c \in Contents |-> IF status[c] = "none" THEN "none" ELSE "deleted"]
    /\ queue' = <<>>
    /\ task' = [w \in Workers |-> NoContent]
    /\ pc' = [w \in Workers |-> "idle"]
    /\ attempt' = [w \in Workers |-> 0]
    /\ aim' = [w \in Workers |-> "SUCCESS"]
    /\ UNCHANGED <<object, other>>

-----------------------------------------------------------------------------
Init ==
    /\ status  = [c \in Contents |-> "none"]
    /\ object  = [c \in Contents |-> "absent"]
    /\ queue   = <<>>
    /\ task    = [w \in Workers |-> NoContent]
    /\ pc      = [w \in Workers |-> "idle"]
    /\ attempt = [w \in Workers |-> 0]
    /\ aim     = [w \in Workers |-> "SUCCESS"]
    /\ reported = {}
    /\ storage \in {"s3", "local"}
    /\ struck  = {}
    /\ unanswered = {}

PutStep(w) ==
    PutSucceeds(w) \/ LocalPutFails(w) \/ S3PutRetries(w) \/ S3PutGivesUp(w) \/ S3PutRefused(w)

WorkerStep(w) == Take(w) \/ Check(w) \/ PutStep(w) \/ UpdateStatus(w)

Next ==
    \/ \E c \in Contents : Create(c) \/ Delete(c)
    \/ \E w \in Workers : WorkerStep(w)
    \/ Crash

Spec == Init /\ [][Next]_vars

\* Threads of the executor run.
FairSpec == Spec /\ \A w \in Workers : WF_vars(WorkerStep(w))

-----------------------------------------------------------------------------
(* Properties. *)

Labels == {"idle", "check", "put", "find", "send", "commit"}

\* Every variable stays in its domain; a worker has a task unless it is idle.
TypeOK ==
    /\ status \in [Contents -> Status]
    /\ object \in [Contents -> {"absent", "partial", "complete"}]
    /\ queue \in Seq(Contents)
    /\ Len(queue) <= QueueCapacity
    /\ pc \in [Workers -> Labels]
    /\ task \in [Workers -> Contents \cup {NoContent}]
    /\ \A w \in Workers : pc[w] = "idle" <=> task[w] = NoContent
    /\ attempt \in [Workers -> 0 .. MaxAttempts]
    /\ aim \in [Workers -> Final]
    /\ reported \subseteq Contents
    /\ storage \in {"s3", "local"}
    /\ struck \subseteq Contents /\ unanswered \subseteq Contents

\* A file that is offered for download as SUCCESS is stored in full.
SuccessIsStored == \A c \in Contents : status[c] = "SUCCESS" => object[c] = "complete"

\* An upload that administrators were told has failed never becomes SUCCESS.
ReportedFails == \A c \in reported : status[c] # "SUCCESS"

\* Once SUCCESS or FAIL, a row changes no more, and a deleted one stays deleted,
\* although the task looks the row up, sends the event and writes it in three
\* steps.  Only a commit whose answer was lost lets FAIL overwrite SUCCESS.
OutcomeIsFinal ==
    [][\A c \in Contents :
         /\ status[c] \in Final =>
              \/ status'[c] \in {status[c], "deleted"}
              \/ c \in unanswered /\ status'[c] = "FAIL"
         /\ status[c] = "deleted" => status'[c] = "deleted"]_status

\* Every upload with bytes leaves PROCESSING in the end, by its outcome or with
\* its row, unless the executor rejects its task or its FAIL cannot be recorded.
UploadsSettle ==
    <>[](\A c \in Contents \ EmptyContents : status[c] = "PROCESSING" => c \in struck)

=============================================================================
