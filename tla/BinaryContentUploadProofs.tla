--------------------- MODULE BinaryContentUploadProofs ---------------------
(***************************************************************************)
(* What holds of uploads for any number of files and workers, with either  *)
(* storage, rejected events, failing or unanswered commits and crashes.    *)
(***************************************************************************)
EXTENDS BinaryContentUpload, QueueLemmas

USE DEF Goto, rows, pool, past, other

-----------------------------------------------------------------------------
(* The inductive invariant. *)

\* A file is in one place: once in the queue, or with one worker.
OneTask ==
    /\ \A i, j \in DOMAIN queue : queue[i] = queue[j] => i = j
    /\ \A w \in Workers : task[w] \notin ToSet(queue)
    /\ \A w, v \in Workers : task[w] = task[v] /\ task[w] # NoContent => w = v

Updating == {"find", "send", "commit"}

\* The worker is to set FAIL over the SUCCESS of which it got no answer.
Overwrites(w) ==
    /\ pc[w] \in Updating /\ aim[w] = "FAIL"
    /\ status[task[w]] = "SUCCESS" /\ task[w] \in unanswered

\* Before its task has run, a file's row is PROCESSING or gone.
Undecided ==
    /\ \A c \in ToSet(queue) : status[c] \in {"PROCESSING", "deleted"}
    /\ \A w \in Workers : pc[w] # "idle" =>
         status[task[w]] \in {"PROCESSING", "deleted"} \/ Overwrites(w)

\* A worker that is to set SUCCESS has stored the bytes.
Backed ==
    \A w \in Workers :
        pc[w] \in Updating /\ aim[w] = "SUCCESS" => object[task[w]] = "complete"

\* The task of a file that was reported is over, or is to set FAIL.
ReportedDoomed ==
    \A c \in reported :
        /\ status[c] # "none"
        /\ c \notin ToSet(queue)
        /\ \A w \in Workers : task[w] = c =>
             pc[w] \in Updating /\ aim[w] = "FAIL"

Inv == /\ TypeOK /\ OneTask /\ Undecided /\ Backed
       /\ SuccessIsStored /\ ReportedFails /\ ReportedDoomed

-----------------------------------------------------------------------------
(* A file about to be uploaded is in nobody's hands. *)

LEMMA NewContent ==
    ASSUME Inv, NEW c \in Contents, status[c] = "none"
    PROVE  /\ c \notin ToSet(queue) /\ c \notin reported
           /\ \A w \in Workers : task[w] # c
<1>1. c \notin ToSet(queue) /\ c \notin reported
  BY DEF Inv, Undecided, ReportedDoomed
<1>2. ASSUME NEW w \in Workers, task[w] = c PROVE FALSE
  <2>1. pc[w] # "idle"
    BY <1>2, UploadAssumption DEF Inv, TypeOK
  <2> QED  BY <1>2, <2>1 DEF Inv, Undecided, Overwrites, Updating
<1> QED  BY <1>1, <1>2

\* A worker that is not idle works on a file.
LEMMA TaskOf ==
    ASSUME TypeOK, NEW w \in Workers, pc[w] # "idle"
    PROVE  task[w] \in Contents
BY DEF TypeOK

\* A queue of limited length after a file was appended.
LEMMA QueueAppended ==
    ASSUME TypeOK, NEW c \in Contents, Len(queue) < QueueCapacity
    PROVE  /\ Append(queue, c) \in Seq(Contents)
           /\ Len(Append(queue, c)) <= QueueCapacity
           /\ ToSet(Append(queue, c)) = ToSet(queue) \cup {c}
<1>1. queue \in Seq(Contents) /\ Len(queue) \in Nat /\ QueueCapacity \in Nat
  BY UploadAssumption, LenProperties DEF TypeOK
<1>2. Append(queue, c) \in Seq(Contents) /\ Len(Append(queue, c)) = Len(queue) + 1
  BY <1>1, AppendProperties
<1> QED  BY <1>1, <1>2, AppendToSet

-----------------------------------------------------------------------------
(* The steps of a worker on the file it holds: what they have in common.   *)

\* The queue stays, other workers stay, and the worker keeps its file or ends.
Works(w) ==
    /\ queue' = queue
    /\ \A v \in Workers \ {w} : UNCHANGED <<task[v], pc[v], attempt[v], aim[v]>>
    /\ pc[w] # "idle"
    /\ \/ task'[w] = task[w] /\ pc'[w] \in Labels \ {"idle"}
       \/ task'[w] = NoContent /\ pc'[w] = "idle"
    /\ attempt'[w] \in 0 .. MaxAttempts /\ aim'[w] \in Final
    /\ pc' = [v \in Workers |-> pc'[v]] /\ task' = [v \in Workers |-> task'[v]]
    /\ attempt' = [v \in Workers |-> attempt'[v]] /\ aim' = [v \in Workers |-> aim'[v]]

Holds(w) == Check(w) \/ PutStep(w) \/ UpdateStatus(w)

LEMMA HoldsWorks ==
    ASSUME TypeOK, NEW w \in Workers, Holds(w)
    PROVE  Works(w)
<1>1. /\ pc \in [Workers -> Labels] /\ task \in [Workers -> Contents \cup {NoContent}]
      /\ attempt \in [Workers -> 0 .. MaxAttempts] /\ aim \in [Workers -> Final]
      /\ MaxAttempts \in Nat \ {0} /\ 0 \in 0 .. MaxAttempts /\ 1 \in 0 .. MaxAttempts
  BY UploadAssumption DEF TypeOK
<1>2. CASE Check(w)
  BY <1>1, <1>2 DEF Check, Finish, Works, Labels, Final
<1>3. CASE PutStep(w)
  BY <1>1, <1>3
     DEF PutStep, PutSucceeds, LocalPutFails, S3PutRetries, S3PutGivesUp, S3PutRefused,
         Settle, Works, Labels, Final
<1>4. CASE UpdateStatus(w)
  BY <1>1, <1>4
     DEF UpdateStatus, FindRow, SendStatus, SendRejected, CommitStatus, CommitFails,
         CommitUnanswered, Struck, UpdateFails, Settle, Finish, Works, Labels, Final
<1> QED  BY <1>2, <1>3, <1>4 DEF Holds

\* It writes the row and ends, or is about to write FAIL over SUCCESS.
Commits(w) ==
    /\ pc[w] = "commit" /\ status[task[w]] # "deleted"
    /\ status' = [status EXCEPT ![task[w]] = aim[w]]
    /\ \/ task'[w] = NoContent
       \/ /\ aim[w] = "SUCCESS" /\ task[w] \in unanswered'
          /\ task'[w] = task[w] /\ pc'[w] \in Updating /\ aim'[w] = "FAIL"

\* What such a step does to the row and the stored bytes of its file; those of
\* other files stay.
LEMMA HoldsRows ==
    ASSUME TypeOK, NEW w \in Workers, Holds(w)
    PROVE  /\ status' = status \/ Commits(w)
           /\ unanswered \subseteq unanswered' /\ unanswered' \subseteq unanswered \cup {task[w]}
           /\ object' \in [Contents -> {"absent", "partial", "complete"}]
           /\ \A c \in Contents : object[c] = "complete" => object'[c] = "complete"
           /\ pc'[w] \in Updating /\ aim'[w] = "SUCCESS" =>
                \/ object'[task[w]] = "complete"
                \/ pc[w] \in Updating /\ aim[w] = "SUCCESS"
           /\ pc[w] \in Updating /\ aim[w] = "FAIL" =>
                \/ pc'[w] \in Updating /\ aim'[w] = "FAIL"
                \/ task'[w] = NoContent
           /\ reported' = reported
              \/ /\ reported' = reported \cup {task[w]} /\ status' = status /\ pc[w] = "put"
                 /\ pc'[w] = "find" /\ aim'[w] = "FAIL" /\ task'[w] = task[w]
           /\ struck' \subseteq struck \cup {task[w]} /\ storage' = storage
<1>1. /\ pc \in [Workers -> Labels] /\ task \in [Workers -> Contents \cup {NoContent}]
      /\ aim \in [Workers -> Final] /\ attempt \in [Workers -> 0 .. MaxAttempts]
      /\ object \in [Contents -> {"absent", "partial", "complete"}]
      /\ status \in [Contents -> Status]
  BY DEF TypeOK
<1>2. task[w] \in Contents
  <2>1. pc[w] # "idle"
    BY HoldsWorks DEF Works
  <2> QED  BY <2>1, TaskOf
<1>3. CASE Check(w)
  BY <1>1, <1>2, <1>3 DEF Check, Finish, Overwrites, Updating
<1>4. CASE PutStep(w)
  BY <1>1, <1>2, <1>4
     DEF PutStep, PutSucceeds, LocalPutFails, S3PutRetries, S3PutGivesUp, S3PutRefused,
         Settle, Store, Updating
<1>5. CASE UpdateStatus(w)
  BY <1>1, <1>2, <1>5
     DEF UpdateStatus, FindRow, SendStatus, SendRejected, CommitStatus, CommitFails,
         CommitUnanswered, Struck, UpdateFails, Settle, Finish, Commits, Updating, Final
<1> QED  BY <1>3, <1>4, <1>5 DEF Holds

-----------------------------------------------------------------------------
(* Every kind of step keeps the invariant. *)

LEMMA HoldsStep ==
    ASSUME Inv, NEW w \in Workers, Holds(w)
    PROVE  Inv' /\ \A c \in Contents :
                     /\ status[c] \in Final =>
                          status'[c] = status[c] \/ (c \in unanswered /\ status'[c] = "FAIL")
                     /\ status[c] = "deleted" => status'[c] = "deleted"
<1>0. TypeOK /\ OneTask /\ Undecided /\ Backed /\ SuccessIsStored /\ ReportedFails /\ ReportedDoomed
  BY DEF Inv
<1>1. Works(w)
  BY <1>0, HoldsWorks
<1>2. /\ status' = status \/ Commits(w)
      /\ unanswered \subseteq unanswered' /\ unanswered' \subseteq unanswered \cup {task[w]}
      /\ object' \in [Contents -> {"absent", "partial", "complete"}]
      /\ \A c \in Contents : object[c] = "complete" => object'[c] = "complete"
      /\ pc'[w] \in Updating /\ aim'[w] = "SUCCESS" =>
           \/ object'[task[w]] = "complete"
           \/ pc[w] \in Updating /\ aim[w] = "SUCCESS"
      /\ pc[w] \in Updating /\ aim[w] = "FAIL" =>
           \/ pc'[w] \in Updating /\ aim'[w] = "FAIL"
           \/ task'[w] = NoContent
      /\ reported' = reported
         \/ /\ reported' = reported \cup {task[w]} /\ status' = status /\ pc[w] = "put"
            /\ pc'[w] = "find" /\ aim'[w] = "FAIL" /\ task'[w] = task[w]
      /\ struck' \subseteq struck \cup {task[w]} /\ storage' = storage
  BY <1>0, HoldsRows
<1>3. /\ pc \in [Workers -> Labels] /\ task \in [Workers -> Contents \cup {NoContent}]
      /\ aim \in [Workers -> Final] /\ status \in [Contents -> Status]
      /\ pc[w] # "idle" /\ task[w] \in Contents
      /\ status[task[w]] \in {"PROCESSING", "deleted"} \/ Overwrites(w)
      /\ NoContent \notin Contents /\ ToSet(queue) \subseteq Contents
  <2>1. pc[w] # "idle"
    BY <1>1 DEF Works
  <2>2. ToSet(queue) \subseteq Contents
    BY <1>0, ElementOfSeq DEF TypeOK, ToSet
  <2> QED  BY <1>0, <2>1, <2>2, UploadAssumption DEF TypeOK, Undecided
<1>4. \A c \in Contents :
        \/ status'[c] = status[c]
        \/ /\ c = task[w] /\ pc[w] = "commit" /\ status'[c] = aim[w] /\ Commits(w)
           /\ status[c] = "PROCESSING" \/ Overwrites(w)
  <2>1. CASE status' = status
    BY <2>1
  <2>2. CASE Commits(w)
    <3>1. \A c \in Contents : status'[c] = IF c = task[w] THEN aim[w] ELSE status[c]
      BY <1>3, <2>2 DEF Commits
    <3>2. status[task[w]] = "PROCESSING" \/ Overwrites(w)
      BY <1>3, <2>2 DEF Commits
    <3> QED  BY <2>2, <3>1, <3>2 DEF Commits
  <2> QED  BY <1>2, <2>1, <2>2
<1>5. status' \in [Contents -> Status]
  BY <1>2, <1>3 DEF Commits, Status, Final
<1>6. /\ pc' \in [Workers -> Labels] /\ task' \in [Workers -> Contents \cup {NoContent}]
      /\ attempt' \in [Workers -> 0 .. MaxAttempts] /\ aim' \in [Workers -> Final]
  <2>1. \A v \in Workers : /\ pc'[v] \in Labels /\ task'[v] \in Contents \cup {NoContent}
                           /\ attempt'[v] \in 0 .. MaxAttempts /\ aim'[v] \in Final
    BY <1>0, <1>1, <1>3 DEF Works, TypeOK, Labels
  <2> QED  BY <1>1, <2>1 DEF Works
<1>7. \A v \in Workers : pc'[v] = "idle" <=> task'[v] = NoContent
  BY <1>0, <1>1, <1>3 DEF Works, TypeOK
<1>8. TypeOK'
  <2>1. queue' \in Seq(Contents) /\ Len(queue') <= QueueCapacity
    BY <1>0, <1>1 DEF Works, TypeOK
  <2>2. /\ reported' \subseteq Contents /\ storage' \in {"s3", "local"}
        /\ struck' \subseteq Contents /\ unanswered' \subseteq Contents
    BY <1>0, <1>2, <1>3 DEF TypeOK
  <2> QED  BY <1>2, <1>5, <1>6, <1>7, <2>1, <2>2 DEF TypeOK
<1>9. \A v \in Workers : /\ task'[v] \in {task[v], NoContent}
                         /\ task'[v] # NoContent => task'[v] = task[v] /\ pc[v] # "idle"
                         /\ v # w => task'[v] = task[v] /\ pc'[v] = pc[v] /\ aim'[v] = aim[v]
  BY <1>0, <1>1, <1>3 DEF Works, TypeOK
<1>10. NoContent \notin ToSet(queue)
  BY <1>3
<1>11. OneTask'
  BY <1>0, <1>1, <1>9, <1>10 DEF OneTask, Works
<1>12. \A v \in Workers : v # w /\ task[v] # NoContent => task[v] # task[w]
  BY <1>0, <1>3 DEF OneTask
<1>13. Undecided'
  <2>1. task[w] \notin ToSet(queue)
    BY <1>0 DEF OneTask
  <2>2. \A c \in ToSet(queue) : status'[c] = status[c]
    BY <1>3, <1>4, <2>1
  <2>3. ASSUME NEW v \in Workers, pc'[v] # "idle"
        PROVE  status'[task'[v]] \in {"PROCESSING", "deleted"} \/ Overwrites(v)'
    <3>1. task'[v] = task[v] /\ task'[v] # NoContent /\ pc[v] # "idle" /\ task[v] \in Contents
      BY <1>3, <1>7, <1>9, <2>3
    <3>2. status[task[v]] \in {"PROCESSING", "deleted"} \/ Overwrites(v)
      BY <1>0, <3>1 DEF Undecided
    <3>3. CASE v # w
      <4>1. status'[task[v]] = status[task[v]] /\ pc'[v] = pc[v] /\ aim'[v] = aim[v]
        BY <1>4, <1>9, <1>12, <3>1, <3>3
      <4> QED  BY <1>2, <3>1, <3>2, <4>1 DEF Overwrites
    <3>4. CASE v = w /\ status' = status
      BY <1>2, <3>1, <3>2, <3>4 DEF Overwrites
    <3>5. CASE v = w /\ Commits(w)
      BY <1>3, <3>1, <3>5 DEF Commits, Overwrites
    <3> QED  BY <1>2, <3>3, <3>4, <3>5
  <2> QED  BY <1>0, <1>1, <2>2, <2>3 DEF Undecided, Works
<1>14. Backed'
  <2>1. ASSUME NEW v \in Workers, pc'[v] \in Updating, aim'[v] = "SUCCESS"
        PROVE  object'[task'[v]] = "complete"
    <3>1. task'[v] = task[v] /\ task[v] \in Contents
      BY <1>3, <1>7, <1>9, <2>1 DEF Updating
    <3>2. CASE v = w
      BY <1>0, <1>2, <2>1, <3>1, <3>2 DEF Backed
    <3>3. CASE v # w
      BY <1>0, <1>2, <1>9, <2>1, <3>1, <3>3 DEF Backed
    <3> QED  BY <3>2, <3>3
  <2> QED  BY <2>1 DEF Backed
<1>15. SuccessIsStored'
  BY <1>0, <1>2, <1>3, <1>4 DEF SuccessIsStored, Backed, Updating
<1>16. ReportedFails'
  <2>1. ASSUME NEW c \in reported PROVE status'[c] # "SUCCESS"
    <3>1. c \in Contents /\ status[c] # "SUCCESS"
      BY <1>0, <2>1 DEF TypeOK, ReportedFails
    <3>2. c = task[w] => aim[w] = "FAIL"
      BY <1>0, <2>1 DEF ReportedDoomed
    <3> QED  BY <1>4, <3>1, <3>2
  <2>2. status'[task[w]] # "SUCCESS" \/ task[w] \in reported \/ task[w] \notin reported'
    BY <1>2, <1>3 DEF Overwrites, Updating
  <2>3. reported' \subseteq reported \cup {task[w]}
    BY <1>2
  <2> QED  BY <2>1, <2>2, <2>3 DEF ReportedFails
<1>17. ReportedDoomed'
  <2>1. ASSUME NEW c \in reported'
        PROVE  /\ status'[c] # "none" /\ c \notin ToSet(queue)
               /\ \A v \in Workers : task'[v] = c =>
                    pc'[v] \in Updating /\ aim'[v] = "FAIL"
    <3>1. CASE c \in reported
      <4>1. c \in Contents /\ status[c] # "none" /\ c \notin ToSet(queue) /\ c # NoContent
        BY <1>0, <1>3, <3>1 DEF TypeOK, ReportedDoomed
      <4>2. status'[c] # "none"
        BY <1>3, <1>4, <4>1 DEF Final
      <4>3. ASSUME NEW v \in Workers, task'[v] = c
            PROVE  pc'[v] \in Updating /\ aim'[v] = "FAIL"
        <5>1. task[v] = c /\ pc[v] \in Updating /\ aim[v] = "FAIL"
          BY <1>0, <1>9, <3>1, <4>1, <4>3 DEF ReportedDoomed
        <5>2. CASE v = w
          BY <1>2, <4>1, <4>3, <5>1, <5>2
        <5>3. CASE v # w
          BY <1>9, <5>1, <5>3
        <5> QED  BY <5>2, <5>3
      <4> QED  BY <4>1, <4>2, <4>3
    <3>2. CASE c \notin reported
      <4>1. /\ c = task[w] /\ status' = status
            /\ pc'[w] = "find" /\ aim'[w] = "FAIL" /\ task'[w] = task[w]
        BY <1>2, <2>1, <3>2
      <4>2. c \notin ToSet(queue)
        BY <1>0, <4>1 DEF OneTask
      <4>3. \A v \in Workers : task'[v] = c => v = w
        BY <1>3, <1>9, <1>12, <4>1
      <4> QED  BY <1>3, <4>1, <4>2, <4>3 DEF Updating, Overwrites
    <3> QED  BY <3>1, <3>2
  <2> QED  BY <1>1, <2>1 DEF ReportedDoomed, Works
<1>18. \A c \in Contents :
         /\ status[c] \in Final =>
              status'[c] = status[c] \/ (c \in unanswered /\ status'[c] = "FAIL")
         /\ status[c] = "deleted" => status'[c] = "deleted"
  BY <1>4 DEF Final, Overwrites
<1> QED  BY <1>8, <1>11, <1>13, <1>14, <1>15, <1>16, <1>17, <1>18 DEF Inv

\* A worker takes on a file that waited in the queue or was just created.
LEMMA Starts ==
    ASSUME TypeOK, NEW w \in Workers, NEW c \in Contents, Run(w, c)
    PROVE  /\ pc[w] = "idle" /\ task[w] = NoContent /\ task'[w] = c /\ pc'[w] = "check"
           /\ \A v \in Workers \ {w} : task'[v] = task[v] /\ pc'[v] = pc[v]
           /\ pc' \in [Workers -> Labels] /\ task' \in [Workers -> Contents \cup {NoContent}]
           /\ \A v \in Workers : pc'[v] = "idle" <=> task'[v] = NoContent
BY UploadAssumption DEF TypeOK, Run, Labels

LEMMA TakeStep ==
    ASSUME Inv, NEW w \in Workers, Take(w)
    PROVE  Inv' /\ status' = status
<1>0. TypeOK /\ OneTask /\ Undecided /\ Backed /\ SuccessIsStored /\ ReportedFails /\ ReportedDoomed
  BY DEF Inv
<1> DEFINE c == Head(queue)
<1>1. /\ queue \in Seq(Contents) /\ queue # <<>> /\ queue' = Tail(queue) /\ Run(w, c)
      /\ UNCHANGED <<status, object, attempt, aim, reported, storage, struck, unanswered>>
  BY <1>0 DEF Take, TypeOK
<1>2. /\ c \in Contents /\ c \in ToSet(queue)
      /\ Tail(queue) \in Seq(Contents) /\ ToSet(Tail(queue)) \subseteq ToSet(queue)
      /\ Len(Tail(queue)) <= QueueCapacity
  <2>1. Len(queue) \in Nat /\ Len(Tail(queue)) = Len(queue) - 1 /\ QueueCapacity \in Nat
    BY <1>1, PopFront, UploadAssumption
  <2> QED  BY <1>0, <1>1, <2>1, PopFront, HeadTailProperties DEF TypeOK
<1>3. /\ c \notin ToSet(Tail(queue))
      /\ \A i, j \in DOMAIN Tail(queue) : Tail(queue)[i] = Tail(queue)[j] => i = j
  BY <1>0, <1>1, PopFrontOnce DEF OneTask
<1> HIDE DEF c
<1>4. /\ pc[w] = "idle" /\ task[w] = NoContent /\ task'[w] = c /\ pc'[w] = "check"
      /\ \A v \in Workers \ {w} : task'[v] = task[v] /\ pc'[v] = pc[v]
      /\ pc' \in [Workers -> Labels] /\ task' \in [Workers -> Contents \cup {NoContent}]
      /\ \A v \in Workers : pc'[v] = "idle" <=> task'[v] = NoContent
  BY <1>0, <1>1, <1>2, Starts
<1>5. TypeOK'
  BY <1>0, <1>1, <1>2, <1>4 DEF TypeOK
<1>6. OneTask'
  BY <1>0, <1>1, <1>2, <1>3, <1>4 DEF OneTask
<1>7. Undecided'
  BY <1>0, <1>1, <1>2, <1>4 DEF Undecided, Overwrites, Updating
<1>8. Backed' /\ SuccessIsStored' /\ ReportedFails'
  BY <1>0, <1>1, <1>4 DEF Backed, SuccessIsStored, ReportedFails, Overwrites, Updating
<1>9. ReportedDoomed'
  BY <1>0, <1>1, <1>2, <1>4 DEF ReportedDoomed
<1> QED  BY <1>1, <1>5, <1>6, <1>7, <1>8, <1>9 DEF Inv

LEMMA CreateStep ==
    ASSUME Inv, NEW c \in Contents, Create(c)
    PROVE  Inv' /\ \A d \in Contents : status[d] \in Final \cup {"deleted"} => status'[d] = status[d]
<1>0. TypeOK /\ OneTask /\ Undecided /\ Backed /\ SuccessIsStored /\ ReportedFails /\ ReportedDoomed
  BY DEF Inv
<1>1. /\ status[c] = "none" /\ status' = [status EXCEPT ![c] = "PROCESSING"]
      /\ UNCHANGED <<object, attempt, aim, reported, storage, unanswered>>
      /\ struck' \subseteq struck \cup {c}
  BY DEF Create
<1>2. /\ c \notin ToSet(queue) /\ c \notin reported /\ \A w \in Workers : task[w] # c
      /\ NoContent \notin Contents
  BY <1>1, NewContent, UploadAssumption
<1>3. /\ status \in [Contents -> Status] /\ status' \in [Contents -> Status]
      /\ status'[c] = "PROCESSING" /\ \A d \in Contents \ {c} : status'[d] = status[d]
  BY <1>0, <1>1 DEF TypeOK, Status
<1>4. \A d \in Contents : status[d] \in Final \cup {"deleted"} => status'[d] = status[d]
  BY <1>1, <1>3 DEF Final
<1>5. SuccessIsStored' /\ ReportedFails'
  BY <1>0, <1>1, <1>2, <1>3 DEF SuccessIsStored, ReportedFails, TypeOK
<1>6. ToSet(queue) \subseteq Contents /\ reported \subseteq Contents /\ queue \in Seq(Contents)
  BY <1>0, ElementOfSeq DEF TypeOK, ToSet
<1>7. CASE /\ Len(queue) < QueueCapacity /\ queue' = Append(queue, c)
           /\ UNCHANGED <<task, pc>>
  <2>1. /\ Append(queue, c) \in Seq(Contents) /\ Len(Append(queue, c)) <= QueueCapacity
        /\ ToSet(Append(queue, c)) = ToSet(queue) \cup {c}
    BY <1>0, <1>7, QueueAppended
  <2>2. TypeOK'
    BY <1>0, <1>1, <1>3, <1>7, <2>1 DEF TypeOK
  <2>3. \A i, j \in DOMAIN queue' : queue'[i] = queue'[j] => i = j
    BY <1>0, <1>2, <1>6, <1>7, AppendOnce DEF OneTask
  <2>4. OneTask'
    BY <1>0, <1>2, <1>7, <2>1, <2>3 DEF OneTask
  <2>5. Undecided'
    BY <1>0, <1>1, <1>2, <1>3, <1>6, <1>7, <2>1, TaskOf DEF Undecided, Overwrites, Updating
  <2>6. Backed'
    BY <1>0, <1>1, <1>7 DEF Backed
  <2>7. ReportedDoomed'
    BY <1>0, <1>1, <1>2, <1>3, <1>6, <1>7, <2>1 DEF ReportedDoomed
  <2> QED  BY <1>4, <1>5, <2>2, <2>4, <2>5, <2>6, <2>7 DEF Inv
<1>8. ASSUME NEW w \in Workers, Run(w, c), queue' = queue PROVE Inv'
  <2>1. /\ pc[w] = "idle" /\ task[w] = NoContent /\ task'[w] = c /\ pc'[w] = "check"
        /\ \A v \in Workers \ {w} : task'[v] = task[v] /\ pc'[v] = pc[v]
        /\ pc' \in [Workers -> Labels] /\ task' \in [Workers -> Contents \cup {NoContent}]
        /\ \A v \in Workers : pc'[v] = "idle" <=> task'[v] = NoContent
    BY <1>0, <1>8, Starts
  <2>2. TypeOK'
    BY <1>0, <1>1, <1>3, <1>8, <2>1 DEF TypeOK
  <2>3. OneTask'
    BY <1>0, <1>2, <1>8, <2>1 DEF OneTask
  <2>4. Undecided'
    BY <1>0, <1>1, <1>2, <1>3, <1>6, <1>8, <2>1, TaskOf DEF Undecided, Overwrites, Updating
  <2>5. Backed'
    BY <1>0, <1>1, <2>1 DEF Backed, Overwrites, Updating
  <2>6. ReportedDoomed'
    BY <1>0, <1>1, <1>2, <1>3, <1>6, <1>8, <2>1 DEF ReportedDoomed
  <2> QED  BY <1>5, <2>2, <2>3, <2>4, <2>5, <2>6 DEF Inv
<1>9. CASE UNCHANGED <<queue, task, pc>>
  <2>1. TypeOK'
    BY <1>0, <1>1, <1>3, <1>9 DEF TypeOK
  <2>2. OneTask' /\ Backed'
    BY <1>0, <1>1, <1>9 DEF OneTask, Backed
  <2>3. Undecided'
    BY <1>0, <1>1, <1>2, <1>3, <1>6, <1>9, TaskOf DEF Undecided, Overwrites, Updating
  <2>4. ReportedDoomed'
    BY <1>0, <1>1, <1>2, <1>3, <1>6, <1>9 DEF ReportedDoomed
  <2> QED  BY <1>4, <1>5, <2>1, <2>2, <2>3, <2>4 DEF Inv
<1> QED  BY <1>4, <1>7, <1>8, <1>9 DEF Create

LEMMA DeleteStep ==
    ASSUME Inv, NEW c \in Contents, Delete(c)
    PROVE  /\ Inv'
           /\ \A d \in Contents : status[d] # "none" => status'[d] \in {status[d], "deleted"}
<1>0. TypeOK /\ OneTask /\ Undecided /\ Backed /\ SuccessIsStored /\ ReportedFails /\ ReportedDoomed
  BY DEF Inv
<1>1. /\ status' = [status EXCEPT ![c] = "deleted"]
      /\ UNCHANGED <<object, queue, task, pc, attempt, aim, reported, storage, struck, unanswered>>
  BY DEF Delete
<1>2. /\ \A d \in Contents : status'[d] \in {status[d], "deleted"}
      /\ ToSet(queue) \subseteq Contents /\ reported \subseteq Contents
  <2>1. ToSet(queue) \subseteq Contents
    BY <1>0, ElementOfSeq DEF TypeOK, ToSet
  <2> QED  BY <1>0, <1>1, <2>1 DEF TypeOK
<1>3. TypeOK'
  BY <1>0, <1>1 DEF TypeOK, Status
<1>4. OneTask' /\ Backed'
  BY <1>0, <1>1 DEF OneTask, Backed
<1>5. Undecided'
  BY <1>0, <1>1, <1>2, TaskOf DEF Undecided, Overwrites, Updating
<1>6. SuccessIsStored' /\ ReportedFails' /\ ReportedDoomed'
  BY <1>0, <1>1, <1>2 DEF SuccessIsStored, ReportedFails, ReportedDoomed
<1> QED  BY <1>2, <1>3, <1>4, <1>5, <1>6 DEF Inv

LEMMA EnvironmentStep ==
    ASSUME Inv, Crash \/ UNCHANGED vars
    PROVE  Inv' /\ \A c \in Contents : status[c] # "none" => status'[c] \in {status[c], "deleted"}
<1>0. TypeOK /\ OneTask /\ Undecided /\ Backed /\ SuccessIsStored /\ ReportedFails /\ ReportedDoomed
  BY DEF Inv
<1>1. CASE Crash
  <2>1. /\ queue' = <<>> /\ task' = [w \in Workers |-> NoContent]
        /\ pc' = [w \in Workers |-> "idle"] /\ attempt' = [w \in Workers |-> 0]
        /\ aim' = [w \in Workers |-> "SUCCESS"]
        /\ status' = [c \in Contents |-> IF status[c] = "none" THEN "none" ELSE "deleted"]
        /\ UNCHANGED <<object, reported, storage, struck, unanswered>>
    BY <1>1 DEF Crash
  <2>2. ToSet(<<>>) = {} /\ DOMAIN <<>> = {} /\ <<>> \in Seq(Contents) /\ Len(<<>>) = 0
    BY DEF ToSet
  <2>3. QueueCapacity \in Nat /\ MaxAttempts \in Nat /\ 0 \in 0 .. MaxAttempts
    BY UploadAssumption
  <2>4. TypeOK'
    BY <1>0, <2>1, <2>2, <2>3 DEF TypeOK, Labels, Final, Status
  <2>5. OneTask' /\ Undecided' /\ Backed'
    BY <2>1, <2>2 DEF OneTask, Undecided, Backed, Updating
  <2>6. SuccessIsStored' /\ ReportedFails'
    BY <1>0, <2>1 DEF TypeOK, SuccessIsStored, ReportedFails
  <2>7. ReportedDoomed'
    <3>1. \A c \in reported : c \in Contents /\ c # NoContent
      BY <1>0, UploadAssumption DEF TypeOK
    <3> QED  BY <1>0, <2>1, <2>2, <3>1 DEF ReportedDoomed
  <2> QED  BY <2>1, <2>4, <2>5, <2>6, <2>7 DEF Inv
<1>2. CASE UNCHANGED vars
  <2>1. UNCHANGED <<status, object, queue, task, pc, attempt, aim, reported, storage,
               struck, unanswered>>
    BY <1>2 DEF vars
  <2>2. TypeOK' /\ OneTask' /\ Undecided' /\ Backed'
    BY <1>0, <2>1 DEF TypeOK, OneTask, Undecided, Overwrites, Backed
  <2>3. SuccessIsStored' /\ ReportedFails' /\ ReportedDoomed'
    BY <1>0, <2>1 DEF SuccessIsStored, ReportedFails, ReportedDoomed
  <2> QED  BY <2>1, <2>2, <2>3 DEF Inv
<1> QED  BY <1>1, <1>2

\* A row that has its outcome keeps it, or is deleted, or is overwritten with
\* FAIL for want of an answer; a deleted row stays so.
Settled ==
    \A c \in Contents :
        /\ status[c] \in Final =>
             \/ status'[c] \in {status[c], "deleted"}
             \/ c \in unanswered /\ status'[c] = "FAIL"
        /\ status[c] = "deleted" => status'[c] = "deleted"

LEMMA Step ==
    ASSUME Inv, [Next]_vars
    PROVE  Inv' /\ Settled
<1>1. ASSUME NEW c \in Contents, Create(c) PROVE Inv' /\ Settled
  BY <1>1, CreateStep DEF Settled
<1>2. ASSUME NEW c \in Contents, Delete(c) PROVE Inv' /\ Settled
  BY <1>2, DeleteStep DEF Settled, Final
<1>3. ASSUME NEW w \in Workers, WorkerStep(w) PROVE Inv' /\ Settled
  <2>1. CASE Take(w)
    BY <2>1, TakeStep DEF Settled
  <2>2. CASE Holds(w)
    BY <2>2, HoldsStep DEF Settled
  <2> QED  BY <1>3, <2>1, <2>2 DEF WorkerStep, Holds
<1>4. CASE Crash \/ UNCHANGED vars
  BY <1>4, EnvironmentStep DEF Settled, Final
<1> QED  BY <1>1, <1>2, <1>3, <1>4 DEF Next

LEMMA Initially == Init => Inv
<1> SUFFICES ASSUME Init PROVE Inv
  OBVIOUS
<1>1. /\ ToSet(<<>>) = {} /\ DOMAIN <<>> = {} /\ <<>> \in Seq(Contents) /\ Len(<<>>) = 0
      /\ QueueCapacity \in Nat /\ MaxAttempts \in Nat /\ 0 \in 0 .. MaxAttempts
  BY UploadAssumption DEF ToSet
<1>2. TypeOK
  BY <1>1 DEF Init, TypeOK, Status, Labels, Final
<1>3. OneTask /\ Undecided /\ Backed
  BY <1>1 DEF Init, OneTask, Undecided, Backed, Overwrites, Updating
<1>4. SuccessIsStored /\ ReportedFails /\ ReportedDoomed
  BY DEF Init, SuccessIsStored, ReportedFails, ReportedDoomed
<1> QED  BY <1>2, <1>3, <1>4 DEF Inv

-----------------------------------------------------------------------------
\* Every variable stays in its domain.
THEOREM TypeCorrect == Spec => []TypeOK
<1>1. Inv => TypeOK
  BY DEF Inv
<1> QED  BY <1>1, Initially, Step, PTL DEF Spec

\* No file is offered as SUCCESS without being stored in full, whatever
\* attempts, rejections, deletions and crashes its task went through.
THEOREM StoredInFull == Spec => []SuccessIsStored
<1>1. Inv => SuccessIsStored
  BY DEF Inv
<1> QED  BY <1>1, Initially, Step, PTL DEF Spec

\* A file whose failure the administrators were told of never becomes SUCCESS.
THEOREM ReportHolds == Spec => []ReportedFails
<1>1. Inv => ReportedFails
  BY DEF Inv
<1> QED  BY <1>1, Initially, Step, PTL DEF Spec

\* The outcome of an upload is final, unless the answer to its commit was lost.
THEOREM Finality == Spec => OutcomeIsFinal
<1>1. Inv /\ [Next]_vars => [Settled]_status
  BY Step
<1> QED  BY <1>1, Initially, Step, PTL DEF Spec, OutcomeIsFinal, Settled

=============================================================================
