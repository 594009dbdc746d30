------------------------- MODULE JwtRegistryProofs -------------------------
(***************************************************************************)
(* What holds of RedisJwtRegistry for any number of users, tokens and      *)
(* processes.                                                              *)
(***************************************************************************)
EXTENDS JwtRegistry, QueueLemmas

-----------------------------------------------------------------------------
(* Facts about the lists and about where a handler is. *)

\* The lists of the registry hold tokens, whatever a command does to them.
LEMMA ListFacts ==
    ASSUME NEW s \in Seq(Tokens)
    PROVE  /\ Len(s) \in Nat
           /\ s = <<>> <=> Len(s) = 0
           /\ s # <<>> => Tail(s) \in Seq(Tokens) /\ Len(Tail(s)) = Len(s) - 1
           /\ \A x \in Tokens : /\ Append(s, x) \in Seq(Tokens)
                                /\ Len(Append(s, x)) = Len(s) + 1
<1>1. Len(s) \in Nat
  BY LenProperties
<1>2. s = <<>> <=> Len(s) = 0
  BY EmptySeq
<1>3. s # <<>> => Tail(s) \in Seq(Tokens) /\ Len(Tail(s)) = Len(s) - 1
  BY HeadTailProperties
<1>4. \A x \in Tokens : Append(s, x) \in Seq(Tokens) /\ Len(Append(s, x)) = Len(s) + 1
  BY AppendProperties
<1> QED  BY <1>1, <1>2, <1>3, <1>4

\* The label tells the operation, and a handler that takes the lock takes it for
\* the user of the pair it minted.
LEMMA OperationAt ==
    ASSUME TypeOK, NEW p \in Procs
    PROVE  LET o == job[p].op IN
           /\ o \in Operations \cup {"none"}
           /\ pc[p] \in LabelsOf(o)
           /\ pc[p] = "idle" <=> o = "none"
           /\ pc[p] \in {"size", "pop", "push", "expireList", "addAccess", "addRefresh",
                        "expireIndex"} => o = "register"
           /\ pc[p] \in {"acquire", "release", "unwind", "respond"} => o \in {"register", "rotate"}
           /\ pc[p] = "range" => o \in {"rotate", "invalidate", "logout", "clear"}
           /\ pc[p] = "announce" => o = "invalidate"
           /\ pc[p] = "loggedOut" => o = "logout"
           /\ pc[p] \in {"keys", "nextKey"} => o \in {"logout", "clear"}
           /\ pc[p] = "delete" => o \in {"invalidate", "clear"}
           /\ o \in {"register", "rotate"} => /\ job[p].fresh \in Tokens
                                             /\ job[p].user = Owner[job[p].fresh]
                                             /\ job[p].user \in Users
<1>1. job[p].op \in Operations \cup {"none"}
  BY DEF TypeOK, ControlOK, JobType
<1>2. pc[p] \in LabelsOf(job[p].op)
  BY DEF TypeOK, ControlOK, JobOK
<1>3. Locked(job[p].op) => /\ job[p].fresh \in Tokens
                           /\ job[p].user = Owner[job[p].fresh]
                           /\ job[p].user \in Users
  BY ConstantsAssumption DEF TypeOK, ControlOK, JobOK
<1> QED  BY <1>1, <1>2, <1>3 DEF LabelsOf, Operations, Locked

\* A step of p leaves the other handlers where they are.
LEMMA OthersStay ==
    ASSUME NEW p \in Procs, Start(p) \/ SectionStep(p) \/ OpenStep(p) \/ Fault(p), TypeOK
    PROVE  /\ pc' = [pc EXCEPT ![p] = pc'[p]]
           /\ job' = [job EXCEPT ![p] = job'[p]]
           /\ \A q \in Procs : q # p => pc'[q] = pc[q] /\ job'[q] = job[q]
<1>0. pc \in [Procs -> Labels] /\ job \in [Procs -> JobType]
  BY DEF TypeOK, ControlOK
<1> SUFFICES /\ pc' = [pc EXCEPT ![p] = pc'[p]]
             /\ job' = [job EXCEPT ![p] = job'[p]]
  BY <1>0
<1> USE DEF Goto, Return, Throw, Raise
<1>1. CASE Start(p)
  BY <1>0, <1>1 DEF Start, StartRegister, StartRotate, StartInvalidate, StartLogout, StartClear
<1>2. CASE SectionStep(p)
  BY <1>0, <1>2 DEF SectionStep, Acquire, AcquireFails, Size, Pop, Push, ExpireList,
                    AddAccess, AddRefresh, ExpireIndex, Release, Respond
<1>3. CASE OpenStep(p)
  BY <1>0, <1>3 DEF OpenStep, Lrange, Delete, Announce, Keys, NextKey, LogoutReturns
<1>4. CASE Fault(p)
  BY <1>0, <1>4 DEF Fault, CommandFails, ReleaseFails, Crash
<1> QED  BY <1>1, <1>2, <1>3, <1>4

-----------------------------------------------------------------------------
(* Type correctness. *)

LEMMA TypeInit == Init => TypeOK
<1> SUFFICES ASSUME Init PROVE TypeOK
  OBVIOUS
<1>1. <<>> \in Seq(Tokens)
  BY EmptySeq
<1>2. NoJob \in JobType
  BY ConstantsAssumption DEF NoJob, JobType
<1>3. "idle" \in Labels /\ \A p \in Procs : JobOK(p)
  BY DEF Init, Labels, JobOK, LabelsOf, Locked, NoJob
<1> QED  BY <1>1, <1>2, <1>3 DEF Init, TypeOK, DataOK, ControlOK, Kinds

\* A step that moves only p, and moves it within an operation, keeps the
\* control state typed.
LEMMA MoveType ==
    ASSUME TypeOK, NEW p \in Procs,
           pc' = [pc EXCEPT ![p] = pc'[p]], job' = [job EXCEPT ![p] = job'[p]],
           job'[p] \in JobType,
           pc'[p] \in LabelsOf(job'[p].op),
           Locked(job'[p].op) => /\ job'[p].fresh \in Tokens
                                 /\ job'[p].user = Owner[job'[p].fresh]
    PROVE  ControlOK'
<1>1. job' \in [Procs -> JobType]
  BY DEF TypeOK, ControlOK
<1>2. pc'[p] \in Labels
  BY DEF Labels, JobType, LabelsOf
<1>3. pc' \in [Procs -> Labels]
  BY <1>2 DEF TypeOK, ControlOK
<1>4. \A q \in Procs : JobOK(q)'
  BY DEF TypeOK, ControlOK, JobOK
<1> QED  BY <1>1, <1>3, <1>4 DEF ControlOK

\* A handler goes on with the same locals.
LEMMA KeepJob ==
    ASSUME TypeOK, NEW p \in Procs, NEW label, Goto(p, label), job' = job,
           label \in LabelsOf(job[p].op)
    PROVE  ControlOK'
<1>1. /\ pc' = [pc EXCEPT ![p] = pc'[p]] /\ pc'[p] = label
      /\ job' = [job EXCEPT ![p] = job'[p]] /\ job'[p] = job[p]
      /\ job[p] \in JobType
  BY DEF Goto, TypeOK, ControlOK
<1>2. Locked(job[p].op) => job[p].fresh \in Tokens /\ job[p].user = Owner[job[p].fresh]
  BY DEF TypeOK, ControlOK, JobOK
<1> QED  BY <1>1, <1>2, MoveType

\* A handler ends.
LEMMA EndJob ==
    ASSUME TypeOK, NEW p \in Procs, Return(p)
    PROVE  ControlOK'
<1>1. NoJob \in JobType
  BY ConstantsAssumption DEF JobType, NoJob
<1>2. /\ pc' = [pc EXCEPT ![p] = pc'[p]] /\ pc'[p] = "idle"
      /\ job' = [job EXCEPT ![p] = job'[p]] /\ job'[p] = NoJob
  BY DEF Return, TypeOK, ControlOK
<1> QED  BY <1>1, <1>2, MoveType DEF LabelsOf, Locked, NoJob

\* An exception leaves the section or ends the handler, and hands out at most the
\* cookie of a login.
LEMMA ThrowType ==
    ASSUME TypeOK, NEW p \in Procs, Throw(p)
    PROVE  ControlOK' /\ cookies' \in SUBSET Tokens
<1>1. ControlOK'
  BY EndJob DEF Throw
<1>2. cookies' \in SUBSET Tokens
  BY OperationAt DEF Throw, TypeOK, DataOK
<1> QED  BY <1>1, <1>2

LEMMA RaiseType ==
    ASSUME TypeOK, NEW p \in Procs, Raise(p)
    PROVE  ControlOK' /\ cookies' \in SUBSET Tokens
<1>1. CASE InSection(p, job[p].user)
  <2>1. "unwind" \in LabelsOf(job[p].op)
    BY <1>1 DEF InSection, Locked, LabelsOf
  <2>2. Goto(p, "unwind") /\ job' = job /\ cookies' = cookies
    BY <1>1 DEF Raise
  <2> QED  BY <2>1, <2>2, KeepJob DEF TypeOK, DataOK
<1>2. CASE ~ InSection(p, job[p].user)
  BY <1>2, ThrowType DEF Raise
<1> QED  BY <1>1, <1>2

\* Writing a list of tokens to a user's key keeps the lists typed.
LEMMA SetListType ==
    ASSUME TypeOK, NEW u, NEW s, u \in Users => s \in Seq(Tokens), SetList(u, s)
    PROVE  /\ userTokens' \in [Users -> Seq(Tokens)]
           /\ listTtl' \in [Users -> SUBSET Tokens]
  BY DEF TypeOK, DataOK, SetList

\* The token of a mint is a token, wherever it comes from.
LEMMA MintType ==
    ASSUME TypeOK, NEW u, NEW c, NEW t \in Tokens, Mint(u, c, t)
    PROVE  issued' \in SUBSET Tokens /\ thisSecond' \in SUBSET Tokens
  BY DEF Mint, TypeOK, DataOK

\* Every step of a process keeps the data typed.
LEMMA ProcessDataStep ==
    ASSUME TypeOK, NEW p \in Procs,
           Start(p) \/ SectionStep(p) \/ OpenStep(p) \/ Fault(p)
    PROVE  DataOK'
<1> USE DEF redis, clients, outside, history
<1>0. /\ DataOK
      /\ \A u \in Users : userTokens[u] \in Seq(Tokens)
      /\ <<>> \in Seq(Tokens)
      /\ Kinds = {"access", "refresh"}
  BY EmptySeq DEF TypeOK, DataOK, Kinds
<1>1. CASE StartRegister(p)
  <2>1. PICK t \in Tokens : Mint(Owner[t], 0, t) /\ loggedOut' = loggedOut \ {t}
    BY <1>1 DEF StartRegister
  <2>2. issued' \in SUBSET Tokens /\ thisSecond' \in SUBSET Tokens
    BY <2>1, MintType
  <2> QED  BY <1>0, <1>1, <2>1, <2>2 DEF DataOK, StartRegister
<1>2. CASE StartRotate(p)
  <2>1. PICK r \in cookies, t \in Tokens : Mint(Owner[r], Claim[r] + 1, t)
    BY <1>2 DEF StartRotate
  <2>2. issued' \in SUBSET Tokens /\ thisSecond' \in SUBSET Tokens
    BY <2>1, MintType
  <2> QED  BY <1>0, <1>2, <2>2 DEF DataOK, StartRotate
<1>3. CASE StartInvalidate(p) \/ StartLogout(p) \/ StartClear(p)
  BY <1>0, <1>3 DEF DataOK, StartInvalidate, StartLogout, StartClear
<1>4. CASE Acquire(p)
  BY <1>0, <1>4, OperationAt DEF DataOK, Acquire
<1>5. CASE AcquireFails(p)
  <2>1. cookies' \in SUBSET Tokens
    BY <1>0, <1>5, ThrowType DEF AcquireFails, DataOK
  <2> QED  BY <1>0, <1>5, <2>1 DEF DataOK, AcquireFails
<1>6. CASE Size(p)
  BY <1>0, <1>6 DEF DataOK, Size
<1>7. CASE Pop(p)
  <2>1. CASE userTokens[job[p].user] = <<>>
    BY <1>0, <1>7, <2>1 DEF DataOK, Pop
  <2>2. CASE userTokens[job[p].user] # <<>>
    <3>1. SetList(job[p].user, Tail(userTokens[job[p].user])) /\ Raise(p)
      BY <1>7, <2>2 DEF Pop
    <3>2. job[p].user \in Users => Tail(userTokens[job[p].user]) \in Seq(Tokens)
      BY <1>0, <2>2, ListFacts
    <3>3. cookies' \in SUBSET Tokens
      BY <3>1, RaiseType
    <3> QED  BY <1>0, <1>7, <3>1, <3>2, <3>3, SetListType DEF DataOK, Pop
  <2> QED  BY <2>1, <2>2
<1>8. CASE Push(p)
  <2>1. job[p].fresh \in Tokens /\ job[p].user \in Users
    BY <1>8, OperationAt DEF Push
  <2>2. SetList(job[p].user, Append(userTokens[job[p].user], job[p].fresh))
    BY <1>8 DEF Push
  <2>3. Append(userTokens[job[p].user], job[p].fresh) \in Seq(Tokens)
    BY <1>0, <2>1, ListFacts
  <2>4. /\ userTokens' \in [Users -> Seq(Tokens)]
        /\ listTtl' \in [Users -> SUBSET Tokens]
    BY <2>2, <2>3, SetListType
  <2>5. admitted' \in SUBSET Tokens
    BY <1>0, <1>8, <2>1 DEF DataOK, Push
  <2> QED  BY <1>0, <1>8, <2>4, <2>5 DEF DataOK, Push
<1>9. CASE ExpireList(p)
  <2>1. job[p].fresh \in Tokens
    BY <1>9, OperationAt DEF ExpireList
  <2>2. listTtl' \in [Users -> SUBSET Tokens]
    BY <1>0, <1>9, <2>1 DEF DataOK, ExpireList
  <2> QED  BY <1>0, <1>9, <2>2 DEF DataOK, ExpireList
<1>10. CASE AddAccess(p)
  BY <1>0, <1>10, OperationAt DEF DataOK, AddAccess, Sadd
<1>11. CASE AddRefresh(p)
  BY <1>0, <1>11, OperationAt DEF DataOK, AddRefresh, Sadd
<1>12. CASE ExpireIndex(p)
  BY <1>0, <1>12, OperationAt DEF DataOK, ExpireIndex
<1>13. CASE Release(p)
  <2>1. cookies' \in SUBSET Tokens
    BY <1>0, <1>13, ThrowType DEF Release, DataOK
  <2> QED  BY <1>0, <1>13, <2>1 DEF DataOK, Release
<1>14. CASE Respond(p)
  BY <1>0, <1>14, OperationAt DEF DataOK, Respond
<1>15. CASE Lrange(p)
  <2>1. cookies' \in SUBSET Tokens
    BY <1>0, <1>15, RaiseType DEF Lrange, DataOK
  <2> QED  BY <1>0, <1>15, <2>1 DEF DataOK, Lrange
<1>16. CASE Delete(p)
  <2>1. SetList(job[p].user, <<>>)
    BY <1>16 DEF Delete
  <2> QED  BY <1>0, <1>16, <2>1, SetListType DEF DataOK, Delete
<1>17. CASE Announce(p) \/ LogoutReturns(p)
  <2>1. job[p].scope \in SUBSET Tokens
    BY DEF TypeOK, ControlOK, JobType
  <2> QED  BY <1>0, <1>17, <2>1 DEF DataOK, Announce, LogoutReturns
<1>18. CASE Keys(p) \/ NextKey(p)
  BY <1>0, <1>18 DEF DataOK, Keys, NextKey
<1>19. CASE CommandFails(p)
  <2>1. cookies' \in SUBSET Tokens
    BY <1>19, RaiseType DEF CommandFails
  <2> QED  BY <1>0, <1>19, <2>1 DEF DataOK, CommandFails
<1>20. CASE ReleaseFails(p)
  <2>1. cookies' \in SUBSET Tokens
    BY <1>0, <1>20, ThrowType DEF ReleaseFails, DataOK
  <2> QED  BY <1>0, <1>20, <2>1 DEF DataOK, ReleaseFails
<1>21. CASE Crash(p)
  BY <1>0, <1>21 DEF DataOK, Crash
<1> QED
  BY <1>1, <1>2, <1>3, <1>4, <1>5, <1>6, <1>7, <1>8, <1>9, <1>10, <1>11, <1>12, <1>13,
     <1>14, <1>15, <1>16, <1>17, <1>18, <1>19, <1>20, <1>21
     DEF Start, SectionStep, OpenStep, Fault

\* Every step of a process keeps its control state typed.
LEMMA ProcessControlStep ==
    ASSUME TypeOK, NEW p \in Procs,
           Start(p) \/ SectionStep(p) \/ OpenStep(p) \/ Fault(p)
    PROVE  ControlOK'
<1>0. /\ pc \in [Procs -> Labels] /\ job \in [Procs -> JobType] /\ job[p] \in JobType
      /\ NoJob \in JobType
      /\ pc' = [pc EXCEPT ![p] = pc'[p]] /\ job' = [job EXCEPT ![p] = job'[p]]
  BY ConstantsAssumption, OthersStay DEF TypeOK, ControlOK, JobType, NoJob
<1>00. \A o \in {"register", "rotate"}, t \in Tokens :
           [op |-> o, user |-> Owner[t], fresh |-> t, keys |-> {}, tries |-> 0, scope |-> {}]
               \in JobType
  BY ConstantsAssumption DEF JobType, Operations
<1>1. CASE StartRegister(p)
  <2>1. PICK t \in Tokens : job' = [job EXCEPT ![p] =
                [NoJob EXCEPT !.op = "register", !.user = Owner[t], !.fresh = t]]
    BY <1>1 DEF StartRegister
  <2>2. job'[p] = [op |-> "register", user |-> Owner[t], fresh |-> t,
                   keys |-> {}, tries |-> 0, scope |-> {}]
    BY <1>0, <2>1 DEF NoJob
  <2>3. job'[p] \in JobType
    BY <1>00, <2>2
  <2>4. pc'[p] = "acquire"
    BY <1>0, <1>1 DEF StartRegister, Goto
  <2>5. pc'[p] \in LabelsOf(job'[p].op)
    BY <2>2, <2>4 DEF LabelsOf
  <2>6. job'[p].fresh \in Tokens /\ job'[p].user = Owner[job'[p].fresh]
    BY <2>2
  <2> QED  BY <1>0, <2>3, <2>5, <2>6, MoveType
<1>2. CASE StartRotate(p)
  <2>1. PICK r \in cookies, t \in Tokens :
            /\ Mint(Owner[r], Claim[r] + 1, t)
            /\ job' = [job EXCEPT ![p] =
                 [NoJob EXCEPT !.op = "rotate", !.user = Owner[r], !.fresh = t]]
    BY <1>2 DEF StartRotate
  <2>2. job'[p] = [op |-> "rotate", user |-> Owner[t], fresh |-> t,
                   keys |-> {}, tries |-> 0, scope |-> {}]
    BY <1>0, <2>1 DEF Mint, NoJob
  <2>3. job'[p] \in JobType
    BY <1>00, <2>2
  <2>4. pc'[p] = "acquire"
    BY <1>0, <1>2 DEF StartRotate, Goto
  <2>5. pc'[p] \in LabelsOf(job'[p].op)
    BY <2>2, <2>4 DEF LabelsOf
  <2>6. job'[p].fresh \in Tokens /\ job'[p].user = Owner[job'[p].fresh]
    BY <2>2
  <2> QED  BY <1>0, <2>3, <2>5, <2>6, MoveType
<1>3. CASE StartInvalidate(p)
  <2>1. PICK u \in Users : job'[p] = [NoJob EXCEPT !.op = "invalidate", !.user = u,
                                                  !.scope = held \cap ActiveOf(u)]
    BY <1>0, <1>3 DEF StartInvalidate
  <2>2. held \cap ActiveOf(u) \in SUBSET Tokens
    BY DEF TypeOK, DataOK
  <2> HIDE DEF ActiveOf
  <2>3. job'[p] \in JobType /\ job'[p].op = "invalidate"
    BY <1>0, <2>1, <2>2 DEF JobType, Operations, NoJob
  <2> QED  BY <1>0, <1>3, <2>3, MoveType DEF StartInvalidate, Goto, LabelsOf, Locked
<1>4. CASE StartLogout(p)
  <2>1. PICK r \in cookies :
            job'[p] = [NoJob EXCEPT !.op = "logout", !.scope = {r} \cap held \cap index["refresh"]]
    BY <1>0, <1>4 DEF StartLogout
  <2>2. {r} \cap held \cap index["refresh"] \in SUBSET Tokens
    BY DEF TypeOK, DataOK
  <2>3. job'[p] \in JobType /\ job'[p].op = "logout"
    BY <1>0, <2>1, <2>2 DEF JobType, Operations, NoJob
  <2> QED  BY <1>0, <1>4, <2>3, MoveType DEF StartLogout, Goto, LabelsOf, Locked
<1>5. CASE StartClear(p)
  <2>1. job'[p] = [NoJob EXCEPT !.op = "clear"]
    BY <1>0, <1>5 DEF StartClear
  <2>2. job'[p] \in JobType /\ job'[p].op = "clear"
    BY <1>0, <2>1 DEF JobType, Operations, NoJob
  <2> QED  BY <1>0, <1>5, <2>2, MoveType DEF StartClear, Goto, LabelsOf, Locked
<1>6. CASE Acquire(p)
  <2>1. (IF job[p].op = "register" THEN "size" ELSE "range") \in LabelsOf(job[p].op)
    BY <1>6, OperationAt DEF Acquire, LabelsOf
  <2> QED  BY <1>6, <2>1, KeepJob DEF Acquire
<1>7. CASE AcquireFails(p)
  <2>1. CASE job[p].tries + 1 < MaxAttempts
    <3>1. job'[p] = [job[p] EXCEPT !.tries = @ + 1] /\ pc' = pc
      BY <1>0, <1>7, <2>1 DEF AcquireFails
    <3>2. job[p].tries + 1 \in 0 .. MaxAttempts
      BY <1>0, <2>1, ConstantsAssumption DEF JobType
    <3>3. /\ job'[p] \in JobType
          /\ job'[p].op = job[p].op /\ job'[p].user = job[p].user
          /\ job'[p].fresh = job[p].fresh
      BY <1>0, <3>1, <3>2 DEF JobType
    <3> QED  BY <1>0, <3>1, <3>3, OperationAt, MoveType DEF Locked
  <2>2. CASE ~ (job[p].tries + 1 < MaxAttempts)
    BY <1>7, <2>2, ThrowType DEF AcquireFails
  <2> QED  BY <2>1, <2>2
<1>8. CASE Size(p)
  <2>1. (IF Len(userTokens[job[p].user]) >= MaxActive THEN "pop" ELSE "push") \in LabelsOf(job[p].op)
    BY <1>8, OperationAt DEF Size, LabelsOf
  <2> QED  BY <1>8, <2>1, KeepJob DEF Size, outside
<1>9. CASE Pop(p)
  <2>1. "size" \in LabelsOf(job[p].op)
    BY <1>9, OperationAt DEF Pop, LabelsOf
  <2> QED  BY <1>9, <2>1, KeepJob, RaiseType DEF Pop
<1>10. CASE Push(p)
  BY <1>10, OperationAt, KeepJob DEF Push, LabelsOf
<1>11. CASE ExpireList(p)
  BY <1>11, OperationAt, KeepJob DEF ExpireList, LabelsOf
<1>12. CASE AddAccess(p)
  BY <1>12, OperationAt, KeepJob DEF AddAccess, LabelsOf
<1>13. CASE AddRefresh(p)
  BY <1>13, OperationAt, KeepJob DEF AddRefresh, LabelsOf
<1>14. CASE ExpireIndex(p)
  BY <1>14, OperationAt, KeepJob DEF ExpireIndex, LabelsOf
<1>15. CASE Release(p)
  <2>1. "respond" \in LabelsOf(job[p].op)
    BY <1>15, OperationAt DEF Release, LabelsOf
  <2> QED  BY <1>15, <2>1, KeepJob, ThrowType DEF Release
<1>16. CASE Respond(p)
  BY <1>16, EndJob DEF Respond
<1>17. CASE Lrange(p)
  <2>1. AfterEmpty(job[p].op) \in LabelsOf(job[p].op)
    BY <1>17, OperationAt DEF Lrange, LabelsOf, AfterEmpty
  <2> QED  BY <1>17, <2>1, KeepJob, RaiseType DEF Lrange
<1>18. CASE Delete(p)
  <2>1. (IF job[p].op = "invalidate" THEN "announce" ELSE "nextKey") \in LabelsOf(job[p].op)
    BY <1>18, OperationAt DEF Delete, LabelsOf
  <2> QED  BY <1>18, <2>1, KeepJob DEF Delete
<1>19. CASE Announce(p) \/ LogoutReturns(p) \/ Crash(p)
  BY <1>19, EndJob DEF Announce, LogoutReturns, Crash
<1>20. CASE Keys(p)
  <2>1. job'[p] = [job[p] EXCEPT !.keys = {u \in Users : userTokens[u] # <<>>}]
    BY <1>0, <1>20 DEF Keys
  <2>2. job'[p] \in JobType /\ job'[p].op = job[p].op
    BY <1>0, <2>1 DEF JobType
  <2>3. job[p].op \in {"logout", "clear"}
    BY <1>20, OperationAt DEF Keys
  <2> QED  BY <1>0, <1>20, <2>2, <2>3, MoveType DEF Keys, Goto, LabelsOf, Locked
<1>21. CASE NextKey(p)
  <2>1. job[p].op \in {"logout", "clear"}
    BY <1>21, OperationAt DEF NextKey
  <2>2. CASE Return(p)
    BY <2>2, EndJob
  <2>3. CASE job[p].op = "logout" /\ Goto(p, "loggedOut") /\ job' = job
    BY <2>3, KeepJob DEF LabelsOf
  <2>4. ASSUME NEW u \in job[p].keys, Goto(p, "range"),
               job' = [job EXCEPT ![p].user = u, ![p].keys = @ \ {u}]
        PROVE  ControlOK'
    <3>1. job'[p] = [job[p] EXCEPT !.user = u, !.keys = @ \ {u}]
      BY <1>0, <2>4
    <3>2. u \in Users /\ job[p].keys \ {u} \in SUBSET Users
      BY <1>0 DEF JobType
    <3>3. job'[p] \in JobType /\ job'[p].op = job[p].op
      BY <1>0, <3>1, <3>2 DEF JobType
    <3> QED  BY <1>0, <2>1, <2>4, <3>3, MoveType DEF Goto, LabelsOf, Locked
  <2> QED  BY <1>21, <2>2, <2>3, <2>4 DEF NextKey
<1>22. CASE CommandFails(p)
  BY <1>22, RaiseType DEF CommandFails
<1>23. CASE ReleaseFails(p)
  <2>1. "respond" \in LabelsOf(job[p].op)
    BY <1>23, OperationAt DEF ReleaseFails, LabelsOf
  <2> QED  BY <1>23, <2>1, KeepJob, ThrowType DEF ReleaseFails
<1> QED
  BY <1>1, <1>2, <1>3, <1>4, <1>5, <1>6, <1>7, <1>8, <1>9, <1>10, <1>11, <1>12, <1>13,
     <1>14, <1>15, <1>16, <1>17, <1>18, <1>19, <1>20, <1>21, <1>22, <1>23
     DEF Start, SectionStep, OpenStep, Fault

\* Time changes no control state and keeps the data typed.
LEMMA TimeStep ==
    ASSUME TypeOK, Time
    PROVE  pc' = pc /\ job' = job /\ TypeOK'
<1> USE DEF redis, clients, outside, history
<1>1. pc' = pc /\ job' = job
  BY DEF Time, AccessExpires, RefreshExpires, ListExpires, LockExpires, IndexExpires
<1>2. DataOK'
  <2>1. ASSUME NEW t \in Tokens, AccessExpires(t) \/ RefreshExpires(t)
        PROVE  DataOK'
    BY <2>1 DEF TypeOK, DataOK, AccessExpires, RefreshExpires, Kinds
  <2>2. ASSUME NEW u \in Users, ListExpires(u)
        PROVE  DataOK'
    <3>1. SetList(u, <<>>) /\ <<>> \in Seq(Tokens)
      BY <2>2, EmptySeq DEF ListExpires
    <3> QED  BY <2>2, <3>1, SetListType DEF TypeOK, DataOK, ListExpires
  <2>3. ASSUME NEW u \in Users, LockExpires(u)
        PROVE  DataOK'
    BY <2>3 DEF TypeOK, DataOK, LockExpires
  <2>4. ASSUME NEW k \in Kinds, IndexExpires(k)
        PROVE  DataOK'
    <3>1. Unarmed \subseteq Tokens
      BY OperationAt DEF Unarmed
    <3> QED  BY <2>4, <3>1 DEF TypeOK, DataOK, IndexExpires
  <2> QED  BY <2>1, <2>2, <2>3, <2>4 DEF Time
<1>3. ControlOK'
  BY <1>1 DEF TypeOK, ControlOK, JobOK
<1> QED  BY <1>1, <1>2, <1>3 DEF TypeOK

LEMMA TypeStep == TypeOK /\ [Next]_vars => TypeOK'
<1> SUFFICES ASSUME TypeOK, [Next]_vars PROVE TypeOK'
  OBVIOUS
<1>1. ASSUME NEW p \in Procs, Start(p) \/ SectionStep(p) \/ OpenStep(p) \/ Fault(p)
      PROVE  TypeOK'
  BY <1>1, ProcessDataStep, ProcessControlStep DEF TypeOK
<1>2. CASE Time
  BY <1>2, TimeStep
<1>3. CASE UNCHANGED vars
  BY <1>3 DEF vars, redis, clients, outside, history, TypeOK, DataOK, ControlOK, JobOK
<1> QED  BY <1>1, <1>2, <1>3 DEF Next

\* Whatever the interleaving of handlers, TTLs and failures, every variable stays
\* in its domain and every handler within the steps of its operation.
THEOREM TypeCorrect == Spec => []TypeOK
  BY TypeInit, TypeStep, PTL DEF Spec


-----------------------------------------------------------------------------
(* The lock. *)

\* Only acquireLock and releaseLock touch the lock.
LEMMA LockUntouched ==
    ASSUME NEW p \in Procs,
           Start(p) \/ SectionStep(p) \/ OpenStep(p) \/ Fault(p),
           ~ Acquire(p), ~ Release(p)
    PROVE  lock' = lock
<1> USE DEF redis
<1>1. CASE Start(p)
  BY <1>1 DEF Start, StartRegister, StartRotate, StartInvalidate, StartLogout, StartClear
<1>2. CASE SectionStep(p)
  BY <1>2 DEF SectionStep, AcquireFails, Size, Pop, Push, ExpireList, AddAccess, AddRefresh,
              ExpireIndex, Respond
<1>3. CASE OpenStep(p)
  BY <1>3 DEF OpenStep, Lrange, Delete, Announce, Keys, NextKey, LogoutReturns
<1>4. CASE Fault(p)
  BY <1>4 DEF Fault, CommandFails, ReleaseFails, Crash
<1> QED  BY <1>1, <1>2, <1>3, <1>4

\* Only acquireLock takes a handler into the section.
LEMMA EntryByAcquire ==
    ASSUME TypeOK, NEW p \in Procs, NEW u \in Users,
           Start(p) \/ SectionStep(p) \/ OpenStep(p) \/ Fault(p),
           ~ Acquire(p), InSection(p, u)'
    PROVE  InSection(p, u)
<1>1. /\ pc \in [Procs -> Labels] /\ job \in [Procs -> JobType]
      /\ job'[p].user = u /\ job'[p].op \in {"register", "rotate"}
      /\ pc'[p] \notin {"idle", "acquire", "respond"}
  BY DEF TypeOK, ControlOK, InSection, Locked
<1>2. SUFFICES /\ job[p].user = u /\ job[p].op \in {"register", "rotate"}
               /\ pc[p] \notin {"idle", "acquire", "respond"}
  BY DEF InSection, Locked
<1>3. ~ Return(p) /\ ~ Throw(p)
  BY <1>1 DEF Return, Throw
<1>4. Raise(p) => /\ job' = job /\ InSection(p, job[p].user)
  BY <1>3 DEF Raise
<1> USE DEF Goto
<1>5. CASE Start(p)
  <2>1. CASE StartRegister(p) \/ StartRotate(p)
    BY <1>1, <2>1 DEF StartRegister, StartRotate
  <2>2. CASE StartInvalidate(p)
    BY <1>1, <2>2 DEF StartInvalidate, NoJob
  <2>3. CASE StartLogout(p)
    BY <1>1, <2>3 DEF StartLogout, NoJob
  <2>4. CASE StartClear(p)
    BY <1>1, <2>4 DEF StartClear, NoJob
  <2> QED  BY <1>5, <2>1, <2>2, <2>3, <2>4 DEF Start
<1>6. CASE SectionStep(p)
  <2>1. CASE Pop(p)
    BY <1>1, <1>4, <2>1 DEF Pop, InSection, Locked
  <2>2. CASE AcquireFails(p)
    <3>1. pc' = pc
      BY <1>3, <2>2 DEF AcquireFails
    <3> QED  BY <1>1, <2>2, <3>1 DEF AcquireFails
  <2>3. CASE Release(p) \/ Respond(p)
    BY <1>1, <1>3, <2>3 DEF Release, Respond
  <2>4. CASE Size(p) \/ Push(p) \/ ExpireList(p) \/ AddAccess(p) \/ AddRefresh(p)
             \/ ExpireIndex(p)
    BY <1>1, <2>4 DEF Size, Push, ExpireList, AddAccess, AddRefresh, ExpireIndex, outside
  <2> QED  BY <1>6, <2>1, <2>2, <2>3, <2>4 DEF SectionStep
<1>7. CASE OpenStep(p)
  <2>1. CASE Lrange(p)
    BY <1>1, <1>4, <2>1 DEF Lrange, InSection, Locked
  <2>2. CASE Keys(p) \/ NextKey(p)
    <3>1. job[p].op \in {"logout", "clear"} /\ job[p] \in JobType
      BY <1>1, <2>2, OperationAt DEF Keys, NextKey
    <3>2. job'[p].op = job[p].op
      <4>1. \A S : job' = [job EXCEPT ![p].keys = S] => job'[p].op = job[p].op
        BY <1>1, <3>1 DEF JobType
      <4>2. \A v, S : job' = [job EXCEPT ![p].user = v, ![p].keys = S] => job'[p].op = job[p].op
        BY <1>1, <3>1 DEF JobType
      <4> QED  BY <1>3, <2>2, <4>1, <4>2 DEF Keys, NextKey
    <3> QED  BY <1>1, <3>1, <3>2
  <2>3. CASE Delete(p)
    BY <1>1, <2>3 DEF Delete
  <2>4. CASE Announce(p) \/ LogoutReturns(p)
    BY <1>3, <2>4 DEF Announce, LogoutReturns
  <2> QED  BY <1>7, <2>1, <2>2, <2>3, <2>4 DEF OpenStep
<1>8. CASE Fault(p)
  <2>1. CASE CommandFails(p)
    BY <1>4, <2>1 DEF CommandFails, InSection, Locked
  <2>2. CASE ReleaseFails(p) \/ Crash(p)
    BY <1>1, <1>3, <2>2 DEF ReleaseFails, Crash
  <2> QED  BY <1>8, <2>1, <2>2 DEF Fault
<1> QED  BY <1>5, <1>6, <1>7, <1>8

\* If no TTL fires within a section, the lock stays in the name of its holder.
LEMMA HolderStep ==
    ASSUME ~ TtlInSection, TypeOK, HolderInSection, [Next]_vars
    PROVE  HolderInSection'
<1>1. ASSUME NEW p \in Procs, Start(p) \/ SectionStep(p) \/ OpenStep(p) \/ Fault(p)
      PROVE  HolderInSection'
  <2> SUFFICES ASSUME NEW q \in Procs, NEW u \in Users, InSection(q, u)'
               PROVE  lock'[u] = q
    BY DEF HolderInSection
  <2>0. lock \in [Users -> Procs \cup {NoProc}] /\ pc \in [Procs -> Labels]
    BY DEF TypeOK, DataOK, ControlOK
  <2>1. q # p => InSection(q, u) /\ lock[u] = q
    BY <1>1, OthersStay DEF InSection, HolderInSection
  <2>2. CASE Acquire(p)
    <3>1. lock[job[p].user] = NoProc /\ lock' = [lock EXCEPT ![job[p].user] = p]
      BY <2>2 DEF Acquire
    <3>2. CASE q = p
      BY <2>0, <2>2, <3>1, <3>2 DEF Acquire, InSection, outside
    <3>3. CASE q # p
      BY <2>0, <2>1, <3>1, <3>3, ConstantsAssumption
    <3> QED  BY <3>2, <3>3
  <2>3. CASE Release(p)
    <3>1. /\ lock' = [lock EXCEPT ![job[p].user] = NoProc]
          /\ pc'[p] \in {"idle", "respond"}
      BY <2>0, <2>3 DEF Release, Goto, Return, Throw
    <3>2. q # p
      BY <3>1 DEF InSection
    <3>3. InSection(p, job[p].user) /\ job[p].user \in Users
      BY <2>3, OperationAt DEF Release, InSection, Locked
    <3>4. lock[job[p].user] = p
      BY <3>3 DEF HolderInSection
    <3> QED  BY <2>0, <2>1, <3>1, <3>2, <3>4
  <2>4. CASE ~ Acquire(p) /\ ~ Release(p)
    BY <1>1, <2>1, <2>4, LockUntouched, EntryByAcquire DEF HolderInSection
  <2> QED  BY <2>2, <2>3, <2>4
<1>2. CASE Time
  <2>1. pc' = pc /\ job' = job
    BY <1>2, TimeStep
  <2>2. ASSUME NEW p \in Procs, NEW u \in Users, InSection(p, u)
        PROVE  lock'[u] = p
    <3>1. lock[u] = p
      BY <2>2 DEF HolderInSection
    <3>2. ASSUME NEW v \in Users, LockExpires(v) PROVE lock'[u] = lock[u]
      BY <2>2, <3>2 DEF LockExpires, TtlMayFire, TypeOK, DataOK
    <3> QED
      BY <1>2, <3>1, <3>2
         DEF Time, AccessExpires, RefreshExpires, ListExpires, IndexExpires, redis
  <2> QED  BY <2>1, <2>2 DEF HolderInSection, InSection
<1>3. CASE UNCHANGED vars
  BY <1>3 DEF HolderInSection, InSection, vars, redis
<1> QED  BY <1>1, <1>2, <1>3 DEF Next

\* Unless the lock's TTL runs out under its holder, registerJwtInformation and
\* rotateJwtInformation exclude each other for one user, although releaseLock
\* deletes the lock without asking whose it is, and although threads may die or
\* fail anywhere in the section.
THEOREM Exclusion ==
    ASSUME ~ TtlInSection
    PROVE  Spec => []MutualExclusion
<1>1. Init => HolderInSection
  BY DEF Init, HolderInSection, InSection
<1>2. HolderInSection => MutualExclusion
  BY DEF HolderInSection, MutualExclusion
<1> QED  BY <1>1, <1>2, HolderStep, TypeCorrect, PTL DEF Spec

-----------------------------------------------------------------------------
(* The length of a user's list. *)

\* RPUSH, LPOP and DEL are the commands that write a list.
LEMMA ListUntouched ==
    ASSUME NEW p \in Procs,
           Start(p) \/ SectionStep(p) \/ OpenStep(p) \/ Fault(p),
           ~ Push(p), ~ Pop(p), ~ Delete(p)
    PROVE  userTokens' = userTokens
<1> USE DEF redis
<1>1. CASE Start(p)
  BY <1>1 DEF Start, StartRegister, StartRotate, StartInvalidate, StartLogout, StartClear
<1>2. CASE SectionStep(p)
  BY <1>2 DEF SectionStep, Acquire, AcquireFails, Size, ExpireList, AddAccess, AddRefresh,
              ExpireIndex, Release, Respond
<1>3. CASE OpenStep(p)
  BY <1>3 DEF OpenStep, Lrange, Announce, Keys, NextKey, LogoutReturns
<1>4. CASE Fault(p)
  BY <1>4 DEF Fault, CommandFails, ReleaseFails, Crash
<1> QED  BY <1>1, <1>2, <1>3, <1>4

\* No step but RPUSH makes a list longer.
LEMMA OnlyPushLengthens ==
    ASSUME TypeOK, NEW p \in Procs, NEW u \in Users,
           Start(p) \/ SectionStep(p) \/ OpenStep(p) \/ Fault(p), ~ Push(p)
    PROVE  Len(userTokens'[u]) <= Len(userTokens[u])
<1>1. /\ userTokens \in [Users -> Seq(Tokens)]
      /\ \A v \in Users : Len(userTokens[v]) \in Nat
  BY ListFacts DEF TypeOK, DataOK
<1>2. ASSUME NEW v, NEW s, SetList(v, s), v = u => Len(s) <= Len(userTokens[u])
      PROVE  Len(userTokens'[u]) <= Len(userTokens[u])
  BY <1>1, <1>2 DEF SetList
<1>3. CASE userTokens' = userTokens
  BY <1>1, <1>3
<1>4. CASE Pop(p)
  <2> DEFINE v == job[p].user
  <2>1. CASE userTokens[v] = <<>>
    BY <1>3, <1>4, <2>1 DEF Pop
  <2>2. CASE userTokens[v] # <<>>
    <3>1. SetList(v, Tail(userTokens[v]))
      BY <1>4, <2>2 DEF Pop
    <3>2. v = u => Len(Tail(userTokens[v])) <= Len(userTokens[u])
      BY <1>1, <2>2, ListFacts
    <3> QED  BY <1>2, <3>1, <3>2
  <2> QED  BY <2>1, <2>2
<1>5. CASE Delete(p)
  <2>1. SetList(job[p].user, <<>>)
    BY <1>5 DEF Delete
  <2>2. Len(<<>>) <= Len(userTokens[u])
    BY <1>1
  <2> QED  BY <1>2, <2>1, <2>2
<1> QED  BY <1>3, <1>4, <1>5, ListUntouched

\* Only the test of the eviction loop sends a login to RPUSH or to LPOP.
LEMMA BySize ==
    ASSUME TypeOK, NEW p \in Procs,
           Start(p) \/ SectionStep(p) \/ OpenStep(p) \/ Fault(p), pc'[p] \in {"pop", "push"}
    PROVE  Size(p) \/ (AcquireFails(p) /\ pc' = pc)
<1>1. pc \in [Procs -> Labels]
  BY DEF TypeOK, ControlOK
<1> USE DEF Goto, Return, Throw, Raise
<1>2. CASE Start(p)
  BY <1>1, <1>2 DEF Start, StartRegister, StartRotate, StartInvalidate, StartLogout, StartClear
<1>3. CASE SectionStep(p)
  BY <1>1, <1>3
     DEF SectionStep, Acquire, AcquireFails, Pop, Push, ExpireList, AddAccess, AddRefresh,
         ExpireIndex, Release, Respond
<1>4. CASE OpenStep(p)
  BY <1>1, <1>4
     DEF OpenStep, Lrange, AfterEmpty, Delete, Announce, Keys, NextKey, LogoutReturns
<1>5. CASE Fault(p)
  BY <1>1, <1>5 DEF Fault, CommandFails, ReleaseFails, Crash
<1> QED  BY <1>2, <1>3, <1>4, <1>5

LEMMA PushAfterSize ==
    ASSUME TypeOK, NEW p \in Procs,
           Start(p) \/ SectionStep(p) \/ OpenStep(p) \/ Fault(p), pc'[p] = "push"
    PROVE  Size(p)
  BY BySize DEF AcquireFails

LEMMA BoundStep ==
    ASSUME TypeOK, MutualExclusion, RoomToPush, ListBounded, [Next]_vars
    PROVE  RoomToPush' /\ ListBounded'
<1>0. /\ userTokens \in [Users -> Seq(Tokens)]
      /\ \A v \in Users : Len(userTokens[v]) \in Nat
      /\ MaxActive \in Nat
  BY ListFacts, ConstantsAssumption DEF TypeOK, DataOK
<1>00. \A v \in Users : Len(userTokens'[v]) \in Nat
  <2>1. TypeOK'
    BY TypeStep
  <2> QED  BY <2>1, LenProperties DEF TypeOK, DataOK
<1>1. ASSUME NEW p \in Procs, Start(p) \/ SectionStep(p) \/ OpenStep(p) \/ Fault(p)
      PROVE  RoomToPush' /\ ListBounded'
  <2>1. CASE Push(p)
    <3>1. /\ pc[p] = "push" /\ job[p].user \in Users /\ job[p].fresh \in Tokens
          /\ job' = job /\ pc'[p] = "expireList"
      BY <2>1, OperationAt DEF Push, Goto, TypeOK, ControlOK
    <3>2. userTokens' = [userTokens EXCEPT ![job[p].user] =
                            Append(userTokens[job[p].user], job[p].fresh)]
      BY <2>1 DEF Push, SetList
    <3>3. Len(userTokens'[job[p].user]) = Len(userTokens[job[p].user]) + 1
      BY <1>0, <3>1, <3>2, AppendProperties
    <3>4. ListBounded'
      BY <1>0, <3>1, <3>2, <3>3 DEF ListBounded, RoomToPush
    <3>5. ASSUME NEW q \in Procs, pc'[q] = "push"
          PROVE  Len(userTokens'[job'[q].user]) < MaxActive
      <4>1. q # p /\ pc[q] = "push"
        BY <1>1, <3>1, <3>5, OthersStay
      <4>2. job[q].user \in Users /\ InSection(q, job[q].user) /\ InSection(p, job[p].user)
        BY <3>1, <4>1, OperationAt DEF InSection, Locked
      <4>3. job[q].user # job[p].user
        BY <3>1, <4>1, <4>2 DEF MutualExclusion
      <4> QED  BY <3>1, <3>2, <4>1, <4>2, <4>3, <1>0 DEF RoomToPush
    <3> QED  BY <3>4, <3>5 DEF RoomToPush
  <2>2. CASE ~ Push(p)
    <3>1. \A u \in Users : Len(userTokens'[u]) <= Len(userTokens[u])
      BY <1>1, <2>2, OnlyPushLengthens
    <3>2. ListBounded'
      BY <1>0, <1>00, <3>1 DEF ListBounded
    <3>3. ASSUME NEW q \in Procs, pc'[q] = "push"
          PROVE  Len(userTokens'[job'[q].user]) < MaxActive
      <4>1. CASE q = p
        <5>1. Size(p)
          BY <1>1, <3>3, <4>1, PushAfterSize
        <5>2. /\ job' = job /\ userTokens' = userTokens
              /\ ~ (Len(userTokens[job[p].user]) >= MaxActive)
              /\ job[p].user \in Users
          BY <3>3, <4>1, <5>1, OperationAt DEF Size, Goto, redis, TypeOK, ControlOK
        <5> QED  BY <1>0, <4>1, <5>2
      <4>2. CASE q # p
        <5>1. pc[q] = "push" /\ job'[q] = job[q]
          BY <1>1, <3>3, <4>2, OthersStay
        <5>2. job[q].user \in Users /\ Len(userTokens[job[q].user]) < MaxActive
          BY <5>1, OperationAt DEF RoomToPush
        <5> QED  BY <1>0, <1>00, <3>1, <5>1, <5>2
      <4> QED  BY <4>1, <4>2
    <3> QED  BY <3>2, <3>3 DEF RoomToPush
  <2> QED  BY <2>1, <2>2
<1>2. CASE Time
  <2>1. pc' = pc /\ job' = job
    BY <1>2, TimeStep
  <2>2. \A u \in Users : Len(userTokens'[u]) <= Len(userTokens[u])
    <3>1. ASSUME NEW u \in Users, NEW v \in Users, ListExpires(v)
          PROVE  Len(userTokens'[u]) <= Len(userTokens[u])
      BY <1>0, <3>1, EmptySeq DEF ListExpires, SetList
    <3>2. CASE userTokens' = userTokens
      BY <1>0, <3>2
    <3> QED
      BY <1>2, <3>1, <3>2
         DEF Time, AccessExpires, RefreshExpires, LockExpires, IndexExpires, redis
  <2>3. ASSUME NEW q \in Procs, pc[q] = "push" PROVE job[q].user \in Users
    BY <2>3, OperationAt
  <2> QED  BY <1>0, <1>00, <2>1, <2>2, <2>3 DEF RoomToPush, ListBounded
<1>3. CASE UNCHANGED vars
  BY <1>3 DEF vars, redis, RoomToPush, ListBounded
<1> QED  BY <1>1, <1>2, <1>3 DEF Next

\* A user's list never holds more than maxActiveJwtCount entries, whatever the
\* role changes and failures that run without the lock do to it between the
\* commands of a login, and although no entry can be read back.
THEOREM Bounded ==
    ASSUME ~ TtlInSection
    PROVE  Spec => []ListBounded
<1>1. Init => RoomToPush /\ ListBounded
  BY ConstantsAssumption DEF Init, RoomToPush, ListBounded
<1> QED  BY <1>1, BoundStep, TypeCorrect, Exclusion, PTL DEF Spec

=============================================================================
