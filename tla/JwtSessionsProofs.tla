-------------------------- MODULE JwtSessionsProofs --------------------------
(***************************************************************************)
(* That a login is worth what it promises, and that the registry           *)
(* implements Sessions, for any number of users, tokens and processes.     *)
(***************************************************************************)
EXTENDS JwtRegistryProofs

-----------------------------------------------------------------------------
(* A login lasts. *)

\* t is in the access index, whose TTL was started anew after t was minted, unless
\* its time is over or the index lost it unarmed.
Standing(t) ==
    \/ t \in dead["access"] \cup cut
    \/ t \in index["access"] /\ t \in indexTtl["access"]

\* What the handler p has reached for the pair it minted.
Prepared(p) ==
    /\ pc[p] \in {"addRefresh", "expireIndex"} => job[p].fresh \in index["access"] \cup cut
    /\ job[p].op = "register" /\ pc[p] \in {"release", "respond"} => Standing(job[p].fresh)
    /\ job[p].op = "rotate" => Claim[job[p].fresh] # 0

Promise == /\ \A t \in FromLogin : Standing(t)
           /\ \A p \in Procs : Prepared(p)

\* No handler takes a token from the access index or stops its TTL.
LEMMA IndexKept ==
    ASSUME TypeOK, NEW p \in Procs,
           Start(p) \/ SectionStep(p) \/ OpenStep(p) \/ Fault(p)
    PROVE  /\ dead' = dead /\ cut' = cut
           /\ index["access"] \subseteq index'["access"]
           /\ \A t : t \in index["access"] /\ t \in indexTtl["access"] => t \in indexTtl'["access"]
<1> USE DEF redis, clients, outside, history
<1>1. index \in [Kinds -> SUBSET Tokens] /\ indexTtl \in [Kinds -> SUBSET Tokens]
      /\ "access" \in Kinds
  BY DEF TypeOK, DataOK, Kinds
<1>2. CASE AddAccess(p) \/ AddRefresh(p)
  BY <1>1, <1>2 DEF AddAccess, AddRefresh, Sadd
<1>3. CASE ExpireIndex(p)
  BY <1>1, <1>3 DEF ExpireIndex
<1>4. CASE Start(p)
  BY <1>4 DEF Start, StartRegister, StartRotate, StartInvalidate, StartLogout, StartClear
<1>5. CASE SectionStep(p) /\ ~ AddAccess(p) /\ ~ AddRefresh(p) /\ ~ ExpireIndex(p)
  BY <1>5 DEF SectionStep, Acquire, AcquireFails, Size, Pop, Push, ExpireList, Release, Respond
<1>6. CASE OpenStep(p)
  BY <1>6 DEF OpenStep, Lrange, Delete, Announce, Keys, NextKey, LogoutReturns
<1>7. CASE Fault(p)
  BY <1>7 DEF Fault, CommandFails, ReleaseFails, Crash
<1> QED  BY <1>2, <1>3, <1>4, <1>5, <1>6, <1>7

\* Only a response hands an access token out.
LEMMA HeldByRespond ==
    ASSUME NEW p \in Procs,
           Start(p) \/ SectionStep(p) \/ OpenStep(p) \/ Fault(p), ~ Respond(p)
    PROVE  held' = held
<1> USE DEF clients, outside
<1>1. CASE Start(p)
  BY <1>1 DEF Start, StartRegister, StartRotate, StartInvalidate, StartLogout, StartClear
<1>2. CASE SectionStep(p)
  BY <1>2 DEF SectionStep, Acquire, AcquireFails, Size, Pop, Push, ExpireList, AddAccess,
              AddRefresh, ExpireIndex, Release
<1>3. CASE OpenStep(p)
  BY <1>3 DEF OpenStep, Lrange, Delete, Announce, Keys, NextKey, LogoutReturns
<1>4. CASE Fault(p)
  BY <1>4 DEF Fault, CommandFails, ReleaseFails, Crash
<1> QED  BY <1>1, <1>2, <1>3, <1>4

\* A handler that moves prepares its pair in the order of the code.
LEMMA PreparedStep ==
    ASSUME TypeOK, Promise, NEW p \in Procs,
           Start(p) \/ SectionStep(p) \/ OpenStep(p) \/ Fault(p)
    PROVE  Prepared(p)'
<1> USE DEF Goto
<1>1. /\ pc \in [Procs -> Labels] /\ job \in [Procs -> JobType] /\ job[p] \in JobType
      /\ index \in [Kinds -> SUBSET Tokens] /\ indexTtl \in [Kinds -> SUBSET Tokens]
      /\ "access" \in Kinds /\ "refresh" \in Kinds
  BY DEF TypeOK, DataOK, ControlOK, Kinds
<1>2. /\ Prepared(p)
      /\ dead' = dead /\ cut' = cut
      /\ \A t : Standing(t) => Standing(t)'
  BY IndexKept DEF Promise, Standing
<1>3. ASSUME job'[p].op \notin {"register", "rotate"},
             pc'[p] \notin {"addRefresh", "expireIndex"}
      PROVE  Prepared(p)'
  BY <1>3 DEF Prepared
<1>4. ASSUME job'[p].op = job[p].op, job'[p].fresh = job[p].fresh,
             pc'[p] \notin {"addRefresh", "expireIndex", "release", "respond"}
      PROVE  Prepared(p)'
  BY <1>2, <1>4 DEF Prepared
<1>5. CASE Return(p) \/ Throw(p)
  <2>1. job'[p] = NoJob /\ pc'[p] = "idle"
    BY <1>1, <1>5 DEF Return, Throw
  <2> QED  BY <1>3, <2>1 DEF NoJob
<1>6. CASE Raise(p)
  <2>1. CASE Goto(p, "unwind") /\ job' = job
    BY <1>1, <1>4, <2>1
  <2> QED  BY <1>5, <1>6, <2>1 DEF Raise
<1>7. CASE StartRegister(p)
  <2>1. pc'[p] = "acquire" /\ job'[p].op = "register"
    BY <1>1, <1>7 DEF StartRegister, NoJob
  <2> QED  BY <2>1 DEF Prepared
<1>8. CASE StartRotate(p)
  <2>1. PICK r \in cookies, t \in Tokens :
            /\ Mint(Owner[r], Claim[r] + 1, t)
            /\ job' = [job EXCEPT ![p] =
                 [NoJob EXCEPT !.op = "rotate", !.user = Owner[r], !.fresh = t]]
    BY <1>8 DEF StartRotate
  <2>2. job'[p].op = "rotate" /\ job'[p].fresh = t /\ pc'[p] = "acquire"
    BY <1>1, <1>8, <2>1 DEF StartRotate, NoJob
  <2>3. Claim[t] # 0
    <3>1. Claim[r] \in Nat /\ Claim[t] = Claim[r] + 1
      BY <2>1, ConstantsAssumption DEF TypeOK, DataOK, Mint
    <3> QED  BY <3>1
  <2> QED  BY <2>2, <2>3 DEF Prepared
<1>9. CASE StartInvalidate(p) \/ StartLogout(p) \/ StartClear(p)
  <2>1. pc'[p] \in {"range", "keys", "loggedOut"}
        /\ job'[p].op \in {"invalidate", "logout", "clear"}
    BY <1>1, <1>9 DEF StartInvalidate, StartLogout, StartClear, NoJob
  <2> QED  BY <1>3, <2>1
<1>10. CASE Acquire(p) \/ Size(p) \/ Push(p) \/ ExpireList(p)
  <2>1. job' = job /\ pc'[p] \in {"size", "range", "pop", "push", "expireList", "addAccess"}
    BY <1>1, <1>10 DEF Acquire, Size, Push, ExpireList
  <2> QED  BY <1>4, <2>1
<1>11. CASE AcquireFails(p)
  <2>1. CASE job' = [job EXCEPT ![p].tries = @ + 1] /\ pc' = pc
    <3>1. job'[p] = [job[p] EXCEPT !.tries = @ + 1]
      BY <1>1, <2>1
    <3>2. job'[p].op = job[p].op /\ job'[p].fresh = job[p].fresh
      BY <1>1, <3>1 DEF JobType
    <3> QED  BY <1>4, <1>11, <2>1, <3>2 DEF AcquireFails
  <2> QED  BY <1>5, <1>11, <2>1 DEF AcquireFails
<1>12. CASE Pop(p)
  <2>1. CASE Goto(p, "size") /\ job' = job
    BY <1>1, <1>4, <2>1
  <2> QED  BY <1>6, <1>12, <2>1 DEF Pop
<1>13. CASE AddAccess(p)
  <2>1. pc'[p] = "addRefresh" /\ job' = job /\ job[p].fresh \in index'["access"]
        /\ job[p].op = "register"
    BY <1>1, <1>13, OperationAt DEF AddAccess, Sadd
  <2> QED  BY <2>1 DEF Prepared
<1>14. CASE AddRefresh(p)
  <2>1. pc'[p] = "expireIndex" /\ job' = job /\ job[p].fresh \in index["access"] \cup cut
        /\ job[p].op = "register" /\ index'["access"] = index["access"]
    BY <1>1, <1>2, <1>14, OperationAt DEF AddRefresh, Sadd, Prepared
  <2> QED  BY <1>2, <2>1 DEF Prepared
<1>15. CASE ExpireIndex(p)
  <2>1. pc'[p] = "release" /\ job' = job /\ job[p].fresh \in index["access"] \cup cut
        /\ job[p].op = "register" /\ index' = index
    BY <1>1, <1>2, <1>15, OperationAt DEF ExpireIndex, Prepared
  <2>2. job[p].fresh \in index["access"] => job[p].fresh \in indexTtl'["access"]
    BY <1>1, <1>15 DEF ExpireIndex
  <2>3. Standing(job[p].fresh)'
    BY <1>2, <2>1, <2>2 DEF Standing
  <2> QED  BY <2>1, <2>3 DEF Prepared
<1>16. CASE Release(p) \/ ReleaseFails(p)
  <2>1. CASE pc[p] = "release"
    <3>1. pc'[p] = "respond" /\ job' = job
      BY <1>1, <1>16, <2>1 DEF Release, ReleaseFails
    <3> QED  BY <1>2, <2>1, <3>1 DEF Prepared, Standing
  <2>2. CASE pc[p] # "release"
    BY <1>5, <1>16, <2>2 DEF Release, ReleaseFails
  <2> QED  BY <2>1, <2>2
<1>17. CASE Lrange(p)
  <2>1. CASE Goto(p, AfterEmpty(job[p].op)) /\ job' = job
    <3>1. pc'[p] = AfterEmpty(job[p].op)
      BY <1>1, <2>1
    <3>2. job[p].op \in {"rotate", "invalidate", "logout", "clear"}
      BY <1>17, OperationAt DEF Lrange
    <3>3. pc'[p] \in {"release", "nextKey", "delete"}
      BY <3>1 DEF AfterEmpty
    <3> QED  BY <1>2, <2>1, <3>2, <3>3 DEF Prepared
  <2> QED  BY <1>6, <1>17, <2>1 DEF Lrange
<1>18. CASE Delete(p)
  <2>1. pc'[p] \in {"announce", "nextKey"} /\ job' = job
    BY <1>1, <1>18 DEF Delete
  <2> QED  BY <1>4, <2>1
<1>19. CASE Keys(p) \/ NextKey(p)
  <2>1. CASE Return(p)
    BY <1>5, <2>1
  <2>2. CASE ~ Return(p)
    <3>1. pc'[p] \in {"nextKey", "loggedOut", "range"} /\ job[p].op \in {"logout", "clear"}
      BY <1>1, <1>19, <2>2, OperationAt DEF Keys, NextKey
    <3>2. job'[p].op = job[p].op
      <4>1. \A S : job' = [job EXCEPT ![p].keys = S] => job'[p].op = job[p].op
        BY <1>1 DEF JobType
      <4>2. \A v, S : job' = [job EXCEPT ![p].user = v, ![p].keys = S] => job'[p].op = job[p].op
        BY <1>1 DEF JobType
      <4> QED  BY <1>19, <2>2, <4>1, <4>2 DEF Keys, NextKey
    <3> QED  BY <1>3, <3>1, <3>2
  <2> QED  BY <2>1, <2>2
<1>20. CASE Respond(p) \/ Announce(p) \/ LogoutReturns(p) \/ Crash(p)
  BY <1>5, <1>20 DEF Respond, Announce, LogoutReturns, Crash
<1>21. CASE CommandFails(p)
  BY <1>6, <1>21 DEF CommandFails
<1> QED
  BY <1>7, <1>8, <1>9, <1>10, <1>11, <1>12, <1>13, <1>14, <1>15, <1>16, <1>17, <1>18, <1>19,
     <1>20, <1>21
     DEF Start, SectionStep, OpenStep, Fault

LEMMA PromiseStep == TypeOK /\ Promise /\ [Next]_vars => Promise'
<1> SUFFICES ASSUME TypeOK, Promise, [Next]_vars PROVE Promise'
  OBVIOUS
<1>1. ASSUME NEW p \in Procs, Start(p) \/ SectionStep(p) \/ OpenStep(p) \/ Fault(p)
      PROVE  Promise'
  <2>1. \A t : Standing(t) => Standing(t)'
    BY <1>1, IndexKept DEF Standing
  <2>2. ASSUME NEW t \in FromLogin' PROVE Standing(t)'
    <3>1. CASE t \in held
      BY <2>1, <2>2, <3>1 DEF Promise, FromLogin
    <3>2. CASE t \notin held
      <4>1. Respond(p) /\ t = job[p].fresh /\ Claim[t] = 0
        BY <1>1, <2>2, <3>2, HeldByRespond DEF FromLogin, Respond
      <4>2. job[p].op = "register" /\ pc[p] = "respond"
        BY <4>1, OperationAt DEF Promise, Prepared, Respond
      <4> QED  BY <2>1, <4>1, <4>2 DEF Promise, Prepared
    <3> QED  BY <3>1, <3>2
  <2>3. ASSUME NEW q \in Procs PROVE Prepared(q)'
    <3>1. CASE q = p
      BY <1>1, <3>1, PreparedStep
    <3>2. CASE q # p
      BY <1>1, <2>1, <3>2, OthersStay, IndexKept DEF Promise, Prepared
    <3> QED  BY <3>1, <3>2
  <2> QED  BY <2>2, <2>3 DEF Promise
<1>2. CASE Time
  <2>1. pc' = pc /\ job' = job
    BY <1>2, TimeStep
  <2>2. held' = held /\ dead["access"] \subseteq dead'["access"] /\ cut \subseteq cut'
    BY <1>2 DEF Time, AccessExpires, RefreshExpires, ListExpires, LockExpires, IndexExpires,
                outside, clients, history, TypeOK, DataOK, Kinds
  <2>3. CASE index' = index /\ indexTtl' = indexTtl
    <3>1. \A t : Standing(t) => Standing(t)'
      BY <2>2, <2>3 DEF Standing
    <3> QED  BY <2>1, <2>2, <2>3, <3>1 DEF Promise, Prepared, FromLogin
  <2>4. ASSUME NEW k \in Kinds, IndexExpires(k) PROVE Promise'
    <3>1. CASE k = "access"
      <4>1. dead' = dead /\ cut' = cut \cup Unarmed /\ indexTtl["access"] \subseteq dead["access"]
        BY <2>4, <3>1 DEF IndexExpires, outside
      <4>2. \A t : Standing(t) => Standing(t)'
        BY <4>1 DEF Standing
      <4>3. \A p \in Procs : pc[p] \in {"addRefresh", "expireIndex"} => job[p].fresh \in cut'
        BY <4>1 DEF Unarmed
      <4> QED  BY <2>1, <2>2, <4>2, <4>3 DEF Promise, Prepared, FromLogin
    <3>2. CASE k = "refresh"
      <4>1. index'["access"] = index["access"] /\ indexTtl'["access"] = indexTtl["access"]
        BY <2>4, <3>2 DEF IndexExpires, TypeOK, DataOK, Kinds
      <4>2. \A t : Standing(t) => Standing(t)'
        BY <2>2, <4>1 DEF Standing
      <4> QED  BY <2>1, <2>2, <4>1, <4>2 DEF Promise, Prepared, FromLogin
    <3> QED  BY <3>1, <3>2 DEF Kinds
  <2> QED  BY <1>2, <2>3, <2>4
              DEF Time, AccessExpires, RefreshExpires, ListExpires, LockExpires, redis
<1>3. CASE UNCHANGED vars
  BY <1>3 DEF vars, redis, clients, outside, history, Promise, Prepared, Standing, FromLogin
<1> QED  BY <1>1, <1>2, <1>3 DEF Next

\* The access token that a login answered with is accepted until its own exp, for
\* every interleaving with other logins, role changes, logouts, clean-ups, TTLs and
\* failures: none of them takes it from the index, whose one TTL the login itself
\* has started anew.  The exception is an index that lapses between the SADD and
\* the EXPIRE of that login.
THEOREM LoginsLast == Spec => []LoginLasts
<1>1. Init => Promise
  BY DEF Init, Promise, Prepared, FromLogin, NoJob
<1>2. TypeOK /\ Promise => LoginLasts
  BY DEF Promise, LoginLasts, Standing, Active
<1> QED  BY <1>1, <1>2, PromiseStep, TypeCorrect, PTL DEF Spec

-----------------------------------------------------------------------------
(* The registry implements Sessions. *)

\* A pair that is about to be indexed was put in its owner's list.
PushedFirst ==
    \A p \in Procs : pc[p] \in {"expireList", "addAccess"} => job[p].fresh \in admitted

Mapped == FullToPop /\ PushedFirst

LEMMA FullToPopStep ==
    ASSUME TypeOK, MutualExclusion, FullToPop, [Next]_vars
    PROVE  FullToPop'
<1>0. userTokens \in [Users -> Seq(Tokens)]
  BY DEF TypeOK, DataOK
<1>1. ASSUME NEW p \in Procs, Start(p) \/ SectionStep(p) \/ OpenStep(p) \/ Fault(p)
      PROVE  FullToPop'
  <2> SUFFICES ASSUME NEW q \in Procs, pc'[q] = "pop"
               PROVE  LET s == userTokens'[job'[q].user] IN s = <<>> \/ Len(s) >= MaxActive
    BY DEF FullToPop
  <2>1. CASE q = p
    <3>1. CASE Size(p)
      <4>1. job' = job /\ userTokens' = userTokens /\ Len(userTokens[job[p].user]) >= MaxActive
        BY <2>1, <3>1 DEF Size, Goto, outside, redis, TypeOK, ControlOK
      <4> QED  BY <2>1, <4>1
    <3>2. CASE ~ Size(p)
      <4>1. AcquireFails(p) /\ pc' = pc
        BY <1>1, <2>1, <3>2, BySize
      <4> QED  BY <2>1, <4>1 DEF AcquireFails
    <3> QED  BY <3>1, <3>2
  <2>2. CASE q # p
    <3>1. pc[q] = "pop" /\ job'[q] = job[q]
      BY <1>1, <2>2, OthersStay
    <3> DEFINE u == job[q].user
    <3>2. u \in Users /\ InSection(q, u)
      BY <3>1, OperationAt DEF InSection, Locked
    <3>3. userTokens[u] = <<>> \/ Len(userTokens[u]) >= MaxActive
      BY <3>1 DEF FullToPop
    <3>4. CASE Push(p) \/ Pop(p)
      <4>1. InSection(p, job[p].user) /\ job[p].user \in Users
        BY <3>4, OperationAt DEF InSection, Locked, Push, Pop
      <4>2. job[p].user # u
        BY <2>2, <3>2, <4>1 DEF MutualExclusion
      <4>3. userTokens'[u] = userTokens[u]
        BY <1>0, <3>2, <3>4, <4>2 DEF Push, Pop, SetList
      <4> QED  BY <3>1, <3>3, <4>3
    <3>5. CASE Delete(p)
      <4>1. userTokens'[u] \in {userTokens[u], <<>>}
        BY <1>0, <3>2, <3>5 DEF Delete, SetList
      <4> QED  BY <3>1, <3>3, <4>1
    <3>6. CASE ~ Push(p) /\ ~ Pop(p) /\ ~ Delete(p)
      BY <1>1, <3>1, <3>3, <3>6, ListUntouched
    <3> QED  BY <3>4, <3>5, <3>6
  <2> QED  BY <2>1, <2>2
<1>2. CASE Time
  <2>1. pc' = pc /\ job' = job
    BY <1>2, TimeStep
  <2>2. ASSUME NEW u \in Users PROVE userTokens'[u] \in {userTokens[u], <<>>}
    <3>1. ASSUME NEW v \in Users, ListExpires(v) PROVE userTokens'[u] \in {userTokens[u], <<>>}
      BY <1>0, <3>1 DEF ListExpires, SetList
    <3>2. CASE userTokens' = userTokens
      BY <3>2
    <3> QED
      BY <1>2, <3>1, <3>2
         DEF Time, AccessExpires, RefreshExpires, LockExpires, IndexExpires, redis
  <2>3. \A q \in Procs : pc[q] = "pop" => job[q].user \in Users
    BY OperationAt
  <2> QED  BY <2>1, <2>2, <2>3 DEF FullToPop
<1>3. CASE UNCHANGED vars
  BY <1>3 DEF vars, redis, FullToPop
<1> QED  BY <1>1, <1>2, <1>3 DEF Next

\* RPUSH comes before the index, in every handler.
LEMMA PushedFirstStep ==
    ASSUME TypeOK, PushedFirst, [Next]_vars
    PROVE  PushedFirst'
<1> USE DEF history, outside
<1>1. ASSUME NEW p \in Procs, Start(p) \/ SectionStep(p) \/ OpenStep(p) \/ Fault(p)
      PROVE  PushedFirst'
  <2>0. pc \in [Procs -> Labels]
    BY DEF TypeOK, ControlOK
  <2>1. admitted \subseteq admitted'
    <3>1. CASE Start(p)
      BY <3>1 DEF Start, StartRegister, StartRotate, StartInvalidate, StartLogout, StartClear
    <3>2. CASE SectionStep(p)
      BY <3>2 DEF SectionStep, Acquire, AcquireFails, Size, Pop, Push, ExpireList, AddAccess,
                  AddRefresh, ExpireIndex, Release, Respond
    <3>3. CASE OpenStep(p)
      BY <3>3 DEF OpenStep, Lrange, Delete, Announce, Keys, NextKey, LogoutReturns
    <3>4. CASE Fault(p)
      BY <3>4 DEF Fault, CommandFails, ReleaseFails, Crash
    <3> QED  BY <1>1, <3>1, <3>2, <3>3, <3>4
  <2>2. ASSUME pc'[p] \in {"expireList", "addAccess"} PROVE job'[p].fresh \in admitted'
    <3>1. CASE Push(p)
      BY <3>1 DEF Push
    <3>2. CASE ExpireList(p)
      BY <3>2 DEF ExpireList, PushedFirst
    <3>3. CASE ~ Push(p) /\ ~ ExpireList(p)
      <4> USE DEF Goto, Return, Throw, Raise
      <4>1. CASE Start(p)
        BY <2>0, <2>2, <4>1
           DEF Start, StartRegister, StartRotate, StartInvalidate, StartLogout, StartClear
      <4>2. CASE SectionStep(p)
        BY <2>0, <2>2, <3>3, <4>2
           DEF SectionStep, Acquire, AcquireFails, Size, Pop, AddAccess, AddRefresh,
               ExpireIndex, Release, Respond
      <4>3. CASE OpenStep(p)
        BY <2>0, <2>2, <4>3
           DEF OpenStep, Lrange, AfterEmpty, Delete, Announce, Keys, NextKey, LogoutReturns
      <4>4. CASE Fault(p)
        BY <2>0, <2>2, <4>4 DEF Fault, CommandFails, ReleaseFails, Crash
      <4> QED  BY <1>1, <4>1, <4>2, <4>3, <4>4
    <3> QED  BY <3>1, <3>2, <3>3
  <2> QED  BY <1>1, <2>1, <2>2, OthersStay DEF PushedFirst
<1>2. CASE Time
  <2>1. pc' = pc /\ job' = job
    BY <1>2, TimeStep
  <2>2. admitted' = admitted
    BY <1>2 DEF Time, AccessExpires, RefreshExpires, ListExpires, LockExpires, IndexExpires
  <2> QED  BY <2>1, <2>2 DEF PushedFirst
<1>3. CASE UNCHANGED vars
  BY <1>3 DEF vars, PushedFirst
<1> QED  BY <1>1, <1>2, <1>3 DEF Next

\* Every step of the registry is a step of Sessions or changes nothing it shows.
LEMMA SessionsStep ==
    ASSUME TypeOK, MutualExclusion, RoomToPush, ListBounded, Mapped, [Next]_vars
    PROVE  [Abstract!Next]_(Abstract!vars)
<1> USE DEF history, outside, redis
<1>0. /\ userTokens \in [Users -> Seq(Tokens)]
      /\ index \in [Kinds -> SUBSET Tokens] /\ Kinds = {"access", "refresh"}
      /\ MaxActive \in Nat
  BY ConstantsAssumption DEF TypeOK, DataOK, Kinds
<1>1. ASSUME userTokens' = userTokens, admitted' = admitted, index'["access"] = index["access"]
      PROVE  UNCHANGED Abstract!vars
  BY <1>1 DEF Abstract!vars
<1>2. ASSUME NEW p \in Procs, Start(p) \/ SectionStep(p) \/ OpenStep(p) \/ Fault(p)
      PROVE  [Abstract!Next]_(Abstract!vars)
  <2>1. CASE Push(p)
    <3>1. /\ job[p].fresh \in Tokens /\ job[p].user = Owner[job[p].fresh]
          /\ Len(userTokens[job[p].user]) < MaxActive
      BY <2>1, OperationAt DEF Push, RoomToPush
    <3>2. Abstract!Admit(job[p].fresh)
      BY <2>1, <3>1 DEF Push, SetList, Abstract!Admit
    <3> QED  BY <3>1, <3>2 DEF Abstract!Next
  <2>2. CASE Pop(p)
    <3> DEFINE u == job[p].user
    <3>1. u \in Users /\ pc[p] = "pop"
      BY <2>2, OperationAt DEF Pop
    <3>2. CASE userTokens[u] = <<>>
      BY <1>1, <2>2, <3>2 DEF Pop
    <3>3. CASE userTokens[u] # <<>>
      <4>1. Len(userTokens[u]) = MaxActive
        <5>1. Len(userTokens[u]) >= MaxActive
          BY <3>1, <3>3 DEF Mapped, FullToPop
        <5>2. Len(userTokens[u]) <= MaxActive /\ Len(userTokens[u]) \in Nat
          BY <1>0, <3>1, ListFacts DEF ListBounded
        <5> QED  BY <1>0, <5>1, <5>2
      <4>2. Abstract!Evict(u)
        BY <2>2, <3>3, <4>1 DEF Pop, SetList, Abstract!Evict
      <4> QED  BY <3>1, <4>2 DEF Abstract!Next
    <3> QED  BY <3>2, <3>3
  <2>3. CASE Delete(p)
    <3>1. userTokens' = [userTokens EXCEPT ![job[p].user] = <<>>]
          /\ admitted' = admitted /\ index' = index
      BY <2>3 DEF Delete, SetList
    <3>2. CASE job[p].user \in Users
      BY <3>1, <3>2 DEF Abstract!Forget, Abstract!Next
    <3>3. CASE job[p].user \notin Users
      <4>1. userTokens' = userTokens
        BY <1>0, <3>1, <3>3
      <4> QED  BY <1>1, <3>1, <4>1
    <3> QED  BY <3>2, <3>3
  <2>4. CASE AddAccess(p)
    <3>1. job[p].fresh \in Tokens /\ job[p].fresh \in admitted
      BY <2>4, OperationAt DEF AddAccess, Mapped, PushedFirst
    <3>2. Abstract!Open(job[p].fresh)
      BY <1>0, <2>4, <3>1 DEF AddAccess, Sadd, Abstract!Open
    <3> QED  BY <3>1, <3>2 DEF Abstract!Next
  <2>5. CASE AddRefresh(p)
    BY <1>0, <1>1, <2>5 DEF AddRefresh, Sadd
  <2>6. CASE SectionStep(p) /\ ~ Push(p) /\ ~ Pop(p) /\ ~ AddAccess(p) /\ ~ AddRefresh(p)
    BY <1>1, <2>6
       DEF SectionStep, Acquire, AcquireFails, Size, ExpireList, ExpireIndex, Release, Respond
  <2>7. CASE Start(p)
    BY <1>1, <2>7 DEF Start, StartRegister, StartRotate, StartInvalidate, StartLogout, StartClear
  <2>8. CASE OpenStep(p) /\ ~ Delete(p)
    BY <1>1, <2>8 DEF OpenStep, Lrange, Announce, Keys, NextKey, LogoutReturns
  <2>9. CASE Fault(p)
    BY <1>1, <2>9 DEF Fault, CommandFails, ReleaseFails, Crash
  <2> QED  BY <1>2, <2>1, <2>2, <2>3, <2>4, <2>5, <2>6, <2>7, <2>8, <2>9
<1>3. CASE Time
  <2>1. ASSUME NEW t \in Tokens, AccessExpires(t) \/ RefreshExpires(t)
        PROVE  UNCHANGED Abstract!vars
    BY <1>1, <2>1 DEF AccessExpires, RefreshExpires
  <2>2. ASSUME NEW u \in Users, ListExpires(u) PROVE Abstract!Next
    <3>1. Abstract!Forget(u)
      BY <2>2 DEF ListExpires, SetList, Abstract!Forget
    <3> QED  BY <2>2, <3>1 DEF Abstract!Next
  <2>3. ASSUME NEW u \in Users, LockExpires(u) PROVE UNCHANGED Abstract!vars
    BY <1>1, <2>3 DEF LockExpires
  <2>4. ASSUME NEW k \in Kinds, IndexExpires(k) PROVE [Abstract!Next]_(Abstract!vars)
    <3>1. userTokens' = userTokens /\ admitted' = admitted /\ index' = [index EXCEPT ![k] = {}]
      BY <2>4 DEF IndexExpires
    <3>2. CASE k = "access"
      BY <1>0, <3>1, <3>2 DEF Abstract!Lapse, Abstract!Next
    <3>3. CASE k = "refresh"
      BY <1>0, <1>1, <3>1, <3>3
    <3> QED  BY <1>0, <2>4, <3>2, <3>3
  <2> QED  BY <1>3, <2>1, <2>2, <2>3, <2>4 DEF Time
<1>4. CASE UNCHANGED vars
  BY <1>1, <1>4 DEF vars
<1> QED  BY <1>2, <1>3, <1>4 DEF Next

\* Unless a TTL on the user's keys fires within a locked section, the commands of
\* RedisJwtRegistry, interleaved and failing as they may, do to the lists and to the
\* access index only what Sessions allows: a list gives up its oldest pair only when
\* it is full, and what the index opens to was put in a list first.
THEOREM Refinement ==
    ASSUME ~ TtlInSection
    PROVE  Spec => ImplementsSessions
<1>1. Init => Abstract!Init
  BY DEF Init, Abstract!Init, Kinds
<1>2. Init => HolderInSection /\ RoomToPush /\ ListBounded /\ Mapped
  BY ConstantsAssumption
     DEF Init, HolderInSection, InSection, RoomToPush, ListBounded, Mapped, FullToPop, PushedFirst
<1>3. TypeOK /\ MutualExclusion /\ Mapped /\ [Next]_vars => Mapped'
  BY FullToPopStep, PushedFirstStep DEF Mapped
<1>4. TypeOK /\ MutualExclusion /\ RoomToPush /\ ListBounded /\ [Next]_vars
          => RoomToPush' /\ ListBounded'
  BY BoundStep
<1>5. TypeOK /\ MutualExclusion /\ RoomToPush /\ ListBounded /\ Mapped /\ [Next]_vars
          => [Abstract!Next]_(Abstract!vars)
  BY SessionsStep
<1> QED
  BY <1>1, <1>2, <1>3, <1>4, <1>5, TypeCorrect, Exclusion, PTL
     DEF Spec, ImplementsSessions, Abstract!Spec

=============================================================================
