---------------------------- MODULE JwtRegistry ----------------------------
(***************************************************************************)
(* RedisJwtRegistry: who is logged in, kept in Redis and shared by every   *)
(* replica of the server.  A process is one request thread, or the         *)
(* scheduled clean-up, of any replica; one action is one Redis command, so *)
(* the commands of concurrent handlers interleave as they do in Redis.     *)
(*                                                                         *)
(* A "token" stands for one JwtInformation: an access token and a refresh  *)
(* token that are minted together.  Its subject and its role claim are     *)
(* part of the signed string, hence the constant functions Owner, Claim.   *)
(*                                                                         *)
(* The lists are written as JSON, which nothing can read back: the mapper  *)
(* of RedisConfig is bare and JwtInformation has one constructor, with     *)
(* three unnamed parameters.  LPOP of an entry takes effect and then       *)
(* throws, and LRANGE of a list that is not empty throws.  What the        *)
(* handlers would do with an entry they had read is dead code.             *)
(***************************************************************************)
EXTENDS Naturals, FiniteSets, SequencesExt

CONSTANTS
    Users,         \* users that can log in
    Tokens,        \* token pairs the server may mint (bounds the logins)
    Owner,         \* the subject claim of each token
    Claim,         \* its role claim: how many times "ROLE_" was put before it, less one
    Procs,         \* request threads and clean-up threads, over all replicas
    MaxActive,     \* maxActiveJwtCount
    MaxAttempts,   \* maxAttempts of @Retryable
    Handlers,      \* which operations occur: a subset of Operations
    TtlInSection,  \* may a TTL on the user's keys fire inside a locked section?
    Faults,        \* may Redis commands fail and threads die?
    NoUser, NoToken, NoProc

Operations == {"register", "rotate", "invalidate", "logout", "clear"}
Kinds      == {"access", "refresh"}     \* the two token indexes

ASSUME ConstantsAssumption ==
    /\ Owner \in [Tokens -> Users]
    /\ Claim \in [Tokens -> Nat]
    /\ MaxActive \in Nat \ {0}
    /\ MaxAttempts \in Nat \ {0}
    /\ Handlers \subseteq Operations
    /\ TtlInSection \in BOOLEAN
    /\ Faults \in BOOLEAN
    /\ NoUser \notin Users
    /\ NoProc \notin Procs
    /\ NoToken \notin Tokens

VARIABLES
    \* Redis
    userTokens,    \* jwt:user:<id>, one list per user
    listTtl,       \* the tokens whose handlers armed the list's TTL; {}: it has none
    index,         \* jwt:access_tokens and jwt:refresh_tokens
    indexTtl,      \* the same for the indexes
    lock,          \* lock:<id>
    \* the clock and the clients
    issued,        \* tokens minted so far
    thisSecond,    \* those minted in the current second
    dead,          \* tokens whose access, resp. refresh, JWT is past its exp
    held,          \* tokens whose access token a 200 response has handed out
    cookies,       \* tokens whose refresh token some response has handed out
    announced,     \* what the last UserLogInOutEvent of each user said
    \* the processes
    pc,
    job,
    \* history
    admitted,      \* tokens ever put in their owner's list
    activated,     \* tokens ever put in the access index
    cut,           \* tokens an index lost before their login could arm its TTL
    loggedOut,     \* registered tokens whose logout has returned since they were minted
    revoked        \* held tokens that worked when a role change that has returned began

redis   == <<userTokens, listTtl, index, indexTtl, lock>>
clients == <<held, cookies, announced>>
outside == <<issued, thisSecond, dead, clients>>
history == <<admitted, activated, cut, loggedOut, revoked>>
vars    == <<redis, outside, pc, job, history>>

-----------------------------------------------------------------------------
(* Locals of a handler. *)

NoJob == [op    |-> "none",  user |-> NoUser,
          fresh |-> NoToken,  \* the pair this handler minted
          keys  |-> {},       \* users whose keys KEYS found and that are still to visit
          tries |-> 0,        \* failed attempts to take the lock
          scope |-> {}]       \* tokens this operation is asked to end

Locked(o) == o \in {"register", "rotate"}   \* the operations that take the lock

\* p is between acquireLock and releaseLock on user u.
InSection(p, u) ==
    /\ job[p].user = u
    /\ Locked(job[p].op)
    /\ pc[p] \notin {"idle", "acquire", "respond"}

TtlMayFire(u) == TtlInSection \/ \A p \in Procs : ~InSection(p, u)

Goto(p, label) == pc' = [pc EXCEPT ![p] = label]

Return(p) == /\ pc'  = [pc EXCEPT ![p] = "idle"]
             /\ job' = [job EXCEPT ![p] = NoJob]

\* An exception leaves the handler.  A login has put its refresh token on the
\* response before it called the registry.
Throw(p) ==
    /\ Return(p)
    /\ cookies' = IF job[p].op = "register" THEN cookies \cup {job[p].fresh} ELSE cookies

\* An exception is raised: a section is left through its finally.
Raise(p) == IF InSection(p, job[p].user)
            THEN Goto(p, "unwind") /\ UNCHANGED <<job, cookies>>
            ELSE Throw(p)

\* JwtTokenProvider.validateToken on one half of the pair.
Expired(kind, t) == t \in dead[kind]

\* What JwtAuthenticationFilter accepts: unexpired and in the access index.
Active == index["access"] \ dead["access"]

ActiveOf(u) == {t \in Active : Owner[t] = u}

\* JwtTokenProvider: a string is made of the user, the role claim and the second
\* (no jti), so two mints that agree in these return the same token.
Mint(u, c, t) ==
    /\ Owner[t] = u /\ Claim[t] = c
    /\ \/ /\ t \in thisSecond
          /\ UNCHANGED <<issued, thisSecond>>
       \/ /\ t \notin issued
          /\ issued' = issued \cup {t}
          /\ \/ thisSecond' = {t}
             \/ /\ \A s \in thisSecond : Owner[s] # u \/ Claim[s] # c
                /\ thisSecond' = thisSecond \cup {t}

-----------------------------------------------------------------------------
(* Redis commands.  A list or set that becomes empty is deleted, and its   *)
(* TTL goes with it.                                                       *)

SetList(u, s) ==
    /\ userTokens' = [userTokens EXCEPT ![u] = s]
    /\ listTtl' = [listTtl EXCEPT ![u] = IF s = <<>> THEN {} ELSE @]

Sadd(kind, t) ==
    /\ index' = [index EXCEPT ![kind] = @ \cup {t}]
    /\ UNCHANGED indexTtl

-----------------------------------------------------------------------------
(* Login: JwtLoginSuccessHandler mints a pair and calls registerJwtInformation. *)

StartRegister(p) ==
    /\ "register" \in Handlers
    /\ pc[p] = "idle"
    /\ \E t \in Tokens :
         /\ Mint(Owner[t], 0, t)
         /\ loggedOut' = loggedOut \ {t}
         /\ job' = [job EXCEPT ![p] = [NoJob EXCEPT !.op = "register",
                                                    !.user = Owner[t],
                                                    !.fresh = t]]
    /\ Goto(p, "acquire")
    /\ UNCHANGED <<redis, dead, clients, admitted, activated, cut, revoked>>

\* /api/auth/refresh: the refresh token's own signature and exp are checked,
\* the registry is not.  A new pair is minted before the lock is taken; its role
\* is the old claim, which generateToken prefixes once more.
StartRotate(p) ==
    /\ "rotate" \in Handlers
    /\ pc[p] = "idle"
    /\ \E r \in cookies, t \in Tokens :
         /\ ~Expired("refresh", r)
         /\ Mint(Owner[r], Claim[r] + 1, t)
         /\ job' = [job EXCEPT ![p] = [NoJob EXCEPT !.op = "rotate",
                                                    !.user = Owner[r],
                                                    !.fresh = t]]
    /\ Goto(p, "acquire")
    /\ UNCHANGED <<redis, dead, clients, history>>

\* Mutant of Acquire: SET without NX.
AcquireAnyway(p) ==
    /\ pc[p] = "acquire"
    /\ lock' = [lock EXCEPT ![job[p].user] = p]
    /\ Goto(p, IF job[p].op = "register" THEN "size" ELSE "range")
    /\ UNCHANGED <<userTokens, listTtl, index, indexTtl, outside, job, history>>

\* SET lock:<id> NX EX 10
Acquire(p) ==
    LET u == job[p].user IN
    /\ pc[p] = "acquire"
    /\ lock[u] = NoProc
    /\ lock' = [lock EXCEPT ![u] = p]
    /\ Goto(p, IF job[p].op = "register" THEN "size" ELSE "range")
    /\ UNCHANGED <<userTokens, listTtl, index, indexTtl, outside, job, history>>

\* Mutant of AcquireFails: the attempts are counted but never run out.
AcquireFailsForever(p) ==
    /\ pc[p] = "acquire"
    /\ lock[job[p].user] # NoProc
    /\ job' = [job EXCEPT ![p].tries = @ + 1]
    /\ UNCHANGED <<redis, outside, pc, history>>

\* The lock is taken: RedisLockAcquisitionException, retried MaxAttempts times.
AcquireFails(p) ==
    /\ pc[p] = "acquire"
    /\ lock[job[p].user] # NoProc
    /\ IF job[p].tries + 1 < MaxAttempts
       THEN /\ job' = [job EXCEPT ![p].tries = @ + 1]
            /\ UNCHANGED <<pc, cookies>>
       ELSE Throw(p)
    /\ UNCHANGED <<redis, issued, thisSecond, dead, held, announced, history>>

\* Mutant of Size: > for >=.
SizeOffByOne(p) ==
    /\ pc[p] = "size"
    /\ Goto(p, IF Len(userTokens[job[p].user]) > MaxActive THEN "pop" ELSE "push")
    /\ UNCHANGED <<redis, outside, job, history>>

\* LLEN and the test of the eviction loop
Size(p) ==
    /\ pc[p] = "size"
    /\ Goto(p, IF Len(userTokens[job[p].user]) >= MaxActive THEN "pop" ELSE "push")
    /\ UNCHANGED <<redis, outside, job, history>>

\* Mutant of Pop: LINDEX for LPOP, so the list never gets shorter.
PopPeeks(p) ==
    /\ pc[p] = "pop"
    /\ Goto(p, "size")
    /\ UNCHANGED <<redis, outside, job, history>>

\* LPOP: Redis gives the oldest entry up, and the reply cannot be decoded.  Only
\* of a list that has become empty in the meantime does the loop go on.
Pop(p) ==
    LET u == job[p].user IN
    /\ pc[p] = "pop"
    /\ IF userTokens[u] = <<>>
       THEN /\ Goto(p, "size")
            /\ UNCHANGED <<userTokens, listTtl, job, cookies>>
       ELSE /\ SetList(u, Tail(userTokens[u]))
            /\ Raise(p)
    /\ UNCHANGED <<index, indexTtl, lock, issued, thisSecond, dead, held, announced, history>>

\* Mutant of Push: LPUSH, the newest pair is the next to go.
PushInFront(p) ==
    LET u == job[p].user IN
    /\ pc[p] = "push"
    /\ SetList(u, <<job[p].fresh>> \o userTokens[u])
    /\ admitted' = admitted \cup {job[p].fresh}
    /\ Goto(p, "expireList")
    /\ UNCHANGED <<index, indexTtl, lock, outside, job, activated, cut, loggedOut, revoked>>

\* RPUSH
Push(p) ==
    LET u == job[p].user IN
    /\ pc[p] = "push"
    /\ SetList(u, Append(userTokens[u], job[p].fresh))
    /\ admitted' = admitted \cup {job[p].fresh}
    /\ Goto(p, "expireList")
    /\ UNCHANGED <<index, indexTtl, lock, outside, job, activated, cut, loggedOut, revoked>>

\* EXPIRE jwt:user:<id>; nothing happens when the key is gone.
ExpireList(p) ==
    LET u == job[p].user IN
    /\ pc[p] = "expireList"
    /\ listTtl' = [listTtl EXCEPT ![u] = IF userTokens[u] = <<>> THEN @ ELSE @ \cup {job[p].fresh}]
    /\ Goto(p, "addAccess")
    /\ UNCHANGED <<userTokens, index, indexTtl, lock, outside, job, history>>

\* addTokenIndex: SADD access, SADD refresh, then EXPIRE of both indexes.
AddAccess(p) ==
    /\ pc[p] = "addAccess"
    /\ Sadd("access", job[p].fresh)
    /\ activated' = activated \cup {job[p].fresh}
    /\ Goto(p, "addRefresh")
    /\ UNCHANGED <<userTokens, listTtl, lock, outside, job, admitted, cut, loggedOut, revoked>>

AddRefresh(p) ==
    /\ pc[p] = "addRefresh"
    /\ Sadd("refresh", job[p].fresh)
    /\ Goto(p, "expireIndex")
    /\ UNCHANGED <<userTokens, listTtl, lock, outside, job, history>>

\* Mutant of ExpireIndex: EXPIRE ... NX, a TTL that runs is not started anew.
ExpireIndexOnce(p) ==
    /\ pc[p] = "expireIndex"
    /\ indexTtl' = [k \in Kinds |-> IF index[k] = {} THEN {}
                                    ELSE IF indexTtl[k] = {} THEN {job[p].fresh}
                                    ELSE indexTtl[k]]
    /\ Goto(p, "release")
    /\ UNCHANGED <<userTokens, listTtl, index, lock, outside, job, history>>

ExpireIndex(p) ==
    /\ pc[p] = "expireIndex"
    /\ indexTtl' = [k \in Kinds |-> IF index[k] = {} THEN {} ELSE indexTtl[k] \cup {job[p].fresh}]
    /\ Goto(p, "release")
    /\ UNCHANGED <<userTokens, listTtl, index, lock, outside, job, history>>

\* releaseLock: DEL, whoever holds it.  "unwind" is the finally of a section
\* that threw: the exception goes on to the caller.
Release(p) ==
    /\ pc[p] \in {"release", "unwind"}
    /\ lock' = [lock EXCEPT ![job[p].user] = NoProc]
    /\ IF pc[p] = "release"
       THEN Goto(p, "respond") /\ UNCHANGED <<job, cookies>>
       ELSE Throw(p)
    /\ UNCHANGED <<userTokens, listTtl, index, indexTtl, issued, thisSecond, dead,
                   held, announced, history>>

\* The login event is published and the response carries the new pair.
Respond(p) ==
    /\ pc[p] = "respond"
    /\ held' = held \cup {job[p].fresh}
    /\ cookies' = cookies \cup {job[p].fresh}
    /\ announced' = IF job[p].op = "register"
                    THEN [announced EXCEPT ![job[p].user] = "in"]
                    ELSE announced
    /\ Return(p)
    /\ UNCHANGED <<redis, issued, thisSecond, dead, history>>

-----------------------------------------------------------------------------
(* LRANGE of a user's list, by a refresh, a role change, a logout and the   *)
(* clean-up: only an empty one is read.                                    *)

AfterEmpty(o) ==
    CASE o = "rotate"  -> "release"
      [] o = "logout"  -> "nextKey"
      [] OTHER         -> "delete"

Lrange(p) ==
    /\ pc[p] = "range"
    /\ \/ /\ userTokens[job[p].user] = <<>>
          /\ Goto(p, AfterEmpty(job[p].op))
          /\ UNCHANGED <<job, cookies>>
       \/ /\ userTokens[job[p].user] # <<>>
          /\ Raise(p)
    /\ UNCHANGED <<redis, issued, thisSecond, dead, held, announced, history>>

\* DEL jwt:user:<id>, by a role change or by the clean-up; neither has the lock.
Delete(p) ==
    /\ pc[p] = "delete"
    /\ SetList(job[p].user, <<>>)
    /\ Goto(p, IF job[p].op = "invalidate" THEN "announce" ELSE "nextKey")
    /\ UNCHANGED <<index, indexTtl, lock, outside, job, history>>

-----------------------------------------------------------------------------
(* Role change: updateUserRole calls invalidateJwtInformationByUserId; an   *)
(* exception rolls the role back.                                          *)

StartInvalidate(p) ==
    /\ "invalidate" \in Handlers
    /\ pc[p] = "idle"
    /\ \E u \in Users :
         job' = [job EXCEPT ![p] = [NoJob EXCEPT !.op = "invalidate", !.user = u,
                                                 !.scope = held \cap ActiveOf(u)]]
    /\ Goto(p, "range")
    /\ UNCHANGED <<redis, outside, history>>

Announce(p) ==
    /\ pc[p] = "announce"
    /\ announced' = [announced EXCEPT ![job[p].user] = "out"]
    /\ revoked' = revoked \cup job[p].scope
    /\ Return(p)
    /\ UNCHANGED <<redis, issued, thisSecond, dead, held, cookies,
                   admitted, activated, cut, loggedOut>>

-----------------------------------------------------------------------------
(* Logout, invalidateJwtInformationByRefreshToken, and the clean-up that    *)
(* every replica starts every five minutes, clearExpiredJwtInformation,    *)
(* walk over every list that KEYS finds.                                   *)

\* SISMEMBER of the refresh index; an unknown token needs no logout.
StartLogout(p) ==
    /\ "logout" \in Handlers
    /\ pc[p] = "idle"
    /\ \E r \in cookies :
         /\ job' = [job EXCEPT ![p] = [NoJob EXCEPT !.op = "logout",
                                                    !.scope = {r} \cap held \cap index["refresh"]]]
         /\ Goto(p, IF r \in index["refresh"] THEN "keys" ELSE "loggedOut")
    /\ UNCHANGED <<redis, outside, history>>

StartClear(p) ==
    /\ "clear" \in Handlers
    /\ pc[p] = "idle"
    /\ job' = [job EXCEPT ![p] = [NoJob EXCEPT !.op = "clear"]]
    /\ Goto(p, "keys")
    /\ UNCHANGED <<redis, outside, history>>

\* KEYS jwt:user:*
Keys(p) ==
    /\ pc[p] = "keys"
    /\ job' = [job EXCEPT ![p].keys = {u \in Users : userTokens[u] # <<>>}]
    /\ Goto(p, "nextKey")
    /\ UNCHANGED <<redis, outside, history>>

NextKey(p) ==
    /\ pc[p] = "nextKey"
    /\ \/ /\ job[p].keys = {} /\ job[p].op = "clear"
          /\ Return(p)
       \/ /\ job[p].keys = {} /\ job[p].op = "logout"
          /\ Goto(p, "loggedOut")
          /\ UNCHANGED job
       \/ \E u \in job[p].keys :
            /\ job' = [job EXCEPT ![p].user = u, ![p].keys = @ \ {u}]
            /\ Goto(p, "range")
    /\ UNCHANGED <<redis, outside, history>>

LogoutReturns(p) ==
    /\ pc[p] = "loggedOut"
    /\ loggedOut' = loggedOut \cup job[p].scope
    /\ Return(p)
    /\ UNCHANGED <<redis, outside, admitted, activated, cut, revoked>>

-----------------------------------------------------------------------------
(* Time.  exp of an access token and DEFAULT_TTL are both thirty minutes,  *)
(* and a TTL is armed after the token was minted, and each EXPIRE starts   *)
(* it anew: a key outlives the access token of every handler that armed it.*)

AccessExpires(t) ==
    /\ t \in issued \ dead["access"]
    /\ dead' = [dead EXCEPT !["access"] = @ \cup {t}]
    /\ thisSecond' = IF t \in thisSecond THEN {} ELSE thisSecond
    /\ UNCHANGED <<redis, issued, clients, pc, job, history>>

RefreshExpires(t) ==
    /\ t \in dead["access"] \ dead["refresh"]
    /\ dead' = [dead EXCEPT !["refresh"] = @ \cup {t}]
    /\ UNCHANGED <<redis, issued, thisSecond, clients, pc, job, history>>

ListExpires(u) ==
    /\ listTtl[u] # {} /\ listTtl[u] \subseteq dead["access"]
    /\ TtlMayFire(u)
    /\ SetList(u, <<>>)
    /\ UNCHANGED <<index, indexTtl, lock, outside, pc, job, history>>

\* Pairs whose login has added them to the access index but not armed its TTL.
Unarmed == {job[p].fresh : p \in {q \in Procs : pc[q] \in {"addRefresh", "expireIndex"}}}

\* An index is one key: all its members go at once.
IndexExpires(kind) ==
    /\ indexTtl[kind] # {} /\ indexTtl[kind] \subseteq dead["access"]
    /\ index' = [index EXCEPT ![kind] = {}]
    /\ indexTtl' = [indexTtl EXCEPT ![kind] = {}]
    /\ cut' = IF kind = "access" THEN cut \cup Unarmed ELSE cut
    /\ UNCHANGED <<userTokens, listTtl, lock, outside, pc, job,
                   admitted, activated, loggedOut, revoked>>

\* Mutant of LockExpires: SET NX without EX.
LockStays(u) == FALSE /\ lock[u] # NoProc /\ UNCHANGED vars

\* LOCK_TIMEOUT
LockExpires(u) ==
    /\ lock[u] # NoProc
    /\ TtlMayFire(u)
    /\ lock' = [lock EXCEPT ![u] = NoProc]
    /\ UNCHANGED <<userTokens, listTtl, index, indexTtl, outside, pc, job, history>>

-----------------------------------------------------------------------------
(* Failures.  A command that fails after it took effect is a failure at    *)
(* the next label.  releaseLock swallows its own failure.                  *)

CommandFails(p) ==
    /\ Faults
    /\ pc[p] \notin {"idle", "unwind", "respond"}
    /\ Raise(p)
    /\ UNCHANGED <<redis, issued, thisSecond, dead, held, announced, history>>

ReleaseFails(p) ==
    /\ Faults
    /\ pc[p] \in {"release", "unwind"}
    /\ IF pc[p] = "release"
       THEN Goto(p, "respond") /\ UNCHANGED <<job, cookies>>
       ELSE Throw(p)
    /\ UNCHANGED <<redis, issued, thisSecond, dead, held, announced, history>>

Crash(p) ==
    /\ Faults
    /\ pc[p] # "idle"
    /\ Return(p)
    /\ UNCHANGED <<redis, outside, history>>

-----------------------------------------------------------------------------
Init ==
    /\ userTokens = [u \in Users |-> <<>>]
    /\ listTtl    = [u \in Users |-> {}]
    /\ index      = [k \in Kinds |-> {}]
    /\ indexTtl   = [k \in Kinds |-> {}]
    /\ lock       = [u \in Users |-> NoProc]
    /\ issued     = {}
    /\ thisSecond = {}
    /\ dead       = [k \in Kinds |-> {}]
    /\ held       = {}
    /\ cookies    = {}
    /\ announced  = [u \in Users |-> "none"]
    /\ pc         = [p \in Procs |-> "idle"]
    /\ job        = [p \in Procs |-> NoJob]
    /\ admitted   = {}
    /\ activated  = {}
    /\ cut        = {}
    /\ loggedOut  = {}
    /\ revoked    = {}

Start(p) == StartRegister(p) \/ StartRotate(p) \/ StartInvalidate(p)
            \/ StartLogout(p) \/ StartClear(p)

SectionStep(p) == Acquire(p) \/ AcquireFails(p) \/ Size(p) \/ Pop(p) \/ Push(p)
                  \/ ExpireList(p) \/ AddAccess(p) \/ AddRefresh(p) \/ ExpireIndex(p)
                  \/ Release(p) \/ Respond(p)

OpenStep(p) == Lrange(p) \/ Delete(p) \/ Announce(p) \/ Keys(p) \/ NextKey(p)
               \/ LogoutReturns(p)

Fault(p) == CommandFails(p) \/ ReleaseFails(p) \/ Crash(p)

Time == \/ \E t \in Tokens : AccessExpires(t) \/ RefreshExpires(t)
        \/ \E u \in Users : ListExpires(u) \/ LockExpires(u)
        \/ \E k \in Kinds : IndexExpires(k)

Next == \/ \E p \in Procs : Start(p) \/ SectionStep(p) \/ OpenStep(p) \/ Fault(p)
        \/ Time

Spec == Init /\ [][Next]_vars

\* A started handler keeps running unless its thread dies; Redis keeps TTLs.
FairSpec == /\ Spec
            /\ \A p \in Procs : WF_vars(SectionStep(p) \/ OpenStep(p))
            /\ \A u \in Users : WF_vars(LockExpires(u))

-----------------------------------------------------------------------------
(* Type correctness. *)

JobType == [op    : Operations \cup {"none"},
            user  : Users \cup {NoUser},
            fresh : Tokens \cup {NoToken},
            keys  : SUBSET Users,
            tries : 0 .. MaxAttempts,
            scope : SUBSET Tokens]

\* Where a handler can be while it performs an operation.
LabelsOf(o) ==
    CASE o = "register"   -> {"acquire", "size", "pop", "push", "expireList", "addAccess",
                              "addRefresh", "expireIndex", "release", "unwind", "respond"}
      [] o = "rotate"     -> {"acquire", "range", "release", "unwind", "respond"}
      [] o = "invalidate" -> {"range", "delete", "announce"}
      [] o = "logout"     -> {"keys", "nextKey", "range", "loggedOut"}
      [] o = "clear"      -> {"keys", "nextKey", "range", "delete"}
      [] OTHER            -> {"idle"}

Labels == {"idle"} \cup UNION {LabelsOf(o) : o \in Operations}

\* A handler is where its operation can be, and the operations that take the
\* lock take it for the user of the pair they minted.
JobOK(p) ==
    /\ pc[p] \in LabelsOf(job[p].op)
    /\ Locked(job[p].op) => job[p].fresh \in Tokens /\ job[p].user = Owner[job[p].fresh]

ControlOK ==
    /\ pc  \in [Procs -> Labels]
    /\ job \in [Procs -> JobType]
    /\ \A p \in Procs : JobOK(p)

DataOK ==
    /\ userTokens \in [Users -> Seq(Tokens)]
    /\ listTtl    \in [Users -> SUBSET Tokens]
    /\ index      \in [Kinds -> SUBSET Tokens]
    /\ indexTtl   \in [Kinds -> SUBSET Tokens]
    /\ lock       \in [Users -> Procs \cup {NoProc}]
    /\ issued     \in SUBSET Tokens
    /\ thisSecond \in SUBSET Tokens
    /\ dead       \in [Kinds -> SUBSET Tokens]
    /\ held       \in SUBSET Tokens
    /\ cookies    \in SUBSET Tokens
    /\ announced  \in [Users -> {"none", "in", "out"}]
    /\ admitted   \in SUBSET Tokens
    /\ activated  \in SUBSET Tokens
    /\ cut        \in SUBSET Tokens
    /\ loggedOut  \in SUBSET Tokens
    /\ revoked    \in SUBSET Tokens

\* Every variable stays in its domain, and every handler in its operation.
TypeOK == DataOK /\ ControlOK

-----------------------------------------------------------------------------
(* Safety. *)

\* At most one handler at a time is between acquireLock and releaseLock of a
\* user.  (releaseLock deletes the key whoever holds it.)
MutualExclusion ==
    \A p, q \in Procs, u \in Users : InSection(p, u) /\ InSection(q, u) => p = q

\* Why: the lock is held in the name of whoever is in the section.
HolderInSection ==
    \A p \in Procs, u \in Users : InSection(p, u) => lock[u] = p

\* The eviction loop of a login keeps a user's list within maxActiveJwtCount,
\* whatever the unlocked operations and failures do to the list meanwhile.
ListBounded == \A u \in Users : Len(userTokens[u]) <= MaxActive

\* Why: a login that is about to push has made room, and no other can take it.
RoomToPush ==
    \A p \in Procs : pc[p] = "push" => Len(userTokens[job[p].user]) < MaxActive

\* And a login that is about to pop found the list full; it still is, or it was
\* deleted.
FullToPop ==
    \A p \in Procs :
        pc[p] = "pop" => LET s == userTokens[job[p].user] IN s = <<>> \/ Len(s) >= MaxActive

\* A pair that a login answered with works until its access token expires: the
\* TTL of the shared index, which each login starts anew, never sweeps it earlier,
\* unless it fired before that login could arm it.
FromLogin == {t \in held : Claim[t] = 0}

LoginLasts == FromLogin \subseteq Active \cup dead["access"] \cup cut

\* The registry implements its abstract specification: a list that admits a pair
\* only when it has room and gives up the oldest only when it is full, and an
\* access index that opens only to admitted pairs and lapses as a whole.
Abstract == INSTANCE Sessions WITH list <- userTokens, usable <- index["access"]
ImplementsSessions == Abstract!Spec

-----------------------------------------------------------------------------
(* What the documents of the repository say of the registry. *)

\* maxActiveJwtCount: a user has no more usable access tokens than that; a new
\* login ends the one before it.
SingleSession == \A u \in Users : Cardinality(ActiveOf(u)) <= MaxActive

\* A pair that its user has logged out does not work, and a user whose role changed
\* is logged out: at the latest when both a logout and a role change of a pair have
\* returned it is dead.
RevocationIsFinal == loggedOut \cap revoked \cap Active = {}

\* A refresh that answers 200 answers with a pair that was registered.
RefreshDelivers == held \subseteq activated

-----------------------------------------------------------------------------
(* Liveness. *)

\* Every request ends, with a response or an error.
RequestsEnd == \A p \in Procs : pc[p] # "idle" ~> pc[p] = "idle"

\* A lock whose holder died, or failed to delete it, is free again eventually.
LocksFreed == \A u \in Users : []<>(lock[u] = NoProc)

=============================================================================
