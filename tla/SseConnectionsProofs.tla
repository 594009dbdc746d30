------------------------ MODULE SseConnectionsProofs ------------------------
(***************************************************************************)
(* Theorems about SseConnections: whatever the connections, the callbacks  *)
(* and the sending tasks do to the map and its lists without a lock, for   *)
(* every number of each.                                                   *)
(***************************************************************************)
EXTENDS SseConnections, SequenceTheorems, TLAPS

-----------------------------------------------------------------------------
(* The inductive invariant. *)

\* Emitters that are in no list yet.
Unsaved == {"new", "contains", "get", "size", "write"}

\* Lists that were in the map once, so that anybody may hold them.
Public(l) == l \in Emitters /\ pc[l] \notin Unsaved \cup {"put"} /\ size[l] >= 1

\* A user has a list of the user's own connections.
DataOK == \A u \in Users : data[u] # NoList => Public(data[u]) /\ Owner[data[u]] = u

\* A connection adds to a public list of its user, within the array, or puts a
\* list that nobody else has seen.
SavesWell(e) ==
    /\ ref[e] # NoList <=> pc[e] \in {"size", "write", "put"}
    /\ ref[e] # NoList => ref[e] \in Emitters /\ Owner[ref[e]] = Owner[e]
    /\ ref[e] \notin {NoList, e} => Public(ref[e])
    /\ ref[e] = e => pc[e] = "put" /\ array[e] = <<e>> /\ size[e] = 1
    /\ pc[e] = "write" => seen[e] <= Len(array[ref[e]])

RefOK == \A e \in Emitters : SavesWell(e)

\* A loop stays within the array; while the list is not modified, the size it
\* started with is the list's.
LoopOK(p) ==
    p # NoLoop =>
        /\ Public(p.list)
        /\ 1 <= p.next /\ p.next <= p.size /\ p.size <= Len(array[p.list])
        /\ p.mod <= modCount[p.list]
        /\ p.mod = modCount[p.list] => p.size = size[p.list]

EndsOK ==
    /\ \A f \in Emitters : LoopOK(removal[f])
    /\ \A s \in Senders : LoopOK(sending[s])
    /\ \A f \in Emitters : removal[f] # NoLoop <=> pc[f] = "removing"
    /\ \A f \in Emitters : pc[f] = "ended" => callbacks[f] >= 1

\* Arrays hold saved connections of one user.
ArraysOK ==
    \A l \in Emitters : \A i \in DOMAIN array[l] :
        Owner[array[l][i]] = Owner[l] /\ pc[array[l][i]] \notin Unsaved

Shape == TypeOK /\ DataOK /\ RefOK /\ EndsOK /\ ArraysOK

\* A connection is not completed before it is saved, and stillborn if it is
\* completed while it connects.
StillbornOK ==
    /\ \A e \in completed : pc[e] \notin Unsaved
    /\ Connecting \cap completed \subseteq stillborn

\* Two saves of a user at once are a race.
OneSaver ==
    \A e, f \in Emitters :
        pc[e] \in Saving /\ pc[f] \in Saving /\ Owner[e] = Owner[f] /\ e # f
            => Owner[e] \in raced

\* What a save may rely on while no other of its user interferes: the size it
\* read is the size, its write is there, and a callback may have removed its list
\* but no other list has come in.
Alone ==
    \A e \in Emitters : Owner[e] \notin raced =>
        /\ pc[e] = "write" => seen[e] = size[ref[e]]
        /\ pc[e] = "put" => e \in Elements(ref[e])
        /\ ref[e] # NoList => data[Owner[e]] \in {NoList, ref[e]}

\* The connection that put the list last has not called remove: it will, unless
\* it is stillborn.
LastPut(u) ==
    \E e \in Emitters :
        /\ Owner[e] = u
        /\ pc[e] \in {"return", "open", "ended"} \/ (pc[e] = "over" /\ e \in stillborn)
        /\ u \in raced \/ e \in Elements(data[u])

PutByLive == \A u \in Users : data[u] # NoList => LastPut(u)

\* Where an open connection can be: in the map, before it in a removal that is
\* not disturbed, or in the list a connection is about to put.
Found(e) ==
    \/ data[Owner[e]] # NoList /\ e \in Elements(data[Owner[e]])
    \/ \E f \in Emitters :
         /\ removal[f] # NoLoop
         /\ removal[f].mod = modCount[removal[f].list]
         /\ \E i \in removal[f].next .. removal[f].size : array[removal[f].list][i] = e
    \/ \E f \in Emitters : Owner[f] = Owner[e] /\ ref[f] # NoList /\ e \in Elements(ref[f])

OpenAreFound ==
    \A e \in Emitters :
        pc[e] \in {"return", "open"} /\ e \notin completed /\ Owner[e] \notin raced => Found(e)

\* A connection that called remove comes back with a list that is put back.
BackByPut ==
    \A u \in Users : data[u] # NoList =>
        \A i \in DOMAIN array[data[u]] :
            LET e == array[data[u]][i] IN
            pc[e] \in {"removing", "over"} /\ e \notin stillborn => u \in revived

Inv == Shape /\ StillbornOK /\ OneSaver /\ Alone /\ PutByLive /\ OpenAreFound /\ BackByPut

-----------------------------------------------------------------------------
(* The steps, by what they do to the lists. *)

\* A sequence with one element written at the place behind the first k.
Written(a, k, x) == SubSeq(a, 1, k) \o <<x>> \o SubSeq(a, k + 2, Len(a))

LEMMA WriteAt ==
    ASSUME NEW T, NEW a \in Seq(T), NEW x \in T, NEW k \in Nat, k <= Len(a)
    PROVE  /\ Written(a, k, x) \in Seq(T)
           /\ Len(Written(a, k, x)) \in Nat
           /\ DOMAIN Written(a, k, x) = 1 .. Len(Written(a, k, x))
           /\ Len(a) <= Len(Written(a, k, x)) /\ k + 1 <= Len(Written(a, k, x))
           /\ Written(a, k, x)[k + 1] = x
           /\ \A i \in 1 .. Len(Written(a, k, x)) : i # k + 1 =>
                i \in 1 .. Len(a) /\ Written(a, k, x)[i] = a[i]
<1>0. PICK b : b = Written(a, k, x)
  OBVIOUS
<1>1. Len(a) \in Nat /\ DOMAIN a = 1 .. Len(a) /\ \A i \in 1 .. Len(a) : a[i] \in T
  BY LenProperties, ElementOfSeq
<1> DEFINE p == SubSeq(a, 1, k)
           q == SubSeq(a, k + 2, Len(a))
           r == p \o <<x>>
<1>2. p \in Seq(T) /\ Len(p) = k /\ \A i \in 1 .. k : p[i] = a[i]
  <2>1. 1 \in Int /\ k \in Int /\ \A i \in 1 .. k : a[i] \in T
    BY <1>1
  <2>2. /\ p \in Seq(T) /\ Len(p) = IF 1 <= k THEN k - 1 + 1 ELSE 0
        /\ \A i \in 1 .. k - 1 + 1 : p[i] = a[1 + i - 1]
    BY <2>1, SubSeqProperties
  <2> HIDE DEF p
  <2> QED  BY <2>1, <2>2
<1> HIDE DEF p
<1>3. /\ q \in Seq(T) /\ Len(q) \in Nat
      /\ k + 2 <= Len(a) => Len(q) = Len(a) - k - 1
      /\ k + 2 > Len(a) => Len(q) = 0
      /\ \A i \in 1 .. Len(q) : i + k + 1 \in 1 .. Len(a) /\ q[i] = a[i + k + 1]
  <2>1. PICK n, m : n = Len(a) /\ m = k + 2
    OBVIOUS
  <2>2. m \in Int /\ n \in Int /\ \A i \in m .. n : a[i] \in T
    BY <1>1, <2>1
  <2>3. q = SubSeq(a, m, n)
    BY <2>1
  <2> HIDE DEF q
  <2>4. /\ q \in Seq(T) /\ Len(q) = IF m <= n THEN n - m + 1 ELSE 0
        /\ \A i \in 1 .. n - m + 1 : q[i] = a[m + i - 1]
    BY ONLY <2>2, <2>3, SubSeqProperties, SMTT(30)
  <2>5. CASE m <= n
    <3>1. Len(q) = n - m + 1
      BY <2>4, <2>5
    <3>2. Len(q) \in Nat /\ Len(q) = n - k - 1 /\ k + 2 <= n
      BY <2>1, <2>2, <2>5, <3>1
    <3>3. ASSUME NEW i \in 1 .. Len(q)
          PROVE  i + k + 1 \in 1 .. n /\ q[i] = a[i + k + 1]
      <4>1. q[i] = a[m + i - 1]
        BY <2>4, <3>1, <3>3
      <4>2. m + i - 1 = i + k + 1 /\ i + k + 1 \in 1 .. n
        BY <2>1, <2>2, <3>2, <3>3
      <4> QED  BY <4>1, <4>2
    <3>4. ~ (k + 2 > n)
      BY <2>1, <2>2, <2>5
    <3> QED  BY <2>1, <2>4, <3>2, <3>3, <3>4
  <2>6. CASE ~ (m <= n)
    <3>1. Len(q) = 0
      BY <2>4, <2>6
    <3> QED  BY <2>1, <2>2, <2>4, <2>6, <3>1
  <2> QED  BY <2>5, <2>6
<1> HIDE DEF q
<1>4. /\ r \in Seq(T) /\ Len(r) = k + 1 /\ r[k + 1] = x
      /\ \A i \in 1 .. k : r[i] = a[i]
  <2>1. <<x>> \in Seq(T) /\ Len(<<x>>) = 1 /\ <<x>>[1] = x
    OBVIOUS
  <2>2. /\ r \in Seq(T) /\ Len(r) = Len(p) + 1
        /\ \A i \in 1 .. Len(p) + 1 : r[i] = IF i <= Len(p) THEN p[i] ELSE <<x>>[i - Len(p)]
    BY <1>2, <2>1, ConcatProperties
  <2> HIDE DEF r
  <2> QED  BY <1>2, <2>1, <2>2, SMTT(30)
<1>5. b = r \o q
  BY <1>0 DEF p, q, r, Written
<1> HIDE DEF r
<1>6. /\ r \o q \in Seq(T) /\ Len(r \o q) = Len(r) + Len(q)
      /\ \A i \in 1 .. Len(r) + Len(q) : (r \o q)[i] = IF i <= Len(r) THEN r[i] ELSE q[i - Len(r)]
  BY <1>3, <1>4, ConcatProperties
<1>7. PICK n, m : n = Len(a) /\ m = Len(q)
  OBVIOUS
<1>8. /\ b \in Seq(T) /\ Len(b) = k + 1 + m /\ m \in Nat
      /\ \A i \in 1 .. k + 1 + m : b[i] = IF i <= k + 1 THEN r[i] ELSE q[i - (k + 1)]
  BY <1>3, <1>4, <1>5, <1>6, <1>7
<1>9. DOMAIN b = 1 .. Len(b) /\ Len(b) \in Nat
  BY <1>8, LenProperties
<1>10. n \in Nat /\ n <= k + 1 + m
  <2>1. n \in Nat
    BY <1>1, <1>7
  <2>2. (k + 2 <= n => m = n - k - 1) /\ (k + 2 > n => m = 0)
    BY <1>3, <1>7
  <2> QED  BY <1>8, <2>1, <2>2
<1>11. b[k + 1] = x
  <2>1. k + 1 \in 1 .. k + 1 + m /\ k + 1 <= k + 1
    BY <1>8
  <2> QED  BY <1>4, <1>8, <2>1
<1>12. ASSUME NEW i \in 1 .. Len(b), i # k + 1
       PROVE  i \in 1 .. Len(a) /\ b[i] = a[i]
  <2>1. CASE i <= k
    <3>1. i \in 1 .. k /\ i \in 1 .. k + 1 + m /\ i <= k + 1
      BY <1>8, <1>12, <2>1
    <3>2. i \in 1 .. Len(a)
      BY <1>1, <3>1
    <3> QED  BY <1>4, <1>8, <3>1, <3>2
  <2>2. CASE i > k + 1
    <3>0. i \in 1 .. k + 1 + m
      BY <1>8
    <3>1. i - (k + 1) \in 1 .. m /\ ~ (i <= k + 1) /\ (i - (k + 1)) + k + 1 = i
      BY <1>8, <2>2, <3>0
    <3>2. b[i] = q[i - (k + 1)]
      BY <1>8, <3>0, <3>1
    <3> QED  BY <1>3, <1>7, <3>1, <3>2
  <2> QED  BY <1>8, <1>12, <2>1, <2>2
<1>13. Len(a) <= Len(b) /\ k + 1 <= Len(b)
  <2>1. Len(b) = k + 1 + m /\ m \in Nat
    BY <1>8
  <2>2. Len(a) <= Len(b)
    BY <1>7, <1>10, <2>1
  <2>3. k + 1 <= k + 1 + m
    BY <2>1
  <2> QED  BY <2>1, <2>2, <2>3
<1> QED  BY <1>0, <1>8, <1>9, <1>11, <1>12, <1>13

\* A connection's place moves on along its life.
Moves(a, b) ==
    \/ a = b
    \/ a = "new" /\ b \in {"contains", "over"}
    \/ a = "contains" /\ b \in {"get", "put"}
    \/ a = "get" /\ b \in {"size", "put"}
    \/ a = "size" /\ b = "write"
    \/ a = "write" /\ b = "put"
    \/ a = "put" /\ b = "return"
    \/ a = "return" /\ b \in {"open", "over"}
    \/ a = "open" /\ b = "ended"
    \/ a \in {"ended", "removing"} /\ b \in {"ended", "removing", "over"}

\* A connection makes a list of its own.
Creates(e) ==
    /\ pc[e] \in {"contains", "get"}
    /\ data[Owner[e]] = NoList
    /\ Create(e)
    /\ UNCHANGED <<data, seen>>

\* The element a loop stands on is a connection.
LEMMA OnElement ==
    ASSUME TypeOK, NEW p \in Loops, LoopOK(p), p # NoLoop
    PROVE  /\ p.list \in Emitters /\ p.next \in DOMAIN array[p.list]
           /\ p.next \in 1 .. p.size /\ p.size \in 1 .. Len(array[p.list])
           /\ Element(p) \in Emitters
<1>1. /\ p.list \in Emitters /\ 1 <= p.next /\ p.next <= p.size /\ p.size <= Len(array[p.list])
  BY DEF LoopOK, Public
<1>2. p.next \in Nat /\ p.size \in Nat
  BY DEF Loops
<1>3. array[p.list] \in Seq(Emitters)
  BY <1>1 DEF TypeOK
<1>4. DOMAIN array[p.list] = 1 .. Len(array[p.list]) /\ Len(array[p.list]) \in Nat
  BY <1>3, LenProperties
<1>5. p.next \in 1 .. Len(array[p.list])
  BY <1>1, <1>2, <1>4
<1>6. array[p.list][p.next] \in Emitters
  BY <1>3, <1>5, ElementOfSeq
<1> QED  BY <1>1, <1>2, <1>4, <1>5, <1>6 DEF Element

\* One connection moves in a step.
LEMMA OneMoves ==
    ASSUME Shape, Next
    PROVE  \E e \in Emitters : \E l \in Labels : pc' = [pc EXCEPT ![e] = l] /\ Moves(pc[e], l)
<1>0. /\ pc \in [Emitters -> Labels] /\ removal \in [Emitters -> Loops]
      /\ sending \in [Senders -> Loops]
  BY DEF Shape, TypeOK
<1>1. ASSUME NEW e \in Emitters, Count(e) \/ CountFails(e) \/ ConnectStep(e)
      PROVE  \E l \in Labels : pc' = [pc EXCEPT ![e] = l] /\ Moves(pc[e], l)
  BY <1>1 DEF ConnectStep, Count, CountFails, Contains, Get, Create, ReadSize, Write, Put, Return,
     Goto, Moves, Labels, Saving
<1>2. ASSUME NEW e \in Emitters, TimesOut(e) \/ Completes(e) \/ Remove(e)
      PROVE  \E l \in Labels : pc' = [pc EXCEPT ![e] = l] /\ Moves(pc[e], l)
  BY <1>2 DEF TimesOut, Completes, Remove, End, AfterCallback, Goto, Moves, Labels
<1>3. ASSUME pc' = pc, Emitters # {}
      PROVE  \E e \in Emitters : \E l \in Labels : pc' = [pc EXCEPT ![e] = l] /\ Moves(pc[e], l)
  <2>1. PICK e \in Emitters : TRUE
    BY <1>3
  <2>2. pc' = [pc EXCEPT ![e] = pc[e]] /\ pc[e] \in Labels
    BY <1>0, <1>3
  <2> QED  BY <2>2 DEF Moves
<1>4. ASSUME NEW e \in Emitters, CompleteNext(e)
      PROVE  \E f \in Emitters : \E l \in Labels : pc' = [pc EXCEPT ![f] = l] /\ Moves(pc[f], l)
  <2>1. CASE pc' = pc
    BY <1>3, <2>1
  <2>2. CASE pc' # pc
    <3>1. pc[e] = "removing" /\ AfterCallback(e, callbacks[e])
      BY <1>4, <2>2 DEF CompleteNext
    <3> QED  BY <3>1 DEF AfterCallback, Goto, Moves, Labels
  <2> QED  BY <2>1, <2>2
<1>5. ASSUME NEW s \in Senders, SendNext(s)
      PROVE  \E e \in Emitters : \E l \in Labels : pc' = [pc EXCEPT ![e] = l] /\ Moves(pc[e], l)
  <2>1. Element(sending[s]) \in Emitters
    BY <1>0, <1>5, OnElement DEF Shape, EndsOK, SendNext
  <2>2. CASE pc' = pc
    BY <1>3, <2>1, <2>2
  <2>3. CASE pc' # pc
    <3>1. PICK e : e = Element(sending[s])
      OBVIOUS
    <3>2. pc[e] = "open" /\ pc' = [pc EXCEPT ![e] = "ended"]
      BY <1>5, <2>3, <3>1 DEF SendNext, End, Goto
    <3> QED  BY <2>1, <3>1, <3>2 DEF Moves, Labels
  <2> QED  BY <2>2, <2>3
<1>6. ASSUME NEW s \in Senders, SendThrows(s) \/ \E u \in Users : StartSend(s, u)
      PROVE  \E e \in Emitters : \E l \in Labels : pc' = [pc EXCEPT ![e] = l] /\ Moves(pc[e], l)
  <2>1. pc' = pc
    BY <1>6 DEF SendThrows, StartSend
  <2>2. CASE SendThrows(s)
    <3>1. Element(sending[s]) \in Emitters
      BY <1>0, <2>2, OnElement DEF Shape, EndsOK, SendThrows
    <3> QED  BY <1>3, <2>1, <3>1
  <2>3. CASE \E u \in Users : StartSend(s, u)
    <3>1. PICK u \in Users : data[u] # NoList
      BY <2>3 DEF StartSend
    <3>2. data[u] \in Emitters
      BY <3>1 DEF Shape, DataOK, Public
    <3> QED  BY <1>3, <2>1, <3>2
  <2> QED  BY <1>6, <2>2, <2>3
<1> QED  BY <1>1, <1>2, <1>4, <1>5, <1>6 DEF Next, EndStep, SendStep

\* What that says of every connection.
LEMMA EachMoves ==
    ASSUME Shape, [Next]_vars
    PROVE  /\ pc' \in [Emitters -> Labels]
           /\ \A f \in Emitters : Moves(pc[f], pc'[f])
           /\ \A f \in Emitters : pc[f] \notin Unsaved => pc'[f] \notin Unsaved
           /\ \A f \in Emitters :
                pc[f] \notin Unsaved \cup {"put"} => pc'[f] \notin Unsaved \cup {"put"}
<1>0. pc \in [Emitters -> Labels]
  BY DEF Shape, TypeOK
<1>1. pc' \in [Emitters -> Labels] /\ \A f \in Emitters : Moves(pc[f], pc'[f])
  <2>1. CASE Next
    <3>1. PICK e \in Emitters, l \in Labels : pc' = [pc EXCEPT ![e] = l] /\ Moves(pc[e], l)
      BY <2>1, OneMoves
    <3>2. \A f \in Emitters : Moves(pc[f], pc[f])
      BY DEF Moves
    <3> QED  BY <1>0, <3>1, <3>2
  <2>2. CASE UNCHANGED vars
    BY <1>0, <2>2 DEF vars, Moves
  <2> QED  BY <2>1, <2>2
<1>2. ASSUME NEW f \in Emitters
      PROVE  /\ pc[f] \notin Unsaved => pc'[f] \notin Unsaved
             /\ pc[f] \notin Unsaved \cup {"put"} => pc'[f] \notin Unsaved \cup {"put"}
  BY <1>1 DEF Moves, Unsaved
<1> QED  BY <1>1, <1>2

\* Only a new list and a write change the lists.
LEMMA Kinds ==
    ASSUME Shape, [Next]_vars
    PROVE  \/ UNCHANGED lists
           \/ \E e \in Emitters : Creates(e)
           \/ \E e \in Emitters : Write(e)
<1>1. ASSUME NEW e \in Emitters, ConnectStep(e)
      PROVE  UNCHANGED lists \/ Creates(e) \/ Write(e)
  BY <1>1 DEF ConnectStep, Contains, Get, ReadSize, Put, Return, Creates
<1>2. ASSUME NEW e \in Emitters, Count(e) \/ CountFails(e) \/ EndStep(e)
      PROVE  UNCHANGED lists
  BY <1>2 DEF Count, CountFails, EndStep, TimesOut, Completes, Remove, CompleteNext
<1>3. ASSUME NEW s \in Senders, SendStep(s) \/ \E u \in Users : StartSend(s, u)
      PROVE  UNCHANGED lists
  BY <1>3 DEF SendStep, SendNext, SendThrows, StartSend
<1>4. CASE UNCHANGED vars
  BY <1>4 DEF vars
<1> QED  BY <1>1, <1>2, <1>3, <1>4 DEF Next

\* A new list is one that nobody holds.
LEMMA CreatesAList ==
    ASSUME Shape, NEW e \in Emitters, Creates(e)
    PROVE  /\ array' \in [Emitters -> Seq(Emitters)] /\ size' \in [Emitters -> Nat]
           /\ modCount' \in [Emitters -> Nat]
           /\ ref' = [ref EXCEPT ![e] = e] /\ pc' = [pc EXCEPT ![e] = "put"]
           /\ array'[e] = <<e>> /\ size'[e] = 1
           /\ \A l \in Emitters \ {e} :
                array'[l] = array[l] /\ size'[l] = size[l] /\ modCount'[l] = modCount[l]
           /\ ~ Public(e)
           /\ \A f \in Emitters : ref[f] # e
<1>1. <<e>> \in Seq(Emitters)
  OBVIOUS
<1>2. /\ array \in [Emitters -> Seq(Emitters)] /\ size \in [Emitters -> Nat]
      /\ modCount \in [Emitters -> Nat]
  BY DEF Shape, TypeOK
<1>3. /\ array' = [array EXCEPT ![e] = <<e>>] /\ size' = [size EXCEPT ![e] = 1]
      /\ modCount' = [modCount EXCEPT ![e] = 1] /\ ref' = [ref EXCEPT ![e] = e]
      /\ pc' = [pc EXCEPT ![e] = "put"] /\ pc[e] \in {"contains", "get"}
  BY DEF Creates, Create, Goto
<1>4. ~ Public(e)
  BY <1>3 DEF Public, Unsaved
<1>5. ASSUME NEW f \in Emitters, ref[f] = e PROVE FALSE
  <2>1. e # NoList
    BY ConnectionsAssumption
  <2>2. f = e
    BY <1>4, <1>5, <2>1 DEF Shape, RefOK, SavesWell
  <2> QED  BY <1>3, <1>5, <2>2 DEF Shape, RefOK, SavesWell
<1> QED  BY <1>1, <1>2, <1>3, <1>4, <1>5

\* A write goes to the place behind the elements it has counted.
LEMMA WritesAnElement ==
    ASSUME Shape, NEW e \in Emitters, Write(e)
    PROVE  /\ array' \in [Emitters -> Seq(Emitters)] /\ size' \in [Emitters -> Nat]
           /\ modCount' \in [Emitters -> Nat]
           /\ ref' = ref /\ pc[e] = "write" /\ pc' = [pc EXCEPT ![e] = "put"]
           /\ ref[e] \in Emitters /\ ref[e] # e /\ Public(ref[e]) /\ Owner[ref[e]] = Owner[e]
           /\ Len(array[ref[e]]) <= Len(array'[ref[e]])
           /\ size'[ref[e]] = seen[e] + 1 /\ size'[ref[e]] <= Len(array'[ref[e]])
           /\ modCount'[ref[e]] = modCount[ref[e]] + 1
           /\ array'[ref[e]][seen[e] + 1] = e
           /\ DOMAIN array'[ref[e]] = 1 .. Len(array'[ref[e]])
           /\ Len(array'[ref[e]]) \in Nat
           /\ \A i \in DOMAIN array'[ref[e]] : i # seen[e] + 1 =>
                i \in DOMAIN array[ref[e]] /\ array'[ref[e]][i] = array[ref[e]][i]
           /\ \A l \in Emitters \ {ref[e]} :
                array'[l] = array[l] /\ size'[l] = size[l] /\ modCount'[l] = modCount[l]
<1>1. /\ array \in [Emitters -> Seq(Emitters)] /\ size \in [Emitters -> Nat]
      /\ modCount \in [Emitters -> Nat] /\ seen[e] \in Nat
  BY DEF Shape, TypeOK
<1>2. PICK l, k, b :
          /\ l = ref[e] /\ k = seen[e]
          /\ b = SubSeq(array[l], 1, k) \o <<e>> \o SubSeq(array[l], k + 2, Len(array[l]))
  OBVIOUS
<1>3. /\ pc[e] = "write" /\ pc' = [pc EXCEPT ![e] = "put"] /\ ref' = ref
      /\ array' = [array EXCEPT ![l] = b]
      /\ size' = [size EXCEPT ![l] = k + 1]
      /\ modCount' = [modCount EXCEPT ![l] = @ + 1]
  BY <1>2 DEF Write, Goto, connect
<1>4. /\ l \in Emitters /\ l # e /\ l # NoList /\ Public(l) /\ Owner[l] = Owner[e]
      /\ k <= Len(array[l])
  BY <1>2, <1>3 DEF Shape, RefOK, SavesWell
<1>5. array[l] \in Seq(Emitters) /\ k \in Nat /\ size[l] \in Nat /\ modCount[l] \in Nat
  BY <1>1, <1>2, <1>4
<1>6. DOMAIN array[l] = 1 .. Len(array[l])
  BY <1>5, LenProperties
<1>7. /\ b \in Seq(Emitters)
      /\ Len(b) \in Nat /\ DOMAIN b = 1 .. Len(b)
      /\ Len(array[l]) <= Len(b) /\ k + 1 <= Len(b)
      /\ b[k + 1] = e
      /\ \A i \in 1 .. Len(b) : i # k + 1 => i \in 1 .. Len(array[l]) /\ b[i] = array[l][i]
  <2>1. PICK a : a = array[l]
    OBVIOUS
  <2>2. a \in Seq(Emitters) /\ k \in Nat /\ k <= Len(a)
        /\ b = SubSeq(a, 1, k) \o <<e>> \o SubSeq(a, k + 2, Len(a))
    BY <1>2, <1>4, <1>5, <2>1
  <2>3. /\ b \in Seq(Emitters)
        /\ Len(b) \in Nat /\ DOMAIN b = 1 .. Len(b)
        /\ Len(a) <= Len(b) /\ k + 1 <= Len(b)
        /\ b[k + 1] = e
        /\ \A i \in 1 .. Len(b) : i # k + 1 => i \in 1 .. Len(a) /\ b[i] = a[i]
    <3>1. b = Written(a, k, e)
      BY <2>2 DEF Written
    <3>2. a \in Seq(Emitters) /\ k \in Nat /\ k <= Len(a)
      BY <2>2
    <3>3. /\ Written(a, k, e) \in Seq(Emitters)
          /\ Len(Written(a, k, e)) \in Nat
          /\ Len(a) <= Len(Written(a, k, e)) /\ k + 1 <= Len(Written(a, k, e))
          /\ Written(a, k, e)[k + 1] = e
      BY <3>2, WriteAt
    <3>4. DOMAIN Written(a, k, e) = 1 .. Len(Written(a, k, e))
      BY <3>2, WriteAt
    <3>5. \A i \in 1 .. Len(Written(a, k, e)) : i # k + 1 =>
                i \in 1 .. Len(a) /\ Written(a, k, e)[i] = a[i]
      BY <3>2, WriteAt
    <3> QED  BY <3>1, <3>3, <3>4, <3>5
  <2> QED  BY <2>1, <2>3
<1>8. array'[l] = b /\ size'[l] = k + 1 /\ modCount'[l] = modCount[l] + 1
  BY <1>1, <1>3, <1>4
<1>9. /\ array' \in [Emitters -> Seq(Emitters)] /\ size' \in [Emitters -> Nat]
      /\ modCount' \in [Emitters -> Nat]
  <2>1. array' \in [Emitters -> Seq(Emitters)]
    BY <1>1, <1>3, <1>7
  <2>2. k + 1 \in Nat /\ modCount[l] + 1 \in Nat
    BY <1>5
  <2> QED  BY <1>1, <1>3, <2>1, <2>2
<1>10. \A m \in Emitters \ {l} :
          array'[m] = array[m] /\ size'[m] = size[m] /\ modCount'[m] = modCount[m]
  BY <1>1, <1>3
<1>11. /\ Len(array[l]) <= Len(array'[l])
       /\ size'[l] = k + 1 /\ size'[l] <= Len(array'[l])
       /\ array'[l][k + 1] = e
       /\ DOMAIN array'[l] = 1 .. Len(array'[l]) /\ Len(array'[l]) \in Nat
       /\ \A i \in DOMAIN array'[l] : i # k + 1 =>
            i \in DOMAIN array[l] /\ array'[l][i] = array[l][i]
  BY ONLY <1>6, <1>7, <1>8
<1>12. l = ref[e] /\ k = seen[e]
  BY <1>2
<1> HIDE <1>2
<1> QED  BY <1>3, <1>4, <1>8, <1>9, <1>10, <1>11, <1>12

\* Lists that anybody may hold stay public, their arrays do not shrink, and
\* modCount tells whether they are as they were.
LEMMA ListsGrow ==
    ASSUME Shape, [Next]_vars, NEW l, Public(l)
    PROVE  /\ Public(l)'
           /\ Len(array[l]) <= Len(array'[l])
           /\ modCount[l] <= modCount'[l]
           /\ modCount'[l] = modCount[l] => size'[l] = size[l] /\ array'[l] = array[l]
<1>0. /\ l \in Emitters /\ pc'[l] \notin Unsaved \cup {"put"} /\ size[l] >= 1
      /\ Len(array[l]) \in Nat /\ modCount[l] \in Nat /\ size[l] \in Nat
  <2>1. l \in Emitters /\ pc[l] \notin Unsaved \cup {"put"} /\ size[l] >= 1
    BY DEF Public
  <2>2. array[l] \in Seq(Emitters) /\ modCount[l] \in Nat /\ size[l] \in Nat
    BY <2>1 DEF Shape, TypeOK
  <2> QED  BY <2>1, <2>2, EachMoves, LenProperties
<1>1. CASE UNCHANGED lists
  BY <1>0, <1>1 DEF lists, Public
<1>2. ASSUME NEW e \in Emitters, Creates(e) \/ Write(e)
      PROVE  /\ size'[l] >= 1
             /\ Len(array[l]) <= Len(array'[l])
             /\ modCount[l] <= modCount'[l]
             /\ modCount'[l] = modCount[l] => size'[l] = size[l] /\ array'[l] = array[l]
  <2>1. CASE Creates(e)
    <3>1. l # e
      BY <2>1, CreatesAList
    <3> QED  BY <1>0, <2>1, <3>1, CreatesAList
  <2>2. CASE Write(e)
    <3>1. CASE l # ref[e]
      BY <1>0, <2>2, <3>1, WritesAnElement
    <3>2. CASE l = ref[e]
      <4>1. /\ size'[l] = seen[e] + 1 /\ Len(array[l]) <= Len(array'[l])
            /\ modCount'[l] = modCount[l] + 1
        BY <2>2, <3>2, WritesAnElement
      <4>2. seen[e] \in Nat
        BY DEF Shape, TypeOK
      <4> QED  BY <1>0, <4>1, <4>2
    <3> QED  BY <3>1, <3>2
  <2> QED  BY <1>2, <2>1, <2>2
<1>3. CASE \E e \in Emitters : Creates(e) \/ Write(e)
  BY <1>0, <1>2, <1>3 DEF Public
<1> QED  BY <1>1, <1>3, Kinds

\* A loop stays within its array, whatever is done to the list.
LEMMA LoopStays ==
    ASSUME Shape, [Next]_vars, NEW p \in Loops, LoopOK(p)
    PROVE  LoopOK(p)'
<1>1. CASE p = NoLoop
  BY <1>1 DEF LoopOK, NoLoop
<1>2. CASE p # NoLoop
  <2>1. PICK l, n, z, m : l = p.list /\ n = p.next /\ z = p.size /\ m = p.mod
    OBVIOUS
  <2>2. /\ Public(l) /\ 1 <= n /\ n <= z /\ z <= Len(array[l]) /\ m <= modCount[l]
        /\ m = modCount[l] => z = size[l]
        /\ n \in Nat /\ z \in Nat /\ m \in Nat
    BY <1>2, <2>1 DEF LoopOK, Loops
  <2>3. /\ l \in Emitters /\ Len(array[l]) \in Nat /\ modCount[l] \in Nat
    <3>1. l \in Emitters
      BY <2>2 DEF Public
    <3>2. array[l] \in Seq(Emitters) /\ modCount[l] \in Nat
      BY <3>1 DEF Shape, TypeOK
    <3> QED  BY <3>1, <3>2, LenProperties
  <2>4. /\ Public(l)' /\ Len(array[l]) <= Len(array'[l]) /\ modCount[l] <= modCount'[l]
        /\ modCount'[l] = modCount[l] => size'[l] = size[l]
    BY <2>2, ListsGrow
  <2>5. Len(array'[l]) \in Nat /\ modCount'[l] \in Nat
    <3>1. array'[l] \in Seq(Emitters) /\ modCount'[l] \in Nat
      <4>1. /\ array \in [Emitters -> Seq(Emitters)] /\ modCount \in [Emitters -> Nat]
        BY DEF Shape, TypeOK
      <4>2. /\ array' \in [Emitters -> Seq(Emitters)] /\ modCount' \in [Emitters -> Nat]
        BY <4>1, Kinds, CreatesAList, WritesAnElement DEF lists
      <4> QED  BY <2>3, <4>2
    <3> QED  BY <3>1, LenProperties
  <2>6. z <= Len(array'[l]) /\ m <= modCount'[l]
    BY <2>2, <2>3, <2>4, <2>5
  <2>7. m = modCount'[l] => z = size'[l]
    BY <2>2, <2>3, <2>4, <2>5
  <2> QED  BY <2>1, <2>2, <2>4, <2>6, <2>7 DEF LoopOK
<1> QED  BY <1>1, <1>2

\* A loop over a list of the map.
LEMMA LoopOverList ==
    ASSUME Shape, NEW u \in Users, data[u] # NoList
    PROVE  /\ Loop(data[u]) \in Loops /\ LoopOK(Loop(data[u])) /\ Loop(data[u]) # NoLoop
           /\ data[u] \in Emitters /\ Owner[data[u]] = u
<1>1. PICK l : l = data[u]
  OBVIOUS
<1>2. Public(l) /\ l \in Emitters /\ Owner[l] = u /\ size[l] >= 1
  BY <1>1 DEF Shape, DataOK, Public
<1>3. size[l] \in Nat /\ modCount[l] \in Nat /\ size[l] <= Len(array[l])
  BY <1>2 DEF Shape, TypeOK
<1>4. PICK p : p = Loop(l)
  OBVIOUS
<1>5. p.list = l /\ p.next = 1 /\ p.size = size[l] /\ p.mod = modCount[l] /\ p \in Loops
  BY <1>2, <1>3, <1>4 DEF Loop, Loops
<1>6. p # NoLoop
  BY <1>5 DEF NoLoop
<1>7. LoopOK(p)
  BY <1>2, <1>3, <1>5 DEF LoopOK
<1> QED  BY <1>1, <1>2, <1>4, <1>5, <1>6, <1>7

\* The next element of a loop.
LEMMA LoopAdvances ==
    ASSUME Shape, NEW p \in Loops, LoopOK(p), p # NoLoop
    PROVE  /\ Advance(p) \in Loops /\ LoopOK(Advance(p))
           /\ Advance(p) # NoLoop =>
                /\ Advance(p).list = p.list /\ Advance(p).mod = p.mod
                /\ Advance(p).size = p.size /\ Advance(p).next = p.next + 1
           /\ Advance(p) = NoLoop => p.next = p.size
<1>1. NoLoop \in Loops /\ LoopOK(NoLoop)
  BY DEF NoLoop, Loops, LoopOK
<1>2. /\ p.next \in Nat /\ p.size \in Nat /\ 1 <= p.next /\ p.next <= p.size
  BY DEF Loops, LoopOK
<1>3. CASE p.next < p.size
  <2>1. PICK q : q = [p EXCEPT !.next = @ + 1]
    OBVIOUS
  <2>2. /\ q \in Loops /\ q.list = p.list /\ q.mod = p.mod /\ q.size = p.size
        /\ q.next = p.next + 1
    BY <1>2, <2>1 DEF Loops
  <2>3. q.next <= q.size /\ 1 <= q.next
    BY <1>2, <1>3, <2>2
  <2>4. LoopOK(q)
    BY <2>2, <2>3 DEF LoopOK
  <2>5. q # NoLoop
    BY <1>2, <2>2 DEF NoLoop
  <2> QED  BY <1>3, <2>1, <2>2, <2>4, <2>5 DEF Advance
<1>4. CASE ~ (p.next < p.size)
  <2>1. p.next = p.size
    BY <1>2, <1>4
  <2> QED  BY <1>1, <1>4, <2>1 DEF Advance
<1> QED  BY <1>3, <1>4

-----------------------------------------------------------------------------
(* The shape of the state is kept. *)

LEMMA DataMoves ==
    ASSUME [Next]_vars
    PROVE  data' = data \/ (\E e \in Emitters : Put(e)) \/ (\E e \in Emitters : Remove(e))
<1>1. ASSUME NEW e \in Emitters, Count(e) \/ CountFails(e) \/ ConnectStep(e) \/ EndStep(e)
      PROVE  data' = data \/ Put(e) \/ Remove(e)
  BY <1>1 DEF Count, CountFails, ConnectStep, Contains, Get, ReadSize, Write, Return,
     EndStep, TimesOut, Completes, CompleteNext
<1>2. ASSUME NEW s \in Senders, SendStep(s) \/ \E u \in Users : StartSend(s, u)
      PROVE  data' = data
  BY <1>2 DEF SendStep, SendNext, SendThrows, StartSend
<1> QED  BY <1>1, <1>2 DEF Next, vars

LEMMA DataStep ==
    ASSUME Shape, [Next]_vars
    PROVE  DataOK' /\ data' \in [Users -> Emitters \cup {NoList}]
<1>0. data \in [Users -> Emitters \cup {NoList}] /\ \A e \in Emitters : Owner[e] \in Users
  BY ConnectionsAssumption DEF Shape, TypeOK
<1>1. \A u \in Users : data[u] # NoList => Public(data[u]) /\ Owner[data[u]] = u
  BY DEF Shape, DataOK
<1>2. \A l : Public(l) => Public(l)'
  BY ListsGrow
<1>3. CASE data' = data
  BY <1>0, <1>1, <1>2, <1>3 DEF DataOK
<1>4. ASSUME NEW e \in Emitters, Put(e)
      PROVE  DataOK' /\ data' \in [Users -> Emitters \cup {NoList}]
  <2>1. PICK l : l = ref[e]
    OBVIOUS
  <2>2. /\ pc[e] = "put" /\ data' = [data EXCEPT ![Owner[e]] = l] /\ pc' = [pc EXCEPT ![e] = "return"]
        /\ UNCHANGED lists
    BY <1>4, <2>1 DEF Put, Goto
  <2>3. /\ l \in Emitters /\ Owner[l] = Owner[e] /\ l # NoList
        /\ l # e => Public(l)
        /\ l = e => size[e] = 1
    BY <2>1, <2>2 DEF Shape, RefOK, SavesWell
  <2>4. l = e => Public(l)'
    <3>1. pc'[e] = "return"
      BY <2>2 DEF Shape, TypeOK
    <3> QED  BY <2>2, <2>3, <3>1 DEF Public, Unsaved, lists
  <2>5. Public(l)'
    BY <1>2, <2>3, <2>4
  <2>6. \A u \in Users : data'[u] = IF u = Owner[e] THEN l ELSE data[u]
    BY <1>0, <2>2
  <2> QED  BY <1>0, <1>1, <1>2, <2>2, <2>3, <2>5, <2>6 DEF DataOK
<1>5. ASSUME NEW e \in Emitters, Remove(e)
      PROVE  DataOK' /\ data' \in [Users -> Emitters \cup {NoList}]
  <2>1. data' = [data EXCEPT ![Owner[e]] = NoList]
    BY <1>5 DEF Remove
  <2> QED  BY <1>0, <1>1, <1>2, <2>1 DEF DataOK
<1> QED  BY <1>3, <1>4, <1>5, DataMoves

\* A save that stands still is not disturbed.
LEMMA SaveWaits ==
    ASSUME Shape, [Next]_vars, NEW f \in Emitters,
           pc'[f] = pc[f], ref'[f] = ref[f], seen'[f] = seen[f]
    PROVE  SavesWell(f)'
<1>0. SavesWell(f)
  BY DEF Shape, RefOK
<1>1. PICK l, k : l = ref[f] /\ k = seen[f]
  OBVIOUS
<1>2. /\ l # NoList <=> pc[f] \in {"size", "write", "put"}
      /\ l # NoList => l \in Emitters /\ Owner[l] = Owner[f]
      /\ l \notin {NoList, f} => Public(l)'
      /\ pc[f] = "write" => l # f /\ k <= Len(array[l])
  BY <1>0, <1>1, ListsGrow DEF SavesWell
<1>3. pc[f] = "write" => k <= Len(array'[l])
  <2>1. ASSUME pc[f] = "write" PROVE k <= Len(array'[l])
    <3>1. Public(l) /\ l \in Emitters
      BY <1>0, <1>1, <1>2, <2>1 DEF SavesWell
    <3>2. Len(array[l]) <= Len(array'[l])
      BY <3>1, ListsGrow
    <3>3. array[l] \in Seq(Emitters) /\ k \in Nat
      BY <1>1, <3>1 DEF Shape, TypeOK
    <3>4. Len(array'[l]) \in Nat
      <4>1. array' \in [Emitters -> Seq(Emitters)]
        BY Kinds, CreatesAList, WritesAnElement DEF Shape, TypeOK, lists
      <4> QED  BY <3>1, <4>1, LenProperties
    <3> QED  BY <1>2, <2>1, <3>2, <3>3, <3>4, LenProperties
  <2> QED  BY <2>1
<1>4. l = f => array'[f] = array[f] /\ size'[f] = size[f]
  <2>1. ASSUME l = f, NEW e \in Emitters, Creates(e)
        PROVE  array'[f] = array[f] /\ size'[f] = size[f]
    <3>1. ref[f] = f /\ f # NoList
      BY <1>1, <2>1, ConnectionsAssumption
    <3>2. f # e
      <4>1. ref[f] # e
        BY <2>1, CreatesAList
      <4> QED  BY <3>1, <4>1
    <3> QED  BY <2>1, <3>2, CreatesAList
  <2>2. ASSUME l = f, NEW e \in Emitters, Write(e)
        PROVE  array'[f] = array[f] /\ size'[f] = size[f]
    <3>1. pc[f] = "put"
      BY <1>0, <1>1, <2>2 DEF SavesWell
    <3>2. Public(ref[e])
      BY <2>2, WritesAnElement
    <3>3. ref[e] # f
      BY <3>1, <3>2 DEF Public
    <3> QED  BY <2>2, <3>3, WritesAnElement
  <2> QED  BY <2>1, <2>2, Kinds DEF lists
<1>5. l = f => pc[f] = "put" /\ array[f] = <<f>> /\ size[f] = 1
  BY <1>0, <1>1 DEF SavesWell
<1> QED  BY <1>1, <1>2, <1>3, <1>4, <1>5 DEF SavesWell

LEMMA RefStep ==
    ASSUME Shape, [Next]_vars
    PROVE  /\ RefOK'
           /\ ref' \in [Emitters -> Emitters \cup {NoList}] /\ seen' \in [Emitters -> Nat]
<1>0. /\ ref \in [Emitters -> Emitters \cup {NoList}] /\ seen \in [Emitters -> Nat]
      /\ pc \in [Emitters -> Labels] /\ NoList \notin Emitters
      /\ \A e \in Emitters : SavesWell(e) /\ Owner[e] \in Users
      /\ data \in [Users -> Emitters \cup {NoList}]
  BY ConnectionsAssumption DEF Shape, TypeOK, RefOK
<1>1. ASSUME UNCHANGED <<ref, seen>>,
             \A f \in Emitters : pc'[f] = pc[f] \/ (pc[f] \notin {"size", "write", "put"}
                                                    /\ pc'[f] \notin {"size", "write", "put"})
      PROVE  /\ RefOK'
             /\ ref' \in [Emitters -> Emitters \cup {NoList}] /\ seen' \in [Emitters -> Nat]
  <2>1. ASSUME NEW f \in Emitters, pc[f] \notin {"size", "write", "put"},
               pc'[f] \notin {"size", "write", "put"}
        PROVE  SavesWell(f)'
    <3>1. ref[f] = NoList /\ ref'[f] = NoList
      BY <1>0, <1>1, <2>1 DEF SavesWell
    <3> QED  BY <1>0, <2>1, <3>1 DEF SavesWell
  <2> QED  BY <1>0, <1>1, <2>1, SaveWaits DEF RefOK
<1>2. ASSUME NEW e \in Emitters,
             Count(e) \/ CountFails(e) \/ Return(e) \/ EndStep(e)
      PROVE  /\ RefOK'
             /\ ref' \in [Emitters -> Emitters \cup {NoList}] /\ seen' \in [Emitters -> Nat]
  <2>1. UNCHANGED <<ref, seen>>
    BY <1>2 DEF Count, CountFails, Return, EndStep, TimesOut, Completes, Remove, CompleteNext, connect
  <2>2. \/ pc' = pc
        \/ /\ pc[e] \in {"new", "return", "open", "ended", "removing"}
           /\ \E l \in {"over", "contains", "open", "ended", "removing"} : pc' = [pc EXCEPT ![e] = l]
    BY <1>2 DEF Count, CountFails, Return, EndStep, TimesOut, Completes, Remove, CompleteNext,
       End, AfterCallback, Goto
  <2> QED  BY <1>0, <1>1, <2>1, <2>2
<1>3. ASSUME NEW s \in Senders, SendStep(s) \/ \E u \in Users : StartSend(s, u)
      PROVE  /\ RefOK'
             /\ ref' \in [Emitters -> Emitters \cup {NoList}] /\ seen' \in [Emitters -> Nat]
  <2>1. UNCHANGED <<ref, seen>>
    BY <1>3 DEF SendStep, SendNext, SendThrows, StartSend, connect
  <2>2. pc' = pc \/ \E e : pc[e] = "open" /\ pc' = [pc EXCEPT ![e] = "ended"]
    BY <1>3 DEF SendStep, SendNext, SendThrows, StartSend, End, Goto
  <2> QED  BY <1>0, <1>1, <2>1, <2>2
<1>4. ASSUME NEW e \in Emitters, SavesWell(e)',
             \E l \in Emitters \cup {NoList} : ref' = [ref EXCEPT ![e] = l],
             \E k \in Nat : seen' = [seen EXCEPT ![e] = k],
             \E l \in Labels : pc' = [pc EXCEPT ![e] = l]
      PROVE  /\ RefOK'
             /\ ref' \in [Emitters -> Emitters \cup {NoList}] /\ seen' \in [Emitters -> Nat]
  <2>1. \A f \in Emitters \ {e} : pc'[f] = pc[f] /\ ref'[f] = ref[f] /\ seen'[f] = seen[f]
    BY <1>0, <1>4
  <2>2. \A f \in Emitters : SavesWell(f)'
    BY <1>4, <2>1, SaveWaits
  <2> QED  BY <1>0, <1>4, <2>2 DEF RefOK
<1>5. ASSUME NEW e \in Emitters, Creates(e)
      PROVE  /\ RefOK'
             /\ ref' \in [Emitters -> Emitters \cup {NoList}] /\ seen' \in [Emitters -> Nat]
  <2>1. /\ ref' = [ref EXCEPT ![e] = e] /\ pc' = [pc EXCEPT ![e] = "put"]
        /\ array'[e] = <<e>> /\ size'[e] = 1
    BY <1>5, CreatesAList
  <2>2. seen' = [seen EXCEPT ![e] = seen[e]] /\ seen[e] \in Nat
    BY <1>0, <1>5 DEF Creates
  <2>3. ref'[e] = e /\ pc'[e] = "put"
    BY <1>0, <2>1
  <2>4. SavesWell(e)'
    BY <1>0, <2>1, <2>3 DEF SavesWell
  <2> QED  BY <1>4, <2>1, <2>2, <2>4 DEF Labels, Saving
<1>6. ASSUME NEW e \in Emitters, Contains(e) \/ Get(e), ~ Creates(e)
      PROVE  /\ RefOK'
             /\ ref' \in [Emitters -> Emitters \cup {NoList}] /\ seen' \in [Emitters -> Nat]
  <2>1. CASE Contains(e)
    <3>1. UNCHANGED <<ref, seen>> /\ pc[e] = "contains" /\ pc' = [pc EXCEPT ![e] = "get"]
      BY <1>6, <2>1 DEF Contains, Creates, Goto
    <3> QED  BY <1>0, <1>1, <3>1
  <2>2. CASE Get(e)
    <3>1. PICK l : l = data[Owner[e]]
      OBVIOUS
    <3>2. /\ pc[e] = "get" /\ pc' = [pc EXCEPT ![e] = "size"] /\ l # NoList
          /\ ref' = [ref EXCEPT ![e] = l] /\ seen' = seen
      BY <1>6, <2>2, <3>1 DEF Get, Creates, Goto
    <3>3. l \in Emitters /\ Owner[l] = Owner[e] /\ Public(l) /\ Public(l)'
      BY <1>0, <3>1, <3>2, ListsGrow DEF Shape, DataOK, Public
    <3>4. l # e
      BY <3>2, <3>3 DEF Public, Unsaved
    <3>5. pc'[e] = "size" /\ ref'[e] = l
      BY <1>0, <3>2
    <3>6. SavesWell(e)'
      BY <3>2, <3>3, <3>4, <3>5 DEF SavesWell
    <3>7. seen' = [seen EXCEPT ![e] = seen[e]] /\ seen[e] \in Nat
      BY <1>0, <3>2
    <3> QED  BY <1>4, <3>2, <3>3, <3>6, <3>7 DEF Labels, Saving
  <2> QED  BY <1>6, <2>1, <2>2
<1>7. ASSUME NEW e \in Emitters, ReadSize(e)
      PROVE  /\ RefOK'
             /\ ref' \in [Emitters -> Emitters \cup {NoList}] /\ seen' \in [Emitters -> Nat]
  <2>1. PICK l, k : l = ref[e] /\ k = size[l]
    OBVIOUS
  <2>2. /\ pc[e] = "size" /\ pc' = [pc EXCEPT ![e] = "write"]
        /\ ref' = ref /\ seen' = [seen EXCEPT ![e] = k] /\ UNCHANGED lists
    BY <1>7, <2>1 DEF ReadSize, Goto
  <2>3. l # NoList /\ l \in Emitters /\ Owner[l] = Owner[e] /\ l # e /\ Public(l)
    BY <1>0, <2>1, <2>2 DEF SavesWell
  <2>4. Public(l)' /\ k \in Nat /\ k <= Len(array[l])
    BY <2>1, <2>3, ListsGrow DEF Shape, TypeOK
  <2>5. pc'[e] = "write" /\ ref'[e] = l /\ seen'[e] = k /\ array' = array
    BY <1>0, <2>1, <2>2 DEF lists
  <2>6. SavesWell(e)'
    BY <2>3, <2>4, <2>5 DEF SavesWell
  <2>7. ref' = [ref EXCEPT ![e] = ref[e]] /\ ref[e] \in Emitters \cup {NoList}
    BY <1>0, <2>2
  <2> QED  BY <1>4, <2>2, <2>4, <2>6, <2>7 DEF Labels, Saving
<1>8. ASSUME NEW e \in Emitters, Write(e)
      PROVE  /\ RefOK'
             /\ ref' \in [Emitters -> Emitters \cup {NoList}] /\ seen' \in [Emitters -> Nat]
  <2>1. PICK l : l = ref[e]
    OBVIOUS
  <2>2. /\ ref' = ref /\ pc' = [pc EXCEPT ![e] = "put"] /\ seen' = seen
        /\ l \in Emitters /\ l # e /\ Owner[l] = Owner[e] /\ Public(l)
    BY <1>8, <2>1, WritesAnElement DEF Write, connect
  <2>3. pc'[e] = "put" /\ ref'[e] = l /\ Public(l)'
    BY <1>0, <2>1, <2>2, ListsGrow
  <2>4. SavesWell(e)'
    BY <1>0, <2>2, <2>3 DEF SavesWell
  <2>5. /\ ref' = [ref EXCEPT ![e] = ref[e]] /\ ref[e] \in Emitters \cup {NoList}
        /\ seen' = [seen EXCEPT ![e] = seen[e]] /\ seen[e] \in Nat
    BY <1>0, <2>2
  <2> QED  BY <1>4, <2>2, <2>4, <2>5 DEF Labels, Saving
<1>9. ASSUME NEW e \in Emitters, Put(e)
      PROVE  /\ RefOK'
             /\ ref' \in [Emitters -> Emitters \cup {NoList}] /\ seen' \in [Emitters -> Nat]
  <2>1. /\ ref' = [ref EXCEPT ![e] = NoList] /\ seen' = [seen EXCEPT ![e] = 0]
        /\ pc' = [pc EXCEPT ![e] = "return"]
    BY <1>9 DEF Put, Goto
  <2>2. ref'[e] = NoList /\ pc'[e] = "return"
    BY <1>0, <2>1
  <2>3. SavesWell(e)'
    BY <1>0, <2>2 DEF SavesWell
  <2> QED  BY <1>4, <2>1, <2>3 DEF Labels
<1>10. CASE UNCHANGED vars
  BY <1>1, <1>10 DEF vars, connect
<1> QED  BY <1>2, <1>3, <1>5, <1>6, <1>7, <1>8, <1>9, <1>10 DEF Next, ConnectStep

\* A loop is begun over a list of the map, goes on or ends.
LEMMA LoopsStep ==
    ASSUME Shape, [Next]_vars
    PROVE  /\ removal' \in [Emitters -> Loops] /\ sending' \in [Senders -> Loops]
           /\ \A f \in Emitters : LoopOK(removal[f])'
           /\ \A s \in Senders : LoopOK(sending[s])'
<1>0. /\ removal \in [Emitters -> Loops] /\ sending \in [Senders -> Loops]
      /\ \A f \in Emitters : LoopOK(removal[f])
      /\ \A s \in Senders : LoopOK(sending[s])
      /\ \A e \in Emitters : Owner[e] \in Users
      /\ NoLoop \in Loops /\ LoopOK(NoLoop)
  BY ConnectionsAssumption DEF Shape, EndsOK, TypeOK, NoLoop, Loops, LoopOK
<1>1. \A p \in Loops : LoopOK(p) => LoopOK(p)'
  BY LoopStays
<1>2. ASSUME UNCHANGED sending,
             \/ removal' = removal
             \/ \E e \in Emitters : \E p \in Loops : LoopOK(p) /\ removal' = [removal EXCEPT ![e] = p]
      PROVE  /\ removal' \in [Emitters -> Loops] /\ sending' \in [Senders -> Loops]
             /\ \A f \in Emitters : LoopOK(removal[f])'
             /\ \A s \in Senders : LoopOK(sending[s])'
  <2>1. removal' \in [Emitters -> Loops] /\ sending' \in [Senders -> Loops]
    BY <1>0, <1>2
  <2>2. ASSUME NEW f \in Emitters PROVE LoopOK(removal[f])'
    <3>1. PICK q : q = removal'[f]
      OBVIOUS
    <3>2. q \in Loops /\ LoopOK(q)
      BY <1>0, <1>2, <3>1
    <3>3. LoopOK(q)'
      BY <1>1, <3>2
    <3> QED  BY <3>1, <3>3 DEF LoopOK
  <2>3. ASSUME NEW s \in Senders PROVE LoopOK(sending[s])'
    <3>1. PICK q : q = sending[s]
      OBVIOUS
    <3>2. LoopOK(q)' /\ sending'[s] = q
      BY <1>0, <1>1, <1>2, <3>1
    <3> QED  BY <3>2 DEF LoopOK
  <2> QED  BY <2>1, <2>2, <2>3
<1>3. ASSUME UNCHANGED removal,
             NEW s \in Senders, NEW p \in Loops, LoopOK(p), sending' = [sending EXCEPT ![s] = p]
      PROVE  /\ removal' \in [Emitters -> Loops] /\ sending' \in [Senders -> Loops]
             /\ \A f \in Emitters : LoopOK(removal[f])'
             /\ \A r \in Senders : LoopOK(sending[r])'
  <2>1. removal' \in [Emitters -> Loops] /\ sending' \in [Senders -> Loops]
    BY <1>0, <1>3
  <2>2. ASSUME NEW f \in Emitters PROVE LoopOK(removal[f])'
    <3>1. PICK q : q = removal[f]
      OBVIOUS
    <3>2. LoopOK(q)' /\ removal'[f] = q
      BY <1>0, <1>1, <1>3, <3>1
    <3> QED  BY <3>2 DEF LoopOK
  <2>3. ASSUME NEW r \in Senders PROVE LoopOK(sending[r])'
    <3>1. PICK q : q = sending'[r]
      OBVIOUS
    <3>2. q \in Loops /\ LoopOK(q)
      BY <1>0, <1>3, <3>1
    <3>3. LoopOK(q)'
      BY <1>1, <3>2
    <3> QED  BY <3>1, <3>3 DEF LoopOK
  <2> QED  BY <2>1, <2>2, <2>3
<1>4. ASSUME NEW e \in Emitters, Count(e) \/ CountFails(e) \/ ConnectStep(e) \/ TimesOut(e) \/ Completes(e)
      PROVE  UNCHANGED <<removal, sending>>
  BY <1>4 DEF Count, CountFails, ConnectStep, Contains, Get, ReadSize, Write, Put, Return,
     TimesOut, Completes, ends, tasks
<1>5. ASSUME NEW e \in Emitters, Remove(e)
      PROVE  \/ removal' = removal
             \/ \E p \in Loops : LoopOK(p) /\ removal' = [removal EXCEPT ![e] = p]
  <2>1. \/ removal' = removal
        \/ data[Owner[e]] # NoList /\ removal' = [removal EXCEPT ![e] = Loop(data[Owner[e]])]
    BY <1>5 DEF Remove
  <2> QED  BY <1>0, <2>1, LoopOverList
<1>6. ASSUME NEW e \in Emitters, CompleteNext(e)
      PROVE  \E p \in Loops : LoopOK(p) /\ removal' = [removal EXCEPT ![e] = p]
  <2>1. /\ \E p \in {NoLoop, Advance(removal[e])} : removal' = [removal EXCEPT ![e] = p]
        /\ pc[e] = "removing"
    BY <1>6 DEF CompleteNext
  <2>2. removal[e] # NoLoop
    BY <2>1 DEF Shape, EndsOK
  <2> QED  BY <1>0, <2>1, <2>2, LoopAdvances
<1>7. ASSUME NEW s \in Senders, SendStep(s)
      PROVE  \E p \in Loops : LoopOK(p) /\ sending' = [sending EXCEPT ![s] = p]
  <2>1. /\ \E p \in {NoLoop, Advance(sending[s])} : sending' = [sending EXCEPT ![s] = p]
        /\ sending[s] # NoLoop
    BY <1>7 DEF SendStep, SendNext, SendThrows
  <2> QED  BY <1>0, <2>1, LoopAdvances
<1>8. ASSUME NEW s \in Senders, NEW u \in Users, StartSend(s, u)
      PROVE  \E p \in Loops : LoopOK(p) /\ sending' = [sending EXCEPT ![s] = p]
  <2>1. data[u] # NoList /\ sending' = [sending EXCEPT ![s] = Loop(data[u])]
    BY <1>8 DEF StartSend
  <2> QED  BY <2>1, LoopOverList
<1>9. ASSUME NEW e \in Emitters, Remove(e) \/ CompleteNext(e)
      PROVE  UNCHANGED sending
  BY <1>9 DEF Remove, CompleteNext, tasks
<1>10. ASSUME NEW s \in Senders, SendStep(s) \/ \E u \in Users : StartSend(s, u)
       PROVE  UNCHANGED removal
  BY <1>10 DEF SendStep, SendNext, SendThrows, StartSend, ends
<1>11. CASE UNCHANGED vars
  BY <1>2, <1>11 DEF vars, ends, tasks
<1>12. CASE \E e \in Emitters : Count(e) \/ CountFails(e) \/ ConnectStep(e) \/ EndStep(e)
  BY <1>2, <1>4, <1>5, <1>6, <1>9, <1>12 DEF EndStep
<1>13. CASE \E s \in Senders : SendStep(s) \/ \E u \in Users : StartSend(s, u)
  BY <1>3, <1>7, <1>8, <1>10, <1>13
<1> QED  BY <1>11, <1>12, <1>13 DEF Next

\* An ended connection has a callback left, and loops while it removes.
LEMMA CallbacksStep ==
    ASSUME Shape, [Next]_vars
    PROVE  /\ callbacks' \in [Emitters -> 0 .. 2]
           /\ \A f \in Emitters : removal'[f] # NoLoop <=> pc'[f] = "removing"
           /\ \A f \in Emitters : pc'[f] = "ended" => callbacks'[f] >= 1
<1>0. /\ pc \in [Emitters -> Labels] /\ callbacks \in [Emitters -> 0 .. 2]
      /\ removal \in [Emitters -> Loops] /\ pc' \in [Emitters -> Labels]
      /\ \A f \in Emitters : removal[f] # NoLoop <=> pc[f] = "removing"
      /\ \A f \in Emitters : pc[f] = "ended" => callbacks[f] >= 1
      /\ \A f \in Emitters : Moves(pc[f], pc'[f])
  BY EachMoves DEF Shape, EndsOK, TypeOK
<1>1. ASSUME UNCHANGED <<callbacks, removal>>,
             \A f \in Emitters : pc'[f] = pc[f] \/ pc[f] \notin {"open", "ended", "removing"}
      PROVE  /\ callbacks' \in [Emitters -> 0 .. 2]
             /\ \A f \in Emitters : removal'[f] # NoLoop <=> pc'[f] = "removing"
             /\ \A f \in Emitters : pc'[f] = "ended" => callbacks'[f] >= 1
  <2>1. \A f \in Emitters : pc'[f] # pc[f] =>
           pc[f] # "removing" /\ pc'[f] \notin {"removing", "ended"}
    BY <1>0, <1>1 DEF Moves
  <2> QED  BY <1>0, <1>1, <2>1
<1>2. ASSUME NEW e \in Emitters, NEW n \in 1 .. 2, End(e, n), UNCHANGED removal
      PROVE  /\ callbacks' \in [Emitters -> 0 .. 2]
             /\ \A f \in Emitters : removal'[f] # NoLoop <=> pc'[f] = "removing"
             /\ \A f \in Emitters : pc'[f] = "ended" => callbacks'[f] >= 1
  <2>1. /\ pc[e] = "open" /\ pc' = [pc EXCEPT ![e] = "ended"]
        /\ callbacks' = [callbacks EXCEPT ![e] = n] /\ n >= 1 /\ n \in 0 .. 2
    BY <1>2 DEF End, Goto
  <2> QED  BY <1>0, <1>2, <2>1
<1>3. ASSUME NEW e \in Emitters, Count(e) \/ CountFails(e) \/ ConnectStep(e)
      PROVE  /\ UNCHANGED <<callbacks, removal>>
             /\ \A f \in Emitters : pc'[f] = pc[f] \/ pc[f] \notin {"open", "ended", "removing"}
  <2>1. UNCHANGED <<callbacks, removal>>
    BY <1>3 DEF Count, CountFails, ConnectStep, Contains, Get, ReadSize, Write, Put, Return, ends
  <2>2. /\ pc[e] \notin {"open", "ended", "removing"}
        /\ \E l : pc' = [pc EXCEPT ![e] = l]
    BY <1>3 DEF Count, CountFails, ConnectStep, Contains, Create, Get, ReadSize, Write, Put, Return,
       Goto
  <2> QED  BY <1>0, <2>1, <2>2
<1>4. ASSUME NEW e \in Emitters, NEW n \in 0 .. 1, NEW q, q # NoLoop,
             callbacks' = [callbacks EXCEPT ![e] = n],
             \/ AfterCallback(e, n) /\ removal[e] = NoLoop /\ removal' = removal
             \/ pc' = [pc EXCEPT ![e] = "removing"] /\ removal' = [removal EXCEPT ![e] = q]
      PROVE  /\ callbacks' \in [Emitters -> 0 .. 2]
             /\ \A f \in Emitters : removal'[f] # NoLoop <=> pc'[f] = "removing"
             /\ \A f \in Emitters : pc'[f] = "ended" => callbacks'[f] >= 1
  <2>1. callbacks' \in [Emitters -> 0 .. 2]
    BY <1>0, <1>4
  <2>2. \A f \in Emitters \ {e} : pc'[f] = pc[f] /\ removal'[f] = removal[f] /\ callbacks'[f] = callbacks[f]
    BY <1>0, <1>4 DEF AfterCallback, Goto
  <2>3. /\ removal'[e] # NoLoop <=> pc'[e] = "removing"
        /\ pc'[e] = "ended" => n # 0
    BY <1>0, <1>4 DEF AfterCallback, Goto
  <2>4. callbacks'[e] = n /\ (n # 0 => n >= 1)
    BY <1>0, <1>4
  <2> QED  BY <1>0, <2>1, <2>2, <2>3, <2>4
<1>5. ASSUME NEW e \in Emitters, Remove(e)
      PROVE  /\ callbacks' \in [Emitters -> 0 .. 2]
             /\ \A f \in Emitters : removal'[f] # NoLoop <=> pc'[f] = "removing"
             /\ \A f \in Emitters : pc'[f] = "ended" => callbacks'[f] >= 1
  <2>1. PICK n, q, u : n = callbacks[e] - 1 /\ q = Loop(data[u]) /\ u = Owner[e]
    OBVIOUS
  <2>2. pc[e] = "ended" /\ n \in 0 .. 1 /\ removal[e] = NoLoop
    BY <1>0, <1>5, <2>1 DEF Remove
  <2>3. /\ callbacks' = [callbacks EXCEPT ![e] = n]
        /\ \/ AfterCallback(e, n) /\ removal' = removal
           \/ data[u] # NoList /\ pc' = [pc EXCEPT ![e] = "removing"] /\ removal' = [removal EXCEPT ![e] = q]
    BY <1>5, <2>1 DEF Remove, Goto
  <2>4. data[u] # NoList => q # NoLoop
    BY <2>1, LoopOverList, ConnectionsAssumption
  <2>5. \E p : p # NoLoop
    BY DEF NoLoop
  <2> QED  BY <1>4, <2>2, <2>3, <2>4, <2>5
<1>6. ASSUME NEW e \in Emitters, CompleteNext(e)
      PROVE  /\ callbacks' \in [Emitters -> 0 .. 2]
             /\ \A f \in Emitters : removal'[f] # NoLoop <=> pc'[f] = "removing"
             /\ \A f \in Emitters : pc'[f] = "ended" => callbacks'[f] >= 1
  <2>1. /\ pc[e] = "removing" /\ callbacks' = callbacks
        /\ \E p : removal' = [removal EXCEPT ![e] = p]
        /\ IF removal'[e] = NoLoop THEN AfterCallback(e, callbacks[e]) ELSE pc' = pc
    BY <1>6 DEF CompleteNext
  <2>2. \A f \in Emitters \ {e} : pc'[f] = pc[f] /\ removal'[f] = removal[f]
    BY <1>0, <2>1 DEF AfterCallback, Goto
  <2>3. /\ removal'[e] # NoLoop <=> pc'[e] = "removing"
        /\ pc'[e] = "ended" => callbacks[e] # 0
    BY <1>0, <2>1 DEF AfterCallback, Goto
  <2>4. callbacks[e] # 0 => callbacks[e] >= 1
    BY <1>0
  <2> QED  BY <1>0, <2>1, <2>2, <2>3, <2>4
<1>7. ASSUME NEW e \in Emitters, TimesOut(e) \/ Completes(e)
      PROVE  UNCHANGED removal /\ (End(e, 1) \/ End(e, 2))
  BY <1>7 DEF TimesOut, Completes
<1>8. ASSUME NEW s \in Senders, SendNext(s)
      PROVE  /\ callbacks' \in [Emitters -> 0 .. 2]
             /\ \A f \in Emitters : removal'[f] # NoLoop <=> pc'[f] = "removing"
             /\ \A f \in Emitters : pc'[f] = "ended" => callbacks'[f] >= 1
  <2>1. /\ UNCHANGED removal
        /\ UNCHANGED <<pc, callbacks>> \/ End(Element(sending[s]), 2)
    BY <1>8 DEF SendNext
  <2>2. Element(sending[s]) \in Emitters
    <3>1. sending[s] \in Loops /\ LoopOK(sending[s]) /\ sending[s] # NoLoop
      BY <1>8 DEF SendNext, Shape, EndsOK, TypeOK
    <3> QED  BY <3>1, OnElement DEF Shape
  <2> QED  BY <1>1, <1>2, <2>1, <2>2
<1>9. ASSUME NEW s \in Senders, SendThrows(s) \/ \E u \in Users : StartSend(s, u)
      PROVE  UNCHANGED <<callbacks, removal, pc>>
  BY <1>9 DEF SendThrows, StartSend, ends
<1>10. CASE UNCHANGED vars
  BY <1>1, <1>10 DEF vars, ends
<1>11. 1 \in 1 .. 2 /\ 2 \in 1 .. 2
  OBVIOUS
<1>12. CASE \E e \in Emitters : Count(e) \/ CountFails(e) \/ ConnectStep(e) \/ EndStep(e)
  BY <1>1, <1>2, <1>3, <1>5, <1>6, <1>7, <1>11, <1>12 DEF EndStep
<1>13. CASE \E s \in Senders : SendStep(s) \/ \E u \in Users : StartSend(s, u)
  BY <1>1, <1>8, <1>9, <1>13 DEF SendStep
<1> QED  BY <1>10, <1>12, <1>13 DEF Next

\* What arrays hold.
LEMMA ArraysStep ==
    ASSUME Shape, [Next]_vars
    PROVE  /\ ArraysOK'
           /\ array' \in [Emitters -> Seq(Emitters)] /\ size' \in [Emitters -> Nat]
           /\ modCount' \in [Emitters -> Nat]
           /\ \A l \in Emitters : size'[l] <= Len(array'[l])
<1>0. /\ array \in [Emitters -> Seq(Emitters)] /\ size \in [Emitters -> Nat]
      /\ modCount \in [Emitters -> Nat] /\ pc \in [Emitters -> Labels]
      /\ \A l \in Emitters : size[l] <= Len(array[l])
      /\ \A l \in Emitters : \A i \in DOMAIN array[l] :
           array[l][i] \in Emitters /\ Owner[array[l][i]] = Owner[l] /\ pc[array[l][i]] \notin Unsaved
  <2>1. /\ array \in [Emitters -> Seq(Emitters)] /\ size \in [Emitters -> Nat]
        /\ modCount \in [Emitters -> Nat] /\ pc \in [Emitters -> Labels]
        /\ \A l \in Emitters : size[l] <= Len(array[l])
    BY DEF Shape, TypeOK
  <2>2. ASSUME NEW l \in Emitters, NEW i \in DOMAIN array[l]
        PROVE  array[l][i] \in Emitters
    BY <2>1, <2>2, LenProperties, ElementOfSeq
  <2> QED  BY <2>1, <2>2 DEF Shape, ArraysOK
<1>1. \A f \in Emitters : pc[f] \notin Unsaved => pc'[f] \notin Unsaved
  BY EachMoves
<1>2. CASE UNCHANGED lists
  BY <1>0, <1>1, <1>2 DEF lists, ArraysOK
<1>3. ASSUME NEW l \in Emitters, array'[l] = array[l], NEW i \in DOMAIN array'[l]
      PROVE  Owner[array'[l][i]] = Owner[l] /\ pc'[array'[l][i]] \notin Unsaved
  BY <1>0, <1>1, <1>3
<1>4. ASSUME NEW e \in Emitters, Creates(e)
      PROVE  /\ ArraysOK'
             /\ array' \in [Emitters -> Seq(Emitters)] /\ size' \in [Emitters -> Nat]
             /\ modCount' \in [Emitters -> Nat]
             /\ \A l \in Emitters : size'[l] <= Len(array'[l])
  <2>1. /\ array' \in [Emitters -> Seq(Emitters)] /\ size' \in [Emitters -> Nat]
        /\ modCount' \in [Emitters -> Nat]
        /\ array'[e] = <<e>> /\ size'[e] = 1 /\ pc' = [pc EXCEPT ![e] = "put"]
        /\ \A l \in Emitters \ {e} : array'[l] = array[l] /\ size'[l] = size[l]
    BY <1>4, CreatesAList
  <2>2. pc'[e] = "put" /\ Len(<<e>>) = 1 /\ DOMAIN <<e>> = {1} /\ <<e>>[1] = e
    BY <1>0, <2>1
  <2>3. \A i \in DOMAIN array'[e] : Owner[array'[e][i]] = Owner[e] /\ pc'[array'[e][i]] \notin Unsaved
    BY <2>1, <2>2 DEF Unsaved
  <2>4. \A l \in Emitters : size'[l] <= Len(array'[l])
    <3>1. size'[e] <= Len(array'[e])
      <4>1. Len(array'[e]) = 1
        BY <2>1, <2>2
      <4> QED  BY <2>1, <4>1
    <3>2. ASSUME NEW l \in Emitters \ {e} PROVE size'[l] <= Len(array'[l])
      BY <1>0, <2>1, <3>2
    <3> QED  BY <3>1, <3>2
  <2> QED  BY <1>3, <2>1, <2>3, <2>4 DEF ArraysOK
<1>5. ASSUME NEW e \in Emitters, Write(e)
      PROVE  /\ ArraysOK'
             /\ array' \in [Emitters -> Seq(Emitters)] /\ size' \in [Emitters -> Nat]
             /\ modCount' \in [Emitters -> Nat]
             /\ \A l \in Emitters : size'[l] <= Len(array'[l])
  <2>1. PICK l, k : l = ref[e] /\ k = seen[e]
    OBVIOUS
  <2>2. /\ array' \in [Emitters -> Seq(Emitters)] /\ size' \in [Emitters -> Nat]
        /\ modCount' \in [Emitters -> Nat]
        /\ l \in Emitters /\ Owner[l] = Owner[e] /\ pc' = [pc EXCEPT ![e] = "put"]
        /\ size'[l] <= Len(array'[l]) /\ array'[l][k + 1] = e
        /\ \A m \in Emitters \ {l} : array'[m] = array[m] /\ size'[m] = size[m]
    BY <1>5, <2>1, WritesAnElement
  <2>3. \A i \in DOMAIN array'[l] : i # k + 1 => i \in DOMAIN array[l] /\ array'[l][i] = array[l][i]
    <3>1. \A i \in DOMAIN array'[ref[e]] : i # seen[e] + 1 =>
              i \in DOMAIN array[ref[e]] /\ array'[ref[e]][i] = array[ref[e]][i]
      <4> HIDE <2>1
      <4> QED  BY <1>5, WritesAnElement, Zenon
    <3> QED  BY ONLY <2>1, <3>1
  <2>4. pc'[e] \notin Unsaved
    BY <1>0, <2>2 DEF Unsaved
  <2>5. \A i \in DOMAIN array'[l] : Owner[array'[l][i]] = Owner[l] /\ pc'[array'[l][i]] \notin Unsaved
    <3>1. ASSUME NEW i \in DOMAIN array'[l]
          PROVE  Owner[array'[l][i]] = Owner[l] /\ pc'[array'[l][i]] \notin Unsaved
      <4>1. CASE i = k + 1
        BY <2>2, <2>4, <4>1
      <4>2. CASE i # k + 1
        <5>1. i \in DOMAIN array[l] /\ array'[l][i] = array[l][i]
          BY <2>3, <4>2
        <5>2. array[l][i] \in Emitters /\ Owner[array[l][i]] = Owner[l] /\ pc[array[l][i]] \notin Unsaved
          BY <1>0, <2>2, <5>1
        <5> QED  BY <1>1, <5>1, <5>2
      <4> QED  BY <4>1, <4>2
    <3> QED  BY <3>1
  <2>6. \A m \in Emitters : size'[m] <= Len(array'[m])
    BY <1>0, <2>2
  <2> QED  BY <1>3, <2>2, <2>5, <2>6 DEF ArraysOK
<1> QED  BY <1>2, <1>4, <1>5, Kinds

\* The remaining variables, and the shape as a whole.
LEMMA ShapeStep ==
    ASSUME Shape, [Next]_vars
    PROVE  Shape'
<1>0. /\ completed \subseteq Emitters /\ raced \subseteq Users /\ revived \subseteq Users
      /\ stillborn \subseteq Emitters /\ sends \in 0 .. MaxSends /\ MaxSends \in Nat
      /\ \A e \in Emitters : Owner[e] \in Users
      /\ removal \in [Emitters -> Loops]
  BY ConnectionsAssumption DEF Shape, TypeOK
<1>1. ASSUME NEW e \in Emitters, Count(e) \/ CountFails(e) \/ ConnectStep(e) \/ TimesOut(e) \/ Completes(e)
      PROVE  /\ completed' \subseteq Emitters /\ raced' \subseteq Users /\ revived' \subseteq Users
             /\ stillborn' \subseteq Emitters /\ sends' \in 0 .. MaxSends
  BY <1>0, <1>1 DEF Count, CountFails, ConnectStep, Contains, Get, ReadSize, Write, Put, Return,
     TimesOut, Completes, tasks, history
<1>2. ASSUME NEW S \in SUBSET Emitters, Complete(S), UNCHANGED sends
      PROVE  /\ completed' \subseteq Emitters /\ raced' \subseteq Users /\ revived' \subseteq Users
             /\ stillborn' \subseteq Emitters /\ sends' \in 0 .. MaxSends
  BY <1>0, <1>2 DEF Complete
<1>3. ASSUME NEW e \in Emitters, Remove(e)
      PROVE  Complete({e}) /\ UNCHANGED sends
  BY <1>3 DEF Remove, tasks
<1>4. ASSUME NEW e \in Emitters, CompleteNext(e)
      PROVE  /\ completed' \subseteq Emitters /\ raced' \subseteq Users /\ revived' \subseteq Users
             /\ stillborn' \subseteq Emitters /\ sends' \in 0 .. MaxSends
  <2>1. /\ UNCHANGED sends
        /\ Complete({Element(removal[e])}) \/ UNCHANGED <<completed, history>>
    BY <1>4 DEF CompleteNext, tasks
  <2>2. Element(removal[e]) \in Emitters
    <3>1. removal[e] \in Loops /\ LoopOK(removal[e]) /\ removal[e] # NoLoop
      BY <1>0, <1>4 DEF CompleteNext, Shape, EndsOK
    <3> QED  BY <3>1, OnElement DEF Shape
  <2> QED  BY <1>0, <1>2, <2>1, <2>2 DEF history
<1>5. ASSUME NEW s \in Senders, SendStep(s) \/ \E u \in Users : StartSend(s, u)
      PROVE  /\ completed' \subseteq Emitters /\ raced' \subseteq Users /\ revived' \subseteq Users
             /\ stillborn' \subseteq Emitters /\ sends' \in 0 .. MaxSends
  BY <1>0, <1>5 DEF SendStep, SendNext, SendThrows, StartSend, history
<1>6. /\ completed' \subseteq Emitters /\ raced' \subseteq Users /\ revived' \subseteq Users
      /\ stillborn' \subseteq Emitters /\ sends' \in 0 .. MaxSends
  <2>1. CASE UNCHANGED vars
    BY <1>0, <2>1 DEF vars, tasks, history
  <2>2. CASE Next
    BY <1>1, <1>2, <1>3, <1>4, <1>5, <2>2 DEF Next, EndStep
  <2> QED  BY <2>1, <2>2
<1>7. /\ DataOK' /\ RefOK' /\ ArraysOK' /\ EndsOK'
  BY DataStep, RefStep, ArraysStep, LoopsStep, CallbacksStep DEF EndsOK
<1>8. /\ data' \in [Users -> Emitters \cup {NoList}] /\ pc' \in [Emitters -> Labels]
      /\ ref' \in [Emitters -> Emitters \cup {NoList}] /\ seen' \in [Emitters -> Nat]
      /\ removal' \in [Emitters -> Loops] /\ sending' \in [Senders -> Loops]
      /\ callbacks' \in [Emitters -> 0 .. 2]
  BY DataStep, EachMoves, RefStep, LoopsStep, CallbacksStep
<1>9. TypeOK'
  BY <1>6, <1>8, ArraysStep DEF TypeOK
<1> QED  BY <1>7, <1>9 DEF Shape

-----------------------------------------------------------------------------
(* What the histories say is kept. *)

LEMMA WhoMoves ==
    ASSUME Shape, [Next]_vars, NEW e \in Emitters, pc'[e] # pc[e]
    PROVE  /\ \/ Count(e) \/ CountFails(e) \/ ConnectStep(e) \/ EndStep(e)
              \/ pc[e] = "open" /\ pc'[e] = "ended"
           /\ \A f \in Emitters \ {e} : pc'[f] = pc[f]
<1>0. pc \in [Emitters -> Labels]
  BY DEF Shape, TypeOK
<1>1. Next
  BY DEF vars
<1>2. PICK x \in Emitters, l \in Labels : pc' = [pc EXCEPT ![x] = l]
  BY <1>1, OneMoves
<1>3. x = e /\ \A f \in Emitters \ {e} : pc'[f] = pc[f]
  BY <1>0, <1>2
<1>4. ASSUME NEW f \in Emitters, Count(f) \/ CountFails(f) \/ ConnectStep(f) \/ EndStep(f)
      PROVE  f = e
  <2>1. pc' = pc \/ \E k : pc' = [pc EXCEPT ![f] = k]
    BY <1>4 DEF Count, CountFails, ConnectStep, Contains, Create, Get, ReadSize, Write, Put, Return,
       EndStep, TimesOut, Completes, End, Remove, CompleteNext, AfterCallback, Goto
  <2> QED  BY <1>0, <2>1
<1>5. ASSUME NEW s \in Senders, SendStep(s) \/ \E u \in Users : StartSend(s, u)
      PROVE  pc[e] = "open" /\ pc'[e] = "ended"
  <2>1. pc' = pc \/ \E f : pc[f] = "open" /\ pc' = [pc EXCEPT ![f] = "ended"]
    BY <1>5 DEF SendStep, SendNext, SendThrows, StartSend, End, Goto
  <2> QED  BY <1>0, <2>1
<1> QED  BY <1>1, <1>3, <1>4, <1>5 DEF Next

LEMMA HistoryGrows ==
    ASSUME [Next]_vars
    PROVE  /\ raced \subseteq raced' /\ revived \subseteq revived'
           /\ stillborn \subseteq stillborn' /\ completed \subseteq completed'
<1>1. ASSUME NEW e \in Emitters, Count(e) \/ CountFails(e) \/ ConnectStep(e) \/ EndStep(e)
      PROVE  /\ raced \subseteq raced' /\ revived \subseteq revived'
             /\ stillborn \subseteq stillborn' /\ completed \subseteq completed'
  <2>1. CASE Count(e) \/ CountFails(e) \/ ConnectStep(e)
    BY <2>1 DEF Count, CountFails, ConnectStep, Contains, Get, ReadSize, Write, Put, Return, history
  <2>2. CASE EndStep(e)
    BY <2>2 DEF EndStep, TimesOut, Completes, Remove, CompleteNext, Complete, history
  <2> QED  BY <1>1, <2>1, <2>2
<1>2. ASSUME NEW s \in Senders, SendStep(s) \/ \E u \in Users : StartSend(s, u)
      PROVE  UNCHANGED <<completed, history>>
  BY <1>2 DEF SendStep, SendNext, SendThrows, StartSend
<1> QED  BY <1>1, <1>2 DEF Next, vars, history

\* Who is completed.
LEMMA Completed ==
    ASSUME Shape, [Next]_vars
    PROVE  \/ completed' = completed
           \/ \E x \in Emitters : /\ pc[x] \notin Unsaved /\ completed' = completed \cup {x}
                                  /\ x \in Connecting => x \in stillborn'
<1>1. ASSUME NEW e \in Emitters, Count(e) \/ CountFails(e) \/ ConnectStep(e) \/ TimesOut(e) \/ Completes(e)
      PROVE  completed' = completed
  BY <1>1 DEF Count, CountFails, ConnectStep, Contains, Get, ReadSize, Write, Put, Return,
     TimesOut, Completes
<1>2. ASSUME NEW e \in Emitters, Remove(e)
      PROVE  /\ pc[e] \notin Unsaved /\ completed' = completed \cup {e}
             /\ e \in Connecting => e \in stillborn'
  BY <1>2 DEF Remove, Complete, Unsaved
<1>3. ASSUME NEW e \in Emitters, CompleteNext(e)
      PROVE  \/ completed' = completed
             \/ \E x \in Emitters : /\ pc[x] \notin Unsaved /\ completed' = completed \cup {x}
                                    /\ x \in Connecting => x \in stillborn'
  <2>1. PICK p, x : p = removal[e] /\ x = Element(p)
    OBVIOUS
  <2>2. p \in Loops /\ LoopOK(p) /\ p # NoLoop
    BY <1>3, <2>1 DEF CompleteNext, Shape, EndsOK, TypeOK
  <2>3. x \in Emitters /\ p.list \in Emitters /\ p.next \in DOMAIN array[p.list] /\ x = array[p.list][p.next]
    BY <2>1, <2>2, OnElement DEF Shape, Element
  <2>4. pc[x] \notin Unsaved
    BY <2>3 DEF Shape, ArraysOK
  <2>5. completed' = completed \/ Complete({x})
    BY <1>3, <2>1 DEF CompleteNext
  <2> QED  BY <2>3, <2>4, <2>5 DEF Complete
<1>4. ASSUME NEW s \in Senders, SendStep(s) \/ \E u \in Users : StartSend(s, u)
      PROVE  completed' = completed
  BY <1>4 DEF SendStep, SendNext, SendThrows, StartSend
<1> QED  BY <1>1, <1>2, <1>3, <1>4 DEF Next, EndStep, vars

LEMMA StillbornStep ==
    ASSUME Shape, StillbornOK, [Next]_vars
    PROVE  StillbornOK'
<1>0. /\ \A f \in Emitters : pc[f] \notin Unsaved => pc'[f] \notin Unsaved
      /\ \A f \in Emitters : Moves(pc[f], pc'[f])
      /\ completed \subseteq Emitters
      /\ stillborn \subseteq stillborn'
  BY EachMoves, HistoryGrows DEF Shape, TypeOK
<1>1. \A f \in Emitters : pc[f] \notin Unsaved /\ f \in Connecting' => f \in Connecting
  BY <1>0 DEF Connecting, Moves, Saving, Unsaved
<1> QED  BY <1>0, <1>1, Completed DEF StillbornOK

LEMMA OneSaverStep ==
    ASSUME Shape, OneSaver, [Next]_vars
    PROVE  OneSaver'
<1>0. /\ \A f \in Emitters : Moves(pc[f], pc'[f])
      /\ raced \subseteq raced'
  BY EachMoves, HistoryGrows
<1>1. ASSUME NEW e \in Emitters, NEW f \in Emitters, e # f, Owner[e] = Owner[f],
             pc'[e] \in Saving, pc'[f] \in Saving, pc'[e] # pc[e]
      PROVE  Owner[e] \in raced'
  <2>1. pc'[f] = pc[f]
    BY <1>1, WhoMoves
  <2>2. CASE pc[e] \in Saving
    BY <1>0, <1>1, <2>1, <2>2 DEF OneSaver
  <2>3. CASE pc[e] \notin Saving
    <3>1. pc[e] = "contains"
      BY <1>0, <1>1, <2>3 DEF Moves, Saving
    <3>2. Contains(e)
      <4>1. Count(e) \/ CountFails(e) \/ ConnectStep(e) \/ EndStep(e)
        BY <1>1, <3>1, WhoMoves
      <4> QED  BY <3>1, <4>1 DEF Count, CountFails, ConnectStep, EndStep, Get, ReadSize, Write, Put, Return,
                  TimesOut, Completes, End, Remove, CompleteNext
    <3> QED  BY <1>1, <2>1, <3>2 DEF Contains
  <2> QED  BY <2>2, <2>3
<1>2. ASSUME NEW e \in Emitters, NEW f \in Emitters, e # f, Owner[e] = Owner[f],
             pc'[e] \in Saving, pc'[f] \in Saving
      PROVE  Owner[e] \in raced'
  <2>1. CASE pc'[e] # pc[e]
    BY <1>1, <1>2, <2>1
  <2>2. CASE pc'[f] # pc[f]
    BY <1>1, <1>2, <2>2
  <2>3. CASE pc'[e] = pc[e] /\ pc'[f] = pc[f]
    BY <1>0, <1>2, <2>3 DEF OneSaver
  <2> QED  BY <2>1, <2>2, <2>3
<1> QED  BY <1>2 DEF OneSaver

\* A save that no other disturbs keeps its list to itself.
LEMMA ListUndisturbed ==
    ASSUME Shape, OneSaver, [Next]_vars, NEW e \in Emitters,
           Owner[e] \notin raced, ref[e] # NoList, ~ Write(e)
    PROVE  /\ ref[e] \in Emitters
           /\ array'[ref[e]] = array[ref[e]] /\ size'[ref[e]] = size[ref[e]]
<1>0. ref[e] \in Emitters /\ Owner[ref[e]] = Owner[e] /\ pc[e] \in Saving
  BY DEF Shape, RefOK, SavesWell, Saving
<1>1. ASSUME NEW f \in Emitters, Creates(f)
      PROVE  array'[ref[e]] = array[ref[e]] /\ size'[ref[e]] = size[ref[e]]
  <2>1. ref[e] # f
    BY <1>1, CreatesAList
  <2> QED  BY <1>0, <1>1, <2>1, CreatesAList
<1>2. ASSUME NEW f \in Emitters, Write(f)
      PROVE  array'[ref[e]] = array[ref[e]] /\ size'[ref[e]] = size[ref[e]]
  <2>1. f # e
    BY <1>2
  <2>2. pc[f] \in Saving /\ Owner[ref[f]] = Owner[f]
    BY <1>2, WritesAnElement DEF Saving
  <2>3. Owner[f] # Owner[e]
    BY <1>0, <2>1, <2>2 DEF OneSaver
  <2>4. ref[e] \in Emitters \ {ref[f]}
    BY <1>0, <2>2, <2>3
  <2>5. \A l \in Emitters \ {ref[f]} : array'[l] = array[l] /\ size'[l] = size[l]
    BY <1>2, WritesAnElement
  <2> QED  BY ONLY <2>4, <2>5
<1> QED  BY <1>0, <1>1, <1>2, Kinds DEF lists

\* What is in a list stays in it while no two saves of its user run at once.
LEMMA ElementsKept ==
    ASSUME Shape, Alone, [Next]_vars, NEW l \in Emitters, pc[l] \notin {"contains", "get"},
           Owner[l] \notin raced
    PROVE  Elements(l) \subseteq Elements(l)'
<1>1. CASE array'[l] = array[l] /\ size'[l] = size[l]
  BY <1>1 DEF Elements
<1>2. ASSUME NEW e \in Emitters, Creates(e)
      PROVE  array'[l] = array[l] /\ size'[l] = size[l]
  <2>1. l # e
    BY <1>2 DEF Creates
  <2> QED  BY <1>2, <2>1, CreatesAList
<1>3. ASSUME NEW e \in Emitters, Write(e), ref[e] # l
      PROVE  array'[l] = array[l] /\ size'[l] = size[l]
  BY <1>3, WritesAnElement
<1>4. ASSUME NEW e \in Emitters, Write(e), ref[e] = l
      PROVE  Elements(l) \subseteq Elements(l)'
  <2>1. PICK k : k = seen[e]
    OBVIOUS
  <2>2. /\ Len(array[l]) <= Len(array'[l]) /\ size'[l] = k + 1
        /\ pc[e] = "write" /\ Owner[l] = Owner[e]
        /\ DOMAIN array'[l] = 1 .. Len(array'[l]) /\ Len(array'[l]) \in Nat
    BY <1>4, <2>1, WritesAnElement
  <2>3. \A i \in DOMAIN array'[l] : i # k + 1 => array'[l][i] = array[l][i]
    <3>1. \A i \in DOMAIN array'[ref[e]] : i # seen[e] + 1 =>
              i \in DOMAIN array[ref[e]] /\ array'[ref[e]][i] = array[ref[e]][i]
      <4> HIDE <2>1
      <4> QED  BY <1>4, WritesAnElement, Zenon
    <3> QED  BY ONLY <1>4, <2>1, <3>1
  <2>4. size[l] = k /\ k \in Nat /\ k <= Len(array[l]) /\ Len(array[l]) \in Nat
    <3>1. size[l] = k
      BY <1>4, <2>1, <2>2 DEF Alone
    <3>2. size[l] \in Nat /\ size[l] <= Len(array[l]) /\ array[l] \in Seq(Emitters)
      BY DEF Shape, TypeOK
    <3> QED  BY <3>1, <3>2, LenProperties
  <2>5. ASSUME NEW i \in 1 .. size[l]
        PROVE  i \in 1 .. size'[l] /\ array'[l][i] = array[l][i]
    <3>1. i \in 1 .. k + 1 /\ i # k + 1 /\ i \in 1 .. Len(array'[l])
      BY <2>2, <2>4
    <3> QED  BY <2>2, <2>3, <3>1
  <2> QED  BY <2>5 DEF Elements
<1> QED  BY <1>1, <1>2, <1>3, <1>4, Kinds DEF lists

\* What a step does to a save.
LEMMA SaveMoves ==
    ASSUME Shape, [Next]_vars, NEW e \in Emitters
    PROVE  \/ Creates(e) \/ ReadSize(e) \/ Write(e) \/ Put(e)
           \/ Get(e) /\ data[Owner[e]] # NoList
           \/ /\ ref'[e] = ref[e] /\ seen'[e] = seen[e]
              /\ pc'[e] \in {"size", "write", "put"} => pc'[e] = pc[e]
<1>0. /\ ref \in [Emitters -> Emitters \cup {NoList}] /\ seen \in [Emitters -> Nat]
      /\ pc \in [Emitters -> Labels] /\ \A f \in Emitters : Moves(pc[f], pc'[f])
  BY EachMoves DEF Shape, TypeOK
<1>1. ASSUME NEW f \in Emitters, ConnectStep(f), f # e
      PROVE  ref'[e] = ref[e] /\ seen'[e] = seen[e] /\ pc'[e] = pc[e]
  BY <1>0, <1>1 DEF ConnectStep, Contains, Create, Get, ReadSize, Write, Put, Return,
     Goto, connect
<1>2. ASSUME NEW f \in Emitters, Count(f) \/ CountFails(f) \/ EndStep(f)
      PROVE  UNCHANGED <<ref, seen>>
  BY <1>2 DEF Count, CountFails, EndStep, TimesOut, Completes, Remove, CompleteNext, connect
<1>3. ASSUME NEW s \in Senders, SendStep(s) \/ \E u \in Users : StartSend(s, u)
      PROVE  UNCHANGED <<ref, seen>>
  BY <1>3 DEF SendStep, SendNext, SendThrows, StartSend, connect
<1>4. ASSUME ConnectStep(e)
      PROVE  \/ Creates(e) \/ ReadSize(e) \/ Write(e) \/ Put(e)
             \/ Get(e) /\ data[Owner[e]] # NoList
             \/ UNCHANGED <<ref, seen>>
  BY <1>4 DEF ConnectStep, Contains, Get, Return, Creates, connect
<1>5. ASSUME pc'[e] \in {"size", "write", "put"}, pc'[e] # pc[e]
      PROVE  \/ Creates(e) \/ ReadSize(e) \/ Write(e)
             \/ Get(e) /\ data[Owner[e]] # NoList
  <2>1. pc[e] \in {"contains", "get", "size", "write"}
    BY <1>0, <1>5 DEF Moves
  <2>2. ConnectStep(e)
    BY <1>5, <2>1, WhoMoves DEF Count, CountFails, EndStep, TimesOut, Completes, End, Remove, CompleteNext
  <2>3. CASE Contains(e)
    BY <1>0, <1>5, <2>3 DEF Contains, Goto, Creates
  <2>4. CASE Get(e)
    BY <2>4 DEF Get, Creates
  <2> QED  BY <2>1, <2>2, <2>3, <2>4 DEF ConnectStep, Put, Return
<1>6. CASE UNCHANGED <<ref, seen>>
  BY <1>5, <1>6
<1>7. CASE UNCHANGED vars
  BY <1>6, <1>7 DEF vars, connect
<1> QED  BY <1>1, <1>2, <1>3, <1>4, <1>6, <1>7 DEF Next

LEMMA AloneStep ==
    ASSUME Shape, OneSaver, Alone, [Next]_vars
    PROVE  Alone'
<1>0. /\ ref \in [Emitters -> Emitters \cup {NoList}] /\ seen \in [Emitters -> Nat]
      /\ pc \in [Emitters -> Labels] /\ raced \subseteq raced'
      /\ data \in [Users -> Emitters \cup {NoList}] /\ NoList \notin Emitters
      /\ \A e \in Emitters : Owner[e] \in Users
      /\ \A e \in Emitters : ref[e] # NoList <=> pc[e] \in {"size", "write", "put"}
      /\ \A e \in Emitters : ref'[e] # NoList <=> pc'[e] \in {"size", "write", "put"}
  BY HistoryGrows, RefStep, ConnectionsAssumption DEF Shape, TypeOK, RefOK, SavesWell
<1> SUFFICES ASSUME NEW e \in Emitters, Owner[e] \notin raced'
             PROVE  /\ pc'[e] = "write" => seen'[e] = size'[ref'[e]]
                    /\ pc'[e] = "put" => e \in Elements(ref[e])'
                    /\ ref'[e] # NoList => data'[Owner[e]] \in {NoList, ref'[e]}
  BY DEF Alone
<1>1. /\ Owner[e] \notin raced
      /\ pc[e] = "write" => seen[e] = size[ref[e]]
      /\ pc[e] = "put" => e \in Elements(ref[e])
      /\ ref[e] # NoList => data[Owner[e]] \in {NoList, ref[e]}
  BY <1>0 DEF Alone
<1>2. CASE Creates(e)
  <2>1. /\ ref' = [ref EXCEPT ![e] = e] /\ pc' = [pc EXCEPT ![e] = "put"]
        /\ array'[e] = <<e>> /\ size'[e] = 1
    BY <1>2, CreatesAList
  <2>2. ref'[e] = e /\ pc'[e] = "put"
    BY <1>0, <2>1
  <2>3. data' = data /\ data[Owner[e]] = NoList
    BY <1>2 DEF Creates
  <2>4. e \in Elements(ref[e])'
    <3>1. 1 \in 1 .. size'[e] /\ array'[e][1] = e
      BY <2>1
    <3> QED  BY <2>2, <3>1 DEF Elements
  <2> QED  BY <2>2, <2>3, <2>4
<1>3. CASE ReadSize(e)
  <2>1. /\ pc[e] = "size" /\ pc' = [pc EXCEPT ![e] = "write"] /\ ref' = ref
        /\ seen' = [seen EXCEPT ![e] = size[ref[e]]] /\ size' = size /\ data' = data
    BY <1>3 DEF ReadSize, Goto, lists
  <2>2. pc'[e] = "write" /\ seen'[e] = size'[ref'[e]]
    BY <1>0, <2>1
  <2> QED  BY <1>0, <1>1, <2>1, <2>2
<1>4. CASE Write(e)
  <2>1. PICK l, k : l = ref[e] /\ k = seen[e]
    OBVIOUS
  <2>2. /\ ref' = ref /\ pc' = [pc EXCEPT ![e] = "put"] /\ data' = data
        /\ size'[l] = k + 1 /\ array'[l][k + 1] = e /\ k \in Nat
    <3>1. /\ ref' = ref /\ pc' = [pc EXCEPT ![e] = "put"]
          /\ size'[ref[e]] = seen[e] + 1 /\ array'[ref[e]][seen[e] + 1] = e
      BY <1>0, <1>4, WritesAnElement
    <3>2. data' = data /\ seen[e] \in Nat
      BY <1>0, <1>4 DEF Write, Shape, TypeOK
    <3> QED  BY ONLY <2>1, <3>1, <3>2
  <2>3. pc'[e] = "put" /\ ref'[e] = l
    BY <1>0, <2>1, <2>2
  <2>4. k + 1 \in 1 .. size'[l]
    BY <2>2
  <2>5. e \in Elements(ref[e])'
    BY <2>2, <2>3, <2>4 DEF Elements
  <2>6. pc[e] = "write"
    BY <1>4 DEF Write
  <2> QED  BY <1>0, <1>1, <2>1, <2>2, <2>3, <2>5, <2>6
<1>5. CASE Put(e)
  <2>1. ref'[e] = NoList /\ pc'[e] = "return"
    BY <1>0, <1>5 DEF Put, Goto
  <2> QED  BY <2>1
<1>6. CASE Get(e) /\ data[Owner[e]] # NoList
  <2>1. /\ pc' = [pc EXCEPT ![e] = "size"] /\ data' = data
        /\ ref' = [ref EXCEPT ![e] = data[Owner[e]]]
    BY <1>6 DEF Get, Goto
  <2>2. pc'[e] = "size" /\ ref'[e] = data[Owner[e]]
    BY <1>0, <2>1
  <2> QED  BY <2>1, <2>2
<1>7. CASE /\ ref'[e] = ref[e] /\ seen'[e] = seen[e]
           /\ pc'[e] \in {"size", "write", "put"} => pc'[e] = pc[e]
           /\ ~ Write(e)
  <2>1. CASE ref[e] = NoList
    BY <1>0, <1>7, <2>1
  <2>2. CASE ref[e] # NoList
    <3>1. array'[ref[e]] = array[ref[e]] /\ size'[ref[e]] = size[ref[e]]
      BY <1>1, <1>7, <2>2, ListUndisturbed
    <3>2. data'[Owner[e]] \in {NoList, ref[e]}
      <4>1. ASSUME NEW f \in Emitters, Put(f) PROVE data'[Owner[e]] = data[Owner[e]]
        <5>1. pc[f] = "put" /\ data' = [data EXCEPT ![Owner[f]] = ref[f]] /\ ref'[f] = NoList
          BY <1>0, <4>1 DEF Put
        <5>2. f # e
          BY <1>7, <2>2, <5>1
        <5>3. Owner[f] # Owner[e]
          BY <1>0, <1>1, <2>2, <5>1, <5>2 DEF OneSaver, Saving
        <5> QED  BY <1>0, <5>1, <5>3
      <4>2. ASSUME NEW f \in Emitters, Remove(f) PROVE data'[Owner[e]] \in {NoList, data[Owner[e]]}
        BY <1>0, <4>2 DEF Remove
      <4> QED  BY <1>1, <2>2, <4>1, <4>2, DataMoves
    <3>3. pc'[e] = "write" => seen'[e] = size'[ref'[e]]
      BY <1>1, <1>7, <3>1
    <3>4. pc'[e] = "put" => e \in Elements(ref[e])'
      BY <1>1, <1>7, <3>1 DEF Elements
    <3> QED  BY <1>7, <3>2, <3>3, <3>4
  <2> QED  BY <2>1, <2>2
<1> QED  BY <1>2, <1>3, <1>4, <1>5, <1>6, <1>7, SaveMoves

\* The list of a user changes hands only by a put and a remove.
LEMMA DataChanges ==
    ASSUME Shape, [Next]_vars, NEW u \in Users
    PROVE  \/ data'[u] = data[u]
           \/ \E e \in Emitters : Put(e) /\ Owner[e] = u /\ data'[u] = ref[e]
           \/ \E e \in Emitters : Remove(e) /\ Owner[e] = u /\ data'[u] = NoList
<1>0. data \in [Users -> Emitters \cup {NoList}] /\ \A e \in Emitters : Owner[e] \in Users
  BY ConnectionsAssumption DEF Shape, TypeOK
<1>1. ASSUME NEW e \in Emitters, Put(e)
      PROVE  data'[u] = data[u] \/ (Owner[e] = u /\ data'[u] = ref[e])
  BY <1>0, <1>1 DEF Put
<1>2. ASSUME NEW e \in Emitters, Remove(e)
      PROVE  data'[u] = data[u] \/ (Owner[e] = u /\ data'[u] = NoList)
  BY <1>0, <1>2 DEF Remove
<1> QED  BY <1>1, <1>2, DataMoves

\* What becomes of connections that do not connect any more.
LEMMA LaterMoves ==
    ASSUME Shape, StillbornOK, [Next]_vars, NEW e \in Emitters, pc'[e] # pc[e]
    PROVE  /\ pc[e] = "return" /\ pc'[e] = "over" => e \in stillborn'
           /\ pc[e] = "ended" => Remove(e)
           /\ pc[e] = "put" => Put(e)
<1>0. pc \in [Emitters -> Labels]
  BY DEF Shape, TypeOK
<1>1. ASSUME pc[e] = "return", pc'[e] = "over"
      PROVE  e \in stillborn'
  <2>1. Return(e)
    BY <1>1, WhoMoves DEF Count, CountFails, ConnectStep, Contains, Get, ReadSize, Write, Put, EndStep,
       TimesOut, Completes, End, Remove, CompleteNext
  <2>2. CASE Return(e)
    <3>1. e \in completed
      BY <1>0, <1>1, <2>2 DEF Return, Goto
    <3>2. e \in stillborn
      BY <1>1, <3>1 DEF StillbornOK, Connecting
    <3> QED  BY <3>2, HistoryGrows
  <2> QED  BY <2>1, <2>2
<1>2. ASSUME pc[e] = "ended" PROVE Remove(e)
  BY <1>2, WhoMoves DEF Count, CountFails, ConnectStep, Contains, Get, ReadSize, Write, Put, Return,
     EndStep, TimesOut, Completes, End, CompleteNext
<1>3. ASSUME pc[e] = "put" PROVE Put(e)
  BY <1>3, WhoMoves DEF Count, CountFails, ConnectStep, Contains, Get, ReadSize, Write, Return,
     EndStep, TimesOut, Completes, End, Remove, CompleteNext
<1> QED  BY <1>1, <1>2, <1>3

LEMMA PutByLiveStep ==
    ASSUME Shape, StillbornOK, Alone, PutByLive, [Next]_vars
    PROVE  PutByLive'
<1>0. /\ pc \in [Emitters -> Labels] /\ raced \subseteq raced' /\ stillborn \subseteq stillborn'
      /\ \A f \in Emitters : Moves(pc[f], pc'[f])
      /\ NoList \notin Emitters
  BY HistoryGrows, EachMoves, ConnectionsAssumption DEF Shape, TypeOK
<1> SUFFICES ASSUME NEW u \in Users, data'[u] # NoList
             PROVE  LastPut(u)'
  BY DEF PutByLive
<1>1. ASSUME NEW e \in Emitters, Put(e), Owner[e] = u, data'[u] = ref[e]
      PROVE  LastPut(u)'
  <2>1. pc[e] = "put" /\ pc' = [pc EXCEPT ![e] = "return"] /\ UNCHANGED lists
    BY <1>1 DEF Put, Goto
  <2>2. pc'[e] = "return"
    BY <1>0, <2>1
  <2>3. u \notin raced' => e \in Elements(ref[e])
    BY <1>0, <1>1, <2>1 DEF Alone
  <2>4. u \notin raced' => e \in Elements(data[u])'
    BY <1>1, <2>1, <2>3 DEF Elements, lists
  <2> QED  BY <1>1, <2>2, <2>4 DEF LastPut
<1>2. ASSUME data'[u] = data[u]
      PROVE  LastPut(u)'
  <2>1. PICK e \in Emitters :
          /\ Owner[e] = u
          /\ pc[e] \in {"return", "open", "ended"} \/ (pc[e] = "over" /\ e \in stillborn)
          /\ u \in raced \/ e \in Elements(data[u])
    BY <1>2 DEF PutByLive, LastPut
  <2>2. pc'[e] \in {"return", "open", "ended"} \/ (pc'[e] = "over" /\ e \in stillborn')
    <3>1. CASE pc'[e] = pc[e]
      BY <1>0, <2>1, <3>1
    <3>2. CASE pc'[e] # pc[e]
      <4>1. ~ Remove(e)
        <5>1. ASSUME Remove(e) PROVE data'[u] = NoList
          BY <2>1, <5>1, ConnectionsAssumption DEF Remove, Shape, TypeOK
        <5> QED  BY <5>1
      <4>2. pc[e] # "ended" /\ (pc[e] = "return" /\ pc'[e] = "over" => e \in stillborn')
        BY <3>2, <4>1, LaterMoves
      <4> QED  BY <1>0, <2>1, <3>2, <4>2 DEF Moves
    <3> QED  BY <3>1, <3>2
  <2>3. u \in raced' \/ e \in Elements(data[u])'
    <3>1. CASE u \notin raced'
      <4>1. PICK l : l = data[u]
        OBVIOUS
      <4>2. l \in Emitters /\ Owner[l] = u /\ pc[l] \notin {"contains", "get"}
        BY <1>2, <4>1 DEF Shape, DataOK, Public, Unsaved
      <4>3. Elements(l) \subseteq Elements(l)'
        BY <1>0, <3>1, <4>2, ElementsKept
      <4>4. e \in Elements(l)'
        BY <1>0, <2>1, <3>1, <4>1, <4>3
      <4>5. data'[u] = l
        BY <1>2, <4>1
      <4> QED  BY <4>4, <4>5 DEF Elements
    <3> QED  BY <3>1
  <2> QED  BY <2>1, <2>2, <2>3 DEF LastPut
<1> QED  BY <1>1, <1>2, DataChanges

LEMMA BackByPutStep ==
    ASSUME Shape, StillbornOK, BackByPut, [Next]_vars
    PROVE  BackByPut'
<1>0. /\ pc \in [Emitters -> Labels] /\ revived \subseteq revived' /\ stillborn \subseteq stillborn'
      /\ \A f \in Emitters : Moves(pc[f], pc'[f])
      /\ NoList \notin Emitters /\ \A e \in Emitters : Owner[e] \in Users
      /\ data \in [Users -> Emitters \cup {NoList}]
  BY HistoryGrows, EachMoves, ConnectionsAssumption DEF Shape, TypeOK
<1> SUFFICES ASSUME NEW u \in Users, data'[u] # NoList,
                    NEW l, l = data'[u], NEW i \in DOMAIN array'[l],
                    NEW x, x = array'[l][i],
                    pc'[x] \in {"removing", "over"}, x \notin stillborn'
             PROVE  u \in revived'
  BY DEF BackByPut
<1>1. ASSUME NEW e \in Emitters, Put(e), Owner[e] = u, l = ref[e], l # data[u]
      PROVE  u \in revived'
  <2>1. /\ pc[e] = "put" /\ pc'[e] = "return" /\ UNCHANGED lists
        /\ revived' = IF ref[e] \notin {e, data[Owner[e]]} THEN revived \cup {Owner[e]} ELSE revived
    BY <1>0, <1>1 DEF Put, Goto
  <2>2. CASE l = e
    <3>1. array[e] = <<e>>
      BY <1>1, <2>2 DEF Shape, RefOK, SavesWell
    <3>2. array'[l] = <<e>> /\ DOMAIN <<e>> = {1} /\ <<e>>[1] = e
      BY <2>1, <2>2, <3>1 DEF lists
    <3>3. x = e
      BY <3>2
    <3> QED  BY <2>1, <3>3
  <2>3. CASE l # e
    BY <1>1, <2>1, <2>3
  <2> QED  BY <2>2, <2>3
<1>2. ASSUME l = data[u]
      PROVE  u \in revived'
  <2>1. l \in Emitters /\ Public(l) /\ Owner[l] = u
    BY <1>2 DEF Shape, DataOK, Public
  <2>2. i \in DOMAIN array[l] /\ x = array[l][i]
    <3>1. ASSUME NEW e \in Emitters, Creates(e) PROVE array'[l] = array[l]
      <4>1. l # e
        BY <2>1, <3>1, CreatesAList
      <4> QED  BY <2>1, <3>1, <4>1, CreatesAList
    <3>2. ASSUME NEW e \in Emitters, Write(e), ref[e] # l PROVE array'[l] = array[l]
      <4>1. \A m \in Emitters \ {ref[e]} : array'[m] = array[m]
        BY <3>2, WritesAnElement
      <4> QED  BY <2>1, <3>2, <4>1
    <3>3. ASSUME NEW e \in Emitters, Write(e), ref[e] = l
          PROVE  i \in DOMAIN array[l] /\ x = array[l][i]
      <4>1. pc' = [pc EXCEPT ![e] = "put"] /\ array'[l][seen[e] + 1] = e
        BY <3>3, WritesAnElement
      <4>2. pc'[e] = "put"
        BY <1>0, <4>1
      <4>3. i # seen[e] + 1
        BY <4>1, <4>2
      <4>4. \A j \in DOMAIN array'[ref[e]] : j # seen[e] + 1 =>
                j \in DOMAIN array[ref[e]] /\ array'[ref[e]][j] = array[ref[e]][j]
        BY <3>3, WritesAnElement
      <4> QED  BY <3>3, <4>3, <4>4
    <3> QED  BY <3>1, <3>2, <3>3, Kinds DEF lists
  <2>3. x \in Emitters /\ pc[x] \notin Unsaved /\ Owner[x] = u
    <3>1. array[l] \in Seq(Emitters)
      BY <2>1 DEF Shape, TypeOK
    <3>2. x \in Emitters
      BY <2>2, <3>1, LenProperties, ElementOfSeq
    <3> QED  BY <2>1, <2>2, <3>2 DEF Shape, ArraysOK
  <2>4. CASE pc[x] \in {"removing", "over"}
    BY <1>0, <1>2, <2>2, <2>4 DEF BackByPut
  <2>5. CASE pc[x] \notin {"removing", "over"}
    <3>1. pc'[x] # pc[x]
      BY <2>5
    <3>2. pc[x] = "ended" \/ (pc[x] = "return" /\ pc'[x] = "over")
      BY <1>0, <2>3, <2>5 DEF Moves, Unsaved
    <3>3. Remove(x)
      BY <2>3, <3>1, <3>2, LaterMoves
    <3>4. data'[u] = NoList
      BY <1>0, <2>3, <3>3 DEF Remove
    <3> QED  BY <3>4
  <2> QED  BY <2>4, <2>5
<1> QED  BY <1>1, <1>2, DataChanges

\* A loop's elements are in its list while the list is as the loop found it.
LEMMA LoopIsOnList ==
    ASSUME Shape, NEW p \in Loops, LoopOK(p), p # NoLoop, p.mod = modCount[p.list],
           NEW i \in p.next .. p.size
    PROVE  /\ p.list \in Emitters /\ i \in DOMAIN array[p.list]
           /\ array[p.list][i] \in Elements(p.list)
           /\ Owner[array[p.list][i]] = Owner[p.list]
<1>1. /\ p.list \in Emitters /\ p.next \in 1 .. p.size /\ p.size \in 1 .. Len(array[p.list])
      /\ p.size = size[p.list]
  BY OnElement DEF LoopOK, Shape
<1>2. DOMAIN array[p.list] = 1 .. Len(array[p.list]) /\ Len(array[p.list]) \in Nat
  <2>1. array[p.list] \in Seq(Emitters)
    BY <1>1 DEF Shape, TypeOK
  <2> QED  BY <2>1, LenProperties
<1>3. i \in 1 .. p.size /\ i \in 1 .. Len(array[p.list])
  BY <1>1, <1>2
<1> QED  BY <1>1, <1>2, <1>3 DEF Elements, Shape, ArraysOK

\* A removal that has an open connection before it keeps it, passes it on to the
\* connection that disturbs it, or completes it.
LEMMA RemovalKeeps ==
    ASSUME Shape, Alone, [Next]_vars, NEW e \in Emitters, e \notin completed', Owner[e] \notin raced,
           NEW f \in Emitters, removal[f] # NoLoop,
           removal[f].mod = modCount[removal[f].list],
           NEW i \in removal[f].next .. removal[f].size, array[removal[f].list][i] = e
    PROVE  Found(e)'
<1>0. PICK p, l : p = removal[f] /\ l = p.list
  OBVIOUS
<1>1. /\ p \in Loops /\ LoopOK(p) /\ p # NoLoop /\ p.mod = modCount[l]
      /\ pc[f] = "removing" /\ Public(l)
      /\ i \in p.next .. p.size /\ array[l][i] = e
  BY <1>0 DEF Shape, TypeOK, EndsOK, LoopOK
<1>2. l \in Emitters /\ e \in Elements(l) /\ Owner[l] = Owner[e] /\ pc[l] \notin {"contains", "get"}
  BY <1>0, <1>1, LoopIsOnList DEF Public, Unsaved
<1>3. ASSUME NEW g \in Emitters, Write(g), ref[g] = l
      PROVE  Found(e)'
  <2>1. /\ ref' = ref /\ Owner[g] = Owner[l] /\ l # NoList
    BY <1>2, <1>3, WritesAnElement, ConnectionsAssumption
  <2>2. e \in Elements(l)'
    BY <1>2, ElementsKept
  <2>3. ref'[g] = l
    BY <1>3, <2>1
  <2>4. e \in Elements(ref[g])'
    BY <2>2, <2>3 DEF Elements
  <2> QED  BY <1>2, <2>1, <2>3, <2>4 DEF Found
<1>4. ASSUME ~ \E g \in Emitters : Write(g) /\ ref[g] = l
      PROVE  Found(e)'
  <2>1. array'[l] = array[l] /\ modCount'[l] = modCount[l]
    <3>1. ASSUME NEW g \in Emitters, Creates(g)
          PROVE  array'[l] = array[l] /\ modCount'[l] = modCount[l]
      <4>1. l # g /\ \A m \in Emitters \ {g} : array'[m] = array[m] /\ modCount'[m] = modCount[m]
        BY <1>1, <3>1, CreatesAList
      <4> QED  BY <1>2, <4>1
    <3>2. ASSUME NEW g \in Emitters, Write(g)
          PROVE  array'[l] = array[l] /\ modCount'[l] = modCount[l]
      <4>1. /\ ref[g] # l
            /\ \A m \in Emitters \ {ref[g]} : array'[m] = array[m] /\ modCount'[m] = modCount[m]
        BY <1>4, <3>2, WritesAnElement
      <4> QED  BY <1>2, <4>1
    <3> QED  BY <3>1, <3>2, Kinds DEF lists
  <2>2. ASSUME NEW q, q = removal'[f], q # NoLoop, q.list = l, q.mod = p.mod,
               i \in q.next .. q.size
        PROVE  Found(e)'
    BY <1>1, <2>1, <2>2 DEF Found
  <2>3. CASE CompleteNext(f)
    <3>1. ~ MayThrow(p)
      BY <1>0, <1>1 DEF MayThrow
    <3>2. completed' = completed \cup {Element(p)} /\ removal' = [removal EXCEPT ![f] = Advance(@)]
      BY <1>0, <2>3, <3>1 DEF CompleteNext, Complete
    <3>3. removal'[f] = Advance(p)
      BY <1>0, <3>2 DEF Shape, TypeOK
    <3>4. i # p.next
      BY <1>0, <1>1, <3>2 DEF Element
    <3>5. p.next \in Nat /\ p.size \in Nat
      BY <1>1 DEF Loops
    <3>6. i \in p.next + 1 .. p.size /\ p.next # p.size
      BY <1>1, <3>4, <3>5
    <3>7. PICK q : q = Advance(p)
      OBVIOUS
    <3>8. /\ q # NoLoop /\ q.list = l /\ q.mod = p.mod /\ q.size = p.size /\ q.next = p.next + 1
      BY <1>0, <1>1, <3>6, <3>7, LoopAdvances
    <3> QED  BY <2>2, <3>3, <3>6, <3>7, <3>8
  <2>4. CASE removal'[f] = removal[f]
    BY <1>0, <1>1, <2>2, <2>4
  <2>5. removal'[f] = removal[f] \/ CompleteNext(f)
    <3>1. ASSUME NEW g \in Emitters, g # f, Remove(g) \/ CompleteNext(g)
          PROVE  removal'[f] = removal[f]
      BY <3>1, SMTT(30) DEF Remove, CompleteNext, Shape, TypeOK
    <3>2. ~ Remove(f)
      BY <1>1 DEF Remove
    <3>3. ASSUME NEW g \in Emitters, Count(g) \/ CountFails(g) \/ ConnectStep(g) \/ TimesOut(g) \/ Completes(g)
          PROVE  removal' = removal
      BY <3>3 DEF Count, CountFails, ConnectStep, Contains, Get, ReadSize, Write, Put, Return,
         TimesOut, Completes, ends
    <3>4. ASSUME NEW s \in Senders, SendStep(s) \/ \E u \in Users : StartSend(s, u)
          PROVE  removal' = removal
      BY <3>4 DEF SendStep, SendNext, SendThrows, StartSend, ends
    <3> QED  BY <3>1, <3>2, <3>3, <3>4 DEF Next, EndStep, vars, ends
  <2> QED  BY <2>3, <2>4, <2>5
<1> QED  BY <1>3, <1>4

LEMMA OpenAreFoundStep ==
    ASSUME Shape, OneSaver, Alone, OpenAreFound, [Next]_vars
    PROVE  OpenAreFound'
<1>0. /\ pc \in [Emitters -> Labels] /\ raced \subseteq raced' /\ completed \subseteq completed'
      /\ \A f \in Emitters : Moves(pc[f], pc'[f])
      /\ NoList \notin Emitters /\ \A e \in Emitters : Owner[e] \in Users
      /\ data \in [Users -> Emitters \cup {NoList}]
      /\ removal \in [Emitters -> Loops]
  BY HistoryGrows, EachMoves, ConnectionsAssumption DEF Shape, TypeOK
<1> SUFFICES ASSUME NEW e \in Emitters, pc'[e] \in {"return", "open"}, e \notin completed',
                    Owner[e] \notin raced'
             PROVE  Found(e)'
  BY DEF OpenAreFound
<1>1. Owner[e] \notin raced /\ Owner[e] \in Users /\ e \notin completed
  BY <1>0
\* A connection of the user puts a list that holds it.
<1>2. ASSUME NEW f \in Emitters, Put(f), Owner[f] = Owner[e], e \in Elements(ref[f])
      PROVE  Found(e)'
  <2>1. UNCHANGED lists /\ data' = [data EXCEPT ![Owner[f]] = ref[f]] /\ pc[f] = "put"
    BY <1>2 DEF Put
  <2>2. data'[Owner[e]] = ref[f] /\ ref[f] # NoList
    BY <1>0, <1>2, <2>1 DEF Shape, RefOK, SavesWell
  <2>3. e \in Elements(data[Owner[e]])'
    BY <1>2, <2>1, <2>2 DEF Elements, lists
  <2> QED  BY <2>2, <2>3 DEF Found
<1>3. CASE pc[e] = "put" /\ Put(e)
  <2>1. e \in Elements(ref[e])
    BY <1>1, <1>3 DEF Alone
  <2> QED  BY <1>2, <1>3, <2>1
<1>4. CASE Found(e)
  <2>1. CASE data[Owner[e]] # NoList /\ e \in Elements(data[Owner[e]])
    <3>0. PICK u, l : u = Owner[e] /\ l = data[u]
      OBVIOUS
    <3>1. /\ l \in Emitters /\ Owner[l] = u /\ pc[l] \notin {"contains", "get"}
          /\ e \in Elements(l) /\ l # NoList /\ u \in Users
      BY <1>1, <2>1, <3>0 DEF Shape, DataOK, Public, Unsaved
    <3>2. Elements(l) \subseteq Elements(l)'
      BY <1>1, <3>0, <3>1, ElementsKept
    <3>3. CASE data'[u] = l
      <4>1. e \in Elements(data[Owner[e]])'
        BY <3>0, <3>1, <3>2, <3>3 DEF Elements
      <4> QED  BY <3>0, <3>1, <3>3, <4>1 DEF Found
    <3>4. ASSUME NEW f \in Emitters, Put(f), Owner[f] = u
          PROVE  Found(e)'
      <4>1. pc[f] = "put" /\ ref[f] # NoList
        BY <3>4 DEF Put, Shape, RefOK, SavesWell
      <4>2. ref[f] = l
        BY <1>1, <3>0, <3>1, <3>4, <4>1 DEF Alone
      <4> QED  BY <1>2, <3>0, <3>1, <3>4, <4>2
    <3>5. ASSUME NEW f \in Emitters, Remove(f), Owner[f] = u
          PROVE  Found(e)'
      <4>1. /\ removal' = [removal EXCEPT ![f] = Loop(l)] /\ UNCHANGED lists
        BY <3>0, <3>1, <3>5 DEF Remove
      <4>2. PICK q : q = removal'[f]
        OBVIOUS
      <4>3. q = Loop(l) /\ q # NoLoop
        BY <1>0, <3>0, <3>1, <4>1, <4>2, LoopOverList
      <4>4. q.list = l /\ q.next = 1 /\ q.size = size[l] /\ q.mod = modCount[l]
        BY <4>3 DEF Loop
      <4>5. PICK i \in 1 .. size[l] : array[l][i] = e
        BY <3>1 DEF Elements
      <4> QED  BY <4>1, <4>2, <4>3, <4>4, <4>5 DEF Found, lists
    <3> QED  BY <3>0, <3>1, <3>3, <3>4, <3>5, DataChanges
  <2>2. ASSUME NEW f \in Emitters, removal[f] # NoLoop,
               removal[f].mod = modCount[removal[f].list],
               NEW i \in removal[f].next .. removal[f].size, array[removal[f].list][i] = e
        PROVE  Found(e)'
    BY <1>1, <2>2, RemovalKeeps
  <2>3. ASSUME NEW f \in Emitters, Owner[f] = Owner[e], ref[f] # NoList, e \in Elements(ref[f])
        PROVE  Found(e)'
    <3>0. PICK l : l = ref[f]
      OBVIOUS
    <3>1. /\ l \in Emitters /\ Owner[l] = Owner[e] /\ pc[l] \notin {"contains", "get"}
          /\ pc[f] \in {"size", "write", "put"} /\ l # NoList
      BY <2>3, <3>0 DEF Shape, RefOK, SavesWell, Public, Unsaved
    <3>2. Elements(l) \subseteq Elements(l)'
      BY <1>1, <3>1, ElementsKept
    <3>3. CASE Put(f)
      BY <1>2, <2>3, <3>3
    <3>4. CASE ~ Put(f)
      <4>1. ref'[f] = ref[f]
        <5>1. ~ Creates(f) /\ ~ Get(f)
          BY <3>1 DEF Creates, Get
        <5>2. ReadSize(f) \/ Write(f) => ref' = ref
          BY DEF ReadSize, Write, connect
        <5> QED  BY <3>4, <5>1, <5>2, SaveMoves
      <4>2. e \in Elements(ref[f])'
        BY <2>3, <3>0, <3>2, <4>1 DEF Elements
      <4> QED  BY <2>3, <4>1, <4>2 DEF Found
    <3> QED  BY <3>3, <3>4
  <2> QED  BY <1>4, <2>1, <2>2, <2>3 DEF Found
<1>5. pc[e] \in {"return", "open"} \/ (pc[e] = "put" /\ Put(e))
  <2>1. CASE pc'[e] = pc[e]
    BY <2>1
  <2>2. CASE pc'[e] # pc[e]
    <3>1. pc[e] \in {"put", "return"}
      BY <1>0, <2>2 DEF Moves
    <3>2. pc[e] = "put" => Put(e)
      BY <2>2, WhoMoves DEF Count, CountFails, ConnectStep, Contains, Get, ReadSize, Write, Return,
         EndStep, TimesOut, Completes, End, Remove, CompleteNext
    <3> QED  BY <3>1, <3>2
  <2> QED  BY <2>1, <2>2
<1> QED  BY <1>1, <1>3, <1>4, <1>5 DEF OpenAreFound

-----------------------------------------------------------------------------
(* The theorems. *)

LEMMA InvInit ==
    ASSUME Init
    PROVE  Inv
<1>0. /\ NoList \notin Emitters /\ MaxSends \in Nat /\ NoLoop \in Loops
  BY ConnectionsAssumption DEF NoLoop, Loops
<1>1. /\ <<>> \in Seq(Emitters) /\ Len(<<>>) = 0 /\ DOMAIN <<>> = {}
  OBVIOUS
<1>2. TypeOK
  BY <1>0, <1>1 DEF Init, TypeOK, Labels
<1>3. DataOK /\ RefOK /\ ArraysOK /\ EndsOK
  BY <1>0, <1>1 DEF Init, DataOK, RefOK, SavesWell, ArraysOK, EndsOK, LoopOK
<1>4. StillbornOK /\ OneSaver /\ Alone /\ PutByLive /\ OpenAreFound /\ BackByPut
  BY DEF Init, StillbornOK, OneSaver, Alone, PutByLive, OpenAreFound, BackByPut, Connecting, Saving
<1> QED  BY <1>2, <1>3, <1>4 DEF Inv, Shape

\* Whatever order the calls of connecting requests, callbacks and sending tasks
\* take on the map and its lists, the state keeps the shape Inv describes.
THEOREM Inductive == Spec => []Inv
<1>1. Init => Inv
  BY InvInit
<1>2. Inv /\ [Next]_vars => Inv'
  BY ShapeStep, StillbornStep, OneSaverStep, AloneStep, PutByLiveStep, OpenAreFoundStep,
     BackByPutStep DEF Inv
<1> QED  BY <1>1, <1>2, PTL DEF Spec

\* Unsynchronised adds, which may write over each other and set the size back,
\* never leave a size beyond its array, and no loop runs out of its array.
THEOREM TypeCorrect == Spec => []TypeOK
<1>1. Inv => TypeOK
  BY DEF Inv, Shape
<1> QED  BY <1>1, Inductive, PTL

\* A list left in the map has a connection that will take it away, or a stillborn
\* one: the connection that put it last.
THEOREM NothingLeaks == Spec => []NoLeak
<1>1. Inv => NoLeak
  <2> SUFFICES ASSUME Inv, NEW u \in Users, data[u] # NoList
               PROVE  \E e \in Emitters :
                        /\ Owner[e] = u
                        /\ \/ pc[e] \notin {"new", "over"}
                           \/ e \in stillborn /\ (e \in Listed \/ u \in raced)
    BY DEF NoLeak
  <2>1. PICK e \in Emitters :
          /\ Owner[e] = u
          /\ pc[e] \in {"return", "open", "ended"} \/ (pc[e] = "over" /\ e \in stillborn)
          /\ u \in raced \/ e \in Elements(data[u])
    BY DEF Inv, PutByLive, LastPut
  <2>2. e \in Elements(data[u]) => e \in Listed
    BY <2>1 DEF Listed
  <2> QED  BY <2>1, <2>2
<1> QED  BY <1>1, Inductive, PTL

\* Only two saves of one user at a time can make an open connection deaf.
THEOREM OpenIsHeard == Spec => []OpenIsListed
<1>1. Inv => OpenIsListed
  <2> SUFFICES ASSUME Inv, NEW e \in Emitters, pc[e] = "open", e \notin completed,
                      Owner[e] \notin raced
               PROVE  \/ e \in Listed
                      \/ \E f \in Emitters :
                           /\ pc[f] = "removing"
                           /\ \E i \in removal[f].next .. removal[f].size :
                                array[removal[f].list][i] = e
                      \/ \E f \in Emitters :
                           /\ Owner[f] = Owner[e]
                           /\ pc[f] \in {"size", "write", "put"} /\ e \in Elements(ref[f])
    BY DEF OpenIsListed
  <2>1. Found(e)
    BY DEF Inv, OpenAreFound
  <2>2. /\ \A f \in Emitters : removal[f] # NoLoop => pc[f] = "removing"
        /\ \A f \in Emitters : ref[f] # NoList => pc[f] \in {"size", "write", "put"}
    BY DEF Inv, Shape, EndsOK, RefOK, SavesWell
  <2> QED  BY <2>1, <2>2 DEF Found, Listed
<1> QED  BY <1>1, Inductive, PTL

\* A connection that is over is listed again only by a put of a removed list.
THEOREM OverIsListedByPut == Spec => []OverIsRePut
<1>1. Inv => OverIsRePut
  <2> SUFFICES ASSUME Inv, NEW e \in Listed \ stillborn, pc[e] = "over"
               PROVE  Owner[e] \in revived
    BY DEF OverIsRePut
  <2>1. PICK u, l : u = Owner[e] /\ l = data[u]
    OBVIOUS
  <2>2. /\ e \in Emitters /\ u \in Users /\ l # NoList /\ l \in Emitters
        /\ e \in Elements(l)
    BY <2>1, ConnectionsAssumption DEF Listed, Inv, Shape, TypeOK
  <2>3. PICK i \in 1 .. size[l] : array[l][i] = e
    BY <2>2 DEF Elements
  <2>4. i \in DOMAIN array[l]
    <3>1. /\ array[l] \in Seq(Emitters) /\ size[l] \in Nat /\ size[l] <= Len(array[l])
      BY <2>2 DEF Inv, Shape, TypeOK
    <3>2. DOMAIN array[l] = 1 .. Len(array[l]) /\ Len(array[l]) \in Nat
      BY <3>1, LenProperties
    <3> QED  BY <3>1, <3>2
  <2> QED  BY <2>1, <2>2, <2>3, <2>4 DEF Inv, BackByPut
<1> QED  BY <1>1, Inductive, PTL

=============================================================================
