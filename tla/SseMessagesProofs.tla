------------------------- MODULE SseMessagesProofs -------------------------
(***************************************************************************)
(* What holds of SseMessageRepository.save for any number of threads and   *)
(* events and any MAX_QUEUE_SIZE that is not less than the threads.        *)
(***************************************************************************)
EXTENDS SseMessages, QueueLemmas, FiniteSetTheorems

USE DEF Goto

-----------------------------------------------------------------------------
(* The invariant. *)

\* Every id in the queue or in a saver's hands has been drawn, so that the next
\* one drawn is new.
InUseIsDrawn ==
    /\ ToSet(eventIdQueue) \subseteq drawn
    /\ \A p \in Savers : Preparing(p) => mine[p] \in drawn
    /\ \A p \in Savers : pc[p] = "put" => mine[p] \in Ids
    /\ \A p \in Savers : pc[p] = "remove" => popped[p] \in drawn

Inv == TypeOK /\ PopFinds /\ QueueBounded /\ InUseIsDrawn /\ IdsApart /\ QueuedIsStored

-----------------------------------------------------------------------------
(* Counting savers. *)

In(L) == {p \in Savers : pc[p] \in L}

\* A saver that enters a set of savers makes it one larger.
LEMMA Enters ==
    ASSUME NEW S \in SUBSET Savers, NEW p \in Savers, p \notin S
    PROVE  /\ Cardinality(S) \in Nat
           /\ Cardinality(S \cup {p}) = Cardinality(S) + 1
           /\ Cardinality(S) + 1 <= Cardinality(Savers)
<1>1. IsFiniteSet(S) /\ Cardinality(S) \in Nat
  BY QueueAssumption, FS_Subset, FS_CardinalityType
<1>2. Cardinality(S \cup {p}) = Cardinality(S) + 1
  BY <1>1, FS_AddElement
<1>3. Cardinality(S \cup {p}) <= Cardinality(Savers)
  BY QueueAssumption, FS_Subset
<1> QED  BY <1>1, <1>2, <1>3

\* A saver that leaves a set of savers makes it one smaller.
LEMMA Leaves ==
    ASSUME NEW S \in SUBSET Savers, NEW p \in S
    PROVE  /\ Cardinality(S) \in Nat
           /\ Cardinality(S \ {p}) = Cardinality(S) - 1
<1>1. IsFiniteSet(S) /\ Cardinality(S) \in Nat
  BY QueueAssumption, FS_Subset, FS_CardinalityType
<1> QED  BY <1>1, FS_RemoveElement

-----------------------------------------------------------------------------
(* What a step leaves alone. *)

\* A saver's step leaves the other threads' state alone.
LEMMA OthersStay ==
    ASSUME TypeOK, NEW p \in Savers, SaveStep(p), NEW q \in Savers, q # p
    PROVE  pc'[q] = pc[q] /\ mine'[q] = mine[q] /\ popped'[q] = popped[q]
BY DEF TypeOK, SaveStep, StartSave, Size, Pop, RemovePopped, Push, Put

-----------------------------------------------------------------------------
(* Each part of the invariant survives a saver's step. *)

\* A saver that pops meets a queue that is not empty.
LEMMA PopNotEmpty ==
    ASSUME Inv, NEW p \in Savers, Pop(p)
    PROVE  eventIdQueue # <<>>
<1> DEFINE S == {q \in Savers : pc[q] = "pop"}
<1>1. p \in S
  BY DEF Pop
<1>2. /\ Cardinality(S) \in Nat
      /\ Cardinality(S \ {p}) = Cardinality(S) - 1
  BY <1>1, Leaves
<1>3. Cardinality(S \ {p}) \in Nat
  BY QueueAssumption, FS_Subset, FS_CardinalityType
<1>4. Len(eventIdQueue) # 0
  BY <1>2, <1>3, LenProperties DEF Inv, PopFinds, TypeOK
<1> QED  BY <1>4, EmptySeq

LEMMA TypeStep ==
    ASSUME Inv, NEW p \in Savers, SaveStep(p)
    PROVE  TypeOK'
<1>0. TypeOK /\ PopFinds /\ InUseIsDrawn
  BY DEF Inv
<1>1. CASE StartSave(p)
  <2>1. PICK id \in Ids : mine' = [mine EXCEPT ![p] = id] /\ drawn' = drawn \cup {id}
    BY <1>1 DEF StartSave
  <2> QED  BY <1>0, <1>1, <2>1 DEF TypeOK, StartSave, Labels
<1>2. CASE Size(p)
  BY <1>0, <1>2 DEF TypeOK, Size, Labels
<1>3. CASE Pop(p)
  <2>1. eventIdQueue # <<>>
    BY <1>3, PopNotEmpty
  <2>2. Tail(eventIdQueue) \in Seq(Ids) /\ Head(eventIdQueue) \in Ids
    BY <1>0, <2>1, HeadTailProperties DEF TypeOK
  <2> QED  BY <1>0, <1>3, <2>2 DEF TypeOK, Pop, Labels
<1>4. CASE RemovePopped(p)
  BY <1>0, <1>4 DEF TypeOK, RemovePopped, Labels
<1>5. CASE Push(p)
  <2>1. mine[p] \in Ids
    <3>1. mine[p] \in drawn
      BY <1>0, <1>5 DEF InUseIsDrawn, Push, Preparing
    <3> QED  BY <1>0, <3>1 DEF TypeOK
  <2>2. <<mine[p]>> \o eventIdQueue \in Seq(Ids)
    BY <1>0, <2>1, PushFront DEF TypeOK
  <2> QED  BY <1>0, <1>5, <2>2 DEF TypeOK, Push, Labels
<1>6. CASE Put(p)
  <2>1. mine[p] \in Ids
    BY <1>0, <1>6 DEF InUseIsDrawn, Put
  <2> QED  BY <1>0, <1>6, <2>1 DEF TypeOK, Put, Labels
<1> QED  BY <1>1, <1>2, <1>3, <1>4, <1>5, <1>6 DEF SaveStep

\* The savers in a set of labels, after a step of p.
LEMMA CountStep ==
    ASSUME TypeOK, NEW p \in Savers, SaveStep(p), NEW L
    PROVE  /\ Cardinality(In(L)) \in Nat
           /\ pc[p] \in L /\ pc'[p] \in L => Cardinality(In(L)') = Cardinality(In(L))
           /\ pc[p] \notin L /\ pc'[p] \notin L => Cardinality(In(L)') = Cardinality(In(L))
           /\ pc[p] \notin L /\ pc'[p] \in L => /\ Cardinality(In(L)') = Cardinality(In(L)) + 1
                                               /\ Cardinality(In(L)) + 1 <= Cardinality(Savers)
           /\ pc[p] \in L /\ pc'[p] \notin L => Cardinality(In(L)') = Cardinality(In(L)) - 1
<1>1. \A q \in Savers : q # p => pc'[q] = pc[q]
  BY OthersStay
<1>2. In(L) \in SUBSET Savers /\ Cardinality(In(L)) \in Nat
  BY QueueAssumption, FS_Subset, FS_CardinalityType DEF In
<1>3. pc[p] \in L /\ pc'[p] \in L => In(L)' = In(L)
  BY <1>1 DEF In
<1>4. pc[p] \notin L /\ pc'[p] \notin L => In(L)' = In(L)
  BY <1>1 DEF In
<1>5. pc[p] \notin L /\ pc'[p] \in L => In(L)' = In(L) \cup {p} /\ p \notin In(L)
  BY <1>1 DEF In
<1>6. pc[p] \in L /\ pc'[p] \notin L => In(L)' = In(L) \ {p} /\ p \in In(L)
  BY <1>1 DEF In
<1> HIDE DEF SaveStep
<1> QED  BY <1>2, <1>3, <1>4, <1>5, <1>6, Enters, Leaves

LEMMA CountsStep ==
    ASSUME Inv, NEW p \in Savers, SaveStep(p)
    PROVE  PopFinds' /\ QueueBounded'
<1>0. TypeOK /\ PopFinds /\ QueueBounded
  BY DEF Inv
<1>1. Len(eventIdQueue) \in Nat /\ MaxQueue \in Nat /\ Cardinality(Savers) \in 1 .. MaxQueue
  BY <1>0, LenProperties, QueueAssumption DEF TypeOK
<1> DEFINE A == In({"pop"})
           C == In({"remove", "push"})
<1>2. /\ Cardinality(A) <= Len(eventIdQueue)
      /\ Len(eventIdQueue) + Cardinality(C) < MaxQueue + Cardinality(Savers)
  <2>1. A = {q \in Savers : pc[q] = "pop"} /\ C = Pending
    BY DEF Pending, In
  <2> QED  BY <1>0, <2>1 DEF PopFinds, QueueBounded
<1>3. SUFFICES /\ Cardinality(A') <= Len(eventIdQueue')
               /\ Len(eventIdQueue') + Cardinality(C') < MaxQueue + Cardinality(Savers)
  <2>1. A' = {q \in Savers : pc'[q] = "pop"} /\ C' = Pending'
    BY DEF Pending, In
  <2> QED  BY <1>3, <2>1 DEF PopFinds, QueueBounded
<1>4. /\ Cardinality(A) \in Nat
      /\ pc[p] \notin {"pop"} /\ pc'[p] \notin {"pop"} => Cardinality(A') = Cardinality(A)
      /\ pc[p] \notin {"pop"} /\ pc'[p] \in {"pop"} =>
           Cardinality(A') = Cardinality(A) + 1 /\ Cardinality(A) + 1 <= Cardinality(Savers)
      /\ pc[p] \in {"pop"} /\ pc'[p] \notin {"pop"} => Cardinality(A') = Cardinality(A) - 1
  BY <1>0, CountStep
<1>5. /\ Cardinality(C) \in Nat
      /\ pc[p] \in {"remove", "push"} /\ pc'[p] \in {"remove", "push"} =>
           Cardinality(C') = Cardinality(C)
      /\ pc[p] \notin {"remove", "push"} /\ pc'[p] \notin {"remove", "push"} =>
           Cardinality(C') = Cardinality(C)
      /\ pc[p] \notin {"remove", "push"} /\ pc'[p] \in {"remove", "push"} =>
           Cardinality(C') = Cardinality(C) + 1 /\ Cardinality(C) + 1 <= Cardinality(Savers)
      /\ pc[p] \in {"remove", "push"} /\ pc'[p] \notin {"remove", "push"} =>
           Cardinality(C') = Cardinality(C) - 1
  BY <1>0, CountStep
<1>6. pc \in [Savers -> Labels]
  BY <1>0 DEF TypeOK
<1> HIDE DEF A, C
<1>7. CASE StartSave(p)
  <2>1. pc[p] = "idle" /\ pc'[p] = "size" /\ eventIdQueue' = eventIdQueue
    BY <1>0, <1>6, <1>7 DEF StartSave
  <2> QED  BY <1>1, <1>2, <1>4, <1>5, <2>1
<1>8. CASE Size(p)
  <2>1. /\ pc[p] = "size" /\ eventIdQueue' = eventIdQueue
        /\ \/ pc'[p] = "pop" /\ Len(eventIdQueue) >= MaxQueue
           \/ pc'[p] = "push" /\ ~ (Len(eventIdQueue) >= MaxQueue)
    BY <1>0, <1>6, <1>8 DEF Size
  <2> QED  BY <1>1, <1>2, <1>4, <1>5, <2>1
<1>9. CASE Pop(p)
  <2>1. pc[p] = "pop" /\ pc'[p] = "remove" /\ eventIdQueue' = Tail(eventIdQueue)
    BY <1>0, <1>6, <1>9 DEF Pop
  <2>2. Cardinality(A) >= 1
    <3>1. p \in A
      BY <2>1 DEF A, In
    <3>2. A \ {p} \in SUBSET Savers
      BY DEF A, In
    <3>3. Cardinality(A \ {p}) \in Nat /\ Cardinality(A \ {p}) = Cardinality(A) - 1
      BY <3>1, <3>2, Leaves, QueueAssumption, FS_Subset, FS_CardinalityType DEF A, In
    <3> QED  BY <1>4, <3>3
  <2>3. eventIdQueue # <<>>
    BY <1>0, <1>1, <1>2, <1>4, <2>2, EmptySeq DEF TypeOK
  <2>4. Len(eventIdQueue') = Len(eventIdQueue) - 1
    BY <1>0, <2>1, <2>3, HeadTailProperties DEF TypeOK
  <2> QED  BY <1>1, <1>2, <1>4, <1>5, <2>1, <2>4
<1>10. CASE RemovePopped(p)
  <2>1. pc[p] = "remove" /\ pc'[p] = "push" /\ eventIdQueue' = eventIdQueue
    BY <1>0, <1>6, <1>10 DEF RemovePopped
  <2> QED  BY <1>1, <1>2, <1>4, <1>5, <2>1
<1>11. CASE Push(p)
  <2>1. pc[p] = "push" /\ pc'[p] = "put" /\ eventIdQueue' = <<mine[p]>> \o eventIdQueue
    BY <1>0, <1>6, <1>11 DEF Push
  <2>2. mine[p] \in Ids \cup {NoId}
    BY <1>0 DEF TypeOK
  <2>3. eventIdQueue \in Seq(Ids \cup {NoId})
    BY <1>0, SeqMonotonic DEF TypeOK
  <2>4. Len(eventIdQueue') = Len(eventIdQueue) + 1
    BY <2>1, <2>2, <2>3, PushFront
  <2> QED  BY <1>1, <1>2, <1>4, <1>5, <2>1, <2>4
<1>12. CASE Put(p)
  <2>1. pc[p] = "put" /\ pc'[p] = "idle" /\ eventIdQueue' = eventIdQueue
    BY <1>0, <1>6, <1>12 DEF Put
  <2> QED  BY <1>1, <1>2, <1>4, <1>5, <2>1
<1> QED  BY <1>7, <1>8, <1>9, <1>10, <1>11, <1>12 DEF SaveStep

\* What each step of a saver does to the ids in use.
LEMMA IdsStep ==
    ASSUME Inv, NEW p \in Savers, SaveStep(p)
    PROVE  InUseIsDrawn' /\ IdsApart'
<1>0. /\ TypeOK /\ InUseIsDrawn /\ IdsApart
      /\ pc \in [Savers -> Labels]
      /\ mine \in [Savers -> Ids \cup {NoId}]
      /\ popped \in [Savers -> Ids \cup {NoId}]
  BY DEF Inv, TypeOK
<1>1. CASE StartSave(p)
  <2>1. PICK id \in Ids : /\ id \notin drawn
                         /\ mine' = [mine EXCEPT ![p] = id] /\ drawn' = drawn \cup {id}
    BY <1>1 DEF StartSave
  <2>2. drawn' = drawn \cup {id}
    BY <2>1
  <2>3. /\ pc[p] = "idle" /\ pc' = [pc EXCEPT ![p] = "size"]
        /\ eventIdQueue' = eventIdQueue /\ popped' = popped
    BY <1>1 DEF StartSave
  <2>4. \A q \in Savers \ {p} : Preparing(q)' = Preparing(q) /\ mine'[q] = mine[q] /\ pc'[q] = pc[q]
    BY <1>0, <2>1, <2>3 DEF Preparing
  <2>5. pc'[p] = "size" /\ mine'[p] = id
    BY <1>0, <2>1, <2>3
  <2>6. InUseIsDrawn'
    BY <1>0, <2>2, <2>3, <2>4, <2>5 DEF InUseIsDrawn
  <2>7. \A q \in Savers : Preparing(q) => mine[q] # id
    BY <1>0, <2>1 DEF InUseIsDrawn
  <2>8. id \notin ToSet(eventIdQueue)
    BY <1>0, <2>1 DEF InUseIsDrawn
  <2>9. \A q \in Savers : pc[q] = "remove" => popped[q] # id
    BY <1>0, <2>1 DEF InUseIsDrawn
  <2>10. IdsApart'
    BY <1>0, <2>3, <2>4, <2>5, <2>7, <2>8, <2>9 DEF IdsApart
  <2> QED  BY <2>6, <2>10
<1>2. CASE Size(p)
  <2>1. /\ pc[p] = "size" /\ pc'[p] \in {"pop", "push"}
        /\ \A q \in Savers \ {p} : pc'[q] = pc[q]
        /\ UNCHANGED <<eventIdQueue, mine, popped, drawn>>
    BY <1>0, <1>2 DEF Size
  <2>2. \A q \in Savers : Preparing(q)' = Preparing(q)
    BY <2>1 DEF Preparing
  <2> QED  BY <1>0, <2>1, <2>2 DEF InUseIsDrawn, IdsApart
<1>3. CASE Pop(p)
  <2>1. /\ pc[p] = "pop" /\ pc'[p] = "remove"
        /\ \A q \in Savers \ {p} : pc'[q] = pc[q] /\ popped'[q] = popped[q]
        /\ popped'[p] = Head(eventIdQueue) /\ eventIdQueue' = Tail(eventIdQueue)
        /\ UNCHANGED <<mine, drawn>>
    BY <1>0, <1>3 DEF Pop
  <2>2. eventIdQueue # <<>>
    BY <1>3, PopNotEmpty
  <2> DEFINE q1 == eventIdQueue
             q2 == Tail(eventIdQueue)
  <2>3. /\ Head(q1) \in ToSet(q1) /\ ToSet(q2) \subseteq ToSet(q1)
        /\ Head(q1) \notin ToSet(q2)
        /\ \A i, j \in DOMAIN q2 : q2[i] = q2[j] => i = j
    <3>1. q1 \in Seq(Ids) /\ \A i, j \in DOMAIN q1 : q1[i] = q1[j] => i = j
      BY <1>0 DEF TypeOK, IdsApart
    <3> HIDE DEF q1
    <3>2. Head(q1) \in ToSet(q1) /\ ToSet(Tail(q1)) \subseteq ToSet(q1)
      BY <2>2, <3>1, PopFront DEF q1
    <3>3. /\ Head(q1) \notin ToSet(Tail(q1))
          /\ \A i, j \in DOMAIN Tail(q1) : Tail(q1)[i] = Tail(q1)[j] => i = j
      BY <2>2, <3>1, PopFrontOnce DEF q1
    <3> QED  BY <3>2, <3>3 DEF q1
  <2>4. \A q \in Savers : Preparing(q)' = Preparing(q)
    BY <2>1 DEF Preparing
  <2> HIDE DEF q1, q2
  <2>8. eventIdQueue' = q2 /\ popped'[p] = Head(q1) /\ eventIdQueue = q1
    BY <2>1 DEF q1, q2
  <2>9. InUseIsDrawn'
    BY <1>0, <2>1, <2>3, <2>4, <2>8 DEF InUseIsDrawn
  <2>10. \A q \in Savers : Preparing(q) => mine[q] \notin ToSet(q1) /\ mine[q] # Head(q1)
    BY <1>0, <2>3, <2>8 DEF IdsApart
  <2>11. IdsApart'
    <3>1. \A q \in Savers : Preparing(q) =>
            /\ mine[q] \notin ToSet(q2)
            /\ \A r \in Savers \ {q} : Preparing(r) => mine[r] # mine[q]
      BY <1>0, <2>3, <2>10 DEF IdsApart
    <3>2. ASSUME NEW q \in Savers, pc'[q] = "remove"
          PROVE  /\ popped'[q] \notin ToSet(q2)
                 /\ \A r \in Savers : Preparing(r) => mine[r] # popped'[q]
      <4>1. CASE q = p
        BY <2>3, <2>8, <2>10, <4>1
      <4>2. CASE q # p
        BY <1>0, <2>1, <2>3, <2>8, <3>2, <4>2 DEF IdsApart
      <4> QED  BY <4>1, <4>2
    <3> QED  BY <2>1, <2>3, <2>4, <2>8, <3>1, <3>2 DEF IdsApart
  <2> QED  BY <2>9, <2>11
<1>4. CASE RemovePopped(p)
  <2>1. /\ pc[p] = "remove" /\ pc'[p] = "push"
        /\ \A q \in Savers \ {p} : pc'[q] = pc[q]
        /\ UNCHANGED <<eventIdQueue, mine, popped, drawn>>
    BY <1>0, <1>4 DEF RemovePopped
  <2>2. \A q \in Savers : Preparing(q)' = Preparing(q)
    BY <2>1 DEF Preparing
  <2> QED  BY <1>0, <2>1, <2>2 DEF InUseIsDrawn, IdsApart
<1>5. CASE Push(p)
  <2>1. /\ pc[p] = "push" /\ pc'[p] = "put"
        /\ \A q \in Savers \ {p} : pc'[q] = pc[q]
        /\ eventIdQueue' = <<mine[p]>> \o eventIdQueue
        /\ UNCHANGED <<mine, popped, drawn>>
    BY <1>0, <1>5 DEF Push
  <2>2. Preparing(p) /\ ~ Preparing(p)' /\ \A q \in Savers \ {p} : Preparing(q)' = Preparing(q)
    BY <2>1 DEF Preparing
  <2>3. mine[p] \in drawn /\ mine[p] \in Ids
    <3>1. mine[p] \in drawn
      BY <1>0, <2>2 DEF InUseIsDrawn
    <3> QED  BY <1>0, <3>1 DEF TypeOK
  <2>4. /\ eventIdQueue' \in Seq(Ids)
        /\ Len(eventIdQueue') = Len(eventIdQueue) + 1
        /\ eventIdQueue'[1] = mine[p]
        /\ \A i \in 2 .. Len(eventIdQueue) + 1 : eventIdQueue'[i] = eventIdQueue[i - 1]
        /\ ToSet(eventIdQueue') = ToSet(eventIdQueue) \cup {mine[p]}
    BY <1>0, <2>1, <2>3, PushFront DEF TypeOK
  <2>5. InUseIsDrawn'
    BY <1>0, <2>1, <2>2, <2>3, <2>4 DEF InUseIsDrawn
  <2>6. mine[p] \notin ToSet(eventIdQueue)
    BY <1>0, <2>2 DEF IdsApart
  <2>7. \A i, j \in DOMAIN eventIdQueue' : eventIdQueue'[i] = eventIdQueue'[j] => i = j
    <3> DEFINE n == Len(eventIdQueue)
    <3>1. n \in Nat /\ DOMAIN eventIdQueue = 1 .. n /\ DOMAIN eventIdQueue' = 1 .. n + 1
      BY <1>0, <2>4, LenProperties DEF TypeOK
    <3> HIDE DEF n
    <3>2. \A i \in 2 .. n + 1 : /\ i - 1 \in DOMAIN eventIdQueue
                               /\ eventIdQueue'[i] = eventIdQueue[i - 1]
                               /\ eventIdQueue'[i] # mine[p]
      <4>1. ASSUME NEW i \in 2 .. n + 1
            PROVE  i - 1 \in DOMAIN eventIdQueue /\ eventIdQueue'[i] = eventIdQueue[i - 1]
        BY <2>4, <3>1 DEF n
      <4>2. ASSUME NEW i \in DOMAIN eventIdQueue PROVE eventIdQueue[i] # mine[p]
        BY <2>6 DEF ToSet
      <4> QED  BY <4>1, <4>2
    <3>3. ASSUME NEW i \in 1 .. n + 1, NEW j \in 1 .. n + 1, eventIdQueue'[i] = eventIdQueue'[j]
          PROVE  i = j
      <4>1. CASE i = 1 /\ j = 1
        BY <4>1
      <4>2. CASE i = 1 /\ j # 1
        BY <2>4, <3>1, <3>2, <3>3, <4>2
      <4>3. CASE i # 1 /\ j = 1
        BY <2>4, <3>1, <3>2, <3>3, <4>3
      <4>4. CASE i # 1 /\ j # 1
        <5>1. i \in 2 .. n + 1 /\ j \in 2 .. n + 1
          BY <3>1, <4>4
        <5>2. i - 1 = j - 1
          BY <1>0, <3>2, <3>3, <5>1 DEF IdsApart
        <5> QED  BY <5>1, <5>2
      <4> QED  BY <4>1, <4>2, <4>3, <4>4
    <3> QED  BY <3>1, <3>3
  <2>8. \A q \in Savers \ {p} : Preparing(q) => mine[q] # mine[p]
    BY <1>0, <2>2 DEF IdsApart
  <2>9. \A q \in Savers : pc[q] = "remove" => popped[q] # mine[p]
    BY <1>0, <2>2 DEF IdsApart
  <2>10. IdsApart'
    BY <1>0, <2>1, <2>2, <2>4, <2>7, <2>8, <2>9 DEF IdsApart
  <2> QED  BY <2>5, <2>10
<1>6. CASE Put(p)
  <2>1. /\ pc[p] = "put" /\ pc'[p] = "idle"
        /\ \A q \in Savers \ {p} : pc'[q] = pc[q]
        /\ UNCHANGED <<eventIdQueue, mine, popped, drawn>>
    BY <1>0, <1>6 DEF Put
  <2>2. \A q \in Savers : Preparing(q)' = Preparing(q)
    BY <2>1 DEF Preparing
  <2> QED  BY <1>0, <2>1, <2>2 DEF InUseIsDrawn, IdsApart
<1> QED  BY <1>1, <1>2, <1>3, <1>4, <1>5, <1>6 DEF SaveStep

LEMMA StoredStep ==
    ASSUME Inv, NEW p \in Savers, SaveStep(p)
    PROVE  QueuedIsStored'
<1>0. /\ TypeOK /\ InUseIsDrawn /\ IdsApart /\ QueuedIsStored
      /\ pc \in [Savers -> Labels]
      /\ mine \in [Savers -> Ids \cup {NoId}]
  BY DEF Inv, TypeOK
<1>1. \A q \in Savers \ {p} : pc'[q] = pc[q] /\ mine'[q] = mine[q]
  BY <1>0, OthersStay
<1> DEFINE Kept(id, ms) == id \in ms \/ \E q \in Savers : pc[q] = "put" /\ mine[q] = id
<1>2. \A id \in ToSet(eventIdQueue) : Kept(id, messages)
  BY <1>0 DEF QueuedIsStored, ToSet
<1>3. SUFFICES ASSUME NEW id \in ToSet(eventIdQueue')
               PROVE  id \in messages' \/ \E q \in Savers : pc'[q] = "put" /\ mine'[q] = id
  BY <1>3 DEF QueuedIsStored, ToSet
<1>4. CASE StartSave(p) \/ Size(p)
  <2>1. pc[p] # "put" /\ eventIdQueue' = eventIdQueue /\ messages' = messages
    BY <1>4 DEF StartSave, Size
  <2> QED  BY <1>1, <1>2, <1>3, <2>1
<1>5. CASE Pop(p)
  <2>1. pc[p] # "put" /\ eventIdQueue' = Tail(eventIdQueue) /\ messages' = messages
    BY <1>5 DEF Pop
  <2>2. id \in ToSet(eventIdQueue)
    BY <1>0, <1>3, <1>5, <2>1, PopNotEmpty, PopFront DEF TypeOK
  <2> QED  BY <1>1, <1>2, <2>1, <2>2
<1>6. CASE RemovePopped(p)
  <2>1. /\ pc[p] = "remove" /\ eventIdQueue' = eventIdQueue
        /\ messages' = messages \ {popped[p]}
    BY <1>6 DEF RemovePopped
  <2>2. id # popped[p]
    BY <1>0, <1>3, <2>1 DEF IdsApart
  <2> QED  BY <1>1, <1>2, <1>3, <2>1, <2>2
<1>7. CASE Push(p)
  <2>1. /\ pc[p] = "push" /\ pc'[p] = "put" /\ mine' = mine
        /\ eventIdQueue' = <<mine[p]>> \o eventIdQueue /\ messages' = messages
    BY <1>0, <1>7 DEF Push
  <2>2. mine[p] \in Ids
    <3>1. mine[p] \in drawn
      BY <1>0, <2>1 DEF InUseIsDrawn, Preparing
    <3> QED  BY <1>0, <3>1 DEF TypeOK
  <2>3. id = mine[p] \/ id \in ToSet(eventIdQueue)
    BY <1>0, <1>3, <2>1, <2>2, PushFront DEF TypeOK
  <2> QED  BY <1>1, <1>2, <2>1, <2>3
<1>8. CASE Put(p)
  <2>1. /\ eventIdQueue' = eventIdQueue /\ messages' = messages \cup {mine[p]}
    BY <1>8 DEF Put
  <2> QED  BY <1>1, <1>2, <1>3, <2>1
<1> QED  BY <1>4, <1>5, <1>6, <1>7, <1>8 DEF SaveStep

-----------------------------------------------------------------------------
LEMMA InvStep == Inv /\ [Next]_vars => Inv'
<1> SUFFICES ASSUME Inv, [Next]_vars PROVE Inv'
  OBVIOUS
<1>1. ASSUME NEW p \in Savers, SaveStep(p) PROVE Inv'
  BY <1>1, TypeStep, CountsStep, IdsStep, StoredStep DEF Inv
<1>2. CASE UNCHANGED vars
  <2>1. UNCHANGED <<eventIdQueue, messages, drawn, popped, pc, mine>>
    BY <1>2 DEF vars
  <2>2. TypeOK' /\ PopFinds' /\ QueueBounded'
    BY <2>1 DEF Inv, TypeOK, PopFinds, QueueBounded, Pending
  <2>3. InUseIsDrawn' /\ IdsApart' /\ QueuedIsStored'
    BY <2>1 DEF Inv, InUseIsDrawn, IdsApart, QueuedIsStored, Preparing
  <2> QED  BY <2>2, <2>3 DEF Inv
<1> QED  BY <1>1, <1>2 DEF Next

LEMMA InvInit == Init => Inv
<1> SUFFICES ASSUME Init PROVE Inv
  OBVIOUS
<1>1. /\ eventIdQueue = <<>> /\ messages = {} /\ drawn = {}
      /\ pc = [p \in Savers |-> "idle"] /\ mine = [p \in Savers |-> NoId]
      /\ popped = [p \in Savers |-> NoId]
  BY DEF Init
<1>3. <<>> \in Seq(Ids) /\ Len(<<>>) = 0 /\ DOMAIN <<>> = {} /\ ToSet(<<>>) = {}
  BY DEF ToSet
<1>4. TypeOK
  BY <1>1, <1>3 DEF TypeOK, Labels
<1>5. {p \in Savers : pc[p] = "pop"} = {} /\ Pending = {}
  BY <1>1 DEF Pending
<1>6. PopFinds /\ QueueBounded
  <2>1. Cardinality({p \in Savers : pc[p] = "pop"}) = 0 /\ Cardinality(Pending) = 0
    BY <1>5, FS_EmptySet
  <2>2. Len(eventIdQueue) = 0 /\ MaxQueue \in Nat \ {0} /\ Cardinality(Savers) \in Nat
    BY <1>1, <1>3, QueueAssumption
  <2> QED  BY <2>1, <2>2 DEF PopFinds, QueueBounded
<1>7. \A p \in Savers : ~ Preparing(p)
  BY <1>1 DEF Preparing
<1>8. InUseIsDrawn /\ IdsApart /\ QueuedIsStored
  BY <1>1, <1>3, <1>7 DEF InUseIsDrawn, IdsApart, QueuedIsStored
<1> QED  BY <1>4, <1>6, <1>8 DEF Inv

LEMMA Invariant == Spec => []Inv
BY InvInit, InvStep, PTL DEF Spec

\* Every variable stays in its domain: a save has an id whenever it uses it.
THEOREM TypeCorrect == Spec => []TypeOK
<1>1. Inv => TypeOK
  BY DEF Inv
<1> QED  BY <1>1, Invariant, PTL

\* The queue exceeds MAX_QUEUE_SIZE by less than the number of threads that
\* save, however their checks and pushes interleave.
THEOREM Bounded == Spec => []QueueBounded
<1>1. Inv => QueueBounded
  BY DEF Inv
<1> QED  BY <1>1, Invariant, PTL

\* The pop of an eviction never meets an empty queue.
THEOREM PopSucceeds == Spec => []PopFinds
<1>1. Inv => PopFinds
  BY DEF Inv
<1> QED  BY <1>1, Invariant, PTL

\* What the queue lists the map holds, or is about to: no eviction takes the
\* message of an event that is still queued.
THEOREM Stored == Spec => []QueuedIsStored
<1>1. Inv => QueuedIsStored
  BY DEF Inv
<1> QED  BY <1>1, Invariant, PTL

=============================================================================
