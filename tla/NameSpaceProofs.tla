-------------------------- MODULE NameSpaceProofs --------------------------
(***************************************************************************)
(* Theorems about NameSpace, for every value of its constants.             *)
(***************************************************************************)
EXTENDS NameSpace, SequenceTheorems, FiniteSetTheorems, TLAPS

(* r is what remains of a after dropping its first elements.                *)
IsSuffixOf(r, a) ==
  \E k \in Nat : /\ Len(r) = Len(a) - k
                 /\ \A i \in 1 .. Len(r) : r[i] = a[i + k]

(* What is left of a queue after a push_back: a suffix of the queue with    *)
(* the new element at the end, the whole of it when there was room.         *)
LEMMA PushBackIsSuffix ==
  ASSUME NEW S, NEW q \in Seq(S), NEW n \in S, NEW cap \in Nat
  PROVE  /\ PushBack(q, n, cap) \in Seq(S)
         /\ IsSuffixOf(PushBack(q, n, cap), Append(q, n))
         /\ Len(q) < cap => PushBack(q, n, cap) = Append(q, n)
<1> DEFINE r == Append(q, n)
<1>1. /\ r \in Seq(S)
      /\ Len(r) = Len(q) + 1
      /\ Len(q) \in Nat
  BY AppendProperties, LenProperties
<1>2. CASE Len(r) <= cap
  <2>1. PushBack(q, n, cap) = r
    BY <1>2 DEF PushBack
  <2>2. IsSuffixOf(r, r)
    BY <1>1, 0 \in Nat, \A i \in 1 .. Len(r) : i + 0 = i DEF IsSuffixOf
  <2>3. QED
    BY <1>1, <2>1, <2>2
<1>3. CASE ~(Len(r) <= cap)
  <2> DEFINE k == Len(r) - cap
  <2>1. PushBack(q, n, cap) = SubSeq(r, k + 1, Len(r))
    BY <1>3 DEF PushBack
  <2>2. k \in Nat /\ k + 1 \in Int /\ Len(r) \in Int
    BY <1>1, <1>3
  <2>3. \A i \in (k + 1) .. Len(r) : r[i] \in S
    BY <1>1, <2>2, ElementOfSeq
  <2>4. /\ SubSeq(r, k + 1, Len(r)) \in Seq(S)
        /\ Len(SubSeq(r, k + 1, Len(r)))
             = IF k + 1 <= Len(r) THEN Len(r) - (k + 1) + 1 ELSE 0
        /\ \A i \in 1 .. (Len(r) - (k + 1) + 1) :
             SubSeq(r, k + 1, Len(r))[i] = r[(k + 1) + i - 1]
    <3> HIDE DEF k, r
    <3> QED
      BY <2>2, <2>3, SubSeqProperties
  <2>5. Len(SubSeq(r, k + 1, Len(r))) = Len(r) - k
    BY <1>1, <1>3, <2>4
  <2>6. \A i \in 1 .. Len(SubSeq(r, k + 1, Len(r))) :
          SubSeq(r, k + 1, Len(r))[i] = r[i + k]
    BY <1>1, <2>2, <2>4, <2>5
  <2>7. IsSuffixOf(SubSeq(r, k + 1, Len(r)), r)
    <3> HIDE DEF k, r
    <3> QED
      BY <2>2, <2>5, <2>6 DEF IsSuffixOf
  <2>8. ~(Len(q) < cap)
    BY <1>1, <1>3
  <2>9. QED
    BY <2>1, <2>4, <2>7, <2>8
<1>4. QED
  BY <1>2, <1>3

LEMMA GrownCapNat ==
  ASSUME NEW len \in Nat
  PROVE  GrownCap(len) \in Nat
BY NameSpaceAssumption DEF GrownCap

LEMMA NameOfFacts ==
  ASSUME TypeOK, NEW slot \in Nat, slot <= capacity
  PROVE  /\ NameOf(slot) \in 0 .. NameSpan - 1
         /\ NameOf(slot) <= slot
         /\ slot < NameSpan => NameOf(slot) = slot
BY NameSpaceAssumption DEF NameOf, TypeOK

(* The slot create_name takes is at most capacity, and the queue left over  *)
(* is a part of the queue there was.                                        *)
LEMMA NextSlotFacts ==
  ASSUME TypeOK, NEW slot \in 0 .. NameBound - 1, CreateName(slot)
  PROVE  /\ slot \in Nat
         /\ slot <= capacity
         /\ queue' \in Seq(Names)
         /\ queue = << >> => queue' = << >> /\ IsFirstClear(slot)
         /\ queue # << >> => /\ slot = queue[1]
                             /\ slot \in Names
                             /\ Len(queue') = Len(queue) - 1
                             /\ \A i \in 1 .. Len(queue') :
                                  queue'[i] = queue[i + 1]
<1> USE NameSpaceAssumption
<1>1. CASE queue = << >>
  <2>1. IsFirstClear(slot) /\ queue' = queue
    BY <1>1 DEF CreateName, IsNextSlot
  <2>2. slot \in LastWord \cup {capacity}
    BY <2>1 DEF IsFirstClear
  <2>3. QED
    BY <1>1, <2>1, <2>2 DEF TypeOK, LastWord
<1>2. CASE queue # << >>
  <2>1. slot = Head(queue) /\ queue' = Tail(queue)
    BY <1>2 DEF CreateName, IsNextSlot
  <2>2. /\ Head(queue) \in Names
        /\ Tail(queue) \in Seq(Names)
        /\ Len(Tail(queue)) = Len(queue) - 1
        /\ \A i \in 1 .. Len(Tail(queue)) : Tail(queue)[i] = queue[i + 1]
    BY <1>2, HeadTailProperties DEF TypeOK
  <2>3. Head(queue) = queue[1]
    BY <1>2 DEF TypeOK
  <2>4. slot \in Nat /\ slot <= capacity
    BY <2>1, <2>2 DEF Names, TypeOK
  <2>5. QED
    BY <1>2, <2>1, <2>2, <2>3, <2>4
<1>3. QED
  BY <1>1, <1>2

-----------------------------------------------------------------------------

(* The capacity a step leaves covers the name it marks or queues.           *)
LEMMA TypeStep == TypeOK /\ [Next]_vars => TypeOK'
<1> USE NameSpaceAssumption
<1> SUFFICES ASSUME TypeOK, [Next]_vars PROVE TypeOK'
  OBVIOUS
<1>1. ASSUME NEW slot \in 0 .. NameBound - 1, CreateName(slot)
      PROVE  TypeOK'
  <2>1. slot \in Nat /\ slot <= capacity /\ queue' \in Seq(Names)
    BY <1>1, NextSlotFacts
  <2>2. NameOf(slot) \in 0 .. NameSpan - 1 /\ NameOf(slot) <= capacity
    BY <2>1, NameOfFacts DEF TypeOK
  <2>3. /\ capacity' \in Positions .. NameSpan + Positions - 1
        /\ capacity' >= capacity
        /\ NameOf(slot) \in 0 .. capacity' - 1
    BY <1>1, <2>2 DEF CreateName, TypeOK
  <2>4. Names \subseteq Names' /\ NameOf(slot) \in Names'
    BY <2>2, <2>3 DEF Names, TypeOK
  <2>5. queue' \in Seq(Names')
    BY <2>1, <2>4, SeqMonotonic
  <2>6. named' \in SUBSET Names' /\ created' \in SUBSET Names'
    BY <1>1, <2>4 DEF CreateName, TypeOK
  <2>7. queueCap' \in Nat /\ count' \in Int
    BY <1>1 DEF CreateName, TypeOK
  <2>8. QED
    BY <2>3, <2>5, <2>6, <2>7 DEF TypeOK
<1>2. ASSUME NEW n \in 0 .. capacity - 1, DestroyName(n)
      PROVE  TypeOK'
  <2>1. queueCap' \in Nat
    BY <1>2, GrownCapNat, LenProperties DEF DestroyName, TypeOK
  <2>2. n \in Names
    BY <1>2 DEF DestroyName, Live, TypeOK
  <2>3. queue' \in Seq(Names)
    BY <1>2, <2>1, <2>2, PushBackIsSuffix DEF DestroyName, TypeOK
  <2>4. Names' = Names
    BY <1>2 DEF DestroyName, Names
  <2>5. QED
    BY <1>2, <2>1, <2>3, <2>4 DEF DestroyName, TypeOK
<1>3. ASSUME NEW n \in 0 .. capacity - 1, DetachName(n)
      PROVE  TypeOK'
  BY <1>3 DEF DetachName, TypeOK, Names
<1>4. ASSUME NEW n \in 0 .. capacity - 1, SetUserBit(n)
      PROVE  TypeOK'
  BY <1>4 DEF SetUserBit, TypeOK, Names
<1>5. CASE UNCHANGED vars
  BY <1>5 DEF vars, TypeOK, Names
<1>6. QED
  BY <1>1, <1>2, <1>3, <1>4, <1>5 DEF Next

(* The namespace keeps its types: in particular no bit is ever set and no   *)
(* name queued outside the bitfield, which is grown in time.                *)
THEOREM NameSpaceTypeOK == Spec => []TypeOK
<1>1. Init => TypeOK
  BY NameSpaceAssumption, EmptySeq DEF Init, TypeOK
<1>2. QED
  BY <1>1, TypeStep, PTL DEF Spec

-----------------------------------------------------------------------------

(* A released name waits in the queue once, and nobody holds it.            *)
LEMMA QueueStep == TypeOK /\ QueueIsFreeList /\ [Next]_vars => QueueIsFreeList'
<1> USE NameSpaceAssumption
<1> SUFFICES ASSUME TypeOK, QueueIsFreeList, [Next]_vars
             PROVE  QueueIsFreeList'
  OBVIOUS
<1>1. ASSUME NEW slot \in 0 .. NameBound - 1, CreateName(slot)
      PROVE  QueueIsFreeList'
  <2>1. CASE queue = << >>
    <3>1. queue' = << >>
      BY <1>1, <2>1, NextSlotFacts
    <3>2. QED
      BY <3>1 DEF QueueIsFreeList
  <2>2. CASE queue # << >>
    <3>1. /\ slot = queue[1]
          /\ slot \in Names
          /\ slot <= capacity
          /\ Len(queue') = Len(queue) - 1
          /\ \A i \in 1 .. Len(queue') : queue'[i] = queue[i + 1]
      BY <1>1, <2>2, NextSlotFacts
    <3>2. Len(queue) \in Nat /\ Len(queue) > 0
      BY <2>2, EmptySeq DEF TypeOK
    <3>3. ASSUME NEW i \in 1 .. Len(queue')
          PROVE  queue'[i] # slot /\ queue'[i] \notin Live
      <4>1. queue'[i] = queue[i + 1] /\ i + 1 \in 1 .. Len(queue) /\ i + 1 # 1
        BY <3>1, <3>2
      <4>2. 1 \in 1 .. Len(queue)
        BY <3>2
      <4>3. queue[i + 1] \notin Live /\ queue[i + 1] # queue[1]
        BY <4>1, <4>2 DEF QueueIsFreeList
      <4>4. QED
        BY <3>1, <4>1, <4>3
    <3>4. NameOf(slot) = slot
      BY <3>1, NameOfFacts DEF Names
    <3>5. Live' \subseteq Live \cup {slot}
      BY <1>1, <3>4 DEF CreateName, Live
    <3>6. ASSUME NEW i \in 1 .. Len(queue'), NEW j \in 1 .. Len(queue'),
                 queue'[i] = queue'[j]
          PROVE  i = j
      <4>1. /\ i \in Nat /\ j \in Nat
            /\ i + 1 \in 1 .. Len(queue) /\ j + 1 \in 1 .. Len(queue)
        BY <3>1, <3>2
      <4>2. queue[i + 1] = queue[j + 1]
        BY <3>1, <3>6
      <4>3. i + 1 = j + 1
        BY <4>1, <4>2 DEF QueueIsFreeList
      <4>4. QED
        BY <4>1, <4>3
    <3>7. \A i \in 1 .. Len(queue') : queue'[i] \notin Live'
      BY <3>3, <3>5
    <3>8. QED
      BY <3>6, <3>7 DEF QueueIsFreeList
  <2>3. QED
    BY <2>1, <2>2
<1>2. ASSUME NEW n \in 0 .. capacity - 1, DestroyName(n)
      PROVE  QueueIsFreeList'
  <2>1. n \in Live /\ n \in Names /\ Live' = Live \ {n}
    BY <1>2 DEF DestroyName, Live, TypeOK
  <2>2. queueCap' \in Nat /\ queue' = PushBack(queue, n, queueCap')
    BY <1>2, GrownCapNat, LenProperties DEF DestroyName, TypeOK
  <2>3. Len(Append(queue, n)) = Len(queue) + 1 /\ IsSuffixOf(queue', Append(queue, n))
    <3>1. queue \in Seq(Names)
      BY DEF TypeOK
    <3>2. IsSuffixOf(PushBack(queue, n, queueCap'), Append(queue, n))
      BY <2>1, <2>2, <3>1, PushBackIsSuffix
    <3>3. Len(Append(queue, n)) = Len(queue) + 1
      BY <2>1, <3>1, AppendProperties
    <3>4. QED
      BY <2>2, <3>2, <3>3
  <2> PICK k \in Nat :
        /\ Len(queue') = Len(Append(queue, n)) - k
        /\ \A i \in 1 .. Len(queue') : queue'[i] = Append(queue, n)[i + k]
    BY <2>3, Zenon DEF IsSuffixOf
  <2>4. /\ Len(queue) \in Nat
        /\ \A i \in 1 .. Len(queue) : Append(queue, n)[i] = queue[i]
        /\ Append(queue, n)[Len(queue) + 1] = n
    BY <2>1, AppendProperties, LenProperties DEF TypeOK
  <2>5. \A i \in 1 .. Len(queue) + 1 :
          /\ Append(queue, n)[i] \notin Live'
          /\ \A j \in 1 .. Len(queue) + 1 :
               Append(queue, n)[i] = Append(queue, n)[j] => i = j
    <3>1. \A i \in 1 .. Len(queue) + 1 : i \in 1 .. Len(queue) \/ i = Len(queue) + 1
      BY <2>4
    <3>2. QED
      BY <2>1, <2>4, <3>1 DEF QueueIsFreeList
  <2>6. \A i \in 1 .. Len(queue') : i + k \in 1 .. Len(queue) + 1
    BY <2>3, <2>4
  <2>7. ASSUME NEW i \in 1 .. Len(queue'), NEW j \in 1 .. Len(queue'),
               queue'[i] = queue'[j]
        PROVE  i = j
    <3>1. Append(queue, n)[i + k] = Append(queue, n)[j + k]
      BY <2>7
    <3>2. i + k = j + k
      BY <2>5, <2>6, <3>1
    <3>3. QED
      BY <3>2
  <2>8. \A i \in 1 .. Len(queue') : queue'[i] \notin Live'
    BY <2>5, <2>6
  <2>9. QED
    BY <2>7, <2>8 DEF QueueIsFreeList
<1>3. ASSUME NEW n \in 0 .. capacity - 1, DetachName(n)
      PROVE  QueueIsFreeList'
  BY <1>3 DEF DetachName, QueueIsFreeList, Live
<1>4. ASSUME NEW n \in 0 .. capacity - 1, SetUserBit(n)
      PROVE  QueueIsFreeList'
  BY <1>4 DEF SetUserBit, QueueIsFreeList, Live
<1>5. CASE UNCHANGED vars
  BY <1>5 DEF vars, QueueIsFreeList, Live
<1>6. QED
  BY <1>1, <1>2, <1>3, <1>4, <1>5 DEF Next

THEOREM NameSpaceQueue == Spec => []QueueIsFreeList
<1>1. Init => QueueIsFreeList
  BY DEF Init, QueueIsFreeList
<1>2. QED
  BY <1>1, QueueStep, NameSpaceTypeOK, PTL DEF Spec

-----------------------------------------------------------------------------

(* The slot create_name takes, from the queue or the bitfield, is its name, *)
(* and has no bit set.                                                      *)
LEMMA FreshStep ==
  ASSUME NameBound <= NameSpan, TypeOK, QueueIsFreeList,
         NEW slot \in 0 .. NameBound - 1, CreateName(slot)
  PROVE  NameOf(slot) = slot /\ slot \notin Live
<1> USE NameSpaceAssumption
<1>1. slot \in Nat /\ slot <= capacity /\ slot < NameSpan
  BY NextSlotFacts
<1>2. NameOf(slot) = slot
  BY <1>1, NameOfFacts
<1>3. CASE queue = << >>
  BY <1>2, <1>3, NextSlotFacts DEF IsFirstClear
<1>4. CASE queue # << >>
  <2>1. slot = queue[1] /\ Len(queue) \in Nat /\ Len(queue) > 0
    BY <1>4, NextSlotFacts, EmptySeq DEF TypeOK
  <2>2. QED
    BY <1>2, <2>1 DEF QueueIsFreeList
<1>5. QED
  BY <1>2, <1>3, <1>4

(* As long as the slots in use stay below the 2^w values of a name_type,    *)
(* create_name returns a name nobody holds, detached names included.        *)
THEOREM NameSpaceFresh ==
  ASSUME NameBound <= NameSpan
  PROVE  Spec => FreshNames
<1>1. TypeOK /\ QueueIsFreeList /\ [Next]_vars =>
        [\A slot \in 0 .. NameBound - 1 :
           CreateName(slot) => NameOf(slot) \notin Live]_vars
  BY FreshStep
<1>2. QED
  BY <1>1, NameSpaceTypeOK, NameSpaceQueue, PTL DEF Spec, FreshNames

-----------------------------------------------------------------------------

(* How many names can be in use or queued at once.                          *)
MostNames == IF Finite THEN MaxNames ELSE NameBound

(* Whenever the queue is grown below that limit, the sum that gives its new *)
(* capacity does not wrap: C is any set that holds the capacities growth    *)
(* goes through.                                                            *)
QueueGrowthFits(C) ==
  /\ C \subseteq Nat
  /\ 0 \in C
  /\ \A c \in C : c < MostNames => /\ GrownCap(c) \in C
                                   /\ c < GrownCap(c)

(* The hypothesis is true of what the library instantiates: semaphore       *)
(* indices are 192 names in 8 bits, report indices 2048 names in 16 bits.   *)
LEMMA SemaphoreQueueFits ==
  ASSUME Finite, MaxNames = 192, NameSpan = 256
  PROVE  QueueGrowthFits({0, 1, 2, 3, 4, 6, 9, 13, 19, 28, 42, 63, 94, 141, 211})
  BY DEF QueueGrowthFits, MostNames, GrownCap

LEMMA ReportQueueFits ==
  ASSUME Finite, MaxNames = 2048, NameSpan = 65536
  PROVE  QueueGrowthFits({0, 1, 2, 3, 4, 6, 9, 13, 19, 28, 42, 63, 94, 141, 211, 316,
                          474, 711, 1066, 1599, 2398})
  BY DEF QueueGrowthFits, MostNames, GrownCap

(* Everything the namespace gave out lies below MostNames, the queue has    *)
(* always had room, and a finite namespace counts the names in use.         *)
NamesBelowLimit ==
  /\ \A n \in Live : n < MostNames
  /\ \A i \in 1 .. Len(queue) : queue[i] < MostNames
  /\ Finite => IsFiniteSet(Live) /\ count = Cardinality(Live)

Accounting(C) ==
  /\ NoNameLost
  /\ NamesBelowLimit
  /\ queueCap \in C
  /\ Len(queue) <= queueCap

FullInv(C) == TypeOK /\ QueueIsFreeList /\ Accounting(C)

(* Distinct names below a limit fit in a queue of that length, and one that *)
(* is not in the queue leaves room for itself.                              *)
LEMMA QueueShorterThanLimit ==
  ASSUME TypeOK, QueueIsFreeList, NamesBelowLimit, NEW n \in Live
  PROVE  Len(queue) < MostNames
<1> DEFINE S == 0 .. Len(queue)
           T == 0 .. MostNames - 1
           f == [i \in S |-> IF i = 0 THEN n ELSE queue[i]]
<1> USE NameSpaceAssumption
<1>1. Len(queue) \in Nat /\ MostNames \in Nat
  BY LenProperties DEF TypeOK, MostNames
<1>2. n \in T
  BY <1>1 DEF TypeOK, Names, Live, NamesBelowLimit
<1>3. \A i \in 1 .. Len(queue) : queue[i] \in T
  <2>1. \A i \in 1 .. Len(queue) : queue[i] \in Names
    BY ElementOfSeq DEF TypeOK
  <2>2. QED
    BY <1>1, <2>1 DEF Names, NamesBelowLimit
<1>4. f \in [S -> T]
  BY <1>1, <1>2, <1>3
<1>5. \A x, y \in S : x # y => f[x] # f[y]
  BY <1>1 DEF QueueIsFreeList
<1>6. /\ IsFiniteSet(S) /\ Cardinality(S) = Len(queue) + 1
      /\ IsFiniteSet(T) /\ Cardinality(T) = MostNames
  <2>1. IsFiniteSet(S) /\ Cardinality(S) = Len(queue) + 1
    <3>1. /\ 0 \in Int /\ Len(queue) \in Int /\ ~(0 > Len(queue))
          /\ Len(queue) - 0 + 1 = Len(queue) + 1
      BY <1>1
    <3>2. QED
      BY <3>1, FS_Interval
  <2>2. IsFiniteSet(T) /\ Cardinality(T) = MostNames
    <3>1. /\ 0 \in Int /\ MostNames - 1 \in Int
          /\ 0 > MostNames - 1 => MostNames = 0
          /\ (MostNames - 1) - 0 + 1 = MostNames
      BY <1>1
    <3>2. QED
      BY <3>1, FS_Interval
  <2>3. QED
    BY <2>1, <2>2
<1>7. ~(Cardinality(T) < Cardinality(S))
  <2> HIDE DEF S, T, f
  <2> QED
    BY <1>4, <1>5, <1>6, FS_PigeonHole
<1>8. QED
  BY <1>1, <1>6, <1>7

(* When nothing is queued, every slot below the one create_name takes is in *)
(* use, so a finite namespace that is not full takes one below MaxNames.    *)
LEMMA FirstClearFacts ==
  ASSUME TypeOK, QueueIsFreeList, NoNameLost, NamesBelowLimit,
         NEW slot \in 0 .. NameBound - 1, CreateName(slot), queue = << >>
  PROVE  /\ 0 .. slot - 1 \subseteq Live
         /\ slot \notin Live
         /\ slot < MostNames
<1> USE NameSpaceAssumption
<1>1. slot \in Nat /\ slot <= capacity /\ IsFirstClear(slot)
  BY NextSlotFacts
<1>2. ASSUME NEW m \in 0 .. slot - 1
      PROVE  m \in Live
  <2>1. m \in 0 .. capacity - 1
    BY <1>1 DEF TypeOK
  <2>2. CASE m \in LastWord
    BY <1>1, <2>2 DEF IsFirstClear
  <2>3. CASE m \notin LastWord
    <3>1. Len(queue) = 0
      BY EmptySeq
    <3>2. QED
      BY <2>1, <2>3, <3>1 DEF NoNameLost, Accounted
  <2>4. QED
    BY <2>2, <2>3
<1>3. slot < MostNames
  <2>1. CASE ~Finite
    BY <2>1 DEF MostNames
  <2>2. CASE Finite
    <3>1. /\ IsFiniteSet(Live) /\ count = Cardinality(Live)
          /\ Live \subseteq 0 .. MaxNames - 1
          /\ count # MaxNames
      BY <2>2 DEF NamesBelowLimit, MostNames, TypeOK, Names, Live,
                  CreateName, IsFull
    <3>2. /\ IsFiniteSet(0 .. MaxNames - 1)
          /\ Cardinality(0 .. MaxNames - 1) = MaxNames
      BY FS_Interval
    <3>3. Cardinality(Live) \in Nat /\ Cardinality(Live) <= MaxNames
      BY <3>1, <3>2, FS_Subset, FS_CardinalityType
    <3>4. Cardinality(0 .. slot - 1) = slot
      <4>1. CASE slot = 0
        BY <4>1, FS_Interval
      <4>2. CASE slot # 0
        BY <1>1, <4>2, FS_Interval
      <4>3. QED
        BY <4>1, <4>2
    <3>5. slot <= Cardinality(Live)
      <4>1. 0 .. slot - 1 \in SUBSET Live
        BY <1>2
      <4>2. QED
        BY <3>1, <3>4, <4>1, FS_Subset
    <3>6. QED
      BY <1>1, <2>2, <3>1, <3>3, <3>5 DEF MostNames
  <2>3. QED
    BY <2>1, <2>2
<1>4. QED
  BY <1>1, <1>2, <1>3 DEF IsFirstClear

LEMMA CreateKeepsInv ==
  ASSUME NameBound <= NameSpan, NEW C, FullInv(C),
         NEW slot \in 0 .. NameBound - 1, CreateName(slot)
  PROVE  Accounting(C)'
<1> USE NameSpaceAssumption
<1>1. /\ TypeOK /\ QueueIsFreeList /\ NoNameLost /\ NamesBelowLimit
      /\ queueCap \in C /\ Len(queue) <= queueCap
  BY DEF FullInv, Accounting
<1>2. slot \in Nat /\ slot <= capacity /\ slot < NameSpan
  BY <1>1, NextSlotFacts
<1>3. NameOf(slot) = slot
  BY <1>1, <1>2, NameOfFacts
<1>4. /\ Live' = Live \cup {slot}
      /\ capacity' = IF slot >= capacity THEN capacity + Positions ELSE capacity
      /\ queueCap' = queueCap
      /\ count' = IF Finite THEN count + 1 ELSE count
  BY <1>3 DEF CreateName, Live
<1>5. Len(queue) \in Nat /\ queueCap \in Nat
  BY <1>1, LenProperties DEF TypeOK
<1>6. CASE queue = << >>
  <2>1. queue' = << >> /\ IsFirstClear(slot) /\ Len(queue) = 0
    BY <1>1, <1>6, NextSlotFacts, EmptySeq
  <2>2. 0 .. slot - 1 \subseteq Live /\ slot \notin Live /\ slot < MostNames
    BY <1>1, <1>6, FirstClearFacts
  <2>3. NoNameLost'
    <3>1. ASSUME NEW n \in 0 .. capacity' - 1, ~Accounted(n)'
          PROVE  /\ n \in LastWord'
                 /\ \A m \in n .. capacity' - 1 : ~Accounted(m)'
      <4>1. n \notin Live /\ n # slot /\ n > slot
        BY <1>2, <1>4, <2>2, <3>1 DEF Accounted, TypeOK
      <4>2. \A m \in n .. capacity' - 1 : m \notin Live
        <5>1. CASE slot = capacity
          BY <1>1, <1>2, <4>1, <5>1 DEF TypeOK, Names, Live
        <5>2. CASE slot < capacity
          <6>1. capacity' = capacity
            BY <1>1, <1>4, <5>2 DEF TypeOK
          <6>2. ~Accounted(n)
            BY <2>1, <4>1 DEF Accounted
          <6>3. QED
            BY <1>1, <3>1, <6>1, <6>2 DEF NoNameLost, Accounted
        <5>3. QED
          BY <1>1, <1>2, <5>1, <5>2 DEF TypeOK
      <4>3. \A m \in n .. capacity' - 1 : ~Accounted(m)'
        BY <1>2, <1>4, <2>1, <4>1, <4>2, EmptySeq DEF Accounted, TypeOK
      <4>4. n \in LastWord'
        <5>1. CASE slot = capacity
          BY <1>1, <1>4, <4>1, <5>1 DEF LastWord, TypeOK
        <5>2. CASE slot < capacity
          <6>1. capacity' = capacity
            BY <1>1, <1>4, <5>2 DEF TypeOK
          <6>2. slot \in LastWord
            BY <1>1, <2>1, <5>2 DEF IsFirstClear, TypeOK
          <6>3. QED
            BY <1>1, <4>1, <6>1, <6>2 DEF LastWord, TypeOK
        <5>3. QED
          BY <1>1, <1>2, <5>1, <5>2 DEF TypeOK
      <4>5. QED
        BY <4>3, <4>4
    <3>2. QED
      BY <3>1 DEF NoNameLost
  <2>4. NamesBelowLimit'
    <3>1. Finite => IsFiniteSet(Live)' /\ count' = Cardinality(Live)'
      BY <1>1, <1>4, <2>2, FS_AddElement DEF NamesBelowLimit
    <3>2. QED
      BY <1>1, <1>4, <2>1, <2>2, <3>1 DEF NamesBelowLimit, MostNames
  <2>5. QED
    BY <1>1, <1>4, <1>5, <2>1, <2>3, <2>4 DEF Accounting
<1>7. CASE queue # << >>
  <2>1. /\ slot = queue[1]
        /\ slot \in Names
        /\ Len(queue') = Len(queue) - 1
        /\ \A i \in 1 .. Len(queue') : queue'[i] = queue[i + 1]
        /\ Len(queue) > 0
    BY <1>1, <1>7, NextSlotFacts, EmptySeq DEF TypeOK
  <2>2. slot \notin Live /\ slot < MostNames
    BY <1>1, <1>5, <2>1 DEF QueueIsFreeList, NamesBelowLimit
  <2>3. capacity' = capacity
    BY <1>1, <1>4, <2>1 DEF Names, TypeOK
  <2>4. \A n : Accounted(n)' <=> Accounted(n)
    <3>1. ASSUME NEW n, NEW i \in 1 .. Len(queue), queue[i] = n
          PROVE  n = slot \/ \E j \in 1 .. Len(queue') : queue'[j] = n
      <4>1. CASE i = 1
        BY <2>1, <3>1, <4>1
      <4>2. CASE i # 1
        <5>1. i - 1 \in 1 .. Len(queue') /\ queue'[i - 1] = queue[i]
          BY <1>5, <2>1, <4>2
        <5>2. QED
          BY <3>1, <5>1
      <4>3. QED
        BY <4>1, <4>2
    <3>2. ASSUME NEW n, NEW j \in 1 .. Len(queue'), queue'[j] = n
          PROVE  \E i \in 1 .. Len(queue) : queue[i] = n
      BY <1>5, <2>1, <3>2
    <3>3. 1 \in 1 .. Len(queue)
      BY <1>5, <2>1
    <3>4. QED
      BY <1>4, <2>1, <3>1, <3>2, <3>3 DEF Accounted
  <2>5. NoNameLost'
    <3>1. LastWord' = LastWord
      BY <2>3 DEF LastWord
    <3>2. QED
      BY <1>1, <2>3, <2>4, <3>1 DEF NoNameLost
  <2>6. NamesBelowLimit'
    <3>1. Finite => IsFiniteSet(Live)' /\ count' = Cardinality(Live)'
      BY <1>1, <1>4, <2>2, FS_AddElement DEF NamesBelowLimit
    <3>2. \A i \in 1 .. Len(queue') : i + 1 \in 1 .. Len(queue)
      BY <1>5, <2>1
    <3>3. QED
      BY <1>1, <1>4, <2>1, <2>2, <3>1, <3>2 DEF NamesBelowLimit, MostNames
  <2>7. QED
    BY <1>1, <1>4, <1>5, <2>1, <2>5, <2>6 DEF Accounting
<1>8. QED
  BY <1>6, <1>7

LEMMA DestroyKeepsInv ==
  ASSUME NEW C, QueueGrowthFits(C), FullInv(C),
         NEW n \in 0 .. capacity - 1, DestroyName(n)
  PROVE  Accounting(C)'
<1> USE NameSpaceAssumption
<1>1. /\ TypeOK /\ QueueIsFreeList /\ NoNameLost /\ NamesBelowLimit
      /\ queueCap \in C /\ Len(queue) <= queueCap
  BY DEF FullInv, Accounting
<1>2. /\ n \in Live /\ n \in Names /\ Live' = Live \ {n}
      /\ capacity' = capacity
      /\ count' = IF Finite THEN count - 1 ELSE count
  BY <1>1 DEF DestroyName, Live, TypeOK
<1>3. Len(queue) \in Nat /\ queueCap \in Nat /\ queue \in Seq(Names)
  BY <1>1, LenProperties DEF TypeOK
<1>4. Len(queue) < MostNames
  BY <1>1, <1>2, QueueShorterThanLimit
<1>5. /\ queueCap' \in C
      /\ Len(queue) < queueCap'
      /\ queueCap' \in Nat
  <2>1. CASE Len(queue) = queueCap
    <3>1. queueCap' = GrownCap(queueCap)
      BY <2>1 DEF DestroyName
    <3>2. GrownCap(queueCap) \in C /\ queueCap < GrownCap(queueCap)
      BY <1>1, <1>4, <2>1 DEF QueueGrowthFits
    <3>3. GrownCap(queueCap) \in Nat
      BY <1>3, GrownCapNat
    <3>4. QED
      BY <2>1, <3>1, <3>2, <3>3
  <2>2. CASE Len(queue) # queueCap
    BY <1>1, <1>3, <2>2 DEF DestroyName
  <2>3. QED
    BY <2>1, <2>2
<1>6. queue' = Append(queue, n)
  <2>1. queue' = PushBack(queue, n, queueCap')
    BY DEF DestroyName
  <2>2. QED
    BY <1>2, <1>3, <1>5, <2>1, PushBackIsSuffix
<1>7. /\ Len(queue') = Len(queue) + 1
      /\ \A i \in 1 .. Len(queue) : queue'[i] = queue[i]
      /\ queue'[Len(queue) + 1] = n
  BY <1>2, <1>3, <1>6, AppendProperties
<1>8. \A m : Accounted(m)' <=> Accounted(m)
  <2>1. \A i \in 1 .. Len(queue') : i \in 1 .. Len(queue) \/ i = Len(queue) + 1
    BY <1>3, <1>7
  <2>2. \A i \in 1 .. Len(queue) + 1 : i \in 1 .. Len(queue')
    BY <1>3, <1>7
  <2>3. Len(queue) + 1 \in 1 .. Len(queue')
    BY <1>3, <1>7
  <2>4. \A i \in 1 .. Len(queue) : i \in 1 .. Len(queue')
    BY <1>3, <1>7
  <2>5. ASSUME NEW m, Accounted(m)
        PROVE  Accounted(m)'
    BY <1>2, <1>7, <2>3, <2>4, <2>5 DEF Accounted
  <2>6. ASSUME NEW m, Accounted(m)'
        PROVE  Accounted(m)
    BY <1>2, <1>7, <2>1, <2>6 DEF Accounted
  <2>7. QED
    BY <2>5, <2>6
<1>9. NoNameLost'
  <2>1. LastWord' = LastWord
    BY <1>2 DEF LastWord
  <2>2. QED
    BY <1>1, <1>2, <1>8, <2>1 DEF NoNameLost
<1>10. NamesBelowLimit'
  <2>1. Finite => IsFiniteSet(Live)' /\ count' = Cardinality(Live)'
    BY <1>1, <1>2, FS_RemoveElement DEF NamesBelowLimit
  <2>2. \A i \in 1 .. Len(queue') : queue'[i] < MostNames
    <3>1. \A i \in 1 .. Len(queue') : i \in 1 .. Len(queue) \/ i = Len(queue) + 1
      BY <1>3, <1>7
    <3>2. n < MostNames /\ \A i \in 1 .. Len(queue) : queue[i] < MostNames
      BY <1>1, <1>2 DEF NamesBelowLimit
    <3>3. QED
      BY <1>7, <3>1, <3>2
  <2>3. \A m \in Live' : m < MostNames
    BY <1>1, <1>2 DEF NamesBelowLimit
  <2>4. QED
    BY <2>1, <2>2, <2>3 DEF NamesBelowLimit, MostNames
<1>11. QED
  BY <1>3, <1>5, <1>7, <1>9, <1>10 DEF Accounting

-----------------------------------------------------------------------------

(* Every step keeps what is accounted for.                                  *)
LEMMA AccountingStep ==
  ASSUME NameBound <= NameSpan, NEW C, QueueGrowthFits(C), FullInv(C), [Next]_vars
  PROVE  Accounting(C)'
<1> USE NameSpaceAssumption
<1>1. ASSUME NEW slot \in 0 .. NameBound - 1, CreateName(slot)
      PROVE  Accounting(C)'
  BY <1>1, CreateKeepsInv
<1>2. ASSUME NEW n \in 0 .. capacity - 1, DestroyName(n)
      PROVE  Accounting(C)'
  BY <1>2, DestroyKeepsInv
<1>3. ASSUME UNCHANGED <<capacity, queue, queueCap, count>>, Live' = Live
      PROVE  Accounting(C)'
  <2>1. LastWord' = LastWord /\ \A m : Accounted(m)' <=> Accounted(m)
    BY <1>3 DEF LastWord, Accounted
  <2>2. NoNameLost'
    BY <1>3, <2>1 DEF FullInv, Accounting, NoNameLost
  <2>3. NamesBelowLimit'
    BY <1>3 DEF FullInv, Accounting, NamesBelowLimit, MostNames
  <2>4. QED
    BY <1>3, <2>2, <2>3 DEF FullInv, Accounting
<1>4. ASSUME NEW n \in 0 .. capacity - 1, DetachName(n) \/ SetUserBit(n)
      PROVE  UNCHANGED <<capacity, queue, queueCap, count>> /\ Live' = Live
  BY <1>4 DEF DetachName, SetUserBit, Live
<1>5. CASE UNCHANGED vars
  BY <1>3, <1>5 DEF vars, Live
<1>6. QED
  BY <1>1, <1>2, <1>3, <1>4, <1>5 DEF Next

(* The inductive invariant behind NoNameLost and FiniteNamesInRange.        *)
LEMMA FullInvInductive ==
  ASSUME NameBound <= NameSpan, NEW C, QueueGrowthFits(C)
  PROVE  Spec => []FullInv(C)
<1> USE NameSpaceAssumption
<1>1. Init => Accounting(C)
  <2> SUFFICES ASSUME Init PROVE Accounting(C)
    OBVIOUS
  <2>1. Live = {} /\ Len(queue) = 0 /\ capacity = Positions
    BY EmptySeq DEF Init, Live
  <2>2. NoNameLost
    BY <2>1 DEF NoNameLost, Accounted, LastWord
  <2>3. NamesBelowLimit
    BY <2>1, FS_EmptySet DEF NamesBelowLimit, Init
  <2>4. QED
    BY <2>1, <2>2, <2>3 DEF Init, QueueGrowthFits, Accounting
<1>2. FullInv(C) /\ [Next]_vars => Accounting(C)'
  BY AccountingStep
<1>3. FullInv(C) <=> TypeOK /\ QueueIsFreeList /\ Accounting(C)
  BY DEF FullInv
<1>4. QED
  BY <1>1, <1>2, <1>3, NameSpaceTypeOK, NameSpaceQueue, PTL DEF Spec

(* Below the wrap of name_type no name is ever forgotten: what is not in    *)
(* use is queued or lies beyond every name given out so far.                *)
THEOREM NameSpaceNothingLost ==
  ASSUME NameBound <= NameSpan, NEW C, QueueGrowthFits(C)
  PROVE  Spec => []NoNameLost
<1>1. FullInv(C) => NoNameLost
  BY DEF FullInv, Accounting
<1>2. QED
  BY <1>1, FullInvInductive, PTL

(* A finite namespace gives out exactly the names 0 .. MaxNames - 1: every  *)
(* index addresses a hardware slot, and a refusal means all are taken.      *)
THEOREM NameSpaceInRange ==
  ASSUME NameBound <= NameSpan, NEW C, QueueGrowthFits(C)
  PROVE  Spec => []FiniteNamesInRange
<1> USE NameSpaceAssumption
<1>1. FullInv(C) => FiniteNamesInRange
  <2> SUFFICES ASSUME FullInv(C), Finite
               PROVE  /\ Live \subseteq 0 .. MaxNames - 1
                      /\ IsFull => Live = 0 .. MaxNames - 1
    BY DEF FiniteNamesInRange
  <2>1. Live \subseteq 0 .. MaxNames - 1
    BY DEF FullInv, Accounting, NamesBelowLimit, MostNames, TypeOK, Names, Live
  <2>2. ASSUME IsFull
        PROVE  Live = 0 .. MaxNames - 1
    <3>1. Cardinality(Live) = MaxNames
      BY <2>2 DEF FullInv, Accounting, NamesBelowLimit, IsFull
    <3>2. /\ IsFiniteSet(0 .. MaxNames - 1)
          /\ Cardinality(0 .. MaxNames - 1) = MaxNames
      BY FS_Interval
    <3>3. QED
      BY <2>1, <3>1, <3>2, FS_Subset
  <2>3. QED
    BY <2>1, <2>2
<1>2. QED
  BY <1>1, FullInvInductive, PTL

(* The bitfield grows only when every slot it has is in use.                *)
THEOREM NameSpaceGrowsWhenFull ==
  ASSUME NameBound <= NameSpan, NEW C, QueueGrowthFits(C)
  PROVE  Spec => GrowOnlyWhenFull
<1> USE NameSpaceAssumption
<1>1. FullInv(C) /\ [Next]_vars =>
        [capacity' # capacity => Live = 0 .. capacity - 1]_vars
  <2> SUFFICES ASSUME FullInv(C), NEW slot \in 0 .. NameBound - 1,
                      CreateName(slot), capacity' # capacity
               PROVE  Live = 0 .. capacity - 1
    BY DEF Next, DestroyName, DetachName, SetUserBit
  <2>1. TypeOK /\ QueueIsFreeList /\ NoNameLost /\ NamesBelowLimit
    BY DEF FullInv, Accounting
  <2>2. slot \in Nat /\ slot <= capacity /\ NameOf(slot) = slot
    BY <2>1, NextSlotFacts, NameOfFacts
  <2>3. slot = capacity
    BY <2>1, <2>2 DEF CreateName, TypeOK
  <2>4. queue = << >>
    BY <2>1, <2>3, NextSlotFacts DEF Names, TypeOK
  <2>5. 0 .. capacity - 1 \subseteq Live
    BY <2>1, <2>3, <2>4, FirstClearFacts
  <2>6. QED
    BY <2>1, <2>5 DEF TypeOK, Names, Live
<1>2. QED
  BY <1>1, FullInvInductive, PTL DEF Spec, GrowOnlyWhenFull

=============================================================================
