-------------------------- MODULE GLObjectsProofs --------------------------
(***************************************************************************)
(* For any buffers, targets and vertex arrays: the binding table and the   *)
(* bitfields of the buffers agree, the reference counts count, and what a  *)
(* target or a vertex array holds is a constructed object.                 *)
(*                                                                         *)
(* The three need each other.  A buffer is destroyed when its count is 0   *)
(* and it has been unbound as its bitfield says, so that only with exact   *)
(* counts and bitfields nobody is left to hold it; and counts stay exact   *)
(* because a name that is held is not given out again.  The last needs     *)
(* what NameSpaceProofs shows of the name space underneath.                *)
(*                                                                         *)
(* The query objects, which are GL objects with a module of their own, are *)
(* in the last part, for any number of queries, reports and commands.      *)
(***************************************************************************)
EXTENDS GLObjects, Queries, FunctionTheorems, FiniteSetTheorems, SequenceTheorems, TLAPS

NP == INSTANCE NameSpaceProofs

(* Which names stand for what: 0 for no buffer, a bound buffer is an object *)
(* of the application's, a referenced one is at least constructed, and what *)
(* is marked for deletion has no name any more.                             *)
Ownership ==
  /\ 0 \in named \ created
  /\ \A n \in BufferNames \ {0} : IsBound(n) => IsObject(n)
  /\ \A n \in BufferNames \ {0} : IsReferenced(n) => n \in created
  /\ \A n \in deleted : n # 0 /\ n \in created \ named

BitsAgree ==
  \A n \in BufferNames \ {0} :
    binding_bitfield[n] = {t \in Targets : buffer_binding[t] = n}

BindTypes ==
  /\ binding_bitfield \in [BufferNames -> SUBSET Targets]
  /\ buffer_binding \in [Targets -> BufferNames]

ArrayTypes ==
  /\ ref_count \in [BufferNames -> Nat]
  /\ buffers \in [VertexArrays -> [Attribs -> BufferNames]]
  /\ destructing \in [Attribs -> BufferNames]

OtherTypes ==
  /\ deleted \subseteq BufferNames
  /\ arrays \subseteq VertexArrays
  /\ {0, attribs_binding} \subseteq arrays

(* The inductive invariant, which is TypeOK and the properties, taken apart *)
(* by what the steps change together.                                       *)
ObjectsInv ==
  /\ Names!TypeOK /\ Names!QueueIsFreeList
  /\ BindTypes /\ BitsAgree
  /\ ArrayTypes /\ RefsCounted
  /\ OtherTypes
  /\ Ownership

-----------------------------------------------------------------------------
(* The name space.                                                          *)

LEMMA NameConstants == NP!NameSpaceAssumption
  BY GLObjectsAssumption DEF NP!NameSpaceAssumption, MaxNames, Finite, UserBit

LEMMA SameState ==
  /\ NP!TypeOK <=> Names!TypeOK
  /\ NP!TypeOK' <=> Names!TypeOK'
  /\ NP!QueueIsFreeList <=> Names!QueueIsFreeList
  /\ NP!QueueIsFreeList' <=> Names!QueueIsFreeList'
  BY DEF NP!TypeOK, Names!TypeOK, NP!Names, Names!Names, NP!QueueIsFreeList,
         Names!QueueIsFreeList, NP!Live, Names!Live

LEMMA SameSteps ==
  /\ \A slot : NP!CreateName(slot) <=> Names!CreateName(slot)
  /\ \A n : NP!DestroyName(n) <=> Names!DestroyName(n)
  /\ \A n : NP!DetachName(n) <=> Names!DetachName(n)
  /\ \A n : NP!SetUserBit(n) <=> Names!SetUserBit(n)
  <1>1. \A n : NP!NameOf(n) = Names!NameOf(n)
    BY DEF NP!NameOf, Names!NameOf
  <1>2. \A slot : NP!CreateName(slot) <=> Names!CreateName(slot)
    BY <1>1 DEF NP!CreateName, Names!CreateName, NP!IsFull, Names!IsFull,
       NP!IsNextSlot, Names!IsNextSlot, NP!IsFirstClear, Names!IsFirstClear,
       NP!LastWord, Names!LastWord, NP!Live, Names!Live
  <1>3. \A n : NP!DestroyName(n) <=> Names!DestroyName(n)
    BY DEF NP!DestroyName, Names!DestroyName, NP!Live, Names!Live,
       NP!PushBack, Names!PushBack, NP!GrownCap, Names!GrownCap
  <1>4. /\ \A n : NP!DetachName(n) <=> Names!DetachName(n)
        /\ \A n : NP!SetUserBit(n) <=> Names!SetUserBit(n)
    BY DEF NP!DetachName, Names!DetachName, NP!SetUserBit, Names!SetUserBit
  <1> QED BY <1>2, <1>3, <1>4

(* What a step of the name space keeps.                                     *)
LEMMA NamesStep ==
  ASSUME Names!TypeOK, Names!QueueIsFreeList, [Names!Next]_nameVars
  PROVE  Names!TypeOK' /\ Names!QueueIsFreeList'
  <1>1. [NP!Next]_(NP!vars)
    BY SameSteps DEF NP!Next, Names!Next, nameVars, NP!vars
  <1>2. NP!TypeOK /\ NP!QueueIsFreeList
    BY SameState
  <1>3. NP!TypeOK'
    BY <1>1, <1>2, NameConstants, NP!TypeStep
  <1>4. NP!QueueIsFreeList'
    BY <1>1, <1>2, NameConstants, NP!QueueStep
  <1> QED BY <1>3, <1>4, SameState

(* The name that GenBuffer gives out is nobody's.                           *)
LEMMA FreshName ==
  ASSUME NameBound <= NameSpan, Names!TypeOK, Names!QueueIsFreeList,
         NEW slot \in BufferNames, Names!CreateName(slot)
  PROVE  /\ slot \notin named \cup created
         /\ named' = named \cup {slot}
         /\ created' = created
  <1>1. NP!TypeOK /\ NP!QueueIsFreeList /\ NP!CreateName(slot)
    BY SameState, SameSteps
  <1>2. NP!NameOf(slot) = slot /\ slot \notin NP!Live
    BY <1>1, NameConstants, NP!FreshStep DEF BufferNames
  <1> QED BY <1>1, <1>2 DEF NP!CreateName, NP!Live

(* The objects in deleted have no names, so that MaybeDestroy, which asks   *)
(* is_name, lets all of them be.                                            *)
LEMMA MarkedStay ==
  ASSUME Ownership, NEW n, NEW refs, MaybeDestroy(n, refs)
  PROVE  UNCHANGED <<nameVars, deleted>>
  BY DEF Ownership, MaybeDestroy, Names!IsName

LEMMA DestroyEffects ==
  ASSUME Names!TypeOK, NEW n, Names!DestroyName(n)
  PROVE  Names!Next /\ named' = named \ {n} /\ created' = created \ {n}
  BY DEF Names!DestroyName, Names!Next, Names!Live, Names!TypeOK, Names!Names

LEMMA DetachEffects ==
  ASSUME Names!TypeOK, NEW n, Names!DetachName(n)
  PROVE  Names!Next /\ named' = named \ {n} /\ created' = created
  BY DEF Names!DetachName, Names!Next, Names!TypeOK, Names!Names

LEMMA SetBitEffects ==
  ASSUME Names!TypeOK, NEW n, Names!SetUserBit(n)
  PROVE  Names!Next /\ named' = named /\ created' = created \cup {n}
  BY DEF Names!SetUserBit, Names!Next, Names!TypeOK, Names!Names

-----------------------------------------------------------------------------
(* Bindings.                                                                *)

LEMMA ZeroIsName == 0 \in BufferNames
  BY GLObjectsAssumption DEF BufferNames

LEMMA BindStep ==
  ASSUME BindTypes, BitsAgree, NEW T \in SUBSET Targets, NEW n \in BufferNames, Bind(T, n)
  PROVE  /\ BindTypes' /\ BitsAgree'
         /\ \A m \in BufferNames \ {0} : IsBound(m)' => IsBound(m) \/ m = n
  <1>1. BindTypes'
    BY DEF Bind, BindTypes
  <1>2. BitsAgree'
    <2> SUFFICES ASSUME NEW m \in BufferNames \ {0}
                 PROVE  binding_bitfield'[m] = {t \in Targets : buffer_binding'[t] = m}
      BY DEF BitsAgree
    <2>1. CASE m = n
      BY <2>1 DEF Bind, BindTypes, BitsAgree
    <2>2. CASE m # n
      BY <2>2 DEF Bind, BindTypes, BitsAgree
    <2> QED BY <2>1, <2>2
  <1>3. \A m \in BufferNames \ {0} : IsBound(m)' => IsBound(m) \/ m = n
    BY DEF Bind, BindTypes, IsBound
  <1> QED BY <1>1, <1>2, <1>3

LEMMA UnbindStep ==
  ASSUME BindTypes, BitsAgree, NEW n \in BufferNames \ {0}, UnbindFromAll(n)
  PROVE  /\ BindTypes' /\ BitsAgree'
         /\ ~IsBound(n)'
         /\ \A m \in BufferNames \ {0} : IsBound(m)' => IsBound(m)
  <1>1. CASE binding_bitfield[n] = {}
    <2>1. UNCHANGED <<binding_bitfield, buffer_binding>>
      BY <1>1 DEF UnbindFromAll, bindVars
    <2>2. ~IsBound(n)
      BY <1>1 DEF BitsAgree, IsBound
    <2> QED BY <2>1, <2>2 DEF BindTypes, BitsAgree, IsBound
  <1>2. CASE binding_bitfield[n] # {}
    <2>1. /\ buffer_binding' =
               [t \in Targets |-> IF buffer_binding[t] = n THEN 0 ELSE buffer_binding[t]]
          /\ binding_bitfield' = [binding_bitfield EXCEPT ![n] = {}]
      BY <1>2 DEF UnbindFromAll
    <2>2. BindTypes'
      BY <2>1, ZeroIsName DEF BindTypes
    <2>3. BitsAgree'
      BY <2>1 DEF BindTypes, BitsAgree
    <2>4. /\ ~IsBound(n)'
          /\ \A m \in BufferNames \ {0} : IsBound(m)' => IsBound(m)
      BY <2>1 DEF BindTypes, IsBound
    <2> QED BY <2>2, <2>3, <2>4
  <1> QED BY <1>1, <1>2

-----------------------------------------------------------------------------
(* References.                                                              *)

LEMMA ReferencesFinite ==
  ASSUME NEW n
  PROVE  /\ IsFiniteSet(Attributes(n)) /\ Cardinality(Attributes(n)) \in Nat
         /\ IsFiniteSet(Dying(n)) /\ Cardinality(Dying(n)) \in Nat
         /\ Cardinality(Attributes(n)) = 0 <=> Attributes(n) = {}
         /\ Cardinality(Dying(n)) = 0 <=> Dying(n) = {}
  <1>1. IsFiniteSet(Attribs)
    BY GLObjectsAssumption, FS_Interval DEF Attribs
  <1>2. IsFiniteSet(VertexArrays \X Attribs)
    BY <1>1, GLObjectsAssumption, FS_Product
  <1>3. Attributes(n) \in SUBSET (VertexArrays \X Attribs) /\ Dying(n) \in SUBSET Attribs
    BY DEF Attributes, Dying
  <1>4. IsFiniteSet(Attributes(n)) /\ IsFiniteSet(Dying(n))
    BY <1>1, <1>2, <1>3, FS_Subset
  <1> QED BY <1>4, FS_CardinalityType, FS_EmptySet

LEMMA UnreferencedIffZero ==
  ASSUME RefsCounted, NEW n \in BufferNames \ {0}
  PROVE  ref_count[n] = 0 <=> ~IsReferenced(n)
  <1>1. ref_count[n] = Cardinality(Attributes(n)) + Cardinality(Dying(n))
    BY DEF RefsCounted
  <1> QED BY <1>1, ReferencesFinite DEF IsReferenced

(* An attribute takes another buffer.                                       *)
LEMMA AttributesAfter ==
  ASSUME ArrayTypes, NEW a \in VertexArrays, NEW i \in Attribs, NEW name \in BufferNames,
         buffers' = [buffers EXCEPT ![a][i] = name], NEW n
  PROVE  Attributes(n)' = IF n = name THEN Attributes(n) \cup {<<a, i>>}
                          ELSE Attributes(n) \ {<<a, i>>}
  <1>1. \A b \in VertexArrays, j \in Attribs :
          buffers'[b][j] = IF b = a /\ j = i THEN name ELSE buffers[b][j]
    BY DEF ArrayTypes
  <1>2. \A p \in VertexArrays \X Attribs :
          /\ p[1] \in VertexArrays /\ p[2] \in Attribs
          /\ p = <<a, i>> <=> p[1] = a /\ p[2] = i
    OBVIOUS
  <1>3. \A p \in VertexArrays \X Attribs :
          buffers'[p[1]][p[2]] = IF p = <<a, i>> THEN name ELSE buffers[p[1]][p[2]]
    BY <1>1, <1>2
  <1>4. <<a, i>> \in VertexArrays \X Attribs
    OBVIOUS
  <1>5. CASE n = name
    BY <1>3, <1>4, <1>5 DEF Attributes
  <1>6. CASE n # name
    BY <1>3, <1>4, <1>6 DEF Attributes
  <1> QED BY <1>5, <1>6

LEMMA PointerStep ==
  ASSUME ArrayTypes, RefsCounted, NEW a \in VertexArrays, NEW i \in Attribs,
         NEW name \in BufferNames,
         buffers' = [buffers EXCEPT ![a][i] = name],
         ref_count' = RefsAfter(name, buffers[a][i]),
         UNCHANGED destructing
  PROVE  /\ ArrayTypes' /\ RefsCounted'
         /\ \A n \in BufferNames \ {0} : IsReferenced(n)' => IsReferenced(n) \/ n = name
  <1> DEFINE prev == buffers[a][i]
             p == <<a, i>>
  <1>1. \A n : Attributes(n)' = IF n = name THEN Attributes(n) \cup {p}
                                ELSE Attributes(n) \ {p}
    BY AttributesAfter
  <1>2. \A n : Dying(n)' = Dying(n)
    BY DEF Dying
  <1>3. \A n : p \in Attributes(n) <=> n = prev
    BY DEF Attributes
  <1>4. ASSUME NEW n \in BufferNames \ {0}
        PROVE  ref_count'[n] = Cardinality(Attributes(n)') + Cardinality(Dying(n)')
    <2>1. ref_count'[n] = ref_count[n] + (IF n = name THEN 1 ELSE 0)
                          - (IF n = prev THEN 1 ELSE 0)
      BY DEF RefsAfter
    <2>2. ref_count[n] = Cardinality(Attributes(n)) + Cardinality(Dying(n))
      BY DEF RefsCounted
    <2>3. /\ Cardinality(Attributes(n)) \in Nat /\ Cardinality(Dying(n)) \in Nat
          /\ IsFiniteSet(Attributes(n))
      BY ReferencesFinite
    <2>4. CASE n = name
      <3>1. Cardinality(Attributes(n)') =
               IF n = prev THEN Cardinality(Attributes(n))
               ELSE Cardinality(Attributes(n)) + 1
        BY <1>1, <1>3, <2>3, <2>4, FS_AddElement
      <3> HIDE DEF prev
      <3> QED BY <1>2, <2>1, <2>2, <2>3, <2>4, <3>1
    <2>5. CASE n # name
      <3>1. Cardinality(Attributes(n)') =
               IF n = prev THEN Cardinality(Attributes(n)) - 1
               ELSE Cardinality(Attributes(n))
        BY <1>1, <1>3, <2>3, <2>5, FS_RemoveElement
      <3> HIDE DEF prev
      <3> QED BY <1>2, <2>1, <2>2, <2>3, <2>5, <3>1
    <2> QED BY <2>4, <2>5
  <1>5. RefsCounted'
    BY <1>4 DEF RefsCounted
  <1>6. ArrayTypes'
    <2>1. buffers' \in [VertexArrays -> [Attribs -> BufferNames]]
      BY DEF ArrayTypes
    <2>2. ref_count' \in [BufferNames -> Int]
      BY DEF ArrayTypes, RefsAfter
    <2>3. ASSUME NEW n \in BufferNames
          PROVE  ref_count'[n] >= 0
      <3>1. CASE n = 0
        BY <3>1 DEF ArrayTypes, RefsAfter
      <3>2. CASE n # 0
        <4>1. /\ IsFiniteSet(Attributes(n)') /\ IsFiniteSet(Dying(n)')
              /\ Cardinality(Attributes(n)') \in Nat /\ Cardinality(Dying(n)') \in Nat
           BY <1>1, <1>2, ReferencesFinite, FS_AddElement, FS_RemoveElement,
              FS_CardinalityType
        <4> QED BY <1>4, <3>2, <4>1
      <3> QED BY <3>1, <3>2
    <2>4. ref_count' \in [BufferNames -> Nat]
      BY <2>2, <2>3
    <2> QED BY <2>1, <2>4 DEF ArrayTypes
  <1>7. \A n \in BufferNames \ {0} : IsReferenced(n)' => IsReferenced(n) \/ n = name
    BY <1>1, <1>2 DEF IsReferenced
  <1> QED BY <1>5, <1>6, <1>7

(* A vertex array goes away, and its attributes await their turn.           *)
LEMMA ArrayDeletedStep ==
  ASSUME ArrayTypes, RefsCounted, Idle, NEW a \in VertexArrays,
         destructing' = buffers[a],
         buffers' = [buffers EXCEPT ![a] = NoBuffers],
         UNCHANGED ref_count
  PROVE  /\ ArrayTypes' /\ RefsCounted'
         /\ \A n \in BufferNames \ {0} : IsReferenced(n)' => IsReferenced(n)
  <1>1. ArrayTypes'
    BY ZeroIsName DEF ArrayTypes, NoBuffers
  <1> SUFFICES ASSUME NEW n \in BufferNames \ {0}
               PROVE  /\ ref_count'[n] = Cardinality(Attributes(n)') + Cardinality(Dying(n)')
                      /\ IsReferenced(n)' => IsReferenced(n)
    BY <1>1 DEF RefsCounted
  <1> DEFINE Mine == {p \in Attributes(n) : p[1] = a}
             f == [i \in Dying(n)' |-> <<a, i>>]
  <1>2. Dying(n) = {}
    BY DEF Dying, Idle, NoBuffers
  <1>3. Attributes(n)' = Attributes(n) \ Mine
    <2>1. \A b \in VertexArrays, j \in Attribs :
            buffers'[b][j] = IF b = a THEN 0 ELSE buffers[b][j]
      BY DEF ArrayTypes, NoBuffers
    <2>2. \A p \in VertexArrays \X Attribs : p[1] \in VertexArrays /\ p[2] \in Attribs
      OBVIOUS
    <2>3. \A p \in VertexArrays \X Attribs :
            buffers'[p[1]][p[2]] = n <=> p[1] # a /\ buffers[p[1]][p[2]] = n
      BY <2>1, <2>2
    <2> QED BY <2>3 DEF Attributes
  <1>4. ExistsBijection(Dying(n)', Mine)
    <2>1. \A i \in Dying(n)' : f[i] \in Mine /\ f[i][2] = i
      BY DEF Dying, Attributes
    <2>2. \A p \in Mine : p[2] \in Dying(n)' /\ f[p[2]] = p
      <3>1. \A p \in VertexArrays \X Attribs : p[2] \in Attribs /\ p = <<p[1], p[2]>>
        OBVIOUS
      <3> QED BY <3>1 DEF Dying, Attributes
    <2>3. f \in [Dying(n)' -> Mine]
      BY <2>1
    <2> HIDE DEF f, Mine
    <2>4. f \in Injection(Dying(n)', Mine)
      BY <2>1, <2>3 DEF Injection, IsInjective
    <2>5. f \in Surjection(Dying(n)', Mine)
      BY <2>2, <2>3 DEF Surjection
    <2> QED BY <2>4, <2>5 DEF ExistsBijection, Bijection
  <1>5. /\ IsFiniteSet(Attributes(n)) /\ Cardinality(Attributes(n)) \in Nat
        /\ Cardinality(Dying(n)) = 0
    BY <1>2, ReferencesFinite
  <1>6. Mine \in SUBSET Attributes(n) /\ Attributes(n) \cap Mine = Mine
    OBVIOUS
  <1> HIDE DEF Mine, f
  <1>7. IsFiniteSet(Mine) /\ Cardinality(Mine) \in Nat
    BY <1>5, <1>6, FS_Subset, FS_CardinalityType
  <1>8. Cardinality(Dying(n)') = Cardinality(Mine)
    <2>1. ExistsBijection(Mine, Dying(n)')
      BY <1>4, Fun_ExistsBijSymmetric
    <2> QED BY <1>7, <2>1, FS_Bijection
  <1>9. Cardinality(Attributes(n)') = Cardinality(Attributes(n)) - Cardinality(Mine)
    BY <1>3, <1>5, <1>6, FS_Difference
  <1>10. ref_count[n] = Cardinality(Attributes(n)) + Cardinality(Dying(n))
    BY DEF RefsCounted
  <1>11. ref_count'[n] = Cardinality(Attributes(n)') + Cardinality(Dying(n)')
    BY <1>5, <1>7, <1>8, <1>9, <1>10
  <1>12. IsReferenced(n)' => IsReferenced(n)
    <2>1. \A i \in Dying(n)' : <<a, i>> \in Attributes(n)
      BY DEF Dying, Attributes
    <2> QED BY <1>3, <2>1 DEF IsReferenced
  <1> QED BY <1>11, <1>12

(* The container of a deleted vertex array lets go of one buffer.           *)
LEMMA UnrefStep ==
  ASSUME ArrayTypes, RefsCounted, NEW i \in Attribs, destructing[i] # 0,
         ref_count' = [ref_count EXCEPT ![destructing[i]] = @ - 1],
         destructing' = [destructing EXCEPT ![i] = 0],
         UNCHANGED buffers
  PROVE  /\ ArrayTypes' /\ RefsCounted'
         /\ \A n \in BufferNames \ {0} : IsReferenced(n)' => IsReferenced(n)
  <1> DEFINE d == destructing[i]
  <1>1. d \in BufferNames \ {0}
    BY DEF ArrayTypes
  <1>2. \A n : Attributes(n)' = Attributes(n)
    BY DEF Attributes
  <1>3. \A n \in BufferNames \ {0} : Dying(n)' = Dying(n) \ {i}
    BY DEF Dying, ArrayTypes
  <1>4. \A n : i \in Dying(n) <=> n = d
    BY DEF Dying
  <1>5. ASSUME NEW n \in BufferNames \ {0}
        PROVE  /\ ref_count'[n] = Cardinality(Attributes(n)') + Cardinality(Dying(n)')
               /\ Cardinality(Attributes(n)') \in Nat /\ Cardinality(Dying(n)') \in Nat
    <2>1. ref_count'[n] = IF n = d THEN ref_count[n] - 1 ELSE ref_count[n]
      BY DEF ArrayTypes
    <2>2. ref_count[n] = Cardinality(Attributes(n)) + Cardinality(Dying(n))
      BY DEF RefsCounted
    <2>3. /\ Cardinality(Attributes(n)) \in Nat /\ Cardinality(Dying(n)) \in Nat
          /\ IsFiniteSet(Dying(n))
      BY ReferencesFinite
    <2>4. /\ Cardinality(Dying(n)') =
               IF n = d THEN Cardinality(Dying(n)) - 1 ELSE Cardinality(Dying(n))
          /\ Cardinality(Dying(n)') \in Nat
      BY <1>3, <1>4, <2>3, FS_RemoveElement, FS_CardinalityType
    <2> HIDE DEF d
    <2> QED BY <1>2, <2>1, <2>2, <2>3, <2>4
  <1>6. RefsCounted'
    BY <1>5 DEF RefsCounted
  <1>7. ArrayTypes'
    <2>1. destructing' \in [Attribs -> BufferNames]
      BY ZeroIsName DEF ArrayTypes
    <2>2. ref_count' \in [BufferNames -> Int] /\ \A n \in BufferNames : n # d =>
            ref_count'[n] = ref_count[n]
      BY DEF ArrayTypes
    <2>3. ref_count'[d] \in Nat
      <3> HIDE DEF d
      <3> QED BY <1>1, <1>5
    <2>4. ref_count' \in [BufferNames -> Nat]
      <3> HIDE DEF d
      <3> QED BY <2>2, <2>3 DEF ArrayTypes
    <2> QED BY <2>1, <2>4 DEF ArrayTypes
  <1>8. \A n \in BufferNames \ {0} : IsReferenced(n)' => IsReferenced(n)
    BY <1>2, <1>3 DEF IsReferenced
  <1> QED BY <1>6, <1>7, <1>8

-----------------------------------------------------------------------------
(* The steps.  Each is taken apart into names, bindings and references.     *)

LEMMA KeepBindings ==
  ASSUME BindTypes, BitsAgree, UNCHANGED bindVars
  PROVE  BindTypes' /\ BitsAgree' /\ \A n : IsBound(n)' <=> IsBound(n)
  BY DEF BindTypes, BitsAgree, IsBound, bindVars

LEMMA KeepReferences ==
  ASSUME ArrayTypes, RefsCounted, UNCHANGED <<ref_count, buffers, destructing>>
  PROVE  /\ ArrayTypes' /\ RefsCounted'
         /\ \A n : IsReferenced(n)' <=> IsReferenced(n)
  <1>1. \A n : Attributes(n)' = Attributes(n) /\ Dying(n)' = Dying(n)
    BY DEF Attributes, Dying
  <1> QED BY <1>1 DEF ArrayTypes, RefsCounted, IsReferenced

LEMMA IsObjectMeans == \A n : IsObject(n) <=> n \in named /\ n \in created
  BY DEF IsObject, Names!IsName, Names!IsCreated

LEMMA IsObjectMeansNext == \A n : IsObject(n)' <=> n \in named' /\ n \in created'
  BY DEF IsObject, Names!IsName, Names!IsCreated

(* Names change, and nobody holds a name that goes away.                    *)
LEMMA OwnershipStep ==
  ASSUME Ownership,
         0 \in named' \ created',
         \A n \in BufferNames \ {0} : IsBound(n)' => n \in named' /\ n \in created',
         \A n \in BufferNames \ {0} : IsReferenced(n)' => n \in created',
         \A n \in deleted' : n # 0 /\ n \in created' \ named'
  PROVE  Ownership'
  BY IsObjectMeansNext DEF Ownership

LEMMA GenStep ==
  ASSUME NameBound <= NameSpan, ObjectsInv, NEW n \in BufferNames, GenBuffer(n)
  PROVE  ObjectsInv'
  <1>1. /\ Names!CreateName(n)
        /\ UNCHANGED <<objectVars, bindVars, arrayVars, destructing>>
    BY DEF GenBuffer
  <1>2. n \notin named \cup created /\ named' = named \cup {n} /\ created' = created
    BY <1>1, FreshName DEF ObjectsInv
  <1>3. Names!Next
    BY <1>1 DEF Names!Next, BufferNames
  <1>4. Names!TypeOK' /\ Names!QueueIsFreeList'
    BY <1>3, NamesStep DEF ObjectsInv
  <1>5. BindTypes' /\ BitsAgree' /\ \A m : IsBound(m)' <=> IsBound(m)
    BY <1>1, KeepBindings DEF ObjectsInv
  <1>6. /\ ArrayTypes' /\ RefsCounted'
        /\ \A m : IsReferenced(m)' <=> IsReferenced(m)
    BY <1>1, KeepReferences DEF ObjectsInv, objectVars, arrayVars
  <1>7. OtherTypes'
    BY <1>1 DEF ObjectsInv, OtherTypes, objectVars, arrayVars
  <1>8. Ownership'
    BY <1>1, <1>2, <1>5, <1>6, IsObjectMeans, OwnershipStep
       DEF ObjectsInv, Ownership, objectVars
  <1> QED BY <1>4, <1>5, <1>6, <1>7, <1>8 DEF ObjectsInv

LEMMA BindsStep ==
  ASSUME ObjectsInv, NEW T \in SUBSET Targets, NEW n \in BufferNames, Bind(T, n),
         n = 0 \/ Names!IsName(n),
         IF n # 0 /\ ~IsObject(n) THEN Names!SetUserBit(n) ELSE UNCHANGED nameVars,
         UNCHANGED <<objectVars, arrayVars, destructing>>
  PROVE  ObjectsInv'
  <1>1. /\ BindTypes' /\ BitsAgree'
        /\ \A m \in BufferNames \ {0} : IsBound(m)' => IsBound(m) \/ m = n
    BY BindStep DEF ObjectsInv
  <1>2. /\ ArrayTypes' /\ RefsCounted'
        /\ \A m : IsReferenced(m)' <=> IsReferenced(m)
    BY KeepReferences DEF ObjectsInv, objectVars, arrayVars
  <1>3. /\ [Names!Next]_nameVars
        /\ named' = named
        /\ created' = created \cup ({n} \ {0})
    <2>1. CASE n # 0 /\ ~IsObject(n)
      BY <2>1, SetBitEffects DEF ObjectsInv
    <2>2. CASE n # 0 /\ IsObject(n)
      BY <2>2, IsObjectMeans DEF nameVars
    <2>3. CASE n = 0
      BY <2>3 DEF nameVars
    <2> QED BY <2>1, <2>2, <2>3
  <1>4. Names!TypeOK' /\ Names!QueueIsFreeList'
    BY <1>3, NamesStep DEF ObjectsInv
  <1>5. OtherTypes'
    BY DEF ObjectsInv, OtherTypes, objectVars, arrayVars
  <1>6. Ownership'
    <2>1. n # 0 => n \in named
      BY DEF Names!IsName
    <2> QED BY <1>1, <1>2, <1>3, <2>1, IsObjectMeans, OwnershipStep
            DEF ObjectsInv, Ownership, objectVars
  <1> QED BY <1>1, <1>2, <1>4, <1>5, <1>6 DEF ObjectsInv

LEMMA DeleteObjectStep ==
  ASSUME ObjectsInv, NEW n \in BufferNames, DeleteObject(n)
  PROVE  ObjectsInv'
  <1>1. /\ n # 0 /\ n \in named /\ n \in created
        /\ UnbindFromAll(n)
        /\ UNCHANGED <<ref_count, arrayVars, destructing>>
    BY IsObjectMeans DEF DeleteObject
  <1>2. /\ BindTypes' /\ BitsAgree'
        /\ ~IsBound(n)'
        /\ \A m \in BufferNames \ {0} : IsBound(m)' => IsBound(m)
    BY <1>1, UnbindStep DEF ObjectsInv
  <1>3. /\ ArrayTypes' /\ RefsCounted'
        /\ \A m : IsReferenced(m)' <=> IsReferenced(m)
    BY <1>1, KeepReferences DEF ObjectsInv, arrayVars
  <1>4. CASE ref_count[n] = 0
    <2>1. /\ Names!Next /\ named' = named \ {n}
          /\ created' = created \ {n} /\ deleted' = deleted
      BY <1>4, DestroyEffects DEF DeleteObject, ObjectsInv
    <2>2. ~IsReferenced(n)
      BY <1>1, <1>4, UnreferencedIffZero DEF ObjectsInv
    <2>3. Ownership'
      BY <1>1, <1>2, <1>3, <2>1, <2>2, IsObjectMeans, OwnershipStep
         DEF ObjectsInv, Ownership
    <2>4. OtherTypes'
      BY <1>1, <2>1 DEF ObjectsInv, OtherTypes, arrayVars
    <2>5. Names!TypeOK' /\ Names!QueueIsFreeList'
      BY <2>1, NamesStep DEF ObjectsInv
    <2> QED BY <1>2, <1>3, <2>3, <2>4, <2>5 DEF ObjectsInv
  <1>5. CASE ref_count[n] # 0
    <2>1. /\ Names!Next /\ named' = named \ {n} /\ created' = created
          /\ deleted' = deleted \cup {n}
      BY <1>5, DetachEffects DEF DeleteObject, ObjectsInv
    <2>2. Ownership'
      BY <1>1, <1>2, <1>3, <2>1, IsObjectMeans, OwnershipStep DEF ObjectsInv, Ownership
    <2>3. OtherTypes'
      BY <1>1, <2>1 DEF ObjectsInv, OtherTypes, arrayVars
    <2>4. Names!TypeOK' /\ Names!QueueIsFreeList'
      BY <2>1, NamesStep DEF ObjectsInv
    <2> QED BY <1>2, <1>3, <2>2, <2>3, <2>4 DEF ObjectsInv
  <1> QED BY <1>4, <1>5

LEMMA DeleteNameStep ==
  ASSUME ObjectsInv, NEW n \in BufferNames, DeleteName(n)
  PROVE  ObjectsInv'
  <1>1. /\ n # 0 /\ n \in named /\ n \notin created
        /\ Names!DestroyName(n)
        /\ UNCHANGED <<objectVars, bindVars, arrayVars, destructing>>
    BY DEF DeleteName, Names!IsName, Names!IsCreated
  <1>2. Names!Next /\ named' = named \ {n} /\ created' = created \ {n}
    BY <1>1, DestroyEffects DEF ObjectsInv
  <1>3. Names!TypeOK' /\ Names!QueueIsFreeList'
    BY <1>2, NamesStep DEF ObjectsInv
  <1>4. BindTypes' /\ BitsAgree' /\ \A m : IsBound(m)' <=> IsBound(m)
    BY <1>1, KeepBindings DEF ObjectsInv
  <1>5. /\ ArrayTypes' /\ RefsCounted'
        /\ \A m : IsReferenced(m)' <=> IsReferenced(m)
    BY <1>1, KeepReferences DEF ObjectsInv, objectVars, arrayVars
  <1>6. OtherTypes'
    BY <1>1 DEF ObjectsInv, OtherTypes, objectVars, arrayVars
  <1>7. Ownership'
    BY <1>1, <1>2, <1>4, <1>5, IsObjectMeans, OwnershipStep
       DEF ObjectsInv, Ownership, objectVars
  <1> QED BY <1>3, <1>4, <1>5, <1>6, <1>7 DEF ObjectsInv

(* Names and bindings stay, references come from bindings only.             *)
LEMMA ReferencesStep ==
  ASSUME ObjectsInv, UNCHANGED <<nameVars, deleted, bindVars>>,
         ArrayTypes', RefsCounted', OtherTypes',
         \A n \in BufferNames \ {0} : IsReferenced(n)' => IsReferenced(n) \/ IsBound(n)
  PROVE  ObjectsInv'
  <1>1. UNCHANGED <<capacity, named, created, queue, queueCap, count>>
    BY DEF nameVars
  <1>2. Names!TypeOK' /\ Names!QueueIsFreeList'
    BY NamesStep DEF ObjectsInv
  <1>3. BindTypes' /\ BitsAgree' /\ \A m : IsBound(m)' <=> IsBound(m)
    BY KeepBindings DEF ObjectsInv
  <1>4. Ownership'
    BY <1>1, <1>3, IsObjectMeans, OwnershipStep DEF ObjectsInv, Ownership
  <1> QED BY <1>2, <1>3, <1>4 DEF ObjectsInv

LEMMA AttribPointerStep ==
  ASSUME ObjectsInv, NEW i \in Attribs, AttribPointer(i)
  PROVE  ObjectsInv'
  <1> DEFINE name == buffer_binding[ArrayTarget]
             prev == buffers[attribs_binding][i]
  <1>1. /\ buffers' = [buffers EXCEPT ![attribs_binding][i] = name]
        /\ ref_count' = RefsAfter(name, prev)
        /\ UNCHANGED <<bindVars, arrays, attribs_binding, destructing>>
    BY DEF AttribPointer
  <1>2. name \in BufferNames /\ attribs_binding \in VertexArrays
    BY GLObjectsAssumption DEF ObjectsInv, BindTypes, OtherTypes
  <1>3. UNCHANGED <<nameVars, deleted>>
    <2>1. prev # 0 => MaybeDestroy(prev, ref_count')
      BY DEF AttribPointer
    <2>2. prev = 0 => UNCHANGED <<nameVars, deleted>>
      BY DEF AttribPointer
    <2> QED BY <2>1, <2>2, MarkedStay DEF ObjectsInv
  <1>4. /\ ArrayTypes' /\ RefsCounted'
        /\ \A n \in BufferNames \ {0} : IsReferenced(n)' => IsReferenced(n) \/ n = name
    BY <1>1, <1>2, PointerStep DEF ObjectsInv
  <1>5. \A n \in BufferNames \ {0} : n = name => IsBound(n)
    BY GLObjectsAssumption DEF IsBound
  <1>6. OtherTypes'
    BY <1>1, <1>3 DEF ObjectsInv, OtherTypes
  <1> QED BY <1>1, <1>3, <1>4, <1>5, <1>6, ReferencesStep

LEMMA VertexArrayStep ==
  ASSUME ObjectsInv, NEW a \in VertexArrays, BindVertexArray(a) \/ DeleteVertexArray(a)
  PROVE  ObjectsInv'
  <1>1. UNCHANGED <<nameVars, objectVars, bindVars>>
    BY DEF BindVertexArray, DeleteVertexArray
  <1>2. OtherTypes'
    BY <1>1 DEF ObjectsInv, OtherTypes, objectVars, BindVertexArray, DeleteVertexArray
  <1>3. /\ ArrayTypes' /\ RefsCounted'
        /\ \A n \in BufferNames \ {0} : IsReferenced(n)' => IsReferenced(n)
    <2>1. CASE BindVertexArray(a)
      BY <1>1, <2>1, KeepReferences DEF ObjectsInv, BindVertexArray, objectVars
    <2>2. CASE DeleteVertexArray(a)
      BY <1>1, <2>2, ArrayDeletedStep DEF ObjectsInv, DeleteVertexArray, objectVars
    <2> QED BY <2>1, <2>2
  <1> QED BY <1>1, <1>2, <1>3, ReferencesStep DEF objectVars

LEMMA UnrefNextStep ==
  ASSUME ObjectsInv, NEW i \in Attribs, UnrefNext(i)
  PROVE  ObjectsInv'
  <1>1. /\ destructing[i] # 0
        /\ ref_count' = [ref_count EXCEPT ![destructing[i]] = @ - 1]
        /\ MaybeDestroy(destructing[i], ref_count')
        /\ destructing' = [destructing EXCEPT ![i] = 0]
        /\ UNCHANGED <<bindVars, arrays, attribs_binding, buffers>>
    BY DEF UnrefNext, arrayVars
  <1>2. UNCHANGED <<nameVars, deleted>>
    BY <1>1, MarkedStay DEF ObjectsInv
  <1>3. /\ ArrayTypes' /\ RefsCounted'
        /\ \A n \in BufferNames \ {0} : IsReferenced(n)' => IsReferenced(n)
    BY <1>1, UnrefStep DEF ObjectsInv
  <1>4. OtherTypes'
    BY <1>1, <1>2 DEF ObjectsInv, OtherTypes
  <1> QED BY <1>1, <1>2, <1>3, <1>4, ReferencesStep

-----------------------------------------------------------------------------

LEMMA InitInv == Init => ObjectsInv
  <1> SUFFICES ASSUME Init
               PROVE  ObjectsInv
    OBVIOUS
  <1>1. Names!TypeOK /\ Names!QueueIsFreeList
    BY GLObjectsAssumption DEF Init, Names!TypeOK, Names!QueueIsFreeList, Names!Names
  <1>2. BindTypes /\ BitsAgree /\ \A n \in BufferNames \ {0} : ~IsBound(n)
    BY ZeroIsName DEF Init, BindTypes, BitsAgree, IsBound
  <1>3. ArrayTypes /\ OtherTypes
    BY ZeroIsName, GLObjectsAssumption DEF Init, ArrayTypes, OtherTypes, NoBuffers
  <1>4. \A n \in BufferNames \ {0} : Attributes(n) = {} /\ Dying(n) = {}
    BY DEF Init, Attributes, Dying, NoBuffers
  <1>5. RefsCounted
    <2> SUFFICES ASSUME NEW n \in BufferNames \ {0}
                 PROVE  ref_count[n] = Cardinality(Attributes(n)) + Cardinality(Dying(n))
      BY DEF RefsCounted
    <2>1. ref_count[n] = 0
      BY DEF Init
    <2>2. Cardinality(Attributes(n)) = 0 /\ Cardinality(Dying(n)) = 0
      BY <1>4, ReferencesFinite
    <2> QED BY <2>1, <2>2
  <1>6. Ownership
    BY <1>2, <1>4 DEF Init, Ownership, IsReferenced
  <1> QED BY <1>1, <1>2, <1>3, <1>5, <1>6 DEF ObjectsInv

LEMMA InvStep ==
  ASSUME NameBound <= NameSpan, ObjectsInv, [Next]_vars
  PROVE  ObjectsInv'
  <1>1. ASSUME NEW n \in BufferNames, GenBuffer(n)
        PROVE  ObjectsInv'
    BY <1>1, GenStep
  <1>2. ASSUME NEW n \in BufferNames, NEW t \in Targets, BindBuffer(t, n)
        PROVE  ObjectsInv'
    BY <1>2, {t} \in SUBSET Targets, BindsStep DEF BindBuffer
  <1>3. ASSUME NEW n \in BufferNames, BindBufferRange(n)
        PROVE  ObjectsInv'
    <2>1. {RangeTarget, IndexedTarget} \in SUBSET Targets
      BY GLObjectsAssumption
    <2>2. /\ Bind({RangeTarget, IndexedTarget}, n)
          /\ n = 0 \/ IsObject(n)
          /\ UNCHANGED <<nameVars, objectVars, arrayVars, destructing>>
      BY <1>3 DEF BindBufferRange
    <2>3. n = 0 \/ Names!IsName(n)
      BY <2>2 DEF IsObject
    <2> QED BY <2>1, <2>2, <2>3, BindsStep
  <1>4. ASSUME NEW n \in BufferNames, DeleteObject(n)
        PROVE  ObjectsInv'
    BY <1>4, DeleteObjectStep
  <1>5. ASSUME NEW n \in BufferNames, DeleteName(n)
        PROVE  ObjectsInv'
    BY <1>5, DeleteNameStep
  <1>6. ASSUME NEW i \in Attribs, AttribPointer(i)
        PROVE  ObjectsInv'
    BY <1>6, AttribPointerStep
  <1>7. ASSUME NEW i \in Attribs, UnrefNext(i)
        PROVE  ObjectsInv'
    BY <1>7, UnrefNextStep
  <1>8. ASSUME NEW a \in VertexArrays, BindVertexArray(a) \/ DeleteVertexArray(a)
        PROVE  ObjectsInv'
    BY <1>8, VertexArrayStep
  <1>9. CASE UNCHANGED vars
    <2>1. /\ UNCHANGED <<nameVars, deleted, bindVars>>
          /\ UNCHANGED <<ref_count, buffers, destructing, arrays, attribs_binding>>
      BY <1>9 DEF vars, objectVars, arrayVars
    <2>2. /\ ArrayTypes' /\ RefsCounted'
          /\ \A n : IsReferenced(n)' <=> IsReferenced(n)
      BY <2>1, KeepReferences DEF ObjectsInv
    <2>3. OtherTypes'
      BY <2>1 DEF ObjectsInv, OtherTypes
    <2> QED BY <2>1, <2>2, <2>3, ReferencesStep
  <1> QED BY <1>1, <1>2, <1>3, <1>4, <1>5, <1>6, <1>7, <1>8, <1>9 DEF Next

(* As long as no more names are in use than a name_type can tell apart, the *)
(* invariant holds: types, bitfields, counts, and who owns which name.      *)
THEOREM GLObjectsInvariant ==
  ASSUME NameBound <= NameSpan
  PROVE  Spec => []ObjectsInv
  <1>1. ObjectsInv /\ [Next]_vars => ObjectsInv'
    BY InvStep
  <1> QED BY <1>1, InitInv, PTL DEF Spec

(* However buffers are bound to however many targets, by glBindBuffer or    *)
(* glBindBufferRange, and deleted: a buffer's bitfield has the very targets *)
(* it is bound to, so that unbind_from_all finds them all.                  *)
THEOREM GLObjectsBindings ==
  ASSUME NameBound <= NameSpan
  PROVE  Spec => []BindingsAgree
  <1>1. ObjectsInv => BindingsAgree
    BY DEF ObjectsInv, OtherTypes, BindTypes, ArrayTypes, BitsAgree, TypeOK, BindingsAgree
  <1> QED BY <1>1, GLObjectsInvariant, PTL

(* A buffer's ref_count is the number of attributes that name it, in all    *)
(* vertex arrays and in those under destruction.                            *)
THEOREM GLObjectsRefs ==
  ASSUME NameBound <= NameSpan
  PROVE  Spec => []RefsCounted
  <1>1. ObjectsInv => RefsCounted
    BY DEF ObjectsInv
  <1> QED BY <1>1, GLObjectsInvariant, PTL

(* storage.at() is never asked for what is not there: a name that a target  *)
(* or a vertex array holds is that of a constructed object, and not queued  *)
(* to be given out again.                                                   *)
THEOREM GLObjectsHeld ==
  ASSUME NameBound <= NameSpan
  PROVE  Spec => []HeldAreConstructed
  <1>1. ObjectsInv => HeldAreConstructed
    <2> SUFFICES ASSUME ObjectsInv, NEW n \in BufferNames \ {0},
                        IsBound(n) \/ IsReferenced(n)
                 PROVE  n \in created /\ \A k \in 1 .. Len(queue) : queue[k] # n
      BY DEF HeldAreConstructed
    <2>1. n \in created
      BY IsObjectMeans DEF ObjectsInv, Ownership
    <2> QED BY <2>1 DEF ObjectsInv, Names!QueueIsFreeList, Names!Live
  <1> QED BY <1>1, GLObjectsInvariant, PTL

LEMMA FadeStep ==
  ASSUME ObjectsInv, [Next]_vars, NEW n \in deleted
  PROVE  n \in deleted' /\ ref_count'[n] <= ref_count[n]
  <1>1. n \in BufferNames \ {0} /\ n \notin named /\ ref_count[n] \in Nat
    BY DEF ObjectsInv, OtherTypes, ArrayTypes, Ownership
  <1>2. ASSUME NEW i \in Attribs, AttribPointer(i)
        PROVE  n \in deleted' /\ ref_count'[n] <= ref_count[n]
    <2> DEFINE name == buffer_binding[ArrayTarget]
               prev == buffers[attribs_binding][i]
    <2>1. ref_count' = RefsAfter(name, prev)
      BY <1>2 DEF AttribPointer
    <2>2. n # name
      BY <1>1, GLObjectsAssumption, IsObjectMeans DEF ObjectsInv, Ownership, IsBound
    <2>3. UNCHANGED deleted
      <3>1. prev # 0 => MaybeDestroy(prev, ref_count')
        BY <1>2 DEF AttribPointer
      <3>2. prev = 0 => UNCHANGED deleted
        BY <1>2 DEF AttribPointer
      <3> QED BY <3>1, <3>2, MarkedStay DEF ObjectsInv
    <2>4. ref_count'[n] = ref_count[n] - (IF n # 0 /\ n = prev THEN 1 ELSE 0)
      BY <1>1, <2>1, <2>2 DEF RefsAfter
    <2> QED BY <1>1, <2>3, <2>4
  <1>3. ASSUME NEW i \in Attribs, UnrefNext(i)
        PROVE  n \in deleted' /\ ref_count'[n] <= ref_count[n]
    <2>1. ref_count' = [ref_count EXCEPT ![destructing[i]] = @ - 1]
      BY <1>3 DEF UnrefNext
    <2>2. UNCHANGED deleted
      BY <1>3, MarkedStay DEF UnrefNext, ObjectsInv
    <2> QED BY <1>1, <2>1, <2>2 DEF ObjectsInv, ArrayTypes
  <1>4. ASSUME UNCHANGED ref_count, deleted \subseteq deleted'
        PROVE  n \in deleted' /\ ref_count'[n] <= ref_count[n]
    BY <1>1, <1>4
  <1>5. ASSUME NEW m \in BufferNames, DeleteObject(m)
        PROVE  UNCHANGED ref_count /\ deleted \subseteq deleted'
    BY <1>5 DEF DeleteObject
  <1>6. ASSUME NEW m \in BufferNames,
               \/ GenBuffer(m) \/ DeleteName(m) \/ BindBufferRange(m)
               \/ \E t \in Targets : BindBuffer(t, m)
        PROVE  UNCHANGED ref_count /\ deleted \subseteq deleted'
    BY <1>6 DEF GenBuffer, DeleteName, BindBufferRange, BindBuffer, objectVars
  <1>7. ASSUME NEW a \in VertexArrays, BindVertexArray(a) \/ DeleteVertexArray(a)
        PROVE  UNCHANGED ref_count /\ deleted \subseteq deleted'
    BY <1>7 DEF BindVertexArray, DeleteVertexArray, objectVars
  <1>8. CASE UNCHANGED vars
    BY <1>4, <1>8 DEF vars, objectVars
  <1> QED BY <1>2, <1>3, <1>4, <1>5, <1>6, <1>7, <1>8 DEF Next

(* A buffer that glDeleteBuffers has marked is never bound again, and its   *)
(* references only become fewer.                                            *)
THEOREM GLObjectsFade ==
  ASSUME NameBound <= NameSpan
  PROVE  Spec => DeletedOnlyFade
  <1>1. ObjectsInv /\ ObjectsInv' /\ [Next]_vars =>
          [\A n \in deleted : ~IsBound(n)' /\ ref_count'[n] <= ref_count[n]]_vars
    <2> SUFFICES ASSUME ObjectsInv, ObjectsInv', [Next]_vars, NEW n \in deleted
                 PROVE  ~IsBound(n)' /\ ref_count'[n] <= ref_count[n]
      OBVIOUS
    <2>1. n \in deleted' /\ ref_count'[n] <= ref_count[n]
      BY FadeStep
    <2>2. n \in BufferNames \ {0} /\ n \notin named'
      BY <2>1 DEF ObjectsInv, OtherTypes, Ownership
    <2> QED BY <2>1, <2>2, IsObjectMeansNext DEF ObjectsInv, Ownership
  <1> QED BY <1>1, GLObjectsInvariant, PTL DEF Spec, DeletedOnlyFade

(* What has been deleted while a vertex array referred to it is never       *)
(* destroyed, not even with the last reference (gl_object.h:41 says it is): *)
(* unref_and_maybe_delete destroys by name, and the name was detached.      *)
THEOREM GLObjectsOrphaned ==
  ASSUME NameBound <= NameSpan
  PROVE  Spec => [][\A n \in deleted : n \in deleted' /\ n \in created']_vars
  <1>1. ObjectsInv /\ ObjectsInv' /\ [Next]_vars =>
          [\A n \in deleted : n \in deleted' /\ n \in created']_vars
    BY FadeStep DEF ObjectsInv, Ownership
  <1> QED BY <1>1, GLObjectsInvariant, PTL DEF Spec

LEMMA NamesOnly ==
  ASSUME ObjectsInv, [Next]_vars
  PROVE  [Names!Next]_nameVars
  <1>1. ASSUME NEW n \in BufferNames, GenBuffer(n)
        PROVE  Names!Next
    BY <1>1 DEF GenBuffer, Names!Next, BufferNames
  <1>2. ASSUME NEW n \in BufferNames, NEW t \in Targets, BindBuffer(t, n)
        PROVE  [Names!Next]_nameVars
    BY <1>2, SetBitEffects DEF BindBuffer, ObjectsInv
  <1>3. ASSUME NEW n \in BufferNames, DeleteObject(n) \/ DeleteName(n)
        PROVE  Names!Next
    <2>1. Names!DestroyName(n) \/ Names!DetachName(n)
      BY <1>3 DEF DeleteObject, DeleteName
    <2> QED BY <2>1, DestroyEffects, DetachEffects DEF ObjectsInv
  <1>4. ASSUME NEW n, NEW refs, MaybeDestroy(n, refs)
        PROVE  UNCHANGED nameVars
    BY <1>4, MarkedStay DEF ObjectsInv
  <1>5. ASSUME NEW i \in Attribs, AttribPointer(i) \/ UnrefNext(i)
        PROVE  UNCHANGED nameVars
    <2>1. \/ UNCHANGED nameVars
          \/ MaybeDestroy(buffers[attribs_binding][i], ref_count')
          \/ MaybeDestroy(destructing[i], ref_count')
      BY <1>5 DEF AttribPointer, UnrefNext
    <2> QED BY <1>4, <2>1
  <1>6. ASSUME NEW n \in BufferNames, NEW a \in VertexArrays,
               BindBufferRange(n) \/ BindVertexArray(a) \/ DeleteVertexArray(a)
        PROVE  UNCHANGED nameVars
    BY <1>6 DEF BindBufferRange, BindVertexArray, DeleteVertexArray
  <1>7. CASE UNCHANGED vars
    BY <1>7 DEF vars
  <1>8. 0 \in BufferNames /\ 0 \in VertexArrays
    BY ZeroIsName, GLObjectsAssumption
  <1> QED BY <1>1, <1>2, <1>3, <1>5, <1>6, <1>7, <1>8 DEF Next

(* To the name space the objects are a caller like any other: each of their *)
(* operations makes one of its steps, on a name it accepts, or none.        *)
THEOREM GLObjectsNames ==
  ASSUME NameBound <= NameSpan
  PROVE  Spec => [][Names!Next]_nameVars
  <1>1. ObjectsInv /\ [Next]_vars => [Names!Next]_nameVars
    BY NamesOnly
  <1> QED BY <1>1, GLObjectsInvariant, PTL DEF Spec

-----------------------------------------------------------------------------
(* Query objects.  The queued commands decide what a report is going to     *)
(* hold: the invariant says of every query that its reports have been       *)
(* written, or are going to be, by its own calls and by nobody later, and   *)
(* that the timestamp of a call comes behind what the call writes.          *)

Commands ==
  [op : {"report", "stamp", "condition"}, arg : Reports \cup {NoReport}, ts : Nat]

QueryTypes ==
  /\ QueriesTypeOK
  /\ fifo \in Seq(Commands)
  /\ report \in [Reports -> Nat]
  /\ next_timestamp \in Nat /\ last_timestamp \in Nat /\ cached_timestamp \in Nat
  /\ last_timestamp < next_timestamp
  /\ cached_timestamp <= label
  /\ misused \in BOOLEAN
  /\ call \in [op : {"none", "get", "render"}, query : Queries \cup {NoQuery}, ts : Nat]

(* A report is in one query at most, and given out as long as it is.        *)
Owned ==
  /\ \A q \in Queries : ReportsOf(q) \subseteq used
  /\ \A q, p \in Queries : q # p => ReportsOf(q) \cap ReportsOf(p) = {}

(* Every call has at most one report and one timestamp written, and only    *)
(* glQueryCounter the timestamp first.                                      *)
InOrder ==
  /\ \A k \in 1 .. Len(fifo) : fifo[k].op # "condition" => fifo[k].ts <= last_timestamp
  /\ \A k \in 1 .. Len(fifo) : fifo[k].op = "stamp" => label < fifo[k].ts
  /\ \A k \in 1 .. Len(fifo) : fifo[k].op = "report" =>
       /\ label < fifo[k].ts \/ (k = 1 /\ label = fifo[k].ts)
       /\ fifo[k].arg \in Reports => report[fifo[k].arg] < fifo[k].ts
  /\ \A l \in 1 .. Len(fifo) : \A k \in 1 .. l - 1 :
       /\ fifo[k].op = fifo[l].op /\ fifo[k].op # "condition" => fifo[k].ts < fifo[l].ts
       /\ fifo[k].op = "stamp" /\ fifo[l].op = "report" =>
            fifo[k].ts < fifo[l].ts \/ (l = k + 1 /\ fifo[k].ts = fifo[l].ts)
  /\ \A r \in Reports : report[r] <= last_timestamp

(* What the state of a query goes with.                                     *)
Proper ==
  /\ TimestampsFollow
  /\ \A q \in Queries :
       /\ type[q] = "none" => status[q] = "inactive"
       /\ status[q] \in {"active", "pending"} =>
            /\ type[q] \in {"samples", "any", "elapsed", "timestamp"}
            /\ indices[q][1] # NoReport
            /\ type[q] = "elapsed" => indices[q][2] # NoReport /\ indices[q][1] # indices[q][2]
       /\ status[q] = "active" => type[q] # "timestamp"
  /\ \A t \in QueryTargets : query_binding[t] # NoQuery =>
       LET q == query_binding[t] IN
         life[q] = "object" /\ type[q] = t /\ status[q] = "active"
  /\ any_samples_passed_query # NoReport =>
       /\ "any" \in QueryTargets /\ query_binding["any"] # NoQuery
       /\ indices[query_binding["any"]][1] = any_samples_passed_query
  /\ aborted \notin {"query", "report", "timestamp"}

(* While the CPU waits for a result.                                        *)
Waiting ==
  call # NoCall =>
    LET q == call.query IN
      /\ q \in Queries /\ status[q] = "pending"
      /\ call.op \in {"get", "render"}
      /\ call.ts \in Nat /\ timestamps[q][1] <= call.ts
      /\ type[q] \in {"samples", "elapsed"} => call.ts = timestamps[q][2]

(* The report has been written, or is going to be, by the call that took m, *)
(* or one later than that; stream and mem: fifo and report.                 *)
Written(stream, mem, r, m) ==
  \/ \E k \in 1 .. Len(stream) : stream[k].op = "report" /\ stream[k].arg = r /\ stream[k].ts = m
  \/ mem[r] >= m

(* The report is not written by a call after m.                             *)
NotAfter(stream, mem, r, m) ==
  /\ \A k \in 1 .. Len(stream) :
       stream[k].op = "report" /\ stream[k].arg = r => stream[k].ts <= m
  /\ mem[r] <= m

(* The GPU writes the timestamp behind command k.                           *)
Covered(stream, k) ==
  \E l \in k + 1 .. Len(stream) : stream[l].op = "stamp" /\ stream[l].ts = stream[k].ts

(* What is and is going to be in the reports of a query.                    *)
Writes(q, stream, mem) ==
  LET r == indices[q][1]
      s == indices[q][2]
      b == timestamps[q][1]
      e == timestamps[q][2]
  IN
  /\ status[q] \in {"active", "pending"} =>
       /\ Written(stream, mem, r, b)
       /\ type[q] \in {"elapsed", "timestamp"} => NotAfter(stream, mem, r, b)
       /\ b <= last_timestamp
       /\ type[q] # "timestamp" =>
            \A k \in 1 .. Len(stream) :
              stream[k].op = "report" /\ stream[k].arg \in {r, s} \ {NoReport}
                /\ stream[k].ts >= b
              => Covered(stream, k)
  /\ status[q] = "pending" =>
       /\ type[q] \in {"samples", "any"} =>
            b <= e /\ Written(stream, mem, r, e) /\ NotAfter(stream, mem, r, e)
       /\ type[q] = "elapsed" =>
            b <= e /\ Written(stream, mem, s, e) /\ NotAfter(stream, mem, s, e)

(* The same for what the commands of conditional rendering read.            *)
Conditions(stream, mem) ==
  \A k \in 1 .. Len(stream) : stream[k].op = "condition" =>
    LET r == stream[k].arg
        m == stream[k].ts
    IN
    /\ r \in Reports
    /\ \/ \E j \in 1 .. k - 1 : stream[j].op = "report" /\ stream[j].arg = r /\ stream[j].ts = m
       \/ mem[r] >= m
    /\ \A j \in 1 .. k - 1 : stream[j].op = "report" /\ stream[j].arg = r => stream[j].ts <= m
    /\ mem[r] <= m

Rest ==
  ~misused => /\ Proper
              /\ Waiting
              /\ \A q \in Queries : Writes(q, fifo, report)
              /\ Conditions(fifo, report)

QueriesInv == QueryTypes /\ Owned /\ InOrder /\ Rest

-----------------------------------------------------------------------------

(* The command stream.                                                      *)

LEMMA ConcatFacts ==
  ASSUME NEW T, NEW f \in Seq(T), NEW g \in Seq(T)
  PROVE  /\ f \o g \in Seq(T)
         /\ Len(f) \in Nat /\ Len(g) \in Nat
         /\ Len(f \o g) = Len(f) + Len(g)
         /\ \A k \in 1 .. Len(f) : (f \o g)[k] = f[k]
         /\ \A j \in 1 .. Len(g) : (f \o g)[Len(f) + j] = g[j]
  OBVIOUS

LEMMA StreamTail ==
  ASSUME NEW T, NEW f \in Seq(T), f # << >>
  PROVE  /\ Tail(f) \in Seq(T)
         /\ Len(f) \in Nat /\ Len(f) > 0
         /\ Len(Tail(f)) = Len(f) - 1
         /\ Head(f) = f[1] /\ f[1] \in T
         /\ \A k \in 1 .. Len(f) - 1 : Tail(f)[k] = f[k + 1] /\ k + 1 \in 1 .. Len(f)
  OBVIOUS

(* The commands of a call that takes timestamp ts.                          *)
IsCall(cmds, ts) ==
  \/ cmds = <<Stamp(ts)>>
  \/ \E r \in Reports \cup {NoReport} :
       cmds = <<Report(r, ts), Stamp(ts)>> \/ cmds = <<Stamp(ts), Report(r, ts)>>

LEMMA CallFacts ==
  ASSUME NEW ts \in Nat, NEW cmds, IsCall(cmds, ts)
  PROVE  /\ cmds \in Seq(Commands)
         /\ Len(cmds) \in {1, 2}
         /\ \A j \in 1 .. Len(cmds) : cmds[j].ts = ts /\ cmds[j].op \in {"report", "stamp"}
         /\ Len(cmds) = 2 => cmds[1].op # cmds[2].op
  <1>1. Stamp(ts) \in Commands /\ Stamp(ts).ts = ts /\ Stamp(ts).op = "stamp"
    BY DEF Stamp, Commands
  <1>2. \A r \in Reports \cup {NoReport} :
          Report(r, ts) \in Commands /\ Report(r, ts).ts = ts /\ Report(r, ts).op = "report"
    BY DEF Report, Commands
  <1>3. CASE cmds = <<Stamp(ts)>>
    BY <1>1, <1>3
  <1>4. CASE \E r \in Reports \cup {NoReport} :
               cmds = <<Report(r, ts), Stamp(ts)>> \/ cmds = <<Stamp(ts), Report(r, ts)>>
    <2>1. PICK a \in Commands, c \in Commands :
            /\ cmds = <<a, c>> /\ a.ts = ts /\ c.ts = ts /\ a.op # c.op
            /\ a.op \in {"report", "stamp"} /\ c.op \in {"report", "stamp"}
      BY <1>1, <1>2, <1>4
    <2>2. cmds \in Seq(Commands) /\ Len(cmds) = 2 /\ cmds[1] = a /\ cmds[2] = c
      BY <2>1
    <2> HIDE DEF Commands
    <2> QED BY <2>1, <2>2
  <1> QED BY <1>3, <1>4 DEF IsCall

(* The stream with the commands of a call behind it.                        *)
LEMMA EmitFacts ==
  ASSUME QueryTypes, NEW cmds, IsCall(cmds, next_timestamp), Emit(cmds)
  PROVE  /\ fifo' \in Seq(Commands)
         /\ Len(fifo) \in Nat /\ Len(cmds) \in {1, 2}
         /\ Len(fifo') = Len(fifo) + Len(cmds)
         /\ \A k \in 1 .. Len(fifo) : fifo'[k] = fifo[k]
         /\ \A k \in 1 .. Len(fifo') : k \notin 1 .. Len(fifo) =>
              /\ k - Len(fifo) \in 1 .. Len(cmds) /\ fifo'[k] = cmds[k - Len(fifo)]
              /\ fifo'[k].ts = next_timestamp /\ fifo'[k].op \in {"report", "stamp"}
         /\ Len(cmds) = 2 => fifo'[Len(fifo) + 1].op # fifo'[Len(fifo) + 2].op
         /\ next_timestamp = last_timestamp + 1
         /\ next_timestamp' = next_timestamp + 1 /\ last_timestamp' = next_timestamp
         /\ UNCHANGED <<cached_timestamp, label, put, report>>
  <1>1. /\ fifo' = fifo \o cmds /\ fifo \in Seq(Commands) /\ next_timestamp \in Nat
        /\ next_timestamp = last_timestamp + 1
        /\ next_timestamp' = next_timestamp + 1 /\ last_timestamp' = next_timestamp
        /\ UNCHANGED <<cached_timestamp, label, put, report>>
    BY DEF Emit, QueryTypes, TimestampsFollow
  <1>2. /\ cmds \in Seq(Commands) /\ Len(cmds) \in {1, 2}
        /\ \A j \in 1 .. Len(cmds) :
             cmds[j].ts = next_timestamp /\ cmds[j].op \in {"report", "stamp"}
        /\ Len(cmds) = 2 => cmds[1].op # cmds[2].op
    BY <1>1, CallFacts
  <1>3. /\ fifo' \in Seq(Commands) /\ Len(fifo) \in Nat
        /\ Len(fifo') = Len(fifo) + Len(cmds)
        /\ \A k \in 1 .. Len(fifo) : fifo'[k] = fifo[k]
        /\ \A j \in 1 .. Len(cmds) : fifo'[Len(fifo) + j] = cmds[j]
    BY <1>1, <1>2, ConcatFacts
  <1>4. ASSUME NEW k \in 1 .. Len(fifo'), k \notin 1 .. Len(fifo)
        PROVE  k - Len(fifo) \in 1 .. Len(cmds) /\ fifo'[k] = cmds[k - Len(fifo)]
    <2>1. k - Len(fifo) \in 1 .. Len(cmds) /\ k = Len(fifo) + (k - Len(fifo))
      BY <1>2, <1>3, <1>4
    <2> QED BY <1>3, <2>1
  <1> QED BY <1>1, <1>2, <1>3, <1>4

LEMMA EmitInOrder ==
  ASSUME QueryTypes, InOrder, NEW cmds, IsCall(cmds, next_timestamp), Emit(cmds)
  PROVE  InOrder'
  <1> DEFINE n == Len(fifo)
             ts == next_timestamp
  <1>1. /\ n \in Nat /\ Len(cmds) \in {1, 2} /\ Len(fifo') = n + Len(cmds)
        /\ \A k \in 1 .. n : fifo'[k] = fifo[k]
        /\ \A k \in 1 .. Len(fifo') : k \notin 1 .. n =>
             fifo'[k].ts = ts /\ fifo'[k].op \in {"report", "stamp"}
        /\ Len(cmds) = 2 => fifo'[n + 1].op # fifo'[n + 2].op
        /\ ts = last_timestamp + 1 /\ last_timestamp' = ts
        /\ label' = label /\ report' = report
    BY EmitFacts
  <1>2. /\ last_timestamp \in Nat /\ label \in Nat /\ label <= last_timestamp
        /\ report \in [Reports -> Nat] /\ fifo \in Seq(Commands)
    BY DEF QueryTypes, QueriesTypeOK
  <1>3. \A k \in 1 .. n : fifo[k].ts \in Nat
    <2>1. \A k \in 1 .. n : fifo[k] \in Commands
      BY <1>2
    <2> QED BY <2>1 DEF Commands
  <1> HIDE DEF n, ts
  <1>4. ASSUME NEW k \in 1 .. Len(fifo')
        PROVE  /\ fifo'[k].op # "condition" => fifo'[k].ts <= last_timestamp'
               /\ fifo'[k].op = "stamp" => label' < fifo'[k].ts
               /\ fifo'[k].op = "report" =>
                    /\ label' < fifo'[k].ts \/ (k = 1 /\ label' = fifo'[k].ts)
                    /\ fifo'[k].arg \in Reports => report'[fifo'[k].arg] < fifo'[k].ts
    <2>1. CASE k \in 1 .. n
      BY <1>1, <1>2, <1>3, <2>1 DEF InOrder, n
    <2>2. CASE k \notin 1 .. n
      <3>1. /\ fifo'[k].ts = ts /\ fifo'[k].op \in {"report", "stamp"}
            /\ \A r \in Reports : report[r] <= last_timestamp /\ report[r] \in Nat
        BY <1>1, <1>2, <2>2 DEF InOrder
      <3> QED BY <1>1, <1>2, <3>1
    <2> QED BY <2>1, <2>2
  <1>5. ASSUME NEW l \in 1 .. Len(fifo'), NEW k \in 1 .. l - 1
        PROVE  /\ fifo'[k].op = fifo'[l].op /\ fifo'[k].op # "condition" =>
                    fifo'[k].ts < fifo'[l].ts
               /\ fifo'[k].op = "stamp" /\ fifo'[l].op = "report" =>
                    fifo'[k].ts < fifo'[l].ts \/ (l = k + 1 /\ fifo'[k].ts = fifo'[l].ts)
    <2>0. k \in 1 .. Len(fifo') /\ k \in Nat /\ l \in Nat /\ k < l
      BY <1>1
    <2>1. CASE l \in 1 .. n
      <3>1. k \in 1 .. n
        BY <1>1, <2>1
      <3> QED BY <1>1, <2>1, <3>1 DEF InOrder, n
    <2>2. CASE l \notin 1 .. n /\ k \in 1 .. n
      <3>1. fifo'[l].ts = ts /\ fifo'[k] = fifo[k] /\ fifo[k].ts \in Nat
        BY <1>1, <1>3, <2>2
      <3>2. fifo[k].op # "condition" => fifo[k].ts <= last_timestamp
        BY <2>2 DEF InOrder, n
      <3> QED BY <1>1, <1>2, <3>1, <3>2
    <2>3. CASE l \notin 1 .. n /\ k \notin 1 .. n
      <3>1. k = n + 1 /\ l = n + 2 /\ Len(cmds) = 2
        <4>1. \A m \in Nat : Len(fifo') = m => k <= m /\ l <= m
          BY <1>1, <2>0
        <4>2. k > n /\ l > n /\ k < l /\ l <= n + Len(cmds)
          BY <1>1, <2>0, <2>3, <4>1
        <4>3. \A a, c \in Nat, d \in {1, 2} : a > n /\ a < c /\ c <= n + d =>
                a = n + 1 /\ c = n + 2 /\ d = 2
          <5>1. n \in Nat
            BY <1>1
          <5> QED BY <5>1
        <4> QED BY <1>1, <2>0, <4>2, <4>3
      <3> QED BY <1>1, <2>0, <2>3, <3>1
    <2> QED BY <1>1, <2>0, <2>1, <2>2, <2>3
  <1>6. \A r \in Reports : report'[r] <= last_timestamp'
    BY <1>1, <1>2 DEF InOrder
  <1> QED BY <1>4, <1>5, <1>6 DEF InOrder


(* The stream when the GPU has executed a command.                          *)
LEMMA ExecuteFacts ==
  ASSUME QueryTypes, Execute
  PROVE  /\ Len(fifo) \in Nat /\ Len(fifo) > 0 /\ Len(fifo') = Len(fifo) - 1
         /\ fifo' \in Seq(Commands)
         /\ \A k \in 1 .. Len(fifo') : fifo'[k] = fifo[k + 1] /\ k + 1 \in 1 .. Len(fifo)
         /\ fifo[1] \in Commands /\ fifo[1].ts \in Nat
         /\ fifo[1].op \in {"report", "stamp", "condition"}
         /\ report' = IF fifo[1].op = "report" THEN [report EXCEPT ![fifo[1].arg] = fifo[1].ts]
                      ELSE report
         /\ label' = IF fifo[1].op = "stamp" THEN fifo[1].ts ELSE label
         /\ put' = put - 1 /\ put > 0
         /\ UNCHANGED <<queryVars, query_binding, reportVars, conditional, counters,
                        cached_timestamp, call, aborted, misused>>
  <1> DEFINE c == Head(fifo)
  <1>1. /\ put > 0 /\ fifo' = Tail(fifo) /\ put' = put - 1
        /\ report' = IF c.op = "report" THEN [report EXCEPT ![c.arg] = c.ts] ELSE report
        /\ label' = IF c.op = "stamp" THEN c.ts ELSE label
        /\ UNCHANGED <<queryVars, query_binding, reportVars, conditional, counters,
                       cached_timestamp, call, aborted, misused>>
    BY DEF Execute
  <1>2. fifo \in Seq(Commands) /\ fifo # << >>
    BY <1>1 DEF QueryTypes, QueriesTypeOK
  <1>3. /\ fifo' \in Seq(Commands) /\ Len(fifo) \in Nat /\ Len(fifo) > 0
        /\ Len(fifo') = Len(fifo) - 1 /\ c = fifo[1] /\ fifo[1] \in Commands
        /\ \A k \in 1 .. Len(fifo) - 1 : fifo'[k] = fifo[k + 1] /\ k + 1 \in 1 .. Len(fifo)
    BY <1>1, <1>2, StreamTail
  <1>4. fifo[1].ts \in Nat /\ fifo[1].op \in {"report", "stamp", "condition"}
    BY <1>3 DEF Commands
  <1> HIDE DEF c
  <1> QED BY <1>1, <1>3, <1>4

LEMMA ExecuteInOrder ==
  ASSUME QueryTypes, InOrder, Execute
  PROVE  InOrder' /\ label' \in 0 .. last_timestamp /\ label <= label'
                  /\ report' \in [Reports -> Nat]
  <1> DEFINE n == Len(fifo)
             c == fifo[1]
  <1>1. /\ n \in Nat /\ n > 0 /\ Len(fifo') = n - 1
        /\ \A k \in 1 .. Len(fifo') : fifo'[k] = fifo[k + 1] /\ k + 1 \in 1 .. n
        /\ c.ts \in Nat /\ c.op \in {"report", "stamp", "condition"}
        /\ report' = IF c.op = "report" THEN [report EXCEPT ![c.arg] = c.ts] ELSE report
        /\ label' = IF c.op = "stamp" THEN c.ts ELSE label
        /\ last_timestamp' = last_timestamp
    BY ExecuteFacts DEF counters
  <1>2. /\ last_timestamp \in Nat /\ label \in Nat /\ label <= last_timestamp
        /\ report \in [Reports -> Nat]
    BY DEF QueryTypes, QueriesTypeOK
  <1>3. /\ \A k \in 1 .. n : fifo[k].op # "condition" => fifo[k].ts <= last_timestamp
        /\ \A k \in 1 .. n : fifo[k].op = "stamp" => label < fifo[k].ts
        /\ \A k \in 1 .. n : fifo[k].op = "report" =>
             /\ label < fifo[k].ts \/ (k = 1 /\ label = fifo[k].ts)
             /\ fifo[k].arg \in Reports => report[fifo[k].arg] < fifo[k].ts
        /\ \A l \in 1 .. n : \A k \in 1 .. l - 1 :
             /\ fifo[k].op = fifo[l].op /\ fifo[k].op # "condition" => fifo[k].ts < fifo[l].ts
             /\ fifo[k].op = "stamp" /\ fifo[l].op = "report" =>
                  fifo[k].ts < fifo[l].ts \/ (l = k + 1 /\ fifo[k].ts = fifo[l].ts)
        /\ \A r \in Reports : report[r] <= last_timestamp
    BY DEF InOrder
  <1>4. 1 \in 1 .. n
    BY <1>1
  <1>5. c.op # "condition" => c.ts <= last_timestamp
    BY <1>3, <1>4
  <1>6. c.op = "stamp" => label < c.ts
    BY <1>3, <1>4
  <1> HIDE DEF n, c
  <1>7. label' \in 0 .. last_timestamp /\ label <= label' /\ report' \in [Reports -> Nat]
    <2>1. label' \in 0 .. last_timestamp /\ label <= label'
      <3>1. CASE c.op = "stamp"
        BY <1>1, <1>2, <1>5, <1>6, <3>1
      <3>2. CASE c.op # "stamp"
        BY <1>1, <1>2, <3>2
      <3> QED BY <3>1, <3>2
    <2>2. report' \in [Reports -> Nat]
      BY <1>1, <1>2
    <2> QED BY <2>1, <2>2
  <1>8. \A r \in Reports : report'[r] <= last_timestamp'
    BY <1>1, <1>2, <1>3, <1>5
  <1>9. ASSUME NEW k \in 1 .. Len(fifo')
        PROVE  /\ fifo'[k].op # "condition" => fifo'[k].ts <= last_timestamp'
               /\ fifo'[k].op = "stamp" => label' < fifo'[k].ts
               /\ fifo'[k].op = "report" =>
                    /\ label' < fifo'[k].ts \/ (k = 1 /\ label' = fifo'[k].ts)
                    /\ fifo'[k].arg \in Reports => report'[fifo'[k].arg] < fifo'[k].ts
    <2>1. /\ fifo'[k] = fifo[k + 1] /\ k + 1 \in 1 .. n /\ k \in Nat /\ k > 0
          /\ 1 \in 1 .. (k + 1) - 1
      BY <1>1
    <2>2. /\ c.op = fifo[k + 1].op /\ c.op # "condition" => c.ts < fifo[k + 1].ts
          /\ c.op = "stamp" /\ fifo[k + 1].op = "report" =>
               c.ts < fifo[k + 1].ts \/ (k + 1 = 1 + 1 /\ c.ts = fifo[k + 1].ts)
      BY <1>3, <2>1 DEF c
    <2>3. /\ fifo[k + 1].op # "condition" => fifo[k + 1].ts <= last_timestamp
          /\ fifo[k + 1].op = "stamp" => label < fifo[k + 1].ts
          /\ fifo[k + 1].op = "report" =>
               /\ label < fifo[k + 1].ts
               /\ fifo[k + 1].arg \in Reports => report[fifo[k + 1].arg] < fifo[k + 1].ts
      BY <1>3, <2>1
    <2>4. fifo'[k].op = "stamp" => label' < fifo'[k].ts
      BY <1>1, <2>1, <2>2, <2>3
    <2>5. ASSUME fifo'[k].op = "report"
          PROVE  /\ label' < fifo'[k].ts \/ (k = 1 /\ label' = fifo'[k].ts)
                 /\ fifo'[k].arg \in Reports => report'[fifo'[k].arg] < fifo'[k].ts
      <3>1. label' < fifo'[k].ts \/ (k = 1 /\ label' = fifo'[k].ts)
        BY <1>1, <2>1, <2>2, <2>3, <2>5
      <3>2. fifo'[k].arg \in Reports => report'[fifo'[k].arg] < fifo'[k].ts
        BY <1>1, <1>2, <2>1, <2>2, <2>3, <2>5
      <3> QED BY <3>1, <3>2
    <2> QED BY <1>1, <2>1, <2>3, <2>4, <2>5
  <1>10. ASSUME NEW l \in 1 .. Len(fifo'), NEW k \in 1 .. l - 1
         PROVE  /\ fifo'[k].op = fifo'[l].op /\ fifo'[k].op # "condition" =>
                     fifo'[k].ts < fifo'[l].ts
                /\ fifo'[k].op = "stamp" /\ fifo'[l].op = "report" =>
                     fifo'[k].ts < fifo'[l].ts \/ (l = k + 1 /\ fifo'[k].ts = fifo'[l].ts)
    <2>1. k \in 1 .. Len(fifo') /\ k + 1 \in 1 .. (l + 1) - 1 /\ k \in Int /\ l \in Int
      BY <1>1
    <2>2. /\ fifo'[k] = fifo[k + 1] /\ fifo'[l] = fifo[l + 1] /\ l + 1 \in 1 .. n
      BY <1>1, <2>1
    <2>3. /\ fifo[k + 1].op = fifo[l + 1].op /\ fifo[k + 1].op # "condition" =>
                fifo[k + 1].ts < fifo[l + 1].ts
          /\ fifo[k + 1].op = "stamp" /\ fifo[l + 1].op = "report" =>
                fifo[k + 1].ts < fifo[l + 1].ts
                  \/ (l + 1 = (k + 1) + 1 /\ fifo[k + 1].ts = fifo[l + 1].ts)
      BY <1>3, <2>1, <2>2
    <2> QED BY <2>1, <2>2, <2>3
  <1> QED BY <1>7, <1>8, <1>9, <1>10 DEF InOrder

(* What is written, or going to be, stays so when the GPU has written it.   *)
LEMMA ExecuteWritten ==
  ASSUME QueryTypes, InOrder, Execute, NEW r \in Reports, NEW m \in Nat
  PROVE  /\ Written(fifo, report, r, m) => Written(fifo', report', r, m)
         /\ NotAfter(fifo, report, r, m) => NotAfter(fifo', report', r, m)
  <1> DEFINE n == Len(fifo)
             c == fifo[1]
  <1>1. /\ n \in Nat /\ n > 0 /\ Len(fifo') = n - 1
        /\ \A k \in 1 .. Len(fifo') : fifo'[k] = fifo[k + 1] /\ k + 1 \in 1 .. n
        /\ c.ts \in Nat
        /\ report' = IF c.op = "report" THEN [report EXCEPT ![c.arg] = c.ts] ELSE report
        /\ report \in [Reports -> Nat]
    BY ExecuteFacts DEF QueryTypes
  <1>2. 1 \in 1 .. n
    BY <1>1
  <1>3. c.op = "report" /\ c.arg = r => report[r] < c.ts /\ report'[r] = c.ts
    BY <1>1, <1>2 DEF InOrder
  <1>4. ~(c.op = "report" /\ c.arg = r) => report'[r] = report[r]
    BY <1>1
  <1>5. report[r] \in Nat /\ report'[r] \in Nat
    BY <1>1, <1>3, <1>4
  <1> HIDE DEF n
  <1>6. ASSUME Written(fifo, report, r, m)
        PROVE  Written(fifo', report', r, m)
    <2>1. CASE report[r] >= m
      <3>1. report'[r] >= m
        BY <1>1, <1>3, <1>4, <1>5, <2>1
      <3> QED BY <3>1 DEF Written
    <2>2. CASE \E k \in 1 .. n : fifo[k].op = "report" /\ fifo[k].arg = r /\ fifo[k].ts = m
      <3>1. PICK k \in 1 .. n : fifo[k].op = "report" /\ fifo[k].arg = r /\ fifo[k].ts = m
        BY <2>2
      <3>2. CASE k = 1
        BY <1>3, <1>5, <3>1, <3>2 DEF Written
      <3>3. CASE k # 1
        <4>1. k - 1 \in 1 .. Len(fifo') /\ (k - 1) + 1 = k
          BY <1>1, <3>3
        <4>2. fifo'[k - 1] = fifo[k]
          BY <1>1, <4>1
        <4> QED BY <3>1, <4>1, <4>2 DEF Written
      <3> QED BY <3>2, <3>3
    <2> QED BY <1>6, <2>1, <2>2 DEF Written, n
  <1>7. ASSUME NotAfter(fifo, report, r, m)
        PROVE  NotAfter(fifo', report', r, m)
    <2>1. report'[r] <= m
      BY <1>2, <1>3, <1>4, <1>7 DEF NotAfter, n
    <2>2. \A k \in 1 .. Len(fifo') :
            fifo'[k].op = "report" /\ fifo'[k].arg = r => fifo'[k].ts <= m
      BY <1>1, <1>7 DEF NotAfter, n
    <2> QED BY <2>1, <2>2 DEF NotAfter
  <1> QED BY <1>6, <1>7

LEMMA ExecuteCovered ==
  ASSUME QueryTypes, Execute, NEW k \in 1 .. Len(fifo'), Covered(fifo, k + 1)
  PROVE  Covered(fifo', k)
  <1>1. /\ Len(fifo) \in Nat /\ Len(fifo') = Len(fifo) - 1
        /\ \A j \in 1 .. Len(fifo') : fifo'[j] = fifo[j + 1]
    BY ExecuteFacts
  <1>2. PICK l \in (k + 1) + 1 .. Len(fifo) :
          fifo[l].op = "stamp" /\ fifo[l].ts = fifo[k + 1].ts
    BY DEF Covered
  <1>3. l - 1 \in k + 1 .. Len(fifo') /\ l - 1 \in 1 .. Len(fifo') /\ (l - 1) + 1 = l
    BY <1>1, <1>2
  <1>4. fifo'[l - 1] = fifo[l] /\ fifo'[k] = fifo[k + 1]
    BY <1>1, <1>3
  <1> QED BY <1>2, <1>3, <1>4 DEF Covered


(* What a query's state goes with, in the state that is not misused.        *)
LEMMA ProperFacts ==
  ASSUME QueryTypes, Proper, NEW q \in Queries, status[q] \in {"active", "pending"}
  PROVE  /\ type[q] \in {"samples", "any", "elapsed", "timestamp"}
         /\ indices[q][1] \in Reports
         /\ type[q] = "elapsed" => indices[q][2] \in Reports /\ indices[q][1] # indices[q][2]
         /\ timestamps[q][1] \in Nat /\ timestamps[q][2] \in Nat
         /\ status[q] = "active" => type[q] # "timestamp"
  <1>1. /\ indices[q][1] \in Reports \cup {NoReport} /\ indices[q][2] \in Reports \cup {NoReport}
        /\ timestamps[q][1] \in Nat /\ timestamps[q][2] \in Nat
    BY DEF QueryTypes, QueriesTypeOK
  <1> QED BY <1>1 DEF Proper

LEMMA ExecuteWrites ==
  ASSUME QueryTypes, InOrder, Proper, Execute, NEW q \in Queries, Writes(q, fifo, report)
  PROVE  Writes(q, fifo, report)'
  <1>1. /\ status' = status /\ type' = type /\ indices' = indices
        /\ timestamps' = timestamps /\ last_timestamp' = last_timestamp
    BY ExecuteFacts DEF queryVars, counters
  <1>2. /\ Len(fifo') = Len(fifo) - 1
        /\ \A k \in 1 .. Len(fifo') : fifo'[k] = fifo[k + 1] /\ k + 1 \in 1 .. Len(fifo)
    BY ExecuteFacts
  <1>3. CASE status[q] \notin {"active", "pending"}
    BY <1>1, <1>3 DEF Writes
  <1>4. CASE status[q] \in {"active", "pending"}
    <2> DEFINE r == indices[q][1]
               s == indices[q][2]
               b == timestamps[q][1]
               e == timestamps[q][2]
    <2>1. /\ type[q] \in {"samples", "any", "elapsed", "timestamp"}
          /\ r \in Reports /\ b \in Nat /\ e \in Nat
          /\ type[q] = "elapsed" => s \in Reports
      BY <1>4, ProperFacts
    <2>2. /\ \A m \in Nat : Written(fifo, report, r, m) => Written(fifo', report', r, m)
          /\ \A m \in Nat : NotAfter(fifo, report, r, m) => NotAfter(fifo', report', r, m)
      BY <2>1, ExecuteWritten
    <2>3. type[q] = "elapsed" =>
            /\ \A m \in Nat : Written(fifo, report, s, m) => Written(fifo', report', s, m)
            /\ \A m \in Nat : NotAfter(fifo, report, s, m) => NotAfter(fifo', report', s, m)
      BY <2>1, ExecuteWritten
    <2>4. ASSUME type[q] # "timestamp", NEW k \in 1 .. Len(fifo'), fifo'[k].op = "report",
                 fifo'[k].arg \in {r, s} \ {NoReport}, fifo'[k].ts >= b
          PROVE  Covered(fifo', k)
      <3>1. Covered(fifo, k + 1)
        BY <1>2, <1>4, <2>4 DEF Writes
      <3> QED BY <3>1, ExecuteCovered
    <2> QED BY <1>1, <1>4, <2>1, <2>2, <2>3, <2>4 DEF Writes
  <1> QED BY <1>3, <1>4

LEMMA ExecuteConditions ==
  ASSUME QueryTypes, InOrder, Execute, Conditions(fifo, report)
  PROVE  Conditions(fifo, report)'
  <1> DEFINE c == fifo[1]
  <1>1. /\ Len(fifo) \in Nat /\ Len(fifo) > 0 /\ Len(fifo') = Len(fifo) - 1
        /\ fifo' \in Seq(Commands)
        /\ \A k \in 1 .. Len(fifo') : fifo'[k] = fifo[k + 1] /\ k + 1 \in 1 .. Len(fifo)
        /\ report' = IF c.op = "report" THEN [report EXCEPT ![c.arg] = c.ts] ELSE report
        /\ report \in [Reports -> Nat] /\ c.ts \in Nat
    BY ExecuteFacts DEF QueryTypes
  <1>2. 1 \in 1 .. Len(fifo)
    BY <1>1
  <1>3. c.op = "report" /\ c.arg \in Reports => report[c.arg] < c.ts
    BY <1>2 DEF InOrder
  <1> HIDE DEF c
  <1> SUFFICES ASSUME NEW k \in 1 .. Len(fifo'), fifo'[k].op = "condition"
               PROVE  LET r == fifo'[k].arg
                          m == fifo'[k].ts
                      IN
                      /\ r \in Reports
                      /\ \/ \E j \in 1 .. k - 1 :
                              fifo'[j].op = "report" /\ fifo'[j].arg = r /\ fifo'[j].ts = m
                         \/ report'[r] >= m
                      /\ \A j \in 1 .. k - 1 :
                           fifo'[j].op = "report" /\ fifo'[j].arg = r => fifo'[j].ts <= m
                      /\ report'[r] <= m
    BY DEF Conditions
  <1> DEFINE r == fifo[k + 1].arg
             m == fifo[k + 1].ts
  <1>4. /\ fifo'[k] = fifo[k + 1] /\ k + 1 \in 1 .. Len(fifo) /\ k \in Nat /\ k > 0
        /\ 1 \in 1 .. (k + 1) - 1
        /\ \A j \in 1 .. k - 1 : fifo'[j] = fifo[j + 1] /\ j + 1 \in 1 .. (k + 1) - 1
    <2>1. k \in Nat /\ k > 0 /\ k <= Len(fifo')
      BY <1>1
    <2>2. \A j \in 1 .. k - 1 : j \in 1 .. Len(fifo') /\ j + 1 \in 1 .. (k + 1) - 1
      BY <1>1, <2>1
    <2> QED BY <1>1, <2>1, <2>2
  <1>5. /\ r \in Reports
        /\ \/ \E j \in 1 .. (k + 1) - 1 :
                fifo[j].op = "report" /\ fifo[j].arg = r /\ fifo[j].ts = m
           \/ report[r] >= m
        /\ \A j \in 1 .. (k + 1) - 1 :
             fifo[j].op = "report" /\ fifo[j].arg = r => fifo[j].ts <= m
        /\ report[r] <= m
    BY <1>4 DEF Conditions
  <1>6. m \in Nat /\ report[r] \in Nat
    <2>1. fifo[k + 1] \in Commands
      BY <1>4 DEF QueryTypes
    <2> QED BY <1>1, <1>5, <2>1 DEF Commands
  <1> HIDE DEF r, m
  <1>7. \/ c.op = "report" /\ c.arg = r /\ report'[r] = c.ts /\ report[r] < c.ts /\ c.ts <= m
        \/ ~(c.op = "report" /\ c.arg = r) /\ report'[r] = report[r]
    BY <1>1, <1>3, <1>4, <1>5 DEF c
  <1>8. report'[r] <= m
    BY <1>5, <1>7
  <1>9. \A j \in 1 .. k - 1 : fifo'[j].op = "report" /\ fifo'[j].arg = r => fifo'[j].ts <= m
    BY <1>4, <1>5
  <1>10. \/ \E j \in 1 .. k - 1 : fifo'[j].op = "report" /\ fifo'[j].arg = r /\ fifo'[j].ts = m
         \/ report'[r] >= m
    <2>1. CASE report[r] >= m
      BY <1>1, <1>6, <1>7, <2>1
    <2>2. CASE \E j \in 1 .. (k + 1) - 1 :
                 fifo[j].op = "report" /\ fifo[j].arg = r /\ fifo[j].ts = m
      <3>1. PICK j \in 1 .. (k + 1) - 1 :
              fifo[j].op = "report" /\ fifo[j].arg = r /\ fifo[j].ts = m
        BY <2>2
      <3>2. CASE j = 1
        BY <1>6, <1>7, <3>1, <3>2 DEF c
      <3>3. CASE j # 1
        <4>1. j - 1 \in 1 .. k - 1 /\ (j - 1) + 1 = j
          BY <1>4, <3>3
        <4> QED BY <1>4, <3>1, <4>1
      <3> QED BY <3>2, <3>3
    <2> QED BY <1>5, <2>1, <2>2
  <1> QED BY <1>4, <1>5, <1>8, <1>9, <1>10 DEF r, m

(* What is written, or going to be, stays so when commands are emitted.     *)
Grows ==
  /\ Len(fifo) \in Nat /\ Len(fifo') \in Nat /\ Len(fifo) <= Len(fifo')
  /\ \A k \in 1 .. Len(fifo) : fifo'[k] = fifo[k]
  /\ report' = report
  /\ last_timestamp <= last_timestamp'

(* The commands emitted write no report of q, unless they are covered and q *)
(* is an active query whose report draws may write.                         *)
Spares(q) ==
  \A k \in 1 .. Len(fifo') :
    k \notin 1 .. Len(fifo) /\ fifo'[k].op = "report"
      /\ fifo'[k].arg \in {indices[q][1], indices[q][2]} \ {NoReport}
    => status[q] = "active" /\ type[q] \in {"samples", "any"} /\ Covered(fifo', k)

LEMMA GrowWrites ==
  ASSUME QueryTypes, Proper, Grows, last_timestamp' \in Nat,
         NEW q \in Queries, Writes(q, fifo, report), Spares(q),
         status'[q] = status[q], type'[q] = type[q], indices'[q] = indices[q],
         timestamps'[q] = timestamps[q]
  PROVE  Writes(q, fifo, report)'
  <1>1. CASE status[q] \notin {"active", "pending"}
    BY <1>1 DEF Writes
  <1>2. CASE status[q] \in {"active", "pending"}
    <2> DEFINE r == indices[q][1]
               s == indices[q][2]
               b == timestamps[q][1]
               e == timestamps[q][2]
    <2>1. /\ type[q] \in {"samples", "any", "elapsed", "timestamp"}
          /\ r \in Reports /\ b \in Nat /\ e \in Nat
          /\ type[q] = "elapsed" => s \in Reports
          /\ last_timestamp \in Nat
      BY <1>2, ProperFacts DEF QueryTypes
    <2>2. \A x, m : Written(fifo, report, x, m) => Written(fifo', report', x, m)
      BY DEF Grows, Written
    <2>3. ASSUME NEW x, x \in {r, s} \ {NoReport},
                 ~(status[q] = "active" /\ type[q] \in {"samples", "any"})
          PROVE  \A m : NotAfter(fifo, report, x, m) => NotAfter(fifo', report', x, m)
      <3>1. \A k \in 1 .. Len(fifo') :
              fifo'[k].op = "report" /\ fifo'[k].arg = x => k \in 1 .. Len(fifo)
        BY <2>3 DEF Spares
      <3> QED BY <3>1 DEF Grows, NotAfter
    <2>4. ASSUME type[q] # "timestamp", NEW k \in 1 .. Len(fifo'), fifo'[k].op = "report",
                 fifo'[k].arg \in {r, s} \ {NoReport}, fifo'[k].ts >= b
          PROVE  Covered(fifo', k)
      <3>1. CASE k \in 1 .. Len(fifo)
        <4>1. Covered(fifo, k) /\ fifo'[k] = fifo[k]
          BY <1>2, <2>4, <3>1 DEF Writes, Grows
        <4> QED BY <3>1, <4>1 DEF Covered, Grows
      <3>2. CASE k \notin 1 .. Len(fifo)
        BY <2>4, <3>2 DEF Spares
      <3> QED BY <3>1, <3>2
    <2>5. b <= last_timestamp => b <= last_timestamp'
      BY <2>1 DEF Grows
    <2>6. r \in {r, s} \ {NoReport} /\ (type[q] = "elapsed" => s \in {r, s} \ {NoReport})
      BY <2>1, QueriesAssumption
    <2> QED BY <1>2, <2>1, <2>2, <2>3, <2>4, <2>5, <2>6 DEF Writes
  <1> QED BY <1>1, <1>2

(* What conditions wait behind does not depend on what is behind them.      *)
LEMMA GrowConditions ==
  ASSUME Grows, Conditions(fifo, report),
         \A k \in 1 .. Len(fifo') : k \notin 1 .. Len(fifo) => fifo'[k].op # "condition"
  PROVE  Conditions(fifo, report)'
  <1>1. ASSUME NEW k \in 1 .. Len(fifo'), fifo'[k].op = "condition"
        PROVE  /\ k \in 1 .. Len(fifo) /\ fifo'[k] = fifo[k]
               /\ \A j \in 1 .. k - 1 : fifo'[j] = fifo[j]
    BY <1>1 DEF Grows
  <1>2. report' = report
    BY DEF Grows
  <1>3. ASSUME NEW k \in 1 .. Len(fifo'), fifo'[k].op = "condition"
        PROVE  LET r == fifo'[k].arg
                   m == fifo'[k].ts
               IN
               /\ r \in Reports
               /\ \/ \E j \in 1 .. k - 1 :
                       fifo'[j].op = "report" /\ fifo'[j].arg = r /\ fifo'[j].ts = m
                  \/ report'[r] >= m
               /\ \A j \in 1 .. k - 1 :
                    fifo'[j].op = "report" /\ fifo'[j].arg = r => fifo'[j].ts <= m
               /\ report'[r] <= m
    <2> DEFINE r == fifo[k].arg
               m == fifo[k].ts
    <2>1. /\ k \in 1 .. Len(fifo) /\ fifo'[k] = fifo[k] /\ fifo[k].op = "condition"
          /\ \A j \in 1 .. k - 1 : fifo'[j] = fifo[j]
      BY <1>1, <1>3
    <2>2. /\ r \in Reports /\ report[r] <= m
          /\ \/ \E j \in 1 .. k - 1 : fifo[j].op = "report" /\ fifo[j].arg = r /\ fifo[j].ts = m
             \/ report[r] >= m
          /\ \A j \in 1 .. k - 1 : fifo[j].op = "report" /\ fifo[j].arg = r => fifo[j].ts <= m
      BY <2>1 DEF Conditions
    <2> QED BY <1>2, <2>1, <2>2
  <1> QED BY <1>3 DEF Conditions

LEMMA EmitGrows ==
  ASSUME QueryTypes, NEW cmds, IsCall(cmds, next_timestamp), Emit(cmds)
  PROVE  /\ Grows
         /\ last_timestamp' \in Nat
         /\ \A k \in 1 .. Len(fifo') : k \notin 1 .. Len(fifo) => fifo'[k].op # "condition"
  <1>1. last_timestamp \in Nat
    BY DEF QueryTypes
  <1>2. /\ Len(fifo) \in Nat /\ Len(cmds) \in {1, 2} /\ Len(fifo') = Len(fifo) + Len(cmds)
        /\ \A k \in 1 .. Len(fifo) : fifo'[k] = fifo[k]
        /\ \A k \in 1 .. Len(fifo') : k \notin 1 .. Len(fifo) =>
             fifo'[k].op \in {"report", "stamp"}
        /\ last_timestamp' = last_timestamp + 1 /\ report' = report
    BY EmitFacts
  <1>3. Grows
    BY <1>1, <1>2 DEF Grows
  <1> QED BY <1>1, <1>2, <1>3


-----------------------------------------------------------------------------
(* The steps.                                                               *)

LEMMA PairUpdate ==
  ASSUME NEW f \in [Queries -> Nat \X Nat], NEW q \in Queries, NEW m \in Nat
  PROVE  /\ [f EXCEPT ![q][1] = m] \in [Queries -> Nat \X Nat]
         /\ [f EXCEPT ![q][1] = m][q][1] = m
         /\ [f EXCEPT ![q][1] = m][q][2] = f[q][2]
         /\ \A p \in Queries : p # q => [f EXCEPT ![q][1] = m][p] = f[p]
         /\ [f EXCEPT ![q][2] = m] \in [Queries -> Nat \X Nat]
         /\ [f EXCEPT ![q][2] = m][q][2] = m
         /\ [f EXCEPT ![q][2] = m][q][1] = f[q][1]
         /\ \A p \in Queries : p # q => [f EXCEPT ![q][2] = m][p] = f[p]
  OBVIOUS

LEMMA QueriesInvInit == QueriesInit => QueriesInv
  <1> SUFFICES ASSUME QueriesInit
               PROVE  QueriesInv
    OBVIOUS
  <1> USE QueriesAssumption DEF QueriesInit
  <1>1. QueriesTypeOK
    BY DEF QueriesTypeOK, NoReports
  <1>2. call \in [op : {"none", "get", "render"}, query : Queries \cup {NoQuery}, ts : Nat]
    BY DEF NoCall
  <1>3. misused = FALSE
    BY Zenon
  <1>4. QueryTypes
    <2>1. fifo \in Seq(Commands) /\ report \in [Reports -> Nat]
      OBVIOUS
    <2>2. /\ next_timestamp \in Nat /\ last_timestamp \in Nat /\ cached_timestamp \in Nat
          /\ last_timestamp < next_timestamp /\ cached_timestamp <= label
      OBVIOUS
    <2>3. misused \in BOOLEAN
      BY <1>3
    <2> HIDE DEF QueriesInit
    <2> QED BY <1>1, <1>2, <2>1, <2>2, <2>3 DEF QueryTypes
  <1>5. Owned /\ InOrder
    BY DEF Owned, InOrder, ReportsOf, NoReports
  <1>6. Proper /\ Waiting
    BY DEF Proper, Waiting, TimestampsFollow
  <1>7. (\A q \in Queries : Writes(q, fifo, report)) /\ Conditions(fifo, report)
    BY DEF Writes, Conditions
  <1> QED BY <1>4, <1>5, <1>6, <1>7 DEF QueriesInv, Rest

(* A step that leaves queries, reports and stream alone.                    *)
Still ==
  UNCHANGED <<type, status, indices, timestamps, query_binding, reportVars,
              counters, label, fifo, report, misused>>

LEMMA StillStep ==
  ASSUME QueriesInv, Still,
         life' \in [Queries -> {"none", "name", "object"}],
         \A q \in Queries : life[q] = "object" => life'[q] = "object",
         put' \in 0 .. Len(fifo),
         cached_timestamp' \in Nat, cached_timestamp' <= label,
         call' \in [op : {"none", "get", "render"}, query : Queries \cup {NoQuery}, ts : Nat],
         ~misused => aborted' \in {aborted, "no report"} /\ Waiting'
  PROVE  QueriesInv'
  <1> USE DEF Still
  <1>1. QueryTypes /\ Owned /\ InOrder /\ Rest
    BY DEF QueriesInv
  <1>2. QueryTypes'
    BY <1>1 DEF QueryTypes, QueriesTypeOK, counters, reportVars
  <1>3. Owned'
    BY <1>1 DEF Owned, ReportsOf, reportVars
  <1>4. InOrder'
    BY <1>1 DEF InOrder, counters
  <1>5. Rest'
    <2> SUFFICES ASSUME ~misused
                 PROVE  Rest'
      BY DEF Rest
    <2>1. Proper /\ (\A q \in Queries : Writes(q, fifo, report)) /\ Conditions(fifo, report)
      BY <1>1 DEF Rest
    <2>2. Proper'
      <3>1. \A t \in QueryTargets : query_binding[t] \in Queries \cup {NoQuery}
        BY <1>1 DEF QueryTypes, QueriesTypeOK
      <3>2. TimestampsFollow' /\ aborted' \notin {"query", "report", "timestamp"}
        BY <2>1 DEF Proper, TimestampsFollow, counters
      <3>3. \A t \in QueryTargets : query_binding'[t] # NoQuery =>
              LET q == query_binding'[t] IN
                life'[q] = "object" /\ type'[q] = t /\ status'[q] = "active"
        BY <2>1, <3>1 DEF Proper
      <3> QED BY <2>1, <3>2, <3>3 DEF Proper, reportVars
    <2>3. \A q \in Queries : Writes(q, fifo, report)'
      BY <2>1 DEF Writes, counters
    <2>4. Conditions(fifo, report)'
      BY <2>1 DEF Conditions
    <2> QED BY <2>2, <2>3, <2>4 DEF Rest
  <1> QED BY <1>2, <1>3, <1>4, <1>5 DEF QueriesInv

(* The actions that are of that kind.                                       *)
StillAction ==
  \/ \E q \in Queries :
       \/ GenQuery(q)
       \/ \E t \in Types : AllocateAborts(q, t)
       \/ \E why \in {"get", "render"} : GetResult(q, why)
       \/ GetResultAborts(q)
       \/ ReadOn(q)
       \/ BeginConditionalCached(q)
       \/ PollResult(q)
  \/ \E t \in QueryTargets : EndQueryAborts(t)
  \/ TimestampAborts
  \/ EndConditional
  \/ UNCHANGED queriesVars

(* Where the assertions fail a query was misused.                           *)
LEMMA AbortStep ==
  ASSUME QueriesInv, IsIdle,
         \/ \E q \in Queries, t \in Types : AllocateAborts(q, t)
         \/ \E q \in Queries : GetResultAborts(q)
         \/ \E t \in QueryTargets : EndQueryAborts(t)
         \/ TimestampAborts
  PROVE  QueriesInv'
  <1>1. QueryTypes /\ Rest
    BY DEF QueriesInv
  <1>2. PICK assertion : Abort(assertion)
    BY DEF AllocateAborts, GetResultAborts, EndQueryAborts, TimestampAborts
  <1>3. /\ Still /\ UNCHANGED <<life, put, cached_timestamp, call>>
        /\ aborted' = assertion
    BY <1>2 DEF Abort, Still, queryVars, gpu
  <1>4. ~misused => aborted' = "no report"
    <2> SUFFICES ASSUME ~misused
                 PROVE  aborted' = "no report"
      OBVIOUS
    <2>1. Proper
      BY <1>1 DEF Rest
    <2>2. CASE \E q \in Queries, t \in Types : AllocateAborts(q, t)
      BY <2>2 DEF AllocateAborts, Abort
    <2>3. CASE \E q \in Queries : GetResultAborts(q)
      BY <2>1, <2>3 DEF GetResultAborts, Proper, HasReports
    <2>4. CASE \E t \in QueryTargets : EndQueryAborts(t)
      <3>1. PICK t \in QueryTargets : EndQueryAborts(t)
        BY <2>4
      <3>2. query_binding[t] \in Queries /\ life[query_binding[t]] = "object"
        BY <1>1, <2>1, <3>1 DEF EndQueryAborts, Proper, QueryTypes, QueriesTypeOK
      <3> QED BY <2>1, <3>1, <3>2 DEF EndQueryAborts, Proper
    <2>5. CASE TimestampAborts
      BY <2>1, <2>5 DEF TimestampAborts, Proper
    <2> QED BY <2>2, <2>3, <2>4, <2>5
  <1>5. Waiting'
    BY <1>3 DEF IsIdle, Waiting
  <1> QED BY <1>1, <1>3, <1>4, <1>5, StillStep DEF QueryTypes, QueriesTypeOK

LEMMA StillActionStep ==
  ASSUME QueriesInv, StillAction
  PROVE  QueriesInv'
  <1>1. QueryTypes /\ Rest
    BY DEF QueriesInv
  <1>2. /\ life \in [Queries -> {"none", "name", "object"}]
        /\ put \in 0 .. Len(fifo) /\ Len(fifo) \in Nat /\ label \in Nat
        /\ cached_timestamp \in Nat /\ cached_timestamp <= label
        /\ call \in [op : {"none", "get", "render"}, query : Queries \cup {NoQuery}, ts : Nat]
        /\ timestamps \in [Queries -> Nat \X Nat]
    BY <1>1 DEF QueryTypes, QueriesTypeOK
  <1>3. NoCall \in [op : {"none", "get", "render"}, query : Queries \cup {NoQuery}, ts : Nat]
    BY DEF NoCall
  <1>4. ASSUME NEW q \in Queries, GenQuery(q)
        PROVE  QueriesInv'
    <2>1. /\ Still /\ UNCHANGED <<put, cached_timestamp, call, aborted>>
          /\ life' = [life EXCEPT ![q] = "name"] /\ life[q] = "none" /\ call = NoCall
      BY <1>4 DEF GenQuery, Still, gpu, IsIdle
    <2> QED BY <1>2, <2>1, StillStep DEF Waiting
  <1>5. ASSUME NEW q \in Queries, NEW why \in {"get", "render"}, GetResult(q, why)
        PROVE  QueriesInv'
    <2>1. /\ Still /\ UNCHANGED <<life, cached_timestamp, aborted>>
          /\ put' = Len(fifo)
          /\ call' = [op |-> why, query |-> q, ts |-> FirstWait(q)]
          /\ status[q] = "pending"
      BY <1>5 DEF GetResult, Still, queryVars
    <2>2. FirstWait(q) \in Nat
      BY <1>2 DEF FirstWait
    <2>3. ~misused => Waiting'
      <3> SUFFICES ASSUME ~misused
                   PROVE  Waiting'
        OBVIOUS
      <3>1. Proper /\ Writes(q, fifo, report)
        BY <1>1 DEF Rest
      <3>2. timestamps[q][1] \in Nat /\ timestamps[q][2] \in Nat
        BY <1>2
      <3>3. /\ type[q] \in {"samples", "elapsed"} => FirstWait(q) = timestamps[q][2]
            /\ timestamps[q][1] <= FirstWait(q)
        BY <1>1, <2>1, <3>1, <3>2, ProperFacts DEF FirstWait, Writes
      <3> QED BY <2>1, <2>2, <3>3 DEF Waiting, Still
    <2> QED BY <1>2, <2>1, <2>2, <2>3, StillStep
  <1>6. ASSUME NEW q \in Queries, ReadOn(q)
        PROVE  QueriesInv'
    <2>1. /\ Still /\ UNCHANGED <<life, put, aborted>>
          /\ cached_timestamp' = CachedAfter(call.ts)
          /\ call' = [call EXCEPT !.ts = @ + 1]
          /\ type[q] = "any" /\ call.query = q /\ call.op \in {"get", "render"}
      BY <1>6 DEF ReadOn, Still, queryVars, gpu
    <2>2. cached_timestamp' \in Nat /\ cached_timestamp' <= label
      BY <1>2, <2>1 DEF CachedAfter
    <2>3. /\ call' \in [op : {"none", "get", "render"}, query : Queries \cup {NoQuery}, ts : Nat]
          /\ call'.query = call.query /\ call'.op = call.op /\ call'.ts = call.ts + 1
          /\ call.ts \in Nat
      <3> DEFINE Q == Queries \cup {NoQuery}
                 R == [op : {"none", "get", "render"}, query : Q, ts : Nat]
      <3>1. \A c \in R : /\ c.ts \in Nat
                         /\ [c EXCEPT !.ts = c.ts + 1] \in R
                         /\ [c EXCEPT !.ts = c.ts + 1].query = c.query
                         /\ [c EXCEPT !.ts = c.ts + 1].op = c.op
                         /\ [c EXCEPT !.ts = c.ts + 1].ts = c.ts + 1
        <4> HIDE DEF Q
        <4> QED OBVIOUS
      <3>2. call \in R /\ call' = [call EXCEPT !.ts = call.ts + 1]
        BY <1>2, <2>1
      <3> HIDE DEF R
      <3>3. call' \in R /\ call'.query = call.query /\ call'.op = call.op
            /\ call'.ts = call.ts + 1 /\ call.ts \in Nat
        BY <3>1, <3>2
      <3> QED BY <3>3 DEF R
    <2>4. ~misused => Waiting'
      <3> SUFFICES ASSUME ~misused
                   PROVE  Waiting'
        OBVIOUS
      <3>1. call # NoCall /\ timestamps[q][1] \in Nat
        BY <1>2, <2>1 DEF NoCall
      <3>2. status[q] = "pending" /\ timestamps[q][1] <= call.ts
        BY <1>1, <2>1, <3>1 DEF Rest, Waiting
      <3> QED BY <2>1, <2>3, <3>1, <3>2 DEF Waiting, Still
    <2> QED BY <1>2, <2>1, <2>2, <2>3, <2>4, StillStep
  <1>7. ASSUME NEW q \in Queries, BeginConditionalCached(q) \/ PollResult(q)
        PROVE  QueriesInv'
    <2>1. /\ Still /\ UNCHANGED <<life, call, aborted>> /\ call = NoCall
          /\ put' \in {put, Len(fifo)}
          /\ cached_timestamp' \in {cached_timestamp, CachedAfter(timestamps[q][2])}
      BY <1>7 DEF BeginConditionalCached, PollResult, Still, queryVars, gpu, IsIdle
    <2>2. cached_timestamp' \in Nat /\ cached_timestamp' <= label
      BY <1>2, <2>1 DEF CachedAfter
    <2> QED BY <1>2, <2>1, <2>2, StillStep DEF Waiting
  <1>8. CASE EndConditional
    <2>1. Still /\ UNCHANGED <<life, put, cached_timestamp, call, aborted>> /\ call = NoCall
      BY <1>8 DEF EndConditional, Still, queryVars, gpu, IsIdle
    <2> QED BY <1>2, <2>1, StillStep DEF Waiting
  <1>9. CASE UNCHANGED queriesVars
    <2>1. Still /\ UNCHANGED <<life, put, cached_timestamp, call, aborted>>
      BY <1>9 DEF queriesVars, Still, queryVars, gpu
    <2>2. ~misused => Waiting'
      BY <1>1, <2>1 DEF Rest, Waiting, Still
    <2> QED BY <1>2, <2>1, <2>2, StillStep
  <1>10. CASE \/ \E q \in Queries, t \in Types : AllocateAborts(q, t)
              \/ \E q \in Queries : GetResultAborts(q)
              \/ \E t \in QueryTargets : EndQueryAborts(t)
              \/ TimestampAborts
    <2>1. IsIdle
      BY <1>10 DEF AllocateAborts, GetResultAborts, EndQueryAborts, TimestampAborts
    <2> QED BY <1>10, <2>1, AbortStep
  <1> QED BY <1>4, <1>5, <1>6, <1>7, <1>8, <1>9, <1>10 DEF StillAction


LEMMA EmitTypes ==
  ASSUME QueryTypes, NEW cmds, IsCall(cmds, next_timestamp), Emit(cmds)
  PROVE  /\ fifo' \in Seq(Commands) /\ report' \in [Reports -> Nat]
         /\ next_timestamp' \in Nat /\ last_timestamp' \in Nat /\ cached_timestamp' \in Nat
         /\ last_timestamp' < next_timestamp' /\ cached_timestamp' <= label'
         /\ label' \in 0 .. last_timestamp' /\ put' \in 0 .. Len(fifo')
         /\ next_timestamp' = last_timestamp' + 1 /\ last_timestamp' = next_timestamp
  <1>1. /\ Len(fifo) \in Nat /\ Len(cmds) \in {1, 2} /\ Len(fifo') = Len(fifo) + Len(cmds)
        /\ fifo' \in Seq(Commands)
        /\ next_timestamp = last_timestamp + 1
        /\ next_timestamp' = next_timestamp + 1 /\ last_timestamp' = next_timestamp
        /\ UNCHANGED <<cached_timestamp, label, put, report>>
    BY EmitFacts
  <1>2. /\ report \in [Reports -> Nat] /\ next_timestamp \in Nat /\ last_timestamp \in Nat
        /\ cached_timestamp \in Nat /\ cached_timestamp <= label
        /\ label \in 0 .. last_timestamp /\ put \in 0 .. Len(fifo)
    BY DEF QueryTypes, QueriesTypeOK
  <1> QED BY <1>1, <1>2

(* The report of a call that writes one before its timestamp.               *)
LEMMA EmitReport ==
  ASSUME QueryTypes, InOrder, NEW r \in Reports \cup {NoReport},
         Emit(<<Report(r, next_timestamp), Stamp(next_timestamp)>>)
  PROVE  /\ InOrder' /\ Grows /\ last_timestamp' \in Nat
         /\ Written(fifo', report', r, next_timestamp)
         /\ \A k \in 1 .. Len(fifo') : k \notin 1 .. Len(fifo) =>
              /\ fifo'[k].op # "condition"
              /\ fifo'[k].op = "report" => fifo'[k].arg = r /\ Covered(fifo', k)
         /\ \A k \in 1 .. Len(fifo) : fifo'[k].op = "report" => fifo'[k].ts < next_timestamp
  <1> DEFINE ts == next_timestamp
             cmds == <<Report(r, ts), Stamp(ts)>>
             n == Len(fifo)
  <1>1. IsCall(cmds, ts) /\ Len(cmds) = 2 /\ cmds[1] = Report(r, ts) /\ cmds[2] = Stamp(ts)
    BY DEF IsCall
  <1> HIDE DEF cmds
  <1>2. Emit(cmds)
    BY DEF cmds
  <1>3. /\ n \in Nat /\ Len(fifo') = n + Len(cmds)
        /\ \A k \in 1 .. n : fifo'[k] = fifo[k]
        /\ \A k \in 1 .. Len(fifo') : k \notin 1 .. n => fifo'[k] = cmds[k - n]
        /\ ts = last_timestamp + 1
    BY <1>1, <1>2, EmitFacts
  <1>4. InOrder' /\ Grows /\ last_timestamp' \in Nat
    BY <1>1, <1>2, EmitInOrder, EmitGrows
  <1> HIDE DEF n
  <1>5. /\ n + 1 \in 1 .. Len(fifo') /\ n + 1 \notin 1 .. n /\ (n + 1) - n = 1
        /\ n + 2 \in 1 .. Len(fifo') /\ n + 2 \notin 1 .. n /\ (n + 2) - n = 2
        /\ n + 2 \in (n + 1) + 1 .. Len(fifo')
        /\ \A k \in 1 .. Len(fifo') : k \notin 1 .. n => k \in {n + 1, n + 2}
    BY <1>1, <1>3
  <1>6. fifo'[n + 1] = Report(r, ts) /\ fifo'[n + 2] = Stamp(ts)
    BY <1>1, <1>3, <1>5
  <1>7. Covered(fifo', n + 1)
    BY <1>5, <1>6 DEF Covered, Report, Stamp
  <1>8. Written(fifo', report', r, ts)
    BY <1>5, <1>6 DEF Written, Report
  <1>9. \A k \in 1 .. n : fifo'[k].op = "report" => fifo'[k].ts < ts
    <2>1. \A k \in 1 .. n : fifo[k].op = "report" => fifo[k].ts <= last_timestamp
      BY DEF InOrder, n
    <2>2. \A k \in 1 .. n : fifo[k] \in Commands
      BY DEF QueryTypes, n
    <2>3. \A k \in 1 .. n : fifo[k].ts \in Nat
      BY <2>2 DEF Commands
    <2>4. last_timestamp \in Nat
      BY DEF QueryTypes
    <2> QED BY <1>3, <2>1, <2>3, <2>4
  <1> QED BY <1>4, <1>5, <1>6, <1>7, <1>8, <1>9 DEF Report, Stamp, n

(* No report is written by a call later than the last one.                  *)
LEMMA LastWritten ==
  ASSUME InOrder', NEW r \in Reports
  PROVE  NotAfter(fifo', report', r, last_timestamp')
  BY DEF InOrder, NotAfter

(* The other queries, when one gets reports or commands of its own.         *)
LEMMA SparesOthers ==
  ASSUME Owned, NEW q \in Queries, NEW p \in Queries, p # q, NEW r,
         r = NoReport \/ r \notin used \/ r \in ReportsOf(q),
         \A k \in 1 .. Len(fifo') : k \notin 1 .. Len(fifo) /\
           fifo'[k].op = "report" => fifo'[k].arg = r
  PROVE  Spares(p)
  <1>1. r \notin ReportsOf(p)
    BY DEF Owned, ReportsOf
  <1> QED BY <1>1 DEF Spares, ReportsOf

(* Reports that are given out are in no other query.                        *)
LEMMA OwnedStep ==
  ASSUME QueryTypes, Owned, NEW q \in Queries, NEW r, NEW s,
         r \in Allocatable(q) \cup {NoReport}, s \in Allocatable(q) \cup {NoReport},
         indices' = [indices EXCEPT ![q] = <<r, s>>],
         used' = Freed(q) \cup ({r, s} \ {NoReport})
  PROVE  Owned'
  <1>1. /\ indices'[q] = <<r, s>>
        /\ \A p \in Queries : p # q => indices'[p] = indices[p]
    BY DEF QueryTypes, QueriesTypeOK
  <1>2. /\ ReportsOf(q)' = {r, s} \ {NoReport}
        /\ \A p \in Queries : p # q => ReportsOf(p)' = ReportsOf(p)
    BY <1>1 DEF ReportsOf
  <1>3. \A p \in Queries : p # q =>
          /\ ReportsOf(p) \subseteq Freed(q)
          /\ ReportsOf(p) \cap ({r, s} \ {NoReport}) = {}
    BY DEF Owned, Freed, Allocatable
  <1> QED BY <1>2, <1>3 DEF Owned

LEMMA OwnedRelease ==
  ASSUME QueryTypes, Owned, NEW q \in Queries,
         indices' = [indices EXCEPT ![q] = NoReports],
         used' \in {used, used \ ReportsOf(q)}
  PROVE  Owned'
  <1>1. /\ indices'[q] = NoReports
        /\ \A p \in Queries : p # q => indices'[p] = indices[p]
    BY DEF QueryTypes, QueriesTypeOK
  <1>2. /\ ReportsOf(q)' = {}
        /\ \A p \in Queries : p # q => ReportsOf(p)' = ReportsOf(p)
    BY <1>1 DEF ReportsOf, NoReports
  <1>3. \A p \in Queries : p # q => ReportsOf(p) \subseteq used'
    BY DEF Owned
  <1> QED BY <1>2, <1>3 DEF Owned

(* Calls that leave a query in a state the assertions do not allow for.     *)
LEMMA MisuseStep ==
  ASSUME QueriesInv, NEW q \in Queries, NEW t \in Types,
         BeginRefused(q, t) \/ BeginUnsupported(q)
  PROVE  QueriesInv'
  <1>1. QueryTypes /\ Owned /\ InOrder
    BY DEF QueriesInv
  <1>2. CASE BeginRefused(q, t)
    <2>1. /\ used' = Freed(q)
          /\ indices' = [indices EXCEPT ![q] = NoReports]
          /\ misused' = TRUE
          /\ UNCHANGED <<life, type, status, timestamps, query_binding,
                         any_samples_passed_query, counters, cached_timestamp,
                         label, fifo, put, report, call>>
      BY <1>2 DEF BeginRefused, RefuseAfterFreeing, gpu
    <2>2. NoReports \in (Reports \cup {NoReport}) \X (Reports \cup {NoReport})
      BY DEF NoReports
    <2>3. QueryTypes'
      BY <1>1, <2>1, <2>2 DEF QueryTypes, QueriesTypeOK, Freed, counters
    <2>4. Owned'
      BY <1>1, <2>1, OwnedRelease DEF Freed
    <2>5. InOrder'
      BY <1>1, <2>1 DEF InOrder, counters
    <2> QED BY <2>1, <2>3, <2>4, <2>5 DEF QueriesInv, Rest
  <1>3. CASE BeginUnsupported(q)
    <2>1. /\ "generated" \in QueryTargets
          /\ life' = [life EXCEPT ![q] = "object"]
          /\ type' = [type EXCEPT ![q] = "generated"]
          /\ status' = [status EXCEPT ![q] = "active"]
          /\ timestamps' = [timestamps EXCEPT ![q][1] = next_timestamp]
          /\ query_binding' = [query_binding EXCEPT !["generated"] = q]
          /\ next_timestamp' = next_timestamp + 1
          /\ misused' = TRUE
          /\ UNCHANGED <<indices, any_samples_passed_query, used, last_timestamp,
                         cached_timestamp, label, fifo, put, report, call>>
      BY <1>3 DEF BeginUnsupported, reportVars, gpu
    <2>2. timestamps' \in [Queries -> Nat \X Nat]
      <3>1. timestamps \in [Queries -> Nat \X Nat] /\ next_timestamp \in Nat
        BY <1>1 DEF QueryTypes, QueriesTypeOK
      <3> QED BY <2>1, <3>1, PairUpdate
    <2>3. QueriesTypeOK'
      BY <1>1, <2>1, <2>2 DEF QueryTypes, QueriesTypeOK, Types
    <2>4. QueryTypes'
      BY <1>1, <2>1, <2>3 DEF QueryTypes
    <2>5. Owned' /\ InOrder'
      BY <1>1, <2>1 DEF Owned, InOrder, ReportsOf
    <2> QED BY <2>1, <2>4, <2>5 DEF QueriesInv, Rest
  <1> QED BY <1>2, <1>3

(* A query that is not bound is deleted; its reports stay given out.        *)
LEMMA DeleteStep ==
  ASSUME QueriesInv, NEW q \in Queries, DeleteQuery(q)
  PROVE  QueriesInv'
  <1>1. QueryTypes /\ Owned /\ InOrder /\ Rest
    BY DEF QueriesInv
  <1>2. /\ call = NoCall
        /\ life' = [life EXCEPT ![q] = "none"]
        /\ type' = [type EXCEPT ![q] = "none"]
        /\ status' = [status EXCEPT ![q] = "inactive"]
        /\ indices' = [indices EXCEPT ![q] = NoReports]
        /\ timestamps' = [timestamps EXCEPT ![q] = <<0, 0>>]
        /\ misused' = (misused \/ \E t \in QueryTargets : query_binding[t] = q)
        /\ UNCHANGED <<query_binding, any_samples_passed_query, used, next_timestamp,
                       last_timestamp, cached_timestamp, label, fifo, put, report, call,
                       aborted>>
    BY DEF DeleteQuery, IsIdle, reportVars, counters, gpu
  <1>3. NoReports \in (Reports \cup {NoReport}) \X (Reports \cup {NoReport})
    BY DEF NoReports
  <1>4. QueriesTypeOK'
    BY <1>1, <1>2, <1>3 DEF QueryTypes, QueriesTypeOK
  <1>5. misused' \in BOOLEAN
    BY <1>1, <1>2 DEF QueryTypes
  <1>6. QueryTypes'
    BY <1>1, <1>2, <1>4, <1>5 DEF QueryTypes
  <1>7. Owned'
    BY <1>1, <1>2, OwnedRelease
  <1>8. InOrder'
    BY <1>1, <1>2 DEF InOrder
  <1>9. Rest'
    <2> SUFFICES ASSUME ~misused'
                 PROVE  Rest'
      BY DEF Rest
    <2>1. ~misused /\ \A t \in QueryTargets : query_binding[t] # q
      BY <1>2, Zenon
    <2>2. Proper /\ (\A p \in Queries : Writes(p, fifo, report)) /\ Conditions(fifo, report)
      BY <1>1, <2>1 DEF Rest
    <2>3. /\ life'[q] = "none" /\ type'[q] = "none" /\ status'[q] = "inactive"
          /\ \A p \in Queries : p # q =>
               /\ life'[p] = life[p] /\ type'[p] = type[p] /\ status'[p] = status[p]
               /\ indices'[p] = indices[p] /\ timestamps'[p] = timestamps[p]
      BY <1>1, <1>2 DEF QueryTypes, QueriesTypeOK
    <2>4. Proper'
      <3>1. \A t \in QueryTargets : query_binding[t] \in Queries \cup {NoQuery}
        BY <1>1 DEF QueryTypes, QueriesTypeOK
      <3>2. TimestampsFollow' /\ aborted' \notin {"query", "report", "timestamp"}
        BY <1>2, <2>2 DEF Proper, TimestampsFollow
      <3>3. \A t \in QueryTargets : query_binding'[t] # NoQuery =>
              LET p == query_binding'[t] IN
                life'[p] = "object" /\ type'[p] = t /\ status'[p] = "active"
        BY <1>2, <2>1, <2>2, <2>3, <3>1 DEF Proper
      <3>4. any_samples_passed_query' # NoReport =>
              /\ "any" \in QueryTargets /\ query_binding'["any"] # NoQuery
              /\ indices'[query_binding'["any"]][1] = any_samples_passed_query'
        BY <1>2, <2>1, <2>2, <2>3, <3>1 DEF Proper
      <3>5. \A p \in Queries :
              /\ type'[p] = "none" => status'[p] = "inactive"
              /\ status'[p] \in {"active", "pending"} =>
                   /\ type'[p] \in {"samples", "any", "elapsed", "timestamp"}
                   /\ indices'[p][1] # NoReport
                   /\ type'[p] = "elapsed" =>
                        indices'[p][2] # NoReport /\ indices'[p][1] # indices'[p][2]
              /\ status'[p] = "active" => type'[p] # "timestamp"
        BY <2>2, <2>3 DEF Proper
      <3> QED BY <3>2, <3>3, <3>4, <3>5 DEF Proper
    <2>5. \A p \in Queries : Writes(p, fifo, report)'
      BY <1>2, <2>2, <2>3 DEF Writes
    <2>6. Waiting' /\ Conditions(fifo, report)'
      BY <1>2, <2>2 DEF Waiting, Conditions
    <2> QED BY <2>4, <2>5, <2>6 DEF Rest
  <1> QED BY <1>6, <1>7, <1>8, <1>9 DEF QueriesInv


(* A query of a target begins, with reports of its own.                     *)
LEMMA BeginStep ==
  ASSUME QueriesInv, NEW q \in Queries, NEW t \in QueryTargets, NEW r \in Reports,
         NEW s \in Reports \cup {NoReport}, BeginQuery(q, t, r, s)
  PROVE  QueriesInv'
  <1> DEFINE ts == next_timestamp
  <1>1. QueryTypes /\ Owned /\ InOrder /\ Rest
    BY DEF QueriesInv
  <1>2. /\ call = NoCall /\ aborted = "no"
        /\ t # "generated" /\ query_binding[t] = NoQuery
        /\ ~IsRefused(q, t) /\ r \in Allocatable(q)
        /\ IF t = "elapsed" THEN s \in Allocatable(q) \ {r} ELSE s = NoReport
        /\ life' = [life EXCEPT ![q] = "object"]
        /\ type' = [type EXCEPT ![q] = t]
        /\ status' = [status EXCEPT ![q] = "active"]
        /\ indices' = [indices EXCEPT ![q] = <<r, s>>]
        /\ timestamps' = [timestamps EXCEPT ![q][1] = ts]
        /\ query_binding' = [query_binding EXCEPT ![t] = q]
        /\ used' = Freed(q) \cup ({r, s} \ {NoReport})
        /\ any_samples_passed_query' = IF t = "any" THEN r ELSE any_samples_passed_query
        /\ Emit(<<Report(r, ts), Stamp(ts)>>)
        /\ UNCHANGED <<call, aborted, misused>>
    BY DEF BeginQuery, IsIdle
  <1>3. IsCall(<<Report(r, ts), Stamp(ts)>>, ts)
    BY DEF IsCall
  <1>4. /\ InOrder' /\ Grows /\ last_timestamp' \in Nat
        /\ Written(fifo', report', r, ts)
        /\ \A k \in 1 .. Len(fifo') : k \notin 1 .. Len(fifo) =>
             /\ fifo'[k].op # "condition"
             /\ fifo'[k].op = "report" => fifo'[k].arg = r /\ Covered(fifo', k)
        /\ \A k \in 1 .. Len(fifo) : fifo'[k].op = "report" => fifo'[k].ts < ts
    BY <1>1, <1>2, EmitReport
  <1>5. /\ fifo' \in Seq(Commands) /\ report' \in [Reports -> Nat]
        /\ next_timestamp' \in Nat /\ last_timestamp' \in Nat /\ cached_timestamp' \in Nat
        /\ last_timestamp' < next_timestamp' /\ cached_timestamp' <= label'
        /\ label' \in 0 .. last_timestamp' /\ put' \in 0 .. Len(fifo')
        /\ next_timestamp' = last_timestamp' + 1 /\ last_timestamp' = ts
    BY <1>1, <1>2, <1>3, EmitTypes
  <1>6. /\ life'[q] = "object" /\ type'[q] = t /\ status'[q] = "active"
        /\ indices'[q] = <<r, s>>
        /\ \A p \in Queries : p # q =>
             /\ life'[p] = life[p] /\ type'[p] = type[p] /\ status'[p] = status[p]
             /\ indices'[p] = indices[p]
    BY <1>1, <1>2 DEF QueryTypes, QueriesTypeOK
  <1>7. /\ timestamps' \in [Queries -> Nat \X Nat] /\ timestamps'[q][1] = ts
        /\ \A p \in Queries : p # q => timestamps'[p] = timestamps[p]
    <2>1. timestamps \in [Queries -> Nat \X Nat] /\ ts \in Nat
      BY <1>1 DEF QueryTypes, QueriesTypeOK
    <2>2. timestamps' = [timestamps EXCEPT ![q][1] = ts]
      BY <1>2
    <2> HIDE DEF ts
    <2> QED BY <2>1, <2>2, PairUpdate
  <1> HIDE DEF ts
  <1>8. QueryTypes'
    <2>1. used' \subseteq Reports
      BY <1>1, <1>2 DEF QueryTypes, QueriesTypeOK, Freed
    <2>2. /\ life' \in [Queries -> {"none", "name", "object"}]
          /\ type' \in [Queries -> Types \cup {"none"}]
          /\ status' \in [Queries -> {"inactive", "active", "pending", "cached"}]
          /\ indices' \in [Queries -> (Reports \cup {NoReport}) \X (Reports \cup {NoReport})]
          /\ query_binding' \in [QueryTargets -> Queries \cup {NoQuery}]
          /\ any_samples_passed_query' \in Reports \cup {NoReport}
      BY <1>1, <1>2 DEF QueryTypes, QueriesTypeOK, Types
    <2>3. QueriesTypeOK'
      BY <1>5, <1>7, <2>1, <2>2 DEF QueriesTypeOK
    <2> QED BY <1>1, <1>2, <1>5, <2>3 DEF QueryTypes
  <1>9. Owned'
    BY <1>1, <1>2, OwnedStep
  <1>10. Rest'
    <2> SUFFICES ASSUME ~misused
                 PROVE  Rest'
      BY <1>2 DEF Rest
    <2>1. Proper /\ (\A p \in Queries : Writes(p, fifo, report)) /\ Conditions(fifo, report)
      BY <1>1 DEF Rest
    <2>2. t \in {"samples", "any", "elapsed"} /\ status[q] # "active"
      BY <1>1, <1>2, <2>1, QueriesAssumption DEF IsRefused, Proper
    <2>3. \A u \in QueryTargets : query_binding[u] # NoQuery =>
            /\ query_binding[u] \in Queries /\ query_binding[u] # q /\ u # t
            /\ query_binding'[u] = query_binding[u]
      BY <1>1, <1>2, <2>1, <2>2 DEF Proper, QueryTypes, QueriesTypeOK
    <2>4. Proper'
      <3>1. TimestampsFollow' /\ aborted' \notin {"query", "report", "timestamp"}
        BY <1>2, <1>5 DEF TimestampsFollow
      <3>2. query_binding'[t] = q /\ \A u \in QueryTargets : u # t =>
              query_binding'[u] = query_binding[u]
        BY <1>1, <1>2 DEF QueryTypes, QueriesTypeOK
      <3>3. \A u \in QueryTargets : query_binding'[u] # NoQuery =>
              LET p == query_binding'[u] IN
                life'[p] = "object" /\ type'[p] = u /\ status'[p] = "active"
        BY <1>6, <2>1, <2>3, <3>2 DEF Proper
      <3>4. any_samples_passed_query' # NoReport =>
              /\ "any" \in QueryTargets /\ query_binding'["any"] # NoQuery
              /\ indices'[query_binding'["any"]][1] = any_samples_passed_query'
        <4>1. CASE t = "any"
          BY <1>2, <1>6, <3>2, <4>1, QueriesAssumption
        <4>2. CASE t # "any"
          BY <1>2, <1>6, <2>1, <2>3, <4>2 DEF Proper
        <4> QED BY <4>1, <4>2
      <3>5. \A p \in Queries :
              /\ type'[p] = "none" => status'[p] = "inactive"
              /\ status'[p] \in {"active", "pending"} =>
                   /\ type'[p] \in {"samples", "any", "elapsed", "timestamp"}
                   /\ indices'[p][1] # NoReport
                   /\ type'[p] = "elapsed" =>
                        indices'[p][2] # NoReport /\ indices'[p][1] # indices'[p][2]
              /\ status'[p] = "active" => type'[p] # "timestamp"
        <4>1. r # NoReport /\ (t = "elapsed" => s # NoReport /\ r # s)
          BY <1>2, QueriesAssumption DEF Allocatable
        <4>2. indices'[q][1] = r /\ indices'[q][2] = s
          BY <1>6
        <4> QED BY <1>6, <2>1, <2>2, <4>1, <4>2 DEF Proper
      <3> QED BY <3>1, <3>3, <3>4, <3>5 DEF Proper
    <2>5. ASSUME NEW p \in Queries, p # q
          PROVE  Writes(p, fifo, report)'
      <3>1. Spares(p)
        <4>1. r \notin used \/ r \in ReportsOf(q)
          BY <1>2 DEF Allocatable, Freed
        <4>2. \A k \in 1 .. Len(fifo') : k \notin 1 .. Len(fifo) /\
                fifo'[k].op = "report" => fifo'[k].arg = r
          BY <1>4
        <4> QED BY <1>1, <2>5, <4>1, <4>2, SparesOthers
      <3> QED BY <1>1, <1>4, <1>6, <1>7, <2>1, <2>5, <3>1, GrowWrites
    <2>6. Writes(q, fifo, report)'
      <3>1. NotAfter(fifo', report', r, ts)
        BY <1>4, <1>5, LastWritten
      <3>2. ASSUME NEW k \in 1 .. Len(fifo'), fifo'[k].op = "report", fifo'[k].ts >= ts
            PROVE  Covered(fifo', k)
        <4>1. fifo'[k].ts \in Nat /\ ts \in Nat
          <5>1. fifo'[k] \in Commands
            BY <1>5
          <5> QED BY <1>5, <5>1 DEF Commands
        <4>2. k \notin 1 .. Len(fifo)
          BY <1>4, <3>2, <4>1
        <4> QED BY <1>4, <3>2, <4>2
      <3>3. indices'[q][1] = r /\ ts <= last_timestamp'
        BY <1>5, <1>6
      <3> QED BY <1>4, <1>6, <1>7, <3>1, <3>2, <3>3 DEF Writes
    <2>7. Conditions(fifo, report)'
      BY <1>4, <2>1, GrowConditions
    <2>8. Waiting'
      BY <1>2 DEF Waiting
    <2> QED BY <2>4, <2>5, <2>6, <2>7, <2>8 DEF Rest
  <1> QED BY <1>4, <1>8, <1>9, <1>10 DEF QueriesInv

(* A query of a target ends: its last report is behind everything.          *)
LEMMA EndStep ==
  ASSUME QueriesInv, NEW t \in QueryTargets, EndQuery(t)
  PROVE  QueriesInv'
  <1>1. QueryTypes /\ Owned /\ InOrder /\ Rest
    BY DEF QueriesInv
  <1>2. PICK q \in Queries : q = query_binding[t] /\ q # NoQuery
    BY <1>1 DEF QueryTypes, QueriesTypeOK, EndQuery
  <1> DEFINE ts == next_timestamp
             w == EndReport(q)
  <1>3. /\ call = NoCall /\ aborted = "no"
        /\ status[q] = "active" /\ indices[q][1] # NoReport
        /\ status' = [status EXCEPT ![q] = "pending"]
        /\ timestamps' = [timestamps EXCEPT ![q][2] = ts]
        /\ query_binding' = [query_binding EXCEPT ![t] = NoQuery]
        /\ any_samples_passed_query' = MultiDrawReportAfter(q)
        /\ Emit(<<Report(w, ts), Stamp(ts)>>)
        /\ UNCHANGED <<life, type, indices, used, call, aborted, misused>>
    BY <1>2 DEF EndQuery, IsIdle
  <1>4. w \in Reports \cup {NoReport} /\ (w = NoReport \/ w \in ReportsOf(q))
    BY <1>1 DEF QueryTypes, QueriesTypeOK, EndReport, ReportsOf
  <1>5. IsCall(<<Report(w, ts), Stamp(ts)>>, ts)
    BY <1>4 DEF IsCall
  <1> HIDE DEF w
  <1>6. /\ InOrder' /\ Grows /\ last_timestamp' \in Nat
        /\ Written(fifo', report', w, ts)
        /\ \A k \in 1 .. Len(fifo') : k \notin 1 .. Len(fifo) =>
             /\ fifo'[k].op # "condition"
             /\ fifo'[k].op = "report" => fifo'[k].arg = w /\ Covered(fifo', k)
    BY <1>1, <1>3, <1>4, EmitReport
  <1>7. /\ fifo' \in Seq(Commands) /\ report' \in [Reports -> Nat]
        /\ next_timestamp' \in Nat /\ last_timestamp' \in Nat /\ cached_timestamp' \in Nat
        /\ last_timestamp' < next_timestamp' /\ cached_timestamp' <= label'
        /\ label' \in 0 .. last_timestamp' /\ put' \in 0 .. Len(fifo')
        /\ next_timestamp' = last_timestamp' + 1 /\ last_timestamp' = ts
    BY <1>1, <1>3, <1>5, EmitTypes
  <1>8. /\ status'[q] = "pending"
        /\ \A p \in Queries : p # q => status'[p] = status[p]
        /\ query_binding'[t] = NoQuery
        /\ \A u \in QueryTargets : u # t => query_binding'[u] = query_binding[u]
    BY <1>1, <1>3, <1>4 DEF QueryTypes, QueriesTypeOK
  <1>9. /\ timestamps' \in [Queries -> Nat \X Nat]
        /\ timestamps'[q][2] = ts /\ timestamps'[q][1] = timestamps[q][1]
        /\ \A p \in Queries : p # q => timestamps'[p] = timestamps[p]
    <2>1. timestamps \in [Queries -> Nat \X Nat] /\ ts \in Nat
      BY <1>1 DEF QueryTypes, QueriesTypeOK
    <2>2. timestamps' = [timestamps EXCEPT ![q][2] = ts]
      BY <1>3
    <2> HIDE DEF ts
    <2> QED BY <2>1, <2>2, PairUpdate
  <1> HIDE DEF ts
  <1>10. QueryTypes'
    <2>1. QueriesTypeOK'
      BY <1>1, <1>3, <1>4, <1>7, <1>9 DEF QueryTypes, QueriesTypeOK, MultiDrawReportAfter
    <2> QED BY <1>1, <1>3, <1>7, <2>1 DEF QueryTypes
  <1>11. Owned'
    BY <1>1, <1>3 DEF Owned, ReportsOf
  <1>12. Rest'
    <2> SUFFICES ASSUME ~misused
                 PROVE  Rest'
      BY <1>3 DEF Rest
    <2>1. Proper /\ (\A p \in Queries : Writes(p, fifo, report)) /\ Conditions(fifo, report)
      BY <1>1 DEF Rest
    <2>2. type[q] = t
      BY <1>2, <1>3, <2>1 DEF Proper
    <2>3. \A u \in QueryTargets : u # t /\ query_binding[u] # NoQuery =>
            query_binding[u] # q /\ query_binding[u] \in Queries
      BY <1>1, <2>1, <2>2 DEF Proper, QueryTypes, QueriesTypeOK
    <2>4. Proper'
      <3>1. TimestampsFollow' /\ aborted' \notin {"query", "report", "timestamp"}
        BY <1>3, <1>7 DEF TimestampsFollow
      <3>2. \A u \in QueryTargets : query_binding'[u] # NoQuery =>
              LET p == query_binding'[u] IN
                life'[p] = "object" /\ type'[p] = u /\ status'[p] = "active"
        BY <1>3, <1>8, <2>1, <2>3 DEF Proper
      <3>3. any_samples_passed_query' # NoReport =>
              /\ "any" \in QueryTargets /\ query_binding'["any"] # NoQuery
              /\ indices'[query_binding'["any"]][1] = any_samples_passed_query'
        BY <1>3, <1>8, <2>1, <2>2 DEF Proper, MultiDrawReportAfter
      <3>4. \A p \in Queries :
              /\ type'[p] = "none" => status'[p] = "inactive"
              /\ status'[p] \in {"active", "pending"} =>
                   /\ type'[p] \in {"samples", "any", "elapsed", "timestamp"}
                   /\ indices'[p][1] # NoReport
                   /\ type'[p] = "elapsed" =>
                        indices'[p][2] # NoReport /\ indices'[p][1] # indices'[p][2]
              /\ status'[p] = "active" => type'[p] # "timestamp"
        BY <1>3, <1>8, <2>1 DEF Proper
      <3> QED BY <3>1, <3>2, <3>3, <3>4 DEF Proper
    <2>5. ASSUME NEW p \in Queries, p # q
          PROVE  Writes(p, fifo, report)'
      <3>1. Spares(p)
        <4>1. \A k \in 1 .. Len(fifo') : k \notin 1 .. Len(fifo) /\
                fifo'[k].op = "report" => fifo'[k].arg = w
          BY <1>6
        <4> QED BY <1>1, <1>4, <2>5, <4>1, SparesOthers
      <3> QED BY <1>1, <1>3, <1>6, <1>8, <1>9, <2>1, <2>5, <3>1, GrowWrites
    <2>6. Writes(q, fifo, report)'
      <3> DEFINE r == indices[q][1]
                 s == indices[q][2]
                 b == timestamps[q][1]
      <3>1. /\ t \in {"samples", "any", "elapsed"} /\ r \in Reports
            /\ t = "elapsed" => s \in Reports /\ r # s
            /\ b \in Nat /\ last_timestamp \in Nat /\ ts \in Nat
        BY <1>1, <1>3, <1>4, <2>1, <2>2, ProperFacts DEF QueryTypes, ts
      <3>2. w = IF t = "elapsed" THEN s ELSE r
        BY <2>2 DEF w, EndReport
      <3>3. /\ Written(fifo, report, r, b) /\ b <= last_timestamp
            /\ t = "elapsed" => NotAfter(fifo, report, r, b)
            /\ \A k \in 1 .. Len(fifo) :
                 fifo[k].op = "report" /\ fifo[k].arg \in {r, s} \ {NoReport} /\ fifo[k].ts >= b
                 => Covered(fifo, k)
        BY <1>3, <1>4, <2>1, <2>2, <3>1 DEF Writes
      <3>4. /\ Len(fifo) \in Nat /\ Len(fifo') \in Nat /\ Len(fifo) <= Len(fifo')
            /\ \A k \in 1 .. Len(fifo) : fifo'[k] = fifo[k]
            /\ report' = report /\ last_timestamp <= last_timestamp'
        BY <1>6 DEF Grows
      <3> HIDE DEF r, s, b
      <3>5. Written(fifo', report', r, b) /\ b <= last_timestamp' /\ b <= ts
        BY <1>7, <3>1, <3>3, <3>4 DEF Written
      <3>6. t = "elapsed" => NotAfter(fifo', report', r, b)
        BY <1>6, <3>1, <3>2, <3>3, <3>4 DEF NotAfter
      <3>7. NotAfter(fifo', report', w, ts)
        BY <1>6, <1>7, <3>1, <3>2, LastWritten
      <3>8. ASSUME NEW k \in 1 .. Len(fifo'), fifo'[k].op = "report",
                   fifo'[k].arg \in {r, s} \ {NoReport}, fifo'[k].ts >= b
            PROVE  Covered(fifo', k)
        <4>1. CASE k \in 1 .. Len(fifo)
          <5>1. Covered(fifo, k) /\ fifo'[k] = fifo[k]
            BY <3>3, <3>4, <3>8, <4>1
          <5> QED BY <3>4, <4>1, <5>1 DEF Covered
        <4>2. CASE k \notin 1 .. Len(fifo)
          BY <1>6, <3>8, <4>2
        <4> QED BY <4>1, <4>2
      <3> QED BY <1>3, <1>6, <1>8, <1>9, <2>2, <3>1, <3>2, <3>5, <3>6, <3>7, <3>8
              DEF Writes, r, s, b
    <2>7. Conditions(fifo, report)'
      BY <1>6, <2>1, GrowConditions
    <2>8. Waiting'
      BY <1>3 DEF Waiting
    <2> QED BY <2>4, <2>5, <2>6, <2>7, <2>8 DEF Rest
  <1> QED BY <1>6, <1>10, <1>11, <1>12 DEF QueriesInv


(* What a step that changes one query's state, with no target of its own,   *)
(* leaves of the others.                                                    *)
OnlyQuery(q) ==
  /\ \A p \in Queries : p # q =>
       /\ life'[p] = life[p] /\ type'[p] = type[p] /\ status'[p] = status[p]
       /\ indices'[p] = indices[p] /\ timestamps'[p] = timestamps[p]
  /\ UNCHANGED <<query_binding, any_samples_passed_query, aborted>>

LEMMA ProperOthers ==
  ASSUME QueryTypes, Proper, NEW q \in Queries, OnlyQuery(q), TimestampsFollow',
         \A t \in QueryTargets : query_binding[t] # q,
         /\ type'[q] = "none" => status'[q] = "inactive"
         /\ status'[q] \in {"active", "pending"} =>
              /\ type'[q] \in {"samples", "any", "elapsed", "timestamp"}
              /\ indices'[q][1] # NoReport
              /\ type'[q] = "elapsed" =>
                   indices'[q][2] # NoReport /\ indices'[q][1] # indices'[q][2]
         /\ status'[q] = "active" => type'[q] # "timestamp"
  PROVE  Proper'
  <1>1. \A t \in QueryTargets : query_binding[t] \in Queries \cup {NoQuery}
    BY DEF QueryTypes, QueriesTypeOK
  <1>2. \A t \in QueryTargets : query_binding'[t] # NoQuery =>
          LET p == query_binding'[t] IN
            life'[p] = "object" /\ type'[p] = t /\ status'[p] = "active"
    BY <1>1 DEF Proper, OnlyQuery
  <1>3. any_samples_passed_query' # NoReport =>
          /\ "any" \in QueryTargets /\ query_binding'["any"] # NoQuery
          /\ indices'[query_binding'["any"]][1] = any_samples_passed_query'
    BY <1>1 DEF Proper, OnlyQuery
  <1>4. \A p \in Queries :
          /\ type'[p] = "none" => status'[p] = "inactive"
          /\ status'[p] \in {"active", "pending"} =>
               /\ type'[p] \in {"samples", "any", "elapsed", "timestamp"}
               /\ indices'[p][1] # NoReport
               /\ type'[p] = "elapsed" =>
                    indices'[p][2] # NoReport /\ indices'[p][1] # indices'[p][2]
          /\ status'[p] = "active" => type'[p] # "timestamp"
    BY DEF Proper, OnlyQuery
  <1>5. aborted' \notin {"query", "report", "timestamp"}
    BY DEF Proper, OnlyQuery
  <1> QED BY <1>2, <1>3, <1>4, <1>5 DEF Proper

(* glQueryCounter: the report comes behind the timestamp.                   *)
LEMMA CounterStep ==
  ASSUME QueriesInv, NEW q \in Queries, NEW r \in Reports, QueryCounter(q, r)
  PROVE  QueriesInv'
  <1> DEFINE ts == next_timestamp
             cmds == <<Stamp(ts), Report(r, ts)>>
             n == Len(fifo)
  <1>1. QueryTypes /\ Owned /\ InOrder /\ Rest
    BY DEF QueriesInv
  <1>2. /\ call = NoCall /\ aborted = "no"
        /\ ~IsRefused(q, "timestamp") /\ r \in Allocatable(q)
        /\ life' = [life EXCEPT ![q] = "object"]
        /\ type' = [type EXCEPT ![q] = "timestamp"]
        /\ status' = [status EXCEPT ![q] = "pending"]
        /\ indices' = [indices EXCEPT ![q] = <<r, NoReport>>]
        /\ timestamps' = [timestamps EXCEPT ![q][1] = ts]
        /\ used' = Freed(q) \cup {r}
        /\ Emit(cmds)
        /\ UNCHANGED <<query_binding, any_samples_passed_query, call, aborted, misused>>
    BY DEF QueryCounter, IsIdle
  <1>3. IsCall(cmds, ts) /\ Len(cmds) = 2 /\ cmds[1] = Stamp(ts) /\ cmds[2] = Report(r, ts)
    BY DEF IsCall
  <1> HIDE DEF cmds
  <1>4. /\ n \in Nat /\ Len(fifo') = n + 2
        /\ \A k \in 1 .. Len(fifo') : k \notin 1 .. n => fifo'[k] = cmds[k - n]
    BY <1>1, <1>2, <1>3, EmitFacts
  <1>5. /\ InOrder' /\ Grows
        /\ \A k \in 1 .. Len(fifo') : k \notin 1 .. n => fifo'[k].op # "condition"
    BY <1>1, <1>2, <1>3, EmitInOrder, EmitGrows
  <1>6. /\ fifo' \in Seq(Commands) /\ report' \in [Reports -> Nat]
        /\ next_timestamp' \in Nat /\ last_timestamp' \in Nat /\ cached_timestamp' \in Nat
        /\ last_timestamp' < next_timestamp' /\ cached_timestamp' <= label'
        /\ label' \in 0 .. last_timestamp' /\ put' \in 0 .. Len(fifo')
        /\ next_timestamp' = last_timestamp' + 1 /\ last_timestamp' = ts
    BY <1>1, <1>2, <1>3, EmitTypes
  <1>7. \A k \in 1 .. Len(fifo') : k \notin 1 .. n /\
          fifo'[k].op = "report" => fifo'[k].arg = r
    <2>1. \A k \in 1 .. Len(fifo') : k \notin 1 .. n => k - n \in {1, 2}
      BY <1>4
    <2>2. \A j \in {1, 2} : cmds[j].op = "report" => cmds[j].arg = r
      BY <1>3 DEF Stamp, Report
    <2> HIDE DEF n
    <2> QED BY <1>4, <2>1, <2>2
  <1>8. Written(fifo', report', r, ts)
    <2>1. n + 2 \in 1 .. Len(fifo') /\ n + 2 \notin 1 .. n /\ (n + 2) - n = 2
      BY <1>4
    <2>2. fifo'[n + 2] = Report(r, ts)
      BY <1>3, <1>4, <2>1
    <2> QED BY <2>1, <2>2 DEF Written, Report
  <1>9. /\ type'[q] = "timestamp" /\ status'[q] = "pending" /\ indices'[q] = <<r, NoReport>>
        /\ \A p \in Queries : p # q =>
             /\ life'[p] = life[p] /\ type'[p] = type[p] /\ status'[p] = status[p]
             /\ indices'[p] = indices[p]
    BY <1>1, <1>2 DEF QueryTypes, QueriesTypeOK
  <1>10. /\ timestamps' \in [Queries -> Nat \X Nat] /\ timestamps'[q][1] = ts
         /\ \A p \in Queries : p # q => timestamps'[p] = timestamps[p]
    <2>1. timestamps \in [Queries -> Nat \X Nat] /\ ts \in Nat
      BY <1>1 DEF QueryTypes, QueriesTypeOK
    <2>2. timestamps' = [timestamps EXCEPT ![q][1] = ts]
      BY <1>2
    <2> HIDE DEF ts
    <2> QED BY <2>1, <2>2, PairUpdate
  <1> HIDE DEF ts
  <1>11. QueryTypes'
    <2>1. used' \subseteq Reports
      BY <1>1, <1>2 DEF QueryTypes, QueriesTypeOK, Freed
    <2>2. /\ life' \in [Queries -> {"none", "name", "object"}]
          /\ type' \in [Queries -> Types \cup {"none"}]
          /\ status' \in [Queries -> {"inactive", "active", "pending", "cached"}]
          /\ indices' \in [Queries -> (Reports \cup {NoReport}) \X (Reports \cup {NoReport})]
      BY <1>1, <1>2 DEF QueryTypes, QueriesTypeOK, Types
    <2>3. QueriesTypeOK'
      BY <1>1, <1>2, <1>6, <1>10, <2>1, <2>2 DEF QueryTypes, QueriesTypeOK
    <2> QED BY <1>1, <1>2, <1>6, <2>3 DEF QueryTypes
  <1>12. Owned'
    <2>1. used' = Freed(q) \cup ({r, NoReport} \ {NoReport})
      BY <1>2, QueriesAssumption
    <2> QED BY <1>1, <1>2, <2>1, OwnedStep
  <1>13. Rest'
    <2> SUFFICES ASSUME ~misused
                 PROVE  Rest'
      BY <1>2 DEF Rest
    <2>1. Proper /\ (\A p \in Queries : Writes(p, fifo, report)) /\ Conditions(fifo, report)
      BY <1>1 DEF Rest
    <2>2. r # NoReport /\ "timestamp" \notin QueryTargets
      BY QueriesAssumption
    <2>3. \A t \in QueryTargets : query_binding[t] # q
      BY <1>2, <2>1, <2>2, QueriesAssumption DEF IsRefused, Proper
    <2>4. OnlyQuery(q) /\ TimestampsFollow' /\ indices'[q][1] = r
      BY <1>2, <1>6, <1>9, <1>10 DEF OnlyQuery, TimestampsFollow
    <2>5. Proper'
      BY <1>1, <1>9, <2>1, <2>2, <2>3, <2>4, ProperOthers
    <2>6. ASSUME NEW p \in Queries, p # q
          PROVE  Writes(p, fifo, report)'
      <3>1. r \notin used \/ r \in ReportsOf(q)
        BY <1>2 DEF Allocatable, Freed
      <3>2. Spares(p)
        BY <1>1, <1>7, <2>6, <3>1, SparesOthers
      <3> QED BY <1>1, <1>5, <1>6, <1>9, <1>10, <2>1, <2>6, <3>2, GrowWrites
    <2>7. Writes(q, fifo, report)'
      <3>1. NotAfter(fifo', report', r, ts)
        BY <1>5, <1>6, LastWritten
      <3>2. ts <= last_timestamp'
        BY <1>6
      <3> QED BY <1>8, <1>9, <1>10, <2>4, <3>1, <3>2 DEF Writes
    <2>8. Conditions(fifo, report)'
      BY <1>5, <2>1, GrowConditions
    <2>9. Waiting'
      BY <1>2 DEF Waiting
    <2> QED BY <2>5, <2>6, <2>7, <2>8, <2>9 DEF Rest
  <1> QED BY <1>5, <1>11, <1>12, <1>13 DEF QueriesInv

(* A draw writes the report of the active any-samples query, if there is one.*)
LEMMA MultiDrawStep ==
  ASSUME QueriesInv, MultiDraw
  PROVE  QueriesInv'
  <1> DEFINE ts == next_timestamp
             r == any_samples_passed_query
             cmds == IF r = NoReport THEN <<Stamp(ts)>> ELSE <<Report(r, ts), Stamp(ts)>>
  <1>1. QueryTypes /\ Owned /\ InOrder /\ Rest
    BY DEF QueriesInv
  <1>2. /\ call = NoCall /\ Emit(cmds)
        /\ UNCHANGED <<life, type, status, indices, timestamps, query_binding,
                       any_samples_passed_query, used, call, aborted, misused>>
    BY DEF MultiDraw, IsIdle, queryVars, reportVars
  <1>3. IsCall(cmds, ts) /\ r \in Reports \cup {NoReport}
    BY <1>1 DEF IsCall, QueryTypes, QueriesTypeOK
  <1>4. /\ InOrder' /\ Grows /\ last_timestamp' \in Nat
        /\ \A k \in 1 .. Len(fifo') : k \notin 1 .. Len(fifo) => fifo'[k].op # "condition"
    BY <1>1, <1>2, <1>3, EmitInOrder, EmitGrows
  <1>5. /\ fifo' \in Seq(Commands) /\ report' \in [Reports -> Nat]
        /\ next_timestamp' \in Nat /\ last_timestamp' \in Nat /\ cached_timestamp' \in Nat
        /\ last_timestamp' < next_timestamp' /\ cached_timestamp' <= label'
        /\ label' \in 0 .. last_timestamp' /\ put' \in 0 .. Len(fifo')
        /\ next_timestamp' = last_timestamp' + 1 /\ last_timestamp' = ts
    BY <1>1, <1>2, <1>3, EmitTypes
  <1>6. \A k \in 1 .. Len(fifo') : k \notin 1 .. Len(fifo) /\ fifo'[k].op = "report" =>
          r # NoReport /\ fifo'[k].arg = r /\ Covered(fifo', k)
    <2>1. CASE r = NoReport
      <3>1. cmds = <<Stamp(ts)>> /\ Len(cmds) = 1 /\ cmds[1].op = "stamp"
        BY <2>1 DEF Stamp
      <3> HIDE DEF cmds
      <3>2. /\ Len(fifo) \in Nat /\ Len(fifo') = Len(fifo) + 1
            /\ \A k \in 1 .. Len(fifo') : k \notin 1 .. Len(fifo) =>
                 fifo'[k] = cmds[k - Len(fifo)]
        BY <1>1, <1>2, <1>3, <3>1, EmitFacts
      <3>3. \A k \in 1 .. Len(fifo') : k \notin 1 .. Len(fifo) => k - Len(fifo) = 1
        BY <3>2
      <3> QED BY <3>1, <3>2, <3>3
    <2>2. CASE r # NoReport
      <3>1. Emit(<<Report(r, ts), Stamp(ts)>>)
        BY <1>2, <2>2
      <3> QED BY <1>1, <1>3, <2>2, <3>1, EmitReport
    <2> QED BY <2>1, <2>2
  <1> HIDE DEF cmds, ts
  <1>7. QueryTypes'
    <2>1. QueriesTypeOK'
      BY <1>1, <1>2, <1>5 DEF QueryTypes, QueriesTypeOK
    <2> QED BY <1>1, <1>2, <1>5, <2>1 DEF QueryTypes
  <1>8. Owned'
    BY <1>1, <1>2 DEF Owned, ReportsOf
  <1>9. Rest'
    <2> SUFFICES ASSUME ~misused
                 PROVE  Rest'
      BY <1>2 DEF Rest
    <2>1. Proper /\ (\A p \in Queries : Writes(p, fifo, report)) /\ Conditions(fifo, report)
      BY <1>1 DEF Rest
    <2>2. Proper'
      <3>1. TimestampsFollow'
        BY <1>5 DEF TimestampsFollow
      <3> QED BY <1>2, <2>1, <3>1 DEF Proper
    <2>3. ASSUME NEW p \in Queries
          PROVE  Writes(p, fifo, report)'
      <3>1. r # NoReport /\ r \in ReportsOf(p) => status[p] = "active" /\ type[p] = "any"
        <4> SUFFICES ASSUME r # NoReport, r \in ReportsOf(p)
                     PROVE  status[p] = "active" /\ type[p] = "any"
          OBVIOUS
        <4>1. /\ "any" \in QueryTargets /\ query_binding["any"] \in Queries
              /\ indices[query_binding["any"]][1] = r
              /\ status[query_binding["any"]] = "active" /\ type[query_binding["any"]] = "any"
          BY <1>1, <2>1 DEF Proper, QueryTypes, QueriesTypeOK
        <4>2. r \in ReportsOf(query_binding["any"])
          BY <4>1 DEF ReportsOf
        <4>3. p = query_binding["any"]
          BY <1>1, <4>1, <4>2 DEF Owned
        <4> QED BY <4>1, <4>3
      <3>2. Spares(p)
        BY <1>6, <3>1 DEF Spares, ReportsOf
      <3> QED BY <1>1, <1>2, <1>4, <2>1, <3>2, GrowWrites
    <2>4. Conditions(fifo, report)'
      BY <1>4, <2>1, GrowConditions
    <2>5. Waiting'
      BY <1>2 DEF Waiting
    <2> QED BY <2>2, <2>3, <2>4, <2>5 DEF Rest
  <1> QED BY <1>4, <1>7, <1>8, <1>9 DEF QueriesInv

(* A result is read: the reports are free, and the query has none.          *)
LEMMA ReadStep ==
  ASSUME QueriesInv, NEW q \in Queries, ReadResult(q)
  PROVE  QueriesInv'
  <1>1. QueryTypes /\ Owned /\ InOrder /\ Rest
    BY DEF QueriesInv
  <1>2. /\ call.op \in {"get", "render"} /\ call.query = q
        /\ cached_timestamp' = CachedAfter(call.ts)
        /\ status' = [status EXCEPT ![q] = "cached"]
        /\ used' = used \ ReportsOf(q)
        /\ indices' = [indices EXCEPT ![q] = NoReports]
        /\ call' = NoCall
        /\ UNCHANGED <<life, type, timestamps, query_binding, any_samples_passed_query,
                       next_timestamp, last_timestamp, label, fifo, put, report, aborted,
                       misused>>
    BY DEF ReadResult, counters, gpu
  <1>3. NoReports \in (Reports \cup {NoReport}) \X (Reports \cup {NoReport})
    BY DEF NoReports
  <1>4. QueriesTypeOK'
    BY <1>1, <1>2, <1>3 DEF QueryTypes, QueriesTypeOK
  <1>5. QueryTypes'
    <2>1. cached_timestamp' \in Nat /\ cached_timestamp' <= label
      BY <1>1, <1>2 DEF QueryTypes, QueriesTypeOK, CachedAfter
    <2>2. call' \in [op : {"none", "get", "render"}, query : Queries \cup {NoQuery}, ts : Nat]
      BY <1>2 DEF NoCall
    <2> QED BY <1>1, <1>2, <1>4, <2>1, <2>2 DEF QueryTypes
  <1>6. Owned'
    BY <1>1, <1>2, OwnedRelease
  <1>7. InOrder'
    BY <1>1, <1>2 DEF InOrder
  <1>8. Rest'
    <2> SUFFICES ASSUME ~misused
                 PROVE  Rest'
      BY <1>2 DEF Rest
    <2>1. /\ Proper /\ Waiting /\ (\A p \in Queries : Writes(p, fifo, report))
          /\ Conditions(fifo, report)
      BY <1>1 DEF Rest
    <2>2. status[q] = "pending"
      BY <1>2, <2>1 DEF Waiting, NoCall
    <2>3. /\ status'[q] = "cached"
          /\ \A p \in Queries : p # q => status'[p] = status[p] /\ indices'[p] = indices[p]
      BY <1>1, <1>2 DEF QueryTypes, QueriesTypeOK
    <2>4. Proper'
      <3>1. OnlyQuery(q) /\ TimestampsFollow'
        BY <1>2, <2>1, <2>3 DEF OnlyQuery, TimestampsFollow, Proper
      <3>2. \A t \in QueryTargets : query_binding[t] # q
        BY <2>1, <2>2, QueriesAssumption DEF Proper
      <3>3. type'[q] # "none"
        BY <1>2, <2>1, <2>2 DEF Proper
      <3> QED BY <1>1, <2>1, <2>3, <3>1, <3>2, <3>3, ProperOthers
    <2>5. \A p \in Queries : Writes(p, fifo, report)'
      BY <1>2, <2>1, <2>3 DEF Writes
    <2>6. Waiting' /\ Conditions(fifo, report)'
      BY <1>2, <2>1 DEF Waiting, Conditions
    <2> QED BY <2>4, <2>5, <2>6 DEF Rest
  <1> QED BY <1>5, <1>6, <1>7, <1>8 DEF QueriesInv

(* The command of conditional rendering comes behind the report it reads.   *)
LEMMA ConditionStep ==
  ASSUME QueriesInv, NEW q \in Queries, BeginConditionalNoWait(q)
  PROVE  QueriesInv'
  <1> DEFINE r == indices[q][1]
             m == timestamps[q][2]
             c == Condition(r, m)
             n == Len(fifo)
  <1>1. QueryTypes /\ Owned /\ InOrder /\ Rest
    BY DEF QueriesInv
  <1>2. /\ call = NoCall /\ status[q] = "pending" /\ type[q] \in {"samples", "any"}
        /\ fifo' = Append(fifo, c)
        /\ UNCHANGED <<life, type, status, indices, timestamps, query_binding,
                       any_samples_passed_query, used, next_timestamp, last_timestamp,
                       cached_timestamp, label, put, report, call, aborted, misused>>
    BY DEF BeginConditionalNoWait, IsIdle, queryVars, reportVars, counters
  <1>3. /\ c \in Commands /\ c.op = "condition" /\ c.arg = r /\ c.ts = m
        /\ r \in Reports \cup {NoReport} /\ m \in Nat
    BY <1>1 DEF QueryTypes, QueriesTypeOK, Condition, Commands
  <1> HIDE DEF c
  <1>4. /\ n \in Nat /\ fifo' \in Seq(Commands) /\ Len(fifo') = n + 1
        /\ \A k \in 1 .. n : fifo'[k] = fifo[k]
        /\ fifo'[n + 1] = c
    BY <1>1, <1>2, <1>3 DEF QueryTypes
  <1> HIDE DEF n
  <1>5. \A k \in 1 .. Len(fifo') : k \notin 1 .. n => k = n + 1 /\ fifo'[k].op = "condition"
    BY <1>3, <1>4
  <1>6. QueryTypes'
    <2>1. QueriesTypeOK
      BY <1>1 DEF QueryTypes
    <2>2. put \in 0 .. n + 1
      BY <1>4, <2>1 DEF QueriesTypeOK, n
    <2>3. QueriesTypeOK'
      BY <1>2, <1>4, <2>1, <2>2 DEF QueriesTypeOK
    <2> QED BY <1>1, <1>2, <1>4, <2>3 DEF QueryTypes
  <1>7. Owned'
    BY <1>1, <1>2 DEF Owned, ReportsOf
  <1>8. InOrder'
    <2>1. ASSUME NEW k \in 1 .. Len(fifo'), fifo'[k].op # "condition"
          PROVE  k \in 1 .. n /\ fifo'[k] = fifo[k]
      BY <1>4, <1>5, <2>1
    <2>2. \A l \in 1 .. Len(fifo') : \A k \in 1 .. l - 1 : k \in 1 .. Len(fifo')
      BY <1>4
    <2> QED BY <1>1, <1>2, <2>1, <2>2 DEF InOrder, n
  <1>9. Rest'
    <2> SUFFICES ASSUME ~misused
                 PROVE  Rest'
      BY <1>2 DEF Rest
    <2>1. Proper /\ (\A p \in Queries : Writes(p, fifo, report)) /\ Conditions(fifo, report)
      BY <1>1 DEF Rest
    <2>2. Proper'
      BY <1>2, <2>1 DEF Proper, TimestampsFollow
    <2>3. Grows /\ last_timestamp' \in Nat
      BY <1>1, <1>2, <1>4 DEF Grows, QueryTypes, n
    <2>4. \A p \in Queries : Writes(p, fifo, report)'
      <3>1. \A p \in Queries : Spares(p)
        BY <1>5 DEF Spares, n
      <3> QED BY <1>1, <1>2, <2>1, <2>3, <3>1, GrowWrites
    <2>5. Conditions(fifo, report)'
      <3>1. r \in Reports /\ Written(fifo, report, r, m) /\ NotAfter(fifo, report, r, m)
        BY <1>1, <1>2, <2>1, ProperFacts DEF Writes
      <3> SUFFICES ASSUME NEW k \in 1 .. Len(fifo'), fifo'[k].op = "condition"
                   PROVE  LET x == fifo'[k].arg
                              e == fifo'[k].ts
                          IN
                          /\ x \in Reports
                          /\ \/ \E j \in 1 .. k - 1 :
                                  fifo'[j].op = "report" /\ fifo'[j].arg = x /\ fifo'[j].ts = e
                             \/ report'[x] >= e
                          /\ \A j \in 1 .. k - 1 :
                               fifo'[j].op = "report" /\ fifo'[j].arg = x => fifo'[j].ts <= e
                          /\ report'[x] <= e
        BY DEF Conditions
      <3>2. \A j \in 1 .. k - 1 : j \in 1 .. n /\ fifo'[j] = fifo[j]
        <4>1. k \in Nat /\ k <= n + 1
          BY <1>4
        <4>2. \A j \in 1 .. k - 1 : j \in 1 .. n
          BY <1>4, <4>1
        <4> QED BY <1>4, <4>2
      <3>3. CASE k \in 1 .. n
        <4>1. fifo'[k] = fifo[k]
          BY <1>4, <3>3
        <4> QED BY <1>2, <2>1, <3>2, <3>3, <4>1 DEF Conditions, n
      <3>4. CASE k \notin 1 .. n
        <4>1. fifo'[k].arg = r /\ fifo'[k].ts = m /\ k - 1 = n
          BY <1>3, <1>4, <1>5, <3>4
        <4> QED BY <1>2, <3>1, <3>2, <4>1 DEF Written, NotAfter, n
      <3> QED BY <3>3, <3>4
    <2>6. Waiting'
      BY <1>2 DEF Waiting
    <2> QED BY <2>2, <2>4, <2>5, <2>6 DEF Rest
  <1> QED BY <1>6, <1>7, <1>8, <1>9 DEF QueriesInv

LEMMA ExecuteStep ==
  ASSUME QueriesInv, Execute
  PROVE  QueriesInv'
  <1>1. QueryTypes /\ Owned /\ InOrder /\ Rest
    BY DEF QueriesInv
  <1>2. /\ Len(fifo) \in Nat /\ Len(fifo') = Len(fifo) - 1 /\ fifo' \in Seq(Commands)
        /\ put' = put - 1 /\ put > 0
        /\ UNCHANGED <<life, type, status, indices, timestamps, query_binding,
                       any_samples_passed_query, used, next_timestamp, last_timestamp,
                       cached_timestamp, call, aborted, misused>>
    BY <1>1, ExecuteFacts DEF queryVars, reportVars, counters
  <1>3. /\ InOrder' /\ label' \in 0 .. last_timestamp /\ label <= label'
        /\ report' \in [Reports -> Nat]
    BY <1>1, ExecuteInOrder
  <1>4. QueryTypes'
    <2>1. QueriesTypeOK'
      BY <1>1, <1>2, <1>3 DEF QueryTypes, QueriesTypeOK
    <2>2. cached_timestamp' <= label'
      BY <1>1, <1>2, <1>3 DEF QueryTypes, QueriesTypeOK
    <2> QED BY <1>1, <1>2, <1>3, <2>1, <2>2 DEF QueryTypes
  <1>5. Owned'
    BY <1>1, <1>2 DEF Owned, ReportsOf
  <1>6. Rest'
    <2> SUFFICES ASSUME ~misused
                 PROVE  Rest'
      BY <1>2 DEF Rest
    <2>1. /\ Proper /\ Waiting /\ (\A p \in Queries : Writes(p, fifo, report))
          /\ Conditions(fifo, report)
      BY <1>1 DEF Rest
    <2>2. Proper' /\ Waiting'
      BY <1>2, <2>1 DEF Proper, Waiting, TimestampsFollow
    <2>3. \A p \in Queries : Writes(p, fifo, report)'
      BY <1>1, <2>1, ExecuteWrites
    <2>4. Conditions(fifo, report)'
      BY <1>1, <2>1, ExecuteConditions
    <2> QED BY <2>2, <2>3, <2>4 DEF Rest
  <1> QED BY <1>3, <1>4, <1>5, <1>6 DEF QueriesInv


-----------------------------------------------------------------------------

LEMMA QueriesInvStep == QueriesInv /\ [QueriesNext]_queriesVars => QueriesInv'
  <1> SUFFICES ASSUME QueriesInv, [QueriesNext]_queriesVars
               PROVE  QueriesInv'
    OBVIOUS
  <1>1. ASSUME NEW q \in Queries, NEW t \in Types, BeginRefused(q, t)
        PROVE  QueriesInv'
    BY <1>1, MisuseStep
  <1>2. ASSUME NEW q \in Queries, BeginUnsupported(q)
        PROVE  QueriesInv'
    BY <1>2, MisuseStep DEF Types
  <1>3. ASSUME NEW q \in Queries, DeleteQuery(q)
        PROVE  QueriesInv'
    BY <1>3, DeleteStep
  <1>4. ASSUME NEW q \in Queries, NEW t \in QueryTargets, NEW r \in Reports,
               NEW s \in Reports \cup {NoReport}, BeginQuery(q, t, r, s)
        PROVE  QueriesInv'
    BY <1>4, BeginStep
  <1>5. ASSUME NEW q \in Queries, NEW r \in Reports, QueryCounter(q, r)
        PROVE  QueriesInv'
    BY <1>5, CounterStep
  <1>6. ASSUME NEW q \in Queries, ReadResult(q) \/ BeginConditionalNoWait(q)
        PROVE  QueriesInv'
    BY <1>6, ReadStep, ConditionStep
  <1>7. ASSUME NEW t \in QueryTargets, EndQuery(t)
        PROVE  QueriesInv'
    BY <1>7, EndStep
  <1>8. CASE MultiDraw \/ Execute
    BY <1>8, MultiDrawStep, ExecuteStep
  <1>9. CASE StillAction
    BY <1>9, StillActionStep
  <1> QED BY <1>1, <1>2, <1>3, <1>4, <1>5, <1>6, <1>7, <1>8, <1>9 DEF QueriesNext, StillAction

(* In every state of every behaviour of the query objects the invariant     *)
(* holds: what the reports of a query hold and what the commands that are   *)
(* still queued are going to write to them.                                 *)
THEOREM QueriesInvariant ==
  QueriesSpec => []QueriesInv
  BY QueriesInvInit, QueriesInvStep, PTL DEF QueriesSpec

(* A report is in use by one query at most, is given out as long as it is,  *)
(* and multi draws write that of the active any-samples query.              *)
THEOREM QueriesReportsOwned ==
  QueriesSpec => []ReportsOwned
  <1>1. QueriesInv => ReportsOwned
    BY DEF QueriesInv, QueryTypes, Owned, Rest, Proper, ReportsOwned
  <1> QED BY <1>1, QueriesInvariant, PTL

(* The assertions about queries, reports and timestamps hold as long as no  *)
(* query is deleted while it is bound or begun where it may not be.         *)
THEOREM QueriesAborts ==
  QueriesSpec => []AbortsAreMisuse
  <1>1. QueriesInv => AbortsAreMisuse
    BY DEF QueriesInv, Rest, Proper, AbortsAreMisuse
  <1> QED BY <1>1, QueriesInvariant, PTL

(* When the GPU gets to a conditional rendering command, the report holds   *)
(* what the end of its query wrote.                                         *)
THEOREM QueriesCondition ==
  QueriesSpec => []ConditionIsOwn
  <1>1. ASSUME QueriesInv, fifo # << >>, Head(fifo).op = "condition", ~misused
        PROVE  report[Head(fifo).arg] = Head(fifo).ts
    <2>1. fifo \in Seq(Commands) /\ Conditions(fifo, report) /\ report \in [Reports -> Nat]
      BY <1>1 DEF QueriesInv, QueryTypes, Rest
    <2>2. /\ Len(fifo) \in Nat /\ 1 \in 1 .. Len(fifo)
          /\ Head(fifo) = fifo[1] /\ fifo[1] \in Commands
      BY <1>1, <2>1
    <2>3. fifo[1].arg \in Reports /\ fifo[1].ts \in Nat
      BY <1>1, <2>1, <2>2 DEF Conditions, Commands
    <2>4. report[fifo[1].arg] >= fifo[1].ts /\ report[fifo[1].arg] <= fifo[1].ts
      BY <1>1, <2>1, <2>2 DEF Conditions
    <2> QED BY <2>1, <2>2, <2>3, <2>4
  <1>2. QueriesInv => ConditionIsOwn
    BY <1>1 DEF ConditionIsOwn
  <1> QED BY <1>2, QueriesInvariant, PTL

(* What is to be written by the time that label has reached has been        *)
(* written, except by a report that is behind its timestamp.                *)
LEMMA WrittenByNow ==
  ASSUME QueryTypes, InOrder, NEW r \in Reports, NEW m \in Nat, m <= label,
         Written(fifo, report, r, m)
  PROVE  \/ report[r] >= m
         \/ /\ 1 \in 1 .. Len(fifo)
            /\ fifo[1].op = "report" /\ fifo[1].arg = r /\ fifo[1].ts = m
            /\ ~Covered(fifo, 1)
  <1>1. /\ Len(fifo) \in Nat /\ label \in Nat
        /\ \A k \in 1 .. Len(fifo) : fifo[k].ts \in Nat
    <2>1. fifo \in Seq(Commands) /\ label \in 0 .. last_timestamp /\ last_timestamp \in Nat
      BY DEF QueryTypes, QueriesTypeOK
    <2>2. \A k \in 1 .. Len(fifo) : fifo[k] \in Commands
      BY <2>1
    <2> QED BY <2>1, <2>2 DEF Commands
  <1>2. ASSUME NEW k \in 1 .. Len(fifo),
               fifo[k].op = "report", fifo[k].arg = r, fifo[k].ts = m
        PROVE  k = 1 /\ label = m
    BY <1>1, <1>2 DEF InOrder
  <1>3. ~Covered(fifo, 1) \/ label < fifo[1].ts
    <2>1. ASSUME NEW l \in 2 .. Len(fifo), fifo[l].op = "stamp", fifo[l].ts = fifo[1].ts
          PROVE  label < fifo[1].ts
      <3>1. l \in 1 .. Len(fifo)
        BY <1>1
      <3> QED BY <2>1, <3>1 DEF InOrder
    <2> QED BY <2>1 DEF Covered
  <1>4. CASE report[r] >= m
    BY <1>4
  <1>5. CASE \E k \in 1 .. Len(fifo) :
               fifo[k].op = "report" /\ fifo[k].arg = r /\ fifo[k].ts = m
    <2>1. 1 \in 1 .. Len(fifo) /\ label = m
          /\ fifo[1].op = "report" /\ fifo[1].arg = r /\ fifo[1].ts = m
      BY <1>2, <1>5
    <2> QED BY <1>1, <1>3, <2>1
  <1> QED BY <1>4, <1>5 DEF Written

(* A result is read from what the GPU wrote for this use of the query; that *)
(* of glQueryCounter perhaps one command too early.                         *)
THEOREM QueriesResult ==
  QueriesSpec => ResultIsOwn
  <1>1. ASSUME QueriesInv, NEW q \in Queries, ReadResult(q), ~misused
        PROVE  IsOwnReport(q) \/ IsNextReport(q)
    <2> DEFINE r == indices[q][1]
               s == indices[q][2]
               b == timestamps[q][1]
               e == timestamps[q][2]
    <2>1. QueryTypes /\ InOrder /\ Proper /\ Waiting /\ Writes(q, fifo, report)
      BY <1>1 DEF QueriesInv, Rest
    <2>2. /\ status[q] = "pending" /\ b <= call.ts /\ call.ts \in Nat
          /\ type[q] \in {"samples", "elapsed"} => call.ts = e
          /\ Reached(call.ts)
      BY <1>1, <2>1 DEF ReadResult, Waiting, NoCall
    <2>3. /\ b \in Nat /\ e \in Nat /\ label \in Nat
          /\ fifo \in Seq(Commands) /\ report \in [Reports -> Nat]
          /\ cached_timestamp \in Nat /\ cached_timestamp <= label
      BY <2>1 DEF QueryTypes, QueriesTypeOK
    <2>4. call.ts <= label /\ b <= label
      BY <2>2, <2>3 DEF Reached
    <2>5. /\ type[q] \in {"samples", "any", "elapsed", "timestamp"}
          /\ r \in Reports /\ r # NoReport
          /\ type[q] = "elapsed" => s \in Reports /\ s # NoReport
      BY <2>1, <2>2, ProperFacts, QueriesAssumption
    <2>6. ASSUME type[q] # "timestamp", NEW x \in Reports, x \in {r, s}, NEW m \in Nat,
                 b <= m, m <= label, Written(fifo, report, x, m)
          PROVE  report[x] >= m
      <3>1. x \in {r, s} \ {NoReport}
        BY <2>6, QueriesAssumption
      <3>2. \A k \in 1 .. Len(fifo) :
              fifo[k].op = "report" /\ fifo[k].arg = x /\ fifo[k].ts >= b => Covered(fifo, k)
        BY <2>1, <2>2, <2>6, <3>1 DEF Writes
      <3> QED BY <2>1, <2>6, <3>2, WrittenByNow
    <2>7. CASE type[q] = "samples"
      <3>1. b <= e /\ Written(fifo, report, r, e) /\ NotAfter(fifo, report, r, e)
        BY <2>1, <2>2, <2>7 DEF Writes
      <3>2. report[r] >= e
        BY <2>2, <2>3, <2>4, <2>5, <2>6, <2>7, <3>1
      <3>3. report[r] = e
        BY <2>3, <2>5, <3>1, <3>2 DEF NotAfter
      <3> QED BY <2>7, <3>3 DEF IsOwnReport
    <2>8. CASE type[q] = "any"
      <3>1. /\ b <= e /\ NotAfter(fifo, report, r, e)
            /\ Written(fifo, report, r, b)
        BY <2>1, <2>2, <2>8 DEF Writes
      <3>2. report[r] >= b
        BY <2>3, <2>4, <2>5, <2>6, <2>8, <3>1
      <3>3. report[r] \in b .. e
        BY <2>3, <2>5, <3>1, <3>2 DEF NotAfter
      <3> QED BY <2>8, <3>3 DEF IsOwnReport
    <2>9. CASE type[q] = "elapsed"
      <3>1. /\ b <= e
            /\ Written(fifo, report, r, b) /\ NotAfter(fifo, report, r, b)
            /\ Written(fifo, report, s, e) /\ NotAfter(fifo, report, s, e)
        BY <2>1, <2>2, <2>9 DEF Writes
      <3>2. report[r] >= b /\ report[s] >= e
        BY <2>2, <2>3, <2>4, <2>5, <2>6, <2>9, <3>1
      <3>3. report[r] = b /\ report[s] = e
        BY <2>3, <2>5, <2>9, <3>1, <3>2 DEF NotAfter
      <3> QED BY <2>9, <3>3 DEF IsOwnReport
    <2>10. CASE type[q] = "timestamp"
      <3>1. Written(fifo, report, r, b) /\ NotAfter(fifo, report, r, b)
        BY <2>1, <2>2, <2>10 DEF Writes
      <3>2. CASE report[r] >= b
        <4>1. report[r] = b
          BY <2>3, <2>5, <3>1, <3>2 DEF NotAfter
        <4> QED BY <2>10, <4>1 DEF IsOwnReport
      <3>3. CASE 1 \in 1 .. Len(fifo) /\ fifo[1].op = "report" /\ fifo[1].arg = r
                   /\ fifo[1].ts = b
        <4>1. fifo # << >> /\ Head(fifo) = fifo[1] /\ fifo[1] \in Commands
          BY <2>3, <3>3
        <4>2. fifo[1] = Report(r, b)
          BY <3>3, <4>1 DEF Commands, Report
        <4> QED BY <2>10, <4>1, <4>2 DEF IsNextReport
      <3> QED BY <2>1, <2>3, <2>4, <2>5, <3>1, <3>2, <3>3, WrittenByNow
    <2> QED BY <2>5, <2>7, <2>8, <2>9, <2>10
  <1>2. QueriesInv /\ [QueriesNext]_queriesVars =>
          [\A q \in Queries :
             ReadResult(q) /\ ~misused => IsOwnReport(q) \/ IsNextReport(q)]_queriesVars
    BY <1>1
  <1> QED BY <1>2, QueriesInvariant, PTL DEF QueriesSpec, ResultIsOwn

=============================================================================
