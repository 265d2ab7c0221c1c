-------------------------- MODULE SyncObjectsProofs --------------------------
(***************************************************************************)
(* For any number of semaphores, sync objects and queued commands: no two  *)
(* fences share a semaphore, a fence that is signaled has been reached,    *)
(* and glFinish that does not give up leaves nothing to execute.           *)
(*                                                                         *)
(* That a semaphore has one owner rests on what NameSpaceProofs shows of   *)
(* the names: one that is given out is not in use, and below MaxNames.     *)
(* What a label tells of a fence rests on the owner, and on the number of  *)
(* commands that are still going to signal it.                             *)
(***************************************************************************)
EXTENDS SyncObjects, TLAPS

NP == INSTANCE NameSpaceProofs

(* The names: finitely many, all accounted for, C as in NameSpaceProofs.    *)
NamesInv(C) == Names!TypeOK /\ Names!QueueIsFreeList /\ NP!Accounting(C)

ObjectTypes ==
  /\ objects \subseteq Fences
  /\ handles \subseteq objects
  /\ index \in [Fences -> Indices \cup {NoIndex}]
  /\ status \in [Fences -> BOOLEAN]
  /\ label \in [Indices -> BOOLEAN]

(* A fence that the application holds has a semaphore of its own, and no    *)
(* other semaphore is taken.                                                *)
Ownership ==
  /\ created = {}
  /\ 0 \in named
  /\ \A f \in handles : index[f] # NoIndex /\ NameOfIndex(index[f]) \in named \ {0}
  /\ \A f, g \in handles : index[f] = index[g] => f = g
  /\ \A n \in named \ {0} :
       IndexOf(n) = NoIndex \/ \E f \in handles : index[f] = IndexOf(n)

Commands ==
  [op : {"signal"}, arg : Indices, fence : Fences]
    \cup [op : {"ref"}, arg : 0 .. MaxRef, fence : {0}]

StreamTypes ==
  /\ fifo \in Seq(Commands)
  /\ put \in 0 .. Len(fifo)
  /\ ref \in 0 .. MaxRef
  /\ reference \in -1 .. MaxRef
  /\ \/ call = NoCall
     \/ call.op = "wait" /\ call.arg \in handles
     \/ call.op = "finish" /\ call.arg \in 0 .. MaxRef

(* The commands of a stream that are going to signal a semaphore.           *)
Pending(stream, i) ==
  {k \in 1 .. Len(stream) : stream[k].op = "signal" /\ stream[k].arg = i}

(* A label that no deleted fence left a signal for is going to be signaled  *)
(* by one command at most, and is unsignaled until then.                    *)
SignaledOnce ==
  \A f \in handles \ inherited :
    /\ \A k, l \in Pending(fifo, index[f]) : k = l
    /\ Pending(fifo, index[f]) # {} => ~IsSignaled(f)

(* The values for the reference register ascend, from 0 on, and what        *)
(* glFinish waits for is set by the last command there is.                  *)
ReferencesAscend ==
  /\ reference < ref \/ reference <= 0
  /\ \A k \in 1 .. Len(fifo) : fifo[k].op = "ref" =>
       /\ fifo[k].arg < ref
       /\ reference < fifo[k].arg \/ fifo[k].arg = 0
       /\ \A l \in 1 .. k - 1 : fifo[l].op = "ref" => fifo[l].arg < fifo[k].arg
  /\ call.op = "finish" /\ fifo # << >> =>
       fifo[Len(fifo)].op = "ref" /\ fifo[Len(fifo)].arg = call.arg

StateInv == ObjectTypes /\ Ownership /\ StreamTypes /\ SignaledOnce /\ ReferencesAscend

-----------------------------------------------------------------------------

(* The names of the semaphores.                                             *)

LEMMA NameConstants == NP!NameSpaceAssumption
  BY SyncObjectsAssumption DEF NP!NameSpaceAssumption, Finite, UserBit

LEMMA SameState ==
  /\ NP!TypeOK <=> Names!TypeOK
  /\ NP!TypeOK' <=> Names!TypeOK'
  /\ NP!QueueIsFreeList <=> Names!QueueIsFreeList
  /\ NP!QueueIsFreeList' <=> Names!QueueIsFreeList'
  BY DEF NP!TypeOK, Names!TypeOK, NP!Names, Names!Names, NP!QueueIsFreeList,
         Names!QueueIsFreeList, NP!Live, Names!Live

LEMMA SameSteps ==
  /\ \A slot : NP!CreateName(slot) <=> Names!CreateName(slot)
  /\ \A n : NP!DestroyName(n) <=> Names!DestroyName(n)
  <1>1. \A n : NP!NameOf(n) = Names!NameOf(n)
    BY DEF NP!NameOf, Names!NameOf
  <1>2. \A slot : NP!CreateName(slot) <=> Names!CreateName(slot)
    BY <1>1 DEF NP!CreateName, Names!CreateName, NP!IsFull, Names!IsFull,
       NP!IsNextSlot, Names!IsNextSlot, NP!IsFirstClear, Names!IsFirstClear,
       NP!LastWord, Names!LastWord, NP!Live, Names!Live
  <1>3. \A n : NP!DestroyName(n) <=> Names!DestroyName(n)
    BY DEF NP!DestroyName, Names!DestroyName, NP!Live, Names!Live,
       NP!PushBack, Names!PushBack, NP!GrownCap, Names!GrownCap
  <1> QED BY <1>2, <1>3

(* The first name is the context's.                                         *)
LEMMA NamesInit ==
  ASSUME NEW C, NP!QueueGrowthFits(C), Init
  PROVE  NamesInv(C)
  <1> USE NameConstants DEF NP!NameSpaceAssumption
  <1>1. /\ capacity = Positions /\ named = {0} /\ created = {} /\ queue = << >>
        /\ queueCap = 0 /\ count = 1
    BY DEF Init
  <1>2. NP!Live = {0} /\ Len(queue) = 0
    BY <1>1 DEF NP!Live
  <1>3. Names!TypeOK /\ Names!QueueIsFreeList
    BY <1>1 DEF Names!TypeOK, Names!Names, Names!QueueIsFreeList
  <1>4. NP!NoNameLost
    BY <1>1, <1>2 DEF NP!NoNameLost, NP!Accounted, NP!LastWord
  <1>5. NP!NamesBelowLimit
    <2>1. NP!IsFiniteSet({0}) /\ NP!Cardinality({0}) = 1
      BY NP!FS_Singleton
    <2>2. count = NP!Cardinality(NP!Live) /\ NP!IsFiniteSet(NP!Live)
      BY <1>1, <1>2, <2>1
    <2>3. \A n \in NP!Live : n < NP!MostNames
      BY <1>2 DEF NP!MostNames, Finite
    <2>4. \A i \in 1 .. Len(queue) : queue[i] < NP!MostNames
      BY <1>2
    <2> QED BY <2>2, <2>3, <2>4 DEF NP!NamesBelowLimit
  <1> QED BY <1>1, <1>2, <1>3, <1>4, <1>5
          DEF NamesInv, NP!Accounting, NP!QueueGrowthFits

LEMMA NamesStep ==
  ASSUME NameBound <= NameSpan, NEW C, NP!QueueGrowthFits(C), NamesInv(C),
         [Names!Next]_nameVars
  PROVE  NamesInv(C)'
  <1>1. [NP!Next]_(NP!vars)
    BY SameSteps DEF NP!Next, Names!Next, nameVars, NP!vars, NP!DetachName,
       Names!DetachName, NP!SetUserBit, Names!SetUserBit
  <1>2. NP!TypeOK /\ NP!QueueIsFreeList /\ NP!FullInv(C)
    BY SameState DEF NamesInv, NP!FullInv
  <1>3. NP!TypeOK' /\ NP!QueueIsFreeList'
    BY <1>1, <1>2, NameConstants, NP!TypeStep, NP!QueueStep
  <1>4. NP!Accounting(C)'
    BY <1>1, <1>2, NameConstants, NP!AccountingStep
  <1> QED BY <1>3, <1>4, SameState DEF NamesInv

(* A slot that is given out was not in use, and its index is a semaphore's. *)
LEMMA FreshSemaphore ==
  ASSUME NameBound <= NameSpan, NEW C, NP!QueueGrowthFits(C), NamesInv(C),
         created = {}, NEW slot \in 0 .. NameBound - 1, Names!CreateName(slot)
  PROVE  /\ NamesInv(C)'
         /\ slot \notin named
         /\ named' = named \cup {slot}
         /\ created' = {}
         /\ slot \in 0 .. MaxNames - 1
         /\ IndexOf(slot) \in Indices
         /\ NameOfIndex(IndexOf(slot)) = slot
  <1>1. NP!TypeOK /\ NP!QueueIsFreeList /\ NP!CreateName(slot)
    BY SameState, SameSteps DEF NamesInv
  <1>2. NP!NameOf(slot) = slot /\ slot \notin NP!Live
    BY <1>1, NameConstants, NP!FreshStep
  <1>3. /\ slot \notin named /\ named' = named \cup {slot} /\ created' = {}
    BY <1>1, <1>2 DEF NP!CreateName, NP!Live
  <1>4. NamesInv(C)'
    BY NamesStep DEF Names!Next
  <1>5. slot < MaxNames
    BY <1>3, <1>4 DEF NamesInv, NP!Accounting, NP!NamesBelowLimit, NP!Live, NP!MostNames,
       Finite
  <1> QED BY <1>3, <1>4, <1>5, SyncObjectsAssumption DEF IndexOf, NameOfIndex, Indices

LEMMA FreedSemaphore ==
  ASSUME NameBound <= NameSpan, NEW C, NP!QueueGrowthFits(C), NamesInv(C),
         created = {}, NEW n, Names!DestroyName(n)
  PROVE  /\ NamesInv(C)'
         /\ named' = named \ {n}
         /\ created' = {}
  <1>1. Names!Next /\ named' = named \ {n} /\ created' = created \ {n}
    BY DEF NamesInv, Names!DestroyName, Names!Next, Names!Live, Names!TypeOK, Names!Names
  <1> QED BY <1>1, NamesStep

-----------------------------------------------------------------------------
(* The command stream.                                                      *)

LEMMA AppendFacts ==
  ASSUME NEW T, NEW f \in Seq(T), NEW c \in T
  PROVE  /\ Append(f, c) \in Seq(T)
         /\ Len(f) \in Nat
         /\ Len(Append(f, c)) = Len(f) + 1
         /\ \A k \in 1 .. Len(f) : Append(f, c)[k] = f[k]
         /\ Append(f, c)[Len(f) + 1] = c
  OBVIOUS

LEMMA TailFacts ==
  ASSUME NEW T, NEW f \in Seq(T), f # << >>
  PROVE  /\ Tail(f) \in Seq(T)
         /\ Len(f) \in Nat /\ Len(f) > 0
         /\ Len(Tail(f)) = Len(f) - 1
         /\ Head(f) = f[1] /\ f[1] \in T
         /\ \A k \in 1 .. Len(f) - 1 : Tail(f)[k] = f[k + 1] /\ k + 1 \in 1 .. Len(f)
         /\ \A k \in 2 .. Len(f) : k - 1 \in 1 .. Len(f) - 1 /\ Tail(f)[k - 1] = f[k]
  OBVIOUS

(* What a queued command can be.                                            *)
LEMMA CommandFacts ==
  ASSUME StreamTypes, NEW k \in 1 .. Len(fifo)
  PROVE  /\ fifo[k] \in Commands
         /\ fifo[k].op = "signal" => fifo[k].arg \in Indices
         /\ fifo[k].op = "ref" => fifo[k].arg \in 0 .. MaxRef
         /\ fifo[k].op \in {"signal", "ref"}
  <1>1. fifo[k] \in Commands
    BY DEF StreamTypes
  <1> QED BY <1>1 DEF Commands

LEMMA PendingAfterAppend ==
  ASSUME StreamTypes, NEW c \in Commands, NEW i
  PROVE  Pending(Append(fifo, c), i) =
           Pending(fifo, i) \cup (IF c.op = "signal" /\ c.arg = i THEN {Len(fifo) + 1} ELSE {})
  <1> DEFINE next == Append(fifo, c)
  <1>1. /\ Len(fifo) \in Nat /\ Len(next) = Len(fifo) + 1
        /\ \A k \in 1 .. Len(fifo) : next[k] = fifo[k]
        /\ next[Len(fifo) + 1] = c
    BY AppendFacts DEF StreamTypes
  <1> HIDE DEF next
  <1>2. Pending(next, i) =
          Pending(fifo, i) \cup (IF c.op = "signal" /\ c.arg = i THEN {Len(fifo) + 1} ELSE {})
    BY <1>1 DEF Pending
  <1> QED BY <1>2 DEF next

(* What is left to signal a semaphore when the GPU has executed a command.  *)
LEMMA PendingAfterTail ==
  ASSUME StreamTypes, fifo # << >>, NEW i
  PROVE  /\ \A k \in Pending(Tail(fifo), i) : k + 1 \in Pending(fifo, i) /\ k \in Nat /\ k > 0
         /\ fifo[1].op = "signal" /\ fifo[1].arg = i => 1 \in Pending(fifo, i)
  <1> DEFINE next == Tail(fifo)
  <1>1. /\ Len(fifo) \in Nat /\ Len(fifo) > 0 /\ Len(next) = Len(fifo) - 1
        /\ \A k \in 1 .. Len(fifo) - 1 : next[k] = fifo[k + 1] /\ k + 1 \in 1 .. Len(fifo)
    BY TailFacts DEF StreamTypes
  <1> HIDE DEF next
  <1>2. \A k \in Pending(next, i) : k + 1 \in Pending(fifo, i) /\ k \in Nat /\ k > 0
    BY <1>1 DEF Pending
  <1>3. fifo[1].op = "signal" /\ fifo[1].arg = i => 1 \in Pending(fifo, i)
    BY <1>1 DEF Pending
  <1> QED BY <1>2, <1>3 DEF next

-----------------------------------------------------------------------------
(* The steps.                                                               *)

LEMMA StateInit == Init => StateInv
  <1> SUFFICES ASSUME Init
               PROVE  StateInv
    OBVIOUS
  <1> USE SyncObjectsAssumption DEF Init
  <1>1. ObjectTypes
    BY DEF ObjectTypes
  <1>2. Ownership
    BY DEF Ownership
  <1>3. StreamTypes
    BY DEF StreamTypes
  <1>4. SignaledOnce /\ ReferencesAscend
    BY DEF SignaledOnce, ReferencesAscend, NoCall
  <1> QED BY <1>1, <1>2, <1>3, <1>4 DEF StateInv

(* A new fence: its label is unsignaled, and signaled by one command unless *)
(* a deleted fence has left one.                                            *)
LEMMA FenceSyncStep ==
  ASSUME NameBound <= NameSpan, NEW C, NP!QueueGrowthFits(C), NamesInv(C), StateInv,
         NEW f \in Fences, NEW slot \in 0 .. NameBound - 1, FenceSync(f, slot)
  PROVE  StateInv'
  <1> DEFINE i == IndexOf(slot)
  <1>1. /\ slot \notin named /\ named' = named \cup {slot} /\ created' = {}
        /\ i \in Indices /\ NameOfIndex(i) = slot
    BY FreshSemaphore DEF StateInv, Ownership, FenceSync
  <1>2. /\ f \notin objects /\ f \notin handles /\ i # NoIndex
        /\ objects' = objects \cup {f} /\ handles' = handles \cup {f}
        /\ index' = [index EXCEPT ![f] = i]
        /\ status' = [status EXCEPT ![f] = FALSE]
        /\ label' = [label EXCEPT ![i] = FALSE]
        /\ fifo' = Append(fifo, Signal(f, i))
        /\ inherited' = IF PendingSignals(i) = {} THEN inherited \ {f} ELSE inherited \cup {f}
        /\ UNCHANGED <<put, ref, reference, call>>
        /\ call = NoCall
    BY DEF FenceSync, NextObject, Unsignaled, StateInv, ObjectTypes
  <1>3. /\ ObjectTypes /\ Ownership /\ StreamTypes /\ SignaledOnce /\ ReferencesAscend
    BY DEF StateInv
  <1> HIDE DEF i
  <1>4. \A g \in handles : index[g] # i /\ index'[g] = index[g] /\ status'[g] = status[g]
    <2>1. \A g \in handles : g \in Fences /\ g # f /\ NameOfIndex(index[g]) \in named
      BY <1>2, <1>3 DEF ObjectTypes, Ownership
    <2> QED BY <1>1, <1>2, <1>3, <2>1 DEF ObjectTypes
  <1>5. index'[f] = i /\ ~status'[f] /\ ~label'[i] /\ f \in Fences
    BY <1>1, <1>2, <1>3 DEF ObjectTypes
  <1>6. ObjectTypes'
    BY <1>1, <1>2, <1>3 DEF ObjectTypes
  <1>7. Ownership'
    <2>1. \A g \in handles' : index'[g] # NoIndex /\ NameOfIndex(index'[g]) \in named' \ {0}
      BY <1>1, <1>2, <1>3, <1>4, <1>5 DEF Ownership
    <2>2. \A g, h \in handles' : index'[g] = index'[h] => g = h
      <3>1. \A g, h \in handles : index'[g] = index'[h] => g = h
        BY <1>3, <1>4 DEF Ownership
      <3>2. \A g \in handles : index'[g] # i
        BY <1>4
      <3> QED BY <1>2, <1>5, <3>1, <3>2
    <2>3. \A n \in named' \ {0} :
            IndexOf(n) = NoIndex \/ \E g \in handles' : index'[g] = IndexOf(n)
      BY <1>1, <1>2, <1>3, <1>4, <1>5 DEF Ownership, i
    <2> QED BY <1>1, <1>3, <2>1, <2>2, <2>3 DEF Ownership
  <1>8. Signal(f, i) \in Commands /\ Signal(f, i).op = "signal" /\ Signal(f, i).arg = i
    BY <1>1 DEF Signal, Commands
  <1>9. /\ fifo' \in Seq(Commands) /\ Len(fifo) \in Nat /\ Len(fifo') = Len(fifo) + 1
        /\ \A k \in 1 .. Len(fifo) : fifo'[k] = fifo[k]
        /\ fifo'[Len(fifo) + 1] = Signal(f, i)
    BY <1>2, <1>3, <1>8, AppendFacts DEF StreamTypes
  <1>10. StreamTypes'
    BY <1>2, <1>3, <1>9 DEF StreamTypes
  <1>11. SignaledOnce'
    <2> SUFFICES ASSUME NEW g \in handles', g \notin inherited'
                 PROVE  /\ \A k, l \in Pending(fifo', index'[g]) : k = l
                        /\ Pending(fifo', index'[g]) # {} => ~IsSignaled(g)'
      BY DEF SignaledOnce
    <2>1. CASE g = f
      <3>1. Pending(fifo, i) = {}
        BY <1>2, <2>1 DEF PendingSignals, Pending
      <3>2. Pending(fifo', i) = {Len(fifo) + 1}
        BY <1>2, <1>3, <1>8, <3>1, PendingAfterAppend
      <3> QED BY <1>5, <2>1, <3>2 DEF IsSignaled
    <2>2. CASE g # f
      <3>1. g \in handles \ inherited /\ index'[g] = index[g] /\ index[g] # i
        BY <1>2, <1>4, <2>2
      <3>2. Pending(fifo', index[g]) = Pending(fifo, index[g])
        BY <1>2, <1>3, <1>8, <3>1, PendingAfterAppend
      <3>3. IsSignaled(g)' = IsSignaled(g)
        BY <1>2, <1>3, <1>4, <3>1 DEF IsSignaled, ObjectTypes
      <3> QED BY <1>3, <3>1, <3>2, <3>3 DEF SignaledOnce
    <2> QED BY <2>1, <2>2
  <1>12. ReferencesAscend'
    BY <1>2, <1>3, <1>8, <1>9 DEF ReferencesAscend, NoCall
  <1> QED BY <1>6, <1>7, <1>10, <1>11, <1>12 DEF StateInv


(* An object that gets no semaphore is nobody's.                            *)
LEMMA StrayStep ==
  ASSUME NameBound <= NameSpan, NEW C, NP!QueueGrowthFits(C), NamesInv(C), StateInv,
         NEW f \in Fences,
         \/ \E slot \in 0 .. NameBound - 1 : FenceSyncMistakes(f, slot)
         \/ FenceSyncFails(f)
  PROVE  StateInv'
  <1>1. /\ ObjectTypes /\ Ownership /\ StreamTypes /\ SignaledOnce /\ ReferencesAscend
    BY DEF StateInv
  <1>2. /\ f \notin objects /\ f \notin handles
        /\ objects' = objects \cup {f}
        /\ index' = [index EXCEPT ![f] = NoIndex]
        /\ status' = [status EXCEPT ![f] = FALSE]
        /\ UNCHANGED <<handles, label, fifo, put, ref, reference, call, inherited>>
    BY <1>1 DEF FenceSyncMistakes, FenceSyncFails, NextObject, ObjectTypes
  <1>3. /\ created' = {} /\ named \subseteq named'
        /\ \A n \in named' \ named : IndexOf(n) = NoIndex
    <2>1. CASE FenceSyncFails(f)
      BY <1>1, <2>1 DEF FenceSyncFails, nameVars, Ownership
    <2>2. CASE \E slot \in 0 .. NameBound - 1 : FenceSyncMistakes(f, slot)
      <3>1. PICK slot \in 0 .. NameBound - 1 : FenceSyncMistakes(f, slot)
        BY <2>2
      <3>2. named' = named \cup {slot} /\ created' = {}
        BY <1>1, <3>1, FreshSemaphore DEF FenceSyncMistakes, Ownership
      <3> QED BY <3>1, <3>2 DEF FenceSyncMistakes
    <2> QED BY <2>1, <2>2
  <1>4. \A g \in handles : index'[g] = index[g] /\ status'[g] = status[g]
    BY <1>1, <1>2 DEF ObjectTypes
  <1>5. ObjectTypes'
    BY <1>1, <1>2 DEF ObjectTypes
  <1>6. Ownership'
    BY <1>1, <1>2, <1>3, <1>4 DEF Ownership
  <1>7. StreamTypes' /\ ReferencesAscend'
    BY <1>1, <1>2 DEF StreamTypes, ReferencesAscend
  <1>8. SignaledOnce'
    <2> SUFFICES ASSUME NEW g \in handles', g \notin inherited'
                 PROVE  /\ \A k, l \in Pending(fifo', index'[g]) : k = l
                        /\ Pending(fifo', index'[g]) # {} => ~IsSignaled(g)'
      BY DEF SignaledOnce
    <2>1. g \in handles \ inherited
      BY <1>2
    <2>2. Pending(fifo', index'[g]) = Pending(fifo, index[g])
      BY <1>2, <1>4, <2>1
    <2>3. IsSignaled(g)' = IsSignaled(g)
      BY <1>2, <1>4, <2>1 DEF IsSignaled
    <2> QED BY <1>1, <2>1, <2>2, <2>3 DEF SignaledOnce
  <1> QED BY <1>5, <1>6, <1>7, <1>8 DEF StateInv

(* A deleted fence's semaphore is nobody's.                                 *)
LEMMA DeleteSyncStep ==
  ASSUME NameBound <= NameSpan, NEW C, NP!QueueGrowthFits(C), NamesInv(C), StateInv,
         NEW f \in Fences, DeleteSync(f)
  PROVE  StateInv'
  <1>1. /\ ObjectTypes /\ Ownership /\ StreamTypes /\ SignaledOnce /\ ReferencesAscend
    BY DEF StateInv
  <1> DEFINE n == NameOfIndex(index[f])
  <1>2. /\ f \in handles /\ Names!DestroyName(n) /\ call = NoCall
        /\ objects' = objects \ {f} /\ handles' = handles \ {f}
        /\ UNCHANGED <<index, status, label, fifo, put, ref, reference, call, inherited>>
    BY DEF DeleteSync
  <1>3. named' = named \ {n} /\ created' = {} /\ n # 0
    BY <1>1, <1>2, FreedSemaphore DEF Ownership
  <1>4. \A g \in handles' : g # f /\ g \in handles /\ g \in Fences
    BY <1>1, <1>2 DEF ObjectTypes
  <1>5. \A g \in handles' : NameOfIndex(index[g]) # n
    <2>1. \A g \in handles : index[g] \in Indices
      BY <1>1 DEF ObjectTypes, Ownership
    <2> QED BY <1>1, <1>2, <1>4, <2>1, SyncObjectsAssumption
            DEF NameOfIndex, Indices, Ownership
  <1>6. ObjectTypes'
    BY <1>1, <1>2 DEF ObjectTypes
  <1>7. Ownership'
    <2>1. index[f] \in Indices
      BY <1>1, <1>2 DEF ObjectTypes, Ownership
    <2>2. IndexOf(n) = index[f]
      BY <2>1, SyncObjectsAssumption DEF IndexOf, NameOfIndex, Indices
    <2>3. \A m \in named' \ {0} : IndexOf(m) # index[f]
      <3>1. \A m \in named : m \in Int
        BY SyncObjectsAssumption
           DEF NamesInv, Names!TypeOK, Names!Names
      <3>2. \A m \in named' : m \in Int /\ m # n
        BY <1>3, <3>1
      <3> QED BY <2>1, <2>2, <3>2, SyncObjectsAssumption
              DEF IndexOf, NameOfIndex, Indices
    <2>4. \A m \in named' \ {0} :
            IndexOf(m) = NoIndex \/ \E g \in handles' : index'[g] = IndexOf(m)
      BY <1>1, <1>2, <1>3, <2>3 DEF Ownership
    <2> HIDE DEF n
    <2>5. \A g \in handles' : index'[g] # NoIndex /\ NameOfIndex(index'[g]) \in named' \ {0}
      BY <1>1, <1>2, <1>3, <1>4, <1>5 DEF Ownership
    <2>6. \A g, h \in handles' : index'[g] = index'[h] => g = h
      BY <1>1, <1>2, <1>4 DEF Ownership
    <2>7. 0 \in named'
      BY <1>1, <1>3 DEF Ownership
    <2> QED BY <1>3, <2>4, <2>5, <2>6, <2>7 DEF Ownership
  <1>8. StreamTypes' /\ ReferencesAscend'
    BY <1>1, <1>2 DEF StreamTypes, ReferencesAscend, NoCall
  <1>9. SignaledOnce'
    <2> SUFFICES ASSUME NEW g \in handles', g \notin inherited'
                 PROVE  /\ \A k, l \in Pending(fifo', index'[g]) : k = l
                        /\ Pending(fifo', index'[g]) # {} => ~IsSignaled(g)'
      BY DEF SignaledOnce
    <2>1. g \in handles \ inherited
      BY <1>2, <1>4
    <2>2. Pending(fifo', index'[g]) = Pending(fifo, index[g])
      BY <1>2
    <2>3. IsSignaled(g)' = IsSignaled(g)
      BY <1>2 DEF IsSignaled
    <2> QED BY <1>1, <2>1, <2>2, <2>3 DEF SignaledOnce
  <1> QED BY <1>6, <1>7, <1>8, <1>9 DEF StateInv

(* The CPU begins or ends to wait, or flushes.                              *)
WaitOrFlush ==
  \/ \E f \in Fences, flush \in BOOLEAN : ClientWaitSync(f, flush)
  \/ ConditionSatisfied
  \/ TimeoutExpired
  \/ Flush
  \/ FinishDone
  \/ FinishGivesUp

LEMMA WaitOrFlushStep ==
  ASSUME StateInv, WaitOrFlush
  PROVE  StateInv'
  <1>1. /\ ObjectTypes /\ Ownership /\ StreamTypes /\ SignaledOnce /\ ReferencesAscend
    BY DEF StateInv
  <1>2. UNCHANGED <<nameVars, objects, handles, index, label, fifo, ref, reference, inherited>>
    BY DEF WaitOrFlush, ClientWaitSync, ConditionSatisfied, TimeoutExpired, Flush,
       FinishDone, FinishGivesUp, objectVars
  <1>3. /\ put' = Len(fifo) \/ put' = put
        /\ call' = NoCall \/ (call'.op = "wait" /\ call'.arg \in handles)
    BY DEF WaitOrFlush, ClientWaitSync, ConditionSatisfied, TimeoutExpired, Flush,
       FinishDone, FinishGivesUp
  <1>4. \/ status' = status
        \/ /\ call.op = "wait" /\ label[index[call.arg]]
           /\ status' = [status EXCEPT ![call.arg] = TRUE]
    BY DEF WaitOrFlush, ClientWaitSync, ConditionSatisfied, TimeoutExpired, Flush,
       FinishDone, FinishGivesUp, objectVars
  <1>5. ObjectTypes'
    BY <1>1, <1>2, <1>4 DEF ObjectTypes
  <1>6. Ownership'
    BY <1>1, <1>2 DEF Ownership, nameVars
  <1>7. StreamTypes'
    <2>1. Len(fifo) \in Nat
      BY <1>1 DEF StreamTypes
    <2> QED BY <1>1, <1>2, <1>3, <2>1 DEF StreamTypes
  <1>8. ReferencesAscend'
    BY <1>1, <1>2, <1>3 DEF ReferencesAscend, NoCall
  <1>9. SignaledOnce'
    <2> SUFFICES ASSUME NEW g \in handles', g \notin inherited'
                 PROVE  /\ \A k, l \in Pending(fifo', index'[g]) : k = l
                        /\ Pending(fifo', index'[g]) # {} => ~IsSignaled(g)'
      BY DEF SignaledOnce
    <2>1. g \in handles \ inherited /\ g \in Fences
      BY <1>1, <1>2 DEF ObjectTypes
    <2>2. Pending(fifo', index'[g]) = Pending(fifo, index[g])
      BY <1>2
    <2>3. IsSignaled(g)' => IsSignaled(g)
      BY <1>1, <1>2, <1>4, <2>1 DEF IsSignaled, ObjectTypes
    <2> QED BY <1>1, <2>1, <2>2, <2>3 DEF SignaledOnce
  <1> QED BY <1>5, <1>6, <1>7, <1>8, <1>9 DEF StateInv

(* glFinish's value is larger than those before it.                         *)
LEMMA FinishStep ==
  ASSUME StateInv, Finish
  PROVE  StateInv'
  <1> DEFINE c == [op |-> "ref", arg |-> ref, fence |-> 0]
  <1>1. /\ ObjectTypes /\ Ownership /\ StreamTypes /\ SignaledOnce /\ ReferencesAscend
    BY DEF StateInv
  <1>2. /\ call = NoCall /\ ref < MaxRef /\ ref' = ref + 1
        /\ fifo' = Append(fifo, c) /\ put' = Len(fifo')
        /\ call' = [op |-> "finish", arg |-> ref]
        /\ UNCHANGED <<nameVars, objectVars, label, reference, inherited>>
    BY DEF Finish, NextRef
  <1>3. c \in Commands /\ c.op = "ref" /\ c.arg = ref /\ ref \in 0 .. MaxRef /\ ref \in Int
    BY <1>1 DEF StreamTypes, Commands
  <1> HIDE DEF c
  <1>4. /\ fifo' \in Seq(Commands) /\ Len(fifo) \in Nat /\ Len(fifo') = Len(fifo) + 1
        /\ \A k \in 1 .. Len(fifo) : fifo'[k] = fifo[k]
        /\ fifo'[Len(fifo) + 1] = c
    BY <1>1, <1>2, <1>3, AppendFacts DEF StreamTypes
  <1>5. ObjectTypes' /\ Ownership'
    BY <1>1, <1>2 DEF ObjectTypes, Ownership, nameVars, objectVars
  <1>6. StreamTypes'
    BY <1>1, <1>2, <1>3, <1>4, SyncObjectsAssumption DEF StreamTypes
  <1>7. SignaledOnce'
    <2> SUFFICES ASSUME NEW g \in handles', g \notin inherited'
                 PROVE  /\ \A k, l \in Pending(fifo', index'[g]) : k = l
                        /\ Pending(fifo', index'[g]) # {} => ~IsSignaled(g)'
      BY DEF SignaledOnce
    <2>1. g \in handles \ inherited
      BY <1>2 DEF objectVars
    <2>2. Pending(fifo', index[g]) = Pending(fifo, index[g])
      BY <1>1, <1>2, <1>3, PendingAfterAppend
    <2>3. IsSignaled(g)' = IsSignaled(g) /\ index' = index
      BY <1>2 DEF IsSignaled, objectVars
    <2> QED BY <1>1, <2>1, <2>2, <2>3 DEF SignaledOnce
  <1>8. ReferencesAscend'
    <2>1. \A k \in 1 .. Len(fifo) : fifo[k].op = "ref" => fifo[k].arg \in Int
      BY <1>1, CommandFacts
    <2>2. reference \in Int
      BY <1>1 DEF StreamTypes
    <2>3. reference' < ref' \/ reference' <= 0
      BY <1>1, <1>2, <1>3, <2>2 DEF ReferencesAscend
    <2>4. ASSUME NEW k \in 1 .. Len(fifo'), fifo'[k].op = "ref"
          PROVE  /\ fifo'[k].arg < ref'
                 /\ reference' < fifo'[k].arg \/ fifo'[k].arg = 0
                 /\ \A l \in 1 .. k - 1 : fifo'[l].op = "ref" => fifo'[l].arg < fifo'[k].arg
      <3>1. CASE k \in 1 .. Len(fifo)
        BY <1>1, <1>2, <1>3, <1>4, <2>1, <2>4, <3>1 DEF ReferencesAscend
      <3>2. CASE k = Len(fifo) + 1
        BY <1>1, <1>2, <1>3, <1>4, <2>2, <3>2 DEF ReferencesAscend
      <3> QED BY <1>4, <3>1, <3>2
    <2>5. fifo'[Len(fifo')].op = "ref" /\ fifo'[Len(fifo')].arg = call'.arg
      BY <1>2, <1>3, <1>4
    <2> QED BY <2>3, <2>4, <2>5 DEF ReferencesAscend
  <1> QED BY <1>5, <1>6, <1>7, <1>8 DEF StateInv

(* The GPU signals a label, or sets the register to the next value.         *)
LEMMA ExecuteStep ==
  ASSUME StateInv, Execute
  PROVE  StateInv'
  <1> DEFINE c == Head(fifo)
  <1>1. /\ ObjectTypes /\ Ownership /\ StreamTypes /\ SignaledOnce /\ ReferencesAscend
    BY DEF StateInv
  <1>2. /\ put > 0 /\ fifo' = Tail(fifo) /\ put' = put - 1
        /\ label' = IF c.op = "signal" THEN [label EXCEPT ![c.arg] = TRUE] ELSE label
        /\ reference' = IF c.op = "ref" THEN c.arg ELSE reference
        /\ UNCHANGED <<nameVars, objectVars, ref, call, inherited>>
    BY DEF Execute
  <1>3. fifo # << >>
    BY <1>1, <1>2 DEF StreamTypes
  <1>4. /\ fifo' \in Seq(Commands) /\ Len(fifo) \in Nat /\ Len(fifo) > 0
        /\ Len(fifo') = Len(fifo) - 1 /\ c = fifo[1]
        /\ \A k \in 1 .. Len(fifo) - 1 : fifo'[k] = fifo[k + 1] /\ k + 1 \in 1 .. Len(fifo)
    BY <1>1, <1>2, <1>3, TailFacts DEF StreamTypes
  <1>5. /\ c.op \in {"signal", "ref"}
        /\ c.op = "signal" => c.arg \in Indices
        /\ c.op = "ref" => c.arg \in 0 .. MaxRef
    BY <1>1, <1>4, CommandFacts
  <1> HIDE DEF c
  <1>6. ObjectTypes'
    BY <1>1, <1>2, <1>5 DEF ObjectTypes, objectVars
  <1>7. Ownership'
    BY <1>1, <1>2 DEF Ownership, nameVars, objectVars
  <1>8. StreamTypes'
    BY <1>1, <1>2, <1>4, <1>5, SyncObjectsAssumption DEF StreamTypes, objectVars
  <1>9. SignaledOnce'
    <2> SUFFICES ASSUME NEW g \in handles', g \notin inherited'
                 PROVE  /\ \A k, l \in Pending(fifo', index'[g]) : k = l
                        /\ Pending(fifo', index'[g]) # {} => ~IsSignaled(g)'
      BY DEF SignaledOnce
    <2>1. g \in handles \ inherited /\ index'[g] = index[g] /\ status'[g] = status[g]
      BY <1>2 DEF objectVars
    <2>2. /\ \A k, l \in Pending(fifo, index[g]) : k = l
          /\ Pending(fifo, index[g]) # {} => ~IsSignaled(g)
      BY <1>1, <2>1 DEF SignaledOnce
    <2>3. /\ \A k \in Pending(fifo', index[g]) : k + 1 \in Pending(fifo, index[g]) /\ k \in Nat
                                                 /\ k > 0
          /\ c.op = "signal" /\ c.arg = index[g] => 1 \in Pending(fifo, index[g])
      BY <1>1, <1>2, <1>3, <1>4, PendingAfterTail
    <2>4. \A k, l \in Pending(fifo', index'[g]) : k = l
      <3>1. ASSUME NEW k \in Pending(fifo', index[g]), NEW l \in Pending(fifo', index[g])
            PROVE  k = l
        <4>1. k + 1 = l + 1 /\ k \in Nat /\ l \in Nat
          BY <2>2, <2>3
        <4> QED BY <4>1
      <3> QED BY <2>1, <3>1
    <2>5. CASE c.op = "signal" /\ c.arg = index[g]
      <3>1. Pending(fifo', index[g]) = {}
        <4>1. SUFFICES ASSUME NEW k \in Pending(fifo', index[g])
                       PROVE  FALSE
          OBVIOUS
        <4>2. k + 1 = 1 /\ k \in Nat /\ k > 0
          BY <2>2, <2>3, <2>5
        <4> QED BY <4>2
      <3> QED BY <2>1, <2>4, <3>1
    <2>6. CASE ~(c.op = "signal" /\ c.arg = index[g])
      <3>1. label'[index[g]] = label[index[g]]
        <4>1. index[g] \in Indices /\ label \in [Indices -> BOOLEAN]
          BY <1>1, <2>1 DEF ObjectTypes, Ownership
        <4> QED BY <1>2, <1>5, <2>6, <4>1
      <3>2. IsSignaled(g)' = IsSignaled(g)
        BY <2>1, <3>1 DEF IsSignaled
      <3>3. Pending(fifo', index[g]) # {} => Pending(fifo, index[g]) # {}
        BY <2>3
      <3> QED BY <2>1, <2>2, <2>4, <3>2, <3>3
    <2> QED BY <2>5, <2>6
  <1>10. ReferencesAscend'
    <2>1. /\ \A k \in 1 .. Len(fifo) : fifo[k].op = "ref" => fifo[k].arg \in Int
          /\ reference \in Int /\ ref \in Int
      BY <1>1, CommandFacts DEF StreamTypes
    <2>2. \A k \in 1 .. Len(fifo) : fifo[k].op = "ref" =>
            /\ fifo[k].arg < ref
            /\ reference < fifo[k].arg \/ fifo[k].arg = 0
            /\ \A l \in 1 .. k - 1 : fifo[l].op = "ref" => fifo[l].arg < fifo[k].arg
      BY <1>1 DEF ReferencesAscend
    <2>3. reference' < ref' \/ reference' <= 0
      BY <1>1, <1>2, <1>4, <2>1, <2>2 DEF ReferencesAscend
    <2>4. ASSUME NEW k \in 1 .. Len(fifo'), fifo'[k].op = "ref"
          PROVE  /\ fifo'[k].arg < ref'
                 /\ reference' < fifo'[k].arg \/ fifo'[k].arg = 0
                 /\ \A l \in 1 .. k - 1 : fifo'[l].op = "ref" => fifo'[l].arg < fifo'[k].arg
      <3>1. /\ k \in Nat /\ k > 0 /\ k + 1 \in 1 .. Len(fifo) /\ fifo'[k] = fifo[k + 1]
            /\ 1 \in 1 .. (k + 1) - 1
        BY <1>4
      <3>2. \A l \in 1 .. k - 1 : fifo'[l] = fifo[l + 1] /\ l + 1 \in 1 .. (k + 1) - 1
        <4>1. \A l \in 1 .. k - 1 : l \in 1 .. Len(fifo) - 1 /\ l + 1 \in 1 .. (k + 1) - 1
          BY <1>4, <2>4, <3>1
        <4> QED BY <1>4, <4>1
      <3>3. /\ fifo[k + 1].arg < ref
            /\ reference < fifo[k + 1].arg \/ fifo[k + 1].arg = 0
            /\ \A l \in 1 .. (k + 1) - 1 : fifo[l].op = "ref" => fifo[l].arg < fifo[k + 1].arg
        BY <2>2, <2>4, <3>1
      <3>4. reference' < fifo[k + 1].arg \/ fifo[k + 1].arg = 0
        BY <1>2, <1>4, <3>1, <3>3
      <3>5. \A l \in 1 .. k - 1 : fifo'[l].op = "ref" => fifo'[l].arg < fifo'[k].arg
        BY <3>1, <3>2, <3>3
      <3> QED BY <1>2, <3>1, <3>3, <3>4, <3>5
    <2>5. ASSUME call'.op = "finish", fifo' # << >>
          PROVE  fifo'[Len(fifo')].op = "ref" /\ fifo'[Len(fifo')].arg = call'.arg
      <3>1. Len(fifo) - 1 \in 1 .. Len(fifo) - 1
        BY <1>4, <2>5
      <3>2. fifo'[Len(fifo')] = fifo[Len(fifo)]
        BY <1>4, <3>1
      <3> QED BY <1>1, <1>2, <1>3, <2>5, <3>2 DEF ReferencesAscend
    <2> QED BY <2>3, <2>4, <2>5 DEF ReferencesAscend
  <1> QED BY <1>6, <1>7, <1>8, <1>9, <1>10 DEF StateInv


-----------------------------------------------------------------------------

(* While the names of semaphores can all be given back (C bounds how many   *)
(* there are), whatever order fences are made, waited for and deleted in.   *)
THEOREM SyncObjectsInvariant ==
  ASSUME NameBound <= NameSpan, NEW C, NP!QueueGrowthFits(C)
  PROVE  Spec => [](NamesInv(C) /\ StateInv)
  <1>1. Init => NamesInv(C) /\ StateInv
    BY NamesInit, StateInit
  <1>2. NamesInv(C) /\ StateInv /\ [Next]_vars => NamesInv(C)' /\ StateInv'
    <2> SUFFICES ASSUME NamesInv(C), StateInv, [Next]_vars
                 PROVE  NamesInv(C)' /\ StateInv'
      OBVIOUS
    <2>1. ASSUME NEW f \in Fences, NEW slot \in 0 .. NameBound - 1, FenceSync(f, slot)
          PROVE  NamesInv(C)' /\ StateInv'
      BY <2>1, FenceSyncStep, FreshSemaphore DEF FenceSync, StateInv, Ownership
    <2>2. ASSUME NEW f \in Fences, NEW slot \in 0 .. NameBound - 1, FenceSyncMistakes(f, slot)
          PROVE  NamesInv(C)' /\ StateInv'
      BY <2>2, StrayStep, FreshSemaphore DEF FenceSyncMistakes, StateInv, Ownership
    <2>3. ASSUME NEW f \in Fences, FenceSyncFails(f)
          PROVE  NamesInv(C)' /\ StateInv'
      BY <2>3, StrayStep, NamesStep DEF FenceSyncFails
    <2>4. ASSUME NEW f \in Fences, DeleteSync(f)
          PROVE  NamesInv(C)' /\ StateInv'
      BY <2>4, DeleteSyncStep, FreedSemaphore DEF DeleteSync, StateInv, Ownership
    <2>5. CASE WaitOrFlush
      <3>1. UNCHANGED nameVars
        BY <2>5 DEF WaitOrFlush, ClientWaitSync, ConditionSatisfied, TimeoutExpired, Flush,
           FinishDone, FinishGivesUp
      <3> QED BY <2>5, <3>1, NamesStep, WaitOrFlushStep
    <2>6. CASE Finish
      BY <2>6, FinishStep, NamesStep DEF Finish
    <2>7. CASE Execute
      BY <2>7, ExecuteStep, NamesStep DEF Execute
    <2>8. CASE UNCHANGED vars
      <3>1. UNCHANGED <<nameVars, objects, handles, index, status, label, fifo, put, ref,
                        reference, call, inherited>>
        BY <2>8 DEF vars, objectVars
      <3>2. NamesInv(C)'
        BY <3>1, NamesStep
      <3>3. ObjectTypes' /\ Ownership' /\ StreamTypes' /\ ReferencesAscend'
        BY <3>1 DEF StateInv, ObjectTypes, Ownership, StreamTypes, ReferencesAscend, nameVars
      <3>4. SignaledOnce'
        BY <3>1 DEF StateInv, SignaledOnce, IsSignaled
      <3> QED BY <3>2, <3>3, <3>4 DEF StateInv
    <2>9. Next => \/ \E f \in Fences, slot \in 0 .. NameBound - 1 :
                       FenceSync(f, slot) \/ FenceSyncMistakes(f, slot)
                  \/ \E f \in Fences : FenceSyncFails(f) \/ DeleteSync(f)
                  \/ WaitOrFlush \/ Finish \/ Execute
      BY DEF Next, WaitOrFlush
    <2> QED BY <2>1, <2>2, <2>3, <2>4, <2>5, <2>6, <2>7, <2>8, <2>9
  <1> QED BY <1>1, <1>2, PTL DEF Spec

(* A semaphore that is taken is one fence's: deleting a fence gives back    *)
(* its own and nobody else's, except for the index that is taken for none.  *)
THEOREM SyncObjectsOwned ==
  ASSUME NameBound <= NameSpan, NEW C, NP!QueueGrowthFits(C)
  PROVE  Spec => []SemaphoresOwned
  <1>1. NamesInv(C) /\ StateInv => SemaphoresOwned
    <2> SUFFICES ASSUME NamesInv(C), StateInv
                 PROVE  SemaphoresOwned
      OBVIOUS
    <2>1. TypeOK
      BY DEF NamesInv, StateInv, ObjectTypes, StreamTypes, TypeOK, NoCall
    <2> QED BY <2>1 DEF StateInv, Ownership, SemaphoresOwned
  <1> QED BY <1>1, SyncObjectsInvariant, PTL

(* A label that shows the token means that the GPU has executed the fence's *)
(* command, and so everything before it, although all tokens are the same.  *)
THEOREM SyncObjectsComplete ==
  ASSUME NameBound <= NameSpan, NEW C, NP!QueueGrowthFits(C)
  PROVE  Spec => []SignaledIsComplete
  <1>1. StateInv => SignaledIsComplete
    <2> SUFFICES ASSUME StateInv, NEW f \in handles \ inherited, IsSignaled(f), InFlight(f)
                 PROVE  FALSE
      BY DEF SignaledIsComplete
    <2>1. Pending(fifo, index[f]) # {}
      BY DEF InFlight, Pending
    <2> QED BY <2>1 DEF StateInv, SignaledOnce
  <1> QED BY <1>1, SyncObjectsInvariant, PTL

(* No other fence's creation makes a label unsignaled again.                *)
THEOREM SyncObjectsStay ==
  ASSUME NameBound <= NameSpan, NEW C, NP!QueueGrowthFits(C)
  PROVE  Spec => StaysSignaled
  <1> DEFINE Stays == \A f \in handles : IsSignaled(f) /\ f \in handles' => IsSignaled(f)'
  <1>1. NamesInv(C) /\ StateInv /\ [Next]_vars => [Stays]_vars
    <2> SUFFICES ASSUME NamesInv(C), StateInv, Next, NEW f \in handles, IsSignaled(f),
                        f \in handles'
                 PROVE  IsSignaled(f)'
      OBVIOUS
    <2>1. /\ ObjectTypes /\ Ownership /\ StreamTypes
          /\ f \in objects /\ f \in Fences /\ index[f] \in Indices
      BY DEF StateInv, ObjectTypes, Ownership
    <2>2. ASSUME NEW g \in Fences, NEW slot \in 0 .. NameBound - 1, FenceSync(g, slot)
          PROVE  IsSignaled(f)'
      <3>1. /\ slot \notin named /\ IndexOf(slot) \in Indices /\ NameOfIndex(IndexOf(slot)) = slot
        BY <2>1, <2>2, FreshSemaphore DEF FenceSync, Ownership
      <3>2. index[f] # IndexOf(slot)
        BY <2>1, <3>1 DEF Ownership
      <3>3. /\ g # f
            /\ index' = [index EXCEPT ![g] = IndexOf(slot)]
            /\ status' = [status EXCEPT ![g] = FALSE]
            /\ label' = [label EXCEPT ![IndexOf(slot)] = FALSE]
        BY <2>1, <2>2 DEF FenceSync, NextObject, Unsignaled
      <3> QED BY <2>1, <3>2, <3>3 DEF IsSignaled, ObjectTypes
    <2>3. ASSUME NEW g \in Fences,
                 \/ \E slot \in 0 .. NameBound - 1 : FenceSyncMistakes(g, slot)
                 \/ FenceSyncFails(g)
          PROVE  IsSignaled(f)'
      <3>1. /\ g # f /\ label' = label
            /\ index' = [index EXCEPT ![g] = NoIndex]
            /\ status' = [status EXCEPT ![g] = FALSE]
        BY <2>1, <2>3 DEF FenceSyncMistakes, FenceSyncFails, NextObject
      <3> QED BY <2>1, <3>1 DEF IsSignaled, ObjectTypes
    <2>4. ASSUME NEW g \in Fences, DeleteSync(g)
          PROVE  IsSignaled(f)'
      BY <2>4 DEF DeleteSync, IsSignaled
    <2>5. CASE WaitOrFlush
      <3>1. /\ UNCHANGED <<index, label>>
            /\ \/ status' = status
               \/ status' = [status EXCEPT ![call.arg] = TRUE]
        BY <2>5 DEF WaitOrFlush, ClientWaitSync, ConditionSatisfied, TimeoutExpired, Flush,
           FinishDone, FinishGivesUp, objectVars
      <3> QED BY <2>1, <3>1 DEF IsSignaled, ObjectTypes
    <2>6. CASE Finish
      BY <2>6 DEF Finish, IsSignaled, objectVars
    <2>7. CASE Execute
      <3>1. /\ UNCHANGED <<index, status>>
            /\ \/ label' = label
               \/ label' = [label EXCEPT ![Head(fifo).arg] = TRUE]
        BY <2>7 DEF Execute, objectVars
      <3> QED BY <2>1, <3>1 DEF IsSignaled, ObjectTypes
    <2>8. Next => \/ \E g \in Fences, slot \in 0 .. NameBound - 1 :
                       FenceSync(g, slot) \/ FenceSyncMistakes(g, slot)
                  \/ \E g \in Fences : FenceSyncFails(g) \/ DeleteSync(g)
                  \/ WaitOrFlush \/ Finish \/ Execute
      BY DEF Next, WaitOrFlush
    <2> QED BY <2>2, <2>3, <2>4, <2>5, <2>6, <2>7, <2>8
  <1> QED BY <1>1, SyncObjectsInvariant, PTL DEF Spec, StaysSignaled

(* The value glFinish waits for, unless it is 0, is not in the register     *)
(* before the GPU has executed the last command.                            *)
THEOREM SyncObjectsFinish ==
  ASSUME NameBound <= NameSpan, NEW C, NP!QueueGrowthFits(C)
  PROVE  Spec => FinishDrains
  <1> DEFINE Drains == FinishDone /\ call.arg > 0 => fifo = << >>
  <1>1. StateInv => [Drains]_vars
    <2> SUFFICES ASSUME StateInv, FinishDone, call.arg > 0, fifo # << >>
                 PROVE  FALSE
      OBVIOUS
    <2>1. /\ fifo \in Seq(Commands) /\ reference \in Int
          /\ call.op = "finish" /\ reference = call.arg
      BY DEF StateInv, StreamTypes, FinishDone
    <2>2. Len(fifo) \in 1 .. Len(fifo)
      BY <2>1
    <2>3. fifo[Len(fifo)].op = "ref" /\ fifo[Len(fifo)].arg = call.arg
      BY <2>1 DEF StateInv, ReferencesAscend
    <2>4. reference < call.arg \/ call.arg = 0
      BY <2>2, <2>3 DEF StateInv, ReferencesAscend
    <2> QED BY <2>1, <2>4
  <1> QED BY <1>1, SyncObjectsInvariant, PTL DEF FinishDrains
=============================================================================
