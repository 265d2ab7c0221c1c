----------------------------- MODULE NameSpace -----------------------------
(***************************************************************************)
(* name_space<> (src/src/library/name_space.h): doles out integer names.   *)
(* A bitfield, grown one word at a time, holds for every name a "named"    *)
(* bit and optionally a user bit (here: created, the bit that              *)
(* gl_object_storage sets when it constructs the object).  Released names  *)
(* go to a circular buffer and are reissued first in, first out.           *)
(*                                                                         *)
(* The library instantiates it twice over:                                 *)
(*   Finite, no user bit       semaphore indices (sync.cc, MaxNames = 192) *)
(*                             and report indices (query.cc, 2048);        *)
(*   not Finite, one user bit  the names of every kind of GL object        *)
(*                             (gl_object_storage.h).                      *)
(* A behaviour of either is one of the template with both: of the first,   *)
(* one without SetUserBit, of the second, one that stays below MaxNames.   *)
(***************************************************************************)
EXTENDS Integers, Sequences, FiniteSets

CONSTANTS
  MaxNames,   \* the template parameter MaxNames
  Finite,     \* the template parameter Finite: count names, refuse at MaxNames
  UserBit,    \* TRUE: there is a user bit (UserBits = 1), FALSE: there is none
  Positions,  \* bitfield_type_positions, the names of one bitfield word
  NameSpan,   \* 2^w for the w bits of name_type: arithmetic on names wraps here
  NameBound   \* bound of the model: no slot at or above NameBound is taken

ASSUME NameSpaceAssumption ==
  /\ MaxNames \in Nat \ {0}
  /\ Finite \in BOOLEAN
  /\ UserBit \in BOOLEAN
  /\ Positions \in Nat \ {0}
  /\ NameSpan \in Nat \ {0}
  /\ NameBound \in Nat
  /\ MaxNames <= NameSpan
  /\ Positions <= NameSpan

VARIABLES
  capacity,   \* capacity(): the slots of the bitfield, a multiple of Positions
  named,      \* the names whose named bit is set
  created,    \* the names whose user bit is set
  queue,      \* m_name_queue, front first
  queueCap,   \* m_name_queue.capacity()
  count       \* m_count (stays 0 when the namespace is not Finite)

vars == <<capacity, named, created, queue, queueCap, count>>

-----------------------------------------------------------------------------

(* The names with any bit set: what destroy_name's mask and the scan of     *)
(* create_name look at.                                                     *)
Live == named \cup created

IsName(n) == n \in named

IsCreated(n) == n \in created

(* Mutation: counts one name too many.                                      *)
IsFullTooLate == Finite /\ count = MaxNames + 1

IsFull == Finite /\ count = MaxNames

(* The slots of the last word of the bitfield, the only ones create_name    *)
(* scans.                                                                   *)
LastWord == capacity - Positions .. capacity - 1

(* Mutation: the scan takes a slot of which only the user bit is set.       *)
IsFirstUnnamed(slot) ==
  /\ slot \in LastWord \cup {capacity}
  /\ slot \notin named
  /\ \A m \in LastWord : m < slot => m \in named

(* slot is the first one of the last word with no bit set, or the first     *)
(* slot of the word after it when there is none.                            *)
IsFirstClear(slot) ==
  /\ slot \in LastWord \cup {capacity}
  /\ slot \notin Live
  /\ \A m \in LastWord : m < slot => m \in Live

(* Mutation: the bitfield is scanned although a name waits in the queue.    *)
IsNextSlotQueueLast(slot) == IsFirstClear(slot)

(* The slot create_name takes, before it is stored in a name_type.          *)
IsNextSlot(slot) ==
  IF queue = << >> THEN IsFirstClear(slot) ELSE slot = Head(queue)

(* The conversion of a slot number to name_type.                            *)
NameOf(slot) == IF slot < NameSpan THEN slot ELSE slot - NameSpan

(* boost::circular_buffer::push_back: a buffer at its capacity overwrites   *)
(* its oldest elements.                                                     *)
PushBack(q, n, cap) ==
  LET r == Append(q, n)
  IN  IF Len(r) <= cap THEN r ELSE SubSeq(r, Len(r) - cap + 1, Len(r))

(* Mutation: grows by half, also from nothing.                              *)
GrownByHalf(len) == len + len \div 2

(* The capacity given to a full queue of this length; the sum is a          *)
(* name_type.                                                               *)
GrownCap(len) ==
  LET sum == len + (IF len \div 2 > 1 THEN len \div 2 ELSE 1)
  IN  IF sum < NameSpan THEN sum ELSE sum - NameSpan

-----------------------------------------------------------------------------

Init ==
  /\ capacity = Positions
  /\ named = {}
  /\ created = {}
  /\ queue = << >>
  /\ queueCap = 0
  /\ count = 0

(* create_name returning (name, true) with slot for name; when IsFull it    *)
(* returns (0, false) and changes nothing.                                  *)
CreateName(slot) ==
  LET name == NameOf(slot) IN
  /\ ~IsFull
  /\ IsNextSlot(slot)
  /\ slot < NameBound
  /\ queue' = IF queue = << >> THEN queue ELSE Tail(queue)
  /\ capacity' = IF name >= capacity THEN capacity + Positions ELSE capacity
  /\ named' = named \cup {name}
  /\ created' = created \ {name}
  /\ count' = IF Finite THEN count + 1 ELSE count
  /\ UNCHANGED queueCap

(* Mutation: does not look at the bits first.                               *)
DestroyNameAgain(n) ==
  LET cap == IF Len(queue) = queueCap THEN GrownCap(Len(queue)) ELSE queueCap
  IN
  /\ queue' = PushBack(queue, n, cap)
  /\ queueCap' = cap
  /\ named' = named \ {n}
  /\ created' = created \ {n}
  /\ count' = IF Finite THEN count - 1 ELSE count
  /\ UNCHANGED capacity

(* destroy_name(n); a name with no bit set is ignored.                      *)
DestroyName(n) ==
  LET cap == IF Len(queue) = queueCap THEN GrownCap(Len(queue)) ELSE queueCap
  IN
  /\ n \in Live
  /\ queue' = PushBack(queue, n, cap)
  /\ queueCap' = cap
  /\ named' = named \ {n}
  /\ created' = created \ {n}
  /\ count' = IF Finite THEN count - 1 ELSE count
  /\ UNCHANGED capacity

(* detach_name(n), which gl_object.h calls for constructed objects only:    *)
(* the user bit keeps the slot from being reissued.                         *)
DetachName(n) ==
  /\ n \in named \cap created
  /\ named' = named \ {n}
  /\ UNCHANGED <<capacity, created, queue, queueCap, count>>

(* set_user_bit<0>(n), called by create_object on a name not yet            *)
(* constructed.                                                             *)
SetUserBit(n) ==
  /\ UserBit
  /\ n \in named \ created
  /\ created' = created \cup {n}
  /\ UNCHANGED <<capacity, named, queue, queueCap, count>>

Next ==
  \/ \E slot \in 0 .. NameBound - 1 : CreateName(slot)
  \/ \E n \in 0 .. capacity - 1 :
       DestroyName(n) \/ DetachName(n) \/ SetUserBit(n)

Spec == Init /\ [][Next]_vars

-----------------------------------------------------------------------------

(* The values of a name_type that address a slot of the bitfield.           *)
Names == {n \in 0 .. capacity - 1 : n < NameSpan}

TypeOK ==
  /\ capacity \in Positions .. NameSpan + Positions - 1
  /\ named \in SUBSET Names
  /\ created \in SUBSET Names
  /\ queue \in Seq(Names)
  /\ queueCap \in Nat
  /\ count \in Int

(* The queue holds released names only, each of them once: a name that is   *)
(* in use, or detached with its object still alive, is never waiting to be  *)
(* given to somebody else (destroy_name's test of the mask before its       *)
(* push_back).                                                              *)
QueueIsFreeList ==
  \A i \in 1 .. Len(queue) :
    /\ queue[i] \notin Live
    /\ \A j \in 1 .. Len(queue) : queue[i] = queue[j] => i = j

(* No name is forgotten: since create_name scans the last word alone, every *)
(* slot of an earlier word is in use or waits in the queue, and so is every *)
(* slot of the last word below one that was ever taken.                     *)
Accounted(n) == n \in Live \/ \E i \in 1 .. Len(queue) : queue[i] = n

NoNameLost ==
  \A n \in 0 .. capacity - 1 :
    ~Accounted(n) => /\ n \in LastWord
                     /\ \A m \in n .. capacity - 1 : ~Accounted(m)

(* What an index taken from a finite namespace promises its callers         *)
(* (sync.cc, query.cc): it addresses one of the MaxNames hardware slots,    *)
(* and a refusal means that all of them are taken.                          *)
FiniteNamesInRange ==
  Finite => /\ Live \subseteq 0 .. MaxNames - 1
            /\ IsFull => Live = 0 .. MaxNames - 1

(* create_name never hands out a name that is in use, nor one that was      *)
(* detached while its object is still referenced.                           *)
FreshNames ==
  [][\A slot \in 0 .. NameBound - 1 :
       CreateName(slot) => NameOf(slot) \notin Live]_vars

(* The bitfield is grown only when there is nothing left to reuse.          *)
GrowOnlyWhenFull ==
  [][capacity' # capacity => Live = 0 .. capacity - 1]_vars

=============================================================================
