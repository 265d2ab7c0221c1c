----------------------------- MODULE SyncObjects ----------------------------
(***************************************************************************)
(* Fences, glFinish and the semaphores behind them (sync.cc, sync.h).      *)
(*                                                                         *)
(* A fence owns one of the GPU's semaphores (labels), which the CPU sets   *)
(* to "unsignaled" and a command behind everything emitted so far sets to  *)
(* the fence's token.  The tokens of all fences are 0: rsxgl_sync_token    *)
(* masks with 1 << 23 where it should with (1 << 23) - 1.  So a label only *)
(* tells signaled from unsignaled, not which fence signaled it.            *)
(*                                                                         *)
(* The labels are the names of a finite NameSpace, plus IndexBase.  The    *)
(* context has taken the first one for its timestamps.                     *)
(***************************************************************************)
EXTENDS Integers, Sequences, FiniteSets

CONSTANTS
  MaxNames,    \* RSXGL_MAX_SYNC_OBJECTS, which also stands for no index
  IndexBase,   \* 64: the first label that is not libgcm's own
  Positions, NameSpan, NameBound,  \* as in NameSpace
  MaxFences,   \* bound of the model: the sync objects of the storage
  MaxRef,      \* bound of the model: calls of glFinish
  FifoBound    \* bound of the model: the most commands not yet executed

ASSUME SyncObjectsAssumption ==
  /\ MaxNames \in Nat \ {0}
  /\ IndexBase \in Nat
  /\ Positions \in Nat \ {0}
  /\ NameSpan \in Nat
  /\ MaxNames <= NameSpan
  /\ Positions <= NameSpan
  /\ NameBound \in Nat
  /\ MaxFences \in Nat
  /\ MaxRef \in Nat
  /\ FifoBound \in Nat

Finite == TRUE
UserBit == FALSE

Fences == 1 .. MaxFences

NoIndex == MaxNames

Indices == IndexBase .. IndexBase + MaxNames - 1

VARIABLES
  capacity, named, created, queue, queueCap, count,  \* the semaphores' names
  objects,   \* the sync objects that are constructed
  handles,   \* those that glFenceSync has returned
  index,     \* of every sync object
  status,    \* of every sync object: seen to be signaled
  label,     \* of every index: TRUE if it shows the token
  fifo,      \* the commands not executed yet, oldest first
  put,       \* how many of them the GPU may fetch
  ref,       \* the context's counter for glFinish
  reference, \* the GPU's reference register; -1: what no call waits for
  call,      \* what the CPU is inside of
  inherited  \* not in the code: the fences whose label a command emitted
             \* for a deleted one was still going to signal

nameVars == <<capacity, named, created, queue, queueCap, count>>
objectVars == <<objects, handles, index, status>>
vars == <<nameVars, objectVars, label, fifo, put, ref, reference, call, inherited>>

Names == INSTANCE NameSpace

NoCall == [op |-> "none", arg |-> 0]

-----------------------------------------------------------------------------

(* What labels and reference register hold before anybody wrote them is the *)
(* system's business.                                                       *)
Init ==
  /\ capacity = Positions
  /\ named = {0}
  /\ created = {}
  /\ queue = << >>
  /\ queueCap = 0
  /\ count = 1
  /\ objects = {}
  /\ handles = {}
  /\ index = [f \in Fences |-> NoIndex]
  /\ status = [f \in Fences |-> FALSE]
  /\ label = [i \in Indices |-> TRUE]
  /\ fifo = << >>
  /\ put = 0
  /\ ref = 0
  /\ reference \in {-1, 0}
  /\ call = NoCall
  /\ inherited = {}

(* rsxgl_sync_object_allocate got slot for name.                            *)
IndexOf(slot) == slot + IndexBase

(* Mutation: gives back the name of the index's number.                     *)
NameOfIndexUnbased(i) == i

(* The name that rsxgl_sync_object_free gives back.                         *)
NameOfIndex(i) == i - IndexBase

(* The object that the storage constructs next.                             *)
NextObject(f) == f \in Fences \ objects /\ \A g \in 1 .. f - 1 : g \in objects

PendingSignals(i) == {k \in 1 .. Len(fifo) : fifo[k].op = "signal" /\ fifo[k].arg = i}

(* Mutation: does not touch the label.                                      *)
UnsignaledNever(i) == label

(* rsxgl_sync_cpu_signal with the unsignaled token.                         *)
Unsignaled(i) == [label EXCEPT ![i] = FALSE]

(* Mutation: emitted before the object's index is assigned.                 *)
SignalStale(f, i) == [op |-> "signal", arg |-> index[f], fence |-> f]

(* The command of rsxgl_emit_sync_gpu_signal_read.                          *)
Signal(f, i) == [op |-> "signal", arg |-> i, fence |-> f]

(* glFenceSync with slot for semaphore.                                     *)
FenceSync(f, slot) ==
  LET i == IndexOf(slot) IN
  /\ call = NoCall
  /\ Len(fifo) < FifoBound
  /\ NextObject(f)
  /\ Names!CreateName(slot)
  /\ i # NoIndex
  /\ objects' = objects \cup {f}
  /\ handles' = handles \cup {f}
  /\ index' = [index EXCEPT ![f] = i]
  /\ status' = [status EXCEPT ![f] = FALSE]
  /\ label' = Unsignaled(i)
  /\ fifo' = Append(fifo, Signal(f, i))
  /\ inherited' = IF PendingSignals(i) = {} THEN inherited \ {f} ELSE inherited \cup {f}
  /\ UNCHANGED <<put, ref, reference, call>>

(* glFenceSync that takes an index for "no index": object and semaphore     *)
(* stay taken, nobody knows them.                                           *)
FenceSyncMistakes(f, slot) ==
  /\ call = NoCall
  /\ NextObject(f)
  /\ Names!CreateName(slot)
  /\ IndexOf(slot) = NoIndex
  /\ objects' = objects \cup {f}
  /\ index' = [index EXCEPT ![f] = NoIndex]
  /\ status' = [status EXCEPT ![f] = FALSE]
  /\ UNCHANGED <<handles, label, fifo, put, ref, reference, call, inherited>>

(* glFenceSync when all semaphores are taken: the object stays, too.        *)
FenceSyncFails(f) ==
  /\ call = NoCall
  /\ NextObject(f)
  /\ Names!IsFull
  /\ objects' = objects \cup {f}
  /\ index' = [index EXCEPT ![f] = NoIndex]
  /\ status' = [status EXCEPT ![f] = FALSE]
  /\ UNCHANGED <<nameVars, handles, label, fifo, put, ref, reference, call, inherited>>

(* Mutation: the handle stays valid.                                        *)
DeleteSyncKeeps(f) ==
  /\ call = NoCall
  /\ f \in handles
  /\ Names!DestroyName(NameOfIndex(index[f]))
  /\ UNCHANGED <<objectVars, label, fifo, put, ref, reference, call, inherited>>

(* glDeleteSync: the semaphore is free at once, whether or not the GPU has  *)
(* still to signal it.                                                      *)
DeleteSync(f) ==
  /\ call = NoCall
  /\ f \in handles
  /\ Names!DestroyName(NameOfIndex(index[f]))
  /\ objects' = objects \ {f}
  /\ handles' = handles \ {f}
  /\ UNCHANGED <<index, status, label, fifo, put, ref, reference, call, inherited>>

(* glClientWaitSync, maybe with GL_SYNC_FLUSH_COMMANDS_BIT; a fence already *)
(* seen to be signaled is not waited for.                                   *)
ClientWaitSync(f, flush) ==
  /\ call = NoCall
  /\ f \in handles
  /\ put' = IF flush THEN Len(fifo) ELSE put
  /\ call' = IF status[f] THEN NoCall ELSE [op |-> "wait", arg |-> f]
  /\ UNCHANGED <<nameVars, objectVars, label, fifo, ref, reference, inherited>>

(* rsxgl_sync_cpu_wait sees the token ...                                   *)
ConditionSatisfied ==
  /\ call.op = "wait"
  /\ label[index[call.arg]]
  /\ status' = [status EXCEPT ![call.arg] = TRUE]
  /\ call' = NoCall
  /\ UNCHANGED <<nameVars, objects, handles, index, label, fifo, put, ref,
                 reference, inherited>>

(* ... or its last look at the label is still in vain.                      *)
TimeoutExpired ==
  /\ call.op = "wait"
  /\ ~label[index[call.arg]]
  /\ call' = NoCall
  /\ UNCHANGED <<nameVars, objectVars, label, fifo, put, ref, reference, inherited>>

(* glFlush.                                                                 *)
Flush ==
  /\ call = NoCall
  /\ put' = Len(fifo)
  /\ UNCHANGED <<nameVars, objectVars, label, fifo, ref, reference, call, inherited>>

(* Mutation: counts with two bits and never uses 0.                         *)
NextRefNarrow(r) == IF r = 2 THEN 1 ELSE r + 1

NextRef(r) == r + 1

(* glFinish: a command that sets the reference register, and a flush.       *)
Finish ==
  /\ call = NoCall
  /\ Len(fifo) < FifoBound
  /\ ref < MaxRef
  /\ ref' = NextRef(ref)
  /\ fifo' = Append(fifo, [op |-> "ref", arg |-> ref, fence |-> 0])
  /\ put' = Len(fifo')
  /\ call' = [op |-> "finish", arg |-> ref]
  /\ UNCHANGED <<nameVars, objectVars, label, reference, inherited>>

(* The spin of glFinish ends with the register at what it waits for ...     *)
FinishDone ==
  /\ call.op = "finish"
  /\ reference = call.arg
  /\ call' = NoCall
  /\ UNCHANGED <<nameVars, objectVars, label, fifo, put, ref, reference, inherited>>

(* ... or after RSXGL_FINISH_SLEEP_ITERATIONS.                              *)
FinishGivesUp ==
  /\ call.op = "finish"
  /\ reference # call.arg
  /\ call' = NoCall
  /\ UNCHANGED <<nameVars, objectVars, label, fifo, put, ref, reference, inherited>>

(* The GPU executes its next command.                                       *)
Execute ==
  LET c == Head(fifo) IN
  /\ put > 0
  /\ fifo' = Tail(fifo)
  /\ put' = put - 1
  /\ label' = IF c.op = "signal" THEN [label EXCEPT ![c.arg] = TRUE] ELSE label
  /\ reference' = IF c.op = "ref" THEN c.arg ELSE reference
  /\ UNCHANGED <<nameVars, objectVars, ref, call, inherited>>

Next ==
  \/ \E f \in Fences :
       \/ \E slot \in 0 .. NameBound - 1 : FenceSync(f, slot) \/ FenceSyncMistakes(f, slot)
       \/ FenceSyncFails(f)
       \/ DeleteSync(f)
       \/ \E flush \in BOOLEAN : ClientWaitSync(f, flush)
  \/ ConditionSatisfied
  \/ TimeoutExpired
  \/ Flush
  \/ Finish
  \/ FinishDone
  \/ FinishGivesUp
  \/ Execute

Spec == Init /\ [][Next]_vars

FairSpec == Spec /\ WF_vars(Execute)

-----------------------------------------------------------------------------

TypeOK ==
  /\ Names!TypeOK
  /\ objects \subseteq Fences
  /\ handles \subseteq objects
  /\ index \in [Fences -> Indices \cup {NoIndex}]
  /\ status \in [Fences -> BOOLEAN]
  /\ label \in [Indices -> BOOLEAN]
  /\ put \in 0 .. Len(fifo)
  /\ ref \in 0 .. MaxRef
  /\ reference \in -1 .. MaxRef
  /\ call.op \in {"none", "wait", "finish"}

(* Every semaphore that is taken belongs to one fence the application       *)
(* holds, except the context's own and the one whose index is taken for     *)
(* "no index"; no two fences share one.                                     *)
SemaphoresOwned ==
  /\ TypeOK
  /\ \A f, g \in handles : index[f] = index[g] => f = g
  /\ \A f \in handles : NameOfIndex(index[f]) \in named \ {0}
  /\ \A n \in named \ {0} :
       IndexOf(n) = NoIndex \/ \E f \in handles : index[f] = IndexOf(n)

IsSignaled(f) == status[f] \/ label[index[f]]

(* The fence's own command is still to be executed.                         *)
InFlight(f) ==
  \E k \in 1 .. Len(fifo) :
    fifo[k].op = "signal" /\ fifo[k].fence = f /\ fifo[k].arg = index[f]

(* A fence is signaled only after everything before it was executed (the    *)
(* condition GL_SYNC_GPU_COMMANDS_COMPLETE), unless its semaphore was that  *)
(* of a fence deleted before the GPU got to it.                             *)
SignaledIsComplete ==
  \A f \in handles \ inherited : IsSignaled(f) => ~InFlight(f)

(* Once signaled, a fence stays so for as long as it exists.                *)
StaysSignaled ==
  [][\A f \in handles : IsSignaled(f) /\ f \in handles' => IsSignaled(f)']_vars

(* glFinish that has not given up leaves nothing to execute; the first one  *)
(* waits for 0, which the register may have shown all along.                *)
FinishDrains == [][FinishDone /\ call.arg > 0 => fifo = << >>]_vars

(* A fence the GPU may fetch gets signaled, if it is not deleted before.    *)
FlushedGetsSignaled ==
  \A f \in Fences :
    (f \in handles /\ put = Len(fifo)) ~> (f \in handles => IsSignaled(f))

=============================================================================
