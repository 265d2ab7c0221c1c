-------------------------- MODULE TimestampsProofs --------------------------
(***************************************************************************)
(* For any number of objects, any MaxTimestamp and any length of the       *)
(* command stream.  Until the timestamps start over EpochInv is inductive, *)
(* so the CPU never holds an object the GPU has yet to use, and Timestamps *)
(* implements ObjectTurns.  Across that, too, the stamps stay behind the   *)
(* next timestamp.                                                         *)
(***************************************************************************)
EXTENDS Timestamps, SequenceTheorems, TLAPS

USE TimestampsAssumption

(* What a call's commands are, appended to the stream.                      *)
LEMMA CommandsFacts ==
  ASSUME NEW S \in SUBSET Objects, NEW ts \in Nat, NEW count \in Nat, ts > 0
  PROVE  /\ Commands(S, ts, count) \in Seq(Command)
         /\ Len(Commands(S, ts, count)) = count
         /\ \A i \in 1 .. count :
              /\ Commands(S, ts, count)[i].signal = ts + i - 1
              /\ Commands(S, ts, count)[i].uses = S
  <1>1. \A i \in 1 .. count : [signal |-> ts + i - 1, uses |-> S] \in Command
    BY DEF Command
  <1> QED BY <1>1 DEF Commands

IsAppended(g, f, S, ts, count) ==
  /\ g \in Seq(Command)
  /\ Len(g) = Len(f) + count
  /\ \A i \in 1 .. Len(f) : g[i] = f[i]
  /\ \A i \in Len(f) + 1 .. Len(f) + count :
       g[i].signal = ts + (i - Len(f)) - 1 /\ g[i].uses = S

LEMMA AppendedFacts ==
  ASSUME NEW f \in Seq(Command), NEW S \in SUBSET Objects,
         NEW ts \in Nat, NEW count \in Nat, ts > 0,
         NEW g, g = f \o Commands(S, ts, count)
  PROVE  IsAppended(g, f, S, ts, count)
  <1> DEFINE c == Commands(S, ts, count)
  <1>1. /\ c \in Seq(Command)
        /\ Len(c) = count
        /\ \A i \in 1 .. count : c[i].signal = ts + i - 1 /\ c[i].uses = S
    BY CommandsFacts
  <1>0. g = f \o c
    OBVIOUS
  <1> HIDE DEF c
  <1>2. /\ g \in Seq(Command)
        /\ Len(g) = Len(f) + count
    BY <1>0, <1>1
  <1>3. \A i \in 1 .. Len(f) : g[i] = f[i]
    BY <1>0, <1>1
  <1>4. ASSUME NEW i \in Len(f) + 1 .. Len(f) + count
        PROVE  g[i].signal = ts + (i - Len(f)) - 1 /\ g[i].uses = S
    <2>1. i - Len(f) \in 1 .. count /\ g[i] = c[i - Len(f)]
      BY <1>0, <1>1
    <2> QED BY <2>1, <1>1
  <1> QED BY <1>2, <1>3, <1>4 DEF IsAppended

LEMMA TailFacts ==
  ASSUME NEW f \in Seq(Command), f # << >>
  PROVE  /\ Tail(f) \in Seq(Command)
         /\ Len(f) > 0
         /\ Len(Tail(f)) = Len(f) - 1
         /\ Head(f) = f[1]
         /\ \A i \in 1 .. Len(f) - 1 : Tail(f)[i] = f[i + 1]
  OBVIOUS

-----------------------------------------------------------------------------

LEMMA EpochInit == Init => EpochInv
  BY DEF Init, EpochInv, TypeOK, SignalsInOrder, StampsCoverUses, Exclusive,
         InFlight, NoCall, Call, Command

(* A draw or a copy: the new commands carry on where the stream ended, and  *)
(* the stamp of what they use is the timestamp of the last of them.         *)
LEMMA UseKeepsInv ==
  ASSUME EpochInv,
         NEW S \in SUBSET Objects, NEW count \in 1 .. MaxCount, Use(S, count),
         UNCHANGED epoch
  PROVE  EpochInv'
  <1> DEFINE ts == next_timestamp
  <1>1. /\ ts \in Nat /\ ts > 0 /\ count \in Nat /\ count > 0
        /\ fifo \in Seq(Command) /\ Len(fifo) \in Nat
        /\ timestamp \in [Objects -> Nat]
    BY DEF EpochInv, TypeOK, SignalsInOrder
  <1>2. /\ fifo' = fifo \o Commands(S, ts, count)
        /\ timestamp' = Stamped(timestamp, S, ts + count - 1)
        /\ last_timestamp' = ts + count - 1
        /\ next_timestamp' = ts + count
        /\ UNCHANGED <<cached_timestamp, label, put, call>>
        /\ call.op = "none"
    BY DEF Use, Submit
  <1> HIDE DEF ts
  <1>3. /\ fifo' \in Seq(Command)
        /\ Len(fifo') = Len(fifo) + count
        /\ \A i \in 1 .. Len(fifo) : fifo'[i] = fifo[i]
        /\ \A i \in Len(fifo) + 1 .. Len(fifo) + count :
             fifo'[i].signal = ts + (i - Len(fifo)) - 1 /\ fifo'[i].uses = S
    <2>1. IsAppended(fifo', fifo, S, ts, count)
      BY <1>1, <1>2, AppendedFacts
    <2> QED BY <2>1 DEF IsAppended
  <1>4. TypeOK'
    BY <1>1, <1>2, <1>3 DEF EpochInv, TypeOK, Stamped
  <1>5. SignalsInOrder'
    <2>1. /\ ts = label + Len(fifo) + 1 /\ label \in Nat
          /\ \A i \in 1 .. Len(fifo) : fifo[i].signal = label + i
      BY DEF EpochInv, TypeOK, SignalsInOrder, ts
    <2>2. next_timestamp' = last_timestamp' + 1
          /\ last_timestamp' = label' + Len(fifo')
      BY <1>1, <1>2, <1>3, <2>1
    <2>3. ASSUME NEW i \in 1 .. Len(fifo')
          PROVE  fifo'[i].signal = label' + i
      <3>1. CASE i \in 1 .. Len(fifo)
        BY <1>2, <1>3, <2>1, <3>1
      <3>2. CASE i \in Len(fifo) + 1 .. Len(fifo) + count
        BY <1>1, <1>2, <1>3, <2>1, <3>2
      <3> QED BY <1>1, <1>3, <3>1, <3>2
    <2> QED BY <2>2, <2>3 DEF SignalsInOrder
  <1>6. StampsCoverUses'
    <2> SUFFICES ASSUME NEW i \in 1 .. Len(fifo'), NEW o \in fifo'[i].uses
                 PROVE  fifo'[i].signal <= timestamp'[o]
      BY DEF StampsCoverUses
    <2>0. o \in Objects
      <3>1. fifo'[i] \in Command
        BY <1>3
      <3> QED BY <3>1 DEF Command
    <2>1. fifo'[i].signal = label + i /\ label \in Nat /\ ts = label + Len(fifo) + 1
      BY <1>2, <1>5 DEF SignalsInOrder, EpochInv, TypeOK, ts
    <2>2. CASE o \in S
      <3>1. timestamp'[o] = ts + count - 1
        BY <1>2, <2>0, <2>2 DEF Stamped
      <3>2. i \in Nat /\ i <= Len(fifo) + count
        BY <1>1, <1>3
      <3>3. label + i <= ts + count - 1
        BY <1>1, <2>1, <3>2
      <3> QED BY <2>1, <3>1, <3>3
    <2>3. CASE o \notin S
      <3>1. i \in 1 .. Len(fifo) /\ fifo'[i] = fifo[i]
        <4>1. CASE i \in Len(fifo) + 1 .. Len(fifo) + count
          BY <1>3, <2>3, <4>1
        <4> QED BY <1>1, <1>3, <4>1
      <3> QED BY <1>2, <2>0, <2>3, <3>1 DEF Stamped, EpochInv, StampsCoverUses
    <2> QED BY <2>2, <2>3
  <1>7. Exclusive'
    BY <1>2 DEF Exclusive
  <1> QED BY <1>2, <1>4, <1>5, <1>6, <1>7 DEF EpochInv

(* The wait is over: the label has reached the stamp, so a command that is  *)
(* still in the stream writes a later timestamp and does not use the object.*)
LEMMA ReachedMeansIdle ==
  ASSUME EpochInv, NEW o \in Objects, Reached(timestamp[o])
  PROVE  ~InFlight(o)
  <1>1. timestamp[o] <= label
    BY DEF Reached, EpochInv, TypeOK
  <1> SUFFICES ASSUME NEW i \in 1 .. Len(fifo), o \in fifo[i].uses
               PROVE  FALSE
    BY DEF InFlight
  <1>2. fifo[i].signal = label + i /\ fifo[i].signal <= timestamp[o]
    BY DEF EpochInv, SignalsInOrder, StampsCoverUses
  <1> QED BY <1>1, <1>2 DEF EpochInv, TypeOK

LEMMA WaitOverKeepsInv ==
  ASSUME EpochInv, NEW o \in Objects, WaitOver(o), UNCHANGED epoch
  PROVE  EpochInv'
  <1>1. ~InFlight(o)
    BY ReachedMeansIdle DEF WaitOver
  <1>2. TypeOK'
    BY DEF EpochInv, TypeOK, WaitOver, CachedAfter, Call, counters, gpu
  <1>3. SignalsInOrder'
    BY DEF EpochInv, SignalsInOrder, WaitOver, counters, gpu
  <1>4. StampsCoverUses'
    BY <1>1 DEF EpochInv, TypeOK, StampsCoverUses, WaitOver, InFlight, counters, gpu
  <1>5. cached_timestamp' <= label'
    BY DEF EpochInv, TypeOK, WaitOver, CachedAfter, gpu
  <1>6. Exclusive'
    <2>1. call'.uses = {o} /\ fifo' = fifo
      BY DEF WaitOver, EpochInv, TypeOK, Call, gpu
    <2> QED BY <1>1, <2>1 DEF Exclusive, InFlight
  <1> QED BY <1>2, <1>3, <1>4, <1>5, <1>6 DEF EpochInv

LEMMA AccessAtOnceKeepsInv ==
  ASSUME EpochInv, NEW o \in Objects, AccessAtOnce(o), UNCHANGED epoch
  PROVE  EpochInv'
  <1>1. ~InFlight(o)
    BY ReachedMeansIdle DEF AccessAtOnce, Reached, EpochInv, TypeOK
  <1>2. TypeOK'
    BY DEF EpochInv, TypeOK, AccessAtOnce, Call, counters, gpu
  <1>3. SignalsInOrder' /\ StampsCoverUses' /\ cached_timestamp' <= label'
    BY DEF EpochInv, SignalsInOrder, StampsCoverUses, AccessAtOnce, counters, gpu
  <1>4. Exclusive'
    <2>1. call'.uses = {o} /\ fifo' = fifo
      BY DEF AccessAtOnce, gpu
    <2> QED BY <1>1, <2>1 DEF Exclusive, InFlight
  <1> QED BY <1>2, <1>3, <1>4 DEF EpochInv

LEMMA ExecuteKeepsInv ==
  ASSUME EpochInv, Execute, UNCHANGED epoch
  PROVE  EpochInv'
  <1>1. /\ fifo \in Seq(Command) /\ fifo # << >> /\ put \in 1 .. Len(fifo)
        /\ label \in Nat /\ last_timestamp = label + Len(fifo)
        /\ \A i \in 1 .. Len(fifo) : fifo[i].signal = label + i
    <2>1. /\ fifo \in Seq(Command) /\ put \in 0 .. Len(fifo) /\ put > 0
          /\ label \in Nat /\ last_timestamp = label + Len(fifo)
          /\ \A i \in 1 .. Len(fifo) : fifo[i].signal = label + i
      BY DEF EpochInv, TypeOK, SignalsInOrder, Execute
    <2>2. Len(fifo) \in Nat /\ (fifo = << >> => Len(fifo) = 0)
      BY <2>1
    <2> QED BY <2>1, <2>2
  <1>2. /\ fifo' \in Seq(Command) /\ Len(fifo') = Len(fifo) - 1
        /\ \A i \in 1 .. Len(fifo') : i + 1 \in 1 .. Len(fifo) /\ fifo'[i] = fifo[i + 1]
        /\ label' = label + 1
    BY <1>1, TailFacts DEF Execute
  <1>3. TypeOK'
    BY <1>1, <1>2 DEF EpochInv, TypeOK, Execute, counters
  <1>4. SignalsInOrder'
    <2>1. /\ next_timestamp' = last_timestamp' + 1
          /\ last_timestamp' = label' + Len(fifo')
      <3>1. next_timestamp' = next_timestamp /\ last_timestamp' = last_timestamp
        BY DEF Execute, counters
      <3>2. next_timestamp = last_timestamp + 1
        BY DEF EpochInv, SignalsInOrder
      <3>3. Len(fifo) \in Nat
        BY <1>1
      <3> QED BY <1>1, <1>2, <3>1, <3>2, <3>3
    <2>2. ASSUME NEW i \in 1 .. Len(fifo')
          PROVE  fifo'[i].signal = label' + i
      <3>1. i + 1 \in 1 .. Len(fifo) /\ fifo'[i] = fifo[i + 1]
        BY <1>2
      <3>2. fifo[i + 1].signal = label + (i + 1)
        BY <1>1, <3>1
      <3>3. i \in Nat /\ label \in Nat /\ label' = label + 1
        BY <1>1, <1>2
      <3>4. label + (i + 1) = label' + i
        BY <3>3
      <3> QED BY <3>1, <3>2, <3>4
    <2> QED BY <2>1, <2>2 DEF SignalsInOrder
  <1>5. StampsCoverUses'
    BY <1>2 DEF EpochInv, StampsCoverUses, Execute
  <1>6. cached_timestamp' <= label'
    BY <1>1, <1>2 DEF EpochInv, TypeOK, Execute
  <1>7. Exclusive'
    <2>1. ASSUME NEW o \in Objects, InFlight(o)'
          PROVE  InFlight(o)
      <3> PICK i \in 1 .. Len(fifo') : o \in fifo'[i].uses
        BY <2>1 DEF InFlight
      <3>1. i + 1 \in 1 .. Len(fifo) /\ o \in fifo[i + 1].uses
        BY <1>2
      <3> QED BY <3>1 DEF InFlight
    <2>2. call' = call
      BY DEF Execute
    <2> QED BY <2>1, <2>2 DEF EpochInv, Exclusive
  <1> QED BY <1>3, <1>4, <1>5, <1>6, <1>7 DEF EpochInv

(* What leaves the timestamps to be counted up, or to be waited for.        *)
NextAtFirst ==
  \/ NextEpoch
  \/ \E S \in SUBSET Objects, count \in 1 .. MaxCount : UseOverflows(S, count)
  \/ UNCHANGED state

LEMMA EpochStep ==
  ASSUME EpochInv, NextAtFirst, UNCHANGED epoch
  PROVE  EpochInv'
  <1>1. CASE \E S \in SUBSET Objects, count \in 1 .. MaxCount : Use(S, count)
    BY <1>1, UseKeepsInv
  <1>2. CASE \E o \in Objects : Wait(o)
    BY <1>2 DEF EpochInv, TypeOK, SignalsInOrder, StampsCoverUses, Exclusive,
                Call, Wait, counters
  <1>3. CASE \E o \in Objects : WaitOver(o)
    BY <1>3, WaitOverKeepsInv
  <1>4. CASE \E o \in Objects : AccessAtOnce(o)
    BY <1>4, AccessAtOnceKeepsInv
  <1>5. CASE \E o \in Objects : Poll(o)
    <2>1. /\ put' = Len(fifo)
          /\ cached_timestamp' \in {cached_timestamp, label}
          /\ UNCHANGED <<counters, label, fifo, timestamp, call, epoch>>
      BY <1>5 DEF Poll, CachedAfter
    <2>2. TypeOK'
      BY <2>1 DEF EpochInv, TypeOK, SignalsInOrder, counters
    <2> QED BY <2>1, <2>2 DEF EpochInv, TypeOK, SignalsInOrder, StampsCoverUses, Exclusive,
                              InFlight, counters
  <1>6. CASE AccessDone
    BY <1>6 DEF EpochInv, TypeOK, SignalsInOrder, StampsCoverUses, Exclusive,
                Call, NoCall, AccessDone, counters, gpu
  <1>7. CASE Flush
    BY <1>7 DEF EpochInv, TypeOK, SignalsInOrder, StampsCoverUses, Exclusive,
                InFlight, Flush, counters
  <1>8. CASE Execute
    BY <1>8, ExecuteKeepsInv
  <1>9. CASE \E S \in SUBSET Objects, count \in 1 .. MaxCount : UseOverflows(S, count)
    BY <1>9 DEF EpochInv, TypeOK, SignalsInOrder, StampsCoverUses, Exclusive,
                Call, UseOverflows, counters, gpu
  <1>10. CASE UNCHANGED state
    BY <1>10 DEF EpochInv, TypeOK, SignalsInOrder, StampsCoverUses, Exclusive,
                 InFlight, state, counters, gpu
  <1> QED
    BY <1>1, <1>2, <1>3, <1>4, <1>5, <1>6, <1>7, <1>8, <1>9, <1>10
       DEF NextEpoch, NextAtFirst

(* Every step either goes on counting or starts over.                       *)
LEMMA NextSplits ==
  ASSUME [Next]_vars
  PROVE  \/ NextAtFirst /\ UNCHANGED epoch
         \/ StartOver /\ epoch' = "later"
  BY DEF Next, NextAtFirst, vars

(* The invariant that explains the protocol (timestamp.h,                   *)
(* rsxgl_timestamp_create, _post and _wait) holds until the timestamps      *)
(* start over.                                                              *)
THEOREM EpochInvariant == Spec => []EpochInvAtFirst
  <1>1. Init => EpochInvAtFirst
    BY EpochInit DEF EpochInvAtFirst
  <1>2. EpochInvAtFirst /\ [Next]_vars => EpochInvAtFirst'
    BY EpochStep, NextSplits DEF EpochInvAtFirst
  <1> QED BY <1>1, <1>2, PTL DEF Spec

(* Until the timestamps start over the CPU touches an object's memory only  *)
(* when no command the GPU has yet to finish uses it.                       *)
THEOREM EpochExclusive == Spec => []ExclusiveAtFirst
  <1>1. EpochInvAtFirst => ExclusiveAtFirst
    BY DEF EpochInvAtFirst, EpochInv, ExclusiveAtFirst
  <1> QED BY <1>1, EpochInvariant, PTL

(* Until then, what the CPU remembers of the GPU's progress is never ahead  *)
(* of it (rsxgl_timestamp_wait and _passed cache the label).                *)
THEOREM EpochCachedIsPast == Spec => [](epoch = "first" => CachedIsPast)
  <1>1. EpochInvAtFirst => (epoch = "first" => CachedIsPast)
    BY DEF EpochInvAtFirst, EpochInv, TypeOK, SignalsInOrder, CachedIsPast
  <1> QED BY <1>1, EpochInvariant, PTL

-----------------------------------------------------------------------------

(* Timestamps are counted from 1 on.                                        *)
StampsInv == StampsNotAhead /\ next_timestamp > 0

(* A call submits what it took timestamps for, with some stamps cleared     *)
(* before (rsxgl_timestamp_create): the new stamps are behind the next.     *)
LEMMA SubmitKeepsStamps ==
  ASSUME NEW stamps \in [Objects -> Nat], NEW S \in SUBSET Objects,
         NEW ts \in Nat, ts > 0, NEW count \in Nat,
         fifo \in Seq(Command), \A o \in Objects : stamps[o] < ts + count,
         Submit(stamps, S, ts, count)
  PROVE  /\ next_timestamp' \in Nat /\ next_timestamp' > 0
         /\ last_timestamp' \in Nat
         /\ fifo' \in Seq(Command) /\ Len(fifo') = Len(fifo) + count
         /\ timestamp' \in [Objects -> Nat]
         /\ \A o \in Objects : timestamp'[o] < next_timestamp'
  <1>1. /\ fifo' = fifo \o Commands(S, ts, count)
        /\ timestamp' = Stamped(stamps, S, ts + count - 1)
        /\ next_timestamp' = ts + count
        /\ last_timestamp' = ts + count - 1
    BY DEF Submit
  <1>2. fifo' \in Seq(Command) /\ Len(fifo') = Len(fifo) + count
    <2>1. IsAppended(fifo', fifo, S, ts, count)
      BY <1>1, AppendedFacts
    <2> QED BY <2>1 DEF IsAppended
  <1>3. /\ timestamp' \in [Objects -> Nat]
        /\ \A o \in Objects : timestamp'[o] < next_timestamp'
    BY <1>1 DEF Stamped
  <1> QED BY <1>1, <1>2, <1>3

LEMMA StampsStep ==
  ASSUME Reset = Objects, StampsInv, [Next]_vars
  PROVE  StampsInv'
  <1>1. CASE \E S \in SUBSET Objects, count \in 1 .. MaxCount :
               Use(S, count) /\ UNCHANGED epoch
    <2> PICK S \in SUBSET Objects, count \in 1 .. MaxCount :
               Use(S, count) /\ UNCHANGED epoch
      BY <1>1
    <2>1. /\ next_timestamp \in Nat /\ next_timestamp > 0
          /\ count \in Nat /\ fifo \in Seq(Command)
          /\ timestamp \in [Objects -> Nat]
          /\ \A o \in Objects : timestamp[o] < next_timestamp + count
      BY DEF StampsInv, StampsNotAhead, TypeOK
    <2>2. /\ Submit(timestamp, S, next_timestamp, count)
          /\ UNCHANGED <<cached_timestamp, label, put, call, epoch>>
      BY DEF Use
    <2>3. /\ next_timestamp' \in Nat /\ next_timestamp' > 0
          /\ last_timestamp' \in Nat
          /\ fifo' \in Seq(Command) /\ Len(fifo') = Len(fifo) + count
          /\ timestamp' \in [Objects -> Nat]
          /\ \A o \in Objects : timestamp'[o] < next_timestamp'
      BY <2>1, <2>2, SubmitKeepsStamps
    <2> QED BY <2>1, <2>2, <2>3 DEF StampsInv, StampsNotAhead, TypeOK
  <1>2. CASE StartOver /\ epoch' = "later"
    <2> DEFINE cleared == [o \in Objects |-> IF o \in Reset THEN 0 ELSE timestamp[o]]
    <2>1. call.uses \in SUBSET Objects /\ call.count \in Nat
      BY DEF StampsInv, StampsNotAhead, TypeOK, Call
    <2>2. /\ cleared \in [Objects -> Nat]
          /\ \A o \in Objects : cleared[o] < 1 + call.count
          /\ fifo \in Seq(Command)
      BY <2>1 DEF StampsInv, StampsNotAhead, TypeOK
    <2>3. /\ Submit(cleared, call.uses, 1, call.count)
          /\ cached_timestamp' = 0 /\ call' = NoCall
          /\ UNCHANGED <<label, put>>
      BY <1>2 DEF StartOver
    <2> HIDE DEF cleared
    <2>4. /\ next_timestamp' \in Nat /\ next_timestamp' > 0
          /\ last_timestamp' \in Nat
          /\ fifo' \in Seq(Command) /\ Len(fifo') = Len(fifo) + call.count
          /\ timestamp' \in [Objects -> Nat]
          /\ \A o \in Objects : timestamp'[o] < next_timestamp'
      <3>1. 1 \in Nat /\ 1 > 0
        OBVIOUS
      <3> QED BY <2>1, <2>2, <2>3, <3>1, SubmitKeepsStamps
    <2>5. put' \in 0 .. Len(fifo') /\ label' \in Nat
      BY <2>1, <2>3, <2>4 DEF StampsInv, StampsNotAhead, TypeOK
    <2>6. call' \in Call
      BY <2>3 DEF NoCall, Call
    <2> QED BY <1>2, <2>3, <2>4, <2>5, <2>6 DEF StampsInv, StampsNotAhead, TypeOK
  <1>3. CASE Execute /\ UNCHANGED epoch
    <2>1. fifo \in Seq(Command) /\ fifo # << >> /\ put \in 1 .. Len(fifo)
      BY <1>3 DEF StampsInv, StampsNotAhead, TypeOK, Execute
    <2>2. Head(fifo) \in Command
      BY <2>1
    <2>3. label' \in Nat
      BY <1>3, <2>2 DEF Execute, Command
    <2>4. fifo' \in Seq(Command) /\ put' \in 0 .. Len(fifo')
      BY <1>3, <2>1, TailFacts DEF Execute
    <2>5. UNCHANGED <<next_timestamp, last_timestamp, cached_timestamp,
                      timestamp, call, epoch>>
      BY <1>3 DEF Execute, counters
    <2> QED BY <2>3, <2>4, <2>5 DEF StampsInv, StampsNotAhead, TypeOK
  <1>4. CASE \E o \in Objects : WaitOver(o) /\ UNCHANGED epoch
    <2> PICK o \in Objects : WaitOver(o) /\ UNCHANGED epoch
      BY <1>4
    <2>1. cached_timestamp' \in Nat
      BY DEF StampsInv, StampsNotAhead, TypeOK, WaitOver, CachedAfter
    <2>2. call' \in Call
      BY DEF StampsInv, StampsNotAhead, TypeOK, WaitOver, Call
    <2>3. /\ timestamp' \in [Objects -> Nat]
          /\ \A q \in Objects : timestamp'[q] < next_timestamp
      BY DEF StampsInv, StampsNotAhead, TypeOK, WaitOver
    <2>4. UNCHANGED <<next_timestamp, last_timestamp, label, fifo, put, epoch>>
      BY DEF WaitOver, counters, gpu
    <2> QED BY <2>1, <2>2, <2>3, <2>4 DEF StampsInv, StampsNotAhead, TypeOK
  <1>5. CASE /\ \/ \E o \in Objects : Wait(o) \/ AccessAtOnce(o) \/ Poll(o)
                \/ AccessDone
                \/ Flush
                \/ \E S \in SUBSET Objects, count \in 1 .. MaxCount :
                     UseOverflows(S, count)
             /\ UNCHANGED epoch
    <2>1. /\ UNCHANGED <<next_timestamp, last_timestamp, label, fifo, timestamp, epoch>>
          /\ put' \in {put, Len(fifo)} /\ cached_timestamp' \in {cached_timestamp, label}
      BY <1>5 DEF Wait, AccessAtOnce, Poll, CachedAfter, AccessDone, Flush, UseOverflows,
                  counters, gpu
    <2>2. call' \in Call
      <3>1. call \in Call
        BY DEF StampsInv, StampsNotAhead, TypeOK
      <3> QED BY <1>5, <3>1 DEF Call, NoCall, Wait, AccessAtOnce, Poll, AccessDone, Flush,
                                UseOverflows
    <2>3. put' \in 0 .. Len(fifo) /\ cached_timestamp' \in Nat
      BY <2>1 DEF StampsInv, StampsNotAhead, TypeOK
    <2> QED BY <2>1, <2>2, <2>3 DEF StampsInv, StampsNotAhead, TypeOK
  <1>6. CASE UNCHANGED vars
    BY <1>6 DEF StampsInv, StampsNotAhead, TypeOK, vars, state, counters, gpu
  <1> QED BY <1>1, <1>2, <1>3, <1>4, <1>5, <1>6 DEF Next, NextEpoch

(* However often the timestamps start over, the assertion of                *)
(* rsxgl_buffer_validate holds if every kind of object has its stamps       *)
(* cleared then (rsxgl_timestamp_create).                                   *)
THEOREM StampsStayBehind == Reset = Objects /\ Spec => []StampsNotAhead
  <1>1. Init => StampsInv
    BY DEF Init, StampsInv, StampsNotAhead, TypeOK, NoCall, Call, Command
  <1>2. StampsInv => StampsNotAhead
    BY DEF StampsInv
  <1>3. ASSUME Reset = Objects
        PROVE  Spec => []StampsNotAhead
    <2>1. StampsInv /\ [Next]_vars => StampsInv'
      BY <1>3, StampsStep
    <2> QED BY <1>1, <1>2, <2>1, PTL DEF Spec
  <1> QED BY <1>3

-----------------------------------------------------------------------------

(* The commands as ObjectTurns sees them.                                   *)
UsesOf(f) == [i \in 1 .. Len(f) |-> f[i].uses]

LEMMA UsesOfFacts ==
  ASSUME NEW f \in Seq(Command)
  PROVE  /\ UsesOf(f) \in Seq(SUBSET Objects)
         /\ Len(UsesOf(f)) = Len(f)
         /\ \A i \in 1 .. Len(f) : UsesOf(f)[i] = f[i].uses
  <1>1. ASSUME NEW i \in 1 .. Len(f)
        PROVE  f[i].uses \in SUBSET Objects
    <2>1. f[i] \in Command
      OBVIOUS
    <2> QED BY <2>1 DEF Command
  <1> QED BY <1>1 DEF UsesOf

Copies(S, count) == [i \in 1 .. count |-> S]

UsesAppended(g, f, S, count) == UsesOf(g) = UsesOf(f) \o Copies(S, count)

LEMMA UsesOfAppended ==
  ASSUME NEW f \in Seq(Command), NEW S \in SUBSET Objects,
         NEW ts \in Nat, NEW count \in Nat, NEW g,
         IsAppended(g, f, S, ts, count)
  PROVE  UsesAppended(g, f, S, count)
  <1> DEFINE E == SUBSET Objects
             u == UsesOf(f)
             v == Copies(S, count)
             w == UsesOf(g)
  <1>1. /\ g \in Seq(Command) /\ Len(g) = Len(f) + count
        /\ \A i \in 1 .. Len(f) : g[i] = f[i]
        /\ \A i \in Len(f) + 1 .. Len(f) + count : g[i].uses = S
    BY DEF IsAppended
  <1>2. /\ u \in Seq(E) /\ Len(u) = Len(f)
        /\ \A i \in 1 .. Len(f) : u[i] = f[i].uses
    BY UsesOfFacts
  <1>3. /\ w \in Seq(E) /\ Len(w) = Len(f) + count
        /\ \A i \in 1 .. Len(f) + count : w[i] = g[i].uses
    BY <1>1, UsesOfFacts
  <1>4. /\ v \in Seq(E) /\ Len(v) = count
        /\ \A i \in 1 .. count : v[i] = S
    BY DEF Copies
  <1>0. Len(f) \in Nat
    OBVIOUS
  <1> HIDE DEF u, v, w, E
  <1>5. u \o v \in Seq(E) /\ Len(u \o v) = Len(w)
    BY <1>0, <1>2, <1>3, <1>4
  <1>6. ASSUME NEW i \in 1 .. Len(w)
        PROVE  w[i] = (u \o v)[i]
    <2>1. CASE i \in 1 .. Len(f)
      <3>1. (u \o v)[i] = u[i]
        BY <1>2, <1>4, <2>1
      <3> QED BY <1>1, <1>2, <1>3, <2>1, <3>1
    <2>2. CASE i \in Len(f) + 1 .. Len(f) + count
      <3>1. (u \o v)[i] = v[i - Len(f)] /\ i - Len(f) \in 1 .. count
        BY <1>2, <1>4, <2>2
      <3> QED BY <1>1, <1>3, <1>4, <2>2, <3>1
    <2>3. i \in 1 .. Len(f) \/ i \in Len(f) + 1 .. Len(f) + count
      BY <1>0, <1>3
    <2> QED BY <2>1, <2>2, <2>3
  <1>7. w = u \o v
    BY <1>3, <1>5, <1>6, SeqEqual
  <1> QED BY <1>7 DEF u, v, w, UsesAppended

LEMMA UsesOfTail ==
  ASSUME NEW f \in Seq(Command), f # << >>
  PROVE  UsesOf(f) # << >> /\ UsesOf(Tail(f)) = Tail(UsesOf(f))
  <1> DEFINE u == UsesOf(f)
             w == UsesOf(Tail(f))
  <1>1. /\ Tail(f) \in Seq(Command) /\ Len(f) > 0 /\ Len(Tail(f)) = Len(f) - 1
        /\ \A i \in 1 .. Len(f) - 1 : Tail(f)[i] = f[i + 1]
    BY TailFacts
  <1>2. /\ u \in Seq(SUBSET Objects) /\ Len(u) = Len(f)
        /\ \A i \in 1 .. Len(f) : u[i] = f[i].uses
    BY UsesOfFacts
  <1>3. /\ w \in Seq(SUBSET Objects) /\ Len(w) = Len(f) - 1
        /\ \A i \in 1 .. Len(f) - 1 : w[i] = f[i + 1].uses
    BY <1>1, UsesOfFacts
  <1> HIDE DEF u, w
  <1>4. u # << >> /\ Tail(u) \in Seq(SUBSET Objects) /\ Len(Tail(u)) = Len(w)
    BY <1>1, <1>2, <1>3
  <1>5. \A i \in 1 .. Len(w) : w[i] = Tail(u)[i]
    BY <1>1, <1>2, <1>3
  <1>6. w = Tail(u)
    BY <1>3, <1>4, <1>5, SeqEqual
  <1> QED BY <1>4, <1>6 DEF u, w

LEMMA TurnsInit == Init => Turns!Init
  BY DEF Init, Turns!Init, NoCall, Pending, Held

(* Until the timestamps start over every step is one of ObjectTurns' or     *)
(* changes nothing there.                                                   *)
LEMMA TurnsStepAtFirst ==
  ASSUME EpochInv, epoch = "first", NextAtFirst, UNCHANGED epoch
  PROVE  [Turns!Next]_(Turns!vars)
  <1> DEFINE H == IF call.op = "access" THEN call.uses ELSE {}
  <1>0. fifo \in Seq(Command)
    BY DEF EpochInv, TypeOK
  <1>00. /\ Pending = UsesOf(fifo) /\ Pending' = UsesOf(fifo)'
         /\ Held = H /\ Held' = H'
    BY DEF Pending, Held, UsesOf
  <1>1. ASSUME NEW S \in SUBSET Objects, NEW count \in 1 .. MaxCount,
               Use(S, count)
        PROVE  Turns!Submit(S, count)
    <2>1. IsAppended(fifo', fifo, S, next_timestamp, count)
      <3>1. next_timestamp \in Nat /\ next_timestamp > 0 /\ count \in Nat
        BY DEF EpochInv, TypeOK, SignalsInOrder
      <3>2. fifo' = fifo \o Commands(S, next_timestamp, count)
        BY <1>1 DEF Use, Submit
      <3> QED BY <1>0, <3>1, <3>2, AppendedFacts
    <2>2. UsesAppended(fifo', fifo, S, count)
      <3>1. next_timestamp \in Nat /\ count \in Nat
        BY DEF EpochInv, TypeOK
      <3> QED BY <1>0, <2>1, <3>1, UsesOfAppended
    <2>3. H = {} /\ H' = {}
      BY <1>1 DEF Use
    <2> QED BY <1>00, <2>2, <2>3 DEF Turns!Submit, UsesAppended, Copies
  <1>2. ASSUME NEW o \in Objects, WaitOver(o) \/ AccessAtOnce(o)
        PROVE  Turns!Hold(o)
    <2>1. Reached(timestamp[o])
      BY <1>2 DEF WaitOver, AccessAtOnce, Reached, EpochInv, TypeOK
    <2>2. ~InFlight(o)
      BY <2>1, ReachedMeansIdle
    <2>3. H = {} /\ H' = {o} /\ fifo' = fifo
      <3>1. CASE WaitOver(o)
        <4>1. call \in Call /\ call.op = "wait" /\ call.uses = {o}
          BY <3>1 DEF WaitOver, EpochInv, TypeOK
        <4>2. call' = [call EXCEPT !.op = "access"] /\ fifo' = fifo
          BY <3>1 DEF WaitOver, gpu
        <4>3. call'.op = "access" /\ call'.uses = {o}
          BY <4>1, <4>2 DEF Call
        <4> QED BY <4>1, <4>2, <4>3
      <3>2. CASE AccessAtOnce(o)
        BY <3>2 DEF AccessAtOnce, gpu
      <3> QED BY <1>2, <3>1, <3>2
    <2>4. UsesOf(fifo)' = UsesOf(fifo)
      BY <2>3 DEF UsesOf
    <2>5. \A i \in 1 .. Len(UsesOf(fifo)) : o \notin UsesOf(fifo)[i]
      BY <1>0, <2>2, UsesOfFacts DEF InFlight
    <2> QED BY <1>00, <2>3, <2>4, <2>5 DEF Turns!Hold
  <1>3. ASSUME Execute
        PROVE  Turns!Retire
    <2>1. fifo # << >> /\ fifo' = Tail(fifo) /\ call' = call
      BY <1>3 DEF Execute, EpochInv, TypeOK
    <2>2. UsesOf(fifo) # << >> /\ UsesOf(fifo') = Tail(UsesOf(fifo))
      BY <1>0, <2>1, UsesOfTail
    <2> QED BY <1>00, <2>1, <2>2 DEF Turns!Retire, UsesOf
  <1>4. ASSUME AccessDone
        PROVE  Turns!Release \/ UNCHANGED Turns!vars
    <2>1. fifo' = fifo /\ H' = {}
      BY <1>4 DEF AccessDone, NoCall, gpu
    <2> QED BY <1>00, <2>1 DEF Turns!Release, Turns!vars, UsesOf
  <1>5. ASSUME \/ \E o \in Objects : Wait(o) \/ Poll(o)
               \/ Flush
               \/ \E S \in SUBSET Objects, count \in 1 .. MaxCount :
                    UseOverflows(S, count)
               \/ UNCHANGED state
        PROVE  UNCHANGED Turns!vars
    <2>1. fifo' = fifo /\ H' = H
      BY <1>5 DEF Wait, Poll, Flush, UseOverflows, gpu, state
    <2> QED BY <1>00, <2>1 DEF Turns!vars, UsesOf
  <1> QED
    BY <1>1, <1>2, <1>3, <1>4, <1>5 DEF NextAtFirst, NextEpoch, Turns!Next

(* The timestamps start over only when the GPU has done everything, and     *)
(* after that the mapping stays where it is.                                *)
LEMMA TurnsStep ==
  EpochInvAtFirst /\ [Next]_vars => [Turns!Next]_(Turns!vars)
  <1> SUFFICES ASSUME EpochInvAtFirst, [Next]_vars
               PROVE  [Turns!Next]_(Turns!vars)
    OBVIOUS
  <1>1. CASE epoch = "first" /\ NextAtFirst /\ UNCHANGED epoch
    BY <1>1, TurnsStepAtFirst DEF EpochInvAtFirst
  <1>2. CASE epoch = "first" /\ StartOver /\ epoch' = "later"
    <2>1. Len(fifo) = 0 /\ fifo \in Seq(Command)
      BY <1>2 DEF EpochInvAtFirst, EpochInv, TypeOK, SignalsInOrder, StartOver,
                  Reached
    <2>2. fifo = << >>
      BY <2>1
    <2>3. Pending = << >> /\ Pending' = << >>
      BY <1>2, <2>2 DEF Pending
    <2>4. Held = {} /\ Held' = {}
      BY <1>2 DEF Held, StartOver
    <2> QED BY <2>3, <2>4 DEF Turns!vars
  <1>3. CASE epoch # "first"
    <2>1. epoch' # "first"
      BY <1>3, NextSplits
    <2> QED BY <1>3, <2>1 DEF Turns!vars, Pending, Held
  <1> QED BY <1>1, <1>2, <1>3, NextSplits

(* Until the timestamps start over, timestamps, label, cache and flushes    *)
(* implement what RSXGL promises: CPU and GPU take turns on every object.   *)
THEOREM EpochTakesTurns == Spec => TakesTurns
  BY EpochInvariant, TurnsInit, TurnsStep, PTL DEF Spec, TakesTurns, Turns!Spec


-----------------------------------------------------------------------------

(* How many of the queued commands have to be executed until the label      *)
(* reaches the stamp of o: what Programs and Textures have for a timestamp. *)
Left(o) == IF label < timestamp[o] THEN timestamp[o] - label ELSE 0

(* The GPU executes a command, and all counters above 0 go down.            *)
LeftExecutes ==
  /\ fifo # << >> /\ fifo' = Tail(fifo)
  /\ \A o \in Objects : Left(o)' = IF Left(o) = 0 THEN 0 ELSE Left(o) - 1

(* A call uses the objects of S: their counters are the length of the queue *)
(* that now ends with its commands.                                         *)
LeftUses(S) ==
  /\ Len(fifo') > Len(fifo)
  /\ \A o \in Objects : Left(o)' = IF o \in S THEN Len(fifo') ELSE Left(o)

LeftStays == fifo' = fifo /\ \A o \in Objects : Left(o)' = Left(o)

CountsDown ==
  \/ LeftExecutes
  \/ \E S \in SUBSET Objects : LeftUses(S)
  \/ LeftStays

(* A wait is over when the counter is 0, which it is after as many commands *)
(* as it says and not more than are queued.                                 *)
LeftIsExact ==
  \A o \in Objects :
    /\ Left(o) <= Len(fifo)
    /\ Reached(timestamp[o]) <=> Left(o) = 0

LEMMA CountsStep ==
  ASSUME EpochInv, NextAtFirst, UNCHANGED epoch
  PROVE  CountsDown
  <1>1. /\ label \in Nat /\ next_timestamp = label + Len(fifo) + 1
        /\ fifo \in Seq(Command) /\ Len(fifo) \in Nat
        /\ timestamp \in [Objects -> Nat]
        /\ \A i \in 1 .. Len(fifo) : fifo[i].signal = label + i
    BY DEF EpochInv, TypeOK, SignalsInOrder
  <1>2. ASSUME NEW S \in SUBSET Objects, NEW count \in 1 .. MaxCount, Use(S, count)
        PROVE  LeftUses(S)
    <2>1. /\ fifo' = fifo \o Commands(S, next_timestamp, count)
          /\ timestamp' = Stamped(timestamp, S, next_timestamp + count - 1)
          /\ label' = label
      BY <1>2 DEF Use, Submit
    <2>2. next_timestamp \in Nat /\ next_timestamp > 0 /\ count \in Nat /\ count > 0
      BY <1>1
    <2>3. Len(fifo') = Len(fifo) + count
      <3>1. IsAppended(fifo', fifo, S, next_timestamp, count)
        BY <1>1, <2>1, <2>2, AppendedFacts
      <3> QED BY <3>1 DEF IsAppended
    <2>4. ASSUME NEW o \in Objects
          PROVE  Left(o)' = IF o \in S THEN Len(fifo') ELSE Left(o)
      <3>1. CASE o \in S
        <4>1. timestamp'[o] = next_timestamp + count - 1
          BY <2>1, <3>1 DEF Stamped
        <4>2. Len(fifo') \in Nat /\ Len(fifo') > 0
          BY <1>1, <2>2, <2>3
        <4>3. timestamp'[o] = label + Len(fifo')
          <5>1. next_timestamp + count - 1 = label + (Len(fifo) + count)
            BY <1>1, <2>2
          <5> QED BY <2>3, <4>1, <5>1
        <4> QED BY <1>1, <2>1, <3>1, <4>2, <4>3 DEF Left
      <3>2. CASE o \notin S
        BY <2>1, <3>2 DEF Left, Stamped
      <3> QED BY <3>1, <3>2
    <2> QED BY <1>1, <2>2, <2>3, <2>4 DEF LeftUses
  <1>3. ASSUME Execute
        PROVE  LeftExecutes
    <2>1. fifo # << >> /\ fifo' = Tail(fifo) /\ timestamp' = timestamp
      BY <1>3 DEF Execute, EpochInv, TypeOK
    <2>2. label' = label + 1
      <3>1. Len(fifo) > 0 /\ Head(fifo) = fifo[1]
        BY <1>1, <2>1, TailFacts
      <3> QED BY <1>1, <1>3, <3>1 DEF Execute
    <2>3. \A o \in Objects : Left(o)' = IF Left(o) = 0 THEN 0 ELSE Left(o) - 1
      BY <1>1, <2>1, <2>2 DEF Left
    <2> QED BY <2>1, <2>3 DEF LeftExecutes
  <1>4. ASSUME NEW o \in Objects, WaitOver(o)
        PROVE  LeftStays
    <2>1. fifo' = fifo /\ label' = label /\ timestamp' = [timestamp EXCEPT ![o] = 0]
      BY <1>4 DEF WaitOver, gpu
    <2>2. timestamp[o] <= label
      BY <1>4 DEF WaitOver, Reached, EpochInv, TypeOK
    <2> QED BY <1>1, <2>1, <2>2 DEF LeftStays, Left
  <1>5. ASSUME \/ \E o \in Objects : Wait(o) \/ AccessAtOnce(o) \/ Poll(o)
               \/ AccessDone \/ Flush
               \/ \E S \in SUBSET Objects, count \in 1 .. MaxCount :
                    UseOverflows(S, count)
               \/ UNCHANGED state
        PROVE  LeftStays
    <2>1. fifo' = fifo /\ label' = label /\ timestamp' = timestamp
      BY <1>5 DEF Wait, AccessAtOnce, Poll, AccessDone, Flush, UseOverflows, gpu, state
    <2> QED BY <2>1 DEF LeftStays, Left
  <1>6. CASE \E S \in SUBSET Objects, count \in 1 .. MaxCount : Use(S, count)
    BY <1>2, <1>6 DEF CountsDown
  <1>7. CASE \E o \in Objects : WaitOver(o)
    BY <1>4, <1>7 DEF CountsDown
  <1>8. CASE \/ \E o \in Objects : Wait(o) \/ AccessAtOnce(o) \/ Poll(o)
             \/ AccessDone \/ Flush
             \/ \E S \in SUBSET Objects, count \in 1 .. MaxCount :
                  UseOverflows(S, count)
             \/ UNCHANGED state
    BY <1>5, <1>8 DEF CountsDown
  <1>9. CASE Execute
    BY <1>3, <1>9 DEF CountsDown
  <1> QED BY <1>6, <1>7, <1>8, <1>9 DEF NextAtFirst, NextEpoch

(* Until the timestamps start over a stamp may be replaced by a counter of  *)
(* commands, which is how Programs and Textures model the timestamps of     *)
(* programs and textures: using an object sets it to the length of the      *)
(* queue, and every command that the GPU executes brings it down by one.    *)
THEOREM EpochCountsDown == Spec => [][epoch' = "first" => CountsDown]_vars
  <1>1. EpochInvAtFirst /\ [Next]_vars => [epoch' = "first" => CountsDown]_vars
    <2> SUFFICES ASSUME EpochInvAtFirst, [Next]_vars, epoch' = "first"
                 PROVE  CountsDown
      OBVIOUS
    <2>1. NextAtFirst /\ UNCHANGED epoch
      BY NextSplits
    <2> QED BY <2>1, CountsStep DEF EpochInvAtFirst
  <1> QED BY <1>1, EpochInvariant, PTL DEF Spec

(* ... and rsxgl_timestamp_wait returns when the counter is 0, which it is  *)
(* once the GPU has executed what is queued.                                *)
THEOREM EpochCountIsExact == Spec => [](epoch = "first" => LeftIsExact)
  <1> DEFINE AtMost == \A o \in Objects : Left(o) <= Len(fifo)
             Inv == epoch = "first" => AtMost
  <1>1. Init => Inv
    <2> SUFFICES ASSUME Init, NEW o \in Objects
                 PROVE  Left(o) <= Len(fifo)
      OBVIOUS
    <2>1. Left(o) = 0 /\ Len(fifo) = 0
      BY DEF Init, Left
    <2> QED BY <2>1
  <1>2. EpochInvAtFirst /\ Inv /\ [Next]_vars => Inv'
    <2> SUFFICES ASSUME EpochInvAtFirst, Inv, [Next]_vars, epoch' = "first"
                 PROVE  AtMost'
      OBVIOUS
    <2>1. NextAtFirst /\ UNCHANGED epoch /\ EpochInv
      BY NextSplits DEF EpochInvAtFirst
    <2>2. fifo \in Seq(Command) /\ Len(fifo) \in Nat /\ label \in Nat
          /\ timestamp \in [Objects -> Nat]
      BY <2>1 DEF EpochInv, TypeOK
    <2>3. \A o \in Objects : Left(o) \in Nat /\ Left(o) <= Len(fifo)
      BY <2>1, <2>2 DEF Left
    <2>4. CASE LeftExecutes
      <3>1. Len(fifo') = Len(fifo) - 1 /\ Len(fifo) > 0
        BY <2>2, <2>4, TailFacts DEF LeftExecutes
      <3> QED BY <2>2, <2>3, <2>4, <3>1 DEF LeftExecutes
    <2>5. ASSUME NEW S \in SUBSET Objects, LeftUses(S)
          PROVE  AtMost'
      <3>1. EpochInv'
        BY <2>1, EpochStep
      <3>2. Len(fifo') \in Nat
        BY <3>1 DEF EpochInv, TypeOK
      <3> QED BY <2>2, <2>3, <2>5, <3>2 DEF LeftUses
    <2>6. CASE LeftStays
      BY <2>3, <2>6 DEF LeftStays
    <2> QED BY <2>1, <2>4, <2>5, <2>6, CountsStep DEF CountsDown
  <1>3. EpochInvAtFirst /\ Inv => (epoch = "first" => LeftIsExact)
    <2> SUFFICES ASSUME EpochInv, AtMost
                 PROVE  LeftIsExact
      BY DEF EpochInvAtFirst
    <2>1. /\ label \in Nat /\ cached_timestamp \in Nat /\ cached_timestamp <= label
          /\ timestamp \in [Objects -> Nat]
      BY DEF EpochInv, TypeOK
    <2>2. ASSUME NEW o \in Objects
          PROVE  Reached(timestamp[o]) <=> Left(o) = 0
      <3>1. timestamp[o] \in Nat
        BY <2>1
      <3>2. Reached(timestamp[o]) <=> ~(label < timestamp[o])
        BY <2>1, <3>1 DEF Reached
      <3> QED BY <2>1, <3>1, <3>2 DEF Left
    <2> QED BY <2>2 DEF LeftIsExact
  <1> QED BY <1>1, <1>2, <1>3, EpochInvariant, PTL DEF Spec
=============================================================================
