----------------------------- MODULE Timestamps -----------------------------
(***************************************************************************)
(* How the CPU and the GPU share objects (timestamp.h, rsxgl_context.cc).  *)
(*                                                                         *)
(* A call that makes the GPU use objects takes timestamps from its context *)
(* (rsxgl_timestamp_create), stamps the objects with the last of them and  *)
(* puts after every command one that makes the GPU write its timestamp to  *)
(* a label (rsxgl_timestamp_post).  A call that lets the CPU at an object  *)
(* first spins until the label has reached the stamp                       *)
(* (rsxgl_timestamp_wait).  The GPU fetches a command only after a flush   *)
(* has moved the put register past it.                                     *)
(*                                                                         *)
(* When the timestamps run out the context starts over with them at 1.     *)
(* The protocol is right up to then (the properties AtFirst).              *)
(***************************************************************************)
EXTENDS Integers, Sequences

CONSTANTS
  Objects,      \* what is stamped: buffers, textures, queries
  Reset,        \* those whose stamp is cleared when the timestamps start over
  MaxTimestamp, \* RSXGL_MAX_TIMESTAMP
  MaxCount,     \* bound of the model: the most timestamps one call takes
  FifoBound     \* bound of the model: the most commands not yet executed

ASSUME TimestampsAssumption ==
  /\ Reset \subseteq Objects
  /\ MaxTimestamp \in Nat
  /\ MaxCount \in Nat
  /\ FifoBound \in Nat

VARIABLES
  next_timestamp,   \* the timestamp the next call takes
  last_timestamp,   \* the last one posted
  cached_timestamp, \* what the CPU last read from the label
  label,            \* timestamp_sync: the last timestamp the GPU wrote
  timestamp,        \* of every object; 0: no GPU operation to wait for
  fifo,             \* the commands not executed yet, oldest first
  put,              \* how many of them the GPU may fetch
  call,             \* what the CPU is inside of
  epoch             \* history: whether the timestamps have started over

counters == <<next_timestamp, last_timestamp>>
gpu == <<label, fifo, put>>
state == <<counters, cached_timestamp, timestamp, gpu, call>>
vars == <<state, epoch>>

Command == [signal : Nat, uses : SUBSET Objects]

(* none: between calls; wait: spinning in rsxgl_timestamp_wait; access: the *)
(* wait is over and the call reads, writes or frees the object's memory;    *)
(* create: spinning in rsxgl_timestamp_create.                              *)
Call == [op : {"none", "wait", "access", "create"},
         uses : SUBSET Objects,
         count : Nat]

NoCall == [op |-> "none", uses |-> {}, count |-> 0]

InFlight(o) == \E i \in 1 .. Len(fifo) : o \in fifo[i].uses

-----------------------------------------------------------------------------

Init ==
  /\ next_timestamp = 1
  /\ last_timestamp = 0
  /\ cached_timestamp = 0
  /\ label = 0
  /\ timestamp = [o \in Objects |-> 0]
  /\ fifo = << >>
  /\ put = 0
  /\ call = NoCall
  /\ epoch = "first"

Overflows(count) == next_timestamp + count > MaxTimestamp

(* The stamps after a call used the objects of S up to timestamp ts.        *)
Stamped(stamps, S, ts) == [o \in Objects |-> IF o \in S THEN ts ELSE stamps[o]]

(* count commands that use the objects of S, each followed by the post of   *)
(* its timestamp, the first of which is ts.                                 *)
Commands(S, ts, count) ==
  [i \in 1 .. count |-> [signal |-> ts + i - 1, uses |-> S]]

(* Mutation: stamps with the first timestamp of the call.                   *)
SubmitStampsFirst(stamps, S, ts, count) ==
  /\ Len(fifo) + count <= FifoBound
  /\ timestamp' = Stamped(stamps, S, ts)
  /\ fifo' = fifo \o Commands(S, ts, count)
  /\ last_timestamp' = ts + count - 1
  /\ next_timestamp' = ts + count

(* The call that took count timestamps from ts on stamps, emits, posts.     *)
Submit(stamps, S, ts, count) ==
  /\ Len(fifo) + count <= FifoBound
  /\ timestamp' = Stamped(stamps, S, ts + count - 1)
  /\ fifo' = fifo \o Commands(S, ts, count)
  /\ last_timestamp' = ts + count - 1
  /\ next_timestamp' = ts + count

(* A draw of count primitives, or a copy.                                   *)
Use(S, count) ==
  /\ call.op = "none"
  /\ ~Overflows(count)
  /\ Submit(timestamp, S, next_timestamp, count)
  /\ UNCHANGED <<cached_timestamp, label, put, call>>

(* The same when the timestamps run out: rsxgl_timestamp_create spins until *)
(* the last one is reached.  It calls the wait that does not flush.         *)
UseOverflows(S, count) ==
  /\ call.op = "none"
  /\ Overflows(count)
  /\ call' = [op |-> "create", uses |-> S, count |-> count]
  /\ UNCHANGED <<counters, cached_timestamp, gpu, timestamp>>

(* Mutation: waits for the GPU to get further than ts.                      *)
ReachedPast(ts) == cached_timestamp > ts \/ label > ts

(* rsxgl_timestamp_wait returns once this holds.                            *)
Reached(ts) == cached_timestamp >= ts \/ label >= ts

(* Mutation: remembers what it asked for, not what it read.                 *)
CachedAsked(ts) == IF cached_timestamp < ts THEN ts ELSE cached_timestamp

(* The value that cached_timestamp has after waiting for ts or asking       *)
(* whether it passed.                                                       *)
CachedAfter(ts) == IF cached_timestamp < ts THEN label ELSE cached_timestamp

(* Mutation: the stamps are left as they are.                               *)
StartOverKeepsStamps ==
  /\ call.op = "create"
  /\ Reached(last_timestamp)
  /\ Submit(timestamp, call.uses, 1, call.count)
  /\ cached_timestamp' = 0
  /\ call' = NoCall
  /\ UNCHANGED <<label, put>>

(* ... and then starts over at timestamp 1.                                 *)
StartOver ==
  /\ call.op = "create"
  /\ Reached(last_timestamp)
  /\ Submit([o \in Objects |-> IF o \in Reset THEN 0 ELSE timestamp[o]],
            call.uses, 1, call.count)
  /\ cached_timestamp' = 0
  /\ call' = NoCall
  /\ UNCHANGED <<label, put>>

(* Mutation: waits without a flush.                                         *)
WaitUnflushed(o) ==
  /\ call.op = "none"
  /\ timestamp[o] > 0
  /\ call' = [op |-> "wait", uses |-> {o}, count |-> 0]
  /\ UNCHANGED <<counters, cached_timestamp, gpu, timestamp>>

(* A call that lets the CPU at o (glBufferData, glBufferSubData,            *)
(* glMapBuffer, glDeleteBuffers...): it flushes and waits for the stamp.    *)
Wait(o) ==
  /\ call.op = "none"
  /\ timestamp[o] > 0
  /\ put' = Len(fifo)
  /\ call' = [op |-> "wait", uses |-> {o}, count |-> 0]
  /\ UNCHANGED <<counters, cached_timestamp, label, fifo, timestamp>>

WaitOver(o) ==
  /\ call.op = "wait"
  /\ call.uses = {o}
  /\ Reached(timestamp[o])
  /\ cached_timestamp' = CachedAfter(timestamp[o])
  /\ timestamp' = [timestamp EXCEPT ![o] = 0]
  /\ call' = [call EXCEPT !.op = "access"]
  /\ UNCHANGED <<counters, gpu>>

(* Mutation: does not look at the stamp, as glGetBufferSubData does not.    *)
AccessRegardless(o) ==
  /\ call.op = "none"
  /\ call' = [op |-> "access", uses |-> {o}, count |-> 0]
  /\ UNCHANGED <<counters, cached_timestamp, gpu, timestamp>>

(* ... or goes ahead at once when there is no stamp.                        *)
AccessAtOnce(o) ==
  /\ call.op = "none"
  /\ timestamp[o] = 0
  /\ call' = [op |-> "access", uses |-> {o}, count |-> 0]
  /\ UNCHANGED <<counters, cached_timestamp, gpu, timestamp>>

AccessDone ==
  /\ call.op = "access"
  /\ call' = NoCall
  /\ UNCHANGED <<counters, cached_timestamp, gpu, timestamp>>

(* rsxgl_timestamp_passed: asking whether the GPU is done with o.           *)
Poll(o) ==
  /\ call.op = "none"
  /\ put' = Len(fifo)
  /\ cached_timestamp' = CachedAfter(timestamp[o])
  /\ UNCHANGED <<counters, label, fifo, timestamp, call>>

(* glFlush, and every other call that ends with rsxgl_gcm_flush.            *)
Flush ==
  /\ call.op = "none"
  /\ put' = Len(fifo)
  /\ UNCHANGED <<counters, cached_timestamp, label, fifo, timestamp, call>>

(* The GPU executes its next command and writes the timestamp behind it.    *)
Execute ==
  /\ put > 0
  /\ label' = Head(fifo).signal
  /\ fifo' = Tail(fifo)
  /\ put' = put - 1
  /\ UNCHANGED <<counters, cached_timestamp, timestamp, call>>

-----------------------------------------------------------------------------

NextEpoch ==
  \/ \E S \in SUBSET Objects, count \in 1 .. MaxCount : Use(S, count)
  \/ \E o \in Objects : Wait(o) \/ WaitOver(o) \/ AccessAtOnce(o) \/ Poll(o)
  \/ AccessDone
  \/ Flush
  \/ Execute

Next ==
  \/ /\ \/ NextEpoch
        \/ \E S \in SUBSET Objects, count \in 1 .. MaxCount : UseOverflows(S, count)
     /\ UNCHANGED epoch
  \/ StartOver /\ epoch' = "later"

(* The GPU executes what it may fetch, and the CPU leaves a spin whose      *)
(* condition stays true.                                                    *)
Fairness ==
  /\ WF_state(Execute)
  /\ WF_state(\E o \in Objects : WaitOver(o))
  /\ WF_state(StartOver)

Spec == Init /\ [][Next]_vars

FairSpec == Spec /\ Fairness

-----------------------------------------------------------------------------

TypeOK ==
  /\ next_timestamp \in Nat
  /\ last_timestamp \in Nat
  /\ cached_timestamp \in Nat
  /\ label \in Nat
  /\ timestamp \in [Objects -> Nat]
  /\ fifo \in Seq(Command)
  /\ put \in 0 .. Len(fifo)
  /\ call \in Call
  /\ epoch \in {"first", "later"}

(* While the CPU is at an object's memory, no command that the GPU has yet  *)
(* to finish uses the object.                                               *)
Exclusive ==
  \A o \in Objects :
    call.op = "access" /\ o \in call.uses => ~InFlight(o)

(* What the timestamps are for (STATUS: "the application will wait for the  *)
(* GPU to finish").  When they start over the label still shows the last    *)
(* one, so that the next waits are over at once: it holds up to then.       *)
ExclusiveAtFirst == epoch = "first" => Exclusive

(* The CPU never believes the GPU to be further than it is: the timestamp   *)
(* it remembers is no later than one the GPU has written, and earlier than  *)
(* that of every command still to be executed.                              *)
CachedIsPast ==
  /\ cached_timestamp <= label
  /\ \A i \in 1 .. Len(fifo) : cached_timestamp < fifo[i].signal

(* Why that is so, until the timestamps run out: the label and the commands *)
(* not executed yet count up to last_timestamp without a gap, and whatever  *)
(* such a command uses bears a stamp at least as late as the command's own. *)
SignalsInOrder ==
  /\ next_timestamp = last_timestamp + 1
  /\ last_timestamp = label + Len(fifo)
  /\ \A i \in 1 .. Len(fifo) : fifo[i].signal = label + i

StampsCoverUses ==
  \A i \in 1 .. Len(fifo) :
    \A o \in fifo[i].uses : fifo[i].signal <= timestamp[o]

EpochInv ==
  /\ TypeOK
  /\ SignalsInOrder
  /\ StampsCoverUses
  /\ cached_timestamp <= label
  /\ Exclusive

(* The invariant that explains the protocol (rsxgl_timestamp_create, _post  *)
(* and _wait), until the timestamps start over.                             *)
EpochInvAtFirst == epoch = "first" => EpochInv

(* The assertion of rsxgl_buffer_validate and glCopyBufferSubData           *)
(* (timestamp >= buffer.timestamp): no object bears a stamp later than the  *)
(* one the next use will give it, whenever the timestamps start over, as    *)
(* long as all stamps are cleared then (Reset = Objects).                   *)
StampsNotAhead ==
  /\ TypeOK
  /\ \A o \in Objects : timestamp[o] < next_timestamp

(* Every wait for an object comes to an end: its stamp is one that a        *)
(* command already in the stream will write, and the stream was flushed.    *)
WaitEnds == call.op = "wait" ~> call.op = "access"

(* A call that finds the timestamps used up gets new ones, if the GPU was   *)
(* told of all commands before.  If it was not, the call spins forever: it  *)
(* waits with the function that does not flush.                             *)
CreateEnds == (call.op = "create" /\ put = Len(fifo)) ~> call.op = "none"

-----------------------------------------------------------------------------

(* The commands still to be executed and what the CPU holds, as ObjectTurns *)
(* has them, until the timestamps start over.  The GPU is idle then, and    *)
(* the mapping stays at that.                                               *)
Pending == IF epoch = "first" THEN [i \in 1 .. Len(fifo) |-> fifo[i].uses] ELSE << >>

Held == IF epoch = "first" /\ call.op = "access" THEN call.uses ELSE {}

Turns == INSTANCE ObjectTurns WITH pending <- Pending, held <- Held

(* What the timestamps implement (STATUS: "the application will wait for    *)
(* the GPU to finish"): CPU and GPU take turns on every object.             *)
TakesTurns == Turns!Spec

=============================================================================
