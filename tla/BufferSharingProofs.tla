------------------------- MODULE BufferSharingProofs -------------------------
(***************************************************************************)
(* Theorems about VertexAttribs and BufferSharing, for any vertex arrays,  *)
(* attributes, programs and buffers, and any length of the command stream. *)
(*                                                                         *)
(* First, VertexAttribs: the registers follow the state of the vertex      *)
(* arrays unless one of the three calls that leave out a flag came in      *)
(* between.  That is not inductive.  glUseProgram drops the flags of       *)
(* inputs that were set for the program before, and this is harmless only  *)
(* because the attributes have flags of their own.  StableFollows says     *)
(* what these are good for: the inputs of a program whose attributes all   *)
(* programs have in the same places are right even while it is not active. *)
(*                                                                         *)
(* Then BufferSharing: every step of it is one of VertexAttribs, and the   *)
(* CPU is never at a buffer for which a queued command was stamped.  The   *)
(* invariant is that of Timestamps, except that timestamps have gaps:      *)
(* those that draws took that were discarded are never posted.             *)
(***************************************************************************)
EXTENDS BufferSharing, TLAPS

USE VertexAttribsAssumption

(* What an input that stands for attribute a is to fetch from.              *)
SourceOf(a) ==
  IF buffers[attribs_binding][a] \in memory
  THEN buffers[attribs_binding][a] ELSE NoBuffer

(* The register of input i is right for attribute a, or a is flagged.       *)
Right(i, a) ==
  a \in enabled[attribs_binding] /\ a \notin invalid_attribs => vtxbuf[i] = SourceOf(a)

Stable(p) == \A q \in Programs : SamePlaces(p, q)

StableFollows ==
  \A p \in Programs :
    Stable(p) => \A i \in attribs_enabled[p] : Right(i, attrib_assignments[p][i])

InputsFollow ==
  program # NoProgram =>
    \A i \in attribs_enabled[program] :
      i \notin invalid_attrib_assignments => Right(i, attrib_assignments[program][i])

FollowsInv == TypeOK /\ (lapsed = {} => StableFollows /\ InputsFollow)

-----------------------------------------------------------------------------

LEMMA ProgramFacts ==
  ASSUME NEW p \in Programs, NEW i \in attribs_enabled[p]
  PROVE  i \in Attribs /\ attrib_assignments[p][i] \in Attribs
  OBVIOUS

LEMMA InvImpliesFollows == FollowsInv => FollowsUnlessLapsed
  <1> SUFFICES ASSUME FollowsInv, lapsed = {}, NEW i \in Inputs,
                      IsFetched(i), ~IsInvalid(i)
               PROVE  vtxbuf[i] = Source(i)
    BY DEF FollowsInv, FollowsUnlessLapsed, HardwareFollows
  <1>1. program # NoProgram /\ i \in attribs_enabled[program]
    BY DEF Inputs
  <1>2. Right(i, AttribOf(i))
    BY <1>1 DEF FollowsInv, InputsFollow, AttribOf, IsInvalid
  <1> QED BY <1>2 DEF Right, SourceOf, Source, IsFetched, IsInvalid

LEMMA TypeStep ==
  ASSUME TypeOK, [Next]_vars
  PROVE  TypeOK'
  <1> USE DEF TypeOK, Causes
  <1>1. ASSUME NEW a \in VertexArrays, BindVertexArray(a)
        PROVE  TypeOK'
    BY <1>1 DEF BindVertexArray, bufferVars
  <1>2. ASSUME NEW a \in VertexArrays, DeleteVertexArray(a)
        PROVE  TypeOK'
    BY <1>2 DEF DeleteVertexArray, bufferVars, flagVars, NoBuffers
  <1>3. ASSUME NEW i \in Attribs, NEW on \in BOOLEAN, EnableAttrib(i, on)
        PROVE  TypeOK'
    BY <1>3 DEF EnableAttrib, bufferVars
  <1>4. ASSUME NEW i \in Attribs, NEW b \in Buffers \cup {NoBuffer}, AttribPointer(i, b)
        PROVE  TypeOK'
    BY <1>4 DEF AttribPointer, bufferVars
  <1>5. ASSUME NEW b \in Buffers, NEW size \in 0 .. 1, BufferData(b, size)
        PROVE  TypeOK'
    BY <1>5 DEF BufferData, arrayVars, FreedIn, AttachedAt
  <1>6. ASSUME NEW b \in Buffers, BufferDataFails(b)
        PROVE  TypeOK'
    BY <1>6 DEF BufferDataFails, arrayVars, flagVars, FreedIn
  <1>7. ASSUME NEW b \in Buffers, MapBuffer(b) \/ UnmapBuffer(b)
        PROVE  TypeOK'
    BY <1>7 DEF MapBuffer, UnmapBuffer, arrayVars, flagVars
  <1>8. ASSUME NEW p \in Programs \cup {NoProgram}, UseProgram(p)
        PROVE  TypeOK'
    BY <1>8 DEF UseProgram, arrayVars, bufferVars, Reassigned
  <1>9. CASE Draw
    <2>1. \A i \in Written : Source(i) \in Buffers \cup {NoBuffer}
      BY DEF Source
    <2>2. vtxbuf' \in [Attribs -> Buffers \cup {NoBuffer, Freed}]
      BY <1>9, <2>1 DEF Draw
    <2>3. /\ invalid_attribs' \subseteq invalid_attribs
          /\ invalid_attrib_assignments' = {}
          /\ UNCHANGED <<attribs_binding, enabled, buffers, mapped, memory, program, lapsed>>
      BY <1>9 DEF Draw, arrayVars, bufferVars
    <2> QED BY <2>2, <2>3
  <1>10. CASE UNCHANGED vars
    BY <1>10 DEF vars, arrayVars, bufferVars, flagVars
  <1> QED BY <1>1, <1>2, <1>3, <1>4, <1>5, <1>6, <1>7, <1>8, <1>9, <1>10 DEF Next

-----------------------------------------------------------------------------
(* What the calls leave right, draws and changes of program aside.          *)

LEMMA RightStep ==
  ASSUME TypeOK, [Next]_vars, lapsed' = {},
         ~Draw, \A p \in Programs \cup {NoProgram} : ~UseProgram(p)
  PROVE  /\ UNCHANGED <<program, invalid_attrib_assignments>>
         /\ \A i, a \in Attribs : (lapsed = {} => Right(i, a)) => Right(i, a)'
  <1> DEFINE Goal == /\ UNCHANGED <<program, invalid_attrib_assignments>>
                     /\ \A i, a \in Attribs : (lapsed = {} => Right(i, a)) => Right(i, a)'
  <1> USE DEF TypeOK, Right, SourceOf
  <1>1. ASSUME NEW v \in VertexArrays, BindVertexArray(v)
        PROVE  Goal
    BY <1>1 DEF BindVertexArray
  <1>2. ASSUME NEW v \in VertexArrays, DeleteVertexArray(v)
        PROVE  Goal
    <2>1. v # attribs_binding /\ lapsed = {}
      BY <1>2 DEF DeleteVertexArray
    <2> QED BY <1>2, <2>1 DEF DeleteVertexArray, bufferVars, flagVars
  <1>3. ASSUME NEW j \in Attribs, NEW on \in BOOLEAN, EnableAttrib(j, on)
        PROVE  Goal
    BY <1>3 DEF EnableAttrib, bufferVars
  <1>4. ASSUME NEW j \in Attribs, NEW b \in Buffers \cup {NoBuffer}, AttribPointer(j, b)
        PROVE  Goal
    BY <1>4 DEF AttribPointer, bufferVars
  <1>5. ASSUME NEW b \in Buffers, NEW size \in 0 .. 1, BufferData(b, size)
        PROVE  Goal
    BY <1>5 DEF BufferData, arrayVars, FreedIn, AttachedAt
  <1>6. ASSUME NEW b \in Buffers, BufferDataFails(b)
        PROVE  Goal
    <2>1. AttachedAt(b) = {} /\ lapsed = {}
      BY <1>6 DEF BufferDataFails
    <2> QED BY <1>6, <2>1 DEF BufferDataFails, arrayVars, flagVars, FreedIn, AttachedAt
  <1>7. ASSUME NEW b \in Buffers, MapBuffer(b) \/ UnmapBuffer(b)
        PROVE  Goal
    BY <1>7 DEF MapBuffer, UnmapBuffer, arrayVars, flagVars
  <1>8. ASSUME UNCHANGED vars
        PROVE  Goal
    <2>1. UNCHANGED <<attribs_binding, enabled, buffers, memory, program, invalid_attribs,
                      invalid_attrib_assignments, vtxbuf, lapsed>>
      BY <1>8, Zenon DEF vars, arrayVars, bufferVars, flagVars
    <2> QED BY <2>1
  <1> HIDE DEF TypeOK, Right, SourceOf, Goal
  <1>9. Goal
    BY <1>1, <1>2, <1>3, <1>4, <1>5, <1>6, <1>7, <1>8 DEF Next
  <1> QED BY <1>9 DEF Goal

(* glUseProgram touches neither registers nor flags of attributes.  The     *)
(* inputs it does not flag had the same attribute before, or have a place   *)
(* of their own.                                                            *)
LEMMA UseProgramStep ==
  ASSUME TypeOK, NEW p \in Programs \cup {NoProgram}, UseProgram(p),
         lapsed = {} => StableFollows /\ InputsFollow, lapsed' = {}
  PROVE  StableFollows' /\ InputsFollow'
  <1>1. UNCHANGED <<attribs_binding, enabled, buffers, memory, invalid_attribs, vtxbuf>>
    BY DEF UseProgram, arrayVars, bufferVars
  <1>2. \A i, a : Right(i, a)' <=> Right(i, a)
    BY <1>1 DEF Right, SourceOf
  <1>3. lapsed = {} /\ StableFollows /\ InputsFollow
    BY DEF UseProgram
  <1>4. StableFollows'
    BY <1>2, <1>3 DEF StableFollows
  <1>5. InputsFollow'
    <2> SUFFICES ASSUME p # NoProgram, NEW i \in attribs_enabled[p],
                        i \notin invalid_attrib_assignments'
                 PROVE  Right(i, attrib_assignments[p][i])
      BY <1>2 DEF InputsFollow, UseProgram
    <2>1. program # NoProgram /\ i \notin Reassigned(program, p)
      BY DEF UseProgram
    <2>2. SwitchIsCovered(program, p)
      BY <2>1 DEF UseProgram
    <2>3. CASE Stable(p)
      BY <1>3, <2>3 DEF StableFollows
    <2>4. CASE /\ attribs_enabled[p] \subseteq attribs_enabled[program]
               /\ invalid_attrib_assignments \subseteq Reassigned(program, p)
      <3>1. /\ i \in attribs_enabled[program] \ invalid_attrib_assignments
            /\ attrib_assignments[program][i] = attrib_assignments[p][i]
        BY <2>1, <2>4 DEF Reassigned
      <3> QED BY <1>3, <2>1, <3>1 DEF InputsFollow
    <2> QED BY <2>2, <2>3, <2>4 DEF SwitchIsCovered, Stable
  <1> QED BY <1>4, <1>5

(* A draw makes right what was flagged, and touches no register that is     *)
(* right for an attribute in a place of its own.                            *)
LEMMA DrawStep ==
  ASSUME TypeOK, Draw, lapsed = {} => StableFollows /\ InputsFollow, lapsed' = {}
  PROVE  StableFollows' /\ InputsFollow'
  <1>1. /\ program \in Programs
        /\ UNCHANGED <<attribs_binding, enabled, buffers, memory, program>>
        /\ lapsed = {}
    BY DEF Draw, TypeOK, arrayVars, bufferVars
  <1>2. \A a : SourceOf(a)' = SourceOf(a)
    BY <1>1 DEF SourceOf
  <1>3. \A i \in Inputs : Source(i) = SourceOf(AttribOf(i))
    BY DEF Source, SourceOf
  <1>4. \A i \in Attribs :
          vtxbuf'[i] = IF i \in Written THEN SourceOf(AttribOf(i)) ELSE vtxbuf[i]
    BY <1>3 DEF Draw, Written
  <1>5. InputsFollow'
    <2> SUFFICES ASSUME NEW i \in attribs_enabled[program],
                        AttribOf(i) \in enabled[attribs_binding]
                 PROVE  vtxbuf'[i] = SourceOf(AttribOf(i))
      BY <1>1, <1>2 DEF InputsFollow, Right, AttribOf
    <2>1. i \in Inputs /\ i \in Attribs /\ IsFetched(i)
      BY <1>1, ProgramFacts DEF Inputs, IsFetched
    <2>2. CASE IsInvalid(i)
      BY <1>4, <2>1, <2>2 DEF Written
    <2>3. CASE ~IsInvalid(i)
      <3>1. Right(i, AttribOf(i)) /\ i \notin Written
        BY <1>1, <2>3 DEF InputsFollow, IsInvalid, AttribOf, Written
      <3> QED BY <1>4, <2>1, <2>3, <3>1 DEF Right, IsInvalid
    <2> QED BY <2>2, <2>3
  <1>6. StableFollows'
    <2> SUFFICES ASSUME NEW p \in Programs, Stable(p), NEW i \in attribs_enabled[p],
                        attrib_assignments[p][i] \in enabled[attribs_binding],
                        attrib_assignments[p][i] \notin invalid_attribs'
                 PROVE  vtxbuf'[i] = SourceOf(attrib_assignments[p][i])
      BY <1>1, <1>2 DEF StableFollows, Right, Stable, SamePlaces
    <2> DEFINE a == attrib_assignments[p][i]
    <2>1. i \in Attribs
      BY ProgramFacts
    <2>2. \A j \in attribs_enabled[program] : (i = j) <=> (a = AttribOf(j))
      BY <1>1 DEF Stable, SamePlaces, AttribOf
    <2>3. i \in Written => AttribOf(i) = a
      BY <1>1, <2>2 DEF Written, Inputs
    <2>4. CASE i \in Written
      BY <1>4, <2>1, <2>3, <2>4
    <2>5. CASE i \notin Written
      <3>1. a \notin invalid_attribs
        <4> SUFFICES ASSUME a \in invalid_attribs
                     PROVE  FALSE
          OBVIOUS
        <4>1. PICK j \in Inputs : IsInvalid(j) /\ AttribOf(j) = a
          BY DEF Draw
        <4>2. j = i /\ IsFetched(j)
          BY <1>1, <2>2, <4>1 DEF Inputs, IsFetched
        <4> QED BY <2>5, <4>1, <4>2 DEF Written
      <3>2. Right(i, a)
        BY <1>1 DEF StableFollows
      <3> QED BY <1>4, <2>1, <2>5, <3>1, <3>2 DEF Right
    <2> QED BY <2>4, <2>5
  <1> QED BY <1>5, <1>6

-----------------------------------------------------------------------------

(* The strengthening is inductive: every step keeps StableFollows, too.     *)
THEOREM VertexAttribsInvariant == Spec => []FollowsInv
  <1>1. Init => FollowsInv
    BY ProgramFacts
    DEF Init, FollowsInv, TypeOK, NoBuffers, StableFollows, InputsFollow, Right
  <1>2. FollowsInv /\ [Next]_vars => FollowsInv'
    <2> SUFFICES ASSUME FollowsInv, [Next]_vars
                 PROVE  FollowsInv'
      OBVIOUS
    <2>1. TypeOK /\ TypeOK'
      BY TypeStep DEF FollowsInv
    <2>2. ASSUME lapsed' = {}
          PROVE  StableFollows' /\ InputsFollow'
      <3>1. lapsed = {} => StableFollows /\ InputsFollow
        BY DEF FollowsInv
      <3>2. CASE Draw
        BY <2>1, <2>2, <3>1, <3>2, DrawStep
      <3>3. ASSUME NEW p \in Programs \cup {NoProgram}, UseProgram(p)
            PROVE  StableFollows' /\ InputsFollow'
        BY <2>1, <2>2, <3>1, <3>3, UseProgramStep
      <3>4. CASE ~Draw /\ \A p \in Programs \cup {NoProgram} : ~UseProgram(p)
        <4>1. /\ UNCHANGED <<program, invalid_attrib_assignments>>
              /\ \A i, a \in Attribs : (lapsed = {} => Right(i, a)) => Right(i, a)'
          BY <2>1, <2>2, <3>4, RightStep
        <4>2. StableFollows'
          BY <3>1, <4>1, ProgramFacts DEF StableFollows
        <4>3. InputsFollow'
          BY <2>1, <3>1, <4>1, ProgramFacts DEF InputsFollow, TypeOK
        <4> QED BY <4>2, <4>3
      <3> QED BY <3>2, <3>3, <3>4
    <2> QED BY <2>1, <2>2 DEF FollowsInv
  <1> QED BY <1>1, <1>2, PTL DEF Spec

(* Whatever vertex arrays, buffers and programs there are, a draw fetches   *)
(* each input from where the bound vertex array says, or writes its         *)
(* register first, unless one of the three calls left out a flag.           *)
THEOREM VertexAttribsFollow == Spec => []FollowsUnlessLapsed
  BY VertexAttribsInvariant, InvImpliesFollows, PTL

LEMMA UnmappedSource ==
  ASSUME TypeOK, Draw, NEW i \in Inputs, AttribOf(i) = i, IsFetched(i)
  PROVE  Source(i) \notin mapped
  <1>1. buffers[attribs_binding][i] \notin mapped
    BY DEF Draw, ArraysUnmapped, IsFetched
  <1>2. NoBuffer \notin mapped
    BY DEF TypeOK
  <1> QED BY <1>1, <1>2 DEF Source

(* glDrawArrays and the like refuse a mapped array (draw.cc:88), as far as  *)
(* the test goes: no draw makes an input that stands for the attribute of   *)
(* its own number fetch from a mapped buffer.                               *)
THEOREM VertexAttribsMapped == Spec => MappedNotDrawn
  <1>1. FollowsInv => TypeOK
    BY DEF FollowsInv
  <1>2. TypeOK /\ [Next]_vars =>
          [Draw => \A i \in Inputs : AttribOf(i) = i /\ IsFetched(i)
                                      => Source(i) \notin mapped]_vars
    BY UnmappedSource
  <1> QED BY <1>1, <1>2, VertexAttribsInvariant, PTL DEF Spec, MappedNotDrawn

(* What a draw finds in the registers, once it has written those that were  *)
(* flagged: every input for an enabled attribute fetches from the buffer    *)
(* the bound vertex array names, which is not mapped if the test covers it. *)
DrawnFromSource ==
  Draw /\ lapsed = {} =>
    \A i \in Inputs : IsFetched(i) =>
      /\ vtxbuf'[i] = Source(i)
      /\ AttribOf(i) = i => vtxbuf'[i] \notin mapped

(* Registers, flags and the test for mapped arrays work together: unless a  *)
(* flag was left out, a draw fetches from where the vertex array says and   *)
(* from no mapped buffer that the test covers, however long ago the         *)
(* registers were written.                                                  *)
THEOREM VertexAttribsDrawn == Spec => [][DrawnFromSource]_vars
  <1>1. ASSUME FollowsInv, Draw, lapsed = {}, NEW i \in Inputs, IsFetched(i)
        PROVE  vtxbuf'[i] = Source(i)
    <2>1. i \in Attribs
      BY <1>1, ProgramFacts DEF Inputs, FollowsInv, TypeOK
    <2>2. vtxbuf'[i] = IF i \in Written THEN Source(i) ELSE vtxbuf[i]
      BY <1>1, <2>1 DEF Draw
    <2>3. IsInvalid(i) => i \in Written
      BY <1>1 DEF Written
    <2>4. ~IsInvalid(i) => vtxbuf[i] = Source(i)
      BY <1>1, InvImpliesFollows DEF FollowsUnlessLapsed, HardwareFollows
    <2> QED BY <2>2, <2>3, <2>4
  <1>2. FollowsInv /\ [Next]_vars => [DrawnFromSource]_vars
    BY <1>1, UnmappedSource DEF DrawnFromSource, FollowsInv
  <1> QED BY <1>2, VertexAttribsInvariant, PTL DEF Spec

-----------------------------------------------------------------------------
(* The composition.                                                         *)

(* Each of its steps is one of VertexAttribs, or leaves that alone.         *)
LEMMA SharingIsNext == [SharingNext]_sharingVars => [Next]_vars
  <1>1. ASSUME NEW S, NEW count, DrawWith(S, count)
        PROVE  Next
    BY <1>1 DEF DrawWith, Next
  <1>2. ASSUME NEW count, DrawDiscarded(count)
        PROVE  Next
    BY <1>2 DEF DrawDiscarded, Next
  <1>3. ASSUME NEW b \in Buffers, AccessDone(b)
        PROVE  Next
    BY <1>3 DEF AccessDone, Next
  <1>4. StateCall => Next
    BY DEF StateCall, Next
  <1>5. ASSUME NEW b, NEW c,
               \/ CopyBufferSubData(b, c) \/ StartAccess(b) \/ WaitOver(b)
               \/ SubDataDone \/ Flush \/ Execute
        PROVE  UNCHANGED vars
    BY <1>5 DEF CopyBufferSubData, StartAccess, WaitOver, SubDataDone, Flush, Execute,
       attribVars
  <1>6. UNCHANGED sharingVars => UNCHANGED vars
    BY DEF sharingVars, attribVars
  <1> QED BY <1>1, <1>2, <1>3, <1>4, <1>5, <1>6 DEF SharingNext, DrawArrays, DrawElements

(* Label and queued commands are in order, though not without gaps.         *)
SignalsAscend ==
  /\ label < next_timestamp
  /\ \A i \in 1 .. Len(fifo) : label < fifo[i].signal /\ fifo[i].signal < next_timestamp
  /\ \A i, j \in 1 .. Len(fifo) : i < j => fifo[i].signal < fifo[j].signal

StampInv ==
  /\ TS!TypeOK
  /\ SignalsAscend
  /\ TS!StampsCoverUses
  /\ cached_timestamp <= label
  /\ TS!Exclusive

FetchesMatch == fetches \in Seq(SUBSET Buffers) /\ Len(fetches) = Len(fifo)

SharingInv == TypeOK /\ StampInv /\ FetchesMatch

LEMMA StampInit == TS!Init => StampInv
  BY DEF TS!Init, StampInv, TS!TypeOK, SignalsAscend, TS!StampsCoverUses,
     TS!Exclusive, TS!InFlight, TS!NoCall, TS!Call, TS!Command

(* What a sequence appended to another gives.                               *)
LEMMA Appending ==
  ASSUME NEW T, NEW f \in Seq(T), NEW c \in Seq(T)
  PROVE  /\ f \o c \in Seq(T)
         /\ Len(f) \in Nat /\ Len(c) \in Nat
         /\ Len(f \o c) = Len(f) + Len(c)
         /\ \A i \in 1 .. Len(f) : (f \o c)[i] = f[i]
         /\ \A i \in Len(f) + 1 .. Len(f) + Len(c) :
              i - Len(f) \in 1 .. Len(c) /\ (f \o c)[i] = c[i - Len(f)]
  <1>1. f \o c \in Seq(T) /\ Len(f) \in Nat /\ Len(c) \in Nat
    OBVIOUS
  <1>2. Len(f \o c) = Len(f) + Len(c)
    OBVIOUS
  <1>3. \A i \in 1 .. Len(f) : (f \o c)[i] = f[i]
    OBVIOUS
  <1>4. \A i \in Len(f) + 1 .. Len(f) + Len(c) :
          i - Len(f) \in 1 .. Len(c) /\ (f \o c)[i] = c[i - Len(f)]
    OBVIOUS
  <1> QED BY <1>1, <1>2, <1>3, <1>4

(* The stream after the commands of a call were appended.                   *)
LEMMA AppendedCommands ==
  ASSUME StampInv, NEW S \in SUBSET Buffers, NEW count \in Nat,
         fifo' = fifo \o TS!Commands(S, next_timestamp, count)
  PROVE  /\ fifo' \in Seq(TS!Command)
         /\ Len(fifo') = Len(fifo) + count
         /\ \A i \in 1 .. Len(fifo) : fifo'[i] = fifo[i]
         /\ \A i \in Len(fifo) + 1 .. Len(fifo) + count :
              /\ fifo'[i].signal = next_timestamp + (i - Len(fifo)) - 1
              /\ fifo'[i].uses = S
  <1> DEFINE c == TS!Commands(S, next_timestamp, count)
  <1>1. next_timestamp \in Nat /\ next_timestamp > 0 /\ fifo \in Seq(TS!Command)
    BY DEF StampInv, TS!TypeOK, SignalsAscend
  <1>2. /\ c \in Seq(TS!Command) /\ Len(c) = count
        /\ \A i \in 1 .. count : c[i].signal = next_timestamp + i - 1 /\ c[i].uses = S
    <2>1. \A i \in 1 .. count :
            [signal |-> next_timestamp + i - 1, uses |-> S] \in TS!Command
      BY <1>1 DEF TS!Command
    <2> QED BY <2>1 DEF TS!Commands
  <1> HIDE DEF c
  <1>3. fifo' = fifo \o c
    BY DEF c
  <1>4. ASSUME NEW i \in Len(fifo) + 1 .. Len(fifo) + count
        PROVE  fifo'[i].signal = next_timestamp + (i - Len(fifo)) - 1 /\ fifo'[i].uses = S
    <2>1. i - Len(fifo) \in 1 .. count /\ fifo'[i] = c[i - Len(fifo)]
      BY <1>1, <1>2, <1>3, Appending
    <2> QED BY <2>1, <1>2
  <1>5. fifo' \in Seq(TS!Command) /\ Len(fifo') = Len(fifo) + count
    <2> DEFINE T == TS!Command
    <2>1. fifo \in Seq(T) /\ c \in Seq(T)
      BY <1>1, <1>2
    <2> HIDE DEF T
    <2>2. fifo \o c \in Seq(T) /\ Len(fifo \o c) = Len(fifo) + Len(c)
      BY <2>1, Appending
    <2> QED BY <1>2, <1>3, <2>2 DEF T
  <1>6. \A i \in 1 .. Len(fifo) : fifo'[i] = fifo[i]
    BY <1>1, <1>2, <1>3, Appending
  <1> QED BY <1>4, <1>5, <1>6

(* A draw or a copy stamps what its commands use with the last of their     *)
(* timestamps.                                                              *)
LEMMA UseKeepsStampInv ==
  ASSUME StampInv, NEW S \in SUBSET Buffers, NEW count \in Nat, count > 0, TS!Use(S, count)
  PROVE  StampInv' /\ Len(fifo') = Len(fifo) + count
  <1>1. /\ next_timestamp \in Nat /\ label \in Nat /\ label < next_timestamp
        /\ count \in Nat /\ count > 0
        /\ fifo \in Seq(TS!Command) /\ Len(fifo) \in Nat
        /\ timestamp \in [Buffers -> Nat]
    BY DEF StampInv, TS!TypeOK, SignalsAscend
  <1>2. /\ fifo' = fifo \o TS!Commands(S, next_timestamp, count)
        /\ timestamp' = [o \in Buffers |-> IF o \in S THEN next_timestamp + count - 1
                                           ELSE timestamp[o]]
        /\ last_timestamp' = next_timestamp + count - 1
        /\ next_timestamp' = next_timestamp + count
        /\ UNCHANGED <<cached_timestamp, label, put, call>>
        /\ call.op = "none"
    BY DEF TS!Use, TS!Submit, TS!Stamped
  <1>3. /\ fifo' \in Seq(TS!Command)
        /\ Len(fifo') = Len(fifo) + count
        /\ \A i \in 1 .. Len(fifo) : fifo'[i] = fifo[i]
        /\ \A i \in Len(fifo) + 1 .. Len(fifo) + count :
             /\ fifo'[i].signal = next_timestamp + (i - Len(fifo)) - 1
             /\ fifo'[i].uses = S
    BY <1>1, <1>2, AppendedCommands
  <1>4. TS!TypeOK'
    BY <1>1, <1>2, <1>3 DEF StampInv, TS!TypeOK
  <1>5. \A i \in 1 .. Len(fifo) :
          /\ fifo[i].signal \in Nat /\ fifo[i].uses \subseteq Buffers
          /\ label < fifo[i].signal /\ fifo[i].signal < next_timestamp
    <2>1. \A i \in 1 .. Len(fifo) : fifo[i] \in TS!Command
      BY <1>1
    <2> QED BY <2>1 DEF TS!Command, StampInv, SignalsAscend
  <1>6. SignalsAscend'
    <2>1. ASSUME NEW i \in 1 .. Len(fifo')
          PROVE  label' < fifo'[i].signal /\ fifo'[i].signal < next_timestamp'
      <3>1. CASE i \in 1 .. Len(fifo)
        BY <1>1, <1>2, <1>3, <1>5, <3>1
      <3>2. CASE i \in Len(fifo) + 1 .. Len(fifo) + count
        BY <1>1, <1>2, <1>3, <3>2
      <3> QED BY <1>1, <1>3, <3>1, <3>2
    <2>2. ASSUME NEW i \in 1 .. Len(fifo'), NEW j \in 1 .. Len(fifo'), i < j
          PROVE  fifo'[i].signal < fifo'[j].signal
      <3>1. CASE j \in 1 .. Len(fifo)
        <4>1. i \in 1 .. Len(fifo) /\ fifo'[i] = fifo[i] /\ fifo'[j] = fifo[j]
          BY <1>1, <1>3, <2>2, <3>1
        <4> QED BY <2>2, <3>1, <4>1 DEF StampInv, SignalsAscend
      <3>2. CASE i \in 1 .. Len(fifo) /\ j \in Len(fifo) + 1 .. Len(fifo) + count
        <4>1. fifo'[i].signal \in Nat /\ fifo'[i].signal < next_timestamp
          BY <1>3, <1>5, <3>2
        <4>2. fifo'[j].signal = next_timestamp + (j - Len(fifo)) - 1
          BY <1>3, <3>2
        <4>3. j \in Nat /\ j > Len(fifo)
          BY <1>1, <3>2
        <4>4. next_timestamp + (j - Len(fifo)) - 1 >= next_timestamp
          BY <1>1, <4>3
        <4>5. next_timestamp + (j - Len(fifo)) - 1 \in Nat
          BY <1>1, <4>3
        <4>6. fifo'[j].signal \in Nat /\ fifo'[j].signal >= next_timestamp
          BY <4>2, <4>4, <4>5
        <4> QED BY <1>1, <4>1, <4>6
      <3>3. CASE /\ i \in Len(fifo) + 1 .. Len(fifo) + count
                 /\ j \in Len(fifo) + 1 .. Len(fifo) + count
        BY <1>1, <1>3, <2>2, <3>3
      <3> QED BY <1>1, <1>3, <2>2, <3>1, <3>2, <3>3
    <2> QED BY <1>1, <1>2, <2>1, <2>2 DEF SignalsAscend
  <1>7. TS!StampsCoverUses'
    <2> SUFFICES ASSUME NEW i \in 1 .. Len(fifo'), NEW o \in fifo'[i].uses
                 PROVE  fifo'[i].signal <= timestamp'[o]
      BY DEF TS!StampsCoverUses
    <2>1. CASE i \in 1 .. Len(fifo)
      <3>1. fifo'[i] = fifo[i] /\ o \in Buffers /\ fifo[i].signal <= timestamp[o]
        BY <1>3, <1>5, <2>1 DEF StampInv, TS!StampsCoverUses
      <3>2. timestamp'[o] \in {timestamp[o], next_timestamp + count - 1}
        BY <1>2, <3>1
      <3>3. fifo[i].signal \in Nat /\ fifo[i].signal < next_timestamp
        BY <1>5, <2>1
      <3>4. next_timestamp <= next_timestamp + count - 1
        BY <1>1
      <3>5. fifo[i].signal <= next_timestamp + count - 1
        BY <1>1, <3>3, <3>4
      <3> QED BY <3>1, <3>2, <3>5
    <2>2. CASE i \in Len(fifo) + 1 .. Len(fifo) + count
      <3>1. o \in Buffers /\ o \in S
        BY <1>3, <2>2
      <3>2. timestamp'[o] = next_timestamp + count - 1
        BY <1>2, <3>1
      <3>3. /\ fifo'[i].signal = next_timestamp + (i - Len(fifo)) - 1
            /\ i \in Nat /\ i <= Len(fifo) + count
        BY <1>1, <1>3, <2>2
      <3>4. next_timestamp + (i - Len(fifo)) - 1 <= next_timestamp + count - 1
        BY <1>1, <3>3
      <3> QED BY <3>2, <3>3, <3>4
    <2> QED BY <1>1, <1>3, <2>1, <2>2
  <1>8. TS!Exclusive'
    BY <1>2 DEF TS!Exclusive
  <1> QED BY <1>2, <1>3, <1>4, <1>6, <1>7, <1>8 DEF StampInv

(* A draw that is discarded leaves a gap in the timestamps.                 *)
LEMMA DrawDiscardedKeepsStampInv ==
  ASSUME StampInv, NEW count \in 1 .. MaxCount, DrawDiscarded(count)
  PROVE  StampInv' /\ fifo' = fifo /\ fetches' = fetches
  <1>1. /\ next_timestamp \in Nat /\ label \in Nat /\ label < next_timestamp
        /\ count \in Nat /\ count > 0
        /\ timestamp \in [Buffers -> Nat]
    BY DEF StampInv, TS!TypeOK, SignalsAscend
  <1>2. /\ timestamp' = [o \in Buffers |->
                           IF o \in Validated THEN next_timestamp + count - 1
                           ELSE timestamp[o]]
        /\ next_timestamp' = next_timestamp + count
        /\ UNCHANGED <<last_timestamp, cached_timestamp, label, fifo, put, call, fetches>>
    BY DEF DrawDiscarded, TS!Stamped
  <1>3. \A i \in 1 .. Len(fifo) :
          /\ fifo[i].signal \in Nat /\ fifo[i].uses \subseteq Buffers
          /\ fifo[i].signal < next_timestamp
    <2>1. \A i \in 1 .. Len(fifo) : fifo[i] \in TS!Command
      BY DEF StampInv, TS!TypeOK
    <2> QED BY <2>1 DEF TS!Command, StampInv, SignalsAscend
  <1>4. TS!TypeOK'
    BY <1>1, <1>2 DEF StampInv, TS!TypeOK
  <1>5. SignalsAscend'
    BY <1>1, <1>2, <1>3 DEF StampInv, SignalsAscend
  <1>6. TS!StampsCoverUses'
    <2> SUFFICES ASSUME NEW i \in 1 .. Len(fifo), NEW o \in fifo[i].uses
                 PROVE  fifo[i].signal <= timestamp'[o]
      BY <1>2 DEF TS!StampsCoverUses
    <2>1. o \in Buffers /\ fifo[i].signal <= timestamp[o]
      BY <1>3 DEF StampInv, TS!StampsCoverUses
    <2> QED BY <1>1, <1>2, <1>3, <2>1
  <1>7. TS!Exclusive'
    BY <1>2 DEF StampInv, TS!Exclusive, TS!InFlight
  <1> QED BY <1>2, <1>4, <1>5, <1>6, <1>7 DEF StampInv

(* Once the wait is over no queued command was stamped on the buffer.       *)
LEMMA ReachedMeansIdle ==
  ASSUME StampInv, NEW b \in Buffers, TS!Reached(timestamp[b])
  PROVE  ~TS!InFlight(b)
  <1>1. timestamp[b] <= label /\ timestamp[b] \in Nat /\ label \in Nat
    BY DEF TS!Reached, StampInv, TS!TypeOK
  <1> SUFFICES ASSUME NEW i \in 1 .. Len(fifo), b \in fifo[i].uses
               PROVE  FALSE
    BY DEF TS!InFlight
  <1>2. fifo[i] \in TS!Command
    BY DEF StampInv, TS!TypeOK
  <1>3. fifo[i].signal \in Nat /\ label < fifo[i].signal /\ fifo[i].signal <= timestamp[b]
    BY <1>2 DEF TS!Command, StampInv, SignalsAscend, TS!StampsCoverUses
  <1> QED BY <1>1, <1>3

LEMMA WaitOverKeepsStampInv ==
  ASSUME StampInv, NEW b \in Buffers, TS!WaitOver(b)
  PROVE  StampInv' /\ fifo' = fifo
  <1>1. ~TS!InFlight(b)
    BY ReachedMeansIdle DEF TS!WaitOver
  <1>2. /\ timestamp' = [timestamp EXCEPT ![b] = 0]
        /\ cached_timestamp' = TS!CachedAfter(timestamp[b])
        /\ call' = [call EXCEPT !.op = "access"]
        /\ UNCHANGED <<next_timestamp, last_timestamp, label, fifo, put>>
        /\ call.uses = {b}
    BY DEF TS!WaitOver, TS!counters, TS!gpu
  <1>3. TS!TypeOK'
    BY <1>2 DEF StampInv, TS!TypeOK, TS!CachedAfter, TS!Call
  <1>4. SignalsAscend'
    BY <1>2 DEF StampInv, SignalsAscend
  <1>5. TS!StampsCoverUses'
    BY <1>1, <1>2 DEF StampInv, TS!TypeOK, TS!StampsCoverUses, TS!InFlight
  <1>6. cached_timestamp' <= label'
    BY <1>2 DEF StampInv, TS!TypeOK, TS!CachedAfter
  <1>7. TS!Exclusive'
    <2>1. call'.uses = {b}
      BY <1>2 DEF StampInv, TS!TypeOK, TS!Call
    <2> QED BY <1>1, <1>2, <2>1 DEF TS!Exclusive, TS!InFlight
  <1> QED BY <1>2, <1>3, <1>4, <1>5, <1>6, <1>7 DEF StampInv

LEMMA AccessAtOnceKeepsStampInv ==
  ASSUME StampInv, NEW b \in Buffers, TS!AccessAtOnce(b)
  PROVE  StampInv' /\ fifo' = fifo
  <1>1. ~TS!InFlight(b)
    BY ReachedMeansIdle DEF TS!AccessAtOnce, TS!Reached, StampInv, TS!TypeOK
  <1>2. /\ call' = [op |-> "access", uses |-> {b}, count |-> 0]
        /\ UNCHANGED <<next_timestamp, last_timestamp, cached_timestamp, label, fifo, put,
                       timestamp>>
    BY DEF TS!AccessAtOnce, TS!counters, TS!gpu
  <1>3. TS!TypeOK'
    BY <1>2 DEF StampInv, TS!TypeOK, TS!Call
  <1>4. SignalsAscend' /\ TS!StampsCoverUses' /\ cached_timestamp' <= label'
    BY <1>2 DEF StampInv, SignalsAscend, TS!StampsCoverUses
  <1>5. TS!Exclusive'
    BY <1>1, <1>2 DEF TS!Exclusive, TS!InFlight
  <1> QED BY <1>2, <1>3, <1>4, <1>5 DEF StampInv

(* What neither uses a buffer nor ends a wait.                              *)
LEMMA OthersKeepStampInv ==
  ASSUME StampInv,
         \/ \E b \in Buffers : TS!Wait(b)
         \/ TS!AccessDone \/ TS!Flush \/ UNCHANGED stampVars
  PROVE  StampInv' /\ fifo' = fifo
  <1>1. /\ UNCHANGED <<next_timestamp, last_timestamp, cached_timestamp, label, fifo,
                       timestamp>>
        /\ put' \in {put, Len(fifo)}
        /\ \/ call' = call
           \/ \E b \in Buffers : call' = [op |-> "wait", uses |-> {b}, count |-> 0]
           \/ call' = [op |-> "none", uses |-> {}, count |-> 0]
    BY DEF TS!Wait, TS!AccessDone, TS!Flush, stampVars, TS!counters, TS!gpu, TS!NoCall
  <1>2. TS!TypeOK'
    BY <1>1 DEF StampInv, TS!TypeOK, TS!Call
  <1>3. SignalsAscend' /\ TS!StampsCoverUses' /\ cached_timestamp' <= label'
    BY <1>1 DEF StampInv, SignalsAscend, TS!StampsCoverUses
  <1>4. TS!Exclusive'
    BY <1>1 DEF StampInv, TS!Exclusive, TS!InFlight
  <1> QED BY <1>1, <1>2, <1>3, <1>4 DEF StampInv

LEMMA ExecuteKeepsStampInv ==
  ASSUME StampInv, TS!Execute
  PROVE  /\ StampInv'
         /\ fifo # << >> /\ Len(fifo') = Len(fifo) - 1
  <1>1. fifo \in Seq(TS!Command) /\ fifo # << >> /\ put \in 1 .. Len(fifo) /\ label \in Nat
    BY DEF StampInv, TS!TypeOK, TS!Execute
  <1>2. /\ fifo' \in Seq(TS!Command) /\ Len(fifo') = Len(fifo) - 1 /\ Len(fifo) > 0
        /\ \A i \in 1 .. Len(fifo') : i + 1 \in 1 .. Len(fifo) /\ fifo'[i] = fifo[i + 1]
        /\ 1 \in 1 .. Len(fifo) /\ label' = fifo[1].signal
        /\ put' = put - 1
        /\ UNCHANGED <<next_timestamp, last_timestamp, cached_timestamp, timestamp, call>>
    BY <1>1 DEF TS!Execute, TS!counters
  <1>3. \A i \in 1 .. Len(fifo) : fifo[i].signal \in Nat
    <2>1. \A i \in 1 .. Len(fifo) : fifo[i] \in TS!Command
      BY <1>1
    <2> QED BY <2>1 DEF TS!Command
  <1>4. TS!TypeOK'
    BY <1>1, <1>2, <1>3 DEF StampInv, TS!TypeOK
  <1>5. SignalsAscend'
    <2>1. label' < next_timestamp' /\ cached_timestamp' <= label'
      BY <1>1, <1>2, <1>3 DEF StampInv, TS!TypeOK, SignalsAscend
    <2>2. ASSUME NEW i \in 1 .. Len(fifo')
          PROVE  label' < fifo'[i].signal /\ fifo'[i].signal < next_timestamp'
      <3>1. i + 1 \in 1 .. Len(fifo) /\ fifo'[i] = fifo[i + 1] /\ 1 < i + 1
        BY <1>2
      <3> QED BY <1>2, <3>1 DEF StampInv, SignalsAscend
    <2>3. ASSUME NEW i \in 1 .. Len(fifo'), NEW j \in 1 .. Len(fifo'), i < j
          PROVE  fifo'[i].signal < fifo'[j].signal
      <3>1. /\ i + 1 \in 1 .. Len(fifo) /\ fifo'[i] = fifo[i + 1]
            /\ j + 1 \in 1 .. Len(fifo) /\ fifo'[j] = fifo[j + 1]
            /\ i + 1 < j + 1
        BY <1>2, <2>3
      <3> QED BY <3>1 DEF StampInv, SignalsAscend
    <2> QED BY <2>1, <2>2, <2>3 DEF SignalsAscend
  <1>6. cached_timestamp' <= label'
    BY <1>1, <1>2, <1>3 DEF StampInv, TS!TypeOK, SignalsAscend
  <1>7. TS!StampsCoverUses'
    BY <1>2 DEF StampInv, TS!StampsCoverUses
  <1>8. TS!Exclusive'
    <2>1. ASSUME NEW o \in Buffers, TS!InFlight(o)'
          PROVE  TS!InFlight(o)
      <3> PICK i \in 1 .. Len(fifo') : o \in fifo'[i].uses
        BY <2>1 DEF TS!InFlight
      <3>1. i + 1 \in 1 .. Len(fifo) /\ o \in fifo[i + 1].uses
        BY <1>2
      <3> QED BY <3>1 DEF TS!InFlight
    <2> QED BY <1>2, <2>1 DEF StampInv, TS!Exclusive
  <1> QED BY <1>1, <1>2, <1>4, <1>5, <1>6, <1>7, <1>8 DEF StampInv

LEMMA SharingStep ==
  ASSUME SharingInv, [SharingNext]_sharingVars
  PROVE  SharingInv'
  <1>1. TypeOK' /\ memory \subseteq Buffers
    BY TypeStep, SharingIsNext DEF SharingInv, TypeOK
  <1>2. fetches \in Seq(SUBSET Buffers) /\ Len(fetches) = Len(fifo) /\ Len(fifo) \in Nat
    BY DEF SharingInv, FetchesMatch, StampInv, TS!TypeOK
  <1>3. ASSUME NEW S \in SUBSET Buffers, NEW count \in 1 .. MaxCount, DrawWith(S, count)
        PROVE  StampInv' /\ FetchesMatch'
    <2> DEFINE more == [k \in 1 .. count |-> Fetched(vtxbuf')]
    <2>1. StampInv' /\ Len(fifo') = Len(fifo) + count
      BY <1>3, UseKeepsStampInv DEF SharingInv, DrawWith
    <2>2. more \in Seq(SUBSET Buffers) /\ Len(more) = count /\ count \in Nat
      BY DEF Fetched
    <2>3. fetches' = fetches \o more
      BY <1>3 DEF DrawWith
    <2> HIDE DEF more
    <2>4. fetches' \in Seq(SUBSET Buffers) /\ Len(fetches') = Len(fetches) + count
      <3> DEFINE T == SUBSET Buffers
      <3>1. fetches \in Seq(T) /\ more \in Seq(T)
        BY <1>2, <2>2
      <3> HIDE DEF T
      <3>2. fetches \o more \in Seq(T) /\ Len(fetches \o more) = Len(fetches) + Len(more)
        BY <3>1, Appending
      <3> QED BY <2>2, <2>3, <3>2 DEF T
    <2> QED BY <1>2, <2>1, <2>4 DEF FetchesMatch
  <1>4. Validated \subseteq Buffers
    BY <1>1 DEF Validated, Source
  <1>5. ASSUME NEW count \in 1 .. MaxCount, NEW b \in Buffers, DrawElements(b, count)
        PROVE  StampInv' /\ FetchesMatch'
    <2>1. DrawWith(Validated \cup {b}, count) /\ Validated \cup {b} \in SUBSET Buffers
      BY <1>4, <1>5 DEF DrawElements
    <2> QED BY <1>3, <2>1
  <1>6. ASSUME NEW count \in 1 .. MaxCount, DrawArrays(count)
        PROVE  StampInv' /\ FetchesMatch'
    <2>1. DrawWith(Validated, count) /\ Validated \in SUBSET Buffers
      BY <1>4, <1>6 DEF DrawArrays
    <2> QED BY <1>3, <2>1
  <1>7. ASSUME NEW count \in 1 .. MaxCount, DrawDiscarded(count)
        PROVE  StampInv' /\ FetchesMatch'
    BY <1>7, <1>2, DrawDiscardedKeepsStampInv DEF SharingInv, FetchesMatch
  <1>8. ASSUME NEW r \in Buffers, NEW w \in Buffers, CopyBufferSubData(r, w)
        PROVE  StampInv' /\ FetchesMatch'
    <2>2. {r, w} \in SUBSET Buffers /\ TS!Use({r, w}, 1)
      BY <1>8 DEF CopyBufferSubData
    <2>3. StampInv' /\ Len(fifo') = Len(fifo) + 1
      BY <2>2, UseKeepsStampInv DEF SharingInv
    <2> QED BY <1>2, <1>8, <2>3 DEF CopyBufferSubData, FetchesMatch
  <1>9. ASSUME NEW b \in Buffers, StartAccess(b) \/ WaitOver(b) \/ AccessDone(b)
        PROVE  StampInv' /\ FetchesMatch'
    <2>1. /\ fetches' = fetches
          /\ \/ TS!Wait(b) \/ TS!AccessDone
             \/ TS!AccessAtOnce(b) \/ TS!WaitOver(b)
      BY <1>9 DEF StartAccess, WaitOver, AccessDone
    <2> QED BY <1>2, <2>1, OthersKeepStampInv, AccessAtOnceKeepsStampInv,
       WaitOverKeepsStampInv DEF SharingInv, FetchesMatch
  <1>10. ASSUME Execute
         PROVE  StampInv' /\ FetchesMatch'
    <2>1. /\ StampInv' /\ Len(fifo') = Len(fifo) - 1 /\ fifo # << >>
          /\ fetches' = Tail(fetches)
      BY <1>10, ExecuteKeepsStampInv DEF SharingInv, Execute
    <2>2. fifo \in Seq(TS!Command)
      BY DEF SharingInv, StampInv, TS!TypeOK
    <2>3. fetches # << >>
      BY <1>2, <2>1, <2>2
    <2> QED BY <1>2, <2>1, <2>3 DEF FetchesMatch
  <1>11. ASSUME SubDataDone \/ Flush \/ StateCall \/ UNCHANGED sharingVars
         PROVE  StampInv' /\ FetchesMatch'
    <2>1. /\ TS!AccessDone \/ TS!Flush \/ UNCHANGED stampVars
          /\ fetches' = fetches
      BY <1>11 DEF SubDataDone, Flush, StateCall, sharingVars
    <2> QED BY <1>2, <2>1, OthersKeepStampInv DEF SharingInv, FetchesMatch
  <1>12. StampInv' /\ FetchesMatch'
    <2>1. CASE \E count \in 1 .. MaxCount :
                 \/ DrawArrays(count)
                 \/ DrawDiscarded(count)
                 \/ \E b \in Buffers : DrawElements(b, count)
      BY <1>5, <1>6, <1>7, <2>1
    <2>2. CASE \E r, w \in Buffers : CopyBufferSubData(r, w)
      BY <1>8, <2>2
    <2>3. CASE \E b \in Buffers : StartAccess(b) \/ WaitOver(b) \/ AccessDone(b)
      BY <1>9, <2>3
    <2> QED BY <1>10, <1>11, <2>1, <2>2, <2>3 DEF SharingNext
  <1> QED BY <1>1, <1>12 DEF SharingInv

(* A context that shares its buffers with the GPU is one whose draws and    *)
(* buffer calls are as VertexAttribs says: the composition implements it.   *)
THEOREM BufferSharingRefines == SharingSpec => Spec
  <1>1. SharingInit => Init
    BY DEF SharingInit
  <1> QED BY <1>1, SharingIsNext, PTL DEF Spec, SharingSpec

(* The invariant of the composition: the stream is in the order of its      *)
(* timestamps, though draws that are discarded leave gaps, and no queued    *)
(* command that was stamped on a buffer is later than the buffer's stamp.   *)
THEOREM BufferSharingInvariant == SharingSpec => []SharingInv
  <1>1. SharingInit => SharingInv
    <2>1. Init => TypeOK
      BY DEF Init, TypeOK, NoBuffers
    <2> QED BY <2>1, StampInit DEF SharingInit, SharingInv, FetchesMatch, TS!Init
  <1> QED BY <1>1, SharingStep, PTL DEF SharingSpec

(* While the CPU is at the memory of a buffer (glBufferData,                *)
(* glBufferSubData, glMapBuffer) no command that was stamped on the buffer  *)
(* is left to be executed, whatever draws, copies and discarded draws went  *)
(* before.                                                                  *)
THEOREM BufferSharingExclusive == SharingSpec => []StampedExclusive
  <1>1. SharingInv => StampedExclusive
    BY DEF SharingInv, StampInv, FetchesMatch, StampedExclusive, SharingTypeOK
  <1> QED BY <1>1, BufferSharingInvariant, PTL
=============================================================================
