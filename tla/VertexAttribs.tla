---------------------------- MODULE VertexAttribs ----------------------------
(***************************************************************************)
(* Which buffers a draw fetches its vertices from (attribs.cc, program.cc, *)
(* buffer.cc, draw.cc).                                                    *)
(*                                                                         *)
(* A program reads hardware inputs; attrib_assignments tells for each the  *)
(* attribute of the vertex array it stands for.  The pointers of the       *)
(* hardware inputs are registers, and a draw writes only those that        *)
(* invalid_attribs (by attribute) or invalid_attrib_assignments (by input) *)
(* says have changed.  So every call that changes what an input should     *)
(* read has to leave a flag behind.                                        *)
(***************************************************************************)
EXTENDS Integers, FiniteSets

CONSTANTS
  Buffers,             \* buffer objects
  NoBuffer,            \* name 0
  VertexArrays,        \* vertex arrays, the default one 0 among them
  Attribs,             \* 0 .. RSXGL_MAX_VERTEX_ATTRIBS - 1: attributes and inputs
  Programs,            \* linked programs
  NoProgram,           \* name 0
  attribs_enabled,     \* of every program: the inputs it reads
  attrib_assignments,  \* of every program: the attribute of each input
  Freed                \* in a register: memory that was freed since

ASSUME VertexAttribsAssumption ==
  /\ NoBuffer \notin Buffers
  /\ Freed \notin Buffers \cup {NoBuffer}
  /\ NoProgram \notin Programs
  /\ 0 \in VertexArrays
  /\ attribs_enabled \in [Programs -> SUBSET Attribs]
  /\ attrib_assignments \in [Programs -> [Attribs -> Attribs]]

VARIABLES
  attribs_binding,            \* the vertex array that is bound
  enabled,                    \* of every vertex array: its enabled attributes
  buffers,                    \* of every vertex array: the buffer of each attribute
  memory,                     \* the buffers that have memory
  mapped,                     \* the buffers that are mapped
  program,                    \* the active program
  invalid_attribs,            \* attributes to be written again
  invalid_attrib_assignments, \* inputs to be written again
  vtxbuf,                     \* the registers; NoBuffer: nothing is fetched
  lapsed                      \* not in the code: which calls, since everything
                              \* was last invalid, may have left out a flag

arrayVars == <<attribs_binding, enabled, buffers>>
bufferVars == <<memory, mapped>>
flagVars == <<invalid_attribs, invalid_attrib_assignments>>
vars == <<arrayVars, bufferVars, program, flagVars, vtxbuf, lapsed>>

Causes == {"no memory", "array deleted", "program switched"}

NoBuffers == [i \in Attribs |-> NoBuffer]

-----------------------------------------------------------------------------

(* The context has just been made current.                                  *)
Init ==
  /\ attribs_binding = 0
  /\ enabled = [a \in VertexArrays |-> {}]
  /\ buffers = [a \in VertexArrays |-> NoBuffers]
  /\ memory = {}
  /\ mapped = {}
  /\ program = NoProgram
  /\ invalid_attribs = Attribs
  /\ invalid_attrib_assignments = {}
  /\ vtxbuf = NoBuffers
  /\ lapsed = {}

(* glBindVertexArray, and (with the one that is bound) the callback after   *)
(* a swap: all attributes are invalid.                                      *)
BindVertexArray(a) ==
  /\ attribs_binding' = a
  /\ invalid_attribs' = Attribs
  /\ lapsed' = {}
  /\ UNCHANGED <<enabled, buffers, bufferVars, program,
                 invalid_attrib_assignments, vtxbuf>>

(* glDeleteVertexArrays: the default vertex array takes the place of a.     *)
DeleteVertexArray(a) ==
  /\ a # 0
  /\ attribs_binding' = IF attribs_binding = a THEN 0 ELSE attribs_binding
  /\ enabled' = [enabled EXCEPT ![a] = {}]
  /\ buffers' = [buffers EXCEPT ![a] = NoBuffers]
  /\ lapsed' = lapsed \cup (IF attribs_binding = a THEN {"array deleted"} ELSE {})
  /\ UNCHANGED <<bufferVars, program, flagVars, vtxbuf>>

(* glEnableVertexAttribArray, glDisableVertexAttribArray.                   *)
EnableAttrib(i, on) ==
  /\ enabled' = [enabled EXCEPT ![attribs_binding] =
                   IF on THEN @ \cup {i} ELSE @ \ {i}]
  /\ invalid_attribs' = invalid_attribs \cup {i}
  /\ UNCHANGED <<attribs_binding, buffers, bufferVars, program,
                 invalid_attrib_assignments, vtxbuf, lapsed>>

(* glVertexAttribPointer with b bound to the array target, and glVertexAttrib*, *)
(* which binds no buffer.                                                   *)
AttribPointer(i, b) ==
  /\ buffers' = [buffers EXCEPT ![attribs_binding][i] = b]
  /\ invalid_attribs' = invalid_attribs \cup {i}
  /\ UNCHANGED <<attribs_binding, enabled, bufferVars, program,
                 invalid_attrib_assignments, vtxbuf, lapsed>>

(* Mutation: looks at the default vertex array.                             *)
AttachedAtDefault(b) == {i \in Attribs : buffers[0][i] = b}

(* The attributes of the bound vertex array that b is attached to.          *)
AttachedAt(b) == {i \in Attribs : buffers[attribs_binding][i] = b}

(* The registers after the memory of b was freed.                           *)
FreedIn(regs, b) == [i \in Attribs |-> IF regs[i] = b THEN Freed ELSE regs[i]]

(* glBufferData: frees the memory of b and asks for other memory, or none.  *)
BufferData(b, size) ==
  /\ b \notin mapped
  /\ vtxbuf' = FreedIn(vtxbuf, b)
  /\ memory' = IF size > 0 THEN memory \cup {b} ELSE memory \ {b}
  /\ invalid_attribs' = invalid_attribs \cup AttachedAt(b)
  /\ UNCHANGED <<arrayVars, mapped, program, invalid_attrib_assignments, lapsed>>

(* ... and returns early when there is none to be had.                      *)
BufferDataFails(b) ==
  /\ b \notin mapped
  /\ vtxbuf' = FreedIn(vtxbuf, b)
  /\ memory' = memory \ {b}
  /\ lapsed' = lapsed \cup (IF AttachedAt(b) # {} THEN {"no memory"} ELSE {})
  /\ UNCHANGED <<arrayVars, mapped, program, flagVars>>

MapBuffer(b) ==
  /\ b \in memory \ mapped
  /\ mapped' = mapped \cup {b}
  /\ UNCHANGED <<arrayVars, memory, program, flagVars, vtxbuf, lapsed>>

UnmapBuffer(b) ==
  /\ b \in mapped
  /\ mapped' = mapped \ {b}
  /\ UNCHANGED <<arrayVars, memory, program, flagVars, vtxbuf, lapsed>>

(* The inputs that glUseProgram flags: those of the program before that     *)
(* stand for another attribute now.                                         *)
Reassigned(prev, p) ==
  {i \in attribs_enabled[prev] : attrib_assignments[prev][i] # attrib_assignments[p][i]}

(* Programs that read an attribute both read it from the same input, and    *)
(* the other way round.                                                     *)
SamePlaces(p, q) ==
  \A i \in attribs_enabled[p], j \in attribs_enabled[q] :
    (i = j) = (attrib_assignments[p][i] = attrib_assignments[q][j])

(* Switching from prev to p flags every input of p that has to be, and      *)
(* drops no flag that was there.                                            *)
SwitchIsCovered(prev, p) ==
  \/ \A q \in Programs : SamePlaces(p, q)
  \/ /\ attribs_enabled[p] \subseteq attribs_enabled[prev]
     /\ invalid_attrib_assignments \subseteq Reassigned(prev, p)

(* glUseProgram; nothing happens when p is the active program already.      *)
UseProgram(p) ==
  /\ p # program
  /\ program' = p
  /\ invalid_attrib_assignments' =
       IF p = NoProgram THEN invalid_attrib_assignments
       ELSE IF program = NoProgram THEN attribs_enabled[p]
       ELSE Reassigned(program, p)
  /\ lapsed' = IF NoProgram \in {p, program} \/ SwitchIsCovered(program, p)
               THEN lapsed ELSE lapsed \cup {"program switched"}
  /\ UNCHANGED <<arrayVars, bufferVars, invalid_attribs, vtxbuf>>

-----------------------------------------------------------------------------

Inputs == IF program = NoProgram THEN {} ELSE attribs_enabled[program]

AttribOf(i) == attrib_assignments[program][i]

(* Mutation: tests only the attributes that have changed.                   *)
ChangedArraysUnmapped ==
  \A i \in enabled[attribs_binding] \cap Inputs \cap invalid_attribs :
    buffers[attribs_binding][i] \notin mapped

(* rsxgl_check_unmapped_arrays.                                             *)
ArraysUnmapped ==
  \A i \in enabled[attribs_binding] \cap Inputs :
    buffers[attribs_binding][i] \notin mapped

IsInvalid(i) == i \in invalid_attrib_assignments \/ AttribOf(i) \in invalid_attribs

(* What an input for an enabled attribute fetches from.                     *)
Source(i) ==
  LET b == buffers[attribs_binding][AttribOf(i)]
  IN  IF b \in memory THEN b ELSE NoBuffer

IsFetched(i) == AttribOf(i) \in enabled[attribs_binding]

(* The inputs whose register rsxgl_attribs_validate writes; for a constant  *)
(* attribute it leaves the register as it is.                               *)
Written == {i \in Inputs : IsInvalid(i) /\ IsFetched(i)}

(* The buffers rsxgl_attribs_validate stamps.                               *)
Validated == {Source(i) : i \in Written} \ {NoBuffer}

(* glDrawArrays and its kin: check, then rsxgl_attribs_validate.            *)
Draw ==
  /\ program # NoProgram
  /\ ArraysUnmapped
  /\ vtxbuf' = [i \in Attribs |-> IF i \in Written THEN Source(i) ELSE vtxbuf[i]]
  /\ invalid_attrib_assignments' = {}
  /\ invalid_attribs' =
       invalid_attribs \ {AttribOf(i) : i \in {j \in Inputs : IsInvalid(j)}}
  /\ UNCHANGED <<arrayVars, bufferVars, program, lapsed>>

Next ==
  \/ \E a \in VertexArrays : BindVertexArray(a) \/ DeleteVertexArray(a)
  \/ \E i \in Attribs :
       \/ \E on \in BOOLEAN : EnableAttrib(i, on)
       \/ \E b \in Buffers \cup {NoBuffer} : AttribPointer(i, b)
  \/ \E b \in Buffers :
       \/ \E size \in 0 .. 1 : BufferData(b, size)
       \/ BufferDataFails(b)
       \/ MapBuffer(b)
       \/ UnmapBuffer(b)
  \/ \E p \in Programs \cup {NoProgram} : UseProgram(p)
  \/ Draw

Spec == Init /\ [][Next]_vars

-----------------------------------------------------------------------------

TypeOK ==
  /\ attribs_binding \in VertexArrays
  /\ enabled \in [VertexArrays -> SUBSET Attribs]
  /\ buffers \in [VertexArrays -> [Attribs -> Buffers \cup {NoBuffer}]]
  /\ mapped \subseteq memory
  /\ memory \subseteq Buffers
  /\ program \in Programs \cup {NoProgram}
  /\ invalid_attribs \subseteq Attribs
  /\ invalid_attrib_assignments \subseteq Attribs
  /\ vtxbuf \in [Attribs -> Buffers \cup {NoBuffer, Freed}]
  /\ lapsed \subseteq Causes

(* Every input of the active program whose attribute is enabled either is   *)
(* flagged, so that the next draw writes its register, or its register      *)
(* points at the buffer that the bound vertex array names for it.           *)
HardwareFollows ==
  \A i \in Inputs : IsFetched(i) /\ ~IsInvalid(i) => vtxbuf[i] = Source(i)

(* Apart from the three calls that leave out a flag, and then until the     *)
(* next glBindVertexArray or swap, that is so.                              *)
FollowsUnlessLapsed == TypeOK /\ (lapsed = {} => HardwareFollows)

(* draw.cc:88: "see if bound attributes are mapped - if they are, 'throw'   *)
(* GL_INVALID_OPERATION".  The test intersects a set of attributes with a   *)
(* set of inputs, so that it protects the inputs that stand for the         *)
(* attribute of the same number; those no draw makes fetch from a mapped    *)
(* buffer, whether their register is written by the draw or is as an        *)
(* earlier one left it.                                                     *)
MappedNotDrawn ==
  [][Draw => \A i \in Inputs :
       AttribOf(i) = i /\ IsFetched(i) => Source(i) \notin mapped]_vars

=============================================================================
