------------------------------ MODULE Textures ------------------------------
(***************************************************************************)
(* Textures: the images an application specifies, the memory that a draw   *)
(* makes of them, and the registers that tell the GPU what to sample       *)
(* (textures.cc, program.cc, uniforms.cc).                                 *)
(*                                                                         *)
(* glTexImage keeps each level in memory of its own and marks the texture  *)
(* as invalid.  The next draw that finds a unit flagged to which the       *)
(* texture is bound puts the levels together in memory the GPU can sample, *)
(* frees what was there, and writes the registers.  glTexSubImage writes   *)
(* to that memory if there is some.  All of them wait for the draws the    *)
(* texture is stamped with; as Timestamps has it, that is until the GPU    *)
(* has executed them.                                                      *)
(*                                                                         *)
(* The application specifies no image for texture 0; no texture is         *)
(* attached to a framebuffer.                                              *)
(***************************************************************************)
EXTENDS Integers, Sequences

CONSTANTS
  Textures,     \* texture objects
  NoTexture,    \* texture 0
  LevelsOf,     \* bound: of every texture, the levels an application uses
  Formats,      \* formats of images, no two compatible
  Units,        \* the units that textures are bound to
  Indices,      \* the hardware's units: those that programs sample
  Torn,         \* stands for memory that was freed, or written too early
  FifoBound     \* bound: draws that are waiting for the GPU

ASSUME TexturesAssumption ==
  /\ NoTexture \notin Textures
  /\ Torn \notin Textures \cup {NoTexture}
  /\ \A t \in Textures : 0 \in LevelsOf[t] /\ LevelsOf[t] \subseteq Nat
  /\ 0 \in Units
  /\ FifoBound \in Nat \ {0}

VARIABLES
  names,                       \* texture_binding: the texture of each unit
  levels,                      \* of every texture: the levels specified, see Level
  invalid,                     \* textures specified since they were validated
  immutable,                   \* textures that glTexStorage was called for
  memory,                      \* of every texture: what is in its memory
  texture_assignments,         \* of the active program: the unit of each index
  invalid_textures,            \* units to be written again
  invalid_texture_assignments, \* indices to be written again
  registers,                   \* of every index: the texture whose memory
                               \* the GPU samples
  timestamp,                   \* of every texture: how many draws of fifo
                               \* have to be executed until its timestamp passes
  fifo,                        \* the draws that wait for the GPU: for each, the
                               \* textures it samples for indices not in dropped
  lapsed,                      \* not in the code: the textures for which a part
                               \* of an image was replaced where it gets lost
  dropped                      \* not in the code: the indices whose assignment
                               \* changed without a flag that lasted

imageVars == <<levels, invalid, immutable, memory, lapsed>>
flagVars == <<invalid_textures, invalid_texture_assignments>>
gpuVars == <<timestamp, fifo>>
vars == <<names, imageVars, texture_assignments, flagVars, registers, gpuVars, dropped>>

-----------------------------------------------------------------------------

(* What a copy of a level has in it: what the application last gave for the *)
(* level, or something older.                                               *)
Ages == {"latest", "older"}

Level == [format : Formats, age : Ages]

(* A function from the levels that are specified to Level.                  *)
NoLevels == [l \in {} |-> [format |-> CHOOSE f \in Formats : TRUE, age |-> "latest"]]

(* Memory holds a function from the levels of the texture to Ages.          *)
NoMemory == [l \in {} |-> "latest"]

HasMemory(t) == memory[t] # NoMemory

(* The units a texture is bound to, its binding_bitfield.                   *)
BoundTo(t) == {u \in Units : names[u] = t}

Unit(i) == texture_assignments[i]

Bound(i) == names[Unit(i)]

(* Registers after memory of the textures of S was freed.                   *)
WithoutMemory(regs, S) == [i \in Indices |-> IF regs[i] \in S THEN Torn ELSE regs[i]]

(* The waiting draws after memory of the textures of S was freed or written.*)
Disturbed(S) ==
  [k \in 1 .. Len(fifo) |-> {IF t \in S THEN Torn ELSE t : t \in fifo[k]}]

(* rsxgl_timestamp_wait has returned.                                       *)
Passed(t) == timestamp[t] = 0

Init ==
  /\ names = [u \in Units |-> NoTexture]
  /\ levels = [t \in Textures |-> NoLevels]
  /\ invalid = {}
  /\ immutable = {}
  /\ memory = [t \in Textures |-> NoMemory]
  /\ texture_assignments \in [Indices -> Units]
  /\ invalid_textures = Units
  /\ invalid_texture_assignments = Indices
  /\ registers = [i \in Indices |-> NoTexture]
  /\ timestamp = [t \in Textures |-> 0]
  /\ fifo = << >>
  /\ lapsed = {}
  /\ dropped = {}

-----------------------------------------------------------------------------

(* Mutation: leaves the flag alone.                                         *)
BindTextureUnflagged(u, t) ==
  /\ names' = [names EXCEPT ![u] = t]
  /\ UNCHANGED <<imageVars, texture_assignments, flagVars, registers, gpuVars, dropped>>

(* glBindTexture while u is the active unit.                                *)
BindTexture(u, t) ==
  /\ names' = [names EXCEPT ![u] = t]
  /\ invalid_textures' = invalid_textures \cup {u}
  /\ UNCHANGED <<imageVars, texture_assignments, invalid_texture_assignments, registers,
                 gpuVars, dropped>>

(* glDeleteTextures, and the name is used for a new texture right after it. *)
(* Its units get texture 0, without a flag.                                 *)
DeleteTexture(t) ==
  /\ Passed(t)
  /\ names' = [u \in Units |-> IF names[u] = t THEN NoTexture ELSE names[u]]
  /\ levels' = [levels EXCEPT ![t] = NoLevels]
  /\ invalid' = invalid \ {t}
  /\ immutable' = immutable \ {t}
  /\ memory' = [memory EXCEPT ![t] = NoMemory]
  /\ registers' = WithoutMemory(registers, {t})
  /\ fifo' = Disturbed({t})
  /\ lapsed' = lapsed \ {t}
  /\ UNCHANGED <<texture_assignments, flagVars, timestamp, dropped>>

(* glTexStorage of levels 0 .. n - 1: memory, or none if none is left.      *)
TexStorage(t, n) ==
  /\ t \notin immutable
  /\ Passed(t)
  /\ levels' = [levels EXCEPT ![t] = NoLevels]
  /\ invalid' = invalid \ {t}
  /\ immutable' = immutable \cup {t}
  /\ \E M \in {{}, {l \in LevelsOf[t] : l < n}} :
       memory' = [memory EXCEPT ![t] = [l \in M |-> "latest"]]
  /\ invalid_textures' = invalid_textures \cup BoundTo(t)
  /\ registers' = WithoutMemory(registers, {t})
  /\ fifo' = Disturbed({t})
  /\ lapsed' = lapsed \ {t}
  /\ UNCHANGED <<names, texture_assignments, invalid_texture_assignments, timestamp, dropped>>

(* The first level decides on the format of the others.                     *)
FormatOf(t, f) ==
  IF 0 \in DOMAIN levels[t] THEN levels[t][0].format ELSE f

(* The levels of t after level l was specified.                             *)
Specified(t, l, f) ==
  [m \in DOMAIN levels[t] \cup {l} |->
     IF m = l THEN [format |-> FormatOf(t, f), age |-> "latest"] ELSE levels[t][m]]

(* The memory of t then has something older in that level.                  *)
Outdated(t, l) == [m \in DOMAIN memory[t] |-> IF m = l THEN "older" ELSE memory[t][m]]

(* The textures for which specifying l takes an older level to the memory.  *)
TakesOlder(t, l) ==
  IF \E m \in DOMAIN levels[t] \ {l} : levels[t][m].age = "older" THEN {t} ELSE {}

(* Mutation: flags the texture and not the units it is bound to.            *)
TexImageUnflagged(t, l, f) ==
  /\ t \notin immutable
  /\ Passed(t)
  /\ levels' = [levels EXCEPT ![t] = Specified(t, l, f)]
  /\ memory' = [memory EXCEPT ![t] = Outdated(t, l)]
  /\ invalid' = invalid \cup {t}
  /\ lapsed' = lapsed \cup TakesOlder(t, l)
  /\ UNCHANGED <<names, immutable, texture_assignments, flagVars, registers,
                 gpuVars, dropped>>

(* glTexImage and glCopyTexImage.  What is in the other levels goes to the  *)
(* memory again too, though parts may have been replaced there.             *)
TexImage(t, l, f) ==
  /\ t \notin immutable
  /\ Passed(t)
  /\ levels' = [levels EXCEPT ![t] = Specified(t, l, f)]
  /\ memory' = [memory EXCEPT ![t] = Outdated(t, l)]
  /\ invalid' = invalid \cup {t}
  /\ invalid_textures' = invalid_textures \cup BoundTo(t)
  /\ lapsed' = lapsed \cup TakesOlder(t, l)
  /\ UNCHANGED <<names, immutable, texture_assignments,
                 invalid_texture_assignments, registers, gpuVars, dropped>>

(* The levels of t when l is replaced in the memory alone.                  *)
LeftBehind(t, l) ==
  [m \in DOMAIN levels[t] |->
     [format |-> levels[t][m].format,
      age |-> IF m = l THEN "older" ELSE levels[t][m].age]]

(* glTexSubImage and glCopyTexSubImage of a texture with memory.  The       *)
(* memory of an invalid texture is about to be freed.                       *)
SubImageInMemory(t, l) ==
  /\ l \in DOMAIN memory[t]
  /\ Passed(t)
  /\ memory' = [memory EXCEPT ![t][l] = "latest"]
  /\ levels' = [levels EXCEPT ![t] = LeftBehind(t, l)]
  /\ lapsed' = lapsed \cup ({t} \cap invalid)
  /\ fifo' = Disturbed({t})
  /\ UNCHANGED <<names, invalid, immutable, texture_assignments, flagVars, registers,
                 timestamp, dropped>>

(* The same for a texture that has none: it writes to the level.            *)
SubImageInLevel(t, l) ==
  /\ ~HasMemory(t)
  /\ l \in DOMAIN levels[t]
  /\ Passed(t)
  /\ levels' = [levels EXCEPT ![t][l].age = "latest"]
  /\ UNCHANGED <<names, invalid, immutable, memory, texture_assignments, flagVars,
                 registers, gpuVars, lapsed, dropped>>

-----------------------------------------------------------------------------

(* glUniform1i of a sampler of the active program.                          *)
SamplerUniform(i, u) ==
  /\ texture_assignments' = [texture_assignments EXCEPT ![i] = u]
  /\ invalid_texture_assignments' = invalid_texture_assignments \cup {i}
  /\ UNCHANGED <<names, imageVars, invalid_textures, registers, gpuVars, dropped>>

(* glUseProgram of another program, that has assignments a.  It sets the    *)
(* flags of all indices anew, from the program before, and so drops those   *)
(* that waited for a draw.                                                  *)
UseProgram(a) ==
  /\ texture_assignments' = a
  /\ invalid_texture_assignments' = {i \in Indices : texture_assignments[i] # a[i]}
  /\ dropped' = dropped \cup (invalid_texture_assignments \ invalid_texture_assignments')
  /\ UNCHANGED <<names, imageVars, invalid_textures, registers, gpuVars>>

(* glLinkProgram of the active program: all its samplers sample unit 0      *)
(* again, without a flag.                                                   *)
LinkProgram ==
  /\ texture_assignments' = [i \in Indices |-> 0]
  /\ dropped' = dropped \cup {i \in Indices : texture_assignments[i] # 0}
  /\ UNCHANGED <<names, imageVars, flagVars, registers, gpuVars>>

-----------------------------------------------------------------------------

(* rsxgl_context_t::egl_callback, after eglSwapBuffers.                     *)
Swap ==
  /\ invalid_textures' = Units
  /\ UNCHANGED <<names, imageVars, texture_assignments, invalid_texture_assignments,
                 registers, gpuVars, dropped>>

(* The levels that make up a complete texture.                              *)
NumLevels(t) ==
  {l \in LevelsOf[t] : \A m \in LevelsOf[t] : m <= l => m \in DOMAIN levels[t]}

(* rsxgl_texture_validate_complete.                                         *)
Complete(t) ==
  /\ 0 \in DOMAIN levels[t]
  /\ \A l \in NumLevels(t) : levels[t][l].format = levels[t][0].format

(* What rsxgl_textures_validate writes.                                     *)
Needed ==
  {i \in Indices : i \in invalid_texture_assignments \/ Unit(i) \in invalid_textures}

Revalidated == {Bound(i) : i \in Needed} \cap invalid

(* The indices with a texture that can be sampled.                          *)
Sampled == {i \in Indices : Bound(i) # NoTexture /\ HasMemory(Bound(i))}

(* Mutation: stamps the textures it writes to registers only.               *)
StampedIfNeeded == {Bound(i) : i \in Needed} \ {NoTexture}

(* The textures a draw stamps.                                              *)
Stamped == {Bound(i) : i \in Indices} \ {NoTexture}

(* A draw, that is rsxgl_textures_validate; memory is found for the         *)
(* textures of got.                                                         *)
Draw(got) ==
  /\ Len(fifo) < FifoBound
  /\ memory' = [t \in Textures |->
                  IF t \notin Revalidated THEN memory[t]
                  ELSE IF t \in got THEN [l \in NumLevels(t) |-> levels[t][l].age]
                  ELSE NoMemory]
  /\ invalid' = invalid \ Revalidated
  /\ registers' = [i \in Indices |->
                     IF i \in Needed /\ Bound(i) # NoTexture /\ memory'[Bound(i)] # NoMemory
                     THEN Bound(i)
                     ELSE WithoutMemory(registers, Revalidated)[i]]
  /\ invalid_texture_assignments' = {}
  /\ invalid_textures' = invalid_textures \ {Unit(i) : i \in Needed}
  /\ timestamp' = [t \in Textures |-> IF t \in Stamped THEN Len(fifo) + 1 ELSE timestamp[t]]
  /\ dropped' = dropped \ Needed
  /\ fifo' = Append(Disturbed(Revalidated), {registers'[i] : i \in {j \in Indices \ dropped' :
                 Bound(j) # NoTexture /\ memory'[Bound(j)] # NoMemory}})
  /\ UNCHANGED <<names, levels, immutable, texture_assignments, lapsed>>

(* The GPU has executed a draw.                                             *)
Execute ==
  /\ fifo # << >>
  /\ fifo' = Tail(fifo)
  /\ timestamp' = [t \in Textures |-> IF timestamp[t] = 0 THEN 0 ELSE timestamp[t] - 1]
  /\ UNCHANGED <<names, imageVars, texture_assignments, flagVars, registers, dropped>>

Next ==
  \/ \E t \in Textures :
       \/ \E u \in Units : BindTexture(u, t)
       \/ DeleteTexture(t)
       \/ \E n \in {l + 1 : l \in LevelsOf[t]} : TexStorage(t, n)
       \/ \E l \in LevelsOf[t] :
            \/ \E f \in Formats : TexImage(t, l, f)
            \/ SubImageInMemory(t, l)
            \/ SubImageInLevel(t, l)
  \/ \E u \in Units : BindTexture(u, NoTexture)
  \/ \E i \in Indices, u \in Units : SamplerUniform(i, u)
  \/ \E a \in [Indices -> Units] : UseProgram(a)
  \/ LinkProgram
  \/ Swap
  \/ \E got \in SUBSET {t \in Revalidated : Complete(t)} : Draw(got)
  \/ Execute

Spec == Init /\ [][Next]_vars

-----------------------------------------------------------------------------

(* The functions that give a member of S for each level of some set.        *)
PerLevel(S) == UNION {[M -> S] : M \in SUBSET UNION {LevelsOf[t] : t \in Textures}}

TypeOK ==
  /\ names \in [Units -> Textures \cup {NoTexture}]
  /\ levels \in [Textures -> PerLevel(Level)]
  /\ memory \in [Textures -> PerLevel(Ages)]
  /\ \A t \in Textures : DOMAIN levels[t] \cup DOMAIN memory[t] \subseteq LevelsOf[t]
  /\ invalid \subseteq Textures
  /\ immutable \subseteq Textures
  /\ texture_assignments \in [Indices -> Units]
  /\ invalid_textures \subseteq Units
  /\ invalid_texture_assignments \subseteq Indices
  /\ registers \in [Indices -> Textures \cup {NoTexture, Torn}]
  /\ timestamp \in [Textures -> 0 .. FifoBound]
  /\ fifo \in Seq(SUBSET (Textures \cup {NoTexture, Torn}))
  /\ lapsed \subseteq Textures
  /\ dropped \subseteq Indices

(* An index whose unit has a texture with memory either is flagged, so that *)
(* the next draw writes its registers, or the GPU samples that texture and  *)
(* nothing about it has changed since; but for the indices for which        *)
(* glUseProgram or glLinkProgram dropped or left out the flag.              *)
TexturesFollow ==
  /\ TypeOK
  /\ \A i \in Sampled \ (Needed \cup dropped) :
       registers[i] = Bound(i) /\ Bound(i) \notin invalid

(* No memory that a waiting draw samples for the texture of a unit is freed *)
(* or written by the CPU before the GPU has executed the draw; but for the  *)
(* indices whose registers the draw took as they were, without a flag.      *)
NothingTorn == \A k \in 1 .. Len(fifo) : fifo[k] \subseteq Textures

(* What the GPU samples for an index that is not flagged is in every level  *)
(* what the application last gave for it, unless a part of the texture was  *)
(* replaced in memory while the texture was invalid, or before another      *)
(* level was specified.                                                     *)
SamplesLatest ==
  \A i \in Sampled \ (Needed \cup dropped) : Bound(i) \notin lapsed =>
    \A l \in DOMAIN memory[registers[i]] : memory[registers[i]][l] = "latest"

=============================================================================
