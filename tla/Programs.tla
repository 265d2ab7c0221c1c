------------------------------ MODULE Programs ------------------------------
(***************************************************************************)
(* The life of a program (program.cc, uniforms.cc, draw.cc): the shaders   *)
(* it holds on to, its microcode and uniforms, and the draws that use      *)
(* them, the second pass of transform feedback included.                   *)
(*                                                                         *)
(* The module follows one program, "program".  The others that the         *)
(* application uses only take its place in the GPU, and are "other".       *)
(*                                                                         *)
(* The GPU holds the instructions of the vertex program and its constants  *)
(* in registers, but reads the fragment program, and the values of         *)
(* uniforms that are patched into it, from memory.  glLinkProgram frees    *)
(* that memory; it waits for the draws the program is stamped with, as     *)
(* Timestamps has it, that is until the GPU has executed them.             *)
(***************************************************************************)
EXTENDS Integers, Sequences

CONSTANTS
  Shaders,    \* shader objects
  FifoBound   \* bound: commands that are waiting for the GPU

ASSUME ProgramsAssumption == FifoBound \in Nat \ {0, 1}

VARIABLES
  shader_names,        \* shaders that glDeleteShader was not called for
  shader_constructed,  \* shaders that were not destroyed
  shader_ref_count,    \* of every shader
  attached_shaders,    \* to the program
  linked_shaders,      \* the shaders it was linked from
  state,               \* "none", "object", "detached" by glDeleteProgram while
                       \* active, "leaked" when it is active no more
  linked,              \* GL_LINK_STATUS
  ucode,               \* it has microcode
  stream,              \* and microcode for transform feedback
  invalid_uniforms,    \* some uniform is to be sent to the GPU
  invalid,             \* "vertex", "fragment": where the value of its uniform
                       \* is to be sent
  active,              \* the program that glUseProgram made active
  invalid_program,     \* ctx -> invalid.parts.program
  feedback_program,    \* enable.transform_feedback_program
  feedback_mode,       \* between glBeginTransformFeedback and the end of it
  loaded,              \* what the GPU runs as "vertex" and "fragment" program
  constants,           \* the constant registers have the uniform's value
  patched,             \* the fragment program in memory has the uniform's value
  timestamp,           \* how many commands of fifo have to be executed until
                       \* the timestamp of the program passes
  fifo,                \* what waits for the GPU: for each draw the fragment
                       \* program, and whether it is covered by a timestamp
  relinked             \* not in the code: the program was linked while active
                       \* and has not been loaded since

shaderVars == <<shader_names, shader_constructed, shader_ref_count>>
listVars == <<attached_shaders, linked_shaders>>
linkVars == <<linked, ucode, stream>>
uniformVars == <<invalid_uniforms, invalid>>
contextVars == <<active, invalid_program, feedback_program, feedback_mode>>
hardwareVars == <<loaded, constants, patched>>
gpuVars == <<timestamp, fifo>>
vars == <<shaderVars, listVars, state, linkVars, uniformVars, contextVars,
          hardwareVars, gpuVars, relinked>>

Stages == {"vertex", "fragment"}

(* What the GPU runs: microcode of the program for a draw or for transform  *)
(* feedback, or of another program, or "none" as there was no memory for    *)
(* it; "stale" microcode was freed before a draw, "freed" one after it.     *)
Microcode == {"program", "stream", "other", "none", "stale", "freed"}

Init ==
  /\ shader_names = {}
  /\ shader_constructed = {}
  /\ shader_ref_count = [s \in Shaders |-> 0]
  /\ attached_shaders = {}
  /\ linked_shaders = {}
  /\ state = "none"
  /\ linked = FALSE
  /\ ucode = FALSE
  /\ stream = FALSE
  /\ invalid_uniforms = FALSE
  /\ invalid = {}
  /\ active = "none"
  /\ invalid_program = TRUE
  /\ feedback_program = FALSE
  /\ feedback_mode = FALSE
  /\ loaded = [s \in Stages |-> "other"]
  /\ constants = FALSE
  /\ patched = FALSE
  /\ timestamp = 0
  /\ fifo = << >>
  /\ relinked = FALSE

-----------------------------------------------------------------------------

IsObject == state = "object"

(* The counts after unref_and_maybe_delete of the shaders of S.  One that   *)
(* was deleted has no name any more, so that destroy leaves it as it is.    *)
Unref(S) ==
  [s \in Shaders |-> IF s \in S THEN shader_ref_count[s] - 1 ELSE shader_ref_count[s]]

CreateShader(s) ==
  /\ s \notin shader_constructed
  /\ shader_names' = shader_names \cup {s}
  /\ shader_constructed' = shader_constructed \cup {s}
  /\ shader_ref_count' = [shader_ref_count EXCEPT ![s] = 0]
  /\ UNCHANGED <<listVars, state, linkVars, uniformVars, contextVars,
                 hardwareVars, gpuVars, relinked>>

(* Mutation: destroys the shader even if a program holds on to it.          *)
DeleteShaderAtOnce(s) ==
  /\ s \in shader_names
  /\ shader_names' = shader_names \ {s}
  /\ shader_constructed' = shader_constructed \ {s}
  /\ UNCHANGED <<shader_ref_count, listVars, state, linkVars, uniformVars,
                 contextVars, hardwareVars, gpuVars, relinked>>

(* glDeleteShader.                                                          *)
DeleteShader(s) ==
  /\ s \in shader_names
  /\ shader_names' = shader_names \ {s}
  /\ shader_constructed' =
       IF shader_ref_count[s] = 0 THEN shader_constructed \ {s} ELSE shader_constructed
  /\ UNCHANGED <<shader_ref_count, listVars, state, linkVars, uniformVars,
                 contextVars, hardwareVars, gpuVars, relinked>>

CreateProgram ==
  /\ state = "none"
  /\ state' = "object"
  /\ UNCHANGED <<shaderVars, listVars, linkVars, uniformVars, contextVars,
                 hardwareVars, gpuVars, relinked>>

AttachShader(s) ==
  /\ IsObject
  /\ s \in shader_names \ attached_shaders
  /\ attached_shaders' = attached_shaders \cup {s}
  /\ shader_ref_count' = [shader_ref_count EXCEPT ![s] = @ + 1]
  /\ UNCHANGED <<shader_names, shader_constructed, linked_shaders, state, linkVars,
                 uniformVars, contextVars, hardwareVars, gpuVars, relinked>>

DetachShader(s) ==
  /\ IsObject
  /\ s \in shader_names \cap attached_shaders
  /\ attached_shaders' = attached_shaders \ {s}
  /\ shader_ref_count' = Unref({s})
  /\ UNCHANGED <<shader_names, shader_constructed, linked_shaders, state, linkVars,
                 uniformVars, contextVars, hardwareVars, gpuVars, relinked>>

(* glDeleteProgram waits, and destroys the program if it is not active.     *)
(* Its microcode is not freed.                                              *)
DeleteProgram ==
  /\ IsObject
  /\ timestamp = 0
  /\ IF active = "program"
     THEN /\ state' = "detached"
          /\ UNCHANGED <<shader_ref_count, listVars, linkVars, uniformVars>>
     ELSE /\ state' = "none"
          /\ shader_ref_count' =
               [s \in Shaders |-> shader_ref_count[s]
                  - (IF s \in attached_shaders THEN 1 ELSE 0)
                  - (IF s \in linked_shaders THEN 1 ELSE 0)]
          /\ attached_shaders' = {}
          /\ linked_shaders' = {}
          /\ linked' = FALSE
          /\ ucode' = FALSE
          /\ stream' = FALSE
          /\ invalid_uniforms' = FALSE
          /\ invalid' = {}
  /\ UNCHANGED <<shader_names, shader_constructed, contextVars, hardwareVars,
                 gpuVars, relinked>>

-----------------------------------------------------------------------------

(* What is loaded, and what waiting commands run, after the microcode of    *)
(* the program was freed.                                                   *)
Stale ==
  [s \in Stages |-> IF loaded[s] \in {"program", "stream"} THEN "stale" ELSE loaded[s]]

Freed ==
  [k \in 1 .. Len(fifo) |-> [fifo[k] EXCEPT !.runs =
     IF @ \in {"program", "stream"} THEN "freed" ELSE @]]

(* Mutation: does not wait for the GPU.                                     *)
LinkableAtOnce == IsObject /\ ~(feedback_mode /\ active = "program")

(* What glLinkProgram requires, and waits for.                              *)
Linkable == IsObject /\ ~(feedback_mode /\ active = "program") /\ timestamp = 0

(* All shaders of the last link are let go of.                              *)
LinkReferences == shader_ref_count' = Unref(linked_shaders)

(* What the start of glLinkProgram does in any case.  The registers of the  *)
(* GPU have the instructions of the vertex program, but no longer those of  *)
(* a program there is.                                                      *)
StartLink ==
  /\ Linkable
  /\ LinkReferences
  /\ loaded' = Stale
  /\ fifo' = Freed
  /\ constants' = FALSE
  /\ relinked' = (relinked \/ (active = "program" /\ ~invalid_program))
  /\ UNCHANGED <<shader_names, shader_constructed, state, contextVars,
                 invalid_uniforms, timestamp>>

(* glLinkProgram succeeds.  The shaders move from one list to the other,    *)
(* and the uniform is 0, as it is in the microcode; memory for that may     *)
(* have run out.                                                            *)
Link(got, feedback) ==
  /\ StartLink
  /\ linked_shaders' = attached_shaders
  /\ attached_shaders' = {}
  /\ linked' = TRUE
  /\ ucode' = got
  /\ stream' = (got /\ feedback)
  /\ invalid' = {}
  /\ patched' = got

(* glLinkProgram fails: the tables of uniforms stay.                        *)
LinkFails ==
  /\ StartLink
  /\ linked_shaders' = {}
  /\ linked' = FALSE
  /\ ucode' = FALSE
  /\ stream' = FALSE
  /\ patched' = FALSE
  /\ UNCHANGED <<attached_shaders, invalid>>

(* glUniform while the program is active and linked.                        *)
Uniform ==
  /\ IsObject /\ active = "program" /\ linked
  /\ invalid_uniforms' = TRUE
  /\ invalid' = Stages
  /\ constants' = FALSE
  /\ patched' = FALSE
  /\ UNCHANGED <<shaderVars, listVars, state, linkVars, contextVars, loaded,
                 gpuVars, relinked>>

(* Mutation: does not ask for the program to be loaded.                     *)
UseUnflagged == invalid_program' = invalid_program

UseFlagged == invalid_program' = TRUE

(* glUseProgram.  A program that was deleted while it was active is         *)
(* destroyed by its name, which it has no more, and so stays.               *)
UseProgram(p) ==
  /\ ~feedback_mode
  /\ p # active
  /\ p = "program" => IsObject
  /\ active' = p
  /\ UseFlagged
  /\ feedback_program' = CASE p = "program" -> stream
                           [] p = "other" -> FALSE
                           [] p = "none" -> feedback_program
  /\ state' = IF active = "program" /\ state = "detached" THEN "leaked" ELSE state
  /\ UNCHANGED <<shaderVars, listVars, linkVars, uniformVars, feedback_mode,
                 hardwareVars, gpuVars, relinked>>

(* glBeginTransformFeedback.  Whether the program has microcode for it was  *)
(* looked up by glUseProgram.                                               *)
BeginTransformFeedback ==
  /\ ~feedback_mode
  /\ active = "program"
  /\ feedback_program
  /\ feedback_mode' = TRUE
  /\ UNCHANGED <<shaderVars, listVars, state, linkVars, uniformVars, active,
                 invalid_program, feedback_program, hardwareVars, gpuVars, relinked>>

EndTransformFeedback ==
  /\ feedback_mode
  /\ feedback_mode' = FALSE
  /\ UNCHANGED <<shaderVars, listVars, state, linkVars, uniformVars, active,
                 invalid_program, feedback_program, hardwareVars, gpuVars, relinked>>

(* The callback after a swap invalidates everything.                        *)
Swap ==
  /\ invalid_program' = TRUE
  /\ UNCHANGED <<shaderVars, listVars, state, linkVars, uniformVars, active,
                 feedback_program, feedback_mode, hardwareVars, gpuVars, relinked>>

-----------------------------------------------------------------------------

(* Mutation: sends a uniform again only if it was changed.                  *)
ChangedOnly == invalid

(* Where the uniform is to be sent after rsxgl_program_validate: the        *)
(* constant registers may have values of another program.                   *)
ToBeSent == invalid \cup (IF invalid_program THEN {"vertex"} ELSE {})

IsSent == invalid_uniforms \/ invalid_program

(* A draw of the program: rsxgl_program_validate and rsxgl_uniforms_validate, *)
(* then the command, then its timestamp.  Sending the uniform to the        *)
(* fragment program also tells the GPU where that is.                       *)
Draw ==
  /\ active = "program" /\ linked /\ ~feedback_mode
  /\ Len(fifo) < FifoBound
  /\ loaded' = [s \in Stages |->
                  IF invalid_program \/ (s = "fragment" /\ IsSent /\ s \in ToBeSent)
                  THEN IF ucode THEN "program" ELSE "none"
                  ELSE loaded[s]]
  /\ constants' = (constants \/ (IsSent /\ "vertex" \in ToBeSent))
  /\ patched' = (patched \/ (IsSent /\ "fragment" \in ToBeSent))
  /\ invalid' = IF IsSent THEN {} ELSE invalid
  /\ invalid_uniforms' = FALSE
  /\ invalid_program' = FALSE
  /\ timestamp' = Len(fifo) + 1
  /\ fifo' = Append(fifo, [runs |-> loaded'["fragment"], covered |-> TRUE])
  /\ relinked' = (relinked /\ ~invalid_program)
  /\ UNCHANGED <<shaderVars, listVars, state, linkVars, active, feedback_program,
                 feedback_mode>>

(* A draw while transform feedback is on: the draw, its timestamp, and only *)
(* then the pass that feeds back, with other microcode.                     *)
DrawFeedback ==
  /\ active = "program" /\ linked /\ feedback_mode
  /\ Len(fifo) + 1 < FifoBound
  /\ loaded' = [s \in Stages |-> IF stream THEN "stream" ELSE "none"]
  /\ constants' = (constants \/ (IsSent /\ "vertex" \in ToBeSent))
  /\ patched' = (patched \/ (IsSent /\ "fragment" \in ToBeSent))
  /\ invalid' = IF IsSent THEN {} ELSE invalid
  /\ invalid_uniforms' = FALSE
  /\ invalid_program' = TRUE
  /\ timestamp' = Len(fifo) + 1
  /\ fifo' = fifo \o
       << [runs |-> IF invalid_program \/ (IsSent /\ "fragment" \in ToBeSent)
                    THEN IF ucode THEN "program" ELSE "none"
                    ELSE loaded["fragment"], covered |-> TRUE],
          [runs |-> loaded'["fragment"], covered |-> FALSE] >>
  /\ relinked' = (relinked /\ ~invalid_program)
  /\ UNCHANGED <<shaderVars, listVars, state, linkVars, active, feedback_program,
                 feedback_mode>>

(* A draw of another program: its instructions and constants take the place *)
(* of those there are.                                                      *)
DrawOther ==
  /\ active = "other"
  /\ Len(fifo) < FifoBound
  /\ IF invalid_program
     THEN loaded' = [s \in Stages |-> "other"] /\ constants' = FALSE
     ELSE UNCHANGED <<loaded, constants>>
  /\ invalid_program' = FALSE
  /\ fifo' = Append(fifo, [runs |-> loaded'["fragment"], covered |-> TRUE])
  /\ UNCHANGED <<shaderVars, listVars, state, linkVars, uniformVars, active,
                 feedback_program, feedback_mode, patched, timestamp, relinked>>

(* The GPU has executed a command.                                          *)
Execute ==
  /\ fifo # << >>
  /\ fifo' = Tail(fifo)
  /\ timestamp' = IF timestamp = 0 THEN 0 ELSE timestamp - 1
  /\ UNCHANGED <<shaderVars, listVars, state, linkVars, uniformVars, contextVars,
                 hardwareVars, relinked>>

Next ==
  \/ \E s \in Shaders :
       CreateShader(s) \/ DeleteShader(s) \/ AttachShader(s) \/ DetachShader(s)
  \/ CreateProgram
  \/ DeleteProgram
  \/ \E got, feedback \in BOOLEAN : Link(got, feedback)
  \/ LinkFails
  \/ Uniform
  \/ \E p \in {"program", "other", "none"} : UseProgram(p)
  \/ BeginTransformFeedback
  \/ EndTransformFeedback
  \/ Swap
  \/ Draw
  \/ DrawFeedback
  \/ DrawOther
  \/ Execute

Spec == Init /\ [][Next]_vars

-----------------------------------------------------------------------------

TypeOK ==
  /\ shader_names \subseteq shader_constructed
  /\ shader_constructed \subseteq Shaders
  /\ shader_ref_count \in [Shaders -> Nat]
  /\ attached_shaders \subseteq Shaders
  /\ linked_shaders \subseteq Shaders
  /\ state \in {"none", "object", "detached", "leaked"}
  /\ linked \in BOOLEAN
  /\ ucode \in BOOLEAN
  /\ stream \in BOOLEAN
  /\ invalid_uniforms \in BOOLEAN
  /\ invalid \subseteq Stages
  /\ active \in {"program", "other", "none"}
  /\ invalid_program \in BOOLEAN
  /\ feedback_program \in BOOLEAN
  /\ feedback_mode \in BOOLEAN
  /\ loaded \in [Stages -> Microcode]
  /\ constants \in BOOLEAN
  /\ patched \in BOOLEAN
  /\ timestamp \in 0 .. FifoBound
  /\ fifo \in Seq([runs : Microcode, covered : BOOLEAN])
  /\ relinked \in BOOLEAN

(* A shader that the program is made of, or has attached, is never          *)
(* destroyed, and has been counted once for each of the two lists it is on, *)
(* though glLinkProgram moves references from one list to the other without *)
(* counting them.                                                           *)
ShadersHeld ==
  /\ TypeOK
  /\ attached_shaders \cup linked_shaders \subseteq shader_constructed
  /\ \A s \in shader_constructed :
       shader_ref_count[s] = (IF s \in attached_shaders THEN 1 ELSE 0)
                             + (IF s \in linked_shaders THEN 1 ELSE 0)

(* As long as the active program is not flagged to be loaded, the GPU runs  *)
(* it, whatever was drawn or fed back in between, if it has not been linked *)
(* while it was active.                                                     *)
ProgramFollows ==
  active = "program" /\ linked /\ ucode /\ ~invalid_program /\ ~relinked =>
    loaded = [s \in Stages |-> "program"]

(* ... and then the GPU has the value of its uniform, unless that waits to  *)
(* be sent: in the constant registers that all programs share, and in the   *)
(* fragment program.                                                        *)
UniformsFollow ==
  active = "program" /\ linked /\ ucode /\ ~invalid_program /\ ~relinked =>
    /\ constants \/ (invalid_uniforms /\ "vertex" \in invalid)
    /\ patched \/ (invalid_uniforms /\ "fragment" \in invalid)

(* glLinkProgram frees no microcode that a waiting draw runs, unless that   *)
(* is the pass of transform feedback: it comes after the timestamp.         *)
NothingFreed ==
  \A k \in 1 .. Len(fifo) : fifo[k].covered => fifo[k].runs # "freed"

=============================================================================
