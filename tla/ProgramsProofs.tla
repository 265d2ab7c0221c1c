--------------------------- MODULE ProgramsProofs ---------------------------
(***************************************************************************)
(* For any set of shaders and any number of waiting commands: all safety   *)
(* properties of Programs.  ShadersHeld and ProgramFollows are inductive   *)
(* as they are.  UniformsFollow needs that a value which is not in the     *)
(* microcode waits to be sent, and NothingFreed that every covered command *)
(* which runs the program is among those its timestamp waits for.          *)
(***************************************************************************)
EXTENDS Programs, TLAPS

USE ProgramsAssumption

Command == [runs : Microcode, covered : BOOLEAN]

Own == {"program", "stream"}

(* A value of the uniform that the fragment program does not have in it     *)
(* waits to be sent.                                                        *)
PatchedOrAsked == linked /\ ucode => patched \/ "fragment" \in invalid

(* The GPU never runs microcode of the program for another one.             *)
OtherLoaded ==
  active = "other" /\ ~invalid_program => \A s \in Stages : loaded[s] \notin Own

(* No draw loads microcode that was freed.                                  *)
LoadedExists == \A s \in Stages : loaded[s] # "freed"

(* The timestamp of the program passes after all draws of it, but for the   *)
(* pass of transform feedback.                                              *)
TimestampCovers ==
  \A k \in 1 .. Len(fifo) : fifo[k].covered /\ fifo[k].runs \in Own => k <= timestamp

ProgramInv ==
  /\ ShadersHeld
  /\ ProgramFollows
  /\ UniformsFollow
  /\ PatchedOrAsked
  /\ OtherLoaded
  /\ LoadedExists
  /\ TimestampCovers
  /\ NothingFreed

-----------------------------------------------------------------------------
(* What actions do to loaded and to fifo.                                   *)

LEMMA CommandFacts ==
  ASSUME NEW r \in Microcode, NEW c \in BOOLEAN
  PROVE  /\ [runs |-> r, covered |-> c] \in Command
         /\ [runs |-> r, covered |-> c].runs = r
         /\ [runs |-> r, covered |-> c].covered = c
  BY DEF Command

(* A draw with its timestamp.                                               *)
LEMMA AppendFacts ==
  ASSUME fifo \in Seq(Command), NEW r \in Microcode,
         fifo' = Append(fifo, [runs |-> r, covered |-> TRUE])
  PROVE  /\ fifo' \in Seq(Command)
         /\ Len(fifo') = Len(fifo) + 1
         /\ \A k \in 1 .. Len(fifo) : fifo'[k] = fifo[k]
         /\ fifo'[Len(fifo) + 1].runs = r
  <1> DEFINE c == [runs |-> r, covered |-> TRUE]
  <1>1. c \in Command /\ c.runs = r
    BY CommandFacts
  <1>2. fifo' = Append(fifo, c)
    OBVIOUS
  <1> HIDE DEF c
  <1> QED BY <1>1, <1>2

LEMMA FreedFacts ==
  ASSUME fifo \in Seq(Command)
  PROVE  /\ Freed \in Seq(Command)
         /\ Len(Freed) = Len(fifo)
         /\ \A k \in 1 .. Len(fifo) :
              /\ Freed[k].covered = fifo[k].covered
              /\ Freed[k].runs = IF fifo[k].runs \in Own THEN "freed" ELSE fifo[k].runs
  <1> DEFINE g(k) == [fifo[k] EXCEPT !.runs =
                        IF @ \in {"program", "stream"} THEN "freed" ELSE @]
  <1>1. ASSUME NEW k \in 1 .. Len(fifo)
        PROVE  /\ g(k) \in Command
               /\ g(k).covered = fifo[k].covered
               /\ g(k).runs = IF fifo[k].runs \in Own THEN "freed" ELSE fifo[k].runs
    <2>1. fifo[k] \in Command
      OBVIOUS
    <2> QED BY <2>1 DEF Command, Microcode, Own
  <1>2. Freed = [k \in 1 .. Len(fifo) |-> g(k)]
    BY DEF Freed
  <1> HIDE DEF g
  <1>3. Len(fifo) \in Nat
    OBVIOUS
  <1> QED BY <1>1, <1>2, <1>3

LEMMA StaleFacts ==
  ASSUME loaded \in [Stages -> Microcode]
  PROVE  /\ Stale \in [Stages -> Microcode]
         /\ \A s \in Stages :
              Stale[s] = IF loaded[s] \in Own THEN "stale" ELSE loaded[s]
  BY DEF Stale, Microcode, Own

(* What loaded is after a draw.                                             *)
LEMMA DrawFacts ==
  ASSUME TypeOK, Draw
  PROVE  /\ loaded' \in [Stages -> Microcode]
         /\ loaded'["fragment"] \in Microcode
         /\ \A s \in Stages : loaded'[s] \in {"program", "none", loaded[s]}
         /\ invalid_program /\ ucode => loaded' = [s \in Stages |-> "program"]
         /\ ucode => \A s \in Stages : loaded'[s] \in {"program", loaded[s]}
  BY DEF TypeOK, Draw, Microcode, Stages

(* And after a draw that feeds back: two commands more.                     *)
LEMMA FeedbackFacts ==
  ASSUME TypeOK, DrawFeedback
  PROVE  /\ loaded' \in [Stages -> Microcode]
         /\ \A s \in Stages : loaded'[s] \in {"stream", "none"}
         /\ timestamp' = Len(fifo) + 1
         /\ timestamp' \in 0 .. FifoBound
         /\ \E c, d \in Command :
              /\ fifo' = Append(Append(fifo, c), d)
              /\ c.runs \in {"program", "none", loaded["fragment"]}
              /\ ~d.covered
         /\ fifo' \in Seq(Command)
  <1> DEFINE r == IF invalid_program \/ (IsSent /\ "fragment" \in ToBeSent)
                  THEN IF ucode THEN "program" ELSE "none"
                  ELSE loaded["fragment"]
             c == [runs |-> r, covered |-> TRUE]
             d == [runs |-> loaded'["fragment"], covered |-> FALSE]
  <1>1. /\ loaded' \in [Stages -> Microcode]
        /\ \A s \in Stages : loaded'[s] \in {"stream", "none"}
    BY DEF DrawFeedback, Microcode
  <1>2. r \in Microcode /\ r \in {"program", "none", loaded["fragment"]}
    BY DEF TypeOK, Microcode, Stages
  <1>3. loaded'["fragment"] \in Microcode
    BY <1>1 DEF Stages
  <1>4. c \in Command /\ d \in Command /\ c.runs = r /\ ~d.covered
    BY <1>2, <1>3, CommandFacts
  <1>5. fifo \in Seq(Command)
    BY DEF TypeOK, Command
  <1>6. fifo' = fifo \o <<c, d>>
    BY DEF DrawFeedback
  <1>7. timestamp' = Len(fifo) + 1 /\ timestamp' \in 0 .. FifoBound
    BY <1>5 DEF DrawFeedback
  <1> HIDE DEF r, c, d
  <1>8. fifo' = Append(Append(fifo, c), d) /\ fifo' \in Seq(Command)
    BY <1>4, <1>5, <1>6
  <1> QED BY <1>1, <1>2, <1>4, <1>7, <1>8

-----------------------------------------------------------------------------
(* The actions that no property but ShadersHeld and the types depend on.    *)

ShaderAction ==
  \/ \E s \in Shaders :
       CreateShader(s) \/ DeleteShader(s) \/ AttachShader(s) \/ DetachShader(s)
  \/ CreateProgram
  \/ BeginTransformFeedback
  \/ EndTransformFeedback

Quiet ==
  UNCHANGED <<linked, ucode, stream, invalid_uniforms, invalid, active, invalid_program,
              loaded, constants, patched, relinked>>

LEMMA QuietFacts ==
  /\ ShaderAction \/ UNCHANGED vars => Quiet /\ UNCHANGED <<timestamp, fifo>>
  /\ Execute => Quiet
  <1>1. ShaderAction => Quiet /\ UNCHANGED <<timestamp, fifo>>
    BY Zenon DEF ShaderAction, Quiet, linkVars, uniformVars, hardwareVars, gpuVars,
       contextVars, CreateShader, DeleteShader, AttachShader, DetachShader,
       CreateProgram, BeginTransformFeedback, EndTransformFeedback
  <1>2. UNCHANGED vars => Quiet /\ UNCHANGED <<timestamp, fifo>>
    BY Zenon DEF Quiet, vars, linkVars, uniformVars, hardwareVars, gpuVars, contextVars
  <1>3. Execute => Quiet
    BY Zenon DEF Quiet, Execute, linkVars, uniformVars, hardwareVars, contextVars
  <1> QED BY <1>1, <1>2, <1>3

BooleanVars ==
  /\ linked \in BOOLEAN
  /\ ucode \in BOOLEAN
  /\ stream \in BOOLEAN
  /\ invalid_uniforms \in BOOLEAN
  /\ invalid_program \in BOOLEAN
  /\ feedback_program \in BOOLEAN
  /\ feedback_mode \in BOOLEAN
  /\ constants \in BOOLEAN
  /\ patched \in BOOLEAN
  /\ relinked \in BOOLEAN

LEMMA BooleanStep ==
  ASSUME BooleanVars, [Next]_vars
  PROVE  BooleanVars'
  <1> USE DEF BooleanVars
  <1>1. CASE ShaderAction \/ Execute \/ UNCHANGED vars
    <2>1. Quiet
      BY <1>1, QuietFacts
    <2>2. feedback_program' \in BOOLEAN /\ feedback_mode' \in BOOLEAN
      BY <1>1, Zenon DEF ShaderAction, vars, contextVars, CreateShader, DeleteShader,
         AttachShader, DetachShader, CreateProgram, BeginTransformFeedback,
         EndTransformFeedback, Execute
    <2> QED BY <2>1, <2>2, Zenon DEF Quiet
  <1>2. CASE DeleteProgram
    BY <1>2, Zenon DEF DeleteProgram, linkVars, uniformVars, contextVars, hardwareVars
  <1>3. ASSUME NEW got \in BOOLEAN, NEW feedback \in BOOLEAN, Link(got, feedback)
        PROVE  BooleanVars'
    BY <1>3, Zenon DEF Link, StartLink, contextVars
  <1>4. CASE LinkFails
    BY <1>4, Zenon DEF LinkFails, StartLink, contextVars
  <1>5. CASE Uniform
    BY <1>5, Zenon DEF Uniform, linkVars, contextVars
  <1>6. ASSUME NEW p \in {"program", "other", "none"}, UseProgram(p)
        PROVE  BooleanVars'
    BY <1>6, Zenon DEF UseProgram, UseFlagged, linkVars, uniformVars, hardwareVars
  <1>7. CASE Swap
    BY <1>7, Zenon DEF Swap, linkVars, uniformVars, hardwareVars
  <1>8. CASE Draw
    BY <1>8, Zenon DEF Draw, linkVars
  <1>9. CASE DrawFeedback
    BY <1>9, Zenon DEF DrawFeedback, linkVars
  <1>10. CASE DrawOther
    BY <1>10, Zenon DEF DrawOther, linkVars, uniformVars
  <1> QED BY <1>1, <1>2, <1>3, <1>4, <1>5, <1>6, <1>7, <1>8, <1>9, <1>10,
             Zenon DEF Next, ShaderAction

-----------------------------------------------------------------------------
(* The shaders.                                                             *)

ShaderTypes ==
  /\ shader_names \subseteq shader_constructed
  /\ shader_constructed \subseteq Shaders
  /\ shader_ref_count \in [Shaders -> Nat]
  /\ attached_shaders \subseteq Shaders
  /\ linked_shaders \subseteq Shaders

Lists(s) ==
  (IF s \in attached_shaders THEN 1 ELSE 0) + (IF s \in linked_shaders THEN 1 ELSE 0)

Counted ==
  /\ attached_shaders \cup linked_shaders \subseteq shader_constructed
  /\ \A s \in shader_constructed : shader_ref_count[s] = Lists(s)

LEMMA ShadersStep ==
  ASSUME ShaderTypes, Counted, [Next]_vars
  PROVE  ShaderTypes' /\ Counted'
  <1> USE DEF ShaderTypes, Counted, Lists
  <1>1. ASSUME NEW s \in Shaders, CreateShader(s)
        PROVE  ShaderTypes' /\ Counted'
    BY <1>1 DEF CreateShader, listVars
  <1>2. ASSUME NEW s \in Shaders, DeleteShader(s)
        PROVE  ShaderTypes' /\ Counted'
    <2>1. s \in attached_shaders \cup linked_shaders => s \in shader_constructed'
      BY <1>2 DEF DeleteShader
    <2> QED BY <1>2, <2>1 DEF DeleteShader, listVars
  <1>3. ASSUME NEW s \in Shaders, AttachShader(s)
        PROVE  ShaderTypes' /\ Counted'
    BY <1>3 DEF AttachShader
  <1>4. ASSUME NEW s \in Shaders, DetachShader(s)
        PROVE  ShaderTypes' /\ Counted'
    BY <1>4 DEF DetachShader, Unref
  <1>5. CASE DeleteProgram
    <2>1. CASE active = "program"
      BY <1>5, <2>1 DEF DeleteProgram, listVars
    <2>2. CASE active # "program"
      BY <1>5, <2>2 DEF DeleteProgram
    <2> QED BY <2>1, <2>2
  <1>6. ASSUME NEW got \in BOOLEAN, NEW feedback \in BOOLEAN, Link(got, feedback)
        PROVE  ShaderTypes' /\ Counted'
    BY <1>6 DEF Link, StartLink, LinkReferences, Unref
  <1>7. CASE LinkFails
    BY <1>7 DEF LinkFails, StartLink, LinkReferences, Unref
  <1>8. UNCHANGED <<shaderVars, listVars>> => ShaderTypes' /\ Counted'
    BY DEF shaderVars, listVars
  <1> HIDE DEF ShaderTypes, Counted, Lists
  <1>9. CASE CreateProgram \/ BeginTransformFeedback \/ EndTransformFeedback
             \/ Swap \/ Uniform \/ Execute
    BY <1>8, <1>9, Zenon DEF CreateProgram, BeginTransformFeedback, EndTransformFeedback,
       Swap, Uniform, Execute
  <1>10. ASSUME NEW p \in {"program", "other", "none"}, UseProgram(p)
         PROVE  ShaderTypes' /\ Counted'
    BY <1>8, <1>10, Zenon DEF UseProgram
  <1>11. CASE Draw \/ DrawFeedback \/ DrawOther
    BY <1>8, <1>11, Zenon DEF Draw, DrawFeedback, DrawOther
  <1>12. CASE UNCHANGED vars
    BY <1>8, <1>12, Zenon DEF vars
  <1> QED
    BY <1>1, <1>2, <1>3, <1>4, <1>5, <1>6, <1>7, <1>9, <1>10, <1>11, <1>12, Zenon
       DEF Next

-----------------------------------------------------------------------------
(* The other types.                                                         *)

OtherTypes ==
  /\ state \in {"none", "object", "detached", "leaked"}
  /\ invalid \subseteq Stages
  /\ active \in {"program", "other", "none"}
  /\ loaded \in [Stages -> Microcode]
  /\ timestamp \in 0 .. FifoBound
  /\ fifo \in Seq(Command)

LEMMA SplitTypes ==
  /\ TypeOK <=> BooleanVars /\ ShaderTypes /\ OtherTypes
  /\ TypeOK' <=> BooleanVars' /\ ShaderTypes' /\ OtherTypes'
  BY Zenon DEF TypeOK, BooleanVars, ShaderTypes, OtherTypes, Command

LEMMA OtherStep ==
  ASSUME TypeOK, [Next]_vars
  PROVE  OtherTypes'
  <1> USE SplitTypes DEF OtherTypes
  <1>1. CASE ShaderAction \/ UNCHANGED vars
    <2>1. Quiet /\ UNCHANGED <<timestamp, fifo>>
      BY <1>1, QuietFacts
    <2>2. state' \in {state, "object"}
      BY <1>1, Zenon DEF ShaderAction, vars, CreateShader, DeleteShader, AttachShader,
         DetachShader, CreateProgram, BeginTransformFeedback, EndTransformFeedback
    <2> QED BY <2>1, <2>2 DEF Quiet
  <1>2. CASE Execute
    <2>1. Quiet /\ state' = state
      BY <1>2, QuietFacts DEF Execute
    <2>2. fifo' \in Seq(Command) /\ timestamp' \in 0 .. FifoBound
      BY <1>2 DEF Execute
    <2> QED BY <2>1, <2>2 DEF Quiet
  <1>3. CASE DeleteProgram
    BY <1>3 DEF DeleteProgram, contextVars, hardwareVars, gpuVars, uniformVars
  <1>4. ASSUME NEW got \in BOOLEAN, NEW feedback \in BOOLEAN, Link(got, feedback)
        PROVE  OtherTypes'
    BY <1>4, FreedFacts, StaleFacts DEF Link, StartLink, contextVars
  <1>5. CASE LinkFails
    BY <1>5, FreedFacts, StaleFacts DEF LinkFails, StartLink, contextVars
  <1>6. CASE Uniform
    BY <1>6 DEF Uniform, contextVars, gpuVars
  <1>7. ASSUME NEW p \in {"program", "other", "none"}, UseProgram(p)
        PROVE  OtherTypes'
    BY <1>7 DEF UseProgram, uniformVars, hardwareVars, gpuVars
  <1>8. CASE Swap
    BY <1>8 DEF Swap, uniformVars, hardwareVars, gpuVars
  <1>9. CASE Draw
    <2>0. fifo' = Append(fifo, [runs |-> loaded'["fragment"], covered |-> TRUE])
      BY <1>9, Zenon DEF Draw
    <2>1. fifo' \in Seq(Command)
      BY <1>9, <2>0, DrawFacts, AppendFacts
    <2>2. timestamp' \in 0 .. FifoBound
      BY <1>9 DEF Draw
    <2> QED BY <1>9, <2>1, <2>2, DrawFacts DEF Draw
  <1>10. CASE DrawFeedback
    BY <1>10, FeedbackFacts DEF DrawFeedback
  <1>11. CASE DrawOther
    <2>1. loaded' \in [Stages -> Microcode]
      BY <1>11 DEF DrawOther, Microcode
    <2>2. loaded'["fragment"] \in Microcode
      BY <2>1 DEF Stages
    <2>0. fifo' = Append(fifo, [runs |-> loaded'["fragment"], covered |-> TRUE])
      BY <1>11, Zenon DEF DrawOther
    <2>3. fifo' \in Seq(Command)
      BY <2>2, <2>0, AppendFacts
    <2>4. UNCHANGED <<state, invalid, active, timestamp>>
      BY <1>11, Zenon DEF DrawOther, uniformVars
    <2> QED BY <2>1, <2>3, <2>4
  <1> QED BY <1>1, <1>2, <1>3, <1>4, <1>5, <1>6, <1>7, <1>8, <1>9, <1>10, <1>11,
             Zenon DEF Next, ShaderAction

LEMMA HeldSplits ==
  /\ ShadersHeld <=> TypeOK /\ Counted
  /\ ShadersHeld' <=> TypeOK' /\ Counted'
  BY Zenon DEF ShadersHeld, Counted, Lists

LEMMA HeldStep ==
  ASSUME ShadersHeld, [Next]_vars
  PROVE  ShadersHeld'
  <1>1. TypeOK /\ Counted /\ BooleanVars /\ ShaderTypes
    BY HeldSplits, SplitTypes
  <1>2. ShaderTypes' /\ Counted'
    BY <1>1, ShadersStep
  <1>3. BooleanVars' /\ OtherTypes'
    BY <1>1, BooleanStep, OtherStep
  <1>4. TypeOK'
    BY <1>2, <1>3, SplitTypes
  <1> QED BY <1>2, <1>4, HeldSplits

-----------------------------------------------------------------------------
(* The program and its uniform on the GPU.                                  *)

(* Draws of the program clear the flag of a program that was relinked.      *)
LEMMA FollowsStep ==
  ASSUME TypeOK, ProgramFollows, [Next]_vars
  PROVE  ProgramFollows'
  <1> USE DEF ProgramFollows
  <1>1. CASE ShaderAction \/ Execute \/ UNCHANGED vars
    <2>1. Quiet
      BY <1>1, QuietFacts, Zenon
    <2> QED BY <2>1 DEF Quiet
  <1>2. CASE DeleteProgram
    BY <1>2 DEF DeleteProgram, contextVars, hardwareVars, linkVars
  <1>3. ASSUME NEW got \in BOOLEAN, NEW feedback \in BOOLEAN, Link(got, feedback)
        PROVE  ProgramFollows'
    BY <1>3 DEF Link, StartLink, contextVars
  <1>4. CASE LinkFails
    BY <1>4 DEF LinkFails
  <1>5. CASE Uniform
    BY <1>5 DEF Uniform, linkVars, contextVars
  <1>6. ASSUME NEW p \in {"program", "other", "none"}, UseProgram(p)
        PROVE  ProgramFollows'
    <2>1. invalid_program'
      BY <1>6, Zenon DEF UseProgram, UseFlagged
    <2> QED BY <2>1
  <1>7. CASE Swap
    BY <1>7 DEF Swap
  <1>8. CASE Draw
    <2>1. UNCHANGED <<active, linked, ucode>> /\ relinked' = (relinked /\ ~invalid_program)
      BY <1>8, Zenon DEF Draw, linkVars
    <2>2. invalid_program /\ ucode => loaded' = [s \in Stages |-> "program"]
      BY <1>8, DrawFacts
    <2>3. CASE ~invalid_program /\ ucode /\ loaded = [s \in Stages |-> "program"]
      <3>1. \A s \in Stages : loaded'[s] = "program"
        BY <1>8, <2>3, DrawFacts
      <3> QED BY <1>8, <3>1, DrawFacts
    <2> QED BY <1>8, <2>1, <2>2, <2>3 DEF Draw
  <1>9. CASE DrawFeedback
    BY <1>9 DEF DrawFeedback
  <1>10. CASE DrawOther
    BY <1>10 DEF DrawOther
  <1> QED BY <1>1, <1>2, <1>3, <1>4, <1>5, <1>6, <1>7, <1>8, <1>9, <1>10,
             Zenon DEF Next, ShaderAction

LEMMA PatchedStep ==
  ASSUME TypeOK, PatchedOrAsked, [Next]_vars
  PROVE  PatchedOrAsked'
  <1> USE DEF PatchedOrAsked
  <1>1. CASE ShaderAction \/ Execute \/ UNCHANGED vars
    <2>1. Quiet
      BY <1>1, QuietFacts, Zenon
    <2> QED BY <2>1 DEF Quiet
  <1>2. CASE DeleteProgram
    BY <1>2 DEF DeleteProgram, hardwareVars, linkVars, uniformVars
  <1>3. ASSUME NEW got \in BOOLEAN, NEW feedback \in BOOLEAN, Link(got, feedback)
        PROVE  PatchedOrAsked'
    BY <1>3 DEF Link
  <1>4. CASE LinkFails
    BY <1>4 DEF LinkFails
  <1>5. CASE Uniform
    BY <1>5 DEF Uniform, Stages
  <1>6. ASSUME NEW p \in {"program", "other", "none"}, UseProgram(p)
        PROVE  PatchedOrAsked'
    <2>1. UNCHANGED <<linked, ucode, patched, invalid>>
      BY <1>6, Zenon DEF UseProgram, linkVars, uniformVars, hardwareVars
    <2> QED BY <2>1
  <1>7. CASE Swap
    BY <1>7 DEF Swap, linkVars, uniformVars, hardwareVars
  <1>8. CASE Draw
    BY <1>8, Zenon DEF Draw, linkVars, ToBeSent
  <1>9. CASE DrawFeedback
    BY <1>9, Zenon DEF DrawFeedback, linkVars, ToBeSent
  <1>10. CASE DrawOther
    BY <1>10 DEF DrawOther, linkVars, uniformVars
  <1> QED BY <1>1, <1>2, <1>3, <1>4, <1>5, <1>6, <1>7, <1>8, <1>9, <1>10,
             Zenon DEF Next, ShaderAction

(* A draw that loads the program writes all constants.                      *)
LEMMA UniformsStep ==
  ASSUME TypeOK, PatchedOrAsked, UniformsFollow, [Next]_vars
  PROVE  UniformsFollow'
  <1> USE DEF UniformsFollow
  <1>1. CASE ShaderAction \/ Execute \/ UNCHANGED vars
    <2>1. Quiet
      BY <1>1, QuietFacts, Zenon
    <2> QED BY <2>1 DEF Quiet
  <1>2. CASE DeleteProgram
    BY <1>2 DEF DeleteProgram, contextVars, hardwareVars, linkVars, uniformVars
  <1>3. ASSUME NEW got \in BOOLEAN, NEW feedback \in BOOLEAN, Link(got, feedback)
        PROVE  UniformsFollow'
    BY <1>3 DEF Link, StartLink, contextVars
  <1>4. CASE LinkFails
    BY <1>4 DEF LinkFails
  <1>5. CASE Uniform
    BY <1>5 DEF Uniform, Stages
  <1>6. ASSUME NEW p \in {"program", "other", "none"}, UseProgram(p)
        PROVE  UniformsFollow'
    <2>1. invalid_program'
      BY <1>6, Zenon DEF UseProgram, UseFlagged
    <2> QED BY <2>1
  <1>7. CASE Swap
    BY <1>7 DEF Swap
  <1>8. CASE Draw
    <2>1. /\ UNCHANGED <<active, linked, ucode>>
          /\ relinked' = (relinked /\ ~invalid_program)
          /\ constants' = (constants \/ (IsSent /\ "vertex" \in ToBeSent))
          /\ patched' = (patched \/ (IsSent /\ "fragment" \in ToBeSent))
      BY <1>8, Zenon DEF Draw, linkVars
    <2>2. CASE invalid_program
      BY <2>1, <2>2 DEF IsSent, ToBeSent, PatchedOrAsked
    <2>3. CASE ~invalid_program
      BY <2>1, <2>3 DEF IsSent, ToBeSent
    <2> QED BY <2>2, <2>3
  <1>9. CASE DrawFeedback
    BY <1>9 DEF DrawFeedback
  <1>10. CASE DrawOther
    BY <1>10 DEF DrawOther
  <1> QED BY <1>1, <1>2, <1>3, <1>4, <1>5, <1>6, <1>7, <1>8, <1>9, <1>10,
             Zenon DEF Next, ShaderAction

-----------------------------------------------------------------------------
(* What the GPU runs, and until when.                                       *)

LEMMA LoadedStep ==
  ASSUME TypeOK, OtherLoaded, LoadedExists, [Next]_vars
  PROVE  OtherLoaded' /\ LoadedExists'
  <1> USE DEF OtherLoaded, LoadedExists
  <1>0. loaded \in [Stages -> Microcode]
    BY DEF TypeOK
  <1>1. CASE ShaderAction \/ Execute \/ UNCHANGED vars
    <2>1. Quiet
      BY <1>1, QuietFacts, Zenon
    <2> QED BY <2>1 DEF Quiet
  <1>2. CASE DeleteProgram
    BY <1>2 DEF DeleteProgram, contextVars, hardwareVars
  <1>3. ASSUME StartLink
        PROVE  OtherLoaded' /\ LoadedExists'
    <2>1. \A s \in Stages : loaded'[s] \notin Own /\ loaded'[s] # "freed"
      BY <1>0, <1>3, StaleFacts DEF StartLink, Own
    <2> QED BY <2>1
  <1>4. ASSUME NEW got \in BOOLEAN, NEW feedback \in BOOLEAN, Link(got, feedback)
        PROVE  OtherLoaded' /\ LoadedExists'
    BY <1>3, <1>4, Zenon DEF Link
  <1>5. CASE LinkFails
    BY <1>3, <1>5, Zenon DEF LinkFails
  <1>6. CASE Uniform
    BY <1>6 DEF Uniform, contextVars
  <1>7. ASSUME NEW p \in {"program", "other", "none"}, UseProgram(p)
        PROVE  OtherLoaded' /\ LoadedExists'
    <2>1. invalid_program' /\ loaded' = loaded
      BY <1>7, Zenon DEF UseProgram, UseFlagged, hardwareVars
    <2> QED BY <2>1
  <1>8. CASE Swap
    BY <1>8 DEF Swap, hardwareVars
  <1>9. CASE Draw
    <2>1. active' = "program"
      BY <1>9, Zenon DEF Draw
    <2>2. \A s \in Stages : loaded'[s] \in {"program", "none", loaded[s]}
      BY <1>9, DrawFacts, Zenon
    <2> QED BY <2>1, <2>2
  <1>10. CASE DrawFeedback
    <2>1. active' = "program"
      BY <1>10, Zenon DEF DrawFeedback
    <2>2. \A s \in Stages : loaded'[s] \in {"stream", "none"}
      BY <1>10, FeedbackFacts, Zenon
    <2> QED BY <2>1, <2>2
  <1>11. CASE DrawOther
    <2>1. CASE invalid_program
      <3>1. \A s \in Stages : loaded'[s] = "other"
        BY <1>11, <2>1 DEF DrawOther
      <3> QED BY <3>1 DEF Own
    <2>2. CASE ~invalid_program
      <3>1. active = "other" /\ loaded' = loaded
        BY <1>11, <2>2, Zenon DEF DrawOther
      <3> QED BY <2>2, <3>1
    <2> QED BY <2>1, <2>2
  <1> QED BY <1>1, <1>2, <1>4, <1>5, <1>6, <1>7, <1>8, <1>9, <1>10, <1>11,
             Zenon DEF Next, ShaderAction

(* glLinkProgram waits for the timestamp, and so for all commands that run  *)
(* what it frees.                                                           *)
LEMMA WaitingStep ==
  ASSUME TypeOK, OtherLoaded, LoadedExists, LoadedExists', OtherLoaded',
         TimestampCovers, NothingFreed, [Next]_vars
  PROVE  TimestampCovers' /\ NothingFreed'
  <1> USE DEF TimestampCovers, NothingFreed
  <1>0. fifo \in Seq(Command) /\ timestamp \in Nat
    BY DEF TypeOK, Command
  <1>1. UNCHANGED <<fifo, timestamp>> => TimestampCovers' /\ NothingFreed'
    OBVIOUS
  <1>2. CASE ShaderAction \/ UNCHANGED vars
    BY <1>1, <1>2, QuietFacts, Zenon
  <1>3. CASE DeleteProgram
    BY <1>1, <1>3, Zenon DEF DeleteProgram, gpuVars
  <1>4. ASSUME StartLink
        PROVE  TimestampCovers' /\ NothingFreed'
    <2>1. timestamp = 0 /\ fifo' = Freed
      BY <1>4, Zenon DEF StartLink, Linkable
    <2>2. \A k \in 1 .. Len(fifo) : ~(fifo[k].covered /\ fifo[k].runs \in Own)
      BY <1>0, <2>1
    <2>3. \A k \in 1 .. Len(fifo') :
            /\ k \in 1 .. Len(fifo)
            /\ fifo'[k].covered = fifo[k].covered
            /\ fifo'[k].runs = IF fifo[k].runs \in Own THEN "freed" ELSE fifo[k].runs
      BY <1>0, <2>1, FreedFacts
    <2> QED BY <2>2, <2>3 DEF Own
  <1>5. ASSUME NEW got \in BOOLEAN, NEW feedback \in BOOLEAN, Link(got, feedback)
        PROVE  TimestampCovers' /\ NothingFreed'
    BY <1>4, <1>5, Zenon DEF Link
  <1>6. CASE LinkFails
    BY <1>4, <1>6, Zenon DEF LinkFails
  <1>7. CASE Uniform
    BY <1>1, <1>7, Zenon DEF Uniform, gpuVars
  <1>8. ASSUME NEW p \in {"program", "other", "none"}, UseProgram(p)
        PROVE  TimestampCovers' /\ NothingFreed'
    BY <1>1, <1>8, Zenon DEF UseProgram, gpuVars
  <1>9. CASE Swap
    BY <1>1, <1>9, Zenon DEF Swap, gpuVars
  <1>10. CASE Draw
    <2>1. /\ fifo' = Append(fifo, [runs |-> loaded'["fragment"], covered |-> TRUE])
          /\ timestamp' = Len(fifo) + 1
      BY <1>10, Zenon DEF Draw
    <2>2. loaded'["fragment"] \in Microcode
      BY <1>10, DrawFacts, Zenon
    <2>3. loaded'["fragment"] # "freed"
      BY DEF LoadedExists, Stages
    <2>4. /\ Len(fifo') = Len(fifo) + 1
          /\ \A k \in 1 .. Len(fifo) : fifo'[k] = fifo[k]
          /\ fifo'[Len(fifo) + 1].runs # "freed"
      BY <1>0, <2>1, <2>2, <2>3, AppendFacts
    <2> QED BY <1>0, <2>1, <2>4
  <1>11. CASE DrawFeedback
    <2>1. PICK c \in Command, d \in Command :
            /\ fifo' = Append(Append(fifo, c), d)
            /\ c.runs \in {"program", "none", loaded["fragment"]}
            /\ ~d.covered
      BY <1>11, FeedbackFacts, Zenon
    <2>2. timestamp' = Len(fifo) + 1
      BY <1>11, FeedbackFacts, Zenon
    <2>3. c.runs # "freed"
      BY <2>1 DEF LoadedExists, Stages
    <2>4. /\ Len(fifo') = Len(fifo) + 2
          /\ \A k \in 1 .. Len(fifo) : fifo'[k] = fifo[k]
          /\ fifo'[Len(fifo) + 1] = c
          /\ fifo'[Len(fifo) + 2] = d
      BY <1>0, <2>1
    <2>5. \A k \in 1 .. Len(fifo') :
            k \in 1 .. Len(fifo) \/ k = Len(fifo) + 1 \/ k = Len(fifo) + 2
      BY <1>0, <2>4
    <2>6. \A k \in 1 .. Len(fifo') : fifo'[k].covered => k <= timestamp'
      BY <1>0, <2>1, <2>2, <2>4, <2>5
    <2> QED BY <2>1, <2>3, <2>4, <2>5, <2>6
  <1>12. CASE DrawOther
    <2>1. /\ fifo' = Append(fifo, [runs |-> loaded'["fragment"], covered |-> TRUE])
          /\ UNCHANGED timestamp
          /\ active' = "other" /\ ~invalid_program'
      BY <1>12, Zenon DEF DrawOther
    <2>2. loaded'["fragment"] \in Microcode
      <3>1. loaded' = loaded \/ loaded' = [s \in Stages |-> "other"]
        BY <1>12, Zenon DEF DrawOther
      <3> QED BY <3>1 DEF TypeOK, Stages, Microcode
    <2>3. loaded'["fragment"] # "freed" /\ loaded'["fragment"] \notin Own
      BY <2>1 DEF LoadedExists, OtherLoaded, Stages
    <2>4. /\ Len(fifo') = Len(fifo) + 1
          /\ \A k \in 1 .. Len(fifo) : fifo'[k] = fifo[k]
          /\ fifo'[Len(fifo) + 1].runs # "freed"
          /\ fifo'[Len(fifo) + 1].runs \notin Own
      BY <1>0, <2>1, <2>2, <2>3, AppendFacts
    <2> QED BY <1>0, <2>1, <2>4
  <1>13. CASE Execute
    <2>1. /\ fifo' = Tail(fifo) /\ fifo # << >>
          /\ timestamp' = IF timestamp = 0 THEN 0 ELSE timestamp - 1
      BY <1>13, Zenon DEF Execute
    <2>2. \A k \in 1 .. Len(fifo') : k + 1 \in 1 .. Len(fifo) /\ fifo'[k] = fifo[k + 1]
      BY <1>0, <2>1
    <2>3. NothingFreed'
      BY <2>2
    <2>4. ASSUME NEW k \in 1 .. Len(fifo'), fifo'[k].covered, fifo'[k].runs \in Own
          PROVE  k <= timestamp'
      <3>1. k + 1 <= timestamp
        BY <2>2, <2>4
      <3> QED BY <1>0, <2>1, <3>1
    <2> QED BY <2>3, <2>4
  <1> QED BY <1>2, <1>3, <1>5, <1>6, <1>7, <1>8, <1>9, <1>10, <1>11, <1>12, <1>13,
             Zenon DEF Next, ShaderAction

-----------------------------------------------------------------------------

(* The invariant holds in every behaviour of a program.                     *)
THEOREM ProgramsInvariant == Spec => []ProgramInv
  <1>1. Init => ProgramInv
    <2> SUFFICES ASSUME Init PROVE ProgramInv
      OBVIOUS
    <2>1. ShaderTypes /\ Counted
      BY DEF Init, ShaderTypes, Counted
    <2>2. BooleanVars
      BY Zenon DEF Init, BooleanVars
    <2>3. OtherTypes
      BY DEF Init, OtherTypes, Microcode
    <2>4. ShadersHeld
      BY <2>1, <2>2, <2>3, SplitTypes, HeldSplits
    <2>5. /\ ProgramFollows
          /\ UniformsFollow
          /\ PatchedOrAsked
          /\ OtherLoaded
      BY DEF Init, ProgramFollows, UniformsFollow, PatchedOrAsked, OtherLoaded
    <2>6. LoadedExists /\ TimestampCovers /\ NothingFreed
      BY DEF Init, LoadedExists, TimestampCovers, NothingFreed
    <2> QED BY <2>4, <2>5, <2>6 DEF ProgramInv
  <1>2. ProgramInv /\ [Next]_vars => ProgramInv'
    <2> SUFFICES ASSUME ProgramInv, [Next]_vars PROVE ProgramInv'
      OBVIOUS
    <2> USE DEF ProgramInv
    <2>1. TypeOK
      BY HeldSplits
    <2>2. ShadersHeld'
      BY HeldStep
    <2>3. ProgramFollows' /\ UniformsFollow' /\ PatchedOrAsked'
      BY <2>1, FollowsStep, UniformsStep, PatchedStep
    <2>4. OtherLoaded' /\ LoadedExists'
      BY <2>1, LoadedStep
    <2>5. TimestampCovers' /\ NothingFreed'
      BY <2>1, <2>4, WaitingStep
    <2> QED BY <2>2, <2>3, <2>4, <2>5
  <1> QED BY <1>1, <1>2, PTL DEF Spec

(* No shader that is attached, or that the program was linked from, is      *)
(* destroyed, and each is counted exactly, in any order of the calls.       *)
THEOREM ProgramsShadersHeld == Spec => []ShadersHeld
  <1>1. ProgramInv => ShadersHeld
    BY DEF ProgramInv
  <1> QED BY <1>1, ProgramsInvariant, PTL

(* The GPU runs the active program whenever no flag asks for it to be       *)
(* loaded, unless it was relinked while active.                             *)
THEOREM ProgramsProgramFollows == Spec => []ProgramFollows
  <1>1. ProgramInv => ProgramFollows
    BY DEF ProgramInv
  <1> QED BY <1>1, ProgramsInvariant, PTL

(* The GPU then has the uniform's value in both programs, or it is flagged  *)
(* to be sent.                                                              *)
THEOREM ProgramsUniformsFollow == Spec => []UniformsFollow
  <1>1. ProgramInv => UniformsFollow
    BY DEF ProgramInv
  <1> QED BY <1>1, ProgramsInvariant, PTL

(* No waiting draw that a timestamp covers runs microcode that was freed,   *)
(* however many draws of however many programs are waiting.                 *)
THEOREM ProgramsNothingFreed == Spec => []NothingFreed
  <1>1. ProgramInv => NothingFreed
    BY DEF ProgramInv
  <1> QED BY <1>1, ProgramsInvariant, PTL
=============================================================================
