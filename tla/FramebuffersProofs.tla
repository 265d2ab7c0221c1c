------------------------- MODULE FramebuffersProofs -------------------------
(***************************************************************************)
(* For any renderbuffers and framebuffers, and any number of commands that *)
(* wait for the GPU: what the GPU draws to, and what it shows.             *)
(***************************************************************************)
EXTENDS Framebuffers, TLAPS

USE DisplayAssumption, FramebuffersAssumption

-----------------------------------------------------------------------------
(* The window.  targets tells for every waiting command, and for the next   *)
(* one, which buffer is to be drawn to when the GPU gets there.             *)

Commands == [op : {"draw", "flip"}, to : Buffers] \cup {WaitFlip}

(* What command k says of the buffers to be drawn to around it.             *)
FitsTargets(commands, targets, k) ==
  /\ commands[k].op \in {"draw", "flip", "wait"}
  /\ commands[k].op = "draw" =>
       commands[k].to = targets[k] /\ targets[k + 1] = targets[k]
  /\ commands[k].op = "flip" =>
       /\ commands[k].to = targets[k]
       /\ targets[k + 1] = Other(targets[k])
       /\ k < Len(commands) /\ commands[k + 1].op = "wait"
  /\ commands[k].op = "wait" => targets[k + 1] = targets[k]

IsSchedule(targets) ==
  /\ targets[Len(fifo) + 1] = buffer
  /\ \A k \in 1 .. Len(fifo) : FitsTargets(fifo, targets, k)

(* A flip that is asked for has the GPU wait.                               *)
ShowsOther(target) ==
  IF flipping = NoFlip THEN displayed \in {Other(target), NoFlip}
  ELSE flipping = Other(target) /\ fifo # << >> /\ fifo[1].op = "wait"

DisplayTypes ==
  /\ buffer \in Buffers
  /\ fifo \in Seq(Commands)
  /\ displayed \in Buffers \cup {NoFlip}
  /\ flipping \in Buffers \cup {NoFlip}

DisplayInv ==
  /\ DisplayTypes
  /\ \E targets \in [1 .. Len(fifo) + 1 -> Buffers] :
       IsSchedule(targets) /\ ShowsOther(targets[1])

(* What the CPU and the GPU do to the display.                              *)
DisplayStep ==
  \/ SwapBuffers
  \/ Emit(<< >>)
  \/ Emit(<<DrawTo(buffer)>>)
  \/ Execute
  \/ VerticalBlank
  \/ UNCHANGED displayVars

LEMMA CommandFacts ==
  /\ WaitFlip \in Commands /\ WaitFlip.op = "wait"
  /\ \A b \in Buffers :
       /\ DrawTo(b) \in Commands /\ DrawTo(b).op = "draw" /\ DrawTo(b).to = b
       /\ Flip(b) \in Commands /\ Flip(b).op = "flip" /\ Flip(b).to = b
  BY DEF Commands, WaitFlip, DrawTo, Flip

LEMMA OtherFacts ==
  \A b \in Buffers : Other(b) \in Buffers /\ Other(b) # b /\ b # NoFlip
  BY DEF Other, Buffers, NoFlip

LEMMA SwapKeepsDisplay ==
  ASSUME DisplayInv, SwapBuffers
  PROVE  DisplayInv'
  <1>1. DisplayTypes
    BY DEF DisplayInv
  <1>2. PICK T \in [1 .. Len(fifo) + 1 -> Buffers] : IsSchedule(T) /\ ShowsOther(T[1])
    BY DEF DisplayInv
  <1> DEFINE f == Flip(buffer)
             w == WaitFlip
             n == Len(fifo)
  <1>3. /\ f \in Commands /\ w \in Commands
        /\ f.op = "flip" /\ f.to = buffer /\ w.op = "wait"
        /\ n \in Nat
        /\ Other(buffer) \in Buffers
    BY <1>1, CommandFacts, OtherFacts DEF DisplayTypes
  <1>4. /\ fifo' = fifo \o <<f, w>> /\ buffer' = Other(buffer)
        /\ UNCHANGED <<displayed, flipping>>
    BY DEF SwapBuffers, FlipAndWait
  <1> HIDE DEF f, w
  <1>5. /\ fifo' \in Seq(Commands)
        /\ Len(fifo') = n + 2
        /\ \A k \in 1 .. n : fifo'[k] = fifo[k]
        /\ fifo'[n + 1] = f /\ fifo'[n + 2] = w
    BY <1>1, <1>3, <1>4 DEF DisplayTypes
  <1>6. PICK T2 \in [1 .. Len(fifo') + 1 -> Buffers] :
          /\ \A k \in 1 .. n + 1 : T2[k] = T[k]
          /\ T2[n + 2] = Other(buffer) /\ T2[n + 3] = Other(buffer)
    <2>1. [k \in 1 .. n + 3 |-> IF k <= n + 1 THEN T[k] ELSE Other(buffer)]
            \in [1 .. Len(fifo') + 1 -> Buffers]
      BY <1>3, <1>5
    <2> WITNESS [k \in 1 .. n + 3 |-> IF k <= n + 1 THEN T[k] ELSE Other(buffer)]
                  \in [1 .. Len(fifo') + 1 -> Buffers]
    <2> QED BY <1>3
  <1>7. IsSchedule(T2)'
    <2>1. T2[Len(fifo') + 1] = buffer'
      BY <1>3, <1>4, <1>5, <1>6
    <2>2. ASSUME NEW k \in 1 .. n
          PROVE  /\ fifo'[k] = fifo[k] /\ T2[k] = T[k] /\ T2[k + 1] = T[k + 1]
                 /\ k < Len(fifo) => fifo'[k + 1] = fifo[k + 1]
      <3>1. k \in 1 .. n + 1 /\ k + 1 \in 1 .. n + 1 /\ (k < n => k + 1 \in 1 .. n)
        BY <1>3
      <3> QED BY <1>5, <1>6, <3>1
    <2>3. T2[n + 1] = buffer
      BY <1>2, <1>3, <1>6 DEF IsSchedule
    <2>4. ASSUME NEW k \in 1 .. Len(fifo')
          PROVE  k \in 1 .. n \/ k = n + 1 \/ k = n + 2
      BY <1>3, <1>5
    <2>5. ASSUME NEW k \in 1 .. n
          PROVE  FitsTargets(fifo', T2, k)
      <3>1. FitsTargets(fifo, T, k)
        BY <1>2 DEF IsSchedule
      <3>2. k < Len(fifo) => k < Len(fifo')
        BY <1>3, <1>5
      <3> QED BY <2>2, <3>1, <3>2 DEF FitsTargets
    <2>6. FitsTargets(fifo', T2, n + 1)
      <3>1. T2[(n + 1) + 1] = Other(buffer) /\ T2[n + 1] = buffer
        BY <1>3, <1>6, <2>3
      <3>2. n + 1 < Len(fifo') /\ fifo'[(n + 1) + 1].op = "wait"
        BY <1>3, <1>5
      <3> QED BY <1>3, <1>5, <3>1, <3>2 DEF FitsTargets
    <2>7. FitsTargets(fifo', T2, n + 2)
      <3>1. T2[(n + 2) + 1] = T2[n + 2]
        BY <1>3, <1>6
      <3> QED BY <1>3, <1>5, <3>1 DEF FitsTargets
    <2>8. ASSUME NEW k \in 1 .. Len(fifo')
          PROVE  FitsTargets(fifo', T2, k)
      BY <2>4, <2>5, <2>6, <2>7
    <2> QED BY <2>1, <2>8 DEF IsSchedule
  <1>8. ShowsOther(T2[1])'
    BY <1>2, <1>3, <1>4, <1>5, <1>6 DEF ShowsOther
  <1>9. DisplayTypes'
    BY <1>1, <1>3, <1>4, <1>5 DEF DisplayTypes
  <1> QED BY <1>6, <1>7, <1>8, <1>9 DEF DisplayInv

LEMMA DrawKeepsDisplay ==
  ASSUME DisplayInv, Emit(<<DrawTo(buffer)>>)
  PROVE  DisplayInv'
  <1>1. DisplayTypes
    BY DEF DisplayInv
  <1>2. PICK T \in [1 .. Len(fifo) + 1 -> Buffers] : IsSchedule(T) /\ ShowsOther(T[1])
    BY DEF DisplayInv
  <1> DEFINE d == DrawTo(buffer)
             n == Len(fifo)
  <1>3. d \in Commands /\ d.op = "draw" /\ d.to = buffer /\ n \in Nat
    BY <1>1, CommandFacts DEF DisplayTypes
  <1>4. fifo' = fifo \o <<d>> /\ UNCHANGED <<buffer, displayed, flipping>>
    BY DEF Emit
  <1> HIDE DEF d
  <1>5. /\ fifo' \in Seq(Commands)
        /\ Len(fifo') = n + 1
        /\ \A k \in 1 .. n : fifo'[k] = fifo[k]
        /\ fifo'[n + 1] = d
    BY <1>1, <1>3, <1>4 DEF DisplayTypes
  <1>6. PICK T2 \in [1 .. Len(fifo') + 1 -> Buffers] :
          (\A k \in 1 .. n + 1 : T2[k] = T[k]) /\ T2[n + 2] = buffer
    <2>1. [k \in 1 .. n + 2 |-> IF k <= n + 1 THEN T[k] ELSE buffer]
            \in [1 .. Len(fifo') + 1 -> Buffers]
      BY <1>1, <1>3, <1>5 DEF DisplayTypes
    <2> WITNESS [k \in 1 .. n + 2 |-> IF k <= n + 1 THEN T[k] ELSE buffer]
                  \in [1 .. Len(fifo') + 1 -> Buffers]
    <2> QED BY <1>3
  <1>7. IsSchedule(T2)'
    <2>1. T2[Len(fifo') + 1] = buffer'
      BY <1>3, <1>4, <1>5, <1>6
    <2>2. ASSUME NEW k \in 1 .. n
          PROVE  /\ fifo'[k] = fifo[k] /\ T2[k] = T[k] /\ T2[k + 1] = T[k + 1]
                 /\ k < Len(fifo) => fifo'[k + 1] = fifo[k + 1]
      <3>1. k \in 1 .. n + 1 /\ k + 1 \in 1 .. n + 1 /\ (k < n => k + 1 \in 1 .. n)
        BY <1>3
      <3> QED BY <1>5, <1>6, <3>1
    <2>3. T2[n + 1] = buffer
      BY <1>2, <1>3, <1>6 DEF IsSchedule
    <2>4. ASSUME NEW k \in 1 .. Len(fifo')
          PROVE  k \in 1 .. n \/ k = n + 1
      BY <1>3, <1>5
    <2>5. ASSUME NEW k \in 1 .. n
          PROVE  FitsTargets(fifo', T2, k)
      <3>1. FitsTargets(fifo, T, k)
        BY <1>2 DEF IsSchedule
      <3>2. k < Len(fifo) => k < Len(fifo')
        BY <1>3, <1>5
      <3> QED BY <2>2, <3>1, <3>2 DEF FitsTargets
    <2>6. FitsTargets(fifo', T2, n + 1)
      <3>1. T2[(n + 1) + 1] = T2[n + 1] /\ T2[n + 1] = buffer
        BY <1>3, <1>6, <2>3
      <3> QED BY <1>3, <1>5, <3>1 DEF FitsTargets
    <2>7. ASSUME NEW k \in 1 .. Len(fifo')
          PROVE  FitsTargets(fifo', T2, k)
      BY <2>4, <2>5, <2>6
    <2> QED BY <2>1, <2>7 DEF IsSchedule
  <1>8. ShowsOther(T2[1])'
    BY <1>2, <1>3, <1>4, <1>5, <1>6 DEF ShowsOther
  <1>9. DisplayTypes'
    BY <1>1, <1>4, <1>5 DEF DisplayTypes
  <1> QED BY <1>6, <1>7, <1>8, <1>9 DEF DisplayInv

LEMMA ExecuteKeepsDisplay ==
  ASSUME DisplayInv, Execute
  PROVE  DisplayInv'
  <1>1. DisplayTypes
    BY DEF DisplayInv
  <1>2. PICK T \in [1 .. Len(fifo) + 1 -> Buffers] : IsSchedule(T) /\ ShowsOther(T[1])
    BY DEF DisplayInv
  <1> DEFINE n == Len(fifo)
  <1>3. /\ fifo # << >> /\ fifo' = Tail(fifo) /\ UNCHANGED <<buffer, displayed>>
        /\ Head(fifo).op = "wait" => flipping = NoFlip
        /\ flipping' = IF Head(fifo).op = "flip" THEN Head(fifo).to ELSE flipping
    BY DEF Execute
  <1>4. /\ n \in Nat \ {0} /\ Head(fifo) = fifo[1]
        /\ fifo' \in Seq(Commands)
        /\ Len(fifo') = n - 1
        /\ \A k \in 1 .. n - 1 : fifo'[k] = fifo[k + 1]
    BY <1>1, <1>3 DEF DisplayTypes
  <1>5. PICK T2 \in [1 .. Len(fifo') + 1 -> Buffers] : \A k \in 1 .. n : T2[k] = T[k + 1]
    <2>1. [k \in 1 .. n |-> T[k + 1]] \in [1 .. Len(fifo') + 1 -> Buffers]
      BY <1>4
    <2> WITNESS [k \in 1 .. n |-> T[k + 1]] \in [1 .. Len(fifo') + 1 -> Buffers]
    <2> QED BY <1>4
  <1>6. IsSchedule(T2)'
    <2>1. T2[Len(fifo') + 1] = buffer'
      BY <1>2, <1>3, <1>4, <1>5 DEF IsSchedule
    <2>2. ASSUME NEW k \in 1 .. Len(fifo')
          PROVE  /\ k + 1 \in 1 .. n
                 /\ fifo'[k] = fifo[k + 1] /\ T2[k] = T[k + 1] /\ T2[k + 1] = T[(k + 1) + 1]
                 /\ k + 1 < n => k < Len(fifo') /\ fifo'[k + 1] = fifo[(k + 1) + 1]
      <3>1. k \in 1 .. n - 1 /\ k + 1 \in 1 .. n /\ (k + 1 < n <=> k < Len(fifo'))
        BY <1>4
      <3>2. fifo'[k] = fifo[k + 1] /\ T2[k] = T[k + 1] /\ T2[k + 1] = T[(k + 1) + 1]
        BY <1>4, <1>5, <3>1
      <3>3. ASSUME k + 1 < n
            PROVE  fifo'[k + 1] = fifo[(k + 1) + 1]
        <4>1. k + 1 \in 1 .. n - 1
          BY <1>4, <3>1, <3>3
        <4> QED BY <1>4, <4>1
      <3> QED BY <3>1, <3>2, <3>3
    <2>3. ASSUME NEW k \in 1 .. Len(fifo')
          PROVE  FitsTargets(fifo', T2, k)
      <3>1. FitsTargets(fifo, T, k + 1)
        BY <1>2, <2>2 DEF IsSchedule
      <3> QED BY <1>4, <2>2, <3>1 DEF FitsTargets
    <2> QED BY <2>1, <2>3 DEF IsSchedule
  <1>7. T[1] \in Buffers /\ T2[1] = T[2] /\ 1 \in 1 .. n
    <2>1. 1 \in 1 .. n /\ 1 \in 1 .. Len(fifo) + 1 /\ 1 + 1 = 2
      BY <1>4
    <2>2. T2[1] = T[1 + 1]
      BY <1>5, <2>1
    <2> QED BY <1>2, <2>1, <2>2
  <1>8. /\ fifo[1].op \in {"draw", "flip", "wait"}
        /\ fifo[1].op = "draw" => T2[1] = T[1]
        /\ fifo[1].op = "flip" =>
             fifo[1].to = T[1] /\ T2[1] = Other(T[1]) /\ 1 < n /\ fifo[2].op = "wait"
        /\ fifo[1].op = "wait" => T2[1] = T[1]
    <2>1. FitsTargets(fifo, T, 1)
      BY <1>2, <1>7 DEF IsSchedule
    <2> QED BY <1>7, <2>1 DEF FitsTargets
  <1>9. ShowsOther(T2[1])'
    <2>1. CASE fifo[1].op = "flip"
      <3>1. flipping' = T[1] /\ T[1] = Other(T2[1]) /\ T[1] # NoFlip
        BY <1>3, <1>4, <1>7, <1>8, <2>1 DEF Other, Buffers, NoFlip
      <3>2. fifo' # << >> /\ fifo'[1].op = "wait"
        BY <1>4, <1>8, <2>1
      <3> QED BY <3>1, <3>2 DEF ShowsOther
    <2>2. CASE fifo[1].op # "flip"
      BY <1>2, <1>3, <1>4, <1>8, <2>2 DEF ShowsOther
    <2> QED BY <2>1, <2>2
  <1>10. DisplayTypes'
    <2>1. flipping' \in Buffers \cup {NoFlip}
      BY <1>1, <1>3, <1>4, <1>7, <1>8 DEF DisplayTypes
    <2> QED BY <1>1, <1>3, <1>4, <2>1 DEF DisplayTypes
  <1> QED BY <1>5, <1>6, <1>9, <1>10 DEF DisplayInv

LEMMA DisplayKeepsInv ==
  ASSUME DisplayInv, DisplayStep
  PROVE  DisplayInv'
  <1>1. CASE Emit(<< >>) \/ UNCHANGED displayVars
    <2>1. UNCHANGED <<buffer, fifo, displayed, flipping>>
      <3>1. fifo \o << >> = fifo
        BY DEF DisplayInv, DisplayTypes
      <3> QED BY <1>1, <3>1 DEF Emit, displayVars
    <2> QED BY <2>1 DEF DisplayInv, DisplayTypes, IsSchedule, FitsTargets, ShowsOther
  <1>2. CASE VerticalBlank
    <2>1. /\ flipping # NoFlip /\ displayed' = flipping /\ flipping' = NoFlip
          /\ UNCHANGED <<buffer, fifo>>
      BY <1>2 DEF VerticalBlank
    <2>2. PICK T \in [1 .. Len(fifo) + 1 -> Buffers] : IsSchedule(T) /\ ShowsOther(T[1])
      BY DEF DisplayInv
    <2>3. IsSchedule(T)' /\ ShowsOther(T[1])'
      BY <2>1, <2>2 DEF IsSchedule, FitsTargets, ShowsOther
    <2>4. DisplayTypes'
      BY <2>1 DEF DisplayInv, DisplayTypes
    <2> QED BY <2>1, <2>2, <2>3, <2>4 DEF DisplayInv
  <1> QED BY <1>1, <1>2, SwapKeepsDisplay, DrawKeepsDisplay, ExecuteKeepsDisplay
          DEF DisplayStep

LEMMA DisplayShows ==
  ASSUME DisplayInv
  PROVE  /\ ShownNotDrawn
         /\ flipping # NoFlip => fifo # << >> /\ Head(fifo).op = "wait"
  <1>1. PICK T \in [1 .. Len(fifo) + 1 -> Buffers] : IsSchedule(T) /\ ShowsOther(T[1])
    BY DEF DisplayInv
  <1>2. fifo \in Seq(Commands)
    BY DEF DisplayInv, DisplayTypes
  <1>3. fifo # << >> => Head(fifo) = fifo[1] /\ 1 \in 1 .. Len(fifo) /\ T[1] \in Buffers
    BY <1>2
  <1>4. flipping # NoFlip => fifo # << >> /\ Head(fifo).op = "wait"
    BY <1>1, <1>3 DEF ShowsOther
  <1>5. ASSUME fifo # << >>, Head(fifo).op = "draw"
        PROVE  Head(fifo).to \notin {displayed, flipping} \cap Buffers
    <2>1. flipping = NoFlip /\ Head(fifo).to = T[1]
      BY <1>1, <1>3, <1>4, <1>5 DEF IsSchedule, FitsTargets
    <2>2. displayed \in {Other(T[1]), NoFlip}
      BY <1>1, <2>1 DEF ShowsOther
    <2> QED BY <1>3, <1>5, <2>1, <2>2, OtherFacts
  <1> QED BY <1>4, <1>5 DEF ShownNotDrawn

-----------------------------------------------------------------------------
(* What the framebuffers draw to.                                           *)

TargetOf(f) ==
  IF f = 0
  THEN IF draw_buffer = "back" THEN Window(buffer)
       ELSE IF draw_buffer = "front" THEN Window(Other(buffer)) ELSE Nowhere
  ELSE IF attachments[f] = None THEN Nowhere
       ELSE IF attachments[f] \in allocated THEN Memory(attachments[f]) ELSE Lost

(* The surface is right for framebuffer f, or was lost on the way.          *)
Fit(surface, f) == surface \in {TargetOf(f), Lost} \/ (stray /\ surface = Destroyed)

ContextTypes ==
  /\ names \subseteq constructed
  /\ constructed \subseteq Renderbuffers
  /\ ref_count \in [Renderbuffers -> Int]
  /\ renderable \subseteq Renderbuffers
  /\ allocated \subseteq constructed
  /\ objects \subseteq All
  /\ 0 \in objects
  /\ attachments \in [All -> Int \cup {None}]
  /\ attachments[0] = None
  /\ status \in [All -> Statuses]
  /\ draw_surfaces \in [All -> Surfaces]
  /\ draw_buffer \in {"back", "front", "none"}
  /\ draw_buffer \in {"back"} \cup Modes
  /\ draw_binding \in objects
  /\ registers \in Surfaces

BooleanVars ==
  /\ draw_framebuffer \in BOOLEAN
  /\ unflagged \in BOOLEAN
  /\ stray \in BOOLEAN
  /\ undefined \in BOOLEAN

(* As long as attachments have not gone astray only renderbuffer 1 is       *)
(* attached, to one framebuffer, and it is held.                            *)
AttachedHeld ==
  ~stray =>
    /\ \A f \in Framebuffers :
         attachments[f] # None =>
           attachments[f] = 1 /\ 1 \in constructed /\ ref_count[1] = 1
    /\ \A f, g \in Framebuffers :
         attachments[f] # None /\ attachments[g] # None => f = g
    /\ \A r \in Renderbuffers :
         (\A f \in Framebuffers : attachments[f] # r) => ref_count[r] = 0

SurfacesFit == \A f \in All : status[f] = "complete" => Fit(draw_surfaces[f], f)

RegistersFit == ~draw_framebuffer /\ ~unflagged => Fit(registers, draw_binding)

ContextInv == ContextTypes /\ AttachedHeld /\ SurfacesFit /\ RegistersFit

LEMMA TargetCases ==
  /\ draw_buffer \in {"back", "front", "none"} => \A f : Target(f) = TargetOf(f)
  /\ draw_buffer' \in {"back", "front", "none"} => \A f : Target(f)' = TargetOf(f)'
  <1>1. ASSUME draw_buffer \in {"back", "front", "none"}, NEW f
        PROVE  Target(f) = TargetOf(f)
    BY <1>1, Zenon DEF Target, TargetOf
  <1>2. ASSUME draw_buffer' \in {"back", "front", "none"}, NEW f
        PROVE  Target(f)' = TargetOf(f)'
    BY <1>2, Zenon DEF Target, TargetOf
  <1> QED BY <1>1, <1>2

LEMMA SurfaceFacts ==
  /\ \A r, q : Memory(r) = Memory(q) => r = q
  /\ \A b, c : Window(b) = Window(c) => b = c
  /\ \A r, b : Memory(r) # Window(b)
  /\ \A r : Memory(r) \notin {Nowhere, Lost, Destroyed}
  /\ \A b : Window(b) \notin {Nowhere, Lost, Destroyed}
  /\ Lost # Destroyed
  BY DEF Memory, Window, Nowhere, Lost, Destroyed

LEMMA TargetTypes ==
  ASSUME ContextTypes, DisplayTypes
  PROVE  \A f \in All : TargetOf(f) \in Surfaces
  BY OtherFacts DEF ContextTypes, DisplayTypes, TargetOf, Surfaces

(* Nothing that targets depend on has changed.                              *)
LEMMA SameTargets ==
  ASSUME UNCHANGED <<buffer, draw_buffer, attachments, allocated, stray>>
  PROVE  \A s, f : Fit(s, f)' <=> Fit(s, f)
  BY DEF Fit, TargetOf

-----------------------------------------------------------------------------
(* Renderbuffers.                                                           *)

LEMMA CreateKeepsInv ==
  ASSUME ContextInv, NEW r \in Renderbuffers, CreateRenderbuffer(r)
  PROVE  ContextInv'
  <1>1. /\ r \notin constructed
        /\ names' = names \cup {r} /\ constructed' = constructed \cup {r}
        /\ ref_count' = [ref_count EXCEPT ![r] = 0]
        /\ UNCHANGED <<buffer, renderable, allocated, objects, attachments, status,
                       draw_surfaces, draw_buffer, draw_binding, draw_framebuffer,
                       registers, unflagged, stray>>
    BY Zenon DEF CreateRenderbuffer, displayVars, framebufferVars, contextVars
  <1>2. ContextTypes'
    BY <1>1 DEF ContextInv, ContextTypes
  <1>3. AttachedHeld'
    BY <1>1 DEF ContextInv, ContextTypes, AttachedHeld
  <1>4. SurfacesFit' /\ RegistersFit'
    BY <1>1, SameTargets DEF ContextInv, SurfacesFit, RegistersFit
  <1> QED BY <1>2, <1>3, <1>4 DEF ContextInv

LEMMA FreedFacts ==
  ASSUME NEW s \in Surfaces, NEW r, NEW how \in {Lost, Destroyed}
  PROVE  /\ Freed(s, r, how) \in Surfaces
         /\ s = Memory(r) => Freed(s, r, how) = how
         /\ s # Memory(r) => Freed(s, r, how) = s
  BY DEF Freed, Surfaces

LEMMA DeleteRenderbufferKeepsInv ==
  ASSUME ContextInv, NEW r \in Renderbuffers, DeleteRenderbuffer(r)
  PROVE  ContextInv'
  <1> USE DEF ContextInv
  <1>1. /\ names' = names \ {r}
        /\ UNCHANGED <<buffer, ref_count, objects, attachments, status, draw_buffer,
                       draw_binding, draw_framebuffer, unflagged, stray>>
    BY Zenon DEF DeleteRenderbuffer, displayVars
  <1>2. CASE Held(r)
    <2>1. UNCHANGED <<constructed, renderable, allocated, draw_surfaces, registers>>
      BY <1>2, Zenon DEF DeleteRenderbuffer
    <2>2. ContextTypes' /\ AttachedHeld'
      BY <1>1, <2>1 DEF ContextTypes, AttachedHeld
    <2>3. SurfacesFit' /\ RegistersFit'
      BY <1>1, <2>1, SameTargets DEF SurfacesFit, RegistersFit
    <2> QED BY <2>2, <2>3
  <1>3. CASE ~Held(r)
    <2>1. /\ constructed' = constructed \ {r} /\ allocated' = allocated \ {r}
          /\ renderable' = renderable \ {r}
          /\ draw_surfaces' = [f \in All |-> Freed(draw_surfaces[f], r, Destroyed)]
          /\ registers' = Freed(registers, r, Destroyed)
      BY <1>3, Zenon DEF DeleteRenderbuffer, FreeMemory
    <2>2. ContextTypes'
      BY <1>1, <2>1, FreedFacts DEF ContextTypes
    <2>3. ~stray => \A f \in Framebuffers : attachments[f] # r
      BY <1>3 DEF ContextTypes, AttachedHeld, Held
    <2>4. AttachedHeld'
      BY <1>1, <2>1, <2>3 DEF ContextTypes, AttachedHeld
    <2>5. ASSUME NEW s \in Surfaces, NEW f \in All, Fit(s, f)
          PROVE  Fit(Freed(s, r, Destroyed), f)'
      <3>1. CASE s = Memory(r)
        <4>1. stray
          BY <2>3, <2>5, <3>1, SurfaceFacts DEF Fit, TargetOf, All
        <4> QED BY <1>1, <3>1, <4>1 DEF Fit, Freed
      <3>2. CASE s # Memory(r)
        <4>1. s = TargetOf(f) => s = TargetOf(f)'  \/ s = Lost
          BY <1>1, <2>1, <3>2 DEF TargetOf
        <4>2. Freed(s, r, Destroyed) = s
          BY <3>2, FreedFacts
        <4> QED BY <1>1, <2>5, <4>1, <4>2 DEF Fit
      <3> QED BY <3>1, <3>2
    <2>6. SurfacesFit' /\ RegistersFit'
      BY <1>1, <2>1, <2>5 DEF ContextTypes, SurfacesFit, RegistersFit
    <2> QED BY <2>2, <2>4, <2>6
  <1> QED BY <1>2, <1>3

LEMMA StorageKeepsInv ==
  ASSUME ContextInv, NEW r \in Renderbuffers, NEW got \in BOOLEAN,
         RenderbufferStorage(r, got)
  PROVE  ContextInv'
  <1> USE DEF ContextInv
  <1>1. /\ r \in names
        /\ draw_surfaces' = [f \in All |-> Freed(draw_surfaces[f], r, Lost)]
        /\ registers' = Freed(registers, r, Lost)
        /\ allocated' = IF got THEN allocated \cup {r} ELSE allocated \ {r}
        /\ renderable' = IF got THEN renderable \cup {r} ELSE renderable
        /\ UNCHANGED <<buffer, names, constructed, ref_count, objects, attachments,
                       status, draw_buffer, draw_binding, draw_framebuffer,
                       unflagged, stray>>
    BY Zenon DEF RenderbufferStorage, FreeMemory, displayVars
  <1>2. ContextTypes'
    BY <1>1, FreedFacts DEF ContextTypes
  <1>3. AttachedHeld'
    BY <1>1 DEF AttachedHeld
  <1>4. ASSUME NEW s \in Surfaces, NEW f \in All, Fit(s, f)
        PROVE  Fit(Freed(s, r, Lost), f)'
    <2>1. CASE s = Memory(r)
      BY <1>4, <2>1, FreedFacts DEF Fit
    <2>2. CASE s # Memory(r)
      <3>1. s = TargetOf(f) => s = TargetOf(f)' \/ s = Lost
        BY <1>1, <2>2 DEF TargetOf
      <3>2. Freed(s, r, Lost) = s
        BY <2>2, FreedFacts
      <3> QED BY <1>1, <1>4, <3>1, <3>2 DEF Fit
    <2> QED BY <2>1, <2>2
  <1>5. SurfacesFit' /\ RegistersFit'
    BY <1>1, <1>4 DEF ContextTypes, SurfacesFit, RegistersFit
  <1> QED BY <1>2, <1>3, <1>5

-----------------------------------------------------------------------------
(* Framebuffers.                                                            *)

LEMMA BindKeepsInv ==
  ASSUME ContextInv, NEW f \in All, BindFramebuffer(f)
  PROVE  ContextInv'
  <1> USE DEF ContextInv
  <1>1. /\ objects' = objects \cup {f} /\ draw_binding' = f /\ draw_framebuffer' = TRUE
        /\ UNCHANGED <<buffer, names, constructed, ref_count, renderable, allocated,
                       attachments, status, draw_surfaces, draw_buffer, registers, stray>>
    BY Zenon DEF BindFramebuffer, displayVars, renderbufferVars
  <1>2. ContextTypes' /\ AttachedHeld'
    BY <1>1 DEF ContextTypes, AttachedHeld
  <1>3. SurfacesFit' /\ RegistersFit'
    BY <1>1, SameTargets DEF SurfacesFit, RegistersFit
  <1> QED BY <1>2, <1>3

(* The attachment of f changes, f is to be validated, and the registers are *)
(* flagged if f is bound.                                                   *)
LEMMA ChangedKeepsInv ==
  ASSUME ContextInv, NEW f \in All, ContextTypes', AttachedHeld',
         UNCHANGED <<buffer, allocated, draw_buffer, registers>>,
         status'[f] \in {"invalid", "incomplete"},
         \A g \in All \ {f} : /\ attachments'[g] = attachments[g]
                              /\ status'[g] = status[g]
                              /\ draw_surfaces'[g] = draw_surfaces[g],
         stray => stray',
         ~draw_framebuffer' /\ ~unflagged' =>
           ~draw_framebuffer /\ ~unflagged /\ draw_binding' = draw_binding
             /\ draw_binding # f
  PROVE  ContextInv'
  <1> USE DEF ContextInv
  <1>1. ASSUME NEW g \in All \ {f}, NEW s, Fit(s, g)
        PROVE  Fit(s, g)'
    BY <1>1 DEF Fit, TargetOf
  <1>2. SurfacesFit'
    BY <1>1 DEF SurfacesFit
  <1>3. RegistersFit'
    BY <1>1 DEF RegistersFit, ContextTypes
  <1> QED BY <1>2, <1>3

LEMMA DeleteKeepsInv ==
  ASSUME ContextInv, NEW f \in Framebuffers, DeleteFramebuffer(f)
  PROVE  ContextInv'
  <1>1. /\ ref_count' = Unref(f)
        /\ objects' = objects \ {f}
        /\ attachments' = [attachments EXCEPT ![f] = None]
        /\ status' = [status EXCEPT ![f] = "incomplete"]
        /\ draw_surfaces' = [draw_surfaces EXCEPT ![f] = Nowhere]
        /\ draw_binding' = IF draw_binding = f THEN 0 ELSE draw_binding
        /\ unflagged' = (unflagged \/ draw_binding = f)
        /\ UNCHANGED <<buffer, names, constructed, renderable, allocated, draw_buffer,
                       draw_framebuffer, registers, stray>>
    BY Zenon DEF DeleteFramebuffer, displayVars
  <1>2. f \in All /\ f # 0
    BY DEF All
  <1>3. ContextTypes'
    <2>1. ref_count' \in [Renderbuffers -> Int]
      BY <1>1 DEF ContextInv, ContextTypes, Unref
    <2>2. attachments' \in [All -> Int \cup {None}] /\ attachments'[0] = None
      BY <1>1, <1>2 DEF ContextInv, ContextTypes
    <2>3. status' \in [All -> Statuses] /\ draw_surfaces' \in [All -> Surfaces]
      BY <1>1, <1>2 DEF ContextInv, ContextTypes, Statuses, Surfaces
    <2>4. objects' \subseteq All /\ 0 \in objects' /\ draw_binding' \in objects'
      BY <1>1, <1>2 DEF ContextInv, ContextTypes
    <2> QED BY <1>1, <2>1, <2>2, <2>3, <2>4 DEF ContextInv, ContextTypes
  <1>4. AttachedHeld'
    BY <1>1, <1>2 DEF ContextInv, ContextTypes, AttachedHeld, Unref, All
  <1>5. \A g \in All \ {f} : /\ attachments'[g] = attachments[g]
                             /\ status'[g] = status[g]
                             /\ draw_surfaces'[g] = draw_surfaces[g]
    BY <1>1 DEF ContextInv, ContextTypes
  <1>6. status'[f] = "incomplete"
    BY <1>1, <1>2 DEF ContextInv, ContextTypes
  <1> QED BY <1>1, <1>2, <1>3, <1>4, <1>5, <1>6, ChangedKeepsInv

LEMMA InvalidFacts ==
  ASSUME ContextTypes, NEW f \in All, Invalid(f)
  PROVE  /\ status' \in [All -> Statuses] /\ status'[f] = "invalid"
         /\ draw_surfaces' \in [All -> Surfaces]
         /\ \A g \in All \ {f} :
              status'[g] = status[g] /\ draw_surfaces'[g] = draw_surfaces[g]
  BY DEF ContextTypes, Invalid, Statuses, Surfaces

LEMMA AttachKeepsInv ==
  ASSUME ContextInv, NEW f \in Framebuffers, NEW r \in Renderbuffers, Attach(f, r)
  PROVE  ContextInv'
  <1> DEFINE count == Unref(f)[r] + 1
  <1>1. /\ r \in names
        /\ ref_count' = [Unref(f) EXCEPT ![r] = count]
        /\ attachments' = [attachments EXCEPT ![f] = count]
        /\ stray' = (stray \/ count # r)
        /\ Invalid(f)
        /\ draw_framebuffer' = (draw_framebuffer \/ f = draw_binding)
        /\ UNCHANGED <<buffer, names, constructed, renderable, allocated, objects,
                       draw_buffer, draw_binding, registers, unflagged>>
    BY Zenon DEF Attach, Invalidate, displayVars
  <1>2. f \in All /\ f # 0
    BY DEF All
  <1>3. /\ Unref(f) \in [Renderbuffers -> Int] /\ count \in Int
        /\ \A q \in Renderbuffers :
             Unref(f)[q] = IF attachments[f] = q THEN ref_count[q] - 1 ELSE ref_count[q]
    BY DEF ContextInv, ContextTypes, Unref
  <1> HIDE DEF count
  <1>4. ContextTypes /\ AttachedHeld
    BY DEF ContextInv
  <1>5. ContextTypes'
    <2>1. ref_count' \in [Renderbuffers -> Int]
      BY <1>1, <1>3
    <2>2. attachments' \in [All -> Int \cup {None}] /\ attachments'[0] = None
      BY <1>1, <1>2, <1>3, <1>4 DEF ContextTypes
    <2>3. status' \in [All -> Statuses] /\ draw_surfaces' \in [All -> Surfaces]
      BY <1>1, <1>2, <1>4, InvalidFacts
    <2> QED BY <1>1, <1>4, <2>1, <2>2, <2>3 DEF ContextTypes
  <1>6. ASSUME ~stray'
        PROVE  AttachedHeld'
    <2>1. ~stray /\ count = r /\ r \in constructed
      BY <1>1, <1>4, <1>6 DEF ContextTypes
    <2>2. count = Unref(f)[r] + 1
      BY DEF count
    <2>3. \A g \in Framebuffers : attachments[g] # None =>
            attachments[g] = 1 /\ 1 \in Renderbuffers /\ ref_count[1] = 1
      BY <1>4, <2>1 DEF ContextTypes, AttachedHeld
    <2>4. \A g \in Framebuffers \ {f} : attachments[g] = None
      <3> SUFFICES ASSUME NEW g \in Framebuffers \ {f}, attachments[g] # None
                   PROVE  FALSE
        OBVIOUS
      <3>1. /\ attachments[g] = 1 /\ 1 \in Renderbuffers /\ ref_count[1] = 1
            /\ attachments[f] = None
        BY <1>4, <2>1, <2>3 DEF AttachedHeld
      <3>2. r # 1 => ref_count[r] = 0
        BY <1>4, <2>1, <2>3 DEF AttachedHeld
      <3> QED BY <1>3, <2>1, <2>2, <3>1, <3>2
    <2>5. r = 1 /\ Unref(f)[r] = 0
      <3>1. CASE attachments[f] = r
        BY <1>3, <2>1, <2>2, <2>3, <3>1
      <3>2. CASE attachments[f] # r
        <4>1. ref_count[r] = 0
          BY <1>4, <2>1, <2>4, <3>2 DEF AttachedHeld
        <4> QED BY <1>3, <2>1, <2>2, <3>2, <4>1
      <3> QED BY <3>1, <3>2
    <2>6. \A q \in Renderbuffers \ {r} : Unref(f)[q] = 0
      <3> TAKE q \in Renderbuffers \ {r}
      <3>1. attachments[f] # q
        BY <2>3, <2>5
      <3>2. ref_count[q] = 0
        BY <1>4, <2>1, <2>4, <3>1 DEF AttachedHeld
      <3> QED BY <1>3, <3>1, <3>2
    <2>7. /\ ref_count'[1] = 1
          /\ \A q \in Renderbuffers \ {r} : ref_count'[q] = 0
          /\ attachments'[f] = 1
          /\ \A g \in Framebuffers \ {f} : attachments'[g] = None
      BY <1>1, <1>2, <1>3, <1>4, <2>1, <2>4, <2>5, <2>6 DEF ContextTypes, All
    <2> QED BY <1>1, <2>1, <2>5, <2>7 DEF AttachedHeld
  <1>7. AttachedHeld'
    BY <1>6 DEF AttachedHeld
  <1>8. /\ status'[f] \in {"invalid", "incomplete"}
        /\ \A g \in All \ {f} : /\ attachments'[g] = attachments[g]
                               /\ status'[g] = status[g]
                               /\ draw_surfaces'[g] = draw_surfaces[g]
    <2>1. \A g \in All \ {f} : attachments'[g] = attachments[g]
      BY <1>1, <1>4 DEF ContextTypes
    <2> QED BY <1>1, <1>2, <1>4, <2>1, InvalidFacts
  <1>9. ~draw_framebuffer' /\ ~unflagged' =>
          /\ ~draw_framebuffer /\ ~unflagged
          /\ draw_binding' = draw_binding /\ draw_binding # f
    BY <1>1, Zenon
  <1>10. UNCHANGED <<buffer, allocated, draw_buffer, registers>> /\ (stray => stray')
    BY <1>1
  <1> QED BY <1>2, <1>5, <1>7, <1>8, <1>9, <1>10, ChangedKeepsInv, Zenon

LEMMA DetachKeepsInv ==
  ASSUME ContextInv, NEW f \in Framebuffers, Detach(f)
  PROVE  ContextInv'
  <1>1. /\ ref_count' = Unref(f)
        /\ attachments' = [attachments EXCEPT ![f] = Detached(f)]
        /\ Invalid(f)
        /\ draw_framebuffer' = (draw_framebuffer \/ f = draw_binding)
        /\ UNCHANGED <<buffer, names, constructed, renderable, allocated, objects,
                       draw_buffer, draw_binding, registers, unflagged, stray>>
    BY Zenon DEF Detach, Invalidate, displayVars
  <1>2. f \in All /\ f # 0 /\ ContextTypes /\ AttachedHeld
    BY DEF All, ContextInv
  <1>3. Detached(f) \in Int \cup {None}
    BY <1>2 DEF Detached, ContextTypes
  <1>4. ContextTypes'
    <2>1. ref_count' \in [Renderbuffers -> Int]
      BY <1>1, <1>2 DEF ContextTypes, Unref
    <2>2. attachments' \in [All -> Int \cup {None}]
      BY <1>1, <1>2, <1>3 DEF ContextTypes
    <2> QED BY <1>1, <1>2, <2>1, <2>2, InvalidFacts DEF ContextTypes
  <1>5. ~stray => Detached(f) = None
    BY <1>2 DEF AttachedHeld, Detached, IsAttached
  <1>6. AttachedHeld'
    BY <1>1, <1>2, <1>5 DEF ContextTypes, AttachedHeld, Unref, All
  <1>7. /\ status'[f] \in {"invalid", "incomplete"}
        /\ \A g \in All \ {f} : /\ attachments'[g] = attachments[g]
                               /\ status'[g] = status[g]
                               /\ draw_surfaces'[g] = draw_surfaces[g]
    <2>1. \A g \in All \ {f} : attachments'[g] = attachments[g]
      BY <1>1, <1>2 DEF ContextTypes
    <2> QED BY <1>1, <1>2, <2>1, InvalidFacts
  <1>8. ~draw_framebuffer' /\ ~unflagged' =>
          /\ ~draw_framebuffer /\ ~unflagged
          /\ draw_binding' = draw_binding /\ draw_binding # f
    BY <1>1, Zenon
  <1>9. UNCHANGED <<buffer, allocated, draw_buffer, registers>> /\ (stray => stray')
    BY <1>1
  <1> QED BY <1>2, <1>4, <1>6, <1>7, <1>8, <1>9, ChangedKeepsInv, Zenon

(* A framebuffer is to be validated, and flagged if it is bound.            *)
LEMMA MaskKeepsInv ==
  ASSUME ContextInv, WriteMask
  PROVE  ContextInv'
  <1>1. /\ Invalid(draw_binding)
        /\ draw_framebuffer' = TRUE
        /\ UNCHANGED <<buffer, names, constructed, ref_count, renderable, allocated,
                       objects, attachments, draw_buffer, draw_binding, registers,
                       unflagged, stray>>
    BY Zenon DEF WriteMask, Invalidate, displayVars, renderbufferVars
  <1>2. draw_binding \in All /\ ContextTypes /\ AttachedHeld
    BY DEF ContextInv, ContextTypes
  <1>3. ContextTypes' /\ AttachedHeld'
    BY <1>1, <1>2, InvalidFacts DEF ContextTypes, AttachedHeld
  <1>4. /\ status'[draw_binding] = "invalid"
        /\ \A g \in All \ {draw_binding} : /\ attachments'[g] = attachments[g]
                                          /\ status'[g] = status[g]
                                          /\ draw_surfaces'[g] = draw_surfaces[g]
    BY <1>1, <1>2, InvalidFacts
  <1> QED BY <1>1, <1>2, <1>3, <1>4, ChangedKeepsInv

(* The framebuffer of the window is to be validated, and is flagged, when   *)
(* its target changes; the others keep theirs.                              *)
LEMMA WindowKeepsInv ==
  ASSUME ContextInv, Invalid(0), draw_framebuffer', draw_buffer' \in {"back"} \cup Modes,
         UNCHANGED <<names, constructed, ref_count, renderable, allocated, objects,
                     attachments, draw_binding, registers, stray>>
  PROVE  ContextInv'
  <1>1. 0 \in All /\ ContextTypes /\ AttachedHeld
    BY DEF All, ContextInv
  <1>2. ContextTypes' /\ AttachedHeld'
    BY <1>1, InvalidFacts DEF ContextTypes, AttachedHeld
  <1>3. ASSUME NEW f \in All \ {0}, NEW s, Fit(s, f)
        PROVE  Fit(s, f)'
    BY <1>3 DEF Fit, TargetOf
  <1>4. SurfacesFit'
    BY <1>1, <1>3, InvalidFacts DEF ContextInv, SurfacesFit
  <1>5. RegistersFit'
    BY DEF RegistersFit
  <1> QED BY <1>2, <1>4, <1>5 DEF ContextInv

LEMMA ReadKeepsInv ==
  ASSUME ContextInv, NEW f \in All, ReadBuffer(f)
  PROVE  ContextInv'
  <1>1. /\ Invalid(f)
        /\ UNCHANGED <<buffer, names, constructed, ref_count, renderable, allocated,
                       objects, attachments, draw_buffer, draw_binding, draw_framebuffer,
                       registers, unflagged, stray>>
    BY Zenon DEF ReadBuffer, displayVars, renderbufferVars, contextVars
  <1>2. ContextTypes' /\ AttachedHeld'
    BY <1>1, InvalidFacts DEF ContextInv, ContextTypes, AttachedHeld
  <1>3. SurfacesFit' /\ RegistersFit'
    BY <1>1, InvalidFacts, SameTargets DEF ContextInv, SurfacesFit, RegistersFit
  <1> QED BY <1>2, <1>3 DEF ContextInv

LEMMA CheckKeepsInv ==
  ASSUME ContextInv, NEW f \in All, CheckFramebufferStatus(f)
  PROVE  ContextInv'
  <1>1. UNCHANGED <<buffer, names, constructed, ref_count, renderable, allocated, objects,
                    attachments, draw_surfaces, draw_buffer, draw_binding, draw_framebuffer,
                    registers, unflagged, stray>>
    BY Zenon DEF CheckFramebufferStatus, displayVars, renderbufferVars, contextVars
  <1>2. \E s \in {status[f], "found complete", "found incomplete"} :
          status' = [status EXCEPT ![f] = s]
    BY Zenon DEF CheckFramebufferStatus
  <1>3. /\ status' \in [All -> Statuses]
        /\ \A g \in All : status'[g] = "complete" => status[g] = "complete"
    <2>1. PICK s \in {status[f], "found complete", "found incomplete"} :
            status' = [status EXCEPT ![f] = s]
      BY <1>2
    <2>2. status \in [All -> Statuses]
      BY DEF ContextInv, ContextTypes
    <2>3. s \in Statuses /\ (s = "complete" => status[f] = "complete")
      BY <2>2 DEF Statuses
    <2>4. status' \in [All -> Statuses]
      BY <2>1, <2>2, <2>3
    <2>5. ASSUME NEW g \in All, status'[g] = "complete"
          PROVE  status[g] = "complete"
      BY <2>1, <2>2, <2>3, <2>5
    <2> QED BY <2>4, <2>5
  <1>4. ContextTypes' /\ AttachedHeld'
    BY <1>1, <1>3 DEF ContextInv, ContextTypes, AttachedHeld
  <1>5. SurfacesFit' /\ RegistersFit'
    BY <1>1, <1>3, SameTargets DEF ContextInv, SurfacesFit, RegistersFit
  <1> QED BY <1>4, <1>5 DEF ContextInv

-----------------------------------------------------------------------------
(* Draws.                                                                   *)

LEMMA ValidateFacts ==
  ASSUME ContextInv, DisplayTypes, Validate,
         UNCHANGED <<buffer, allocated, attachments, draw_buffer, draw_binding, stray>>
  PROVE  /\ draw_binding \in All
         /\ status' \in [All -> Statuses]
         /\ draw_surfaces' \in [All -> Surfaces]
         /\ SurfacesFit'
         /\ unflagged' = (unflagged /\ ~(draw_framebuffer /\ IsUsed(draw_binding)))
  <1> USE DEF ContextInv
  <1>1. /\ draw_binding \in All
        /\ status \in [All -> Statuses] /\ draw_surfaces \in [All -> Surfaces]
        /\ draw_buffer \in {"back", "front", "none"}
    BY DEF ContextTypes
  <1>2. PICK s \in {status[draw_binding], "complete", "incomplete"} :
          status' = [status EXCEPT ![draw_binding] = s]
    BY Zenon DEF Validate
  <1>3. status' \in [All -> Statuses]
    BY <1>1, <1>2 DEF Statuses
  <1>4. Target(draw_binding) = TargetOf(draw_binding) /\ TargetOf(draw_binding) \in Surfaces
    BY <1>1, TargetCases, TargetTypes
  <1>5. draw_surfaces' =
          IF status[draw_binding] # "complete" /\ IsUsed(draw_binding)
          THEN [draw_surfaces EXCEPT ![draw_binding] = TargetOf(draw_binding)]
          ELSE draw_surfaces
    BY <1>4, Zenon DEF Validate
  <1>6. draw_surfaces' \in [All -> Surfaces]
    BY <1>1, <1>4, <1>5
  <1>7. ASSUME NEW f \in All, status'[f] = "complete"
        PROVE  Fit(draw_surfaces'[f], f)
    <2>1. CASE f # draw_binding
      BY <1>1, <1>2, <1>5, <1>7, <2>1 DEF SurfacesFit
    <2>2. CASE f = draw_binding
      <3>1. CASE status[f] = "complete"
        BY <1>1, <1>5, <2>2, <3>1 DEF SurfacesFit
      <3>2. CASE status[f] # "complete"
        <4>1. draw_surfaces'[f] = TargetOf(f)
          BY <1>1, <1>5, <1>7, <2>2, <3>2 DEF IsUsed
        <4> QED BY <4>1 DEF Fit
      <3> QED BY <3>1, <3>2
    <2> QED BY <2>1, <2>2
  <1>8. SurfacesFit'
    BY <1>7, SameTargets DEF SurfacesFit
  <1>9. unflagged' = (unflagged /\ ~(draw_framebuffer /\ IsUsed(draw_binding)))
    BY Zenon DEF Validate
  <1> QED BY <1>1, <1>3, <1>6, <1>8, <1>9

(* The registers a draw uses, if nothing is wrong with the framebuffer.     *)
LEMMA RegistersAfterFacts ==
  ASSUME ContextInv, DisplayTypes, Validate,
         UNCHANGED <<buffer, allocated, attachments, draw_buffer, draw_binding, stray>>
  PROVE  /\ RegistersAfter \in Surfaces
         /\ ~unflagged' /\ (IsUsed(draw_binding) \/ ~draw_framebuffer) =>
              Fit(RegistersAfter, draw_binding)
  <1>1. /\ draw_binding' = draw_binding
        /\ draw_binding \in All
        /\ draw_surfaces' \in [All -> Surfaces]
        /\ SurfacesFit'
        /\ unflagged' = (unflagged /\ ~(draw_framebuffer /\ IsUsed(draw_binding)))
    BY ValidateFacts
  <1>2. RegistersAfter \in Surfaces
    BY <1>1 DEF RegistersAfter, ContextInv, ContextTypes
  <1>3. CASE draw_framebuffer /\ IsUsed(draw_binding)
    <2>1. RegistersAfter = draw_surfaces'[draw_binding]
      BY <1>3 DEF RegistersAfter
    <2>2. Fit(draw_surfaces'[draw_binding], draw_binding)
      BY <1>1, <1>3, SameTargets DEF SurfacesFit, IsUsed
    <2> QED BY <1>2, <2>1, <2>2
  <1>4. CASE ~(draw_framebuffer /\ IsUsed(draw_binding))
    <2>1. RegistersAfter = registers
      BY <1>4 DEF RegistersAfter
    <2>2. ~unflagged' => ~unflagged
      BY <1>1, <1>4
    <2> QED BY <1>2, <1>4, <2>1, <2>2 DEF ContextInv, RegistersFit
  <1> QED BY <1>3, <1>4

(* A draw to the window is one to the buffer that is to be shown next.      *)
LEMMA CommandIsDraw ==
  ASSUME ContextInv, DisplayTypes, NEW surface,
         ~unflagged' /\ IsUsed(draw_binding) => Fit(surface, draw_binding)
  PROVE  DrawCommand(surface) \in {<< >>, <<DrawTo(buffer)>>}
  <1> DEFINE drawn == {b \in Buffers : surface = Window(b)}
  <1>1. CASE ~unflagged' /\ IsUsed(draw_binding) /\ draw_buffer # "front" /\ drawn # {}
    <2>1. PICK c \in Buffers : surface = Window(c)
      BY <1>1
    <2>2. surface = TargetOf(draw_binding)
      BY <1>1, <2>1, SurfaceFacts DEF Fit
    <2>3. draw_binding = 0 /\ draw_buffer = "back" /\ surface = Window(buffer)
      BY <1>1, <2>1, <2>2, SurfaceFacts DEF TargetOf, ContextInv, ContextTypes
    <2>4. drawn = {buffer}
      BY <2>1, <2>3, SurfaceFacts DEF DisplayTypes
    <2>5. (CHOOSE b \in drawn : TRUE) = buffer
      BY <2>4
    <2> QED BY <1>1, <2>5 DEF DrawCommand
  <1>2. CASE ~(~unflagged' /\ IsUsed(draw_binding) /\ draw_buffer # "front" /\ drawn # {})
    BY <1>2 DEF DrawCommand
  <1> QED BY <1>1, <1>2

LEMMA DrawKeepsInv ==
  ASSUME ContextInv, DisplayTypes, Draw \/ DrawFeedback
  PROVE  ContextInv' /\ DisplayStep
  <1>1. /\ Validate
        /\ UNCHANGED <<buffer, names, constructed, ref_count, renderable, allocated,
                       objects, attachments, draw_buffer, draw_binding, stray>>
    BY Zenon DEF Draw, DrawFeedback, Emit, renderbufferVars
  <1>2. /\ draw_binding \in All
        /\ status' \in [All -> Statuses]
        /\ draw_surfaces' \in [All -> Surfaces]
        /\ SurfacesFit'
    BY <1>1, ValidateFacts
  <1>3. /\ RegistersAfter \in Surfaces
        /\ ~unflagged' /\ (IsUsed(draw_binding) \/ ~draw_framebuffer) =>
             Fit(RegistersAfter, draw_binding)
    BY <1>1, RegistersAfterFacts
  <1>4. Draw => /\ registers' = RegistersAfter
                /\ draw_framebuffer' = (draw_framebuffer /\ ~IsUsed(draw_binding))
    BY Zenon DEF Draw
  <1>5. DrawFeedback => registers' = Feedback /\ draw_framebuffer'
    BY Zenon DEF DrawFeedback
  <1>6. registers' \in Surfaces
    BY <1>3, <1>4, <1>5 DEF Surfaces
  <1>7. ContextTypes' /\ AttachedHeld'
    BY <1>1, <1>2, <1>6 DEF ContextInv, ContextTypes, AttachedHeld
  <1>8. RegistersFit'
    BY <1>1, <1>3, <1>4, <1>5, SameTargets DEF RegistersFit
  <1>9. Emit(DrawCommand(RegistersAfter))
    BY <1>4, Zenon DEF Draw, DrawFeedback
  <1>10. DrawCommand(RegistersAfter) \in {<< >>, <<DrawTo(buffer)>>}
    BY <1>3, CommandIsDraw
  <1>11. DisplayStep
    BY <1>9, <1>10, Zenon DEF DisplayStep
  <1> QED BY <1>2, <1>7, <1>8, <1>11 DEF ContextInv

-----------------------------------------------------------------------------

LEMMA BooleanStep ==
  ASSUME BooleanVars, [Next]_vars
  PROVE  BooleanVars'
  <1> USE DEF BooleanVars
  <1>1. ASSUME NEW r \in Renderbuffers,
               \/ CreateRenderbuffer(r)
               \/ DeleteRenderbuffer(r)
               \/ \E got \in BOOLEAN : RenderbufferStorage(r, got)
        PROVE  BooleanVars'
    BY <1>1, Zenon
    DEF CreateRenderbuffer, DeleteRenderbuffer, RenderbufferStorage, contextVars
  <1>2. ASSUME NEW f \in All,
               BindFramebuffer(f) \/ ReadBuffer(f) \/ CheckFramebufferStatus(f)
        PROVE  BooleanVars'
    BY <1>2, Zenon DEF BindFramebuffer, ReadBuffer, CheckFramebufferStatus, contextVars
  <1>3. ASSUME NEW f \in Framebuffers, DeleteFramebuffer(f) \/ Detach(f)
        PROVE  BooleanVars'
    BY <1>3, Zenon DEF DeleteFramebuffer, Detach, Invalidate
  <1>4. ASSUME NEW f \in Framebuffers, NEW r \in Renderbuffers, Attach(f, r)
        PROVE  BooleanVars'
    BY <1>4, Zenon DEF Attach, Invalidate
  <1>5. ASSUME WriteMask \/ \E mode \in Modes : DrawBuffer(mode)
        PROVE  BooleanVars'
    BY <1>5, Zenon DEF WriteMask, DrawBuffer, Invalidate
  <1>6. CASE Draw \/ DrawFeedback
    BY <1>6, Zenon DEF Draw, DrawFeedback, Validate
  <1>7. CASE Swap \/ MakeCurrent
    BY <1>7, Zenon DEF Swap, MakeCurrent, Callback
  <1>8. CASE Stumble \/ GPU \/ UNCHANGED vars
    BY <1>8, Zenon DEF Stumble, GPU, vars, contextVars
  <1> QED BY <1>1, <1>2, <1>3, <1>4, <1>5, <1>6, <1>7, <1>8, Zenon DEF Next, CPU

LEMMA ContextStep ==
  ASSUME ContextInv, DisplayTypes, [Next]_vars
  PROVE  ContextInv' /\ DisplayStep
  <1>1. ASSUME NEW r \in Renderbuffers,
               \/ CreateRenderbuffer(r)
               \/ DeleteRenderbuffer(r)
               \/ \E got \in BOOLEAN : RenderbufferStorage(r, got)
        PROVE  ContextInv' /\ DisplayStep
    <2>1. UNCHANGED displayVars
      BY <1>1, Zenon DEF CreateRenderbuffer, DeleteRenderbuffer, RenderbufferStorage
    <2> QED BY <1>1, <2>1,
               CreateKeepsInv, DeleteRenderbufferKeepsInv, StorageKeepsInv, Zenon
            DEF DisplayStep
  <1>2. ASSUME NEW f \in All,
               BindFramebuffer(f) \/ ReadBuffer(f) \/ CheckFramebufferStatus(f)
        PROVE  ContextInv' /\ DisplayStep
    <2>1. UNCHANGED displayVars
      BY <1>2, Zenon DEF BindFramebuffer, ReadBuffer, CheckFramebufferStatus
    <2> QED BY <1>2, <2>1, BindKeepsInv, ReadKeepsInv, CheckKeepsInv, Zenon DEF DisplayStep
  <1>3. ASSUME NEW f \in Framebuffers, DeleteFramebuffer(f) \/ Detach(f)
        PROVE  ContextInv' /\ DisplayStep
    <2>1. UNCHANGED displayVars
      BY <1>3, Zenon DEF DeleteFramebuffer, Detach
    <2> QED BY <1>3, <2>1, DeleteKeepsInv, DetachKeepsInv, Zenon DEF DisplayStep
  <1>4. ASSUME NEW f \in Framebuffers, NEW r \in Renderbuffers, Attach(f, r)
        PROVE  ContextInv' /\ DisplayStep
    <2>1. UNCHANGED displayVars
      BY <1>4, Zenon DEF Attach
    <2> QED BY <1>4, <2>1, AttachKeepsInv, Zenon DEF DisplayStep
  <1>5. CASE WriteMask
    <2>1. UNCHANGED displayVars
      BY <1>5, Zenon DEF WriteMask
    <2> QED BY <1>5, <2>1, MaskKeepsInv, Zenon DEF DisplayStep
  <1>6. ASSUME NEW mode \in Modes, DrawBuffer(mode)
        PROVE  ContextInv' /\ DisplayStep
    <2>1. /\ UNCHANGED displayVars
          /\ Invalid(0) /\ draw_framebuffer' /\ draw_buffer' \in {"back"} \cup Modes
          /\ UNCHANGED <<names, constructed, ref_count, renderable, allocated, objects,
                         attachments, draw_binding, registers, stray>>
      BY <1>6 DEF DrawBuffer, Invalidate, renderbufferVars
    <2> QED BY <2>1, WindowKeepsInv DEF DisplayStep
  <1>7. CASE Draw \/ DrawFeedback
    BY <1>7, DrawKeepsInv
  <1>8. CASE Swap \/ MakeCurrent
    <2>1. /\ SwapBuffers \/ UNCHANGED displayVars
          /\ Invalid(0) /\ draw_framebuffer' /\ draw_buffer' = draw_buffer
          /\ UNCHANGED <<names, constructed, ref_count, renderable, allocated, objects,
                         attachments, draw_binding, registers, stray>>
      BY <1>8, Zenon DEF Swap, MakeCurrent, Callback, renderbufferVars
    <2>2. draw_buffer' \in {"back"} \cup Modes
      BY <2>1 DEF ContextInv, ContextTypes
    <2> QED BY <2>1, <2>2, WindowKeepsInv, Zenon DEF DisplayStep
  <1>9. CASE Stumble \/ GPU \/ UNCHANGED vars
    <2>1. /\ Execute \/ VerticalBlank \/ UNCHANGED displayVars
          /\ UNCHANGED <<names, constructed, ref_count, renderable, allocated, objects,
                         attachments, status, draw_surfaces, draw_buffer, draw_binding,
                         draw_framebuffer, registers, unflagged, stray>>
      BY <1>9, Zenon DEF Stumble, GPU, vars, renderbufferVars, framebufferVars, contextVars
    <2>2. buffer' = buffer
      BY <2>1, Zenon DEF Execute, VerticalBlank, displayVars
    <2>3. ContextTypes' /\ AttachedHeld'
      BY <2>1 DEF ContextInv, ContextTypes, AttachedHeld
    <2>4. SurfacesFit' /\ RegistersFit'
      BY <2>1, <2>2, SameTargets DEF ContextInv, SurfacesFit, RegistersFit
    <2> QED BY <2>1, <2>3, <2>4 DEF ContextInv, DisplayStep
  <1> QED BY <1>1, <1>2, <1>3, <1>4, <1>5, <1>6, <1>7, <1>8, <1>9, Zenon DEF Next, CPU

FramebufferInv == ContextInv /\ DisplayInv /\ BooleanVars

LEMMA InvImpliesTargets ==
  FramebufferInv => TargetsFollow
  <1> SUFFICES ASSUME FramebufferInv PROVE TargetsFollow
    OBVIOUS
  <1>1. ContextTypes /\ DisplayTypes /\ RegistersFit /\ BooleanVars
    BY DEF FramebufferInv, ContextInv, DisplayInv
  <1>2. TypeOK
    BY <1>1 DEF ContextTypes, DisplayTypes, BooleanVars, TypeOK, Commands
  <1>3. Target(draw_binding) = TargetOf(draw_binding)
    BY <1>1, TargetCases DEF ContextTypes
  <1> QED BY <1>1, <1>2, <1>3 DEF RegistersFit, Fit, TargetsFollow

(* The registers, the surfaces and the order of the waiting commands agree  *)
(* in every behaviour.                                                      *)
THEOREM FramebuffersInvariant == Spec => []FramebufferInv
  <1>1. Init => FramebufferInv
    <2> SUFFICES ASSUME Init PROVE FramebufferInv
      OBVIOUS
    <2>1. ContextInv
      <3>1. ContextTypes
        BY DEF Init, ContextTypes, All, Statuses, Surfaces
      <3>2. AttachedHeld /\ SurfacesFit /\ RegistersFit
        BY DEF Init, AttachedHeld, SurfacesFit, RegistersFit, All
      <3> QED BY <3>1, <3>2 DEF ContextInv
    <2>2. BooleanVars
      BY Zenon DEF Init, BooleanVars
    <2>3. DisplayInv
      <3> DEFINE f == Flip(1)
                 w == WaitFlip
      <3>1. /\ buffer = 0 /\ fifo = <<f, w>> /\ displayed = NoFlip /\ flipping = NoFlip
            /\ f \in Commands /\ f.op = "flip" /\ f.to = 1
            /\ w \in Commands /\ w.op = "wait"
        BY CommandFacts DEF Init, DisplayInit, Buffers
      <3> HIDE DEF f, w
      <3>2. DisplayTypes
        BY <3>1 DEF DisplayTypes, Buffers, NoFlip
      <3> DEFINE T == [k \in 1 .. 3 |-> IF k = 1 THEN 1 ELSE 0]
      <3>3. T \in [1 .. Len(fifo) + 1 -> Buffers] /\ T[1] = 1 /\ T[2] = 0 /\ T[3] = 0
        BY <3>1 DEF Buffers
      <3> HIDE DEF T
      <3>4. IsSchedule(T) /\ ShowsOther(T[1])
        <4>1. Len(fifo) = 2 /\ fifo[1] = f /\ fifo[2] = w
          BY <3>1
        <4> QED BY <3>1, <3>3, <4>1 DEF IsSchedule, FitsTargets, ShowsOther, Other
      <3> QED BY <3>2, <3>3, <3>4 DEF DisplayInv
    <2> QED BY <2>1, <2>2, <2>3 DEF FramebufferInv
  <1>2. FramebufferInv /\ [Next]_vars => FramebufferInv'
    BY ContextStep, DisplayKeepsInv, BooleanStep DEF FramebufferInv, DisplayInv
  <1> QED BY <1>1, <1>2, PTL DEF Spec

(* Whatever renderbuffers and framebuffers do, the GPU draws to what is     *)
(* attached to the one bound, or it is flagged, with the exceptions that    *)
(* TargetsFollow names.                                                     *)
THEOREM FramebuffersTargetsFollow == Spec => []TargetsFollow
  BY FramebuffersInvariant, InvImpliesTargets, PTL

(* The GPU never draws to what is shown, however many commands wait for it. *)
THEOREM FramebuffersShownNotDrawn == Spec => []ShownNotDrawn
  <1>1. FramebufferInv => ShownNotDrawn
    BY DisplayShows DEF FramebufferInv
  <1> QED BY <1>1, FramebuffersInvariant, PTL

(* No frame is skipped.                                                     *)
THEOREM FramebuffersFramesShown == Spec => FramesShown
  <1>1. FramebufferInv /\ [Next]_vars =>
          [flipping # NoFlip /\ flipping' # flipping => displayed' = flipping]_vars
    <2> SUFFICES ASSUME FramebufferInv, [Next]_vars, flipping # NoFlip, flipping' # flipping
                 PROVE  displayed' = flipping
      OBVIOUS
    <2>1. DisplayStep
      BY ContextStep DEF FramebufferInv, DisplayInv
    <2>2. fifo # << >> /\ Head(fifo).op = "wait"
      BY DisplayShows DEF FramebufferInv
    <2>3. CASE VerticalBlank
      BY <2>3 DEF VerticalBlank
    <2>4. CASE Execute
      BY <2>2, <2>4 DEF Execute
    <2>5. CASE SwapBuffers \/ Emit(<< >>) \/ Emit(<<DrawTo(buffer)>>)
            \/ UNCHANGED displayVars
      BY <2>5 DEF SwapBuffers, Emit, displayVars
    <2> QED BY <2>1, <2>3, <2>4, <2>5 DEF DisplayStep
  <1> QED BY <1>1, FramebuffersInvariant, PTL DEF Spec, FramesShown
=============================================================================
