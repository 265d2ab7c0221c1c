------------------------------ MODULE Display ------------------------------
(***************************************************************************)
(* The window and its two color buffers (egl.c, egl_types.h), and the      *)
(* commands that wait for the GPU.                                         *)
(*                                                                         *)
(* eglSwapBuffers asks for a flip, tells the GPU of all commands so far,   *)
(* and then adds a command that keeps the GPU from going on before the     *)
(* flip.  Of what follows the GPU may be told at any time.  A flip takes   *)
(* place when the display has shown the last line.                         *)
(* The wait in eglSwapBuffers for the GPU is no part of this: it gives up  *)
(* after some time, and gcmResetFlipStatus is only called when the window  *)
(* is created, so that it may be over at once.                             *)
(*                                                                         *)
(* There is one window, and one context.                                   *)
(***************************************************************************)
EXTENDS Integers, Sequences

CONSTANT FifoBound  \* bound: commands that are waiting for the GPU

ASSUME DisplayAssumption == FifoBound \in Nat \ {0, 1, 2}

VARIABLES
  buffer,     \* surface -> buffer, the one to be drawn to
  fifo,       \* commands that wait for the GPU
  displayed,  \* the buffer that is shown, or none of them at first
  flipping    \* the buffer to be shown next, or NoFlip

displayVars == <<buffer, fifo, displayed, flipping>>

Buffers == {0, 1}

NoFlip == 2

Other(b) == 1 - b

(* A draw to a buffer of the window.                                        *)
DrawTo(b) == [op |-> "draw", to |-> b]

Flip(b) == [op |-> "flip", to |-> b]

WaitFlip == [op |-> "wait"]

(* Room for n commands.                                                     *)
Fits(n) == Len(fifo) + n <= FifoBound

(* eglCreateWindowSurface, and eglMakeCurrent by Framebuffers.              *)
DisplayInit ==
  /\ buffer = 0
  /\ fifo = <<Flip(1), WaitFlip>>
  /\ displayed = NoFlip
  /\ flipping = NoFlip

(* Mutation: lets the GPU go on before the flip.                            *)
FlipAtOnce == <<Flip(buffer)>>

FlipAndWait == <<Flip(buffer), WaitFlip>>

(* eglSwapBuffers; what its callback does is left to Framebuffers.          *)
SwapBuffers ==
  /\ Fits(2)
  /\ fifo' = fifo \o FlipAndWait
  /\ buffer' = Other(buffer)
  /\ UNCHANGED <<displayed, flipping>>

(* Commands are added.                                                      *)
Emit(commands) ==
  /\ Fits(Len(commands))
  /\ fifo' = fifo \o commands
  /\ UNCHANGED <<buffer, displayed, flipping>>

(* The GPU executes a command.                                              *)
Execute ==
  /\ fifo # << >>
  /\ Head(fifo).op = "wait" => flipping = NoFlip
  /\ flipping' = IF Head(fifo).op = "flip" THEN Head(fifo).to ELSE flipping
  /\ fifo' = Tail(fifo)
  /\ UNCHANGED <<buffer, displayed>>

(* The display has shown the last line.                                     *)
VerticalBlank ==
  /\ flipping # NoFlip
  /\ displayed' = flipping
  /\ flipping' = NoFlip
  /\ UNCHANGED <<buffer, fifo>>

=============================================================================
