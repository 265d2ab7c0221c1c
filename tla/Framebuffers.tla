---------------------------- MODULE Framebuffers ----------------------------
(***************************************************************************)
(* Renderbuffers and framebuffers (framebuffer.cc), the framebuffer of the *)
(* window, 0, among them, and what the GPU draws to.                       *)
(*                                                                         *)
(* glFramebufferRenderbuffer is to put the name of a renderbuffer into     *)
(* attachments[], but puts there what gl_object_type::ref returns, its     *)
(* reference count.  The model does the same: from then on the attachment  *)
(* is the renderbuffer that has this number for a name, and "stray" if     *)
(* that is another one.  If there is none, what follows is undefined, and  *)
(* the model ends.                                                         *)
(*                                                                         *)
(* A framebuffer has one color attachment, a renderbuffer; depth and the   *)
(* write masks are left out.                                               *)
(***************************************************************************)
EXTENDS Display

CONSTANTS
  Renderbuffers,  \* names of renderbuffers
  Framebuffers,   \* names of framebuffers
  None,           \* nothing is attached; not an attachment of value 0
  Modes,          \* bound: the arguments of glDrawBuffer
  CountBound      \* bound: reference counts

ASSUME FramebuffersAssumption ==
  /\ Renderbuffers \subseteq Nat \ {0}
  /\ Framebuffers \subseteq Nat \ {0}
  /\ None \notin Renderbuffers
  /\ Modes \subseteq {"back", "front", "none"}
  /\ CountBound \in Nat \ {0}

VARIABLES
  names,             \* renderbuffers glDeleteRenderbuffers was not called for
  constructed,       \* renderbuffers that were not destroyed
  ref_count,         \* of every renderbuffer
  renderable,        \* renderbuffers with a pformat that can be drawn to
  allocated,         \* the renderbuffers that have memory
  objects,           \* framebuffers
  attachments,       \* of every framebuffer but 0: what is attached
  status,            \* of every framebuffer, see Statuses
  draw_surfaces,     \* of every framebuffer: what it draws to
  draw_buffer,       \* which buffer of the window framebuffer 0 draws to
  draw_binding,      \* the framebuffer bound to GL_DRAW_FRAMEBUFFER
  draw_framebuffer,  \* ctx -> invalid.parts.draw_framebuffer
  registers,         \* what the GPU draws to
  unflagged,         \* not in the code: the binding changed without a flag
  stray,             \* not in the code: an attachment is another renderbuffer
  undefined          \* not in the code: what the program does is undefined

renderbufferVars == <<names, constructed, ref_count, renderable, allocated>>
framebufferVars == <<objects, attachments, status, draw_surfaces>>
contextVars == <<draw_buffer, draw_binding, draw_framebuffer, registers, unflagged>>
vars == <<displayVars, renderbufferVars, framebufferVars, contextVars, stray, undefined>>

(* What can be drawn to.                                                    *)
Nowhere == <<"nowhere">>
Window(b) == <<"window", b>>
Memory(r) == <<"renderbuffer", r>>
Lost == <<"lost">>            \* freed, or not had, by glRenderbufferStorage
Destroyed == <<"destroyed">>  \* freed with the renderbuffer
Feedback == <<"feedback">>    \* buffers of transform feedback

Surfaces ==
  {Nowhere, Lost, Destroyed, Feedback}
    \cup {Window(b) : b \in Buffers} \cup {Memory(r) : r \in Renderbuffers}

All == Framebuffers \cup {0}

(* A framebuffer is "invalid" if it is so in the code and invalid_complete, *)
(* too; "found" something if only its completeness is known.  Unless it is  *)
(* "complete" its draw_surfaces are not used, and are Nowhere here.         *)
Statuses == {"invalid", "found complete", "found incomplete", "complete", "incomplete"}

IsUsed(f) == status'[f] = "complete"

Init ==
  /\ DisplayInit
  /\ names = {}
  /\ constructed = {}
  /\ ref_count = [r \in Renderbuffers |-> 0]
  /\ renderable = {}
  /\ allocated = {}
  /\ objects = {0}
  /\ attachments = [f \in All |-> None]
  /\ status = [f \in All |-> IF f = 0 THEN "invalid" ELSE "incomplete"]
  /\ draw_surfaces = [f \in All |-> Nowhere]
  /\ draw_buffer = "back"
  /\ draw_binding = 0
  /\ draw_framebuffer = TRUE
  /\ registers = Nowhere
  /\ unflagged = FALSE
  /\ stray = FALSE
  /\ undefined = FALSE

-----------------------------------------------------------------------------

(* What was a surface of renderbuffer r until its memory was freed.         *)
Freed(surface, r, how) == IF surface = Memory(r) THEN how ELSE surface

FreeMemory(r, how) ==
  /\ draw_surfaces' = [f \in All |-> Freed(draw_surfaces[f], r, how)]
  /\ registers' = Freed(registers, r, how)

CreateRenderbuffer(r) ==
  /\ r \notin constructed
  /\ names' = names \cup {r}
  /\ constructed' = constructed \cup {r}
  /\ ref_count' = [ref_count EXCEPT ![r] = 0]
  /\ UNCHANGED <<displayVars, renderable, allocated, framebufferVars, contextVars, stray, undefined>>

Held(r) == ref_count[r] # 0

(* glDeleteRenderbuffers.  No renderbuffer is ever stamped, so that it does *)
(* not wait.                                                                *)
DeleteRenderbuffer(r) ==
  /\ r \in names
  /\ names' = names \ {r}
  /\ IF Held(r)
     THEN UNCHANGED <<constructed, renderable, allocated, draw_surfaces, registers>>
     ELSE /\ constructed' = constructed \ {r}
          /\ allocated' = allocated \ {r}
          /\ renderable' = renderable \ {r}
          /\ FreeMemory(r, Destroyed)
  /\ UNCHANGED <<displayVars, ref_count, objects, attachments, status, draw_buffer, draw_binding,
                 draw_framebuffer, unflagged, stray, undefined>>

(* glRenderbufferStorage frees the memory before it asks for new memory,    *)
(* which may not be had; the framebuffers do not learn of it.               *)
RenderbufferStorage(r, got) ==
  /\ r \in names
  /\ FreeMemory(r, Lost)
  /\ allocated' = IF got THEN allocated \cup {r} ELSE allocated \ {r}
  /\ renderable' = IF got THEN renderable \cup {r} ELSE renderable
  /\ UNCHANGED <<displayVars, names, constructed, ref_count, objects, attachments, status, draw_buffer, draw_binding,
                 draw_framebuffer, unflagged, stray, undefined>>

-----------------------------------------------------------------------------

IsAttached(f) == attachments[f] \notin {None, 0}

(* The attachment is a renderbuffer there is.                               *)
Defined(f) == attachments[f] \in constructed \cup {None}

(* The counts after the attachment of f was let go.  A renderbuffer that    *)
(* was deleted has no name to be destroyed by, and stays.                   *)
Unref(f) ==
  [r \in Renderbuffers |->
     IF attachments[f] = r THEN ref_count[r] - 1 ELSE ref_count[r]]

(* Counts go out of use together with stray attachments.                    *)
Bounded(counts) == \A r \in Renderbuffers : counts[r] \in -CountBound .. CountBound

(* glBindFramebuffer.                                                       *)
BindFramebuffer(f) ==
  /\ objects' = objects \cup {f}
  /\ draw_binding' = f
  /\ draw_framebuffer' = TRUE
  /\ UNCHANGED <<displayVars, renderbufferVars, attachments, status, draw_surfaces,
                 draw_buffer, registers, unflagged, stray, undefined>>

(* glDeleteFramebuffers.  Framebuffer 0 takes the place of the one that was *)
(* bound, without a flag.                                                   *)
DeleteFramebuffer(f) ==
  /\ f \in objects
  /\ IsAttached(f) => Defined(f)
  /\ ref_count' = Unref(f)
  /\ Bounded(ref_count')
  /\ objects' = objects \ {f}
  /\ attachments' = [attachments EXCEPT ![f] = None]
  /\ status' = [status EXCEPT ![f] = "incomplete"]
  /\ draw_surfaces' = [draw_surfaces EXCEPT ![f] = Nowhere]
  /\ draw_binding' = IF draw_binding = f THEN 0 ELSE draw_binding
  /\ unflagged' = (unflagged \/ draw_binding = f)
  /\ UNCHANGED <<displayVars, names, constructed, renderable, allocated, draw_buffer,
                 draw_framebuffer, registers, stray, undefined>>

(* Framebuffer f is to be validated again.                                  *)
Invalid(f) ==
  /\ status' = [status EXCEPT ![f] = "invalid"]
  /\ draw_surfaces' = [draw_surfaces EXCEPT ![f] = Nowhere]

(* Mutation: has the framebuffer validated, and not the registers.          *)
InvalidateUnflagged(f) == Invalid(f) /\ draw_framebuffer' = draw_framebuffer

(* Framebuffer f has changed.                                               *)
Invalidate(f) ==
  /\ Invalid(f)
  /\ draw_framebuffer' = (draw_framebuffer \/ f = draw_binding)

(* What is in attachments[] after the detachment.                           *)
Detached(f) == IF IsAttached(f) THEN None ELSE attachments[f]

(* glFramebufferRenderbuffer of renderbuffer r.                             *)
Attach(f, r) ==
  /\ f \in objects
  /\ r \in names
  /\ IsAttached(f) => Defined(f)
  /\ LET count == Unref(f)[r] + 1 IN
       /\ ref_count' = [Unref(f) EXCEPT ![r] = count]
       /\ Bounded(ref_count')
       /\ attachments' = [attachments EXCEPT ![f] = count]
       /\ stray' = (stray \/ count # r)
  /\ Invalidate(f)
  /\ UNCHANGED <<displayVars, names, constructed, renderable, allocated, objects,
                 draw_buffer, draw_binding, registers, unflagged, undefined>>

(* glFramebufferRenderbuffer of 0.                                          *)
Detach(f) ==
  /\ f \in objects
  /\ IsAttached(f) => Defined(f)
  /\ ref_count' = Unref(f)
  /\ Bounded(ref_count')
  /\ attachments' = [attachments EXCEPT ![f] = Detached(f)]
  /\ Invalidate(f)
  /\ UNCHANGED <<displayVars, names, constructed, renderable, allocated, objects,
                 draw_buffer, draw_binding, registers, unflagged, stray, undefined>>

(* glColorMask, glColorMaski and glDepthMask.  What they set is left out.   *)
WriteMask ==
  /\ Invalidate(draw_binding)
  /\ UNCHANGED <<displayVars, renderbufferVars, objects, attachments, draw_buffer,
                 draw_binding, registers, unflagged, stray, undefined>>

(* glDrawBuffer while framebuffer 0 is bound.                               *)
DrawBuffer(mode) ==
  /\ draw_binding = 0
  /\ draw_buffer' = mode
  /\ Invalidate(0)
  /\ UNCHANGED <<displayVars, renderbufferVars, objects, attachments, draw_binding,
                 registers, unflagged, stray, undefined>>

(* glReadBuffer of the framebuffer that is bound to GL_READ_FRAMEBUFFER.    *)
ReadBuffer(f) ==
  /\ f \in objects
  /\ Invalid(f)
  /\ UNCHANGED <<displayVars, renderbufferVars, objects, attachments, contextVars, stray,
                 undefined>>

-----------------------------------------------------------------------------

(* rsxgl_framebuffer_validate_complete; the window always is.               *)
IsComplete(f) == attachments[f] \in renderable \cup {None}

(* glCheckFramebufferStatus.                                                *)
CheckFramebufferStatus(f) ==
  /\ f \in objects \ {0}
  /\ Defined(f)
  /\ status' = [status EXCEPT ![f] = CASE @ # "invalid" -> @
       [] @ = "invalid" /\ IsComplete(f) -> "found complete"
       [] @ = "invalid" /\ ~IsComplete(f) -> "found incomplete"]
  /\ UNCHANGED <<displayVars, renderbufferVars, objects, attachments, draw_surfaces,
                 contextVars, stray, undefined>>

(* What framebuffer f is to draw to.                                        *)
Target(f) ==
  CASE f = 0 /\ draw_buffer = "back" -> Window(buffer)
    [] f = 0 /\ draw_buffer = "front" -> Window(Other(buffer))
    [] f = 0 /\ draw_buffer = "none" -> Nowhere
    [] f # 0 /\ attachments[f] = None -> Nowhere
    [] f # 0 /\ attachments[f] # None ->
         IF attachments[f] \in allocated THEN Memory(attachments[f]) ELSE Lost

(* rsxgl_framebuffer_validate and rsxgl_draw_framebuffer_validate, which a  *)
(* draw and glClear start with.  While the framebuffer is not complete the  *)
(* registers, and their flag, stay as they are.                             *)
Validate ==
  LET f == draw_binding IN
  /\ Defined(f)
  /\ status' = [status EXCEPT ![f] =
       CASE @ = "invalid" -> IF IsComplete(f) THEN "complete" ELSE "incomplete"
         [] @ = "found complete" -> "complete"
         [] @ = "found incomplete" -> "incomplete"
         [] OTHER -> @]
  /\ draw_surfaces' =
       IF status[f] # "complete" /\ IsUsed(f)
       THEN [draw_surfaces EXCEPT ![f] = Target(f)] ELSE draw_surfaces
  /\ unflagged' = (unflagged /\ ~(draw_framebuffer /\ IsUsed(f)))

RegistersAfter ==
  IF draw_framebuffer /\ IsUsed(draw_binding)
  THEN draw_surfaces'[draw_binding] ELSE registers

(* The command, with this surface in the registers.  Draws to other memory, *)
(* to the front buffer, and to what is not bound, do not wait in fifo.      *)
DrawCommand(surface) ==
  IF ~unflagged' /\ IsUsed(draw_binding) /\ draw_buffer # "front"
  THEN LET drawn == {b \in Buffers : surface = Window(b)} IN
       IF drawn = {} THEN << >> ELSE <<DrawTo(CHOOSE b \in drawn : TRUE)>>
  ELSE << >>

(* A draw or glClear.                                                       *)
Draw ==
  /\ Validate
  /\ registers' = RegistersAfter
  /\ draw_framebuffer' = (draw_framebuffer /\ ~IsUsed(draw_binding))
  /\ Emit(DrawCommand(registers'))
  /\ UNCHANGED <<renderbufferVars, objects, attachments, draw_buffer, draw_binding, stray,
                 undefined>>

(* A draw while transform feedback is on: the GPU then draws once more, to  *)
(* the feedback buffers.                                                    *)
DrawFeedback ==
  /\ Validate
  /\ registers' = Feedback
  /\ draw_framebuffer' = TRUE
  /\ Emit(DrawCommand(RegistersAfter))
  /\ UNCHANGED <<renderbufferVars, objects, attachments, draw_buffer, draw_binding, stray,
                 undefined>>

-----------------------------------------------------------------------------

(* Mutation: flags the registers, and not the framebuffer of the window.    *)
CallbackFlagsContext == draw_framebuffer' = TRUE /\ UNCHANGED <<status, draw_surfaces>>

(* rsxgl_context_t::egl_callback.                                           *)
Callback == draw_framebuffer' = TRUE /\ Invalid(0)

(* eglSwapBuffers.                                                          *)
Swap ==
  /\ SwapBuffers
  /\ Callback
  /\ UNCHANGED <<renderbufferVars, objects, attachments, draw_buffer, draw_binding,
                 registers, unflagged, stray, undefined>>

(* eglMakeCurrent of the same context and window.                           *)
MakeCurrent ==
  /\ Callback
  /\ UNCHANGED <<displayVars, renderbufferVars, objects, attachments, draw_buffer,
                 draw_binding, registers, unflagged, stray, undefined>>

(* A framebuffer is used that has an attachment which is no renderbuffer.   *)
Stumble ==
  /\ \E f \in objects : ~Defined(f)
  /\ undefined' = TRUE
  /\ UNCHANGED <<displayVars, renderbufferVars, framebufferVars, contextVars, stray>>

CPU ==
  \/ \E r \in Renderbuffers :
       \/ CreateRenderbuffer(r)
       \/ DeleteRenderbuffer(r)
       \/ \E got \in BOOLEAN : RenderbufferStorage(r, got)
  \/ \E f \in All :
       \/ BindFramebuffer(f)
       \/ ReadBuffer(f)
       \/ CheckFramebufferStatus(f)
  \/ \E f \in Framebuffers :
       \/ DeleteFramebuffer(f)
       \/ Detach(f)
       \/ \E r \in Renderbuffers : Attach(f, r)
  \/ WriteMask
  \/ \E mode \in Modes : DrawBuffer(mode)
  \/ Draw
  \/ DrawFeedback
  \/ Swap
  \/ MakeCurrent
  \/ Stumble

GPU ==
  /\ Execute \/ VerticalBlank
  /\ UNCHANGED <<renderbufferVars, framebufferVars, contextVars, stray, undefined>>

Next == (~undefined /\ CPU) \/ GPU

Spec == Init /\ [][Next]_vars

-----------------------------------------------------------------------------

TypeOK ==
  /\ buffer \in Buffers
  /\ fifo \in Seq([op : {"draw", "flip"}, to : Buffers] \cup {WaitFlip})
  /\ displayed \in Buffers \cup {NoFlip}
  /\ flipping \in Buffers \cup {NoFlip}
  /\ names \subseteq constructed
  /\ constructed \subseteq Renderbuffers
  /\ ref_count \in [Renderbuffers -> Int]
  /\ renderable \subseteq Renderbuffers
  /\ allocated \subseteq constructed
  /\ objects \subseteq All
  /\ \A f \in All : attachments[f] = None \/ attachments[f] \in Int
  /\ status \in [All -> Statuses]
  /\ draw_surfaces \in [All -> Surfaces]
  /\ draw_buffer \in {"back"} \cup Modes
  /\ draw_binding \in objects
  /\ draw_framebuffer \in BOOLEAN
  /\ registers \in Surfaces
  /\ {unflagged, stray, undefined} \subseteq BOOLEAN

(* Unless it is flagged the GPU draws to what is attached to the            *)
(* framebuffer that is bound, and of the window to the buffer to be shown   *)
(* next, however framebuffers changed, were bound, checked and deleted, and *)
(* buffers swapped; but if the binding changed by a deletion, or memory was *)
(* lost in glRenderbufferStorage.  Memory is not freed with a renderbuffer  *)
(* that is attached, unless attachments went astray.                        *)
TargetsFollow ==
  /\ TypeOK
  /\ ~draw_framebuffer /\ ~unflagged /\ Defined(draw_binding) =>
       \/ registers \in {Target(draw_binding), Lost}
       \/ stray /\ registers = Destroyed

(* The GPU never draws to the buffer that is shown, or about to be shown,   *)
(* though the CPU does not wait for it and goes on to the next frame, if    *)
(* the application never draws to the front buffer, to a framebuffer that   *)
(* is not complete, or after the deletion of the one bound.                 *)
ShownNotDrawn ==
  fifo # << >> /\ Head(fifo).op = "draw" =>
    Head(fifo).to \notin {displayed, flipping} \cap Buffers

(* No frame that the application has swapped is skipped: the GPU does not   *)
(* ask for a flip before the one before has taken place, though the CPU     *)
(* does not wait for that either.                                           *)
FramesShown == [][flipping # NoFlip /\ flipping' # flipping => displayed' = flipping]_vars

=============================================================================
