----------------------------- MODULE GLObjects ------------------------------
(***************************************************************************)
(* The life of GL objects (gl_object.h, gl_object_storage.h), for the      *)
(* buffer objects of a context (buffer.cc) and the vertex arrays that      *)
(* contain them (attribs.cc): names, construction at the first bind,       *)
(* bindings, reference counts, deletion now or when nothing refers to the  *)
(* object any more.  Shaders in programs, renderbuffers and textures in    *)
(* framebuffers go through the same templates.                             *)
(*                                                                         *)
(* The names of the buffers are those of a NameSpace.  Every context has   *)
(* an object context of its own (eglCreateContext ignores share_context),  *)
(* so there is one binding table.                                          *)
(***************************************************************************)
EXTENDS Integers, Sequences, FiniteSets

CONSTANTS
  Positions, NameSpan, NameBound,  \* as in NameSpace
  Targets,       \* buffer targets: array and indexed, and maybe more
  ArrayTarget,   \* RSXGL_ARRAY_BUFFER
  RangeTarget,   \* RSXGL_UNIFORM_BUFFER (or RSXGL_TRANSFORM_FEEDBACK_BUFFER)
  IndexedTarget, \* RSXGL_UNIFORM_BUFFER0 + index
  VertexArrays,  \* the names of vertex arrays, the default one 0 among them
  MaxAttribs     \* RSXGL_MAX_VERTEX_ATTRIBS

ASSUME GLObjectsAssumption ==
  /\ Positions \in Nat \ {0}
  /\ NameSpan \in Nat \ {0}
  /\ NameBound \in Nat \ {0}
  /\ Positions <= NameSpan
  /\ {ArrayTarget, RangeTarget, IndexedTarget} \subseteq Targets
  /\ 0 \in VertexArrays
  /\ IsFiniteSet(VertexArrays)
  /\ MaxAttribs \in Nat

Attribs == 0 .. MaxAttribs - 1

MaxNames == NameSpan  \* RSXGL_MAX_BUFFERS is 65536, a name_type has 16 bits
Finite == FALSE
UserBit == TRUE

VARIABLES
  capacity, named, created, queue, queueCap, count,  \* the name space of buffers
  deleted,          \* the buffers marked for deletion
  ref_count,        \* of every buffer
  binding_bitfield, \* of every buffer: the targets it believes to be bound to
  buffer_binding,   \* of the context: the buffer bound to each target
  arrays,           \* the vertex arrays that are constructed
  attribs_binding,  \* the vertex array that is bound
  buffers,          \* of every vertex array: the buffer of each attribute
  destructing       \* the buffers that ~object_container_type has yet to unref,
                    \* by the attribute that held them; 0: none

nameVars == <<capacity, named, created, queue, queueCap, count>>
objectVars == <<deleted, ref_count>>
bindVars == <<binding_bitfield, buffer_binding>>
arrayVars == <<arrays, attribs_binding, buffers>>
vars == <<nameVars, objectVars, bindVars, arrayVars, destructing>>

Names == INSTANCE NameSpace

BufferNames == 0 .. NameBound - 1

NoBuffers == [i \in Attribs |-> 0]

IsObject(n) == Names!IsName(n) /\ Names!IsCreated(n)

-----------------------------------------------------------------------------

(* The storage's constructor has taken name 0, without an object.           *)
Init ==
  /\ capacity = Positions
  /\ named = {0}
  /\ created = {}
  /\ queue = << >>
  /\ queueCap = 0
  /\ count = 0
  /\ deleted = {}
  /\ ref_count = [n \in BufferNames |-> 0]
  /\ binding_bitfield = [n \in BufferNames |-> {}]
  /\ buffer_binding = [t \in Targets |-> 0]
  /\ arrays = {0}
  /\ attribs_binding = 0
  /\ buffers = [a \in VertexArrays |-> NoBuffers]
  /\ destructing = NoBuffers

Idle == destructing = NoBuffers

(* glGenBuffers of one name.                                                *)
GenBuffer(slot) ==
  /\ Idle
  /\ Names!CreateName(slot)
  /\ UNCHANGED <<objectVars, bindVars, arrayVars, destructing>>

(* Mutation: the buffer that was bound before keeps its bit.                *)
BindKeepsBit(T, n) ==
  LET Moved == {t \in T : buffer_binding[t] # n} IN
  /\ buffer_binding' = [t \in Targets |-> IF t \in T THEN n ELSE buffer_binding[t]]
  /\ binding_bitfield' =
       [m \in BufferNames |->
          IF m # 0 /\ m = n THEN binding_bitfield[m] \cup Moved
          ELSE binding_bitfield[m]]

(* object_binding_type::bind of name n to every target of T.                *)
Bind(T, n) ==
  LET Moved == {t \in T : buffer_binding[t] # n} IN
  /\ buffer_binding' = [t \in Targets |-> IF t \in T THEN n ELSE buffer_binding[t]]
  /\ binding_bitfield' =
       [m \in BufferNames |->
          IF m = 0 THEN {}
          ELSE IF m = n THEN binding_bitfield[m] \cup Moved
          ELSE binding_bitfield[m] \ {t \in Moved : buffer_binding[t] = m}]

(* glBindBuffer: the first bind of a name constructs the object.            *)
BindBuffer(t, n) ==
  /\ Idle
  /\ n = 0 \/ Names!IsName(n)
  /\ IF n # 0 /\ ~IsObject(n) THEN Names!SetUserBit(n) ELSE UNCHANGED nameVars
  /\ Bind({t}, n)
  /\ UNCHANGED <<objectVars, arrayVars, destructing>>

(* glBindBufferRange and glBindBufferBase.                                  *)
BindBufferRange(n) ==
  /\ Idle
  /\ n = 0 \/ IsObject(n)
  /\ Bind({RangeTarget, IndexedTarget}, n)
  /\ UNCHANGED <<nameVars, objectVars, arrayVars, destructing>>

(* Mutation: looks at one target only.                                      *)
UnbindFromOne(n) ==
  IF binding_bitfield[n] = {} THEN UNCHANGED bindVars
  ELSE LET t == CHOOSE u \in Targets : u \in binding_bitfield[n] IN
       /\ buffer_binding' = [buffer_binding EXCEPT ![t] = 0]
       /\ binding_bitfield' = [binding_bitfield EXCEPT ![n] = @ \ {t}]

(* object_binding_type::unbind_from_all, which trusts the bitfield.         *)
UnbindFromAll(n) ==
  IF binding_bitfield[n] = {} THEN UNCHANGED bindVars
  ELSE /\ buffer_binding' =
            [t \in Targets |-> IF buffer_binding[t] = n THEN 0 ELSE buffer_binding[t]]
       /\ binding_bitfield' = [binding_bitfield EXCEPT ![n] = {}]

(* glDeleteBuffers of an object: unbind it, then maybe_delete.              *)
DeleteObject(n) ==
  /\ Idle
  /\ n # 0
  /\ IsObject(n)
  /\ UnbindFromAll(n)
  /\ IF ref_count[n] = 0
     THEN Names!DestroyName(n) /\ UNCHANGED deleted
     ELSE Names!DetachName(n) /\ deleted' = deleted \cup {n}
  /\ UNCHANGED <<ref_count, arrayVars, destructing>>

(* glDeleteBuffers of what is a name only.                                  *)
DeleteName(n) ==
  /\ Idle
  /\ n # 0
  /\ Names!IsName(n) /\ ~Names!IsCreated(n)
  /\ Names!DestroyName(n)
  /\ UNCHANGED <<objectVars, bindVars, arrayVars, destructing>>

(* Mutation: destroys what is not marked for deletion.                      *)
MaybeDestroyUnmarked(n, refs) ==
  IF refs[n] = 0 /\ Names!IsName(n)
  THEN Names!DestroyName(n) /\ deleted' = deleted \ {n}
  ELSE UNCHANGED <<nameVars, deleted>>

(* The end of unref_and_maybe_delete, refs being the counts after the       *)
(* decrement: storage.destroy ignores what is_name does not know.           *)
MaybeDestroy(n, refs) ==
  IF n \in deleted /\ refs[n] = 0 /\ Names!IsName(n)
  THEN Names!DestroyName(n) /\ deleted' = deleted \ {n}
  ELSE UNCHANGED <<nameVars, deleted>>

(* Mutation: the buffer that was there before keeps its reference.          *)
RefsKeepPrevious(name, prev) ==
  [n \in BufferNames |-> ref_count[n] + (IF n # 0 /\ n = name THEN 1 ELSE 0)]

(* The reference counts after name took the place of prev in an attribute.  *)
RefsAfter(name, prev) ==
  [n \in BufferNames |-> ref_count[n] + (IF n # 0 /\ n = name THEN 1 ELSE 0)
                                      - (IF n # 0 /\ n = prev THEN 1 ELSE 0)]

(* glVertexAttribPointer: object_container_type::bind of the buffer bound   *)
(* to the array target, to attribute i of the vertex array that is bound.   *)
AttribPointer(i) ==
  LET name == buffer_binding[ArrayTarget]
      prev == buffers[attribs_binding][i]
      refs == RefsAfter(name, prev)
  IN
  /\ Idle
  /\ buffers' = [buffers EXCEPT ![attribs_binding][i] = name]
  /\ ref_count' = refs
  /\ IF prev = 0 THEN UNCHANGED <<nameVars, deleted>> ELSE MaybeDestroy(prev, refs)
  /\ UNCHANGED <<bindVars, arrays, attribs_binding, destructing>>

(* glBindVertexArray: the first bind of a name constructs the vertex array. *)
BindVertexArray(a) ==
  /\ Idle
  /\ attribs_binding' = a
  /\ arrays' = arrays \cup {a}
  /\ UNCHANGED <<nameVars, objectVars, bindVars, buffers, destructing>>

(* glDeleteVertexArrays: unbind the vertex array and destroy it; its        *)
(* container goes through its buffers in turn (UnrefNext).                  *)
DeleteVertexArray(a) ==
  /\ Idle
  /\ a # 0
  /\ a \in arrays
  /\ attribs_binding' = IF attribs_binding = a THEN 0 ELSE attribs_binding
  /\ arrays' = arrays \ {a}
  /\ destructing' = buffers[a]
  /\ buffers' = [buffers EXCEPT ![a] = NoBuffers]
  /\ UNCHANGED <<nameVars, objectVars, bindVars>>

UnrefNext(i) ==
  LET n == destructing[i]
      refs == [ref_count EXCEPT ![n] = @ - 1]
  IN
  /\ n # 0
  /\ \A j \in 0 .. i - 1 : destructing[j] = 0
  /\ ref_count' = refs
  /\ MaybeDestroy(n, refs)
  /\ destructing' = [destructing EXCEPT ![i] = 0]
  /\ UNCHANGED <<bindVars, arrayVars>>

Next ==
  \/ \E n \in BufferNames :
       \/ GenBuffer(n)
       \/ \E t \in Targets : BindBuffer(t, n)
       \/ BindBufferRange(n)
       \/ DeleteObject(n)
       \/ DeleteName(n)
  \/ \E i \in Attribs : AttribPointer(i) \/ UnrefNext(i)
  \/ \E a \in VertexArrays : BindVertexArray(a) \/ DeleteVertexArray(a)

Spec == Init /\ [][Next]_vars

-----------------------------------------------------------------------------

TypeOK ==
  /\ Names!TypeOK
  /\ deleted \subseteq BufferNames
  /\ ref_count \in [BufferNames -> Nat]
  /\ binding_bitfield \in [BufferNames -> SUBSET Targets]
  /\ buffer_binding \in [Targets -> BufferNames]
  /\ arrays \subseteq VertexArrays
  /\ attribs_binding \in arrays
  /\ buffers \in [VertexArrays -> [Attribs -> BufferNames]]
  /\ destructing \in [Attribs -> BufferNames]

(* What refers to buffer n: attributes of vertex arrays, and what a vertex  *)
(* array under destruction has yet to let go.                               *)
Attributes(n) == {p \in VertexArrays \X Attribs : buffers[p[1]][p[2]] = n}

Dying(n) == {i \in Attribs : destructing[i] = n}

IsReferenced(n) == Attributes(n) # {} \/ Dying(n) # {}

IsBound(n) == \E t \in Targets : buffer_binding[t] = n

(* The bitfield of a buffer and the binding table tell the same, or         *)
(* unbind_from_all, which looks at the table only if the bitfield is not    *)
(* empty, would leave a deleted buffer bound.                               *)
BindingsAgree ==
  /\ TypeOK
  /\ \A n \in BufferNames \ {0} :
       binding_bitfield[n] = {t \in Targets : buffer_binding[t] = n}

(* ref_count is the number of references, from the attribute pointers of    *)
(* all vertex arrays: too low, and the buffer is destroyed under a vertex   *)
(* array; too high, and it never is.                                        *)
RefsCounted ==
  \A n \in BufferNames \ {0} :
    ref_count[n] = Cardinality(Attributes(n)) + Cardinality(Dying(n))

(* The assertion of storage.at(): a name that a target or a vertex array    *)
(* holds is that of a constructed object, and of the very object it was     *)
(* given, its name not on its way to somebody else.                         *)
HeldAreConstructed ==
  \A n \in BufferNames \ {0} :
    IsBound(n) \/ IsReferenced(n) =>
      /\ n \in created
      /\ \A k \in 1 .. Len(queue) : queue[k] # n

(* An object that glDeleteBuffers has marked goes away as its references    *)
(* do: it is bound nowhere and no call can add a reference to it.           *)
DeletedOnlyFade ==
  [][\A n \in deleted : ~IsBound(n)' /\ ref_count'[n] <= ref_count[n]]_vars

=============================================================================
