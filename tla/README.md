# RSXGL, modelled in TLA+

RSXGL implements OpenGL 3.1 for the PlayStation 3's GPU, the RSX.  The program
runs on the CPU; the GPU executes commands from a FIFO in shared memory at its
own pace.  The library (`src/src/library`) keeps the GL state of a context,
translates it to commands when something is drawn, and has to know which memory
the GPU is not done with yet.

Most of what can go wrong is invisible to a caller: the API is synchronous and
single-threaded, the GPU is neither.  The models in this directory are about
that boundary, and about the bookkeeping (names, references, flags) that the
library relies on without checking it.

## 1. The system

| Component | Source | State | Operations |
|---|---|---|---|
| Names | `name_space.h` | a bitfield per name space that grows in words, a circular buffer of released names, a count | create, destroy, detach, set a user bit |
| GL object life cycle | `gl_object.h`, `gl_object_storage.h` | storage of constructed objects, binding tables with a bitfield per object, containers, reference counts, deletion marks | gen, bind, unbind from all, attach, delete, unref and maybe delete |
| Timestamps | `timestamp.h`, `rsxgl_context.cc`, `sync.h` | next, last and cached timestamp of the context, a label the GPU writes, a stamp per object | create, post, wait, passed, flush |
| Buffer objects | `buffer.cc` | memory, mapping, stamp, bindings | data, sub data, map, unmap, copy, bind, bind range, delete |
| Vertex attributes | `attribs.cc` | vertex arrays: enabled set, buffer per attribute; flags of invalid attributes | bind, delete, enable, pointer, constant; validation at a draw |
| Programs | `program.cc`, `uniforms.cc` | shaders attached and linked, microcode, uniforms, active program | attach, link, use, delete, uniforms, transform feedback; validation at a draw |
| Client index migration | `ringbuffer_migrate.cc` | a ring buffer with head, tail and a label | memalign, free |
| Drawing | `draw.cc` | none of its own | check, take timestamps, validate, emit, post |
| Sync objects | `sync.cc` | fence objects, semaphore indices | fence, wait, delete; finish and flush |
| Queries | `query.cc` | query objects, report indices, conditional rendering | begin, end, counter, get, delete |
| Display and contexts | `egl.c` | surfaces, buffers, flip state, the current context | make current, swap |
| Framebuffers | `framebuffer.cc`, `clear.cc` | renderbuffers, attachments, completeness, surfaces, draw buffers | storage, attach, detach, bind, delete, check; validation at a draw or clear |
| Textures and samplers | `textures.cc`, `texture_migrate.cc` | levels, memory, bindings of units, flags of units and of the program's samplers | storage, image, sub image, bind, delete; validation at a draw |
| Fixed state | `state.cc`, `enable.cc` | values and dirty flags | set, validate |
| Memory arenas | `arena.cc` | heaps in the GPU's memory | allocate, free |

How they interact:

- Every call that makes the GPU use an object takes timestamps
  (`rsxgl_timestamp_create`), stamps the object with the last of them (the
  `..._validate` functions) and puts a command behind its own that makes the GPU
  write the timestamp to a label (`rsxgl_timestamp_post`).  Every call that lets
  the CPU at the object's memory waits for the label to reach the stamp
  (`rsxgl_timestamp_wait`).  This is the protocol all other components share.
- State is validated lazily.  A call that changes what the GPU should see sets a
  flag in the context; a draw writes the registers that are flagged.  Attributes,
  textures, uniforms, programs and framebuffers have flags each.
- Objects refer to each other (attributes to buffers, programs to shaders,
  framebuffers to renderbuffers and textures).  An object that is deleted while
  it is referred to loses its name and lives on until the last reference goes.
- `eglMakeCurrent` and `eglSwapBuffers` call back into the library
  (`rsxgl_context_t::egl_callback`), which flags everything as invalid.
- A draw under transform feedback is followed by a second pass with other
  microcode and other targets.  It comes after the draw's timestamp and changes
  registers behind the flags of programs and framebuffers, which it sets again.
- The active program decides which inputs attributes reach, and which units are
  sampled; `glUseProgram` computes flags of both from the program before.

What is hard:

- *Concurrency.*  The GPU writes labels while the CPU reads them.  What the CPU
  remembers of a label is stale by the time it is used; that has to be harmless.
- *Liveness.*  The GPU sees a command only after a flush moved the put register.
  A spin on a label without a flush may never end.
- *Numeric edges.*  Timestamps are 31 bits wide and run out; name types are as
  wide as the maximal number of names; the ring buffer wraps.
- *Flags.*  A forgotten flag shows only in a draw much later.
- *Partial failure.*  Allocation fails after the old memory was freed.

What makes each component correct is stated in the modules; `PROJECT.json`
lists the hazards line by line.

## 2. The modules

| Module | Models | Extends or instantiates |
|---|---|---|
| `NameSpace` | `name_space<>` with its four template parameters | |
| `GLObjects` | buffers, their targets, vertex arrays that hold them | `NameSpace` |
| `ObjectTurns` | abstract: CPU and GPU take turns on objects | |
| `Timestamps` | the timestamp protocol, and what it implements | `ObjectTurns` |
| `VertexAttribs` | vertex arrays, the flags, the registers, the draw | |
| `BufferSharing` | draws, copies and buffer calls that wait | extends `VertexAttribs`, instantiates `Timestamps` |
| `RingBuffer` | migration of client-side indices | |
| `SyncObjects` | fences, their semaphores, `glFlush`, `glFinish` | `NameSpace` |
| `Queries` | queries, their reports, results, conditional rendering | |
| `Programs` | shaders, a program and its uniforms, the draws and feedback passes that use it | |
| `Textures` | images, memory, units and samplers, the draws that sample them | |
| `Display` | the window's two buffers, flips, the commands in between | |
| `Framebuffers` | renderbuffers, framebuffers, what is drawn to | `Display` |
| `NameSpaceProofs`, `TimestampsProofs`, `ProgramsProofs`, `FramebuffersProofs` | theorems | the module of that name |
| `BufferSharingProofs` | theorems about `BufferSharing` and the `VertexAttribs` in it | `BufferSharing` |
| `TexturesProofs` | theorems about `Textures` and `RingBuffer`, the memory that client data is copied to | `Textures`, `RingBuffer` |
| `GLObjectsProofs` | theorems about `GLObjects` and `Queries` | `GLObjects`, `Queries`, `NameSpaceProofs` |
| `SyncObjectsProofs` | theorems about `SyncObjects` | `SyncObjects`, `NameSpaceProofs` |
| `MCVertexAttribs`, `MCBufferSharing`, `MCQueries`, `MCTextures` | programs, levels and symmetry for TLC | |

Every module has one type invariant, `TypeOK`, which is a conjunct of the first
invariant of its run.  Where a module of theorems is about two components their
state machines have names of their own: `RingInit`, `RingNext` and `RingTypeOK`,
`QueriesInit`, `QueriesNext` and `QueriesTypeOK`, and so on.

### NameSpace

`capacity`, `named`, `queue` and `count` are the bitfield's size, its first bit
per name, the circular buffer and `m_count`; `created` is the user bit that
`gl_object_storage` sets.  One action per member function.  `CreateName(slot)`
takes the slot as a parameter that `IsNextSlot` determines: the front of the
queue, or the first clear slot *of the last word*, or the slot behind it.  The
conversion to `name_type` is `NameOf` (modulo `NameSpan`).  A pushed name may
overwrite the oldest one in a full circular buffer (`PushBack`).

The library instantiates the template with `Finite` and no user bit (semaphores,
reports), and with a user bit and not `Finite` (GL objects).  The run turns both
on: a behaviour of the first kind is one without `SetUserBit`, and a behaviour of
the second is one that stays below `MaxNames`.  The theorems are about every
value of the parameters.

### GLObjects

The templates of `gl_object.h`, followed for buffers and vertex arrays: `Bind` is
`object_binding_type::bind`, `UnbindFromAll` trusts the bitfield as the code
does, `AttribPointer` is `object_container_type::bind`, `MaybeDestroy` the end of
`unref_and_maybe_delete`.  The destructor of a vertex array's container releases
its buffers one by one (`UnrefNext`); nothing else runs meanwhile.  Names are
those of a `NameSpace`, so that a name can be destroyed, reissued and meet what
is left of its predecessor.

### Timestamps

The CPU's calls are split where the GPU can run in between: a call that has to
wait is `Wait` (stamp seen, flush done), `WaitOver` (the spin's condition holds)
and `AccessDone`.  `fifo` holds the commands not executed yet with the timestamp
written behind each; `put` says how many of them the GPU may fetch.  `Execute`
is the GPU.  `Use` is any call that takes timestamps, stamps objects and posts;
`UseOverflows` and `StartOver` are the two halves of `rsxgl_timestamp_create`
when timestamps run out.

`epoch` is a history variable: "first" until timestamps start over, "later"
afterwards.  When they do, `cached_timestamp` is reset to 0 but the label still
shows the last timestamp of the epoch before, so that until the GPU has executed
the first command of the new epoch a wait for any stamp is over at once
(`rsxgl_context.cc:157`).  `ExclusiveAtFirst` and `EpochInvAtFirst` therefore end
with the first epoch; `StampsNotAhead` and the liveness properties do not.

`TakesTurns` says that `Timestamps` implement `ObjectTurns` up to then: forget
the timestamps, and what is left is a queue of commands and a CPU that holds an
object only if no queued command uses it.  The mapping (`Pending`, `Held`) stays
idle once the timestamps have started over; at that point the GPU is idle, too,
so that the mapped behaviour is one in which nobody does anything any more.

### VertexAttribs

`buffers` and `enabled` are the vertex arrays, `invalid_attribs` and
`invalid_attrib_assignments` the two flag sets, `vtxbuf` the hardware's vertex
registers.  A draw writes the registers of the inputs that either set flags and
clears the flags it consumed.  Memory that was freed while a register points at
it turns into `Freed` there.

Three calls leave out a flag: `glBufferData` that runs out of memory,
`glDeleteVertexArrays` of the bound one, and `glUseProgram`, which flags inputs
of the program before.  `lapsed` is a history variable that records which of them
happened since everything was last invalid; it influences no action.
`FollowsUnlessLapsed` says that there is no fourth: with `lapsed` empty every
input of the active program is flagged or its register is right.  Switches of
programs that flag enough are not counted as lapses (`SwitchIsCovered`).

### BufferSharing

Composes the two: a draw is `VertexAttribs`' draw and `Timestamps`' use of the
buffers that were validated; `fetches` records in addition what the registers
make each command fetch.  Calls on buffers wait as in `Timestamps` and then
change the state as in `VertexAttribs`.  The two notions of use differ, and this
is the point: `StampedExclusive` holds, `FetchedExclusive` does not.

### RingBuffer

`Request` is the arithmetic at the beginning of `memalign`, `KeepsSpinning` the
condition of its loop, `StallOver` the assignments behind it.  `free` puts a
command behind the draw that writes the end of the piece to the label.  `wrapped`
is a history variable: `memalign` has stalled before.

### SyncObjects

A fence owns a semaphore: a name of a finite `NameSpace` (composed, not
restated), plus 64 (`IndexBase`).  `glFenceSync` sets the label to "unsignaled"
and emits a command that sets it to the fence's token.  The token is always 0,
since `rsxgl_sync_token` masks with `1 << 23`, so a label only tells signaled
from unsignaled: `label` is Boolean.  `MaxNames` stands for "no index" as 192 does
in the code, and `IndexBase` is small enough for a real index to have that value,
as 64 + 128 has (`FenceSyncMistakes`).  `glClientWaitSync` is split into the call
and its two ends, so that the GPU runs in between; its timeout is
nondeterministic, and that of `glFinish`, too.

`inherited` is a history variable: the fences that got a semaphore which a queued
command of a deleted fence was still going to signal.  `SignaledIsComplete`
holds for all others.

### Queries

`used` abstracts the report indices' `NameSpace` to what its theorems say of it:
an index given out is in range and not in use.  A report is modelled by the
timestamp of the call whose command wrote it last.  That identifies the call, so
that "this result is from this query" can be said without samples or times; what
a result's value is, and therefore whether the loop of an any-samples query goes
on (`ReadOn`) or conditional rendering passes, is nondeterministic.  Reading a
result is `GetResult` (flush), `ReadOn` and `ReadResult` (the wait is over).

A failed `rsxgl_assert` ends the program: `aborted` names it and nothing happens
afterwards.  `misused` is a history variable: a query was deleted while bound,
begun for another target than before, or begun for a target that is not
supported.  Each of these leaves the query in a state in which a later call asserts;
`AbortsAreMisuse` says that there is no fourth way.  Timestamps do not run out in
this module.

### Programs

One program is followed, "program"; all others are "other" and matter only in
taking its place in the GPU.  A shader is on one, both or none of the lists
`attached_shaders` and `linked_shaders` and is counted once for each: `glLinkProgram`
lets go of the second list and moves the first there without counting.

The GPU has the vertex program and the constants in registers, but reads the
fragment program, with the uniforms' values patched into it, from memory.
`glLinkProgram` frees that memory after it has waited for the program's
timestamp.  `timestamp` is therefore modelled by what `Timestamps` makes of it:
the number of queued commands that have to be executed until it passes.  A draw
under transform feedback (`DrawFeedback`) queues two commands, and only the first
is covered by a timestamp; `NothingFreed` is about covered commands.

`relinked` is a history variable: the program was linked while it was active and
has not been loaded since (nothing flags it, `program.cc:631`).
`constants` and `patched` say whether the one uniform's value is where the two
stages read it.

### Textures

`levels` is what `glTexImage` keeps, `memory` what a draw puts together from the
levels, `registers` which texture's memory each hardware unit samples.  The data of
a level is abstracted to whether it is the latest the application gave for it.
Memory that is freed, or written while a draw waits to sample it, turns into
`Torn` in the registers and in the queued draws.

Two history variables name what the code leaves out.  `dropped`: the indices whose
unit changed by `glUseProgram`, which overwrites flags that no draw has consumed, or
by relinking the active program, which sets none.  `lapsed`: textures of which a
part was replaced where it gets lost, namely in memory that the next draw frees
because the texture is invalid, or before another level is specified, which has
the other levels copied again from what `glTexImage` was given.

`glDeleteTextures` unbinds without a flag.  `TexturesFollow` speaks of units with
a texture that has memory; binding another one there does flag, so that it holds.

### Display and Framebuffers

`Display` has the buffer to be drawn to, the queue of commands, what is shown and
what is going to be shown.  `eglSwapBuffers` queues a flip and a command that
keeps the GPU waiting until the flip has happened; the CPU goes on.

`Framebuffers` extends it with renderbuffers, one color attachment per
framebuffer, `status` (the pair of `invalid` and `invalid_complete`, and the
completeness that was found), `draw_surfaces` and the registers.
`Validate` is `rsxgl_framebuffer_validate` and `rsxgl_draw_framebuffer_validate`.

`glFramebufferRenderbuffer` stores what `gl_object_type::ref` returns, a reference
count, where the name belongs (`framebuffer.cc:458`).  The model does the same.
As long as the count happens to be the name, all is well; `stray` records that it
was not, and `Stumble` that an attachment is used which is no renderbuffer:
what the code does then is undefined, and the model ends (`undefined`).
`unflagged` records that `glDeleteFramebuffers` of the bound one put framebuffer 0
in its place without a flag.  `Lost` is memory freed by `glRenderbufferStorage`,
which invalidates no framebuffer.

## 3. The runs

| Run | Checks | Bounds |
|---|---|---|
| `MCNameSpace` | the queue is the free list; no name lost; names below the limit; fresh names; growth only when full | 5 names, words of 3, so that limit and word boundary differ and the bitfield grows once |
| `MCGLObjects` | bitfields and tables agree; counts are exact; what is held is constructed; deleted objects only fade | 2 buffers besides name 0, 3 targets, 2 vertex arrays of 2 attributes |
| `MCTimestamps` | exclusion and the inductive invariant until the timestamps start over; refinement of `ObjectTurns`; stamps never ahead; every wait ends; new timestamps are had if all was flushed | 2 objects, 5 timestamps, so that they run out in the middle of calls and again, calls of up to 2, FIFO of 4 |
| `MCVertexAttribs` | registers follow; mapped buffers are not drawn from | 1 buffer, 2 vertex arrays, 2 attributes, 3 programs: straight, swapped, shifted |
| `MCBufferSharing` | stamped buffers are exclusive | 2 buffers, 1 attribute, 4 timestamps, FIFO of 2 |
| `MCBufferSharingFetched` | *violated*: no fetch from memory the CPU is at | as `MCBufferSharing` |
| `MCRingBuffer` | pieces in bounds; no overlap before the first stall; stalls end | size 6, alignment 2, 3 pieces in flight |
| `MCSyncObjects` | semaphores have one owner; signaled means complete; signaled stays; `glFinish` drains; flushed fences get signaled | 4 semaphores (1 the context's, 1 with the index that means none), 4 sync objects, 3 `glFinish`, FIFO of 3 |
| `MCQueries` | reports have one owner; assertions fail after misuse only; conditions and results are read from the query's own report | 2 queries, 2 reports (elapsed time takes both), 4 targets and the counter, 4 timestamps, FIFO of 3 |
| `MCPrograms` | shaders are held and counted; the GPU runs the active program; it has the uniform; no microcode freed under a draw | 2 shaders, 1 program and others, FIFO of 2, the length of a draw under transform feedback |
| `MCTextures` | the GPU samples what is bound; no memory torn under a draw; it has the latest images | 2 textures, one of them with 2 levels, 2 formats, 2 units, 1 sampler, FIFO of 1 |
| `MCFramebuffers` | the GPU draws to what is attached; never to what is shown; no frame is skipped | 2 renderbuffers, 1 framebuffer besides the window's, draw buffers back and front, counts from -1 to 1, FIFO of 3: a swap and a draw |

Two objects show every interference between objects: a call uses a set of them
and a wait is for one, so that a third behaves like the second.  The FIFO bound
is what keeps the models finite; it is larger than what one call emits, so that
commands of different calls are queued at once.  Four timestamps let a query be
begun, ended, and begun and ended again with a report whose earlier commands are
still queued, or two queries be interleaved.  Queries and reports are
interchangeable, and so are buffers in `MCBufferSharing` and formats in `MCTextures`;
the runs with symmetry check no liveness.  `MCTextures` has one waiting draw; with
two it passes as well, but takes 5 990 320 states, and `TexturesProofs` is about any
number of them.  Two names of renderbuffers are needed for an attachment to go astray.

Where deadlock is not checked the system may stop: timestamps have run out, which
`BufferSharing` does not follow further; an assertion has failed (`Queries`); what
the program does is undefined (`Framebuffers`); or a spin goes on
forever (`rsxgl_timestamp_create` on overflow, see below, and in `RingBuffer` a
stall whose commands nobody flushed).

**Fairness.**  `WF(Execute)` and `WF(Draw)`: the GPU executes what it may fetch.
`WF(WaitOver)`, `WF(StartOver)`, `WF(StallOver)`: a spin on the CPU leaves the
loop once its condition stays true; labels are written by nobody but the GPU, and
what the loop looks for stays so while the CPU is in it.  Nothing is assumed about
the application: it need not flush, nor call anything again.

**What the violation shows.**  `src/STATUS:82-84` promises that an application that
writes to memory the GPU is using waits for the GPU.  A buffer is stamped when a
register is written (`attribs.cc:873`).  The second draw from it writes no
register and leaves the stamp of the first; a `glBufferSubData` after it waits for
the first draw only.

**Met while modelling**, modelled as the code has it, and allowed for by a
property that ends there or names the exception:

- When timestamps start over, the label is older than they are (see `Timestamps`).
- `rsxgl_timestamp_create`, on overflow, calls the `rsxgl_timestamp_wait` of
  `timestamp.h`, which does not flush; if what it waits for was not flushed, it
  spins forever.  `CreateEnds` is about the other case.
- After a stall, the ring buffer's `head` is what the label was then; and a
  label equal to the tail is taken for an empty ring although pieces may be
  queued whose last one ends there.  Pieces may overlap from then on.
- `unref_and_maybe_delete` destroys an object by its name, but `maybe_delete` has
  detached the name, and `destroy` ignores what is no name: the object stays
  (`gl_object.h:55`).  So does a program that is deleted while it is active.
- A fence may inherit the signal of a deleted one; name 128 is lost; the first
  `glFinish` may return at once; `glFenceSync` leaks an object when it fails.
- The three misuses of queries; `glQueryCounter` posts its timestamp before it
  asks for the report (`ResultIsOwn` allows for exactly that one command).
- Relinking the active program flags nothing (`relinked`, `dropped`).  Whether it
  has microcode for transform feedback is looked up by `glUseProgram` only.
- No timestamp covers the second pass of transform feedback, so that
  `glLinkProgram` may free its microcode.
- Parts of a texture replaced while the texture is invalid, or before another
  level is specified, are lost (`lapsed`).
- A framebuffer's attachment is a reference count.  The proof makes plain what is
  left of the feature: as long as nothing went astray only renderbuffer 1 is
  attached, and to one framebuffer at most (`AttachedHeld`).
- `glDeleteFramebuffers` of the bound one leaves the registers as they were.
- `glRenderbufferStorage` neither waits, as no renderbuffer is ever stamped, nor
  tells the framebuffers that their memory is gone.
- A draw to a framebuffer that is not complete goes where the draw before went.

Met and not modelled: a `GLsync` is the address of an object in a storage that
moves when it grows (`sync.cc:172`); `glGetBufferSubData` copies without a wait
(`buffer.cc:415`); an any-samples query across the end of the timestamps
(`query.cc:349`); running out of reports is an assertion and no error
(`query.cc:189`).

Stated nowhere, or by an assumption: `NameOf` wraps when all names of a
`name_type` are taken, and `GrownCap` wraps near the limit (the theorems assume
`NameBound` small enough and say so); stamps of programs, renderbuffers and
queries survive when timestamps start over (`Reset` is a constant for that:
`StampsNotAhead` is checked and proved with `Reset = Objects`, and fails with less); a draw under
`GL_RASTERIZER_DISCARD` takes timestamps without posting; the test for mapped
arrays intersects attributes with inputs (`MappedNotDrawn` is stated where the two
coincide).

## 4. The proofs

Checked by TLAPS for every value of the constants.

**`NameSpaceProofs`.**  The properties of `NameSpace` are not inductive one by
one: that a created name is not in use needs the queue to be the free list, and
that no name is lost needs the queue's capacity never to be exceeded and the last
word to be where clear slots are.  The invariant conjoins types, the queue as free
list, accounting of every slot, `Len(queue) <= queueCap` and, for a finite space,
`count = Cardinality(Live)`.  Assumption: `NameSpan` is large enough for
`NameBound`, i.e. arithmetic on names does not wrap (where it does,
`FreshNames` and `NoNameLost` fail).  `NameSpaceInRange` needs the finite-set
theorems: `MaxNames` names below `MaxNames` are all of them.

**`TimestampsProofs`.**  `EpochInv` is inductive until the timestamps start over:
label and queued commands count up to `last_timestamp` without a gap
(`SignalsInOrder`), and a queued command's objects bear stamps at least as late as
the command's (`StampsCoverUses`).  Then a label at or past an object's stamp
leaves no command queued that uses the object, which is `Exclusive`; the cached
value is harmless because it is at most the label.  From the invariant follow
`CachedIsPast` and, by a step-by-step mapping, the refinement `TakesTurns`.
`StampsStayBehind` goes on across any number of epochs: if all stamps are cleared,
none is ever ahead of the next timestamp.  `Programs` and `Textures` keep a counter
in place of a stamp: how many of the queued commands are still to be executed
before a wait is over.  `EpochCountsDown` shows that each step of `Timestamps`
changes the difference of stamp and label as those modules change their counters,
and `EpochCountIsExact` that a wait is over exactly when it is 0 and that it never
exceeds what is queued.

**`ProgramsProofs`.**  `ShadersHeld` and `ProgramFollows` are inductive by
themselves.  `UniformsFollow` needs that a value which is not in the microcode waits
to be sent even while another program is active (`PatchedOrAsked`).
`NothingFreed` needs that every covered command that runs the program is among
those its timestamp waits for (`TimestampCovers`), that another program never runs
its microcode (`OtherLoaded`) and that no draw loads what was freed (`LoadedExists`).

**`BufferSharingProofs`.**  First `VertexAttribs`.  `FollowsUnlessLapsed` is not
inductive: `glUseProgram` computes the flags of inputs anew and drops those that no
draw has consumed.  That is harmless where the attributes have flags of their own,
which `StableFollows` spells out for programs whose attributes are in the same
places in all programs.  From it follow `MappedNotDrawn` and `VertexAttribsDrawn`:
what a draw fetches is what the vertex array says, no matter how long ago the
registers were written.

Then the composition.  Every step of `BufferSharing` is one of `VertexAttribs` or
leaves its state alone (`BufferSharingRefines`), so that the theorems above hold
there, too.  Its own invariant is that of `Timestamps`, but the timestamps of queued
commands have gaps, because a draw that is discarded takes some and posts none:
they only ascend, and are never later than the stamps of the buffers that the
command was stamped on.  `StampedExclusive` follows.  What is not stamped is not
covered, and that is the violation of `MCBufferSharingFetched`.

**`TexturesProofs`.**  Five facts that need each other.  A draw validates every
texture it stamps, hence no queued draw uses a texture that has to be validated
again (`InvalidIdle`); `rsxgl_texture_validate` may therefore free memory without a
wait, hence nothing is torn under a queued draw.  That the draw does validate
them is because a unit with an invalid texture is flagged (`UnitsFlagged`).  A
texture's timestamp does not pass before the draws that sample it (`Covered`), the
place it is sampled from next has its latest images (`Latest`), and the registers
follow their units (`Follow`).

`RingBuffer`, for every size and alignment: the end of each queued piece becomes the
label and then `head`, so that all pieces have to be in bounds and aligned
(`PiecesInBounds`), and what `memalign` has worked out has to be good for any label
(`RequestInBounds`).  Until the first stall all pieces are below the tail
(`BelowTail`), hence `NoOverlapAtFirst`.

**`GLObjectsProofs`.**  For any targets, vertex arrays and attributes.  Bitfields,
counts and ownership of names need each other: a buffer is destroyed when its
count is 0 and it has been unbound as its bitfield says, so that only with exact
counts and bitfields nobody is left to hold it; and they stay exact because a name
that is held is not given out again.  The last is what `NameSpaceProofs` shows of
the name space underneath; its lemmas are used through an instance, as every step
is one of the `NameSpace` (`GLObjectsNames`).  Assumption: `NameBound <= NameSpan`,
no more names are in use than a `name_type` tells apart.  `GLObjectsOrphaned` is the
leak of section 3, for every instance: no object that was still held when it was
deleted is ever destroyed, though `gl_object.h:40-41` says that the last reference
does it.

`Queries`, for any number of queries, reports and queued commands.  What a result
is read from is decided by commands that may still be queued, those of a report's
earlier owners among them.  The stream is ordered by timestamps, and only
`glQueryCounter` has its report behind the timestamp (`InOrder`).  Of every query
that was not misused the invariant says that its reports have been written, or are
going to be, by its own calls (`Written`) and by nobody later (`NotAfter`), and that
the timestamp of a call is behind what the call writes (`Covered`).  Once the label has
reached the timestamp that a result waits for, `Written` leaves the report itself
(`WrittenByNow`), and `NotAfter` says that it is this one.  The same two facts, for
what is in front of a conditional rendering command, give `ConditionIsOwn`.  The
assertions hold because a bound query is active, of its target's type and has its
reports (`Proper`); this is what each of the three misuses breaks.

**`SyncObjectsProofs`.**  For any number of semaphores, fences and queued commands.
That two fences never share a semaphore rests on the theorems of `NameSpace` by
instance: a name given out is not in use and below `MaxNames`.  That a label which
shows the token means a signaled fence rests on the owner, and on there being at
most one queued signal for each label that was not inherited (`SignaledOnce`).  For
`glFinish` the values of the reference register in the stream ascend.  Assumptions:
`NameBound <= NameSpan`, and that the queue of released names grows to the number of
names without overflow (`QueueGrowthFits`), which the lemmas `SemaphoreQueueFits` and
`ReportQueueFits` show for the sizes that the library uses: 192 names in 8 bits and
2048 in 16.

**`FramebuffersProofs`.**  Two halves, for any FIFO bound.  For the display,
the queued commands follow a schedule of which buffer is the target at each
position (draws go to it, a flip shows it and is followed by a wait, the other one is the target next), and the GPU's state
says where in the schedule it is; `ShownNotDrawn` and `FramesShown` follow.  For the
targets, surfaces of complete framebuffers fit what is attached (`SurfacesFit`),
unflagged registers fit the bound framebuffer (`RegistersFit`), and what is attached
is constructed and counted while nothing is astray (`AttachedHeld`).

**Only model-checked.**  Liveness (`WaitEnds`, `CreateEnds`, `StallEnds`,
`FlushedGetsSignaled`), since fairness and ENABLED are beyond the prover.  Every
safety property of a passing run is a theorem.  No module uses recursive operators;
induction over data is not needed so far.

## 5. What is not modelled

Data whose values no property tells apart: vertex formats, sizes of buffers beyond
empty or not, constant attributes, pixel formats, the encoding of commands, error
codes, what the compiler makes of a shader.  The size of the FIFO and its
wrap-around (external, libgcm).  Orphans (`object_binding_type::orphan` has no
caller), `clear_user_bit` and the ring buffer's `reset` (no caller either).

Of textures: sampler objects and parameters, texture 0, cube maps and their faces,
textures attached to framebuffers.  Of framebuffers: depth and stencil, several color
attachments, blits, `glReadPixels`.  Of the display: several windows or contexts,
pbuffers, configurations.  Of programs: several programs that share shaders (they
are counted one by one, so that one program shows what matters), tables of names.
Of drawing: how iterations are split into batches.  Memory arenas are a table of
heaps around dlmalloc.

Most of the repository's lines are vendored: Mesa, dlmalloc, Boost and others under
`src/extsrc`.  They are no part of the program's own logic, and left aside; so are
samples and tests.

## 6. Plan

So far: names, timestamps, the objects that share them, what depends on both; then
programs, textures, framebuffers and the display.  Next modules:

1. `DrawBatches` (`draw.cc`): how iterations are split into batches, as functions
   against a reference definition.
2. Textures as attachments of framebuffers, which makes `Framebuffers` and
   `Textures` share memory.
3. Sampler objects; several windows.

Next theorems: the properties of the modules above as they come, and what of
`EpochInv` survives the moment at which the timestamps start over.
