---------------------------- MODULE BufferSharing ----------------------------
(***************************************************************************)
(* Draws and buffer calls of one context: VertexAttribs, which tells what  *)
(* a draw fetches and which buffers it validates, together with            *)
(* Timestamps, which makes the CPU wait for the buffers a command was      *)
(* stamped on (draw.cc, buffer.cc), until the timestamps run out.          *)
(*                                                                         *)
(* rsxgl_attribs_validate stamps a buffer only when it writes a register   *)
(* that points to it; the commands of the draw fetch from it in any case.  *)
(***************************************************************************)
EXTENDS VertexAttribs, Sequences

CONSTANTS
  MaxTimestamp, MaxCount, FifoBound            \* as in Timestamps

ASSUME SharingAssumption ==
  /\ MaxTimestamp \in Nat
  /\ MaxCount \in Nat
  /\ FifoBound \in Nat

VARIABLES
  next_timestamp, last_timestamp, cached_timestamp, label, timestamp,
  fifo, put, call,  \* as in Timestamps
  fetches  \* for every command of fifo, the buffers it fetches vertices from

attribVars == vars  \* the variables of VertexAttribs
stampVars == <<next_timestamp, last_timestamp, cached_timestamp, label,
               timestamp, fifo, put, call>>
sharingVars == <<attribVars, stampVars, fetches>>

TS == INSTANCE Timestamps WITH
  Objects <- Buffers, Reset <- Buffers, epoch <- "first"

SharingInit == Init /\ TS!Init /\ fetches = << >>

(* What the registers make a draw of the active program fetch from.         *)
Fetched(regs) == {regs[i] : i \in {j \in Inputs : IsFetched(j)}} \cap Buffers

(* A draw of count primitives that stamps and uses the buffers of S.        *)
DrawWith(S, count) ==
  /\ Draw
  /\ TS!Use(S, count)
  /\ fetches' = fetches \o [k \in 1 .. count |-> Fetched(vtxbuf')]

DrawArrays(count) == DrawWith(Validated, count)

(* glDrawElements with b for index buffer, which every draw validates.      *)
DrawElements(b, count) ==
  /\ b \in memory
  /\ DrawWith(Validated \cup {b}, count)

(* A draw while GL_RASTERIZER_DISCARD is enabled: it takes its timestamps   *)
(* and stamps, but neither draws nor posts.                                 *)
DrawDiscarded(count) ==
  /\ call.op = "none"
  /\ ~TS!Overflows(count)
  /\ Draw
  /\ next_timestamp' = next_timestamp + count
  /\ timestamp' = TS!Stamped(timestamp, Validated, next_timestamp + count - 1)
  /\ UNCHANGED <<last_timestamp, cached_timestamp, label, fifo, put, call, fetches>>

(* glCopyBufferSubData from r to w.                                         *)
CopyBufferSubData(r, w) ==
  /\ {r, w} \subseteq memory
  /\ TS!Use({r, w}, 1)
  /\ fetches' = Append(fetches, {})
  /\ UNCHANGED attribVars

(* Mutation: does not wait, as glGetBufferSubData does not.                 *)
StartAccessAtOnce(b) ==
  /\ b \notin mapped
  /\ call.op = "none"
  /\ call' = [op |-> "access", uses |-> {b}, count |-> 0]
  /\ UNCHANGED <<next_timestamp, last_timestamp, cached_timestamp, label,
                 timestamp, fifo, put, attribVars, fetches>>

(* glBufferData, glBufferSubData, glMapBuffer: refuse a mapped buffer, wait *)
(* for b if it is stamped; then do their work, while call.op is "access".   *)
StartAccess(b) ==
  /\ b \notin mapped
  /\ TS!Wait(b) \/ TS!AccessAtOnce(b)
  /\ UNCHANGED <<attribVars, fetches>>

WaitOver(b) == TS!WaitOver(b) /\ UNCHANGED <<attribVars, fetches>>

(* glBufferSubData has copied its data.                                     *)
SubDataDone == TS!AccessDone /\ UNCHANGED <<attribVars, fetches>>

(* glBufferData or glMapBuffer return.                                      *)
AccessDone(b) ==
  /\ b \in call.uses
  /\ TS!AccessDone
  /\ \/ \E size \in 0 .. 1 : BufferData(b, size)
     \/ BufferDataFails(b)
     \/ MapBuffer(b)
  /\ UNCHANGED fetches

(* The calls that neither use the GPU nor the memory of a buffer.           *)
StateCall ==
  /\ call.op = "none"
  /\ \/ \E b \in Buffers : UnmapBuffer(b)
     \/ \E a \in VertexArrays : BindVertexArray(a)
     \/ \E i \in Attribs, on \in BOOLEAN : EnableAttrib(i, on)
     \/ \E i \in Attribs, b \in Buffers \cup {NoBuffer} : AttribPointer(i, b)
     \/ \E p \in Programs \cup {NoProgram} : UseProgram(p)
  /\ UNCHANGED <<stampVars, fetches>>

Flush == TS!Flush /\ UNCHANGED <<attribVars, fetches>>

Execute ==
  /\ TS!Execute
  /\ fetches' = Tail(fetches)
  /\ UNCHANGED attribVars

SharingNext ==
  \/ \E count \in 1 .. MaxCount :
       \/ DrawArrays(count)
       \/ DrawDiscarded(count)
       \/ \E b \in Buffers : DrawElements(b, count)
  \/ \E r, w \in Buffers : CopyBufferSubData(r, w)
  \/ \E b \in Buffers : StartAccess(b) \/ WaitOver(b) \/ AccessDone(b)
  \/ SubDataDone
  \/ StateCall
  \/ Flush
  \/ Execute

SharingSpec == SharingInit /\ [][SharingNext]_sharingVars

-----------------------------------------------------------------------------

SharingTypeOK ==
  /\ TypeOK
  /\ TS!TypeOK
  /\ fetches \in Seq(SUBSET Buffers)
  /\ Len(fetches) = Len(fifo)

(* While the CPU is at a buffer's memory, no command that was stamped on    *)
(* the buffer is left to be executed: index buffers, copied buffers, and    *)
(* vertex buffers in the draw that validated them.                          *)
StampedExclusive == SharingTypeOK /\ TS!Exclusive

(* STATUS:82: "if an application wants to write to an area of memory that   *)
(* the GPU is using, then the application will wait for the GPU to finish". *)
(* That takes in the draws that fetch from a buffer without validating it.  *)
FetchedExclusive ==
  \A b \in Buffers :
    call.op = "access" /\ b \in call.uses =>
      \A k \in 1 .. Len(fetches) : b \notin fetches[k]

=============================================================================
