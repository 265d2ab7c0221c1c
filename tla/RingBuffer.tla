----------------------------- MODULE RingBuffer ------------------------------
(***************************************************************************)
(* The ring buffer through which client-side index arrays reach the GPU    *)
(* (ringbuffer_migrate.cc, as draw.cc uses it).  memalign hands out the    *)
(* memory after the tail; the indices are copied there and drawn; free     *)
(* then puts a command behind the draw that makes the GPU write the end of *)
(* the memory to a label, from which memalign learns how far the GPU is.   *)
(***************************************************************************)
EXTENDS Integers, Sequences

CONSTANTS
  Size,       \* rsxgl_vertex_migrate_size
  Align,      \* the alignment the caller asks for
  PiecesBound   \* bound of the model: the most pieces not yet drawn

ASSUME RingBufferAssumption ==
  /\ Size \in Nat \ {0}
  /\ Align \in Nat \ {0}
  /\ PiecesBound \in Nat

VARIABLES
  head,    \* what memalign last took from the label
  tail,    \* where the next piece may begin
  label,   \* rsxgl_vertex_migrate_sync: the end of the last piece drawn
  pieces,  \* what was freed and is not drawn yet, oldest first
  put,     \* how many of them the GPU may fetch
  call,    \* none; stall: spinning in memalign; fill: between memalign and free
  request, \* of a stall: what memalign has worked out
  piece,   \* of a fill: the memory handed out
  wrapped  \* not in the code: memalign has handed out offset 0 again

ring == <<head, tail>>
gpu == <<label, pieces, put>>
ringVars == <<ring, gpu, call, request, piece, wrapped>>

Piece == [first : Nat, end : Nat]

NoPiece == [first |-> 0, end |-> 0]

(* Mutation: rounds down.                                                   *)
AlignedDown(t) == t - (t % Align)

(* The first aligned offset from t on.                                      *)
AlignedUp(t) == IF t % Align = 0 THEN t ELSE t + Align - (t % Align)

(* Mutation: forgets the alignment when it looks at the end of the buffer.  *)
RequestUnaligned(size) ==
  LET offset == AlignedUp(tail)
      new_tail == offset + size
  IN  [size |-> size,
       offset |-> offset,
       new_tail |-> new_tail,
       wrap |-> tail + size > Size,
       bump |-> offset < head /\ new_tail > head]

(* What memalign works out from the size it is asked for.                   *)
Request(size) ==
  LET offset == AlignedUp(tail)
      new_tail == offset + size
  IN  [size |-> size,
       offset |-> offset,
       new_tail |-> new_tail,
       wrap |-> new_tail > Size,
       bump |-> offset < head /\ new_tail > head]

NoRequest == [size |-> 0, offset |-> 0, new_tail |-> 0, wrap |-> FALSE, bump |-> FALSE]

-----------------------------------------------------------------------------

RingInit ==
  /\ head = 0
  /\ tail = 0
  /\ label = 0
  /\ pieces = << >>
  /\ put = 0
  /\ call = "none"
  /\ request = NoRequest
  /\ piece = NoPiece
  /\ wrapped = FALSE

HandOut(first, size) ==
  /\ piece' = [first |-> first, end |-> first + size]
  /\ call' = "fill"

(* rsxgl_ringbuffer_migrate_memalign when there is room after the tail.     *)
Memalign(size) ==
  LET r == Request(size) IN
  /\ call = "none"
  /\ Len(pieces) < PiecesBound
  /\ ~(r.wrap \/ r.bump)
  /\ tail' = r.new_tail
  /\ HandOut(r.offset, size)
  /\ UNCHANGED <<head, gpu, request, wrapped>>

(* ... and when there is not: it spins, without a flush.                    *)
MemalignStalls(size) ==
  LET r == Request(size) IN
  /\ call = "none"
  /\ Len(pieces) < PiecesBound
  /\ r.wrap \/ r.bump
  /\ request' = r
  /\ call' = "stall"
  /\ UNCHANGED <<ring, gpu, piece, wrapped>>

(* Mutation: spins until the label is past what it needs.                   *)
KeepsSpinningAtEnd(r) ==
  IF r.wrap THEN label <= r.size ELSE label <= r.new_tail /\ label # tail

(* The condition of the spin.                                               *)
KeepsSpinning(r) ==
  IF r.wrap THEN label < r.size ELSE label < r.new_tail /\ label # tail

StallOver ==
  /\ call = "stall"
  /\ ~KeepsSpinning(request)
  /\ IF label = tail
     THEN /\ head' = 0
          /\ tail' = request.size
          /\ HandOut(0, request.size)
     ELSE /\ head' = label
          /\ tail' = IF request.bump THEN request.new_tail ELSE request.size
          /\ HandOut(IF request.wrap THEN 0 ELSE request.offset, request.size)
  /\ wrapped' = TRUE
  /\ request' = NoRequest
  /\ UNCHANGED gpu

(* rsxgl_ringbuffer_migrate_free, after the draw.                           *)
Free ==
  /\ call = "fill"
  /\ pieces' = Append(pieces, piece)
  /\ piece' = NoPiece
  /\ call' = "none"
  /\ UNCHANGED <<ring, label, put, request, wrapped>>

(* A flush by another call.                                                 *)
Flush ==
  /\ call = "none"
  /\ put' = Len(pieces)
  /\ UNCHANGED <<ring, label, pieces, call, request, piece, wrapped>>

(* The GPU draws the oldest piece and writes its end to the label.          *)
DrawPiece ==
  /\ put > 0
  /\ label' = Head(pieces).end
  /\ pieces' = Tail(pieces)
  /\ put' = put - 1
  /\ UNCHANGED <<ring, call, request, piece, wrapped>>

RingNext ==
  \/ \E size \in 1 .. Size : Memalign(size) \/ MemalignStalls(size)
  \/ StallOver
  \/ Free
  \/ Flush
  \/ DrawPiece

RingSpec == RingInit /\ [][RingNext]_ringVars

Fairness == WF_ringVars(DrawPiece) /\ WF_ringVars(StallOver)

RingFairSpec == RingSpec /\ Fairness

-----------------------------------------------------------------------------

RingTypeOK ==
  /\ head \in 0 .. Size
  /\ tail \in Nat
  /\ label \in 0 .. Size
  /\ pieces \in Seq(Piece)
  /\ put \in 0 .. Len(pieces)
  /\ call \in {"none", "stall", "fill"}
  /\ piece \in Piece
  /\ wrapped \in BOOLEAN

(* Whatever the tail, the head and the label are, the memory handed out     *)
(* lies within the buffer and is aligned.                                   *)
InBounds ==
  /\ RingTypeOK
  /\ call = "fill" => /\ piece.end <= Size
                      /\ piece.first % Align = 0
                      /\ piece.first < piece.end

Overlap(p, q) == p.first < q.end /\ q.first < p.end

(* The memory handed out is not memory that the GPU has yet to draw from,   *)
(* until memalign first had to stall: only then does it depend on how head, *)
(* tail and label are compared, and it is not so after a wrap.              *)
NoOverlapAtFirst ==
  ~wrapped /\ call = "fill" =>
    \A k \in 1 .. Len(pieces) : ~Overlap(piece, pieces[k])

(* A stall ends if the commands were flushed and the last piece handed out  *)
(* ends far enough for the label to reach what the spin is looking for.     *)
StallEnds ==
  (call = "stall" /\ put = Len(pieces) /\ pieces # << >>
     /\ (request.wrap => request.size <= pieces[Len(pieces)].end)
     /\ tail = pieces[Len(pieces)].end)
  ~> call = "fill"

=============================================================================
