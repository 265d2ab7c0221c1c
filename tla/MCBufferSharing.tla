-------------------------- MODULE MCBufferSharing ---------------------------
(* One program that reads attribute 0 from input 0.                         *)
EXTENDS BufferSharing, TLC

MCEnabled == [p \in Programs |-> {0}]

MCAssignments == [p \in Programs |-> [i \in Attribs |-> i]]

(* No buffer is special.                                                    *)
Symmetry == Permutations(Buffers)

=============================================================================
