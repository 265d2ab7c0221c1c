-------------------------- MODULE MCVertexAttribs ---------------------------
(* Programs over two attributes: both reads attributes 0 and 1 from the     *)
(* inputs of the same number, swapped from each other's; single reads       *)
(* attribute 0 only, shifted attribute 1 only, both from input 0.           *)
EXTENDS VertexAttribs

CONSTANTS both, swapped, single, shifted

MCEnabled == [p \in Programs |-> IF p \in {single, shifted} THEN {0} ELSE {0, 1}]

(* An input that a program does not read has the value the array began with.*)
MCAssignments ==
  [p \in Programs |->
     IF p = both THEN [i \in Attribs |-> i]
     ELSE IF p \in {swapped, shifted} THEN [i \in Attribs |-> 1 - i]
     ELSE [i \in Attribs |-> 0]]

=============================================================================
