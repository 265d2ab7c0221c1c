---------------------------- MODULE ObjectTurns -----------------------------
(***************************************************************************)
(* What RSXGL promises an application about the objects the GPU uses       *)
(* (STATUS: "if an application wants to write to an area of memory that    *)
(* the GPU is using, then the application will wait for the GPU to         *)
(* finish"), without timestamps: the GPU works off what it was told to do  *)
(* in order, and the CPU holds an object only while nothing that the GPU   *)
(* has yet to do uses it.                                                  *)
(***************************************************************************)
EXTENDS Integers, Sequences

CONSTANTS
  Objects,  \* the objects both work on
  MaxCount  \* bound of the model: the most commands of one call

VARIABLES
  pending,  \* for every command to be executed, oldest first, what it uses
  held      \* what the CPU has its hands on

vars == <<pending, held>>

Init == pending = << >> /\ held = {}

(* A call tells the GPU to use the objects of S in count commands.          *)
Submit(S, count) ==
  /\ held = {}
  /\ pending' = pending \o [i \in 1 .. count |-> S]
  /\ UNCHANGED held

Retire ==
  /\ pending # << >>
  /\ pending' = Tail(pending)
  /\ UNCHANGED held

Hold(o) ==
  /\ held = {}
  /\ \A i \in 1 .. Len(pending) : o \notin pending[i]
  /\ held' = {o}
  /\ UNCHANGED pending

Release ==
  /\ held # {}
  /\ held' = {}
  /\ UNCHANGED pending

Next ==
  \/ \E S \in SUBSET Objects, count \in 1 .. MaxCount : Submit(S, count)
  \/ Retire
  \/ \E o \in Objects : Hold(o)
  \/ Release

Spec == Init /\ [][Next]_vars

=============================================================================
