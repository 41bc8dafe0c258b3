----------------------------- MODULE MCTeaching ------------------------------
(* Small instances of Teaching for TLC. *)
EXTENDS Teaching, TLC
CONSTANTS c1, c2, rule, fix

\* A rule, which contradicts itself when it is taught again, and a correction
\* about the same table.
MCLessons == {rule, fix}
MCClash == {<<rule, rule>>}
MCOverlap == MCLessons \X MCLessons

\* Clients differ in nothing, and no property is about liveness.
Symmetry == Permutations(Clients)
=============================================================================
