------------------------------ MODULE MCClGemm ------------------------------
(* ClGemm on two pairs of matrices. *)
EXTENDS ClGemm

\* Elements that tell the places of a matrix apart.
MCInputs(n) == {[j \in 0..(n - 1) |-> j + 1], [j \in 0..(n - 1) |-> (3 * j + 2) % 7]}
=============================================================================
