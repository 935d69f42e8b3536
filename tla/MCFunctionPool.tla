--------------------------- MODULE MCFunctionPool ---------------------------
(* The pool of one function, as TLC checks it. *)
EXTENDS FunctionPoolProperties, TLC

\* Requests differ only in the order in which they arrive. Used in the runs
\* that check no liveness property.
RequestSymmetry == Permutations(Request)
=============================================================================
