------------------------------ MODULE MCLogger ------------------------------
(***************************************************************************)
(* Model-checking instances of Logger: threads and items are model values. *)
(***************************************************************************)
EXTENDS Logger, TLC

Symmetric == Permutations(Thread) \cup Permutations(Item)
=============================================================================
