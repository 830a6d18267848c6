------------------------------ MODULE MCLogger ------------------------------
(* Instances of Logger for TLC.                                            *)
EXTENDS Logger, TLC

\* Calls differ only in what they are called for.
Symmetric == Permutations(Calls)
=============================================================================
