--------------------------- MODULE MCSessionLocks ---------------------------
(* SessionLocks with interchangeable refresh transactions; at most MaxBegun  *)
(* of the transactions begin.                                                *)
EXTENDS SessionLocks, TLC

CONSTANT MaxBegun

FewBegin == Cardinality({t \in Tx : pc[t] # "start"}) <= MaxBegun

Symmetry == Permutations(Refresh)

(* States that behave alike are one: no step reads `ended`, of which the run *)
(* asks only which families others than Factor ended, and no step reads the  *)
(* family of an id that is free before writing it.                           *)
StateView == <<row, [s \in Session |-> IF Free(s) THEN s ELSE fam[s]], pc, holds,
               locked, todo, kill, new, token, cutoff, covered, Ended(Tx \ Factor)>>
=============================================================================
