------------------------------ MODULE MC_HashSet ------------------------------
(***************************************************************************)
(* Model-checking instance of HashSet: three hashes, of which "ab" and     *)
(* "ba" are two characters long and "b" one, so that a string split into   *)
(* its characters yields strings that are not hashes ("a") as well as one  *)
(* that is ("b"); two caller variables; arguments of up to two items.      *)
(***************************************************************************)
EXTENDS HashSet, TLC

CONSTANTS r1, r2

MC_Hash == {<<97, 98>>, <<98, 97>>, <<98>>}
MC_Reg == {r1, r2}
MC_MaxIter == 2

(***************************************************************************)
(* Every call returns the set the order contracts of HashSetSpec name for *)
(* the receiver and the argument it was given: fromHashes, union,          *)
(* intersect, subtract and reverse, composed in any order, agree with the  *)
(* doc comments of set.ts.                                                 *)
(***************************************************************************)
Contract == INSTANCE HashSetSpec

ImplementsContract == Contract!Spec

\* The variables are interchangeable.
MC_Symmetry == Permutations(MC_Reg)

=============================================================================
