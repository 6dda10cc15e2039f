---------------------------- MODULE MC_SmartActions ----------------------------
(***************************************************************************)
(* Model-checking instances of SmartActions.                               *)
(*                                                                         *)
(* Gates: a1 has no flag, a2's flag f1 is on, a3's flag f2 is off, a4's   *)
(* flag key has no flag name; the menu flag is f1.  a1 shows only in      *)
(* context c1, the others in both.                                         *)
(*                                                                         *)
(* Stale: three ungated actions, a1 shown in c1, a2 in both, a3 in c2, so *)
(* that a context change replaces the selected action by another.         *)
(***************************************************************************)
EXTENDS SmartActions

CONSTANTS f1, f2, undef, a1, a2, a3, a4, c1, c2

MC_Names == {f1, f2}
MC_FlagValue == [k \in FlagKinds |-> [n \in MC_Names |-> n = f1]]
MC_MaxFetches == 2
MC_Contexts == {c1, c2}
MC_MaxUses == 1

MC_ActionOrder == <<a1, a2, a3, a4>>
MC_ShouldShow == (a1 :> {c1}) @@ [a \in {a2, a3, a4} |-> {c1, c2}]
MC_Gate == (a1 :> "none") @@ (a2 :> f1) @@ (a3 :> f2) @@ (a4 :> "unmapped")

Stale_ActionOrder == <<a1, a2, a3>>
Stale_ShouldShow == (a1 :> {c1}) @@ (a2 :> {c1, c2}) @@ (a3 :> {c2})
Stale_Gate == [a \in {a1, a2, a3} |-> "none"]

=============================================================================
