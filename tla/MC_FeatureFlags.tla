---------------------------- MODULE MC_FeatureFlags ----------------------------
(***************************************************************************)
(* Model-checking instance of FeatureFlags: two flag names whose values    *)
(* differ by name and by kind, so that a reply taken for the wrong request *)
(* shows up as a wrong value.                                              *)
(***************************************************************************)
EXTENDS FeatureFlags, TLC

CONSTANTS f1, f2, undef

MC_Names == {f1, f2}
MC_FlagValue == [k \in FlagKinds |-> [n \in MC_Names |-> (k = "feature") = (n = f1)]]
MC_MaxFetches == 3

=============================================================================
