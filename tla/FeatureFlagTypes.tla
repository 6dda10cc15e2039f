--------------------------- MODULE FeatureFlagTypes ---------------------------
(***************************************************************************)
(* Constants shared by the abstract (FeatureFlagSpec) and the detailed     *)
(* (FeatureFlags) model of addons/isl/src/featureFlags.ts.                 *)
(***************************************************************************)
EXTENDS Naturals

CONSTANTS
  Names,      \* flag names that exist on the server
  NullName,   \* the name `undefined`: a flag the open-source build lacks
  FlagValue,  \* FlagValue[k][n]: the server's answer for flag n of kind k
  MaxFetches  \* bound on the requests the client makes, and on the ids

FlagKinds == {"feature", "qe"}
AllNames == Names \cup {NullName}
BulkIds == 1..MaxFetches

ASSUME NullNameAssumption == NullName \notin Names
ASSUME FlagValueAssumption == FlagValue \in [FlagKinds -> [Names -> BOOLEAN]]
ASSUME MaxFetchesAssumption == MaxFetches \in Nat

(***************************************************************************)
(* The server's answer for every flag of a request: a bulk request is      *)
(* answered from the feature flags.                                        *)
(***************************************************************************)
ServerResult(kind, ns) ==
  [x \in ns |-> FlagValue[IF kind = "qe" THEN "qe" ELSE "feature"][x]]

=============================================================================
