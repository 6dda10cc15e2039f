--------------------------- MODULE FeatureFlagSpec ---------------------------
(***************************************************************************)
(* What the feature-flag client (addons/isl/src/featureFlags.ts) promises  *)
(* its readers, without the channel to the server.                        *)
(*                                                                         *)
(*   loadable[k][n]  what loadable(featureFlagAsync(n)) (k = "feature") or  *)
(*                   the qeFlagAsync atom (k = "qe") shows: absent (no    *)
(*                   atom), loading, or hasData with the flag's value;     *)
(*   bulk[id]        each bulkFetchFeatureFlags call, by its random id.    *)
(*                                                                         *)
(* A loading flag settles to the server's value for that flag; an atom may *)
(* be forgotten (the weak atom family) and created again.                  *)
(***************************************************************************)
EXTENDS FeatureFlagTypes

VARIABLES loadable, bulk

specVars == <<loadable, bulk>>

Absent == [state |-> "absent", data |-> FALSE]
Loading == [state |-> "loading", data |-> FALSE]
HasData(v) == [state |-> "hasData", data |-> v]

Load(k, n) ==
  /\ loadable[k][n] = Absent
  /\ loadable' = [loadable EXCEPT ![k][n] =
                    IF n = NullName THEN HasData(FALSE) ELSE Loading]
  /\ UNCHANGED bulk

Settle(k, n) ==
  /\ loadable[k][n] = Loading
  /\ loadable' = [loadable EXCEPT ![k][n] = HasData(ServerResult(k, {n})[n])]
  /\ UNCHANGED bulk

Forget(k, n) ==
  /\ loadable[k][n] # Absent
  /\ loadable' = [loadable EXCEPT ![k][n] = Absent]
  /\ UNCHANGED bulk

BulkStart(id, ns) ==
  /\ id \notin DOMAIN bulk
  /\ bulk' = [i \in DOMAIN bulk \cup {id} |->
               IF i = id THEN [names |-> ns, waiting |-> TRUE, result |-> <<>>]
               ELSE bulk[i]]
  /\ UNCHANGED loadable

BulkSettle(id) ==
  /\ id \in DOMAIN bulk
  /\ bulk[id].waiting
  /\ bulk' = [bulk EXCEPT ![id] = [names |-> bulk[id].names, waiting |-> FALSE,
                                   result |-> ServerResult("bulk", bulk[id].names)]]
  /\ UNCHANGED loadable

Init ==
  /\ loadable = [k \in FlagKinds |-> [n \in AllNames |-> Absent]]
  /\ bulk = <<>>

Next ==
  \/ \E k \in FlagKinds, n \in AllNames : Load(k, n) \/ Settle(k, n) \/ Forget(k, n)
  \/ \E id \in BulkIds, ns \in (SUBSET Names) \ {{}} : BulkStart(id, ns)
  \/ \E id \in BulkIds : BulkSettle(id)

Spec == Init /\ [][Next]_specVars

(***************************************************************************)
(* Every flag that is loading, and every bulk request, is answered.        *)
(***************************************************************************)
FairSpec ==
  /\ Spec
  /\ \A k \in FlagKinds, n \in AllNames : WF_specVars(Settle(k, n))
  /\ \A id \in BulkIds : WF_specVars(BulkSettle(id))

=============================================================================
