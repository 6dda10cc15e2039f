----------------------------- MODULE FeatureFlags -----------------------------
(***************************************************************************)
(* The feature-flag client of addons/isl/src/featureFlags.ts, the message  *)
(* channel to the server (serverAPI), and the server's answers.            *)
(*                                                                         *)
(*   cache[k][n]  the weak atom family featureFlagAsync (k = "feature") or *)
(*                qeFlagAsync (k = "qe"): no atom, an atom holding the     *)
(*                resolved `false` of the open-source branch, or an atom   *)
(*                holding the promise of fetch number fid;                 *)
(*   fetches[i]   the i-th fetchFeatureFlag / fetchQeFlag /                *)
(*                bulkFetchFeatureFlags call: what it asked for, whether   *)
(*                it still awaits nextMessageMatching, what it returned;   *)
(*   toServer     posted requests the server has not handled yet;          *)
(*   fromServer   the server's replies the client has not handled yet.     *)
(*                                                                         *)
(* Both directions are sets: the server handles requests asynchronously,   *)
(* so replies can come in any order.  serverAPI's socket is outside src   *)
(* and is taken to deliver every message.                                  *)
(***************************************************************************)
EXTENDS FeatureFlagTypes, Sequences

VARIABLES cache, fetches, toServer, fromServer

vars == <<cache, fetches, toServer, fromServer>>

FetchKinds == FlagKinds \cup {"bulk"}
Results == UNION {[S -> BOOLEAN] : S \in SUBSET Names}
Entry == [st : {"none", "oss", "fetch"}, fid : 0..MaxFetches]
Fetch == [kind : FetchKinds, names : SUBSET Names, waiting : BOOLEAN,
          result : Results]
Msg == [kind : FetchKinds, names : SUBSET Names, id : 0..MaxFetches,
        result : Results]

NoAtom == [st |-> "none", fid |-> 0]

(***************************************************************************)
(* postMessage of {type: 'fetchFeatureFlag' | 'fetchQeFlag', name} or of   *)
(* {type: 'bulkFetchFeatureFlags', names, id}: the random id of a bulk     *)
(* request is modelled by the fetch's own number, which no other fetch has.*)
(***************************************************************************)
Request(kind, ns, i) ==
  [kind |-> kind, names |-> ns, id |-> IF kind = "bulk" THEN i ELSE 0,
   result |-> <<>>]

(* Mutant: a single-flag reply matched by its type alone. *)
MatchesNoName(f, i, m) ==
  /\ f.kind = m.kind
  /\ f.kind = "bulk" => m.id = i

(***************************************************************************)
(* The predicate given to nextMessageMatching: the reply's type, then its  *)
(* name (single flags) or its id (bulk).                                   *)
(***************************************************************************)
Matches(f, i, m) ==
  /\ f.kind = m.kind
  /\ IF f.kind = "bulk" THEN m.id = i ELSE m.names = f.names

(* Mutant: the request is never posted. *)
StartFetchNoPost(kind, ns) ==
  /\ Len(fetches) < MaxFetches
  /\ fetches' = Append(fetches, [kind |-> kind, names |-> ns,
                                 waiting |-> TRUE, result |-> <<>>])
  /\ UNCHANGED toServer

(***************************************************************************)
(* A fetch function's body up to its await: post the request and start    *)
(* waiting for the matching reply.                                        *)
(***************************************************************************)
StartFetch(kind, ns) ==
  LET i == Len(fetches) + 1
  IN  /\ Len(fetches) < MaxFetches
      /\ fetches' = Append(fetches, [kind |-> kind, names |-> ns,
                                     waiting |-> TRUE, result |-> <<>>])
      /\ toServer' = toServer \cup {Request(kind, ns, i)}

(* Mutant: the family creates an atom even when one exists. *)
ReadFlagNoCache(k, n) ==
  /\ \/ /\ n = NullName
        /\ cache' = [cache EXCEPT ![k][n] = [st |-> "oss", fid |-> 0]]
        /\ UNCHANGED <<fetches, toServer>>
     \/ /\ n # NullName
        /\ StartFetch(k, {n})
        /\ cache' = [cache EXCEPT ![k][n] = [st |-> "fetch", fid |-> Len(fetches) + 1]]
  /\ UNCHANGED fromServer

(***************************************************************************)
(* A read of featureFlagAsync(n) or qeFlagAsync(n) (by useFeatureFlagSync, *)
(* getFeatureFlag, getQeFlag or any component) that finds no atom: the    *)
(* family creates one.  For the name `undefined` it holds Promise.resolve *)
(* (false); otherwise it holds the promise of a new fetch.                *)
(***************************************************************************)
ReadFlag(k, n) ==
  /\ cache[k][n] = NoAtom
  /\ \/ /\ n = NullName
        /\ cache' = [cache EXCEPT ![k][n] = [st |-> "oss", fid |-> 0]]
        /\ UNCHANGED <<fetches, toServer>>
     \/ /\ n # NullName
        /\ StartFetch(k, {n})
        /\ cache' = [cache EXCEPT ![k][n] = [st |-> "fetch", fid |-> Len(fetches) + 1]]
  /\ UNCHANGED fromServer

(***************************************************************************)
(* bulkFetchFeatureFlags(names): no atom caches it.                        *)
(***************************************************************************)
BulkFetch(ns) ==
  /\ StartFetch("bulk", ns)
  /\ UNCHANGED <<cache, fromServer>>

(***************************************************************************)
(* atomFamilyWeak forgets an atom no component holds any more.  A fetch   *)
(* it started still waits for its reply.                                   *)
(***************************************************************************)
Evict(k, n) ==
  /\ cache[k][n] # NoAtom
  /\ cache' = [cache EXCEPT ![k][n] = NoAtom]
  /\ UNCHANGED <<fetches, toServer, fromServer>>

(***************************************************************************)
(* The server handles a request and replies with the value of every flag  *)
(* it names (type fetchedFeatureFlag, fetchedQeFlag or                    *)
(* bulkFetchedFeatureFlags; the same name or id).                          *)
(***************************************************************************)
ServerAnswer(m) ==
  /\ toServer' = toServer \ {m}
  /\ fromServer' = fromServer \cup {[m EXCEPT !.result = ServerResult(m.kind, m.names)]}
  /\ UNCHANGED <<cache, fetches>>

(* Mutant: the fetch returns the whole response, not its result. *)
DeliverWholeResponse(m) ==
  /\ fromServer' = fromServer \ {m}
  /\ fetches' = [i \in DOMAIN fetches |->
                   IF fetches[i].waiting /\ Matches(fetches[i], i, m)
                   THEN [fetches[i] EXCEPT !.waiting = FALSE, !.result = m]
                   ELSE fetches[i]]
  /\ UNCHANGED <<cache, toServer>>

(***************************************************************************)
(* serverAPI dispatches a reply to every listener registered by           *)
(* nextMessageMatching whose predicate accepts it; each such fetch        *)
(* returns response.passes (response.result for bulk).  A reply nobody    *)
(* waits for is dropped.                                                   *)
(***************************************************************************)
Deliver(m) ==
  /\ fromServer' = fromServer \ {m}
  /\ fetches' = [i \in DOMAIN fetches |->
                   IF fetches[i].waiting /\ Matches(fetches[i], i, m)
                   THEN [fetches[i] EXCEPT !.waiting = FALSE, !.result = m.result]
                   ELSE fetches[i]]
  /\ UNCHANGED <<cache, toServer>>

Init ==
  /\ cache = [k \in FlagKinds |-> [n \in AllNames |-> NoAtom]]
  /\ fetches = <<>>
  /\ toServer = {}
  /\ fromServer = {}

ServerStep == \E m \in toServer : ServerAnswer(m)
ClientStep == \E m \in fromServer : Deliver(m)

Next ==
  \/ \E k \in FlagKinds, n \in AllNames : ReadFlag(k, n) \/ Evict(k, n)
  \/ \E ns \in (SUBSET Names) \ {{}} : BulkFetch(ns)
  \/ ServerStep
  \/ ClientStep

(***************************************************************************)
(* The server handles every request it receives and the client's message  *)
(* handler runs for every message that arrives; the user's reads and the  *)
(* garbage collector are under no obligation.                              *)
(***************************************************************************)
Spec == Init /\ [][Next]_vars /\ WF_vars(ServerStep) /\ WF_vars(ClientStep)

(***************************************************************************)
(* useFeatureFlagSync(n): the flag's value once its atom has data, else    *)
(* false.                                                                  *)
(***************************************************************************)
UseFeatureFlagSync(n) ==
  LET e == cache["feature"][n]
  IN  e.st = "fetch" /\ ~fetches[e.fid].waiting /\ fetches[e.fid].result[n]

(***************************************************************************)
(* What the loadable of an atom shows, for the refinement of              *)
(* FeatureFlagSpec.                                                        *)
(***************************************************************************)
LoadableOf(k, n) ==
  LET e == cache[k][n]
  IN  IF e.st = "none" THEN [state |-> "absent", data |-> FALSE]
      ELSE IF e.st = "oss" THEN [state |-> "hasData", data |-> FALSE]
      ELSE IF fetches[e.fid].waiting THEN [state |-> "loading", data |-> FALSE]
      ELSE [state |-> "hasData", data |-> fetches[e.fid].result[n]]

(***************************************************************************)
(* The refinement mapping: the loadable every atom shows, and the bulk     *)
(* fetches by their number, with the channel hidden.                       *)
(***************************************************************************)
loadableBar == [k \in FlagKinds |-> [n \in AllNames |-> LoadableOf(k, n)]]

BulkNumbers == {j \in DOMAIN fetches : fetches[j].kind = "bulk"}

bulkBar == [i \in BulkNumbers |->
              [names |-> fetches[i].names, waiting |-> fetches[i].waiting,
               result |-> fetches[i].result]]

Abstract == INSTANCE FeatureFlagSpec WITH loadable <- loadableBar, bulk <- bulkBar

(***************************************************************************)
(* Every step of the client, the channel and the server is a step of the  *)
(* flag cache's promise or leaves it unchanged, and a loading flag or a   *)
(* bulk request is answered under the fairness of Spec.                    *)
(***************************************************************************)
ImplementsFeatureFlagSpec == Abstract!FairSpec

(***************************************************************************)
(* The safety part of ImplementsFeatureFlagSpec: every step of the       *)
(* client, the channel and the server is a step of the flag cache's       *)
(* promise or leaves it unchanged, so no atom ever shows a wrong value or *)
(* a state the promise does not allow.                                     *)
(***************************************************************************)
ImplementsFeatureFlagSafety == Abstract!Spec

TypeOK ==
  /\ cache \in [FlagKinds -> [AllNames -> Entry]]
  /\ fetches \in Seq(Fetch)
  /\ Len(fetches) <= MaxFetches
  /\ toServer \subseteq Msg
  /\ fromServer \subseteq Msg

(***************************************************************************)
(* Every fetch that has returned returned the server's value of each flag *)
(* it asked for, of its own kind: replies to concurrent requests for other *)
(* names, of the other kind, or for other bulk ids are never taken for its *)
(* own (the predicates of nextMessageMatching, featureFlags.ts 67-70,     *)
(* 82-85, 98-101).                                                         *)
(***************************************************************************)
AnswerMatchesRequest ==
  \A i \in DOMAIN fetches :
    ~fetches[i].waiting => fetches[i].result = ServerResult(fetches[i].kind, fetches[i].names)

(***************************************************************************)
(* Every fetch the client starts eventually returns, though its atom may  *)
(* have been forgotten meanwhile (the await of featureFlags.ts 67, 82, 98 *)
(* has no timeout, so this rests on the channel delivering).              *)
(***************************************************************************)
EveryFetchReturns ==
  \A i \in 1..MaxFetches :
    (i \in DOMAIN fetches /\ fetches[i].waiting) ~> (i \in DOMAIN fetches /\ ~fetches[i].waiting)

=============================================================================
