--------------------------- MODULE FeatureFlagsProofs ---------------------------
(***************************************************************************)
(* Proofs about the feature-flag client, for every set of flag names,     *)
(* every server configuration and every bound on the fetches, over a      *)
(* channel that reorders messages.                                         *)
(***************************************************************************)
EXTENDS FeatureFlags, TLAPS

(***************************************************************************)
(* The inductive invariant.  AnswerMatchesRequest alone is not inductive: *)
(* a delivered reply becomes a fetch's result, so every reply in flight   *)
(* must carry the server's values for the names it lists; and a bulk      *)
(* reply is matched by id alone, so the id of every bulk message in       *)
(* flight must be the number of a bulk fetch asking for the same names.   *)
(***************************************************************************)
RepliesCorrect ==
  \A m \in fromServer : m.result = ServerResult(m.kind, m.names)

BulkIdsKnown ==
  \A m \in toServer \cup fromServer :
    m.kind = "bulk" =>
      /\ m.id \in 1..Len(fetches)
      /\ fetches[m.id].kind = "bulk"
      /\ fetches[m.id].names = m.names

Inv ==
  /\ TypeOK
  /\ AnswerMatchesRequest
  /\ RepliesCorrect
  /\ BulkIdsKnown

-----------------------------------------------------------------------------

\* The server's answer to a request has the type of a result.
LEMMA ServerResultType ==
  ASSUME NEW k, NEW ns \in SUBSET Names
  PROVE  ServerResult(k, ns) \in Results
<1>1. ServerResult(k, ns) \in [ns -> BOOLEAN]
  BY FlagValueAssumption DEF ServerResult, FlagKinds
<1>2. QED
  BY <1>1 DEF Results

LEMMA InitInv == Init => Inv
BY MaxFetchesAssumption
DEF Init, Inv, TypeOK, AnswerMatchesRequest, RepliesCorrect, BulkIdsKnown,
    Entry, NoAtom, FlagKinds, AllNames

\* Starting a fetch keeps the invariant's conditions on fetches and messages.
LEMMA StartFetchInv ==
  ASSUME Inv, NEW kind \in FetchKinds, NEW ns \in SUBSET Names,
         StartFetch(kind, ns), UNCHANGED fromServer
  PROVE  /\ fetches' \in Seq(Fetch)
         /\ Len(fetches') <= MaxFetches
         /\ Len(fetches') = Len(fetches) + 1
         /\ toServer' \subseteq Msg
         /\ AnswerMatchesRequest'
         /\ RepliesCorrect'
         /\ BulkIdsKnown'
<1> DEFINE f == [kind |-> kind, names |-> ns, waiting |-> TRUE, result |-> <<>>]
<1>1. f \in Fetch
  <2>1. <<>> \in Results
    <3>1. <<>> \in [{} -> BOOLEAN]
      OBVIOUS
    <3>2. {} \in SUBSET Names
      OBVIOUS
    <3>3. QED
      BY <3>1, <3>2 DEF Results
  <2>2. QED
    BY <2>1 DEF Fetch
<1>2. fetches' = Append(fetches, f) /\ Len(fetches) < MaxFetches
  BY DEF StartFetch
<1>3. /\ fetches' \in Seq(Fetch)
      /\ Len(fetches') <= MaxFetches
      /\ Len(fetches') = Len(fetches) + 1
      /\ \A j \in 1..Len(fetches) : fetches'[j] = fetches[j]
      /\ fetches'[Len(fetches) + 1] = f
  BY <1>1, <1>2, MaxFetchesAssumption DEF Inv, TypeOK
<1>4. Request(kind, ns, Len(fetches) + 1) \in Msg
  <2>1. <<>> \in Results
    <3>1. <<>> \in [{} -> BOOLEAN]
      OBVIOUS
    <3>2. QED
      BY <3>1 DEF Results
  <2>2. QED
    BY <2>1, MaxFetchesAssumption, <1>2, <1>3 DEF Request, Msg, Inv, TypeOK
<1>5. toServer' = toServer \cup {Request(kind, ns, Len(fetches) + 1)}
  BY DEF StartFetch
<1>6. toServer' \subseteq Msg
  BY <1>4, <1>5 DEF Inv, TypeOK
<1>7. AnswerMatchesRequest'
  BY <1>3 DEF Inv, TypeOK, AnswerMatchesRequest
<1>8. RepliesCorrect'
  BY DEF Inv, RepliesCorrect
<1>9. BulkIdsKnown'
  BY <1>3, <1>5 DEF Inv, TypeOK, BulkIdsKnown, Request
<1>10. QED
  BY <1>3, <1>6, <1>7, <1>8, <1>9

\* A read that creates an atom keeps the invariant.
LEMMA ReadFlagInv ==
  ASSUME Inv, NEW k \in FlagKinds, NEW n \in AllNames, ReadFlag(k, n)
  PROVE  Inv'
<1>1. CASE n = NullName
  <2>1. UNCHANGED <<fetches, toServer, fromServer>>
    BY <1>1, NullNameAssumption DEF ReadFlag, AllNames
  <2>2. cache' = [cache EXCEPT ![k][n] = [st |-> "oss", fid |-> 0]]
    BY <1>1, NullNameAssumption DEF ReadFlag, AllNames
  <2>3. cache' \in [FlagKinds -> [AllNames -> Entry]]
    BY <2>2, MaxFetchesAssumption DEF Inv, TypeOK, Entry
  <2>4. QED
    BY <2>1, <2>3
    DEF Inv, TypeOK, AnswerMatchesRequest, RepliesCorrect, BulkIdsKnown
<1>2. CASE n # NullName
  <2>1. /\ StartFetch(k, {n})
        /\ cache' = [cache EXCEPT ![k][n] = [st |-> "fetch", fid |-> Len(fetches) + 1]]
        /\ UNCHANGED fromServer
    BY <1>2 DEF ReadFlag
  <2>2. k \in FetchKinds /\ {n} \in SUBSET Names
    BY <1>2 DEF FetchKinds, AllNames
  <2>3. /\ fetches' \in Seq(Fetch)
        /\ Len(fetches') <= MaxFetches
        /\ Len(fetches') = Len(fetches) + 1
        /\ toServer' \subseteq Msg
        /\ AnswerMatchesRequest'
        /\ RepliesCorrect'
        /\ BulkIdsKnown'
    BY <2>1, <2>2, StartFetchInv
  <2>4. cache' \in [FlagKinds -> [AllNames -> Entry]]
    BY <2>1, <2>3, MaxFetchesAssumption DEF Inv, TypeOK, Entry
  <2>5. QED
    BY <2>1, <2>3, <2>4 DEF Inv, TypeOK
<1>3. QED
  BY <1>1, <1>2

\* A bulk fetch keeps the invariant.
LEMMA BulkFetchInv ==
  ASSUME Inv, NEW ns \in SUBSET Names, BulkFetch(ns)
  PROVE  Inv'
<1>1. /\ fetches' \in Seq(Fetch)
      /\ Len(fetches') <= MaxFetches
      /\ toServer' \subseteq Msg
      /\ AnswerMatchesRequest'
      /\ RepliesCorrect'
      /\ BulkIdsKnown'
  BY StartFetchInv DEF BulkFetch, FetchKinds
<1>2. QED
  BY <1>1 DEF BulkFetch, Inv, TypeOK

\* Forgetting an atom keeps the invariant.
LEMMA EvictInv ==
  ASSUME Inv, NEW k \in FlagKinds, NEW n \in AllNames, Evict(k, n)
  PROVE  Inv'
BY MaxFetchesAssumption
DEF Evict, NoAtom, Inv, TypeOK, Entry, AnswerMatchesRequest, RepliesCorrect, BulkIdsKnown

\* The server's answer keeps the invariant.
LEMMA ServerAnswerInv ==
  ASSUME Inv, NEW m \in toServer, ServerAnswer(m)
  PROVE  Inv'
<1> DEFINE r == [m EXCEPT !.result = ServerResult(m.kind, m.names)]
<1>1. m \in Msg
  BY DEF Inv, TypeOK
<1>2. ServerResult(m.kind, m.names) \in Results
  BY <1>1, ServerResultType DEF Msg
<1>3. r \in Msg /\ r.kind = m.kind /\ r.names = m.names /\ r.id = m.id
      /\ r.result = ServerResult(r.kind, r.names)
  BY <1>1, <1>2 DEF Msg
<1>4. toServer' = toServer \ {m} /\ fromServer' = fromServer \cup {r}
      /\ UNCHANGED <<cache, fetches>>
  BY DEF ServerAnswer
<1>5. TypeOK'
  BY <1>3, <1>4 DEF Inv, TypeOK
<1>6. RepliesCorrect'
  BY <1>3, <1>4 DEF Inv, RepliesCorrect
<1>7. BulkIdsKnown'
  <2>1. m.kind = "bulk" =>
          /\ m.id \in 1..Len(fetches)
          /\ fetches[m.id].kind = "bulk"
          /\ fetches[m.id].names = m.names
    BY DEF Inv, BulkIdsKnown
  <2>2. ASSUME NEW x \in toServer' \cup fromServer', x.kind = "bulk"
        PROVE  /\ x.id \in 1..Len(fetches')
               /\ fetches'[x.id].kind = "bulk"
               /\ fetches'[x.id].names = x.names
    <3>1. CASE x = r
      BY <1>3, <1>4, <2>1, <2>2, <3>1
    <3>2. CASE x # r
      <4>1. x \in toServer \cup fromServer
        BY <1>4, <3>2
      <4>2. QED
        BY <1>4, <2>2, <4>1 DEF Inv, BulkIdsKnown
    <3>3. QED
      BY <3>1, <3>2
  <2>3. QED
    BY <2>2 DEF BulkIdsKnown
<1>8. AnswerMatchesRequest'
  <2>1. fetches' = fetches
    BY <1>4
  <2>2. QED
    BY <2>1 DEF Inv, AnswerMatchesRequest
<1>9. QED
  BY <1>5, <1>6, <1>7, <1>8 DEF Inv

\* Delivering a reply keeps the invariant: the fetches it resolves asked
\* for exactly the names the reply answers.
LEMMA DeliverInv ==
  ASSUME Inv, NEW m \in fromServer, Deliver(m)
  PROVE  Inv'
<1>1. m \in Msg /\ m.result = ServerResult(m.kind, m.names)
  BY DEF Inv, TypeOK, RepliesCorrect
<1>2. /\ fromServer' = fromServer \ {m}
      /\ fetches' = [i \in DOMAIN fetches |->
                       IF fetches[i].waiting /\ Matches(fetches[i], i, m)
                       THEN [fetches[i] EXCEPT !.waiting = FALSE, !.result = m.result]
                       ELSE fetches[i]]
      /\ UNCHANGED <<cache, toServer>>
  BY DEF Deliver
<1>3. ASSUME NEW i \in DOMAIN fetches
      PROVE  /\ fetches'[i] \in Fetch
             /\ fetches'[i].kind = fetches[i].kind
             /\ fetches'[i].names = fetches[i].names
             /\ ~fetches'[i].waiting =>
                  fetches'[i].result = ServerResult(fetches[i].kind, fetches[i].names)
  <2>1. fetches[i] \in Fetch
    BY DEF Inv, TypeOK
  <2>2. CASE fetches[i].waiting /\ Matches(fetches[i], i, m)
    <3>1. fetches'[i] = [fetches[i] EXCEPT !.waiting = FALSE, !.result = m.result]
      BY <1>2, <2>2
    <3>2. fetches[i].kind = m.kind /\ fetches[i].names = m.names
      <4>1. CASE fetches[i].kind = "bulk"
        BY <2>2, <4>1, <1>1 DEF Matches, Inv, BulkIdsKnown
      <4>2. CASE fetches[i].kind # "bulk"
        BY <2>2, <4>2 DEF Matches
      <4>3. QED
        BY <4>1, <4>2
    <3>3. QED
      BY <1>1, <2>1, <3>1, <3>2 DEF Fetch, Msg
  <2>3. CASE ~(fetches[i].waiting /\ Matches(fetches[i], i, m))
    BY <1>2, <2>1, <2>3 DEF Inv, AnswerMatchesRequest
  <2>4. QED
    BY <2>2, <2>3
<1>4. fetches' \in Seq(Fetch) /\ Len(fetches') = Len(fetches)
      /\ DOMAIN fetches = 1..Len(fetches)
  <2>1. DOMAIN fetches = 1..Len(fetches)
    BY DEF Inv, TypeOK
  <2>2. fetches' \in [1..Len(fetches) -> Fetch]
    <3>1. DOMAIN fetches' = DOMAIN fetches
      BY <1>2
    <3>2. \A i \in DOMAIN fetches : fetches'[i] \in Fetch
      BY <1>3
    <3>3. fetches' = [i \in DOMAIN fetches |-> fetches'[i]]
      BY <1>2
    <3>4. QED
      BY <2>1, <3>1, <3>2, <3>3, Zenon
  <2>3. Len(fetches) \in Nat
    BY DEF Inv, TypeOK
  <2>4. QED
    BY <2>1, <2>2, <2>3
<1>5. TypeOK'
  BY <1>2, <1>4 DEF Inv, TypeOK
<1>6. AnswerMatchesRequest'
  BY <1>2, <1>3 DEF AnswerMatchesRequest
<1>7. RepliesCorrect'
  BY <1>2 DEF Inv, RepliesCorrect
<1>8. BulkIdsKnown'
  BY <1>2, <1>3, <1>4 DEF Inv, BulkIdsKnown, TypeOK
<1>9. QED
  BY <1>5, <1>6, <1>7, <1>8 DEF Inv

LEMMA NextInv == Inv /\ [Next]_vars => Inv'
<1> SUFFICES ASSUME Inv, [Next]_vars PROVE Inv'
  OBVIOUS
<1>1. CASE \E k \in FlagKinds, n \in AllNames : ReadFlag(k, n) \/ Evict(k, n)
  BY <1>1, ReadFlagInv, EvictInv
<1>2. CASE \E ns \in (SUBSET Names) \ {{}} : BulkFetch(ns)
  BY <1>2, BulkFetchInv
<1>3. CASE ServerStep
  BY <1>3, ServerAnswerInv DEF ServerStep
<1>4. CASE ClientStep
  BY <1>4, DeliverInv DEF ClientStep
<1>5. CASE UNCHANGED vars
  BY <1>5 DEF vars, Inv, TypeOK, AnswerMatchesRequest, RepliesCorrect, BulkIdsKnown
<1>6. QED
  BY <1>1, <1>2, <1>3, <1>4, <1>5 DEF Next

-----------------------------------------------------------------------------
(***************************************************************************)
(* Every fetch that has returned returned the server's values for the     *)
(* flags it asked for (the reply-matching predicates of featureFlags.ts), *)
(* over a channel that reorders messages.                                  *)
(***************************************************************************)
THEOREM AnswersMatchRequests == Spec => []AnswerMatchesRequest
<1>1. Init => Inv
  BY InitInv
<1>2. Inv /\ [Next]_vars => Inv'
  BY NextInv
<1>3. Inv => AnswerMatchesRequest
  BY DEF Inv
<1>4. QED
  BY <1>1, <1>2, <1>3, PTL DEF Spec

(***************************************************************************)
(* Every atom, fetch and message of the feature-flag client keeps its     *)
(* type: the fetch count stays within MaxFetches, and every reply carries  *)
(* a result over the names it answers.                                    *)
(***************************************************************************)
THEOREM FlagsTypeCorrect == Spec => []TypeOK
<1>1. Inv => TypeOK
  BY DEF Inv
<1>2. QED
  BY InitInv, NextInv, <1>1, PTL DEF Spec

=============================================================================
