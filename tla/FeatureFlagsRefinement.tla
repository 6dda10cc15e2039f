------------------------- MODULE FeatureFlagsRefinement -------------------------
(***************************************************************************)
(* Proof that the feature-flag client implements FeatureFlagSpec, the      *)
(* promise of the flag cache: every step of the client, the channel and    *)
(* the server is, under the mapping loadableBar / bulkBar of FeatureFlags, *)
(* a step of FeatureFlagSpec or leaves its state unchanged.                *)
(***************************************************************************)
EXTENDS FeatureFlagsProofs

(***************************************************************************)
(* What the refinement needs beyond Inv: an atom of the family is none, the *)
(* resolved `false` of the name `undefined`, or the promise of a fetch      *)
(* already started, of the atom's own kind and for its name alone.  That    *)
(* is what makes the atom's loadable the loadable of that fetch, and lets  *)
(* a reply settle at most one atom.                                         *)
(***************************************************************************)
OssAtom == [st |-> "oss", fid |-> 0]

CacheRefs ==
  \A k \in FlagKinds, n \in AllNames :
    \/ cache[k][n] = NoAtom
    \/ cache[k][n] = OssAtom /\ n = NullName
    \/ /\ cache[k][n].st = "fetch"
       /\ cache[k][n].fid \in 1..Len(fetches)
       /\ n \in Names
       /\ fetches[cache[k][n].fid].kind = k
       /\ fetches[cache[k][n].fid].names = {n}

RefInv == Inv /\ CacheRefs

-----------------------------------------------------------------------------

LEMMA InitCacheRefs == Init => CacheRefs
BY DEF Init, CacheRefs

\* A step that keeps the cache and only extends fetches keeps CacheRefs.
LEMMA CacheRefsExtend ==
  ASSUME CacheRefs, cache' = cache,
         Len(fetches) \in Nat, Len(fetches') \in Nat, Len(fetches) <= Len(fetches'),
         \A j \in 1..Len(fetches) : /\ fetches'[j].kind = fetches[j].kind
                                    /\ fetches'[j].names = fetches[j].names
  PROVE  CacheRefs'
BY DEF CacheRefs

\* A read that creates an atom: for `undefined` the resolved false, else
\* the promise of the fetch it has just appended.
LEMMA ReadFlagCacheRefs ==
  ASSUME Inv, CacheRefs, NEW k \in FlagKinds, NEW n \in AllNames, ReadFlag(k, n)
  PROVE  CacheRefs'
<1>1. CASE n = NullName
  <2>1. cache' = [cache EXCEPT ![k][n] = OssAtom] /\ UNCHANGED fetches
    BY <1>1, NullNameAssumption DEF ReadFlag, AllNames, OssAtom
  <2>2. QED
    BY <1>1, <2>1 DEF CacheRefs, Inv, TypeOK
<1>2. CASE n # NullName
  <2>1. /\ cache' = [cache EXCEPT ![k][n] = [st |-> "fetch", fid |-> Len(fetches) + 1]]
        /\ fetches' = Append(fetches, [kind |-> k, names |-> {n},
                                       waiting |-> TRUE, result |-> <<>>])
    BY <1>2 DEF ReadFlag, StartFetch
  <2>2. fetches \in Seq(Fetch) /\ cache \in [FlagKinds -> [AllNames -> Entry]]
    BY DEF Inv, TypeOK
  <2>3. n \in Names
    BY <1>2 DEF AllNames
  <2>4. QED
    BY <2>1, <2>2, <2>3 DEF CacheRefs
<1>3. QED
  BY <1>1, <1>2

\* Resolving a fetch, written as a record.
LEMMA ResolvedFetch ==
  ASSUME NEW f \in Fetch, NEW v
  PROVE  [f EXCEPT !.waiting = FALSE, !.result = v] =
           [kind |-> f.kind, names |-> f.names, waiting |-> FALSE, result |-> v]
<1> DEFINE g == [f EXCEPT !.waiting = FALSE, !.result = v]
<1>1. DOMAIN g = {"kind", "names", "waiting", "result"}
  BY Zenon DEF Fetch
<1>2. g.kind = f.kind /\ g.names = f.names /\ g.waiting = FALSE /\ g.result = v
  BY Zenon DEF Fetch
<1>3. g = [x \in {"kind", "names", "waiting", "result"} |-> g[x]]
  BY <1>1, Zenon
<1> HIDE DEF g
<1>4. g = [kind |-> f.kind, names |-> f.names, waiting |-> FALSE, result |-> v]
  BY <1>2, <1>3
<1>5. QED
  BY <1>4 DEF g

\* A delivery resolves the waiting fetches the reply matches, in place.
LEMMA DeliverShape ==
  ASSUME Inv, NEW m \in fromServer, Deliver(m)
  PROVE  /\ fetches' \in Seq(Fetch)
         /\ Len(fetches') = Len(fetches)
         /\ \A j \in 1..Len(fetches) :
              fetches'[j] = IF fetches[j].waiting /\ Matches(fetches[j], j, m)
                            THEN [kind |-> fetches[j].kind, names |-> fetches[j].names,
                                  waiting |-> FALSE, result |-> m.result]
                            ELSE fetches[j]
         /\ \A j \in 1..Len(fetches) : /\ fetches'[j].kind = fetches[j].kind
                                       /\ fetches'[j].names = fetches[j].names
         /\ UNCHANGED <<cache, toServer>>
<1>1. Len(fetches) \in Nat /\ fetches \in Seq(Fetch)
  BY DEF Inv, TypeOK
<1>2. fetches' \in Seq(Fetch)
  BY DeliverInv DEF Inv, TypeOK
<1>3. DOMAIN fetches' = DOMAIN fetches
  BY DEF Deliver
<1>4. Len(fetches') = Len(fetches)
  <2>1. DOMAIN fetches' = 1..Len(fetches') /\ Len(fetches') \in Nat
    BY <1>2
  <2>2. DOMAIN fetches = 1..Len(fetches)
    BY <1>1
  <2>3. ~(Len(fetches') < Len(fetches))
    <3>1. SUFFICES ASSUME Len(fetches') < Len(fetches) PROVE FALSE
      OBVIOUS
    <3>2. Len(fetches) \in DOMAIN fetches'
      BY <1>1, <1>3, <2>2, <3>1
    <3>3. QED
      BY <2>1, <3>1, <3>2
  <2>4. ~(Len(fetches) < Len(fetches'))
    <3>1. SUFFICES ASSUME Len(fetches) < Len(fetches') PROVE FALSE
      OBVIOUS
    <3>2. Len(fetches') \in DOMAIN fetches
      BY <1>1, <1>3, <2>1, <3>1
    <3>3. QED
      BY <1>1, <2>2, <3>1, <3>2
  <2>5. QED
    BY <1>1, <2>1, <2>3, <2>4
<1>5. ASSUME NEW j \in 1..Len(fetches)
      PROVE  fetches'[j] = IF fetches[j].waiting /\ Matches(fetches[j], j, m)
                           THEN [kind |-> fetches[j].kind, names |-> fetches[j].names,
                                 waiting |-> FALSE, result |-> m.result]
                           ELSE fetches[j]
  <2>1. j \in DOMAIN fetches /\ fetches[j] \in Fetch
    BY <1>1
  <2>2. CASE fetches[j].waiting /\ Matches(fetches[j], j, m)
    <3>1. fetches'[j] = [fetches[j] EXCEPT !.waiting = FALSE, !.result = m.result]
      BY <2>1, <2>2, Zenon DEF Deliver
    <3>2. QED
      BY <2>1, <2>2, <3>1, ResolvedFetch, Zenon
  <2>3. CASE ~(fetches[j].waiting /\ Matches(fetches[j], j, m))
    BY <2>1, <2>3, Zenon DEF Deliver
  <2>4. QED
    BY <2>2, <2>3
<1>6. ASSUME NEW j \in 1..Len(fetches)
      PROVE  /\ fetches'[j].kind = fetches[j].kind
             /\ fetches'[j].names = fetches[j].names
  <2>1. CASE fetches[j].waiting /\ Matches(fetches[j], j, m)
    <3>1. fetches'[j] = [kind |-> fetches[j].kind, names |-> fetches[j].names,
                         waiting |-> FALSE, result |-> m.result]
      BY <1>5, <2>1
    <3>2. QED
      BY <3>1
  <2>2. CASE ~(fetches[j].waiting /\ Matches(fetches[j], j, m))
    BY <1>5, <2>2
  <2>3. QED
    BY <2>1, <2>2
<1>7. QED
  BY <1>2, <1>4, <1>5, <1>6 DEF Deliver

LEMMA NextCacheRefs == Inv /\ CacheRefs /\ [Next]_vars => CacheRefs'
<1> SUFFICES ASSUME Inv, CacheRefs, [Next]_vars PROVE CacheRefs'
  OBVIOUS
<1>1. Len(fetches) \in Nat /\ fetches \in Seq(Fetch)
  BY DEF Inv, TypeOK
<1>2. ASSUME NEW k \in FlagKinds, NEW n \in AllNames, ReadFlag(k, n)
      PROVE  CacheRefs'
  BY <1>2, ReadFlagCacheRefs
<1>3. ASSUME NEW k \in FlagKinds, NEW n \in AllNames, Evict(k, n)
      PROVE  CacheRefs'
  BY <1>3 DEF Evict, CacheRefs, Inv, TypeOK
<1>4. ASSUME NEW ns \in (SUBSET Names) \ {{}}, BulkFetch(ns)
      PROVE  CacheRefs'
  <2>1. fetches' = Append(fetches, [kind |-> "bulk", names |-> ns,
                                    waiting |-> TRUE, result |-> <<>>])
        /\ cache' = cache
    BY <1>4 DEF BulkFetch, StartFetch
  <2>2. QED
    BY <1>1, <2>1, CacheRefsExtend
<1>5. ASSUME NEW m \in fromServer, Deliver(m)
      PROVE  CacheRefs'
  <2>1. \A j \in 1..Len(fetches) : /\ fetches'[j].kind = fetches[j].kind
                                  /\ fetches'[j].names = fetches[j].names
    BY <1>5, DeliverShape, Zenon
  <2>2. /\ cache' = cache
        /\ Len(fetches') \in Nat
        /\ Len(fetches) <= Len(fetches')
    <3>1. fetches' \in Seq(Fetch) /\ Len(fetches') = Len(fetches)
          /\ UNCHANGED <<cache, toServer>>
      BY <1>5, DeliverShape, Zenon
    <3>2. QED
      BY <1>1, <3>1
  <2>3. QED
    BY <1>1, <2>1, <2>2, CacheRefsExtend
<1>6. CASE UNCHANGED <<cache, fetches>>
  BY <1>6 DEF CacheRefs
<1>7. QED
  BY <1>2, <1>3, <1>4, <1>5, <1>6
  DEF Next, ServerStep, ClientStep, ServerAnswer, vars

-----------------------------------------------------------------------------
(***************************************************************************)
(* The refinement, step by step.                                          *)
(***************************************************************************)

\* No atom and no fetch: every loadable absent, no bulk request.
LEMMA InitRefines == Init => Abstract!Init
<1> SUFFICES ASSUME Init PROVE Abstract!Init
  OBVIOUS
<1>1. loadableBar = [k \in FlagKinds |-> [n \in AllNames |-> Abstract!Absent]]
  BY DEF Init, loadableBar, LoadableOf, NoAtom, Abstract!Absent
<1>2. BulkNumbers = {}
  BY DEF Init, BulkNumbers
<1>3. bulkBar = <<>>
  <2>1. DOMAIN bulkBar = {} /\ DOMAIN <<>> = {}
    BY <1>2 DEF bulkBar
  <2>2. bulkBar = [i \in {} |-> bulkBar[i]] /\ <<>> = [i \in {} |-> <<>>[i]]
    BY <1>2 DEF bulkBar
  <2>3. QED
    BY <2>2
<1>4. QED
  BY <1>1, <1>3 DEF Abstract!Init, Abstract!FlagKinds, Abstract!AllNames, FlagKinds, AllNames

\* The loadables depend only on the cache and on the fetches it refers to.
LEMMA LoadableKeep ==
  ASSUME RefInv, cache' = cache,
         \A j \in 1..Len(fetches) : fetches[j].kind \in FlagKinds => fetches'[j] = fetches[j]
  PROVE  loadableBar' = loadableBar
<1>1. ASSUME NEW k \in FlagKinds, NEW n \in AllNames
      PROVE  LoadableOf(k, n)' = LoadableOf(k, n)
  BY DEF RefInv, CacheRefs, LoadableOf, NoAtom, OssAtom
<1>2. QED
  BY <1>1 DEF loadableBar

\* A read of an atom that does not exist loads it.
LEMMA ReadFlagRefines ==
  ASSUME RefInv, NEW k \in FlagKinds, NEW n \in AllNames, ReadFlag(k, n)
  PROVE  Abstract!Load(k, n)
<1>1. cache[k][n] = NoAtom /\ fetches \in Seq(Fetch)
      /\ cache \in [FlagKinds -> [AllNames -> Entry]]
  BY DEF ReadFlag, RefInv, Inv, TypeOK
<1>2. loadableBar[k][n] = Abstract!Absent
  BY <1>1 DEF loadableBar, LoadableOf, NoAtom, Abstract!Absent
<1>3. CASE n = NullName
  <2>1. cache' = [cache EXCEPT ![k][n] = OssAtom] /\ UNCHANGED fetches
    BY <1>3, NullNameAssumption DEF ReadFlag, AllNames, OssAtom
  <2>2. loadableBar' = [loadableBar EXCEPT ![k][n] = Abstract!HasData(FALSE)]
    BY <1>1, <2>1 DEF loadableBar, LoadableOf, OssAtom, Abstract!HasData
  <2>3. bulkBar' = bulkBar
    BY <2>1 DEF bulkBar, BulkNumbers
  <2>4. QED
    BY <1>2, <1>3, <2>2, <2>3 DEF Abstract!Load
<1>4. CASE n # NullName
  <2> DEFINE f == [kind |-> k, names |-> {n}, waiting |-> TRUE, result |-> <<>>]
  <2>1. /\ cache' = [cache EXCEPT ![k][n] = [st |-> "fetch", fid |-> Len(fetches) + 1]]
        /\ fetches' = Append(fetches, f)
    BY <1>4 DEF ReadFlag, StartFetch
  <2>2. /\ Len(fetches') = Len(fetches) + 1
        /\ DOMAIN fetches' = 1..Len(fetches) + 1
        /\ \A j \in 1..Len(fetches) : fetches'[j] = fetches[j]
        /\ fetches'[Len(fetches) + 1] = f
    BY <1>1, <2>1
  <2>3. ASSUME NEW k2 \in FlagKinds, NEW n2 \in AllNames
        PROVE  LoadableOf(k2, n2)' =
                 IF k2 = k /\ n2 = n THEN Abstract!Loading ELSE LoadableOf(k2, n2)
    <3>1. CASE k2 = k /\ n2 = n
      BY <1>1, <2>1, <2>2, <3>1 DEF LoadableOf, Abstract!Loading
    <3>2. CASE ~(k2 = k /\ n2 = n)
      <4>1. cache'[k2][n2] = cache[k2][n2]
        BY <1>1, <2>1, <3>2
      <4>2. QED
        BY <2>2, <3>2, <4>1 DEF RefInv, CacheRefs, LoadableOf, NoAtom, OssAtom
    <3>3. QED
      BY <3>1, <3>2
  <2>4. loadableBar' = [loadableBar EXCEPT ![k][n] = Abstract!Loading]
    BY <2>3 DEF loadableBar
  <2>5. BulkNumbers' = BulkNumbers
    BY <1>1, <2>2 DEF BulkNumbers, FlagKinds
  <2>6. bulkBar' = bulkBar
    BY <2>2, <2>5 DEF bulkBar, BulkNumbers
  <2>7. QED
    BY <1>2, <1>4, <2>4, <2>6 DEF Abstract!Load
<1>5. QED
  BY <1>3, <1>4

\* Forgetting an atom makes its loadable absent.
LEMMA EvictRefines ==
  ASSUME RefInv, NEW k \in FlagKinds, NEW n \in AllNames, Evict(k, n)
  PROVE  Abstract!Forget(k, n)
<1>1. cache \in [FlagKinds -> [AllNames -> Entry]]
  BY DEF RefInv, Inv, TypeOK
<1>2. cache[k][n].st # "none"
  BY DEF Evict, RefInv, CacheRefs, NoAtom, OssAtom
<1>3. loadableBar[k][n] # Abstract!Absent
  BY <1>2 DEF loadableBar, LoadableOf, Abstract!Absent
<1>4. loadableBar' = [loadableBar EXCEPT ![k][n] = Abstract!Absent]
  BY <1>1 DEF Evict, loadableBar, LoadableOf, NoAtom, Abstract!Absent
<1>5. bulkBar' = bulkBar
  BY DEF Evict, bulkBar, BulkNumbers
<1>6. QED
  BY <1>3, <1>4, <1>5 DEF Abstract!Forget

\* A bulk fetch starts the bulk request numbered by the fetch.
LEMMA BulkFetchRefines ==
  ASSUME RefInv, NEW ns \in (SUBSET Names) \ {{}}, BulkFetch(ns)
  PROVE  Abstract!BulkStart(Len(fetches) + 1, ns) /\ Len(fetches) + 1 \in BulkIds
<1> DEFINE id == Len(fetches) + 1
           f == [kind |-> "bulk", names |-> ns, waiting |-> TRUE, result |-> <<>>]
           r == [names |-> ns, waiting |-> TRUE, result |-> <<>>]
<1>1. fetches \in Seq(Fetch) /\ Len(fetches) \in Nat
  BY DEF RefInv, Inv, TypeOK
<1>2. /\ fetches' = Append(fetches, f) /\ cache' = cache
      /\ Len(fetches) < MaxFetches
  BY DEF BulkFetch, StartFetch
<1>3. /\ Len(fetches') = id
      /\ DOMAIN fetches' = 1..id
      /\ \A j \in 1..Len(fetches) : fetches'[j] = fetches[j]
      /\ fetches'[id] = f
  BY <1>1, <1>2
<1>4. id \in BulkIds
  BY <1>1, <1>2, MaxFetchesAssumption DEF BulkIds
<1>5. id \notin DOMAIN bulkBar
  BY <1>1 DEF bulkBar, BulkNumbers
<1>6. BulkNumbers' = BulkNumbers \cup {id}
  BY <1>1, <1>3 DEF BulkNumbers
<1>7. bulkBar' = [i \in BulkNumbers \cup {id} |-> IF i = id THEN r ELSE bulkBar[i]]
  <2>1. BulkNumbers \subseteq 1..Len(fetches)
    BY <1>1 DEF BulkNumbers
  <2>2. ASSUME NEW i \in BulkNumbers \cup {id}
        PROVE  bulkBar'[i] = IF i = id THEN r ELSE bulkBar[i]
    <3>1. bulkBar'[i] = [names |-> fetches'[i].names, waiting |-> fetches'[i].waiting,
                         result |-> fetches'[i].result]
      BY <1>6 DEF bulkBar
    <3>2. CASE i = id
      <4>1. fetches'[i] = f
        BY <1>3, <3>2
      <4>2. QED
        BY <3>1, <3>2, <4>1
    <3>3. CASE i # id
      <4>1. i \in BulkNumbers /\ i \in 1..Len(fetches)
        BY <2>1, <3>3
      <4>2. QED
        BY <1>3, <3>1, <3>3, <4>1 DEF bulkBar
    <3>4. QED
      BY <3>2, <3>3
  <2>3. DOMAIN bulkBar' = BulkNumbers \cup {id}
    BY <1>6 DEF bulkBar
  <2>4. bulkBar' = [i \in DOMAIN bulkBar' |-> bulkBar'[i]]
    BY DEF bulkBar
  <2>5. QED
    BY <2>2, <2>3, <2>4, Zenon
<1>8. DOMAIN bulkBar = BulkNumbers
  BY DEF bulkBar
<1>9. loadableBar' = loadableBar
  BY <1>2, <1>3, LoadableKeep
<1>10. QED
  BY <1>4, <1>5, <1>7, <1>8, <1>9 DEF Abstract!BulkStart

\* The server's answer and the loss of a message leave the promise alone.
LEMMA ChannelStutters ==
  ASSUME UNCHANGED <<cache, fetches>>
  PROVE  UNCHANGED <<loadableBar, bulkBar>>
BY DEF loadableBar, LoadableOf, bulkBar, BulkNumbers

\* A bulk reply settles the bulk request of its id, if that one still waits;
\* no atom refers to a bulk fetch.
LEMMA DeliverBulkRefines ==
  ASSUME RefInv, NEW m \in fromServer, Deliver(m), m.kind = "bulk"
  PROVE  [Abstract!Next]_<<loadableBar, bulkBar>>
<1>1. /\ fetches \in Seq(Fetch) /\ Len(fetches) \in Nat
      /\ m.result = ServerResult(m.kind, m.names)
      /\ m.id \in 1..Len(fetches)
      /\ fetches[m.id].kind = "bulk"
      /\ fetches[m.id].names = m.names
  BY DEF RefInv, Inv, TypeOK, RepliesCorrect, BulkIdsKnown
<1>2. /\ fetches' \in Seq(Fetch)
      /\ Len(fetches') = Len(fetches)
      /\ \A j \in 1..Len(fetches) :
           fetches'[j] = IF fetches[j].waiting /\ Matches(fetches[j], j, m)
                         THEN [kind |-> fetches[j].kind, names |-> fetches[j].names,
                               waiting |-> FALSE, result |-> m.result]
                         ELSE fetches[j]
      /\ \A j \in 1..Len(fetches) : fetches'[j].kind = fetches[j].kind
      /\ UNCHANGED <<cache, toServer>>
  BY DeliverShape, Zenon DEF RefInv
<1>3. \A j \in 1..Len(fetches) : j # m.id => fetches'[j] = fetches[j]
  BY <1>2 DEF Matches
<1>4. loadableBar' = loadableBar
  <2>1. \A j \in 1..Len(fetches) : fetches[j].kind \in FlagKinds => fetches'[j] = fetches[j]
    BY <1>1, <1>3 DEF FlagKinds
  <2>2. QED
    BY <1>2, <2>1, LoadableKeep
<1>5. BulkNumbers' = BulkNumbers
  BY <1>1, <1>2 DEF BulkNumbers
<1>6. m.id \in BulkNumbers /\ m.id \in BulkIds
  BY <1>1, MaxFetchesAssumption DEF BulkNumbers, BulkIds, RefInv, Inv, TypeOK
<1>7. CASE fetches[m.id].waiting
  <2> DEFINE b == bulkBar[m.id]
             b2 == [names |-> b.names, waiting |-> FALSE,
                    result |-> ServerResult("bulk", b.names)]
  <2>1. fetches'[m.id] = [kind |-> "bulk", names |-> m.names, waiting |-> FALSE,
                          result |-> m.result]
    BY <1>1, <1>2, <1>7 DEF Matches
  <2>2. b = [names |-> m.names, waiting |-> TRUE, result |-> fetches[m.id].result]
    BY <1>1, <1>6, <1>7 DEF bulkBar
  <2>3. bulkBar' = [bulkBar EXCEPT ![m.id] = b2]
    <3>1. ASSUME NEW i \in BulkNumbers
          PROVE  bulkBar'[i] = IF i = m.id THEN b2 ELSE bulkBar[i]
      <4>1. i \in 1..Len(fetches)
        BY <1>1 DEF BulkNumbers
      <4>2. bulkBar'[i] = [names |-> fetches'[i].names, waiting |-> fetches'[i].waiting,
                           result |-> fetches'[i].result]
        BY <1>5 DEF bulkBar
      <4>3. CASE i = m.id
        <5>1. b.names = m.names
          BY <1>6, <2>2
        <5>2. m.result = ServerResult("bulk", b.names)
          BY <1>1, <5>1
        <5>3. fetches'[i] = [kind |-> "bulk", names |-> m.names, waiting |-> FALSE,
                             result |-> m.result]
          BY <2>1, <4>3
        <5>4. QED
          BY <4>2, <4>3, <5>1, <5>2, <5>3
      <4>4. CASE i # m.id
        BY <1>3, <4>1, <4>2, <4>4 DEF bulkBar
      <4>5. QED
        BY <4>3, <4>4
    <3>2. QED
      BY <1>5, <3>1 DEF bulkBar
  <2>4. Abstract!BulkSettle(m.id)
    BY <1>4, <1>6, <1>7, <2>2, <2>3
    DEF Abstract!BulkSettle, Abstract!ServerResult, ServerResult, bulkBar
  <2>5. QED
    BY <1>6, <2>4 DEF Abstract!Next, Abstract!BulkIds, BulkIds
<1>8. CASE ~fetches[m.id].waiting
  <2>1. \A j \in 1..Len(fetches) : fetches'[j] = fetches[j]
    BY <1>2, <1>3, <1>8
  <2>2. bulkBar' = bulkBar
    BY <1>1, <1>5, <2>1 DEF bulkBar, BulkNumbers
  <2>3. QED
    BY <1>4, <2>2
<1>9. QED
  BY <1>7, <1>8

\* What CacheRefs says of one atom holding a fetch's promise.
LEMMA CacheRefsAt ==
  ASSUME CacheRefs, NEW k \in FlagKinds, NEW n \in AllNames, cache[k][n].st = "fetch"
  PROVE  /\ cache[k][n].fid \in 1..Len(fetches)
         /\ n \in Names
         /\ fetches[cache[k][n].fid].kind = k
         /\ fetches[cache[k][n].fid].names = {n}
BY DEF CacheRefs, NoAtom, OssAtom

\* A single-flag reply settles the atom of its kind and name, if that atom
\* still waits on a fetch; every other atom refers to a fetch of another
\* kind or name, which the reply does not match.
LEMMA DeliverFlagRefines ==
  ASSUME RefInv, NEW m \in fromServer, Deliver(m), m.kind # "bulk"
  PROVE  [Abstract!Next]_<<loadableBar, bulkBar>>
<1>1. /\ fetches \in Seq(Fetch) /\ Len(fetches) \in Nat
      /\ m.kind \in FlagKinds
      /\ m.result = ServerResult(m.kind, m.names)
      /\ cache \in [FlagKinds -> [AllNames -> Entry]]
  BY DEF RefInv, Inv, TypeOK, RepliesCorrect, Msg, FetchKinds
<1>2. /\ fetches' \in Seq(Fetch)
      /\ Len(fetches') = Len(fetches)
      /\ \A j \in 1..Len(fetches) :
           fetches'[j] = IF fetches[j].waiting /\ Matches(fetches[j], j, m)
                         THEN [kind |-> fetches[j].kind, names |-> fetches[j].names,
                               waiting |-> FALSE, result |-> m.result]
                         ELSE fetches[j]
      /\ \A j \in 1..Len(fetches) : fetches'[j].kind = fetches[j].kind
      /\ cache' = cache
  BY DeliverShape, Zenon DEF RefInv
<1>3. bulkBar' = bulkBar
  <2>1. \A j \in 1..Len(fetches) : fetches[j].kind = "bulk" => fetches'[j] = fetches[j]
    BY <1>2 DEF Matches
  <2>2. BulkNumbers' = BulkNumbers
    BY <1>1, <1>2 DEF BulkNumbers
  <2>3. QED
    BY <1>1, <2>1, <2>2 DEF bulkBar, BulkNumbers
\* The one atom the reply may settle.
<1> DEFINE Settles(k2, n2) ==
             /\ k2 = m.kind /\ m.names = {n2}
             /\ cache[k2][n2].st = "fetch"
             /\ fetches[cache[k2][n2].fid].waiting
<1>4. ASSUME NEW k2 \in FlagKinds, NEW n2 \in AllNames, ~Settles(k2, n2)
      PROVE  LoadableOf(k2, n2)' = LoadableOf(k2, n2)
  <2>1. CASE cache[k2][n2].st = "fetch"
    <3> DEFINE j == cache[k2][n2].fid
    <3>1. j \in 1..Len(fetches) /\ fetches[j].kind = k2 /\ fetches[j].names = {n2}
      BY <2>1, CacheRefsAt DEF RefInv
    <3>2. ~(fetches[j].waiting /\ Matches(fetches[j], j, m))
      BY <1>1, <2>1, <3>1, <1>4 DEF Matches, FlagKinds
    <3>3. fetches'[j] = fetches[j]
      BY <1>2, <3>1, <3>2
    <3>4. QED
      BY <1>2, <3>3 DEF LoadableOf
  <2>2. CASE cache[k2][n2].st # "fetch"
    <3>1. cache[k2][n2] \in {NoAtom, OssAtom}
      BY <2>2 DEF RefInv, CacheRefs
    <3>2. QED
      BY <1>2, <3>1 DEF LoadableOf, NoAtom, OssAtom
  <2>3. QED
    BY <2>1, <2>2
<1>5. CASE \E n \in AllNames : Settles(m.kind, n)
  <2>1. PICK n \in AllNames : Settles(m.kind, n)
    BY <1>5
  <2> DEFINE k == m.kind
             j == cache[k][n].fid
  <2>2. /\ j \in 1..Len(fetches) /\ fetches[j].kind = k /\ fetches[j].names = {n}
        /\ n \in Names
    BY <1>1, <2>1, CacheRefsAt DEF RefInv
  <2>3. fetches'[j] = [kind |-> k, names |-> {n}, waiting |-> FALSE, result |-> m.result]
    BY <1>2, <2>1, <2>2 DEF Matches, FlagKinds
  <2>4. loadableBar[k][n] = Abstract!Loading
    BY <1>1, <2>1 DEF loadableBar, LoadableOf, Abstract!Loading
  <2>5. LoadableOf(k, n)' = Abstract!HasData(ServerResult(k, {n})[n])
    <3>1. cache'[k][n] = cache[k][n] /\ cache[k][n].st = "fetch"
      BY <1>2, <2>1
    <3>2. m.names = {n}
      BY <2>1
    <3>3. ~fetches'[j].waiting /\ fetches'[j].result = ServerResult(k, {n})
      BY <1>1, <2>3, <3>2
    <3>4. QED
      BY <3>1, <3>3 DEF LoadableOf, Abstract!HasData
  <2>6. ASSUME NEW k2 \in FlagKinds, NEW n2 \in AllNames, ~(k2 = k /\ n2 = n)
        PROVE  LoadableOf(k2, n2)' = LoadableOf(k2, n2)
    <3>1. ~Settles(k2, n2)
      BY <2>1, <2>6
    <3>2. QED
      BY <1>4, <3>1
  <2>7. loadableBar' = [loadableBar EXCEPT ![k][n] = Abstract!HasData(ServerResult(k, {n})[n])]
    BY <1>1, <2>5, <2>6 DEF loadableBar
  <2>8. Abstract!Settle(k, n)
    BY <1>3, <2>4, <2>7 DEF Abstract!Settle, Abstract!ServerResult, ServerResult
  <2>9. QED
    BY <1>1, <2>1, <2>8 DEF Abstract!Next, Abstract!FlagKinds, Abstract!AllNames,
                           FlagKinds, AllNames
<1>6. CASE ~\E n \in AllNames : Settles(m.kind, n)
  <2>1. \A k2 \in FlagKinds, n2 \in AllNames : LoadableOf(k2, n2)' = LoadableOf(k2, n2)
    BY <1>4, <1>6
  <2>2. loadableBar' = loadableBar
    BY <2>1 DEF loadableBar
  <2>3. QED
    BY <1>3, <2>2
<1>7. QED
  BY <1>5, <1>6

LEMMA NextRefines == RefInv /\ [Next]_vars => [Abstract!Next]_Abstract!specVars
<1> SUFFICES ASSUME RefInv, [Next]_vars
             PROVE  [Abstract!Next]_<<loadableBar, bulkBar>>
  BY DEF Abstract!specVars
<1> USE DEF Abstract!FlagKinds, Abstract!AllNames, Abstract!BulkIds,
            FlagKinds, AllNames, BulkIds
<1>1. ASSUME NEW k \in FlagKinds, NEW n \in AllNames, ReadFlag(k, n)
      PROVE  [Abstract!Next]_<<loadableBar, bulkBar>>
  BY <1>1, ReadFlagRefines DEF Abstract!Next
<1>2. ASSUME NEW k \in FlagKinds, NEW n \in AllNames, Evict(k, n)
      PROVE  [Abstract!Next]_<<loadableBar, bulkBar>>
  BY <1>2, EvictRefines DEF Abstract!Next
<1>3. ASSUME NEW ns \in (SUBSET Names) \ {{}}, BulkFetch(ns)
      PROVE  [Abstract!Next]_<<loadableBar, bulkBar>>
  BY <1>3, BulkFetchRefines DEF Abstract!Next
<1>4. ASSUME NEW m \in fromServer, Deliver(m)
      PROVE  [Abstract!Next]_<<loadableBar, bulkBar>>
  BY <1>4, DeliverBulkRefines, DeliverFlagRefines
<1>5. CASE UNCHANGED <<cache, fetches>>
  BY <1>5, ChannelStutters
<1>6. QED
  BY <1>1, <1>2, <1>3, <1>4, <1>5
  DEF Next, ServerStep, ClientStep, ServerAnswer, vars

-----------------------------------------------------------------------------
(***************************************************************************)
(* The client implements the flag cache's promise: every atom of          *)
(* featureFlagAsync and qeFlagAsync goes from absent to loading to the    *)
(* server's value of its own flag, or is forgotten; every bulk fetch      *)
(* settles to the server's values of its names; and the channel's steps   *)
(* (the server's answers, replies nobody waits for) change nothing a     *)
(* reader sees.  For every set of names, server values and fetch bound,  *)
(* over a channel that reorders messages.                                  *)
(***************************************************************************)
THEOREM Refinement == Spec => ImplementsFeatureFlagSafety
<1>1. Init => RefInv
  BY InitInv, InitCacheRefs DEF RefInv
<1>2. RefInv /\ [Next]_vars => RefInv'
  BY NextInv, NextCacheRefs DEF RefInv
<1>3. Init => Abstract!Init
  BY InitRefines
<1>4. RefInv /\ [Next]_vars => [Abstract!Next]_Abstract!specVars
  BY NextRefines
<1>5. QED
  BY <1>1, <1>2, <1>3, <1>4, PTL DEF Spec, ImplementsFeatureFlagSafety, Abstract!Spec

=============================================================================
