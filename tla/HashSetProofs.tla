----------------------------- MODULE HashSetProofs -----------------------------
(***************************************************************************)
(* Proofs about the HashSet model, for every set of hashes, every number   *)
(* of caller variables and every bound on argument length.                 *)
(***************************************************************************)
EXTENDS HashSet, TLAPS

-----------------------------------------------------------------------------
(***************************************************************************)
(* Lemmas about the sequence operations the ImSet loops are built from.    *)
(***************************************************************************)

\* Appending a hash the sequence lacks keeps it free of repeats.
LEMMA AppendFresh ==
  ASSUME NEW S, NEW s \in Seq(S), NEW h \in S, IsInjective(s), h \notin ToSet(s)
  PROVE  /\ Append(s, h) \in Seq(S)
         /\ IsInjective(Append(s, h))
BY DEF IsInjective, ToSet

\* The hashes of a sequence after an append.
LEMMA ToSetAppend ==
  ASSUME NEW S, NEW s \in Seq(S), NEW h
  PROVE  ToSet(Append(s, h)) = ToSet(s) \cup {h}
<1>1. DOMAIN Append(s, h) = 1..(Len(s) + 1)
  OBVIOUS
<1>2. ASSUME NEW e \in ToSet(Append(s, h)) PROVE e \in ToSet(s) \cup {h}
  <2>1. PICK k \in 1..(Len(s) + 1) : e = Append(s, h)[k]
    BY <1>1 DEF ToSet
  <2>2. QED
    BY <2>1 DEF ToSet
<1>3. ASSUME NEW e \in ToSet(s) \cup {h} PROVE e \in ToSet(Append(s, h))
  <2>1. CASE e = h
    BY <1>1, <2>1 DEF ToSet
  <2>2. CASE e \in ToSet(s)
    <3>1. PICK k \in 1..Len(s) : e = s[k]
      BY <2>2 DEF ToSet
    <3>2. QED
      BY <1>1, <3>1 DEF ToSet
  <2>3. QED
    BY <1>3, <2>1, <2>2
<1>4. QED
  BY <1>2, <1>3

\* set.add keeps an ImSet free of repeats.
LEMMA ImAddInjective ==
  ASSUME NEW S, NEW s \in Seq(S), NEW h \in S, IsInjective(s)
  PROVE  /\ ImAdd(s, h) \in Seq(S)
         /\ IsInjective(ImAdd(s, h))
BY AppendFresh DEF ImAdd, ImHas

\* Reversing keeps a sequence free of repeats.
LEMMA ReverseInjective ==
  ASSUME NEW S, NEW s \in Seq(S), IsInjective(s)
  PROVE  /\ Reverse(s) \in Seq(S)
         /\ IsInjective(Reverse(s))
BY DEF Reverse, IsInjective

\* Bounded sequences are sequences.
LEMMA BoundedSeqIsSeq ==
  ASSUME NEW S, NEW n \in Nat
  PROVE  BoundedSeq(S, n) \subseteq Seq(S)
BY DEF BoundedSeq, SeqOf
-----------------------------------------------------------------------------
(***************************************************************************)
(* The inductive invariant.  Uniqueness alone is not inductive: a Return   *)
(* stores conv or acc, so these must be free of repeats as well; union     *)
(* starts acc from the receiver, so the receiver must be; and an           *)
(* intersect or subtract step appends the receiver's i-th hash, so acc     *)
(* must hold only hashes the receiver lists before position i.             *)
(***************************************************************************)
AccFromPrefix ==
  pc \in {"intersect", "subtract"} =>
    ToSet(acc) \subseteq {call.self[j] : j \in 1..(i - 1)}

IInv ==
  /\ TypeOK
  /\ Uniqueness
  /\ IsInjective(call.self)
  /\ IsInjective(conv)
  /\ IsInjective(acc)
  /\ AccFromPrefix

-----------------------------------------------------------------------------
(***************************************************************************)
(* The arguments a call can be given are well typed, and what fromHashes   *)
(* wraps at once (a held HashSet's set, an OrderedSet, a single hash) is   *)
(* free of repeats when the held sets are.                                 *)
(***************************************************************************)
LEMMA InputsTyped ==
  ASSUME TypeOK, Uniqueness, NEW x \in Inputs
  PROVE  /\ x \in SetLikeType
         /\ Wrapped(x) \in Seq(Hash)
         /\ IsInjective(Wrapped(x))
         /\ Pending(x) \in Seq(Hash)
<1>1. OrderedSets \subseteq Seq(Hash)
  BY BoundedSeqIsSeq, MaxIterAssumption DEF OrderedSets
<1>2. BoundedSeq(Hash, MaxIter) \subseteq Seq(Hash)
  BY BoundedSeqIsSeq, MaxIterAssumption
<1>3. CASE x \in StaticInputs
  <2>1. CASE x = Null
    BY <2>1 DEF Null, SetLikeType, Kinds, Wrapped, Pending, IsInjective
  <2>2. CASE \E h \in Hash : x = [kind |-> "hash", val |-> <<h>>]
    BY <2>2 DEF SetLikeType, Kinds, Wrapped, Pending, IsInjective
  <2>3. CASE \E s \in OrderedSets : x = [kind |-> "orderedSet", val |-> s]
    BY <2>3, <1>1 DEF SetLikeType, Kinds, Wrapped, Pending, OrderedSets
  <2>4. CASE \E s \in BoundedSeq(Hash, MaxIter) : x = [kind |-> "iterable", val |-> s]
    BY <2>4, <1>2 DEF SetLikeType, Kinds, Wrapped, Pending, IsInjective
  <2>5. CASE \E s \in OrderedSets : x = [kind |-> "imSet", val |-> s]
    BY <2>5, <1>1 DEF SetLikeType, Kinds, Wrapped, Pending, IsInjective
  <2>6. QED
    BY <1>3, <2>1, <2>2, <2>3, <2>4, <2>5 DEF StaticInputs
<1>4. CASE \E r \in Reg : x = [kind |-> "hashSet", val |-> reg[r]]
  BY <1>4 DEF TypeOK, Uniqueness, SetLikeType, Kinds, Wrapped, Pending
<1>5. QED
  BY <1>3, <1>4 DEF Inputs

\* The record of no call is a well-typed call record.
LEMMA NoCallTyped == NoCall \in Calls /\ IsInjective(NoCall.self)
BY RegAssumption DEF NoCall, Calls, DefaultReg, Null, SetLikeType, Kinds, Ops,
                     IsInjective

-----------------------------------------------------------------------------
LEMMA InitIInv == Init => IInv
BY NoCallTyped, RegAssumption
   DEF Init, IInv, TypeOK, Loops, Uniqueness, AccFromPrefix, IsInjective

LEMMA NextIInv == IInv /\ [Next]_vars => IInv'
<1> SUFFICES ASSUME IInv, [Next]_vars PROVE IInv'
  OBVIOUS
<1> USE DEF IInv
<1>1. ASSUME NEW op \in Ops, NEW d \in Reg, NEW self, NEW x \in Inputs,
             self \in Seq(Hash), IsInjective(self), Invoke(op, d, self, x)
      PROVE  IInv'
  <2>1. x \in SetLikeType /\ Wrapped(x) \in Seq(Hash) /\ IsInjective(Wrapped(x))
        /\ Pending(x) \in Seq(Hash)
    BY InputsTyped
  <2>2. TypeOK'
    BY <1>1, <2>1 DEF Invoke, TypeOK, Calls, Loops
  <2>3. QED
    BY <1>1, <2>1, <2>2 DEF Invoke, Uniqueness, AccFromPrefix
<1>2. ASSUME NEW d \in Reg, NEW x \in Inputs, CallFromHashes(d, x)
      PROVE  IInv'
  <2>1. <<>> \in Seq(Hash) /\ IsInjective(<<>>)
    BY DEF IsInjective
  <2>2. "fromHashes" \in Ops
    BY DEF Ops
  <2>3. QED
    BY <1>1, <1>2, <2>1, <2>2, Zenon DEF CallFromHashes
<1>3. ASSUME NEW d \in Reg, NEW r \in Reg, NEW x \in Inputs,
             CallUnion(d, r, x) \/ CallIntersect(d, r, x) \/ CallSubtract(d, r, x)
      PROVE  IInv'
  <2>1. reg[r] \in Seq(Hash) /\ IsInjective(reg[r])
    BY DEF TypeOK, Uniqueness
  <2>2. QED
    BY <1>1, <1>3, <2>1 DEF CallUnion, CallIntersect, CallSubtract, Ops
<1>4. ASSUME NEW d \in Reg, NEW r \in Reg, CallReverse(d, r)
      PROVE  IInv'
  <2>1. reg[r] \in Seq(Hash) /\ IsInjective(reg[r])
    BY DEF TypeOK, Uniqueness
  <2>2. Null \in SetLikeType
    BY DEF Null, SetLikeType, Kinds
  <2>3. QED
    BY <1>4, <2>1, <2>2 DEF CallReverse, TypeOK, Calls, Ops, Loops, Uniqueness,
                           AccFromPrefix
<1>5. ASSUME NEW res \in Seq(Hash), IsInjective(res), Return(res)
      PROVE  IInv'
  <2>1. TypeOK'
    BY <1>5, NoCallTyped DEF Return, TypeOK, Loops, Calls
  <2>2. Uniqueness'
    BY <1>5 DEF Return, TypeOK, Calls, Uniqueness
  <2>3. QED
    BY <1>5, <2>1, <2>2, NoCallTyped DEF Return, AccFromPrefix, IsInjective
<1>6. CASE ConvertStep
  <2>1. items[i] \in Hash
    BY <1>6 DEF ConvertStep, TypeOK
  <2>2. ImAdd(conv, items[i]) \in Seq(Hash) /\ IsInjective(ImAdd(conv, items[i]))
    BY <2>1, ImAddInjective DEF TypeOK
  <2>3. QED
    BY <1>6, <2>2 DEF ConvertStep, TypeOK, Uniqueness, AccFromPrefix
<1>7. CASE FromHashesReturn
  BY <1>5, <1>7 DEF FromHashesReturn, TypeOK
<1>8. CASE ApplyBegin
  BY <1>8 DEF ApplyBegin, TypeOK, Calls, Loops, Uniqueness, AccFromPrefix,
              IsInjective, ToSet
<1>9. CASE UnionStep
  <2>1. conv[i] \in Hash
    BY <1>9 DEF UnionStep, TypeOK
  <2>2. ImAdd(acc, conv[i]) \in Seq(Hash) /\ IsInjective(ImAdd(acc, conv[i]))
    BY <2>1, ImAddInjective DEF TypeOK
  <2>3. QED
    BY <1>9, <2>2 DEF UnionStep, TypeOK, Uniqueness, AccFromPrefix
<1>10. ASSUME NEW keep \in BOOLEAN,
              pc \in {"intersect", "subtract"},
              i <= Len(call.self),
              acc' = IF keep THEN Append(acc, call.self[i]) ELSE acc,
              i' = i + 1,
              UNCHANGED <<reg, call, pc, items, conv>>
       PROVE  IInv'
  <2>1. call.self \in Seq(Hash) /\ i \in 1..Len(call.self)
    BY <1>10 DEF TypeOK, Calls
  <2>2. call.self[i] \notin ToSet(acc)
    <3>1. SUFFICES ASSUME call.self[i] \in ToSet(acc) PROVE FALSE
      OBVIOUS
    <3>2. PICK j \in 1..(i - 1) : call.self[i] = call.self[j]
      BY <1>10, <3>1 DEF AccFromPrefix
    <3>3. i = j
      BY <2>1, <3>2 DEF IsInjective
    <3>4. QED
      BY <2>1, <3>2, <3>3
  <2>3. Append(acc, call.self[i]) \in Seq(Hash)
        /\ IsInjective(Append(acc, call.self[i]))
    BY <2>1, <2>2, AppendFresh DEF TypeOK
  <2>4. AccFromPrefix'
    <3>1. ToSet(acc) \subseteq {call.self[j] : j \in 1..(i - 1)}
      BY <1>10 DEF AccFromPrefix
    <3>2. CASE keep
      <4>1. acc' = Append(acc, call.self[i])
        BY <1>10, <3>2
      <4>2. ToSet(acc') = ToSet(acc) \cup {call.self[i]}
        BY <4>1, ToSetAppend DEF TypeOK
      <4>3. QED
        BY <1>10, <2>1, <3>1, <4>2 DEF AccFromPrefix
    <3>3. CASE ~keep
      BY <1>10, <2>1, <3>1, <3>3 DEF AccFromPrefix
    <3>4. QED
      BY <3>2, <3>3
  <2>5. QED
    BY <1>10, <2>3, <2>4 DEF TypeOK, Uniqueness
<1>11. CASE IntersectStep
  BY <1>10, <1>11 DEF IntersectStep
<1>12. CASE SubtractStep
  <2>1. PICK keep \in BOOLEAN : keep = ~ImHas(conv, call.self[i])
    OBVIOUS
  <2>2. QED
    BY <1>10, <1>12, <2>1 DEF SubtractStep
<1>13. CASE ApplyReturn
  BY <1>5, <1>13 DEF ApplyReturn, TypeOK
<1>14. CASE ReverseReturn
  <2>1. call.self \in Seq(Hash)
    BY DEF TypeOK, Calls
  <2>2. Reverse(call.self) \in Seq(Hash) /\ IsInjective(Reverse(call.self))
    BY <2>1, ReverseInjective
  <2>3. QED
    BY <1>5, <1>14, <2>2 DEF ReverseReturn
<1>15. CASE UNCHANGED vars
  BY <1>15 DEF vars, TypeOK, Uniqueness, AccFromPrefix
<1>16. QED
  BY <1>2, <1>3, <1>4, <1>6, <1>7, <1>8, <1>9, <1>11, <1>12, <1>13, <1>14,
     <1>15 DEF Next

-----------------------------------------------------------------------------
(***************************************************************************)
(* Type correctness: every variable of the model keeps its type.           *)
(***************************************************************************)
THEOREM TypeCorrect == Spec => []TypeOK
<1>1. IInv => TypeOK
  BY DEF IInv
<1>2. QED
  BY <1>1, InitIInv, NextIInv, PTL DEF Spec

(***************************************************************************)
(* No HashSet a caller holds ever lists a hash twice, for every set of     *)
(* hashes, number of variables and argument length: fromHashes drops the   *)
(* repeats of an array, union the overlap, and intersect, subtract and     *)
(* reverse cannot create one.                                              *)
(***************************************************************************)
THEOREM UniquenessInvariant == Spec => []Uniqueness
<1>1. IInv => Uniqueness
  BY DEF IInv
<1>2. QED
  BY <1>1, InitIInv, NextIInv, PTL DEF Spec

=============================================================================
