---------------------------- MODULE CwdPathsProofs ----------------------------
(***************************************************************************)
(* Proofs about relativePath of addons/isl/src/CwdSelector.tsx, for paths  *)
(* of any length over any alphabet.                                        *)
(***************************************************************************)
EXTENDS MC_CwdPaths, SequenceTheorems, TLAPS

\* A subsequence SubSeq(t, a+1, b) of t is no longer than b.
LEMMA SubSeqShort ==
  ASSUME NEW S, NEW t \in Seq(S), NEW a \in 0..Len(t), NEW b \in 0..Len(t)
  PROVE  Len(SubSeq(t, a + 1, b)) <= b
<1>1. Len(SubSeq(t, a + 1, b)) = IF a + 1 <= b THEN b - a ELSE 0
  BY SubSeqProperties
<1>2. QED
  BY <1>1

\* The first n elements of a sequence of length at least n.
LEMMA PrefixOfLength ==
  ASSUME NEW S, NEW t \in Seq(S), NEW n \in 0..Len(t)
  PROVE  /\ SubSeq(t, 1, n) \in Seq(S)
         /\ Len(SubSeq(t, 1, n)) = n
BY SubSeqProperties

\* Every member of SubSeqs(t) is a SubSeq(t, a + 1, b) with a, b in 0..Len(t).
LEMMA SubSeqsMember ==
  ASSUME NEW t, NEW x \in SubSeqs(t)
  PROVE  \E a, b \in 0..Len(t) : x = SubSeq(t, a + 1, b)
BY DEF SubSeqs

(***************************************************************************)
(* When root is a prefix of path, the first occurrence of root in path    *)
(* starts at 1: no prefix of path shorter than root contains it, so the   *)
(* CHOOSE of IndexFirstSubSeq has the single witness Len(root).           *)
(***************************************************************************)
LEMMA FirstOccurrenceOfPrefix ==
  ASSUME NEW S, NEW dir \in Seq(S), NEW cwd \in Seq(S), IsPrefix(dir, cwd)
  PROVE  /\ dir \in SubSeqs(cwd)
         /\ IndexFirstSubSeq(dir, cwd) = 1
<1> DEFINE L == Len(dir)
           N == Len(cwd)
           Pre(i) == SubSeq(cwd, 1, i)
           Found(i) == /\ dir \in SubSeqs(Pre(i))
                       /\ \A j \in 0..i-1 : dir \notin SubSeqs(Pre(j))
           First == CHOOSE i \in 0..N : Found(i)
<1>1. L \in 0..N /\ dir = Pre(L)
  <2>1. L <= N /\ SubSeq(dir, 1, L) = Pre(L)
    BY DEF IsPrefix
  <2>2. SubSeq(dir, 1, L) = dir
    BY SubSeqFull
  <2>3. QED
    BY <2>1, <2>2
<1>2. dir \in SubSeqs(Pre(L))
  <2>1. Pre(L) \in Seq(S) /\ Len(Pre(L)) = L
    BY <1>1, PrefixOfLength
  <2>2. SubSeq(Pre(L), 0 + 1, L) = Pre(L)
    BY <2>1, SubSeqFull
  <2>3. QED
    BY <1>1, <2>1, <2>2 DEF SubSeqs
<1>3. ASSUME NEW m \in 0..N, m < L
      PROVE  dir \notin SubSeqs(Pre(m))
  <2>1. Pre(m) \in Seq(S) /\ Len(Pre(m)) = m
    BY <1>3, PrefixOfLength
  <2>2. ASSUME NEW a \in 0..m, NEW b \in 0..m
        PROVE  SubSeq(Pre(m), a + 1, b) # dir
    <3>1. Len(SubSeq(Pre(m), a + 1, b)) <= b
      BY <2>1, SubSeqShort
    <3>2. QED
      BY <1>3, <3>1
  <2>3. SUFFICES ASSUME dir \in SubSeqs(Pre(m)) PROVE FALSE
    OBVIOUS
  <2>4. PICK a \in 0..Len(Pre(m)), b \in 0..Len(Pre(m)) : dir = SubSeq(Pre(m), a + 1, b)
    BY <2>3, SubSeqsMember
  <2>5. QED
    BY <2>1, <2>2, <2>4
<1>4. Found(L)
  BY <1>1, <1>2, <1>3
<1>5. ASSUME NEW i \in 0..N, Found(i)
      PROVE  i = L
  <2>1. ~(i < L)
    BY <1>3, <1>5
  <2>2. ~(L < i)
    BY <1>1, <1>2, <1>5
  <2>3. i \in Int /\ L \in Int
    BY <1>1
  <2>4. QED
    BY <2>1, <2>2, <2>3
<1>6. First = L
  BY <1>1, <1>4, <1>5
<1>7. dir \in SubSeqs(cwd)
  <2>1. SubSeq(cwd, 0 + 1, L) = dir
    BY <1>1
  <2>2. QED
    BY <1>1, <2>1 DEF SubSeqs
<1>8. IndexFirstSubSeq(dir, cwd) = First - (L - 1)
  BY DEF IndexFirstSubSeq
<1> HIDE DEF First
<1>9. L \in Nat
  OBVIOUS
<1>10. IndexFirstSubSeq(dir, cwd) = 1
  BY <1>6, <1>8, <1>9
<1>11. QED
  BY <1>7, <1>10

(***************************************************************************)
(* relativePath(root, path) of a path that starts with root is the rest of *)
(* path after root, for every root and path: String.replace removes the    *)
(* first occurrence of root, which is the leading one.                     *)
(***************************************************************************)
LEMMA RelativePathOfPrefix ==
  ASSUME NEW S, NEW dir \in Seq(S), NEW cwd \in Seq(S), IsPrefix(dir, cwd)
  PROVE  RelativePath(dir, cwd) = SubSeq(cwd, Len(dir) + 1, Len(cwd))
<1> DEFINE L == Len(dir)
           N == Len(cwd)
<1>1. L <= N
  BY DEF IsPrefix
<1>2. CASE cwd = <<>>
  <2>1. N = 0 /\ L = 0
    BY <1>1, <1>2
  <2>2. SubSeq(cwd, L + 1, N) = <<>>
    BY <2>1, SubSeqEmpty
  <2>3. QED
    BY <1>2, <2>2 DEF RelativePath
<1>3. CASE cwd # <<>>
  <2>1. dir \in SubSeqs(cwd) /\ IndexFirstSubSeq(dir, cwd) = 1
    BY FirstOccurrenceOfPrefix
  <2>2. RelativePath(dir, cwd) = SubSeq(cwd, 1, 0) \o <<>> \o SubSeq(cwd, 1 + L, N)
    BY <1>3, <2>1 DEF RelativePath, ReplaceFirstSubSeq, ReplaceSubSeqAt
  <2>3. SubSeq(cwd, 1, 0) = <<>>
    BY SubSeqEmpty
  <2>4. SubSeq(cwd, 1 + L, N) \in Seq(S)
    BY SubSeqProperties
  <2>5. QED
    BY <2>2, <2>3, <2>4
<1>4. QED
  BY <1>2, <1>3

(* Every absolute path of the model is a sequence of characters. *)
LEMMA AbsPathsAreSeqs ==
  ASSUME NEW n \in Nat
  PROVE  AbsPaths(n) \subseteq Seq(Chars)
<1>1. Slash \in Seq(Chars)
  BY DEF Slash, Chars
<1>2. BoundedSeq(Chars, n - 1) \subseteq Seq(Chars)
  BY DEF BoundedSeq, SeqOf
<1>3. ASSUME NEW s \in BoundedSeq(Chars, n - 1)
      PROVE  Slash \o s \in Seq(Chars)
  BY <1>1, <1>2, <1>3
<1>4. QED
  BY <1>3 DEF AbsPaths

(***************************************************************************)
(* RelativePathIsRest holds in every call of the model: relativePath of a  *)
(* cwd inside root is the rest of the cwd after root.                      *)
(***************************************************************************)
THEOREM RelativePathRest == Spec => []RelativePathIsRest
<1> DEFINE Args == root \in Seq(Chars) /\ path \in Seq(Chars)
<1>1. Init => Args
  BY AbsPathsAreSeqs DEF Init, Roots, Paths, MaxLen
<1>2. Args /\ [Call]_<<root, path>> => Args'
  BY AbsPathsAreSeqs DEF Call, Roots, Paths, MaxLen
<1>3. Args => RelativePathIsRest
  BY RelativePathOfPrefix DEF RelativePathIsRest
<1>4. QED
  BY <1>1, <1>2, <1>3, PTL DEF Spec

\* The two halves of a concatenation.
LEMMA SubSeqOfConcat ==
  ASSUME NEW S, NEW s \in Seq(S), NEW t \in Seq(S)
  PROVE  /\ SubSeq(s \o t, 1, Len(s)) = s
         /\ SubSeq(s \o t, Len(s) + 1, Len(s \o t)) = t
BY ConcatProperties

(***************************************************************************)
(* What relativePath returns for a path built by joinPaths, for every root *)
(* and relative path: rel itself when root ends with '/', and rel with the *)
(* separator still in front otherwise, not the rel the doc comment of      *)
(* relativePath promises ('user' for /home and /home/user).               *)
(***************************************************************************)
THEOREM RelativeOfJoin ==
  ASSUME NEW S, "/" \in S, NEW dir \in Seq(S), NEW rel \in Seq(S)
  PROVE  RelativePath(dir, JoinPaths(dir, rel))
           = IF IsSuffix(Slash, dir) THEN rel ELSE Slash \o rel
<1> DEFINE T == IF IsSuffix(Slash, dir) THEN rel ELSE Slash \o rel
<1>1. Slash \in Seq(S) /\ T \in Seq(S)
  BY DEF Slash
<1>2. JoinPaths(dir, rel) = dir \o T
  <2>1. CASE IsSuffix(Slash, dir)
    BY <2>1 DEF JoinPaths
  <2>2. CASE ~IsSuffix(Slash, dir)
    <3>1. (dir \o Slash) \o rel = dir \o (Slash \o rel)
      BY <1>1, ConcatAssociative
    <3>2. QED
      BY <2>2, <3>1 DEF JoinPaths
  <2>3. QED
    BY <2>1, <2>2
<1>3. dir \o T \in Seq(S) /\ Len(dir) <= Len(dir \o T)
  BY <1>1, ConcatProperties
<1>4. IsPrefix(dir, dir \o T)
  <2>1. SubSeq(dir, 1, Len(dir)) = dir
    BY SubSeqFull
  <2>2. SubSeq(dir \o T, 1, Len(dir)) = dir
    BY <1>1, SubSeqOfConcat
  <2>3. QED
    BY <1>3, <2>1, <2>2 DEF IsPrefix
<1>5. RelativePath(dir, dir \o T) = SubSeq(dir \o T, Len(dir) + 1, Len(dir \o T))
  BY <1>3, <1>4, RelativePathOfPrefix
<1>6. SubSeq(dir \o T, Len(dir) + 1, Len(dir \o T)) = T
  BY <1>1, SubSeqOfConcat
<1>7. QED
  BY <1>2, <1>5, <1>6

=============================================================================
