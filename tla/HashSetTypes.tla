---------------------------- MODULE HashSetTypes ----------------------------
(***************************************************************************)
(* Data shared by the abstract and the detailed model of HashSet           *)
(* (addons/isl/src/dag/set.ts): commit hashes, the SetLike argument that   *)
(* every HashSet method accepts, and the record of a pending method call.  *)
(*                                                                         *)
(* A Hash is a string.  It is represented by its sequence of UTF-16 code   *)
(* units, so that iterating over a string (which JavaScript allows, and    *)
(* which yields one-character strings) and comparing two strings (which    *)
(* Array.prototype.sort does) can be modelled by what they do.             *)
(***************************************************************************)
EXTENDS Naturals, Sequences, SequencesExt

CONSTANTS
  Hash,     \* the commit hashes that occur: strings, as code-unit sequences
  Reg,      \* program variables of the caller that hold a HashSet value
  MaxIter   \* the longest array, iterable or ordered set passed as SetLike

ASSUME HashAssumption == Hash \subseteq Seq(Nat)
ASSUME RegAssumption == Reg # {}
ASSUME MaxIterAssumption == MaxIter \in Nat

(***************************************************************************)
(* An ImSet value (Immutable.js OrderedSet) is observed through its        *)
(* iteration order: a sequence of hashes.                                  *)
(***************************************************************************)
OrderedSets == {s \in BoundedSeq(Hash, MaxIter) : IsInjective(s)}

(***************************************************************************)
(* SetLike = HashSet | ImSet<Hash> | Iterable<Hash> | Hash | null          *)
(* (set.ts line 134), as a tagged variant.  "val" is                       *)
(*   null        <<>>                                                      *)
(*   hash        <<h>>: the one string h                                   *)
(*   hashSet     the iteration order of the HashSet's inner ImSet          *)
(*   orderedSet  the iteration order of an Immutable OrderedSet            *)
(*   iterable    the items an array (or JS Set, generator...) yields,      *)
(*               duplicates included                                       *)
(*   imSet       the iteration order of an unordered Immutable Set: it is  *)
(*               fixed by the container's hashing, so every order of its   *)
(*               elements is a possible input                              *)
(***************************************************************************)
Kinds == {"null", "hash", "hashSet", "orderedSet", "iterable", "imSet"}

Null == [kind |-> "null", val |-> <<>>]

SetLikeType == [kind : Kinds, val : Seq(Hash)]

(***************************************************************************)
(* The SetLike values a caller can pass, other than a HashSet it holds.    *)
(***************************************************************************)
StaticInputs ==
  {Null}
    \cup {[kind |-> "hash", val |-> <<h>>] : h \in Hash}
    \cup {[kind |-> "orderedSet", val |-> s] : s \in OrderedSets}
    \cup {[kind |-> "iterable", val |-> s] : s \in BoundedSeq(Hash, MaxIter)}
    \cup {[kind |-> "imSet", val |-> s] : s \in OrderedSets}

(***************************************************************************)
(* A method call in progress: which method, the caller's variable the      *)
(* result is stored in, the receiver's ImSet (`this.set`) and the          *)
(* argument.  NoCall is the record when no method is running.              *)
(***************************************************************************)
Ops == {"fromHashes", "union", "intersect", "subtract", "reverse"}

DefaultReg == CHOOSE r \in Reg : TRUE

NoCall == [op |-> "none", dst |-> DefaultReg, self |-> <<>>, arg |-> Null]

Calls == [op : Ops \cup {"none"}, dst : Reg, self : Seq(Hash), arg : SetLikeType]

=============================================================================
