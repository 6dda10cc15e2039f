------------------------------- MODULE HashSet -------------------------------
(***************************************************************************)
(* HashSet (addons/isl/src/dag/set.ts) as its callers use it: a few        *)
(* program variables (Reg) each hold a HashSet value, and one method call  *)
(* at a time reads some of them and stores its result in one of them.      *)
(*                                                                         *)
(* A call is an Invoke step (the arguments are bound, `fromHashes(other)`  *)
(* starts converting the SetLike argument), the steps of the loop the      *)
(* Immutable.js OrderedSet runs for it (adding the items of an iterable,   *)
(* adding the other set's items for union, keeping or dropping each of     *)
(* this set's items for intersect and subtract), and a Return step that    *)
(* wraps the resulting ImSet in a new HashSet and stores it.  Nothing else *)
(* runs meanwhile: every method is synchronous.                            *)
(***************************************************************************)
EXTENDS HashSetTypes

VARIABLES
  reg,    \* reg[r]: iteration order of the ImSet inside the HashSet in r
  call,   \* the method call in progress, or NoCall
  pc,     \* which loop the call is in
  items,  \* items of the SetLike argument still to be added to conv
  i,      \* loop cursor (1-based)
  conv,   \* HashSet.fromHashes(arg).set, under construction
  acc     \* the result of union / intersect / subtract, under construction

vars == <<reg, call, pc, items, i, conv, acc>>

Loops == {"idle", "convert", "union", "intersect", "subtract", "reverse"}

-----------------------------------------------------------------------------
(***************************************************************************)
(* The Immutable.js OrderedSet primitives set.ts relies on.                *)
(***************************************************************************)

\* set.has(h)
ImHas(s, h) == h \in ToSet(s)

\* Mutant: add without the membership test, so a repeat is listed twice.
ImAddNoCheck(s, h) == Append(s, h)

\* Mutant: re-adding a hash moves it last (delete, then insert).
ImAddMoveToEnd(s, h) == Append(SelectSeq(s, LAMBDA e : e # h), h)

\* set.add(h): a new hash goes last, an existing one keeps its place
ImAdd(s, h) == IF ImHas(s, h) THEN s ELSE Append(s, h)

-----------------------------------------------------------------------------
(***************************************************************************)
(* HashSet.fromHashes(x), split into what it wraps at once (a HashSet's   *)
(* own set, an OrderedSet, `ImSet([hash])`, `ImSet()` for null) and the    *)
(* items `ImSet(iterable)` adds one by one.                                *)
(***************************************************************************)
Wrapped(x) == IF x.kind \in {"hashSet", "orderedSet", "hash"} THEN x.val ELSE <<>>

\* Mutant: the `typeof hashes === 'string'` test is missing, so a string is
\* iterated as an iterable and yields its one-character strings.
PendingSplitsString(x) ==
  CASE x.kind \in {"iterable", "imSet"} -> x.val
    [] x.kind = "hash" -> [k \in 1..Len(x.val[1]) |-> <<x.val[1][k]>>]
    [] OTHER -> <<>>

Pending(x) == IF x.kind \in {"iterable", "imSet"} THEN x.val ELSE <<>>

\* The arguments a call can be given: a SetLike value, or a HashSet held.
Inputs == StaticInputs \cup {[kind |-> "hashSet", val |-> reg[r]] : r \in Reg}

-----------------------------------------------------------------------------
(***************************************************************************)
(* Invoking a method: bind its receiver and argument, start converting the *)
(* argument with fromHashes.                                               *)
(***************************************************************************)
Invoke(op, d, self, x) ==
  /\ pc = "idle"
  /\ call' = [op |-> op, dst |-> d, self |-> self, arg |-> x]
  /\ pc' = "convert"
  /\ conv' = Wrapped(x)
  /\ items' = Pending(x)
  /\ i' = 1
  /\ UNCHANGED <<reg, acc>>

\* d := HashSet.fromHashes(x)
CallFromHashes(d, x) == Invoke("fromHashes", d, <<>>, x)

\* d := reg[r].union(x)
CallUnion(d, r, x) == Invoke("union", d, reg[r], x)

\* d := reg[r].intersect(x)
CallIntersect(d, r, x) == Invoke("intersect", d, reg[r], x)

\* d := reg[r].subtract(x)
CallSubtract(d, r, x) == Invoke("subtract", d, reg[r], x)

\* d := reg[r].reverse()
CallReverse(d, r) ==
  /\ pc = "idle"
  /\ call' = [op |-> "reverse", dst |-> d, self |-> reg[r], arg |-> Null]
  /\ pc' = "reverse"
  /\ UNCHANGED <<reg, items, i, conv, acc>>

(***************************************************************************)
(* `new HashSet(set)`: the result is stored in the caller's variable and   *)
(* the call's locals go out of scope.                                      *)
(***************************************************************************)
Return(result) ==
  /\ reg' = [reg EXCEPT ![call.dst] = result]
  /\ call' = NoCall
  /\ pc' = "idle"
  /\ items' = <<>>
  /\ i' = 1
  /\ conv' = <<>>
  /\ acc' = <<>>

-----------------------------------------------------------------------------
\* ImSet(iterable): add the next item.
ConvertStep ==
  /\ pc = "convert"
  /\ i <= Len(items)
  /\ conv' = ImAdd(conv, items[i])
  /\ i' = i + 1
  /\ UNCHANGED <<reg, call, pc, items, acc>>

\* fromHashes returns the converted set.
FromHashesReturn ==
  /\ pc = "convert"
  /\ i > Len(items)
  /\ call.op = "fromHashes"
  /\ Return(conv)

\* The argument is converted: union starts from this set, intersect and
\* subtract from the empty set.
ApplyBegin ==
  /\ pc = "convert"
  /\ i > Len(items)
  /\ call.op \in {"union", "intersect", "subtract"}
  /\ pc' = call.op
  /\ i' = 1
  /\ acc' = IF call.op = "union" THEN call.self ELSE <<>>
  /\ UNCHANGED <<reg, call, items, conv>>

\* this.set.union(other): add other's next item.
UnionStep ==
  /\ pc = "union"
  /\ i <= Len(conv)
  /\ acc' = ImAdd(acc, conv[i])
  /\ i' = i + 1
  /\ UNCHANGED <<reg, call, pc, items, conv>>

\* this.set.intersect(other): keep this set's next item if other has it.
IntersectStep ==
  /\ pc = "intersect"
  /\ i <= Len(call.self)
  /\ acc' = IF ImHas(conv, call.self[i]) THEN Append(acc, call.self[i]) ELSE acc
  /\ i' = i + 1
  /\ UNCHANGED <<reg, call, pc, items, conv>>

\* this.set.subtract(other): keep this set's next item if other lacks it.
SubtractStep ==
  /\ pc = "subtract"
  /\ i <= Len(call.self)
  /\ acc' = IF ImHas(conv, call.self[i]) THEN acc ELSE Append(acc, call.self[i])
  /\ i' = i + 1
  /\ UNCHANGED <<reg, call, pc, items, conv>>

\* The loop is over: `return new HashSet(set)`.
ApplyReturn ==
  /\ pc \in {"union", "intersect", "subtract"}
  /\ i > Len(IF pc = "union" THEN conv ELSE call.self)
  /\ Return(acc)

\* `new HashSet(this.inner.reverse())`
ReverseReturn ==
  /\ pc = "reverse"
  /\ Return(Reverse(call.self))

-----------------------------------------------------------------------------
(***************************************************************************)
(* Every variable starts as `new HashSet()`, holding `ImSet()`.            *)
(***************************************************************************)
Init ==
  /\ reg = [r \in Reg |-> <<>>]
  /\ call = NoCall
  /\ pc = "idle"
  /\ items = <<>>
  /\ i = 1
  /\ conv = <<>>
  /\ acc = <<>>

Next ==
  \/ \E d \in Reg, x \in Inputs : CallFromHashes(d, x)
  \/ \E d, r \in Reg, x \in Inputs :
        CallUnion(d, r, x) \/ CallIntersect(d, r, x) \/ CallSubtract(d, r, x)
  \/ \E d, r \in Reg : CallReverse(d, r)
  \/ ConvertStep \/ FromHashesReturn \/ ApplyBegin
  \/ UnionStep \/ IntersectStep \/ SubtractStep \/ ApplyReturn
  \/ ReverseReturn

Spec == Init /\ [][Next]_vars

-----------------------------------------------------------------------------
(***************************************************************************)
(* Read-only views of a HashSet value s (its ImSet's iteration order).     *)
(***************************************************************************)

\* hashSet.toArray(), [...hashSet], toList(), toSeq(): the iteration order
ToArray(s) == s

\* hashSet.size
Size(s) == Len(s)

\* hashSet.contains(h)
ContainsHash(s, h) == ImHas(s, h)

(***************************************************************************)
(* The default comparison of Array.prototype.sort on strings: code unit by *)
(* code unit, a proper prefix first.                                       *)
(***************************************************************************)
LexLess(a, b) ==
  \/ /\ Len(a) < Len(b)
     /\ \A k \in 1..Len(a) : a[k] = b[k]
  \/ \E k \in 1..Len(a) :
        /\ k <= Len(b)
        /\ a[k] < b[k]
        /\ \A j \in 1..(k - 1) : a[j] = b[j]

\* hashSet.toSortedArray()
ToSortedArray(s) == SortSeq(s, LexLess)

-----------------------------------------------------------------------------
(***************************************************************************)
(* Type invariant.                                                         *)
(***************************************************************************)
TypeOK ==
  /\ reg \in [Reg -> Seq(Hash)]
  /\ call \in Calls
  /\ pc \in Loops
  /\ items \in Seq(Hash)
  /\ i \in Nat \ {0}
  /\ conv \in Seq(Hash)
  /\ acc \in Seq(Hash)

(***************************************************************************)
(* No HashSet any caller holds lists a hash twice, whatever sequence of    *)
(* fromHashes (of arrays with repeated hashes), union (of overlapping      *)
(* sets), intersect, subtract and reverse built it.                        *)
(***************************************************************************)
Uniqueness == \A r \in Reg : IsInjective(reg[r])

=============================================================================
