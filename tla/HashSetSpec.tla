------------------------------ MODULE HashSetSpec ------------------------------
(***************************************************************************)
(* What HashSet promises (set.ts doc comments, lines 36-38, 75, 81, 87,    *)
(* 98): each method call returns, at once, the set its order contract      *)
(* names.  A call is Invoke (arguments bound) then Return (result stored): *)
(* the Return names the argument the call was given, so a refinement of    *)
(* this module cannot answer a call with the result of another argument.   *)
(***************************************************************************)
EXTENDS HashSetTypes

VARIABLES reg, call

vars == <<reg, call>>

(***************************************************************************)
(* The items of s, each at its first occurrence, in order.                 *)
(***************************************************************************)
FirstOccurrences(s) ==
  LET firsts == SelectSeq([k \in 1..Len(s) |-> k],
                          LAMBDA k : \A j \in 1..(k - 1) : s[j] # s[k])
  IN  [n \in 1..Len(firsts) |-> s[firsts[n]]]

(***************************************************************************)
(* The order fromHashes(x) gives; `order` is the iteration order of an     *)
(* unordered Immutable Set, which the contract leaves open.               *)
(***************************************************************************)
Resolve(x, order) ==
  CASE x.kind = "null"                       -> <<>>
    [] x.kind = "hash"                       -> x.val
    [] x.kind \in {"hashSet", "orderedSet"}  -> x.val
    [] x.kind = "iterable"                   -> FirstOccurrences(x.val)
    [] x.kind = "imSet"                      -> order

Orders(x) == IF x.kind = "imSet" THEN SetToSeqs(ToSet(x.val)) ELSE {<<>>}

(***************************************************************************)
(* The order contracts.  union: this, then other without the overlapping  *)
(* subset.  intersect and subtract: this set's order, filtered.  reverse:  *)
(* the exact reverse.                                                      *)
(***************************************************************************)
Result(c, order) ==
  LET other == Resolve(c.arg, order)
  IN  CASE c.op = "fromHashes" -> other
        [] c.op = "union"      ->
             c.self \o SelectSeq(other, LAMBDA h : h \notin ToSet(c.self))
        [] c.op = "intersect"  -> SelectSeq(c.self, LAMBDA h : h \in ToSet(other))
        [] c.op = "subtract"   -> SelectSeq(c.self, LAMBDA h : h \notin ToSet(other))
        [] c.op = "reverse"    -> Reverse(c.self)

Inputs == StaticInputs \cup {[kind |-> "hashSet", val |-> reg[r]] : r \in Reg}

Invoke(op, d, self, x) ==
  /\ call = NoCall
  /\ call' = [op |-> op, dst |-> d, self |-> self, arg |-> x]
  /\ UNCHANGED reg

Return ==
  /\ call # NoCall
  /\ \E order \in Orders(call.arg) :
        reg' = [reg EXCEPT ![call.dst] = Result(call, order)]
  /\ call' = NoCall

Init ==
  /\ reg = [r \in Reg |-> <<>>]
  /\ call = NoCall

Next ==
  \/ \E d \in Reg, x \in Inputs : Invoke("fromHashes", d, <<>>, x)
  \/ \E d, r \in Reg, x \in Inputs, op \in {"union", "intersect", "subtract"} :
        Invoke(op, d, reg[r], x)
  \/ \E d, r \in Reg : Invoke("reverse", d, reg[r], Null)
  \/ Return

Spec == Init /\ [][Next]_vars

=============================================================================
