---------------------------- MODULE Fingerprint ----------------------------
(***************************************************************************)
(* canonicalFingerprint of src/modules/idempotency/fingerprint.ts: the     *)
(* text by which the idempotency interceptor recognises a repeated request.*)
(*                                                                         *)
(* A JSON value is a leaf, an array of values, or an object: the sequence  *)
(* of its members in insertion order, names distinct.  JSON.stringify      *)
(* writes a value member by member, so two texts are equal exactly when    *)
(* the trees with their order are, and the tree stands for the text.       *)
(***************************************************************************)
EXTENDS Sequences, Naturals, TLC

CONSTANTS
  NameOrder,  \* the member names, in the order of Array.prototype.sort
  Values      \* JSON values; with a value, the values it is made of

ASSUME NameOrderAssumption ==
  \A i, j \in DOMAIN NameOrder : NameOrder[i] = NameOrder[j] => i = j

Leaf(value) == [kind |-> "leaf", value |-> value]
Array(items) == [kind |-> "array", items |-> items]
Object(members) == [kind |-> "object", members |-> members]
Member(name, value) == [name |-> name, value |-> value]

Rank(name) == CHOOSE i \in DOMAIN NameOrder : NameOrder[i] = name

\* Object.keys(input).sort()
Sorted(members) == SortSeq(members, LAMBDA a, b : Rank(a.name) < Rank(b.name))

\* out[key] = ... sets the prototype when the key is __proto__, and
\* JSON.stringify does not write prototypes.
Assignable(members) == SelectSeq(members, LAMBDA m : m.name # "__proto__")

canonicalize[v \in Values] ==
  CASE v.kind = "array"  -> Array([i \in DOMAIN v.items |-> canonicalize[v.items[i]]])
    [] v.kind = "object" ->
         LET members == Assignable(Sorted(v.members)) IN
         Object([i \in DOMAIN members |->
                   Member(members[i].name, canonicalize[members[i].value])])
    [] OTHER -> v

\* A slip: only the members of the payload itself are sorted.
TopLevelSorted(payload) ==
  IF payload.kind = "object" THEN Object(Sorted(payload.members)) ELSE payload

canonicalFingerprint(payload) == canonicalize[payload]

----------------------------------------------------------------------------
\* The reference: what a JSON value means.  An object is an unordered
\* collection of members (RFC 8259).
unordered[v \in Values] ==
  CASE v.kind = "array"  -> Array([i \in DOMAIN v.items |-> unordered[v.items[i]]])
    [] v.kind = "object" ->
         Object({Member(v.members[i].name, unordered[v.members[i].value]) :
                   i \in DOMAIN v.members})
    [] OTHER -> v
============================================================================
