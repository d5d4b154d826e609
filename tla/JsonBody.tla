------------------------------ MODULE JsonBody ------------------------------
(***************************************************************************)
(* internal/jsonbody: the request bodies the operator sends and the answers *)
(* it compares them with, as JSON documents.                               *)
(*                                                                         *)
(* A path is a sequence of keys and list indices, and a document a function *)
(* from the paths in it, the root <<>> among them, to nodes.  A list's     *)
(* node has its length, and an object's nothing: the keys are further paths. *)
(* Every string, number and boolean is a scalar: "zero" is "", 0 or false, *)
(* and "v" and "V" are two values that differ in case only.                *)
(***************************************************************************)
EXTENDS Sequences

Null == [json |-> "null"]
Leaf(val) == [json |-> "scalar", val |-> val]
Zero == Leaf("zero")
Arr(len) == [json |-> "array", len |-> len]
Obj == [json |-> "object"]

\* What x has, and what only y has.
x ++ y == [p \in DOMAIN x \cup DOMAIN y |-> IF p \in DOMAIN x THEN x[p] ELSE y[p]]

\* The root, which has no first key, and the paths that lead into some fields.
Top(x) == {p \in DOMAIN x : 1 \notin DOMAIN p}
Into(x, fields) == {p \in DOMAIN x : 1 \in DOMAIN p /\ p[1] \in fields}

\* gjson: a value that is not there reads as null.
At(x, key) == IF <<key>> \in DOMAIN x THEN x[<<key>>] ELSE Null

-----------------------------------------------------------------------------
(* diff.go *)

\* A faulty test that takes every list and every object for a default.
ZeroUnlessScalar(y) == y.json # "scalar" \/ y.val = "zero"

\* A JSON zero value, or an object: whatever the object holds is asked the same.
isDeepZero(y) == y \in {Null, Zero, Arr(0), Obj}

\* The paths at which x and y differ.  What only y has counts unless it is zero;
\* an element only y has makes its list's length differ.
Diff(x, y) ==
  (DOMAIN x \ DOMAIN y) \cup
  {p \in DOMAIN x \cap DOMAIN y : x[p] # y[p]} \cup
  {p \in DOMAIN y \ DOMAIN x : ~isDeepZero(y[p])}

\* Equal paths, or an ancestor and a descendant; the root overlaps every path.
overlaps(x, y) == \A i \in DOMAIN x \cap DOMAIN y : x[i] = y[i]

\* The fields that overlap one of the paths.
Intersect(paths, fields) == {f \in fields : \E p \in paths : overlaps(<<f>>, p)}

-----------------------------------------------------------------------------
(* extract.go and hash.go.  A rendered body is its value and its layout. *)

\* The string at a top-level key; null, "" and no value at all are errors.
NoString == "none"
ExtractString(x, key) ==
  IF At(x, key) \in {Null, Zero} THEN NoString ELSE At(x, key).val

\* Nothing, not even a root.
Nil == [p \in {} |-> Null]

\* The body cut down to some fields, nil when none of them is there.
ExtractFields(x, fields) ==
  IF Into(x, fields) = {} THEN Nil
  ELSE [p \in Top(x) \cup Into(x, fields) |-> x[p]]

\* A faulty hash, of the bytes as they are written.
HashOfBytes(body) == body

\* Parsed and marshalled again before it is hashed: the layout is gone.
Hash(body) == [value |-> body.value, layout |-> "canonical"]

=============================================================================
