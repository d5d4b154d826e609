------------------------------- MODULE Schema -------------------------------
(***************************************************************************)
(* How the typed form of an object template is described and marshalled.   *)
(* A struct of the generated types (api/resources/v1alpha1) is a function  *)
(* from its JSON keys to what the tags and the validation markers say of   *)
(* each: when encoding/json writes it, and the values it may hold.         *)
(***************************************************************************)
EXTENDS JsonBody, Integers

\* Types.  A scalar may be zero; one with MinLength=1 or an Enum may not.
Scalar == [type |-> "scalar"]
Filled == [type |-> "filled"]
Raw == [type |-> "raw"]                              \* apiextensionsv1.JSON
ListOf(t) == [type |-> "list", of |-> t]
MapOf(t) == [type |-> "map", of |-> t]
Struct(fields) == [type |-> "struct", fields |-> fields]

Each(keys, t) == [k \in keys |-> t]

\* Field groups: always written; omitempty on a value; omitempty on a pointer.
Group(written, types) ==
  [k \in DOMAIN types |-> [written |-> written, type |-> types[k]]]
Required(types) == Group("always", types)
Omitempty(types) == Group("nonzero", types)
Pointer(types) == Group("set", types)

\* A resource's objectTemplate holds exactly one of spec and jsonSpec.
Resource(spec) == [spec |-> spec, forms |-> {"spec", "jsonSpec"}]

-----------------------------------------------------------------------------
(* render.go *)

\* The type of what is one step below a value of type t.
Child(t, key) ==
  CASE t.type = "struct" /\ key \in DOMAIN t.fields -> t.fields[key].type
    [] t.type \in {"list", "map"} -> t.of
    [] OTHER -> Raw

\* The type of what is at path p of a value of type t.
TypeAt(t, p) ==
  LET type[i \in 0..Len(p)] == IF i = 0 THEN t ELSE Child(type[i - 1], p[i])
  IN type[Len(p)]

\* Whether json.Marshal writes the field f holding what v has at p: a null never
\* gets past decoding, and omitempty drops zero scalars and empty lists and maps.
Written(f, v, p) ==
  \/ f.written = "always"
  \/ f.written = "set" /\ v[p] # Null
  \/ /\ f.written = "nonzero"
     /\ v[p] \notin {Null, Zero, Arr(0)}
     /\ v[p] = Obj => \E q \in DOMAIN v : Len(q) > Len(p) /\ overlaps(p, q)

\* json.Marshal of the typed spec the document v was decoded into: what is in
\* no field, or not written, is left out with all that is below it.
Marshal(t, v) ==
  LET left(q) ==
        LET s == TypeAt(t, SubSeq(q, 1, Len(q) - 1))
            key == q[Len(q)]
        IN /\ s.type = "struct"
           /\ key \in DOMAIN s.fields => ~Written(s.fields[key], v, q)
      out == {q \in DOMAIN v \ {<<>>} : left(q)}
  IN [p \in {p \in DOMAIN v : \A q \in out : Len(q) > Len(p) \/ ~overlaps(q, p)} |-> v[p]]

\* Text that is no JSON.
Malformed == Nil
Failed == [failed |-> TRUE]

\* Render: the typed spec marshalled, or the jsonSpec as it is written.
Render(t, template) ==
  CASE template.form = "spec" ->
         [value |-> Marshal(t, template.doc), layout |-> "compact"]
    [] template.form = "jsonSpec" /\ template.doc # Malformed ->
         [value |-> template.doc, layout |-> template.layout]
    [] OTHER -> Failed

=============================================================================
