-------------------------- MODULE SampleDocuments ---------------------------
(***************************************************************************)
(* The documents a user may write: the least one the API server admits,    *)
(* with one field, anywhere in it, set to each value its type tells apart. *)
(***************************************************************************)
EXTENDS Kinds, TLC

\* A document one level further down.
Below(key, d) == [p \in {<<key>> \o q : q \in DOMAIN d} |-> d[Tail(p)]]

Root(node) == <<>> :> node
List(items) ==
  LET from(i) == IF i \in DOMAIN items THEN Below(ToString(i), items[i]) ELSE Nil
  IN Root(Arr(Len(items))) ++ from(1) ++ from(2)
Map(fields) ==
  [p \in {<<>>} \cup UNION {{<<k>> \o q : q \in DOMAIN fields[k]} : k \in DOMAIN fields} |->
     IF p = <<>> THEN Obj ELSE fields[p[1]][Tail(p)]]

RECURSIVE Least(_)
Least(t) ==
  CASE t.type = "struct" ->
         Map([k \in {k \in DOMAIN t.fields : t.fields[k].written = "always"} |->
                Least(t.fields[k].type)])
    [] t.type = "list" -> Root(Arr(0))
    [] t.type = "map" -> Root(Obj)
    [] t.type = "filled" -> Root(Leaf("v"))
    [] OTHER -> Root(Zero)

Values(t) ==
  CASE t.type = "scalar" -> {Root(Zero), Root(Leaf("v")), Root(Leaf("V"))}
    [] t.type = "filled" -> {Root(Leaf("v")), Root(Leaf("V"))}
    [] t.type = "raw" -> {Root(Null), Root(Zero), Root(Leaf("v")), List(<<Root(Zero)>>),
                          Map([k |-> Root(Leaf("v"))])}
    [] t.type = "list" -> {List(<<>>), List(<<Least(t.of)>>), List(<<Least(t.of), Least(t.of)>>)}
    [] t.type = "map" -> {Root(Obj), Map([k |-> Least(t.of)])}
    [] t.type = "struct" -> {Least(t)}

\* The paths to every field; "*" is the element of a list or a map.
RECURSIVE Paths(_)
Paths(t) ==
  {<<>>} \cup
  CASE t.type = "struct" ->
         UNION {{<<k>> \o p : p \in Paths(t.fields[k].type)} : k \in DOMAIN t.fields}
    [] t.type \in {"list", "map"} -> {<<"*">> \o p : p \in Paths(t.of)}
    [] OTHER -> {}

\* The least document with the field at path p unset or set to each value.
RECURSIVE Docs(_, _)
Docs(t, p) ==
  IF p = <<>> THEN Values(t)
  ELSE CASE t.type = "struct" ->
              LET k == Head(p)
                  least == Least(t)
                  others == [q \in {q \in DOMAIN least : q = <<>> \/ q[1] # k} |-> least[q]]
              IN {Below(k, d) ++ others : d \in Docs(t.fields[k].type, Tail(p))}
                 \cup IF t.fields[k].written = "always" THEN {} ELSE {least}
         [] t.type = "list" -> {List(<<>>)} \cup {List(<<d>>) : d \in Docs(t.of, Tail(p))}
         [] t.type = "map" ->
              {Root(Obj)} \cup {Map([k |-> d]) : d \in Docs(t.of, Tail(p))}

\* Every field of every kind.
AllFields ==
  UNION {{[kind |-> k, path |-> p] : p \in Paths(Served[k].controller.resource.spec)} :
           k \in DOMAIN Served}

\* The documents about one field; another one keeps its identity filled in.
DocumentsAbout(f) ==
  LET k == Served[f.kind].controller
      id == k.object.identity
  IN {IF f.path # <<>> /\ Head(f.path) = id THEN d
      ELSE d ++ (<<id>> :> Leaf("v")) : d \in Docs(k.resource.spec, f.path)}

\* Each document as spec, and as jsonSpec in two layouts; and text that is no
\* JSON.  Where only the body matters, one template for each body.
TemplatesAbout(f, full) ==
  LET spec == Served[f.kind].controller.resource.spec
      docs == DocumentsAbout(f)
      typed == {[form |-> "spec", doc |-> d, layout |-> "yaml"] : d \in docs}
      json(layout) == {[form |-> "jsonSpec", doc |-> d, layout |-> layout] : d \in docs}
      malformed == [form |-> "jsonSpec", doc |-> Malformed, layout |-> "compact"]
      bodies == {Render(spec, t) : t \in typed}
  IN typed \cup IF full THEN json("compact") \cup json("indented") \cup {malformed}
                ELSE {t \in json("compact") : Render(spec, t) \notin bodies}

=============================================================================
