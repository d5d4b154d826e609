------------------------- MODULE MCProviderConfig -------------------------
(***************************************************************************)
(* The instances of ProviderConfig that TLC checks.                        *)
(***************************************************************************)
EXTENDS ProviderConfig

CONSTANTS url, token, padded, blank, pem

Values == {Empty, url, token, padded, blank, pem}

\* Surrounding whitespace goes; a blank value is empty.
MCTrimmed == [ v \in Values |-> CASE v = padded -> token
                                  [] v = blank -> Empty
                                  [] OTHER -> v ]

Config(kind, namespace) == [kind |-> kind, namespace |-> namespace, name |-> "p"]
App == Config("ProviderConfig", "app")
Shared == Config("ClusterProviderConfig", "")

Inline(v) == [from |-> "value", name |-> "", key |-> "", value |-> v]
From(kind, name, key) == [from |-> kind, name |-> name, key |-> key, value |-> Empty]
Unset == [from |-> "none", name |-> "", key |-> "", value |-> Empty]
MCSpec(e, h, ca) == [endpoint |-> e, header |-> h, ca |-> ca]

\* One namespaced config over a Secret and a ConfigMap of the same name.
OneConfig == {App}
OneResource == { [namespace |-> "app", name |-> "x"] }
SameName == { Ref("Secret", "app", "s"), Ref("ConfigMap", "app", "s") }
BareRef == { [kind |-> "", name |-> "p"] }

\* A sound spec, one whose endpoint is no URL, one that names a key not there.
SameNameSpecs ==
  { MCSpec(Inline(url), From("ConfigMap", "s", "k"), From("Secret", "s", "k")),
    MCSpec(From("ConfigMap", "s", "k"), From("Secret", "s", "k"), Unset),
    MCSpec(Inline(url), From("Secret", "s", "j"), Unset) }

\* A certificate, which is a credential but no URL.
Certificate == { [k |-> pem] }

\* A cluster-wide config, Secrets of one name in two namespaces, and a resource
\* that moves between it and a ProviderConfig of the same name nobody made.
ClusterConfig == {Shared}
BothNamespaces == { Ref("Secret", "app", "s"), Ref("Secret", "operator", "s") }
KeySpec == { MCSpec(Inline(url), From("Secret", "s", "k"), Unset) }
TwinRefs == { [kind |-> "", name |-> "p"],
              [kind |-> "ClusterProviderConfig", name |-> "p"] }
OneSecret == { Ref("Secret", "app", "s") }
Everything == Configs \cup References
WithoutDecoy == Everything \ OneSecret

\* A spec that resolves, and one that names a key not there.
KeySpecs == KeySpec \cup { MCSpec(Inline(url), From("Secret", "s", "j"), Unset) }

\* A credential with a newline after it, or nothing but whitespace.
Credentials == { [k |-> padded], [k |-> blank] }
OneToken == { [k |-> token] }

Budgets(writes, edits, moves, faults, drops, crashes) ==
  [writes |-> writes, edits |-> edits, points |-> moves, faults |-> faults,
   drops |-> drops, crashes |-> crashes]

RotationBudget == Budgets(2, 1, 0, 1, 0, 0)
ClusterBudget == Budgets(1, 1, 1, 0, 0, 1)
ChainBudget == Budgets(1, 1, 0, 1, 0, 0)
ReplayBudget == Budgets(1, 0, 0, 0, 1, 0)

=============================================================================
