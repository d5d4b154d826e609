-------------------------- MODULE MCMirroredObject --------------------------
(***************************************************************************)
(* Instances of MirroredObject: every field of every kind under the        *)
(* settings of a plain install, and one field under every setting that a   *)
(* flag, an environment variable or a CR decides.                          *)
(***************************************************************************)
EXTENDS MirroredObject, SampleDocuments

SampleTemplates == [f \in AllFields |-> TemplatesAbout(f, Len(f.path) <= Depth)]

NothingGiven == [name \in DOMAIN Defaults |-> Unset]

PlainCore ==
  [namespace |-> "team", ref |-> "ProviderConfig", interval |-> Unset,
   retryInterval |-> Unset]

Plain ==
  [passed |-> NothingGiven, env |-> [NothingGiven EXCEPT !.operatorNamespace = <<"operators">>],
   rejected |-> {}, core |-> PlainCore]

Passed ==
  {[NothingGiven EXCEPT !.operatorNamespace = ns, !.watchNamespaces = watched,
                        !.retryInterval = retry] :
     ns \in {Unset, <<" ">>}, watched \in {Unset, <<{"team"}>>, <<{" team"}>>, <<{" "}>>},
     retry \in {Unset, <<0>>}}
  \cup {[NothingGiven EXCEPT !.logLevel = <<"loud">>]}

Env ==
  {[NothingGiven EXCEPT !.operatorNamespace = ns] : ns \in {Unset, <<"operators">>}}

Core ==
  {[namespace |-> "team", ref |-> ref, interval |-> every, retryInterval |-> retry] :
     ref \in {"ProviderConfig", "ClusterProviderConfig"},
     every \in {Unset, <<30>>}, retry \in {Unset, <<0>>, <<5>>}}

AnySetting ==
  {[passed |-> p, env |-> e, rejected |-> r, core |-> c] :
     p \in Passed, e \in Env, r \in {{}, {"interval"}}, c \in Core}

Account == [kind |-> "ServiceAccount", path |-> <<>>]

KindCases ==
  [field : AllFields, setting : {Plain}, ready : {TRUE}] \cup
  [field : {Account}, setting : AnySetting, ready : BOOLEAN]

NothingNonZero == {}

ChannelName == [kind |-> "NotificationChannel", path |-> <<"displayName">>]

DefaultedCases == [field : {ChannelName}, setting : {Plain}, ready : {TRUE}]
DisplayNameFilled == {ChannelName}

UnsentCases ==
  [field : {f \in AllFields : f.kind \in {"User", "Role"}}, setting : {Plain},
   ready : {TRUE}]

=============================================================================
