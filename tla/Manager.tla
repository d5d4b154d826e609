------------------------------ MODULE Manager -------------------------------
(***************************************************************************)
(* cmd/config.go and internal/config: how flags and environment become the *)
(* configuration the manager runs with, and the delays the common          *)
(* reconciler derives from it and from a CR.  Only the settings the        *)
(* reconcilers depend on are kept; times are in seconds.                   *)
(***************************************************************************)
EXTENDS Integers, Sequences, FiniteSets

\* A setting that was not given is <<>>, one that was is <<value>>.
Unset == <<>>

\* RegisterFlags: the flags and their defaults.
Defaults ==
  [logLevel |-> "info", operatorNamespace |-> "", watchNamespaces |-> {},
   interval |-> 600, retryInterval |-> 60]

\* Set: a flag not passed resolves from the environment.
Given(passed, env, name) ==
  IF passed[name] # Unset THEN passed[name][1]
  ELSE IF env[name] # Unset THEN env[name][1] ELSE Defaults[name]

Set(passed, env) == [name \in DOMAIN Defaults |-> Given(passed, env, name)]

\* An environment variable its flag rejects; one that is overridden is not read.
SetFails(passed, rejected) == \E name \in rejected : passed[name] = Unset

\* strings.TrimSpace, on the namespaces the instances use.
TrimSpace(ns) == CASE ns = " " -> "" [] ns = " team" -> "team" [] OTHER -> ns

\* What zapcore.ParseLevel takes, which NewLoggerWithZap calls.
Levels == {"debug", "info", "warn", "error", "dpanic", "panic", "fatal"}

\* buildConfig: the level must parse and the operator's namespace be given.
buildConfig(c) == c.logLevel \in Levels /\ TrimSpace(c.operatorNamespace) # ""

\* A faulty scope: exactly the namespaces that were asked for.
ScopeAsGiven(c) == [all |-> c.watchNamespaces = {}, namespaces |-> c.watchNamespaces]

\* buildCacheOptions: every namespace, or the named ones and the operator's.
buildCacheOptions(c) ==
  [all |-> c.watchNamespaces = {},
   namespaces |-> ({TrimSpace(ns) : ns \in c.watchNamespaces} \ {""})
                    \cup {c.operatorNamespace}]

InScope(c, ns) == buildCacheOptions(c).all \/ ns \in buildCacheOptions(c).namespaces

-----------------------------------------------------------------------------
(* The delays of the common reconciler *)

Positive(d) == d # Unset /\ d[1] > 0

interval(core, c) == IF Positive(core.interval) THEN core.interval[1] ELSE c.interval

\* A faulty fallback that takes the flag as it is.
RetryAsGiven(core, c) ==
  IF Positive(core.retryInterval) THEN core.retryInterval[1] ELSE c.retryInterval

retryInterval(core, c) ==
  CASE Positive(core.retryInterval) -> core.retryInterval[1]
    [] ~Positive(core.retryInterval) /\ Positive(core.interval) -> core.interval[1]
    [] OTHER -> IF c.retryInterval > 0 THEN c.retryInterval ELSE c.interval

requeueAfterOnNotFound == 1

=============================================================================
