------------------------------- MODULE Errors -------------------------------
(***************************************************************************)
(* internal/errors: every failure the operator branches on is classified   *)
(* by a Reason.  An error value is modelled by its reason alone; "Raw" is  *)
(* an error that carries no Base at all (a plain fmt or json error).       *)
(***************************************************************************)
EXTENDS Naturals

\* internal/errors/reason.go: the closed set of reasons.
Reasons ==
  { "Unknown", "InvalidInput", "Unauthorized", "Forbidden", "NotFound",
    "AlreadyExists", "TooManyRequests", "Internal", "Unreachable" }

\* Any error value: one with a Base (its reason), or one without.
ErrorValues == Reasons \cup {"Raw"}

\* The absence of an error.
NoError == "NoError"

\* The reason of the first Base in the chain, Unknown when there is none.
ReasonForError(e) == IF e = "Raw" THEN "Unknown" ELSE e

\* A faulty classification: no answer is taken for a refusal.
RetryableIfAnswered(r) ==
  r \notin {"InvalidInput", "Unauthorized", "Forbidden", "AlreadyExists", "Unreachable"}

\* A retry may fix everything but the four causes the server has settled.
Retryable(r) ==
  r \notin {"InvalidInput", "Unauthorized", "Forbidden", "AlreadyExists"}

IsRetryable(e) == e # NoError /\ Retryable(ReasonForError(e))

\* The classification of an HTTP status code.
NewFromHTTPResponse(status) ==
  CASE status \in 200..299 -> NoError
    [] status = 400 -> "InvalidInput"
    [] status = 401 -> "Unauthorized"
    [] status = 403 -> "Forbidden"
    [] status = 404 -> "NotFound"
    [] status = 409 -> "AlreadyExists"
    [] status = 429 -> "TooManyRequests"
    [] status >= 500 -> "Internal"
    [] OTHER -> "Unknown"

=============================================================================
