------------------------------- MODULE Errors -------------------------------
(***************************************************************************)
(* The typed errors of errors.py, shared by the REST, the reporting and    *)
(* the WebSocket client: which class an error code becomes and what the    *)
(* class says about a retry.  A class is known by its code; messages and   *)
(* request ids are left out.                                               *)
(*                                                                         *)
(* A definition marked "variant" is what a plausible bug would make of the *)
(* one after it; no specification uses it (README, "Mutants").             *)
(***************************************************************************)

\* What a missing field, header or parameter is.
Absent == "absent"

Details == {Absent, "outcome_unknown"}

\* The codes with a class of their own, by the class's `retryable`.
Final ==
    {"AUTH_FAILED", "CREDENTIAL_EXPIRED", "ACTION_NOT_PERMITTED", "MALFORMED_REQUEST",
     "IDEMPOTENCY_KEY_REQUIRED", "IDEMPOTENCY_KEY_REUSED", "STREAM_PARAMS_CONFLICT",
     "RISK_LIMIT_EXCEEDED"}
Transient == {"IDEMPOTENCY_IN_FLIGHT", "LOG_UNAVAILABLE", "RATE_LIMITED"}
Depends == {"EXCHANGE_ERROR", "KILL_SWITCH_ACTIVE"}
ByCode == Final \cup Transient \cup Depends

Error(class, code, detail, retryAfter) ==
    [class |-> class, code |-> code, detail |-> detail, retryAfter |-> retryAfter]

NoException == Error(Absent, Absent, Absent, Absent)

\* Variant: the detail is not kept.
FromResponseBare(code, detail, retryAfter) ==
    Error(IF code \in ByCode THEN code ELSE "ProxyError", code, Absent,
          IF code = "RATE_LIMITED" THEN retryAfter ELSE Absent)

\* A code this client does not know becomes the base class.
FromResponse(code, detail, retryAfter) ==
    Error(IF code \in ByCode THEN code ELSE "ProxyError", code, detail,
          IF code = "RATE_LIMITED" THEN retryAfter ELSE Absent)

\* Raised by the client, never sent by the Proxy.
Unreachable == Error("PROXY_UNREACHABLE", "PROXY_UNREACHABLE", Absent, Absent)

\* Variant: what is not known to be final may be retried.
RetryableUnlessFinal(exc) ==
    IF exc.class \in Final THEN "no"
    ELSE IF exc.class \in Depends \cup {"PROXY_UNREACHABLE"} THEN "depends"
    ELSE "yes"

\* TRUE, None and FALSE; an unknown code fails closed.
Retryable(exc) ==
    IF exc.class \in Transient THEN "yes"
    ELSE IF exc.class \in Depends \cup {"PROXY_UNREACHABLE"} THEN "depends"
    ELSE "no"

OutcomeUnknown(exc) == exc.class = "EXCHANGE_ERROR" /\ exc.detail = "outcome_unknown"
----------------------------------------------------------------------------
(* The "error" member of a JSON object: missing, an object with or without *)
(* a code, or something else (null, a string, a list).                     *)

ErrorMember(is, code, detail) == [is |-> is, code |-> code, detail |-> detail]
NoError == ErrorMember("missing", Absent, Absent)
BareError == ErrorMember("bare", Absent, Absent)
ErrorObject(code, detail) == ErrorMember("object", code, detail)

\* dict.get(key, default).
Get(value, default) == IF value = Absent THEN default ELSE value
============================================================================
