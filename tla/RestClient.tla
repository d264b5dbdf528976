----------------------------- MODULE RestClient -----------------------------
(***************************************************************************)
(* ProxyClient and ReportingClient: what is sent for a call and what is    *)
(* made of the HTTP response, the Proxy's or an intermediary's.  Bodies    *)
(* are reduced to their shape and the members that are looked at; signing, *)
(* attribution and the synchronous twin of each call are left out.         *)
(*                                                                         *)
(* A definition marked "variant" is what a plausible bug would make of the *)
(* one after it; no specification uses it (README, "Mutants").             *)
(***************************************************************************)
EXTENDS Errors, Integers

NoKey == -1

\* What tells one attempt from another: the nonce is drawn for it, the
\* idempotency key is the caller's; without one there is no header.
Prepare(nonce, key) == [nonce |-> nonce, key |-> key]
----------------------------------------------------------------------------
(* Responses. A member that may be missing is a set of at most one value.  *)

Body(is, error, data, orders) ==
    [is |-> is, error |-> error, data |-> data, orders |-> orders]
Object(error, data, orders) == Body("object", error, data, orders)
NotJson == Body("text", NoError, {}, {})
NotAnObject == Body("array", NoError, {}, {})

Response(status, body, retryAfter, replay) ==
    [status |-> status, body |-> body, retryAfter |-> retryAfter, replay |-> replay]

\* How a call ends.
Ended(kind, value, replay, exc) ==
    [kind |-> kind, value |-> value, replay |-> replay, exc |-> exc]
Returned(value, replay) == Ended("result", value, replay, NoException)
Raised(exc) == Ended("raised", {}, FALSE, exc)
\* With an exception that is no ProxyError.
Crashed == Ended("crashed", {}, FALSE, NoException)
----------------------------------------------------------------------------
\* Variant: the header as it is.
ParseRetryAfterAsIs(header) == header

\* Seconds are understood, a date is not.
ParseRetryAfter(header) == IF header = "seconds" THEN header ELSE Absent

HttpCode == "HTTP_STATUS"

\* The error of a response, whose "error" member is read as if an object.
Rejected(r, retryAfter) ==
    IF r.body.error.is = "bare" THEN Crashed
    ELSE Raised(FromResponse(Get(r.body.error.code, HttpCode), r.body.error.detail, retryAfter))

IsRejection(r) == r.status >= 400 \/ r.body.error.is /= "missing"

\* Variant: any JSON is taken for an object.
HandleResponseUnchecked(r) ==
    IF r.body.is = "text" THEN Raised(Unreachable)
    ELSE IF r.body.is = "array" THEN Crashed
    ELSE IF IsRejection(r) THEN Rejected(r, ParseRetryAfter(r.retryAfter))
    ELSE Returned(r.body.data, r.replay)

\* Variant: what has no error is a result, whatever its status.
HandleResponseByError(r) ==
    IF r.body.is /= "object" THEN Raised(Unreachable)
    ELSE IF r.body.error.is /= "missing" THEN Rejected(r, ParseRetryAfter(r.retryAfter))
    ELSE Returned(r.body.data, r.replay)

\* ProxyClient._handle_response: the "data" member, or {}.
HandleResponse(r) ==
    IF r.body.is /= "object" THEN Raised(Unreachable)
    ELSE IF IsRejection(r) THEN Rejected(r, ParseRetryAfter(r.retryAfter))
    ELSE Returned(r.body.data, r.replay)

\* Variant: ReportingClient unwraps "data" as well.
HandleReportUnwrapped(r) ==
    IF r.body.is /= "object" THEN Raised(Unreachable)
    ELSE IF IsRejection(r) THEN Rejected(r, Absent)
    ELSE Returned(r.body.data, FALSE)

\* ReportingClient._handle_response: the object, here its list of orders.
HandleReport(r) ==
    IF r.body.is /= "object" THEN Raised(Unreachable)
    ELSE IF IsRejection(r) THEN Rejected(r, Absent)
    ELSE Returned(r.body.orders, FALSE)

\* unresolved_orders(): KeyError if there is no such list.
UnresolvedOrders(r) ==
    LET answer == HandleReport(r)
    IN  IF answer.kind = "result" /\ answer.value = {} THEN Crashed ELSE answer

\* The transport fails: httpx.RequestError.
CallFails == Raised(Unreachable)
============================================================================
