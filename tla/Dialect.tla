------------------------------ MODULE Dialect ------------------------------
(***************************************************************************)
(* The wire vocabularies of websocket/_dialect.py: how a request is framed *)
(* and under which key its caller waits, and what is read from an inbound  *)
(* frame.  Parameters and payloads are left out; the TYPE of an id is not, *)
(* since a key that is a number never equals one that is a string.         *)
(*                                                                         *)
(* A definition marked "variant" is what a plausible bug would make of the *)
(* one after it; no specification uses it (README, "Mutants").             *)
(***************************************************************************)
EXTENDS Errors, Naturals

\* dialect_for_exchange knows these.
Exchanges == {"kraken", "okx"}

SubscribeMethods == {"subscribe", "unsubscribe"}
OrderMethods ==
    {"add_order", "amend_order", "edit_order", "cancel_order", "batch_add", "batch_cancel"}

NoId == [is |-> "none", n |-> 0]
Number(n) == [is |-> "int", n |-> n]
String(n) == [is |-> "str", n |-> n]

\* OKX raises NotImplementedError for anything but its two subscribe methods.
Supports(exchange, method) == exchange = "kraken" \/ method \in SubscribeMethods

\* The outbound frame of request n. Kraken's orders carry the number twice.
RequestFrame(exchange, method, n, idempotencyKey) ==
    IF exchange = "kraken"
    THEN [method |-> method, reqId |-> Number(n),
          id |-> IF method \in OrderMethods THEN Number(n) ELSE NoId,
          key |-> idempotencyKey]
    ELSE [method |-> method, reqId |-> NoId, id |-> String(n), key |-> Absent]

\* Variant: the number itself, whatever the venue echoes.
WaitsUnderNumber(exchange, n) == Number(n)

\* The key its caller waits under.
WaitsUnder(exchange, n) == IF exchange = "kraken" THEN Number(n) ELSE String(n)
----------------------------------------------------------------------------
(* Inbound frames: Kraken's "data" and OKX's "detail" are one field.       *)

EmptyFrame ==
    [event |-> Absent, success |-> TRUE, id |-> NoId, reqId |-> NoId, channel |-> Absent,
     argChannel |-> Absent, code |-> Absent, error |-> NoError, detail |-> Absent]

\* The key of the request a frame answers, if any.
ResponseKey(exchange, f) == IF exchange = "kraken" /\ f.id = NoId THEN f.reqId ELSE f.id

ChannelOf(exchange, f) == IF exchange = "kraken" THEN f.channel ELSE f.argChannel

WebSocketRequestError ==
    Error("WebSocketRequestError", "WebSocketRequestError", Absent, Absent)

\* Variant: the code is looked for at the top level only.
ErrorOfTopLevel(exchange, f) ==
    IF f.event = "error" THEN FromResponse(Get(f.code, "UNKNOWN"), f.detail, Absent)
    ELSE IF exchange = "kraken" /\ ~f.success THEN WebSocketRequestError
    ELSE NoException

\* What request() raises for a reply: the Proxy's own error, on Kraken nested
\* or not, or the venue's refusal.
ErrorOf(exchange, f) ==
    IF f.event = "error" THEN
        IF exchange = "kraken" /\ f.error.is = "object"
        THEN FromResponse(Get(f.error.code, "UNKNOWN"), f.error.detail, Absent)
        ELSE FromResponse(Get(f.code, "UNKNOWN"), f.detail, Absent)
    ELSE IF exchange = "kraken" /\ ~f.success THEN WebSocketRequestError
    ELSE NoException
============================================================================
