----------------------------- MODULE OrderRetry -----------------------------
(***************************************************************************)
(* An order placed through the Proxy by a caller that retries: by REST     *)
(* (ProxyClient.call) or over the socket (ProxyWebSocketClient.request),   *)
(* with one idempotency key for all attempts, as the library asks for.     *)
(* Requests and answers are lost and delayed: an attempt that was given up *)
(* may still be served, after its retry or never.  The Proxy's claims on   *)
(* keys, the venue and whatever stands between client and Proxy are        *)
(* external, modelled from what errors.py and idempotency.py say of them.  *)
(*                                                                         *)
(* A request is one attempt: its nonce is its number among the attempts of *)
(* its intent.  A key stands for a different value for every intent.       *)
(***************************************************************************)
EXTENDS RestClient, Dialect

CONSTANTS
    Intents,      \* orders a caller decides to place
    MaxAttempts,  \* bound on the attempts per order
    BareErrors    \* intermediaries answer objects whose "error" is no object

ASSUME OrderRetryAssumption == MaxAttempts \in Nat /\ BareErrors \in BOOLEAN

Routes == {"rest", "socket"}

\* The key the caller made for its order; those that request() makes have the
\* number of their attempt.
OwnKey == 0

\* Requests [intent, nonce, key].
Requests == [intent : Intents, nonce : 1 .. MaxAttempts, key : NoKey .. MaxAttempts]

Refusals == {"RATE_LIMITED", "AUTH_FAILED", "LOG_UNAVAILABLE"}
Codes == {"OK", "EXCHANGE_ERROR", "IDEMPOTENCY_IN_FLIGHT", "IDEMPOTENCY_KEY_REQUIRED"}
         \cup Refusals
Answers == [to : Requests, code : Codes, detail : Details, replay : BOOLEAN]

VARIABLES
    route,      \* how the order is placed
    given,      \* whether the caller supplies a key
    attempts,   \* attempts made
    last,       \* how the last attempt ended
    net,        \* requests on their way
    answers,    \* answers on their way
    forwarded,  \* requests sent on to the venue: they hold their key's claim
    placed,     \* orders the venue placed, by their request
    refused,    \* requests the venue refused
    recorded,   \* requests whose outcome the Proxy knows
    lost,       \* requests whose outcome it reported as unknown
    report      \* the last report of unresolved orders

caller == <<route, given, attempts, last>>
proxy == <<forwarded, recorded, lost>>
venue == <<placed, refused>>
vars == <<caller, net, answers, proxy, venue, report>>

\* The placed order, as the venue's reply tells of it.
Confirmed == {"confirmed"}

NotAsked == Ended("none", {}, FALSE, NoException)
Waiting == Ended("waiting", {}, FALSE, NoException)
TimedOut == Raised(Error("TimeoutError", Absent, Absent, Absent))

TypeOK ==
    /\ route \in [Intents -> Routes] /\ given \in [Intents -> BOOLEAN]
    /\ attempts \in [Intents -> 0 .. MaxAttempts]
    /\ \A i \in Intents : last[i].exc.retryAfter \in {Absent, "seconds"}
    /\ net \subseteq Requests /\ answers \subseteq Answers
    /\ forwarded \subseteq Requests
    /\ placed \subseteq forwarded /\ refused \subseteq forwarded
    /\ recorded \subseteq placed \cup refused /\ lost \subseteq forwarded

Init ==
    /\ route \in [Intents -> Routes] /\ given \in [Intents -> BOOLEAN]
    /\ attempts = [i \in Intents |-> 0]
    /\ last = [i \in Intents |-> NotAsked]
    /\ net = {} /\ answers = {}
    /\ forwarded = {} /\ placed = {} /\ refused = {} /\ recorded = {} /\ lost = {}
    /\ report = [outcome |-> NotAsked, answered |-> FALSE, doubtful |-> {}]
----------------------------------------------------------------------------
(* The caller. *)

\* Variant: a new key for every attempt.
RequestKeyFresh(key, nonce) == nonce

\* request() makes a key if none is supplied.
RequestKey(key, nonce) == IF key = NoKey THEN nonce ELSE key

\* The request of attempt n.
Attempt(i, n) ==
    LET key == IF given[i] THEN OwnKey ELSE NoKey
        rest == Prepare(n, key)
        frame == RequestFrame("kraken", "add_order", n, RequestKey(key, n))
    IN  [intent |-> i, nonce |-> n, key |-> IF route[i] = "rest" THEN rest.key ELSE frame.key]

\* Not what the class rules out; a TimeoutError tells nothing.
MayRetry(ended) ==
    \/ ended.kind = "raised" /\ Retryable(ended.exc) /= "no"
    \/ ended = TimedOut

\* The first attempt, or a retry: only with the key of the first one.
Call(i) ==
    /\ attempts[i] < MaxAttempts
    /\ last[i] = NotAsked \/ (given[i] /\ MayRetry(last[i]))
    /\ attempts' = [attempts EXCEPT ![i] = @ + 1]
    /\ last' = [last EXCEPT ![i] = Waiting]
    /\ net' = net \cup {Attempt(i, attempts'[i])}
    /\ UNCHANGED <<route, given, answers, proxy, venue, report>>

\* An attempt ends: nobody hears what is answered to it later.
Ends(i, ended) ==
    /\ last[i] = Waiting
    /\ last' = [last EXCEPT ![i] = ended]
    /\ answers' = {a \in answers : a.to.intent /= i}
    /\ UNCHANGED <<route, given, attempts, net, proxy, venue, report>>

\* The connection fails or nothing comes in time: httpx.RequestError on one
\* route, TimeoutError or ConnectionError on the other.
TransportFails(i) == Ends(i, IF route[i] = "rest" THEN CallFails ELSE TimedOut)

\* What something else than the Proxy answers: a page, a list, an object that
\* is not the Proxy's envelope.
Foreign ==
    {Response(s, b, Absent, FALSE) : s \in {200, 502}, b \in {NotJson, NotAnObject}}
    \cup {Response(502, Object(NoError, {}, {}), Absent, FALSE),
          Response(429, Object(NoError, {}, {}), "date", FALSE)}
    \cup IF BareErrors THEN {Response(502, Object(BareError, {}, {}), Absent, FALSE)} ELSE {}

Intercepted(i) ==
    /\ route[i] = "rest"
    /\ \E r \in Foreign : Ends(i, HandleResponse(r))

\* The Proxy's answer, as a response and as a frame.
AnswerResponse(a, wait) ==
    IF a.code = "OK" THEN Response(200, Object(NoError, {Confirmed}, {}), Absent, a.replay)
    ELSE Response(400, Object(ErrorObject(a.code, a.detail), {}, {}), wait, a.replay)
AnswerFrame(a) ==
    IF a.code = "OK" THEN [EmptyFrame EXCEPT !.event = "result"]
    ELSE [EmptyFrame EXCEPT !.event = "error", !.error = ErrorObject(a.code, a.detail)]

\* What request() makes of its reply.
RequestEnds(f) ==
    LET exc == ErrorOf("kraken", f)
    IN  IF exc = NoException THEN Returned({Confirmed}, FALSE) ELSE Raised(exc)

Answered(a) ==
    /\ a \in answers
    /\ \E wait \in {Absent, "seconds", "date"} :
            Ends(a.to.intent,
                 IF route[a.to.intent] = "rest" THEN HandleResponse(AnswerResponse(a, wait))
                 ELSE RequestEnds(AnswerFrame(a)))
----------------------------------------------------------------------------
(* The Proxy. *)

IsHeard(r) == last[r.intent] = Waiting /\ attempts[r.intent] = r.nonce

\* An answer to an attempt that was given up is lost.
Answer(r, code, detail, replay) ==
    answers' = IF IsHeard(r)
               THEN answers \cup {[to |-> r, code |-> code, detail |-> detail, replay |-> replay]}
               ELSE answers

\* Before it is forwarded.
Refuse(r, code) ==
    /\ r \in net
    /\ net' = net \ {r}
    /\ Answer(r, IF r.key = NoKey THEN "IDEMPOTENCY_KEY_REQUIRED" ELSE code, Absent, FALSE)
    /\ UNCHANGED <<caller, proxy, venue, report>>

SameKey(r, f) == f.intent = r.intent /\ f.key = r.key

\* Forwarded under the claim of its key.
Forward(r) ==
    /\ r \in net
    /\ r.key /= NoKey
    /\ \A f \in forwarded : ~SameKey(r, f)
    /\ net' = net \ {r}
    /\ forwarded' = forwarded \cup {r}
    /\ UNCHANGED <<caller, answers, recorded, lost, venue, report>>

\* The key is claimed: the recorded answer again, or "in flight".
Repeat(r) ==
    /\ r \in net
    /\ \E f \in forwarded :
        /\ SameKey(r, f)
        /\ IF f \in recorded
           THEN Answer(r, IF f \in placed THEN "OK" ELSE "EXCHANGE_ERROR", Absent, TRUE)
           ELSE Answer(r, "IDEMPOTENCY_IN_FLIGHT", Absent, FALSE)
    /\ net' = net \ {r}
    /\ UNCHANGED <<caller, proxy, venue, report>>

\* The venue's reply arrives ...
Record(r) ==
    /\ r \in (placed \cup refused) \ (recorded \cup lost)
    /\ recorded' = recorded \cup {r}
    /\ Answer(r, IF r \in placed THEN "OK" ELSE "EXCHANGE_ERROR", Absent, FALSE)
    /\ UNCHANGED <<caller, net, forwarded, lost, venue, report>>

\* ... or does not: the claim stays in flight.
LoseOutcome(r) ==
    /\ r \in forwarded \ (recorded \cup lost)
    /\ lost' = lost \cup {r}
    /\ Answer(r, "EXCHANGE_ERROR", "outcome_unknown", FALSE)
    /\ UNCHANGED <<caller, net, forwarded, recorded, venue, report>>
----------------------------------------------------------------------------
(* The venue and the auditor. *)

Decide(r, ok) ==
    /\ r \in forwarded \ (placed \cup refused)
    /\ placed' = IF ok THEN placed \cup {r} ELSE placed
    /\ refused' = IF ok THEN refused ELSE refused \cup {r}
    /\ UNCHANGED <<caller, net, answers, proxy, report>>

Unresolved == {r.intent : r \in forwarded \ recorded}

\* Orders whose caller has been told that the outcome is unknown.
Doubtful == {i \in Intents : OutcomeUnknown(last[i].exc)}

\* unresolved_orders(): answered by the reporting API, refused, or intercepted.
Report(r) ==
    /\ report' = [outcome |-> UnresolvedOrders(r), answered |-> r.body.orders /= {},
                  doubtful |-> Doubtful]
    /\ UNCHANGED <<caller, net, answers, proxy, venue>>

ReportAnswers ==
    {Response(200, Object(NoError, {}, {Unresolved}), Absent, FALSE),
     Response(403, Object(ErrorObject("ACTION_NOT_PERMITTED", Absent), {}, {}), Absent, FALSE)}
----------------------------------------------------------------------------
Next ==
    \/ \E i \in Intents : Call(i) \/ TransportFails(i) \/ Intercepted(i)
    \/ \E a \in answers : Answered(a)
    \/ \E r \in net : Forward(r) \/ Repeat(r) \/ \E code \in Refusals : Refuse(r, code)
    \/ \E r \in forwarded :
            Record(r) \/ LoseOutcome(r) \/ \E ok \in BOOLEAN : Decide(r, ok)
    \/ \E r \in ReportAnswers \cup Foreign : Report(r)

Spec == Init /\ [][Next]_vars
----------------------------------------------------------------------------
(* Properties. *)

\* One decision of the caller is never two orders, whatever was lost, late or
\* retried on the way.
AtMostOnePlaced == \A r, s \in placed : r.intent = s.intent => r = s

\* A call that returns tells the venue's confirmation of an order that is
\* there, and idempotent_replay whether an earlier attempt placed it.
ResultMeansPlaced ==
    \A i \in Intents :
        last[i].kind = "result" =>
            /\ last[i].value = {Confirmed}
            /\ \E r \in placed :
                /\ r.intent = i
                /\ route[i] = "rest" => last[i].replay = (r.nonce /= attempts[i])

\* An exception that names a decision is right about it: the venue's refusal
\* means that there is no order, any other that this attempt made none.
VerdictsAreTrue ==
    \A i \in Intents :
        last[i].kind = "raised" /\ last[i].exc.class \in ByCode =>
            \A r \in placed :
                r.intent = i =>
                    IF last[i].exc.class = "EXCHANGE_ERROR" THEN OutcomeUnknown(last[i].exc)
                    ELSE r.nonce /= attempts[i]

\* Every exception is a ProxyError (or, over the socket, a TimeoutError).
OnlyTypedErrors == \A i \in Intents : last[i].kind /= "crashed"

\* An order whose outcome its caller was told to be unknown is on the list of
\* unresolved orders, if the auditor gets one.
DoubtfulIsListed ==
    report.answered =>
        /\ report.outcome.kind = "result"
        /\ \A list \in report.outcome.value : report.doubtful \subseteq list
============================================================================
