------------------------------ MODULE Dispatch ------------------------------
(***************************************************************************)
(* What becomes of an inbound frame: _dispatch resolves a reply to the     *)
(* caller that waits for it, in the vocabulary of the venue, and _deliver  *)
(* hands any other frame to the handlers of its channel and then to the    *)
(* "*" handlers, while handlers and other coroutines register and remove   *)
(* handlers.  Handlers are awaited one after the other, so anything may    *)
(* happen between two of them.  One frame is dispatched at a time: _pump   *)
(* awaits _dispatch.  Connections are those of PendingRequests.            *)
(*                                                                         *)
(* A definition marked "variant" is what a plausible bug would make of the *)
(* one after it; no specification uses it (README, "Mutants").             *)
(***************************************************************************)
EXTENDS Dialect, SequencesExt

CONSTANTS
    Handlers,     \* callbacks
    Methods,      \* methods that are requested
    MaxRequests,  \* bound on the requests made
    MaxRegistered \* bound on the registrations at one time

ASSUME DispatchAssumption == MaxRequests \in Nat /\ MaxRegistered \in Nat

Channels == {"book", "heartbeat"}
Lists == Channels \cup {"*"}
Requests == 1 .. MaxRequests

\* What the Proxy or the venue makes of a request.
NewCode == "A_CODE_OF_TOMORROW"
Verdicts == {"accepted", "WebSocketRequestError", "RATE_LIMITED", NewCode}

VARIABLES
    exchange,   \* the venue, fixed
    handlers,   \* _handlers; a list that is empty differs from none
    sent,       \* the method of every request made, by its number
    waiting,    \* _pending: the requests whose future is registered
    outcome,    \* the request the last frame resumed, and how it ended:
                \* NoException is a return
    answered,   \* requests whose reply has been received
    about,      \* history: the request the last frame is about, the verdict
    reading,    \* the pump reads
    frame,      \* the frame in hand
    phase,      \* where _dispatch is
    todo,       \* what is left of the snapshot of a list
    always,     \* history: pairs of a list of this frame's and a handler that
                \* was on it throughout, so far
    called      \* history: such pairs, as they were called

callerVars == <<sent, waiting, outcome, answered, about>>
frameVars == <<frame, phase, todo, always, called>>
vars == <<exchange, handlers, callerVars, reading, frameVars>>

Phases == {"idle", "resolve", "channel", "star"}
NoRequest == 0
Outcomes ==
    {NoException, WebSocketRequestError, FromResponse("RATE_LIMITED", Absent, Absent),
     FromResponse(NewCode, Absent, Absent)}

TypeOK ==
    /\ exchange \in Exchanges
    /\ DOMAIN handlers \subseteq Lists
    /\ \A c \in DOMAIN handlers : handlers[c] \in Seq(Handlers) /\ IsInjective(handlers[c])
    /\ sent \in Seq(Methods) /\ waiting \subseteq DOMAIN sent
    /\ outcome \in [n : Requests \cup {NoRequest}, exc : Outcomes]
    /\ answered \subseteq DOMAIN sent
    /\ about \in [n : Requests \cup {NoRequest}, verdict : Verdicts \cup {Absent}]
    /\ reading \in BOOLEAN /\ phase \in Phases
    /\ todo \in Seq(Handlers)
    /\ always \subseteq Lists \X Handlers /\ called \in Seq(Lists \X Handlers)

Init ==
    /\ exchange \in Exchanges
    /\ handlers = [c \in {} |-> <<>>]
    /\ sent = <<>> /\ waiting = {}
    /\ outcome = [n |-> NoRequest, exc |-> NoException]
    /\ answered = {} /\ about = [n |-> NoRequest, verdict |-> Absent]
    /\ reading = TRUE
    /\ frame = EmptyFrame /\ phase = "idle" /\ todo = <<>>
    /\ always = {} /\ called = <<>>
----------------------------------------------------------------------------
(* Registration, by a handler or by any coroutine, at any time. *)

Registered(c) == IF c \in DOMAIN handlers THEN handlers[c] ELSE <<>>

\* dict[c] = seq.
Put(c, seq) ==
    handlers' = [l \in DOMAIN handlers \cup {c} |-> IF l = c THEN seq ELSE handlers[l]]

Registrations == {p \in Lists \X Handlers : Contains(Registered(p[1]), p[2])}

\* A handler is on a list at most once (bound).
AddHandler(c, h) ==
    /\ ~Contains(Registered(c), h) /\ Cardinality(Registrations) < MaxRegistered
    /\ Put(c, Append(Registered(c), h))
    /\ UNCHANGED <<exchange, callerVars, reading, frameVars>>

\* An emptied list stays.
RemoveHandler(c, h) ==
    /\ Contains(Registered(c), h)
    /\ Put(c, RemoveFirst(Registered(c), h))
    /\ always' = always \ {<<c, h>>}
    /\ UNCHANGED <<exchange, callerVars, reading, frame, phase, todo, called>>

ClearHandlers(cs) ==
    /\ handlers' = [l \in DOMAIN handlers \ cs |-> handlers[l]]
    /\ always' = {p \in always : p[1] \notin cs}
    /\ UNCHANGED <<exchange, callerVars, reading, frame, phase, todo, called>>
----------------------------------------------------------------------------
(* request(), and the replies of the Proxy and the venue. *)

Request(method) ==
    /\ Len(sent) < MaxRequests
    /\ Supports(exchange, method)
    /\ sent' = Append(sent, method)
    /\ waiting' = waiting \cup {Len(sent')}
    /\ UNCHANGED <<exchange, handlers, outcome, answered, about, reading, frameVars>>

TimeOut(n) ==
    /\ n \in waiting
    /\ waiting' = waiting \ {n}
    /\ UNCHANGED <<exchange, handlers, sent, outcome, answered, about, reading, frameVars>>

\* The frames that tell request n a verdict. Kraken answers a subscribe under
\* req_id and an order under id; OKX echoes id. A code is nested or not; the
\* Proxy's error to a frame it could not read names no request.
Replies(n, verdict) ==
    LET request == RequestFrame(exchange, sent[n], n, Absent)
        echo == [EmptyFrame EXCEPT
                    !.id = request.id,
                    !.reqId = IF request.id = NoId THEN request.reqId ELSE NoId]
        error == [echo EXCEPT !.event = "error"]
    IN  IF verdict = "accepted" THEN
            IF exchange = "okx"
            THEN {[echo EXCEPT !.event = sent[n], !.argChannel = "book"]}
            ELSE {echo, [echo EXCEPT !.event = "result"]}
        ELSE IF verdict = "WebSocketRequestError" THEN
            IF exchange = "kraken" THEN {[echo EXCEPT !.success = FALSE]} ELSE {}
        ELSE {[error EXCEPT !.code = verdict],
              [error EXCEPT !.code = verdict, !.id = NoId, !.reqId = NoId]}
             \cup IF exchange = "kraken"
                  THEN {[error EXCEPT !.error = ErrorObject(verdict, Absent)]} ELSE {}

\* Data of a channel.
Push(c) == [EmptyFrame EXCEPT !.channel = IF exchange = "kraken" THEN c ELSE Absent,
                              !.argChannel = IF exchange = "okx" THEN c ELSE Absent]

Receive(f) ==
    /\ reading
    /\ phase = "idle"
    /\ frame' = f
    /\ phase' = "resolve"
    /\ outcome' = [n |-> NoRequest, exc |-> NoException]
    /\ UNCHANGED <<exchange, handlers, sent, waiting, reading, todo, always, called>>

\* A request is answered once.
ReceiveReply(n, verdict) ==
    /\ n \notin answered
    /\ answered' = answered \cup {n}
    /\ about' = [n |-> n, verdict |-> verdict]
    /\ \E f \in Replies(n, verdict) : Receive(f)

ReceivePush(c) ==
    /\ Receive(Push(c))
    /\ about' = [n |-> NoRequest, verdict |-> Absent]
    /\ UNCHANGED answered

\* JSON that is no object: msg.get raises, the pump funnels it to reconnect.
ReceiveNonObject ==
    /\ reading /\ phase = "idle"
    /\ reading' = FALSE
    /\ UNCHANGED <<exchange, handlers, callerVars, frameVars>>
----------------------------------------------------------------------------
(* _dispatch. *)

Idle == phase' = "idle" /\ frame' = EmptyFrame /\ todo' = <<>> /\ always' = {} /\ called' = <<>>

Answered == {n \in waiting : WaitsUnder(exchange, n) = ResponseKey(exchange, frame)}

\* Its caller is resumed: it returns, or raises what the dialect reads.
ResolveReply ==
    /\ phase = "resolve"
    /\ \E n \in Answered :
        /\ waiting' = waiting \ {n}
        /\ outcome' = [n |-> n, exc |-> ErrorOf(exchange, frame)]
    /\ Idle
    /\ UNCHANGED <<exchange, handlers, sent, answered, about, reading>>

\* Consumed though nobody waits: an error that names no request.
Swallow ==
    /\ phase = "resolve"
    /\ Answered = {}
    /\ frame.event = "error" /\ ResponseKey(exchange, frame) = NoId
    /\ Idle
    /\ UNCHANGED <<exchange, handlers, callerVars, reading>>

\* Nobody listens for heartbeats: "*" does not count.
SkipHeartbeat ==
    ChannelOf(exchange, frame) = "heartbeat" /\ "heartbeat" \notin DOMAIN handlers

\* Variant: the handlers registered last come first.
SnapshotReversed(c) == Reverse(Registered(c))

\* list(self._handlers[c]).
Snapshot(c) == Registered(c)

\* The frame goes to the handlers of its channel, if it has any.
Deliver ==
    LET c == ChannelOf(exchange, frame) IN
    /\ phase = "resolve"
    /\ Answered = {}
    /\ ~(frame.event = "error" /\ ResponseKey(exchange, frame) = NoId)
    /\ IF SkipHeartbeat THEN Idle
       ELSE /\ phase' = "channel"
            /\ todo' = Snapshot(c)
            /\ always' = UNION {{<<l, h>> : h \in ToSet(Registered(l))} : l \in {c, "*"}}
            /\ UNCHANGED <<frame, called>>
    /\ UNCHANGED <<exchange, handlers, callerVars, reading>>

\* Then to those of "*", as they are now.
DeliverToAll ==
    /\ phase = "channel" /\ todo = <<>>
    /\ phase' = "star"
    /\ todo' = Snapshot("*")
    /\ UNCHANGED <<exchange, handlers, callerVars, reading, frame, always, called>>

\* Variant: an exception leaves the loop.
RestStopping(raises) == IF raises THEN <<>> ELSE Tail(todo)

\* Who is called after this one: an exception is caught, on_error told.
Rest(raises) == Tail(todo)

CallHandler(raises) ==
    /\ todo /= <<>>
    /\ called' = Append(called, <<IF phase = "star" THEN "*" ELSE ChannelOf(exchange, frame),
                                  Head(todo)>>)
    /\ todo' = Rest(raises)
    /\ UNCHANGED <<exchange, handlers, callerVars, reading, frame, phase, always>>

\* CancelledError is no Exception: out of a handler it ends the pump.
HandlerCancelled ==
    /\ todo /= <<>>
    /\ reading' = FALSE
    /\ Idle
    /\ UNCHANGED <<exchange, handlers, callerVars>>

Delivered ==
    /\ phase = "star" /\ todo = <<>>
    /\ Idle
    /\ UNCHANGED <<exchange, handlers, callerVars, reading>>
----------------------------------------------------------------------------
Next ==
    \/ \E c \in Lists, h \in Handlers : AddHandler(c, h) \/ RemoveHandler(c, h)
    \/ \E cs \in {{c} : c \in Lists} \cup {Lists} : ClearHandlers(cs)
    \/ \E method \in Methods : Request(method)
    \/ \E n \in DOMAIN sent : TimeOut(n) \/ \E verdict \in Verdicts : ReceiveReply(n, verdict)
    \/ \E c \in Channels : ReceivePush(c)
    \/ ReceiveNonObject
    \/ ResolveReply \/ Swallow \/ Deliver \/ DeliverToAll
    \/ \E raises \in BOOLEAN : CallHandler(raises)
    \/ HandlerCancelled \/ Delivered

Spec == Init /\ [][Next]_vars
----------------------------------------------------------------------------
(* Properties. *)

\* A handler that was registered throughout the delivery of a frame is called
\* once, whatever the others do to the registry or raise.
EveryHandlerIsCalled ==
    /\ IsInjective(called)
    /\ phase = "star" /\ todo = <<>> => always \subseteq ToSet(called)

\* Two of them are called in the order in which they were registered.
InRegistrationOrder ==
    \A i, j \in 1 .. Len(called) :
        /\ i < j /\ called[i][1] = called[j][1]
        /\ called[i] \in always /\ called[j] \in always
        => LET list == handlers[called[i][1]]
           IN  \E k, l \in 1 .. Len(list) :
                   k < l /\ list[k] = called[i][2] /\ list[l] = called[j][2]

\* A reply that names its request, and finds it waiting, reaches it: it is
\* neither swallowed nor handed to the handlers.
NamesARequest == frame.id /= NoId \/ frame.reqId /= NoId
ReplyReachesItsCaller ==
    [][phase = "resolve" /\ phase' /= "resolve" /\ about.n \in waiting /\ NamesARequest =>
            outcome'.n = about.n /\ about.n \notin waiting']_vars

\* request() returns if and only if it was accepted, and raises the code it was
\* refused with, known to this client or not; only a known one may be retried.
OutcomeIsTheVerdict ==
    outcome.n /= NoRequest =>
        LET exc == outcome.exc IN
        IF about.verdict = "accepted" THEN exc = NoException
        ELSE /\ exc.code = about.verdict
             /\ Retryable(exc) = IF about.verdict = "RATE_LIMITED" THEN "yes" ELSE "no"
============================================================================
