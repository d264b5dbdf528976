-------------------------- MODULE PendingRequests --------------------------
(***************************************************************************)
(* Request/response correlation of the WebSocket client: the map of        *)
(* pending futures (websocket/_rpc.py), the coroutines that wait in        *)
(* request() and _ping_once(), and the receive loop that settles them.     *)
(*                                                                         *)
(* A future is created by exactly one coroutine, which is the only one to  *)
(* await it, so a future is named by its caller.  The connection and the   *)
(* supervisor are the environment of module Connectivity, which module     *)
(* Supervisor implements.                                                  *)
(*                                                                         *)
(* A definition marked "variant" is what a plausible bug would make of the *)
(* one after it; no specification uses it (README, "Mutants").             *)
(***************************************************************************)
EXTENDS Connectivity, Sequences, FiniteSets

CONSTANTS
    Requesters,      \* coroutines that call request(), subscribe(), ...
    Pingers,         \* coroutines that run _ping_once(): ping(), the heartbeat
    ReplayCallers,   \* the supervisor's own subscribe() calls, one at a time
    HandlerCallers,  \* requests a message handler awaits inside the pump
    NoCaller,        \* no coroutine
    DispatchRaises,  \* may a frame make _dispatch itself raise?
    MaxId,           \* bound on the req_id counter
    MaxTickets,      \* bound on the frames the callers send
    MaxInbox         \* bound on the frames received and not yet read

Callers == Requesters \cup Pingers

ASSUME CallersAssumption ==
    /\ ReplayCallers \subseteq Requesters
    /\ HandlerCallers \subseteq Requesters
    /\ ReplayCallers \cap HandlerCallers = {}
    /\ Requesters \cap Pingers = {}
    /\ NoCaller \notin Callers

ASSUME BoundsAssumption ==
    /\ DispatchRaises \in BOOLEAN
    /\ MaxId \in Nat /\ MaxTickets \in Nat
    /\ MaxEpoch \in Nat /\ MaxInbox \in Nat

\* The fixed slot of the pong; req_ids are the positive keys.
PongKey == 0
Keys == 0 .. MaxId

\* The key of a frame that carries no correlation id.
NoKey == -1

\* A frame from the Proxy. The ticket says which call it answers: it is known
\* to the model only, the client sees type and key.
Frames == [type : {"reply", "pong", "push", "error"},
           key : Keys \cup {NoKey}, ticket : 0 .. MaxTickets]
Answer(c, k, t) ==
    [type |-> IF c \in Pingers THEN "pong" ELSE "reply", key |-> k, ticket |-> t]
Push == [type |-> "push", key |-> NoKey, ticket |-> 0]
ErrorNoId == [type |-> "error", key |-> NoKey, ticket |-> 0]

\* How a wait stands: no call, pending, the result is there, fail_all's
\* ConnectionError, cancelled, timed out.
FutureStates == {"none", "pending", "result", "error", "cancelled", "timeout"}

VARIABLES
    blockedOn,  \* the handler's caller the pump is waiting for, or NoCaller
    inbox,      \* frames received on the current connection, not yet read
    owed,       \* answers the Proxy may still send on the current connection
    counter,    \* _counter
    futures,    \* _futures: the caller whose future is under each key
    phase,      \* each caller: idle, sending (inside send), waiting
    fut,        \* each caller's future
    key,        \* the key each caller registered
    ticket,     \* which call of all calls this is
    tickets,    \* number of calls that sent a frame so far
    sentOn,     \* the connection each caller sent on
    got         \* the ticket of the frame that settled each caller

netVars  == <<inbox, owed>>
callVars == <<phase, key, ticket, tickets, sentOn>>
vars == <<envVars, blockedOn, netVars, counter, futures, fut, got,
          callVars>>

TypeOK ==
    /\ LineTypeOK
    /\ blockedOn \in HandlerCallers \cup {NoCaller}
    /\ inbox \in Seq(Frames)
    /\ owed \subseteq Frames
    /\ counter \in 0 .. MaxId
    /\ futures \in [Keys -> Callers \cup {NoCaller}]
    /\ phase \in [Callers -> {"idle", "sending", "waiting"}]
    /\ fut \in [Callers -> FutureStates]
    /\ key \in [Callers -> Keys]
    /\ ticket \in [Callers -> 0 .. MaxTickets]
    /\ tickets \in 0 .. MaxTickets
    /\ sentOn \in [Callers -> 0 .. MaxEpoch]
    /\ got \in [Callers -> 0 .. MaxTickets]

Init ==
    /\ LineInit
    /\ blockedOn = NoCaller
    /\ inbox = <<>> /\ owed = {}
    /\ counter = 0
    /\ futures = [k \in Keys |-> NoCaller]
    /\ phase = [c \in Callers |-> "idle"]
    /\ fut = [c \in Callers |-> "none"]
    /\ key = [c \in Callers |-> 0]
    /\ ticket = [c \in Callers |-> 0]
    /\ tickets = 0
    /\ sentOn = [c \in Callers |-> 0]
    /\ got = [c \in Callers |-> 0]
----------------------------------------------------------------------------
(* The map of futures. *)

\* Variants: the ping's finally drops the slot whoever holds it; only request()
\* has a finally; the whole map is cleared.
DiscardAlways(c) == [futures EXCEPT ![key[c]] = NoCaller]
DiscardRequests(c) ==
    [futures EXCEPT ![key[c]] = IF c \in Requesters THEN NoCaller ELSE @]
DiscardEverything(c) == [k \in Keys |-> NoCaller]

\* discard(key) for a request; discard_pong(fut) for a ping, which drops the
\* slot only while it still holds the ping's own future.
Discard(c) ==
    [futures EXCEPT ![key[c]] = IF c \in Requesters \/ @ = c THEN NoCaller ELSE @]

\* Variant: the map is cleared, the futures are forgotten.
ClearOnly(how) == UNCHANGED fut /\ futures' = [k \in Keys |-> NoCaller]

\* fail_all / cancel_all: settle every registered future that is not done,
\* then clear the map.
SettleAll(how) ==
    /\ fut' = [c \in Callers |->
                IF fut[c] = "pending" /\ \E k \in Keys : futures[k] = c
                THEN how ELSE fut[c]]
    /\ futures' = [k \in Keys |-> NoCaller]

\* The caller resolve() finds under the key of a frame.
Waiter(f) == IF f.key \in Keys THEN futures[f.key] ELSE NoCaller

\* Variant: only pongs are correlated.
ResolvesPongs(f) == f.type \in {"pong", "error"}

\* resolve() returns True: a waiter is registered, or the frame is an error
\* that carries no correlation id.
Resolves(f) == Waiter(f) /= NoCaller \/ f.type = "error"

\* Variant: the frame's type is stored where the outcome belongs.
SettleWithType(f) ==
    IF Waiter(f) /= NoCaller
    THEN /\ fut' = [fut EXCEPT ![Waiter(f)] = f.type]
         /\ got' = [got EXCEPT ![Waiter(f)] = f.ticket]
    ELSE UNCHANGED <<fut, got>>

\* _settle(): the result is set unless the future is done already.
Settle(f) ==
    LET w == Waiter(f) IN
    IF w /= NoCaller /\ fut[w] = "pending"
    THEN /\ fut' = [fut EXCEPT ![w] = "result"]
         /\ got' = [got EXCEPT ![w] = f.ticket]
    ELSE UNCHANGED <<fut, got>>
----------------------------------------------------------------------------
(* The callers. *)

\* Whose turn it can be: the supervisor replays in its own phase, a handler
\* calls while the pump waits for that handler, user coroutines at any time.
MayCall(c) ==
    /\ phase[c] = "idle"
    /\ c \in ReplayCallers => mode = "replay"
    /\ c \in HandlerCallers => blockedOn = c

\* create(key) and the write of the frame, up to where send() may suspend.
Begin(c, k) ==
    /\ open
    /\ tickets < MaxTickets
    /\ tickets' = tickets + 1
    /\ futures' = [futures EXCEPT ![k] = c]
    /\ phase' = [phase EXCEPT ![c] = "sending"]
    /\ fut' = [fut EXCEPT ![c] = "pending"]
    /\ key' = [key EXCEPT ![c] = k]
    /\ ticket' = [ticket EXCEPT ![c] = tickets + 1]
    /\ sentOn' = [sentOn EXCEPT ![c] = epoch]
    /\ owed' = owed \cup {Answer(c, k, tickets + 1)}
    /\ UNCHANGED <<envVars, blockedOn, inbox, got>>

\* Variant: next_id() gives out the same id again.
RequestReusesId(c) ==
    /\ MayCall(c)
    /\ counter < MaxId
    /\ Begin(c, counter + 1)
    /\ UNCHANGED counter

Request(c) ==
    /\ MayCall(c)
    /\ counter < MaxId
    /\ counter' = counter + 1
    /\ Begin(c, counter + 1)

Ping(p) ==
    /\ MayCall(p)
    /\ Begin(p, PongKey)
    /\ UNCHANGED counter

\* A request that ends before anything is sent: send() raises RuntimeError on
\* a closed socket, or the dialect has no frame for the method
\* (NotImplementedError). next_id() has moved the counter all the same.
RequestRefused(c) ==
    /\ MayCall(c)
    /\ counter < MaxId
    /\ counter' = counter + 1
    /\ UNCHANGED <<envVars, blockedOn, netVars, futures, fut, got, callVars>>

\* A ping on a closed socket takes the slot and drops it on its way out,
\* whoever held it before.
PingRefused(p) ==
    /\ MayCall(p)
    /\ ~open
    /\ futures' = [futures EXCEPT ![PongKey] = NoCaller]
    /\ UNCHANGED <<envVars, blockedOn, netVars, counter, fut, got, callVars>>

\* send() returns: the write buffer has drained. It is bound to the connection
\* of its time, which is open still if it was replaced because its pump ended.
SendDone(c) ==
    /\ phase[c] = "sending" /\ fut[c] /= "cancelled"
    /\ \/ open /\ sentOn[c] = epoch
       \/ DispatchRaises /\ sentOn[c] /= epoch
    /\ phase' = [phase EXCEPT ![c] = "waiting"]
    /\ UNCHANGED <<envVars, blockedOn, netVars, counter, futures, fut,
                   got, key, ticket, tickets, sentOn>>

\* The coroutine leaves through `finally`.
Leave(c) ==
    /\ futures' = Discard(c)
    /\ phase' = [phase EXCEPT ![c] = "idle"]
    /\ fut' = [fut EXCEPT ![c] = "none"]
    /\ key' = [key EXCEPT ![c] = 0]
    /\ ticket' = [ticket EXCEPT ![c] = 0]
    /\ sentOn' = [sentOn EXCEPT ![c] = 0]
    /\ got' = [got EXCEPT ![c] = 0]
    /\ UNCHANGED <<envVars, blockedOn, netVars, counter, tickets>>

\* send() raises ConnectionClosed: the socket it was bound to is gone or its
\* close handshake has begun.
SendFails(c) ==
    /\ phase[c] = "sending" /\ fut[c] /= "cancelled"
    /\ ~open \/ sentOn[c] /= epoch \/ mode = "stopping"
    /\ Leave(c)

\* wait_for's timer fires. It also wins over a result or an error that was set
\* in the same turn of the event loop (wait_for of Python 3.12 and later).
Timeout(c) ==
    /\ phase[c] = "waiting"
    /\ fut[c] \in {"pending", "result", "error"}
    /\ fut' = [fut EXCEPT ![c] = "timeout"]
    /\ UNCHANGED <<envVars, blockedOn, netVars, counter, futures, got,
                   callVars>>

\* The caller's task is cancelled from outside.
Abandon(c) ==
    /\ phase[c] /= "idle" /\ fut[c] /= "cancelled"
    /\ fut' = [fut EXCEPT ![c] = "cancelled"]
    /\ UNCHANGED <<envVars, blockedOn, netVars, counter, futures, got,
                   callVars>>

\* Variant: only an answer or an error wakes the caller.
ResumeOnAnswer(c) ==
    /\ phase[c] = "waiting" /\ fut[c] \in {"result", "error"}
    /\ Leave(c)

\* The caller runs again after its wait ended.
Resume(c) ==
    /\ \/ phase[c] = "waiting" /\ fut[c] /= "pending"
       \/ phase[c] = "sending" /\ fut[c] = "cancelled"
    /\ Leave(c)
----------------------------------------------------------------------------
(* The receive loop. *)

PumpFree == mode = "pump" /\ blockedOn = NoCaller

\* _dispatch of the next frame: settle the waiter, or hand the frame to the
\* channel handlers, one of which may await a request of its own.
Dispatch ==
    /\ PumpFree
    /\ inbox /= <<>>
    /\ inbox' = Tail(inbox)
    /\ \/ /\ Resolves(Head(inbox))
          /\ Settle(Head(inbox))
          /\ UNCHANGED blockedOn
       \/ /\ ~Resolves(Head(inbox))
          /\ blockedOn' \in HandlerCallers \cup {NoCaller}
          /\ UNCHANGED <<fut, got>>
    /\ UNCHANGED <<envVars, owed, counter, futures, callVars>>

\* The handler returns to the pump, after its request if it made one.
HandlerReturns ==
    /\ blockedOn /= NoCaller
    /\ phase[blockedOn] = "idle"
    /\ blockedOn' = NoCaller
    /\ UNCHANGED <<envVars, netVars, counter, futures, fut, got, callVars>>

\* Variant: the waiters are not failed when the pump ends.
PumpOverQuietly == PumpReturns /\ UNCHANGED <<futures, fut>>

\* _pump returns and _supervise fails what is in flight.
PumpOver == PumpReturns /\ SettleAll("error")

\* The iteration over a closed socket ends once the frames that had arrived
\* are read.
PumpEnds ==
    /\ PumpFree
    /\ ~open
    /\ inbox = <<>>
    /\ PumpOver
    /\ UNCHANGED <<blockedOn, netVars, counter, got, callVars>>

\* _dispatch raises (a JSON frame that is not an object, a dialect that raises,
\* a handler that awaits something cancelled): the pump ends although the
\* socket is open.
DispatchFails ==
    /\ DispatchRaises
    /\ PumpFree
    /\ inbox /= <<>>
    /\ inbox' = Tail(inbox)
    /\ PumpOver
    /\ UNCHANGED <<blockedOn, owed, counter, got, callVars>>
----------------------------------------------------------------------------
(* The Proxy, over an ordered stream. *)

\* It answers what it was asked, in any order; an order request may get more
\* than one frame with its id, a ping gets one pong.
Serve(f) ==
    /\ open /\ mode /= "handshake"
    /\ Len(inbox) < MaxInbox
    /\ inbox' = Append(inbox, f)
    /\ owed' \in {owed \ {f}} \cup (IF f.type = "reply" THEN {owed} ELSE {})
    /\ UNCHANGED <<envVars, blockedOn, counter, futures, fut, got, callVars>>

\* It sends data, or refuses a frame it could not attribute to a request.
Unsolicited(f) ==
    /\ open /\ mode /= "handshake"
    /\ Len(inbox) < MaxInbox
    /\ inbox' = Append(inbox, f)
    /\ UNCHANGED <<envVars, blockedOn, owed, counter, futures, fut, got,
                   callVars>>

\* What is on its way is lost with the connection.
Drop ==
    /\ Lost
    /\ owed' = {}
    /\ UNCHANGED <<blockedOn, inbox, counter, futures, fut, got, callVars>>
----------------------------------------------------------------------------
(* What the supervisor, start() and stop() do to the connection. *)

Connect(isFirst) ==
    /\ Opening(isFirst)
    /\ inbox' = <<>> /\ owed' = {}
    /\ UNCHANGED <<blockedOn, counter, futures, fut, got, callVars>>

\* The steps of connecting touch no call.
ConnectGoesOn ==
    /\ \/ SocketUp \/ OpeningFails \/ Authenticated
       \/ Replayed /\ \A c \in ReplayCallers : phase[c] = "idle"
    /\ UNCHANGED <<blockedOn, netVars, counter, futures, fut, got, callVars>>

\* The calls the supervise task itself is awaiting.
SupervisorCalls == {c \in ReplayCallers \cup {blockedOn} :
                        c \in Callers /\ phase[c] /= "idle"}

\* stop() cancels the supervise task, and with it the request that task is
\* awaiting (a replayed subscribe, or one inside a handler).
StopBegin ==
    /\ StopBegins
    /\ fut' = [c \in Callers |-> IF c \in SupervisorCalls THEN "cancelled" ELSE fut[c]]
    /\ UNCHANGED <<blockedOn, netVars, counter, futures, got, callVars>>

\* ... waits for it, closes the connection and cancels every waiter.
StopEnd ==
    /\ StopIsOver
    /\ SupervisorCalls = {}
    /\ blockedOn' = NoCaller
    /\ inbox' = <<>> /\ owed' = {}
    /\ SettleAll("cancelled")
    /\ UNCHANGED <<counter, got, callVars>>
----------------------------------------------------------------------------
CallerStep(c) ==
    \/ SendDone(c) \/ SendFails(c) \/ Timeout(c) \/ Abandon(c) \/ Resume(c)

CallerNext ==
    \/ \E c \in Requesters : Request(c) \/ RequestRefused(c)
    \/ \E p \in Pingers : Ping(p) \/ PingRefused(p)
    \/ \E c \in Callers : CallerStep(c)

PumpNext == Dispatch \/ HandlerReturns \/ PumpEnds \/ DispatchFails

ProxyNext ==
    \/ \E f \in owed : Serve(f)
    \/ \E f \in {Push, ErrorNoId} : Unsolicited(f)
    \/ Drop

SupervisorNext ==
    \/ \E b \in BOOLEAN : Connect(b)
    \/ ConnectGoesOn
    \/ StopBegin \/ StopEnd

Next == CallerNext \/ PumpNext \/ ProxyNext \/ SupervisorNext

Spec == Init /\ [][Next]_vars

\* The event loop runs what is ready and fires what is due: a caller whose wait
\* ended is resumed, a timer that expired fires.
WaitsEnd == \A c \in Callers : WF_vars(Timeout(c) \/ Resume(c))

\* The transport drains or reports that it is gone: an assumption about the
\* peer, since request()'s timeout does not cover send().
SendsEnd == \A c \in Callers : WF_vars(SendDone(c) \/ SendFails(c))

FairSpec == Spec /\ WaitsEnd /\ SendsEnd
----------------------------------------------------------------------------
(* Properties. *)

InFlight(c) == phase[c] /= "idle"
Pending(c) == InFlight(c) /\ fut[c] = "pending"

\* A request returns the answer to the very call it made: not one to an earlier
\* request, of another coroutine, or from before a reconnect (next_id never
\* reuses a key, resolve settles by key).
RepliesCorrelated ==
    \A c \in Requesters : fut[c] = "result" => got[c] = ticket[c]

\* A request that can still be answered can be found: resolve, fail_all and
\* cancel_all all reach it through the map. A slot lost to another coroutine's
\* discard would leave its caller to the timeout.
RequestsRegistered ==
    \A c \in Requesters : Pending(c) => futures[key[c]] = c

\* Whatever way a call ends (answer, timeout, cancellation, dead socket, drop,
\* stop), its slot is gone when it is over: the map does not grow.
NoSlotLeak ==
    \A k \in Keys : futures[k] /= NoCaller =>
        InFlight(futures[k]) /\ key[futures[k]] = k

(* The invariant behind the three above, in parts.                           *)

\* A call in flight uses a key next_id has given out; a ping uses its slot.
KeysFresh ==
    /\ \A c \in Requesters : InFlight(c) => key[c] \in 1 .. counter
    /\ \A p \in Pingers : key[p] = PongKey

\* No two requests in flight have the same key.
KeysUnique ==
    \A c, d \in Requesters :
        InFlight(c) /\ InFlight(d) /\ key[c] = key[d] => c = d

\* A frame the Proxy has sent or may send is no answer to a call not yet made,
\* and if its key is in use now, it answers the very call that uses it.
FrameKnown(f) ==
    /\ f.type = "reply" => f.key \in 1 .. counter
    /\ f.type = "pong" => f.key = PongKey
    /\ f.type \in {"push", "error"} => f.key = NoKey
    /\ \A c \in Requesters :
          InFlight(c) /\ f.type = "reply" /\ f.key = key[c] => f.ticket = ticket[c]
FramesKnown ==
    /\ \A f \in owed : FrameKnown(f)
    /\ \A i \in 1 .. Len(inbox) : FrameKnown(inbox[i])

\* Only a call in flight has a result.
ResultsInFlight == \A c \in Callers : fut[c] = "result" => InFlight(c)

Correlation ==
    /\ TypeOK /\ NoSlotLeak /\ RequestsRegistered /\ KeysFresh /\ KeysUnique
    /\ FramesKnown /\ ResultsInFlight /\ RepliesCorrelated

\* Nobody waits for the answer to a frame that went out on an earlier
\* connection (fail_all on every drop, cancel_all on stop).
NoCrossConnectionWait ==
    \A c \in Requesters : Pending(c) => sentOn[c] = epoch

\* The end of the pump and the end of stop() leave no call pending: "its
\* caller is failed immediately rather than left to time out" (_rpc.py). The
\* exception is a ping whose slot another ping has taken: it is left to.
DropFailsEveryone ==
    [][(mode \in {"pump", "stopping", "failed", "crashed"}
            /\ mode' \in {"idle", "backoff", "crashed"} \ {mode})
        => \A c \in Callers : \/ phase'[c] = "idle" \/ fut'[c] /= "pending"
                              \/ c \in Pingers /\ futures[PongKey] /= c]_vars

\* A ping that ends does not take the slot of the ping that holds it now.
LoserKeepsWinner ==
    [][\A p, q \in Pingers :
        p /= q /\ InFlight(p) /\ phase'[p] = "idle" /\ futures[PongKey] = q
        => futures'[PongKey] = q]_vars

\* The pump reads a frame, and goes on pumping.
Reads == PumpFree /\ mode' = "pump" /\ inbox /= <<>> /\ inbox' = Tail(inbox)

\* An answer read while its caller still waits for it settles that caller; it
\* does not fall through to the channel handlers.
AnswersConsumed ==
    [][\A c \in Requesters :
        Reads /\ Pending(c) /\ Head(inbox).type = "reply"
              /\ Head(inbox).ticket = ticket[c]
        => fut'[c] = "result"]_vars

\* Every call ends, by an answer, an error or the timeout. That takes SendsEnd:
\* without it a call is held in its send(), which no timeout covers.
CallsEnd == \A c \in Callers : InFlight(c) ~> ~InFlight(c)
----------------------------------------------------------------------------
(* What the documentation says and the code does not do.                    *)

\* request() times out "if nothing came back": while nobody is reading the
\* connection (the supervisor replays, or the pump waits for a handler), a
\* timed-out call's answer is not among what came back.
TimeoutMeansNoReply ==
    [][\A c \in Requesters :
        Pending(c) /\ fut'[c] = "timeout" /\ ~PumpFree
        => \A i \in 1 .. Len(inbox) :
              ~(inbox[i].type = "reply" /\ inbox[i].ticket = ticket[c])]_vars
============================================================================
