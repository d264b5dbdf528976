--------------------------- MODULE Subscriptions ---------------------------
(***************************************************************************)
(* The subscription registry of ProxyWebSocketClient: subscribe() and      *)
(* unsubscribe(), which change it once their answer is there, and the      *)
(* replay after a reconnect, over the connection of module Connectivity.   *)
(*                                                                         *)
(* Calls are anonymous: a coroutine's call is known by the number of its   *)
(* frame.  All of them wait ten seconds, so they time out in the order in  *)
(* which they were sent.  A future and the coroutine it wakes are one step *)
(* here; PendingRequests has the two apart.                                *)
(*                                                                         *)
(* A definition marked "variant" is what a plausible bug would make of the *)
(* one after it; no specification uses it (README, "Mutants").             *)
(***************************************************************************)
EXTENDS Connectivity, SequencesExt

CONSTANTS
    Entries,   \* pairs of a channel and its parameters
    MaxCalls   \* bound on the calls of subscribe() and unsubscribe()

ASSUME SubscriptionsAssumption == MaxEpoch \in Nat /\ MaxCalls \in Nat

Ops == {"subscribe", "unsubscribe"}

\* The number of the supervisor's own calls: it never reads their answers.
Replay == 0

\* A call, and the frame it sends.
Calls == [op : Ops, entry : Entries, persist : BOOLEAN, id : 0 .. MaxCalls]
Answers == [id : 0 .. MaxCalls, ok : BOOLEAN]

VARIABLES
    subs,      \* _subscriptions
    todo,      \* what is left of the snapshot that is being replayed
    waiting,   \* the calls that wait for an answer, in the order sent
    calls,     \* the calls made so far
    wire,      \* frames on their way to the Proxy
    active,    \* what the venue has switched on for this connection
    inbox,     \* answers received and not yet read
    maybeOn,   \* entries with a subscribe() on this connection that did not
               \* end in the registry: not persistent, timed out
    maybeOff   \* entries with an unsubscribe() on this connection that ended
               \* without an answer, or a subscribe() that was refused, or
               \* registered before a connection that replays nothing

netVars == <<wire, active, inbox>>
knowVars == <<maybeOn, maybeOff>>
vars == <<envVars, subs, todo, waiting, calls, netVars, knowVars>>

TypeOK ==
    /\ LineTypeOK
    /\ subs \in Seq(Entries) /\ todo \in Seq(Entries)
    /\ waiting \in Seq(Calls) /\ calls \in 0 .. MaxCalls
    /\ wire \in Seq(Calls) /\ active \subseteq Entries /\ inbox \in Seq(Answers)
    /\ maybeOn \subseteq Entries /\ maybeOff \subseteq Entries

Init ==
    /\ LineInit
    /\ subs = <<>> /\ todo = <<>> /\ waiting = <<>> /\ calls = 0
    /\ wire = <<>> /\ active = {} /\ inbox = <<>>
    /\ maybeOn = {} /\ maybeOff = {}
----------------------------------------------------------------------------
(* subscribe() and unsubscribe(). *)

Send(call) == wire' = Append(wire, call) /\ waiting' = Append(waiting, call)

\* The frame goes out on whatever socket is open; a closed one raises
\* RuntimeError and nothing happens.
Call(op, e, persist) ==
    /\ open
    /\ calls < MaxCalls
    /\ calls' = calls + 1
    /\ Send([op |-> op, entry |-> e, persist |-> persist, id |-> calls + 1])
    /\ UNCHANGED <<envVars, subs, todo, active, inbox, knowVars>>

\* Variants: the entry is recorded with its channel among the parameters; it is
\* recorded again.
RegisteredUnclean(call) == Append(subs, call)
RegisteredAgain(call) ==
    IF call.op = "unsubscribe" THEN RemoveFirst(subs, call.entry)
    ELSE IF call.persist THEN Append(subs, call.entry) ELSE subs

\* What an answered call makes of the registry.
Registered(call) ==
    IF call.op = "unsubscribe" THEN RemoveFirst(subs, call.entry)
    ELSE IF call.persist /\ ~Contains(subs, call.entry) THEN Append(subs, call.entry)
    ELSE subs

\* The pump reads an answer. Its call is resumed if it still waits; a refusal
\* makes it raise.
Read ==
    /\ mode = "pump"
    /\ inbox /= <<>>
    /\ inbox' = Tail(inbox)
    /\ \/ \E i \in 1 .. Len(waiting) :
            LET call == waiting[i] IN
            /\ call.id = Head(inbox).id
            /\ waiting' = RemoveAt(waiting, i)
            /\ subs' = IF Head(inbox).ok THEN Registered(call) ELSE subs
            /\ maybeOn' = IF call.op = "subscribe" /\ ~call.persist
                          THEN maybeOn \cup {call.entry} ELSE maybeOn
       \/ /\ \A i \in 1 .. Len(waiting) : waiting[i].id /= Head(inbox).id
          /\ UNCHANGED <<waiting, subs, maybeOn>>
    /\ UNCHANGED <<envVars, todo, calls, wire, active, maybeOff>>

\* What is known of an entry after a call about it that had no answer.
Unanswered(call) ==
    /\ maybeOn' = IF call.op = "subscribe" /\ call.id /= Replay
                  THEN maybeOn \cup {call.entry} ELSE maybeOn
    /\ maybeOff' = IF call.op = "unsubscribe" THEN maybeOff \cup {call.entry} ELSE maybeOff

\* Variants: whichever call times out; replaying ends with the first failure;
\* the replay waits as long as it takes.
TimeOutAny ==
    \E i \in 1 .. Len(waiting) :
        /\ Unanswered(waiting[i])
        /\ waiting' = RemoveAt(waiting, i)
        /\ UNCHANGED <<envVars, subs, todo, calls, netVars>>
TimeOutEndsReplay ==
    /\ waiting /= <<>>
    /\ Unanswered(Head(waiting))
    /\ waiting' = Tail(waiting)
    /\ todo' = IF Head(waiting).id = Replay THEN <<>> ELSE todo
    /\ UNCHANGED <<envVars, subs, calls, netVars>>
TimeOutUsers ==
    /\ waiting /= <<>> /\ Head(waiting).id /= Replay
    /\ Unanswered(Head(waiting))
    /\ waiting' = Tail(waiting)
    /\ UNCHANGED <<envVars, subs, todo, calls, netVars>>

\* The call sent first times out. The replay logs that and goes on.
TimeOut ==
    /\ waiting /= <<>>
    /\ Unanswered(Head(waiting))
    /\ waiting' = Tail(waiting)
    /\ UNCHANGED <<envVars, subs, todo, calls, netVars>>
----------------------------------------------------------------------------
(* Replaying, _replay_subscriptions: nothing reads the socket meanwhile. *)

Replaying == \E i \in 1 .. Len(waiting) : waiting[i].id = Replay

\* The next entry of the snapshot is subscribed to, not to be recorded again;
\* on a closed socket that is logged and the next one is tried.
ReplayNext ==
    /\ mode = "replay" /\ ~Replaying
    /\ todo /= <<>>
    /\ todo' = Tail(todo)
    /\ \/ /\ open
          /\ Send([op |-> "subscribe", entry |-> Head(todo), persist |-> FALSE,
                   id |-> Replay])
       \/ ~open /\ UNCHANGED <<wire, waiting>>
    /\ UNCHANGED <<envVars, subs, calls, active, inbox, knowVars>>

ReplayOver ==
    /\ Replayed
    /\ todo = <<>> /\ ~Replaying
    /\ UNCHANGED <<subs, todo, waiting, calls, netVars, knowVars>>
----------------------------------------------------------------------------
(* The Proxy and the venue, over an ordered stream. *)

\* A frame is served, in the order sent, once the handshake is over; the venue
\* may refuse it.
Serve(ok) ==
    /\ open /\ mode /= "handshake"
    /\ wire /= <<>>
    /\ wire' = Tail(wire)
    /\ LET f == Head(wire) IN
        /\ inbox' = Append(inbox, [id |-> f.id, ok |-> ok])
        /\ active' = IF ~ok THEN active
                     ELSE IF f.op = "subscribe" THEN active \cup {f.entry}
                     ELSE active \ {f.entry}
        /\ maybeOff' = IF ~ok /\ f.op = "subscribe" THEN maybeOff \cup {f.entry}
                       ELSE maybeOff
    /\ UNCHANGED <<envVars, subs, todo, waiting, calls, maybeOn>>

\* With the connection go its subscriptions and what was on its way.
Drop ==
    /\ Lost
    /\ wire' = <<>> /\ active' = {}
    /\ UNCHANGED <<subs, todo, waiting, calls, inbox, knowVars>>
----------------------------------------------------------------------------
(* The connection. *)

\* The registry outlives the connection and a stop(); start() replays nothing.
Connect(isFirst) ==
    /\ Opening(isFirst)
    /\ wire' = <<>> /\ active' = {} /\ inbox' = <<>>
    /\ maybeOn' = {}
    /\ maybeOff' = IF isFirst THEN ToSet(subs) ELSE {}
    /\ UNCHANGED <<subs, todo, waiting, calls>>

Connected ==
    /\ SocketUp
    /\ UNCHANGED <<subs, todo, waiting, calls, netVars, knowVars>>

\* open() fails, with a socket that may be up: nothing is replayed onto it.
ConnectFails ==
    /\ OpeningFails
    /\ maybeOff' = maybeOff \cup ToSet(subs)
    /\ UNCHANGED <<subs, todo, waiting, calls, netVars, maybeOn>>

\* A reconnect replays a snapshot of the registry.
Handshaken ==
    /\ Authenticated
    /\ mode' = IF first \/ subs = <<>> THEN "pump" ELSE "replay"
    /\ todo' = IF mode' = "replay" THEN subs ELSE <<>>
    /\ UNCHANGED <<subs, waiting, calls, netVars, knowVars>>

\* The connection is gone and its answers are read: fail_all. A pump that ends
\* on an open socket is in PendingRequests and Supervisor only: the venue would
\* go on serving the old socket beside the new one, as two clients.
PumpEnds ==
    /\ PumpReturns
    /\ ~open /\ inbox = <<>>
    /\ waiting' = <<>>
    /\ UNCHANGED <<subs, todo, calls, netVars, knowVars>>

\* stop() cancels the supervise task, and with it the replay's call ...
StopBegin ==
    /\ StopBegins
    /\ todo' = <<>>
    /\ \/ \E i \in 1 .. Len(waiting) :
            waiting[i].id = Replay /\ waiting' = RemoveAt(waiting, i)
       \/ ~Replaying /\ UNCHANGED waiting
    /\ UNCHANGED <<subs, calls, netVars, knowVars>>

\* ... and, in the end, every other call. The registry stays.
StopEnd ==
    /\ StopIsOver
    /\ waiting' = <<>> /\ todo' = <<>>
    /\ wire' = <<>> /\ active' = {} /\ inbox' = <<>>
    /\ UNCHANGED <<subs, calls, knowVars>>
----------------------------------------------------------------------------
Next ==
    \/ \E op \in Ops, e \in Entries, persist \in BOOLEAN :
            (op = "unsubscribe" => persist) /\ Call(op, e, persist)
    \/ Read \/ TimeOut
    \/ ReplayNext \/ ReplayOver
    \/ \E ok \in BOOLEAN : Serve(ok)
    \/ Drop
    \/ \E b \in BOOLEAN : Connect(b)
    \/ Connected \/ ConnectFails \/ Handshaken \/ PumpEnds
    \/ StopBegin \/ StopEnd

Spec == Init /\ [][Next]_vars

\* Timers fire, and the supervisor goes on with its replay.
FairSpec == Spec /\ WF_vars(TimeOut) /\ WF_vars(ReplayNext \/ ReplayOver)
----------------------------------------------------------------------------
(* Properties. *)

InFlight(op, e) == \E i \in 1 .. Len(waiting) : waiting[i].op = op /\ waiting[i].entry = e

\* The last frame about e that is on its way.
IsLastAbout(e, i) == wire[i].entry = e /\ \A j \in i + 1 .. Len(wire) : wire[j].entry /= e

\* What will be on once the venue has served what it was sent, and accepted it.
Effective ==
    {e \in Entries :
        \/ \E i \in 1 .. Len(wire) : IsLastAbout(e, i) /\ wire[i].op = "subscribe"
        \/ e \in active /\ \A i \in 1 .. Len(wire) : wire[i].entry /= e}

\* No entry is recorded twice, however the calls overlap (the membership test
\* comes after the await): a replay subscribes to each once.
NoDuplicates == IsInjective(subs)

\* While frames are pumped, every recorded entry is on, whatever dropped and
\* reconnected: unless a call about it has had no answer, or was refused.
RegistryIsLive ==
    mode = "pump" /\ open =>
        \A e \in ToSet(subs) :
            e \in Effective \/ e \in maybeOff \/ InFlight("unsubscribe", e)

\* What was unsubscribed stays off: a replay that overlaps the unsubscribe()
\* does not switch it on again behind the registry's back.
OffStaysOff ==
    mode = "pump" /\ open =>
        \A e \in Effective :
            Contains(subs, e) \/ e \in maybeOn \/ InFlight("subscribe", e)

\* The replay ends, although it waits for answers that nobody reads.
ReplayIsOver == mode = "replay" ~> mode /= "replay"
============================================================================
