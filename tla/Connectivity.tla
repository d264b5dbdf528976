---------------------------- MODULE Connectivity ----------------------------
(***************************************************************************)
(* The connection of a ProxyWebSocketClient as its callers see it: what    *)
(* start(), stop() and the supervise task may do to it, and when.  It is   *)
(* the abstract specification that module Supervisor implements, and the   *)
(* environment that PendingRequests and Subscriptions live in.             *)
(***************************************************************************)
EXTENDS Integers

CONSTANT MaxEpoch   \* bound on the connections opened

VARIABLES
    mode,   \* what start(), stop() or the supervise task is doing
    first,  \* is the connect in progress start()'s own?
    open,   \* is_open of the current connection
    epoch   \* number of the current connection

envVars == <<mode, first, open, epoch>>

\* idle: not running; failed: start() raised, _running is set all the same;
\* crashed: the supervise task ended with an exception, likewise.
Modes == {"idle", "connecting", "handshake", "failed", "replay", "pump",
          "backoff", "crashed", "stopping"}

LineTypeOK ==
    /\ mode \in Modes
    /\ first \in BOOLEAN
    /\ open \in BOOLEAN
    /\ epoch \in 0 .. MaxEpoch

LineInit == mode = "idle" /\ first = FALSE /\ open = FALSE /\ epoch = 0
----------------------------------------------------------------------------
\* A fresh _Connection replaces the current one: start()'s, or a reconnect.
Opening(isFirst) ==
    /\ mode = IF isFirst THEN "idle" ELSE "backoff"
    /\ epoch < MaxEpoch
    /\ epoch' = epoch + 1
    /\ mode' = "connecting"
    /\ first' = isFirst
    /\ open' = FALSE

\* websockets.connect returns: the socket counts as open from here on, before
\* the handshake is answered.
SocketUp ==
    /\ mode = "connecting"
    /\ mode' = "handshake"
    /\ open' = TRUE
    /\ UNCHANGED <<first, epoch>>

\* open() raises: start() passes it on, the supervisor logs it and pumps. A
\* socket that was up stays up.
OpeningFails ==
    /\ mode \in {"connecting", "handshake"}
    /\ mode' = IF first THEN "failed" ELSE "pump"
    /\ first' = FALSE
    /\ UNCHANGED <<open, epoch>>

\* The handshake is accepted. start() leaves replaying to the caller; after a
\* reconnect the registered subscriptions, if any, are replayed.
Authenticated ==
    /\ mode = "handshake" /\ open
    /\ mode' \in IF first THEN {"pump"} ELSE {"replay", "pump"}
    /\ first' = FALSE
    /\ UNCHANGED <<open, epoch>>

Replayed ==
    /\ mode = "replay"
    /\ mode' = "pump"
    /\ UNCHANGED <<first, open, epoch>>

\* _pump returns: _supervise gives up, waits to reconnect, or is ended by an
\* exception of the policy.
PumpReturns ==
    /\ mode = "pump"
    /\ mode' \in {"idle", "backoff", "crashed"}
    /\ UNCHANGED <<first, open, epoch>>

\* stop() returns at once when nothing runs, and is not called while start()
\* connects.
StopBegins ==
    /\ mode \notin {"idle", "stopping"}
    /\ ~first
    /\ mode' = "stopping"
    /\ UNCHANGED <<first, open, epoch>>

\* stop() is over: the connection is closed and forgotten. With no task and no
\* socket left it had nothing to await.
StopIsOver ==
    /\ mode = "stopping" \/ (mode \in {"failed", "crashed"} /\ ~open)
    /\ mode' = "idle"
    /\ open' = FALSE
    /\ UNCHANGED <<first, epoch>>

\* The connection is lost, or the heartbeat closes it.
Lost ==
    /\ open
    /\ open' = FALSE
    /\ UNCHANGED <<mode, first, epoch>>

LineNext ==
    \/ \E b \in BOOLEAN : Opening(b)
    \/ SocketUp \/ OpeningFails \/ Authenticated \/ Replayed
    \/ PumpReturns \/ StopBegins \/ StopIsOver \/ Lost

LineSpec == LineInit /\ [][LineNext]_envVars
============================================================================
