----------------------------- MODULE Supervisor -----------------------------
(***************************************************************************)
(* The lifecycle of ProxyWebSocketClient: start(), stop(), the supervise   *)
(* task with its reconnect policy, the heartbeat task, and the sockets     *)
(* they open and close (websocket/client.py, websocket/_connection.py).    *)
(*                                                                         *)
(* An action runs from one await to the next: nothing else runs in between *)
(* on an event loop.  What the callers' requests do is in PendingRequests. *)
(*                                                                         *)
(* Each start() that succeeds makes a supervise and a heartbeat task. They *)
(* have its number, since those of an earlier start() may still be there.  *)
(*                                                                         *)
(* A definition marked "variant" is what a plausible bug would make of the *)
(* one after it; no specification uses it (README, "Mutants").             *)
(***************************************************************************)
EXTENDS Integers

CONSTANTS
    Reconnect,      \* is there a reconnect policy?
    PolicyRaises,   \* may calling the policy raise?
    Heartbeat,      \* is heartbeat_interval set?
    BadFrames,      \* may a frame make _dispatch raise?
    Overlap,        \* may stop() be called while start() is connecting, and
                    \* start() while stop() is on its way?
    MaxConns,       \* bound on the connections made
    MaxStarts       \* bound on the calls of start()

ASSUME SupervisorAssumption ==
    /\ {Reconnect, PolicyRaises, Heartbeat, BadFrames, Overlap} \subseteq BOOLEAN
    /\ MaxConns \in Nat /\ MaxStarts \in Nat

\* _Connection objects in the order they are made; 0 is None.
Conns == 1 .. MaxConns

\* The calls of start(), and the tasks they make; task 0 is None.
Starts == 1 .. MaxStarts
Tasks  == 0 .. MaxStarts

SockStates == {"none", "open", "closing", "closed"}
SupStates == {"none", "pump", "cancelled", "sleep", "connect", "auth", "replay",
              "done", "crashed"}
HbStates == {"none", "sleep", "ping", "close", "pause", "done"}

VARIABLES
    running,    \* _running
    shutdown,   \* _shutdown_event
    conn,       \* _conn
    made,       \* the connections made so far
    sock,       \* the socket of each connection
    age,        \* of the current connection: connected_at is None, less than
                \* _RECONNECT_RESET_AFTER ago, or longer
    sup,        \* each supervise task
    attempt,    \* its attempt counter
    own,        \* the connection it opens, or reads in _pump; a start() opens
                \* its own before the task is there
    hb,         \* each heartbeat task
    hbConn,     \* the connection it is pinging
    task,       \* the tasks in _supervise_task and _heartbeat_task
    starts,     \* the starts so far
    starter,    \* where start() is: idle, connect, auth
    stopper,    \* where stop() is: idle, awaiting the supervisor, closing
    stopTask,   \* the tasks it awaits
    stopConn    \* the connection it is closing

connVars == <<conn, made, sock, age>>
supVars  == <<sup, attempt, own>>
hbVars   == <<hb, hbConn>>
callVars == <<task, starts, starter, stopper, stopTask, stopConn>>
flags    == <<running, shutdown>>
vars == <<flags, connVars, supVars, hbVars, callVars>>

TypeOK ==
    /\ running \in BOOLEAN /\ shutdown \in BOOLEAN
    /\ conn \in 0 .. MaxConns /\ made \in 0 .. MaxConns
    /\ sock \in [Conns -> SockStates]
    /\ age \in {"none", "young", "old"}
    /\ sup \in [Tasks -> SupStates]
    /\ attempt \in [Tasks -> 0 .. MaxConns] /\ own \in [Tasks -> 0 .. MaxConns]
    /\ hb \in [Tasks -> HbStates] /\ hbConn \in [Tasks -> 0 .. MaxConns]
    /\ task \in Tasks /\ starts \in Tasks
    /\ starter \in {"idle", "connect", "auth"}
    /\ stopper \in {"idle", "sup", "close"}
    /\ stopTask \in Tasks /\ stopConn \in 0 .. MaxConns

Init ==
    /\ running = FALSE /\ shutdown = FALSE
    /\ conn = 0 /\ made = 0 /\ sock = [i \in Conns |-> "none"] /\ age = "none"
    /\ sup = [n \in Tasks |-> "none"]
    /\ attempt = [n \in Tasks |-> 0] /\ own = [n \in Tasks |-> 0]
    /\ hb = [n \in Tasks |-> "none"] /\ hbConn = [n \in Tasks |-> 0]
    /\ task = 0 /\ starts = 0 /\ starter = "idle"
    /\ stopper = "idle" /\ stopTask = 0 /\ stopConn = 0
----------------------------------------------------------------------------
(* Connections. *)

\* _Connection.is_open: close_code stays None until the close handshake is over.
IsOpen(i) == i /= 0 /\ sock[i] \in {"open", "closing"}

\* self._conn = _Connection(...)
NewConnection ==
    /\ made < MaxConns
    /\ made' = made + 1
    /\ conn' = made + 1
    /\ age' = "none"
    /\ UNCHANGED sock

\* open() has returned: connected_at is set.
Authenticated(i) ==
    /\ IsOpen(i)
    /\ age' = IF conn = i THEN "young" ELSE age

\* The server or the network ends a connection.
Drop(i) ==
    /\ IsOpen(i)
    /\ sock' = [sock EXCEPT ![i] = "closed"]
    /\ UNCHANGED <<flags, conn, made, age, supVars, hbVars, callVars>>

\* _RECONNECT_RESET_AFTER goes by while a supervisor reads frames, or waits
\* for the answer to a replayed subscription.
Ages ==
    /\ age = "young"
    /\ \E n \in Starts : sup[n] \in {"pump", "replay"}
    /\ age' = "old"
    /\ UNCHANGED <<flags, conn, made, sock, supVars, hbVars, callVars>>
----------------------------------------------------------------------------
(* The top of the tasks' loops. *)

Alive(n) == sup[n] \in {"pump", "cancelled", "sleep", "connect", "auth", "replay"}

Becomes(n, s) == sup' = [sup EXCEPT ![n] = s]

\* A task that is over has lost its counter.
Ends(n) == Becomes(n, "done") /\ attempt' = [attempt EXCEPT ![n] = 0]

\* _supervise looks at _running, and _pump binds the socket that _conn has at
\* this moment: with no _conn its assertion fails, with no socket the iteration
\* does (bound to 0, _pump returns at once).
Loops(n) ==
    /\ Becomes(n, IF running THEN "pump" ELSE "done")
    /\ own' = [own EXCEPT ![n] = IF running /\ IsOpen(conn) THEN conn ELSE 0]

\* _heartbeat_loop looks at _running.
Rest == IF running THEN "sleep" ELSE "done"
----------------------------------------------------------------------------
(* start() *)

\* A second start() while _running raises and changes nothing. At most one
\* start() is connecting.
StartCalled ==
    /\ starter = "idle"
    /\ stopper = "idle" \/ Overlap
    /\ ~running
    /\ starts < MaxStarts
    /\ starts' = starts + 1
    /\ running' = TRUE
    /\ shutdown' = FALSE
    /\ NewConnection
    /\ own' = [own EXCEPT ![starts + 1] = made + 1]
    /\ starter' = "connect"
    /\ UNCHANGED <<sup, attempt, hbVars, task, stopper, stopTask, stopConn>>

\* websockets.connect returns; the auth frame goes out.
StartConnected ==
    /\ starter = "connect"
    /\ starter' = "auth"
    /\ sock' = [sock EXCEPT ![own[starts]] = "open"]
    /\ UNCHANGED <<flags, conn, made, age, supVars, hbVars>>
    /\ UNCHANGED <<task, starts, stopper, stopTask, stopConn>>

\* open() raises: refused, rejected, timed out, dropped.
StartFails ==
    /\ starter /= "idle"
    /\ starter' = "idle"
    /\ UNCHANGED <<flags, connVars, supVars, hbVars>>
    /\ UNCHANGED <<task, starts, stopper, stopTask, stopConn>>

\* The handshake is accepted: the two tasks are created, and run up to their
\* first await; both return at once if stop() has cleared _running.
StartSucceeds ==
    /\ starter = "auth"
    /\ Authenticated(own[starts])
    /\ starter' = "idle"
    /\ task' = starts
    /\ Loops(starts)
    /\ attempt' = [attempt EXCEPT ![starts] = 0]
    /\ hb' = IF Heartbeat THEN [hb EXCEPT ![starts] = Rest] ELSE hb
    /\ UNCHANGED <<flags, conn, made, sock, hbConn, starts, stopper, stopTask, stopConn>>
----------------------------------------------------------------------------
(* The supervise tasks. *)

\* Variant: the event is not set.
GiveUpSilently(n) == running' = FALSE /\ UNCHANGED shutdown /\ Ends(n)

\* Reconnecting is over: run_forever() returns.
GiveUp(n) == running' = FALSE /\ shutdown' = TRUE /\ Ends(n)

\* Variant: the attempt is counted twice.
NextAttemptTwice(n) == IF age = "old" THEN 0 ELSE attempt[n] + 2

\* The attempt number the policy is called with.
NextAttempt(n) == IF age = "old" THEN 0 ELSE attempt[n] + 1

\* Variant: a connection that was never authenticated is not pumped to its end.
PumpReturnsIfAuthenticated(n) ==
    \/ sup[n] = "cancelled"
    \/ sup[n] = "pump" /\ ~IsOpen(own[n]) /\ age /= "none"

\* _pump returns: it is cancelled; or the frames of a dead connection are read,
\* a frame makes _dispatch raise, a frame finds _running cleared, or another
\* task is reading the socket already (websockets refuses a second reader).
PumpReturns(n) ==
    \/ sup[n] = "cancelled"
    \/ /\ sup[n] = "pump"
       /\ \/ ~IsOpen(own[n]) \/ BadFrames \/ ~running
          \/ \E m \in Starts \ {n} : sup[m] = "pump" /\ own[m] = own[n]

\* Without _running the task ends. Otherwise, even if it was cancelled,
\* _decide_reconnect is asked: it gives up (no policy, or the policy returned
\* None), or waits for the delay the policy returned.
PumpEnds(n) ==
    /\ PumpReturns(n)
    /\ own' = [own EXCEPT ![n] = 0]
    /\ \/ ~running /\ Ends(n) /\ UNCHANGED flags
       \/ running /\ GiveUp(n)
       \/ /\ running /\ Reconnect
          /\ Becomes(n, "sleep")
          /\ attempt' = [attempt EXCEPT ![n] = NextAttempt(n)]
          /\ UNCHANGED flags
       \/ /\ running /\ Reconnect /\ PolicyRaises
          /\ Becomes(n, "crashed")
          /\ UNCHANGED <<flags, attempt>>
    /\ UNCHANGED <<connVars, hbVars, callVars>>

\* The delay is over (or was 0): _reconnect_once replaces the connection, unless
\* the client is not running any more.
ReconnectStarts(n) ==
    /\ sup[n] = "sleep"
    /\ \/ /\ running
          /\ NewConnection
          /\ own' = [own EXCEPT ![n] = made + 1]
          /\ Becomes(n, "connect")
          /\ UNCHANGED attempt
       \/ ~running /\ Ends(n) /\ UNCHANGED <<connVars, own>>
    /\ UNCHANGED <<flags, hbVars, callVars>>

ReconnectConnected(n) ==
    /\ sup[n] = "connect"
    /\ Becomes(n, "auth")
    /\ sock' = [sock EXCEPT ![own[n]] = "open"]
    /\ UNCHANGED <<flags, conn, made, age, attempt, own, hbVars, callVars>>

\* Variant: the failed connection is forgotten.
ReconnectFailsForgets(n) ==
    /\ sup[n] \in {"connect", "auth"}
    /\ Loops(n) /\ conn' = 0
    /\ UNCHANGED <<flags, made, sock, age, attempt, hbVars, callVars>>

\* Variant: it tries again by itself, without asking the policy.
ReconnectRetriesAtOnce(n) ==
    /\ sup[n] \in {"connect", "auth"}
    /\ Becomes(n, IF running THEN "sleep" ELSE "done")
    /\ UNCHANGED <<flags, connVars, attempt, own, hbVars, callVars>>

\* open() raises; the error is logged and the supervisor pumps what is there.
ReconnectFails(n) ==
    /\ sup[n] \in {"connect", "auth"}
    /\ Loops(n)
    /\ UNCHANGED <<flags, connVars, attempt, hbVars, callVars>>

\* The handshake is accepted; subscriptions, if any, are replayed.
ReconnectSucceeds(n) ==
    /\ sup[n] = "auth"
    /\ Authenticated(own[n])
    /\ \/ Becomes(n, "replay") /\ own' = [own EXCEPT ![n] = 0]
       \/ Loops(n)
    /\ UNCHANGED <<flags, conn, made, sock, attempt, hbVars, callVars>>

\* Variant: the supervisor does not look at _running again.
ReplayEndsRegardless(n) ==
    /\ sup[n] = "replay"
    /\ Becomes(n, "pump") /\ own' = [own EXCEPT ![n] = conn]
    /\ UNCHANGED <<flags, connVars, attempt, hbVars, callVars>>

\* Every subscription has been tried, with or without success.
ReplayEnds(n) ==
    /\ sup[n] = "replay"
    /\ Loops(n)
    /\ UNCHANGED <<flags, connVars, attempt, hbVars, callVars>>
----------------------------------------------------------------------------
(* The heartbeat tasks. *)

\* Variant: a client that is not running only skips the ping.
HbWakesForever(n) ==
    /\ hb[n] = "sleep"
    /\ running /\ IsOpen(conn)
    /\ hb' = [hb EXCEPT ![n] = "ping"]
    /\ hbConn' = [hbConn EXCEPT ![n] = conn]
    /\ UNCHANGED <<flags, connVars, supVars, callVars>>

\* The interval is over: ping the connection of the moment, or pause if there
\* is none (RuntimeError).
HbWakes(n) ==
    /\ hb[n] = "sleep"
    /\ hb' = [hb EXCEPT ![n] = IF ~running THEN "done"
                               ELSE IF IsOpen(conn) THEN "ping" ELSE "pause"]
    /\ hbConn' = [hbConn EXCEPT ![n] = IF running /\ IsOpen(conn) THEN conn ELSE 0]
    /\ UNCHANGED <<flags, connVars, supVars, callVars>>

\* A pump reads the pong.
HbPong(n) ==
    /\ hb[n] = "ping"
    /\ \E m \in Starts : sup[m] = "pump" /\ own[m] = hbConn[n]
    /\ hb' = [hb EXCEPT ![n] = Rest]
    /\ hbConn' = [hbConn EXCEPT ![n] = 0]
    /\ UNCHANGED <<flags, connVars, supVars, callVars>>

\* The connection ended under the ping: ConnectionClosed from send(), or the
\* ConnectionError of fail_all, which a pump that ended on an open socket calls
\* as well; the loop pauses.
HbPingFails(n) ==
    /\ hb[n] = "ping"
    /\ \/ ~IsOpen(hbConn[n])
       \/ /\ BadFrames \/ Overlap
          /\ \E m \in Starts : sup[m] \notin {"none", "pump"}
    /\ hb' = [hb EXCEPT ![n] = "pause"]
    /\ hbConn' = [hbConn EXCEPT ![n] = 0]
    /\ UNCHANGED <<flags, connVars, supVars, callVars>>

\* Variant: it closes the current connection, whichever it pinged.
HbTimesOutOnCurrent(n) ==
    /\ hb[n] = "ping" /\ IsOpen(conn)
    /\ hb' = [hb EXCEPT ![n] = "close"]
    /\ hbConn' = [hbConn EXCEPT ![n] = conn]
    /\ sock' = [sock EXCEPT ![conn] = "closing"]
    /\ UNCHANGED <<flags, conn, made, age, supVars, callVars>>

\* No pong within heartbeat_timeout: close the connection that was pinged, if
\* it is still the client's and still open.
HbTimesOut(n) ==
    /\ hb[n] = "ping"
    /\ \/ /\ hbConn[n] = conn /\ IsOpen(conn)
          /\ hb' = [hb EXCEPT ![n] = "close"]
          /\ sock' = [sock EXCEPT ![conn] = "closing"]
          /\ UNCHANGED hbConn
       \/ /\ ~(hbConn[n] = conn /\ IsOpen(conn))
          /\ hb' = [hb EXCEPT ![n] = Rest]
          /\ hbConn' = [hbConn EXCEPT ![n] = 0]
          /\ UNCHANGED sock
    /\ UNCHANGED <<flags, conn, made, age, supVars, callVars>>

\* The close handshake is over, or close_timeout.
HbClosed(n) ==
    /\ hb[n] = "close"
    /\ hb' = [hb EXCEPT ![n] = Rest]
    /\ hbConn' = [hbConn EXCEPT ![n] = 0]
    /\ sock' = [sock EXCEPT ![hbConn[n]] = "closed"]
    /\ UNCHANGED <<flags, conn, made, age, supVars, callVars>>

HbPauseEnds(n) ==
    /\ hb[n] = "pause"
    /\ hb' = [hb EXCEPT ![n] = Rest]
    /\ UNCHANGED <<flags, connVars, supVars, hbConn, callVars>>
----------------------------------------------------------------------------
(* stop() *)

\* Heartbeats that are cancelled end where they are.
EndHeartbeats(H) ==
    /\ hb' = [n \in Tasks |-> IF n \in H /\ hb[n] /= "none" THEN "done" ELSE hb[n]]
    /\ hbConn' = [n \in Tasks |-> IF n \in H THEN 0 ELSE hbConn[n]]

\* cancel_all: the CancelledError of a replayed subscribe passes every "except
\* Exception" and ends the supervise task; that of a request which a handler
\* awaits ends the pump, as a clean close would; and it ends the heartbeat
\* whose ping holds the slot, besides those of H.
CancelAll(H) ==
    /\ \E S \in SUBSET {n \in Starts : sup[n] \in {"pump", "replay"}} :
         /\ sup' = [n \in Tasks |-> IF n \in S /\ sup[n] = "replay" THEN "crashed" ELSE sup[n]]
         /\ own' = [n \in Tasks |-> IF n \in S THEN 0 ELSE own[n]]
    /\ \E P \in {{}} \cup {{n} : n \in {m \in Starts : hb[m] = "ping"}} :
         EndHeartbeats(H \cup P)

\* Whatever is the client's connection by now is forgotten.
Forgotten ==
    /\ conn' = 0 /\ age' = "none"
    /\ stopper' = "idle" /\ stopTask' = 0 /\ stopConn' = 0

\* Is there a task that stop() has to await?
TasksToAwait == Alive(task) \/ hb[task] \notin {"none", "done"}

\* A cancelled task ends where it is, with two exceptions: _pump returns, and
\* the task goes on to look at _running; and wait_for returns a handshake
\* answer that is already there (Python 3.11), so that the task goes on to
\* replay.
CancelSupervisor ==
    /\ own' = [own EXCEPT ![task] = 0]
    /\ \/ ~Alive(task) /\ UNCHANGED <<sup, attempt>>
       \/ sup[task] = "pump" /\ Becomes(task, "cancelled") /\ UNCHANGED attempt
       \/ sup[task] \in {"sleep", "connect", "auth", "replay"} /\ Ends(task)
       \/ /\ sup[task] = "auth" /\ IsOpen(own[task])
          /\ Becomes(task, "replay") /\ UNCHANGED attempt

\* The tasks are over, the heartbeats of H just now; the connection of the
\* moment, if it is open, begins to close.
Closes(H) ==
    \/ /\ IsOpen(conn)
       /\ EndHeartbeats(H)
       /\ stopper' = "close" /\ stopTask' = 0 /\ stopConn' = conn
       /\ sock' = [sock EXCEPT ![conn] = "closing"]
       /\ UNCHANGED <<conn, age, sup, own>>
    \/ ~IsOpen(conn) /\ CancelAll(H) /\ Forgotten /\ UNCHANGED sock

\* stop() on a client that is not running returns at once. Otherwise it
\* cancels the supervise task, or the heartbeat if that task is over, and
\* awaits it. One stop() runs at a time.
StopCalled ==
    /\ running
    /\ stopper = "idle" /\ (starter = "idle" \/ Overlap)
    /\ running' = FALSE
    /\ shutdown' = TRUE
    /\ \/ /\ TasksToAwait
          /\ CancelSupervisor
          /\ EndHeartbeats(IF Alive(task) THEN {} ELSE {task})
          /\ stopper' = "sup" /\ stopTask' = task
          /\ UNCHANGED <<conn, sock, age, stopConn>>
       \/ ~TasksToAwait /\ Closes({}) /\ UNCHANGED attempt
    /\ UNCHANGED <<made, task, starts, starter>>

\* Variant: stop() does not wait for the cancelled supervisor.
StopDoesNotWait ==
    /\ stopper = "sup"
    /\ stopper' = "close" /\ stopConn' = conn
    /\ UNCHANGED <<flags, connVars, supVars, hbVars, task, starts, starter, stopTask>>

\* The supervise task is over; its heartbeat is cancelled.
StopCancelsHeartbeat ==
    /\ stopper = "sup" /\ ~Alive(stopTask)
    /\ Closes({stopTask})
    /\ UNCHANGED <<flags, made, attempt, task, starts, starter>>

\* Variant: it is forgotten, not closed.
StopForgets ==
    /\ stopper = "close"
    /\ CancelAll({}) /\ Forgotten
    /\ UNCHANGED <<flags, made, sock, attempt, task, starts, starter>>

\* It is closed.
StopEnds ==
    /\ stopper = "close"
    /\ sock' = [sock EXCEPT ![stopConn] = "closed"]
    /\ CancelAll({}) /\ Forgotten
    /\ UNCHANGED <<flags, made, attempt, task, starts, starter>>
----------------------------------------------------------------------------
StartStep == StartConnected \/ StartFails \/ StartSucceeds
SupStep(n) == \/ PumpEnds(n) \/ ReconnectStarts(n) \/ ReconnectConnected(n)
              \/ ReconnectFails(n) \/ ReconnectSucceeds(n) \/ ReplayEnds(n)
HbStep(n) == \/ HbWakes(n) \/ HbPong(n) \/ HbPingFails(n) \/ HbTimesOut(n)
             \/ HbClosed(n) \/ HbPauseEnds(n)
StopStep == StopCancelsHeartbeat \/ StopEnds

Next ==
    \/ StartCalled \/ StartStep
    \/ \E n \in Starts : SupStep(n) \/ HbStep(n)
    \/ StopCalled \/ StopStep
    \/ Ages
    \/ \E i \in Conns : Drop(i)

Spec == Init /\ [][Next]_vars

\* The event loop runs what is ready; connect, handshake, requests and close
\* all have a timeout. Nobody has to call start() or stop(), no connection has
\* to drop, and on an open one no frame has to come.
Reading(n) == sup[n] = "pump" /\ IsOpen(own[n])

FairSpec ==
    /\ Spec
    /\ WF_vars(StartStep) /\ WF_vars(StopStep)
    /\ \A n \in Starts : WF_vars(~Reading(n) /\ SupStep(n)) /\ WF_vars(HbStep(n))
----------------------------------------------------------------------------
(* Properties. *)

\* An open socket is the client's current connection: no reconnect, give-up,
\* stop or heartbeat leaves one behind that nobody can close.
NoSocketLeak == \A i \in Conns : IsOpen(i) => i = conn

\* _pump's assertion: no supervisor pumps without a connection.
PumpHasConnection == \A n \in Starts : sup[n] = "pump" => conn /= 0

\* When the supervise task is over, run_forever() is released.
EndReleasesRunForever == sup[starts] \in {"done", "crashed"} => shutdown

\* Once stop() is through, or the supervisor gave up, no supervise task and no
\* open socket is left.
StoppedIsQuiet ==
    ~running /\ stopper = "idle" /\ starter = "idle" =>
        /\ \A n \in Starts : ~Alive(n)
        /\ \A i \in Conns : ~IsOpen(i)

(* The invariant behind these four, in parts; it needs ~Overlap, and its     *)
(* second half ~BadFrames.                                                   *)

\* Connections not made yet have no socket; those in use have been made.
MadeInOrder ==
    /\ conn <= made /\ \A n \in Starts : hbConn[n] <= made
    /\ \A i \in Conns : i > made => sock[i] = "none"

\* There is no live socket for a start() or a reconnect to replace.
NothingLeftToClose ==
    (~running /\ stopper = "idle") \/ (\E n \in Starts : sup[n] = "sleep") => ~IsOpen(conn)

\* There is at most one decision per connection: this bounds the attempts.
AttemptsCounted ==
    /\ starter /= "idle" => made > 0
    /\ \A n \in Starts :
         /\ attempt[n] <= made
         /\ Alive(n) /\ sup[n] /= "sleep" => attempt[n] < made

\* start() works on the current connection and nothing else is going on.
StartAlone ==
    starter /= "idle" =>
        /\ running /\ stopper = "idle" /\ \A n \in Starts : ~Alive(n)
        /\ conn /= 0 /\ conn = made /\ own[starts] = made /\ sup[starts] = "none"

\* Tasks are made by the starts so far.
TasksInOrder ==
    /\ task <= starts /\ sup[0] = "none"
    /\ starter /= "idle" => starts > 0
    /\ \A n \in Starts : n > starts => sup[n] = "none"

\* A live supervise task is the last one made; it has the last connection made,
\* and reads it if it is open. Without _running it is one that stop() awaits.
SupervisorHasConnection ==
    \A n \in Starts : Alive(n) =>
        /\ n = task /\ n = starts
        /\ conn /= 0 /\ conn = made
        /\ sup[n] \in {"connect", "auth"} => own[n] = conn
        /\ sup[n] = "pump" /\ IsOpen(conn) => own[n] = conn
        /\ sup[n] = "cancelled" => ~running
        /\ ~running => shutdown /\ stopper = "sup" /\ sup[n] \in {"cancelled", "replay"}

\* stop() runs on a client that is not running; it closes the connection after
\* the supervisor is gone.
StopAfterRunning ==
    /\ stopper /= "idle" => ~running
    /\ stopper = "sup" => stopTask = task
    /\ stopper = "close" => (\A n \in Starts : ~Alive(n)) /\ conn /= 0 /\ stopConn = conn

Orderly ==
    /\ TypeOK /\ AttemptsCounted /\ MadeInOrder /\ TasksInOrder
    /\ StartAlone /\ SupervisorHasConnection /\ StopAfterRunning

Lifecycle == Orderly /\ NoSocketLeak /\ NothingLeftToClose

\* A socket starts closing only by a stop(), or by a heartbeat that has waited
\* for a pong on that very socket: a reconnect during the ping does not make
\* it close the fresh connection (_heartbeat_loop).
ClosesOnlyWhatItPinged ==
    [][\A i \in Conns : sock[i] = "open" /\ sock'[i] = "closing" =>
        \/ stopper' = "close" /\ i = stopConn'
        \/ \E n \in Starts : hb[n] = "ping" /\ hbConn[n] = i]_vars

\* stop() returns, whatever it interrupts.
StopReturns == stopper /= "idle" ~> stopper = "idle"

\* The supervisor leaves a dead connection: it makes a new one or ends.
DropIsNoticed ==
    \A i \in Conns : (conn = i /\ sock[i] = "closed" /\ \E n \in Starts : Alive(n))
                        ~> (conn /= i \/ ~running \/ made = MaxConns)

\* A client that stays stopped, or gave up for good, ends up without tasks,
\* those included that a start() made after stop() had looked for them and the
\* heartbeats of an earlier start(); a supervisor may be left only in a read of
\* a socket that is still open.
StoppedGoesQuiet ==
    <>[]~running =>
        <>[](\A n \in Starts : /\ hb[n] \in {"none", "done"}
                               /\ Alive(n) => Reading(n))
----------------------------------------------------------------------------
(* The refinement: as its callers see it, this is module Connectivity.       *)

\* What start(), stop() or the supervise task is doing.
LineMode ==
    CASE stopper /= "idle" -> "stopping"
      [] stopper = "idle" /\ starter = "connect" -> "connecting"
      [] stopper = "idle" /\ starter = "auth" -> "handshake"
      [] stopper = "idle" /\ starter = "idle" /\ Alive(starts) ->
            CASE sup[starts] = "connect" -> "connecting"
              [] sup[starts] = "auth" -> "handshake"
              [] sup[starts] = "sleep" -> "backoff"
              [] OTHER -> sup[starts]
      [] OTHER -> IF ~running THEN "idle"
                  ELSE IF sup[starts] = "none" THEN "failed" ELSE "crashed"

Line == INSTANCE Connectivity
            WITH MaxEpoch <- MaxConns, mode <- LineMode, first <- (starter /= "idle"),
                 open <- IsOpen(conn), epoch <- made

\* start(), stop() and the supervise task go through the states that the
\* requests and subscriptions are checked against, and no other way.
ImplementsConnectivity == Line!LineSpec
============================================================================
