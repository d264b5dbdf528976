-------------------------- MODULE SupervisorProofs --------------------------
(***************************************************************************)
(* Proofs about Supervisor, for any number of connections and starts.      *)
(***************************************************************************)
EXTENDS Supervisor, TLAPS

USE SupervisorAssumption

\* The counters: None is a number of a connection and of a task, and so is the
\* number of what is just made.
LEMMA Numbers ==
    /\ 0 \in 0 .. MaxConns /\ 0 \in Tasks /\ Starts \subseteq Tasks
    /\ \A m \in 0 .. MaxConns : m < MaxConns => m + 1 \in 0 .. MaxConns
    /\ \A m \in Tasks : m < MaxStarts => m + 1 \in Starts
BY DEF Tasks, Starts

\* What is not None is a task, or a connection.
LEMMA NotNone ==
    /\ \A n \in Tasks : n \in Starts \/ n = 0
    /\ \A i \in 0 .. MaxConns : i /= 0 => i \in Conns
BY DEF Tasks, Starts, Conns

\* A new state of a socket leaves a map of sockets, one of a supervise task a
\* map of those, and so on.
LEMMA MapTypes ==
    ASSUME TypeOK
    PROVE  /\ \A i, v : v \in SockStates => [sock EXCEPT ![i] = v] \in [Conns -> SockStates]
           /\ \A n, v : v \in SupStates => [sup EXCEPT ![n] = v] \in [Tasks -> SupStates]
           /\ \A n, v : v \in 0 .. MaxConns =>
                /\ [attempt EXCEPT ![n] = v] \in [Tasks -> 0 .. MaxConns]
                /\ [own EXCEPT ![n] = v] \in [Tasks -> 0 .. MaxConns]
                /\ [hbConn EXCEPT ![n] = v] \in [Tasks -> 0 .. MaxConns]
           /\ \A n, v : v \in HbStates => [hb EXCEPT ![n] = v] \in [Tasks -> HbStates]
<1>1. ASSUME NEW i, NEW v \in SockStates PROVE [sock EXCEPT ![i] = v] \in [Conns -> SockStates]
  BY DEF TypeOK
<1>2. ASSUME NEW n, NEW v \in SupStates PROVE [sup EXCEPT ![n] = v] \in [Tasks -> SupStates]
  BY DEF TypeOK
<1>3. ASSUME NEW n, NEW v \in 0 .. MaxConns
      PROVE  /\ [attempt EXCEPT ![n] = v] \in [Tasks -> 0 .. MaxConns]
             /\ [own EXCEPT ![n] = v] \in [Tasks -> 0 .. MaxConns]
             /\ [hbConn EXCEPT ![n] = v] \in [Tasks -> 0 .. MaxConns]
  BY DEF TypeOK
<1>4. ASSUME NEW n, NEW v \in HbStates PROVE [hb EXCEPT ![n] = v] \in [Tasks -> HbStates]
  BY DEF TypeOK
<1> QED
  BY <1>1, <1>2, <1>3, <1>4

\* The states a step writes are states.
LEMMA StatesAreStates ==
    /\ {"open", "closing", "closed"} \subseteq SockStates
    /\ {"pump", "cancelled", "sleep", "connect", "auth", "replay", "done", "crashed", "none"}
            \subseteq SupStates
    /\ {"sleep", "ping", "close", "pause", "done"} \subseteq HbStates
BY DEF SockStates, SupStates, HbStates

\* A client not yet started is well typed, with no attempt counted.
THEOREM SupervisorInitType == Init => TypeOK /\ AttemptsCounted
<1> SUFFICES ASSUME Init PROVE TypeOK /\ AttemptsCounted
  OBVIOUS
<1>1. sock \in [Conns -> SockStates]
  BY DEF Init, SockStates
<1>2. hb \in [Tasks -> HbStates] /\ hbConn \in [Tasks -> 0 .. MaxConns]
  BY Numbers DEF Init, HbStates
<1>3. sup \in [Tasks -> SupStates]
  BY DEF Init, SupStates
<1>4. attempt \in [Tasks -> 0 .. MaxConns] /\ own \in [Tasks -> 0 .. MaxConns]
  BY Numbers DEF Init
<1>5. TypeOK
  BY <1>1, <1>2, <1>3, <1>4, Numbers, Zenon DEF Init, TypeOK
<1>6. AttemptsCounted
  BY Numbers DEF Init, AttemptsCounted, Alive
<1> QED
  BY <1>5, <1>6

\* A reconnect or a start that makes a connection.
LEMMA NewConnectionType ==
    ASSUME TypeOK, NewConnection
    PROVE  /\ made' \in 0 .. MaxConns /\ conn' \in 0 .. MaxConns /\ made' = made + 1
           /\ conn' = made' /\ made + 1 \in 0 .. MaxConns
           /\ age' = "none" /\ sock' = sock
BY Numbers DEF TypeOK, NewConnection

\* A supervise task at the top of its loop.
LEMMA LoopsType ==
    ASSUME TypeOK, NEW n, Loops(n)
    PROVE  /\ sup' \in [Tasks -> SupStates] /\ own' \in [Tasks -> 0 .. MaxConns]
           /\ \A m \in Tasks : m /= n => sup'[m] = sup[m] /\ own'[m] = own[m]
           /\ n \in Tasks => sup'[n] = IF running THEN "pump" ELSE "done"
BY MapTypes, Numbers, StatesAreStates DEF Loops, Becomes, TypeOK

\* Cancelled heartbeats are heartbeats.
LEMMA EndHeartbeatsType ==
    ASSUME TypeOK, NEW H, EndHeartbeats(H)
    PROVE  /\ hb' \in [Tasks -> HbStates] /\ hbConn' \in [Tasks -> 0 .. MaxConns]
           /\ \A n \in Tasks : hbConn'[n] \in {hbConn[n], 0}
BY Numbers, StatesAreStates DEF EndHeartbeats, TypeOK

\* cancel_all changes supervise tasks only by ending them.
LEMMA CancelAllType ==
    ASSUME TypeOK, NEW H, CancelAll(H)
    PROVE  /\ sup' \in [Tasks -> SupStates] /\ own' \in [Tasks -> 0 .. MaxConns]
           /\ hb' \in [Tasks -> HbStates] /\ hbConn' \in [Tasks -> 0 .. MaxConns]
           /\ \A n \in Tasks : hbConn'[n] \in {hbConn[n], 0}
           /\ \A n \in Tasks : sup'[n] = sup[n] \/ (sup[n] = "replay" /\ sup'[n] = "crashed")
<1>1. sup' \in [Tasks -> SupStates] /\ own' \in [Tasks -> 0 .. MaxConns]
  BY Numbers, StatesAreStates DEF CancelAll, TypeOK
<1>2. \A n \in Tasks : sup'[n] = sup[n] \/ (sup[n] = "replay" /\ sup'[n] = "crashed")
  BY DEF CancelAll, TypeOK
<1>3. PICK P : EndHeartbeats(H \cup P)
  BY DEF CancelAll
<1> QED
  BY <1>1, <1>2, <1>3, EndHeartbeatsType

\* The tail of stop().
LEMMA ClosesType ==
    ASSUME TypeOK, NEW H, Closes(H)
    PROVE  /\ sup' \in [Tasks -> SupStates] /\ own' \in [Tasks -> 0 .. MaxConns]
           /\ hb' \in [Tasks -> HbStates] /\ hbConn' \in [Tasks -> 0 .. MaxConns]
           /\ \A n \in Tasks : hbConn'[n] \in {hbConn[n], 0}
           /\ \A n \in Tasks : sup'[n] = sup[n] \/ (sup[n] = "replay" /\ sup'[n] = "crashed")
           /\ sock' \in [Conns -> SockStates] /\ conn' \in 0 .. MaxConns
           /\ age' \in {"none", "young", "old"}
           /\ stopper' \in {"idle", "close"} /\ stopTask' \in Tasks
           /\ stopConn' \in 0 .. MaxConns
<1>1. CASE IsOpen(conn)
  <2>1. EndHeartbeats(H) /\ UNCHANGED <<conn, age, sup, own>>
    BY <1>1 DEF Closes
  <2>2. sock' \in [Conns -> SockStates]
    BY <1>1, MapTypes, StatesAreStates DEF Closes
  <2>3. stopper' = "close" /\ stopTask' = 0 /\ stopConn' = conn
    BY <1>1 DEF Closes
  <2>4. sup \in [Tasks -> SupStates] /\ own \in [Tasks -> 0 .. MaxConns]
    BY DEF TypeOK
  <2>5. conn \in 0 .. MaxConns /\ age \in {"none", "young", "old"}
    BY DEF TypeOK
  <2> QED
    BY <2>1, <2>2, <2>3, <2>4, <2>5, EndHeartbeatsType, Numbers
<1>2. CASE ~IsOpen(conn)
  BY <1>2, CancelAllType, Numbers DEF Closes, Forgotten, TypeOK
<1> QED
  BY <1>1, <1>2

\* A step that makes no connection and counts no attempt keeps the counters
\* behind the connections.
LEMMA AttemptsKept ==
    ASSUME TypeOK, AttemptsCounted, made' = made, starter' /= "idle" => starter /= "idle",
           \A m \in Starts :
              \/ attempt'[m] = attempt[m] /\ sup'[m] = sup[m]
              \/ attempt'[m] = attempt[m] /\ Alive(m) /\ sup[m] /= "sleep"
              \/ attempt'[m] \in {0, attempt[m]} /\ ~Alive(m)'
    PROVE  AttemptsCounted'
<1>1. starter' /= "idle" => made' > 0
  BY DEF AttemptsCounted
<1>2. ASSUME NEW m \in Starts
      PROVE  attempt'[m] <= made' /\ (Alive(m)' /\ sup'[m] /= "sleep" => attempt'[m] < made')
  <2>1. attempt[m] <= made /\ attempt[m] \in 0 .. MaxConns /\ made \in 0 .. MaxConns
    BY Numbers DEF AttemptsCounted, TypeOK
  <2>2. CASE attempt'[m] = attempt[m] /\ sup'[m] = sup[m]
    BY <2>1, <2>2 DEF AttemptsCounted, Alive
  <2>3. CASE attempt'[m] = attempt[m] /\ Alive(m) /\ sup[m] /= "sleep"
    BY <2>1, <2>3 DEF AttemptsCounted
  <2>4. CASE attempt'[m] \in {0, attempt[m]} /\ ~Alive(m)'
    BY <2>1, <2>4
  <2> QED
    BY <2>2, <2>3, <2>4
<1> QED
  BY <1>1, <1>2 DEF AttemptsCounted

\* What a step of a supervise task changes of the others: nothing.
LEMMA SupStepOfOne ==
    ASSUME TypeOK, NEW n \in Starts, SupStep(n)
    PROVE  /\ UNCHANGED <<hbVars, callVars>>
           /\ sup' \in [Tasks -> SupStates]
           /\ \A m \in Tasks : m /= n =>
                sup'[m] = sup[m] /\ attempt'[m] = attempt[m] /\ own'[m] = own[m]
<1>1. UNCHANGED <<hbVars, callVars>>
  BY DEF SupStep, PumpEnds, ReconnectStarts, ReconnectConnected, ReconnectFails,
         ReconnectSucceeds, ReplayEnds
<1>2. \/ Loops(n)
      \/ \E s \in {"done", "sleep", "crashed", "connect", "auth", "replay"} : Becomes(n, s)
  BY DEF SupStep, PumpEnds, GiveUp, Ends, ReconnectStarts, ReconnectConnected,
         ReconnectFails, ReconnectSucceeds, ReplayEnds
<1>3. /\ sup' \in [Tasks -> SupStates]
      /\ \A m \in Tasks : m /= n => sup'[m] = sup[m]
  <2>1. CASE Loops(n)
    BY <2>1, LoopsType
  <2>2. ASSUME NEW s \in {"done", "sleep", "crashed", "connect", "auth", "replay"}, Becomes(n, s)
        PROVE  sup' \in [Tasks -> SupStates] /\ \A m \in Tasks : m /= n => sup'[m] = sup[m]
    BY <2>2, MapTypes, StatesAreStates DEF Becomes, TypeOK
  <2> QED
    BY <1>2, <2>1, <2>2
<1>4. attempt' = attempt \/ \E a : attempt' = [attempt EXCEPT ![n] = a]
  BY DEF SupStep, PumpEnds, GiveUp, Ends, ReconnectStarts, ReconnectConnected,
         ReconnectFails, ReconnectSucceeds, ReplayEnds
<1>5. own' = own \/ \E o : own' = [own EXCEPT ![n] = o]
  BY DEF SupStep, PumpEnds, Loops, ReconnectStarts, ReconnectConnected, ReconnectFails,
         ReconnectSucceeds, ReplayEnds
<1> QED
  BY <1>1, <1>3, <1>4, <1>5 DEF TypeOK

\* A supervise task keeps the types, and counts an attempt only for a
\* connection that it has pumped to its end.
LEMMA SupStepType ==
    ASSUME TypeOK, AttemptsCounted, NEW n \in Starts, SupStep(n)
    PROVE  TypeOK' /\ AttemptsCounted'
<1> USE SupStepOfOne
<1>0. attempt[n] \in 0 .. MaxConns /\ n \in Tasks /\ sup[n] \in SupStates
  BY Numbers DEF TypeOK
<1>1. CASE PumpEnds(n)
  <2>1. NextAttempt(n) \in 0 .. MaxConns /\ NextAttempt(n) <= made
    BY <1>0, <1>1 DEF PumpEnds, PumpReturns, NextAttempt, AttemptsCounted, Alive, TypeOK
  <2>2. attempt'[n] \in {0, attempt[n], NextAttempt(n)} /\ sup'[n] \in {"done", "sleep", "crashed"}
    BY <1>0, <1>1 DEF PumpEnds, GiveUp, Ends, Becomes, TypeOK
  <2>3. attempt' \in [Tasks -> 0 .. MaxConns]
    BY <1>1, <2>1, MapTypes, Numbers DEF PumpEnds, GiveUp, Ends, TypeOK
  <2>4. own' \in [Tasks -> 0 .. MaxConns]
    BY <1>1, MapTypes, Numbers DEF PumpEnds
  <2>5. running' \in BOOLEAN /\ shutdown' \in BOOLEAN
    BY <1>1 DEF PumpEnds, GiveUp, flags, TypeOK
  <2>6. TypeOK'
    BY <1>1, <2>3, <2>4, <2>5 DEF PumpEnds, connVars, hbVars, callVars, TypeOK
  <2>7. made' = made /\ starter' = starter
    BY <1>1 DEF PumpEnds, connVars, callVars
  <2>8. ASSUME NEW m \in Starts
        PROVE  attempt'[m] <= made /\ (Alive(m)' /\ sup'[m] /= "sleep" => attempt'[m] < made)
    <3>1. CASE m = n
      BY <1>0, <2>1, <2>2, <3>1 DEF Alive, AttemptsCounted, TypeOK
    <3>2. CASE m /= n
      BY <3>2, Numbers DEF Alive, AttemptsCounted
    <3> QED
      BY <3>1, <3>2
  <2> QED
    BY <2>6, <2>7, <2>8 DEF AttemptsCounted
<1>2. CASE ReconnectStarts(n)
  <2>1. CASE running
    <3>1. NewConnection /\ attempt' = attempt /\ own' = [own EXCEPT ![n] = made + 1]
      BY <1>2, <2>1 DEF ReconnectStarts
    <3>2. own' \in [Tasks -> 0 .. MaxConns]
      BY <3>1, NewConnectionType, MapTypes
    <3>3. TypeOK'
      BY <1>2, <3>1, <3>2, NewConnectionType
      DEF ReconnectStarts, flags, hbVars, callVars, TypeOK
    <3>4. ASSUME NEW m \in Starts PROVE attempt'[m] < made'
      BY <3>1, NewConnectionType, Numbers DEF AttemptsCounted, TypeOK
    <3>5. made' > 0
      BY <3>1, NewConnectionType DEF TypeOK
    <3>6. \A m \in Starts : attempt'[m] <= made'
      BY <3>3, <3>4, Numbers DEF TypeOK
    <3> QED
      BY <3>3, <3>4, <3>5, <3>6 DEF AttemptsCounted
  <2>2. CASE ~running
    <3>1. Ends(n) /\ UNCHANGED <<connVars, own>>
      BY <1>2, <2>2 DEF ReconnectStarts
    <3>2. TypeOK'
      BY <1>2, <3>1, MapTypes, Numbers
      DEF ReconnectStarts, Ends, connVars, flags, hbVars, callVars, TypeOK
    <3>3. sup'[n] = "done" /\ attempt'[n] = 0
      BY <1>0, <3>1 DEF Ends, Becomes, TypeOK
    <3> QED
      BY <3>1, <3>2, <3>3, AttemptsKept, Numbers DEF connVars, callVars, Alive
  <2> QED
    BY <2>1, <2>2
<1>3. CASE ReconnectConnected(n)
  <2>1. TypeOK'
    BY <1>3, MapTypes, StatesAreStates DEF ReconnectConnected, flags, hbVars, callVars, TypeOK
  <2> QED
    BY <1>3, <2>1, AttemptsKept, Numbers DEF ReconnectConnected, callVars, Alive
<1>4. CASE ReconnectFails(n) \/ ReconnectSucceeds(n) \/ ReplayEnds(n)
  <2>1. /\ UNCHANGED <<flags, conn, made, sock, attempt>> /\ Alive(n) /\ sup[n] /= "sleep"
        /\ age' \in {"none", "young", "old"}
    BY <1>4 DEF ReconnectFails, ReconnectSucceeds, ReplayEnds, connVars, Alive, Authenticated, TypeOK
  <2>2. own' \in [Tasks -> 0 .. MaxConns]
    BY <1>4, LoopsType, MapTypes, Numbers DEF ReconnectFails, ReconnectSucceeds, ReplayEnds
  <2>3. TypeOK'
    BY <2>1, <2>2 DEF flags, hbVars, callVars, TypeOK
  <2> QED
    BY <2>1, <2>3, AttemptsKept, Numbers DEF callVars
<1> QED
  BY <1>1, <1>2, <1>3, <1>4 DEF SupStep

\* start() keeps the types.
LEMMA StartStepType ==
    ASSUME TypeOK, AttemptsCounted, StartCalled \/ StartStep
    PROVE  TypeOK' /\ AttemptsCounted'
<1>1. CASE StartCalled
  <2>1. NewConnection /\ starts' \in Tasks /\ running' \in BOOLEAN /\ shutdown' \in BOOLEAN
    BY <1>1, Numbers DEF StartCalled, TypeOK
  <2>2. own' \in [Tasks -> 0 .. MaxConns]
    BY <1>1, <2>1, NewConnectionType, MapTypes DEF StartCalled
  <2>3. TypeOK'
    BY <1>1, <2>1, <2>2, NewConnectionType DEF StartCalled, hbVars, TypeOK
  <2>4. /\ made' = made + 1 /\ made \in Nat /\ UNCHANGED <<sup, attempt>>
        /\ \A m \in Starts : attempt[m] <= made /\ attempt[m] \in Nat
    BY <1>1, <2>1, NewConnectionType, Numbers DEF StartCalled, AttemptsCounted, TypeOK
  <2> QED
    BY <2>3, <2>4 DEF AttemptsCounted
<1>2. CASE StartConnected
  <2>1. TypeOK'
    BY <1>2, MapTypes, StatesAreStates DEF StartConnected, flags, supVars, hbVars, TypeOK
  <2> QED
    BY <1>2, <2>1, AttemptsKept, Numbers DEF StartConnected, supVars
<1>3. CASE StartFails
  <2>1. TypeOK'
    BY <1>3 DEF StartFails, flags, connVars, supVars, hbVars, TypeOK
  <2> QED
    BY <1>3, <2>1, AttemptsKept, Numbers DEF StartFails, supVars, connVars
<1>4. CASE StartSucceeds
  <2>1. hb' \in [Tasks -> HbStates]
    BY <1>4, MapTypes, StatesAreStates DEF StartSucceeds, Rest, TypeOK
  <2>2. attempt' \in [Tasks -> 0 .. MaxConns]
    BY <1>4, MapTypes, Numbers DEF StartSucceeds
  <2>3. sup' \in [Tasks -> SupStates] /\ own' \in [Tasks -> 0 .. MaxConns]
    BY <1>4, LoopsType DEF StartSucceeds
  <2>4. age' \in {"none", "young", "old"}
    BY <1>4 DEF StartSucceeds, Authenticated, TypeOK
  <2>5. TypeOK'
    BY <1>4, <2>1, <2>2, <2>3, <2>4 DEF StartSucceeds, flags, TypeOK
  <2>6. made' = made /\ made > 0 /\ starter' = "idle"
    BY <1>4 DEF StartSucceeds, AttemptsCounted
  <2>7. ASSUME NEW m \in Starts
        PROVE  attempt'[m] <= made /\ (Alive(m)' /\ sup'[m] /= "sleep" => attempt'[m] < made)
    <3>1. m \in Tasks /\ starts \in Tasks /\ made \in Nat
      BY Numbers DEF TypeOK
    <3>2. CASE m = starts
      BY <1>4, <2>6, <3>1, <3>2 DEF StartSucceeds, TypeOK
    <3>3. CASE m /= starts
      <4>1. attempt'[m] = attempt[m] /\ sup'[m] = sup[m]
        BY <1>4, <3>1, <3>3, LoopsType DEF StartSucceeds, TypeOK
      <4> QED
        BY <4>1 DEF AttemptsCounted, Alive
    <3> QED
      BY <3>2, <3>3
  <2> QED
    BY <2>5, <2>6, <2>7 DEF AttemptsCounted
<1> QED
  BY <1>1, <1>2, <1>3, <1>4 DEF StartStep

\* What a heartbeat leaves alone.
LEMMA HbStepKeeps ==
    ASSUME NEW n \in Starts, HbStep(n)
    PROVE  /\ UNCHANGED <<flags, conn, made, age, supVars, callVars>>
           /\ \/ sock' = sock
              \/ IsOpen(conn) /\ hb[n] = "ping" /\ hbConn[n] = conn
                    /\ sock' = [sock EXCEPT ![conn] = "closing"]
              \/ sock' = [sock EXCEPT ![hbConn[n]] = "closed"]
           /\ \/ hbConn' = hbConn
              \/ hbConn' = [hbConn EXCEPT ![n] = conn]
              \/ hbConn' = [hbConn EXCEPT ![n] = 0]
<1>1. UNCHANGED <<flags, conn, made, age, supVars, callVars>>
  BY DEF HbStep, HbWakes, HbPong, HbPingFails, HbTimesOut, HbClosed, HbPauseEnds, connVars
<1>2. \/ sock' = sock
      \/ IsOpen(conn) /\ hb[n] = "ping" /\ hbConn[n] = conn
            /\ sock' = [sock EXCEPT ![conn] = "closing"]
      \/ sock' = [sock EXCEPT ![hbConn[n]] = "closed"]
  BY DEF HbStep, HbWakes, HbPong, HbPingFails, HbTimesOut, HbClosed, HbPauseEnds, connVars
<1>3. \/ hbConn' = hbConn
      \/ hbConn' = [hbConn EXCEPT ![n] = conn]
      \/ hbConn' = [hbConn EXCEPT ![n] = 0]
  BY DEF HbStep, HbWakes, HbPong, HbPingFails, HbTimesOut, HbClosed, HbPauseEnds
<1> QED
  BY <1>1, <1>2, <1>3

\* A heartbeat keeps the types.
LEMMA HbStepType ==
    ASSUME TypeOK, AttemptsCounted, NEW n \in Starts, HbStep(n)
    PROVE  TypeOK' /\ AttemptsCounted'
<1>1. hb' \in [Tasks -> HbStates]
  BY MapTypes, StatesAreStates
  DEF HbStep, HbWakes, HbPong, HbPingFails, HbTimesOut, HbClosed, HbPauseEnds, Rest, TypeOK
<1>2. hbConn' \in [Tasks -> 0 .. MaxConns] /\ sock' \in [Conns -> SockStates]
  BY HbStepKeeps, MapTypes, Numbers, StatesAreStates DEF TypeOK
<1>3. UNCHANGED <<flags, conn, made, age, supVars, callVars>>
  BY HbStepKeeps
<1>4. TypeOK'
  BY <1>1, <1>2, <1>3 DEF flags, supVars, callVars, TypeOK
<1> QED
  BY <1>3, <1>4, AttemptsKept, Numbers DEF supVars, callVars

\* stop() keeps the types.
LEMMA StopStepType ==
    ASSUME TypeOK, AttemptsCounted, StopCalled \/ StopStep
    PROVE  TypeOK' /\ AttemptsCounted'
<1>1. CASE StopCalled /\ TasksToAwait
  <2>1. CancelSupervisor /\ task \in Tasks /\ sup \in [Tasks -> SupStates]
    BY <1>1 DEF StopCalled, TypeOK
  <2>2. own' \in [Tasks -> 0 .. MaxConns]
    BY <2>1, MapTypes, Numbers DEF CancelSupervisor
  <2>3. sup' \in [Tasks -> SupStates] /\ attempt' \in [Tasks -> 0 .. MaxConns]
    BY <2>1, MapTypes, Numbers, StatesAreStates DEF CancelSupervisor, Ends, Becomes, TypeOK
  <2>4. hb' \in [Tasks -> HbStates] /\ hbConn' \in [Tasks -> 0 .. MaxConns]
    BY <1>1, EndHeartbeatsType DEF StopCalled
  <2>5. TypeOK'
    BY <1>1, <2>2, <2>3, <2>4 DEF StopCalled, TypeOK
  <2>6. ASSUME NEW m \in Starts
        PROVE  \/ attempt'[m] = attempt[m] /\ sup'[m] = sup[m]
               \/ attempt'[m] = attempt[m] /\ Alive(m) /\ sup[m] /= "sleep"
               \/ attempt'[m] \in {0, attempt[m]} /\ ~Alive(m)'
    <3>1. CASE m /= task
      BY <2>1, <3>1, Numbers DEF CancelSupervisor, Ends, Becomes, TypeOK
    <3>2. CASE m = task /\ (sup[task] = "pump" \/ sup[task] = "auth") /\ UNCHANGED attempt
      BY <3>2 DEF Alive
    <3>3. CASE m = task /\ UNCHANGED <<sup, attempt>>
      BY <3>3
    <3>4. CASE m = task /\ Ends(task)
      BY <2>1, <3>4 DEF Ends, Becomes, Alive, TypeOK
    <3> QED
      BY <2>1, <3>1, <3>2, <3>3, <3>4 DEF CancelSupervisor
  <2>7. made' = made /\ starter' = starter
    BY <1>1 DEF StopCalled
  <2> QED
    BY <2>5, <2>6, <2>7, AttemptsKept
<1>2. ASSUME NEW H, Closes(H), UNCHANGED <<made, task, starts, starter, attempt>>,
             running' \in BOOLEAN, shutdown' \in BOOLEAN
      PROVE  TypeOK' /\ AttemptsCounted'
  <2>1. TypeOK'
    BY <1>2, ClosesType DEF TypeOK
  <2>2. ASSUME NEW m \in Starts PROVE sup'[m] = sup[m] \/ ~Alive(m)'
    BY <1>2, ClosesType, Numbers DEF Alive
  <2> QED
    BY <1>2, <2>1, <2>2, AttemptsKept
<1>3. CASE StopCalled /\ ~TasksToAwait
  BY <1>2, <1>3 DEF StopCalled
<1>4. CASE StopCancelsHeartbeat
  BY <1>2, <1>4 DEF StopCancelsHeartbeat, flags, TypeOK
<1>5. CASE StopEnds
  <2>1. CancelAll({}) /\ Forgotten /\ UNCHANGED <<flags, made, attempt, task, starts, starter>>
    BY <1>5 DEF StopEnds
  <2>2. sock' \in [Conns -> SockStates]
    BY <1>5, MapTypes, StatesAreStates DEF StopEnds
  <2>3. TypeOK'
    BY <2>1, <2>2, CancelAllType, Numbers DEF Forgotten, flags, TypeOK
  <2>4. ASSUME NEW m \in Starts PROVE sup'[m] = sup[m] \/ ~Alive(m)'
    BY <2>1, CancelAllType, Numbers DEF Alive
  <2> QED
    BY <2>1, <2>3, <2>4, AttemptsKept
<1> QED
  BY <1>1, <1>3, <1>4, <1>5 DEF StopStep

\* Every variable keeps its type; the attempt counters stay within the
\* connections made.
LEMMA SupervisorTypeStep ==
    ASSUME TypeOK, AttemptsCounted, [Next]_vars
    PROVE  TypeOK' /\ AttemptsCounted'
<1>1. CASE Ages
  BY <1>1, AttemptsKept DEF Ages, flags, supVars, hbVars, callVars, TypeOK
<1>2. ASSUME NEW i \in Conns, Drop(i) PROVE TypeOK' /\ AttemptsCounted'
  <2>1. TypeOK'
    BY <1>2, MapTypes, StatesAreStates DEF Drop, flags, supVars, hbVars, callVars, TypeOK
  <2> QED
    BY <1>2, <2>1, AttemptsKept DEF Drop, supVars, callVars
<1>3. CASE UNCHANGED vars
  BY <1>3, AttemptsKept DEF vars, flags, connVars, supVars, hbVars, callVars, TypeOK
<1> QED
  BY <1>1, <1>2, <1>3, StartStepType, SupStepType, HbStepType, StopStepType DEF Next

\* Every reachable state is well typed, whatever the policy, the frames and the
\* calls of start() and stop() do; in particular no attempt counter the policy
\* is called with passes the number of connections made.
THEOREM SupervisorTypeCorrect == Spec => []TypeOK
BY SupervisorInitType, SupervisorTypeStep, PTL DEF Spec
----------------------------------------------------------------------------
(* The invariant. *)

\* The invariant holds of a client not yet started.
LEMMA LifecycleInit == Init => Lifecycle
<1> SUFFICES ASSUME Init PROVE Lifecycle
  OBVIOUS
<1>1. TypeOK /\ AttemptsCounted
  BY SupervisorInitType
<1>2. \A n \in Tasks : ~Alive(n) /\ sup[n] = "none" /\ hbConn[n] = 0
  BY DEF Init, Alive
<1>3. ~IsOpen(conn) /\ \A i \in Conns : sock[i] = "none"
  BY DEF Init, IsOpen
<1>4. TasksInOrder
  BY <1>2, Numbers DEF Init, TasksInOrder, Tasks
<1>5. MadeInOrder
  BY <1>2, <1>3, Numbers DEF Init, MadeInOrder
<1> QED
  BY <1>1, <1>2, <1>3, <1>4, <1>5, Numbers
  DEF Init, Lifecycle, Orderly, NoSocketLeak, StartAlone, SupervisorHasConnection,
      StopAfterRunning, NothingLeftToClose, IsOpen

\* What a heartbeat pings has been made.
LEMMA PingedWasMade ==
    ASSUME TypeOK, MadeInOrder, NEW n \in Starts, HbStep(n)
    PROVE  \A m \in Starts : hbConn'[m] <= made'
<1>1. TAKE m \in Starts
<1>2. hbConn'[m] \in {hbConn[m], conn, 0} /\ made' = made
  BY HbStepKeeps, Numbers DEF TypeOK
<1>3. hbConn[m] <= made /\ conn <= made /\ 0 <= made
  BY DEF TypeOK, MadeInOrder
<1> QED
  BY <1>2, <1>3

\* Making a connection keeps the order they are made in.
LEMMA MadeOneMore ==
    ASSUME TypeOK, MadeInOrder, NewConnection, hbConn' = hbConn
    PROVE  MadeInOrder'
<1>1. made' = made + 1 /\ conn' = made + 1 /\ sock' = sock /\ made \in Nat
  BY NewConnectionType DEF TypeOK
<1>2. ASSUME NEW n \in Starts PROVE hbConn'[n] <= made'
  <2>1. hbConn[n] <= made /\ hbConn[n] \in 0 .. MaxConns
    BY <1>2, Numbers DEF MadeInOrder, TypeOK
  <2> QED
    BY <1>1, <2>1
<1>3. ASSUME NEW i \in Conns, i > made' PROVE sock'[i] = "none"
  <2>1. i > made
    BY <1>1, <1>3 DEF Conns
  <2> QED
    BY <1>1, <2>1 DEF MadeInOrder
<1> QED
  BY <1>1, <1>2, <1>3 DEF MadeInOrder

\* So does every step that makes none and leaves the sockets not made alone.
LEMMA MadeTheSame ==
    ASSUME TypeOK, MadeInOrder, made' = made, conn' \in {conn, 0},
           \A n \in Starts : hbConn'[n] \in {hbConn[n], 0},
           \/ sock' = sock
           \/ \E i \in 0 .. made : \E s : sock' = [sock EXCEPT ![i] = s]
    PROVE  MadeInOrder'
<1>1. made \in 0 .. MaxConns /\ conn <= made /\ 0 <= made
  BY DEF TypeOK, MadeInOrder
<1>2. \A i \in Conns : i > made => sock'[i] = sock[i]
  BY <1>1 DEF TypeOK, Conns
<1>3. \A n \in Starts : hbConn'[n] <= made
  BY <1>1 DEF MadeInOrder
<1> QED
  BY <1>1, <1>2, <1>3 DEF MadeInOrder

\* The one supervise task that can take a step.
LEMMA TheLiveOne ==
    ASSUME Orderly, NEW n \in Starts, Alive(n)
    PROVE  /\ n = task /\ n = starts /\ n /= 0
           /\ conn /= 0 /\ conn = made /\ conn \in Conns
           /\ starter = "idle" /\ stopper /= "close"
           /\ ~running => shutdown /\ stopper = "sup" /\ sup[n] \in {"cancelled", "replay"}
           /\ \A m \in Starts : Alive(m) => m = n
<1>1. /\ n = task /\ n = starts /\ conn /= 0 /\ conn = made
      /\ ~running => shutdown /\ stopper = "sup" /\ sup[n] \in {"cancelled", "replay"}
      /\ \A m \in Starts : Alive(m) => m = task
  BY DEF Orderly, SupervisorHasConnection
<1>2. starter = "idle" /\ stopper /= "close"
  BY DEF Orderly, StartAlone, StopAfterRunning
<1>3. n /= 0 /\ (conn /= 0 => conn \in Conns)
  BY DEF Orderly, TypeOK, Starts, Conns
<1> QED
  BY <1>1, <1>2, <1>3

\* The first half of the invariant, of a step of the supervise task.
LEMMA OrderlySup ==
    ASSUME Orderly, NEW n \in Starts, SupStep(n)
    PROVE  Orderly'
<1>1. TypeOK /\ TypeOK' /\ AttemptsCounted' /\ MadeInOrder
  BY SupStepType DEF Orderly
<1>2. Alive(n)
  BY DEF SupStep, PumpEnds, PumpReturns, ReconnectStarts, ReconnectConnected, ReconnectFails,
         ReconnectSucceeds, ReplayEnds, Alive
<1>3. /\ n = task /\ n = starts /\ conn /= 0 /\ conn = made /\ conn \in Conns
      /\ starter = "idle" /\ stopper /= "close"
      /\ ~running => shutdown /\ stopper = "sup" /\ sup[n] \in {"cancelled", "replay"}
      /\ \A m \in Starts : Alive(m) => m = n
  BY <1>2, TheLiveOne
<1>4. /\ UNCHANGED <<hbVars, callVars>>
      /\ \A m \in Tasks : m /= n => sup'[m] = sup[m] /\ own'[m] = own[m]
  BY <1>1, SupStepOfOne
<1>5. MadeInOrder'
  <2>1. CASE NewConnection
    BY <1>1, <1>4, <2>1, MadeOneMore DEF hbVars
  <2>2. CASE made' = made /\ conn' = conn /\ sock' = sock
    BY <1>1, <1>4, <2>2, MadeTheSame DEF hbVars
  <2>3. CASE ReconnectConnected(n)
    <3>1. own[n] = conn /\ conn \in 0 .. made
      BY <1>1, <1>2, <1>3, <2>3 DEF ReconnectConnected, Orderly, SupervisorHasConnection, TypeOK
    <3> QED
      BY <1>1, <1>4, <2>3, <3>1, MadeTheSame DEF ReconnectConnected, hbVars
  <2> QED
    BY <2>1, <2>2, <2>3 DEF SupStep, PumpEnds, ReconnectStarts, ReconnectFails,
                            ReconnectSucceeds, ReplayEnds, connVars
<1>6. TasksInOrder'
  <2>1. sup'[0] = sup[0] /\ \A m \in Starts : m > starts => sup'[m] = sup[m]
    BY <1>1, <1>3, <1>4, Numbers DEF Starts, TypeOK
  <2> QED
    BY <1>4, <2>1 DEF Orderly, TasksInOrder, callVars
<1>7. StartAlone'
  BY <1>3, <1>4 DEF StartAlone, callVars
<1>8. ASSUME NEW m \in Starts, Alive(m)' PROVE m = n
  BY <1>3, <1>4, <1>8, Numbers DEF Alive
<1>9. Alive(n)' =>
        /\ conn' /= 0 /\ conn' = made'
        /\ sup'[n] \in {"connect", "auth"} => own'[n] = conn'
        /\ sup'[n] = "pump" /\ IsOpen(conn)' => own'[n] = conn'
        /\ sup'[n] = "cancelled" => ~running'
        /\ ~running' => shutdown' /\ stopper = "sup" /\ sup'[n] \in {"cancelled", "replay"}
  <2>0. n \in Tasks /\ sup \in [Tasks -> SupStates] /\ own \in [Tasks -> 0 .. MaxConns]
    BY <1>1, Numbers DEF TypeOK
  <2>1. CASE PumpEnds(n)
    BY <1>3, <2>0, <2>1 DEF PumpEnds, GiveUp, Ends, Becomes, Alive, flags, connVars
  <2>2. CASE ReconnectStarts(n)
    <3>1. CASE running
      <4>1. /\ running' /\ conn' /= 0 /\ conn' = made'
            /\ own'[n] = conn' /\ sup'[n] = "connect"
        BY <1>1, <2>0, <2>2, <3>1, NewConnectionType, Numbers
        DEF ReconnectStarts, Becomes, flags, TypeOK
      <4> QED
        BY <4>1
    <3>2. CASE ~running
      BY <2>0, <2>2, <3>2 DEF ReconnectStarts, Ends, Becomes, Alive
    <3> QED
      BY <3>1, <3>2
  <2>3. CASE ReconnectConnected(n)
    BY <1>2, <1>3, <2>0, <2>3
    DEF ReconnectConnected, Becomes, flags, Orderly, SupervisorHasConnection
  <2>4. CASE Loops(n) /\ UNCHANGED <<flags, conn, made, sock>>
    BY <1>3, <2>0, <2>4 DEF Loops, Becomes, Alive, flags, IsOpen
  <2>5. CASE ReconnectSucceeds(n) /\ Becomes(n, "replay")
    BY <1>3, <2>0, <2>5 DEF ReconnectSucceeds, Becomes, flags
  <2> QED
    BY <2>1, <2>2, <2>3, <2>4, <2>5
    DEF SupStep, ReconnectFails, ReconnectSucceeds, ReplayEnds, connVars
<1>10. SupervisorHasConnection'
  BY <1>3, <1>4, <1>8, <1>9 DEF SupervisorHasConnection, callVars
<1>11. StopAfterRunning'
  <2>1. stopper /= "idle" => ~running'
    BY DEF Orderly, StopAfterRunning, SupStep, PumpEnds, GiveUp, ReconnectStarts,
           ReconnectConnected, ReconnectFails, ReconnectSucceeds, ReplayEnds, flags
  <2> QED
    BY <1>3, <1>4, <2>1 DEF Orderly, StopAfterRunning, callVars
<1> QED
  BY <1>1, <1>5, <1>6, <1>7, <1>10, <1>11 DEF Orderly

\* The first half of the invariant, of a step of start().
LEMMA OrderlyStart ==
    ASSUME ~Overlap, Orderly, StartCalled \/ StartStep
    PROVE  Orderly'
<1>1. /\ TypeOK /\ TypeOK' /\ AttemptsCounted' /\ MadeInOrder /\ TasksInOrder
      /\ StartAlone /\ StopAfterRunning
  BY StartStepType DEF Orderly
<1>2. \A m \in Starts : ~Alive(m)
  <2>1. CASE StartCalled
    BY <2>1, TheLiveOne DEF StartCalled
  <2>2. CASE StartStep
    BY <1>1, <2>2 DEF StartStep, StartConnected, StartFails, StartSucceeds, StartAlone
  <2> QED
    BY <2>1, <2>2
<1>3. CASE StartCalled
  <2>1. /\ NewConnection /\ stopper' = "idle" /\ starts' = starts + 1 /\ starts' \in Starts
        /\ UNCHANGED <<sup, task, hbConn>>
    BY <1>1, <1>3, Numbers DEF StartCalled, hbVars, TypeOK
  <2>2. MadeInOrder'
    BY <1>1, <2>1, MadeOneMore
  <2>3. \A m \in Starts : ~Alive(m)'
    BY <1>2, <2>1 DEF Alive
  <2>4. starts \in Int /\ task \in Int /\ task <= starts /\ \A m \in Starts : m \in Int
    BY <1>1 DEF TypeOK, TasksInOrder, Tasks, Starts
  <2>5. TasksInOrder'
    <3>1. ASSUME NEW m \in Starts, m > starts' PROVE sup'[m] = "none"
      BY <1>1, <2>1, <2>4, <3>1 DEF TasksInOrder
    <3>2. task' <= starts' /\ starts' > 0
      BY <2>1, <2>4 DEF Starts
    <3> QED
      BY <1>1, <2>1, <3>1, <3>2 DEF TasksInOrder
  <2>6. own'[starts'] = made' /\ conn' = made' /\ conn' /= 0 /\ sup'[starts'] = "none"
    <3>1. own' = [own EXCEPT ![starts + 1] = made + 1] /\ starts' \in Tasks
      BY <1>3, <2>1, Numbers DEF StartCalled
    <3>2. made' = made + 1 /\ conn' = made' /\ made \in Nat
      BY <1>1, <2>1, NewConnectionType DEF TypeOK
    <3>3. own'[starts'] = made'
      BY <1>1, <2>1, <3>1, <3>2 DEF TypeOK
    <3>4. sup[starts + 1] = "none"
      BY <1>1, <2>1, <2>4 DEF TasksInOrder
    <3> QED
      BY <2>1, <3>2, <3>3, <3>4
  <2>7. StartAlone'
    BY <1>3, <2>1, <2>3, <2>6 DEF StartCalled, StartAlone
  <2>8. SupervisorHasConnection' /\ StopAfterRunning'
    BY <2>1, <2>3 DEF SupervisorHasConnection, StopAfterRunning
  <2> QED
    BY <1>1, <2>2, <2>5, <2>7, <2>8 DEF Orderly
<1>4. CASE StartStep
  <2>1. /\ running /\ stopper = "idle" /\ starter /= "idle" /\ sup[starts] = "none"
        /\ conn /= 0 /\ conn = made /\ own[starts] = made /\ starts > 0
        /\ starts \in Starts /\ starts \in Tasks
    <3>1. starter /= "idle"
      BY <1>4 DEF StartStep, StartConnected, StartFails, StartSucceeds
    <3>2. /\ running /\ stopper = "idle" /\ sup[starts] = "none"
          /\ conn /= 0 /\ conn = made /\ own[starts] = made
      BY <1>1, <3>1 DEF StartAlone
    <3>3. starts > 0 /\ starts \in Tasks
      BY <1>1, <3>1 DEF TasksInOrder, TypeOK
    <3>4. starts \in Starts
      BY <3>3 DEF Tasks, Starts
    <3> QED
      BY <3>1, <3>2, <3>3, <3>4
  <2>2. UNCHANGED <<flags, conn, made, hbConn, starts, stopper, stopTask, stopConn>>
    BY <1>4 DEF StartStep, StartConnected, StartFails, StartSucceeds, connVars, hbVars
  <2>3. MadeInOrder'
    <3>1. sock' = sock \/ sock' = [sock EXCEPT ![made] = "open"]
      BY <1>4, <2>1 DEF StartStep, StartConnected, StartFails, StartSucceeds, connVars
    <3>2. made \in 0 .. made
      BY <1>1 DEF TypeOK
    <3> QED
      BY <1>1, <2>2, <3>1, <3>2, MadeTheSame
  <2>4. StopAfterRunning'
    BY <2>1, <2>2 DEF StopAfterRunning
  <2>5. CASE StartSucceeds
    <3>1. /\ starter' = "idle" /\ task' = starts /\ sup'[starts] = "pump" /\ IsOpen(conn)
          /\ own'[starts] = conn
          /\ \A m \in Tasks : m /= starts => sup'[m] = sup[m]
      BY <1>1, <2>1, <2>5, LoopsType DEF StartSucceeds, Authenticated, Loops, TypeOK
    <3>2. TasksInOrder'
      <4>1. starts \in Int /\ \A m \in Starts : m \in Int /\ m \in Tasks /\ m /= 0
        BY <2>1, Numbers DEF Tasks, Starts
      <4>2. sup'[0] = "none"
        BY <1>1, <2>1, <3>1, <4>1, Numbers DEF TasksInOrder
      <4>3. ASSUME NEW m \in Starts, m > starts PROVE sup'[m] = "none"
        BY <1>1, <3>1, <4>1, <4>3 DEF TasksInOrder
      <4> QED
        BY <2>2, <3>1, <4>1, <4>2, <4>3 DEF TasksInOrder
    <3>3. \A m \in Starts : Alive(m)' => m = starts
      BY <1>2, <3>1, Numbers DEF Alive
    <3>4. SupervisorHasConnection'
      BY <2>1, <2>2, <3>1, <3>3 DEF SupervisorHasConnection, flags
    <3>5. StartAlone'
      BY <3>1 DEF StartAlone
    <3> QED
      BY <1>1, <2>3, <2>4, <3>2, <3>4, <3>5 DEF Orderly
  <2>6. CASE StartConnected \/ StartFails
    <3>1. UNCHANGED <<sup, own, task>>
      BY <2>6 DEF StartConnected, StartFails, supVars
    <3>2. \A m \in Starts : ~Alive(m)'
      BY <1>2, <3>1 DEF Alive
    <3> QED
      BY <1>1, <2>1, <2>2, <2>3, <2>4, <3>1, <3>2
      DEF Orderly, StartAlone, SupervisorHasConnection, TasksInOrder, flags
  <2> QED
    BY <1>4, <2>5, <2>6 DEF StartStep
<1> QED
  BY <1>3, <1>4

\* The first half of the invariant, of the tail of stop(): the supervise task is
\* over.
LEMMA OrderlyClosed ==
    ASSUME Orderly, TypeOK', AttemptsCounted', \A m \in Starts : ~Alive(m),
           \A m \in Tasks : sup'[m] = sup[m] \/ (sup[m] = "replay" /\ sup'[m] = "crashed"),
           \A m \in Tasks : hbConn'[m] \in {hbConn[m], 0},
           UNCHANGED <<made, task, starts, starter>>, ~running', starter = "idle",
           \/ conn' = conn /\ conn /= 0 /\ stopper' = "close" /\ stopConn' = conn
           \/ conn' = 0 /\ stopper' = "idle",
           sock' = sock \/ \E s : sock' = [sock EXCEPT ![conn] = s]
    PROVE  Orderly'
<1>1. TypeOK /\ MadeInOrder /\ TasksInOrder
  BY DEF Orderly
<1>2. \A m \in Starts : ~Alive(m)'
  BY Numbers DEF Alive
<1>3. MadeInOrder'
  BY <1>1, MadeTheSame, Numbers DEF MadeInOrder, TypeOK
<1>4. TasksInOrder'
  BY <1>1, Numbers DEF TasksInOrder
<1>5. StartAlone' /\ SupervisorHasConnection' /\ StopAfterRunning'
  BY <1>2 DEF StartAlone, SupervisorHasConnection, StopAfterRunning
<1> QED
  BY <1>3, <1>4, <1>5 DEF Orderly

\* The first half of the invariant, of a step of stop().
LEMMA OrderlyStop ==
    ASSUME ~Overlap, Orderly, StopCalled \/ StopStep
    PROVE  Orderly'
<1>1. TypeOK /\ TypeOK' /\ AttemptsCounted' /\ MadeInOrder /\ TasksInOrder
  BY StopStepType DEF Orderly
<1>2. starter = "idle" /\ UNCHANGED <<made, task, starts, starter>> /\ ~running'
  <2>1. CASE StopCalled
    BY <2>1 DEF StopCalled
  <2>2. CASE StopStep
    BY <2>2 DEF StopStep, StopCancelsHeartbeat, StopEnds, Orderly, StartAlone,
                StopAfterRunning, flags
  <2> QED
    BY <2>1, <2>2
<1>3. ASSUME NEW H, Closes(H), \A m \in Starts : ~Alive(m) PROVE Orderly'
  <2>1. \/ conn' = conn /\ conn /= 0 /\ stopper' = "close" /\ stopConn' = conn
        \/ conn' = 0 /\ stopper' = "idle"
    BY <1>3 DEF Closes, Forgotten, IsOpen
  <2>2. sock' = sock \/ \E s : sock' = [sock EXCEPT ![conn] = s]
    BY <1>3 DEF Closes
  <2> QED
    BY <1>1, <1>2, <1>3, <2>1, <2>2, ClosesType, OrderlyClosed
<1>4. CASE StopCalled /\ TasksToAwait
  <2>1. /\ CancelSupervisor /\ shutdown' /\ stopper' = "sup" /\ stopTask' = task
        /\ UNCHANGED <<conn, sock>>
        /\ running /\ task \in Tasks /\ sup \in [Tasks -> SupStates]
    BY <1>1, <1>4 DEF StopCalled, TypeOK
  <2>2. \A m \in Tasks : hbConn'[m] \in {hbConn[m], 0}
    BY <1>1, <1>4, EndHeartbeatsType DEF StopCalled
  <2>3. MadeInOrder'
    BY <1>1, <1>2, <2>1, <2>2, MadeTheSame, Numbers
  <2>4. \A m \in Tasks : m /= task => sup'[m] = sup[m]
    BY <2>1 DEF CancelSupervisor, Ends, Becomes
  <2>5. \/ ~Alive(task) /\ sup'[task] = sup[task]
        \/ Alive(task) /\ sup'[task] \in {"cancelled", "replay", "done"}
    BY <2>1 DEF CancelSupervisor, Ends, Becomes, Alive
  <2>6. TasksInOrder'
    <3>1. ASSUME NEW m \in Tasks, sup[m] = "none" PROVE sup'[m] = "none"
      BY <2>4, <2>5, <3>1 DEF Alive
    <3> QED
      BY <1>1, <1>2, <3>1, Numbers DEF TasksInOrder
  <2>7. ASSUME NEW m \in Starts, Alive(m)'
        PROVE  m = task /\ Alive(m) /\ sup'[m] \in {"cancelled", "replay"}
    <3>1. m \in Tasks /\ (Alive(m) => m = task)
      BY Numbers DEF Orderly, SupervisorHasConnection
    <3> QED
      BY <2>4, <2>5, <2>7, <3>1 DEF Alive
  <2>8. SupervisorHasConnection'
    BY <1>2, <2>1, <2>7 DEF Orderly, SupervisorHasConnection
  <2>9. StartAlone' /\ StopAfterRunning'
    BY <1>2, <2>1 DEF StartAlone, StopAfterRunning
  <2> QED
    BY <1>1, <2>3, <2>6, <2>8, <2>9 DEF Orderly
<1>5. CASE StopCalled /\ ~TasksToAwait
  <2>1. \A m \in Starts : ~Alive(m)
    BY <1>5 DEF TasksToAwait, Orderly, SupervisorHasConnection
  <2> QED
    BY <1>3, <1>5, <2>1 DEF StopCalled
<1>6. CASE StopCancelsHeartbeat
  <2>1. \A m \in Starts : ~Alive(m)
    BY <1>6 DEF StopCancelsHeartbeat, Orderly, SupervisorHasConnection, StopAfterRunning
  <2> QED
    BY <1>3, <1>6, <2>1 DEF StopCancelsHeartbeat
<1>7. CASE StopEnds
  <2>1. (\A m \in Starts : ~Alive(m)) /\ stopConn = conn
    BY <1>7 DEF StopEnds, Orderly, StopAfterRunning
  <2>2. CancelAll({}) /\ conn' = 0 /\ stopper' = "idle" /\ \E s : sock' = [sock EXCEPT ![conn] = s]
    BY <1>7, <2>1 DEF StopEnds, Forgotten
  <2> QED
    BY <1>1, <1>2, <2>1, <2>2, CancelAllType, OrderlyClosed
<1> QED
  BY <1>4, <1>5, <1>6, <1>7 DEF StopStep

\* start(), the supervisor and stop() take turns, and sockets are numbered as
\* they are made: this holds whatever frames and policies do.
LEMMA OrderlyStep ==
    ASSUME ~Overlap, Orderly, [Next]_vars
    PROVE  Orderly'
<1>1. TypeOK /\ TypeOK' /\ AttemptsCounted' /\ MadeInOrder
  BY SupervisorTypeStep DEF Orderly
<1>2. ASSUME UNCHANGED <<flags, conn, made, supVars, callVars>>, MadeInOrder',
             IsOpen(conn)' => IsOpen(conn)
      PROVE  Orderly'
  <2>1. \A n \in Starts : Alive(n)' = Alive(n)
    BY <1>2 DEF Alive, supVars
  <2> QED
    BY <1>1, <1>2, <2>1
    DEF Orderly, TasksInOrder, StartAlone, SupervisorHasConnection, StopAfterRunning, flags,
        supVars, callVars
<1>3. ASSUME NEW n \in Starts, HbStep(n) PROVE Orderly'
  <2>1. UNCHANGED <<flags, conn, made, supVars, callVars>>
    BY <1>3, HbStepKeeps
  <2>2. \A m \in Starts : hbConn'[m] <= made'
    BY <1>1, <1>3, PingedWasMade
  <2>3. hbConn[n] \in Int /\ conn \in Int /\ made \in Int /\ hbConn[n] <= made /\ conn <= made
    BY <1>1, <1>3, Numbers DEF MadeInOrder, TypeOK
  <2>4. \A i \in Conns : i > made => i /= conn /\ i /= hbConn[n]
    BY <2>3 DEF Conns
  <2>5. \A i \in Conns : i > made => sock'[i] = sock[i]
    BY <1>1, <1>3, <2>4, HbStepKeeps DEF TypeOK
  <2>6. MadeInOrder'
    BY <1>1, <2>1, <2>2, <2>3, <2>5 DEF MadeInOrder
  <2>7. IsOpen(conn)' => IsOpen(conn)
    <3>1. conn /= 0 => conn \in Conns
      BY <1>1, NotNone DEF TypeOK
    <3>2. \/ sock' = sock
          \/ IsOpen(conn)
          \/ sock' = [sock EXCEPT ![hbConn[n]] = "closed"]
      BY <1>3, HbStepKeeps
    <3> QED
      BY <1>1, <2>1, <3>1, <3>2 DEF IsOpen, TypeOK
  <2> QED
    BY <1>2, <2>1, <2>6, <2>7
<1>4. CASE Ages \/ UNCHANGED vars
  <2>1. UNCHANGED <<flags, conn, made, sock, supVars, hbVars, callVars>>
    BY <1>4 DEF Ages, vars, connVars
  <2> QED
    BY <1>1, <1>2, <2>1, MadeTheSame DEF IsOpen, hbVars
<1>5. ASSUME NEW i \in Conns, Drop(i) PROVE Orderly'
  <2>1. /\ UNCHANGED <<flags, conn, made, supVars, hbVars, callVars>>
        /\ sock' = [sock EXCEPT ![i] = "closed"] /\ IsOpen(i)
    BY <1>5 DEF Drop
  <2>2. i \in 0 .. made
    <3>0. sock[i] /= "none"
      BY <2>1 DEF IsOpen
    <3>1. i \in Int /\ i >= 0 /\ made \in Int
      BY <1>1, <1>5 DEF TypeOK, Conns
    <3>2. ~(i > made)
      BY <1>1, <1>5, <3>0 DEF MadeInOrder
    <3> QED
      BY <3>1, <3>2
  <2>3. MadeInOrder'
    BY <1>1, <2>1, <2>2, MadeTheSame DEF hbVars
  <2>4. IsOpen(conn)' => IsOpen(conn)
    BY <1>1, <2>1 DEF IsOpen, TypeOK, Conns
  <2> QED
    BY <1>2, <2>1, <2>3, <2>4
<1> QED
  BY <1>3, <1>4, <1>5, OrderlyStart, OrderlySup, OrderlyStop DEF Next

\* A heartbeat opens no socket.
LEMMA HbOpensNothing ==
    ASSUME TypeOK, NEW n \in Starts, HbStep(n)
    PROVE  \A i \in 0 .. MaxConns : IsOpen(i)' => IsOpen(i)
<1>1. TAKE i \in 0 .. MaxConns
<1>2. i /= 0 => i \in Conns
  BY NotNone
<1>3. \/ sock' = sock
      \/ IsOpen(conn) /\ sock' = [sock EXCEPT ![conn] = "closing"]
      \/ sock' = [sock EXCEPT ![hbConn[n]] = "closed"]
  BY HbStepKeeps
<1> QED
  BY <1>2, <1>3 DEF TypeOK, IsOpen

\* Nothing is lost by start(): no socket is open when it makes a connection.
LEMMA LifecycleStart ==
    ASSUME ~Overlap, Lifecycle, Orderly', StartCalled \/ StartStep
    PROVE  NoSocketLeak' /\ NothingLeftToClose'
<1>1. TypeOK /\ TypeOK' /\ Orderly /\ StartAlone
  BY DEF Lifecycle, Orderly
<1>2. CASE StartCalled
  <2>1. ~running /\ stopper = "idle" /\ running' /\ NewConnection /\ sup' = sup
    BY <1>2 DEF StartCalled
  <2>2. \A i \in Conns : ~IsOpen(i)
    BY <2>1 DEF Lifecycle, NoSocketLeak, NothingLeftToClose
  <2>3. \A i \in Conns : ~IsOpen(i)'
    BY <1>1, <2>1, <2>2, NewConnectionType DEF IsOpen
  <2>4. \A n \in Starts : sup'[n] /= "sleep"
    BY <1>1, <2>1, TheLiveOne DEF Alive
  <2> QED
    BY <2>1, <2>3, <2>4 DEF NoSocketLeak, NothingLeftToClose
<1>3. CASE StartStep
  <2>1. /\ running /\ conn = made /\ own[starts] = made /\ \A m \in Starts : ~Alive(m)
    BY <1>1, <1>3 DEF StartStep, StartConnected, StartFails, StartSucceeds, StartAlone
  <2>2. /\ running' = running /\ conn' = conn
        /\ sock' = sock \/ sock' = [sock EXCEPT ![conn] = "open"]
    BY <1>3, <2>1 DEF StartStep, StartConnected, StartFails, StartSucceeds, flags, connVars
  <2>3. NoSocketLeak'
    BY <1>1, <2>2 DEF Lifecycle, NoSocketLeak, IsOpen, TypeOK
  <2>4. sup' = sup \/ Loops(starts)
    BY <1>3 DEF StartStep, StartConnected, StartFails, StartSucceeds, supVars
  <2>5. ASSUME NEW m \in Starts PROVE sup'[m] /= "sleep"
    <3>1. sup[m] /= "sleep" /\ m \in Tasks
      BY <2>1, Numbers DEF Alive
    <3> QED
      BY <1>1, <2>4, <3>1, LoopsType
  <2> QED
    BY <2>1, <2>2, <2>3, <2>5 DEF NothingLeftToClose
<1> QED
  BY <1>2, <1>3

\* Nothing is lost by a reconnect: the supervise task leaves _pump only when the
\* socket it reads is closed.
LEMMA LifecycleSup ==
    ASSUME ~BadFrames, Lifecycle, Orderly', NEW n \in Starts, SupStep(n)
    PROVE  NoSocketLeak' /\ NothingLeftToClose'
<1>1. TypeOK /\ TypeOK' /\ Orderly /\ SupervisorHasConnection
  BY DEF Lifecycle, Orderly
<1>2. Alive(n)
  BY DEF SupStep, PumpEnds, PumpReturns, ReconnectStarts, ReconnectConnected, ReconnectFails,
         ReconnectSucceeds, ReplayEnds, Alive
<1>3. /\ conn /= 0 /\ conn \in Conns
      /\ ~running => stopper = "sup" /\ sup[n] \in {"cancelled", "replay"}
      /\ \A m \in Starts : Alive(m) => m = n
  BY <1>1, <1>2, TheLiveOne
<1>4. /\ UNCHANGED stopper
      /\ \A m \in Starts : m /= n => sup'[m] = sup[m] /\ ~Alive(m)
  BY <1>1, <1>3, SupStepOfOne, Numbers DEF callVars
<1>5. \A m \in Starts : sup'[m] = "sleep" => m = n
  BY <1>4 DEF Alive
<1>6. sup \in [Tasks -> SupStates] /\ n \in Tasks
  BY <1>1, Numbers DEF TypeOK
<1>7. CASE PumpEnds(n)
  <2>1. UNCHANGED <<conn, sock>>
    BY <1>7 DEF PumpEnds, connVars
  <2>2. CASE running
    <3>1. ~IsOpen(own[n])
      BY <1>2, <1>3, <1>1, <1>7, <2>2 DEF PumpEnds, PumpReturns, SupervisorHasConnection, Alive
    <3>2. ~IsOpen(conn)
      BY <1>1, <1>2, <1>7, <2>2, <3>1 DEF PumpEnds, PumpReturns, SupervisorHasConnection
    <3> QED
      BY <2>1, <3>2 DEF Lifecycle, NoSocketLeak, NothingLeftToClose, IsOpen
  <2>3. CASE ~running
    <3>1. sup'[n] = "done"
      BY <1>6, <1>7, <2>3 DEF PumpEnds, Ends, Becomes
    <3> QED
      BY <1>3, <1>4, <1>5, <2>1, <2>3, <3>1 DEF Lifecycle, NoSocketLeak, NothingLeftToClose, IsOpen
  <2> QED
    BY <2>2, <2>3
<1>8. CASE ReconnectStarts(n)
  <2>1. sup[n] = "sleep" /\ running /\ running' /\ NewConnection /\ sup'[n] = "connect"
    BY <1>3, <1>6, <1>8 DEF ReconnectStarts, Becomes, flags
  <2>2. \A i \in Conns : ~IsOpen(i)
    BY <2>1 DEF Lifecycle, NoSocketLeak, NothingLeftToClose
  <2>3. \A i \in Conns : ~IsOpen(i)'
    BY <1>1, <2>1, <2>2, NewConnectionType DEF IsOpen
  <2> QED
    BY <1>5, <2>1, <2>3 DEF NoSocketLeak, NothingLeftToClose
<1>9. CASE ReconnectConnected(n)
  <2>1. /\ own[n] = conn /\ conn' = conn /\ sock' = [sock EXCEPT ![conn] = "open"]
        /\ running /\ running' /\ sup'[n] = "auth"
    BY <1>1, <1>2, <1>3, <1>6, <1>9
    DEF ReconnectConnected, SupervisorHasConnection, Becomes, flags
  <2> QED
    BY <1>1, <1>5, <2>1 DEF Lifecycle, NoSocketLeak, NothingLeftToClose, IsOpen, TypeOK
<1>10. CASE ReconnectFails(n) \/ ReconnectSucceeds(n) \/ ReplayEnds(n)
  <2>1. UNCHANGED <<flags, conn, sock>>
    BY <1>10 DEF ReconnectFails, ReconnectSucceeds, ReplayEnds, connVars
  <2>2. sup'[n] /= "sleep"
    BY <1>6, <1>10 DEF ReconnectFails, ReconnectSucceeds, ReplayEnds, Loops, Becomes
  <2> QED
    BY <1>3, <1>4, <1>5, <2>1, <2>2
    DEF Lifecycle, NoSocketLeak, NothingLeftToClose, IsOpen, flags
<1> QED
  BY <1>7, <1>8, <1>9, <1>10 DEF SupStep

\* Nothing is lost by stop(): it forgets a connection that is closed.
LEMMA LifecycleStop ==
    ASSUME Lifecycle, Orderly', StopCalled \/ StopStep
    PROVE  NoSocketLeak' /\ NothingLeftToClose'
<1>1. TypeOK /\ TypeOK' /\ Orderly /\ StopAfterRunning /\ SupervisorHasConnection'
  BY DEF Lifecycle, Orderly
<1>2. ~running'
  BY <1>1 DEF StopCalled, StopStep, StopCancelsHeartbeat, StopEnds, StopAfterRunning, flags
<1>3. \A m \in Starts : sup'[m] /= "sleep"
  BY <1>1, <1>2 DEF SupervisorHasConnection, Alive
<1>4. ASSUME NEW H, Closes(H) PROVE NoSocketLeak' /\ NothingLeftToClose'
  <2>1. CASE IsOpen(conn)
    <3>1. stopper' = "close" /\ conn' = conn /\ sock' = [sock EXCEPT ![conn] = "closing"]
      BY <1>4, <2>1 DEF Closes
    <3>2. NoSocketLeak'
      BY <1>1, <3>1 DEF Lifecycle, NoSocketLeak, IsOpen, TypeOK
    <3> QED
      BY <1>3, <3>1, <3>2 DEF NothingLeftToClose
  <2>2. CASE ~IsOpen(conn)
    <3>1. conn' = 0 /\ sock' = sock
      BY <1>4, <2>2 DEF Closes, Forgotten
    <3> QED
      BY <2>2, <3>1 DEF Lifecycle, NoSocketLeak, NothingLeftToClose, IsOpen
  <2> QED
    BY <2>1, <2>2
<1>5. CASE StopCalled /\ TasksToAwait
  <2>1. stopper' = "sup" /\ UNCHANGED <<conn, sock>>
    BY <1>5 DEF StopCalled
  <2> QED
    BY <1>3, <2>1 DEF Lifecycle, NoSocketLeak, NothingLeftToClose, IsOpen
<1>6. CASE StopEnds
  <2>1. stopConn = conn /\ conn' = 0 /\ sock' = [sock EXCEPT ![conn] = "closed"]
    BY <1>1, <1>6 DEF StopEnds, StopAfterRunning, Forgotten
  <2>2. \A i \in Conns : ~IsOpen(i)'
    BY <1>1, <2>1 DEF Lifecycle, NoSocketLeak, IsOpen, TypeOK
  <2> QED
    BY <2>1, <2>2 DEF NoSocketLeak, NothingLeftToClose, IsOpen
<1> QED
  BY <1>4, <1>5, <1>6 DEF StopCalled, StopStep, StopCancelsHeartbeat

\* Nothing is lost: a new connection is made only when no socket is open, and
\* what stop() forgets is closed.
LEMMA LifecycleStep ==
    ASSUME ~BadFrames, ~Overlap, Lifecycle, [Next]_vars
    PROVE  Lifecycle'
<1>1. Orderly' /\ TypeOK
  BY OrderlyStep DEF Lifecycle, Orderly
<1> SUFFICES NoSocketLeak' /\ NothingLeftToClose'
  BY <1>1 DEF Lifecycle
<1>2. ASSUME UNCHANGED <<running, conn, sup, stopper>>,
             \A i \in 0 .. MaxConns : IsOpen(i)' => IsOpen(i)
      PROVE  NoSocketLeak' /\ NothingLeftToClose'
  <2>1. conn \in 0 .. MaxConns /\ Conns \subseteq 0 .. MaxConns
    BY <1>1 DEF TypeOK, Conns
  <2>2. IsOpen(conn)' => IsOpen(conn)
    BY <1>2, <2>1 DEF IsOpen
  <2> QED
    BY <1>2, <2>1, <2>2 DEF Lifecycle, NoSocketLeak, NothingLeftToClose
<1>3. ASSUME NEW n \in Starts, HbStep(n) PROVE NoSocketLeak' /\ NothingLeftToClose'
  BY <1>1, <1>2, <1>3, HbStepKeeps, HbOpensNothing DEF flags, supVars, callVars
<1>4. CASE Ages \/ UNCHANGED vars
  BY <1>2, <1>4 DEF Ages, vars, flags, connVars, supVars, callVars, IsOpen
<1>5. ASSUME NEW i \in Conns, Drop(i) PROVE NoSocketLeak' /\ NothingLeftToClose'
  <2>1. \A j \in 0 .. MaxConns : IsOpen(j)' => IsOpen(j)
    BY <1>1, <1>5 DEF Drop, IsOpen, TypeOK, Conns
  <2> QED
    BY <1>2, <1>5, <2>1 DEF Drop, flags, supVars, callVars
<1> QED
  BY <1>1, <1>3, <1>4, <1>5, LifecycleStart, LifecycleSup, LifecycleStop DEF Next

\* The first half holds of every run in which no call overtakes another.
LEMMA OrderlyHolds ==
    ASSUME ~Overlap
    PROVE  Spec => []Orderly
<1>1. Init => Orderly
  BY LifecycleInit DEF Lifecycle
<1>2. Orderly /\ [Next]_vars => Orderly'
  BY OrderlyStep
<1> QED BY <1>1, <1>2, PTL DEF Spec

\* The whole holds if, besides, no frame makes _dispatch raise.
LEMMA LifecycleHolds ==
    ASSUME ~BadFrames, ~Overlap
    PROVE  Spec => []Lifecycle
BY LifecycleInit, LifecycleStep, PTL DEF Spec

\* No reconnect, give-up, stop or heartbeat loses an open socket, as long as no
\* frame makes _dispatch raise and no start() and stop() overlap.
THEOREM NoSocketIsLost ==
    ASSUME ~BadFrames, ~Overlap
    PROVE  Spec => []NoSocketLeak
<1>1. Lifecycle => NoSocketLeak
  BY DEF Lifecycle
<1> QED
  BY <1>1, LifecycleHolds, PTL

\* The assertion at the top of _pump cannot fail, whatever the frames and the
\* policy do, as long as no start() and stop() overlap.
THEOREM PumpAlwaysHasConnection ==
    ASSUME ~Overlap
    PROVE  Spec => []PumpHasConnection
<1>1. Orderly => PumpHasConnection
  BY DEF Orderly, SupervisorHasConnection, Alive, PumpHasConnection
<1> QED
  BY <1>1, OrderlyHolds, PTL

\* After stop(), and after the supervisor gave up, no supervise task and no open
\* socket is left, as long as no frame makes _dispatch raise and no start() and
\* stop() overlap.
THEOREM StoppedLeavesNothing ==
    ASSUME ~BadFrames, ~Overlap
    PROVE  Spec => []StoppedIsQuiet
<1>1. Lifecycle => StoppedIsQuiet
  BY DEF Lifecycle, Orderly, SupervisorHasConnection, NothingLeftToClose, NoSocketLeak, StoppedIsQuiet
<1> QED
  BY <1>1, LifecycleHolds, PTL

\* Once a start() was called, _running is cleared only together with the event
\* being set.
Released == EndReleasesRunForever /\ (starts > 0 /\ ~running => shutdown)

\* The event is set before the last supervise task is over, whichever step ends it.
LEMMA ReleasedStep ==
    ASSUME ~PolicyRaises, Orderly, Orderly', Released, [Next]_vars
    PROVE  Released'
<1>1. TypeOK /\ TypeOK' /\ TasksInOrder /\ TasksInOrder'
  BY DEF Orderly
<1>2. CASE StartCalled
  <2>1. running' /\ starter' = "connect"
    BY <1>2 DEF StartCalled
  <2>2. sup'[starts'] = "none"
    BY <2>1 DEF Orderly, StartAlone
  <2> QED
    BY <2>1, <2>2 DEF Released, EndReleasesRunForever
<1>3. CASE StartStep
  <2>1. starter /= "idle" /\ UNCHANGED <<flags, starts>>
    BY <1>3 DEF StartStep, StartConnected, StartFails, StartSucceeds
  <2>2. running /\ sup[starts] = "none" /\ starts \in Tasks
    BY <1>1, <2>1 DEF Orderly, StartAlone, TypeOK
  <2>3. sup' = sup \/ Loops(starts)
    BY <1>3 DEF StartStep, StartConnected, StartFails, StartSucceeds, supVars
  <2>4. sup'[starts] \in {"none", "pump"}
    BY <1>1, <2>2, <2>3, LoopsType
  <2> QED
    BY <2>1, <2>2, <2>4 DEF Released, EndReleasesRunForever, flags
<1>4. ASSUME NEW n \in Starts, SupStep(n) PROVE Released'
  <2>1. Alive(n)
    BY <1>4 DEF SupStep, PumpEnds, PumpReturns, ReconnectStarts, ReconnectConnected,
                ReconnectFails, ReconnectSucceeds, ReplayEnds, Alive
  <2>2. n = starts /\ (~running => shutdown)
    BY <1>4, <2>1, TheLiveOne
  <2>3. starts' = starts /\ sup \in [Tasks -> SupStates] /\ n \in Tasks
    BY <1>1, <1>4, SupStepOfOne, Numbers DEF callVars, TypeOK
  <2>4. UNCHANGED flags \/ GiveUp(n)
    BY <1>4 DEF SupStep, PumpEnds, ReconnectStarts, ReconnectConnected, ReconnectFails,
                ReconnectSucceeds, ReplayEnds
  <2>5. CASE GiveUp(n)
    BY <2>5 DEF GiveUp, Released, EndReleasesRunForever
  <2>6. CASE UNCHANGED flags /\ running
    <3>1. sup'[n] \notin {"done", "crashed"} \/ GiveUp(n)
      BY <1>4, <2>3, <2>6 DEF SupStep, PumpEnds, Loops, Becomes, ReconnectStarts,
         ReconnectConnected, ReconnectFails, ReconnectSucceeds, ReplayEnds
    <3> QED
      BY <2>2, <2>3, <2>5, <2>6, <3>1 DEF Released, EndReleasesRunForever, flags
  <2>7. CASE UNCHANGED flags /\ ~running
    BY <2>2, <2>7 DEF Released, EndReleasesRunForever, flags
  <2> QED
    BY <2>4, <2>5, <2>6, <2>7
<1>5. CASE StopCalled
  BY <1>5 DEF StopCalled, Released, EndReleasesRunForever
<1>6. CASE StopStep
  <2>1. ~running /\ UNCHANGED <<flags, starts>>
    BY <1>6 DEF StopStep, StopCancelsHeartbeat, StopEnds, Orderly, StopAfterRunning
  <2>2. starts > 0 \/ sup'[starts'] = "none"
    <3>1. starts > 0 \/ starts = 0
      BY <1>1 DEF TypeOK, Tasks
    <3>2. starts' = 0 => sup'[starts'] = "none"
      BY <1>1 DEF TasksInOrder
    <3> QED
      BY <2>1, <3>1, <3>2
  <2> QED
    BY <2>1, <2>2 DEF Released, EndReleasesRunForever, flags
<1>7. CASE UNCHANGED <<flags, sup, starts>>
  BY <1>7 DEF Released, EndReleasesRunForever, flags
<1>8. CASE \/ Ages \/ UNCHANGED vars
           \/ \E n \in Starts : HbStep(n)
           \/ \E i \in Conns : Drop(i)
  BY <1>7, <1>8, HbStepKeeps DEF Ages, Drop, vars, supVars, callVars
<1> QED
  BY <1>2, <1>3, <1>4, <1>5, <1>6, <1>8 DEF Next

\* run_forever() is released whenever the supervise task is over, whatever the
\* frames do, as long as no reconnect policy raises and no start() and stop()
\* overlap: that is what it takes (runs sup_policy_raises, sup_restart_race).
THEOREM RunForeverIsReleased ==
    ASSUME ~PolicyRaises, ~Overlap
    PROVE  Spec => []EndReleasesRunForever
<1>1. Init => Released
  <2>1. Init => sup[starts] = "none" /\ starts = 0
    BY Numbers DEF Init
  <2> QED
    BY <2>1 DEF Released, EndReleasesRunForever
<1>2. Orderly /\ Orderly' /\ Released /\ [Next]_vars => Released'
  BY ReleasedStep
<1>3. Released => EndReleasesRunForever
  BY DEF Released
<1> QED
  BY <1>1, <1>2, <1>3, OrderlyHolds, PTL DEF Spec
----------------------------------------------------------------------------
(* The refinement.  Whatever frames and policies do, Supervisor implements  *)
(* Connectivity as long as no start() and stop() overlap: that needs only   *)
(* the first half of the invariant.                                         *)

\* What the mode says of the state it stands for.
ModeMeans ==
    /\ stopper /= "idle" => LineMode = "stopping"
    /\ stopper = "idle" =>
         /\ starter = "connect" => LineMode = "connecting"
         /\ starter = "auth" => LineMode = "handshake"
         /\ starter = "idle" =>
              /\ sup[starts] = "connect" => LineMode = "connecting"
              /\ sup[starts] = "auth" => LineMode = "handshake"
              /\ sup[starts] = "sleep" => LineMode = "backoff"
              /\ sup[starts] \in {"pump", "replay"} => LineMode = sup[starts]
              /\ ~Alive(starts) /\ ~running => LineMode = "idle"
              /\ ~Alive(starts) /\ running /\ sup[starts] = "none" => LineMode = "failed"
              /\ ~Alive(starts) /\ running /\ sup[starts] /= "none" => LineMode = "crashed"

\* It says so in every state.
LEMMA ModeMeaning == ModeMeans /\ ModeMeans'
BY DEF ModeMeans, LineMode, Alive

\* A step that leaves the flags, the tasks and the calls leaves the mode.
LEMMA SameMode ==
    ASSUME running' = running, sup' = sup, starts' = starts, starter' = starter,
           stopper' = stopper
    PROVE  LineMode' = LineMode
BY DEF LineMode, Alive

\* A client not yet started has no connection.
THEOREM ConnectivityInit == Init => Line!LineInit
<1> SUFFICES ASSUME Init PROVE Line!LineInit
  OBVIOUS
<1>1. ~Alive(starts) /\ stopper = "idle" /\ starter = "idle" /\ ~running
  BY Numbers DEF Init, Alive
<1>2. LineMode = "idle"
  BY <1>1, ModeMeaning DEF ModeMeans
<1> QED
  BY <1>1, <1>2 DEF Init, Line!LineInit, IsOpen

\* The socket of a connection just made is not open.
LEMMA NewIsNotOpen ==
    ASSUME TypeOK, MadeInOrder, NewConnection
    PROVE  ~IsOpen(conn)'
<1>1. made + 1 \in Conns /\ made + 1 > made
  BY DEF NewConnection, TypeOK, Conns
<1>2. sock[made + 1] = "none"
  BY <1>1 DEF MadeInOrder
<1> QED
  BY <1>2 DEF NewConnection, IsOpen

\* Every step of start() is one of the abstract specification.
LEMMA StartIsALine ==
    ASSUME ~Overlap, Orderly, Orderly', StartCalled \/ StartStep
    PROVE  Line!LineNext
<1>1. TypeOK /\ TypeOK' /\ MadeInOrder /\ StartAlone /\ StartAlone'
  BY DEF Orderly
<1> USE ModeMeaning DEF ModeMeans
<1>2. CASE StartCalled
  <2>1. ~running /\ starter = "idle" /\ starter' = "connect" /\ stopper = "idle" /\ stopper' = "idle"
    BY <1>2 DEF StartCalled
  <2>2. ~Alive(starts)
    <3>1. starts \in Starts \/ starts = 0
      BY <1>1, NotNone DEF TypeOK
    <3> QED
      BY <2>1, <3>1, TheLiveOne DEF Orderly, TasksInOrder, Alive
  <2>3. LineMode = "idle" /\ LineMode' = "connecting"
    BY <2>1, <2>2
  <2>4. NewConnection /\ made < MaxConns /\ made' = made + 1
    BY <1>2 DEF StartCalled, NewConnection
  <2>5. ~IsOpen(conn)'
    BY <1>1, <2>4, NewIsNotOpen
  <2>6. Line!Opening(TRUE)
    BY <2>1, <2>3, <2>4, <2>5 DEF Line!Opening
  <2> QED
    BY <2>6 DEF Line!LineNext
<1>3. CASE StartStep
  <2>1. /\ running /\ stopper = "idle" /\ starter /= "idle" /\ conn = own[starts]
        /\ conn /= 0 /\ conn \in Conns /\ starts \in Tasks /\ sup[starts] = "none"
    <3>1. starter /= "idle"
      BY <1>3 DEF StartStep, StartConnected, StartFails, StartSucceeds
    <3>2. /\ running /\ stopper = "idle" /\ conn = own[starts] /\ conn /= 0
          /\ sup[starts] = "none"
      BY <1>1, <3>1 DEF StartAlone
    <3>3. conn \in Conns /\ starts \in Tasks
      BY <1>1, <3>2 DEF TypeOK, Conns
    <3> QED
      BY <3>1, <3>2, <3>3
  <2>2. UNCHANGED <<running, made, conn, starts, stopper>>
    BY <1>3 DEF StartStep, StartConnected, StartFails, StartSucceeds, flags, connVars
  <2>3. CASE StartConnected
    <3>1. LineMode = "connecting" /\ LineMode' = "handshake" /\ starter' /= "idle"
      BY <2>1, <2>2, <2>3 DEF StartConnected
    <3>2. IsOpen(conn)'
      BY <1>1, <2>1, <2>2, <2>3 DEF StartConnected, IsOpen, TypeOK
    <3> QED
      BY <2>1, <2>2, <3>1, <3>2 DEF Line!LineNext, Line!SocketUp
  <2>4. CASE StartFails
    <3>1. starter' = "idle" /\ sup' = sup /\ (IsOpen(conn)' = IsOpen(conn))
      BY <2>4 DEF StartFails, supVars, connVars, IsOpen
    <3>2. LineMode \in {"connecting", "handshake"}
      BY <1>1, <2>1 DEF TypeOK
    <3>3. LineMode' = "failed"
      BY <2>1, <2>2, <3>1 DEF Alive
    <3> QED
      BY <2>1, <2>2, <3>1, <3>2, <3>3 DEF Line!LineNext, Line!OpeningFails
  <2>5. CASE StartSucceeds
    <3>1. sup'[starts'] = "pump" /\ starter' = "idle"
      BY <1>1, <2>1, <2>2, <2>5, LoopsType DEF StartSucceeds
    <3>2. LineMode = "handshake" /\ LineMode' = "pump"
      BY <2>1, <2>2, <2>5, <3>1 DEF StartSucceeds
    <3>3. IsOpen(conn) /\ IsOpen(conn)'
      BY <2>1, <2>5 DEF StartSucceeds, Authenticated, IsOpen
    <3> QED
      BY <2>1, <2>2, <3>1, <3>2, <3>3 DEF Line!LineNext, Line!Authenticated
  <2> QED
    BY <1>3, <2>3, <2>4, <2>5 DEF StartStep
<1> QED
  BY <1>2, <1>3

\* Every step of the supervise task is one of the abstract specification; while
\* stop() awaits the task it is none that the callers can see.
LEMMA SupIsALine ==
    ASSUME Orderly, Orderly', NEW n \in Starts, SupStep(n)
    PROVE  Line!LineNext \/ UNCHANGED Line!envVars
<1>1. TypeOK /\ TypeOK' /\ MadeInOrder /\ SupervisorHasConnection
  BY DEF Orderly
<1>2. Alive(n)
  BY DEF SupStep, PumpEnds, PumpReturns, ReconnectStarts, ReconnectConnected, ReconnectFails,
         ReconnectSucceeds, ReplayEnds, Alive
<1>3. /\ n = starts /\ conn /= 0 /\ conn \in Conns /\ starter = "idle"
      /\ ~running => stopper = "sup" /\ sup[n] \in {"cancelled", "replay"}
      /\ running => stopper = "idle"
  BY <1>2, TheLiveOne DEF Orderly, StopAfterRunning
<1>4. starts' = starts /\ starter' = "idle" /\ stopper' = stopper
  BY <1>1, <1>3, SupStepOfOne DEF callVars
<1>5. n \in Tasks /\ sup \in [Tasks -> SupStates]
  BY <1>1, Numbers DEF TypeOK
<1> USE ModeMeaning DEF ModeMeans
<1>6. CASE ~running
  <2>1. LineMode = "stopping" /\ LineMode' = "stopping"
    BY <1>3, <1>4, <1>6
  <2>2. UNCHANGED <<conn, made, sock>>
    BY <1>3, <1>6 DEF SupStep, PumpEnds, ReconnectStarts, ReconnectConnected,
                      ReconnectFails, ReconnectSucceeds, ReplayEnds, connVars
  <2> QED
    BY <1>3, <1>4, <2>1, <2>2 DEF Line!envVars, IsOpen
<1>7. CASE running /\ PumpEnds(n)
  <2>1. sup[n] = "pump"
    BY <1>1, <1>2, <1>7 DEF PumpEnds, PumpReturns, SupervisorHasConnection
  <2>2. /\ made' = made /\ (IsOpen(conn)' = IsOpen(conn))
        /\ \/ sup'[n] = "done" /\ ~running'
           \/ sup'[n] = "sleep"
           \/ sup'[n] = "crashed" /\ running'
    BY <1>5, <1>7 DEF PumpEnds, GiveUp, Ends, Becomes, IsOpen, connVars, flags
  <2>3. LineMode = "pump" /\ LineMode' \in {"idle", "backoff", "crashed"}
    BY <1>3, <1>4, <1>7, <2>1, <2>2 DEF Alive
  <2> QED
    BY <1>3, <1>4, <2>2, <2>3 DEF Line!LineNext, Line!PumpReturns
<1>8. CASE running /\ ReconnectStarts(n)
  <2>1. NewConnection /\ sup[n] = "sleep" /\ sup'[n] = "connect"
    BY <1>5, <1>8 DEF ReconnectStarts, Becomes
  <2>2. LineMode = "backoff" /\ LineMode' = "connecting"
    BY <1>3, <1>4, <1>8, <2>1
  <2>3. made < MaxConns /\ made' = made + 1
    BY <2>1 DEF NewConnection
  <2>4. ~IsOpen(conn)'
    BY <1>1, <2>1, NewIsNotOpen
  <2>5. Line!Opening(FALSE)
    BY <1>3, <1>4, <2>2, <2>3, <2>4 DEF Line!Opening
  <2> QED
    BY <2>5 DEF Line!LineNext
<1>9. CASE running /\ ReconnectConnected(n)
  <2>1. /\ own[n] = conn /\ conn' = conn /\ made' = made
        /\ sup[n] = "connect" /\ sup'[n] = "auth"
    BY <1>1, <1>2, <1>5, <1>9 DEF ReconnectConnected, Becomes, SupervisorHasConnection
  <2>2. IsOpen(conn)'
    BY <1>1, <1>3, <1>9, <2>1 DEF ReconnectConnected, IsOpen, TypeOK
  <2>3. LineMode = "connecting" /\ LineMode' = "handshake"
    BY <1>3, <1>4, <1>9, <2>1
  <2> QED
    BY <1>3, <1>4, <2>1, <2>2, <2>3 DEF Line!LineNext, Line!SocketUp
<1>10. CASE running /\ ReconnectFails(n)
  <2>1. /\ sup[n] \in {"connect", "auth"} /\ sup'[n] = "pump" /\ made' = made
        /\ (IsOpen(conn)' = IsOpen(conn))
    BY <1>5, <1>10 DEF ReconnectFails, Loops, Becomes, connVars, IsOpen
  <2>2. LineMode \in {"connecting", "handshake"} /\ LineMode' = "pump"
    BY <1>3, <1>4, <1>10, <2>1
  <2> QED
    BY <1>3, <1>4, <2>1, <2>2 DEF Line!LineNext, Line!OpeningFails
<1>11. CASE running /\ ReconnectSucceeds(n)
  <2>1. /\ sup[n] = "auth" /\ sup'[n] \in {"replay", "pump"} /\ made' = made
        /\ IsOpen(conn) /\ IsOpen(conn)'
    BY <1>1, <1>2, <1>5, <1>11
    DEF ReconnectSucceeds, Authenticated, Loops, Becomes, IsOpen, SupervisorHasConnection
  <2>2. LineMode = "handshake" /\ LineMode' \in {"replay", "pump"}
    BY <1>3, <1>4, <1>11, <2>1
  <2> QED
    BY <1>3, <1>4, <2>1, <2>2 DEF Line!LineNext, Line!Authenticated
<1>12. CASE running /\ ReplayEnds(n)
  <2>1. /\ sup[n] = "replay" /\ sup'[n] = "pump" /\ made' = made
        /\ (IsOpen(conn)' = IsOpen(conn))
    BY <1>5, <1>12 DEF ReplayEnds, Loops, Becomes, connVars, IsOpen
  <2>2. LineMode = "replay" /\ LineMode' = "pump"
    BY <1>3, <1>4, <1>12, <2>1
  <2> QED
    BY <1>3, <1>4, <2>1, <2>2 DEF Line!LineNext, Line!Replayed
<1> QED
  BY <1>6, <1>7, <1>8, <1>9, <1>10, <1>11, <1>12 DEF SupStep

\* Every step of stop() is one of the abstract specification.
LEMMA StopIsALine ==
    ASSUME ~Overlap, Orderly, Orderly', StopCalled \/ StopStep
    PROVE  Line!LineNext \/ UNCHANGED Line!envVars
<1>1. TypeOK /\ TypeOK' /\ StopAfterRunning /\ SupervisorHasConnection
  BY DEF Orderly
<1>2. starter = "idle" /\ starter' = "idle" /\ made' = made
  BY DEF StopCalled, StopStep, StopCancelsHeartbeat, StopEnds, Orderly, StartAlone,
         StopAfterRunning
<1> USE ModeMeaning DEF ModeMeans
<1>3. ASSUME stopper' = "idle" PROVE LineMode' = "idle" /\ ~running'
  <2>1. ~running' /\ starter' = "idle"
    BY <1>1, <1>2 DEF StopCalled, StopStep, StopCancelsHeartbeat, StopEnds, StopAfterRunning, flags
  <2>2. ~Alive(starts)'
    <3>1. starts' \in Starts \/ starts' = 0
      BY <1>1, NotNone DEF TypeOK
    <3> QED
      BY <1>3, <2>1, <3>1 DEF Orderly, SupervisorHasConnection, TasksInOrder, Alive
  <2> QED
    BY <1>3, <2>1, <2>2
<1>4. CASE StopCalled /\ TasksToAwait
  <2>1. stopper = "idle" /\ running /\ stopper' = "sup" /\ UNCHANGED <<conn, sock>>
    BY <1>4 DEF StopCalled
  <2>2. sup[starts] \in SupStates
    BY <1>1 DEF TypeOK
  <2>3. LineMode \notin {"idle", "stopping"} /\ LineMode' = "stopping"
    BY <1>2, <2>1, <2>2 DEF Alive, SupStates, LineMode
  <2> QED
    BY <1>2, <2>1, <2>3 DEF IsOpen, Line!LineNext, Line!StopBegins
<1>5. CASE StopCalled /\ ~TasksToAwait
  <2>1. stopper = "idle" /\ running /\ Closes({})
    BY <1>5 DEF StopCalled
  <2>2. ~Alive(starts)
    <3>1. starts \in Starts \/ starts = 0
      BY <1>1, NotNone DEF TypeOK
    <3> QED
      BY <1>1, <1>5, <3>1 DEF Orderly, SupervisorHasConnection, TasksInOrder, TasksToAwait, Alive
  <2>3. LineMode \in {"failed", "crashed"}
    BY <1>2, <2>1, <2>2
  <2>4. CASE IsOpen(conn)
    <3>1. stopper' = "close" /\ conn' = conn /\ sock' = [sock EXCEPT ![conn] = "closing"]
      BY <2>1, <2>4 DEF Closes
    <3>2. IsOpen(conn)' /\ LineMode' = "stopping"
      BY <1>1, <2>4, <3>1 DEF IsOpen, TypeOK, Conns
    <3> QED
      BY <1>2, <2>3, <2>4, <3>2 DEF Line!LineNext, Line!StopBegins
  <2>5. CASE ~IsOpen(conn)
    <3>1. stopper' = "idle" /\ conn' = 0
      BY <2>1, <2>5 DEF Closes, Forgotten
    <3> QED
      BY <1>2, <1>3, <2>3, <2>5, <3>1 DEF IsOpen, Line!LineNext, Line!StopIsOver
  <2> QED
    BY <2>4, <2>5
<1>6. CASE StopCancelsHeartbeat
  <2>1. LineMode = "stopping" /\ Closes({stopTask})
    BY <1>6 DEF StopCancelsHeartbeat
  <2>2. CASE IsOpen(conn)
    <3>1. stopper' = "close" /\ conn' = conn /\ sock' = [sock EXCEPT ![conn] = "closing"]
      BY <2>1, <2>2 DEF Closes
    <3>2. IsOpen(conn)' /\ LineMode' = "stopping"
      BY <1>1, <2>2, <3>1 DEF IsOpen, TypeOK, Conns
    <3>3. IsOpen(conn)' = IsOpen(conn)
      BY <2>2, <3>2 DEF IsOpen
    <3> QED
      BY <1>2, <2>1, <3>2, <3>3 DEF Line!envVars
  <2>3. CASE ~IsOpen(conn)
    <3>1. stopper' = "idle" /\ conn' = 0
      BY <2>1, <2>3 DEF Closes, Forgotten
    <3> QED
      BY <1>2, <1>3, <2>1, <3>1 DEF IsOpen, Line!LineNext, Line!StopIsOver
  <2> QED
    BY <2>2, <2>3
<1>7. CASE StopEnds
  <2>1. LineMode = "stopping" /\ stopper' = "idle" /\ conn' = 0
    BY <1>7 DEF StopEnds, Forgotten
  <2> QED
    BY <1>2, <1>3, <2>1 DEF IsOpen, Line!LineNext, Line!StopIsOver
<1> QED
  BY <1>4, <1>5, <1>6, <1>7 DEF StopStep

\* Every step is one of the abstract specification, or none that its callers
\* can see.
THEOREM ConnectivityStep ==
    ASSUME ~Overlap, Orderly, [Next]_vars
    PROVE  [Line!LineNext]_(Line!envVars)
<1>1. Orderly' /\ TypeOK
  BY OrderlyStep DEF Orderly
<1>2. ASSUME UNCHANGED <<flags, conn, made, supVars, callVars>>, IsOpen(conn)' => IsOpen(conn)
      PROVE  Line!LineNext \/ UNCHANGED Line!envVars
  <2>1. LineMode' = LineMode /\ starter' = starter /\ made' = made
    BY <1>2, SameMode DEF flags, supVars, callVars
  <2>2. IsOpen(conn) \in BOOLEAN /\ IsOpen(conn)' \in BOOLEAN
    BY DEF IsOpen
  <2>3. CASE IsOpen(conn)' = IsOpen(conn)
    BY <2>1, <2>3 DEF Line!envVars
  <2>4. CASE IsOpen(conn) /\ ~IsOpen(conn)'
    BY <2>1, <2>4 DEF Line!LineNext, Line!Lost
  <2> QED
    BY <1>2, <2>2, <2>3, <2>4
<1>3. ASSUME NEW n \in Starts, HbStep(n) PROVE Line!LineNext \/ UNCHANGED Line!envVars
  <2>1. conn \in 0 .. MaxConns /\ UNCHANGED <<flags, conn, made, supVars, callVars>>
    BY <1>1, <1>3, HbStepKeeps DEF TypeOK
  <2>2. IsOpen(conn)' => IsOpen(conn)
    BY <1>1, <1>3, <2>1, HbOpensNothing DEF IsOpen
  <2> QED
    BY <1>2, <2>1, <2>2
<1>4. CASE Ages \/ UNCHANGED vars
  BY <1>2, <1>4 DEF Ages, vars, connVars, IsOpen
<1>5. ASSUME NEW i \in Conns, Drop(i) PROVE Line!LineNext \/ UNCHANGED Line!envVars
  <2>1. IsOpen(conn)' => IsOpen(conn)
    BY <1>1, <1>5 DEF Drop, IsOpen, TypeOK
  <2> QED
    BY <1>2, <1>5, <2>1 DEF Drop
<1> QED
  BY <1>1, <1>3, <1>4, <1>5, StartIsALine, SupIsALine, StopIsALine DEF Next

\* Supervisor implements Connectivity: the environment that requests and
\* subscriptions are checked in has all the behaviours of the real one.
THEOREM ConnectivityIsImplemented ==
    ASSUME ~Overlap
    PROVE  Spec => ImplementsConnectivity
<1>1. Orderly /\ [Next]_vars => [Line!LineNext]_(Line!envVars)
  BY ConnectivityStep
<1> QED
  BY <1>1, OrderlyHolds, ConnectivityInit, PTL DEF Spec, ImplementsConnectivity, Line!LineSpec
----------------------------------------------------------------------------
(* Whose socket a heartbeat closes. *)

\* Only a heartbeat whose ping timed out and stop() begin a close handshake;
\* the heartbeat looks at the client's connection again after the wait, and
\* closes it only if it is the one it pinged (client.py: _heartbeat_loop).
THEOREM OnlyThePingedIsClosed == Spec => ClosesOnlyWhatItPinged
<1> DEFINE A == \A i \in Conns : sock[i] = "open" /\ sock'[i] = "closing" =>
                    \/ stopper' = "close" /\ i = stopConn'
                    \/ \E n \in Starts : hb[n] = "ping" /\ hbConn[n] = i
<1>1. TypeOK /\ [Next]_vars => [A]_vars
  <2> SUFFICES ASSUME TypeOK, Next, NEW i \in Conns, sock[i] = "open", sock'[i] = "closing"
               PROVE  \/ stopper' = "close" /\ i = stopConn'
                      \/ \E n \in Starts : hb[n] = "ping" /\ hbConn[n] = i
    OBVIOUS
  <2>1. sock' /= sock /\ \A j : sock' /= [sock EXCEPT ![j] = "open"]
                      /\ sock' /= [sock EXCEPT ![j] = "closed"]
    BY DEF TypeOK
  <2>2. ASSUME NEW j, sock' = [sock EXCEPT ![j] = "closing"] PROVE i = j
    BY <2>2 DEF TypeOK
  <2>3. ASSUME NEW H, Closes(H) PROVE stopper' = "close" /\ i = stopConn'
    BY <2>1, <2>2, <2>3 DEF Closes
  <2>4. CASE StopCalled \/ StopStep
    BY <2>1, <2>3, <2>4 DEF StopCalled, StopStep, StopCancelsHeartbeat, StopEnds
  <2>5. ASSUME NEW n \in Starts, HbStep(n) PROVE hb[n] = "ping" /\ hbConn[n] = i
    BY <2>1, <2>2, <2>5, HbStepKeeps
  <2>6. ~StartCalled /\ ~StartStep /\ ~Ages /\ \A j \in Conns : ~Drop(j)
    BY <2>1 DEF StartCalled, StartStep, StartConnected, StartFails, StartSucceeds, NewConnection,
                Ages, Drop, connVars
  <2>7. \A n \in Starts : ~SupStep(n)
    BY <2>1 DEF SupStep, PumpEnds, ReconnectStarts, ReconnectConnected, ReconnectFails,
                ReconnectSucceeds, ReplayEnds, NewConnection, connVars
  <2> QED BY <2>4, <2>5, <2>6, <2>7 DEF Next
<1> QED BY <1>1, SupervisorTypeCorrect, PTL DEF Spec, ClosesOnlyWhatItPinged
============================================================================
