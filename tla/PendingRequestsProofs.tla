----------------------- MODULE PendingRequestsProofs -----------------------
(***************************************************************************)
(* Proofs about PendingRequests, for any set of callers and any bounds.    *)
(***************************************************************************)
EXTENDS PendingRequests, SequenceTheorems, TLAPS

USE CallersAssumption, BoundsAssumption

\* What the stream operations do to a queue of frames.
LEMMA QueueType ==
    ASSUME NEW q \in Seq(Frames)
    PROVE  /\ \A f \in Frames : Append(q, f) \in Seq(Frames)
           /\ q /= <<>> => Tail(q) \in Seq(Frames) /\ Head(q) \in Frames
BY AppendProperties, HeadTailProperties

LEMMA EmptyQueue == <<>> \in Seq(Frames)
BY EmptySeq

\* The frames the model builds are frames, whoever asked.
LEMMA FrameTypes ==
    /\ Push \in Frames /\ ErrorNoId \in Frames
    /\ \A c \in Callers, k \in Keys, t \in 0 .. MaxTickets : Answer(c, k, t) \in Frames
BY DEF Push, ErrorNoId, Answer, Frames, Keys, NoKey

\* The connection's own variables stay well typed.
LEMMA LineStep ==
    ASSUME LineTypeOK, LineNext PROVE LineTypeOK'
<1>1. ASSUME NEW b \in BOOLEAN, Opening(b) PROVE LineTypeOK'
  <2>1. epoch' \in 0 .. MaxEpoch
    BY <1>1 DEF LineTypeOK, Opening
  <2>2. mode' \in Modes /\ first' \in BOOLEAN /\ open' \in BOOLEAN
    BY <1>1 DEF Opening, Modes
  <2> QED
    BY <2>1, <2>2 DEF LineTypeOK
<1>2. CASE SocketUp \/ OpeningFails \/ Replayed
  BY <1>2 DEF LineTypeOK, SocketUp, OpeningFails, Replayed, Modes
<1>3. CASE Authenticated
  <2>1. mode' \in Modes
    BY <1>3 DEF Authenticated, Modes
  <2> QED
    BY <1>3, <2>1 DEF LineTypeOK, Authenticated
<1>4. CASE PumpReturns \/ StopBegins \/ StopIsOver \/ Lost
  BY <1>4 DEF LineTypeOK, PumpReturns, StopBegins, StopIsOver, Lost, Modes
<1> QED
  BY <1>1, <1>2, <1>3, <1>4 DEF LineNext

\* Discarding a slot leaves a map from keys to callers.
LEMMA DiscardType ==
    ASSUME TypeOK, NEW c \in Callers
    PROVE  Discard(c) \in [Keys -> Callers \cup {NoCaller}]
BY DEF TypeOK, Discard

\* Every call leaves in a well-typed state.
LEMMA LeaveType ==
    ASSUME TypeOK, NEW c \in Callers, Leave(c)
    PROVE  TypeOK'
<1>1. 0 \in Keys /\ 0 \in 0 .. MaxTickets /\ 0 \in 0 .. MaxEpoch
  BY DEF Keys
<1>2. futures' \in [Keys -> Callers \cup {NoCaller}]
  BY DiscardType DEF Leave
<1>3. phase' \in [Callers -> {"idle", "sending", "waiting"}] /\ fut' \in [Callers -> FutureStates]
  BY DEF TypeOK, Leave, FutureStates
<1>4. key' \in [Callers -> Keys] /\ ticket' \in [Callers -> 0 .. MaxTickets]
  BY <1>1 DEF TypeOK, Leave
<1>5. sentOn' \in [Callers -> 0 .. MaxEpoch] /\ got' \in [Callers -> 0 .. MaxTickets]
  BY <1>1 DEF TypeOK, Leave
<1> QED
  BY <1>2, <1>3, <1>4, <1>5 DEF TypeOK, LineTypeOK, Leave, envVars, netVars

\* So does the start of one.
LEMMA BeginType ==
    ASSUME TypeOK, NEW c \in Callers, NEW k \in Keys, Begin(c, k), counter' \in 0 .. MaxId
    PROVE  TypeOK'
<1>1. tickets + 1 \in 0 .. MaxTickets /\ tickets' = tickets + 1
  BY DEF TypeOK, Begin
<1>2. owed' \subseteq Frames
  BY <1>1, FrameTypes DEF TypeOK, Begin
<1>3. futures' \in [Keys -> Callers \cup {NoCaller}]
  BY DEF TypeOK, Begin
<1>4. key' \in [Callers -> Keys] /\ phase' \in [Callers -> {"idle", "sending", "waiting"}]
  BY DEF TypeOK, Begin
<1>5. fut' \in [Callers -> FutureStates]
  BY DEF TypeOK, Begin, FutureStates
<1>6. ticket' \in [Callers -> 0 .. MaxTickets] /\ sentOn' \in [Callers -> 0 .. MaxEpoch]
  BY <1>1 DEF TypeOK, LineTypeOK, Begin
<1> QED
  BY <1>1, <1>2, <1>3, <1>4, <1>5, <1>6 DEF TypeOK, LineTypeOK, Begin, envVars

\* A new client is well typed.
THEOREM InitType == Init => TypeOK
<1> SUFFICES ASSUME Init PROVE TypeOK
  OBVIOUS
<1>1. inbox \in Seq(Frames) /\ owed \subseteq Frames
  BY EmptyQueue DEF Init
<1>2. 0 \in Keys /\ 0 \in 0 .. MaxTickets /\ 0 \in 0 .. MaxEpoch /\ 0 \in 0 .. MaxId
  BY DEF Keys
<1> QED
  BY <1>1, <1>2 DEF Init, LineInit, TypeOK, LineTypeOK, Modes, FutureStates

\* Every variable keeps its type: the req_id stays within its bound, the map
\* of futures holds callers only, every frame is one the Proxy can send.
THEOREM TypeStep == TypeOK /\ [Next]_vars => TypeOK'
<1> SUFFICES ASSUME TypeOK, [Next]_vars PROVE TypeOK'
  OBVIOUS
<1>1. ASSUME NEW c \in Requesters, Request(c) PROVE TypeOK'
  <2>1. counter + 1 \in Keys /\ counter' = counter + 1
    BY <1>1 DEF TypeOK, Request, Keys
  <2> QED
    BY <1>1, <2>1, BeginType DEF Request, Callers, Keys
<1>2. ASSUME NEW c \in Requesters, RequestRefused(c) PROVE TypeOK'
  BY <1>2 DEF LineTypeOK, TypeOK, RequestRefused, envVars, netVars, callVars
<1>3. ASSUME NEW p \in Pingers, Ping(p) PROVE TypeOK'
  <2>1. PongKey \in Keys
    BY DEF PongKey, Keys
  <2> QED
    BY <1>3, <2>1, BeginType DEF Ping, Callers, TypeOK
<1>4. ASSUME NEW p \in Pingers, PingRefused(p) PROVE TypeOK'
  BY <1>4 DEF LineTypeOK, TypeOK, PingRefused, envVars, netVars, callVars
<1>5. ASSUME NEW c \in Callers, CallerStep(c) PROVE TypeOK'
  <2>1. CASE SendDone(c)
    BY <2>1 DEF LineTypeOK, TypeOK, SendDone, envVars, netVars
  <2>2. CASE SendFails(c)
    BY <2>2, LeaveType DEF SendFails, FutureStates
  <2>3. CASE Timeout(c)
    BY <2>3 DEF LineTypeOK, TypeOK, Timeout, FutureStates, envVars, netVars, callVars
  <2>4. CASE Abandon(c)
    BY <2>4 DEF LineTypeOK, TypeOK, Abandon, FutureStates, envVars, netVars, callVars
  <2>5. CASE Resume(c)
    BY <2>5, LeaveType DEF Resume, FutureStates
  <2> QED
    BY <1>5, <2>1, <2>2, <2>3, <2>4, <2>5 DEF CallerStep
<1>6. CASE Dispatch
  <2>1. Head(inbox) \in Frames /\ inbox' \in Seq(Frames)
    BY <1>6, QueueType DEF Dispatch, TypeOK
  <2>2. fut' \in [Callers -> FutureStates] /\ got' \in [Callers -> 0 .. MaxTickets]
    BY <1>6, <2>1 DEF Dispatch, Settle, TypeOK, FutureStates, Frames
  <2>3. blockedOn' \in HandlerCallers \cup {NoCaller}
    BY <1>6 DEF Dispatch, TypeOK
  <2> QED
    BY <1>6, <2>1, <2>2, <2>3 DEF Dispatch, LineTypeOK, TypeOK, envVars, callVars
<1>7. CASE HandlerReturns
  BY <1>7 DEF LineTypeOK, TypeOK, HandlerReturns, envVars, netVars, callVars
<1>8. CASE PumpEnds
  <2>1. LineTypeOK'
    BY <1>8, LineStep DEF PumpEnds, PumpOver, LineNext, TypeOK
  <2> QED
    BY <1>8, <2>1 DEF TypeOK, PumpEnds, PumpOver, SettleAll, FutureStates, netVars, callVars
<1>9. CASE DispatchFails
  <2>1. inbox' \in Seq(Frames)
    BY <1>9, QueueType DEF DispatchFails, TypeOK
  <2>2. LineTypeOK'
    BY <1>9, LineStep DEF DispatchFails, PumpOver, LineNext, TypeOK
  <2> QED
    BY <1>9, <2>1, <2>2 DEF TypeOK, DispatchFails, PumpOver, SettleAll, FutureStates, callVars
<1>10. ASSUME NEW f \in owed, Serve(f) PROVE TypeOK'
  <2>1. inbox' \in Seq(Frames)
    BY <1>10, QueueType DEF Serve, TypeOK
  <2>2. owed' \subseteq Frames
    BY <1>10 DEF Serve, TypeOK
  <2> QED
    BY <1>10, <2>1, <2>2 DEF LineTypeOK, TypeOK, Serve, envVars, callVars
<1>11. ASSUME NEW f \in {Push, ErrorNoId}, Unsolicited(f) PROVE TypeOK'
  <2>1. inbox' \in Seq(Frames)
    BY <1>11, QueueType, FrameTypes DEF Unsolicited, TypeOK
  <2> QED
    BY <1>11, <2>1 DEF LineTypeOK, TypeOK, Unsolicited, envVars, callVars
<1>12. CASE Drop
  <2>1. LineTypeOK'
    BY <1>12, LineStep DEF Drop, LineNext, TypeOK
  <2> QED
    BY <1>12, <2>1 DEF TypeOK, Drop, callVars
<1>13. CASE SupervisorNext
  <2>1. ASSUME NEW b \in BOOLEAN, Connect(b) PROVE TypeOK'
    <3>1. inbox' \in Seq(Frames) /\ owed' \subseteq Frames
      BY <2>1, EmptyQueue DEF Connect
    <3>2. LineTypeOK'
      BY <2>1, LineStep DEF Connect, LineNext, TypeOK
    <3> QED
      BY <2>1, <3>1, <3>2 DEF TypeOK, Connect, callVars
  <2>2. CASE ConnectGoesOn
    <3>1. LineTypeOK'
      BY <2>2, LineStep DEF ConnectGoesOn, LineNext, TypeOK
    <3> QED
      BY <2>2, <3>1 DEF TypeOK, ConnectGoesOn, netVars, callVars
  <2>3. CASE StopBegin
    <3>1. LineTypeOK'
      BY <2>3, LineStep DEF StopBegin, LineNext, TypeOK
    <3> QED
      BY <2>3, <3>1 DEF TypeOK, StopBegin, FutureStates, netVars, callVars
  <2>4. CASE StopEnd
    <3>1. LineTypeOK'
      BY <2>4, LineStep DEF StopEnd, LineNext, TypeOK
    <3> QED
      BY <2>4, <3>1, EmptyQueue DEF TypeOK, StopEnd, SettleAll, FutureStates, callVars
  <2> QED
    BY <1>13, <2>1, <2>2, <2>3, <2>4 DEF SupervisorNext
<1>14. CASE UNCHANGED vars
  BY <1>14 DEF LineTypeOK, TypeOK, vars, envVars, netVars, callVars
<1> QED
  BY <1>1, <1>2, <1>3, <1>4, <1>5, <1>6, <1>7, <1>8, <1>9, <1>10, <1>11, <1>12,
     <1>13, <1>14 DEF Next, CallerNext, PumpNext, ProxyNext

\* Type correctness of every reachable state.
THEOREM TypeCorrect == Spec => []TypeOK
BY InitType, TypeStep, PTL DEF Spec
----------------------------------------------------------------------------
(* Correlation.  What the callers, the map and the frames say about each    *)
(* other is kept by every step; the connection's own steps touch none of it.*)

CorrelationDefs ==
    /\ NoSlotLeak /\ RequestsRegistered /\ KeysFresh /\ KeysUnique
    /\ FramesKnown /\ ResultsInFlight /\ RepliesCorrelated

coreVars == <<netVars, counter, futures, fut, got, callVars>>

LEMMA Untouched ==
    ASSUME CorrelationDefs, UNCHANGED coreVars
    PROVE  CorrelationDefs'
BY DEF CorrelationDefs, NoSlotLeak, RequestsRegistered, KeysFresh, KeysUnique,
       FramesKnown, FrameKnown, ResultsInFlight, RepliesCorrelated, InFlight,
       Pending, coreVars, netVars, callVars

\* Frames that were known stay known while the calls in flight keep their keys
\* and tickets and the counter does not go back.
LEMMA KnownStays ==
    ASSUME TypeOK, TypeOK', NEW f \in Frames, FrameKnown(f), counter' >= counter,
           \A c \in Requesters : (InFlight(c))' =>
                InFlight(c) /\ key'[c] = key[c] /\ ticket'[c] = ticket[c]
    PROVE  (FrameKnown(f))'
BY DEF FrameKnown, TypeOK, Frames

\* The same for all frames at once.
LEMMA FramesStay ==
    ASSUME TypeOK, TypeOK', FramesKnown, counter' >= counter,
           UNCHANGED netVars,
           \A c \in Requesters : (InFlight(c))' =>
                InFlight(c) /\ key'[c] = key[c] /\ ticket'[c] = ticket[c]
    PROVE  FramesKnown'
<1>1. \A f \in owed : (FrameKnown(f))'
  BY KnownStays DEF FramesKnown, TypeOK
<1>2. ASSUME NEW i \in 1 .. Len(inbox) PROVE (FrameKnown(inbox[i]))'
  <2>1. inbox[i] \in Frames /\ FrameKnown(inbox[i]) /\ inbox' = inbox
    BY DEF FramesKnown, TypeOK, netVars
  <2> DEFINE f == inbox[i]
  <2>2. \A g \in Frames : FrameKnown(g) => (FrameKnown(g))'
    BY KnownStays
  <2> QED
    BY <2>1, <2>2 DEF FrameKnown
<1> QED
  BY <1>1, <1>2 DEF FramesKnown, netVars

\* Leaving a call drops that call's slot and no other's.
LEMMA LeaveKeeps ==
    ASSUME TypeOK, TypeOK', CorrelationDefs, NEW c \in Callers, InFlight(c),
           Leave(c)
    PROVE  CorrelationDefs'
<1> USE DEF Leave, InFlight
<1>0. /\ futures' = Discard(c) /\ key[c] \in Keys /\ PongKey \in Keys
      /\ phase' = [phase EXCEPT ![c] = "idle"] /\ key' = [key EXCEPT ![c] = 0]
      /\ fut' = [fut EXCEPT ![c] = "none"] /\ counter' = counter
  BY DEF TypeOK, PongKey, Keys
<1>1. NoSlotLeak'
  <2> SUFFICES ASSUME NEW k \in Keys, futures'[k] /= NoCaller
               PROVE  phase'[futures'[k]] /= "idle" /\ key'[futures'[k]] = k
    BY DEF NoSlotLeak
  <2>1. futures'[k] = futures[k] /\ futures[k] \in Callers /\ key[futures[k]] = k
    BY <1>0 DEF Discard, TypeOK, CorrelationDefs, NoSlotLeak
  <2>2. futures[k] /= c
    <3>1. CASE k = key[c]
      BY <1>0, <3>1 DEF Discard, TypeOK
    <3>2. CASE k /= key[c]
      BY <2>1, <3>2
    <3> QED
      BY <3>1, <3>2
  <2> QED
    BY <1>0, <2>1, <2>2 DEF TypeOK, CorrelationDefs, NoSlotLeak
<1>2. RequestsRegistered'
  <2> SUFFICES ASSUME NEW d \in Requesters, phase'[d] /= "idle", fut'[d] = "pending"
               PROVE  futures'[key'[d]] = d
    BY DEF RequestsRegistered, Pending
  <2>1. d /= c /\ d \in Callers
    BY <1>0 DEF TypeOK, Callers
  <2>2. phase[d] /= "idle" /\ fut[d] = "pending" /\ key'[d] = key[d] /\ futures[key[d]] = d
    BY <1>0, <2>1 DEF TypeOK, CorrelationDefs, RequestsRegistered, Pending
  <2>3. key[d] /= key[c]
    BY <2>1, <2>2 DEF CorrelationDefs, KeysUnique, KeysFresh, Callers, PongKey, TypeOK
  <2> QED
    BY <1>0, <2>2, <2>3 DEF Discard, TypeOK
<1>3. KeysFresh'
  BY <1>0 DEF CorrelationDefs, KeysFresh, TypeOK, Callers, PongKey
<1>4. KeysUnique'
  BY <1>0 DEF CorrelationDefs, KeysUnique, TypeOK, Callers
<1>5. FramesKnown'
  BY FramesStay DEF CorrelationDefs, TypeOK, Callers
<1>6. ResultsInFlight'
  BY <1>0 DEF CorrelationDefs, ResultsInFlight, TypeOK
<1>7. RepliesCorrelated'
  BY <1>0 DEF CorrelationDefs, RepliesCorrelated, TypeOK, Callers
<1> QED
  BY <1>1, <1>2, <1>3, <1>4, <1>5, <1>6, <1>7 DEF CorrelationDefs

\* A step that only ends waits, or drops frames.
LEMMA WaitsEndKeeps ==
    ASSUME TypeOK, TypeOK', CorrelationDefs,
           UNCHANGED <<counter, futures, got, key, ticket>>,
           \A c \in Callers : (InFlight(c))' <=> InFlight(c),
           \A c \in Callers : fut'[c] \in {"pending", "result"} => fut'[c] = fut[c],
           owed' \subseteq owed,
           inbox' = inbox \/ inbox' = <<>>
    PROVE  CorrelationDefs'
<1>1. NoSlotLeak' /\ KeysFresh' /\ KeysUnique'
  BY DEF CorrelationDefs, NoSlotLeak, KeysFresh, KeysUnique, TypeOK, Callers
<1>2. RequestsRegistered' /\ ResultsInFlight' /\ RepliesCorrelated'
  BY DEF CorrelationDefs, RequestsRegistered, Pending, ResultsInFlight,
         RepliesCorrelated, Callers
<1>3. FramesKnown'
  BY DEF CorrelationDefs, FramesKnown, FrameKnown, Callers
<1> QED
  BY <1>1, <1>2, <1>3 DEF CorrelationDefs

\* A new request has a key no frame and no other call has.
LEMMA RequestKeeps ==
    ASSUME TypeOK, TypeOK', CorrelationDefs, NEW c \in Requesters, Request(c)
    PROVE  CorrelationDefs'
<1> DEFINE n == counter + 1
<1> USE DEF InFlight
<1>0. /\ n \in Keys /\ n /= PongKey /\ counter' = n /\ counter \in Nat /\ c \in Callers
      /\ phase[c] = "idle" /\ futures' = [futures EXCEPT ![n] = c]
      /\ phase' = [phase EXCEPT ![c] = "sending"] /\ key' = [key EXCEPT ![c] = n]
      /\ fut' = [fut EXCEPT ![c] = "pending"] /\ got' = got
      /\ ticket' = [ticket EXCEPT ![c] = tickets + 1]
      /\ inbox' = inbox /\ owed' = owed \cup {Answer(c, n, tickets + 1)}
  BY DEF Request, MayCall, Begin, TypeOK, Keys, PongKey, Callers
<1>1. NoSlotLeak'
  <2> SUFFICES ASSUME NEW k \in Keys, futures'[k] /= NoCaller
               PROVE  phase'[futures'[k]] /= "idle" /\ key'[futures'[k]] = k
    BY DEF NoSlotLeak
  <2>1. CASE k = n
    BY <1>0, <2>1 DEF TypeOK
  <2>2. CASE k /= n
    <3>1. futures'[k] = futures[k] /\ futures[k] \in Callers /\ futures[k] /= c
      BY <1>0, <2>2 DEF TypeOK, CorrelationDefs, NoSlotLeak
    <3> QED
      BY <1>0, <3>1 DEF TypeOK, CorrelationDefs, NoSlotLeak
  <2> QED
    BY <2>1, <2>2
<1>2. RequestsRegistered'
  <2> SUFFICES ASSUME NEW d \in Requesters, phase'[d] /= "idle", fut'[d] = "pending"
               PROVE  futures'[key'[d]] = d
    BY DEF RequestsRegistered, Pending
  <2>1. CASE d = c
    BY <1>0, <2>1 DEF TypeOK
  <2>2. CASE d /= c
    <3>1. futures[key[d]] = d /\ key'[d] = key[d] /\ key[d] \in 1 .. counter
      BY <1>0, <2>2 DEF TypeOK, CorrelationDefs, RequestsRegistered, Pending,
                        KeysFresh, Callers
    <3>2. key[d] /= n
      BY <1>0, <3>1
    <3> QED
      BY <1>0, <3>1, <3>2 DEF TypeOK
  <2> QED
    BY <2>1, <2>2
<1>n. n \in 1 .. n /\ \A m \in 1 .. counter : m \in 1 .. n /\ m /= n
  BY <1>0
<1> HIDE DEF n
<1>3. KeysFresh'
  <2>1. \A p \in Pingers : key'[p] = PongKey
    BY <1>0 DEF CorrelationDefs, KeysFresh, TypeOK, Callers
  <2>2. ASSUME NEW d \in Requesters, phase'[d] /= "idle" PROVE key'[d] \in 1 .. n
    BY <1>0, <1>n, <2>2 DEF CorrelationDefs, KeysFresh, TypeOK, Callers
  <2> QED
    BY <1>0, <2>1, <2>2 DEF KeysFresh
<1>4. KeysUnique'
  <2> SUFFICES ASSUME NEW d \in Requesters, NEW e \in Requesters,
                      phase'[d] /= "idle", phase'[e] /= "idle", key'[d] = key'[e]
               PROVE  d = e
    BY DEF KeysUnique
  <2>1. \A x \in Requesters : x /= c /\ phase'[x] /= "idle" =>
            phase[x] /= "idle" /\ key'[x] = key[x] /\ key[x] /= n
    BY <1>0, <1>n DEF CorrelationDefs, KeysFresh, TypeOK, Callers
  <2>2. key'[c] = n
    BY <1>0 DEF TypeOK
  <2> QED
    BY <2>1, <2>2 DEF CorrelationDefs, KeysUnique
<1>5. \A f \in Frames : FrameKnown(f) => (FrameKnown(f))'
  <2> SUFFICES ASSUME NEW f \in Frames, FrameKnown(f) PROVE (FrameKnown(f))'
    OBVIOUS
  <2>1. ASSUME NEW d \in Requesters, (InFlight(d))', f.type = "reply", f.key = key'[d]
        PROVE  f.ticket = ticket'[d]
    <3>1. f.key /= n
      BY <1>n, <2>1 DEF FrameKnown
    <3> QED
      BY <1>0, <2>1, <3>1 DEF FrameKnown, TypeOK, Callers
  <2> QED
    BY <1>0, <1>n, <2>1 DEF FrameKnown
<1>6. ASSUME NEW a, a = Answer(c, n, tickets + 1) PROVE (FrameKnown(a))'
  <2>1. a.type = "reply" /\ a.key = n /\ a.ticket = tickets + 1
    BY <1>6 DEF Answer
  <2>2. ASSUME NEW d \in Requesters, phase'[d] /= "idle", key'[d] = n PROVE d = c
    BY <1>0, <1>n, <2>2 DEF CorrelationDefs, KeysFresh, TypeOK, Callers
  <2>3. ticket'[c] = tickets + 1
    BY <1>0 DEF TypeOK
  <2> QED
    BY <1>0, <1>n, <2>1, <2>2, <2>3 DEF FrameKnown
<1>7. FramesKnown'
  <2>1. ASSUME NEW f \in owed' PROVE (FrameKnown(f))'
    <3>1. CASE f \in owed
      BY <1>5, <3>1 DEF TypeOK, CorrelationDefs, FramesKnown
    <3>2. CASE f = Answer(c, n, tickets + 1)
      BY ONLY <1>6, <3>2
    <3> QED
      BY <1>0, <2>1, <3>1, <3>2
  <2>2. ASSUME NEW i \in 1 .. Len(inbox) PROVE (FrameKnown(inbox[i]))'
    <3>1. inbox[i] \in Frames /\ FrameKnown(inbox[i]) /\ inbox' = inbox
      BY <1>0 DEF TypeOK, CorrelationDefs, FramesKnown
    <3>2. ASSUME NEW f, f \in Frames, FrameKnown(f), f = inbox[i]
          PROVE  (FrameKnown(inbox[i]))'
      <4>1. (FrameKnown(f))'
        BY <1>5, <3>2
      <4>2. inbox'[i] = f
        BY <3>1, <3>2
      <4> QED
        BY <4>1, <4>2 DEF FrameKnown
    <3> QED
      BY <3>1, <3>2
  <2> QED
    BY <1>0, <2>1, <2>2 DEF FramesKnown
<1>8. ResultsInFlight' /\ RepliesCorrelated'
  BY <1>0 DEF CorrelationDefs, ResultsInFlight, RepliesCorrelated, TypeOK, Callers
<1> QED
  BY <1>1, <1>2, <1>3, <1>4, <1>7, <1>8 DEF CorrelationDefs
\* A ping takes the pong's slot, which no request uses.
LEMMA PingKeeps ==
    ASSUME TypeOK, TypeOK', CorrelationDefs, NEW p \in Pingers, Ping(p)
    PROVE  CorrelationDefs'
<1> USE DEF InFlight
<1>0. /\ p \in Callers /\ p \notin Requesters /\ PongKey \in Keys /\ counter' = counter
      /\ phase[p] = "idle" /\ futures' = [futures EXCEPT ![PongKey] = p]
      /\ phase' = [phase EXCEPT ![p] = "sending"] /\ key' = [key EXCEPT ![p] = PongKey]
      /\ fut' = [fut EXCEPT ![p] = "pending"] /\ got' = got
      /\ ticket' = [ticket EXCEPT ![p] = tickets + 1]
      /\ inbox' = inbox /\ owed' = owed \cup {Answer(p, PongKey, tickets + 1)}
  BY DEF Ping, MayCall, Begin, TypeOK, Keys, PongKey, Callers
<1>1. \A d \in Requesters : /\ d \in Callers /\ phase'[d] = phase[d] /\ fut'[d] = fut[d]
                            /\ key'[d] = key[d] /\ ticket'[d] = ticket[d]
  BY <1>0 DEF TypeOK, Callers
<1>2. NoSlotLeak'
  BY <1>0 DEF CorrelationDefs, NoSlotLeak, TypeOK
<1>3. RequestsRegistered'
  <2> SUFFICES ASSUME NEW d \in Requesters, phase'[d] /= "idle", fut'[d] = "pending"
               PROVE  futures'[key'[d]] = d
    BY DEF RequestsRegistered, Pending
  <2>1. futures[key[d]] = d /\ key[d] \in Keys /\ key[d] /= PongKey
    BY <1>1 DEF TypeOK, CorrelationDefs, RequestsRegistered, Pending, KeysFresh, PongKey
  <2> QED
    BY <1>0, <1>1, <2>1 DEF TypeOK
<1>4. KeysFresh' /\ KeysUnique'
  BY <1>0, <1>1 DEF CorrelationDefs, KeysFresh, KeysUnique, TypeOK, Callers
<1>5. ASSUME NEW f, FrameKnown(f) PROVE (FrameKnown(f))'
  BY <1>0, <1>1, <1>5 DEF FrameKnown
<1>6. ASSUME NEW f, f = Answer(p, PongKey, tickets + 1) PROVE (FrameKnown(f))'
  BY <1>0, <1>6 DEF FrameKnown, Answer
<1>7. FramesKnown'
  <2>1. ASSUME NEW f \in owed' PROVE (FrameKnown(f))'
    BY <1>0, <1>5, <1>6, <2>1 DEF CorrelationDefs, FramesKnown
  <2>2. \A i \in 1 .. Len(inbox) : FrameKnown(inbox[i])
    BY DEF CorrelationDefs, FramesKnown
  <2>3. ASSUME NEW i \in 1 .. Len(inbox), NEW f, f = inbox[i] PROVE (FrameKnown(f))'
    BY <1>5, <2>2, <2>3
  <2>4. \A i \in 1 .. Len(inbox) : (FrameKnown(inbox[i]))'
    BY <1>0, <2>3 DEF FrameKnown
  <2> QED
    BY <1>0, <2>1, <2>4 DEF FramesKnown
<1>8. ResultsInFlight' /\ RepliesCorrelated'
  BY <1>0, <1>1 DEF CorrelationDefs, ResultsInFlight, RepliesCorrelated, TypeOK
<1> QED
  BY <1>2, <1>3, <1>4, <1>7, <1>8 DEF CorrelationDefs

\* A refused request moves the counter only.
LEMMA RequestRefusedKeeps ==
    ASSUME TypeOK, TypeOK', CorrelationDefs, NEW c \in Requesters, RequestRefused(c)
    PROVE  CorrelationDefs'
<1>1. FramesKnown'
  BY FramesStay DEF RequestRefused, CorrelationDefs, TypeOK, callVars, InFlight
<1>2. KeysFresh'
  BY DEF RequestRefused, CorrelationDefs, KeysFresh, TypeOK, callVars, InFlight
<1> QED
  BY <1>1, <1>2 DEF RequestRefused, CorrelationDefs, NoSlotLeak, RequestsRegistered,
     KeysUnique, ResultsInFlight, RepliesCorrelated, InFlight, Pending, callVars

\* A refused ping empties the pong's slot only.
LEMMA PingRefusedKeeps ==
    ASSUME TypeOK, TypeOK', CorrelationDefs, NEW p \in Pingers, PingRefused(p)
    PROVE  CorrelationDefs'
<1> USE DEF InFlight
<1>0. PongKey \in Keys /\ futures' = [futures EXCEPT ![PongKey] = NoCaller]
  BY DEF PingRefused, PongKey, Keys
<1>1. NoSlotLeak'
  BY <1>0 DEF PingRefused, CorrelationDefs, NoSlotLeak, TypeOK, callVars
<1>2. RequestsRegistered'
  BY <1>0 DEF PingRefused, CorrelationDefs, RequestsRegistered, Pending, KeysFresh,
              PongKey, TypeOK, Callers, callVars
<1>3. FramesKnown'
  BY FramesStay DEF PingRefused, CorrelationDefs, TypeOK, callVars
<1> QED
  BY <1>1, <1>2, <1>3 DEF PingRefused, CorrelationDefs, KeysFresh, KeysUnique,
     ResultsInFlight, RepliesCorrelated, callVars

\* fail_all and cancel_all leave nothing registered and no request pending.
LEMMA SettleAllKeeps ==
    ASSUME TypeOK, TypeOK', CorrelationDefs, NEW how \in {"error", "cancelled"},
           SettleAll(how), UNCHANGED <<counter, got, callVars>>, FramesKnown'
    PROVE  CorrelationDefs' /\ \A c \in Requesters : ~(Pending(c))'
<1>1. \A c \in Requesters : ~(Pending(c))'
  <2> SUFFICES ASSUME NEW c \in Requesters, (Pending(c))' PROVE FALSE
    OBVIOUS
  <2>1. c \in Callers /\ fut[c] = "pending" /\ fut'[c] = "pending" /\ InFlight(c)
    BY DEF SettleAll, Pending, InFlight, callVars, Callers
  <2>2. futures[key[c]] = c /\ key[c] \in Keys
    BY <2>1 DEF CorrelationDefs, RequestsRegistered, Pending, TypeOK
  <2> QED
    BY <2>1, <2>2 DEF SettleAll
<1>2. NoSlotLeak' /\ RequestsRegistered'
  BY <1>1 DEF SettleAll, NoSlotLeak, RequestsRegistered
<1>3. ResultsInFlight' /\ RepliesCorrelated'
  BY DEF SettleAll, CorrelationDefs, ResultsInFlight, RepliesCorrelated, InFlight,
         callVars, Callers
<1>4. KeysFresh' /\ KeysUnique'
  BY DEF CorrelationDefs, KeysFresh, KeysUnique, InFlight, callVars
<1> QED
  BY <1>1, <1>2, <1>3, <1>4 DEF CorrelationDefs

\* A frame read or received changes the queue, no frame in it.
LEMMA QueueFrames ==
    ASSUME TypeOK, FramesKnown
    PROVE  /\ inbox /= <<>> => FrameKnown(Head(inbox))
           /\ inbox /= <<>> => \A i \in 1 .. Len(Tail(inbox)) : FrameKnown(Tail(inbox)[i])
           /\ \A f \in Frames : FrameKnown(f) =>
                \A i \in 1 .. Len(Append(inbox, f)) : FrameKnown(Append(inbox, f)[i])
<1>1. ASSUME inbox /= <<>>
      PROVE  /\ FrameKnown(Head(inbox))
             /\ \A i \in 1 .. Len(Tail(inbox)) : FrameKnown(Tail(inbox)[i])
  <2>1. /\ Len(inbox) \in Nat \ {0} /\ Head(inbox) = inbox[1]
        /\ Len(Tail(inbox)) = Len(inbox) - 1
        /\ \A i \in 1 .. Len(Tail(inbox)) : Tail(inbox)[i] = inbox[i + 1]
    BY <1>1, HeadTailProperties, EmptySeq, LenProperties DEF TypeOK
  <2>2. \A i \in 1 .. Len(Tail(inbox)) : i + 1 \in 1 .. Len(inbox)
    BY <2>1
  <2> QED
    BY <2>1, <2>2 DEF FramesKnown
<1>2. ASSUME NEW f \in Frames, FrameKnown(f), NEW i \in 1 .. Len(Append(inbox, f))
      PROVE  FrameKnown(Append(inbox, f)[i])
  <2>1. /\ Len(Append(inbox, f)) = Len(inbox) + 1 /\ Len(inbox) \in Nat
        /\ Append(inbox, f)[Len(inbox) + 1] = f
        /\ \A j \in 1 .. Len(inbox) : Append(inbox, f)[j] = inbox[j]
    BY AppendProperties, LenProperties DEF TypeOK
  <2> QED
    BY <1>2, <2>1 DEF FramesKnown
<1> QED
  BY <1>1, <1>2
\* A frame that settles a request answers that very request.
LEMMA DispatchKeeps ==
    ASSUME TypeOK, TypeOK', CorrelationDefs, Dispatch
    PROVE  CorrelationDefs'
<1> DEFINE f == Head(inbox)
           w == Waiter(f)
<1>0. /\ inbox /= <<>> /\ inbox' = Tail(inbox) /\ owed' = owed
      /\ counter' = counter /\ futures' = futures /\ phase' = phase
      /\ key' = key /\ ticket' = ticket
  BY DEF Dispatch, callVars
<1>1. f \in Frames /\ FrameKnown(f)
  BY <1>0, QueueFrames, QueueType DEF CorrelationDefs, TypeOK
<1>2. FramesKnown'
  BY <1>0, QueueFrames DEF CorrelationDefs, FramesKnown, FrameKnown, InFlight
<1>3. NoSlotLeak' /\ KeysFresh' /\ KeysUnique'
  BY <1>0 DEF CorrelationDefs, NoSlotLeak, KeysFresh, KeysUnique, InFlight
<1>4. \/ UNCHANGED <<fut, got>>
      \/ /\ w /= NoCaller /\ fut[w] = "pending"
         /\ fut' = [fut EXCEPT ![w] = "result"]
         /\ got' = [got EXCEPT ![w] = f.ticket]
  BY DEF Dispatch, Settle
<1>5. CASE UNCHANGED <<fut, got>>
  <2>1. RequestsRegistered' /\ ResultsInFlight' /\ RepliesCorrelated'
    BY <1>0, <1>5 DEF CorrelationDefs, RequestsRegistered, ResultsInFlight,
                      RepliesCorrelated, Pending, InFlight
  <2> QED
    BY <1>2, <1>3, <2>1 DEF CorrelationDefs
<1>6. CASE /\ w /= NoCaller /\ fut[w] = "pending"
           /\ fut' = [fut EXCEPT ![w] = "result"]
           /\ got' = [got EXCEPT ![w] = f.ticket]
  <2>1. f.key \in Keys /\ w = futures[f.key]
    BY <1>6 DEF Waiter
  <2>2. w \in Callers /\ InFlight(w) /\ key[w] = f.key
    BY <1>6, <2>1 DEF CorrelationDefs, NoSlotLeak, TypeOK
  <2>3. ASSUME w \in Requesters PROVE f.ticket = ticket[w]
    <3>1. f.key /= PongKey /\ f.key /= NoKey
      BY <2>1, <2>2, <2>3 DEF CorrelationDefs, KeysFresh, PongKey, NoKey, TypeOK
    <3>2. f.type = "reply"
      BY <1>1, <3>1 DEF FrameKnown, Frames
    <3> QED
      BY <1>1, <2>2, <2>3, <3>2 DEF FrameKnown
  <2>4. RequestsRegistered'
    BY <1>0, <1>6 DEF CorrelationDefs, RequestsRegistered, Pending, InFlight, TypeOK, Callers
  <2>5. ResultsInFlight'
    BY <1>0, <1>6, <2>2 DEF CorrelationDefs, ResultsInFlight, InFlight, TypeOK
  <2> HIDE DEF w, f
  <2>6. RepliesCorrelated'
    <3> SUFFICES ASSUME NEW c \in Requesters, fut'[c] = "result"
                 PROVE  got'[c] = ticket'[c]
      BY DEF RepliesCorrelated
    <3>1. CASE c = w
      BY <1>0, <1>6, <2>2, <2>3, <3>1 DEF TypeOK
    <3>2. CASE c /= w
      BY <1>0, <1>6, <3>2 DEF CorrelationDefs, RepliesCorrelated, TypeOK, Callers
    <3> QED
      BY <3>1, <3>2
  <2> QED
    BY <1>2, <1>3, <2>4, <2>5, <2>6 DEF CorrelationDefs
<1> QED
  BY <1>4, <1>5, <1>6

\* The Proxy sends what it may send.
LEMMA ReceiveKeeps ==
    ASSUME TypeOK, TypeOK', CorrelationDefs, NEW f \in Frames, FrameKnown(f),
           inbox' = Append(inbox, f), owed' \subseteq owed,
           UNCHANGED <<counter, futures, fut, got, callVars>>
    PROVE  CorrelationDefs'
<1>1. FramesKnown'
  BY QueueFrames DEF CorrelationDefs, FramesKnown, FrameKnown, InFlight, callVars
<1> QED
  BY <1>1 DEF CorrelationDefs, NoSlotLeak, RequestsRegistered, KeysFresh, KeysUnique,
     ResultsInFlight, RepliesCorrelated, InFlight, Pending, callVars

\* A new client has no call, no slot and no frame.
THEOREM CorrelationInit == Init => Correlation
<1> SUFFICES ASSUME Init PROVE Correlation
  OBVIOUS
<1>1. TypeOK
  BY InitType
<1>2. Len(inbox) = 0
  BY EmptySeq DEF Init
<1> QED
  BY <1>1, <1>2 DEF Init, Correlation, NoSlotLeak, RequestsRegistered, KeysFresh,
     KeysUnique, FramesKnown, ResultsInFlight, RepliesCorrelated, InFlight, Pending,
     PongKey, Callers

\* The correlation invariant is inductive.
THEOREM CorrelationStep == Correlation /\ [Next]_vars => Correlation'
<1> SUFFICES ASSUME Correlation, [Next]_vars PROVE Correlation'
  OBVIOUS
<1>0. TypeOK /\ TypeOK' /\ CorrelationDefs
  BY TypeStep DEF Correlation, CorrelationDefs
<1> SUFFICES CorrelationDefs'
  BY <1>0 DEF Correlation, CorrelationDefs
<1>1. ASSUME NEW c \in Requesters, Request(c) \/ RequestRefused(c) PROVE CorrelationDefs'
  BY <1>0, <1>1, RequestKeeps, RequestRefusedKeeps
<1>2. ASSUME NEW p \in Pingers, Ping(p) \/ PingRefused(p) PROVE CorrelationDefs'
  BY <1>0, <1>2, PingKeeps, PingRefusedKeeps
<1>3. ASSUME NEW c \in Callers, CallerStep(c) PROVE CorrelationDefs'
  <2>1. CASE SendDone(c)
    BY <1>0, <2>1, WaitsEndKeeps DEF SendDone, netVars, TypeOK, InFlight
  <2>2. CASE SendFails(c)
    BY <1>0, <2>2, LeaveKeeps DEF SendFails, InFlight
  <2>3. CASE Timeout(c)
    BY <1>0, <2>3, WaitsEndKeeps DEF Timeout, netVars, callVars, TypeOK, InFlight
  <2>4. CASE Abandon(c)
    BY <1>0, <2>4, WaitsEndKeeps DEF Abandon, netVars, callVars, TypeOK, InFlight
  <2>5. CASE Resume(c)
    BY <1>0, <2>5, LeaveKeeps DEF Resume, InFlight
  <2> QED
    BY <1>3, <2>1, <2>2, <2>3, <2>4, <2>5 DEF CallerStep
<1>4. CASE Dispatch
  BY <1>0, <1>4, DispatchKeeps
<1>5. CASE HandlerReturns
  BY <1>0, <1>5, Untouched DEF HandlerReturns, coreVars
<1>6. CASE PumpEnds
  <2>1. FramesKnown'
    BY <1>0, <1>6 DEF PumpEnds, PumpOver, CorrelationDefs, FramesKnown, FrameKnown, InFlight,
                      netVars, callVars
  <2> QED
    BY <1>0, <1>6, <2>1, SettleAllKeeps DEF PumpEnds, PumpOver
<1>7. CASE DispatchFails
  <2>1. FramesKnown'
    BY <1>0, <1>7, QueueFrames DEF DispatchFails, PumpOver, CorrelationDefs, FramesKnown,
                                   FrameKnown, InFlight, callVars
  <2> QED
    BY <1>0, <1>7, <2>1, SettleAllKeeps DEF DispatchFails, PumpOver
<1>8. ASSUME NEW f \in owed, Serve(f) PROVE CorrelationDefs'
  <2>1. f \in Frames /\ FrameKnown(f)
    BY <1>0 DEF TypeOK, CorrelationDefs, FramesKnown
  <2> QED
    BY <1>0, <1>8, <2>1, ReceiveKeeps DEF Serve
<1>9. ASSUME NEW f \in {Push, ErrorNoId}, Unsolicited(f) PROVE CorrelationDefs'
  <2>1. f \in Frames /\ FrameKnown(f)
    BY FrameTypes DEF FrameKnown, Push, ErrorNoId
  <2> QED
    BY <1>0, <1>9, <2>1, ReceiveKeeps DEF Unsolicited
<1>10. CASE Drop
  BY <1>0, <1>10, WaitsEndKeeps DEF Drop, callVars, InFlight
<1>11. ASSUME NEW b \in BOOLEAN, Connect(b) PROVE CorrelationDefs'
  BY <1>0, <1>11, WaitsEndKeeps DEF Connect, callVars, InFlight
<1>12. CASE ConnectGoesOn
  BY <1>0, <1>12, Untouched DEF ConnectGoesOn, coreVars
<1>13. CASE StopBegin
  BY <1>0, <1>13, WaitsEndKeeps DEF StopBegin, netVars, callVars, InFlight
<1>14. CASE StopEnd
  <2>1. FramesKnown'
    BY <1>14, EmptySeq DEF StopEnd, FramesKnown
  <2> QED
    BY <1>0, <1>14, <2>1, SettleAllKeeps DEF StopEnd
<1>15. CASE UNCHANGED vars
  BY <1>0, <1>15, Untouched DEF vars, coreVars
<1> QED
  BY <1>1, <1>2, <1>3, <1>4, <1>5, <1>6, <1>7, <1>8, <1>9, <1>10, <1>11, <1>12,
     <1>13, <1>14, <1>15 DEF Next, CallerNext, PumpNext, ProxyNext, SupervisorNext

\* The correlation invariant holds in every reachable state.
THEOREM CorrelationHolds == Spec => []Correlation
BY CorrelationInit, CorrelationStep, PTL DEF Spec

\* A request only ever returns the answer to the call it made.
THEOREM RepliesAreCorrelated == Spec => []RepliesCorrelated
<1>1. Correlation => RepliesCorrelated
  BY DEF Correlation
<1> QED
  BY <1>1, CorrelationHolds, PTL

\* A request that can still be answered stays in the map.
THEOREM RequestsStayRegistered == Spec => []RequestsRegistered
<1>1. Correlation => RequestsRegistered
  BY DEF Correlation
<1> QED
  BY <1>1, CorrelationHolds, PTL

\* A call that is over has left no entry in the map.
THEOREM SlotsAreReleased == Spec => []NoSlotLeak
<1>1. Correlation => NoSlotLeak
  BY DEF Correlation
<1> QED
  BY <1>1, CorrelationHolds, PTL
----------------------------------------------------------------------------
(* No wait crosses a reconnect, unless _dispatch itself can raise.  Between *)
(* the end of a pump and the next connection nobody waits, and nobody can   *)
(* begin to: the socket is closed.                                          *)

\* The modes between a pump and the next connection.
Between == {"idle", "backoff", "crashed"}

Fresh ==
    /\ mode \in Between => ~open /\ \A c \in Requesters : ~Pending(c)
    /\ NoCrossConnectionWait

\* A step that starts no wait and does not end the pump.
LEMMA StaysFresh ==
    ASSUME Fresh, epoch' = epoch,
           mode' \in Between => mode \in Between /\ (open' => open),
           \A c \in Requesters : (Pending(c))' => Pending(c) /\ sentOn'[c] = sentOn[c]
    PROVE  Fresh'
BY DEF Fresh, NoCrossConnectionWait

\* A step that leaves every request as it is.
LEMMA CallsUntouched ==
    ASSUME Fresh, UNCHANGED <<fut, phase, sentOn>>, epoch' = epoch,
           mode' \in Between => mode \in Between /\ (open' => open)
    PROVE  Fresh'
BY StaysFresh DEF Pending, InFlight

\* A step that ends the waits of some calls.
LEMMA WaitsOnlyEnd ==
    ASSUME TypeOK, Fresh, NEW c \in Callers, NEW how \in FutureStates \ {"pending"},
           fut' = [fut EXCEPT ![c] = how],
           \A d \in Callers : d /= c => phase'[d] = phase[d] /\ sentOn'[d] = sentOn[d],
           UNCHANGED envVars
    PROVE  Fresh'
<1>1. \A d \in Requesters : (Pending(d))' => d /= c /\ fut'[d] = fut[d]
  BY DEF Pending, TypeOK, Callers
<1> QED
  BY <1>1, StaysFresh DEF Pending, InFlight, envVars, Callers

\* A frame goes out on the connection that is open now.
LEMMA BeginFresh ==
    ASSUME TypeOK, Fresh, NEW c \in Callers, NEW k \in Keys, Begin(c, k)
    PROVE  Fresh'
<1>1. mode \notin Between /\ mode' = mode /\ epoch' = epoch
  BY DEF Fresh, Begin, envVars
<1>2. ASSUME NEW d \in Requesters, (Pending(d))' PROVE sentOn'[d] = epoch
  <2>1. CASE d = c
    BY <2>1 DEF Begin, TypeOK
  <2>2. CASE d /= c
    <3>1. Pending(d) /\ sentOn'[d] = sentOn[d]
      BY <1>2, <2>2 DEF Begin, TypeOK, Pending, InFlight, Callers
    <3> QED
      BY <3>1 DEF Fresh, NoCrossConnectionWait
  <2> QED
    BY <2>1, <2>2
<1> QED
  BY <1>1, <1>2 DEF Fresh, NoCrossConnectionWait

\* Every step keeps waits off the gap between two connections.
LEMMA FreshStep ==
    ASSUME ~DispatchRaises, Correlation, Correlation', Fresh, [Next]_vars
    PROVE  Fresh'
<1>0. TypeOK /\ TypeOK' /\ CorrelationDefs /\ FramesKnown'
  BY DEF Correlation, CorrelationDefs
<1>1. ASSUME NEW c \in Requesters, Request(c) PROVE Fresh'
  <2>1. counter + 1 \in Keys /\ c \in Callers
    BY <1>0, <1>1 DEF Request, TypeOK, Keys, Callers
  <2> QED
    BY <1>0, <1>1, <2>1, BeginFresh DEF Request
<1>2. ASSUME NEW c \in Requesters, RequestRefused(c) PROVE Fresh'
  BY <1>2, CallsUntouched DEF RequestRefused, callVars, envVars
<1>3. ASSUME NEW p \in Pingers, Ping(p) PROVE Fresh'
  BY <1>0, <1>3, BeginFresh DEF Ping, PongKey, Keys, Callers
<1>4. ASSUME NEW p \in Pingers, PingRefused(p) PROVE Fresh'
  BY <1>4, CallsUntouched DEF PingRefused, callVars, envVars
<1>5. ASSUME NEW c \in Callers, CallerStep(c) PROVE Fresh'
  <2>1. CASE SendDone(c)
    <3>1. \A d \in Requesters : (Pending(d))' => Pending(d) /\ sentOn'[d] = sentOn[d]
      BY <1>0, <2>1 DEF SendDone, Pending, InFlight, TypeOK
    <3> QED
      BY <2>1, <3>1, StaysFresh DEF SendDone, envVars
  <2>2. CASE SendFails(c)
    BY <1>0, <2>2, WaitsOnlyEnd DEF SendFails, Leave, TypeOK, FutureStates
  <2>3. CASE Timeout(c)
    BY <1>0, <2>3, WaitsOnlyEnd DEF Timeout, callVars, FutureStates
  <2>4. CASE Abandon(c)
    BY <1>0, <2>4, WaitsOnlyEnd DEF Abandon, callVars, FutureStates
  <2>5. CASE Resume(c)
    BY <1>0, <2>5, WaitsOnlyEnd DEF Resume, Leave, TypeOK, FutureStates
  <2> QED
    BY <1>5, <2>1, <2>2, <2>3, <2>4, <2>5 DEF CallerStep
<1>6. CASE Dispatch
  <2>1. \A c \in Requesters : (Pending(c))' => Pending(c) /\ sentOn'[c] = sentOn[c]
    BY <1>0, <1>6 DEF Dispatch, Settle, Pending, InFlight, callVars, TypeOK, Callers
  <2> QED
    BY <1>6, <2>1, StaysFresh DEF Dispatch, envVars
<1>7. CASE HandlerReturns
  BY <1>7, CallsUntouched DEF HandlerReturns, callVars, envVars
<1>8. CASE PumpEnds
  <2>1. \A c \in Requesters : ~(Pending(c))'
    BY <1>0, <1>8, SettleAllKeeps DEF PumpEnds, PumpOver
  <2> QED
    BY <1>8, <2>1 DEF Between, PumpEnds, PumpOver, PumpReturns, Fresh, NoCrossConnectionWait
<1>9. CASE DispatchFails
  BY <1>9 DEF DispatchFails
<1>10. ASSUME NEW f, Serve(f) \/ Unsolicited(f) PROVE Fresh'
  BY <1>10, CallsUntouched DEF Serve, Unsolicited, callVars, envVars
<1>11. CASE Drop
  BY <1>11, CallsUntouched DEF Drop, Lost, callVars
<1>12. ASSUME NEW b \in BOOLEAN, Connect(b) PROVE Fresh'
  BY <1>12 DEF Between, Connect, Opening, Fresh, NoCrossConnectionWait, Pending, InFlight, callVars
<1>13. CASE ConnectGoesOn
  BY <1>13, CallsUntouched DEF Between, ConnectGoesOn, SocketUp, OpeningFails,
                                Authenticated, Replayed, callVars
<1>14. CASE StopBegin
  <2>1. \A c \in Requesters : (Pending(c))' => Pending(c) /\ sentOn'[c] = sentOn[c]
    BY <1>14 DEF StopBegin, Pending, InFlight, callVars, Callers
  <2> QED
    BY <1>14, <2>1, StaysFresh DEF StopBegin, StopBegins, Between
<1>15. CASE StopEnd
  <2>1. \A c \in Requesters : ~(Pending(c))'
    BY <1>0, <1>15, SettleAllKeeps DEF StopEnd
  <2> QED
    BY <1>15, <2>1 DEF Between, StopEnd, StopIsOver, Fresh, NoCrossConnectionWait
<1>16. CASE UNCHANGED vars
  BY <1>16, CallsUntouched DEF vars, callVars, envVars
<1> QED
  BY <1>1, <1>2, <1>3, <1>4, <1>5, <1>6, <1>7, <1>8, <1>9, <1>10, <1>11, <1>12,
     <1>13, <1>14, <1>15, <1>16 DEF Next, CallerNext, PumpNext, ProxyNext, SupervisorNext

\* As long as _dispatch itself cannot raise, no request waits for an answer to
\* a frame that went out on an earlier connection.
THEOREM NoWaitCrossesAReconnect ==
    ASSUME ~DispatchRaises PROVE Spec => []NoCrossConnectionWait
<1>1. Init => Fresh
  BY DEF Between, Init, LineInit, Fresh, NoCrossConnectionWait, Pending, InFlight, Callers
<1>2. Correlation /\ Correlation' /\ Fresh /\ [Next]_vars => Fresh'
  BY FreshStep
<1>3. Fresh => NoCrossConnectionWait
  BY DEF Fresh
<1> QED
  BY <1>1, <1>2, <1>3, CorrelationHolds, PTL DEF Spec
----------------------------------------------------------------------------
(* What single steps do, given the invariant. *)

\* Only the end of the pump or of stop() leads out of a phase in which calls
\* are served; both go through the map.
LEMMA DropSettles ==
    ASSUME Next, mode \in {"pump", "stopping", "failed", "crashed"},
           mode' \in {"idle", "backoff", "crashed"} \ {mode}
    PROVE  \E how \in {"error", "cancelled"} : SettleAll(how) /\ phase' = phase
<1>1. CASE CallerNext
  BY <1>1 DEF CallerNext, Request, RequestRefused, Ping, PingRefused, Begin, CallerStep,
              SendDone, SendFails, Timeout, Abandon, Resume, Leave, envVars
<1>2. CASE PumpNext
  BY <1>2 DEF PumpNext, Dispatch, HandlerReturns, PumpEnds, DispatchFails, PumpOver, envVars,
              callVars
<1>3. CASE ProxyNext
  BY <1>3 DEF ProxyNext, Serve, Unsolicited, Drop, Lost, envVars
<1>4. CASE SupervisorNext
  BY <1>4 DEF SupervisorNext, Connect, Opening, ConnectGoesOn, SocketUp, OpeningFails,
              Authenticated, Replayed, StopBegin, StopBegins, StopEnd, callVars
<1> QED BY <1>1, <1>2, <1>3, <1>4 DEF Next

\* A drop, a give-up and a stop() settle every call that can be found; one that
\* cannot is a ping whose slot another ping took (_rpc.py: fail_all, cancel_all).
THEOREM NobodyIsLeftWaiting == Spec => DropFailsEveryone
<1> DEFINE A == (mode \in {"pump", "stopping", "failed", "crashed"}
                    /\ mode' \in {"idle", "backoff", "crashed"} \ {mode})
                => \A c \in Callers : \/ phase'[c] = "idle" \/ fut'[c] /= "pending"
                                      \/ c \in Pingers /\ futures[PongKey] /= c
<1>1. Correlation /\ [Next]_vars => [A]_vars
  <2> SUFFICES ASSUME Correlation, Next, mode \in {"pump", "stopping", "failed", "crashed"},
                      mode' \in {"idle", "backoff", "crashed"} \ {mode},
                      NEW c \in Callers, phase'[c] /= "idle", fut'[c] = "pending",
                      c \in Pingers => futures[PongKey] = c
               PROVE  FALSE
    OBVIOUS
  <2>1. PICK how \in {"error", "cancelled"} : SettleAll(how) /\ phase' = phase
    BY DropSettles
  <2>2. fut[c] = "pending" /\ ~ \E k \in Keys : futures[k] = c
    BY <2>1 DEF SettleAll
  <2>3. CASE c \in Requesters
    BY <2>1, <2>2, <2>3 DEF Correlation, RequestsRegistered, Pending, InFlight, TypeOK
  <2>4. CASE c \in Pingers
    BY <2>2, <2>4 DEF PongKey, Keys
  <2> QED BY <2>3, <2>4 DEF Callers
<1> QED BY <1>1, CorrelationHolds, PTL DEF Spec, DropFailsEveryone

\* The ping that ends takes the slot along only if it is its own
\* (_rpc.py: discard_pong).
THEOREM TheSlotIsItsHolders == Spec => LoserKeepsWinner
<1> DEFINE A == \A p, q \in Pingers :
                    p /= q /\ InFlight(p) /\ phase'[p] = "idle" /\ futures[PongKey] = q
                    => futures'[PongKey] = q
<1>1. Correlation /\ [Next]_vars => [A]_vars
  <2> SUFFICES ASSUME Correlation, Next, NEW p \in Pingers, NEW q \in Pingers, p /= q,
                      phase[p] /= "idle", phase'[p] = "idle", futures[PongKey] = q
               PROVE  futures'[PongKey] = q
    BY DEF InFlight
  <2>1. TypeOK /\ p \in Callers /\ key[p] = PongKey /\ p \notin Requesters /\ PongKey \in Keys
    BY DEF Correlation, KeysFresh, Callers, PongKey, Keys
  <2>2. \E c \in Callers : Leave(c)
    <3>1. ASSUME NEW c \in Callers, NEW k, Begin(c, k) PROVE FALSE
      BY <2>1, <3>1 DEF Begin, TypeOK
    <3>2. ASSUME NEW c \in Callers, CallerStep(c) PROVE Leave(c)
      BY <2>1, <3>2 DEF CallerStep, SendDone, SendFails, Timeout, Abandon, Resume, callVars,
                        TypeOK
    <3>3. CASE CallerNext
      BY <3>1, <3>2, <3>3 DEF CallerNext, Request, RequestRefused, Ping, PingRefused, Callers,
                              callVars
    <3>4. CASE PumpNext
      BY <3>4 DEF PumpNext, Dispatch, HandlerReturns, PumpEnds, DispatchFails, callVars
    <3>5. CASE ProxyNext
      BY <3>5 DEF ProxyNext, Serve, Unsolicited, Drop, callVars
    <3>6. CASE SupervisorNext
      BY <3>6 DEF SupervisorNext, Connect, ConnectGoesOn, StopBegin, StopEnd, callVars
    <3> QED BY <3>3, <3>4, <3>5, <3>6 DEF Next
  <2>3. PICK c \in Callers : Leave(c)
    BY <2>2
  <2>4. c = p
    BY <2>1, <2>3 DEF Leave, TypeOK
  <2> QED BY <2>1, <2>3, <2>4 DEF Leave, Discard, TypeOK
<1> QED BY <1>1, CorrelationHolds, PTL DEF Spec, LoserKeepsWinner
----------------------------------------------------------------------------
(* An answer that is read is not passed over.  A reply and a call that have *)
(* the same ticket have the same key: every ticket is new when it is used.  *)

FrameTicketed(f) ==
    /\ f.ticket <= tickets
    /\ f.type = "reply" =>
        \A c \in Requesters : InFlight(c) /\ f.ticket = ticket[c] => f.key = key[c]

Ticketed ==
    /\ \A c \in Callers : ticket[c] <= tickets
    /\ \A f \in owed : FrameTicketed(f)
    /\ \A i \in 1 .. Len(inbox) : FrameTicketed(inbox[i])

\* A call ends or none does; no frame is new.
LEMMA TicketsStay ==
    ASSUME TypeOK, TypeOK', Ticketed, tickets' = tickets, owed' \subseteq owed,
           \A c \in Callers : ticket'[c] = ticket[c] \/ ticket'[c] = 0,
           \A c \in Callers :
                \/ phase'[c] = "idle"
                \/ phase[c] /= "idle" /\ key'[c] = key[c] /\ ticket'[c] = ticket[c],
           \A i \in 1 .. Len(inbox') :
                inbox'[i] \in owed \cup {Push, ErrorNoId}
                    \/ \E j \in 1 .. Len(inbox) : inbox'[i] = inbox[j]
    PROVE  Ticketed'
<1>1. tickets \in Nat /\ \A c \in Callers : ticket[c] <= tickets
  BY DEF TypeOK, Ticketed
<1>2. \A c \in Callers : (ticket[c] <= tickets)'
  BY <1>1
<1>3. ASSUME NEW f, FrameTicketed(f) PROVE FrameTicketed(f)'
  BY <1>3 DEF FrameTicketed, InFlight, Callers
<1>4. FrameTicketed(Push) /\ FrameTicketed(ErrorNoId)
  BY <1>1 DEF FrameTicketed, Push, ErrorNoId
<1>5. \A i \in 1 .. Len(inbox') : FrameTicketed(inbox'[i])
  BY <1>4 DEF Ticketed
<1>6. \A i \in 1 .. Len(inbox') : \A f : f = inbox'[i] => FrameTicketed(f)'
  BY <1>3, <1>5
<1>7. (\A i \in 1 .. Len(inbox) : FrameTicketed(inbox[i]))'
  BY <1>6 DEF FrameTicketed
<1> QED BY <1>2, <1>3, <1>7 DEF Ticketed

\* A new call has a ticket that no frame and no other call has.
LEMMA BeginTickets ==
    ASSUME TypeOK, TypeOK', Ticketed, NEW c \in Callers, NEW k \in Keys, Begin(c, k)
    PROVE  Ticketed'
<1>1. /\ tickets \in Nat /\ tickets' = tickets + 1 /\ inbox' = inbox
      /\ \A d \in Callers : ticket[d] \in Nat /\ ticket[d] <= tickets
      /\ \A d \in Callers : ticket'[d] = IF d = c THEN tickets + 1 ELSE ticket[d]
      /\ \A d \in Callers : d /= c => key'[d] = key[d] /\ phase'[d] = phase[d]
      /\ key'[c] = k /\ owed' = owed \cup {Answer(c, k, tickets + 1)}
  BY DEF TypeOK, Ticketed, Begin
<1>2. \A d \in Callers : (ticket[d] <= tickets)'
  BY <1>1
<1>3. ASSUME NEW f \in Frames, FrameTicketed(f) PROVE FrameTicketed(f)'
  <2>1. f.ticket \in Nat /\ f.ticket <= tickets
    BY <1>3 DEF Frames, FrameTicketed
  <2>2. ASSUME f.type = "reply", NEW d \in Requesters, phase'[d] /= "idle",
               f.ticket = ticket'[d]
        PROVE  f.key = key'[d]
    <3>1. d /= c /\ d \in Callers
      BY <1>1, <2>1, <2>2 DEF Callers
    <3> QED BY <1>1, <1>3, <2>2, <3>1 DEF FrameTicketed, InFlight
  <2> QED BY <1>1, <2>1, <2>2 DEF FrameTicketed, InFlight
<1>4. ASSUME NEW f, f = Answer(c, k, tickets + 1) PROVE FrameTicketed(f)'
  <2>1. f.ticket = tickets + 1 /\ f.key = k
    BY <1>4 DEF Answer
  <2>2. ASSUME NEW d \in Requesters, f.ticket = ticket'[d] PROVE f.key = key'[d]
    <3>1. d \in Callers /\ d = c
      BY <1>1, <2>1, <2>2 DEF Callers
    <3> QED BY <1>1, <2>1, <3>1
  <2> QED BY <1>1, <2>1, <2>2 DEF FrameTicketed
<1>5. \A f \in owed' : FrameTicketed(f)'
  BY <1>1, <1>3, <1>4 DEF Ticketed, TypeOK
<1>6. \A i \in 1 .. Len(inbox) : \A f : f = inbox[i] => FrameTicketed(f)'
  BY <1>3, ElementOfSeq, LenProperties DEF Ticketed, TypeOK
<1>7. (\A i \in 1 .. Len(inbox) : FrameTicketed(inbox[i]))'
  BY <1>1, <1>6 DEF FrameTicketed
<1> QED BY <1>2, <1>5, <1>7 DEF Ticketed

\* Every step keeps replies under the key of the call they answer.
LEMMA TicketedStep ==
    ASSUME TypeOK, TypeOK', Ticketed, [Next]_vars
    PROVE  Ticketed'
<1>1. CASE \E c \in Requesters : Request(c)
  <2>1. PICK c \in Requesters : Request(c)
    BY <1>1
  <2>2. counter + 1 \in Keys /\ c \in Callers
    BY <2>1 DEF Request, TypeOK, Keys, Callers
  <2> QED BY <2>1, <2>2, BeginTickets DEF Request
<1>2. CASE \E p \in Pingers : Ping(p)
  BY <1>2, BeginTickets DEF Ping, PongKey, Keys, Callers
<1>3. CASE \E c \in Callers : Leave(c)
  BY <1>3, TicketsStay DEF Leave, netVars, TypeOK
<1>4. CASE UNCHANGED <<netVars, callVars>>
  BY <1>4, TicketsStay DEF netVars, callVars
<1>5. CASE \E c \in Callers : SendDone(c)
  BY <1>5, TicketsStay DEF SendDone, netVars, TypeOK
<1>6. CASE Dispatch \/ DispatchFails
  <2>1. inbox /= <<>> /\ inbox' = Tail(inbox) /\ owed' = owed /\ UNCHANGED callVars
    BY <1>6 DEF Dispatch, DispatchFails
  <2>2. \A i \in 1 .. Len(inbox') : \E j \in 1 .. Len(inbox) : inbox'[i] = inbox[j]
    <3> SUFFICES ASSUME NEW i \in 1 .. Len(inbox') PROVE inbox'[i] = inbox[i + 1] /\ i + 1 \in 1 .. Len(inbox)
      OBVIOUS
    <3> QED BY <2>1, HeadTailProperties, LenProperties DEF TypeOK
  <2> QED BY <2>1, <2>2, TicketsStay DEF callVars
<1>7. ASSUME NEW f \in owed \cup {Push, ErrorNoId}, inbox' = Append(inbox, f), owed' \subseteq owed,
             UNCHANGED callVars
      PROVE  Ticketed'
  <2>1. f \in Frames /\ inbox \in Seq(Frames)
    BY FrameTypes DEF TypeOK
  <2>2. \A i \in 1 .. Len(inbox') : inbox'[i] = f \/ \E j \in 1 .. Len(inbox) : inbox'[i] = inbox[j]
    BY <1>7, <2>1, AppendProperties, LenProperties
  <2> QED BY <1>7, <2>2, TicketsStay DEF callVars
<1>8. CASE owed' = {} /\ (inbox' = inbox \/ inbox' = <<>>) /\ UNCHANGED callVars
  <2>1. \A i \in 1 .. Len(inbox') : \E j \in 1 .. Len(inbox) : inbox'[i] = inbox[j]
    BY <1>8
  <2> QED BY <1>8, <2>1, TicketsStay DEF callVars
<1>9. CASE CallerNext
  BY <1>1, <1>2, <1>3, <1>4, <1>5, <1>9
  DEF CallerNext, RequestRefused, PingRefused, CallerStep, SendFails, Timeout, Abandon, Resume
<1>10. CASE PumpNext
  BY <1>4, <1>6, <1>10 DEF PumpNext, HandlerReturns, PumpEnds
<1>11. CASE ProxyNext
  <2>1. ASSUME NEW f \in owed, Serve(f) PROVE Ticketed'
    BY <1>7, <2>1 DEF Serve
  <2>2. ASSUME NEW f \in {Push, ErrorNoId}, Unsolicited(f) PROVE Ticketed'
    BY <1>7, <2>2 DEF Unsolicited
  <2>3. CASE Drop
    BY <1>8, <2>3 DEF Drop
  <2> QED BY <1>11, <2>1, <2>2, <2>3 DEF ProxyNext
<1>12. CASE SupervisorNext
  BY <1>4, <1>8, <1>12 DEF SupervisorNext, Connect, ConnectGoesOn, StopBegin, StopEnd
<1>13. CASE UNCHANGED vars
  BY <1>4, <1>13 DEF vars
<1> QED BY <1>9, <1>10, <1>11, <1>12, <1>13 DEF Next

\* A frame leaves the queue, and the pump goes on, only through _dispatch.
LEMMA ReadsDispatch ==
    ASSUME TypeOK, Next, Reads PROVE Dispatch
<1>1. mode = "pump" /\ mode' = "pump" /\ inbox /= <<>> /\ Len(inbox') /= Len(inbox)
      /\ \A f \in Frames : inbox' /= Append(inbox, f)
  <2>1. inbox \in Seq(Frames) /\ inbox /= <<>> /\ inbox' = Tail(inbox)
    BY DEF TypeOK, Reads
  <2>2. Len(inbox) \in Nat /\ Len(inbox') = Len(inbox) - 1
    BY <2>1, HeadTailProperties, LenProperties
  <2>3. \A f \in Frames : Len(Append(inbox, f)) = Len(inbox) + 1
    BY <2>1, AppendProperties
  <2>4. Len(inbox') /= Len(inbox) /\ \A f \in Frames : Len(inbox') /= Len(Append(inbox, f))
    BY <2>2, <2>3
  <2>5. \A f \in Frames : inbox' /= Append(inbox, f)
    BY <2>4
  <2> QED BY <2>4, <2>5 DEF Reads, PumpFree
<1>2. inbox' /= inbox
  BY <1>1
<1>3. ~CallerNext
  BY <1>2 DEF CallerNext, Request, RequestRefused, Ping, PingRefused, Begin, CallerStep,
              SendDone, SendFails, Timeout, Abandon, Resume, Leave, netVars
<1>4. ~ProxyNext
  <2>1. ASSUME NEW f \in owed \cup {Push, ErrorNoId} PROVE ~Serve(f) /\ ~Unsolicited(f)
    BY <1>1, FrameTypes DEF TypeOK, Serve, Unsolicited
  <2> QED BY <1>2, <2>1 DEF ProxyNext, Drop
<1>5. ~SupervisorNext
  BY <1>1, <1>2 DEF SupervisorNext, Connect, Opening, ConnectGoesOn, StopBegin, StopEnd,
                    StopIsOver, netVars
<1>6. ~HandlerReturns /\ ~PumpEnds /\ ~DispatchFails
  BY <1>1, <1>2 DEF HandlerReturns, PumpEnds, DispatchFails, PumpOver, PumpReturns, netVars
<1> QED BY <1>3, <1>4, <1>5, <1>6 DEF Next, PumpNext

\* An answer read in time is never mistaken for a frame nobody asked for: the
\* map still has its caller under its key (_rpc.py: resolve; client.py:
\* _dispatch).
THEOREM NoAnswerIsPassedOver == Spec => AnswersConsumed
<1> DEFINE A == \A c \in Requesters :
                    Reads /\ Pending(c) /\ Head(inbox).type = "reply"
                          /\ Head(inbox).ticket = ticket[c]
                    => fut'[c] = "result"
<1>1. Init => Ticketed
  BY DEF Init, Ticketed, Callers
<1>2. Correlation /\ Correlation' /\ Ticketed /\ [Next]_vars => Ticketed'
  BY TicketedStep DEF Correlation
<1>3. Correlation /\ Ticketed /\ [Next]_vars => [A]_vars
  <2> SUFFICES ASSUME Correlation, Ticketed, Next, NEW c \in Requesters, Reads, Pending(c),
                      Head(inbox).type = "reply", Head(inbox).ticket = ticket[c]
               PROVE  fut'[c] = "result"
    OBVIOUS
  <2>1. Dispatch /\ TypeOK /\ c \in Callers /\ c /= NoCaller /\ InFlight(c) /\ fut[c] = "pending"
    BY ReadsDispatch DEF Correlation, Callers, Pending
  <2>2. inbox \in Seq(Frames) /\ inbox /= <<>>
    BY <2>1 DEF TypeOK, Reads
  <2>3. Head(inbox) = inbox[1] /\ 1 \in 1 .. Len(inbox)
    BY <2>2, HeadTailProperties, LenProperties, EmptySeq
  <2>4. Head(inbox).key = key[c]
    BY <2>1, <2>3 DEF Ticketed, FrameTicketed
  <2>5. key[c] \in Keys /\ futures[key[c]] = c
    BY <2>1 DEF Correlation, TypeOK, RequestsRegistered, Pending
  <2>6. Waiter(Head(inbox)) = c
    BY <2>4, <2>5 DEF Waiter
  <2>7. Settle(Head(inbox))
    BY <2>1, <2>6 DEF Dispatch, Resolves
  <2> QED BY <2>1, <2>6, <2>7 DEF Settle, TypeOK
<1> QED BY <1>1, <1>2, <1>3, CorrelationHolds, PTL DEF Spec, AnswersConsumed
----------------------------------------------------------------------------
(* The environment. *)

\* Calls, pump and Proxy leave the connection to the lifecycle: what happens to
\* it is what module Connectivity says, and so what Supervisor implements.
THEOREM CallsStayOnTheLine == Spec => LineSpec
<1>1. Init => LineInit
  BY DEF Init
<1>2. [Next]_vars => [LineNext]_envVars
  <2> SUFFICES ASSUME [Next]_vars PROVE LineNext \/ UNCHANGED envVars
    OBVIOUS
  <2>1. CASE CallerNext
    BY <2>1 DEF CallerNext, Request, RequestRefused, Ping, PingRefused, Begin, CallerStep,
                SendDone, SendFails, Timeout, Abandon, Resume, Leave
  <2>2. CASE PumpNext
    BY <2>2 DEF PumpNext, Dispatch, HandlerReturns, PumpEnds, DispatchFails, PumpOver, LineNext
  <2>3. CASE ProxyNext
    BY <2>3 DEF ProxyNext, Serve, Unsolicited, Drop, LineNext
  <2>4. CASE SupervisorNext
    BY <2>4 DEF SupervisorNext, Connect, ConnectGoesOn, StopBegin, StopEnd, LineNext
  <2>5. CASE UNCHANGED vars
    BY <2>5 DEF vars
  <2> QED BY <2>1, <2>2, <2>3, <2>4, <2>5 DEF Next
<1> QED BY <1>1, <1>2, PTL DEF Spec, LineSpec
============================================================================
