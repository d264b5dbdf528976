------------------------ MODULE SubscriptionsProofs ------------------------
(***************************************************************************)
(* Theorems about Subscriptions: the registry and what the venue has on    *)
(* agree, although calls overlap, are lost with the connection, refused or *)
(* given up, and although the replay runs among them.                      *)
(*                                                                         *)
(* Frames are served and answers read in the order sent.  So the argument  *)
(* follows the pipe, the answers to be read and then the frames to be      *)
(* served: serving moves its boundary, reading takes its head, sending     *)
(* adds to its end.                                                        *)
(***************************************************************************)
EXTENDS Subscriptions, SequenceLemmas, SequenceTheorems, FiniteSetTheorems,
        WellFoundedInduction, TLAPS

\* The numbers of the calls in the pipe.
PipeLen == Len(inbox) + Len(wire)
Pipe ==
    [k \in 1 .. PipeLen |-> IF k <= Len(inbox) THEN inbox[k].id ELSE wire[k - Len(inbox)].id]

\* Where nothing is open, or nothing has been served yet.
Quiet ==
    /\ mode \in {"idle", "connecting", "backoff", "crashed"} => ~open /\ waiting = <<>>
    /\ ~open => wire = <<>> /\ active = {}
    /\ mode \in {"connecting", "handshake"} => inbox = <<>> /\ active = {}
    /\ first => mode \in {"connecting", "handshake"} /\ ToSet(subs) \subseteq maybeOff

\* The supervisor's own calls are subscribes, one at a time while it replays.
ReplayCalls ==
    /\ \A i \in 1 .. Len(waiting) : waiting[i].id = Replay => waiting[i].op = "subscribe"
    /\ \A i \in 1 .. Len(wire) : wire[i].id = Replay => wire[i].op = "subscribe"
    /\ mode /= "replay" => todo = <<>> /\ ~Replaying
    /\ mode \in {"connecting", "handshake"} =>
        \A i \in 1 .. Len(wire) : wire[i].id /= Replay
    /\ \A i, j \in 1 .. Len(waiting) :
        waiting[i].id = Replay /\ waiting[j].id = Replay => i = j

\* The callers' calls are numbered in the order sent.
InOrder ==
    /\ \A i, j \in 1 .. PipeLen :
        i < j /\ Pipe[i] /= Replay /\ Pipe[j] /= Replay => Pipe[i] < Pipe[j]
    /\ \A i, j \in 1 .. Len(waiting) :
        i < j /\ waiting[i].id /= Replay /\ waiting[j].id /= Replay
        => waiting[i].id < waiting[j].id
    /\ \A i \in 1 .. PipeLen : Pipe[i] \in 0 .. calls
    /\ \A i \in 1 .. Len(waiting) : waiting[i].id \in 0 .. calls

\* Calls time out in the order sent: one that waits since before a replayed
\* subscribe ends before that one does.
ReplayOutlasts ==
    mode /= "stopping" =>
        \A i \in 1 .. Len(waiting), k, l \in 1 .. PipeLen :
            /\ waiting[i].id /= Replay /\ Pipe[k] = waiting[i].id
            /\ k < l /\ Pipe[l] = Replay
            => \E j \in i + 1 .. Len(waiting) : waiting[j].id = Replay

\* A call to be served still waits, or is known to have had no answer.
SentIsKnown ==
    \A i \in 1 .. Len(wire) :
        wire[i].id /= Replay =>
            \/ \E j \in 1 .. Len(waiting) : waiting[j] = wire[i]
            \/ wire[i].op = "subscribe" /\ wire[i].entry \in maybeOn
            \/ wire[i].op = "unsubscribe" /\ wire[i].entry \in maybeOff

\* Its number is its own.
SameNumber ==
    \A i \in 1 .. Len(waiting), j \in 1 .. Len(wire) :
        waiting[i].id = wire[j].id /\ wire[j].id /= Replay => waiting[i] = wire[j]

\* A call that waits, about e, whose acceptance is to be read, after that of
\* call n.
Accepted(op, e, n) ==
    \E i \in 1 .. Len(waiting), k \in 1 .. Len(inbox) :
        /\ waiting[i].op = op /\ waiting[i].entry = e
        /\ waiting[i].id = inbox[k].id /\ inbox[k].ok /\ inbox[k].id > n

\* Why an entry is on, or may be off, as of call n; and the other way round.
OnAfter(e, n) ==
    \/ e \in active \/ e \in maybeOff \/ Accepted("unsubscribe", e, n)
    \/ \E i \in 1 .. Len(wire) : wire[i].op = "subscribe" /\ wire[i].entry = e
OffAfter(e, n) == e \notin active \/ e \in maybeOn \/ Accepted("subscribe", e, n)

\* The replay goes on after this call.
EndsBeforeReplay(i) == \E j \in i + 1 .. Len(waiting) : waiting[j].id = Replay

Live == open /\ mode \in {"replay", "pump"}

\* What is recorded is on, and what is about to be recorded.
RecordedIsOn ==
    Live =>
        /\ \A e \in ToSet(subs) : e \in ToSet(todo) \/ OnAfter(e, 0)
        /\ \A i \in 1 .. Len(waiting), k \in 1 .. Len(inbox) :
            /\ waiting[i].op = "subscribe" /\ waiting[i].persist
            /\ waiting[i].id /= Replay
            /\ inbox[k].id = waiting[i].id /\ inbox[k].ok
            => OnAfter(waiting[i].entry, waiting[i].id)

\* What is not recorded is off, and what is about to be removed.
UnrecordedIsOff ==
    Live =>
        /\ \A e \in Entries : Contains(subs, e) \/ OffAfter(e, 0)
        /\ \A i \in 1 .. Len(waiting), k \in 1 .. Len(inbox) :
            /\ waiting[i].op = "unsubscribe"
            /\ inbox[k].id = waiting[i].id /\ inbox[k].ok
            => OffAfter(waiting[i].entry, waiting[i].id) \/ EndsBeforeReplay(i)
        /\ \A i \in 1 .. Len(wire) : wire[i].id = Replay => Contains(subs, wire[i].entry)
        /\ \A e \in ToSet(todo) : Contains(subs, e)

Inv ==
    /\ TypeOK /\ NoDuplicates
    /\ Quiet /\ ReplayCalls /\ InOrder /\ ReplayOutlasts /\ SentIsKnown /\ SameNumber
    /\ RecordedIsOn /\ UnrecordedIsOff
----------------------------------------------------------------------------
(* The registry. *)

\* What an answered call does to the registry.
LEMMA RegisteredProperties ==
    ASSUME TypeOK, NoDuplicates, NEW call \in Calls
    PROVE  /\ Registered(call) \in Seq(Entries) /\ IsInjective(Registered(call))
           /\ \A e : Contains(Registered(call), e) <=>
                    IF call.op = "unsubscribe" THEN e /= call.entry /\ Contains(subs, e)
                    ELSE Contains(subs, e) \/ (call.persist /\ e = call.entry)
<1>0. subs \in Seq(Entries) /\ IsInjective(subs) /\ call.entry \in Entries
  BY DEF TypeOK, NoDuplicates, Calls
<1>1. CASE call.op = "unsubscribe"
  BY <1>0, <1>1, RemoveFirstProperties DEF Registered
<1>2. CASE call.op /= "unsubscribe" /\ call.persist /\ ~Contains(subs, call.entry)
  <2>1. Registered(call) = Append(subs, call.entry)
    BY <1>2 DEF Registered
  <2>2. IsInjective(Append(subs, call.entry))
    BY <1>0, <1>2, AppendProperties, LenProperties DEF IsInjective, Contains
  <2> QED BY <1>0, <1>2, <2>1, <2>2, AppendProperties, AppendContains
<1>3. CASE call.op /= "unsubscribe" /\ ~(call.persist /\ ~Contains(subs, call.entry))
  <2>1. Registered(call) = subs
    BY <1>3 DEF Registered
  <2> QED BY <1>0, <1>3, <2>1
<1> QED BY <1>1, <1>2, <1>3
----------------------------------------------------------------------------
(* Type correctness, and that nothing is recorded twice. *)

LEMMA Sizes ==
    ASSUME TypeOK
    PROVE  /\ Len(waiting) \in Nat /\ Len(wire) \in Nat /\ Len(inbox) \in Nat
           /\ PipeLen \in Nat /\ PipeLen = Len(inbox) + Len(wire)
           /\ \A i \in 1 .. Len(waiting) : waiting[i] \in Calls
           /\ \A i \in 1 .. Len(wire) : wire[i] \in Calls
           /\ \A i \in 1 .. Len(inbox) : inbox[i] \in Answers
BY LenProperties, ElementOfSeq DEF TypeOK, PipeLen

LEMMA LineKept ==
    ASSUME LineTypeOK, LineNext \/ UNCHANGED envVars
    PROVE  LineTypeOK'
<1>1. ASSUME NEW b \in BOOLEAN, Opening(b) PROVE LineTypeOK'
  <2>1. epoch' \in 0 .. MaxEpoch
    BY <1>1, SubscriptionsAssumption DEF LineTypeOK, Opening
  <2> QED BY <1>1, <2>1 DEF LineTypeOK, Modes, Opening
<1>2. CASE SocketUp \/ OpeningFails \/ Authenticated
  BY <1>2 DEF LineTypeOK, Modes, SocketUp, OpeningFails, Authenticated
<1>3. CASE Replayed \/ PumpReturns \/ StopBegins
  BY <1>3 DEF LineTypeOK, Modes, Replayed, PumpReturns, StopBegins
<1>4. CASE StopIsOver \/ Lost \/ UNCHANGED envVars
  BY <1>4 DEF LineTypeOK, Modes, StopIsOver, Lost, envVars
<1> QED BY <1>1, <1>2, <1>3, <1>4 DEF LineNext

LEMMA CallTypes ==
    /\ \A c \in Calls : /\ c.op \in Ops /\ c.entry \in Entries /\ c.persist \in BOOLEAN
                        /\ c.id \in 0 .. MaxCalls
    /\ \A op \in Ops, e \in Entries, p \in BOOLEAN, n \in 0 .. MaxCalls :
            [op |-> op, entry |-> e, persist |-> p, id |-> n] \in Calls
    /\ \A n \in 0 .. MaxCalls, ok \in BOOLEAN : [id |-> n, ok |-> ok] \in Answers
    /\ \A a \in Answers : a.id \in 0 .. MaxCalls /\ a.ok \in BOOLEAN
BY DEF Calls, Answers

LEMMA UnansweredTypes ==
    ASSUME TypeOK, NEW c \in Calls, Unanswered(c)
    PROVE  maybeOn' \subseteq Entries /\ maybeOff' \subseteq Entries
BY CallTypes DEF TypeOK, Unanswered

LEMMA InitType == Init => TypeOK /\ NoDuplicates
<1> SUFFICES ASSUME Init PROVE TypeOK /\ NoDuplicates
  OBVIOUS
<1>1. LineTypeOK
  <2>1. 0 \in 0 .. MaxEpoch
    BY SubscriptionsAssumption
  <2> QED BY <2>1 DEF Init, LineInit, LineTypeOK, Modes
<1>2. \A S : <<>> \in Seq(S)
  OBVIOUS
<1>3. IsInjective(<<>>)
  BY DEF IsInjective
<1> QED
  BY <1>1, <1>2, <1>3, SubscriptionsAssumption DEF Init, TypeOK, NoDuplicates

\* What a step writes, it writes in its type.
LEMMA TypeStep ==
    ASSUME TypeOK, NoDuplicates, [Next]_vars
    PROVE  TypeOK' /\ NoDuplicates'
<1> USE DEF TypeOK, NoDuplicates
<1>1. ASSUME NEW op \in Ops, NEW e \in Entries, NEW persist \in BOOLEAN, Call(op, e, persist)
      PROVE  TypeOK' /\ NoDuplicates'
  <2>1. calls + 1 \in 0 .. MaxCalls
    BY <1>1, SubscriptionsAssumption DEF Call
  <2>2. [op |-> op, entry |-> e, persist |-> persist, id |-> calls + 1] \in Calls
    BY <2>1, CallTypes
  <2> QED
    BY <1>1, <2>1, <2>2, AppendProperties, LineKept DEF Call, Send, knowVars, envVars
<1>2. CASE Read
  <2>0. inbox' \in Seq(Answers)
    BY <1>2, HeadTailProperties DEF Read
  <2>1. ASSUME NEW i \in 1 .. Len(waiting), waiting' = RemoveAt(waiting, i),
               subs' = IF Head(inbox).ok THEN Registered(waiting[i]) ELSE subs,
               maybeOn' = IF waiting[i].op = "subscribe" /\ ~waiting[i].persist
                          THEN maybeOn \cup {waiting[i].entry} ELSE maybeOn
        PROVE  TypeOK' /\ NoDuplicates'
    <3>1. waiting[i] \in Calls /\ waiting' \in Seq(Calls)
      BY <2>1, Sizes, RemoveAtProperties
    <3>2. subs' \in Seq(Entries) /\ IsInjective(subs')
      BY <2>1, <3>1, RegisteredProperties
    <3>3. maybeOn' \subseteq Entries
      BY <2>1, <3>1, CallTypes
    <3> QED BY <1>2, <2>0, <3>1, <3>2, <3>3, LineKept DEF Read, envVars
  <2>2. CASE UNCHANGED <<waiting, subs, maybeOn>>
    BY <1>2, <2>0, <2>2, LineKept DEF Read, envVars
  <2> QED BY <1>2, <2>1, <2>2 DEF Read
<1>3. CASE TimeOut
  <2>1. Head(waiting) \in Calls /\ waiting' \in Seq(Calls)
    BY <1>3, HeadTailProperties DEF TimeOut
  <2> QED BY <1>3, <2>1, UnansweredTypes, LineKept DEF TimeOut, netVars, envVars
<1>4. CASE ReplayNext
  <2>1. Head(todo) \in Entries /\ todo' \in Seq(Entries)
    BY <1>4, HeadTailProperties DEF ReplayNext
  <2> DEFINE c == [op |-> "subscribe", entry |-> Head(todo), persist |-> FALSE, id |-> Replay]
  <2>2. c \in Calls
    BY <2>1, SubscriptionsAssumption DEF Calls, Ops, Replay
  <2>3. wire' \in Seq(Calls) /\ waiting' \in Seq(Calls)
    <3>1. Append(wire, c) \in Seq(Calls) /\ Append(waiting, c) \in Seq(Calls)
      BY <2>2, AppendProperties
    <3> QED BY <1>4, <3>1 DEF ReplayNext, Send
  <2> QED BY <1>4, <2>1, <2>3, LineKept DEF ReplayNext, knowVars, envVars
<1>5. CASE ReplayOver
  BY <1>5, LineKept DEF ReplayOver, LineNext, netVars, knowVars
<1>6. ASSUME NEW ok \in BOOLEAN, Serve(ok) PROVE TypeOK' /\ NoDuplicates'
  <2>1. Head(wire) \in Calls /\ wire' \in Seq(Calls)
    BY <1>6, HeadTailProperties DEF Serve
  <2>2. inbox' \in Seq(Answers)
    BY <1>6, <2>1, CallTypes, AppendProperties DEF Serve
  <2>3. active' \subseteq Entries /\ maybeOff' \subseteq Entries
    BY <1>6, <2>1, CallTypes DEF Serve
  <2> QED BY <1>6, <2>1, <2>2, <2>3, LineKept DEF Serve, envVars
<1>7. CASE Drop
  BY <1>7, EmptySeq, LineKept DEF Drop, LineNext, knowVars
<1>8. ASSUME NEW b \in BOOLEAN, Connect(b) PROVE TypeOK' /\ NoDuplicates'
  <2>1. ToSet(subs) \subseteq Entries
    BY LenProperties DEF ToSet
  <2> QED BY <1>8, <2>1, EmptySeq, LineKept DEF Connect, LineNext
<1>9. CASE Connected
  BY <1>9, LineKept DEF Connected, LineNext, netVars, knowVars
<1>10. CASE ConnectFails
  <2>1. ToSet(subs) \subseteq Entries
    BY LenProperties DEF ToSet
  <2> QED BY <1>10, <2>1, LineKept DEF ConnectFails, LineNext, netVars
<1>11. CASE Handshaken
  BY <1>11, EmptySeq, LineKept DEF Handshaken, LineNext, netVars, knowVars
<1>12. CASE PumpEnds
  BY <1>12, EmptySeq, LineKept DEF PumpEnds, LineNext, netVars, knowVars
<1>13. CASE StopBegin
  <2>1. waiting' \in Seq(Calls)
    BY <1>13, RemoveAtProperties DEF StopBegin
  <2> QED BY <1>13, <2>1, EmptySeq, LineKept DEF StopBegin, LineNext, netVars, knowVars
<1>14. CASE StopEnd
  BY <1>14, EmptySeq, LineKept DEF StopEnd, LineNext, knowVars
<1>15. CASE UNCHANGED vars
  BY <1>15, LineKept DEF vars, netVars, knowVars, envVars
<1> QED
  BY <1>1, <1>2, <1>3, <1>4, <1>5, <1>6, <1>7, <1>8, <1>9, <1>10, <1>11, <1>12, <1>13, <1>14,
     <1>15 DEF Next
----------------------------------------------------------------------------
(* A frame is sent. *)

LEMMA AppendAt ==
    ASSUME NEW S, NEW s \in Seq(S), NEW x \in S, NEW t, t = Append(s, x)
    PROVE  /\ t \in Seq(S) /\ Len(t) = Len(s) + 1 /\ Len(s) \in Nat
           /\ \A i \in 1 .. Len(s) : i \in 1 .. Len(t) /\ t[i] = s[i]
           /\ t[Len(s) + 1] = x
           /\ \A i \in 1 .. Len(t) : i \in 1 .. Len(s) \/ i = Len(s) + 1
BY AppendProperties, LenProperties

\* The pipe is the answers, then the frames.
LEMMA PipeParts ==
    ASSUME TypeOK
    PROVE  /\ \A k \in 1 .. Len(inbox) : k \in 1 .. PipeLen /\ Pipe[k] = inbox[k].id
           /\ \A i \in 1 .. Len(wire) : /\ Len(inbox) + i \in 1 .. PipeLen
                                      /\ Pipe[Len(inbox) + i] = wire[i].id
<1>1. ASSUME NEW k \in 1 .. Len(inbox) PROVE k \in 1 .. PipeLen /\ Pipe[k] = inbox[k].id
  BY Sizes DEF Pipe
<1>2. ASSUME NEW i \in 1 .. Len(wire)
      PROVE  Len(inbox) + i \in 1 .. PipeLen /\ Pipe[Len(inbox) + i] = wire[i].id
  <2>1. /\ Len(inbox) + i \in 1 .. PipeLen /\ ~(Len(inbox) + i <= Len(inbox))
        /\ Len(inbox) + i - Len(inbox) = i
    BY Sizes
  <2> QED BY <2>1 DEF Pipe
<1> QED BY <1>1, <1>2

LEMMA SendPipe ==
    ASSUME TypeOK, NEW c \in Calls, Send(c), UNCHANGED inbox
    PROVE  /\ PipeLen' = PipeLen + 1
           /\ \A k \in 1 .. PipeLen : Pipe'[k] = Pipe[k]
           /\ Pipe'[PipeLen + 1] = c.id
<1>1. /\ wire' = Append(wire, c) /\ wire \in Seq(Calls) /\ Len(inbox) \in Nat
      /\ Len(wire) \in Nat
  BY Sizes DEF Send, TypeOK
<1>2. /\ Len(wire') = Len(wire) + 1 /\ wire'[Len(wire) + 1] = c
      /\ \A i \in 1 .. Len(wire) : wire'[i] = wire[i]
  BY <1>1, AppendAt
<1>3. PipeLen' = PipeLen + 1
  BY <1>1, <1>2 DEF PipeLen
<1>4. /\ PipeLen \in Nat /\ PipeLen = Len(inbox) + Len(wire)
      /\ Pipe' = [k \in 1 .. PipeLen + 1 |->
                    IF k <= Len(inbox) THEN inbox[k].id ELSE wire'[k - Len(inbox)].id]
  BY <1>1, <1>3 DEF Pipe, PipeLen
<1>5. ASSUME NEW k \in 1 .. PipeLen PROVE Pipe'[k] = Pipe[k]
  <2>1. Pipe'[k] = IF k <= Len(inbox) THEN inbox[k].id ELSE wire'[k - Len(inbox)].id
    BY <1>4
  <2>2. Pipe[k] = IF k <= Len(inbox) THEN inbox[k].id ELSE wire[k - Len(inbox)].id
    BY DEF Pipe
  <2>3. k > Len(inbox) => k - Len(inbox) \in 1 .. Len(wire)
    BY <1>1, <1>4
  <2> QED BY <1>1, <1>2, <2>1, <2>2, <2>3
<1>6. Pipe'[PipeLen + 1] = c.id
  <2>1. PipeLen + 1 - Len(inbox) = Len(wire) + 1 /\ ~(PipeLen + 1 <= Len(inbox))
    BY <1>1, <1>4
  <2> QED BY <1>2, <1>4, <2>1
<1> QED BY <1>3, <1>5, <1>6

\* What waited still does, and what was on its way still is.
LEMMA SendKeeps ==
    ASSUME TypeOK, NEW c \in Calls, Send(c), UNCHANGED <<inbox, active>>,
           maybeOn \subseteq maybeOn', maybeOff \subseteq maybeOff'
    PROVE  /\ \A e, n : OnAfter(e, n) => OnAfter(e, n)'
           /\ \A e, n : maybeOn = maybeOn' /\ OffAfter(e, n) => OffAfter(e, n)'
           /\ SentIsKnown => SentIsKnown'
           /\ \A i \in 1 .. Len(waiting) : EndsBeforeReplay(i) => EndsBeforeReplay(i)'
<1>1. /\ \A i \in 1 .. Len(waiting) : i \in 1 .. Len(waiting') /\ waiting'[i] = waiting[i]
      /\ waiting'[Len(waiting) + 1] = c /\ Len(waiting') = Len(waiting) + 1
      /\ Len(waiting) \in Nat
  BY AppendAt DEF TypeOK, Send
<1>2. /\ \A i \in 1 .. Len(wire) : i \in 1 .. Len(wire') /\ wire'[i] = wire[i]
      /\ wire'[Len(wire) + 1] = c
      /\ \A i \in 1 .. Len(wire') : i \in 1 .. Len(wire) \/ i = Len(wire) + 1
  BY AppendAt DEF TypeOK, Send
<1>3. \A op, e, n : Accepted(op, e, n) => Accepted(op, e, n)'
  BY <1>1 DEF Accepted
<1>4. \A e, n : OnAfter(e, n) => OnAfter(e, n)'
  BY <1>2, <1>3 DEF OnAfter
<1>5. \A e, n : maybeOn = maybeOn' /\ OffAfter(e, n) => OffAfter(e, n)'
  BY <1>3 DEF OffAfter
<1>6. ASSUME SentIsKnown PROVE SentIsKnown'
  <2> SUFFICES ASSUME NEW i \in 1 .. Len(wire'), wire'[i].id /= Replay
               PROVE  \/ \E j \in 1 .. Len(waiting') : waiting'[j] = wire'[i]
                      \/ wire'[i].op = "subscribe" /\ wire'[i].entry \in maybeOn'
                      \/ wire'[i].op = "unsubscribe" /\ wire'[i].entry \in maybeOff'
    BY DEF SentIsKnown
  <2>1. CASE i \in 1 .. Len(wire)
    BY <1>1, <1>2, <1>6, <2>1 DEF SentIsKnown
  <2>2. CASE i = Len(wire) + 1
    <3>1. Len(waiting) + 1 \in 1 .. Len(waiting')
      BY <1>1
    <3> QED BY <1>1, <1>2, <2>2, <3>1
  <2> QED BY <1>2, <2>1, <2>2
<1>7. ASSUME NEW i \in 1 .. Len(waiting), EndsBeforeReplay(i) PROVE EndsBeforeReplay(i)'
  BY <1>1, <1>7 DEF EndsBeforeReplay
<1> QED BY <1>4, <1>5, <1>6, <1>7

LEMMA CallKeepsInv ==
    ASSUME Inv, TypeOK', NoDuplicates',
           NEW op \in Ops, NEW e \in Entries, NEW persist \in BOOLEAN, Call(op, e, persist)
    PROVE  Inv'
<1> DEFINE c == [op |-> op, entry |-> e, persist |-> persist, id |-> calls + 1]
<1>0. TypeOK /\ open /\ calls \in Nat /\ calls' = calls + 1
  BY DEF Inv, TypeOK, Call
<1>1. c \in Calls /\ Send(c) /\ c.id = calls + 1 /\ c.id /= Replay
  <2>1. calls + 1 \in 0 .. MaxCalls
    BY <1>0, SubscriptionsAssumption DEF Call
  <2> QED BY <1>0, <2>1 DEF Calls, Call, Replay
<1> HIDE DEF c
<1>2. UNCHANGED <<mode, first, open, epoch, subs, todo, active, inbox, maybeOn, maybeOff>>
  BY DEF Call, envVars, knowVars
<1>3. /\ PipeLen' = PipeLen + 1 /\ PipeLen \in Nat
      /\ \A k \in 1 .. PipeLen : Pipe'[k] = Pipe[k]
      /\ Pipe'[PipeLen + 1] = c.id
  BY <1>0, <1>1, <1>2, SendPipe, Sizes
<1>4. /\ \A i \in 1 .. Len(waiting) : i \in 1 .. Len(waiting') /\ waiting'[i] = waiting[i]
      /\ waiting'[Len(waiting) + 1] = c /\ Len(waiting') = Len(waiting) + 1
      /\ Len(waiting) \in Nat
      /\ \A i \in 1 .. Len(waiting') : i \in 1 .. Len(waiting) \/ i = Len(waiting) + 1
  BY <1>0, <1>1, AppendAt DEF TypeOK, Send
<1>5. /\ \A i \in 1 .. Len(wire) : i \in 1 .. Len(wire') /\ wire'[i] = wire[i]
      /\ wire'[Len(wire) + 1] = c
      /\ \A i \in 1 .. Len(wire') : i \in 1 .. Len(wire) \/ i = Len(wire) + 1
  BY <1>0, <1>1, AppendAt DEF TypeOK, Send
<1>6. /\ \A k \in 1 .. PipeLen : Pipe[k] \in 0 .. calls
      /\ \A i \in 1 .. Len(waiting) : waiting[i].id \in 0 .. calls
      /\ \A k \in 1 .. Len(inbox) : inbox[k].id \in 0 .. calls
  BY <1>0, PipeParts DEF Inv, InOrder
<1>16. SameNumber'
  <2>1. \A j \in 1 .. Len(wire) : wire[j].id \in 0 .. calls
    BY <1>0, PipeParts DEF Inv, InOrder
  <2> SUFFICES ASSUME NEW i \in 1 .. Len(waiting'), NEW j \in 1 .. Len(wire'),
                      waiting'[i].id = wire'[j].id, wire'[j].id /= Replay
               PROVE  waiting'[i] = wire'[j]
    BY DEF SameNumber
  <2>2. CASE i \in 1 .. Len(waiting) /\ j \in 1 .. Len(wire)
    BY <1>4, <1>5, <2>2 DEF Inv, SameNumber
  <2>3. CASE i = Len(waiting) + 1 /\ j = Len(wire) + 1
    BY <1>4, <1>5, <2>3
  <2>4. CASE i \in 1 .. Len(waiting) /\ j = Len(wire) + 1
    BY <1>0, <1>1, <1>4, <1>5, <1>6, <2>4
  <2>5. CASE i = Len(waiting) + 1 /\ j \in 1 .. Len(wire)
    BY <1>0, <1>1, <1>4, <1>5, <2>1, <2>5
  <2> QED BY <1>4, <1>5, <2>2, <2>3, <2>4, <2>5
<1>7. Quiet'
  BY <1>0, <1>2 DEF Inv, Quiet
<1>8. ReplayCalls'
  BY <1>1, <1>2, <1>4, <1>5 DEF Inv, ReplayCalls, Replaying
<1>9. InOrder'
  <2>1. \A i \in 1 .. PipeLen' : i \in 1 .. PipeLen \/ i = PipeLen + 1
    BY <1>3
  <2>2. ASSUME NEW i \in 1 .. PipeLen', NEW j \in 1 .. PipeLen', i < j,
               Pipe'[i] /= Replay, Pipe'[j] /= Replay
        PROVE  Pipe'[i] < Pipe'[j]
    BY <1>0, <1>1, <1>3, <1>6, <2>1, <2>2 DEF Inv, InOrder
  <2>3. ASSUME NEW i \in 1 .. Len(waiting'), NEW j \in 1 .. Len(waiting'), i < j,
               waiting'[i].id /= Replay, waiting'[j].id /= Replay
        PROVE  waiting'[i].id < waiting'[j].id
    BY <1>0, <1>1, <1>4, <1>6, <2>3 DEF Inv, InOrder
  <2>4. \A i \in 1 .. PipeLen' : Pipe'[i] \in 0 .. calls'
    BY <1>0, <1>1, <1>3, <1>6, <2>1
  <2>5. \A i \in 1 .. Len(waiting') : waiting'[i].id \in 0 .. calls'
    BY <1>0, <1>1, <1>4, <1>6
  <2> QED BY <2>2, <2>3, <2>4, <2>5 DEF InOrder
<1>10. ReplayOutlasts'
  <2> SUFFICES ASSUME mode' /= "stopping", NEW i \in 1 .. Len(waiting'),
                      NEW k \in 1 .. PipeLen', NEW l \in 1 .. PipeLen',
                      waiting'[i].id /= Replay, Pipe'[k] = waiting'[i].id,
                      k < l, Pipe'[l] = Replay
               PROVE  \E j \in i + 1 .. Len(waiting') : waiting'[j].id = Replay
    BY DEF ReplayOutlasts
  <2>1. l \in 1 .. PipeLen /\ k \in 1 .. PipeLen
    BY <1>1, <1>3
  <2>2. Pipe'[k] = Pipe[k] /\ Pipe'[l] = Pipe[l]
    BY <1>3, <2>1
  <2>3. i \in 1 .. Len(waiting)
    <3>1. Pipe[k] \in 0 .. calls /\ Pipe[k] = waiting'[i].id
      BY <1>6, <2>1, <2>2
    <3>2. i /= Len(waiting) + 1
      BY <1>0, <1>1, <1>4, <3>1
    <3> QED BY <1>4, <3>2
  <2>4. PICK j \in i + 1 .. Len(waiting) : waiting[j].id = Replay
    BY <1>2, <1>4, <2>1, <2>2, <2>3 DEF Inv, ReplayOutlasts
  <2> QED BY <1>4, <2>3, <2>4
<1>11. SentIsKnown'
  BY <1>0, <1>1, <1>2, SendKeeps DEF Inv
<1>12. /\ \A d, n : OnAfter(d, n) => OnAfter(d, n)'
       /\ \A d, n : OffAfter(d, n) => OffAfter(d, n)'
       /\ \A i \in 1 .. Len(waiting) : EndsBeforeReplay(i) => EndsBeforeReplay(i)'
  BY <1>0, <1>1, <1>2, SendKeeps
<1>13. ASSUME NEW i \in 1 .. Len(waiting'), NEW k \in 1 .. Len(inbox'),
              inbox'[k].id = waiting'[i].id
       PROVE  i \in 1 .. Len(waiting) /\ waiting'[i] = waiting[i]
  BY <1>0, <1>1, <1>2, <1>4, <1>6, <1>13
<1>14. RecordedIsOn'
  BY <1>2, <1>12, <1>13 DEF Inv, RecordedIsOn, Live
<1>15. UnrecordedIsOff'
  BY <1>1, <1>2, <1>5, <1>12, <1>13 DEF Inv, UnrecordedIsOff, Live
<1> QED BY <1>7, <1>8, <1>9, <1>10, <1>11, <1>14, <1>15, <1>16 DEF Inv

LEMMA ReplayNextKeepsInv ==
    ASSUME Inv, TypeOK', NoDuplicates', ReplayNext
    PROVE  Inv'
<1> DEFINE c == [op |-> "subscribe", entry |-> Head(todo), persist |-> FALSE, id |-> Replay]
<1>0. /\ TypeOK /\ mode = "replay" /\ ~Replaying
      /\ UNCHANGED <<mode, first, open, epoch, subs, calls, active, inbox, maybeOn, maybeOff>>
  BY DEF Inv, ReplayNext, envVars, knowVars
<1>1. /\ Head(todo) \in Entries /\ Head(todo) \in ToSet(todo)
      /\ \A e \in ToSet(todo') : e \in ToSet(todo)
      /\ \A e \in ToSet(todo) : e = Head(todo) \/ e \in ToSet(todo')
  <2>1. /\ todo \in Seq(Entries) /\ todo /= <<>> /\ todo' = Tail(todo)
        /\ Len(todo) \in Nat \ {0} /\ Head(todo) = todo[1]
    BY <1>0, EmptySeq DEF TypeOK, ReplayNext
  <2>2. /\ Head(todo) \in Entries /\ todo' \in Seq(Entries) /\ Len(todo') = Len(todo) - 1
        /\ \A i \in 1 .. Len(todo') : todo'[i] = todo[i + 1]
    BY <2>1, HeadTailProperties
  <2>3. ASSUME NEW i \in 1 .. Len(todo) PROVE i = 1 \/ \E j \in 1 .. Len(todo') : todo'[j] = todo[i]
    <3>1. i = 1 \/ (i - 1 \in 1 .. Len(todo') /\ i - 1 + 1 = i)
      BY <2>1, <2>2
    <3> QED BY <2>2, <3>1
  <2>4. DOMAIN todo = 1 .. Len(todo) /\ DOMAIN todo' = 1 .. Len(todo')
    BY <2>1, <2>2, LenProperties
  <2>5. ToSet(todo) = {todo[i] : i \in 1 .. Len(todo)} /\ ToSet(todo') = {todo'[i] : i \in 1 .. Len(todo')}
    BY <2>4 DEF ToSet
  <2>6. Head(todo) \in ToSet(todo)
    BY <2>1, <2>5
  <2>7. \A e \in ToSet(todo') : e \in ToSet(todo)
    <3>1. \A i \in 1 .. Len(todo') : i + 1 \in 1 .. Len(todo)
      BY <2>1, <2>2
    <3> QED BY <2>2, <2>5, <3>1
  <2>8. ASSUME NEW e \in ToSet(todo) PROVE e = Head(todo) \/ e \in ToSet(todo')
    <3>1. PICK i \in 1 .. Len(todo) : e = todo[i]
      BY <2>5
    <3> QED BY <2>1, <2>3, <2>5, <3>1
  <2> QED BY <2>2, <2>6, <2>7, <2>8
<1>2. CASE ~open
  <2>1. UNCHANGED <<wire, waiting>>
    BY <1>2 DEF ReplayNext
  <2>2. Pipe' = Pipe /\ PipeLen' = PipeLen
    BY <1>0, <2>1 DEF Pipe, PipeLen
  <2>3. Quiet' /\ ReplayCalls'
    BY <1>0, <2>1 DEF Inv, Quiet, ReplayCalls, Replaying
  <2>4. InOrder' /\ ReplayOutlasts' /\ SentIsKnown' /\ SameNumber'
    BY <1>0, <2>1, <2>2 DEF Inv, InOrder, ReplayOutlasts, SentIsKnown, SameNumber
  <2> QED BY <1>0, <1>2, <2>3, <2>4 DEF Inv, RecordedIsOn, UnrecordedIsOff, Live
<1>3. CASE open
  <2>1. c \in Calls /\ Send(c) /\ c.id = Replay /\ c.op = "subscribe" /\ c.entry = Head(todo)
    BY <1>1, <1>3, SubscriptionsAssumption DEF Calls, Ops, Replay, ReplayNext
  <2> HIDE DEF c
  <2>2. /\ PipeLen' = PipeLen + 1 /\ PipeLen \in Nat
        /\ \A k \in 1 .. PipeLen : Pipe'[k] = Pipe[k]
        /\ Pipe'[PipeLen + 1] = c.id
    BY <1>0, <2>1, SendPipe, Sizes
  <2>3. /\ \A i \in 1 .. Len(waiting) : i \in 1 .. Len(waiting') /\ waiting'[i] = waiting[i]
        /\ waiting'[Len(waiting) + 1] = c /\ Len(waiting') = Len(waiting) + 1
        /\ Len(waiting) \in Nat
        /\ \A i \in 1 .. Len(waiting') : i \in 1 .. Len(waiting) \/ i = Len(waiting) + 1
    BY <1>0, <2>1, AppendAt DEF TypeOK, Send
  <2>4. /\ \A i \in 1 .. Len(wire) : i \in 1 .. Len(wire') /\ wire'[i] = wire[i]
        /\ wire'[Len(wire) + 1] = c /\ Len(wire') = Len(wire) + 1 /\ Len(wire) \in Nat
        /\ \A i \in 1 .. Len(wire') : i \in 1 .. Len(wire) \/ i = Len(wire) + 1
    BY <1>0, <2>1, AppendAt DEF TypeOK, Send
  <2>5. Quiet'
    BY <1>0, <1>3 DEF Inv, Quiet
  <2>6. ReplayCalls'
    BY <1>0, <2>1, <2>3, <2>4 DEF Inv, ReplayCalls, Replaying
  <2>7. InOrder'
    <3>1. \A i \in 1 .. PipeLen' : i \in 1 .. PipeLen \/ i = PipeLen + 1
      BY <2>2
    <3>2. 0 \in 0 .. calls /\ calls' = calls
      BY <1>0 DEF TypeOK
    <3>3. ASSUME NEW i \in 1 .. PipeLen', NEW j \in 1 .. PipeLen', i < j,
                 Pipe'[i] /= Replay, Pipe'[j] /= Replay
          PROVE  Pipe'[i] < Pipe'[j]
      <4>1. i \in 1 .. PipeLen /\ j \in 1 .. PipeLen
        BY <2>1, <2>2, <3>1, <3>3
      <4> QED BY <2>2, <3>3, <4>1 DEF Inv, InOrder
    <3>4. ASSUME NEW i \in 1 .. Len(waiting'), NEW j \in 1 .. Len(waiting'), i < j,
                 waiting'[i].id /= Replay, waiting'[j].id /= Replay
          PROVE  waiting'[i].id < waiting'[j].id
      <4>1. i \in 1 .. Len(waiting) /\ j \in 1 .. Len(waiting)
        BY <2>1, <2>3, <3>4
      <4> QED BY <2>3, <3>4, <4>1 DEF Inv, InOrder
    <3>5. \A i \in 1 .. PipeLen' : Pipe'[i] \in 0 .. calls'
      BY <2>1, <2>2, <3>1, <3>2 DEF Inv, InOrder, Replay
    <3>6. \A i \in 1 .. Len(waiting') : waiting'[i].id \in 0 .. calls'
      BY <2>1, <2>3, <3>2 DEF Inv, InOrder, Replay
    <3> QED BY <3>3, <3>4, <3>5, <3>6 DEF InOrder
  <2>8. ReplayOutlasts'
    <3> SUFFICES ASSUME NEW i \in 1 .. Len(waiting'), waiting'[i].id /= Replay
                 PROVE  \E j \in i + 1 .. Len(waiting') : waiting'[j].id = Replay
      BY DEF ReplayOutlasts
    <3>1. Len(waiting) + 1 \in i + 1 .. Len(waiting')
      BY <2>1, <2>3
    <3> QED BY <2>1, <2>3, <3>1
  <2>9. SentIsKnown'
    BY <1>0, <2>1, SendKeeps DEF Inv
  <2>10. SameNumber'
    BY <2>1, <2>3, <2>4 DEF Inv, SameNumber
  <2>11. /\ \A d, n : OnAfter(d, n) => OnAfter(d, n)'
         /\ \A d, n : OffAfter(d, n) => OffAfter(d, n)'
         /\ \A i \in 1 .. Len(waiting) : EndsBeforeReplay(i) => EndsBeforeReplay(i)'
    BY <1>0, <2>1, SendKeeps
  <2>12. \A d : d = Head(todo) => OnAfter(d, 0)'
    <3>1. Len(wire) + 1 \in 1 .. Len(wire')
      BY <2>4
    <3> QED BY <2>1, <2>4, <3>1 DEF OnAfter
  <2>13. Live /\ Contains(subs, Head(todo))
    BY <1>0, <1>1, <1>3 DEF Inv, UnrecordedIsOff, Live
  <2>14. RecordedIsOn'
    <3>1. \A e \in ToSet(subs') : e \in ToSet(todo') \/ OnAfter(e, 0)'
      BY <1>0, <1>1, <2>11, <2>12, <2>13 DEF Inv, RecordedIsOn
    <3>2. ASSUME NEW i \in 1 .. Len(waiting'), NEW k \in 1 .. Len(inbox'),
                 waiting'[i].op = "subscribe", waiting'[i].persist, waiting'[i].id /= Replay,
                 inbox'[k].id = waiting'[i].id, inbox'[k].ok
          PROVE  OnAfter(waiting[i].entry, waiting[i].id)' 
      <4>1. i \in 1 .. Len(waiting) /\ waiting'[i] = waiting[i]
        BY <2>1, <2>3, <3>2
      <4>2. OnAfter(waiting[i].entry, waiting[i].id)
        BY <1>0, <2>13, <3>2, <4>1 DEF Inv, RecordedIsOn
      <4>3. \A d, n : d = waiting[i].entry /\ n = waiting[i].id => OnAfter(d, n)'
        BY <2>11, <4>2
      <4> QED BY <4>1, <4>3
    <3> QED BY <3>1, <3>2 DEF RecordedIsOn
  <2>15. UnrecordedIsOff'
    BY <1>0, <1>1, <2>1, <2>3, <2>4, <2>11, <2>13 DEF Inv, UnrecordedIsOff
  <2> QED BY <2>5, <2>6, <2>7, <2>8, <2>9, <2>10, <2>14, <2>15 DEF Inv
<1> QED BY <1>2, <1>3
----------------------------------------------------------------------------
(* A call ends, answered or not: the one at r stops waiting. *)

\* The sequence without what was at r.
Removed(s, r, t) ==
    /\ Len(t) = Len(s) - 1
    /\ \A j \in 1 .. Len(t) : t[j] = s[IF j < r THEN j ELSE j + 1]

LEMMA RemovedAt ==
    ASSUME TypeOK, NEW r \in 1 .. Len(waiting), Removed(waiting, r, waiting')
    PROVE  /\ \A i \in 1 .. Len(waiting') :
                \E j \in 1 .. Len(waiting) : j /= r /\ j >= i /\ waiting'[i] = waiting[j]
           /\ \A j \in 1 .. Len(waiting) :
                j /= r => \E i \in 1 .. Len(waiting') : waiting'[i] = waiting[j]
           /\ \A i \in 1 .. Len(waiting') :
                IF i < r THEN waiting'[i] = waiting[i]
                ELSE i + 1 \in 1 .. Len(waiting) /\ waiting'[i] = waiting[i + 1]
           /\ Len(waiting') \in Nat /\ Len(waiting') = Len(waiting) - 1 /\ Len(waiting) \in Nat
<1>1. Len(waiting') \in Nat /\ Len(waiting') = Len(waiting) - 1 /\ Len(waiting) \in Nat
  BY Sizes DEF Removed
<1>2. \A i \in 1 .. Len(waiting') :
        IF i < r THEN waiting'[i] = waiting[i]
        ELSE i + 1 \in 1 .. Len(waiting) /\ waiting'[i] = waiting[i + 1]
  BY <1>1 DEF Removed
<1>3. ASSUME NEW i \in 1 .. Len(waiting')
      PROVE  \E j \in 1 .. Len(waiting) : j /= r /\ j >= i /\ waiting'[i] = waiting[j]
  <2>1. CASE i < r
    <3>1. i \in 1 .. Len(waiting) /\ i /= r /\ i >= i
      BY <1>1, <2>1
    <3> QED BY <1>2, <2>1, <3>1
  <2>2. CASE ~(i < r)
    <3>1. i + 1 \in 1 .. Len(waiting) /\ i + 1 /= r /\ i + 1 >= i
      BY <1>1, <2>2
    <3> QED BY <1>2, <2>2, <3>1
  <2> QED BY <2>1, <2>2
<1>4. ASSUME NEW j \in 1 .. Len(waiting), j /= r
      PROVE  \E i \in 1 .. Len(waiting') : waiting'[i] = waiting[j]
  <2>1. CASE j < r
    <3>1. j \in 1 .. Len(waiting')
      BY <1>1, <2>1
    <3> QED BY <1>2, <2>1, <3>1
  <2>2. CASE j > r
    <3>1. j - 1 \in 1 .. Len(waiting') /\ ~(j - 1 < r) /\ j - 1 + 1 = j
      BY <1>1, <2>2
    <3> QED BY <1>2, <3>1
  <2> QED BY <1>4, <2>1, <2>2
<1>5. \A i \in 1 .. Len(waiting') :
        \E j \in 1 .. Len(waiting) : j /= r /\ j >= i /\ waiting'[i] = waiting[j]
  BY <1>3
<1>6. \A j \in 1 .. Len(waiting) :
        j /= r => \E i \in 1 .. Len(waiting') : waiting'[i] = waiting[j]
  BY <1>4
<1> QED BY ONLY <1>1, <1>2, <1>5, <1>6, Zenon

LEMMA TailRemoves ==
    ASSUME NEW S, NEW s \in Seq(S), s /= <<>>, NEW t, t = Tail(s)
    PROVE  Removed(s, 1, t) /\ 1 \in 1 .. Len(s) /\ s[1] = Head(s) /\ Len(s) \in Nat
<1>1. Len(s) \in Nat \ {0} /\ Head(s) = s[1]
  BY EmptySeq, LenProperties
<1>2. Len(t) = Len(s) - 1 /\ \A i \in 1 .. Len(t) : t[i] = s[i + 1]
  BY <1>1, HeadTailProperties
<1> QED BY <1>1, <1>2 DEF Removed

\* What the end of a call leaves of the order of the calls.
LEMMA EndKeepsOrder ==
    ASSUME Inv, NEW r \in 1 .. Len(waiting), Removed(waiting, r, waiting'),
           UNCHANGED <<calls>>
    PROVE  /\ \A i, j \in 1 .. Len(waiting') :
                i < j /\ waiting'[i].id /= Replay /\ waiting'[j].id /= Replay
                => waiting'[i].id < waiting'[j].id
           /\ \A i \in 1 .. Len(waiting') : waiting'[i].id \in 0 .. calls'
           /\ \A i \in 1 .. Len(waiting') : waiting'[i].id = Replay => waiting'[i].op = "subscribe"
           /\ \A i, j \in 1 .. Len(waiting') :
                waiting'[i].id = Replay /\ waiting'[j].id = Replay => i = j
           /\ Replaying' => Replaying
<1>1. TypeOK
  BY DEF Inv
<1>2. ASSUME NEW i \in 1 .. Len(waiting'), NEW j \in 1 .. Len(waiting'), i < j
      PROVE  \E k, l \in 1 .. Len(waiting) :
                k < l /\ waiting'[i] = waiting[k] /\ waiting'[j] = waiting[l]
  <2>1. /\ \A x \in 1 .. Len(waiting') :
                IF x < r THEN waiting'[x] = waiting[x]
                ELSE x + 1 \in 1 .. Len(waiting) /\ waiting'[x] = waiting[x + 1]
        /\ Len(waiting') \in Nat /\ Len(waiting') = Len(waiting) - 1 /\ Len(waiting) \in Nat
    BY <1>1, RemovedAt
  <2>5. i \in 1 .. Len(waiting) /\ j \in 1 .. Len(waiting)
    BY <2>1
  <2>2. CASE i < r /\ j < r
    <3>1. waiting'[i] = waiting[i] /\ waiting'[j] = waiting[j]
      BY <2>1, <2>2
    <3> QED BY <1>2, <2>5, <3>1
  <2>3. CASE i < r /\ ~(j < r)
    <3>1. /\ waiting'[i] = waiting[i] /\ waiting'[j] = waiting[j + 1]
          /\ j + 1 \in 1 .. Len(waiting) /\ i < j + 1
      BY <1>2, <2>1, <2>3
    <3> QED BY <2>5, <3>1
  <2>4. CASE ~(i < r) /\ ~(j < r)
    BY <1>2, <2>1, <2>4
  <2> QED BY <1>2, <2>2, <2>3, <2>4
<1>3. ASSUME NEW i \in 1 .. Len(waiting'), NEW j \in 1 .. Len(waiting'), i < j,
             waiting'[i].id /= Replay, waiting'[j].id /= Replay
      PROVE  waiting'[i].id < waiting'[j].id
  <2>1. PICK k \in 1 .. Len(waiting), l \in 1 .. Len(waiting) :
            k < l /\ waiting'[i] = waiting[k] /\ waiting'[j] = waiting[l]
    BY <1>2, <1>3
  <2> QED BY <1>3, <2>1 DEF Inv, InOrder
<1>4. \A i \in 1 .. Len(waiting') : waiting'[i].id \in 0 .. calls'
  BY <1>1, RemovedAt DEF Inv, InOrder
<1>5. \A i \in 1 .. Len(waiting') : waiting'[i].id = Replay => waiting'[i].op = "subscribe"
  BY <1>1, RemovedAt DEF Inv, ReplayCalls
<1>6. ASSUME NEW i \in 1 .. Len(waiting'), NEW j \in 1 .. Len(waiting'),
             waiting'[i].id = Replay, waiting'[j].id = Replay, i /= j
      PROVE  FALSE
  <2>1. PICK k \in 1 .. Len(waiting), l \in 1 .. Len(waiting) :
            k /= l /\ waiting'[i] = waiting[k] /\ waiting'[j] = waiting[l]
    <3>1. i < j \/ j < i
      BY <1>1, <1>6, RemovedAt
    <3>2. CASE i < j
      BY <1>2, <1>1, <3>2, RemovedAt
    <3>3. CASE j < i
      BY <1>2, <1>1, <3>3, RemovedAt
    <3> QED BY <3>1, <3>2, <3>3
  <2>2. waiting[k].id = Replay /\ waiting[l].id = Replay
    BY <1>6, <2>1
  <2> QED BY <2>1, <2>2 DEF Inv, ReplayCalls
<1>7. ASSUME NEW i \in 1 .. Len(waiting'), waiting'[i].id = Replay PROVE Replaying
  <2>1. PICK j \in 1 .. Len(waiting) : waiting'[i] = waiting[j]
    BY <1>1, RemovedAt
  <2> QED BY <1>7, <2>1 DEF Replaying
<1> QED BY <1>3, <1>4, <1>5, <1>6, <1>7 DEF Replaying

LEMMA TimeOutKeepsInv ==
    ASSUME Inv, TypeOK', NoDuplicates', TimeOut
    PROVE  Inv'
<1> DEFINE c == waiting[1]
<1>0. /\ TypeOK /\ waiting /= <<>> /\ Unanswered(c) /\ c \in Calls
      /\ UNCHANGED <<mode, first, open, epoch, subs, todo, calls, wire, active, inbox>>
  <2>1. waiting /= <<>> /\ Head(waiting) = c /\ c \in Calls /\ TypeOK
    BY TailRemoves, Sizes DEF Inv, TypeOK, TimeOut
  <2> QED BY <2>1 DEF TimeOut, envVars, netVars
<1>1. 1 \in 1 .. Len(waiting) /\ Removed(waiting, 1, waiting')
  BY <1>0, TailRemoves DEF TypeOK, TimeOut
<1>2. /\ \A i \in 1 .. Len(waiting') : i + 1 \in 1 .. Len(waiting) /\ waiting'[i] = waiting[i + 1]
      /\ Len(waiting') \in Nat /\ Len(waiting') = Len(waiting) - 1 /\ Len(waiting) \in Nat
  BY <1>0, <1>1, RemovedAt
<1>3. \A j \in 1 .. Len(waiting) :
        j = 1 \/ \E i \in 1 .. Len(waiting') : waiting'[i] = waiting[j]
  BY <1>0, <1>1, RemovedAt
<1>4. /\ maybeOn \subseteq maybeOn' /\ maybeOff \subseteq maybeOff'
      /\ c.op = "subscribe" /\ c.id /= Replay => c.entry \in maybeOn'
      /\ c.op = "unsubscribe" => c.entry \in maybeOff'
      /\ c.op \in {"subscribe", "unsubscribe"}
  BY <1>0, CallTypes DEF Unanswered, Ops
<1> HIDE DEF c
<1>5. Pipe' = Pipe /\ PipeLen' = PipeLen
  BY <1>0 DEF Pipe, PipeLen
<1>6. Quiet'
  BY <1>0, <1>4 DEF Inv, Quiet
<1>7. ReplayCalls' /\ InOrder'
  BY <1>0, <1>1, <1>5, EndKeepsOrder DEF Inv, ReplayCalls, InOrder
<1>8. ASSUME NEW i \in 1 .. Len(waiting'), EndsBeforeReplay(i + 1) PROVE EndsBeforeReplay(i)'
  <2>1. PICK j \in i + 1 + 1 .. Len(waiting) : waiting[j].id = Replay
    BY <1>8 DEF EndsBeforeReplay
  <2>2. j - 1 \in i + 1 .. Len(waiting') /\ j - 1 \in 1 .. Len(waiting') /\ j - 1 + 1 = j
    BY <1>2, <2>1
  <2>3. waiting'[j - 1].id = Replay
    BY <1>2, <2>1, <2>2
  <2> QED BY <2>2, <2>3 DEF EndsBeforeReplay
<1>9. ReplayOutlasts'
  <2> SUFFICES ASSUME mode' /= "stopping", NEW i \in 1 .. Len(waiting'),
                      NEW k \in 1 .. PipeLen', NEW l \in 1 .. PipeLen',
                      waiting'[i].id /= Replay, Pipe'[k] = waiting'[i].id,
                      k < l, Pipe'[l] = Replay
               PROVE  EndsBeforeReplay(i)'
    BY DEF ReplayOutlasts, EndsBeforeReplay
  <2>1. EndsBeforeReplay(i + 1)
    BY <1>0, <1>2, <1>5 DEF Inv, ReplayOutlasts, EndsBeforeReplay
  <2> QED BY <1>8, <2>1
<1>10. SentIsKnown'
  <2> SUFFICES ASSUME NEW i \in 1 .. Len(wire), wire[i].id /= Replay
               PROVE  \/ \E j \in 1 .. Len(waiting') : waiting'[j] = wire[i]
                      \/ wire[i].op = "subscribe" /\ wire[i].entry \in maybeOn'
                      \/ wire[i].op = "unsubscribe" /\ wire[i].entry \in maybeOff'
    BY <1>0 DEF SentIsKnown
  <2>1. CASE \E j \in 1 .. Len(waiting) : waiting[j] = wire[i]
    BY <1>3, <1>4, <2>1 DEF c
  <2>2. CASE ~ \E j \in 1 .. Len(waiting) : waiting[j] = wire[i]
    BY <1>4, <2>2 DEF Inv, SentIsKnown
  <2> QED BY <2>1, <2>2
<1>11. SameNumber'
  BY <1>0, <1>2 DEF Inv, SameNumber
<1>12. ASSUME NEW e, NEW n, OnAfter(e, n) PROVE OnAfter(e, n)'
  <2>1. CASE Accepted("unsubscribe", e, n)
    <3>1. PICK i \in 1 .. Len(waiting), k \in 1 .. Len(inbox) :
            /\ waiting[i].op = "unsubscribe" /\ waiting[i].entry = e
            /\ waiting[i].id = inbox[k].id /\ inbox[k].ok /\ inbox[k].id > n
      BY <2>1 DEF Accepted
    <3>2. CASE i = 1
      BY <1>4, <3>1, <3>2 DEF c, OnAfter
    <3>3. CASE i /= 1
      BY <1>0, <1>3, <3>1, <3>3 DEF OnAfter, Accepted
    <3> QED BY <3>2, <3>3
  <2>2. CASE ~Accepted("unsubscribe", e, n)
    BY <1>0, <1>4, <1>12, <2>2 DEF OnAfter
  <2> QED BY <2>1, <2>2
<1>13. ASSUME NEW e, NEW n \in Nat, OffAfter(e, n) PROVE OffAfter(e, n)'
  <2>1. CASE Accepted("subscribe", e, n)
    <3>1. PICK i \in 1 .. Len(waiting), k \in 1 .. Len(inbox) :
            /\ waiting[i].op = "subscribe" /\ waiting[i].entry = e
            /\ waiting[i].id = inbox[k].id /\ inbox[k].ok /\ inbox[k].id > n
      BY <2>1 DEF Accepted
    <3>2. CASE i = 1
      <4>1. waiting[i].id /= Replay
        BY <3>1 DEF Replay
      <4> QED BY <1>4, <3>1, <3>2, <4>1 DEF c, OffAfter
    <3>3. CASE i /= 1
      BY <1>0, <1>3, <3>1, <3>3 DEF OffAfter, Accepted
    <3> QED BY <3>2, <3>3
  <2>2. CASE ~Accepted("subscribe", e, n)
    BY <1>0, <1>4, <1>13, <2>2 DEF OffAfter
  <2> QED BY <2>1, <2>2
<1>14. RecordedIsOn'
  <2> SUFFICES ASSUME Live PROVE RecordedIsOn'
    BY <1>0 DEF RecordedIsOn, Live
  <2>1. \A e \in ToSet(subs') : e \in ToSet(todo') \/ OnAfter(e, 0)'
    BY <1>0, <1>12 DEF Inv, RecordedIsOn
  <2>2. ASSUME NEW i \in 1 .. Len(waiting'), NEW k \in 1 .. Len(inbox'),
               waiting'[i].op = "subscribe", waiting'[i].persist, waiting'[i].id /= Replay,
               inbox'[k].id = waiting'[i].id, inbox'[k].ok
        PROVE  \A e, n : e = waiting'[i].entry /\ n = waiting'[i].id => OnAfter(e, n)'
    <3>1. OnAfter(waiting[i + 1].entry, waiting[i + 1].id)
      BY <1>0, <1>2, <2>2 DEF Inv, RecordedIsOn
    <3> QED BY <1>2, <1>12, <3>1
  <2> QED BY <2>1, <2>2 DEF RecordedIsOn
<1>15. UnrecordedIsOff'
  <2> SUFFICES ASSUME Live PROVE UnrecordedIsOff'
    BY <1>0 DEF UnrecordedIsOff, Live
  <2>1. \A e \in Entries : Contains(subs', e) \/ OffAfter(e, 0)'
    BY <1>0, <1>13 DEF Inv, UnrecordedIsOff
  <2>2. ASSUME NEW i \in 1 .. Len(waiting'), NEW k \in 1 .. Len(inbox'),
               waiting'[i].op = "unsubscribe",
               inbox'[k].id = waiting'[i].id, inbox'[k].ok
        PROVE  \/ \A e, n : e = waiting'[i].entry /\ n = waiting'[i].id => OffAfter(e, n)'
               \/ EndsBeforeReplay(i)'
    <3>1. OffAfter(waiting[i + 1].entry, waiting[i + 1].id) \/ EndsBeforeReplay(i + 1)
      BY <1>0, <1>2, <2>2 DEF Inv, UnrecordedIsOff
    <3>2. waiting[i + 1].id \in Nat
      BY <1>0, <1>2, Sizes, CallTypes
    <3> QED BY <1>2, <1>8, <1>13, <3>1, <3>2
  <2> QED BY <1>0, <2>1, <2>2 DEF Inv, UnrecordedIsOff
<1> QED BY <1>6, <1>7, <1>9, <1>10, <1>11, <1>14, <1>15 DEF Inv
----------------------------------------------------------------------------
(* An answer is read. *)

\* The call at r is the one that is answered.
Answered(r) == r \in 1 .. Len(waiting) /\ waiting[r].id = inbox[1].id

\* The head of the pipe is gone, and with it the call that it answers.
LEMMA ReadPipe ==
    ASSUME TypeOK, Read
    PROVE  /\ UNCHANGED <<mode, first, open, epoch, todo, calls, wire, active, maybeOff>>
           /\ mode = "pump" /\ Head(inbox) = inbox[1] /\ inbox[1] \in Answers
           /\ 1 \in 1 .. Len(inbox)
           /\ \A k \in 1 .. Len(inbox') : k + 1 \in 1 .. Len(inbox) /\ inbox'[k] = inbox[k + 1]
           /\ \A k \in 1 .. Len(inbox) :
                k = 1 \/ (k - 1 \in 1 .. Len(inbox') /\ inbox'[k - 1] = inbox[k])
           /\ \A k \in 1 .. PipeLen' : k + 1 \in 1 .. PipeLen /\ Pipe'[k] = Pipe[k + 1]
<1>0. /\ UNCHANGED <<mode, first, open, epoch, todo, calls, wire, active, maybeOff>>
      /\ mode = "pump" /\ inbox \in Seq(Answers) /\ inbox /= <<>> /\ inbox' = Tail(inbox)
  BY DEF Read, envVars, TypeOK
<1>1. /\ Removed(inbox, 1, inbox') /\ 1 \in 1 .. Len(inbox) /\ Head(inbox) = inbox[1]
      /\ Len(inbox) \in Nat /\ inbox[1] \in Answers
  BY <1>0, TailRemoves, Sizes
<1>2. /\ Len(inbox') = Len(inbox) - 1
      /\ \A k \in 1 .. Len(inbox') : k + 1 \in 1 .. Len(inbox) /\ inbox'[k] = inbox[k + 1]
  BY <1>1 DEF Removed
<1>3. ASSUME NEW k \in 1 .. Len(inbox), k /= 1
      PROVE  k - 1 \in 1 .. Len(inbox') /\ inbox'[k - 1] = inbox[k]
  <2>1. k - 1 \in 1 .. Len(inbox') /\ k - 1 + 1 = k
    BY <1>1, <1>2, <1>3
  <2> QED BY <1>2, <2>1
<1>4. ASSUME NEW k \in 1 .. PipeLen' PROVE k + 1 \in 1 .. PipeLen /\ Pipe'[k] = Pipe[k + 1]
  <2>1. PipeLen' = PipeLen - 1 /\ PipeLen = Len(inbox) + Len(wire) /\ Len(wire) \in Nat
    BY <1>0, <1>1, <1>2, Sizes DEF PipeLen
  <2>2. k + 1 \in 1 .. PipeLen
    BY <1>1, <2>1
  <2>3. Pipe'[k] = IF k <= Len(inbox') THEN inbox'[k].id ELSE wire[k - Len(inbox')].id
    BY <1>0 DEF Pipe
  <2>4. Pipe[k + 1] = IF k + 1 <= Len(inbox) THEN inbox[k + 1].id
                      ELSE wire[k + 1 - Len(inbox)].id
    BY <2>2 DEF Pipe
  <2>5. CASE k <= Len(inbox')
    BY <1>1, <1>2, <2>1, <2>2, <2>3, <2>4, <2>5
  <2>6. CASE ~(k <= Len(inbox'))
    <3>1. k - Len(inbox') = k + 1 - Len(inbox) /\ ~(k + 1 <= Len(inbox))
      BY <1>1, <1>2, <2>1, <2>6
    <3> QED BY <2>2, <2>3, <2>4, <2>6, <3>1
  <2> QED BY <2>5, <2>6
<1> QED BY <1>0, <1>1, <1>2, <1>3, <1>4

LEMMA ReadWaiting ==
    ASSUME Inv, Read
    PROVE  /\ \A i \in 1 .. Len(waiting) : waiting[i].id /= Replay
           /\ \A r, q : Answered(r) /\ Answered(q) => r = q
           /\ \A i \in 1 .. Len(waiting') : \E j \in 1 .. Len(waiting) : waiting'[i] = waiting[j]
           /\ \A j \in 1 .. Len(waiting) :
                ~Answered(j) => \E i \in 1 .. Len(waiting') : waiting'[i] = waiting[j]
           /\ \A i, j \in 1 .. Len(waiting') : i < j => waiting'[i].id < waiting'[j].id
<1>0. TypeOK /\ mode = "pump"
  BY ReadPipe DEF Inv
<1>1. \A i \in 1 .. Len(waiting) : waiting[i].id /= Replay
  BY <1>0 DEF Inv, ReplayCalls, Replaying
<1>2. \A i, j \in 1 .. Len(waiting) : i < j => waiting[i].id < waiting[j].id
  BY <1>1 DEF Inv, InOrder
<1>3. ASSUME NEW r, NEW q, Answered(r), Answered(q) PROVE r = q
  <2>1. /\ r \in 1 .. Len(waiting) /\ q \in 1 .. Len(waiting) /\ waiting[r].id = waiting[q].id
        /\ waiting[r].id \in Int /\ Len(waiting) \in Nat
    BY <1>0, <1>3, Sizes, CallTypes, SubscriptionsAssumption DEF Answered
  <2> QED BY <1>2, <2>1
<1>4. CASE UNCHANGED waiting
  BY <1>0, <1>1, <1>2, <1>3, <1>4
<1>5. ASSUME NEW r \in 1 .. Len(waiting), waiting[r].id = Head(inbox).id,
             waiting' = RemoveAt(waiting, r)
      PROVE  /\ \A i \in 1 .. Len(waiting') :
                    \E j \in 1 .. Len(waiting) : waiting'[i] = waiting[j]
             /\ \A j \in 1 .. Len(waiting) :
                    ~Answered(j) => \E i \in 1 .. Len(waiting') : waiting'[i] = waiting[j]
             /\ \A i, j \in 1 .. Len(waiting') : i < j => waiting'[i].id < waiting'[j].id
  <2>1. /\ Len(waiting') = Len(waiting) - 1 /\ Len(waiting) \in Nat
        /\ \A j \in 1 .. Len(waiting) - 1 :
                waiting'[j] = waiting[IF j < r THEN j ELSE j + 1]
    BY <1>0, <1>5, RemoveAtProperties, Sizes DEF TypeOK
  <2>2. Removed(waiting, r, waiting')
    BY <2>1 DEF Removed
  <2>3. UNCHANGED calls /\ Answered(r)
    BY <1>0, <1>5, ReadPipe DEF Answered
  <2>4. \A i \in 1 .. Len(waiting') : \E j \in 1 .. Len(waiting) : waiting'[i] = waiting[j]
    BY <1>0, <2>2, RemovedAt
  <2>5. \A j \in 1 .. Len(waiting) :
            ~Answered(j) => \E i \in 1 .. Len(waiting') : waiting'[i] = waiting[j]
    BY <1>0, <2>2, <2>3, RemovedAt
  <2>6. \A i \in 1 .. Len(waiting') : waiting'[i].id /= Replay
    BY <1>1, <2>4
  <2> QED BY <2>2, <2>3, <2>4, <2>5, <2>6, EndKeepsOrder
<1> QED BY <1>1, <1>3, <1>4, <1>5 DEF Read

LEMMA ReadSubs ==
    ASSUME Inv, Read
    PROVE  /\ \A e : Contains(subs', e) /\ ~Contains(subs, e) =>
                \E r : /\ Answered(r) /\ inbox[1].ok /\ waiting[r].op = "subscribe"
                       /\ waiting[r].persist /\ waiting[r].entry = e
           /\ \A e : Contains(subs, e) /\ ~Contains(subs', e) =>
                \E r : /\ Answered(r) /\ inbox[1].ok /\ waiting[r].op = "unsubscribe"
                       /\ waiting[r].entry = e
           /\ \A r : Answered(r) /\ inbox[1].ok =>
                IF waiting[r].op = "unsubscribe" THEN ~Contains(subs', waiting[r].entry)
                ELSE Contains(subs', waiting[r].entry) \/ waiting[r].entry \in maybeOn'
           /\ maybeOn \subseteq maybeOn'
<1>0. TypeOK /\ NoDuplicates /\ Head(inbox) = inbox[1]
  BY ReadPipe DEF Inv
<1>1. CASE /\ \A i \in 1 .. Len(waiting) : waiting[i].id /= Head(inbox).id
           /\ UNCHANGED <<waiting, subs, maybeOn>>
  BY <1>0, <1>1 DEF Answered
<1>2. ASSUME NEW r \in 1 .. Len(waiting), waiting[r].id = Head(inbox).id,
             subs' = IF Head(inbox).ok THEN Registered(waiting[r]) ELSE subs,
             maybeOn' = IF waiting[r].op = "subscribe" /\ ~waiting[r].persist
                        THEN maybeOn \cup {waiting[r].entry} ELSE maybeOn
      PROVE  /\ \A e : Contains(subs', e) /\ ~Contains(subs, e) =>
                  /\ inbox[1].ok /\ waiting[r].op = "subscribe"
                  /\ waiting[r].persist /\ waiting[r].entry = e
             /\ \A e : Contains(subs, e) /\ ~Contains(subs', e) =>
                  /\ inbox[1].ok /\ waiting[r].op = "unsubscribe"
                  /\ waiting[r].entry = e
             /\ inbox[1].ok =>
                  IF waiting[r].op = "unsubscribe" THEN ~Contains(subs', waiting[r].entry)
                  ELSE Contains(subs', waiting[r].entry) \/ waiting[r].entry \in maybeOn'
             /\ maybeOn \subseteq maybeOn' /\ Answered(r)
  <2>1. waiting[r] \in Calls /\ waiting[r].op \in {"subscribe", "unsubscribe"} /\ waiting[r].persist \in BOOLEAN
    BY <1>0, Sizes, CallTypes DEF Ops
  <2>2. \A e : Contains(Registered(waiting[r]), e) <=>
                IF waiting[r].op = "unsubscribe" THEN e /= waiting[r].entry /\ Contains(subs, e)
                ELSE Contains(subs, e) \/ (waiting[r].persist /\ e = waiting[r].entry)
    BY <1>0, <2>1, RegisteredProperties
  <2>3. CASE ~inbox[1].ok
    BY <1>0, <1>2, <2>3 DEF Answered
  <2>4. CASE inbox[1].ok
    BY <1>0, <1>2, <2>1, <2>2, <2>4 DEF Answered
  <2> QED BY <2>3, <2>4
<1>3. \A r, q : Answered(r) /\ Answered(q) => r = q
  BY ReadWaiting
<1>4. CASE \E r \in 1 .. Len(waiting) :
            /\ waiting[r].id = Head(inbox).id
            /\ subs' = IF Head(inbox).ok THEN Registered(waiting[r]) ELSE subs
            /\ maybeOn' = IF waiting[r].op = "subscribe" /\ ~waiting[r].persist
                          THEN maybeOn \cup {waiting[r].entry} ELSE maybeOn
  <2>1. PICK r \in 1 .. Len(waiting) :
            /\ waiting[r].id = Head(inbox).id
            /\ subs' = IF Head(inbox).ok THEN Registered(waiting[r]) ELSE subs
            /\ maybeOn' = IF waiting[r].op = "subscribe" /\ ~waiting[r].persist
                          THEN maybeOn \cup {waiting[r].entry} ELSE maybeOn
    BY <1>4
  <2>2. /\ \A e : Contains(subs', e) /\ ~Contains(subs, e) =>
             /\ inbox[1].ok /\ waiting[r].op = "subscribe"
             /\ waiting[r].persist /\ waiting[r].entry = e
        /\ \A e : Contains(subs, e) /\ ~Contains(subs', e) =>
             /\ inbox[1].ok /\ waiting[r].op = "unsubscribe"
             /\ waiting[r].entry = e
        /\ inbox[1].ok =>
             IF waiting[r].op = "unsubscribe" THEN ~Contains(subs', waiting[r].entry)
             ELSE Contains(subs', waiting[r].entry) \/ waiting[r].entry \in maybeOn'
        /\ maybeOn \subseteq maybeOn' /\ Answered(r)
    BY <1>2, <2>1
  <2>3. \A q : Answered(q) => q = r
    BY <1>3, <2>2
  <2>4. \A q : Answered(q) /\ inbox[1].ok =>
                IF waiting[q].op = "unsubscribe" THEN ~Contains(subs', waiting[q].entry)
                ELSE Contains(subs', waiting[q].entry) \/ waiting[q].entry \in maybeOn'
    BY <2>2, <2>3
  <2>5. \A e : Contains(subs', e) /\ ~Contains(subs, e) =>
                \E q : /\ Answered(q) /\ inbox[1].ok /\ waiting[q].op = "subscribe"
                       /\ waiting[q].persist /\ waiting[q].entry = e
    BY <2>2
  <2>6. \A e : Contains(subs, e) /\ ~Contains(subs', e) =>
                \E q : /\ Answered(q) /\ inbox[1].ok /\ waiting[q].op = "unsubscribe"
                       /\ waiting[q].entry = e
    BY <2>2
  <2> QED BY <2>2, <2>4, <2>5, <2>6
<1> QED BY <1>1, <1>4 DEF Read

\* What is to be read after n, and is not the head, is still to be read.
LEMMA ReadAccepted ==
    ASSUME Inv, Read, NEW op, NEW e, NEW n \in Nat, Accepted(op, e, n)
    PROVE  \/ Accepted(op, e, n)'
           \/ \E r : /\ Answered(r) /\ inbox[1].ok /\ inbox[1].id > n
                     /\ waiting[r].op = op /\ waiting[r].entry = e
<1>0. TypeOK
  BY DEF Inv
<1>1. PICK i \in 1 .. Len(waiting), k \in 1 .. Len(inbox) :
        /\ waiting[i].op = op /\ waiting[i].entry = e
        /\ waiting[i].id = inbox[k].id /\ inbox[k].ok /\ inbox[k].id > n
  BY DEF Accepted
<1>2. CASE k = 1
  BY <1>1, <1>2 DEF Answered
<1>3. CASE k /= 1
  <2>1. 1 \in 1 .. PipeLen /\ Pipe[1] = inbox[1].id /\ k \in 1 .. PipeLen /\ Pipe[k] = inbox[k].id
    BY <1>0, ReadPipe, PipeParts
  <2>2. 1 < k /\ inbox[k].id \in Nat /\ inbox[1].id \in Nat /\ inbox[k].id /= 0
    BY <1>0, <1>1, <1>3, Sizes, CallTypes, SubscriptionsAssumption
  <2>3. inbox[1].id /= inbox[k].id
    BY <2>1, <2>2 DEF Inv, InOrder, Replay
  <2>4. \E j \in 1 .. Len(waiting') : waiting'[j] = waiting[i]
    BY <1>1, <2>3, ReadWaiting DEF Answered
  <2>5. k - 1 \in 1 .. Len(inbox') /\ inbox'[k - 1] = inbox[k]
    BY <1>0, <1>3, ReadPipe
  <2> QED BY <1>1, <2>4, <2>5 DEF Accepted
<1> QED BY <1>2, <1>3

LEMMA OnOffLess ==
    ASSUME TypeOK', NEW e, NEW n \in Nat
    PROVE  (OnAfter(e, n)' => OnAfter(e, 0)') /\ (OffAfter(e, n)' => OffAfter(e, 0)')
<1>1. \A k \in 1 .. Len(inbox') : inbox'[k].id \in Int
  BY ElementOfSeq, LenProperties, CallTypes, SubscriptionsAssumption DEF TypeOK
<1>2. \A op : Accepted(op, e, n)' => Accepted(op, e, 0)'
  BY <1>1 DEF Accepted
<1> QED BY <1>2 DEF OnAfter, OffAfter

LEMMA ReadKeepsInv ==
    ASSUME Inv, TypeOK', NoDuplicates', Read
    PROVE  Inv'
<1> DEFINE a == inbox[1]
<1>0. /\ TypeOK /\ mode = "pump" /\ todo = <<>> /\ ~Replaying
      /\ UNCHANGED <<mode, first, open, epoch, todo, calls, wire, active, maybeOff>>
      /\ a \in Answers /\ a.id \in Nat
  BY ReadPipe, CallTypes, SubscriptionsAssumption DEF Inv, ReplayCalls
<1>1. /\ \A k \in 1 .. Len(inbox') : k + 1 \in 1 .. Len(inbox) /\ inbox'[k] = inbox[k + 1]
      /\ \A k \in 1 .. PipeLen' : k + 1 \in 1 .. PipeLen /\ Pipe'[k] = Pipe[k + 1]
      /\ 1 \in 1 .. PipeLen /\ Pipe[1] = a.id
  BY <1>0, ReadPipe, PipeParts
<1>2. /\ \A i \in 1 .. Len(waiting) : waiting[i].id /= Replay
      /\ \A i \in 1 .. Len(waiting') : \E j \in 1 .. Len(waiting) : waiting'[i] = waiting[j]
      /\ \A j \in 1 .. Len(waiting) :
            waiting[j].id /= a.id => \E i \in 1 .. Len(waiting') : waiting'[i] = waiting[j]
  BY ReadWaiting DEF Answered
<1>3. \A i \in 1 .. Len(waiting') : waiting'[i].id /= Replay
  BY <1>2
\* What comes after the head of the pipe is not its number.
<1>4. ASSUME NEW k \in 1 .. PipeLen, k > 1, Pipe[k] /= Replay
      PROVE  Pipe[k] > a.id
  <2>1. Pipe[k] \in Nat
    BY <1>0 DEF Inv, InOrder, TypeOK
  <2>2. a.id /= Replay => a.id < Pipe[k]
    BY <1>1, <1>4 DEF Inv, InOrder
  <2> QED BY <1>0, <1>4, <2>1, <2>2 DEF Replay
<1>5. \A k \in 1 .. Len(inbox') : inbox'[k].id /= Replay => inbox'[k].id > a.id
  <2>1. ASSUME NEW k \in 1 .. Len(inbox'), inbox'[k].id /= Replay PROVE inbox'[k].id > a.id
    <3>1. k + 1 \in 1 .. PipeLen /\ Pipe[k + 1] = inbox'[k].id /\ k + 1 > 1
      BY <1>0, <1>1, PipeParts
    <3> QED BY <1>4, <2>1, <3>1
  <2> QED BY <2>1
<1>6. ASSUME NEW r, Answered(r), NEW l \in 1 .. PipeLen, l > 1, Pipe[l] = Replay
      PROVE  FALSE
  BY <1>0, <1>1, <1>2, <1>6 DEF Inv, ReplayOutlasts, Answered, Replaying
<1> HIDE DEF a
<1>7. Quiet'
  <2>1. ~first
    BY <1>0 DEF Inv, Quiet
  <2> QED BY <1>0, <2>1 DEF Inv, Quiet
<1>8. ReplayCalls'
  BY <1>0, <1>3 DEF Inv, ReplayCalls, Replaying
<1>9. InOrder'
  <2>1. \A i, j \in 1 .. PipeLen' :
            i < j /\ Pipe'[i] /= Replay /\ Pipe'[j] /= Replay => Pipe'[i] < Pipe'[j]
    BY <1>1 DEF Inv, InOrder
  <2>2. \A i \in 1 .. PipeLen' : Pipe'[i] \in 0 .. calls'
    BY <1>0, <1>1 DEF Inv, InOrder
  <2>3. \A i \in 1 .. Len(waiting') : waiting'[i].id \in 0 .. calls'
    BY <1>0, <1>2 DEF Inv, InOrder
  <2> QED BY <2>1, <2>2, <2>3, ReadWaiting DEF InOrder
<1>10. ReplayOutlasts'
  <2> SUFFICES ASSUME NEW i \in 1 .. Len(waiting'), NEW k \in 1 .. PipeLen', NEW l \in 1 .. PipeLen',
                      waiting'[i].id /= Replay, Pipe'[k] = waiting'[i].id,
                      k < l, Pipe'[l] = Replay
               PROVE  FALSE
    BY DEF ReplayOutlasts
  <2>1. PICK j \in 1 .. Len(waiting) : waiting'[i] = waiting[j]
    BY <1>2
  <2>2. /\ k + 1 \in 1 .. PipeLen /\ l + 1 \in 1 .. PipeLen /\ k + 1 < l + 1
        /\ Pipe[k + 1] = waiting[j].id /\ Pipe[l + 1] = Replay
    BY <1>1, <2>1
  <2>3. PICK q \in j + 1 .. Len(waiting) : waiting[q].id = Replay
    BY <1>0, <2>1, <2>2 DEF Inv, ReplayOutlasts
  <2>4. q \in 1 .. Len(waiting)
    BY <1>0, Sizes
  <2> QED BY <1>2, <2>3, <2>4
<1>11. SentIsKnown'
  <2> SUFFICES ASSUME NEW i \in 1 .. Len(wire), wire[i].id /= Replay
               PROVE  \/ \E j \in 1 .. Len(waiting') : waiting'[j] = wire[i]
                      \/ wire[i].op = "subscribe" /\ wire[i].entry \in maybeOn'
                      \/ wire[i].op = "unsubscribe" /\ wire[i].entry \in maybeOff'
    BY <1>0 DEF SentIsKnown
  <2>1. wire[i].id > a.id
    <3>1. /\ Len(inbox) + i \in 1 .. PipeLen /\ Pipe[Len(inbox) + i] = wire[i].id
          /\ Len(inbox) + i > 1
      BY <1>0, PipeParts, ReadPipe, Sizes
    <3> QED BY <1>4, <3>1
  <2>2. \A j \in 1 .. Len(waiting) : waiting[j] = wire[i] => waiting[j].id /= a.id
    BY <1>0, <2>1
  <2> QED BY <1>0, <1>2, <2>2, ReadSubs DEF Inv, SentIsKnown
<1>12. SameNumber'
  BY <1>0, <1>2 DEF Inv, SameNumber
<1>13. ASSUME NEW e, NEW n \in Nat, OnAfter(e, n)
       PROVE  \/ OnAfter(e, n)'
              \/ \E r : /\ Answered(r) /\ a.ok /\ a.id > n
                        /\ waiting[r].op = "unsubscribe" /\ waiting[r].entry = e
  <2>1. CASE Accepted("unsubscribe", e, n)
    <3>1. Accepted("unsubscribe", e, n)' => OnAfter(e, n)'
      BY DEF OnAfter
    <3> QED BY <2>1, <3>1, ReadAccepted DEF a
  <2>2. CASE ~Accepted("unsubscribe", e, n)
    BY <1>0, <1>13, <2>2 DEF OnAfter
  <2> QED BY <2>1, <2>2
<1>14. ASSUME NEW e, NEW n \in Nat, OffAfter(e, n)
       PROVE  \/ OffAfter(e, n)'
              \/ \E r : /\ Answered(r) /\ a.ok /\ a.id > n
                        /\ waiting[r].op = "subscribe" /\ waiting[r].entry = e
  <2>1. CASE Accepted("subscribe", e, n)
    <3>1. Accepted("subscribe", e, n)' => OffAfter(e, n)'
      BY DEF OffAfter
    <3> QED BY <2>1, <3>1, ReadAccepted DEF a
  <2>2. CASE ~Accepted("subscribe", e, n)
    BY <1>0, <1>14, <2>2, ReadSubs DEF OffAfter
  <2> QED BY <2>1, <2>2
\* An answer to be read after the head.
<1>15. ASSUME NEW i \in 1 .. Len(waiting'), NEW k \in 1 .. Len(inbox'),
              inbox'[k].id = waiting'[i].id
       PROVE  \E j \in 1 .. Len(waiting) :
                    /\ waiting'[i] = waiting[j] /\ waiting[j].id = inbox[k + 1].id
                    /\ waiting[j].id > a.id /\ waiting[j].id \in Nat
                    /\ k + 1 \in 1 .. Len(inbox) /\ inbox[k + 1] = inbox'[k]
  <2>1. PICK j \in 1 .. Len(waiting) : waiting'[i] = waiting[j]
    BY <1>2
  <2>2. waiting[j].id \in Nat
    BY <1>0, Sizes, CallTypes, SubscriptionsAssumption
  <2> QED BY <1>1, <1>3, <1>5, <1>15, <2>1, <2>2
<1>16. Live' = Live
  BY <1>0 DEF Live
<1>17. \A r : Answered(r) => r \in 1 .. Len(waiting) /\ waiting[r].id = a.id /\ 1 \in 1 .. Len(inbox)
  BY <1>0, ReadPipe DEF Answered, a
<1>18. /\ \A e : e \in ToSet(subs) <=> Contains(subs, e)
       /\ \A e : e \in ToSet(subs') <=> Contains(subs', e)
       /\ ToSet(todo) = {}
  BY <1>0, ToSetContains DEF TypeOK, ToSet
<1>19. RecordedIsOn'
  <2> SUFFICES ASSUME Live PROVE RecordedIsOn'
    BY <1>16 DEF RecordedIsOn
  <2>1. ASSUME NEW e, Contains(subs', e) PROVE OnAfter(e, 0)'
    <3>1. CASE Contains(subs, e)
      <4>1. OnAfter(e, 0)
        BY <1>18, <3>1 DEF Inv, RecordedIsOn
      <4> QED BY <1>13, <2>1, <4>1, ReadSubs DEF a
    <3>2. CASE ~Contains(subs, e)
      <4>1. PICK r : /\ Answered(r) /\ a.ok /\ waiting[r].op = "subscribe"
                     /\ waiting[r].persist /\ waiting[r].entry = e
        BY <2>1, <3>2, ReadSubs DEF a
      <4>2. OnAfter(e, a.id)
        BY <1>2, <1>17, <4>1 DEF Inv, RecordedIsOn, a
      <4>3. PICK n \in Nat : n = a.id
        BY <1>0
      <4>4. OnAfter(e, n)'
        BY <1>13, <4>2, <4>3
      <4> QED BY <4>4, OnOffLess
    <3> QED BY <3>1, <3>2
  <2>2. ASSUME NEW i \in 1 .. Len(waiting'), NEW k \in 1 .. Len(inbox'),
               waiting'[i].op = "subscribe", waiting'[i].persist, waiting'[i].id /= Replay,
               inbox'[k].id = waiting'[i].id, inbox'[k].ok
        PROVE  \A e, n : e = waiting'[i].entry /\ n = waiting'[i].id => OnAfter(e, n)'
    <3>1. PICK j \in 1 .. Len(waiting) :
                    /\ waiting'[i] = waiting[j] /\ waiting[j].id = inbox[k + 1].id
                    /\ waiting[j].id > a.id /\ waiting[j].id \in Nat
                    /\ k + 1 \in 1 .. Len(inbox) /\ inbox[k + 1] = inbox'[k]
      BY <1>15, <2>2
    <3>2. OnAfter(waiting[j].entry, waiting[j].id)
      BY <2>2, <3>1 DEF Inv, RecordedIsOn
    <3>3. ~(a.id > waiting[j].id)
      BY <1>0, <3>1
    <3> QED BY <1>13, <3>1, <3>2, <3>3
  <2> QED BY <1>18, <2>1, <2>2 DEF RecordedIsOn
<1>20. UnrecordedIsOff'
  <2> SUFFICES ASSUME Live PROVE UnrecordedIsOff'
    BY <1>16 DEF UnrecordedIsOff
  <2>0. \A i \in 1 .. Len(waiting) : ~EndsBeforeReplay(i)
    BY <1>0, <1>2, Sizes DEF EndsBeforeReplay
  <2>1. ASSUME NEW e \in Entries, ~Contains(subs', e) PROVE OffAfter(e, 0)'
    <3>1. CASE ~Contains(subs, e)
      <4>1. OffAfter(e, 0)
        BY <3>1 DEF Inv, UnrecordedIsOff
      <4>2. e \in maybeOn' => OffAfter(e, 0)'
        BY DEF OffAfter
      <4> QED BY <1>14, <2>1, <4>1, <4>2, ReadSubs DEF a
    <3>2. CASE Contains(subs, e)
      <4>1. PICK r : /\ Answered(r) /\ a.ok /\ waiting[r].op = "unsubscribe"
                     /\ waiting[r].entry = e
        BY <2>1, <3>2, ReadSubs DEF a
      <4>2. OffAfter(e, a.id)
        BY <1>17, <2>0, <4>1 DEF Inv, UnrecordedIsOff, a
      <4>3. PICK n \in Nat : n = a.id
        BY <1>0
      <4>4. OffAfter(e, n)'
        BY <1>14, <4>2, <4>3
      <4> QED BY <4>4, OnOffLess
    <3> QED BY <3>1, <3>2
  <2>2. ASSUME NEW i \in 1 .. Len(waiting'), NEW k \in 1 .. Len(inbox'),
               waiting'[i].op = "unsubscribe",
               inbox'[k].id = waiting'[i].id, inbox'[k].ok
        PROVE  \A e, n : e = waiting'[i].entry /\ n = waiting'[i].id => OffAfter(e, n)'
    <3>1. PICK j \in 1 .. Len(waiting) :
                    /\ waiting'[i] = waiting[j] /\ waiting[j].id = inbox[k + 1].id
                    /\ waiting[j].id > a.id /\ waiting[j].id \in Nat
                    /\ k + 1 \in 1 .. Len(inbox) /\ inbox[k + 1] = inbox'[k]
      BY <1>15, <2>2
    <3>2. waiting[j].op = "unsubscribe" /\ inbox[k + 1].ok
      BY <2>2, <3>1
    <3>4. OffAfter(waiting[j].entry, waiting[j].id)
      BY <2>0, <3>1, <3>2 DEF Inv, UnrecordedIsOff
    <3>3. ~(a.id > waiting[j].id)
      BY <1>0, <3>1
    <3> QED BY <1>14, <3>1, <3>3, <3>4
  <2>3. ASSUME NEW i \in 1 .. Len(wire), wire[i].id = Replay
        PROVE  Contains(subs', wire[i].entry)
    <3>1. Contains(subs, wire[i].entry)
      BY <2>3 DEF Inv, UnrecordedIsOff
    <3>2. /\ Len(inbox) + i \in 1 .. PipeLen /\ Pipe[Len(inbox) + i] = Replay
          /\ Len(inbox) + i > 1
      BY <1>0, <2>3, PipeParts, ReadPipe, Sizes
    <3> QED BY <1>6, <3>1, <3>2, ReadSubs
  <2> QED BY <1>0, <1>18, <2>1, <2>2, <2>3 DEF UnrecordedIsOff
<1> QED BY <1>7, <1>8, <1>9, <1>10, <1>11, <1>12, <1>19, <1>20 DEF Inv
----------------------------------------------------------------------------
(* A frame is served: its number moves across the boundary of the pipe. *)

LEMMA ServePipe ==
    ASSUME TypeOK, NEW ok \in BOOLEAN, Serve(ok)
    PROVE  /\ UNCHANGED <<mode, first, open, epoch, subs, todo, waiting, calls, maybeOn>>
           /\ open /\ mode /= "handshake" /\ 1 \in 1 .. Len(wire) /\ wire[1] \in Calls
           /\ \A i \in 1 .. Len(wire') : i + 1 \in 1 .. Len(wire) /\ wire'[i] = wire[i + 1]
           /\ \A i \in 1 .. Len(wire) :
                i = 1 \/ (i - 1 \in 1 .. Len(wire') /\ wire'[i - 1] = wire[i])
           /\ \A k \in 1 .. Len(inbox) : k \in 1 .. Len(inbox') /\ inbox'[k] = inbox[k]
           /\ Len(inbox) + 1 \in 1 .. Len(inbox')
           /\ inbox'[Len(inbox) + 1].id = wire[1].id /\ inbox'[Len(inbox) + 1].ok = ok
           /\ \A k \in 1 .. Len(inbox') : k \in 1 .. Len(inbox) \/ k = Len(inbox) + 1
           /\ Len(inbox) + 1 \in 1 .. PipeLen /\ Pipe[Len(inbox) + 1] = wire[1].id
           /\ PipeLen' = PipeLen /\ \A k \in 1 .. PipeLen : Pipe'[k] = Pipe[k]
           /\ active' = IF ~ok THEN active
                        ELSE IF wire[1].op = "subscribe" THEN active \cup {wire[1].entry}
                        ELSE active \ {wire[1].entry}
           /\ maybeOff' = IF ~ok /\ wire[1].op = "subscribe" THEN maybeOff \cup {wire[1].entry}
                          ELSE maybeOff
<1> DEFINE f == wire[1]
           a == [id |-> wire[1].id, ok |-> ok]
<1>1. /\ wire \in Seq(Calls) /\ wire /= <<>> /\ wire' = Tail(wire)
      /\ UNCHANGED <<mode, first, open, epoch, subs, todo, waiting, calls, maybeOn>>
      /\ open /\ mode /= "handshake"
  BY DEF Serve, TypeOK, envVars
<1>2. /\ Removed(wire, 1, wire') /\ 1 \in 1 .. Len(wire) /\ Head(wire) = f
      /\ Len(wire) \in Nat /\ f \in Calls
  BY <1>1, TailRemoves, Sizes
<1>3. /\ inbox' = Append(inbox, a)
      /\ active' = IF ~ok THEN active
                   ELSE IF f.op = "subscribe" THEN active \cup {f.entry}
                   ELSE active \ {f.entry}
      /\ maybeOff' = IF ~ok /\ f.op = "subscribe" THEN maybeOff \cup {f.entry}
                     ELSE maybeOff
  BY <1>2 DEF Serve
<1>4. a \in Answers /\ a.id = f.id /\ a.ok = ok
  BY <1>2, CallTypes
<1> HIDE DEF a
<1>5. /\ Len(wire') = Len(wire) - 1
      /\ \A i \in 1 .. Len(wire') : i + 1 \in 1 .. Len(wire) /\ wire'[i] = wire[i + 1]
  BY <1>2 DEF Removed
<1>6. ASSUME NEW i \in 1 .. Len(wire), i /= 1
      PROVE  i - 1 \in 1 .. Len(wire') /\ wire'[i - 1] = wire[i]
  <2>1. i - 1 \in 1 .. Len(wire') /\ i - 1 + 1 = i
    BY <1>2, <1>5, <1>6
  <2> QED BY <1>5, <2>1
<1>7. /\ Len(inbox') = Len(inbox) + 1 /\ Len(inbox) \in Nat
      /\ \A k \in 1 .. Len(inbox) : k \in 1 .. Len(inbox') /\ inbox'[k] = inbox[k]
      /\ inbox'[Len(inbox) + 1] = a
      /\ \A k \in 1 .. Len(inbox') : k \in 1 .. Len(inbox) \/ k = Len(inbox) + 1
  BY <1>3, <1>4, AppendAt DEF TypeOK
<1>8. /\ PipeLen' = PipeLen /\ PipeLen = Len(inbox) + Len(wire)
      /\ Len(inbox) + 1 \in 1 .. PipeLen /\ Pipe[Len(inbox) + 1] = wire[1].id
  <2>1. PipeLen' = PipeLen /\ PipeLen = Len(inbox) + Len(wire)
    BY <1>2, <1>5, <1>7 DEF PipeLen
  <2> QED BY <1>2, <2>1, PipeParts
<1>9. ASSUME NEW k \in 1 .. PipeLen PROVE Pipe'[k] = Pipe[k]
  <2>1. Pipe'[k] = IF k <= Len(inbox') THEN inbox'[k].id ELSE wire'[k - Len(inbox')].id
    BY <1>8 DEF Pipe
  <2>2. Pipe[k] = IF k <= Len(inbox) THEN inbox[k].id ELSE wire[k - Len(inbox)].id
    BY DEF Pipe
  <2>3. CASE k <= Len(inbox)
    BY <1>7, <2>1, <2>2, <2>3
  <2>4. CASE k = Len(inbox) + 1
    BY <1>4, <1>7, <1>8, <2>1, <2>4
  <2>5. CASE k > Len(inbox) + 1
    <3>1. /\ k - Len(inbox') \in 1 .. Len(wire') /\ k - Len(inbox') + 1 = k - Len(inbox)
          /\ ~(k <= Len(inbox')) /\ ~(k <= Len(inbox))
      BY <1>2, <1>5, <1>7, <1>8, <2>5
    <3>2. wire'[k - Len(inbox')] = wire[k - Len(inbox)]
      BY <1>5, <3>1
    <3> QED BY <2>1, <2>2, <3>1, <3>2
  <2> QED BY <1>2, <1>7, <1>8, <2>3, <2>4, <2>5
<1>10. Len(inbox) + 1 \in 1 .. Len(inbox')
  BY <1>7
<1> QED BY <1>1, <1>2, <1>3, <1>4, <1>5, <1>6, <1>7, <1>8, <1>9, <1>10

LEMMA ServeKeepsInv ==
    ASSUME Inv, TypeOK', NoDuplicates', NEW ok \in BOOLEAN, Serve(ok)
    PROVE  Inv'
<1> DEFINE f == wire[1]
           new == Len(inbox) + 1
<1>0. /\ TypeOK /\ open /\ mode /= "handshake" /\ f \in Calls /\ 1 \in 1 .. Len(wire)
      /\ UNCHANGED <<mode, first, open, epoch, subs, todo, waiting, calls, maybeOn>>
      /\ f.op \in {"subscribe", "unsubscribe"} /\ f.id \in Nat
  BY ServePipe, CallTypes, SubscriptionsAssumption DEF Inv, Ops
<1>1. /\ \A i \in 1 .. Len(wire') : i + 1 \in 1 .. Len(wire) /\ wire'[i] = wire[i + 1]
      /\ \A i \in 1 .. Len(wire) : i = 1 \/ \E j \in 1 .. Len(wire') : wire'[j] = wire[i]
  BY <1>0, ServePipe
<1>2. /\ \A k \in 1 .. Len(inbox) : k \in 1 .. Len(inbox') /\ inbox'[k] = inbox[k]
      /\ new \in 1 .. Len(inbox') /\ inbox'[new].id = f.id /\ inbox'[new].ok = ok
      /\ \A k \in 1 .. Len(inbox') : k \in 1 .. Len(inbox) \/ k = new
  BY <1>0, ServePipe
<1>3. /\ PipeLen' = PipeLen /\ \A k \in 1 .. PipeLen : Pipe'[k] = Pipe[k]
      /\ new \in 1 .. PipeLen /\ Pipe[new] = f.id
      /\ \A k \in 1 .. Len(inbox) : k \in 1 .. PipeLen /\ Pipe[k] = inbox[k].id /\ k < new
  BY <1>0, ServePipe, PipeParts, Sizes
<1>4. /\ active' = IF ~ok THEN active
                   ELSE IF f.op = "subscribe" THEN active \cup {f.entry}
                   ELSE active \ {f.entry}
      /\ maybeOff' = IF ~ok /\ f.op = "subscribe" THEN maybeOff \cup {f.entry}
                     ELSE maybeOff
  BY <1>0, ServePipe
<1>5. /\ f.id = Replay => f.op = "subscribe"
      /\ f.id /= Replay =>
            \/ \E j \in 1 .. Len(waiting) : waiting[j] = f
            \/ f.op = "subscribe" /\ f.entry \in maybeOn
            \/ f.op = "unsubscribe" /\ f.entry \in maybeOff
      /\ \A i \in 1 .. Len(waiting) :
            waiting[i].id = f.id /\ f.id /= Replay => waiting[i] = f
  BY <1>0 DEF Inv, ReplayCalls, SentIsKnown, SameNumber
<1> HIDE DEF f, new
<1>6. Quiet'
  BY <1>0, <1>4 DEF Inv, Quiet
<1>20. \A i \in 1 .. Len(wire') : \E j \in 1 .. Len(wire) : wire'[i] = wire[j]
  BY <1>1
<1>7. ReplayCalls'
  <2>1. \A i \in 1 .. Len(wire') : wire'[i].id = Replay => wire'[i].op = "subscribe"
    BY <1>20 DEF Inv, ReplayCalls
  <2>2. mode \in {"connecting", "handshake"} =>
            \A i \in 1 .. Len(wire') : wire'[i].id /= Replay
    BY <1>20 DEF Inv, ReplayCalls
  <2> QED BY <1>0, <2>1, <2>2 DEF Inv, ReplayCalls, Replaying
<1>8. InOrder'
  BY <1>0, <1>3 DEF Inv, InOrder
<1>9. ReplayOutlasts'
  BY <1>0, <1>3 DEF Inv, ReplayOutlasts
<1>10. SentIsKnown' /\ SameNumber'
  <2>1. maybeOff \subseteq maybeOff'
    BY <1>4
  <2>2. SentIsKnown'
    BY <1>0, <1>20, <2>1 DEF Inv, SentIsKnown
  <2>3. SameNumber'
    <3> SUFFICES ASSUME NEW i \in 1 .. Len(waiting), NEW j \in 1 .. Len(wire'),
                        waiting[i].id = wire'[j].id, wire'[j].id /= Replay
                 PROVE  waiting[i] = wire'[j]
      BY <1>0 DEF SameNumber
    <3>1. PICK l \in 1 .. Len(wire) : wire'[j] = wire[l]
      BY <1>20
    <3> QED BY <3>1 DEF Inv, SameNumber
  <2> QED BY <2>2, <2>3
<1>11. \A op, e, n : Accepted(op, e, n) => Accepted(op, e, n)'
  BY <1>0, <1>2 DEF Accepted
\* A call that is accepted now, and waits.
<1>12. ASSUME ok, NEW j \in 1 .. Len(waiting), waiting[j] = f, NEW n \in Nat, f.id > n
       PROVE  \A op, e : op = f.op /\ e = f.entry => Accepted(op, e, n)'
  BY <1>0, <1>2, <1>12 DEF Accepted
<1>13. ASSUME NEW e, NEW n \in Nat, OnAfter(e, n)
       PROVE  \/ OnAfter(e, n)'
              \/ ok /\ f.op = "unsubscribe" /\ f.entry = e /\ ~(f.id > n)
  <2> SUFFICES ASSUME ok /\ f.op = "unsubscribe" /\ f.entry = e => f.id > n
               PROVE  OnAfter(e, n)'
    OBVIOUS
  <2>1. CASE e \in active /\ e \notin active'
    <3>1. ok /\ f.op = "unsubscribe" /\ f.entry = e /\ f.id > n /\ f.id /= Replay
      BY <1>0, <1>4, <1>5, <2>1
    <3>2. CASE \E j \in 1 .. Len(waiting) : waiting[j] = f
      BY <1>12, <3>1, <3>2 DEF OnAfter
    <3>3. CASE f.entry \in maybeOff
      BY <1>4, <3>1, <3>3 DEF OnAfter
    <3> QED BY <1>5, <3>1, <3>2, <3>3
  <2>2. CASE \E i \in 1 .. Len(wire) : wire[i].op = "subscribe" /\ wire[i].entry = e
    <3>1. PICK i \in 1 .. Len(wire) : wire[i].op = "subscribe" /\ wire[i].entry = e
      BY <2>2
    <3>2. CASE i = 1
      BY <1>0, <1>4, <3>1, <3>2 DEF f, OnAfter
    <3>3. CASE i /= 1
      BY <1>1, <3>1, <3>3 DEF OnAfter
    <3> QED BY <3>2, <3>3
  <2>3. CASE e \in active' \/ e \in maybeOff \/ Accepted("unsubscribe", e, n)
    BY <1>4, <1>11, <2>3 DEF OnAfter
  <2> QED BY <1>13, <2>1, <2>2, <2>3 DEF OnAfter
<1>14. ASSUME NEW e, NEW n \in Nat, OffAfter(e, n)
       PROVE  \/ OffAfter(e, n)'
              \/ ok /\ f.op = "subscribe" /\ f.entry = e /\ (f.id = Replay \/ ~(f.id > n))
  <2> SUFFICES ASSUME ok /\ f.op = "subscribe" /\ f.entry = e => f.id /= Replay /\ f.id > n
               PROVE  OffAfter(e, n)'
    OBVIOUS
  <2>1. CASE e \notin active /\ e \in active'
    <3>1. ok /\ f.op = "subscribe" /\ f.entry = e /\ f.id > n /\ f.id /= Replay
      BY <1>0, <1>4, <2>1
    <3>2. CASE \E j \in 1 .. Len(waiting) : waiting[j] = f
      BY <1>12, <3>1, <3>2 DEF OffAfter
    <3>3. CASE f.entry \in maybeOn
      BY <1>0, <3>1, <3>3 DEF OffAfter
    <3> QED BY <1>5, <3>1, <3>2, <3>3
  <2>2. CASE e \notin active' \/ e \in maybeOn \/ Accepted("subscribe", e, n)
    BY <1>0, <1>11, <2>2 DEF OffAfter
  <2> QED BY <1>14, <2>1, <2>2 DEF OffAfter
\* An answer that was there before is to a call sent before f.
<1>15. ASSUME NEW i \in 1 .. Len(waiting), NEW k \in 1 .. Len(inbox),
              inbox[k].id = waiting[i].id, waiting[i].id /= Replay
       PROVE  /\ waiting[i].id \in Nat
              /\ f.id /= Replay => f.id > waiting[i].id
              /\ f.id = Replay /\ mode /= "stopping" => EndsBeforeReplay(i)
  <2>1. waiting[i].id \in Nat
    BY <1>0, Sizes, CallTypes, SubscriptionsAssumption
  <2>2. f.id /= Replay => f.id > waiting[i].id
    <3>1. Pipe[k] = waiting[i].id /\ k < new /\ k \in 1 .. PipeLen
      BY <1>3, <1>15
    <3>2. f.id /= Replay => Pipe[k] < Pipe[new]
      BY <1>3, <1>15, <3>1 DEF Inv, InOrder
    <3> QED BY <1>0, <1>3, <2>1, <3>1, <3>2
  <2>3. f.id = Replay /\ mode /= "stopping" => EndsBeforeReplay(i)
    BY <1>3, <1>15 DEF Inv, ReplayOutlasts, EndsBeforeReplay
  <2> QED BY <2>1, <2>2, <2>3
<1>16. Live' = Live /\ (Live => mode /= "stopping")
  BY <1>0 DEF Live
<1>17. \A i : EndsBeforeReplay(i)' <=> EndsBeforeReplay(i)
  BY <1>0 DEF EndsBeforeReplay
<1>18. RecordedIsOn'
  <2> SUFFICES ASSUME Live PROVE RecordedIsOn'
    BY <1>16 DEF RecordedIsOn
  <2>1. ASSUME NEW e, OnAfter(e, 0) PROVE OnAfter(e, 0)'
    BY <1>0, <1>5, <1>13, <2>1 DEF Replay
  <2>2. ASSUME NEW i \in 1 .. Len(waiting), NEW k \in 1 .. Len(inbox'),
               waiting[i].op = "subscribe", waiting[i].persist, waiting[i].id /= Replay,
               inbox'[k].id = waiting[i].id, inbox'[k].ok
        PROVE  \A e, n : e = waiting[i].entry /\ n = waiting[i].id => OnAfter(e, n)'
    <3>1. CASE k \in 1 .. Len(inbox)
      <4>1. inbox[k].id = waiting[i].id /\ inbox[k].ok
        BY <1>2, <2>2, <3>1
      <4>2. OnAfter(waiting[i].entry, waiting[i].id)
        BY <2>2, <3>1, <4>1 DEF Inv, RecordedIsOn
      <4>3. waiting[i].id \in Nat /\ (f.id /= Replay => f.id > waiting[i].id)
        BY <1>15, <2>2, <3>1, <4>1
      <4> QED BY <1>5, <1>13, <4>2, <4>3
    <3>2. CASE k = new
      <4>1. waiting[i] = f /\ ok
        BY <1>2, <1>5, <2>2, <3>2
      <4>2. f.entry \in active'
        BY <1>4, <2>2, <4>1
      <4> QED BY <4>1, <4>2 DEF OnAfter
    <3> QED BY <1>2, <3>1, <3>2
  <2>3. \A e \in ToSet(subs') : e \in ToSet(todo') \/ OnAfter(e, 0)'
    BY <1>0, <2>1 DEF Inv, RecordedIsOn
  <2>4. waiting' = waiting
    BY <1>0
  <2> QED BY <2>2, <2>3, <2>4 DEF RecordedIsOn
<1>19. UnrecordedIsOff'
  <2> SUFFICES ASSUME Live PROVE UnrecordedIsOff'
    BY <1>16 DEF UnrecordedIsOff
  <2>1. f.id = Replay => Contains(subs, f.entry)
    BY <1>0 DEF Inv, UnrecordedIsOff, f
  <2>2. ASSUME NEW e \in Entries, ~Contains(subs, e) PROVE OffAfter(e, 0)'
    <3>1. OffAfter(e, 0)
      BY <2>2 DEF Inv, UnrecordedIsOff
    <3> QED BY <1>0, <1>14, <2>1, <2>2, <3>1 DEF Replay
  <2>3. ASSUME NEW i \in 1 .. Len(waiting), NEW k \in 1 .. Len(inbox'),
               waiting[i].op = "unsubscribe", ~EndsBeforeReplay(i),
               inbox'[k].id = waiting[i].id, inbox'[k].ok
        PROVE  \A e, n : e = waiting[i].entry /\ n = waiting[i].id => OffAfter(e, n)'
    <3>0. waiting[i].id /= Replay
      BY <2>3 DEF Inv, ReplayCalls
    <3>1. CASE k \in 1 .. Len(inbox)
      <4>1. inbox[k].id = waiting[i].id /\ inbox[k].ok
        BY <1>2, <2>3, <3>1
      <4>2. OffAfter(waiting[i].entry, waiting[i].id)
        BY <2>3, <3>1, <4>1 DEF Inv, UnrecordedIsOff
      <4>3. waiting[i].id \in Nat /\ f.id /= Replay /\ f.id > waiting[i].id
        BY <1>15, <1>16, <2>3, <3>0, <3>1, <4>1
      <4> QED BY <1>14, <4>2, <4>3
    <3>2. CASE k = new
      <4>1. waiting[i] = f /\ ok
        BY <1>2, <1>5, <2>3, <3>0, <3>2
      <4>2. f.entry \notin active'
        BY <1>4, <2>3, <4>1
      <4> QED BY <4>1, <4>2 DEF OffAfter
    <3> QED BY <1>2, <3>1, <3>2
  <2>4. \A i \in 1 .. Len(wire') : wire'[i].id = Replay => Contains(subs', wire'[i].entry)
    BY <1>0, <1>1 DEF Inv, UnrecordedIsOff
  <2>5. \A e \in ToSet(todo') : Contains(subs', e)
    BY <1>0 DEF Inv, UnrecordedIsOff
  <2>6. waiting' = waiting /\ subs' = subs
    BY <1>0
  <2>7. \A i \in 1 .. Len(waiting'), k \in 1 .. Len(inbox') :
            /\ waiting'[i].op = "unsubscribe"
            /\ inbox'[k].id = waiting'[i].id /\ inbox'[k].ok
            => OffAfter(waiting[i].entry, waiting[i].id)' \/ EndsBeforeReplay(i)'
    BY <1>17, <2>3, <2>6
  <2> QED BY <2>2, <2>4, <2>5, <2>6, <2>7 DEF UnrecordedIsOff
<1> QED BY <1>6, <1>7, <1>8, <1>9, <1>10, <1>18, <1>19 DEF Inv
----------------------------------------------------------------------------
(* The connection. *)

LEMMA NothingGoes ==
    ASSUME wire' = <<>>, inbox' = <<>>, waiting' = <<>>
    PROVE  InOrder' /\ ReplayOutlasts' /\ SentIsKnown' /\ SameNumber'
<1>1. PipeLen' = 0
  BY DEF PipeLen
<1>2. InOrder' /\ ReplayOutlasts'
  BY <1>1 DEF InOrder, ReplayOutlasts
<1> QED BY <1>2 DEF SentIsKnown, SameNumber

LEMMA NotLive ==
    ASSUME ~Live' PROVE RecordedIsOn' /\ UnrecordedIsOff'
BY DEF RecordedIsOn, UnrecordedIsOff

LEMMA SamePipe ==
    ASSUME UNCHANGED <<wire, inbox, waiting, calls, maybeOn>>, maybeOff \subseteq maybeOff',
           mode' /= "stopping" => mode /= "stopping"
    PROVE  /\ InOrder => InOrder'
           /\ ReplayOutlasts => ReplayOutlasts'
           /\ SentIsKnown => SentIsKnown'
           /\ SameNumber => SameNumber'
<1>1. Pipe' = Pipe /\ PipeLen' = PipeLen
  BY DEF Pipe, PipeLen
<1> QED BY <1>1 DEF InOrder, ReplayOutlasts, SentIsKnown, SameNumber

LEMMA DropKeepsInv ==
    ASSUME Inv, TypeOK', NoDuplicates', Drop
    PROVE  Inv'
<1>0. /\ TypeOK /\ wire' = <<>> /\ active' = {} /\ open' = FALSE
      /\ UNCHANGED <<mode, first, epoch, subs, todo, waiting, calls, inbox, maybeOn, maybeOff>>
  BY DEF Inv, Drop, Lost, knowVars
<1>1. Quiet' /\ ReplayCalls' /\ SentIsKnown' /\ SameNumber'
  BY <1>0 DEF Inv, Quiet, ReplayCalls, Replaying, SentIsKnown, SameNumber
<1>2. \A k \in 1 .. PipeLen' : k \in 1 .. PipeLen /\ Pipe'[k] = Pipe[k]
  <2>1. PipeLen' = Len(inbox) /\ Len(inbox) \in Nat
    BY <1>0, Sizes DEF PipeLen
  <2>2. \A k \in 1 .. PipeLen' : Pipe'[k] = inbox[k].id
    BY <1>0, <2>1 DEF Pipe
  <2> QED BY <1>0, <2>1, <2>2, PipeParts
<1>3. InOrder' /\ ReplayOutlasts'
  BY <1>0, <1>2 DEF Inv, InOrder, ReplayOutlasts
<1> QED BY <1>0, <1>1, <1>3, NotLive DEF Inv, Live

LEMMA ConnectKeepsInv ==
    ASSUME Inv, TypeOK', NoDuplicates', NEW b \in BOOLEAN, Connect(b)
    PROVE  Inv'
<1>0. /\ mode \in {"idle", "backoff"} /\ mode' = "connecting" /\ first' = b /\ open' = FALSE
      /\ wire' = <<>> /\ active' = {} /\ inbox' = <<>>
      /\ maybeOff' = IF b THEN ToSet(subs) ELSE {}
      /\ UNCHANGED <<subs, todo, waiting, calls>>
  BY DEF Connect, Opening
<1>1. waiting' = <<>> /\ todo' = <<>>
  BY <1>0 DEF Inv, Quiet, ReplayCalls
<1>2. Quiet'
  BY <1>0, <1>1 DEF Quiet
<1>3. ReplayCalls'
  BY <1>0, <1>1 DEF ReplayCalls, Replaying
<1> QED BY <1>0, <1>1, <1>2, <1>3, NothingGoes, NotLive DEF Inv, Live

LEMMA ConnectedKeepsInv ==
    ASSUME Inv, TypeOK', NoDuplicates', Connected
    PROVE  Inv'
<1>0. /\ mode = "connecting" /\ mode' = "handshake" /\ open' = TRUE
      /\ UNCHANGED <<first, epoch, subs, todo, waiting, calls, wire, active, inbox, maybeOn, maybeOff>>
  BY DEF Connected, SocketUp, netVars, knowVars
<1>1. Quiet'
  BY <1>0 DEF Inv, Quiet
<1>2. ReplayCalls'
  BY <1>0 DEF Inv, ReplayCalls, Replaying
<1> QED BY <1>0, <1>1, <1>2, SamePipe, NotLive DEF Inv, Live

LEMMA ConnectFailsKeepsInv ==
    ASSUME Inv, TypeOK', NoDuplicates', ConnectFails
    PROVE  Inv'
<1>0. /\ mode \in {"connecting", "handshake"} /\ mode' \in {"failed", "pump"} /\ first' = FALSE
      /\ maybeOff' = maybeOff \cup ToSet(subs)
      /\ UNCHANGED <<open, epoch, subs, todo, waiting, calls, wire, active, inbox, maybeOn>>
  BY DEF ConnectFails, OpeningFails, netVars
<1>1. inbox = <<>> /\ active = {} /\ todo = <<>> /\ ~Replaying
  BY <1>0 DEF Inv, Quiet, ReplayCalls
<1>2. Quiet'
  BY <1>0 DEF Inv, Quiet
<1>3. ReplayCalls'
  BY <1>0, <1>1 DEF Inv, ReplayCalls, Replaying
<1>4. RecordedIsOn'
  BY <1>0, <1>1 DEF RecordedIsOn, OnAfter
<1>5. UnrecordedIsOff'
  <2>1. \A e, n : OffAfter(e, n)'
    BY <1>0, <1>1 DEF OffAfter
  <2>2. \A i \in 1 .. Len(wire) : wire[i].id /= Replay
    BY <1>0 DEF Inv, ReplayCalls
  <2> QED BY <1>0, <1>1, <2>1, <2>2 DEF UnrecordedIsOff, ToSet
<1> QED BY <1>0, <1>2, <1>3, <1>4, <1>5, SamePipe DEF Inv

LEMMA HandshakenKeepsInv ==
    ASSUME Inv, TypeOK', NoDuplicates', Handshaken
    PROVE  Inv'
<1>0. /\ mode = "handshake" /\ open /\ first' = FALSE
      /\ mode' = IF first \/ subs = <<>> THEN "pump" ELSE "replay"
      /\ todo' = IF mode' = "replay" THEN subs ELSE <<>>
      /\ UNCHANGED <<open, epoch, subs, waiting, calls, wire, active, inbox, maybeOn, maybeOff>>
  BY DEF Handshaken, Authenticated, netVars, knowVars
<1>1. inbox = <<>> /\ active = {} /\ ~Replaying
  BY <1>0 DEF Inv, Quiet, ReplayCalls
<1>2. Quiet'
  BY <1>0 DEF Inv, Quiet
<1>3. ReplayCalls'
  BY <1>0, <1>1 DEF Inv, ReplayCalls, Replaying
<1>4. RecordedIsOn'
  <2>1. ASSUME NEW e \in ToSet(subs), mode' /= "replay" PROVE e \in maybeOff
    BY <1>0, <2>1 DEF Inv, Quiet, ToSet
  <2> QED BY <1>0, <1>1, <2>1 DEF RecordedIsOn, OnAfter
<1>5. UnrecordedIsOff'
  <2>1. \A e, n : OffAfter(e, n)'
    BY <1>0, <1>1 DEF OffAfter
  <2>2. \A i \in 1 .. Len(wire) : wire[i].id /= Replay
    BY <1>0 DEF Inv, ReplayCalls
  <2>3. \A e \in ToSet(todo') : Contains(subs, e)
    BY <1>0, ToSetContains DEF Inv, TypeOK, ToSet
  <2> QED BY <1>0, <1>1, <2>1, <2>2, <2>3 DEF UnrecordedIsOff
<1> QED BY <1>0, <1>2, <1>3, <1>4, <1>5, SamePipe DEF Inv

LEMMA ReplayOverKeepsInv ==
    ASSUME Inv, TypeOK', NoDuplicates', ReplayOver
    PROVE  Inv'
<1>0. /\ mode = "replay" /\ mode' = "pump" /\ todo = <<>> /\ ~Replaying
      /\ UNCHANGED <<first, open, epoch, subs, todo, waiting, calls, wire, active, inbox,
                     maybeOn, maybeOff>>
  BY DEF ReplayOver, Replayed, netVars, knowVars
<1>1. Quiet' /\ ReplayCalls'
  BY <1>0 DEF Inv, Quiet, ReplayCalls, Replaying
<1>2. RecordedIsOn' /\ UnrecordedIsOff'
  BY <1>0 DEF Inv, RecordedIsOn, UnrecordedIsOff, Live, OnAfter, OffAfter, Accepted, EndsBeforeReplay
<1> QED BY <1>0, <1>1, <1>2, SamePipe DEF Inv

LEMMA PumpEndsKeepsInv ==
    ASSUME Inv, TypeOK', NoDuplicates', PumpEnds
    PROVE  Inv'
<1>0. /\ mode = "pump" /\ mode' \in {"idle", "backoff", "crashed"} /\ ~open /\ inbox = <<>>
      /\ waiting' = <<>>
      /\ UNCHANGED <<first, open, epoch, subs, todo, calls, wire, active, inbox, maybeOn, maybeOff>>
  BY DEF PumpEnds, PumpReturns, netVars, knowVars
<1>1. wire' = <<>> /\ active' = {} /\ todo' = <<>> /\ ~first
  BY <1>0 DEF Inv, Quiet, ReplayCalls
<1>2. Quiet' /\ ReplayCalls'
  BY <1>0, <1>1 DEF Quiet, ReplayCalls, Replaying
<1> QED BY <1>0, <1>1, <1>2, NothingGoes, NotLive DEF Inv, Live

LEMMA StopBeginKeepsInv ==
    ASSUME Inv, TypeOK', NoDuplicates', StopBegin
    PROVE  Inv'
<1>0. /\ TypeOK /\ mode' = "stopping" /\ ~first /\ todo' = <<>>
      /\ UNCHANGED <<first, open, epoch, subs, calls, wire, active, inbox, maybeOn, maybeOff>>
  BY DEF Inv, StopBegin, StopBegins, netVars, knowVars
<1>1. /\ \A i \in 1 .. Len(waiting') : waiting'[i].id /= Replay
      /\ \A i \in 1 .. Len(waiting') : \E j \in 1 .. Len(waiting) : waiting'[i] = waiting[j]
      /\ \A j \in 1 .. Len(waiting) :
            waiting[j].id /= Replay => \E i \in 1 .. Len(waiting') : waiting'[i] = waiting[j]
      /\ \A i, j \in 1 .. Len(waiting') :
            i < j /\ waiting'[i].id /= Replay /\ waiting'[j].id /= Replay
            => waiting'[i].id < waiting'[j].id
  <2>1. CASE ~Replaying /\ UNCHANGED waiting
    BY <2>1 DEF Inv, Replaying, InOrder
  <2>2. ASSUME NEW r \in 1 .. Len(waiting), waiting[r].id = Replay,
               waiting' = RemoveAt(waiting, r)
        PROVE  <1>1!:
    <3>1. /\ Len(waiting') = Len(waiting) - 1 /\ Len(waiting) \in Nat
          /\ \A j \in 1 .. Len(waiting) - 1 :
                  waiting'[j] = waiting[IF j < r THEN j ELSE j + 1]
      BY <1>0, <2>2, RemoveAtProperties, Sizes DEF TypeOK
    <3>2. Removed(waiting, r, waiting')
      BY <3>1 DEF Removed
    <3>3. \A i \in 1 .. Len(waiting') : \E j \in 1 .. Len(waiting) : j /= r /\ waiting'[i] = waiting[j]
      BY <1>0, <3>2, RemovedAt
    <3>4. \A i \in 1 .. Len(waiting') : waiting'[i].id /= Replay
      BY <2>2, <3>3 DEF Inv, ReplayCalls
    <3>5. \A j \in 1 .. Len(waiting) :
            waiting[j].id /= Replay => \E i \in 1 .. Len(waiting') : waiting'[i] = waiting[j]
      BY <1>0, <2>2, <3>2, RemovedAt
    <3> QED BY <1>0, <3>2, <3>3, <3>4, <3>5, EndKeepsOrder
  <2> QED BY <2>1, <2>2 DEF StopBegin
<1>2. Pipe' = Pipe /\ PipeLen' = PipeLen
  BY <1>0 DEF Pipe, PipeLen
<1>3. Quiet'
  BY <1>0 DEF Inv, Quiet
<1>4. ReplayCalls'
  BY <1>0, <1>1 DEF Inv, ReplayCalls, Replaying
<1>5. InOrder'
  BY <1>0, <1>1, <1>2 DEF Inv, InOrder
<1>6. ReplayOutlasts'
  BY <1>0 DEF ReplayOutlasts
<1>7. SentIsKnown'
  BY <1>0, <1>1 DEF Inv, SentIsKnown
<1>8. SameNumber'
  BY <1>0, <1>1 DEF Inv, SameNumber
<1> QED BY <1>0, <1>3, <1>4, <1>5, <1>6, <1>7, <1>8, NotLive DEF Inv, Live

LEMMA StopEndKeepsInv ==
    ASSUME Inv, TypeOK', NoDuplicates', StopEnd
    PROVE  Inv'
<1>0. /\ mode \in {"stopping", "failed", "crashed"} /\ mode' = "idle" /\ open' = FALSE
      /\ waiting' = <<>> /\ todo' = <<>> /\ wire' = <<>> /\ active' = {} /\ inbox' = <<>>
      /\ UNCHANGED <<first, subs, calls, maybeOn, maybeOff>>
  BY DEF StopEnd, StopIsOver, knowVars
<1>1. ~first'
  BY <1>0 DEF Inv, Quiet
<1>2. Quiet' /\ ReplayCalls'
  BY <1>0, <1>1 DEF Quiet, ReplayCalls, Replaying
<1> QED BY <1>0, <1>2, NothingGoes, NotLive DEF Inv, Live

LEMMA InitInv == Init => Inv
<1> SUFFICES ASSUME Init PROVE Inv
  OBVIOUS
<1>1. Quiet /\ ReplayCalls
  BY DEF Init, LineInit, Quiet, ReplayCalls, Replaying
<1>2. PipeLen = 0
  BY DEF Init, PipeLen
<1>3. InOrder /\ ReplayOutlasts /\ SentIsKnown /\ SameNumber
  BY <1>2 DEF Init, InOrder, ReplayOutlasts, SentIsKnown, SameNumber
<1>4. ~Live
  BY DEF Init, LineInit, Live
<1> QED BY <1>1, <1>3, <1>4, InitType DEF Inv, RecordedIsOn, UnrecordedIsOff

\* Each step keeps the inductive invariant.
LEMMA StepKeepsInv == Inv /\ [Next]_vars => Inv'
<1> SUFFICES ASSUME Inv, [Next]_vars PROVE Inv'
  OBVIOUS
<1>0. TypeOK' /\ NoDuplicates'
  BY TypeStep DEF Inv
<1>1. CASE UNCHANGED vars
  <2>1. UNCHANGED <<mode, first, open, epoch, subs, todo, waiting, calls, wire, active, inbox, maybeOn, maybeOff>>
    BY <1>1 DEF vars, envVars, netVars, knowVars
  <2>2. Quiet' /\ ReplayCalls'
    BY <2>1 DEF Inv, Quiet, ReplayCalls, Replaying
  <2>3. RecordedIsOn' /\ UnrecordedIsOff'
    BY <2>1 DEF Inv, RecordedIsOn, UnrecordedIsOff, Live, OnAfter, OffAfter, Accepted,
                EndsBeforeReplay
  <2> QED BY <1>0, <2>1, <2>2, <2>3, SamePipe DEF Inv
<1> QED
  BY <1>0, <1>1, CallKeepsInv, ReadKeepsInv, TimeOutKeepsInv, ReplayNextKeepsInv,
     ReplayOverKeepsInv, ServeKeepsInv, DropKeepsInv, ConnectKeepsInv, ConnectedKeepsInv,
     ConnectFailsKeepsInv, HandshakenKeepsInv, PumpEndsKeepsInv, StopBeginKeepsInv,
     StopEndKeepsInv DEF Next

\* The inductive invariant: what is recorded, what the venue has on, what is on
\* its way and what is known of it fit together in every state.
THEOREM InvAlways == Spec => []Inv
BY InitInv, StepKeepsInv, PTL DEF Spec
----------------------------------------------------------------------------
(* The registry and the venue. *)

\* Of some positions in a sequence, one is the last.
LEMMA LastIndex ==
    ASSUME NEW n \in Nat, NEW T \in SUBSET (1 .. n), T /= {}
    PROVE  \E m \in T : \A k \in T : k <= m
<1> DEFINE After(m) == {k \in T : k > m}
           Sets == {After(m) : m \in T}
           Less == StrictSubsetOrdering(1 .. n)
<1>1. IsWellFoundedOn(Less, FiniteSubsetsOf(1 .. n))
  BY FS_StrictSubsetOrderingWellFounded
<1>2. Sets \subseteq FiniteSubsetsOf(1 .. n) /\ Sets /= {}
  <2>1. IsFiniteSet(1 .. n)
    BY FS_Interval
  <2>2. \A U \in SUBSET (1 .. n) : IsFiniteSet(U)
    BY <2>1, FS_Subset
  <2> QED BY <2>2 DEF FiniteSubsetsOf
<1>3. PICK U \in Sets : \A V \in Sets : ~(<<V, U>> \in Less)
  <2> HIDE DEF Less, Sets
  <2> QED BY <1>1, <1>2, WFMin
<1>4. PICK m \in T : U = After(m)
  OBVIOUS
<1>5. ASSUME NEW k \in T, k > m PROVE FALSE
  <2>1. After(k) \subseteq After(m) /\ k \in After(m) /\ k \notin After(k)
    <3>1. \A j \in T : j \in Int
      OBVIOUS
    <3>2. \A j \in T : j > k => j > m
      BY <1>5, <3>1
    <3>3. ~(k > k)
      BY <3>1
    <3> QED BY <1>5, <3>2, <3>3
  <2>2. /\ After(k) \in FiniteSubsetsOf(1 .. n) /\ After(m) \in FiniteSubsetsOf(1 .. n)
        /\ After(k) \in Sets
    BY <1>2
  <2> HIDE DEF After, Sets
  <2>3. <<After(k), After(m)>> \in Less
    BY <2>1, <2>2 DEF StrictSubsetOrdering, FiniteSubsetsOf
  <2> QED BY <1>3, <1>4, <2>2, <2>3
<1> QED BY <1>5

LEMMA LastFrame ==
    ASSUME TypeOK, NEW e, NEW i \in 1 .. Len(wire), wire[i].entry = e
    PROVE  \E j \in 1 .. Len(wire) : IsLastAbout(e, j)
<1> DEFINE T == {j \in 1 .. Len(wire) : wire[j].entry = e}
<1>1. PICK m \in T : \A k \in T : k <= m
  <2>1. T \in SUBSET (1 .. Len(wire)) /\ T /= {} /\ Len(wire) \in Nat
    BY Sizes
  <2> HIDE DEF T
  <2> QED BY <2>1, LastIndex
<1>2. \A j \in m + 1 .. Len(wire) : wire[j].entry /= e
  BY <1>1, Sizes
<1> QED BY <1>1, <1>2 DEF IsLastAbout

\* Every variable stays in its type, whatever the bounds: a call and an answer
\* have a number that was given out, the registry holds entries only.
THEOREM SubscriptionsTypeCorrect == Spec => []TypeOK
<1>1. Inv => TypeOK
  BY DEF Inv
<1> QED BY <1>1, InvAlways, PTL

\* No entry is recorded twice, although subscribe() tests for it only after its
\* await and several calls about one entry overlap.
THEOREM NothingIsRecordedTwice == Spec => []NoDuplicates
<1>1. Inv => NoDuplicates
  BY DEF Inv
<1> QED BY <1>1, InvAlways, PTL

\* While the pump reads, each recorded entry is on, or will be when the venue
\* has served what it was sent, unless a call about it had no answer or was
\* refused: through drops, reconnects, replays and overlapping calls.
THEOREM RegistryStaysLive == Spec => []RegistryIsLive
<1>1. Inv => RegistryIsLive
  <2> SUFFICES ASSUME Inv, mode = "pump", open, NEW e \in ToSet(subs)
               PROVE  e \in Effective \/ e \in maybeOff \/ InFlight("unsubscribe", e)
    BY DEF RegistryIsLive
  <2>1. TypeOK /\ Live /\ ToSet(todo) = {}
    BY DEF Inv, Live, ReplayCalls, ToSet
  <2>2. e \in Entries
    BY <2>1, LenProperties DEF TypeOK, ToSet
  <2>3. OnAfter(e, 0)
    BY <2>1 DEF Inv, RecordedIsOn
  <2>4. CASE \E i \in 1 .. Len(wire) : wire[i].entry = e
    <3>1. PICK i \in 1 .. Len(wire) : IsLastAbout(e, i)
      BY <2>1, <2>4, LastFrame
    <3>2. wire[i].entry = e /\ wire[i].op \in {"subscribe", "unsubscribe"}
      BY <2>1, <3>1, Sizes, CallTypes DEF IsLastAbout, Ops
    <3>3. CASE wire[i].op = "subscribe"
      BY <2>2, <3>1, <3>3 DEF Effective
    <3>4. CASE wire[i].op = "unsubscribe"
      <4>1. wire[i].id /= Replay
        BY <3>4 DEF Inv, ReplayCalls
      <4> QED BY <3>2, <3>4, <4>1 DEF Inv, SentIsKnown, InFlight
    <3> QED BY <3>2, <3>3, <3>4
  <2>5. CASE \A i \in 1 .. Len(wire) : wire[i].entry /= e
    <3>1. e \in active => e \in Effective
      BY <2>2, <2>5 DEF Effective
    <3>2. Accepted("unsubscribe", e, 0) => InFlight("unsubscribe", e)
      BY DEF Accepted, InFlight
    <3> QED BY <2>3, <2>5, <3>1, <3>2 DEF OnAfter
  <2> QED BY <2>4, <2>5
<1> QED BY <1>1, InvAlways, PTL

\* While the pump reads, what is on, or will be, is recorded, or a subscribe()
\* about it is out or ended unrecorded: an entry unsubscribed while a replay
\* of the old snapshot ran does not come back on.
THEOREM UnsubscribedStaysOff == Spec => []OffStaysOff
<1>1. Inv => OffStaysOff
  <2> SUFFICES ASSUME Inv, mode = "pump", open, NEW e \in Effective
               PROVE  Contains(subs, e) \/ e \in maybeOn \/ InFlight("subscribe", e)
    BY DEF OffStaysOff
  <2>1. Live /\ e \in Entries
    BY DEF Live, Effective
  <2>2. CASE \E i \in 1 .. Len(wire) : IsLastAbout(e, i) /\ wire[i].op = "subscribe"
    <3>1. PICK i \in 1 .. Len(wire) : wire[i].entry = e /\ wire[i].op = "subscribe"
      BY <2>2 DEF IsLastAbout
    <3>2. CASE wire[i].id = Replay
      BY <2>1, <3>1, <3>2 DEF Inv, UnrecordedIsOff
    <3>3. CASE wire[i].id /= Replay
      BY <3>1, <3>3 DEF Inv, SentIsKnown, InFlight
    <3> QED BY <3>2, <3>3
  <2>3. CASE e \in active
    <3>1. Contains(subs, e) \/ OffAfter(e, 0)
      BY <2>1 DEF Inv, UnrecordedIsOff
    <3>2. Accepted("subscribe", e, 0) => InFlight("subscribe", e)
      BY DEF Accepted, InFlight
    <3> QED BY <2>3, <3>1, <3>2 DEF OffAfter
  <2> QED BY <2>2, <2>3 DEF Effective
<1> QED BY <1>1, InvAlways, PTL
----------------------------------------------------------------------------
(* The environment. *)

\* The registry, the replay and the venue leave the connection to the
\* lifecycle: what happens to it is what module Connectivity says, and so what
\* Supervisor implements.
THEOREM SubscriptionsStayOnTheLine == Spec => LineSpec
<1>1. Init => LineInit
  BY DEF Init
<1>2. [Next]_vars => [LineNext]_envVars
  <2> SUFFICES ASSUME [Next]_vars PROVE LineNext \/ UNCHANGED envVars
    OBVIOUS
  <2>1. CASE \/ \E op \in Ops, e \in Entries, persist \in BOOLEAN : Call(op, e, persist)
             \/ Read \/ TimeOut \/ ReplayNext \/ \E ok \in BOOLEAN : Serve(ok)
    BY <2>1 DEF Call, Read, TimeOut, ReplayNext, Serve
  <2>2. CASE ReplayOver \/ Drop \/ \E b \in BOOLEAN : Connect(b)
    BY <2>2 DEF ReplayOver, Drop, Connect, LineNext
  <2>3. CASE Connected \/ ConnectFails \/ Handshaken \/ PumpEnds \/ StopBegin \/ StopEnd
    BY <2>3 DEF Connected, ConnectFails, Handshaken, PumpEnds, StopBegin, StopEnd, LineNext
  <2>4. CASE UNCHANGED vars
    BY <2>4 DEF vars
  <2> QED BY <2>1, <2>2, <2>3, <2>4 DEF Next
<1> QED BY <1>1, <1>2, PTL DEF Spec, LineSpec
============================================================================
