--------------------------- MODULE DispatchProofs ---------------------------
(***************************************************************************)
(* Theorems about Dispatch, for any handlers, methods and bounds: a frame  *)
(* reaches every handler that stays registered, once and in order, while   *)
(* handlers and coroutines change the registry between two calls; a reply  *)
(* reaches the caller it names, and the caller learns the verdict.         *)
(*                                                                         *)
(* The argument follows the snapshot that is being worked off: a handler   *)
(* that was registered throughout was called, is left of the snapshot, or  *)
(* is one of "*", whose snapshot is not taken yet.                         *)
(***************************************************************************)
EXTENDS Dispatch, SequenceLemmas

\* The list whose handlers are being called.
Source == IF phase = "star" THEN "*" ELSE ChannelOf(exchange, frame)

\* Whether a handler that was on the list throughout is called before another.
ComesBefore(p, q) == Before(Registered(p[1]), p[2], q[2])

\* How the client reads a verdict.
ErrorFor(verdict) ==
    IF verdict = "accepted" THEN NoException
    ELSE IF verdict = "WebSocketRequestError" THEN WebSocketRequestError
    ELSE FromResponse(verdict, Absent, Absent)

\* OKX answers under the name of the method: none is called "error".
RequestsAreSupported ==
    /\ Len(sent) <= MaxRequests
    /\ \A i \in 1 .. Len(sent) : Supports(exchange, sent[i])

\* The frame is of a channel, or of none; a reply is read as what was meant.
FrameIsRead ==
    /\ ChannelOf(exchange, frame) \in Channels \cup {Absent}
    /\ phase = "resolve" =>
        /\ ResponseKey(exchange, frame) =
                IF NamesARequest THEN WaitsUnder(exchange, about.n) ELSE NoId
        /\ NamesARequest =>
                about.verdict \in Verdicts /\ ErrorOf(exchange, frame) = ErrorFor(about.verdict)

\* What the last frame made of its caller's request.
OutcomeIsRead ==
    outcome.n /= NoRequest =>
        about.verdict \in Verdicts /\ outcome.exc = ErrorFor(about.verdict)

\* Nothing is delivered before the reply was looked for, and a frame of no
\* channel is handed to no handler of a channel.
Settled ==
    /\ phase \in {"idle", "resolve"} => todo = <<>> /\ always = {} /\ called = <<>>
    /\ todo /= <<>> => Source \in Lists

\* Who was on a list throughout is on it now.
StillRegistered == \A p \in always : Contains(Registered(p[1]), p[2])

\* Nobody is called twice, nor is to be called again.
CalledOnce ==
    /\ IsInjective(todo) /\ IsInjective(called)
    /\ \A i \in 1 .. Len(called) :
        /\ called[i][1] \in {ChannelOf(exchange, frame), Source}
        /\ \A j \in 1 .. Len(todo) : called[i] /= <<Source, todo[j]>>

\* Nobody who was registered throughout is passed over.
NobodyIsMissed ==
    \A p \in always :
        \/ Contains(called, p)
        \/ p[1] = Source /\ Contains(todo, p[2])
        \/ phase = "channel" /\ p[1] = "*"

\* The order of registration, among those called, between these and those left,
\* and among those left.
OrderIsKept ==
    /\ \A i, j \in 1 .. Len(called) :
        /\ i < j /\ called[i][1] = called[j][1]
        /\ called[i] \in always /\ called[j] \in always
        => ComesBefore(called[i], called[j])
    /\ \A i \in 1 .. Len(called), j \in 1 .. Len(todo) :
        /\ called[i][1] = Source
        /\ called[i] \in always /\ <<Source, todo[j]>> \in always
        => ComesBefore(called[i], <<Source, todo[j]>>)
    /\ \A i, j \in 1 .. Len(todo) :
        /\ i < j
        /\ <<Source, todo[i]>> \in always /\ <<Source, todo[j]>> \in always
        => ComesBefore(<<Source, todo[i]>>, <<Source, todo[j]>>)

Delivering == StillRegistered /\ CalledOnce /\ NobodyIsMissed /\ OrderIsKept

\* The inductive invariant.
Inv ==
    /\ TypeOK /\ RequestsAreSupported
    /\ FrameIsRead /\ OutcomeIsRead
    /\ Settled /\ Delivering
----------------------------------------------------------------------------
(* The registry. *)

LEMMA RegisteredType ==
    ASSUME TypeOK
    PROVE  \A c : Registered(c) \in Seq(Handlers) /\ IsInjective(Registered(c))
BY EmptySeq DEF TypeOK, Registered, IsInjective

LEMMA PutRegistered ==
    ASSUME NEW c \in Lists, NEW seq \in Seq(Handlers), IsInjective(seq), TypeOK, Put(c, seq)
    PROVE  /\ \A l : Registered(l)' = IF l = c THEN seq ELSE Registered(l)
           /\ DOMAIN handlers' \subseteq Lists
           /\ \A l \in DOMAIN handlers' :
                handlers'[l] \in Seq(Handlers) /\ IsInjective(handlers'[l])
<1>1. /\ DOMAIN handlers' = DOMAIN handlers \cup {c}
      /\ \A l \in DOMAIN handlers \cup {c} :
            handlers'[l] = IF l = c THEN seq ELSE handlers[l]
  BY DEF Put
<1>2. \A l : Registered(l)' = IF l = c THEN seq ELSE Registered(l)
  BY <1>1 DEF Registered
<1> QED BY <1>1, <1>2 DEF TypeOK

\* What every change of the registry leaves to a delivery: those that are still
\* registered throughout were so before, and stand in the order in which they did.
RegistryKept ==
    /\ DOMAIN handlers' \subseteq Lists
    /\ \A l \in DOMAIN handlers' : handlers'[l] \in Seq(Handlers) /\ IsInjective(handlers'[l])
    /\ always' \subseteq always
    /\ \A p \in always' : Contains(Registered(p[1]), p[2]) => Contains(Registered(p[1])', p[2])
    /\ \A p, q \in always' : p[1] = q[1] /\ ComesBefore(p, q) => ComesBefore(p, q)'

LEMMA AddKeeps ==
    ASSUME NEW c \in Lists, NEW h \in Handlers, TypeOK, AddHandler(c, h)
    PROVE  RegistryKept
<1> DEFINE seq == Registered(c)
<1>1. seq \in Seq(Handlers) /\ IsInjective(seq)
  BY RegisteredType
<1>2. ~Contains(seq, h) /\ Put(c, Append(seq, h)) /\ always' = always
  BY DEF AddHandler, frameVars
<1> HIDE DEF seq
<1>3. Append(seq, h) \in Seq(Handlers) /\ IsInjective(Append(seq, h))
  BY <1>1, <1>2, AppendProperties, AppendKeepsInjective
<1>4. /\ \A l : Registered(l)' = IF l = c THEN Append(seq, h) ELSE Registered(l)
      /\ DOMAIN handlers' \subseteq Lists
      /\ \A l \in DOMAIN handlers' :
            handlers'[l] \in Seq(Handlers) /\ IsInjective(handlers'[l])
  BY <1>2, <1>3, PutRegistered
<1>5. /\ \A d : Contains(seq, d) => Contains(Append(seq, h), d)
      /\ \A a, b : Before(seq, a, b) => Before(Append(seq, h), a, b)
  BY <1>1, AppendContains, AppendBefore
<1>6. seq = Registered(c)
  BY DEF seq
<1>7. \A p, q : ComesBefore(p, q)' <=> Before(Registered(p[1])', p[2], q[2])
  BY DEF ComesBefore, Before
<1> QED BY <1>2, <1>4, <1>5, <1>6, <1>7 DEF RegistryKept, ComesBefore

LEMMA RemoveKeeps ==
    ASSUME NEW c \in Lists, NEW h \in Handlers, TypeOK, RemoveHandler(c, h)
    PROVE  RegistryKept
<1> DEFINE seq == Registered(c)
           rest == RemoveFirst(seq, h)
<1>1. seq \in Seq(Handlers) /\ IsInjective(seq)
  BY RegisteredType
<1>2. Put(c, rest) /\ always' = always \ {<<c, h>>} /\ always \subseteq Lists \X Handlers
  BY DEF RemoveHandler, TypeOK
<1>3. rest \in Seq(Handlers) /\ IsInjective(rest)
  BY <1>1, RemoveFirstProperties
<1>4. /\ \A d : d /= h /\ Contains(seq, d) => Contains(rest, d)
      /\ \A a, b : a /= h /\ b /= h /\ Before(seq, a, b) => Before(rest, a, b)
  BY <1>1, RemoveFirstProperties, RemoveFirstBefore
<1>5. seq = Registered(c)
  OBVIOUS
<1> HIDE DEF seq, rest
<1>6. /\ \A l : Registered(l)' = IF l = c THEN rest ELSE Registered(l)
      /\ DOMAIN handlers' \subseteq Lists
      /\ \A l \in DOMAIN handlers' :
            handlers'[l] \in Seq(Handlers) /\ IsInjective(handlers'[l])
  BY <1>2, <1>3, PutRegistered
<1>7. \A p \in always' : p[1] = c => p[2] /= h
  BY <1>2
<1>8. \A p, q : ComesBefore(p, q)' <=> Before(Registered(p[1])', p[2], q[2])
  BY DEF ComesBefore, Before
<1> QED BY <1>2, <1>4, <1>5, <1>6, <1>7, <1>8 DEF RegistryKept, ComesBefore

LEMMA ClearKeeps ==
    ASSUME NEW cs, TypeOK, ClearHandlers(cs)
    PROVE  RegistryKept
<1>1. /\ DOMAIN handlers' = DOMAIN handlers \ cs
      /\ \A l \in DOMAIN handlers \ cs : handlers'[l] = handlers[l]
      /\ always' = {p \in always : p[1] \notin cs}
  BY DEF ClearHandlers
<1>2. \A l : l \notin cs => Registered(l)' = Registered(l)
  BY <1>1 DEF Registered
<1>3. \A p, q : ComesBefore(p, q)' <=> Before(Registered(p[1])', p[2], q[2])
  BY DEF ComesBefore, Before
<1> QED BY <1>1, <1>2, <1>3 DEF RegistryKept, ComesBefore, TypeOK

\* A change of the registry under a delivery.
LEMMA DeliveringKept ==
    ASSUME Delivering, RegistryKept, UNCHANGED <<exchange, frame, phase, todo, called>>
    PROVE  Delivering'
<1>1. Source' = Source /\ ChannelOf(exchange, frame)' = ChannelOf(exchange, frame)
  BY DEF Source
<1>2. StillRegistered'
  BY DEF Delivering, StillRegistered, RegistryKept
<1>3. CalledOnce'
  BY <1>1 DEF Delivering, CalledOnce
<1>4. NobodyIsMissed'
  BY <1>1 DEF Delivering, NobodyIsMissed, RegistryKept
<1>5. OrderIsKept'
  <2> DEFINE C(p, q) == ComesBefore(p, q)
             D(p, q) == ComesBefore(p, q)'
  <2>1. \A p, q \in always' : p[1] = q[1] /\ C(p, q) => D(p, q)
    BY DEF RegistryKept
  <2>2. always' \subseteq always
    BY DEF RegistryKept
  <2>3. /\ \A i, j \in 1 .. Len(called) :
            /\ i < j /\ called[i][1] = called[j][1]
            /\ called[i] \in always /\ called[j] \in always
            => C(called[i], called[j])
        /\ \A i \in 1 .. Len(called), j \in 1 .. Len(todo) :
            /\ called[i][1] = Source
            /\ called[i] \in always /\ <<Source, todo[j]>> \in always
            => C(called[i], <<Source, todo[j]>>)
        /\ \A i, j \in 1 .. Len(todo) :
            /\ i < j
            /\ <<Source, todo[i]>> \in always /\ <<Source, todo[j]>> \in always
            => C(<<Source, todo[i]>>, <<Source, todo[j]>>)
    BY DEF Delivering, OrderIsKept
  <2> HIDE DEF C
  <2>4. /\ \A i, j \in 1 .. Len(called) :
            /\ i < j /\ called[i][1] = called[j][1]
            /\ called[i] \in always' /\ called[j] \in always'
            => D(called[i], called[j])
        /\ \A i \in 1 .. Len(called), j \in 1 .. Len(todo) :
            /\ called[i][1] = Source
            /\ called[i] \in always' /\ <<Source, todo[j]>> \in always'
            => D(called[i], <<Source, todo[j]>>)
        /\ \A i, j \in 1 .. Len(todo) :
            /\ i < j
            /\ <<Source, todo[i]>> \in always' /\ <<Source, todo[j]>> \in always'
            => D(<<Source, todo[i]>>, <<Source, todo[j]>>)
    <3> HIDE DEF D
    <3>1. ASSUME NEW i \in 1 .. Len(called), NEW j \in 1 .. Len(called),
                 i < j, called[i][1] = called[j][1],
                 called[i] \in always', called[j] \in always'
          PROVE  D(called[i], called[j])
      BY <2>1, <2>2, <2>3, <3>1
    <3>2. ASSUME NEW i \in 1 .. Len(called), NEW j \in 1 .. Len(todo),
                 called[i][1] = Source,
                 called[i] \in always', <<Source, todo[j]>> \in always'
          PROVE  D(called[i], <<Source, todo[j]>>)
      <4>1. <<Source, todo[j]>>[1] = Source
        OBVIOUS
      <4> QED BY <2>1, <2>2, <2>3, <3>2, <4>1
    <3>3. ASSUME NEW i \in 1 .. Len(todo), NEW j \in 1 .. Len(todo), i < j,
                 <<Source, todo[i]>> \in always', <<Source, todo[j]>> \in always'
          PROVE  D(<<Source, todo[i]>>, <<Source, todo[j]>>)
      <4>1. <<Source, todo[i]>>[1] = Source /\ <<Source, todo[j]>>[1] = Source
        OBVIOUS
      <4> QED BY <2>1, <2>2, <2>3, <3>3, <4>1
    <3> QED BY <3>1, <3>2, <3>3
  <2> QED BY <1>1, <2>4 DEF OrderIsKept
<1> QED BY <1>2, <1>3, <1>4, <1>5 DEF Delivering
----------------------------------------------------------------------------
(* Replies. *)

LEMMA KeysDiffer ==
    \A m, n : /\ WaitsUnder(exchange, n) /= NoId
              /\ WaitsUnder(exchange, m) = WaitsUnder(exchange, n) => m = n
BY DEF WaitsUnder, NoId, Number, String

\* SMT has to be told that a value is a record with these fields.
IsFrame(g) ==
    g = [event |-> g.event, success |-> g.success, id |-> g.id, reqId |-> g.reqId,
         channel |-> g.channel, argChannel |-> g.argChannel, code |-> g.code,
         error |-> g.error, detail |-> g.detail]

\* What a reply says, whatever its form.
LEMMA RepliesRead ==
    ASSUME exchange \in Exchanges, NEW n \in 1 .. Len(sent), Supports(exchange, sent[n]),
           NEW verdict \in Verdicts, NEW f \in Replies(n, verdict)
    PROVE  /\ ChannelOf(exchange, f) \in Channels \cup {Absent}
           /\ ResponseKey(exchange, f) =
                IF f.id /= NoId \/ f.reqId /= NoId THEN WaitsUnder(exchange, n) ELSE NoId
           /\ ErrorOf(exchange, f) = ErrorFor(verdict)
<1> DEFINE request == RequestFrame(exchange, sent[n], n, Absent)
           echo == [EmptyFrame EXCEPT
                       !.id = request.id,
                       !.reqId = IF request.id = NoId THEN request.reqId ELSE NoId]
           error == [echo EXCEPT !.event = "error"]
<1>1. \/ request.id = WaitsUnder(exchange, n)
      \/ exchange = "kraken" /\ request.id = NoId /\ request.reqId = WaitsUnder(exchange, n)
  BY DEF Exchanges, RequestFrame, WaitsUnder
<1> HIDE DEF request
<1>2. /\ echo.event = Absent /\ echo.success = TRUE /\ echo.channel = Absent
      /\ echo.argChannel = Absent /\ echo.code = Absent /\ echo.error = NoError
      /\ echo.detail = Absent
      /\ echo.id = request.id
      /\ echo.reqId = IF request.id = NoId THEN request.reqId ELSE NoId
      /\ IsFrame(echo)
  <2>1. /\ EmptyFrame.event = Absent /\ EmptyFrame.success = TRUE
        /\ EmptyFrame.channel = Absent /\ EmptyFrame.argChannel = Absent
        /\ EmptyFrame.code = Absent /\ EmptyFrame.error = NoError
        /\ EmptyFrame.detail = Absent /\ IsFrame(EmptyFrame)
    BY DEF EmptyFrame, IsFrame
  <2> DEFINE k == IF request.id = NoId THEN request.reqId ELSE NoId
             q == [EmptyFrame EXCEPT !.id = request.id]
  <2>2. /\ q.event = Absent /\ q.success = TRUE /\ q.channel = Absent
        /\ q.argChannel = Absent /\ q.code = Absent /\ q.error = NoError
        /\ q.detail = Absent /\ q.id = request.id
        /\ IsFrame(q)
    BY <2>1 DEF IsFrame
  <2>3. echo = [q EXCEPT !.reqId = k]
    OBVIOUS
  <2>4. k = IF request.id = NoId THEN request.reqId ELSE NoId
    OBVIOUS
  <2> HIDE DEF echo, q, k
  <2> QED BY <2>2, <2>3, <2>4 DEF IsFrame
<1> DEFINE Keyed(g) == /\ g.channel = Absent /\ g.argChannel \in {Absent, "book"}
                       /\ g.detail = Absent
                       /\ \/ g.id = echo.id /\ g.reqId = echo.reqId
                          \/ g.id = NoId /\ g.reqId = NoId
<1> HIDE DEF echo
<1>3. Keyed(f) => /\ ChannelOf(exchange, f) \in Channels \cup {Absent}
                  /\ ResponseKey(exchange, f) =
                        IF f.id /= NoId \/ f.reqId /= NoId THEN WaitsUnder(exchange, n) ELSE NoId
  BY <1>1, <1>2, KeysDiffer DEF ChannelOf, ResponseKey, Channels, Exchanges
<1>4. CASE verdict = "accepted"
  <2>1. f \in (IF exchange = "okx"
               THEN {[echo EXCEPT !.event = sent[n], !.argChannel = "book"]}
               ELSE {echo, [echo EXCEPT !.event = "result"]})
    BY <1>4 DEF Replies, echo, request
  <2>2. f.success = TRUE /\ f.event /= "error" /\ Keyed(f)
    BY <1>2, <2>1 DEF IsFrame, Supports, SubscribeMethods, Exchanges, Absent
  <2> QED BY <1>3, <1>4, <2>2 DEF ErrorOf, ErrorFor
<1>5. CASE verdict = "WebSocketRequestError"
  <2>1. exchange = "kraken" /\ f = [echo EXCEPT !.success = FALSE]
    BY <1>5 DEF Replies, echo, request
  <2>2. f.success = FALSE /\ f.event /= "error" /\ Keyed(f)
    BY <1>2, <2>1 DEF IsFrame, Absent
  <2> QED BY <1>3, <1>5, <2>1, <2>2 DEF ErrorOf, ErrorFor
<1>6. CASE verdict \in {"RATE_LIMITED", NewCode}
  <2>1. \/ f = [error EXCEPT !.code = verdict]
        \/ f = [error EXCEPT !.code = verdict, !.id = NoId, !.reqId = NoId]
        \/ exchange = "kraken" /\ f = [error EXCEPT !.error = ErrorObject(verdict, Absent)]
    BY <1>6 DEF Replies, echo, request, NewCode
  <2>2. /\ error.event = "error" /\ error.success = TRUE /\ error.channel = Absent
        /\ error.argChannel = Absent /\ error.code = Absent /\ error.error = NoError
        /\ error.detail = Absent /\ error.id = echo.id /\ error.reqId = echo.reqId
        /\ IsFrame(error)
    BY <1>2 DEF IsFrame
  <2> HIDE DEF error
  <2>3. f.event = "error" /\ Keyed(f) /\ f.detail = Absent
    BY <2>1, <2>2 DEF IsFrame
  <2>4. \/ f.code = verdict /\ f.error = NoError
        \/ exchange = "kraken" /\ f.error = ErrorObject(verdict, Absent)
    BY <2>1, <2>2 DEF IsFrame
  <2>5. verdict /= Absent /\ verdict /= "accepted" /\ verdict /= "WebSocketRequestError"
    BY <1>6 DEF NewCode, Absent
  <2>6. ErrorOf(exchange, f) = FromResponse(verdict, Absent, Absent)
    BY <2>3, <2>4, <2>5 DEF ErrorOf, Get, NoError, ErrorObject, ErrorMember, Absent
  <2> QED BY <1>3, <2>3, <2>5, <2>6 DEF ErrorFor
<1> QED BY <1>4, <1>5, <1>6 DEF Verdicts

LEMMA PushRead ==
    ASSUME exchange \in Exchanges, NEW c \in Channels
    PROVE  /\ ChannelOf(exchange, Push(c)) \in Channels \cup {Absent}
           /\ Push(c).id = NoId /\ Push(c).reqId = NoId
BY DEF Push, ChannelOf, EmptyFrame, Exchanges

LEMMA IdleFrame ==
    ChannelOf(exchange, EmptyFrame) = Absent
BY DEF ChannelOf, EmptyFrame

\* What a verdict is read as.
LEMMA ErrorsRead ==
    ASSUME NEW verdict \in Verdicts
    PROVE  /\ ErrorFor(verdict) \in Outcomes
           /\ IF verdict = "accepted" THEN ErrorFor(verdict) = NoException
              ELSE /\ ErrorFor(verdict).code = verdict
                   /\ Retryable(ErrorFor(verdict)) =
                        IF verdict = "RATE_LIMITED" THEN "yes" ELSE "no"
BY DEF Verdicts, NewCode, ErrorFor, Outcomes, NoException, WebSocketRequestError,
       FromResponse, Error, Retryable, ByCode, Final, Transient, Depends, Absent
----------------------------------------------------------------------------
(* Steps. *)

LEMMA InitInv == Init => Inv
<1> SUFFICES ASSUME Init PROVE Inv
  OBVIOUS
<1>1. /\ sent = <<>> /\ todo = <<>> /\ called = <<>> /\ always = {} /\ phase = "idle"
      /\ frame = EmptyFrame /\ DOMAIN handlers = {} /\ outcome.n = NoRequest
      /\ Len(<<>>) = 0
  BY DEF Init
<1>2. /\ <<>> \in Seq(Methods) /\ <<>> \in Seq(Handlers) /\ <<>> \in Seq(Lists \X Handlers)
      /\ IsInjective(<<>>) /\ 1 .. 0 = {}
  BY EmptySeq DEF IsInjective
<1>3. outcome \in [n : Requests \cup {NoRequest}, exc : Outcomes]
  BY DEF Init, Outcomes
<1>4. TypeOK
  BY <1>1, <1>2, <1>3 DEF Init, TypeOK, Phases
<1>5. RequestsAreSupported
  BY <1>1, DispatchAssumption DEF RequestsAreSupported
<1>6. FrameIsRead
  BY <1>1, IdleFrame DEF FrameIsRead
<1>7. OutcomeIsRead /\ Settled
  BY <1>1 DEF OutcomeIsRead, Settled
<1>8. Delivering
  BY <1>1, <1>2 DEF Delivering, StillRegistered, CalledOnce, NobodyIsMissed, OrderIsKept
<1> QED BY <1>4, <1>5, <1>6, <1>7, <1>8 DEF Inv

\* A frame is done with.
LEMMA IdleKeeps ==
    ASSUME Inv, Idle, UNCHANGED <<exchange, handlers>>
    PROVE  /\ FrameIsRead' /\ Settled' /\ Delivering'
           /\ todo' \in Seq(Handlers) /\ always' \subseteq Lists \X Handlers
           /\ called' \in Seq(Lists \X Handlers) /\ phase' \in Phases
<1>1. /\ phase' = "idle" /\ todo' = <<>> /\ called' = <<>> /\ always' = {}
      /\ ChannelOf(exchange, frame)' = Absent /\ Len(<<>>) = 0
  BY IdleFrame DEF Idle, ChannelOf
<1>2. /\ <<>> \in Seq(Handlers) /\ <<>> \in Seq(Lists \X Handlers)
      /\ IsInjective(<<>>) /\ 1 .. 0 = {}
  BY EmptySeq DEF IsInjective
<1>3. FrameIsRead' /\ Settled'
  BY <1>1 DEF FrameIsRead, Settled
<1>4. Delivering'
  BY <1>1, <1>2 DEF Delivering, StillRegistered, CalledOnce, NobodyIsMissed, OrderIsKept
<1> QED BY <1>1, <1>2, <1>3, <1>4 DEF Phases

LEMMA RegistryStep ==
    ASSUME Inv, RegistryKept,
           UNCHANGED <<exchange, callerVars, reading, frame, phase, todo, called>>
    PROVE  Inv'
<1>1. TypeOK'
  BY DEF Inv, TypeOK, RegistryKept, callerVars
<1>2. RequestsAreSupported' /\ OutcomeIsRead'
  BY DEF Inv, RequestsAreSupported, OutcomeIsRead, callerVars
<1>3. FrameIsRead'
  BY DEF Inv, FrameIsRead, NamesARequest, callerVars
<1>4. Settled'
  BY DEF Inv, Settled, Source, RegistryKept
<1>5. Delivering'
  BY DeliveringKept DEF Inv
<1> QED BY <1>1, <1>2, <1>3, <1>4, <1>5 DEF Inv

\* What leaves the frame in hand alone.
LEMMA FrameKept ==
    ASSUME Inv, UNCHANGED <<exchange, handlers, about, frameVars>>
    PROVE  FrameIsRead' /\ Settled' /\ Delivering'
<1>1. FrameIsRead' /\ Settled'
  BY DEF Inv, FrameIsRead, NamesARequest, Settled, Source, frameVars
<1>2. Delivering'
  BY DEF Inv, Delivering, StillRegistered, CalledOnce, NobodyIsMissed, OrderIsKept,
         ComesBefore, Before, Registered, Source, frameVars
<1> QED BY <1>1, <1>2

LEMMA RequestKeeps ==
    ASSUME NEW method \in Methods, Inv, Request(method)
    PROVE  Inv'
<1>1. /\ sent \in Seq(Methods) /\ Len(sent) \in Nat /\ Len(sent) < MaxRequests
      /\ sent' = Append(sent, method) /\ Supports(exchange, method)
  BY LenProperties DEF Inv, TypeOK, Request
<1>2. /\ sent' \in Seq(Methods) /\ Len(sent') = Len(sent) + 1
      /\ sent'[Len(sent) + 1] = method /\ \A i \in 1 .. Len(sent) : sent'[i] = sent[i]
  BY <1>1, AppendProperties
<1>3. DOMAIN sent = 1 .. Len(sent) /\ DOMAIN sent' = 1 .. Len(sent')
  BY <1>1, <1>2, LenProperties
<1>4. TypeOK'
  <2>1. waiting' \subseteq DOMAIN sent' /\ answered' \subseteq DOMAIN sent'
    BY <1>1, <1>2, <1>3 DEF Inv, TypeOK, Request
  <2> QED BY <1>2, <2>1 DEF Inv, TypeOK, Request, frameVars
<1>5. RequestsAreSupported'
  BY <1>1, <1>2, DispatchAssumption DEF Inv, RequestsAreSupported, Request
<1>6. OutcomeIsRead'
  BY DEF Inv, OutcomeIsRead, Request
<1>7. FrameIsRead' /\ Settled' /\ Delivering'
  BY FrameKept DEF Request, frameVars
<1> QED BY <1>4, <1>5, <1>6, <1>7 DEF Inv

LEMMA TimeOutKeeps ==
    ASSUME NEW n, Inv, TimeOut(n)
    PROVE  Inv'
<1>1. TypeOK'
  BY DEF Inv, TypeOK, TimeOut, frameVars
<1>2. RequestsAreSupported' /\ OutcomeIsRead'
  BY DEF Inv, RequestsAreSupported, OutcomeIsRead, TimeOut
<1>3. FrameIsRead' /\ Settled' /\ Delivering'
  BY FrameKept DEF TimeOut, frameVars
<1> QED BY <1>1, <1>2, <1>3 DEF Inv

\* A frame is received: nothing is delivered yet.
LEMMA ReceiveKeeps ==
    ASSUME NEW f, Inv, Receive(f), ChannelOf(exchange, f) \in Channels \cup {Absent},
           answered' \subseteq DOMAIN sent,
           about' \in [n : Requests \cup {NoRequest}, verdict : Verdicts \cup {Absent}],
           ResponseKey(exchange, f) =
                IF f.id /= NoId \/ f.reqId /= NoId THEN WaitsUnder(exchange, about'.n) ELSE NoId,
           f.id /= NoId \/ f.reqId /= NoId =>
                about'.verdict \in Verdicts /\ ErrorOf(exchange, f) = ErrorFor(about'.verdict)
    PROVE  Inv'
<1>1. TypeOK'
  <2>1. outcome' \in [n : Requests \cup {NoRequest}, exc : Outcomes]
    BY DEF Receive, Outcomes
  <2> QED BY <2>1 DEF Inv, TypeOK, Receive, Phases
<1>2. RequestsAreSupported' /\ OutcomeIsRead'
  BY DEF Inv, RequestsAreSupported, OutcomeIsRead, Receive
<1>3. FrameIsRead'
  BY DEF FrameIsRead, Receive, NamesARequest
<1>4. todo = <<>> /\ always = {} /\ called = <<>> /\ Len(<<>>) = 0
  BY DEF Inv, Settled, Receive
<1>5. todo' = <<>> /\ always' = {} /\ called' = <<>>
  BY <1>4 DEF Receive
<1>6. Settled'
  BY <1>5 DEF Settled
<1>7. Delivering'
  <2>1. IsInjective(<<>>) /\ 1 .. 0 = {}
    BY EmptySeq DEF IsInjective
  <2> QED BY <1>4, <1>5, <2>1
          DEF Delivering, StillRegistered, CalledOnce, NobodyIsMissed, OrderIsKept
<1> QED BY <1>1, <1>2, <1>3, <1>6, <1>7 DEF Inv

LEMMA ReceiveReplyKeeps ==
    ASSUME NEW n \in DOMAIN sent, NEW verdict \in Verdicts, Inv, ReceiveReply(n, verdict)
    PROVE  Inv'
<1>1. PICK f \in Replies(n, verdict) : Receive(f)
  BY DEF ReceiveReply
<1>2. /\ n \in 1 .. Len(sent) /\ Supports(exchange, sent[n]) /\ n \in Requests
      /\ exchange \in Exchanges
  BY LenProperties, DispatchAssumption DEF Inv, TypeOK, RequestsAreSupported, Requests
<1>3. about' = [n |-> n, verdict |-> verdict] /\ answered' = answered \cup {n}
  BY DEF ReceiveReply
<1>4. about'.n = n /\ about'.verdict = verdict /\ answered' \subseteq DOMAIN sent
  BY <1>3 DEF Inv, TypeOK
<1> QED BY <1>1, <1>2, <1>3, <1>4, RepliesRead, ReceiveKeeps

LEMMA ReceivePushKeeps ==
    ASSUME NEW c \in Channels, Inv, ReceivePush(c)
    PROVE  Inv'
<1>1. Receive(Push(c)) /\ exchange \in Exchanges /\ answered' = answered
      /\ about' = [n |-> NoRequest, verdict |-> Absent] /\ answered \subseteq DOMAIN sent
  BY DEF ReceivePush, Inv, TypeOK
<1>2. ResponseKey(exchange, Push(c)) = NoId
  BY <1>1, PushRead DEF ResponseKey
<1> QED BY <1>1, <1>2, PushRead, ReceiveKeeps

LEMMA ReceiveNonObjectKeeps == Inv /\ ReceiveNonObject => Inv'
<1> SUFFICES ASSUME Inv, ReceiveNonObject PROVE Inv'
  OBVIOUS
<1>1. TypeOK' /\ RequestsAreSupported' /\ OutcomeIsRead'
  BY DEF Inv, TypeOK, RequestsAreSupported, OutcomeIsRead, ReceiveNonObject, callerVars,
         frameVars
<1>2. FrameIsRead' /\ Settled' /\ Delivering'
  BY FrameKept DEF ReceiveNonObject, callerVars, frameVars
<1> QED BY <1>1, <1>2 DEF Inv

LEMMA ResolveReplyKeeps == Inv /\ ResolveReply => Inv'
<1> SUFFICES ASSUME Inv, ResolveReply PROVE Inv'
  OBVIOUS
<1>1. PICK n \in Answered :
        waiting' = waiting \ {n} /\ outcome' = [n |-> n, exc |-> ErrorOf(exchange, frame)]
  BY DEF ResolveReply
<1>2. n \in waiting /\ WaitsUnder(exchange, n) = ResponseKey(exchange, frame)
  BY DEF Answered
<1>3. NamesARequest /\ phase = "resolve"
  BY <1>2, KeysDiffer DEF Inv, FrameIsRead, ResolveReply
<1>4. about.verdict \in Verdicts /\ ErrorOf(exchange, frame) = ErrorFor(about.verdict)
  BY <1>3 DEF Inv, FrameIsRead
<1>5. n \in Requests
  BY <1>2, LenProperties, DispatchAssumption
     DEF Inv, TypeOK, RequestsAreSupported, Requests
<1>6. /\ FrameIsRead' /\ Settled' /\ Delivering'
      /\ todo' \in Seq(Handlers) /\ always' \subseteq Lists \X Handlers
      /\ called' \in Seq(Lists \X Handlers) /\ phase' \in Phases
  BY IdleKeeps DEF ResolveReply
<1>7. outcome' \in [n : Requests \cup {NoRequest}, exc : Outcomes]
  BY <1>1, <1>4, <1>5, ErrorsRead
<1>8. TypeOK'
  BY <1>1, <1>6, <1>7 DEF Inv, TypeOK, ResolveReply
<1>9. RequestsAreSupported' /\ OutcomeIsRead'
  BY <1>1, <1>4 DEF Inv, RequestsAreSupported, OutcomeIsRead, ResolveReply
<1> QED BY <1>6, <1>8, <1>9 DEF Inv

\* A frame that is done with, and resumed nobody.
LEMMA DoneKeeps ==
    ASSUME Inv, Idle, reading' \in BOOLEAN, UNCHANGED <<exchange, handlers, callerVars>>
    PROVE  Inv'
<1>1. /\ FrameIsRead' /\ Settled' /\ Delivering'
      /\ todo' \in Seq(Handlers) /\ always' \subseteq Lists \X Handlers
      /\ called' \in Seq(Lists \X Handlers) /\ phase' \in Phases
  BY IdleKeeps
<1>2. TypeOK' /\ RequestsAreSupported' /\ OutcomeIsRead'
  BY <1>1 DEF Inv, TypeOK, RequestsAreSupported, OutcomeIsRead, callerVars
<1> QED BY <1>1, <1>2 DEF Inv

\* The order of a list is the order of its snapshot.
LEMMA SnapshotBefore ==
    ASSUME NEW s, NEW i \in 1 .. Len(s), NEW j \in 1 .. Len(s), i < j
    PROVE  Before(s, s[i], s[j])
BY DEF Before

\* A step of the delivery leaves the registry alone.
LEMMA OrderNext ==
    ASSUME handlers' = handlers,
           \A i, j \in 1 .. Len(called') :
                /\ i < j /\ called'[i][1] = called'[j][1]
                /\ called'[i] \in always' /\ called'[j] \in always'
                => ComesBefore(called'[i], called'[j]),
           \A i \in 1 .. Len(called'), j \in 1 .. Len(todo') :
                /\ called'[i][1] = Source'
                /\ called'[i] \in always' /\ <<Source', todo'[j]>> \in always'
                => ComesBefore(called'[i], <<Source', todo'[j]>>),
           \A i, j \in 1 .. Len(todo') :
                /\ i < j
                /\ <<Source', todo'[i]>> \in always' /\ <<Source', todo'[j]>> \in always'
                => ComesBefore(<<Source', todo'[i]>>, <<Source', todo'[j]>>)
    PROVE  OrderIsKept'
BY DEF OrderIsKept, ComesBefore, Registered, Before

LEMMA DeliverKeeps == Inv /\ Deliver /\ ~SkipHeartbeat => Inv'
<1> SUFFICES ASSUME Inv, Deliver, ~SkipHeartbeat PROVE Inv'
  OBVIOUS
<1> DEFINE c == ChannelOf(exchange, frame)
           list == Registered(c)
<1>1. /\ phase = "resolve" /\ phase' = "channel" /\ todo' = list
      /\ always' = UNION {{<<l, h>> : h \in ToSet(Registered(l))} : l \in {c, "*"}}
      /\ UNCHANGED <<exchange, handlers, callerVars, reading, frame, called>>
  BY DEF Deliver, Snapshot
<1>2. c \in Channels \cup {Absent} /\ c /= "*" /\ c' = c /\ Source' = c
  BY <1>1 DEF Inv, FrameIsRead, Channels, Absent, Source
<1>3. called' = <<>> /\ Len(<<>>) = 0
  BY <1>1 DEF Inv, Settled
<1>4. \A l : Registered(l) \in Seq(Handlers) /\ IsInjective(Registered(l))
  BY RegisteredType DEF Inv
<1>5. \A l, d : d \in ToSet(Registered(l)) <=> Contains(Registered(l), d)
  BY <1>4, ToSetContains
<1>6. \A p \in always' :
        /\ p[1] \in {c, "*"} /\ Contains(Registered(p[1]), p[2])
        /\ p = <<p[1], p[2]>> /\ p[2] \in ToSet(Registered(p[1]))
  BY <1>1, <1>5
<1>7. \A l : Registered(l)' = Registered(l)
  BY <1>1 DEF Registered
<1>8. always' \subseteq Lists \X Handlers
  <2>1. ASSUME NEW p \in always' PROVE p \in Lists \X Handlers
    <3>1. PICK i \in 1 .. Len(Registered(p[1])) : Registered(p[1])[i] = p[2]
      BY <1>6 DEF Contains
    <3>2. p[2] \in Handlers
      BY <1>4, <3>1, ElementOfSeq
    <3>3. p[1] \in Lists
      <4>1. Registered(Absent) = <<>>
        BY DEF Inv, TypeOK, Registered, Lists, Channels, Absent
      <4>2. ~Contains(Registered(Absent), p[2])
        BY <4>1 DEF Contains
      <4> QED BY <1>2, <1>6, <4>2 DEF Lists
    <3> QED BY <1>6, <3>2, <3>3
  <2> QED BY <2>1
<1> HIDE DEF list
<1>9. list = Registered(c)
  BY DEF list
<1>10. TypeOK'
  BY <1>1, <1>3, <1>4, <1>8, <1>9, EmptySeq DEF Inv, TypeOK, Phases, callerVars
<1>11. RequestsAreSupported' /\ OutcomeIsRead' /\ FrameIsRead' /\ Settled'
  <2>1. list /= <<>> => c \in Lists
    BY <1>9 DEF Inv, TypeOK, Registered
  <2> QED BY <1>1, <1>2, <2>1
          DEF Inv, RequestsAreSupported, OutcomeIsRead, FrameIsRead, Settled, callerVars
<1>12. StillRegistered'
  BY <1>6, <1>7 DEF StillRegistered
<1>13. CalledOnce'
  <2>1. IsInjective(<<>>) /\ 1 .. 0 = {}
    BY EmptySeq DEF IsInjective
  <2> QED BY <1>1, <1>3, <1>4, <1>9, <2>1 DEF CalledOnce
<1>14. NobodyIsMissed'
  BY <1>1, <1>2, <1>6, <1>9 DEF NobodyIsMissed
<1>15. OrderIsKept'
  <2>1. \A i, j \in 1 .. Len(list) : i < j => Before(list, list[i], list[j])
    BY SnapshotBefore
  <2>2. \A i, j \in 1 .. Len(list) : i < j => ComesBefore(<<c, list[i]>>, <<c, list[j]>>)
    BY <1>9, <2>1 DEF ComesBefore
  <2>3. \A i, j \in 1 .. Len(todo') :
            i < j => ComesBefore(<<Source', todo'[i]>>, <<Source', todo'[j]>>)
    BY <1>1, <1>2, <2>2
  <2>4. 1 .. Len(called') = {}
    BY <1>3
  <2> QED BY <1>1, <2>3, <2>4, OrderNext
<1> QED BY <1>10, <1>11, <1>12, <1>13, <1>14, <1>15 DEF Inv, Delivering

LEMMA DeliverToAllKeeps == Inv /\ DeliverToAll => Inv'
<1> SUFFICES ASSUME Inv, DeliverToAll PROVE Inv'
  OBVIOUS
<1> DEFINE c == ChannelOf(exchange, frame)
           list == Registered("*")
<1>1. /\ phase = "channel" /\ phase' = "star" /\ todo = <<>> /\ todo' = list
      /\ UNCHANGED <<exchange, handlers, callerVars, reading, frame, always, called>>
  BY DEF DeliverToAll, Snapshot
<1>2. c /= "*" /\ c' = c /\ Source' = "*" /\ Source = c
  BY <1>1 DEF Inv, FrameIsRead, Channels, Absent, Source
<1>3. list \in Seq(Handlers) /\ IsInjective(list)
  BY RegisteredType DEF Inv
<1>4. Len(todo) = 0 /\ 1 .. 0 = {}
  BY <1>1
<1>5. \A l : Registered(l)' = Registered(l)
  BY <1>1 DEF Registered
<1>6. /\ StillRegistered /\ CalledOnce /\ NobodyIsMissed /\ OrderIsKept /\ TypeOK
  BY DEF Inv, Delivering
<1>7. list = Registered("*")
  OBVIOUS
<1> HIDE DEF list
<1>8. \A i \in 1 .. Len(called) : called[i][1] = c
  BY <1>2, <1>6 DEF CalledOnce
<1>9. TypeOK'
  BY <1>1, <1>3, <1>6 DEF TypeOK, Phases, callerVars
<1>10. RequestsAreSupported' /\ OutcomeIsRead' /\ FrameIsRead' /\ Settled'
  BY <1>1, <1>2 DEF Inv, RequestsAreSupported, OutcomeIsRead, FrameIsRead, Settled, Lists,
                    callerVars
<1>11. StillRegistered'
  BY <1>1, <1>5, <1>6 DEF StillRegistered
<1>12. CalledOnce'
  <2>1. ASSUME NEW i \in 1 .. Len(called)
        PROVE  \A j \in 1 .. Len(list) : called[i] /= <<"*", list[j]>>
    BY <1>2, <1>8
  <2> QED BY <1>1, <1>2, <1>3, <1>6, <1>8, <2>1 DEF CalledOnce
<1>13. NobodyIsMissed'
  <2>1. ASSUME NEW p \in always PROVE Contains(called, p) \/ (p[1] = "*" /\ Contains(list, p[2]))
    <3>1. ~Contains(todo, p[2])
      BY <1>4 DEF Contains
    <3>2. Contains(called, p) \/ p[1] = "*"
      BY <1>6, <3>1 DEF NobodyIsMissed
    <3> QED BY <1>6, <1>7, <3>2 DEF StillRegistered
  <2> QED BY <1>1, <1>2, <2>1 DEF NobodyIsMissed
<1>14. OrderIsKept'
  <2>1. \A i, j \in 1 .. Len(list) : i < j => ComesBefore(<<"*", list[i]>>, <<"*", list[j]>>)
    BY <1>7, SnapshotBefore DEF ComesBefore
  <2>2. \A i, j \in 1 .. Len(called) :
            /\ i < j /\ called[i][1] = called[j][1]
            /\ called[i] \in always /\ called[j] \in always
            => ComesBefore(called[i], called[j])
    BY <1>6 DEF OrderIsKept
  <2>3. \A i, j \in 1 .. Len(called') :
            /\ i < j /\ called'[i][1] = called'[j][1]
            /\ called'[i] \in always' /\ called'[j] \in always'
            => ComesBefore(called'[i], called'[j])
    BY <1>1, <2>2
  <2>4. \A i, j \in 1 .. Len(todo') :
            i < j => ComesBefore(<<Source', todo'[i]>>, <<Source', todo'[j]>>)
    BY <1>1, <1>2, <2>1
  <2>5. \A i \in 1 .. Len(called') : called'[i][1] /= Source'
    BY <1>1, <1>2, <1>8
  <2> QED BY <1>1, <2>3, <2>4, <2>5, OrderNext
<1> QED BY <1>9, <1>10, <1>11, <1>12, <1>13, <1>14 DEF Inv, Delivering

LEMMA CallHandlerKeeps ==
    ASSUME NEW raises \in BOOLEAN, Inv, CallHandler(raises)
    PROVE  Inv'
<1> DEFINE c == ChannelOf(exchange, frame)
           h == Head(todo)
           p == <<Source, h>>
<1>1. /\ todo /= <<>> /\ todo' = Tail(todo) /\ called' = Append(called, p)
      /\ UNCHANGED <<exchange, handlers, callerVars, reading, frame, phase, always>>
  BY DEF CallHandler, Rest, Source
<1>2. /\ StillRegistered /\ CalledOnce /\ NobodyIsMissed /\ OrderIsKept /\ TypeOK
      /\ todo \in Seq(Handlers) /\ called \in Seq(Lists \X Handlers)
  BY DEF Inv, Delivering, TypeOK
<1>3. /\ h \in Handlers /\ h = todo[1] /\ todo' \in Seq(Handlers)
      /\ Len(todo) \in Nat \ {0} /\ Len(todo') = Len(todo) - 1
      /\ \A i \in 1 .. Len(todo') : todo'[i] = todo[i + 1]
  BY <1>1, <1>2, TailProperties
<1>4. phase \in {"channel", "star"} /\ Source \in Lists
  BY <1>1 DEF Inv, Settled, TypeOK, Phases
<1>5. p \in Lists \X Handlers /\ p[1] = Source /\ p[2] = h
  BY <1>3, <1>4
<1>6. Source' = Source /\ c' = c
  BY <1>1 DEF Source
<1> HIDE DEF c, h, p
<1>7. /\ called' \in Seq(Lists \X Handlers)
      /\ Len(called) \in Nat /\ Len(called') = Len(called) + 1
      /\ called'[Len(called) + 1] = p
      /\ \A i \in 1 .. Len(called) : called'[i] = called[i]
  BY <1>1, <1>2, <1>5, AppendProperties, LenProperties
<1>8. \A j \in 1 .. Len(todo') : j + 1 \in 1 .. Len(todo) /\ todo'[j] = todo[j + 1]
  BY <1>3
<1>9. \A i \in 1 .. Len(called') :
        \/ i \in 1 .. Len(called) /\ called'[i] = called[i]
        \/ i = Len(called) + 1 /\ called'[i] = p
  BY <1>7
<1>10. 1 \in 1 .. Len(todo)
  BY <1>3
<1>11. TypeOK' /\ RequestsAreSupported' /\ OutcomeIsRead' /\ FrameIsRead' /\ Settled'
  BY <1>1, <1>2, <1>3, <1>4, <1>6, <1>7
     DEF Inv, TypeOK, RequestsAreSupported, OutcomeIsRead, FrameIsRead, NamesARequest, Settled,
         callerVars
<1>12. StillRegistered'
  BY <1>1, <1>2 DEF StillRegistered, Registered
<1>13. CalledOnce'
  <2>1. DOMAIN todo = 1 .. Len(todo) /\ DOMAIN todo' = 1 .. Len(todo')
    BY <1>2, <1>3, LenProperties
  <2>2. \A i, j \in 1 .. Len(todo) : todo[i] = todo[j] => i = j
    BY <1>2, <2>1 DEF CalledOnce, IsInjective
  <2>3. IsInjective(todo')
    <3>1. \A i, j \in 1 .. Len(todo') : todo'[i] = todo'[j] => i + 1 = j + 1
      BY <1>8, <2>2
    <3>2. \A i, j \in 1 .. Len(todo') : todo'[i] = todo'[j] => i = j
      BY <3>1
    <3> QED BY <2>1, <3>2 DEF IsInjective
  <2>4. \A i \in 1 .. Len(called) : called[i] /= p
    BY <1>2, <1>3, <1>10 DEF CalledOnce, p
  <2>5. IsInjective(called')
    <3>1. IsInjective(called) /\ ~Contains(called, p)
      BY <1>2, <2>4 DEF CalledOnce, Contains
    <3> QED BY <1>1, <1>2, <1>5, <3>1, AppendKeepsInjective
  <2>6. \A i \in 1 .. Len(called') : called'[i][1] \in {c, Source}
    BY <1>2, <1>5, <1>9 DEF CalledOnce, c
  <2>7. ASSUME NEW i \in 1 .. Len(called'), NEW j \in 1 .. Len(todo')
        PROVE  called'[i] /= <<Source, todo'[j]>>
    <3>1. CASE i \in 1 .. Len(called) /\ called'[i] = called[i]
      BY <1>2, <1>8, <3>1 DEF CalledOnce
    <3>2. CASE called'[i] = p
      <4>1. todo[j + 1] /= todo[1]
        <5>1. j + 1 \in 1 .. Len(todo) /\ j + 1 /= 1
          BY <1>8
        <5> QED BY <1>10, <2>2, <5>1
      <4> QED BY <1>3, <1>5, <1>8, <3>2, <4>1
    <3> QED BY <1>9, <3>1, <3>2
  <2> QED BY <1>6, <2>3, <2>5, <2>6, <2>7 DEF CalledOnce, c
<1>14. NobodyIsMissed'
  <2>1. ASSUME NEW d PROVE /\ Contains(called, d) \/ d = p => Contains(called', d)
                           /\ Contains(todo, d) => d = h \/ Contains(todo', d)
    <3>1. Contains(called, d) \/ d = p => Contains(called', d)
      BY <1>7, <1>9 DEF Contains
    <3>2. ASSUME NEW i \in 1 .. Len(todo), todo[i] = d, d /= h PROVE Contains(todo', d)
      <4>1. i - 1 \in 1 .. Len(todo') /\ todo'[i - 1] = d
        BY <1>3, <3>2
      <4> QED BY <4>1 DEF Contains
    <3> QED BY <3>1, <3>2 DEF Contains
  <2>2. ASSUME NEW q \in always
        PROVE  \/ Contains(called', q)
               \/ q[1] = Source /\ Contains(todo', q[2])
               \/ phase = "channel" /\ q[1] = "*"
    <3>1. q = <<q[1], q[2]>>
      BY <1>2 DEF TypeOK
    <3>2. q[1] = Source /\ q[2] = h => q = p
      BY <3>1 DEF p
    <3> QED BY <1>2, <2>1, <3>2 DEF NobodyIsMissed
  <2> QED BY <1>1, <1>6, <2>2 DEF NobodyIsMissed
<1>15. OrderIsKept'
  <2>1. /\ \A i, j \in 1 .. Len(called) :
            /\ i < j /\ called[i][1] = called[j][1]
            /\ called[i] \in always /\ called[j] \in always
            => ComesBefore(called[i], called[j])
        /\ \A i \in 1 .. Len(called), j \in 1 .. Len(todo) :
            /\ called[i][1] = Source
            /\ called[i] \in always /\ <<Source, todo[j]>> \in always
            => ComesBefore(called[i], <<Source, todo[j]>>)
        /\ \A i, j \in 1 .. Len(todo) :
            /\ i < j
            /\ <<Source, todo[i]>> \in always /\ <<Source, todo[j]>> \in always
            => ComesBefore(<<Source, todo[i]>>, <<Source, todo[j]>>)
    BY <1>2 DEF OrderIsKept
  <2>2. p = <<Source, todo[1]>>
    BY <1>3 DEF p
  <2>3. ASSUME NEW i \in 1 .. Len(called'), NEW j \in 1 .. Len(called'),
               i < j, called'[i][1] = called'[j][1],
               called'[i] \in always, called'[j] \in always
        PROVE  ComesBefore(called'[i], called'[j])
    <3>1. i \in 1 .. Len(called) /\ called'[i] = called[i]
      BY <1>7, <2>3
    <3>2. CASE j \in 1 .. Len(called) /\ called'[j] = called[j]
      BY <2>1, <2>3, <3>1, <3>2
    <3>3. CASE called'[j] = p
      <4>1. called[i][1] = Source /\ called[i] \in always /\ <<Source, todo[1]>> \in always
        BY <1>5, <2>2, <2>3, <3>1, <3>3
      <4>2. ComesBefore(called[i], <<Source, todo[1]>>)
        BY <1>10, <2>1, <3>1, <4>1
      <4> QED BY <2>2, <3>1, <3>3, <4>2
    <3> QED BY <1>9, <3>2, <3>3
  <2>4. ASSUME NEW i \in 1 .. Len(called'), NEW j \in 1 .. Len(todo'),
               called'[i][1] = Source, called'[i] \in always, <<Source, todo'[j]>> \in always
        PROVE  ComesBefore(called'[i], <<Source, todo'[j]>>)
    <3>1. CASE i \in 1 .. Len(called) /\ called'[i] = called[i]
      BY <1>8, <2>1, <2>4, <3>1
    <3>2. CASE called'[i] = p
      <4>1. /\ <<Source, todo[1]>> \in always /\ <<Source, todo[j + 1]>> \in always
            /\ 1 < j + 1
        <5>1. todo'[j] = todo[j + 1] /\ 1 < j + 1
          BY <1>8
        <5> QED BY <2>2, <2>4, <3>2, <5>1
      <4>2. ComesBefore(<<Source, todo[1]>>, <<Source, todo[j + 1]>>)
        BY <1>8, <1>10, <2>1, <4>1
      <4> QED BY <1>8, <2>2, <3>2, <4>2
    <3> QED BY <1>9, <3>1, <3>2
  <2>5. ASSUME NEW i \in 1 .. Len(todo'), NEW j \in 1 .. Len(todo'), i < j,
               <<Source, todo'[i]>> \in always, <<Source, todo'[j]>> \in always
        PROVE  ComesBefore(<<Source, todo'[i]>>, <<Source, todo'[j]>>)
    <3>1. i + 1 < j + 1
      BY <2>5
    <3> QED BY <1>8, <2>1, <2>5, <3>1
  <2> QED BY <1>1, <1>6, <2>3, <2>4, <2>5, OrderNext
<1> QED BY <1>11, <1>12, <1>13, <1>14, <1>15 DEF Inv, Delivering
----------------------------------------------------------------------------
(* The theorems. *)

LEMMA StepInv == Inv /\ [Next]_vars => Inv'
<1> SUFFICES ASSUME Inv, [Next]_vars PROVE Inv'
  OBVIOUS
<1>1. CASE UNCHANGED vars
  <2>1. FrameIsRead' /\ Settled' /\ Delivering'
    BY <1>1, FrameKept DEF vars, callerVars, frameVars
  <2> QED BY <1>1, <2>1
          DEF vars, callerVars, frameVars, Inv, TypeOK, RequestsAreSupported, OutcomeIsRead
<1>2. ASSUME NEW c \in Lists, NEW h \in Handlers, AddHandler(c, h) \/ RemoveHandler(c, h)
      PROVE  Inv'
  BY <1>2, AddKeeps, RemoveKeeps, RegistryStep DEF AddHandler, RemoveHandler, frameVars, Inv
<1>3. ASSUME NEW cs, ClearHandlers(cs) PROVE Inv'
  BY <1>3, ClearKeeps, RegistryStep DEF ClearHandlers, Inv
<1>4. CASE \E method \in Methods : Request(method)
  BY <1>4, RequestKeeps
<1>5. ASSUME NEW n \in DOMAIN sent,
             TimeOut(n) \/ \E verdict \in Verdicts : ReceiveReply(n, verdict)
      PROVE  Inv'
  BY <1>5, TimeOutKeeps, ReceiveReplyKeeps
<1>6. CASE \E c \in Channels : ReceivePush(c)
  BY <1>6, ReceivePushKeeps
<1>7. CASE ReceiveNonObject
  BY <1>7, ReceiveNonObjectKeeps
<1>8. CASE ResolveReply
  BY <1>8, ResolveReplyKeeps
<1>9. CASE Swallow \/ HandlerCancelled \/ Delivered
  BY <1>9, DoneKeeps DEF Swallow, HandlerCancelled, Delivered, Inv, TypeOK
<1>10. CASE Deliver
  <2>1. CASE SkipHeartbeat
    <3>1. Idle /\ UNCHANGED <<exchange, handlers, callerVars, reading>> /\ reading \in BOOLEAN
      BY <1>10, <2>1 DEF Deliver, Inv, TypeOK
    <3> QED BY <3>1, DoneKeeps
  <2>2. CASE ~SkipHeartbeat
    BY <1>10, <2>2, DeliverKeeps
  <2> QED BY <2>1, <2>2
<1>11. CASE DeliverToAll
  BY <1>11, DeliverToAllKeeps
<1>12. CASE \E raises \in BOOLEAN : CallHandler(raises)
  BY <1>12, CallHandlerKeeps
<1> QED BY <1>1, <1>2, <1>3, <1>4, <1>5, <1>6, <1>7, <1>8, <1>9, <1>10, <1>11, <1>12 DEF Next

LEMMA InvIsInvariant == Spec => []Inv
BY InitInv, StepInv, PTL DEF Spec

\* Every reachable state is well typed: the lists hold handlers, each once, the
\* calls made are of handlers, and the outcome is one of those request() has.
THEOREM DispatchTypeCorrect == Spec => []TypeOK
<1>1. Inv => TypeOK
  BY DEF Inv
<1> QED BY <1>1, InvIsInvariant, PTL

\* A handler that stays registered while a frame is delivered is called once,
\* whatever the handlers and the other coroutines do to the registry in between
\* (client.py: _deliver, _call_handler).
THEOREM EveryHandlerGetsTheFrame == Spec => []EveryHandlerIsCalled
<1>1. Inv => EveryHandlerIsCalled
  <2> SUFFICES ASSUME Inv PROVE EveryHandlerIsCalled
    OBVIOUS
  <2>1. IsInjective(called) /\ called \in Seq(Lists \X Handlers)
    BY DEF Inv, TypeOK, Delivering, CalledOnce
  <2>2. ASSUME phase = "star", todo = <<>>, NEW p \in always PROVE p \in ToSet(called)
    <3>1. ~Contains(todo, p[2])
      BY <2>2 DEF Contains
    <3>2. Contains(called, p)
      BY <2>2, <3>1 DEF Inv, Delivering, NobodyIsMissed
    <3> QED BY <2>1, <3>2, ToSetContains
  <2> QED BY <2>1, <2>2 DEF EveryHandlerIsCalled
<1> QED BY <1>1, InvIsInvariant, PTL

\* Of two handlers of a list that stay registered the one registered first is
\* called first (client.py: add_handler, _deliver).
THEOREM HandlersAreCalledInOrder == Spec => []InRegistrationOrder
<1>1. Inv => InRegistrationOrder
  <2> SUFFICES ASSUME Inv, NEW i \in 1 .. Len(called), NEW j \in 1 .. Len(called),
                      i < j, called[i][1] = called[j][1],
                      called[i] \in always, called[j] \in always
               PROVE  LET list == handlers[called[i][1]]
                      IN  \E k, l \in 1 .. Len(list) :
                            k < l /\ list[k] = called[i][2] /\ list[l] = called[j][2]
    BY DEF InRegistrationOrder
  <2>1. Before(Registered(called[i][1]), called[i][2], called[j][2])
    BY DEF Inv, Delivering, OrderIsKept, ComesBefore
  <2>2. Len(<<>>) = 0 /\ 1 .. 0 = {}
    OBVIOUS
  <2>3. Registered(called[i][1]) = handlers[called[i][1]]
    BY <2>1, <2>2 DEF Before, Registered
  <2> QED BY <2>1, <2>3 DEF Before
<1> QED BY <1>1, InvIsInvariant, PTL

\* request() returns if and only if it was accepted, and raises the code of the
\* refusal, known to this client or not (_dialect.py: error_of).
THEOREM CallersLearnTheVerdict == Spec => []OutcomeIsTheVerdict
<1>1. Inv => OutcomeIsTheVerdict
  BY ErrorsRead DEF Inv, OutcomeIsRead, OutcomeIsTheVerdict
<1> QED BY <1>1, InvIsInvariant, PTL

\* A reply that names a request that waits resumes that request: it is neither
\* swallowed nor delivered, and it is nobody else's (client.py: _dispatch).
THEOREM NoReplyIsMisdelivered == Spec => ReplyReachesItsCaller
<1> DEFINE A == phase = "resolve" /\ phase' /= "resolve" /\ about.n \in waiting /\ NamesARequest
                => outcome'.n = about.n /\ about.n \notin waiting'
<1>1. Inv /\ [Next]_vars => [A]_vars
  <2> SUFFICES ASSUME Inv, Next, phase = "resolve", phase' /= "resolve",
                      about.n \in waiting, NamesARequest
               PROVE  outcome'.n = about.n /\ about.n \notin waiting'
    OBVIOUS
  <2>1. ResponseKey(exchange, frame) = WaitsUnder(exchange, about.n) /\ todo = <<>>
    BY DEF Inv, FrameIsRead, Settled
  <2>2. Answered = {about.n}
    BY <2>1, KeysDiffer DEF Answered
  <2>3. ResolveReply
    BY <2>1, <2>2
       DEF Next, AddHandler, RemoveHandler, ClearHandlers, Request, TimeOut, ReceiveReply,
           ReceivePush, Receive, ReceiveNonObject, Swallow, Deliver, DeliverToAll, CallHandler,
           HandlerCancelled, Delivered, frameVars
  <2> QED BY <2>2, <2>3 DEF ResolveReply
<1> QED BY <1>1, InvIsInvariant, PTL DEF Spec, ReplyReachesItsCaller
============================================================================
