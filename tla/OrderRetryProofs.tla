-------------------------- MODULE OrderRetryProofs --------------------------
(***************************************************************************)
(* Theorems about OrderRetry.  The argument for AtMostOnePlaced: every     *)
(* request is the attempt of its number (AttemptsOnly), so all requests of *)
(* an intent carry the caller's one key, or there is only one of them      *)
(* (RetriesHaveTheKey); and the Proxy forwards a key once (OneClaim).      *)
(* Then that answers say what is the case (Truth), and that what a caller  *)
(* is told to be unknown is what the Proxy has lost (Told).                *)
(***************************************************************************)
EXTENDS OrderRetry, TLAPS

AttemptsOnly ==
    \A r \in net \cup forwarded :
        /\ r.intent \in Intents
        /\ r.nonce \in 1 .. attempts[r.intent]
        /\ r = Attempt(r.intent, r.nonce)

RetriesHaveTheKey ==
    /\ attempts \in [Intents -> Nat]
    /\ last = [i \in Intents |-> last[i]]
    /\ \A i \in Intents : last[i] = NotAsked => attempts[i] = 0
    /\ \A i \in Intents : ~given[i] => attempts[i] <= 1

OneClaim == \A r, s \in forwarded : SameKey(r, s) => r = s

\* The inductive invariant.
Inv == AttemptsOnly /\ RetriesHaveTheKey /\ OneClaim /\ placed \subseteq forwarded

\* All attempts of a caller that supplies its key carry it, on either route.
LEMMA OneKey ==
    ASSUME NEW i, given[i], NEW n
    PROVE  Attempt(i, n).key = OwnKey
BY SMT DEF Attempt, OwnKey, NoKey, Prepare, RequestKey, RequestFrame

\* However an attempt ends, it has been made.
LEMMA ResponsesEnd ==
    ASSUME NEW r
    PROVE  HandleResponse(r).kind \in {"result", "raised", "crashed"}
<1>1. \A w : Rejected(r, w).kind \in {"raised", "crashed"}
  BY DEF Rejected, Crashed, Raised, Ended
<1> QED BY <1>1 DEF HandleResponse, Raised, Returned, Ended

LEMMA RequestsEnd ==
    ASSUME NEW f
    PROVE  RequestEnds(f).kind \in {"result", "raised"}
<1> DEFINE exc == ErrorOf("kraken", f)
<1> HIDE DEF exc
<1>1. RequestEnds(f) = IF exc = NoException THEN Returned({Confirmed}, FALSE) ELSE Raised(exc)
  BY DEF RequestEnds, exc
<1> QED BY <1>1 DEF Raised, Returned, Ended

LEMMA EndsKeepsInv ==
    ASSUME Inv, NEW i \in Intents, NEW ended,
           ended.kind \in {"result", "raised", "crashed"}, Ends(i, ended)
    PROVE  Inv'
<1>1. ended /= NotAsked
  BY DEF NotAsked, Ended
<1>2. UNCHANGED <<net, attempts, given, route, forwarded, placed>>
  BY DEF Ends, proxy, venue
<1>3. AttemptsOnly' /\ OneClaim' /\ (placed \subseteq forwarded)'
  BY <1>2 DEF Inv, AttemptsOnly, OneClaim, Attempt, SameKey
<1>4. RetriesHaveTheKey'
  BY <1>1, <1>2 DEF Inv, RetriesHaveTheKey, Ends
<1> QED BY <1>3, <1>4 DEF Inv

LEMMA CallKeepsInv ==
    ASSUME Inv, NEW i \in Intents, Call(i)
    PROVE  Inv'
<1> DEFINE n == attempts[i] + 1
<1>1. UNCHANGED <<route, given, forwarded, placed>>
  BY DEF Call, proxy, venue
<1>2. attempts \in [Intents -> Nat] /\ attempts' = [attempts EXCEPT ![i] = n]
  BY DEF Call, Inv, RetriesHaveTheKey
<1>3. /\ attempts'[i] = n /\ n \in Nat \ {0}
      /\ \A j \in Intents : 1 .. attempts[j] \subseteq 1 .. attempts'[j]
  BY <1>2
<1>4. net' = net \cup {Attempt(i, n)}
  BY <1>3 DEF Call
<1>5. Attempt(i, n).intent = i /\ Attempt(i, n).nonce = n
  BY DEF Attempt
<1>6. AttemptsOnly'
  BY <1>1, <1>3, <1>4, <1>5 DEF AttemptsOnly, Inv, Attempt
<1>7. RetriesHaveTheKey'
  <2>1. last' = [last EXCEPT ![i] = Waiting] /\ Waiting /= NotAsked
    BY DEF Call, Waiting, NotAsked, Ended
  <2>2. ~given[i] => n <= 1
    BY DEF Call, Inv, RetriesHaveTheKey
  <2> QED BY <1>1, <1>2, <2>1, <2>2 DEF RetriesHaveTheKey, Inv
<1>8. OneClaim' /\ (placed \subseteq forwarded)'
  BY <1>1 DEF Inv, OneClaim, SameKey
<1> QED BY <1>6, <1>7, <1>8 DEF Inv

LEMMA ForwardKeepsInv ==
    ASSUME Inv, NEW r \in net, Forward(r)
    PROVE  Inv'
<1>1. UNCHANGED <<route, given, attempts, last, placed>>
  BY DEF Forward, caller, venue
<1>2. AttemptsOnly'
  BY <1>1 DEF Forward, Inv, AttemptsOnly, Attempt
<1>3. RetriesHaveTheKey'
  BY <1>1 DEF Inv, RetriesHaveTheKey
<1>4. OneClaim'
  BY DEF Forward, Inv, OneClaim, SameKey
<1>5. (placed \subseteq forwarded)'
  BY <1>1 DEF Forward, Inv
<1> QED BY <1>2, <1>3, <1>4, <1>5 DEF Inv

\* The other steps make no attempt and forward nothing.
LEMMA OthersKeepInv ==
    ASSUME Inv, UNCHANGED <<route, given, attempts, last, forwarded>>,
           net' \subseteq net, placed' \subseteq forwarded
    PROVE  Inv'
BY DEF Inv, AttemptsOnly, RetriesHaveTheKey, OneClaim, Attempt, SameKey

LEMMA InitInv == Init => Inv
BY DEF Init, Inv, AttemptsOnly, RetriesHaveTheKey, OneClaim

LEMMA StepInv == Inv /\ [Next]_vars => Inv'
<1> SUFFICES ASSUME Inv, [Next]_vars PROVE Inv'
  OBVIOUS
<1>0. placed \subseteq forwarded
  BY DEF Inv
<1>1. ASSUME NEW i \in Intents, Call(i) PROVE Inv'
  BY <1>1, CallKeepsInv
<1>2. ASSUME NEW i \in Intents, TransportFails(i) PROVE Inv'
  <2>1. PICK ended : ended.kind = "raised" /\ Ends(i, ended)
    BY <1>2 DEF TransportFails, CallFails, TimedOut, Raised, Ended
  <2> QED BY <2>1, EndsKeepsInv
<1>3. ASSUME NEW i \in Intents, Intercepted(i) PROVE Inv'
  <2>1. PICK r \in Foreign : Ends(i, HandleResponse(r))
    BY <1>3 DEF Intercepted
  <2> QED BY <2>1, ResponsesEnd, EndsKeepsInv
<1>4. ASSUME NEW a \in answers, Answered(a) PROVE Inv'
  <2> DEFINE i == a.to.intent
  <2>1. PICK ended : ended.kind \in {"result", "raised", "crashed"} /\ Ends(i, ended)
    BY <1>4, ResponsesEnd, RequestsEnd DEF Answered
  <2>2. CASE i \in Intents
    BY <2>1, <2>2, EndsKeepsInv
  <2>3. CASE i \notin Intents
    <3>1. last' = last
      BY <2>1, <2>3 DEF Ends, Inv, RetriesHaveTheKey
    <3> QED BY <2>1, <3>1, <1>0, OthersKeepInv DEF Ends, proxy, venue
  <2> QED BY <2>2, <2>3
<1>5. ASSUME NEW r \in net, Forward(r) PROVE Inv'
  BY <1>5, ForwardKeepsInv
<1>6. ASSUME NEW r \in net, Repeat(r) PROVE Inv'
  BY <1>0, <1>6, OthersKeepInv DEF Repeat, caller, proxy, venue
<1>7. ASSUME NEW r \in net, NEW code \in Refusals, Refuse(r, code) PROVE Inv'
  BY <1>0, <1>7, OthersKeepInv DEF Refuse, caller, proxy, venue
<1>8. ASSUME NEW r \in forwarded, Record(r) PROVE Inv'
  BY <1>0, <1>8, OthersKeepInv DEF Record, caller, venue
<1>9. ASSUME NEW r \in forwarded, LoseOutcome(r) PROVE Inv'
  BY <1>0, <1>9, OthersKeepInv DEF LoseOutcome, caller, venue
<1>10. ASSUME NEW r \in forwarded, NEW ok \in BOOLEAN, Decide(r, ok) PROVE Inv'
  BY <1>0, <1>10, OthersKeepInv DEF Decide, caller, proxy
<1>11. ASSUME NEW r, Report(r) PROVE Inv'
  BY <1>0, <1>11, OthersKeepInv DEF Report, caller, proxy, venue
<1>12. CASE UNCHANGED vars
  BY <1>0, <1>12, OthersKeepInv DEF vars, caller, proxy, venue
<1> QED
  BY <1>1, <1>2, <1>3, <1>4, <1>5, <1>6, <1>7, <1>8, <1>9, <1>10, <1>11, <1>12 DEF Next

LEMMA InvIsInvariant == Spec => []Inv
BY InitInv, StepInv, PTL DEF Spec

\* One request of an intent is forwarded, however many there are.
LEMMA OneForwarded ==
    ASSUME Inv, NEW r \in forwarded, NEW s \in forwarded, r.intent = s.intent
    PROVE  r = s
<1>1. /\ r.intent \in Intents
      /\ r.nonce \in 1 .. attempts[r.intent] /\ s.nonce \in 1 .. attempts[r.intent]
      /\ r = Attempt(r.intent, r.nonce) /\ s = Attempt(r.intent, s.nonce)
  BY DEF Inv, AttemptsOnly
<1>2. CASE given[r.intent]
  <2>1. r.key = s.key
    BY <1>1, <1>2, OneKey
  <2> QED BY <1>1, <2>1 DEF Inv, OneClaim, SameKey
<1>3. CASE ~given[r.intent]
  <2>1. attempts[r.intent] \in Nat /\ attempts[r.intent] <= 1
    BY <1>1, <1>3 DEF Inv, RetriesHaveTheKey
  <2>2. r.nonce = s.nonce
    BY <1>1, <2>1
  <2> QED BY <1>1, <2>2
<1> QED BY <1>2, <1>3

LEMMA OneOrder == Inv => AtMostOnePlaced
BY OneForwarded DEF Inv, AtMostOnePlaced

\* However often an order is retried, over however many lost and late requests
\* and answers, the venue places it at most once (client.py, idempotency.py:
\* every attempt sends the key that the caller made for its order).
THEOREM OrdersArePlacedOnce == Spec => []AtMostOnePlaced
BY InvIsInvariant, OneOrder, PTL
----------------------------------------------------------------------------
(* What callers are told.  An answer is true of the attempt it is for when *)
(* it is sent (AnswersAreTrue) and stays so: placed and refused only grow, *)
(* and an attempt that was refused is nowhere (Gone), nor does its number  *)
(* come again.  The clients decode it into what it says, and take nothing  *)
(* that an intermediary says for a decision.                               *)

Gone(i, n) == \A r \in net \cup forwarded : r.intent = i => r.nonce /= n
PlacedFor(i, n, replay) == \E r \in placed : r.intent = i /\ replay = (r.nonce /= n)
RefusedFor(i) == \E r \in refused : r.intent = i

AnswerIsTrue(a) ==
    LET i == a.to.intent
        n == a.to.nonce
    IN  /\ a.code \in Codes
        /\ a.code = "OK" => PlacedFor(i, n, a.replay)
        /\ a.code = "EXCHANGE_ERROR" => a.detail = "outcome_unknown" \/ RefusedFor(i)
        /\ a.code \notin {"OK", "EXCHANGE_ERROR"} => Gone(i, n)

EndIsTrue(i, n, ended) ==
    /\ ended.kind = "result" =>
            /\ ended.value = {Confirmed}
            /\ \E r \in placed :
                r.intent = i /\ (route[i] = "rest" => ended.replay = (r.nonce /= n))
    /\ ended.kind = "raised" /\ ended.exc.class \in ByCode =>
            IF ended.exc.class = "EXCHANGE_ERROR"
            THEN OutcomeUnknown(ended.exc) \/ RefusedFor(i)
            ELSE Gone(i, n)

OnePlace ==
    /\ net \cap forwarded = {} /\ placed \cap refused = {}
    /\ refused \subseteq forwarded /\ recorded \subseteq placed \cup refused

AnswersAreTrue ==
    \A a \in answers :
        /\ a.to.intent \in Intents
        /\ IsHeard(a.to)
        /\ AnswerIsTrue(a)

EndsAreTrue == \A i \in Intents : EndIsTrue(i, attempts[i], last[i])

Truth == OnePlace /\ AnswersAreTrue /\ EndsAreTrue

LEMMA RestDecodes ==
    ASSUME NEW a, a.code \in Codes, NEW wait, NEW ended,
           ended = HandleResponse(AnswerResponse(a, wait))
    PROVE  /\ a.code = "OK" =>
                ended.kind = "result" /\ ended.value = {Confirmed} /\ ended.replay = a.replay
           /\ a.code /= "OK" =>
                /\ ended.kind = "raised"
                /\ ended.exc.class = a.code /\ ended.exc.detail = a.detail
<1>1. CASE a.code = "OK"
  BY <1>1 DEF AnswerResponse, Response, Object, Body, NoError, ErrorMember, HandleResponse,
              IsRejection, Returned, Ended
<1>2. CASE a.code /= "OK"
  <2> DEFINE r == AnswerResponse(a, wait)
  <2>1. /\ r.status = 400 /\ r.body.is = "object" /\ r.body.error.is = "object"
        /\ r.body.error.code = a.code /\ r.body.error.detail = a.detail
    BY <1>2 DEF AnswerResponse, Response, Object, Body, ErrorObject, ErrorMember
  <2> HIDE DEF r
  <2>2. ended = Rejected(r, ParseRetryAfter(r.retryAfter))
    BY <2>1 DEF HandleResponse, IsRejection, r
  <2>3. a.code \in ByCode /\ a.code /= Absent
    BY <1>2 DEF Codes, Refusals, ByCode, Final, Transient, Depends, Absent
  <2>4. ended = Raised(FromResponse(a.code, a.detail, ParseRetryAfter(r.retryAfter)))
    BY <2>1, <2>2, <2>3 DEF Rejected, Get
  <2> QED BY <1>2, <2>3, <2>4 DEF Raised, Ended, FromResponse, Error
<1> QED BY <1>1, <1>2

LEMMA SocketDecodes ==
    ASSUME NEW a, a.code \in Codes, NEW ended, ended = RequestEnds(AnswerFrame(a))
    PROVE  /\ a.code = "OK" => ended.kind = "result" /\ ended.value = {Confirmed}
           /\ a.code /= "OK" =>
                /\ ended.kind = "raised"
                /\ ended.exc.class = a.code /\ ended.exc.detail = a.detail
<1> DEFINE f == AnswerFrame(a)
<1>1. CASE a.code = "OK"
  <2>1. f.event = "result" /\ f.success = TRUE
    BY <1>1 DEF AnswerFrame, EmptyFrame
  <2> HIDE DEF f
  <2>2. ErrorOf("kraken", f) = NoException
    BY <2>1 DEF ErrorOf
  <2> QED BY <1>1, <2>2 DEF RequestEnds, Returned, Ended, f
<1>2. CASE a.code /= "OK"
  <2>1. /\ f.event = "error" /\ f.error.is = "object"
        /\ f.error.code = a.code /\ f.error.detail = a.detail
    BY <1>2 DEF AnswerFrame, EmptyFrame, ErrorObject, ErrorMember
  <2> HIDE DEF f
  <2>2. a.code \in ByCode /\ a.code /= Absent
    BY <1>2 DEF Codes, Refusals, ByCode, Final, Transient, Depends, Absent
  <2>3. ErrorOf("kraken", f) = FromResponse(a.code, a.detail, Absent)
    BY <2>1, <2>2 DEF ErrorOf, Get
  <2>4. FromResponse(a.code, a.detail, Absent).class = a.code
    BY <2>2 DEF FromResponse, Error
  <2>5. NoException.class = Absent
    BY DEF NoException, Error
  <2>6. ended = Raised(FromResponse(a.code, a.detail, Absent))
    BY <2>2, <2>3, <2>4, <2>5 DEF RequestEnds, f
  <2> QED BY <1>2, <2>4, <2>6 DEF Raised, Ended, FromResponse, Error
<1> QED BY <1>1, <1>2

\* Nothing an intermediary answers is taken for a result or for a decision.
LEMMA ForeignDecidesNothing ==
    ASSUME NEW r \in Foreign
    PROVE  /\ HandleResponse(r).kind \in {"raised", "crashed"}
           /\ HandleResponse(r).exc.class \notin ByCode
<1>1. CASE r.body.is /= "object"
  BY <1>1 DEF HandleResponse, Raised, Ended, Unreachable, Error, ByCode, Final, Transient, Depends
<1>2. CASE r.body.is = "object"
  <2>1. /\ r.status \in {429, 502} /\ r.body.error.code = Absent
    BY <1>2 DEF Foreign, Response, NotJson, NotAnObject, Object, Body, NoError, BareError,
                ErrorMember
  <2>2. HandleResponse(r) = Rejected(r, ParseRetryAfter(r.retryAfter))
    BY <1>2, <2>1 DEF HandleResponse, IsRejection
  <2>3. /\ HttpCode \notin ByCode /\ "ProxyError" \notin ByCode /\ Absent \notin ByCode
    BY DEF HttpCode, ByCode, Final, Transient, Depends, Absent
  <2>4. Get(r.body.error.code, HttpCode) = HttpCode
    BY <2>1 DEF Get
  <2> QED BY <2>2, <2>3, <2>4 DEF Rejected, Crashed, Raised, Ended, FromResponse, Error, NoException
<1> QED BY <1>1, <1>2

LEMMA AnswersTellTheEnd ==
    ASSUME NEW a, AnswerIsTrue(a), NEW wait, NEW ended,
           ended = IF route[a.to.intent] = "rest" THEN HandleResponse(AnswerResponse(a, wait))
                   ELSE RequestEnds(AnswerFrame(a))
    PROVE  EndIsTrue(a.to.intent, a.to.nonce, ended)
<1>1. /\ a.code \in Codes
      /\ a.code = "OK" =>
            /\ ended.kind = "result" /\ ended.value = {Confirmed}
            /\ route[a.to.intent] = "rest" => ended.replay = a.replay
      /\ a.code /= "OK" =>
            /\ ended.kind = "raised"
            /\ ended.exc.class = a.code /\ ended.exc.detail = a.detail
  BY RestDecodes, SocketDecodes DEF AnswerIsTrue
<1>2. CASE a.code = "OK"
  BY <1>1, <1>2 DEF AnswerIsTrue, EndIsTrue, PlacedFor
<1>3. CASE a.code /= "OK"
  BY <1>1, <1>3 DEF AnswerIsTrue, EndIsTrue, OutcomeUnknown
<1> QED BY <1>2, <1>3

\* A request is known by its intent and its number.
LEMMA SameAttempt ==
    ASSUME Inv, NEW r \in net \cup forwarded, NEW s \in net \cup forwarded,
           r.intent = s.intent, r.nonce = s.nonce
    PROVE  r = s
BY DEF Inv, AttemptsOnly

LEMMA GoneWhenTaken ==
    ASSUME Inv, OnePlace, NEW r \in net, net' = net \ {r}, forwarded' = forwarded
    PROVE  Gone(r.intent, r.nonce)'
BY SameAttempt DEF OnePlace, Gone

LEMMA StillTrue ==
    ASSUME UNCHANGED <<route, attempts, last>>,
           placed \subseteq placed', refused \subseteq refused',
           net' \cup forwarded' \subseteq net \cup forwarded
    PROVE  /\ EndsAreTrue => EndsAreTrue'
           /\ \A a : AnswerIsTrue(a) => AnswerIsTrue(a)'
           /\ \A r : IsHeard(r) => IsHeard(r)'
<1>1. \A i, n : /\ Gone(i, n) => Gone(i, n)'
                /\ RefusedFor(i) => RefusedFor(i)'
                /\ \A replay : PlacedFor(i, n, replay) => PlacedFor(i, n, replay)'
  BY DEF Gone, RefusedFor, PlacedFor
<1>2. EndsAreTrue => EndsAreTrue'
  <2> SUFFICES ASSUME EndsAreTrue, NEW i \in Intents
               PROVE  EndIsTrue(i, attempts[i], last[i])'
    BY DEF EndsAreTrue
  <2>1. EndIsTrue(i, attempts[i], last[i])
    BY DEF EndsAreTrue
  <2> QED BY <1>1, <2>1 DEF EndIsTrue, Gone, RefusedFor
<1>3. \A a : AnswerIsTrue(a) => AnswerIsTrue(a)'
  BY <1>1 DEF AnswerIsTrue, Gone, RefusedFor, PlacedFor
<1>4. \A r : IsHeard(r) => IsHeard(r)'
  BY DEF IsHeard
<1> QED BY <1>2, <1>3, <1>4

\* A step that answers request r, and truly.
LEMMA AnswersStayTrue ==
    ASSUME UNCHANGED <<route, attempts, last>>,
           placed \subseteq placed', refused \subseteq refused',
           net' \cup forwarded' \subseteq net \cup forwarded,
           AnswersAreTrue, NEW r, r.intent \in Intents,
           NEW code, NEW detail, NEW replay, Answer(r, code, detail, replay),
           AnswerIsTrue([to |-> r, code |-> code, detail |-> detail, replay |-> replay])'
    PROVE  AnswersAreTrue'
<1> DEFINE new == [to |-> r, code |-> code, detail |-> detail, replay |-> replay]
<1>1. \A a \in answers' : a \in answers \/ (a = new /\ IsHeard(r))
  BY DEF Answer
<1>2. \A a \in answers : a.to.intent \in Intents /\ IsHeard(a.to)' /\ AnswerIsTrue(a)'
  BY StillTrue DEF AnswersAreTrue
<1>3. IsHeard(r) => IsHeard(new.to)'
  BY DEF IsHeard
<1> QED BY <1>1, <1>2, <1>3 DEF AnswersAreTrue

LEMMA EndsKeepsTruth ==
    ASSUME Inv, Truth, NEW i \in Intents, NEW ended,
           Ends(i, ended), EndIsTrue(i, attempts[i], ended)
    PROVE  Truth'
<1>1. UNCHANGED <<route, attempts, net, forwarded, placed, refused, recorded>>
  BY DEF Ends, proxy, venue
<1>2. OnePlace'
  BY <1>1 DEF Truth, OnePlace
<1>3. \A j \in Intents : last'[j] = IF j = i THEN ended ELSE last[j]
  BY DEF Ends, Inv, RetriesHaveTheKey
<1>4. AnswersAreTrue'
  <2> SUFFICES ASSUME NEW a \in answers'
               PROVE  a.to.intent \in Intents /\ IsHeard(a.to)' /\ AnswerIsTrue(a)'
    BY DEF AnswersAreTrue
  <2>1. /\ a \in answers /\ a.to.intent /= i
        /\ a.to.intent \in Intents /\ IsHeard(a.to) /\ AnswerIsTrue(a)
    BY DEF Ends, Truth, AnswersAreTrue
  <2>2. IsHeard(a.to)'
    BY <1>1, <1>3, <2>1 DEF IsHeard
  <2>3. AnswerIsTrue(a)'
    BY <1>1, <2>1 DEF AnswerIsTrue, Gone, RefusedFor, PlacedFor
  <2> QED BY <2>1, <2>2, <2>3
<1>5. EndsAreTrue'
  <2> SUFFICES ASSUME NEW j \in Intents PROVE EndIsTrue(j, attempts[j], last[j])'
    BY DEF EndsAreTrue
  <2>1. EndIsTrue(j, attempts[j], IF j = i THEN ended ELSE last[j])
    BY DEF Truth, EndsAreTrue
  <2> QED BY <1>1, <1>3, <2>1 DEF EndIsTrue, Gone, RefusedFor
<1> QED BY <1>2, <1>4, <1>5 DEF Truth

LEMMA CallKeepsTruth ==
    ASSUME Inv, Truth, NEW i \in Intents, Call(i)
    PROVE  Truth'
<1> DEFINE new == Attempt(i, attempts[i] + 1)
<1>1. UNCHANGED <<route, answers, forwarded, placed, refused, recorded>>
  BY DEF Call, proxy, venue
<1>2. attempts \in [Intents -> Nat] /\ last = [j \in Intents |-> last[j]]
  BY DEF Inv, RetriesHaveTheKey
<1>3. net' = net \cup {new} /\ new.intent = i /\ new.nonce = attempts[i] + 1
  BY <1>2 DEF Call, Attempt
<1>4. \A j \in Intents : /\ last'[j] = IF j = i THEN Waiting ELSE last[j]
                         /\ j /= i => attempts'[j] = attempts[j]
  BY <1>2 DEF Call
<1>5. OnePlace'
  <2>1. new \notin forwarded
    BY <1>2, <1>3 DEF Inv, AttemptsOnly
  <2> QED BY <1>1, <1>3, <2>1 DEF Truth, OnePlace
<1>6. last[i] /= Waiting
  BY DEF Call, NotAsked, Waiting, Ended, MayRetry, TimedOut, Raised
<1>7. \A j, n : j /= i /\ Gone(j, n) => Gone(j, n)'
  BY <1>1, <1>3 DEF Gone
<1>8. AnswersAreTrue'
  <2> SUFFICES ASSUME NEW a \in answers
               PROVE  a.to.intent \in Intents /\ IsHeard(a.to)' /\ AnswerIsTrue(a)'
    BY <1>1 DEF AnswersAreTrue
  <2>1. a.to.intent \in Intents /\ IsHeard(a.to) /\ AnswerIsTrue(a) /\ a.to.intent /= i
    BY <1>6 DEF Truth, AnswersAreTrue, IsHeard
  <2>2. IsHeard(a.to)'
    BY <1>4, <2>1 DEF IsHeard
  <2>3. AnswerIsTrue(a)'
    BY <1>1, <1>7, <2>1 DEF AnswerIsTrue, Gone, RefusedFor, PlacedFor
  <2> QED BY <2>1, <2>2, <2>3
<1>9. EndsAreTrue'
  <2> SUFFICES ASSUME NEW j \in Intents PROVE EndIsTrue(j, attempts[j], last[j])'
    BY DEF EndsAreTrue
  <2>1. CASE j = i
    <3>1. last'[i].kind = "waiting"
      BY <1>4 DEF Waiting, Ended
    <3> QED BY <2>1, <3>1 DEF EndIsTrue
  <2>2. CASE j /= i
    <3>1. EndIsTrue(j, attempts[j], last[j])
      BY DEF Truth, EndsAreTrue
    <3> QED BY <1>1, <1>4, <1>7, <2>2, <3>1 DEF EndIsTrue, Gone, RefusedFor
  <2> QED BY <2>1, <2>2
<1> QED BY <1>5, <1>8, <1>9 DEF Truth

LEMMA RefuseKeepsTruth ==
    ASSUME Inv, Truth, NEW r \in net, NEW code \in Refusals, Refuse(r, code)
    PROVE  Truth'
<1> DEFINE given_code == IF r.key = NoKey THEN "IDEMPOTENCY_KEY_REQUIRED" ELSE code
<1>1. UNCHANGED <<route, attempts, last, forwarded, placed, refused, recorded>> /\ net' = net \ {r}
  BY DEF Refuse, caller, proxy, venue
<1>2. r.intent \in Intents
  BY DEF Inv, AttemptsOnly
<1>3. Gone(r.intent, r.nonce)'
  BY <1>1, GoneWhenTaken DEF Truth
<1>4. given_code \in Codes \ {"OK", "EXCHANGE_ERROR"}
  BY DEF Codes, Refusals
<1>5. Answer(r, given_code, Absent, FALSE)
  BY DEF Refuse
<1> HIDE DEF given_code
<1>6. AnswerIsTrue([to |-> r, code |-> given_code, detail |-> Absent, replay |-> FALSE])'
  BY <1>3, <1>4 DEF AnswerIsTrue, Gone
<1>7. AnswersAreTrue'
  BY <1>1, <1>2, <1>5, <1>6, AnswersStayTrue DEF Truth
<1>8. OnePlace' /\ EndsAreTrue'
  BY <1>1, StillTrue DEF Truth, OnePlace
<1> QED BY <1>7, <1>8 DEF Truth

LEMMA RepeatKeepsTruth ==
    ASSUME Inv, Truth, NEW r \in net, Repeat(r)
    PROVE  Truth'
<1>1. UNCHANGED <<route, attempts, last, forwarded, placed, refused, recorded>> /\ net' = net \ {r}
  BY DEF Repeat, caller, proxy, venue
<1>2. r.intent \in Intents
  BY DEF Inv, AttemptsOnly
<1>3. Gone(r.intent, r.nonce)'
  BY <1>1, GoneWhenTaken DEF Truth
<1>4. PICK f \in forwarded :
        /\ SameKey(r, f)
        /\ IF f \in recorded
           THEN Answer(r, IF f \in placed THEN "OK" ELSE "EXCHANGE_ERROR", Absent, TRUE)
           ELSE Answer(r, "IDEMPOTENCY_IN_FLIGHT", Absent, FALSE)
  BY DEF Repeat
<1>5. f.intent = r.intent /\ f.nonce /= r.nonce
  BY <1>4, SameAttempt DEF SameKey, Truth, OnePlace
<1>6. CASE f \in recorded /\ f \in placed
  <2>1. Answer(r, "OK", Absent, TRUE)
    BY <1>4, <1>6
  <2>2. AnswerIsTrue([to |-> r, code |-> "OK", detail |-> Absent, replay |-> TRUE])'
    BY <1>1, <1>5, <1>6 DEF AnswerIsTrue, PlacedFor, Codes
  <2> QED BY <1>1, <1>2, <2>1, <2>2, AnswersStayTrue, StillTrue DEF Truth, OnePlace
<1>7. CASE f \in recorded /\ f \notin placed
  <2>1. Answer(r, "EXCHANGE_ERROR", Absent, TRUE)
    BY <1>4, <1>7
  <2>2. f \in refused
    BY <1>7 DEF Truth, OnePlace
  <2>3. AnswerIsTrue([to |-> r, code |-> "EXCHANGE_ERROR", detail |-> Absent, replay |-> TRUE])'
    BY <1>1, <1>5, <2>2 DEF AnswerIsTrue, RefusedFor, Codes
  <2> QED BY <1>1, <1>2, <2>1, <2>3, AnswersStayTrue, StillTrue DEF Truth, OnePlace
<1>8. CASE f \notin recorded
  <2>1. Answer(r, "IDEMPOTENCY_IN_FLIGHT", Absent, FALSE)
    BY <1>4, <1>8
  <2>2. AnswerIsTrue([to |-> r, code |-> "IDEMPOTENCY_IN_FLIGHT", detail |-> Absent,
                      replay |-> FALSE])'
    BY <1>3 DEF AnswerIsTrue, Gone, Codes
  <2> QED BY <1>1, <1>2, <2>1, <2>2, AnswersStayTrue, StillTrue DEF Truth, OnePlace
<1> QED BY <1>6, <1>7, <1>8

LEMMA RecordKeepsTruth ==
    ASSUME Inv, Truth, NEW r \in forwarded, Record(r)
    PROVE  Truth'
<1>1. UNCHANGED <<route, attempts, last, net, forwarded, placed, refused>>
  BY DEF Record, caller, venue
<1>2. r.intent \in Intents
  BY DEF Inv, AttemptsOnly
<1>3. OnePlace' /\ EndsAreTrue'
  BY <1>1, StillTrue DEF Truth, OnePlace, Record
<1>4. CASE r \in placed
  <2>1. AnswerIsTrue([to |-> r, code |-> "OK", detail |-> Absent, replay |-> FALSE])'
    BY <1>1, <1>4 DEF AnswerIsTrue, PlacedFor, Codes
  <2>2. Answer(r, "OK", Absent, FALSE)
    BY <1>4 DEF Record
  <2> QED BY <1>1, <1>2, <1>3, <2>1, <2>2, AnswersStayTrue DEF Truth
<1>5. CASE r \notin placed
  <2>1. r \in refused /\ Answer(r, "EXCHANGE_ERROR", Absent, FALSE)
    BY <1>5 DEF Record
  <2>2. AnswerIsTrue([to |-> r, code |-> "EXCHANGE_ERROR", detail |-> Absent, replay |-> FALSE])'
    BY <1>1, <2>1 DEF AnswerIsTrue, RefusedFor, Codes
  <2> QED BY <1>1, <1>2, <1>3, <2>1, <2>2, AnswersStayTrue DEF Truth
<1> QED BY <1>4, <1>5

LEMMA LoseOutcomeKeepsTruth ==
    ASSUME Inv, Truth, NEW r \in forwarded, LoseOutcome(r)
    PROVE  Truth'
<1>1. UNCHANGED <<route, attempts, last, net, forwarded, placed, refused, recorded>>
  BY DEF LoseOutcome, caller, venue
<1>2. r.intent \in Intents
  BY DEF Inv, AttemptsOnly
<1>3. AnswerIsTrue([to |-> r, code |-> "EXCHANGE_ERROR", detail |-> "outcome_unknown",
                    replay |-> FALSE])'
  BY DEF AnswerIsTrue, Codes
<1>4. Answer(r, "EXCHANGE_ERROR", "outcome_unknown", FALSE)
  BY DEF LoseOutcome
<1> QED BY <1>1, <1>2, <1>3, <1>4, AnswersStayTrue, StillTrue DEF Truth, OnePlace

\* The other steps answer nothing.
LEMMA OthersKeepTruth ==
    ASSUME Truth, UNCHANGED <<route, attempts, last, answers>>,
           placed \subseteq placed', refused \subseteq refused',
           net' \cup forwarded' \subseteq net \cup forwarded, OnePlace'
    PROVE  Truth'
<1>1. AnswersAreTrue'
  BY StillTrue DEF Truth, AnswersAreTrue
<1> QED BY <1>1, StillTrue DEF Truth

LEMMA TruthInit == Init => Truth
BY DEF Init, Truth, OnePlace, AnswersAreTrue, EndsAreTrue, EndIsTrue, NotAsked, Ended

LEMMA TruthStep == Inv /\ Truth /\ [Next]_vars => Truth'
<1> SUFFICES ASSUME Inv, Truth, [Next]_vars PROVE Truth'
  OBVIOUS
<1>1. ASSUME NEW i \in Intents, Call(i) PROVE Truth'
  BY <1>1, CallKeepsTruth
<1>2. ASSUME NEW i \in Intents, TransportFails(i) PROVE Truth'
  <2>1. PICK ended : /\ ended.kind = "raised" /\ ended.exc.class \notin ByCode
                     /\ Ends(i, ended)
    BY <1>2 DEF TransportFails, CallFails, TimedOut, Raised, Ended, Unreachable, Error, ByCode,
                Final, Transient, Depends
  <2> QED BY <2>1, EndsKeepsTruth DEF EndIsTrue
<1>3. ASSUME NEW i \in Intents, Intercepted(i) PROVE Truth'
  <2>1. PICK r \in Foreign : Ends(i, HandleResponse(r))
    BY <1>3 DEF Intercepted
  <2>2. EndIsTrue(i, attempts[i], HandleResponse(r))
    BY ForeignDecidesNothing DEF EndIsTrue
  <2> QED BY <2>1, <2>2, EndsKeepsTruth
<1>4. ASSUME NEW a \in answers, Answered(a) PROVE Truth'
  <2>1. /\ a.to.intent \in Intents /\ attempts[a.to.intent] = a.to.nonce
        /\ AnswerIsTrue(a)
    BY DEF Truth, AnswersAreTrue, IsHeard
  <2>2. PICK wait \in {Absent, "seconds", "date"} :
            Ends(a.to.intent,
                 IF route[a.to.intent] = "rest" THEN HandleResponse(AnswerResponse(a, wait))
                 ELSE RequestEnds(AnswerFrame(a)))
    BY <1>4 DEF Answered
  <2> DEFINE ended ==
                 IF route[a.to.intent] = "rest" THEN HandleResponse(AnswerResponse(a, wait))
                 ELSE RequestEnds(AnswerFrame(a))
  <2>3. EndIsTrue(a.to.intent, a.to.nonce, ended)
    BY <2>1, AnswersTellTheEnd
  <2>4. Ends(a.to.intent, ended)
    BY <2>2
  <2> HIDE DEF ended
  <2> QED BY <2>1, <2>3, <2>4, EndsKeepsTruth
<1>5. ASSUME NEW r \in net, Forward(r) PROVE Truth'
  <2>1. UNCHANGED <<route, attempts, last, answers, placed, refused, recorded>>
    BY <1>5 DEF Forward, caller, venue
  <2>2. OnePlace' /\ net' \cup forwarded' \subseteq net \cup forwarded
    BY <1>5, <2>1 DEF Forward, Truth, OnePlace
  <2> QED BY <2>1, <2>2, OthersKeepTruth
<1>6. ASSUME NEW r \in net, Repeat(r) PROVE Truth'
  BY <1>6, RepeatKeepsTruth
<1>7. ASSUME NEW r \in net, NEW code \in Refusals, Refuse(r, code) PROVE Truth'
  BY <1>7, RefuseKeepsTruth
<1>8. ASSUME NEW r \in forwarded, Record(r) PROVE Truth'
  BY <1>8, RecordKeepsTruth
<1>9. ASSUME NEW r \in forwarded, LoseOutcome(r) PROVE Truth'
  BY <1>9, LoseOutcomeKeepsTruth
<1>10. ASSUME NEW r \in forwarded, NEW ok \in BOOLEAN, Decide(r, ok) PROVE Truth'
  <2>1. UNCHANGED <<route, attempts, last, answers, net, forwarded, recorded>>
    BY <1>10 DEF Decide, caller, proxy
  <2>2. OnePlace' /\ placed \subseteq placed' /\ refused \subseteq refused'
    BY <1>10, <2>1 DEF Decide, Truth, OnePlace
  <2> QED BY <2>1, <2>2, OthersKeepTruth
<1>11. ASSUME NEW r, Report(r) PROVE Truth'
  BY <1>11, OthersKeepTruth DEF Report, caller, proxy, venue, Truth, OnePlace
<1>12. CASE UNCHANGED vars
  BY <1>12, OthersKeepTruth DEF vars, caller, proxy, venue, Truth, OnePlace
<1> QED
  BY <1>1, <1>2, <1>3, <1>4, <1>5, <1>6, <1>7, <1>8, <1>9, <1>10, <1>11, <1>12 DEF Next

LEMMA TruthIsInvariant == Spec => [](Inv /\ Truth)
<1>1. Init => Inv /\ Truth
  BY InitInv, TruthInit
<1>2. Inv /\ Truth /\ [Next]_vars => (Inv /\ Truth)'
  BY StepInv, TruthStep
<1> QED BY <1>1, <1>2, PTL DEF Spec

\* A call that returns confirms an order that is there, and says whether an
\* earlier attempt had placed it (client.py:217-250).
THEOREM ResultsArePlaced == Spec => []ResultMeansPlaced
<1>1. Truth => ResultMeansPlaced
  BY DEF Truth, EndsAreTrue, EndIsTrue, ResultMeansPlaced
<1> QED BY <1>1, TruthIsInvariant, PTL

\* An error that names a decision is right about the order, although an earlier
\* attempt may have been forwarded and its answer lost (errors.py).
THEOREM ErrorsAreRight == Spec => []VerdictsAreTrue
<1>1. Inv /\ Truth => VerdictsAreTrue
  <2> SUFFICES ASSUME Inv, Truth, NEW i \in Intents,
                      last[i].kind = "raised", last[i].exc.class \in ByCode,
                      NEW r \in placed, r.intent = i
               PROVE  IF last[i].exc.class = "EXCHANGE_ERROR" THEN OutcomeUnknown(last[i].exc)
                      ELSE r.nonce /= attempts[i]
    BY DEF VerdictsAreTrue
  <2>1. EndIsTrue(i, attempts[i], last[i]) /\ r \in forwarded
    BY DEF Truth, EndsAreTrue, Inv
  <2>2. CASE last[i].exc.class = "EXCHANGE_ERROR"
    <3>1. ASSUME NEW f \in refused, f.intent = i PROVE FALSE
      <4>1. f \in forwarded /\ f \notin placed
        BY DEF Truth, OnePlace
      <4>2. f = r
        BY <2>1, <3>1, <4>1, OneForwarded
      <4> QED BY <4>1, <4>2
    <3> QED BY <2>1, <2>2, <3>1 DEF EndIsTrue, RefusedFor
  <2>3. CASE last[i].exc.class /= "EXCHANGE_ERROR"
    BY <2>1, <2>3 DEF EndIsTrue, Gone
  <2> QED BY <2>2, <2>3
<1> QED BY <1>1, TruthIsInvariant, PTL
----------------------------------------------------------------------------
(* What callers and auditor are told of an unknown outcome, and that every *)
(* end is one they can tell apart.  The Proxy says "unknown" only of what  *)
(* it has lost, which it never records: so that stays unresolved.          *)

LostFor(i) == \E r \in lost : r.intent = i

EndIsTold(i, ended) ==
    /\ ended.exc.retryAfter \in {Absent, "seconds"}
    /\ ended.kind = "crashed" => BareErrors
    /\ OutcomeUnknown(ended.exc) => LostFor(i)

EndsAreTold == \A i \in Intents : EndIsTold(i, last[i])
AnswersAreTold ==
    \A a \in answers : a.detail = "outcome_unknown" => LostFor(a.to.intent)

Told ==
    /\ TypeOK /\ EndsAreTold /\ AnswersAreTold
    /\ lost \cap recorded = {} /\ DoubtfulIsListed

LEMMA ResponsesAreTold ==
    ASSUME NEW r
    PROVE  /\ HandleResponse(r).exc.retryAfter \in {Absent, "seconds"}
           /\ HandleResponse(r).kind = "crashed" => r.body.error.is = "bare"
           /\ OutcomeUnknown(HandleResponse(r).exc) => r.body.error.detail = "outcome_unknown"
<1>1. /\ Unreachable.retryAfter = Absent /\ ~OutcomeUnknown(Unreachable)
      /\ NoException.retryAfter = Absent /\ ~OutcomeUnknown(NoException)
  BY DEF Unreachable, NoException, Error, OutcomeUnknown, Absent
<1>2. ASSUME NEW c, NEW d, NEW w \in {Absent, "seconds"}
      PROVE  /\ FromResponse(c, d, w).retryAfter \in {Absent, "seconds"}
             /\ OutcomeUnknown(FromResponse(c, d, w)) => d = "outcome_unknown"
  BY DEF FromResponse, Error, OutcomeUnknown
<1>3. CASE r.body.is /= "object"
  BY <1>1, <1>3 DEF HandleResponse, Raised, Ended
<1>4. CASE r.body.is = "object" /\ ~IsRejection(r)
  BY <1>1, <1>4 DEF HandleResponse, Returned, Ended
<1>5. CASE r.body.is = "object" /\ IsRejection(r)
  <2>1. HandleResponse(r) = Rejected(r, ParseRetryAfter(r.retryAfter))
    BY <1>5 DEF HandleResponse
  <2>2. ParseRetryAfter(r.retryAfter) \in {Absent, "seconds"}
    BY DEF ParseRetryAfter
  <2>3. CASE r.body.error.is = "bare"
    BY <1>1, <2>1, <2>3 DEF Rejected, Crashed, Ended
  <2>4. CASE r.body.error.is /= "bare"
    BY <1>2, <2>1, <2>2, <2>4 DEF Rejected, Raised, Ended
  <2> QED BY <2>3, <2>4
<1> QED BY <1>3, <1>4, <1>5

LEMMA RequestsAreTold ==
    ASSUME NEW f
    PROVE  /\ RequestEnds(f).exc.retryAfter \in {Absent, "seconds"}
           /\ RequestEnds(f).kind /= "crashed"
           /\ OutcomeUnknown(RequestEnds(f).exc) =>
                f.error.detail = "outcome_unknown" \/ f.detail = "outcome_unknown"
<1> DEFINE exc == ErrorOf("kraken", f)
<1>1. /\ NoException.retryAfter = Absent /\ ~OutcomeUnknown(NoException)
      /\ WebSocketRequestError.retryAfter = Absent /\ ~OutcomeUnknown(WebSocketRequestError)
  BY DEF NoException, WebSocketRequestError, Error, OutcomeUnknown, Absent
<1>2. ASSUME NEW c, NEW d
      PROVE  /\ FromResponse(c, d, Absent).retryAfter = Absent
             /\ OutcomeUnknown(FromResponse(c, d, Absent)) => d = "outcome_unknown"
  BY DEF FromResponse, Error, OutcomeUnknown
<1>3. /\ exc.retryAfter = Absent
      /\ OutcomeUnknown(exc) =>
            f.error.detail = "outcome_unknown" \/ f.detail = "outcome_unknown"
  BY <1>1, <1>2 DEF ErrorOf
<1>4. RequestEnds(f) = IF exc = NoException THEN Returned({Confirmed}, FALSE) ELSE Raised(exc)
  BY DEF RequestEnds
<1> HIDE DEF exc
<1> QED BY <1>1, <1>3, <1>4 DEF Returned, Raised, Ended

LEMMA ForeignIsTold ==
    ASSUME NEW i, NEW r \in Foreign
    PROVE  EndIsTold(i, HandleResponse(r))
<1>1. /\ r.body.error.is = "bare" => BareErrors
      /\ r.body.error.detail = Absent
  BY DEF Foreign, Response, NotJson, NotAnObject, Object, Body, NoError, BareError, ErrorMember
<1> QED BY <1>1, ResponsesAreTold DEF EndIsTold, Absent

LEMMA AnswersTell ==
    ASSUME AnswersAreTold, NEW a \in answers, a.detail = Absent \/ a.detail = "outcome_unknown",
           NEW wait, NEW ended,
           ended = IF route[a.to.intent] = "rest" THEN HandleResponse(AnswerResponse(a, wait))
                   ELSE RequestEnds(AnswerFrame(a))
    PROVE  EndIsTold(a.to.intent, ended)
<1>1. LET r == AnswerResponse(a, wait) IN
        /\ r.body.error.is /= "bare"
        /\ r.body.error.detail = "outcome_unknown" => a.detail = "outcome_unknown"
  BY DEF AnswerResponse, Response, Object, Body, NoError, ErrorObject, ErrorMember, Absent
<1>2. LET f == AnswerFrame(a) IN
        /\ f.detail /= "outcome_unknown"
        /\ f.error.detail = "outcome_unknown" => a.detail = "outcome_unknown"
  BY DEF AnswerFrame, EmptyFrame, NoError, ErrorObject, ErrorMember, Absent
<1>3. a.detail = "outcome_unknown" => LostFor(a.to.intent)
  BY DEF AnswersAreTold
<1>4. CASE route[a.to.intent] = "rest"
  BY <1>1, <1>3, <1>4, ResponsesAreTold DEF EndIsTold
<1>5. CASE route[a.to.intent] /= "rest"
  BY <1>2, <1>3, <1>5, RequestsAreTold DEF EndIsTold
<1> QED BY <1>4, <1>5

\* A request is one of its type.
LEMMA AttemptType ==
    ASSUME NEW i \in Intents, NEW n \in 1 .. MaxAttempts
    PROVE  Attempt(i, n) \in Requests
<1>1. Attempt(i, n).key \in {NoKey, OwnKey, n}
  BY SMT DEF Attempt, Prepare, RequestKey, RequestFrame
<1>2. {NoKey, OwnKey, n} \subseteq NoKey .. MaxAttempts
  BY OrderRetryAssumption DEF NoKey, OwnKey
<1>3. Attempt(i, n) = [intent |-> i, nonce |-> n, key |-> Attempt(i, n).key]
  BY DEF Attempt
<1> QED BY <1>1, <1>2, <1>3 DEF Requests

LEMMA AnswerType ==
    ASSUME TypeOK, NEW r \in Requests, NEW code \in Codes, NEW detail \in Details,
           NEW replay \in BOOLEAN, Answer(r, code, detail, replay)
    PROVE  answers' \subseteq Answers
<1>1. [to |-> r, code |-> code, detail |-> detail, replay |-> replay] \in Answers
  BY DEF Answers
<1> QED BY <1>1 DEF TypeOK, Answer

LEMMA AnswerIsTold ==
    ASSUME AnswersAreTold, NEW r, NEW code, NEW detail, NEW replay,
           Answer(r, code, detail, replay), lost \subseteq lost',
           detail = "outcome_unknown" => r \in lost'
    PROVE  AnswersAreTold'
<1> DEFINE b == [to |-> r, code |-> code, detail |-> detail, replay |-> replay]
<1>1. answers' \subseteq answers \cup {b} /\ b.detail = detail /\ b.to = r
  BY DEF Answer
<1> HIDE DEF b
<1>2. \A i : LostFor(i) => LostFor(i)'
  BY DEF LostFor
<1>3. detail = "outcome_unknown" => \A i : i = r.intent => LostFor(i)'
  BY DEF LostFor
<1>4. ASSUME NEW a \in answers', a.detail = "outcome_unknown"
      PROVE  \A i : i = a.to.intent => LostFor(i)'
  BY <1>1, <1>2, <1>3, <1>4 DEF AnswersAreTold
<1> QED BY <1>4 DEF AnswersAreTold

LEMMA EndsKeepsTold ==
    ASSUME Inv, Told, NEW i \in Intents, NEW ended, EndIsTold(i, ended), Ends(i, ended)
    PROVE  Told'
<1>1. /\ last' = [last EXCEPT ![i] = ended] /\ answers' \subseteq answers
      /\ UNCHANGED <<route, given, attempts, net, forwarded, recorded, lost, placed, refused, report>>
  BY DEF Ends, proxy, venue
<1>2. \A j \in Intents : last'[j] = IF j = i THEN ended ELSE last[j]
  BY <1>1 DEF Inv, RetriesHaveTheKey
<1>3. EndsAreTold'
  BY <1>1, <1>2 DEF Told, EndsAreTold, EndIsTold, LostFor
<1>4. AnswersAreTold'
  BY <1>1 DEF Told, AnswersAreTold, LostFor
<1>5. TypeOK'
  BY <1>1, <1>3 DEF Told, TypeOK, EndsAreTold, EndIsTold
<1> QED BY <1>1, <1>3, <1>4, <1>5 DEF Told, DoubtfulIsListed

\* Steps that end no attempt and report nothing.
LEMMA OthersKeepTold ==
    ASSUME Told, TypeOK', AnswersAreTold', UNCHANGED <<last, report>>, lost \subseteq lost',
           (lost \cap recorded = {})'
    PROVE  Told'
<1>1. EndsAreTold'
  BY DEF Told, EndsAreTold, EndIsTold, LostFor
<1> QED BY <1>1 DEF Told, DoubtfulIsListed

LEMMA CallKeepsTold ==
    ASSUME Inv, Told, NEW i \in Intents, Call(i)
    PROVE  Told'
<1> DEFINE n == attempts[i] + 1
<1>1. /\ attempts' = [attempts EXCEPT ![i] = n] /\ last' = [last EXCEPT ![i] = Waiting]
      /\ attempts[i] \in 0 .. MaxAttempts /\ attempts[i] < MaxAttempts
      /\ UNCHANGED <<route, given, answers, forwarded, recorded, lost, placed, refused, report>>
  BY DEF Call, Told, TypeOK, proxy, venue
<1>2. n \in 1 .. MaxAttempts /\ attempts'[i] = n
  BY <1>1, OrderRetryAssumption DEF Told, TypeOK
<1>3. net' = net \cup {Attempt(i, n)}
  BY <1>2 DEF Call
<1>4. /\ Waiting.exc.retryAfter = Absent /\ Waiting.kind = "waiting"
      /\ ~OutcomeUnknown(Waiting.exc)
  BY DEF Waiting, Ended, NoException, Error, OutcomeUnknown, Absent
<1>5. \A j \in Intents : last'[j] = IF j = i THEN Waiting ELSE last[j]
  BY <1>1 DEF Inv, RetriesHaveTheKey
<1>6. EndsAreTold'
  BY <1>1, <1>4, <1>5 DEF Told, EndsAreTold, EndIsTold, LostFor
<1>7. Attempt(i, n) \in Requests
  BY <1>2, AttemptType
<1>8. TypeOK'
  <2>1. attempts' \in [Intents -> 0 .. MaxAttempts]
    BY <1>1, <1>2 DEF Told, TypeOK
  <2>2. net' \subseteq Requests
    BY <1>3, <1>7 DEF Told, TypeOK
  <2> QED BY <1>1, <1>6, <2>1, <2>2 DEF Told, TypeOK, EndsAreTold, EndIsTold
<1> QED BY <1>1, <1>6, <1>8 DEF Told, AnswersAreTold, LostFor, DoubtfulIsListed

LEMMA ReportKeepsTold ==
    ASSUME Told, NEW r \in ReportAnswers \cup Foreign, Report(r)
    PROVE  Told'
<1>1. /\ UNCHANGED <<route, given, attempts, last, net, answers, forwarded, recorded, lost, placed, refused>>
      /\ report' = [outcome |-> UnresolvedOrders(r), answered |-> r.body.orders /= {},
                    doubtful |-> Doubtful]
  BY DEF Report, caller, proxy, venue
<1>2. TypeOK' /\ EndsAreTold' /\ AnswersAreTold'
  BY <1>1 DEF Told, TypeOK, EndsAreTold, EndIsTold, AnswersAreTold, LostFor
<1>3. Doubtful \subseteq Unresolved
  <2> SUFFICES ASSUME NEW i \in Intents, OutcomeUnknown(last[i].exc)
               PROVE  i \in Unresolved
    BY DEF Doubtful
  <2>1. PICK s \in lost : s.intent = i
    BY DEF Told, EndsAreTold, EndIsTold, LostFor
  <2>2. s \in forwarded \ recorded
    BY DEF Told, TypeOK
  <2> QED BY <2>1, <2>2 DEF Unresolved
<1>4. DoubtfulIsListed'
  <2>1. CASE r.body.orders = {}
    BY <1>1, <2>1 DEF DoubtfulIsListed
  <2>2. CASE r.body.orders /= {}
    <3>1. r = Response(200, Object(NoError, {}, {Unresolved}), Absent, FALSE)
      BY <2>2 DEF ReportAnswers, Foreign, Response, Object, Body, NotJson, NotAnObject
    <3>2. HandleReport(r) = Returned({Unresolved}, FALSE)
      <4>1. /\ r.status = 200 /\ r.body.is = "object" /\ r.body.error.is = "missing"
            /\ r.body.orders = {Unresolved}
        BY <3>1 DEF Response, Object, Body, NoError, ErrorMember
      <4>2. ~IsRejection(r)
        BY <4>1 DEF IsRejection
      <4> QED BY <4>1, <4>2 DEF HandleReport
    <3>3. UnresolvedOrders(r) = Returned({Unresolved}, FALSE)
      BY <3>2 DEF UnresolvedOrders, Returned, Ended
    <3>4. /\ report'.outcome.kind = "result" /\ report'.outcome.value = {Unresolved}
          /\ report'.doubtful = Doubtful
      BY <1>1, <3>3 DEF Returned, Ended
    <3> QED BY <1>3, <3>4 DEF DoubtfulIsListed
  <2> QED BY <2>1, <2>2
<1> QED BY <1>1, <1>2, <1>4 DEF Told

LEMMA ToldInit == Init => Told
<1> SUFFICES ASSUME Init PROVE Told
  OBVIOUS
<1>1. /\ NotAsked.exc.retryAfter = Absent /\ NotAsked.kind = "none"
      /\ ~OutcomeUnknown(NotAsked.exc)
  BY DEF NotAsked, Ended, NoException, Error, OutcomeUnknown, Absent
<1>2. EndsAreTold /\ AnswersAreTold
  BY <1>1 DEF Init, EndsAreTold, EndIsTold, AnswersAreTold
<1>3. 0 \in 0 .. MaxAttempts
  BY OrderRetryAssumption
<1>4. TypeOK
  BY <1>2, <1>3 DEF Init, TypeOK, EndsAreTold, EndIsTold
<1> QED BY <1>2, <1>4 DEF Init, Told, DoubtfulIsListed

LEMMA ToldStep == Inv /\ Truth /\ Told /\ [Next]_vars => Told'
<1> SUFFICES ASSUME Inv, Truth, Told, [Next]_vars PROVE Told'
  OBVIOUS
<1>0. /\ TypeOK /\ AnswersAreTold /\ lost \cap recorded = {}
      /\ {"OK", "EXCHANGE_ERROR", "IDEMPOTENCY_IN_FLIGHT", "IDEMPOTENCY_KEY_REQUIRED"} \subseteq Codes
      /\ Refusals \subseteq Codes /\ Absent \in Details /\ Absent /= "outcome_unknown"
      /\ "outcome_unknown" \in Details
  BY DEF Told, Codes, Details, Absent
<1>1. ASSUME NEW i \in Intents, Call(i) PROVE Told'
  BY <1>1, CallKeepsTold
<1>2. ASSUME NEW i \in Intents, TransportFails(i) PROVE Told'
  <2>1. PICK ended : EndIsTold(i, ended) /\ Ends(i, ended)
    BY <1>2 DEF TransportFails, CallFails, TimedOut, Raised, Ended, Unreachable, Error, EndIsTold,
                OutcomeUnknown
  <2> QED BY <2>1, EndsKeepsTold
<1>3. ASSUME NEW i \in Intents, Intercepted(i) PROVE Told'
  BY <1>3, ForeignIsTold, EndsKeepsTold DEF Intercepted
<1>4. ASSUME NEW a \in answers, Answered(a) PROVE Told'
  <2>1. PICK wait \in {Absent, "seconds", "date"} :
            Ends(a.to.intent,
                 IF route[a.to.intent] = "rest" THEN HandleResponse(AnswerResponse(a, wait))
                 ELSE RequestEnds(AnswerFrame(a)))
    BY <1>4 DEF Answered
  <2> DEFINE ended ==
                 IF route[a.to.intent] = "rest" THEN HandleResponse(AnswerResponse(a, wait))
                 ELSE RequestEnds(AnswerFrame(a))
  <2>2. a.to.intent \in Intents
    BY DEF Truth, AnswersAreTrue
  <2>3. a.detail = Absent \/ a.detail = "outcome_unknown"
    BY <1>0 DEF TypeOK, Answers, Details
  <2>4. EndIsTold(a.to.intent, ended)
    BY <1>0, <2>3, AnswersTell
  <2>5. Ends(a.to.intent, ended)
    BY <2>1
  <2> HIDE DEF ended
  <2> QED BY <2>2, <2>4, <2>5, EndsKeepsTold
<1>5. ASSUME NEW r \in net, Forward(r) PROVE Told'
  <2>1. UNCHANGED <<route, given, attempts, last, answers, recorded, lost, placed, refused, report>>
    BY <1>5 DEF Forward, caller, venue
  <2>2. TypeOK'
    BY <1>0, <1>5, <2>1 DEF Forward, TypeOK
  <2> QED BY <1>0, <2>1, <2>2, OthersKeepTold DEF AnswersAreTold, LostFor
<1>6. ASSUME NEW r \in net, Repeat(r) PROVE Told'
  <2>1. /\ UNCHANGED <<route, given, attempts, last, forwarded, recorded, lost, placed, refused, report>>
        /\ net' \subseteq net /\ r \in Requests
    BY <1>0, <1>6 DEF Repeat, caller, proxy, venue, TypeOK
  <2>2. PICK code \in Codes, replay \in BOOLEAN : Answer(r, code, Absent, replay)
    BY <1>0, <1>6 DEF Repeat
  <2>3. TypeOK'
    BY <1>0, <2>1, <2>2, AnswerType DEF TypeOK
  <2>4. AnswersAreTold'
    BY <1>0, <2>1, <2>2, AnswerIsTold
  <2> QED BY <1>0, <2>1, <2>3, <2>4, OthersKeepTold
<1>7. ASSUME NEW r \in net, NEW code \in Refusals, Refuse(r, code) PROVE Told'
  <2>1. /\ UNCHANGED <<route, given, attempts, last, forwarded, recorded, lost, placed, refused, report>>
        /\ net' \subseteq net /\ r \in Requests
    BY <1>0, <1>7 DEF Refuse, caller, proxy, venue, TypeOK
  <2>2. PICK c \in Codes : Answer(r, c, Absent, FALSE)
    BY <1>0, <1>7 DEF Refuse
  <2>3. TypeOK'
    BY <1>0, <2>1, <2>2, AnswerType DEF TypeOK
  <2>4. AnswersAreTold'
    BY <1>0, <2>1, <2>2, AnswerIsTold
  <2> QED BY <1>0, <2>1, <2>3, <2>4, OthersKeepTold
<1>8. ASSUME NEW r \in forwarded, Record(r) PROVE Told'
  <2>1. /\ UNCHANGED <<route, given, attempts, last, net, forwarded, lost, placed, refused, report>>
        /\ recorded' = recorded \cup {r} /\ r \in (placed \cup refused) \ (recorded \cup lost)
        /\ r \in Requests
    BY <1>0, <1>8 DEF Record, caller, venue, TypeOK
  <2>2. PICK c \in Codes : Answer(r, c, Absent, FALSE)
    BY <1>0, <1>8 DEF Record
  <2>3. TypeOK'
    BY <1>0, <2>1, <2>2, AnswerType DEF TypeOK
  <2>4. AnswersAreTold'
    BY <1>0, <2>1, <2>2, AnswerIsTold
  <2> QED BY <1>0, <2>1, <2>3, <2>4, OthersKeepTold
<1>9. ASSUME NEW r \in forwarded, LoseOutcome(r) PROVE Told'
  <2>1. /\ UNCHANGED <<route, given, attempts, last, net, forwarded, recorded, placed, refused, report>>
        /\ lost' = lost \cup {r} /\ r \notin recorded /\ r \in Requests
    BY <1>0, <1>9 DEF LoseOutcome, caller, venue, TypeOK
  <2>2. Answer(r, "EXCHANGE_ERROR", "outcome_unknown", FALSE)
    BY <1>9 DEF LoseOutcome
  <2>3. TypeOK'
    BY <1>0, <2>1, <2>2, AnswerType DEF TypeOK
  <2>4. AnswersAreTold'
    BY <1>0, <2>1, <2>2, AnswerIsTold
  <2> QED BY <1>0, <2>1, <2>3, <2>4, OthersKeepTold
<1>10. ASSUME NEW r \in forwarded, NEW ok \in BOOLEAN, Decide(r, ok) PROVE Told'
  <2>1. UNCHANGED <<route, given, attempts, last, net, answers, forwarded, recorded, lost, report>>
    BY <1>10 DEF Decide, caller, proxy
  <2>2. TypeOK'
    BY <1>0, <1>10, <2>1 DEF Decide, TypeOK
  <2> QED BY <1>0, <2>1, <2>2, OthersKeepTold DEF AnswersAreTold, LostFor
<1>11. ASSUME NEW r \in ReportAnswers \cup Foreign, Report(r) PROVE Told'
  BY <1>11, ReportKeepsTold
<1>12. CASE UNCHANGED vars
  <2>1. /\ UNCHANGED <<route, given, attempts, last, net, answers, forwarded, recorded, lost>>
        /\ UNCHANGED <<placed, refused, report>>
    BY <1>12 DEF vars, caller, proxy, venue
  <2>2. TypeOK'
    BY <1>0, <2>1 DEF TypeOK
  <2> QED BY <1>0, <2>1, <2>2, OthersKeepTold DEF AnswersAreTold, LostFor
<1> QED
  BY <1>1, <1>2, <1>3, <1>4, <1>5, <1>6, <1>7, <1>8, <1>9, <1>10, <1>11, <1>12 DEF Next

LEMMA ToldIsInvariant == Spec => []Told
<1>1. Init => Inv /\ Truth /\ Told
  BY InitInv, TruthInit, ToldInit
<1>2. Inv /\ Truth /\ Told /\ [Next]_vars => (Inv /\ Truth /\ Told)'
  BY StepInv, TruthStep, ToldStep
<1> QED BY <1>1, <1>2, PTL DEF Spec

\* Every variable stays in its type: requests carry a key that was made, what
\* the venue decided was forwarded, and a "retry after" is in seconds.
THEOREM OrderRetryTypeCorrect == Spec => []TypeOK
<1>1. Told => TypeOK
  BY DEF Told
<1> QED BY <1>1, ToldIsInvariant, PTL

\* Whoever answers, the caller's exception is a ProxyError (or a TimeoutError),
\* as long as no intermediary answers an object whose "error" is no object
\* (client.py:217-250; with one, the run rest_untyped_error shows otherwise).
THEOREM EveryErrorIsTyped ==
    ASSUME ~BareErrors
    PROVE  Spec => []OnlyTypedErrors
<1>1. Told => OnlyTypedErrors
  BY DEF Told, EndsAreTold, EndIsTold, OnlyTypedErrors
<1> QED BY <1>1, ToldIsInvariant, PTL

\* An order that its caller was told to be of unknown outcome is on the list of
\* unresolved orders whenever the auditor gets one: the Proxy records nothing
\* of what it said it had lost (reporting.py: unresolved_orders).
THEOREM DoubtfulOrdersAreListed == Spec => []DoubtfulIsListed
<1>1. Told => DoubtfulIsListed
  BY DEF Told
<1> QED BY <1>1, ToldIsInvariant, PTL
============================================================================
