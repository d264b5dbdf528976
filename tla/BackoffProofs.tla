--------------------------- MODULE BackoffProofs ---------------------------
(***************************************************************************)
(* Theorems about Backoff, for every exponent range: the delay is a        *)
(* function of the attempt (DelayOfAttempt), and the attempts end at the   *)
(* overflow (AttemptsEnd).                                                 *)
(***************************************************************************)
EXTENDS Backoff, TLAPS

\* The delay is the policy's; before the first attempt it was not asked.
DelayOfAttempt == alive /\ attempt >= 1 => delay = DefaultBackoff(attempt)

AttemptsEnd == IF alive THEN attempt <= MaxExponent + 1 ELSE attempt = MaxExponent + 2

\* The inductive invariant.
Inv == TypeOK /\ DelayOfAttempt /\ AttemptsEnd

LEMMA Powers ==
    /\ 2 ^ 0 = 1 /\ 2 ^ 1 = 2 /\ 2 ^ 2 = 4
    /\ 2 ^ 3 = 8 /\ 2 ^ 4 = 16 /\ 2 ^ 5 = 32
BY SMT

\* What the policy returns, short of an overflow.
LEMMA DelayValues ==
    ASSUME NEW a \in Nat
    PROVE  /\ DefaultBackoff(a) = Raises <=> Exponent(a) > MaxExponent
           /\ DefaultBackoff(a) /= Raises =>
                DefaultBackoff(a) = IF a <= 1 THEN 1
                                    ELSE IF a = 2 THEN 2
                                    ELSE IF a = 3 THEN 4
                                    ELSE IF a = 4 THEN 8
                                    ELSE IF a = 5 THEN 16
                                    ELSE IF a = 6 THEN 32
                                    ELSE 60
           /\ DefaultBackoff(a) \in 0 .. MaxDelay \cup {Raises}
<1>1. Exponent(a) \in Nat /\ Exponent(a) = IF a > 0 THEN a - 1 ELSE 0
  BY DEF Exponent
<1>2. MaxExponent \in Nat
  BY BackoffAssumption
<1>3. CASE Exponent(a) > MaxExponent
  BY <1>3 DEF DefaultBackoff, Raises
<1>4. CASE Exponent(a) <= MaxExponent /\ Exponent(a) >= 6
  BY <1>1, <1>2, <1>4 DEF DefaultBackoff, Raises, CapExponent, MaxDelay
<1>5. CASE Exponent(a) <= MaxExponent /\ Exponent(a) < 6
  <2>1. DefaultBackoff(a) = 2 ^ Exponent(a)
    BY <1>1, <1>2, <1>5 DEF DefaultBackoff, CapExponent
  <2>2. Exponent(a) \in {0, 1, 2, 3, 4, 5}
    BY <1>1, <1>5
  <2>3. /\ Exponent(a) = 0 => DefaultBackoff(a) = 1
        /\ Exponent(a) = 1 => DefaultBackoff(a) = 2
        /\ Exponent(a) = 2 => DefaultBackoff(a) = 4
        /\ Exponent(a) = 3 => DefaultBackoff(a) = 8
        /\ Exponent(a) = 4 => DefaultBackoff(a) = 16
        /\ Exponent(a) = 5 => DefaultBackoff(a) = 32
    BY <2>1, Powers
  <2> QED BY <1>1, <1>2, <1>5, <2>2, <2>3 DEF Raises, MaxDelay
<1> QED BY <1>1, <1>2, <1>3, <1>4, <1>5

LEMMA InitInv == Init => Inv
BY BackoffAssumption DEF Init, Inv, TypeOK, DelayOfAttempt, AttemptsEnd, MaxDelay

LEMMA StepInv == Inv /\ [Next]_vars => Inv'
<1> SUFFICES ASSUME Inv, [Next]_vars PROVE Inv'
  OBVIOUS
<1>1. CASE UNCHANGED vars
  BY <1>1 DEF vars, Inv, TypeOK, DelayOfAttempt, AttemptsEnd
<1>2. ASSUME NEW longLived \in BOOLEAN, Decide(longLived) PROVE Inv'
  <2>1. /\ alive /\ attempt \in Nat /\ attempt <= MaxExponent + 1 /\ MaxExponent \in Nat
        /\ attempt' = IF longLived THEN 0 ELSE attempt + 1
        /\ attempt' \in 0 .. MaxAttempt
        /\ delay' = DefaultBackoff(attempt') /\ alive' = (delay' /= Raises)
    BY <1>2, BackoffAssumption DEF Decide, Inv, TypeOK, AttemptsEnd
  <2>2. TypeOK' /\ DelayOfAttempt'
    BY <2>1, DelayValues DEF TypeOK, DelayOfAttempt
  <2>3. delay' = Raises <=> Exponent(attempt') > MaxExponent
    BY <2>1, DelayValues
  <2>4. CASE delay' = Raises
    <3>1. alive' = FALSE
      BY <2>1, <2>4
    <3>2. attempt' = MaxExponent + 2
      BY <2>1, <2>3, <2>4 DEF Exponent
    <3> QED BY <2>2, <3>1, <3>2 DEF AttemptsEnd, Inv
  <2>5. CASE delay' /= Raises
    <3>1. alive' = TRUE
      BY <2>1, <2>5
    <3>2. attempt' <= MaxExponent + 1
      BY <2>1, <2>3, <2>5 DEF Exponent
    <3> QED BY <2>2, <3>1, <3>2 DEF AttemptsEnd, Inv
  <2> QED BY <2>4, <2>5
<1> QED BY <1>1, <1>2 DEF Next

LEMMA InvIsInvariant == Spec => []Inv
BY InitInv, StepInv, PTL DEF Spec

\* The attempt counter and the delay stay in their range, however long the
\* outage.
THEOREM BackoffTypeCorrect == Spec => []TypeOK
<1>1. Inv => TypeOK
  BY DEF Inv
<1> QED BY <1>1, InvIsInvariant, PTL

\* Only the overflow of the power ends the supervise task, at the attempt after
\* the last one whose exponent is in range (_backoff.py: default_backoff).
THEOREM OverflowAloneEndsIt == Spec => []OnlyOverflowEndsIt
<1>1. Inv => OnlyOverflowEndsIt
  BY DEF Inv, TypeOK, AttemptsEnd, OnlyOverflowEndsIt
<1> QED BY <1>1, InvIsInvariant, PTL

\* Each delay of an outage is twice the one before, up to the cap and no
\* further; a long-lived connection starts over (_backoff.py: default_backoff).
THEOREM DelaysDoubleUpToCap == Spec => DoublesUpToCap
<1> DEFINE A == alive' => delay' = IF attempt' <= 1 THEN 1
                                   ELSE IF 2 * delay < MaxDelay THEN 2 * delay
                                   ELSE MaxDelay
<1>1. Inv /\ [Next]_vars => [A]_vars
  <2> SUFFICES ASSUME Inv, NEW longLived \in BOOLEAN, Decide(longLived), alive' PROVE A
    BY DEF Next
  <2>1. /\ alive /\ attempt \in Nat
        /\ attempt' = (IF longLived THEN 0 ELSE attempt + 1) /\ attempt' \in Nat
        /\ delay' = DefaultBackoff(attempt') /\ delay' /= Raises
        /\ attempt >= 1 => delay = DefaultBackoff(attempt)
    <3>1. alive /\ attempt \in Nat /\ MaxAttempt \in Nat
      BY BackoffAssumption DEF Decide, Inv, TypeOK
    <3>2. attempt' = (IF longLived THEN 0 ELSE attempt + 1) /\ delay' = DefaultBackoff(attempt')
      BY DEF Decide
    <3>3. attempt' \in Nat
      BY <3>1, <3>2
    <3>4. delay' /= Raises
      <4>1. alive' = (delay' /= Raises)
        BY DEF Decide
      <4> QED BY <4>1
    <3>5. attempt >= 1 => delay = DefaultBackoff(attempt)
      BY <3>1 DEF Inv, DelayOfAttempt
    <3> QED BY <3>1, <3>2, <3>3, <3>4, <3>5
  <2>2. CASE attempt' <= 1
    BY <2>1, <2>2, DelayValues
  <2>3. CASE attempt' > 1
    <3>1. attempt >= 1 /\ attempt' = attempt + 1
      BY <2>1, <2>3
    <3>2. DefaultBackoff(attempt) /= Raises
      <4>1. ~(Exponent(attempt') > MaxExponent)
        BY <2>1, DelayValues
      <4>2. ~(Exponent(attempt) > MaxExponent)
        BY <2>1, <3>1, <4>1, BackoffAssumption DEF Exponent
      <4> QED BY <2>1, <4>2, DelayValues
    <3>3. delay = IF attempt <= 1 THEN 1
                  ELSE IF attempt = 2 THEN 2
                  ELSE IF attempt = 3 THEN 4
                  ELSE IF attempt = 4 THEN 8
                  ELSE IF attempt = 5 THEN 16
                  ELSE IF attempt = 6 THEN 32
                  ELSE 60
      BY <2>1, <3>1, <3>2, DelayValues
    <3>4. delay' = IF attempt' <= 1 THEN 1
                   ELSE IF attempt' = 2 THEN 2
                   ELSE IF attempt' = 3 THEN 4
                   ELSE IF attempt' = 4 THEN 8
                   ELSE IF attempt' = 5 THEN 16
                   ELSE IF attempt' = 6 THEN 32
                   ELSE 60
      BY <2>1, DelayValues
    <3> QED BY <2>1, <2>3, <3>1, <3>3, <3>4 DEF MaxDelay
  <2> QED BY <2>1, <2>2, <2>3
<1> QED BY <1>1, InvIsInvariant, PTL DEF Spec, DoublesUpToCap
============================================================================
