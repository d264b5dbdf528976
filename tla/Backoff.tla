------------------------------ MODULE Backoff ------------------------------
(***************************************************************************)
(* The default reconnect policy (websocket/_backoff.py) driven by the      *)
(* attempt counter of the supervisor: what an outage of any length makes   *)
(* of the delays.  Delays are counted in units of _INITIAL, half a second. *)
(***************************************************************************)
EXTENDS Integers

CONSTANTS
    MaxExponent,  \* the largest e for which _FACTOR ** e is a float: 1023
    MaxAttempt    \* bound on the attempts of one outage

ASSUME BackoffAssumption == MaxExponent \in Nat /\ MaxAttempt \in Nat

\* _MAX_DELAY, 30 seconds, and the first power of two above it.
MaxDelay == 60
CapExponent == 6

\* No delay: the power overflows and default_backoff raises OverflowError.
Raises == -1

VARIABLES
    attempt,  \* the supervisor's attempt counter
    delay,    \* what the policy returned last
    alive     \* is the supervise task running?

vars == <<attempt, delay, alive>>

TypeOK ==
    /\ attempt \in 0 .. MaxAttempt
    /\ delay \in 0 .. MaxDelay \cup {Raises}
    /\ alive \in BOOLEAN

Init == attempt = 0 /\ delay = 0 /\ alive = TRUE

\* max(attempt - 1, 0)
Exponent(a) == IF a > 0 THEN a - 1 ELSE 0

\* Variants: the policy takes the attempt number for the exponent; no cap.
DelayFromAttempt(a) ==
    IF a > MaxExponent THEN Raises ELSE IF a >= CapExponent THEN MaxDelay ELSE 2 ^ a
DelayUncapped(a) == 2 ^ (IF Exponent(a) > CapExponent THEN CapExponent ELSE Exponent(a))

\* default_backoff(attempt)
DefaultBackoff(a) ==
    IF Exponent(a) > MaxExponent THEN Raises
    ELSE IF Exponent(a) >= CapExponent THEN MaxDelay
    ELSE 2 ^ Exponent(a)

\* A connection ended: the attempt is reset after a long-lived one, else it
\* advances, and the policy is asked. If it raises, so does _decide_reconnect,
\* and the supervise task is gone.
Decide(longLived) ==
    /\ alive
    /\ attempt < MaxAttempt
    /\ attempt' = IF longLived THEN 0 ELSE attempt + 1
    /\ delay' = DefaultBackoff(attempt')
    /\ alive' = (delay' /= Raises)

Next == \E b \in BOOLEAN : Decide(b)

Spec == Init /\ [][Next]_vars
----------------------------------------------------------------------------
\* The delays of an outage are those of the documentation: 0.5s at first, after a
\* long-lived connection and after one that was not, then each twice the one
\* before, up to 30s and no further (default_backoff).
DoublesUpToCap ==
    [][alive' => delay' = IF attempt' <= 1 THEN 1
                          ELSE IF 2 * delay < MaxDelay THEN 2 * delay
                          ELSE MaxDelay]_vars

\* default_backoff "never gives up", short of the 1025th attempt of one outage:
\* there the power overflows before min() can cap it, and the supervise task
\* ends with the OverflowError.
OnlyOverflowEndsIt == ~alive => attempt = MaxExponent + 2
============================================================================
