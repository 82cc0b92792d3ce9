------------------------------- MODULE Backoff -------------------------------
(***************************************************************************)
(* The retry delay of the dead-letter queue: nextDelay in                   *)
(* internal/dlq/admin.go, and the same arithmetic as a method of Worker in  *)
(* internal/dlq/worker.go, which adds a random jitter to the result.        *)
(*                                                                          *)
(* time.Duration is a signed 64-bit integer and base << k drops the bits    *)
(* that leave it.  Here the integer has Width bits, so that TLC reaches the *)
(* attempts at which the shift overflows.                                   *)
(***************************************************************************)
EXTENDS Integers

CONSTANTS Width,       \* bits of a duration (64 in the code)
          OneSecond,   \* the default of a base delay that is not positive
          FiveMinutes  \* the default of a maximum delay that is not positive

ASSUME BackoffAssumption ==
    /\ Width \in Nat \ {0}
    /\ OneSecond \in Nat \ {0}
    /\ FiveMinutes \in Nat \ {0}

\* The value of x kept in a signed integer of Width bits.
Signed(x) == ((x + 2^(Width - 1)) % 2^Width) - 2^(Width - 1)

\* Off by one: the first retry already waits twice the base.
ShiftTooFar(base, k) == Signed(base * 2^(k + 1))

\* base << k
ShiftLeft(base, k) == Signed(base * 2^k)

BaseOf(base) == IF base <= 0 THEN OneSecond ELSE base
MaxOf(max)   == IF max <= 0 THEN FiveMinutes ELSE max

\* A shift that never checks for overflow: only the upper bound is left.
ClampAboveOnly(d, base, max) == IF d > max THEN max ELSE d

\* d < base (an overflow) and d > max both give max.  Written as a membership:
\* for an integer d it says base <= d <= max.
Clamp(d, base, max) == IF d \in base .. max THEN d ELSE max

nextDelay(attempt, base, max) ==
    LET b == BaseOf(base)
        m == MaxOf(max)
        a == IF attempt < 1 THEN 1 ELSE attempt
    IN  Clamp(ShiftLeft(b, a - 1), b, m)
=============================================================================
