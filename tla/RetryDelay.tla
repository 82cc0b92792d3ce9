------------------------------ MODULE RetryDelay -----------------------------
(***************************************************************************)
(* The delays of a process: two numbers of milliseconds in an environment   *)
(* that Load reads, and then the attempts of an item one after another,     *)
(* past the width of the integer.                                           *)
(***************************************************************************)
EXTENDS Config

CONSTANTS BaseMS,      \* values of DLQ_BASE_DELAY_MS
          MaxMS,       \* values of DLQ_MAX_DELAY_MS
          MaxAttempt   \* bound: attempts

ASSUME SettingsAssumption == BaseMS \subseteq Int /\ MaxMS \subseteq Int

VARIABLES env, config, attempt

delayVars == <<env, config, attempt>>

DelayInit ==
    /\ env \in [baseDelayMS : BaseMS, maxDelayMS : MaxMS, restValid : BOOLEAN]
    /\ config = Load(env)
    /\ attempt = 0

\* MarkRetry counted another failed attempt.
DelayNext ==
    /\ config.started
    /\ attempt < MaxAttempt
    /\ attempt' = attempt + 1
    /\ UNCHANGED <<env, config>>

DelaySpec == DelayInit /\ [][DelayNext]_delayVars

Delay == nextDelay(attempt, config.base, config.max)

\* Whatever the product or the shift overflows to, an item of a process that has
\* started never waits longer than the maximum delay and, unless the maximum is the
\* smaller one, never less than the base.
DelayInBounds ==
    config.started =>
        Delay <= MaxOf(config.max) /\ (Delay >= BaseOf(config.base) \/ Delay = MaxOf(config.max))

\* The delay the operator wrote, as a duration of any size; 0 is the default.
Written(n, default) == IF n = 0 THEN default ELSE n * Millisecond

\* The odd factor that is left of n.
OddPart(n) == CHOOSE o \in 1 .. n : o % 2 = 1 /\ \E z \in 0 .. Width : n = o * 2^z

\* The wait is the capped exponential min(max, base * 2^(attempt - 1)) of the delays
\* the operator wrote, whatever the attempt, when they fit in a duration and an
\* overflow of the shift cannot come out between them: what is left of base << k
\* is a multiple of the powers of two in it.  The default delays are of this kind.
DelayExact ==
    LET base == Written(env.baseDelayMS, OneSecond)
        max  == Written(env.maxDelayMS, FiveMinutes)
        exact == base * 2^(IF attempt = 0 THEN 0 ELSE attempt - 1)
    IN  config.started /\ base = Signed(base) /\ max = Signed(max) =>
            /\ base > 0 /\ max > 0
            /\ OddPart(base) * max < 2^(Width - 1) => Delay = IF exact <= max THEN exact ELSE max
=============================================================================
