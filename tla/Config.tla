-------------------------------- MODULE Config -------------------------------
(***************************************************************************)
(* config.Load, internal/config/config.go, as far as the delays of the      *)
(* dead-letter queue go: numbers of milliseconds read from the environment, *)
(* multiplied to a duration, which may overflow, and checked after that.    *)
(* That all other settings parse and pass their checks is one condition.    *)
(***************************************************************************)
EXTENDS Backoff

CONSTANT Millisecond   \* a millisecond as a duration, 10^6

ASSUME ConfigAssumption == Millisecond \in Nat \ {0}

\* time.Duration(n) * time.Millisecond
Duration(n) == Signed(n * Millisecond)

\* The settings a process starts with; one that is refused does not start.
Load(env) ==
    LET base == Duration(env.baseDelayMS)
        max  == Duration(env.maxDelayMS)
    IN  [started |-> env.restValid /\ base >= 0 /\ max >= 0, base |-> base, max |-> max]
=============================================================================
