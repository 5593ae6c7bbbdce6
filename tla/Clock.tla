------------------------------- MODULE Clock -------------------------------
(***************************************************************************)
(* SystemTime and struct timeval.  Seconds are signed numbers from         *)
(* -HalfSecs to HalfSecs - 1, a second has NanosPerSec parts and a         *)
(* microsecond NanosPerMicro of them; a SystemTime is the number of parts  *)
(* since the epoch.                                                        *)
(***************************************************************************)
EXTENDS Integers

CONSTANTS
    HalfSecs,  \* 2 ^ 63
    NanosPerSec, NanosPerMicro

ASSUME ClockAssumption ==
    /\ HalfSecs \in Nat \ {0} /\ NanosPerMicro \in Nat \ {0}
    /\ NanosPerSec \in Nat \ {0} /\ NanosPerSec % NanosPerMicro = 0

Seconds == 2 * HalfSecs
MinSec == - HalfSecs
Unsigned(s) == s % Seconds
Signed(s) == IF Unsigned(s) < HalfSecs THEN Unsigned(s) ELSE Unsigned(s) - Seconds

OutOfRange == Seconds * NanosPerSec  \* no time: the arithmetic panics

Times == MinSec * NanosPerSec .. (MinSec + Seconds) * NanosPerSec - 1

Magnitude(t) == IF t < 0 THEN - t ELSE t

SubsecNanos(t) == Magnitude(t) % NanosPerSec
SubsecMicros(t) == (Magnitude(t) % NanosPerSec) \div NanosPerMicro

\* The microseconds lose the sign; the product of the smallest time wraps, in
\* a build without overflow checks.
SystimeToTimeval(t) ==
    [tv_sec |-> Signed(Signed(Magnitude(t) \div NanosPerSec) * (IF t < 0 THEN -1 ELSE 1)),
     tv_usec |-> SubsecMicros(t)]

\* tv_sec becomes unsigned before its sign is looked at.
TimevalDuration(tv) == Unsigned(tv.tv_sec) * NanosPerSec + tv.tv_usec * NanosPerMicro

TimevalToSystime(tv) ==
    LET time == IF tv.tv_sec >= 0 THEN TimevalDuration(tv) ELSE - TimevalDuration(tv)
    IN  IF time \in Times THEN time ELSE OutOfRange

=============================================================================
