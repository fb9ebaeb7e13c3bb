---------------------------- MODULE SlidingWindow ----------------------------
(***************************************************************************)
(* The estimate of the rate limiter's Lua script                           *)
(* (src/src/di/rate_limiter.py): the counter of the present window plus    *)
(* the share of the previous one that a sliding window still covers.       *)
(***************************************************************************)
EXTENDS Integers

CONSTANTS
    Limit,          \* times
    Window          \* seconds

ASSUME ConfigAssumption == Limit \in Nat \ {0} /\ Window \in Nat \ {0}

\* Both sides of "estimate >= limit" times Window: exact, as rationals are.
ScaledEstimate(prev, current, elapsed) == prev * (Window - elapsed) + current * Window

\* The script computes the estimate in doubles. The previous window's share is
\* rounded unless it is 0 or the whole of prev, so a tie may compare either way; any
\* other difference is at least 1 / Window, far above the rounding error.
TieIsRounded(prev, current, elapsed) ==
    /\ ScaledEstimate(prev, current, elapsed) = Limit * Window
    /\ prev > 0
    /\ elapsed > 0

MayReject(prev, current, elapsed) ==
    ScaledEstimate(prev, current, elapsed) >= Limit * Window

\* MUTANT: the comparison is strict.
MayAdmit_Strict(prev, current, elapsed) ==
    ScaledEstimate(prev, current, elapsed) <= Limit * Window

\* MUTANT: a fixed window, the previous counter is not weighed in.
MayAdmit_FixedWindow(prev, current, elapsed) == current < Limit

MayAdmit(prev, current, elapsed) ==
    \/ ~MayReject(prev, current, elapsed)
    \/ TieIsRounded(prev, current, elapsed)

AtLeastZero(n) == IF n > 0 THEN n ELSE 0

\* MUTANT: the request itself is not counted.
Remaining_BeforeIncr(prev, current, elapsed) ==
    {AtLeastZero((Limit * Window - ScaledEstimate(prev, current, elapsed)) \div Window)}

\* math.floor(limit - new_estimate), not below 0; a whole number may be rounded down.
Remaining(prev, current, elapsed) ==
    LET left == Limit * Window - ScaledEstimate(prev, current + 1, elapsed)
    IN  {AtLeastZero(left \div Window)}
          \cup IF left % Window = 0 /\ prev > 0 /\ elapsed > 0
               THEN {AtLeastZero((left \div Window) - 1)}
               ELSE {}
=============================================================================
