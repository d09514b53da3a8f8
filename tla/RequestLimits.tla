------------------------------ MODULE RequestLimits ------------------------------
(***************************************************************************)
(* What counts requests and failures against a limit: the two limiters of  *)
(* src/araxys/rate_limit, the lockout of brute_force and the detector of   *)
(* account_protection/enumeration.py.  They share no state.                *)
(***************************************************************************)
EXTENDS RateLimits, SlidingWindow, BruteForce, EnumerationWatch

\* No counter lets more through than its limit, nor does the sliding window.
RatesHold == LimitsHold /\ NoDoubleBurst

\* No failure is lost from a count, and none is kept that has left its window.
FailuresCounted == LockoutHolds /\ DetectionExact

=============================================================================
