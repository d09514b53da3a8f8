----------------------------- MODULE SlidingWindow -----------------------------
(***************************************************************************)
(* The sliding-window algorithm of the rate limiter over InMemoryBackend   *)
(* (src/araxys/rate_limit/backends.py), for the counter of one key.  No    *)
(* method of that backend suspends, so RateLimiter.check() is one step.    *)
(* Time is in ticks; the weights are multiplied out by the window.         *)
(***************************************************************************)
EXTENDS Integers, FiniteSets

CONSTANTS
    SlideLength,    \* window_seconds
    SlideLimit,     \* max_requests
    MaxSlideTime,   \* bound on the time
    MaxSlideCount   \* bound on the requests in one window

ASSUME SlideAssumption ==
    {SlideLength, SlideLimit, MaxSlideTime, MaxSlideCount} \subseteq Nat \ {0}

VARIABLES
    clock,        \* time.monotonic()
    current,      \* _counters[key]: the count, 0 if there is no entry
    began,        \* and the start of its window
    previous,     \* _prev_counts[key]
    admissions    \* history: the times of the last admissions, newest first

windowVars == <<clock, current, began, previous, admissions>>

\* As many admissions as the bound speaks of.
Latest == 1..2 * SlideLimit

WindowTypeOK ==
    /\ clock \in 0..MaxSlideTime
    /\ current \in 0..MaxSlideCount
    /\ began \in 0..clock
    /\ previous \in 0..MaxSlideCount
    /\ admissions \in [Latest -> -SlideLength..clock]

WindowInit ==
    /\ clock = 0
    /\ current = 0
    /\ began = 0
    /\ previous = 0
    /\ admissions = [i \in Latest |-> -SlideLength]

TimePasses ==
    /\ clock < MaxSlideTime
    /\ clock' = clock + 1
    /\ UNCHANGED <<current, began, previous, admissions>>

\* increment(): a window begins with the first request after the last one
\* has ended, however long ago that was.
Increment ==
    IF current > 0 /\ clock - began < SlideLength
    THEN /\ current' = current + 1
         /\ UNCHANGED <<began, previous>>
    ELSE /\ current' = 1
         /\ began' = clock
         /\ previous' = IF current > 0 THEN current ELSE previous

\* The mutant counts like a fixed window.
Estimate_Fixed(c, s, p) == c * SlideLength

\* get_sliding_count(), times the window.
Estimate(c, s, p) == c * SlideLength + p * (SlideLength - (clock - s))

CheckSlide ==
    /\ current < MaxSlideCount
    /\ Increment
    /\ admissions' =
           IF Estimate(current', began', previous') <= SlideLimit * SlideLength
           THEN [i \in Latest |-> IF i = 1 THEN clock ELSE admissions[i - 1]]
           ELSE admissions
    /\ UNCHANGED clock

WindowNext == TimePasses \/ CheckSlide

WindowSpec == WindowInit /\ [][WindowNext]_windowVars

\* No burst at a window's boundary: in a span of any length no more requests
\* are admitted than the limit and the part of it that the span has of a
\* window.
NoDoubleBurst ==
    \A n \in Latest :
        LET span == admissions[1] - admissions[n] IN
        admissions[n] > -SlideLength =>
            (n - SlideLimit) * SlideLength <= SlideLimit * span

=============================================================================
