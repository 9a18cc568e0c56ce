---------------------------- MODULE LoginLimiter ----------------------------
(***************************************************************************)
(* LoginRateLimiter (apps/api/src/login-rate-limiter.ts) and the login     *)
(* routes that use it: an attempt asks isBlocked, verifies the password,   *)
(* which takes a while, and then records a failure or a success.  One      *)
(* source address; the window is as long as one turn of the clock.         *)
(***************************************************************************)
EXTENDS Naturals, FiniteSets

CONSTANTS
    Attempts,           \* login requests of the source that may be under way at once
    MaxFailedAttempts,  \* maxFailedAttempts
    MaxWindows          \* bounds the clock, in windows

ASSUME LimiterAssumption == /\ IsFiniteSet(Attempts)
                           /\ MaxFailedAttempts \in Nat \ {0} /\ MaxWindows \in Nat

VARIABLES
    window,    \* the stored entry: failures, and when it began; or none
    clock,     \* in windows
    verifying, \* attempts that passed isBlocked and have not been judged
    guesses    \* per window: wrong passwords judged in it since the last success

limiterVars == <<window, clock, verifying, guesses>>

NoWindow == [failed |-> 0, began |-> 0]

LimiterInit ==
    /\ window = NoWindow /\ clock = 0 /\ verifying = {}
    /\ guesses = [t \in 0..MaxWindows |-> 0]

Expired == clock >= window.began + 1

(* isBlocked deletes an entry that has expired.                            *)
Ask(a) ==
    /\ a \notin verifying
    /\ window' = IF Expired THEN NoWindow ELSE window
    /\ verifying' = IF window'.failed >= MaxFailedAttempts THEN verifying ELSE verifying \cup {a}
    /\ UNCHANGED <<clock, guesses>>

(* recordFailure keeps the beginning of a window that still runs.          *)
\* mutant: every failure begins a new window
RecordFailure_NewWindow(a) ==
    /\ a \in verifying /\ verifying' = verifying \ {a}
    /\ window' = [failed |-> 1, began |-> clock]
    /\ guesses' = [guesses EXCEPT ![clock] = @ + 1]
    /\ UNCHANGED clock

RecordFailure(a) ==
    /\ a \in verifying /\ verifying' = verifying \ {a}
    /\ window' = IF Expired THEN [failed |-> 1, began |-> clock]
                            ELSE [window EXCEPT !.failed = @ + 1]
    /\ guesses' = [guesses EXCEPT ![clock] = @ + 1]
    /\ UNCHANGED clock

RecordSuccess(a) ==
    /\ a \in verifying /\ verifying' = verifying \ {a}
    /\ window' = NoWindow
    /\ guesses' = [guesses EXCEPT ![clock] = 0]
    /\ UNCHANGED clock

WindowPasses ==
    /\ clock < MaxWindows /\ clock' = clock + 1
    /\ UNCHANGED <<window, verifying, guesses>>

LimiterNext ==
    \/ \E a \in Attempts : Ask(a) \/ RecordFailure(a) \/ RecordSuccess(a)
    \/ WindowPasses

LimiterSpec == LimiterInit /\ [][LimiterNext]_limiterVars
-----------------------------------------------------------------------------
(* isBlocked is asked before the password is verified, so attempts under   *)
(* way together pass together: between two successes a window sees at most *)
(* as many wrong passwords as it allows, and one less than can be under    *)
(* way at once.                                                            *)
FailuresBounded ==
    /\ \A t \in 0..MaxWindows : guesses[t] < MaxFailedAttempts + Cardinality(Attempts)
    /\ window.failed < MaxFailedAttempts + Cardinality(Attempts)
=============================================================================
