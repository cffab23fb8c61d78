------------------------ MODULE FixedWindowRateLimiter ------------------------
(***************************************************************************)
(* The rate limit of the gateway's authentication endpoints:               *)
(* security/FixedWindowRateLimiter.kt, with the keys and limits of         *)
(* security/AuthRateLimitFilter.kt.  Every row of counters maps a key to a *)
(* slot that other keys may share; the estimate of a key is the least of   *)
(* its counters.  The counters are cleared when the minute is another one  *)
(* than that of the last call, and start from zero in a new process.       *)
(***************************************************************************)
EXTENDS Integers

CONSTANTS
    Keys, Kinds,       \* what requests are counted by; login, refresh, logout
    limitOf,           \* limitOf[kind]: calls per minute
    Rows, Slots,
    bucketIndexes,     \* bucketIndexes[key][row]
    IntMax,            \* Int.MAX_VALUE
    MaxMinute          \* bound: the last minute of the clock

ASSUME LimiterAssumption ==
    /\ limitOf \in [Kinds -> Int]
    /\ bucketIndexes \in [Keys -> [Rows -> Slots]]
    /\ IntMax \in Nat /\ \A kind \in Kinds : limitOf[kind] < IntMax
    /\ MaxMinute \in Nat

VARIABLES
    minute,            \* the clock
    counters,
    window,            \* activeWindowMinute, or NoWindow
    calls, total,      \* history: calls of each key, and all, in this window
    passed,            \* history: calls of a kind and key that passed in a minute
    reopened           \* history: minutes that had two windows

limiterVars == <<minute, counters, window, calls, total, passed, reopened>>

Minutes == 0..MaxMinute
NoWindow == -1
Zero == [row \in Rows |-> [slot \in Slots |-> 0]]
NoCalls == [k \in Keys |-> 0]

LimiterInit ==
    /\ minute = 0
    /\ counters = Zero /\ window = NoWindow
    /\ calls = NoCalls /\ total = 0
    /\ passed = [m \in Minutes |-> [c \in Kinds \X Keys |-> 0]]
    /\ reopened = {}

\* Mutant: the counters are never cleared.
CurrentNeverCleared == counters

\* The counters that a call finds: those of its own minute.
Current == IF window = minute THEN counters ELSE Zero

Least(k, row) ==
    \A other \in Rows :
        Current[row][bucketIndexes[k][row]] <= Current[other][bucketIndexes[k][other]]

\* Mutant: the counter is not kept at Int.MAX_VALUE.
Next1Overflows(n) == n + 1

Next1(n) == IF n = IntMax THEN IntMax ELSE n + 1

\* Mutant: only one of the least counters is raised.
RaiseOne(k, row, n) == [Current EXCEPT ![row][bucketIndexes[k][row]] = n]

\* Conservative update: counters that are high enough already stay.
Raise(k, row, n) ==
    [other \in Rows |-> [slot \in Slots |->
        IF slot = bucketIndexes[k][other] /\ Current[other][slot] < n
        THEN n ELSE Current[other][slot]]]

\* A limit that is not positive refuses without counting.
allow(kind, k, allowed) ==
    \/ limitOf[kind] <= 0 /\ ~allowed /\ UNCHANGED limiterVars
    \/ /\ limitOf[kind] > 0
       /\ \E row \in Rows :
           /\ Least(k, row)
           /\ LET next == Next1(Current[row][bucketIndexes[k][row]]) IN
              /\ counters' = Raise(k, row, next)
              /\ allowed = (next <= limitOf[kind])
       /\ window' = minute
       /\ calls' = IF window = minute THEN [calls EXCEPT ![k] = @ + 1]
                   ELSE [NoCalls EXCEPT ![k] = 1]
       /\ total' = IF window = minute THEN total + 1 ELSE 1
       /\ reopened' = IF window # minute /\ \E c \in Kinds \X Keys : passed[minute][c] > 0
                      THEN reopened \union {minute} ELSE reopened
       /\ passed' = IF allowed THEN [passed EXCEPT ![minute][<<kind, k>>] = @ + 1] ELSE passed
       /\ UNCHANGED minute

\* The clock is the system's, which may be set back.
SetClock(m) ==
    /\ minute' = m
    /\ UNCHANGED <<counters, window, calls, total, passed, reopened>>

NewLimiter ==
    /\ counters' = Zero /\ window' = NoWindow
    /\ calls' = NoCalls /\ total' = 0
    /\ UNCHANGED <<minute, passed, reopened>>

------------------------------------------------------------------------------
(* Properties.                                                             *)

LimiterTypeOK ==
    /\ minute \in Minutes /\ window \in Minutes \union {NoWindow}
    /\ counters \in [Rows -> [Slots -> 0..IntMax]]
    /\ calls \in [Keys -> Nat] /\ total \in Nat
    /\ passed \in [Minutes -> [Kinds \X Keys -> Nat]]
    /\ reopened \subseteq Minutes

\* In no minute do more calls of a kind pass for a key than its limit, whatever
\* keys share its counters and however the kinds that share a key mix, unless
\* the counting started anew within the minute.
AllowedWithinLimit ==
    \A m \in Minutes \ reopened : \A kind \in Kinds, k \in Keys :
        passed[m][<<kind, k>>] > 0 => passed[m][<<kind, k>>] <= limitOf[kind]

\* Keys that share counters do not wear each other's limit down further than
\* the calls of the minute together would: no counter exceeds their number.
NeverAboveTotal == \A row \in Rows, slot \in Slots : counters[row][slot] <= total
==============================================================================
