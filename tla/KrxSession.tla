----------------------------- MODULE KrxSession -----------------------------
(***************************************************************************)
(* stock::KrxSession: which part of the Korean trading day a moment belongs *)
(* to, and how long a scheduler may sleep until that changes.  A moment is *)
(* a number of ticks of system_clock since a Sunday, 00:00 Korean time;    *)
(* times of day are minutes, as in the code.                               *)
(***************************************************************************)
EXTENDS Integers

CONSTANT PerSecond  \* ticks of system_clock in a second

ASSUME ClockAssumption == PerSecond \in Nat \ {0}

Day == 86400  \* seconds

Hm(h, m) == h * 60 + m

\* Whole seconds: what is left of a second is cut off.
to_time_t(t) == t \div PerSecond

minutes_of_day(t) == (to_time_t(t) % Day) \div 60
second(t) == to_time_t(t) % 60
wday(t) == (to_time_t(t) \div Day) % 7

is_market_day(t) == wday(t) \notin {0, 6}

States == {"Closed", "PreOpen", "Regular", "Closing", "AfterHours"}

\* (mutant) the closing auction and the pause after it are one.
SessionMerged(m) ==
    IF Hm(8, 30) <= m /\ m < Hm(9, 0) THEN "PreOpen"
    ELSE IF Hm(9, 0) <= m /\ m < Hm(15, 20) THEN "Regular"
    ELSE IF Hm(15, 20) <= m /\ m < Hm(15, 35) THEN "Closing"
    ELSE IF Hm(15, 40) <= m /\ m < Hm(18, 0) THEN "AfterHours"
    ELSE "Closed"

\* The state at minute m of a market day.
Session(m) ==
    IF Hm(8, 30) <= m /\ m < Hm(9, 0) THEN "PreOpen"
    ELSE IF Hm(9, 0) <= m /\ m < Hm(15, 20) THEN "Regular"
    ELSE IF Hm(15, 20) <= m /\ m < Hm(15, 30) THEN "Closing"
    ELSE IF Hm(15, 40) <= m /\ m < Hm(18, 0) THEN "AfterHours"
    ELSE "Closed"

state_at(t) == IF is_market_day(t) THEN Session(minutes_of_day(t)) ELSE "Closed"

boundaries == {Hm(8, 30), Hm(9, 0), Hm(15, 20), Hm(15, 30), Hm(15, 40),
               Hm(18, 0)}

\* The first boundary after minute m, or the first one of the next day.
NextBoundary(m) ==
    IF \E b \in boundaries : b > m
    THEN CHOOSE b \in boundaries :
            b > m /\ \A c \in boundaries : c > m => b <= c
    ELSE 24 * 60 + Hm(8, 30)

\* A duration in ticks, worked out from whole minutes and whole seconds: from a
\* moment within a second it reaches as far beyond the boundary.
time_until_next(t) ==
    ((NextBoundary(minutes_of_day(t)) - minutes_of_day(t)) * 60 - second(t))
        * PerSecond
=============================================================================
