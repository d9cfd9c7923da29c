----------------------------- MODULE KrxSleeper -----------------------------
(***************************************************************************)
(* A scheduler that does what krx_session.hpp:30 offers: it looks at the   *)
(* clock, notes the state, sleeps for time_until_next and looks again.     *)
(***************************************************************************)
EXTENDS KrxSession

CONSTANTS
    Tick,    \* ticks by which the clock is seen to move
    Horizon  \* bound: the clock stops here

ASSUME SleeperAssumption == Tick \in Nat \ {0} /\ Horizon \in Nat

VARIABLES
    clock,  \* the time, as the scheduler sees it
    noted,  \* state_at when the scheduler last looked
    wake    \* when it looks again

sleeperVars == <<clock, noted, wake>>

SleeperTypeOK == clock \in Nat /\ noted \in States /\ wake \in Nat

Note(t) ==
    /\ noted' = state_at(t)
    /\ wake' = t + time_until_next(t)

SleeperInit ==
    /\ clock \in 0 .. 2 * Day * PerSecond
    /\ clock <= Horizon
    /\ clock % Tick = 0
    /\ noted = state_at(clock)
    /\ wake = clock + time_until_next(clock)

\* Time passes in steps, the last second of the sleep in single ticks.
Sleep ==
    /\ clock' \in {clock + Tick} \cup (wake - PerSecond .. wake - 1)
    /\ clock < clock'
    /\ clock' < wake
    /\ clock' <= Horizon
    /\ UNCHANGED <<noted, wake>>

\* The sleep ends on time: the clock is read at `wake`.
WakeOnTime ==
    /\ clock + Tick >= wake
    /\ wake <= Horizon
    /\ clock' = wake
    /\ Note(wake)

SleeperNext == Sleep \/ WakeOnTime

SleeperSpec == SleeperInit /\ [][SleeperNext]_sleeperVars

-----------------------------------------------------------------------------

(* The scheduler oversleeps by less than a second: while it sleeps, the state it
   noted is the session's, or was so less than a second ago, over nights and
   weekends too.  time_until_next names every boundary of state_at; the part of a
   second that it cuts off (krx_session.cpp:16) is all that it is late by. *)
NotedIsCurrent ==
    /\ clock < wake
    /\ \E late \in 0 .. PerSecond - 1 : noted = state_at(clock - late)
=============================================================================
