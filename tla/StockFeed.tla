----------------------------- MODULE StockFeed -----------------------------
(***************************************************************************)
(* The stock-feed program: every five seconds main() looks at the clock    *)
(* and starts the KIS feed when the Korean session opens, stops it when it *)
(* closes, and ends on a signal.                                           *)
(***************************************************************************)
EXTENDS FeedClient, KrxSession

CONSTANT Moments  \* the moments of the week the run passes through, in order

ASSUME MomentsAssumption == Moments \in Seq(Nat) /\ Moments # <<>>

VARIABLE now      \* the clock: an index of Moments

vars == <<feedVars, now>>

TypeOK == FeedTypeOK /\ now \in DOMAIN Moments

Init ==
    /\ FeedInit
    /\ mpc = "look"
    /\ now \in DOMAIN Moments

Advance ==
    /\ now < Len(Moments)
    /\ now' = now + 1
    /\ UNCHANGED feedVars

tradeable ==
    state_at(Moments[now]) \in {"Regular", "Closing", "PreOpen", "AfterHours"}

\* (mutant) only a stopped feed in an open session is looked for.
LookStartOnly ==
    /\ mpc = "look"
    /\ IF g_stop THEN stop("last join", "end")
       ELSE IF tradeable /\ ~running THEN start("sleep")
       ELSE mpc' = "sleep" /\ UNCHANGED <<g_stop, workVars, wsVars, cur,
                                          outVars, arrived>>
    /\ UNCHANGED now
Look ==
    /\ mpc = "look"
    /\ IF g_stop THEN stop("last join", "end")
       ELSE IF tradeable /\ ~running THEN start("sleep")
       ELSE IF ~tradeable /\ running THEN stop("joining", "sleep")
       ELSE mpc' = "sleep" /\ UNCHANGED <<g_stop, workVars, wsVars, cur,
                                          outVars, arrived>>
    /\ UNCHANGED now

WakeUp ==
    /\ mpc = "sleep"
    /\ mpc' = "look"
    /\ UNCHANGED <<g_stop, workVars, wsVars, cur, outVars, arrived, now>>

Main == \/ Look
        \/ WakeUp
        \/ Joined("joining", "sleep") /\ UNCHANGED now
        \/ Joined("last join", "end") /\ UNCHANGED now
        \/ Destroy /\ UNCHANGED now

Next ==
    \/ Advance
    \/ Main
    \/ Worker /\ UNCHANGED now
    \/ Outside /\ UNCHANGED now

Spec == Init /\ [][Next]_vars

FairSpec ==
    /\ Spec
    /\ WF_vars(Main)
    /\ WF_vars(Worker /\ UNCHANGED now)
    /\ SF_vars(Connect /\ UNCHANGED now)

-----------------------------------------------------------------------------

(* In a session that stays open the feed gets connected, unless the program is
   told to stop or stop() still waits in a silent connection; outside the
   sessions the connection does not stay open, unless it is so silent that
   stop() cannot return. *)
FollowsTheSession ==
    /\ []tradeable ~> \/ running /\ ws = "open"
                      \/ g_stop
                      \/ mpc = "joining" /\ Silent
    /\ []~tradeable ~> \/ ~running /\ thread = "none"
                       \/ g_stop
                       \/ Silent
=============================================================================
