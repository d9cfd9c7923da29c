----------------------------- MODULE MarketFeed -----------------------------
(***************************************************************************)
(* The market-feed program: main() starts the Binance feed, waits for a    *)
(* signal and stops it.                                                    *)
(***************************************************************************)
EXTENDS FeedClient

vars == feedVars

Init == FeedInit /\ mpc = "start"

Start == mpc = "start" /\ start("sleep")

Stop == mpc = "sleep" /\ g_stop /\ stop("last join", "end")

Main == \/ Start
        \/ Stop
        \/ Joined("last join", "end")
        \/ Destroy

Next == Main \/ Worker \/ Outside

Spec == Init /\ [][Next]_vars

FairSpec == Spec /\ WF_vars(Main) /\ WF_vars(Worker) /\ SF_vars(Connect)
=============================================================================
