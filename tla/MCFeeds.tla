------------------------------ MODULE MCFeeds ------------------------------
(* The two programs around FeedClient, one at a time: stock-feed over a few *)
(* moments of a week with few frames, market-feed with more of them.        *)
EXTENDS StockFeed

CONSTANT StockFrames

VARIABLE program

Market == INSTANCE MarketFeed WITH Closes <- TRUE

At(day, h, m) == (day * Day + Hm(h, m) * 60) * PerSecond

\* Friday's closing auction, the pause, after hours and the evening; Saturday
\* in what would be the session; Monday before and in it.
MCWeekend == <<At(5, 15, 25), At(5, 15, 35), At(5, 15, 40), At(6, 10, 0),
               At(8, 8, 30)>>

stock  == program = "stock-feed"
market == program = "market-feed" /\ UNCHANGED now

MCInit ==
    \/ program = "stock-feed" /\ Init
    \/ program = "market-feed" /\ Market!Init /\ now = 1

\* A step of a part that both programs have, of one or the other.
Of(InStock, InMarket) == (stock /\ InStock) \/ (market /\ InMarket)

MCMain    == Of(Main, Market!Main)
MCConnect == Of(Connect /\ UNCHANGED now, Market!Connect)
MCWorker  == Of(Worker /\ UNCHANGED now, Market!Worker)
MCOutside == Of(Outside /\ Elements(arrived') \subseteq StockFrames
                        /\ UNCHANGED now, Market!Outside)

MCNext == /\ \/ stock /\ Advance
             \/ MCMain
             \/ MCWorker
             \/ MCOutside
          /\ UNCHANGED program

MCSpec ==
    /\ MCInit
    /\ [][MCNext]_<<vars, program>>
    /\ WF_<<vars, program>>(MCMain /\ UNCHANGED program)
    /\ WF_<<vars, program>>(MCWorker /\ UNCHANGED program)
    /\ SF_<<vars, program>>(MCConnect /\ UNCHANGED program)
=============================================================================
