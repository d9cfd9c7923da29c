---------------------------- MODULE MCStrategyBot ----------------------------
(* StrategyBot with a few prices: zero, two that are near to each other, and *)
(* NaN, which is compared with nothing.  Averages are rounded, so that       *)
(* different prices may have the same one.                                   *)
EXTENDS StrategyBot, FiniteSetsExt

CONSTANTS nan, x, y

MCPrices == {0, 10, 11, nan}

MCMean(seq) ==
    IF nan \in ToSet(seq) THEN nan
    ELSE FoldSeq(LAMBDA p, q : p + q, 0, seq) \div Len(seq)

MCCompare(p, q) ==
    IF nan \in {p, q} THEN "unordered"
    ELSE IF p < q THEN "less" ELSE IF p > q THEN "greater" ELSE "equal"

\* The threshold is 9.5 per cent.
MCMoves(ref, p) ==
    IF nan \in {ref, p} \/ 1000 * Max({p - ref, ref - p}) < 95 * ref THEN "no"
    ELSE IF p > ref THEN "up" ELSE "down"

MCSymmetry == Permutations({x, y})
=============================================================================
