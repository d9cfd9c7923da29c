---------------------------- MODULE TradeArchive ----------------------------
(***************************************************************************)
(* What the data warehouse promises about a trade, whatever its threads,   *)
(* windows and files do: a trade is expected, then recorded, and then its  *)
(* fate is settled once and for all - archived in some file, or lost.      *)
(***************************************************************************)
CONSTANT Trades

VARIABLE phase

PhaseNames == {"expected", "recorded", "archived", "lost"}

Init == phase = [r \in Trades |-> "expected"]

Record(r) ==
    /\ phase[r] = "expected"
    /\ phase' = [phase EXCEPT ![r] = "recorded"]

\* One rollup, or the end of the process, settles any number of trades.
Settle(kept, missed) ==
    /\ kept \cap missed = {}
    /\ \A r \in kept \cup missed : phase[r] = "recorded"
    /\ phase' = [r \in Trades |-> IF r \in kept THEN "archived"
                                  ELSE IF r \in missed THEN "lost"
                                  ELSE phase[r]]

Next ==
    \/ \E r \in Trades : Record(r)
    \/ \E kept, missed \in SUBSET Trades : Settle(kept, missed)

Spec == Init /\ [][Next]_phase
=============================================================================
