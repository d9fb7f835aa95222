--------------------------- MODULE MCPaperPosition ---------------------------
(***************************************************************************)
(* PAPER positions of two symbols under a percentage policy. Money is in   *)
(* quote units, a lot is five units of the coin, the fee 4%, the slippage  *)
(* 2%, coarse enough for every rounding to happen.                         *)
(***************************************************************************)
EXTENDS PaperPosition, TLC

MCHard == [entry |-> 2600, exposure |-> 3600, positionRisk |-> 900,
           aggregateRisk |-> 1200, daily |-> 600, weekly |-> Absent, positions |-> 2]

MCSettings ==
    [policy |-> "percentage", backstop |-> TRUE,
     hard |-> [paper |-> MCHard, live |-> MCHard],
     maxQuotePerTrade |-> 2600, maxRiskPerTrade |-> 600,
     rate |-> [entry |-> 20, exposure |-> 30, positionRisk |-> 3,
               aggregateRisk |-> 5, daily |-> 6, weekly |-> 12],
     reserveRate |-> 5, reserveQuote |-> 0, liveReserve |-> 0,
     reference |-> 6000, maxOpen |-> 2, maxDrift |-> 5,
     fee |-> 2, slippage |-> 1, slippageCap |-> 1, rewardRisk |-> 100,
     minStop |-> 2, maxStop |-> 10, maxSpread |-> 1, maxEntryDrift |-> 5,
     minQuote |-> 100, maxTranches |-> 3, maxEntriesPerDay |-> 5]

MCRequests == {AutoSize, 310, 1100}
MCSymmetry == Permutations(Symbols)

=============================================================================
