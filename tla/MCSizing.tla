------------------------------- MODULE MCSizing -------------------------------
(***************************************************************************)
(* The pure calculations, one initial state for each input: the division   *)
(* of a close (CloseDivision), a LIVE entry in one reading or two of       *)
(* configuration, market and account (LiveSizing), the realized loss of a  *)
(* session of fills (SessionLoss).                                         *)
(***************************************************************************)
EXTENDS CloseDivision, LiveSizing, SessionLoss

CONSTANTS MaxTranches, MaxHeld, MaxFills

-----------------------------------------------------------------------------
\* Inputs.

MCHoldings == UNION {[1..n -> 1..MaxHeld] : n \in 1..MaxTranches}

MCHard == [entry |-> 500, exposure |-> 900, positionRisk |-> 40,
           aggregateRisk |-> 60, daily |-> 50, weekly |-> 90, positions |-> 2]

\* config.json with each kind of policy, with and without a backstop.
SettingsOf(policy, backstop, ratio) ==
    [policy |-> policy, backstop |-> backstop,
     hard |-> [paper |-> MCHard, live |-> MCHard],
     maxQuotePerTrade |-> 480, maxRiskPerTrade |-> 40,
     rate |-> [entry |-> 40, exposure |-> 60, positionRisk |-> 2,
               aggregateRisk |-> 3, daily |-> 4, weekly |-> 8],
     reserveRate |-> 10, reserveQuote |-> 100, liveReserve |-> 100,
     reference |-> 1500, maxOpen |-> 2, maxDrift |-> 20,
     fee |-> 1, slippage |-> 1, slippageCap |-> 3, rewardRisk |-> ratio,
     minStop |-> 2, maxStop |-> 12, maxSpread |-> 2, maxEntryDrift |-> 5,
     minQuote |-> 205, maxTranches |-> 3, maxEntriesPerDay |-> 5]

MCConfigurations ==
    {SettingsOf("percentage", TRUE, 200), SettingsOf("percentage", FALSE, 150),
     SettingsOf("linear", FALSE, 200), SettingsOf("legacy", FALSE, 200)}

\* What is open of other symbols, or of the symbol itself, beside assets that no
\* entry accounts for.
MCAccounts ==
    {[free |-> free, locked |-> 0, assets |-> 400 + worth, exposure |-> worth,
      risk |-> IF worth = 0 THEN 0 ELSE risk, daily |-> 0, weekly |-> 0,
      positions |-> IF worth = 0 THEN 0 ELSE 1,
      held |-> own /\ worth > 0,
      posExposure |-> IF own THEN worth ELSE 0,
      posRisk |-> IF own /\ worth > 0 THEN risk ELSE 0,
      tranches |-> 1, accounted |-> TRUE, entriesToday |-> 0] :
        free \in {311, 900, 1700}, worth \in {0, 300}, risk \in {6, 20},
        own \in BOOLEAN}

MCMarkets == {[bid |-> ask - 1, ask |-> ask, tick |-> 2,
               step |-> IF ask = 98 THEN 1 ELSE 2, minNotional |-> 150] : ask \in {98, 102}}

MCAmounts == {AutoSize, 210, 320, 480}

\* Purchases in one part or two, with the fee in quote or in another coin.
Part1(price, fee, asset) == [price |-> price, quantity |-> 2, fee |-> fee, asset |-> asset]

Evidence == {<<Part1(4, 2, "quote")>>, <<Part1(3, 1, "quote"), Part1(5, 1, "quote")>>,
             <<Part1(3, 1, "bnb")>>, <<Part1(2, 1, "quote"), Part1(9, 1, "quote")>>}

Sales == {[side |-> "SELL", quantity |-> q, value |-> q * 4, fee |-> 1, inPeriod |-> in] :
             q \in {1, 3}, in \in BOOLEAN}

\* reconcile stores no evidence of a purchase that it cannot verify.
Bought(parts) == VerifiedFill([entry |-> 5], parts)

Fills == {[side |-> "BUY", quantity |-> Bought(parts).quantity, value |-> Bought(parts).value,
           fee |-> Bought(parts).fee, inPeriod |-> TRUE] :
             parts \in {parts \in Evidence : Bought(parts) # NoFill}} \cup Sales

MCHistories == UNION {[1..n -> Fills] : n \in 1..MaxFills}

Init == case \in CloseCases \cup EntryCases \cup LateCases \cup SessionCases

Next == UNCHANGED case

Spec == Init /\ [][Next]_case

=============================================================================
