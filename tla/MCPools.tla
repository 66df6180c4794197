------------------------------ MODULE MCPools ------------------------------
(***************************************************************************)
(* The pools of every family, one at a time (PoolTrades), and the LitePSM  *)
(* with its binary search step by step (LitePsmTrades): a behaviour is one *)
(* of the two.  Three units of DAI to one of gem, fees in quarters and     *)
(* uint256 cut to 0..39, so that the price of four units at the full fee   *)
(* overflows; prices of nine ticks, two to a word of the bitmap.           *)
(***************************************************************************)
EXTENDS Integers, LitePsmTrades, FiniteSetsExt, TLC

CONSTANTS Ratio, MinTick, MaxTick, One, WordBits, Radius, WalkTurns,
          Precision, FeeUnit,
          AmpUnit, Turns, InputLimit, PriceScale, FeeScale, CutScale, PriceUnit,
          OracleUnit, OracleLimit, RootUnit, MinInput, MinReserve,
          Sources, Hints, Priors, Amounts, MaxFailed, MaxTrades

VARIABLES source, got, wanted, phase, pool, whole, held, trades, trading

Pool == INSTANCE PoolTrades

ASSUME PoolsAssumption == Pool!PoolTradesAssumption

poolVars == <<source, got, wanted, phase, pool, whole, held, trades>>

PoolsInit == Init /\ Pool!Init /\ trading \in {"psm", "pool"}

\* The part that does not move rests in one of its initial states.
PoolsStart == PoolsInit /\ (trading = "pool" => psm = CHOOSE s \in Loaded : TRUE)
                       /\ (trading = "psm" => source = CHOOSE s \in Sources : TRUE)

PoolsNext ==
    \/ trading = "psm" /\ Next /\ UNCHANGED <<poolVars, trading>>
    \/ trading = "pool" /\ Pool!Next /\ UNCHANGED <<vars, trading>>

\* A Python function that has been called runs on.
PoolsSpec ==
    /\ PoolsStart /\ [][PoolsNext]_<<vars, poolVars, trading>>
    /\ WF_vars(trading = "psm" /\ Search)

\* What acquisition leaves unasked, load_state does not miss (TickDependents).
AcquiredLoads == Pool!AcquiredLoads

\* A window swaps as the whole pool, or refuses, and the liquidity in range is
\* that of the ticks below (UniV3State._swap).
SwapsAsWhole == Pool!SwapsAsWhole /\ Pool!LiquidityInRange

\* No sequence of swaps on one pool is a gain (PoolState.swap).
TakerNeverGains == Pool!TraderNeverGains

\* The endpoints of the LitePSM's trades that a solver is told of are the
\* largest sale that yields DAI and the largest amount of gem that any DAI buys
\* (max_sell_gem_input, max_buy_gem_output).
EndpointsExact ==
    /\ MaxSellGemInput(psm) =
          Max({0} \cup {g \in Uint : SellGem(psm, g).ok /\ SellGem(psm, g).out > 0})
    /\ MaxBuyGemOutput(psm) =
          Max({0} \cup {BuyGem(psm, d).out : d \in {paid \in Uint : BuyGem(psm, paid).ok}})

\* A stable pool pays what it quotes, or one unit less (quote_exact_in), and a
\* LitePSM as much as its endpoints say.
QuotesHold == Pool!QuotesHold /\ (trading = "psm" /\ pc # "search" => EndpointsExact)

\* What wstETH holders and queued withdrawals are owed stays covered (_unwrap,
\* OriginLidoArmState.swap).
ClaimsCovered == Pool!ClaimsCovered
-----------------------------------------------------------------------------
MCLoaded == [tin : {0, 1, Halted}, tout : {0, 1, Wad, Halted},
             daiBuffer : 0 .. TotalDai, pocketGem : 0 .. TotalGem,
             allowance : {1, 4}]

MCMinTick == -4
MCRatio == [t \in -4 .. 4 |-> <<4, 6, 8, 11, 16, 23, 32, 45, 64>>[t + 5]]

\* Two positions that overlap, and one that ends inside the window.
Books == {(-4 :> 12) @@ (-1 :> 20) @@ (1 :> -20) @@ (4 :> -12),
          (-2 :> 30) @@ (2 :> -30)}

NetBelow(net, tick) ==
    FoldSet(LAMBDA t, sum : IF t <= tick THEN sum + net[t] ELSE sum, 0, DOMAIN net)

TickPool(version, bulk, spacing, protocol, fee, price, tick, net) ==
    [family |-> "tick", identity |-> TRUE, healthy |-> TRUE, version |-> version,
     bulk |-> bulk, spacing |-> spacing, protocol |-> protocol, fee |-> fee, price |-> price, tick |-> tick,
     liquidity |-> NetBelow(net, tick), net |-> net, words |-> {}, initialized |-> {}]

TickSources ==
    {TickPool(v, bulk, 1, IF v = "v4" THEN <<1000, 0>> ELSE <<0, 0>>,
              IF v = "v4" THEN 50000 ELSE 0, 16, tick, net) :
        v \in {"v3", "v4"}, bulk \in BOOLEAN, tick \in {0, -1}, net \in Books}
    \cup {TickPool("pancake", FALSE, 1, <<0, 0>>, 50000, 19, 0, net) : net \in Books}
    \cup {TickPool("v3", FALSE, 2, <<0, 0>>, 50000, 24, 1, (-2 :> 30) @@ (2 :> -30))}

StableSources ==
    {[family |-> "stable", identity |-> TRUE, healthy |-> TRUE, kind |-> "ng",
      balances |-> b, rates |-> <<4, 5>>, amp |-> 200, fee |-> fee, offpeg |-> 60,
      admin |-> 10, plain |-> TRUE] : b \in {<<20, 20>>, <<9, 31>>}, fee \in {0, 1}}
    \cup
    {[family |-> "stable", identity |-> TRUE, healthy |-> TRUE, kind |-> "3pool",
      balances |-> <<40, 11, 9>>, rates |-> <<4, 16, 16>>, amp |-> 2, fee |-> fee,
      offpeg |-> 0, admin |-> 10, plain |-> TRUE] : fee \in {0, 3}}

Lidos == {[family |-> "lido", identity |-> TRUE, healthy |-> TRUE, pooled |-> p,
           shares |-> 7, supply |-> 6, backing |-> 6] : p \in {9, 7, 5}}
Arms == {[family |-> "arm", identity |-> TRUE, healthy |-> TRUE, paused |-> FALSE,
          implementation |-> TRUE, rate |-> r, weth |-> 12, queued |-> q, claimed |-> 2,
          held |-> 9, pooled |-> 9, shares |-> 7]
           : r \in {<<10, 10>>, <<10, 9>>}, q \in {2, 8, 15}}
Fluids == {[family |-> "fluid", identity |-> TRUE, healthy |-> TRUE,
            precision |-> <<[up |-> 1, down |-> 1], [up |-> 2, down |-> 1]>>,
            fee |-> 10, center |-> 1000, sameBlock |-> s, lastPrice |-> 900, olderPrice |-> 900, lastCenter |-> 1000, revenue |-> 1,
            curve |-> [col |-> [real |-> <<20, 20>>, imaginary |-> <<40, 40>>],
                       debt |-> [real |-> <<12, 12>>, imaginary |-> <<25, 25>>]],
            enabled |-> [col |-> c, debt |-> TRUE], withdrawable |-> <<15, 15>>,
            borrowable |-> <<9, 9>>, paused |-> FALSE, executed |-> FALSE]
             : s \in BOOLEAN, c \in BOOLEAN}
Others ==
    {[family |-> "bebop", identity |-> TRUE, healthy |-> TRUE, sell |-> 1, amountIn |-> 4,
      amountOut |-> 5, signed |-> TRUE, historical |-> TRUE, expiry |-> 3,
      timestamp |-> 2, consumed |-> FALSE],
     [family |-> "converter", identity |-> TRUE, healthy |-> TRUE, usdsWards |-> 1,
      daiWards |-> 1, live |-> 0],
     [family |-> "psm", identity |-> TRUE, healthy |-> TRUE],
     [family |-> "wrapper", identity |-> TRUE, healthy |-> TRUE],
     [family |-> "wrapper", identity |-> FALSE, healthy |-> FALSE],
     [family |-> "v2", identity |-> TRUE, healthy |-> TRUE, reserves |-> <<3, 4>>,
      balances |-> <<3, 4>>],
     [family |-> "v2", identity |-> TRUE, healthy |-> FALSE, reserves |-> <<3, 4>>,
      balances |-> <<3, 5>>]}

MCSources == TickSources \cup StableSources \cup Lidos \cup Arms \cup Fluids \cup Others
MCPriors == {[tick |-> -3, net |-> (-2 :> 30) @@ (2 :> -30)]}
MCAmounts == [f \in {s.family : s \in MCSources} |->
                CASE f = "tick" -> {2, 9, 30}
                  [] f = "stable" -> {1, 4, 7}
                  [] f = "fluid" -> {3, 8}
                  [] OTHER -> {1, 4, 6}]
=============================================================================
