------------------------------- MODULE Venues -------------------------------
(***************************************************************************)
(* The pools of an evaluation, by kind, behind the PoolState protocol:     *)
(*   v2         a Uniswap V2 pair (UniV2State);                            *)
(*   psm        the LitePSM, DAI against gem (LitePsmState);               *)
(*   wrapper    the USDS wrapper around it (UsdsPsmWrapperState), which    *)
(*              does the LitePSM's arithmetic on the LitePSM's inventory;  *)
(*   converter  DAI to USDS and back, one for one (DaiUsdsState).          *)
(***************************************************************************)
EXTENDS Naturals

CONSTANTS Kind,        \* Kind[p], the kind of pool p
          Pair,        \* Pair[p], its two tokens; the gem second for a LitePSM
          ReserveMax, Factor, Wad, MaxUint, Halted

Psm == INSTANCE LitePsm

\* The constant-product pool with its 0.3% fee, in integers.  A state maps the
\* two tokens to reserves.  From uint112 reserves no uint256 product overflows,
\* so only the uint112 bound, ReserveMax, is kept.
FeeNumerator == 997
FeeDenominator == 1000

GetAmountOut(amountIn, reserveIn, reserveOut) ==
    (amountIn * FeeNumerator * reserveOut)
      \div (reserveIn * FeeDenominator + amountIn * FeeNumerator)

SwapReserves(reserves, tokenIn, tokenOut, amountIn) ==
    LET reserveIn == reserves[tokenIn]
        reserveOut == reserves[tokenOut]
        out == GetAmountOut(amountIn, reserveIn, reserveOut)
    IN
    IF amountIn = 0
      THEN [ok |-> TRUE, out |-> 0, next |-> reserves]
      ELSE IF /\ reserveIn \in 1 .. ReserveMax
              /\ reserveOut \in 1 .. ReserveMax
              /\ out > 0
              /\ reserveIn + amountIn <= ReserveMax
        THEN [ok |-> TRUE, out |-> out,
              next |-> [reserves EXCEPT ![tokenIn] = @ + amountIn,
                                        ![tokenOut] = @ - out]]
        ELSE [ok |-> FALSE]

\* daiIn to gem in the wrong direction is not this pool's pair.
SwapPsm(p, state, tokenIn, tokenOut, amountIn) ==
    IF <<tokenIn, tokenOut>> = Pair[p]
      THEN Psm!BuyGem(state, amountIn)
      ELSE Psm!SellGem(state, amountIn)

Convert(state, amountIn) == [ok |-> TRUE, out |-> amountIn, next |-> state]

VenueSwap(p, state, tokenIn, tokenOut, amountIn) ==
    IF ~(tokenIn # tokenOut /\ {tokenIn, tokenOut} = {Pair[p][1], Pair[p][2]})
      THEN [ok |-> FALSE]
      ELSE CASE Kind[p] = "v2" -> SwapReserves(state, tokenIn, tokenOut, amountIn)
             [] Kind[p] \in {"psm", "wrapper"} ->
                  SwapPsm(p, state, tokenIn, tokenOut, amountIn)
             [] Kind[p] = "converter" -> Convert(state, amountIn)

VenueInventory(p, state, token) ==
    IF Kind[p] = "converter" \/ token \notin {Pair[p][1], Pair[p][2]} THEN 0
    ELSE IF Kind[p] = "v2" THEN state[token]
    ELSE IF token = Pair[p][2] THEN state.pocketGem ELSE state.daiBuffer
=============================================================================
