----------------------------- MODULE RatePools -----------------------------
(***************************************************************************)
(* The adapters that price by a rate or an offer rather than along a curve *)
(* of their own:                                                           *)
(*   lido       the wstETH wrapper: shares of stETH at the pool's rate;    *)
(*   arm        the Origin ARM: fixed rates, behind a withdrawal queue;    *)
(*   fluid      Fluid DEX: one quote before the operation, over a          *)
(*              collateral and a debt curve;                               *)
(*   bebop      one signed offer for one amount, once;                     *)
(*   converter  DAI to USDS, behind the authority to mint either.          *)
(* The first token of a pool is 1, the second 2.                           *)
(***************************************************************************)
EXTENDS Integers

CONSTANTS InputLimit,      \* what the wrapper accepts, and a Fluid pool
          PriceScale,      \* of the ARM's rates
          FeeScale,        \* 10^6 of a Fluid fee
          CutScale,        \* 10^8 of its revenue cut
          PriceUnit,       \* 10^27 of its prices
          OracleUnit, OracleLimit,  \* 10^18, and how far the price may move
          RootUnit,        \* 10^18 under its routing root
          MinInput, MinReserve

Refuse == [ok |-> FALSE]
Filled(out, next) == [ok |-> TRUE, out |-> out, next |-> next]
Lower(a, b) == IF a < b THEN a ELSE b
Higher(a, b) == IF a < b THEN b ELSE a
Root(n) == CHOOSE r \in 0 .. Lower(n, 46340) : r * r <= n /\ n < (r + 1) * (r + 1)

\* Mutant: shares are rounded up.
SharesUp(pool, ether) == (ether * pool.shares + pool.pooled - 1) \div pool.pooled

SharesOf(pool, ether) == (ether * pool.shares) \div pool.pooled
EtherOf(pool, shares) == (shares * pool.pooled) \div pool.shares
-----------------------------------------------------------------------------
(* Lido: token 1 is stETH, token 2 is wstETH.                              *)

Wrap(pool, ether) ==
    LET minted == SharesOf(pool, ether) IN
    Filled(minted, [pool EXCEPT !.supply = @ + minted, !.backing = @ + minted])

\* The stETH paid moves back into shares: a share may stay behind.
Unwrap(pool, wrapped) ==
    LET ether == EtherOf(pool, wrapped)
        moved == SharesOf(pool, ether) IN
    IF wrapped > pool.supply \/ moved > pool.backing
      THEN Refuse
      ELSE Filled(ether, [pool EXCEPT !.supply = @ - wrapped, !.backing = @ - moved])

LidoSwap(pool, tokenIn, amount) ==
    IF amount >= InputLimit THEN Refuse
    ELSE IF tokenIn = 1 THEN Wrap(pool, amount) ELSE Unwrap(pool, amount)

LidoLoads(pool) == pool.pooled # 0 /\ pool.shares # 0
-----------------------------------------------------------------------------
(* The ARM: token 1 is WETH, token 2 is stETH.                             *)

Owed(pool) == pool.queued - pool.claimed
\* Mutant: the whole WETH balance counts as reserve.
WholeWeth(pool) == pool.weth

Reserve0(pool) == Higher(0, pool.weth - Owed(pool))
Reserve1(pool) == EtherOf(pool, pool.held)

ArmSellWeth(pool, amount) ==
    LET out == (amount * pool.rate[1]) \div PriceScale
        moved == SharesOf(pool, out) IN
    IF out > Reserve1(pool) \/ moved > pool.held
      THEN Refuse
      ELSE Filled(out, [pool EXCEPT !.weth = @ + amount, !.held = @ - moved])

ArmSellSteth(pool, amount) ==
    LET out == (amount * pool.rate[2]) \div PriceScale IN
    IF out > Reserve0(pool) \/ (Owed(pool) # 0 /\ pool.weth < Owed(pool))
      THEN Refuse
      ELSE Filled(out, [pool EXCEPT !.weth = @ - out,
                                    !.held = @ + SharesOf(pool, amount)])

ArmSwap(pool, tokenIn, amount) ==
    IF tokenIn = 1 THEN ArmSellWeth(pool, amount) ELSE ArmSellSteth(pool, amount)

\* What refuses an ARM, the identity of the implementation included.
ArmLoads(pool) ==
    /\ ~pool.paused /\ pool.implementation
    /\ pool.rate[1] # 0 /\ pool.rate[2] # 0
    /\ pool.pooled # 0 /\ pool.shares # 0
    /\ pool.claimed <= pool.queued
-----------------------------------------------------------------------------
(* Fluid: a curve is its real reserves and its imaginary ones; both are    *)
(* given here in the order of the swap, [realIn, realOut, in, out].        *)

Nothing == [realIn |-> 0, realOut |-> 0, in |-> 0, out |-> 0]

Side(pool, name, tokenIn) ==
    LET curve == pool.curve[name]
        j == 3 - tokenIn IN
    IF ~pool.enabled[name] THEN Nothing
    ELSE [realIn |-> curve.real[tokenIn], realOut |-> curve.real[j],
          in |-> curve.imaginary[tokenIn], out |-> curve.imaginary[j]]

\* Solidity divides toward zero.
TruncDiv(a, b) == IF a >= 0 THEN a \div b ELSE - ((- a) \div b)

\* How much of the input the collateral curve takes, the debt curve the rest.
Routed(pool, total, col, debt) ==
    LET rootCol == Root(col.out * col.in * RootUnit)
        rootDebt == Root(debt.out * debt.in * RootUnit)
        share == TruncDiv(debt.in * rootCol + total * rootCol - col.in * rootDebt,
                          rootCol + rootDebt) IN
    CASE ~pool.enabled.col -> 0
      [] pool.enabled.col /\ ~pool.enabled.debt -> total
      [] OTHER -> Higher(0, Lower(total, share))

CurveOut(pool, side, amount) ==
    LET paid == (amount * (FeeScale - pool.fee)) \div FeeScale IN
    IF amount = 0 THEN 0 ELSE (paid * side.out) \div (side.in + paid)

\* _verify_real_reserves: neither reserve may fall to less than a part of the other.
RealReservesHold(pool, side, tokenIn, amount, out) ==
    amount # 0 =>
      LET left == side.realOut - out
          fresh == side.realIn + amount IN
      /\ out <= side.realOut
      /\ left >= IF tokenIn = 1 THEN (fresh * pool.center) \div (PriceUnit * MinReserve)
                                ELSE (fresh * PriceUnit) \div (pool.center * MinReserve)

\* _verify_oracle_move: the curve credited with more sets the price, which may
\* not leave the previous one by more than the limit; within one block the
\* centre may not have moved either.
OracleHolds(pool, tokenIn, col, debt, colIn, colOut, debtIn, debtOut) ==
    LET cut == CutScale - pool.revenue * pool.fee
        colCredit == (colIn * cut) \div CutScale
        debtCredit == (debtIn * cut) \div CutScale
        dominant == IF colCredit > debtCredit
                      THEN [in |-> col.in, out |-> col.out, plus |-> colCredit, minus |-> colOut]
                      ELSE [in |-> debt.in, out |-> debt.out,
                            plus |-> debtCredit, minus |-> debtOut]
        in == dominant.in + dominant.plus
        out == dominant.out - dominant.minus
        price == IF tokenIn = 1 THEN (out * PriceUnit) \div in ELSE (in * PriceUnit) \div out
        previous == IF pool.sameBlock THEN pool.lastPrice ELSE pool.olderPrice
        moved == OracleUnit - (previous * OracleUnit) \div price IN
    /\ dominant.in # 0 /\ dominant.out # 0 /\ out > 0
    /\ price # 0          \* the code fails on the division
    /\ previous # 0
    /\ pool.sameBlock =>
         /\ pool.lastCenter # 0
         /\ pool.center >= ((CutScale - 1) * pool.lastCenter) \div CutScale
         /\ pool.center <= ((CutScale + 1) * pool.lastCenter) \div CutScale
    /\ moved \in - OracleLimit .. OracleLimit

\* The amounts of a token and the adjusted amounts of the curves.
Adjusted(pool, token, amount) ==
    (amount * pool.precision[token].up) \div pool.precision[token].down
Plain(pool, token, amount) ==
    (amount * pool.precision[token].down) \div pool.precision[token].up

FluidRouted(pool, tokenIn, amount, col, debt, colIn) ==
    LET j == 3 - tokenIn
        debtIn == amount - colIn
        colOut == CurveOut(pool, col, colIn)
        debtOut == CurveOut(pool, debt, debtIn)
        out == Plain(pool, j, colOut) + Plain(pool, j, debtOut) IN
    IF /\ colOut <= Adjusted(pool, j, pool.withdrawable[j])
       /\ debtOut <= Adjusted(pool, j, pool.borrowable[j])
       /\ RealReservesHold(pool, col, tokenIn, colIn, colOut)
       /\ RealReservesHold(pool, debt, tokenIn, debtIn, debtOut)
       /\ OracleHolds(pool, tokenIn, col, debt, colIn, colOut, debtIn, debtOut)
       /\ out # 0
      THEN Filled(out, [pool EXCEPT !.executed = TRUE])
      ELSE Refuse

\* swap: the state after an operation is not rebuilt, and refuses to quote.
FluidSwap(pool, tokenIn, amount) ==
    LET col == Side(pool, "col", tokenIn)
        debt == Side(pool, "debt", tokenIn)
        adjusted == Adjusted(pool, tokenIn, amount)
        empty(name, side) == pool.enabled[name] /\ (side.in = 0 \/ side.out = 0) IN
    IF \/ pool.executed \/ pool.paused
       \/ amount < MinInput \/ amount > InputLimit \/ adjusted < MinInput
       \/ adjusted > (col.in + debt.in) \div 2
       \/ empty("col", col) \/ empty("debt", debt)
      THEN Refuse
      ELSE FluidRouted(pool, tokenIn, adjusted, col, debt,
                       Routed(pool, adjusted, col, debt))

FluidLoads(pool) ==
    /\ pool.fee < FeeScale /\ pool.center # 0
    /\ pool.enabled.col \/ pool.enabled.debt
-----------------------------------------------------------------------------
(* Bebop: an offer is not scaled, and not taken twice.                     *)

BebopSwap(pool, tokenIn, amount) ==
    IF pool.consumed \/ tokenIn # pool.sell \/ amount # pool.amountIn \/ ~pool.signed
      THEN Refuse
      ELSE Filled(pool.amountOut, [pool EXCEPT !.consumed = TRUE])

\* validate_quote_for_historical_block, when the state is built for a block;
\* an archived offer for the block is all that may stand for it.
BebopLoads(pool, timestamp) ==
    /\ pool.signed /\ pool.amountIn > 0 /\ pool.amountOut > 0
    /\ pool.historical /\ timestamp < pool.expiry

-----------------------------------------------------------------------------
(* The converter: token 1 is DAI, token 2 is USDS.                         *)

ConverterSwap(pool, tokenIn, amount) ==
    IF \/ amount > InputLimit
       \/ tokenIn = 1 /\ pool.usdsWards # 1
       \/ tokenIn = 2 /\ (pool.live # 1 \/ pool.daiWards # 1)
      THEN Refuse
      ELSE Filled(amount, pool)
=============================================================================
