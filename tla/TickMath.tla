------------------------------ MODULE TickMath ------------------------------
(***************************************************************************)
(* The integer arithmetic of concentrated liquidity that the Uniswap V3,   *)
(* Uniswap V4 and PancakeSwap V3 adapters share: prices, tick bitmap, one  *)
(* swap step.  A price is a square root of token1 per token0 in units of   *)
(* 1/One (2^96 in the code); the table of prices at ticks stands for       *)
(* getSqrtRatioAtTick.  Values stay far below the widths at which the code *)
(* reverts, so the reverts for width are left out.                         *)
(***************************************************************************)
EXTENDS Integers

CONSTANTS Ratio,           \* Ratio[t], the price at tick t
          MinTick, MaxTick,
          One, WordBits    \* 2^96 and 256 in the code

Pips == 1000000
Ticks == MinTick .. MaxTick

DivUp(a, b) == (a + b - 1) \div b
Least(a, b) == IF a < b THEN a ELSE b
Most(a, b) == IF a < b THEN b ELSE a

TickAt(price) == CHOOSE t \in Ticks :
    Ratio[t] <= price /\ \A u \in Ticks : Ratio[u] <= price => u <= t
-----------------------------------------------------------------------------
(* SqrtPriceMath.                                                          *)

Amount0(a, b, liquidity, up) ==
    LET low == Least(a, b)
        high == Most(a, b)
        product == liquidity * One * (high - low) IN
    IF up THEN DivUp(DivUp(product, high), low) ELSE (product \div high) \div low

Amount1(a, b, liquidity, up) ==
    LET product == liquidity * (Most(a, b) - Least(a, b)) IN
    IF up THEN DivUp(product, One) ELSE product \div One

\* The price after an input, rounded so that the trader never gets more.
NextPrice(price, liquidity, amount, zeroForOne) ==
    IF zeroForOne
      THEN IF amount = 0 THEN price
           ELSE DivUp(liquidity * One * price, liquidity * One + amount * price)
      ELSE price + (amount * One) \div liquidity

AmountIn(from, to, liquidity, zeroForOne) ==
    IF zeroForOne THEN Amount0(to, from, liquidity, TRUE)
                  ELSE Amount1(from, to, liquidity, TRUE)

AmountOut(from, to, liquidity, zeroForOne) ==
    IF zeroForOne THEN Amount1(to, from, liquidity, FALSE)
                  ELSE Amount0(from, to, liquidity, FALSE)
-----------------------------------------------------------------------------
(* SwapMath.computeSwapStep for an exact input: V3 recomputes the input of *)
(* a step that stops short of its target from the price it stopped at, V4  *)
(* keeps the input less the fee.                                           *)

\* The input of a step that stops at next.
ShortInV3(price, next, liquidity, zeroForOne) == AmountIn(price, next, liquidity, zeroForOne)
ShortInV4(lessFee) == lessFee

SwapStep(version, price, target, liquidity, remaining, fee) ==
    LET zeroForOne == price >= target
        lessFee == (remaining * (Pips - fee)) \div Pips
        whole == AmountIn(price, target, liquidity, zeroForOne)
        reached == lessFee >= whole
        next == IF reached THEN target
                ELSE NextPrice(price, liquidity, lessFee, zeroForOne)
        in == IF reached THEN whole
              ELSE IF version = "v4" THEN ShortInV4(lessFee)
                                     ELSE ShortInV3(price, next, liquidity, zeroForOne) IN
    [price |-> next,
     in |-> in,
     out |-> AmountOut(price, next, liquidity, zeroForOne),
     fee |-> IF ~reached THEN remaining - in
             ELSE IF fee = Pips THEN in ELSE DivUp(in * fee, Pips - fee)]

\* ProtocolFeeLibrary.calculateSwapFee: the fee of the protocol in the
\* direction of the swap, and the fee of the pool on what that leaves.
SwapFee(protocol, lp) == protocol + lp - (protocol * lp) \div Pips
-----------------------------------------------------------------------------
(* TickBitmap: a word covers WordBits multiples of the spacing.            *)

Word(tick, spacing) == (tick \div spacing) \div WordBits

WordTicks(word, spacing) ==
    {c * spacing : c \in word * WordBits .. (word + 1) * WordBits - 1}

\* The next initialized tick in the word searched, or the last of the word.
NextTick(initialized, tick, spacing, lte) ==
    LET word == IF lte THEN Word(tick, spacing)
                       ELSE (tick \div spacing + 1) \div WordBits
        ahead == IF lte THEN {t \in initialized \cap WordTicks(word, spacing) : t <= tick}
                        ELSE {t \in initialized \cap WordTicks(word, spacing) : t > tick}
        edge == IF lte THEN word * WordBits * spacing
                       ELSE ((word + 1) * WordBits - 1) * spacing IN
    [word |-> word,
     initialized |-> ahead # {},
     tick |-> IF ahead = {} THEN edge
              ELSE IF lte THEN CHOOSE t \in ahead : \A u \in ahead : u <= t
                          ELSE CHOOSE t \in ahead : \A u \in ahead : t <= u]
=============================================================================
